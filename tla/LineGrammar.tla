----------------------------- MODULE LineGrammar -----------------------------
(***************************************************************************)
(* The form of a source line, stated without a scanner: which separators   *)
(* a text contains, and the fields that lie between them.  parse_line has  *)
(* to agree with it, so that SourceLine's summary of a line, which         *)
(* Assembler uses, is what the pass over its characters really stores.     *)
(*                                                                         *)
(* Quotes of either kind enclose a string, in which every other character  *)
(* stands for itself.  A line that opens a bracket outside of its strings  *)
(* is given no form: parse_line refuses all of them, closed or not, unless *)
(* a comment cuts them short.                                              *)
(***************************************************************************)
EXTENDS ParseLine, FiniteSetsExt

\* The quote whose string is open behind ch, when p was open before it.
After(p, ch) == CASE p = "none" /\ ch \in Quotes -> ch
                  [] p = ch                      -> "none"
                  [] OTHER                       -> p

\* The quote whose string is open behind the first n characters of t.
Enclosing(t, n) ==
    LET open[j \in Nat] == IF j = 0 THEN "none" ELSE After(open[j-1], t[j])
    IN open[n]

Outside(t, i) == Enclosing(t, i - 1) = "none"
Separators(t, ch) == {i \in DOMAIN t : t[i] = ch /\ Outside(t, i)}
Openings(t) == {i \in DOMAIN t : t[i] \in Quotes /\ Outside(t, i)}

HasForm(t) == Separators(t, "lbracket") = {}

\* A bracket that is opened and followed by no closing one.
LeavesOpen(t) ==
    \E i \in Separators(t, "lbracket") : \A j \in i+1 .. Len(t) : t[j] # "rbracket"

EndsWith(t, ch) == t # <<>> /\ t[Len(t)] = ch
TailOf(t) == CASE EndsWith(t, "newline")   -> "newline"
               [] EndsWith(t, "semicolon") -> "comment"
               [] OTHER                    -> "eof"

\* The text before its tail occupies the positions 1 .. Stop(t) - 1.
Stop(t) == IF TailOf(t) = "eof" THEN Len(t) + 1 ELSE Len(t)

\* The first position from i on that is not blank.
SkipBlanks(t, i) == Min({j \in i .. Stop(t) : j = Stop(t) \/ t[j] # "blank"})

\* The string of the field that starts at i and is cut at e: what its quotes
\* enclose, if it has some.
IsQuoted(t, i)     == i < Stop(t) /\ t[i] \in Quotes
FieldStart(t, i)   == IF IsQuoted(t, i) THEN i + 1 ELSE i
FieldEnd(t, i, e)  == IF IsQuoted(t, i) THEN Min({j \in i+1 .. e : j = e \/ t[j] = t[i]})
                                        ELSE e
FieldText(t, i, e) == SubSeq(t, FieldStart(t, i), FieldEnd(t, i, e) - 1)

Colons(t) == Separators(t, "colon")
LabelText(t) == FieldText(t, SkipBlanks(t, 1), Min(Colons(t)))

MnemonicStart(t) ==
    SkipBlanks(t, IF Colons(t) = {} THEN 1 ELSE Min(Colons(t)) + 1)
MnemonicEnd(t) ==
    Min({j \in MnemonicStart(t) .. Stop(t) :
            j = Stop(t) \/ (t[j] = "blank" /\ Outside(t, j))})

\* An argument starts after a cut, which is the blank after the mnemonic or a
\* comma, and extends to the next one.  A line without that blank has none.
Cuts(t) == IF MnemonicEnd(t) = Stop(t) THEN {}
           ELSE {MnemonicEnd(t)} \cup Separators(t, "comma")

\* The k-th number of a set.
Nth(S, k) == CHOOSE n \in S : Cardinality({m \in S : m < n}) = k - 1

ArgStart(t, k) == SkipBlanks(t, Nth(Cuts(t), k) + 1)
ArgEnd(t, k)   == IF k = Cardinality(Cuts(t)) THEN Stop(t) ELSE Nth(Cuts(t), k + 1)

\* A quoted mnemonic makes the first argument a string as well.
ArgType(t, k) == IF IsQuoted(t, ArgStart(t, k)) \/ (k = 1 /\ IsQuoted(t, MnemonicStart(t)))
                 THEN "STRING" ELSE "UNPROCESSED"
ArgsOf(t) == [k \in 1 .. Cardinality(Cuts(t)) |->
                [type |-> ArgType(t, k), str |-> FieldText(t, ArgStart(t, k), ArgEnd(t, k))]]

Shape(t) ==
    [label    |-> IF Colons(t) = {} THEN {} ELSE {LabelText(t)},
     mnemonic |-> FieldText(t, MnemonicStart(t), MnemonicEnd(t)),
     args     |-> ArgsOf(t),
     tail     |-> TailOf(t)]

\* Where a field can start.
Starts(t) == {SkipBlanks(t, j) : j \in {1, MnemonicStart(t)} \cup {k + 1 : k \in Cuts(t)}}

\* The lines parse_line accepts: a label before the mnemonic, arguments after
\* it, no more arguments than argv holds, a string only at the start of a field
\* and closed on the line by its own kind of quote (a comment may cut it short),
\* no quoted label, no closing bracket.
WellFormed(t, argmax) ==
    /\ \A i, j \in Colons(t) : i = j
    /\ \A i \in Colons(t) :
          /\ SkipBlanks(t, 1) = i \/ t[SkipBlanks(t, 1)] \notin Quotes
          /\ \A j \in SkipBlanks(t, 1) .. i : t[j] # "blank"
    /\ \A i \in Separators(t, "comma") : i > MnemonicEnd(t)
    /\ \A i \in Openings(t) :
          /\ i \in Starts(t)
          /\ TailOf(t) = "comment" \/ \E j \in i+1 .. Stop(t) - 1 : t[j] = t[i]
    /\ Separators(t, "rbracket") = {}
    /\ ~Overflows(Shape(t), argmax)

-----------------------------------------------------------------------------
(* What parse_line makes of the text.                                      *)

\* The C string at position p of the buffer.
StringAt(p) == SubSeq(text, p, Min({e \in nul : e >= p}) - 1)

ParsedLabel    == IF label = 0 THEN {} ELSE {StringAt(label)}
ParsedMnemonic == IF mnemonic = 0 THEN <<>> ELSE StringAt(mnemonic)
ParsedArgs     == [i \in DOMAIN argv |->
                      [type |-> argv[i].type, str |-> StringAt(argv[i].str)]]

\* Of the lines that open no bracket outside of their strings, parse_line
\* accepts exactly the well-formed ones.  A line that leaves a bracket open is
\* accepted only when a comment cuts it short.
AcceptsWellFormed ==
    status # "scanning" =>
        IF HasForm(text)
        THEN status = "returned" <=> WellFormed(text, LINE_ARG_MAX)
        ELSE status = "returned" /\ LeavesOpen(text) => TailOf(text) = "comment"

\* It stores what the grammar says: the label, the mnemonic and the
\* arguments in their order, each whole, with blanks before it skipped and
\* its quotes removed, except the field that the line's tail did not end.
StoresTheLine ==
    status = "returned" /\ HasForm(text) =>
        /\ ParsedLabel = Shape(text).label
        /\ ParsedMnemonic = StoredMnemonic(Shape(text), <<>>)
        /\ ParsedArgs = StoredArgs(Shape(text))
=============================================================================
