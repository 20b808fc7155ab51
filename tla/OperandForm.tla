---------------------------- MODULE OperandForm ----------------------------
(***************************************************************************)
(* The operands that are accepted, stated by what may stand beside what in *)
(* their text, without a descent into it.  Positions count from 1.         *)
(***************************************************************************)
EXTENDS Operand, Integers, FiniteSets

AllOps  == {"|", "^", "&", "+", "-", "*", "/", "%"}
Special == Blanks \cup AllOps \cup {"(", ")", "[", "]"}

\* A word is a longest run of characters that are not special.
StartsWord(t, n) == t[n] \notin Special /\ (n = 1 \/ t[n - 1] \in Special)
EndsWord(t, n, e) ==
    /\ \A k \in n .. e - 1 : t[k] \notin Special
    /\ e = Len(t) + 1 \/ t[e] \in Special

\* The digits of a base.
Tens == {"0", "1", "2", "3", "4", "5", "6", "7", "8", "9"}
DigitsOf == [base \in {2, 8, 10, 16} |->
    CASE base = 2  -> {"0", "1"}
      [] base = 8  -> Tens \ {"8", "9"}
      [] base = 10 -> Tens
      [] base = 16 -> Tens \cup {"A", "B", "C", "D", "E", "F", "a", "b", "c", "d", "e", "f"}]

\* The word from n to before e is in the notation of a base: its digits are
\* those from d on.
Notation(t, n, e, base, d) ==
    LET second == IF n + 1 < e THEN t[n + 1] ELSE "NUL"
    IN  \/ t[n] # "0" /\ base = 10 /\ d = n
        \/ t[n] = "0" /\ second \in {"x", "X"} /\ base = 16 /\ d = n + 2
        \/ t[n] = "0" /\ second = "b" /\ base = 2 /\ d = n + 2
        \/ t[n] = "0" /\ second \notin {"x", "X", "b"} /\ base = 8 /\ d = n + 1

\* It is a number: digits of its base, and one at least after a prefix.
IsNumeral(t, n, e) ==
    \E base \in {2, 8, 10, 16}, d \in n .. n + 2 :
        /\ Notation(t, n, e, base, d)
        /\ base = 8 \/ d < e
        /\ \A k \in d .. e - 1 : t[k] \in DigitsOf[base]

\* It is a register of the processor.
Spells(t, r, n) ==
    /\ arch \in registers[r].archs
    /\ \A k \in DOMAIN registers[r].name :
          n + k - 1 \in DOMAIN t /\ t[n + k - 1] = registers[r].name[k]
IsName(t, n, e) ==
    \E r \in DOMAIN registers : Spells(t, r, n) /\ e = n + Len(registers[r].name)

IsWord(t, n, e) == IsName(t, n, e) \/ IsNumeral(t, n, e)

\* Nothing but blanks is between m and n.  An operand has ended before n, or one
\* may begin there, or a bracket was closed; the parentheses and the bracket
\* that were opened.
Beside(t, m, n) == t[m] \notin Blanks /\ \A k \in m + 1 .. n - 1 : t[k] \in Blanks
OperandEnds(t, n) ==
    \E m \in 1 .. n - 1 : Beside(t, m, n) /\ t[m] \notin AllOps \cup {"(", "[", "]"}
OperandBegins(t, n) ==
    \A m \in 1 .. n - 1 : Beside(t, m, n) => t[m] \in AllOps \cup {"(", "["}
BracketEnds(t, n) == \E m \in 1 .. n - 1 : Beside(t, m, n) /\ t[m] = "]"

Count(t, n, c)  == Cardinality({k \in 1 .. n - 1 : t[k] = c})
Depth(t, n)     == Count(t, n, "(") - Count(t, n, ")")
Bracketed(t, n) == \E k \in 1 .. n - 1 : t[k] = "["

\* What stands at n goes with what is before it.
FitsAt(t, n) ==
    /\ t[n] \in AllOps \cup {")", "]"} => OperandEnds(t, n)
    /\ t[n] = "(" \/ StartsWord(t, n) => OperandBegins(t, n)
    /\ t[n] = ")" => Depth(t, n) > 0
    /\ t[n] = "]" => Depth(t, n) = 0 /\ Bracketed(t, n)
    /\ t[n] = "[" => \A k \in 1 .. n - 1 : t[k] \in Blanks

Words(t) == {w \in (DOMAIN t) \X (2 .. Len(t) + 1) :
                w[1] < w[2] /\ StartsWord(t, w[1]) /\ EndsWord(t, w[1], w[2])}

\* All of the text fits together, whatever its words are.
Composed(t) ==
    LET end == Len(t) + 1
    IN  /\ \A n \in DOMAIN t : FitsAt(t, n)
        /\ Depth(t, end) = 0
        /\ IF Bracketed(t, end) THEN BracketEnds(t, end) ELSE OperandEnds(t, end)

InForm(t) == Composed(t) /\ \A w \in Words(t) : IsWord(t, w[1], w[2])

\* The words about which evaluate_num and evaluate_register are not of one mind
\* with the notations: a number at the end of the text, the character after
\* the last digit of a base, a prefix without digits, and a register whose name
\* begins with that of one further up in the table.
PastDigits == [base \in {2, 8, 10, 16} |->
    CASE base = 2 -> {"2"} [] base = 8 -> {"8"} [] base = 10 -> {":"} [] base = 16 -> {":", "G", "g"}]
Disputed(t, n, e) ==
    \/ IsNumeral(t, n, e) /\ e = Len(t) + 1
    \/ \E base \in {2, 8, 10, 16}, d \in n .. n + 2 :
          /\ Notation(t, n, e, base, d)
          /\ (base # 8 /\ d = e) \/ \E k \in d .. e - 1 : t[k] \in PastDigits[base]
    \/ \E q, r \in DOMAIN registers :
          /\ q < r /\ Spells(t, q, n)
          /\ Spells(t, r, n) /\ e = n + Len(registers[r].name)
Settled(t) == \A w \in Words(t) : ~Disputed(t, w[1], w[2])

\* Of the arguments whose words nobody disputes, those that are a string or in
\* form are evaluated, and no other: operands and operators take turns,
\* parentheses and the one pair of brackets match, and each word is a number
\* or a register, though the functions of the descent each look at one
\* character ahead of them.  An argument that is not is the one die() is
\* called on.  With the stub no argument is an operand.
Plain(n)    == argv[n].typed \/ Settled(argv[n].raw)
Accepted(n) == argv[n].typed \/ (body = "bitor" /\ InForm(argv[n].raw))
AcceptsInfix ==
    /\ \A n \in DOMAIN argv : (outcome = "evaluated" \/ n < arg) /\ Plain(n) => Accepted(n)
    /\ outcome = "died" /\ Plain(arg) => ~Accepted(arg)
=============================================================================
