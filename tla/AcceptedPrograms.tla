-------------------------- MODULE AcceptedPrograms --------------------------
(***************************************************************************)
(* What the program as built (EVALUATE = FALSE) decides: it enters the     *)
(* labels of its input files and looks their mnemonics up.  Here is the    *)
(* same decision stated about the text of those files as a whole, without  *)
(* a pass over it.  A place is the number of an input file and that of one *)
(* of its lines.                                                           *)
(***************************************************************************)
EXTENDS Assembler

\* main ends at the first input file that is missing.
Available == {f \in DOMAIN Inputs : \A g \in 1 .. f : Inputs[g] \in DOMAIN program}
Places    == UNION {{f} \X DOMAIN program[Inputs[f]] : f \in Available}

LineAt(p)    == program[Inputs[p[1]]][p[2]]
Before(p, q) == p[1] < q[1] \/ (p[1] = q[1] /\ p[2] < q[2])

Labelled   == {p \in Places : LineAt(p).label # {}}
LabelAt(p) == CHOOSE l \in LineAt(p).label : TRUE

\* The global labels before p, and the last of them.
Globals(p) == {q \in Labelled : Before(q, p) /\ ~LabelAt(q).local}
Scope(p)   == CHOOSE q \in Globals(p) : \A r \in Globals(p) : ~Before(q, r)

FullName(p) == IF LabelAt(p).local THEN LabelAt(Scope(p)).path \o LabelAt(p).path
               ELSE LabelAt(p).path

\* Which of the labels that of p is.
Rank(p) == Cardinality({q \in Labelled : ~Before(p, q)})

Fits(l)      == ~Overflows(l, LINE_ARG_MAX)
Exists(l)    == StoredMnemonic(l, "") # "unknown"
CleanLine(l) == Fits(l) /\ Exists(l)

Clean ==
    /\ \A p \in Places : CleanLine(LineAt(p))
    /\ \A p \in Labelled : LabelAt(p).local => Globals(p) # {}
    /\ \A p, q \in Labelled : FullName(p) = FullName(q) => p = q

\* The program ends with success on the texts without an error and on no
\* other: every line has at most the arguments argv holds and a mnemonic that
\* exists, no local label comes before the first global one, and no two
\* labels have one full name, over all input files that are read taken
\* together.
AcceptsExactlyClean == status # "running" => (status = "succeeded" <=> Clean)

\* On success the symbol table has every label of the text under its full
\* name, in the order of the text, and nothing else.
EntersEveryLabel ==
    status = "succeeded" =>
        /\ Len(symtab) = Cardinality(Labelled)
        /\ \A p \in Labelled : symtab[Rank(p)].label = FullName(p)
=============================================================================
