----------------------------- MODULE MCOperand -----------------------------
(***************************************************************************)
(* Operand for TLC: all the short texts over alphabets that make nested    *)
(* brackets, chains of operators, numbers of each base, and registers; and *)
(* the operands that are accepted, stated by a grammar of whole texts.     *)
(***************************************************************************)
EXTENDS OperandForm, SequencesExt, FiniteSetsExt

Untyped(raw) == <<[typed |-> FALSE, raw |-> raw]>>

Nested    == BoundedSeq({" ", "(", ")", "[", "]", "A"}, 5)
Chains    == BoundedSeq({"X", "|", "+", "*", "("}, 5)
Numbers   == BoundedSeq({"0", "x", "b", "2", "9", "g", " "}, 4)
Named     == BoundedSeq({"D", "P", "C", "M", "N", "E", "+"}, 3)
Operators == {<<"A", o, "B">> : o \in {"|", "^", "&", "+", "-", "*", "/", "%"}}
Deep      == {<<"(", "(", "A", "*", "B", ")", "+", "X", ")", "|", "D">>,
              <<"[", "(", "A", "+", "1", ")", "*", "(", "B", "|", "X", ")", "]">>,
              <<"A", "+", "B", "*", "X", "+", "Y", "|", "D", "&", "U">>}

\* Lines with more than one argument.
Lists == [1 .. 2 -> [typed : BOOLEAN, raw : {<<"A">>, <<"1">>, <<"[", "X", "]">>, <<"A", "]">>}]]

MCArgumentLists ==
    {Untyped(raw) : raw \in Nested \cup Chains \cup Numbers \cup Named \cup Operators \cup Deep}
        \cup Lists \cup {<<>>}

-----------------------------------------------------------------------------
TrimLeft(t)  == IF \A n \in DOMAIN t : t[n] \in Blanks THEN <<>>
                ELSE SubSeq(t, Min({n \in DOMAIN t : t[n] \notin Blanks}), Len(t))
TrimRight(t) == Reverse(TrimLeft(Reverse(t)))

\* The notations of numbers.
IsNumber(t) ==
    LET From(set, n) == n <= Len(t) /\ \A k \in n .. Len(t) : t[k] \in set
        Begins(p)    == IsPrefix(p, t)
    IN  \/ t = <<"0">> \/ (From(Tens, 1) /\ t[1] # "0")
        \/ Begins(<<"0">>) /\ From(Tens \ {"8", "9"}, 2)
        \/ (Begins(<<"0", "x">>) \/ Begins(<<"0", "X">>)) /\ From(DigitsOf[16], 3)
        \/ Begins(<<"0", "b">>) /\ From({"0", "1"}, 3)

\* The registers of the processor.
IsRegister(t) ==
    \E n \in DOMAIN registers : arch \in registers[n].archs /\ t = registers[n].name

RECURSIVE IsExpr(_)
IsExpr(t) ==
    LET u == TrimRight(TrimLeft(t))
    IN  \/ IsRegister(u) \/ IsNumber(u)
        \/ /\ Len(u) > 2 /\ u[1] = "(" /\ u[Len(u)] = ")"
           /\ IsExpr(SubSeq(u, 2, Len(u) - 1))
        \/ \E n \in DOMAIN u :
              /\ u[n] \in AllOps
              /\ IsExpr(SubSeq(u, 1, n - 1)) /\ IsExpr(SubSeq(u, n + 1, Len(u)))

IsOperand(t) ==
    LET u == TrimRight(TrimLeft(t))
    IN  \/ IsExpr(u)
        \/ /\ Len(u) > 2 /\ u[1] = "[" /\ u[Len(u)] = "]"
           /\ IsExpr(SubSeq(u, 2, Len(u) - 1))

\* Of the arguments whose words nobody disputes, the operands of the grammar
\* are evaluated, and no other; one that is none is the one die() is called
\* on.  With the stub no argument is an operand.
AcceptsOperands ==
    LET Good(n) == argv[n].typed \/ (body = "bitor" /\ IsOperand(argv[n].raw))
    IN  /\ \A n \in DOMAIN argv : (outcome = "evaluated" \/ n < arg) /\ Plain(n) => Good(n)
        /\ outcome = "died" /\ Plain(arg) => ~Good(arg)

-----------------------------------------------------------------------------
(* What the comments, the manual and the tests say of the disputed words.  *)

\* "\s*(<paren>|<num>|<register>|<symbol>)\s*" is a term: an operand that is just
\* a number, like that of the tests' ADCA 3 and adca 0x5, or just a register of
\* the processor is evaluated, and one that starts like a number only if it is
\* one, with digits of its base and of no other.
ReadsTerms ==
    \A n \in DOMAIN argv : ~argv[n].typed =>
        LET word == TrimRight(TrimLeft(argv[n].raw))
        IN  /\ outcome = "died" /\ n = arg => ~IsNumber(word) /\ ~IsRegister(word)
            /\ outcome = "evaluated" /\ ToSet(word) \cap Special = {} =>
                  IsNumber(word) \/ word[1] \notin Tens
=============================================================================
