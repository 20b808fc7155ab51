------------------------------ MODULE Operand ------------------------------
(***************************************************************************)
(* The operands of an instruction, as the motorola syntax reads them: the  *)
(* loop of evaluate_motorola_args over the arguments of a line, and the    *)
(* recursive descent of evaluate_start, evaluate_indirect (motorola.c) and *)
(* of the functions of syntax/common.c below them.                         *)
(*                                                                         *)
(* A C function that calls another is a frame of the stack.  It is called  *)
(* with a pointer into the text and returns how many characters it has     *)
(* consumed, 0 when it does not match; a frame holds the place it was      *)
(* called with, the place it has reached and the call it waits for.  The   *)
(* functions that call no other are operators.                             *)
(*                                                                         *)
(* evaluate_expr is a stub that matches nothing: its call of evaluate_bitor *)
(* is commented out.  Both bodies are modelled, told apart by "body".      *)
(* Nothing is stored yet (the results are TODOs), so there is none here.   *)
(***************************************************************************)
EXTENDS Naturals, Sequences

CONSTANTS
    ArgumentLists,  \* the values of argv: sequences of [typed, raw]
    Archs,          \* the processors chosen with -m
    Bodies          \* of evaluate_expr: subset of {"stub", "bitor"}

ASSUME OperandAssumption ==
    /\ \A a \in ArgumentLists : a \in Seq([typed : BOOLEAN, raw : Seq(STRING)])
    /\ \A a \in ArgumentLists : \A n \in DOMAIN a : \A p \in DOMAIN a[n].raw :
          a[n].raw[p] # "NUL"
    /\ Bodies \subseteq {"stub", "bitor"}

VARIABLES
    argv,      \* the arguments of the line, as parse_line left them
    arch,      \* g_config.arch
    body,      \* what evaluate_expr was compiled to
    arg,       \* i of evaluate_motorola_args
    stack,     \* the calls that have not returned, outermost first
    consumed,  \* what the last call returned
    outcome    \* "running", "evaluated", or "died"

vars   == <<argv, arch, body, arg, stack, consumed, outcome>>
inputs == <<argv, arch, body>>

\* Definitions named ...Bug are slips one could make in the code, each put in
\* the place of the definition after it to see which property notices.

-----------------------------------------------------------------------------
(* The text of the argument.  Positions count from 1; the NUL is at the    *)
(* position after the last character, and nothing after it may be read.    *)

Text    == argv[arg].raw
End     == Len(Text) + 1
Char(p) == IF p \in DOMAIN Text THEN Text[p] ELSE "NUL"

\* The first position from p on whose character is not in set.
After(p, set) ==
    CHOOSE n \in p .. End : Char(n) \notin set /\ \A k \in p .. n - 1 : Char(k) \in set

Blanks  == {" ", "\t"}
Skip(p) == After(p, Blanks)

-----------------------------------------------------------------------------
(* evaluate_num and evaluate_register, which return consumed characters.   *)

\* inrange() includes the upper bound, so that each range of digits holds
\* the character that follows the last digit of the base.
Digits == [base \in {2, 8, 10, 16} |->
    CASE base = 2  -> {"0", "1", "2"}
      [] base = 8  -> {"0", "1", "2", "3", "4", "5", "6", "7", "8"}
      [] base = 10 -> {"0", "1", "2", "3", "4", "5", "6", "7", "8", "9", ":"}
      [] base = 16 -> {"0", "1", "2", "3", "4", "5", "6", "7", "8", "9", ":",
                       "A", "B", "C", "D", "E", "F", "G",
                       "a", "b", "c", "d", "e", "f", "g"}]

\* The base of the number at p and where its digits start.
Prefix(p) ==
    IF Char(p) # "0" THEN [base |-> 10, digits |-> p]
    ELSE IF Char(p + 1) \in {"x", "X"} THEN [base |-> 16, digits |-> p + 2]
    ELSE IF Char(p + 1) = "b" THEN [base |-> 2, digits |-> p + 2]
    ELSE [base |-> 8, digits |-> p + 1]

NumBug1(p) ==
    LET prefix == Prefix(Skip(p))
        end    == After(prefix.digits, Digits[prefix.base])
    IN  IF Char(end) = "NUL" THEN end + 1 - p ELSE Skip(end) - p

\* A number that reaches the end of the text is none.
Num(p) ==
    LET prefix == Prefix(Skip(p))
        end    == After(prefix.digits, Digits[prefix.base])
    IN  IF Char(end) = "NUL" THEN 0 ELSE Skip(end) - p

Register(name, both) ==
    [name |-> name, archs |-> IF both THEN {"MC6809", "HD6309"} ELSE {"HD6309"}]

registers == <<
    Register(<<"N", "O", "N", "E">>, TRUE),
    Register(<<"A">>, TRUE), Register(<<"B">>, TRUE), Register(<<"D">>, TRUE),
    Register(<<"X">>, TRUE), Register(<<"Y">>, TRUE), Register(<<"U">>, TRUE),
    Register(<<"S">>, TRUE), Register(<<"P", "C">>, TRUE),
    Register(<<"E">>, FALSE), Register(<<"F">>, FALSE), Register(<<"W">>, FALSE),
    Register(<<"Q">>, FALSE), Register(<<"V">>, FALSE), Register(<<"Z">>, FALSE),
    Register(<<"D", "P">>, TRUE), Register(<<"C", "C">>, TRUE),
    Register(<<"M", "D">>, FALSE) >>

NameAt(n, p) ==
    /\ arch \in registers[n].archs
    /\ \A k \in DOMAIN registers[n].name : Char(p + k - 1) = registers[n].name[k]

\* The first register of the table whose name starts at p.
RegisterAt(p) ==
    LET found == {n \in DOMAIN registers : NameAt(n, p)}
        first == CHOOSE n \in found : \A m \in found : n <= m
    IN  IF found = {} THEN 0 ELSE Len(registers[first].name)

-----------------------------------------------------------------------------
(* Calls and returns.                                                      *)

Levels == {"bitor", "bitxor", "bitand", "additive", "multiplicative"}

\* The function BINARY_OPERATOR(name, next, operators) calls for its operands.
NextOf == [level \in Levels |->
    CASE level = "bitor"          -> "bitxor"
      [] level = "bitxor"         -> "bitand"
      [] level = "bitand"         -> "additive"
      [] level = "additive"       -> "multiplicative"
      [] level = "multiplicative" -> "term"]

Ops == [level \in Levels |->
    CASE level = "bitor"          -> {"|"}
      [] level = "bitxor"         -> {"^"}
      [] level = "bitand"         -> {"&"}
      [] level = "additive"       -> {"+", "-"}
      [] level = "multiplicative" -> {"*", "/", "%"}]

Functions == Levels \cup {"args", "start", "indirect", "paren", "term"}
Steps     == {"begin", "indirect", "expr", "left", "right", "paren", "start"}
Positions == 1 .. End
Frames    == [fn : Functions, from : Positions, at : Positions, step : Steps]

Called(fn, p) == [fn |-> fn, from |-> p, at |-> p, step |-> "begin"]
Top           == stack[Len(stack)]
At(fn, step)  == outcome = "running" /\ Top.fn = fn /\ Top.step = step

\* The stack when the function on top has come to p and waits at step.
Moved(p, step) ==
    [stack EXCEPT ![Len(stack)] = [fn |-> Top.fn, from |-> Top.from, at |-> p, step |-> step]]

Call(fn, p, step) ==
    /\ stack' = Append(Moved(p, step), Called(fn, p))
    /\ UNCHANGED consumed

Return(n) ==
    /\ stack' = SubSeq(stack, 1, Len(stack) - 1)
    /\ consumed' = n

ReturnAt(p) == Return(p - Top.from)
Mismatch    == Return(0)

CallExpr(p) ==
    IF body = "stub" THEN stack' = Moved(p, "expr") /\ consumed' = 0
                     ELSE Call("bitor", p, "expr")

Reached == Top.at + consumed
Goes    == UNCHANGED <<inputs, arg, outcome>>

-----------------------------------------------------------------------------
(* evaluate_motorola_args.                                                 *)

Init ==
    /\ argv \in ArgumentLists /\ arch \in Archs /\ body \in Bodies
    /\ arg = 1 /\ stack = <<Called("args", 1)>> /\ consumed = 0
    /\ outcome = "running"

SkipTypedBug ==
    /\ At("args", "begin") /\ arg <= Len(argv)
    /\ argv[arg].typed
    /\ arg' = arg
    /\ UNCHANGED <<inputs, stack, consumed, outcome>>

\* The type of a string was set by parse_line.
SkipTyped ==
    /\ At("args", "begin") /\ arg <= Len(argv)
    /\ argv[arg].typed
    /\ arg' = arg + 1
    /\ UNCHANGED <<inputs, stack, consumed, outcome>>

EvaluateArg ==
    /\ At("args", "begin") /\ arg <= Len(argv)
    /\ ~argv[arg].typed
    /\ Call("start", 1, "start")
    /\ Goes

CompleteBug ==
    /\ At("args", "start")
    /\ IF consumed # 0
       THEN arg' = arg + 1 /\ stack' = <<Called("args", 1)>> /\ outcome' = outcome
       ELSE outcome' = "died" /\ UNCHANGED <<arg, stack>>
    /\ UNCHANGED <<inputs, consumed>>

\* The operand must match, and to its end, or die() is called.
Complete ==
    /\ At("args", "start")
    /\ IF consumed # 0 /\ consumed = Len(Text)
       THEN arg' = arg + 1 /\ stack' = <<Called("args", 1)>> /\ outcome' = outcome
       ELSE outcome' = "died" /\ UNCHANGED <<arg, stack>>
    /\ UNCHANGED <<inputs, consumed>>

EndArgs ==
    /\ At("args", "begin") /\ arg > Len(argv)
    /\ outcome' = "evaluated"
    /\ UNCHANGED <<inputs, arg, stack, consumed>>

-----------------------------------------------------------------------------
(* evaluate_start.                                                         *)

TryIndirect == At("start", "begin") /\ Call("indirect", Skip(Top.at), "indirect") /\ Goes

TryExpr ==
    /\ At("start", "indirect") /\ consumed = 0
    /\ CallExpr(Top.at)
    /\ Goes

EndStart ==
    /\ At("start", "expr") \/ (At("start", "indirect") /\ consumed # 0)
    /\ IF consumed = 0 THEN Mismatch ELSE ReturnAt(Skip(Reached))
    /\ Goes

-----------------------------------------------------------------------------
(* evaluate_indirect and evaluate_paren: an expression in brackets.        *)

Opening == [indirect |-> "[", paren |-> "("]
Closing == [indirect |-> "]", paren |-> ")"]

\* (la->type is never set here: the loop over the arguments sees to it, and
\* the die() of evaluate_indirect on it is left out.)
OpenBracket ==
    /\ \E fn \in {"indirect", "paren"} : At(fn, "begin")
    /\ LET p == Skip(Top.at)
       IN  IF Char(p) = Opening[Top.fn] THEN CallExpr(Skip(p + 1)) ELSE Mismatch
    /\ Goes

CloseBracketBug ==
    /\ \E fn \in {"indirect", "paren"} : At(fn, "expr")
    /\ LET p == Skip(Reached)
       IN  IF Char(p) # Closing[Top.fn] THEN Mismatch
           ELSE ReturnAt(IF Top.fn = "indirect" THEN Skip(p + 1) ELSE p + 1)
    /\ Goes

CloseBracket ==
    /\ \E fn \in {"indirect", "paren"} : At(fn, "expr")
    /\ LET p == Skip(Reached)
       IN  IF consumed = 0 \/ Char(p) # Closing[Top.fn] THEN Mismatch
           ELSE ReturnAt(IF Top.fn = "indirect" THEN Skip(p + 1) ELSE p + 1)
    /\ Goes

-----------------------------------------------------------------------------
(* The functions BINARY_OPERATOR defines, and evaluate_term.               *)

LeftOperand ==
    /\ \E level \in Levels : At(level, "begin")
    /\ Call(NextOf[Top.fn], Skip(Top.at), "left")
    /\ Goes

FindOperatorBug ==
    /\ \E level \in Levels : At(level, "left")
    /\ LET p == Skip(Reached)
       IN  IF consumed = 0 THEN Mismatch
           ELSE IF Char(p) \in Ops[Top.fn] THEN Call("bitor", Skip(p + 1), "right")
           ELSE ReturnAt(p)
    /\ Goes

\* The right operand is read by the level of the operator itself: operators
\* of one level group from the right.
FindOperator ==
    /\ \E level \in Levels : At(level, "left")
    /\ LET p == Skip(Reached)
       IN  IF consumed = 0 THEN Mismatch
           ELSE IF Char(p) \in Ops[Top.fn] THEN Call(Top.fn, Skip(p + 1), "right")
           ELSE ReturnAt(p)
    /\ Goes

RightOperand ==
    /\ \E level \in Levels : At(level, "right")
    /\ IF consumed = 0 THEN Mismatch ELSE ReturnAt(Skip(Reached))
    /\ Goes

TermParen == At("term", "begin") /\ Call("paren", Skip(Top.at), "paren") /\ Goes

\* A parenthesis, or else a number, or else a register.
EndTerm ==
    /\ At("term", "paren")
    /\ LET n == IF consumed # 0 THEN consumed
                ELSE IF Num(Top.at) # 0 THEN Num(Top.at)
                ELSE RegisterAt(Top.at)
       IN  IF n = 0 THEN Mismatch ELSE ReturnAt(Top.at + n)
    /\ Goes

\* evaluate_motorola_args has returned, or the program has ended.
Ended == outcome # "running" /\ UNCHANGED vars

-----------------------------------------------------------------------------
Args     == SkipTyped \/ EvaluateArg \/ Complete \/ EndArgs
Motorola == TryIndirect \/ TryExpr \/ EndStart
Common   == \/ OpenBracket \/ CloseBracket
            \/ LeftOperand \/ FindOperator \/ RightOperand
            \/ TermParen \/ EndTerm
Next     == Args \/ Motorola \/ Common \/ Ended

Spec == Init /\ [][Next]_vars /\ WF_vars(Next)

-----------------------------------------------------------------------------
\* The functions stay inside the text they are given: none gets past the NUL,
\* each starts where the one that called it has come to, and what one returns
\* does not take its caller past the NUL either.
StaysInText ==
    arg <= Len(argv) =>
        /\ \A n \in DOMAIN stack : stack[n] \in Frames /\ stack[n].from <= stack[n].at
        /\ \A n \in 2 .. Len(stack) : stack[n].from = stack[n - 1].at
        /\ Top.step # "begin" => Reached \in Positions

Rank == [level \in Levels |->
    CASE level = "bitor"          -> 1
      [] level = "bitxor"         -> 2
      [] level = "bitand"         -> 3
      [] level = "additive"       -> 4
      [] level = "multiplicative" -> 5]

\* An operator is only read inside the operands of operators that bind less
\* tightly, or as tightly when it is in the right one: it is what makes the
\* calls group a * b + c as (a * b) + c.
NestsByPrecedence ==
    \A n \in 2 .. Len(stack) :
        LET inner == stack[n]
            outer == stack[n - 1]
        IN  inner.fn \in Levels /\ outer.fn \in Levels =>
                \/ Rank[outer.fn] < Rank[inner.fn] /\ outer.step = "left"
                \/ outer.fn = inner.fn /\ outer.step = "right"

\* The evaluation of the operands of a line ends.
Terminates == <>(outcome # "running")
=============================================================================
