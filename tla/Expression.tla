----------------------------- MODULE Expression -----------------------------
(***************************************************************************)
(* parse_expression (arithmetic.c): the shunting yard that turns the text  *)
(* of an argument into a list of tokens in postfix order.                  *)
(*                                                                         *)
(* The text is given as it is read: a word (a run of characters that are   *)
(* neither blank nor operator), a blank, an operator, or its end.  A word  *)
(* becomes an operand when the character after it is read, of the type     *)
(* strtod and strtol make of it.  One step is one character, or one turn   *)
(* of a loop over the operator stack.  Tokens are values here;      *)
(* TokenLists has their memory.                                            *)
(***************************************************************************)
EXTENDS Integers, Sequences, FiniteSets

CONSTANTS
    Words,      \* the operands that occur
    Kind,       \* type of each, "none" when it is no number and no name
    Operators,  \* the operators that occur, parentheses included
    LONGEST     \* bound on the number of words, blanks and operators

Precedence == [o \in {"(", ")", "/", "*", "%", "+", "-", "^", "&", "|"} |->
                 CASE o \in {"(", ")"}      -> 0
                   [] o \in {"/", "*", "%"} -> 1
                   [] o \in {"+", "-"}      -> 2
                   [] o = "^"               -> 3
                   [] o = "&"               -> 4
                   [] o = "|"               -> 5]

Kinds == {"DOUBLE", "LONG", "SYMBOL", "none"}

ASSUME LexiconAssumption ==
    /\ Operators \subseteq DOMAIN Precedence /\ Kind \in [Words -> Kinds]
    /\ Words \cap (DOMAIN Precedence \cup {"blank"}) = {}
    /\ LONGEST \in Nat

VARIABLES
    text,    \* what has been read of expr
    word,    \* the word that starts at buffer, <<>> when buffer_size is 0
    op,      \* operator being handled, <<>> between two characters
    out,     \* the output stack, bottom first
    ops,     \* the operator stack, bottom first
    status   \* "scanning", "draining", "success", an error, or "crashed"

vars == <<text, word, op, out, ops, status>>

\* Definitions named ...Bug are slips one could make in the code, each put in
\* the place of the definition after it to see which property notices.

Operand(w)  == [type |-> Kind[w], value |-> w]
Operator(o) == [type |-> "OPERATOR", value |-> o]

Init ==
    /\ text = <<>> /\ word = <<>> /\ op = <<>>
    /\ out = <<>> /\ ops = <<>>
    /\ status = "scanning"

Reading(ch) ==
    /\ status = "scanning" /\ op = <<>>
    /\ Len(text) < LONGEST
    /\ text' = Append(text, ch)

\* The word before the current character can be converted, or there is none.
Converts == word # <<>> => Kind[word[1]] # "none"

\* It goes to the output.
EndWord ==
    /\ Converts
    /\ out' = IF word = <<>> THEN out ELSE Append(out, Operand(word[1]))
    /\ word' = <<>>

ReadWord ==
    /\ word = <<>>
    /\ \E w \in Words : Reading(w) /\ word' = <<w>>
    /\ UNCHANGED <<op, out, ops, status>>

ReadBlank ==
    /\ Reading("blank") /\ EndWord
    /\ UNCHANGED <<op, ops, status>>

ReadOperator ==
    /\ \E o \in Operators : Reading(o) /\ op' = <<o>>
    /\ EndWord
    /\ UNCHANGED <<ops, status>>

ReadEndBug ==
    /\ status = "scanning" /\ op = <<>> /\ Converts
    /\ status' = "draining" /\ word' = <<>>
    /\ UNCHANGED <<text, op, out, ops>>

ReadEnd ==
    /\ status = "scanning" /\ op = <<>>
    /\ EndWord
    /\ status' = "draining"
    /\ UNCHANGED <<text, op, ops>>

CannotParseToken ==
    /\ status = "scanning" /\ op = <<>> /\ ~Converts
    /\ status' = "CANNOT_PARSE_TOKEN"
    /\ UNCHANGED <<text, word, op, out, ops>>

-----------------------------------------------------------------------------
(* The operator stack.                                                     *)

Top == ops[Len(ops)]
Pop == ops' = SubSeq(ops, 1, Len(ops) - 1)

\* The operator on top goes to the output.
Yield == Pop /\ out' = Append(out, Operator(Top))

LeavesBug1(o) == ops # <<>> /\ Precedence[Top] > Precedence[o] /\ Top # "("
LeavesBug2(o) == ops # <<>> /\ Precedence[Top] <= Precedence[o] /\ Top # "("

\* An operator of at least the precedence of o leaves the stack before o is
\* pushed, up to the parenthesis that is open.
Leaves(o) == ops # <<>> /\ Precedence[Top] >= Precedence[o] /\ Top # "("

YieldHigher ==
    /\ op # <<>> /\ op[1] \notin {"(", ")"}
    /\ Leaves(op[1])
    /\ Yield
    /\ UNCHANGED <<text, word, op, status>>

Push ==
    /\ op # <<>> /\ op[1] # ")"
    /\ op[1] # "(" => ~Leaves(op[1])
    /\ ops' = Append(ops, op[1]) /\ op' = <<>>
    /\ UNCHANGED <<text, word, out, status>>

Closing == status = "scanning" /\ op = <<")">>

\* The loop of ')' yields up to the open parenthesis.  The end of the stack
\* is looked for after an operator was taken off, not before the first.
YieldEnclosed ==
    /\ Closing /\ ops # <<>> /\ Top # "("
    /\ Yield
    /\ status' = IF ops' = <<>> THEN "UNMATCHED_PARENTHESIS" ELSE status
    /\ UNCHANGED <<text, word, op>>

Close ==
    /\ Closing /\ ops # <<>> /\ Top = "("
    /\ Pop /\ op' = <<>>
    /\ UNCHANGED <<text, word, out, status>>

\* op_stack_top is NULL when its operator is read.
CloseNothing ==
    /\ Closing /\ ops = <<>>
    /\ status' = "crashed"
    /\ UNCHANGED <<text, word, op, out, ops>>

\* The loop after the last character.
YieldRest ==
    /\ status = "draining" /\ ops # <<>> /\ Top # "("
    /\ Yield
    /\ UNCHANGED <<text, word, op, status>>

LeftOpenBug ==
    /\ status = "draining" /\ ops # <<>> /\ Top = "("
    /\ Pop
    /\ UNCHANGED <<text, word, op, out, status>>

LeftOpen ==
    /\ status = "draining" /\ ops # <<>> /\ Top = "("
    /\ status' = "UNMATCHED_PARENTHESIS"
    /\ UNCHANGED <<text, word, op, out, ops>>

Succeed ==
    /\ status = "draining" /\ ops = <<>>
    /\ status' = "success"
    /\ UNCHANGED <<text, word, op, out, ops>>

\* parse_expression has returned.
Returned == status \notin {"scanning", "draining"} /\ UNCHANGED vars

-----------------------------------------------------------------------------
Read == ReadWord \/ ReadBlank \/ ReadOperator \/ ReadEnd \/ CannotParseToken
Sort == \/ YieldHigher \/ Push
        \/ YieldEnclosed \/ Close \/ CloseNothing
        \/ YieldRest \/ LeftOpen \/ Succeed
Next == Read \/ Sort \/ Returned

Spec == Init /\ [][Next]_vars

-----------------------------------------------------------------------------
Lexemes == Words \cup Operators \cup {"blank"}
Pushed  == Operators \ {")"}
Tokens  == {Operand(w) : w \in Words} \cup {Operator(o) : o \in Pushed \ {"("}}

TypeOK ==
    /\ text \in Seq(Lexemes) /\ Len(text) <= LONGEST
    /\ word = <<>> \/ \E w \in Words : word = <<w>>
    /\ op = <<>> \/ \E o \in Operators : op = <<o>>
    /\ out \in Seq(Tokens)
    /\ ops \in Seq(Pushed)
    /\ status \in {"scanning", "draining", "success", "CANNOT_PARSE_TOKEN",
                   "UNMATCHED_PARENTHESIS", "crashed"}

\* Between two parentheses of the stack each operator stands on one of lower
\* precedence: it is what lets YieldHigher and the loops that empty the stack
\* output the operators in the right order by looking at the top alone.
StackAscends ==
    \A n \in 2 .. Len(ops) :
        ops[n] # "(" => Precedence[ops[n - 1]] < Precedence[ops[n]]

\* The parentheses that are open after n characters of t.
Count(t, n, ch) == Cardinality({i \in 1 .. n : t[i] = ch})
Depth(t, n)     == Count(t, n, "(") - Count(t, n, ")")
Balanced(t)     == Depth(t, Len(t)) = 0 /\ \A n \in DOMAIN t : Depth(t, n) >= 0

\* The texts with matching parentheses, and no others, are accepted, though
\* the two loops that look for a partner stop at different ends of the stack.
AcceptsBalanced ==
    status \notin {"scanning", "draining", "CANNOT_PARSE_TOKEN"} =>
        (status = "success" <=> Balanced(text))

\* The operands and operators of t, and what each becomes.
Terms(t)    == {n \in DOMAIN t : t[n] \notin {"blank", "(", ")"}}
TokenOf(ch) == IF ch \in Words THEN Operand(ch) ELSE Operator(ch)

\* The right operand of the operator at i can end before e: there the text
\* ends, or the parentheses around it close, or an operator follows beside it
\* that does not bind more tightly.
Ends(t, i, e) ==
    \/ e = Len(t) + 1
    \/ t[e] = ")" /\ Depth(t, e) < Depth(t, i)
    \/ /\ t[e] \in Operators \ {"(", ")"} /\ Depth(t, e) = Depth(t, i)
       /\ Precedence[t[e]] <= Precedence[t[i]]

\* It ends at the first of these places; an operand ends where it is.
TermEnd(t, i) ==
    IF t[i] \in Words THEN i
    ELSE CHOOSE e \in i+1 .. Len(t) + 1 : Ends(t, i, e) /\ \A d \in i+1 .. e-1 : ~Ends(t, i, d)

\* Each term of t after its end.  In postfix order one comes before another
\* that ends later, or that ends together with it and has it inside.
TermsOf(t)   == {<<TermEnd(t, i), i>> : i \in Terms(t)}
Sooner(a, b) == a[1] < b[1] \/ (a[1] = b[1] /\ a[2] > b[2])

\* What is returned has every operand and operator of the text once, each
\* operator behind all of its right operand and before whatever follows that,
\* though the loop that yields operators only looks at the top of the stack.
ReturnsInOrder ==
    status = "success" =>
        LET terms == TermsOf(text)
        IN  /\ Len(out) = Cardinality(terms)
            /\ \A a \in terms :
                  out[Cardinality({b \in terms : Sooner(b, a)}) + 1] = TokenOf(text[a[2]])
=============================================================================
