----------------------------- MODULE TokenLists -----------------------------
(***************************************************************************)
(* The memory of parse_expression, and prepare_line, which calls it for an *)
(* argument: the two stacks are linked lists of tokens, stack_to_list      *)
(* turns the output stack around in place, free_token_chain takes both     *)
(* apart after an error, and prepare_line walks over the list and puts the *)
(* name of the last global label before that of each local one.            *)
(*                                                                         *)
(* Every action is one of Expression, which says what the stacks hold,     *)
(* with what it does to the tokens.  No token is freed before the parse is *)
(* over, so that they can be numbered in the order of their malloc, whose  *)
(* result the code does not test: memory suffices here.                    *)
(***************************************************************************)
EXTENDS Expression

CONSTANTS
    Locals,     \* the words that are local labels
    Parents     \* names of symtab.last_parent, "" if there is none

ASSUME LocalsAssumption ==
    Locals \subseteq {w \in Words : Kind[w] = "SYMBOL"} /\ Parents \subseteq STRING

NULL  == 0
UNSET == -1   \* next of a token that is on no list

NoScope == ""

VARIABLES
    tokens,   \* the blocks: what they hold, the scope of a symbol, next
    freed,    \* those that were given to free
    outTop,   \* out_stack_top
    opTop,    \* op_stack_top
    tok,      \* tok, or the loop variable of the function in phase
    list,     \* prev of stack_to_list: the list so far
    phase,    \* what is being executed
    parent    \* symtab.last_parent, which is looked at once there is a list

memory == <<tokens, freed, outTop, opTop, tok, list, phase, parent>>

InitTokens ==
    /\ Init
    /\ tokens = <<>> /\ freed = {}
    /\ outTop = NULL /\ opTop = NULL /\ tok = NULL /\ list = NULL
    /\ phase = "parse" /\ parent = NoScope

Token(v, n)    == [token |-> v, scope |-> NoScope, next |-> n]
Relinked(a, n) == [tokens EXCEPT ![a].next = n]

-----------------------------------------------------------------------------
(* parse_expression.                                                       *)

\* The tokens once the word before the current character is one, on the
\* output stack.
WithOperand ==
    IF word = <<>> THEN tokens ELSE Append(tokens, Token(Operand(word[1]), outTop))

Keep(others) == UNCHANGED <<others, freed, list, parent>>

PassWord == ReadWord /\ UNCHANGED memory

EndOperand ==
    /\ ReadBlank \/ ReadEnd
    /\ tokens' = WithOperand
    /\ outTop' = IF word = <<>> THEN outTop ELSE Len(tokens')
    /\ Keep(<<opTop, tok, phase>>)

MakeOperator ==
    /\ ReadOperator
    /\ tokens' = Append(WithOperand, Token(Operator(op'[1]), UNSET))
    /\ outTop' = IF word = <<>> THEN outTop ELSE Len(WithOperand)
    /\ tok' = Len(tokens')
    /\ Keep(<<opTop, phase>>)

PushTokenBug ==
    /\ Push
    /\ tokens' = Relinked(tok, outTop)
    /\ opTop' = tok
    /\ Keep(<<outTop, tok, phase>>)

PushToken ==
    /\ Push
    /\ tokens' = Relinked(tok, opTop)
    /\ opTop' = tok
    /\ Keep(<<outTop, tok, phase>>)

\* The token on top of the operator stack goes to the output stack.
MoveTop ==
    /\ tokens' = Relinked(opTop, outTop)
    /\ outTop' = opTop
    /\ opTop' = tokens[opTop].next

YieldToken ==
    /\ YieldHigher \/ YieldRest
    /\ MoveTop
    /\ Keep(<<tok, phase>>)

\* After an error the two stacks are freed, operators first.
FreeStacks(top) == phase' = "free operators" /\ tok' = top

YieldInside ==
    /\ YieldEnclosed
    /\ MoveTop
    /\ IF status' = status THEN UNCHANGED <<phase, tok>> ELSE FreeStacks(opTop')
    /\ Keep(<<>>)

\* Both parentheses drop out of the lists.
CloseParens ==
    /\ Close
    /\ opTop' = tokens[opTop].next
    /\ Keep(<<tokens, outTop, tok, phase>>)

\* The token of the word that is none is lost with both stacks.
LoseTokens ==
    /\ CannotParseToken
    /\ tokens' = Append(tokens, Token(Operand(word[1]), UNSET))
    /\ phase' = "failed"
    /\ Keep(<<outTop, opTop, tok>>)

Crash ==
    /\ CloseNothing
    /\ phase' = "crashed"
    /\ Keep(<<tokens, outTop, opTop, tok>>)

FreeAll ==
    /\ LeftOpen /\ FreeStacks(opTop)
    /\ Keep(<<tokens, outTop, opTop>>)

TurnAround ==
    /\ Succeed
    /\ phase' = "reverse" /\ tok' = outTop
    /\ parent' \in Parents
    /\ UNCHANGED <<tokens, freed, outTop, opTop, list>>

-----------------------------------------------------------------------------
(* The loops over a list: free_token_chain, stack_to_list, prepare_line.   *)

Freeing == phase \in {"free operators", "free output"}

Loop == tok # NULL /\ UNCHANGED <<vars, outTop, opTop, phase, parent>>
End  == tok = NULL /\ UNCHANGED <<vars, tokens, freed, outTop, opTop, list, parent>>

FreeToken ==
    /\ Freeing /\ Loop
    /\ freed' = freed \cup {tok}
    /\ tok' = tokens[tok].next
    /\ UNCHANGED <<tokens, list>>

FreeOutputBug == phase = "free operators" /\ End /\ phase' = "failed" /\ tok' = NULL
FreeOutput    == phase = "free operators" /\ End /\ phase' = "free output" /\ tok' = outTop

\* prepare_line calls fail().
FreeEnd == phase = "free output" /\ End /\ phase' = "failed" /\ tok' = NULL

ReverseTokenBug ==
    /\ phase = "reverse" /\ Loop
    /\ tokens' = Relinked(tok, list)
    /\ list' = tok
    /\ tok' = tokens'[tok].next
    /\ UNCHANGED freed

ReverseToken ==
    /\ phase = "reverse" /\ Loop
    /\ tokens' = Relinked(tok, list)
    /\ list' = tok
    /\ tok' = tokens[tok].next
    /\ UNCHANGED freed

ReverseEnd == phase = "reverse" /\ End /\ phase' = "resolve" /\ tok' = list

IsLocal(a) == tokens[a].token.type = "SYMBOL" /\ tokens[a].token.value \in Locals

ResolveToken ==
    /\ phase = "resolve" /\ Loop
    /\ IsLocal(tok) => parent # NoScope
    /\ tokens' = IF IsLocal(tok) THEN [tokens EXCEPT ![tok].scope = parent] ELSE tokens
    /\ tok' = tokens[tok].next
    /\ UNCHANGED <<freed, list>>

\* symtab.last_parent is NULL when its label is read.
NoParent ==
    /\ phase = "resolve" /\ tok # NULL /\ IsLocal(tok) /\ parent = NoScope
    /\ phase' = "crashed"
    /\ UNCHANGED <<vars, tokens, freed, outTop, opTop, tok, list, parent>>

ResolveEnd == phase = "resolve" /\ End /\ phase' = "prepared" /\ tok' = NULL

\* The argument is prepared, or the process has ended.
Ended == phase \in {"prepared", "failed", "crashed"} /\ UNCHANGED <<vars, memory>>

-----------------------------------------------------------------------------
Parse   == \/ PassWord \/ EndOperand \/ MakeOperator \/ LoseTokens
           \/ PushToken \/ YieldToken
           \/ YieldInside \/ CloseParens \/ Crash
           \/ FreeAll \/ TurnAround
Loops   == \/ FreeToken \/ FreeOutput \/ FreeEnd
           \/ ReverseToken \/ ReverseEnd
           \/ ResolveToken \/ NoParent \/ ResolveEnd

NextTokens == Parse \/ Loops \/ Ended

SpecTokens == InitTokens /\ [][NextTokens]_<<vars, memory>>

-----------------------------------------------------------------------------
\* The n-th token of the list that starts at a.
Node(a, n) ==
    LET node[k \in Nat \ {0}] ==
            IF k = 1 THEN a
            ELSE IF node[k - 1] \in DOMAIN tokens THEN tokens[node[k - 1]].next ELSE NULL
    IN  node[n]

\* The list that starts at a holds s, and ends there.
Holds(a, s) ==
    /\ \A n \in DOMAIN s : /\ Node(a, n) \in DOMAIN tokens
                           /\ tokens[Node(a, n)].token = s[n]
    /\ Node(a, Len(s) + 1) = NULL

OnList(a, length) == {Node(a, n) : n \in 1 .. length}

Upended(s) == [n \in DOMAIN s |-> s[Len(s) + 1 - n]]

\* While the text is read the two linked lists are the stacks, from the top
\* down, and no token is on both.
ListsAreStacks ==
    phase = "parse" =>
        /\ Holds(outTop, Upended(out))
        /\ Holds(opTop, [n \in DOMAIN ops |-> Operator(Upended(ops)[n])])
        /\ OnList(outTop, Len(out)) \cap OnList(opTop, Len(ops)) = {}

\* What prepare_line leaves in the argument is the output from the bottom up,
\* each local name with the scope of the last global label, and no other.
PreparesList ==
    phase = "prepared" =>
        /\ Holds(list, out)
        /\ \A a \in OnList(list, Len(out)) :
              tokens[a].scope = IF IsLocal(a) THEN parent ELSE NoScope

\* Nothing is freed twice, and when an unmatched parenthesis has been found
\* all tokens are freed but the parentheses that had been dropped from the
\* lists.  After an argument was prepared those are all that is lost.
Paren(a) == tokens[a].token \in {Operator("("), Operator(")")}
LosesOnlyParens ==
    /\ Freeing => tok \in (DOMAIN tokens \cup {NULL}) \ freed
    /\ phase = "failed" /\ status = "UNMATCHED_PARENTHESIS" =>
          \A a \in DOMAIN tokens \ freed : Paren(a)
    /\ phase = "prepared" =>
          freed = {} /\ \A a \in DOMAIN tokens \ OnList(list, Len(out)) : Paren(a)
=============================================================================
