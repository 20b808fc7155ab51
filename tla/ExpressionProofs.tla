-------------------------- MODULE ExpressionProofs --------------------------
(***************************************************************************)
(* For every lexicon and every length of text: the stacks of               *)
(* parse_expression hold what they should, and the operator stack ascends. *)
(* The stack is only pushed when the loop before has taken off everything  *)
(* that does not belong under the new operator.                            *)
(* It also holds the parentheses that are open, so that the texts that are *)
(* accepted are those with matching ones.  And what is on it has not ended *)
(* yet while what was put out has, so that the output is in postfix order. *)
(***************************************************************************)
EXTENDS TokenLists, StackLemmas, FiniteSetTheorems, TLAPS

\* The token of a word that converts and of an operator that is yielded.
LEMMA TokensOut ==
  /\ \A w \in Words : Operand(w) \in Tokens
  /\ \A o \in Pushed : o # "(" => Operator(o) \in Tokens
  BY DEF Tokens

\* Reading a character keeps the types.
LEMMA ReadTypes ==
  ASSUME TypeOK, Read
  PROVE  TypeOK'
  <1> USE LexiconAssumption DEF TypeOK
  <1>1. ASSUME NEW ch \in Lexemes, Reading(ch)
        PROVE  text' \in Seq(Lexemes) /\ Len(text') <= LONGEST
    BY <1>1, PushedStack DEF Reading
  <1>2. EndWord => out' \in Seq(Tokens) /\ word' = <<>>
    BY TokensOut, PushedStack DEF EndWord
  <1>3. CASE ReadWord
    BY <1>1, <1>3 DEF ReadWord, Lexemes
  <1>4. CASE ReadBlank
    BY <1>1, <1>2, <1>4 DEF ReadBlank, Lexemes
  <1>5. CASE ReadOperator
    BY <1>1, <1>2, <1>5 DEF ReadOperator, Lexemes
  <1>6. CASE ReadEnd
    BY <1>2, <1>6 DEF ReadEnd
  <1>7. CASE CannotParseToken
    BY <1>7 DEF CannotParseToken
  <1> QED
    BY <1>3, <1>4, <1>5, <1>6, <1>7 DEF Read

\* Taking an operator off the stack and putting it out keeps the types.
LEMMA YieldTypes ==
  ASSUME TypeOK, ops # <<>>, Top # "(", Yield
  PROVE  ops' \in Seq(Pushed) /\ out' \in Seq(Tokens)
  <1>1. Top \in Pushed /\ SubSeq(ops, 1, Len(ops) - 1) \in Seq(Pushed)
    BY PoppedStack DEF TypeOK, Top
  <1>2. Operator(Top) \in Tokens
    BY <1>1, TokensOut
  <1>3. out' \in Seq(Tokens)
    BY <1>2, PushedStack DEF TypeOK, Yield
  <1> QED
    BY <1>1, <1>3 DEF Yield, Pop

\* So does sorting the operators.
LEMMA SortTypes ==
  ASSUME TypeOK, Sort
  PROVE  TypeOK'
  <1>1. CASE YieldHigher
    BY <1>1, YieldTypes DEF YieldHigher, Leaves, TypeOK
  <1>2. CASE Push
    <2>1. op[1] \in Pushed /\ ops' = Append(ops, op[1])
      BY <1>2 DEF Push, Pushed, TypeOK
    <2>2. ops' \in Seq(Pushed)
      BY <2>1, PushedStack DEF TypeOK
    <2> QED
      BY <1>2, <2>2 DEF Push, TypeOK
  <1>3. CASE YieldEnclosed
    BY <1>3, YieldTypes DEF YieldEnclosed, TypeOK
  <1>4. CASE Close
    BY <1>4, PoppedStack DEF Close, Pop, TypeOK
  <1>5. CASE YieldRest
    BY <1>5, YieldTypes DEF YieldRest, TypeOK
  <1>6. CASE CloseNothing \/ LeftOpen \/ Succeed
    BY <1>6 DEF CloseNothing, LeftOpen, Succeed, TypeOK
  <1> QED
    BY <1>1, <1>2, <1>3, <1>4, <1>5, <1>6 DEF Sort

\* Words, operators and tokens are where they belong in every state.
THEOREM TypeCorrect == Spec => []TypeOK
  <1>1. Init => TypeOK
    BY LexiconAssumption DEF Init, TypeOK
  <1>2. TypeOK /\ [Next]_vars => TypeOK'
    <2>1. TypeOK /\ UNCHANGED vars => TypeOK'
      BY DEF TypeOK, vars
    <2> QED
      BY <2>1, ReadTypes, SortTypes DEF Next, Returned
  <1> QED
    BY <1>1, <1>2, PTL DEF Spec

-----------------------------------------------------------------------------
\* A stack that ascends does so without its top.
LEMMA PopAscends ==
  ASSUME TypeOK, StackAscends, ops # <<>>, Pop
  PROVE  StackAscends'
  <1>1. Len(ops') = Len(ops) - 1 /\ \A n \in 1 .. Len(ops) - 1 : ops'[n] = ops[n]
    BY PoppedStack DEF TypeOK, Pop
  <1>2. Len(ops) \in Nat
    BY DEF TypeOK
  <1> QED
    BY <1>1, <1>2 DEF StackAscends

\* Nothing binds less than a parenthesis.
LEMMA ParenthesisIsLowest ==
  \A o \in Operators : /\ Precedence[o] \in Nat
                       /\ o \notin {"(", ")"} => Precedence["("] < Precedence[o]
  BY LexiconAssumption DEF Precedence

\* The push after the loop keeps the stack ascending.
LEMMA PushAscends ==
  ASSUME TypeOK, StackAscends, Push
  PROVE  StackAscends'
  <1>1. op[1] \in Pushed /\ ops' = Append(ops, op[1])
    BY DEF Push, Pushed, TypeOK
  <1>2. /\ Len(ops') = Len(ops) + 1 /\ Len(ops) \in Nat
        /\ \A n \in 1 .. Len(ops) : ops'[n] = ops[n]
        /\ ops'[Len(ops) + 1] = op[1]
    BY <1>1, PushedStack DEF TypeOK
  <1>3. ASSUME ops # <<>>, op[1] # "("
        PROVE  Precedence[ops[Len(ops)]] < Precedence[op[1]]
    <2>1. Top \in Operators /\ op[1] \in Operators /\ op[1] \notin {"(", ")"}
      BY <1>1, <1>3, PoppedStack DEF Pushed, TypeOK, Top
    <2>2. CASE Top = "("
      BY <2>1, <2>2, ParenthesisIsLowest DEF Top
    <2>3. CASE Top # "("
      BY <1>3, <2>1, <2>3, ParenthesisIsLowest DEF Push, Leaves, Top
    <2> QED
      BY <2>2, <2>3
  <1>4. ASSUME NEW n \in 2 .. Len(ops'), ops'[n] # "("
        PROVE  Precedence[ops'[n - 1]] < Precedence[ops'[n]]
    <2>1. CASE n = Len(ops) + 1
      BY <1>2, <1>3, <1>4, <2>1
    <2>2. CASE n # Len(ops) + 1
      BY <1>2, <1>4, <2>2 DEF StackAscends
    <2> QED
      BY <2>1, <2>2
  <1> QED
    BY <1>4 DEF StackAscends

\* Between parentheses the operators on the stack ascend in precedence.
THEOREM StackAlwaysAscends == Spec => []StackAscends
  <1>1. Init => StackAscends
    BY DEF Init, StackAscends
  <1>2. TypeOK /\ StackAscends /\ [Next]_vars => StackAscends'
    <2> SUFFICES ASSUME TypeOK, StackAscends, [Next]_vars PROVE StackAscends'
      OBVIOUS
    <2>1. CASE UNCHANGED ops
      BY <2>1 DEF StackAscends
    <2>2. CASE YieldHigher \/ YieldEnclosed \/ Close \/ YieldRest
      BY <2>2, PopAscends DEF YieldHigher, YieldEnclosed, Close, YieldRest, Yield, Leaves
    <2>3. CASE Push
      BY <2>3, PushAscends
    <2> QED
      BY <2>1, <2>2, <2>3
      DEF Next, Read, Sort, Returned, vars, ReadWord, ReadBlank, ReadOperator, ReadEnd,
          CannotParseToken, CloseNothing, LeftOpen, Succeed
  <1> QED
    BY <1>1, <1>2, TypeCorrect, PTL DEF Spec

-----------------------------------------------------------------------------
(* Parentheses.                                                            *)

\* The counts are numbers, and a character more counts where it is counted.
LEMMA CountType ==
  ASSUME NEW t, NEW n \in Nat, NEW ch
  PROVE  Count(t, n, ch) \in Nat
  <1>1. IsFiniteSet(1 .. n)
    BY FS_Interval
  <1>2. IsFiniteSet({i \in 1 .. n : t[i] = ch})
    BY <1>1, FS_Subset
  <1> QED
    BY <1>2, FS_CardinalityType DEF Count

LEMMA CountNext ==
  ASSUME NEW t, NEW n \in Nat, NEW ch
  PROVE  Count(t, n + 1, ch) = Count(t, n, ch) + (IF t[n + 1] = ch THEN 1 ELSE 0)
  <1> DEFINE at(m) == {i \in 1 .. m : t[i] = ch}
  <1>1. IsFiniteSet(at(n)) /\ n + 1 \notin at(n)
    <2>1. IsFiniteSet(1 .. n) /\ at(n) \in SUBSET (1 .. n)
      BY FS_Interval
    <2>2. n + 1 \notin at(n)
      OBVIOUS
    <2> HIDE DEF at
    <2> QED
      BY <2>1, <2>2, FS_Subset
  <1>2. at(n + 1) = IF t[n + 1] = ch THEN at(n) \cup {n + 1} ELSE at(n)
    OBVIOUS
  <1>3. Cardinality(at(n + 1)) = Cardinality(at(n)) + (IF t[n + 1] = ch THEN 1 ELSE 0)
    <2>1. Cardinality(at(n) \cup {n + 1}) = Cardinality(at(n)) + 1
      BY <1>1, FS_AddElement
    <2>2. Cardinality(at(n)) \in Nat
      BY <1>1, FS_CardinalityType
    <2> HIDE DEF at
    <2> QED
      BY <1>2, <2>1, <2>2
  <1> QED
    BY <1>3 DEF Count

\* Texts that begin alike have the same depths there.
LEMMA SameDepth ==
  ASSUME NEW s, NEW t, NEW n \in Nat, \A i \in 1 .. n : s[i] = t[i]
  PROVE  Depth(s, n) = Depth(t, n)
  <1>1. \A ch : {i \in 1 .. n : s[i] = ch} = {i \in 1 .. n : t[i] = ch}
    OBVIOUS
  <1> QED
    BY <1>1 DEF Depth, Count

\* What one character does to the depth.
Turn(ch) == IF ch = "(" THEN 1 ELSE IF ch = ")" THEN -1 ELSE 0

LEMMA DepthNext ==
  ASSUME NEW t, NEW n \in Nat
  PROVE  Depth(t, n) \in Int /\ Depth(t, n + 1) = Depth(t, n) + Turn(t[n + 1])
  <1>1. /\ Count(t, n, "(") \in Nat /\ Count(t, n, ")") \in Nat
        /\ Count(t, n + 1, "(") = Count(t, n, "(") + (IF t[n + 1] = "(" THEN 1 ELSE 0)
        /\ Count(t, n + 1, ")") = Count(t, n, ")") + (IF t[n + 1] = ")" THEN 1 ELSE 0)
    BY CountType, CountNext
  <1> QED
    BY <1>1 DEF Depth, Turn

LEMMA DepthNone == ASSUME NEW t PROVE Depth(t, 0) = 0
  <1>1. \A ch : {i \in 1 .. 0 : t[i] = ch} = {}
    OBVIOUS
  <1> QED
    BY <1>1, FS_EmptySet DEF Depth, Count

\* The stack holds no closing parenthesis.
LEMMA DepthOfStack ==
  ASSUME NEW s \in Seq(Pushed), NEW n \in 0 .. Len(s)
  PROVE  Depth(s, n) \in Nat
  <1>1. \A i \in 1 .. n : s[i] # ")"
    BY DEF Pushed
  <1>2. {i \in 1 .. n : s[i] = ")"} = {}
    BY <1>1
  <1>3. Count(s, n, ")") = 0
    BY <1>2, FS_EmptySet DEF Count
  <1>4. Count(s, n, "(") \in Nat
    <2>1. n \in Nat
      OBVIOUS
    <2> QED
      BY <2>1, CountType
  <1> QED
    BY <1>3, <1>4 DEF Depth

\* What a push and a pop do to the depth.
LEMMA DepthPushed ==
  ASSUME NEW S, NEW s \in Seq(S), NEW x \in S
  PROVE  /\ Depth(Append(s, x), Len(s) + 1) = Depth(s, Len(s)) + Turn(x)
         /\ \A n \in 0 .. Len(s) : Depth(Append(s, x), n) = Depth(s, n)
  <1> DEFINE t == Append(s, x)
  <1>1. /\ Len(s) \in Nat
        /\ \A n \in 1 .. Len(s) : t[n] = s[n]
        /\ t[Len(s) + 1] = x
    BY PushedStack
  <1> HIDE DEF t
  <1>2. \A n \in 0 .. Len(s) : Depth(t, n) = Depth(s, n)
    BY <1>1, SameDepth
  <1>3. Depth(t, Len(s) + 1) = Depth(t, Len(s)) + Turn(x)
    BY <1>1, DepthNext
  <1> QED
    BY <1>1, <1>2, <1>3 DEF t

LEMMA DepthPopped ==
  ASSUME NEW S, NEW s \in Seq(S), s # <<>>
  PROVE  Depth(s, Len(s)) =
           Depth(SubSeq(s, 1, Len(s) - 1), Len(s) - 1) + Turn(s[Len(s)])
  <1>1. Len(s) - 1 \in Nat
    OBVIOUS
  <1>2. Depth(SubSeq(s, 1, Len(s) - 1), Len(s) - 1) = Depth(s, Len(s) - 1)
    <2>1. \A i \in 1 .. Len(s) - 1 : SubSeq(s, 1, Len(s) - 1)[i] = s[i]
      BY PoppedStack
    <2> QED
      BY <1>1, <2>1, SameDepth
  <1>3. Depth(s, Len(s) - 1 + 1) = Depth(s, Len(s) - 1) + Turn(s[Len(s) - 1 + 1])
    BY <1>1, DepthNext
  <1>4. Len(s) - 1 + 1 = Len(s)
    BY <1>1
  <1> QED
    BY <1>2, <1>3, <1>4

\* The characters of text whose parentheses are on the stack or matched.
Sorted == IF op = <<>> THEN Len(text) ELSE Len(text) - 1

\* The stack holds the parentheses that are open, and so far none was closed
\* that had not been opened.
BracketsOK ==
  /\ op # <<>> => \/ status = "scanning"
                  \/ op[1] = ")" /\ status \in {"UNMATCHED_PARENTHESIS", "crashed"}
  /\ op # <<>> => text # <<>> /\ text[Len(text)] = op[1]
  /\ status \in {"scanning", "draining"} =>
        /\ Depth(text, Sorted) = Depth(ops, Len(ops))
        /\ \A n \in 1 .. Sorted : Depth(text, n) >= 0
  /\ AcceptsBalanced

\* A character that was read is not on the stack yet, if it is a parenthesis.
LEMMA ReadBrackets ==
  ASSUME TypeOK, BracketsOK, NEW ch \in Lexemes, Reading(ch), status' = status, ops' = ops,
         \/ op' = <<ch>>
         \/ op' = op /\ Turn(ch) = 0
  PROVE  BracketsOK'
  <1>1. /\ status = "scanning" /\ op = <<>> /\ text' = Append(text, ch)
        /\ text \in Seq(Lexemes)
    BY DEF Reading, TypeOK
  <1>2. /\ Len(text) \in Nat /\ Len(text') = Len(text) + 1 /\ text'[Len(text) + 1] = ch
        /\ text' # <<>>
    BY <1>1, PushedStack
  <1>3. /\ Depth(text', Len(text) + 1) = Depth(text, Len(text)) + Turn(ch)
        /\ \A n \in 0 .. Len(text) : Depth(text', n) = Depth(text, n)
    BY <1>1, DepthPushed
  <1>4. /\ Depth(text, Len(text)) = Depth(ops, Len(ops))
        /\ \A n \in 1 .. Len(text) : Depth(text, n) >= 0
    BY <1>1 DEF BracketsOK, Sorted
  <1>5. Depth(text, Len(text)) \in Nat
    BY <1>4, <1>2, DepthOfStack DEF TypeOK
  <1>6. CASE op' = <<ch>>
    <2>1. Sorted' = Len(text) /\ op'[1] = ch /\ op' # <<>>
      BY <1>2, <1>6 DEF Sorted
    <2>2. /\ Depth(text', Sorted') = Depth(ops', Len(ops'))
          /\ \A n \in 1 .. Sorted' : Depth(text', n) >= 0
      BY <1>2, <1>3, <1>4, <2>1
    <2> QED
      BY <1>1, <1>2, <2>1, <2>2 DEF BracketsOK, AcceptsBalanced
  <1>7. CASE op' = op /\ Turn(ch) = 0
    <2>1. Sorted' = Len(text) + 1 /\ op' = <<>>
      BY <1>1, <1>2, <1>7 DEF Sorted
    <2>2. /\ Depth(text', Sorted') = Depth(ops', Len(ops'))
          /\ \A n \in 1 .. Sorted' : Depth(text', n) >= 0
      BY <1>2, <1>3, <1>4, <1>5, <1>7, <2>1
    <2> QED
      BY <1>1, <2>1, <2>2 DEF BracketsOK, AcceptsBalanced
  <1> QED
    BY <1>6, <1>7

\* Taking an operator off leaves the parentheses of the stack.
LEMMA PopBrackets ==
  ASSUME TypeOK, ops # <<>>, Pop
  PROVE  /\ Depth(ops, Len(ops)) = Depth(ops', Len(ops')) + (IF Top = "(" THEN 1 ELSE 0)
         /\ Depth(ops', Len(ops')) \in Nat
  <1>1. ops \in Seq(Pushed) /\ Top \in Pushed /\ ops' \in Seq(Pushed) /\ Len(ops') = Len(ops) - 1
    BY PoppedStack DEF TypeOK, Pop, Top
  <1>2. Depth(ops, Len(ops)) = Depth(ops', Len(ops')) + Turn(Top)
    BY <1>1, DepthPopped DEF Pop, Top
  <1>3. Turn(Top) = IF Top = "(" THEN 1 ELSE 0
    BY <1>1 DEF Turn, Pushed
  <1>4. Depth(ops', Len(ops')) \in Nat
    BY <1>1, DepthOfStack
  <1> QED
    BY <1>2, <1>3, <1>4

\* The operator that was read, and the parentheses up to it.
LEMMA DepthRead ==
  ASSUME TypeOK, BracketsOK, op # <<>>
  PROVE  /\ Sorted = Len(text) - 1 /\ Len(text) \in Nat \ {0}
         /\ Depth(text, Len(text)) = Depth(text, Sorted) + Turn(op[1])
  <1>1. text \in Seq(Lexemes) /\ text # <<>> /\ text[Len(text)] = op[1]
    BY DEF TypeOK, BracketsOK
  <1>2. Len(text) \in Nat \ {0} /\ Sorted = Len(text) - 1
    BY <1>1 DEF Sorted
  <1>3. Depth(text, Sorted + 1) = Depth(text, Sorted) + Turn(text[Sorted + 1])
    <2>1. Sorted \in Nat
      BY <1>2
    <2> QED
      BY <2>1, DepthNext
  <1>4. Sorted + 1 = Len(text)
    BY <1>2
  <1> QED
    BY <1>1, <1>2, <1>3, <1>4

\* Handling an operator keeps track of it.
LEMMA OperatorBrackets ==
  ASSUME TypeOK, BracketsOK, status \in {"scanning", "draining"},
         op # <<>>, op' = <<>>, UNCHANGED <<text, status>>,
         Depth(ops', Len(ops')) = Depth(ops, Len(ops)) + Turn(op[1]),
         Depth(ops', Len(ops')) \in Nat
  PROVE  BracketsOK'
  <1>1. /\ Sorted = Len(text) - 1 /\ Len(text) \in Nat \ {0}
        /\ Depth(text, Len(text)) = Depth(text, Sorted) + Turn(op[1])
    BY DepthRead
  <1>2. /\ Depth(text, Sorted) = Depth(ops, Len(ops))
        /\ \A n \in 1 .. Sorted : Depth(text, n) >= 0
    BY DEF BracketsOK
  <1>3. Sorted' = Len(text)
    BY DEF Sorted
  <1>4. Depth(text', Sorted') = Depth(ops', Len(ops'))
    BY <1>1, <1>2, <1>3
  <1>5. \A n \in 1 .. Sorted' : Depth(text', n) >= 0
    BY <1>1, <1>2, <1>3, <1>4
  <1> QED
    BY <1>4, <1>5 DEF BracketsOK, AcceptsBalanced

\* A closing parenthesis with no partner on the stack has none in the text.
LEMMA NoPartner ==
  ASSUME TypeOK, BracketsOK, status = "scanning", op = <<")">>, Depth(ops, Len(ops)) = 0
  PROVE  ~Balanced(text)
  <1>1. /\ Sorted = Len(text) - 1 /\ Len(text) \in Nat \ {0}
        /\ Depth(text, Len(text)) = Depth(text, Sorted) + Turn(op[1])
    BY DepthRead
  <1>2. Depth(text, Sorted) = 0 /\ Turn(op[1]) = -1
    BY DEF BracketsOK, Turn
  <1> QED
    BY <1>1, <1>2 DEF Balanced

LEMMA NoneOpen == Depth(<<>>, Len(<<>>)) = 0
  <1>1. Len(<<>>) = 0
    OBVIOUS
  <1> QED
    BY <1>1, DepthNone

\* Each step keeps the invariant.
LEMMA SortBrackets ==
  ASSUME TypeOK, BracketsOK, Sort
  PROVE  BracketsOK'
  <1>1. ASSUME ops # <<>>, Top # "(", Yield, status \in {"scanning", "draining"},
               UNCHANGED <<text, op>>
        PROVE  /\ Depth(ops', Len(ops')) = Depth(ops, Len(ops))
               /\ status' = status => BracketsOK'
    <2>1. Depth(ops', Len(ops')) = Depth(ops, Len(ops))
      BY <1>1, PopBrackets DEF Yield
    <2> QED
      BY <1>1, <2>1 DEF BracketsOK, AcceptsBalanced, Sorted
  <1>2. CASE YieldHigher
    <2>1. status \in {"scanning", "draining"}
      BY <1>2 DEF YieldHigher, BracketsOK
    <2> QED
      BY <1>1, <1>2, <2>1 DEF YieldHigher, Leaves
  <1>3. CASE Push
    <2>1. op[1] \in Pushed /\ op # <<>> /\ ops' = Append(ops, op[1]) /\ op' = <<>>
      BY <1>3 DEF Push, Pushed, TypeOK
    <2>2. ops' \in Seq(Pushed) /\ Len(ops') = Len(ops) + 1
      BY <2>1, PushedStack DEF TypeOK
    <2>3. Depth(ops', Len(ops')) = Depth(ops, Len(ops)) + Turn(op[1])
      BY <2>1, <2>2, DepthPushed DEF TypeOK
    <2>4. Depth(ops', Len(ops')) \in Nat
      BY <2>2, DepthOfStack
    <2> QED
      BY <1>3, <2>1, <2>3, <2>4, OperatorBrackets DEF Push, BracketsOK
  <1>4. CASE YieldEnclosed
    <2>1. CASE ops' # <<>>
      BY <1>1, <1>4, <2>1 DEF YieldEnclosed, Closing
    <2>2. CASE ops' = <<>>
      <3>1. Depth(ops, Len(ops)) = 0
        BY <1>1, <1>4, <2>2, NoneOpen DEF YieldEnclosed, Closing
      <3>2. ~Balanced(text)
        BY <1>4, <3>1, NoPartner DEF YieldEnclosed, Closing
      <3> QED
        BY <1>4, <2>2, <3>2 DEF YieldEnclosed, Closing, BracketsOK, AcceptsBalanced
    <2> QED
      BY <2>1, <2>2
  <1>5. CASE Close
    <2>1. /\ Depth(ops, Len(ops)) = Depth(ops', Len(ops')) + 1
          /\ Depth(ops', Len(ops')) \in Nat
      BY <1>5, PopBrackets DEF Close
    <2>2. Turn(op[1]) = -1
      BY <1>5 DEF Close, Closing, Turn
    <2> QED
      BY <1>5, <2>1, <2>2, OperatorBrackets DEF Close, Closing
  <1>6. CASE CloseNothing
    <2>1. ~Balanced(text)
      BY <1>6, NoneOpen, NoPartner DEF CloseNothing, Closing
    <2> QED
      BY <1>6, <2>1 DEF CloseNothing, Closing, BracketsOK, AcceptsBalanced
  <1>7. CASE YieldRest
    BY <1>1, <1>7 DEF YieldRest
  <1>8. CASE LeftOpen
    <2>1. Depth(text, Len(text)) = Depth(ops, Len(ops))
      BY <1>8 DEF LeftOpen, BracketsOK, Sorted
    <2>2. Depth(ops, Len(ops)) > 0
      <3>1. ops \in Seq(Pushed) /\ SubSeq(ops, 1, Len(ops) - 1) \in Seq(Pushed)
            /\ Len(SubSeq(ops, 1, Len(ops) - 1)) = Len(ops) - 1
        BY <1>8, PoppedStack DEF LeftOpen, TypeOK
      <3>2. Depth(SubSeq(ops, 1, Len(ops) - 1), Len(ops) - 1) \in Nat
        <4>1. Len(ops) - 1 \in 0 .. Len(SubSeq(ops, 1, Len(ops) - 1))
          BY <1>8, <3>1 DEF LeftOpen
        <4> QED
          BY <3>1, <4>1, DepthOfStack
      <3>3. Turn(Top) = 1
        BY <1>8 DEF LeftOpen, Turn
      <3> QED
        BY <1>8, <3>1, <3>2, <3>3, DepthPopped DEF LeftOpen, Top
    <2> QED
      BY <1>8, <2>1, <2>2 DEF LeftOpen, BracketsOK, AcceptsBalanced, Balanced
  <1>9. CASE Succeed
    <2>1. Depth(text, Len(text)) = 0 /\ \A n \in 1 .. Len(text) : Depth(text, n) >= 0
      BY <1>9, NoneOpen DEF Succeed, BracketsOK, Sorted
    <2> QED
      BY <1>9, <2>1 DEF Succeed, BracketsOK, AcceptsBalanced, Balanced, TypeOK
  <1> QED
    BY <1>2, <1>3, <1>4, <1>5, <1>6, <1>7, <1>8, <1>9 DEF Sort

\* Every state keeps track of the parentheses.
THEOREM BracketsHold == Spec => []BracketsOK
  <1>1. Init => BracketsOK
    BY NoneOpen DEF Init, BracketsOK, AcceptsBalanced, Sorted
  <1>2. TypeOK /\ BracketsOK /\ [Next]_vars => BracketsOK'
    <2> SUFFICES ASSUME TypeOK, BracketsOK, [Next]_vars PROVE BracketsOK'
      OBVIOUS
    <2>1. CASE ReadWord
      <3>1. PICK w \in Words : Reading(w)
        BY <2>1 DEF ReadWord
      <3>2. w \in Lexemes /\ Turn(w) = 0
        BY LexiconAssumption DEF Lexemes, Turn, Precedence
      <3> QED
        BY <2>1, <3>1, <3>2, ReadBrackets DEF ReadWord
    <2>2. CASE ReadBlank
      <3>1. "blank" \in Lexemes /\ Turn("blank") = 0
        BY DEF Lexemes, Turn
      <3> QED
        BY <2>2, <3>1, ReadBrackets DEF ReadBlank
    <2>3. CASE ReadOperator
      <3>1. PICK o \in Operators : Reading(o) /\ op' = <<o>>
        BY <2>3 DEF ReadOperator
      <3> QED
        BY <2>3, <3>1, ReadBrackets DEF ReadOperator, Lexemes
    <2>4. CASE ReadEnd
      BY <2>4 DEF ReadEnd, BracketsOK, AcceptsBalanced, Sorted
    <2>5. CASE CannotParseToken
      BY <2>5 DEF CannotParseToken, BracketsOK, AcceptsBalanced, Sorted
    <2>6. CASE Sort
      BY <2>6, SortBrackets
    <2>7. CASE UNCHANGED vars
      BY <2>7 DEF vars, BracketsOK, AcceptsBalanced, Sorted
    <2> QED
      BY <2>1, <2>2, <2>3, <2>4, <2>5, <2>6, <2>7 DEF Next, Read, Returned
  <1> QED
    BY <1>1, <1>2, TypeCorrect, PTL DEF Spec

\* parse_expression accepts exactly the texts with matching parentheses.
THEOREM OnlyBalancedAreAccepted == Spec => []AcceptsBalanced
  <1>1. BracketsOK => AcceptsBalanced
    BY DEF BracketsOK
  <1> QED
    BY <1>1, BracketsHold, PTL

-----------------------------------------------------------------------------
(* The order of the output.                                                *)

Binary == Operators \ {"(", ")"}

\* What the lexicon keeps apart.
LEMMA LexiconApart ==
  /\ \A w \in Words : w \notin Operators /\ w \notin {"blank", "(", ")"}
  /\ \A o \in Binary : o \notin Words /\ o # "blank" /\ o \notin {"(", ")"}
  /\ "blank" \notin Operators
  BY LexiconAssumption DEF Precedence, Binary

\* The term at i of t ends at e.
EndsAt(t, i, e) ==
  IF t[i] \in Words THEN e = i
  ELSE e \in i+1 .. Len(t) + 1 /\ Ends(t, i, e) /\ \A d \in i+1 .. e-1 : ~Ends(t, i, d)

\* Of two places that can be an end only the sooner one is.
LEMMA OneEnd ==
  ASSUME NEW t \in Seq(Lexemes), NEW i \in Nat,
         NEW d \in Int, NEW e \in Int, EndsAt(t, i, d), EndsAt(t, i, e)
  PROVE  d = e /\ TermEnd(t, i) = e
  <1>1. CASE t[i] \in Words
    BY <1>1 DEF EndsAt, TermEnd
  <1>2. CASE t[i] \notin Words
    <2> DEFINE First(f) == f \in i+1 .. Len(t) + 1 /\ Ends(t, i, f) /\ \A g \in i+1 .. f-1 : ~Ends(t, i, g)
    <2>1. Len(t) \in Nat
      OBVIOUS
    <2>2. \A f, g : First(f) /\ First(g) => f = g
      BY <2>1
    <2>3. First(d) /\ First(e)
      BY <1>2 DEF EndsAt
    <2>4. TermEnd(t, i) = CHOOSE f \in i+1 .. Len(t) + 1 : Ends(t, i, f) /\ \A g \in i+1 .. f-1 : ~Ends(t, i, g)
      BY <1>2 DEF TermEnd
    <2>5. First(TermEnd(t, i))
      BY <2>3, <2>4
    <2> QED
      BY <2>2, <2>3, <2>5
  <1> QED
    BY <1>1, <1>2

\* More text changes nothing for the ends inside of it.
LEMMA EndsGrow ==
  ASSUME NEW t \in Seq(Lexemes), NEW ch \in Lexemes
  PROVE  /\ \A i, e \in 1 .. Len(t) : Ends(t, i, e) <=> Ends(Append(t, ch), i, e)
         /\ \A i, e \in 1 .. Len(t) : EndsAt(t, i, e) => EndsAt(Append(t, ch), i, e)
  <1> DEFINE u == Append(t, ch)
  <1>1. Len(t) \in Nat /\ Len(u) = Len(t) + 1 /\ \A i \in 1 .. Len(t) : u[i] = t[i]
    BY PushedStack
  <1>2. \A n \in 1 .. Len(t) : Depth(u, n) = Depth(t, n)
    BY DepthPushed
  <1> HIDE DEF u
  <1>3. \A i, e \in 1 .. Len(t) : Ends(t, i, e) <=> Ends(u, i, e)
    BY <1>1, <1>2 DEF Ends
  <1>4. ASSUME NEW i \in 1 .. Len(t), NEW e \in 1 .. Len(t), EndsAt(t, i, e)
        PROVE  EndsAt(u, i, e)
    <2>1. CASE t[i] \in Words
      BY <1>1, <1>4, <2>1 DEF EndsAt
    <2>2. CASE t[i] \notin Words
      <3>1. e \in i+1 .. Len(t) + 1 /\ Ends(t, i, e) /\ \A d \in i+1 .. e-1 : ~Ends(t, i, d)
        BY <1>4, <2>2 DEF EndsAt
      <3>2. \A d \in i+1 .. e : d \in 1 .. Len(t)
        BY <1>1
      <3>3. e \in i+1 .. Len(u) + 1 /\ Ends(u, i, e) /\ \A d \in i+1 .. e-1 : ~Ends(u, i, d)
        BY <1>1, <1>3, <3>1, <3>2
      <3> QED
        BY <1>1, <2>2, <3>3 DEF EndsAt
    <2> QED
      BY <2>1, <2>2
  <1> QED
    BY <1>3, <1>4 DEF u

\* The parentheses below on the stack are among those above.
LEMMA DepthRises ==
  ASSUME NEW w \in Seq(Pushed), NEW k \in 0 .. Len(w), NEW j \in 0 .. k
  PROVE  Depth(w, j) <= Depth(w, k) /\ Depth(w, j) \in Nat /\ Depth(w, k) \in Nat
  <1>1. \A n \in 0 .. Len(w) : Count(w, n, ")") = 0
    <2> TAKE n \in 0 .. Len(w)
    <2>1. \A i \in 1 .. n : w[i] # ")"
      BY DEF Pushed
    <2>2. {i \in 1 .. n : w[i] = ")"} = {}
      BY <2>1
    <2> QED
      BY <2>2, FS_EmptySet DEF Count
  <1>2. Count(w, j, "(") <= Count(w, k, "(")
    <2> DEFINE at(n) == {i \in 1 .. n : w[i] = "("}
    <2>1. j \in Nat /\ k \in Nat /\ j <= k
      OBVIOUS
    <2>2. at(j) \subseteq at(k) /\ at(k) \subseteq 1 .. k
      BY <2>1
    <2>3. IsFiniteSet(1 .. k)
      BY <2>1, FS_Interval
    <2> HIDE DEF at
    <2>4. IsFiniteSet(at(k))
      BY <2>2, <2>3, FS_Subset
    <2>5. Cardinality(at(j)) <= Cardinality(at(k))
      BY <2>2, <2>4, FS_Subset
    <2> QED
      BY <2>5 DEF at, Count
  <1>3. \A n \in 0 .. Len(w) : Count(w, n, "(") \in Nat
    BY CountType
  <1>4. \A n \in 0 .. Len(w) : Depth(w, n) = Count(w, n, "(")
    BY <1>1, <1>3 DEF Depth
  <1>5. j \in 0 .. Len(w)
    OBVIOUS
  <1> QED
    BY <1>2, <1>3, <1>4, <1>5

\* What is enclosed by one more is deeper.
LEMMA DeeperInside ==
  ASSUME NEW w \in Seq(Pushed), NEW k \in 1 .. Len(w), w[k] = "(", NEW j \in 0 .. k - 1
  PROVE  Depth(w, j) < Depth(w, k)
  <1>1. k - 1 \in 0 .. Len(w) /\ k - 1 + 1 = k
    OBVIOUS
  <1>2. Depth(w, j) <= Depth(w, k - 1) /\ Depth(w, j) \in Nat /\ Depth(w, k - 1) \in Nat
    BY <1>1, DepthRises
  <1>3. Depth(w, k - 1 + 1) = Depth(w, k - 1) + Turn(w[k - 1 + 1])
    BY <1>1, DepthNext
  <1>4. Turn(w[k]) = 1
    BY DEF Turn
  <1> QED
    BY <1>1, <1>2, <1>3, <1>4

\* Inside the same parentheses each operator of the stack binds more tightly
\* than any below.
Rises(w) == \A j, k \in 1 .. Len(w) :
              j < k /\ Depth(w, j) = Depth(w, k) => Precedence[w[j]] < Precedence[w[k]]

LEMMA AscendsInside ==
  ASSUME TypeOK, StackAscends
  PROVE  Rises(ops)
  <1> SUFFICES ASSUME NEW j \in 1 .. Len(ops), NEW k \in 1 .. Len(ops), j < k,
                      Depth(ops, j) = Depth(ops, k),
                      ~(Precedence[ops[j]] < Precedence[ops[k]])
               PROVE  FALSE
    BY DEF Rises
  <1> DEFINE bad == {n \in 1 .. Len(ops) : j < n /\ Depth(ops, j) = Depth(ops, n)
                                             /\ ~(Precedence[ops[j]] < Precedence[ops[n]])}
  <1>1. ops \in Seq(Pushed) /\ Len(ops) \in Nat
    BY DEF TypeOK
  <1>2. \A n \in 1 .. Len(ops) : ops[n] \in Operators /\ Precedence[ops[n]] \in Nat
    BY <1>1, ParenthesisIsLowest DEF Pushed
  <1>3. PICK n \in bad : \A m \in bad : n <= m
    <2>1. bad \in SUBSET Nat /\ k \in bad
      OBVIOUS
    <2> HIDE DEF bad
    <2> QED
      BY <2>1, LeastNat
  <1>4. /\ n \in 1 .. Len(ops) /\ j < n /\ Depth(ops, j) = Depth(ops, n)
        /\ ~(Precedence[ops[j]] < Precedence[ops[n]]) /\ n - 1 \notin bad
    BY <1>3
  <1>5. ops[n] # "("
    <2>1. j \in 0 .. n - 1 /\ j \in 0 .. Len(ops) /\ j \in 0 .. j
      BY <1>1, <1>4
    <2>2. ops[n] = "(" => Depth(ops, j) < Depth(ops, n)
      BY <1>1, <1>4, <2>1, DeeperInside
    <2>3. Depth(ops, j) \in Nat
      BY <1>1, <2>1, DepthRises
    <2> QED
      BY <1>4, <2>2, <2>3
  <1>6. Precedence[ops[n - 1]] < Precedence[ops[n]]
    BY <1>4, <1>5 DEF StackAscends
  <1>7. j # n - 1
    BY <1>4, <1>6
  <1>8. /\ n - 1 \in 1 .. Len(ops) /\ j < n - 1
        /\ Depth(ops, j) <= Depth(ops, n - 1) /\ Depth(ops, n - 1) <= Depth(ops, n)
        /\ Depth(ops, j) \in Nat /\ Depth(ops, n - 1) \in Nat
    <2>1. n - 1 \in 1 .. Len(ops) /\ j < n - 1 /\ n \in 0 .. Len(ops) /\ n - 1 \in 0 .. n
          /\ j \in 0 .. n - 1 /\ n - 1 \in 0 .. Len(ops)
      BY <1>1, <1>4, <1>7
    <2>2. Depth(ops, j) <= Depth(ops, n - 1) /\ Depth(ops, j) \in Nat /\ Depth(ops, n - 1) \in Nat
      BY <1>1, <2>1, DepthRises
    <2>3. Depth(ops, n - 1) <= Depth(ops, n)
      BY <1>1, <2>1, DepthRises
    <2> QED
      BY <2>1, <2>2, <2>3
  <1>9. Depth(ops, j) = Depth(ops, n - 1)
    BY <1>4, <1>8
  <1>10. Precedence[ops[j]] < Precedence[ops[n - 1]]
    BY <1>4, <1>8, <1>9
  <1> QED
    BY <1>2, <1>4, <1>6, <1>8, <1>10

-----------------------------------------------------------------------------
(* The invariant.  p and x are the places in the text of the terms that    *)
(* have been put out and where they end, s those of what is on the stack.  *)

\* The tokens put out are terms of t, each with the place x[k] where it ends.
OutPart(t, lim, o, p, x) ==
  /\ p \in Seq(Nat) /\ x \in Seq(Nat) /\ Len(p) = Len(o) /\ Len(x) = Len(o)
  /\ \A k \in 1 .. Len(o) :
        /\ p[k] \in Terms(t) /\ o[k] = TokenOf(t[p[k]])
        /\ p[k] <= x[k] /\ x[k] <= lim /\ EndsAt(t, p[k], x[k])

\* They are in postfix order.
OrderPart(p, x) ==
  \A j, k \in 1 .. Len(p) : j < k => x[j] < x[k] \/ (x[j] = x[k] /\ p[j] > p[k])

\* Those on the stack are from the places s of t, of which n have been
\* handled, and none of them has ended.
StackPart(t, n, w, s) ==
  /\ s \in Seq(Nat) /\ Len(s) = Len(w)
  /\ \A j, k \in 1 .. Len(s) : j < k => s[j] < s[k]
  /\ \A k \in 1 .. Len(s) :
        /\ s[k] \in 1 .. n /\ t[s[k]] = w[k] /\ Depth(t, s[k]) = Depth(w, k)
        /\ \A e \in s[k]+1 .. n : ~Ends(t, s[k], e)

\* What ended with the operator that is being handled lies inside what has
\* not ended.
TiePart(n, p, x, s) ==
  \A k \in 1 .. Len(p) : x[k] > n => \A j \in 1 .. Len(s) : p[k] > s[j]

\* Each of the first m characters that is a term is in one place or the other.
CoverPart(t, m, p, s) ==
  \A i \in Terms(t) : i <= m => \/ \E k \in 1 .. Len(p) : p[k] = i
                                \/ \E k \in 1 .. Len(s) : s[k] = i

Sorting(t, n, lim, m, o, w, p, x, s) ==
  /\ OutPart(t, lim, o, p, x)
  /\ OrderPart(p, x)
  /\ StackPart(t, n, w, s)
  /\ TiePart(n, p, x, s)
  /\ CoverPart(t, m, p, s)

IsSorting(t, n, lim, m, o, w) == \E p, x, s : Sorting(t, n, lim, m, o, w, p, x, s)

\* The places of what was put out are numbers.
LEMMA PlacesOut ==
  ASSUME NEW t, NEW lim, NEW o \in Seq(Tokens), NEW p, NEW x, OutPart(t, lim, o, p, x)
  PROVE  /\ p \in Seq(Nat) /\ x \in Seq(Nat) /\ Len(o) \in Nat
         /\ Len(p) = Len(o) /\ Len(x) = Len(o)
         /\ \A k \in 1 .. Len(o) : p[k] \in Nat /\ x[k] \in Nat
         /\ \A k \in 1 .. Len(o) :
              /\ p[k] \in Terms(t) /\ o[k] = TokenOf(t[p[k]])
              /\ p[k] <= x[k] /\ x[k] <= lim /\ EndsAt(t, p[k], x[k])
  <1>1. p \in Seq(Nat) /\ x \in Seq(Nat) /\ Len(p) = Len(o) /\ Len(x) = Len(o)
    BY DEF OutPart
  <1>2. Len(o) \in Nat
    OBVIOUS
  <1>3. \A k \in 1 .. Len(o) : p[k] \in Nat /\ x[k] \in Nat
    BY <1>1
  <1>4. \A k \in 1 .. Len(o) :
              /\ p[k] \in Terms(t) /\ o[k] = TokenOf(t[p[k]])
              /\ p[k] <= x[k] /\ x[k] <= lim /\ EndsAt(t, p[k], x[k])
    BY DEF OutPart
  <1> QED
    BY <1>1, <1>2, <1>3, <1>4

\* A term that comes last in the order can be put out.
LEMMA PutOut ==
  ASSUME NEW t \in Seq(Lexemes), NEW o \in Seq(Tokens), NEW p, NEW x, NEW lim \in Int,
         OutPart(t, lim, o, p, x), OrderPart(p, x),
         NEW q \in Terms(t), NEW e \in Nat, TokenOf(t[q]) \in Tokens,
         NEW up \in Int, q <= e, e <= up, lim <= up, EndsAt(t, q, e),
         \A k \in 1 .. Len(p) : x[k] < e \/ (x[k] = e /\ p[k] > q)
  PROVE  /\ OutPart(t, up, Append(o, TokenOf(t[q])), Append(p, q), Append(x, e))
         /\ OrderPart(Append(p, q), Append(x, e))
  <1> DEFINE o2 == Append(o, TokenOf(t[q]))
             p2 == Append(p, q)
             x2 == Append(x, e)
             l  == Len(o)
  <1>1. /\ l \in Nat /\ p \in Seq(Nat) /\ x \in Seq(Nat) /\ Len(p) = l /\ Len(x) = l
        /\ q \in Nat
    BY DEF OutPart, Terms
  <1>2. /\ Len(o2) = l + 1 /\ o2[l + 1] = TokenOf(t[q]) /\ \A k \in 1 .. l : o2[k] = o[k]
        /\ p2 \in Seq(Nat) /\ Len(p2) = l + 1 /\ p2[l + 1] = q /\ \A k \in 1 .. l : p2[k] = p[k]
        /\ x2 \in Seq(Nat) /\ Len(x2) = l + 1 /\ x2[l + 1] = e /\ \A k \in 1 .. l : x2[k] = x[k]
    <2>1. Len(o2) = l + 1 /\ o2[l + 1] = TokenOf(t[q]) /\ \A k \in 1 .. l : o2[k] = o[k]
      BY PushedStack
    <2>2. p2 \in Seq(Nat) /\ Len(p2) = l + 1 /\ p2[l + 1] = q /\ \A k \in 1 .. l : p2[k] = p[k]
      BY <1>1, PushedStack
    <2>3. x2 \in Seq(Nat) /\ Len(x2) = l + 1 /\ x2[l + 1] = e /\ \A k \in 1 .. l : x2[k] = x[k]
      BY <1>1, PushedStack
    <2> QED
      BY <2>1, <2>2, <2>3
  <1>3. \A k \in 1 .. l :
          /\ p[k] \in Nat /\ x[k] \in Nat
          /\ p[k] \in Terms(t) /\ o[k] = TokenOf(t[p[k]])
          /\ p[k] <= x[k] /\ x[k] <= lim /\ EndsAt(t, p[k], x[k])
    BY PlacesOut
  <1> HIDE DEF o2, p2, x2, l
  <1>4. ASSUME NEW k \in 1 .. l + 1
        PROVE  /\ p2[k] \in Terms(t) /\ o2[k] = TokenOf(t[p2[k]])
               /\ p2[k] <= x2[k] /\ x2[k] <= up /\ EndsAt(t, p2[k], x2[k])
    <2>1. CASE k = l + 1
      BY <1>2, <2>1
    <2>2. CASE k \in 1 .. l
      <3>1. x[k] <= lim /\ x[k] \in Nat
        BY <1>3, <2>2
      <3>2. x[k] <= up
        BY <3>1
      <3> QED
        BY <1>2, <1>3, <2>2, <3>2
    <2> QED
      BY <1>1, <2>1, <2>2
  <1>5. OutPart(t, up, o2, p2, x2)
    BY <1>2, <1>4 DEF OutPart
  <1>6. ASSUME NEW j \in 1 .. l + 1, NEW k \in 1 .. l + 1, j < k
        PROVE  x2[j] < x2[k] \/ (x2[j] = x2[k] /\ p2[j] > p2[k])
    <2>1. j \in 1 .. l
      BY <1>1, <1>6
    <2>2. CASE k = l + 1
      BY <1>1, <1>2, <2>1, <2>2
    <2>3. CASE k \in 1 .. l
      <3>1. x[j] < x[k] \/ (x[j] = x[k] /\ p[j] > p[k])
        BY <1>1, <1>6, <2>1, <2>3 DEF OrderPart
      <3> QED
        BY <1>2, <2>1, <2>3, <3>1
    <2> QED
      BY <1>1, <2>2, <2>3
  <1>7. OrderPart(p2, x2)
    BY <1>2, <1>6 DEF OrderPart
  <1> QED
    BY <1>5, <1>7 DEF o2, p2, x2, l

\* A word is put out where it is.
LEMMA WordOut ==
  ASSUME NEW t \in Seq(Lexemes), NEW o \in Seq(Tokens), NEW w \in Seq(Pushed),
         t # <<>>, t[Len(t)] \in Words,
         IsSorting(t, Len(t), Len(t) - 1, Len(t) - 1, o, w)
  PROVE  IsSorting(t, Len(t), Len(t), Len(t), Append(o, Operand(t[Len(t)])), w)
  <1>1. PICK p, x, s : Sorting(t, Len(t), Len(t) - 1, Len(t) - 1, o, w, p, x, s)
    BY DEF IsSorting
  <1>2. PICK n \in Nat \ {0} : n = Len(t)
    OBVIOUS
  <1>3. /\ OutPart(t, n - 1, o, p, x) /\ OrderPart(p, x) /\ StackPart(t, n, w, s)
        /\ TiePart(n, p, x, s) /\ CoverPart(t, n - 1, p, s)
    BY <1>1, <1>2 DEF Sorting
  <1>4. n \in Terms(t) /\ TokenOf(t[n]) = Operand(t[n]) /\ TokenOf(t[n]) \in Tokens /\ EndsAt(t, n, n)
    BY <1>2, LexiconApart, TokensOut DEF Terms, TokenOf, EndsAt
  <1>5. /\ p \in Seq(Nat) /\ x \in Seq(Nat) /\ Len(p) = Len(x) /\ Len(p) \in Nat
        /\ \A k \in 1 .. Len(p) : x[k] \in Nat /\ x[k] <= n - 1
    <2>1. OutPart(t, n - 1, o, p, x)
      BY <1>3
    <2>2. p \in Seq(Nat) /\ x \in Seq(Nat) /\ Len(p) = Len(o) /\ Len(x) = Len(o)
      BY <2>1 DEF OutPart
    <2>3. \A k \in 1 .. Len(o) : x[k] <= n - 1
      BY <2>1 DEF OutPart
    <2>4. \A k \in 1 .. Len(o) : x[k] \in Nat
      BY <2>2
    <2> QED
      BY <2>2, <2>3, <2>4
  <1> DEFINE p2 == Append(p, n)
             x2 == Append(x, n)
  <1>6. OutPart(t, n, Append(o, TokenOf(t[n])), p2, x2) /\ OrderPart(p2, x2)
    <2>1. \A k \in 1 .. Len(p) : x[k] < n \/ (x[k] = n /\ p[k] > n)
      BY <1>5
    <2>2. n <= n /\ n - 1 <= n /\ n \in Int /\ n - 1 \in Int /\ n \in Nat
      OBVIOUS
    <2> QED
      BY <1>3, <1>4, <2>1, <2>2, PutOut
  <1>7. /\ Len(p2) = Len(p) + 1 /\ p2[Len(p) + 1] = n /\ \A k \in 1 .. Len(p) : p2[k] = p[k]
        /\ Len(x2) = Len(x) + 1 /\ x2[Len(x) + 1] = n /\ \A k \in 1 .. Len(x) : x2[k] = x[k]
    <2>1. Len(p2) = Len(p) + 1 /\ p2[Len(p) + 1] = n /\ \A k \in 1 .. Len(p) : p2[k] = p[k]
      BY <1>5, PushedStack
    <2>2. Len(x2) = Len(x) + 1 /\ x2[Len(x) + 1] = n /\ \A k \in 1 .. Len(x) : x2[k] = x[k]
      BY <1>5, PushedStack
    <2> QED
      BY <2>1, <2>2
  <1> HIDE DEF p2, x2
  <1>8. TiePart(n, p2, x2, s)
    <2> SUFFICES ASSUME NEW k \in 1 .. Len(p2) PROVE ~(x2[k] > n)
      BY DEF TiePart
    <2>1. CASE k = Len(p) + 1
      BY <1>5, <1>7, <2>1
    <2>2. CASE k \in 1 .. Len(p)
      <3>1. x2[k] = x[k] /\ x[k] \in Nat /\ x[k] <= n - 1
        BY <1>5, <1>7, <2>2
      <3> QED
        BY <3>1
    <2> QED
      BY <1>5, <1>7, <2>1, <2>2
  <1>9. CoverPart(t, n, p2, s)
    <2> SUFFICES ASSUME NEW i \in Terms(t), i <= n
                 PROVE  (\E k \in 1 .. Len(p2) : p2[k] = i) \/ (\E k \in 1 .. Len(s) : s[k] = i)
      BY DEF CoverPart
    <2>1. CASE i = n
      BY <1>5, <1>7, <2>1
    <2>2. CASE i # n
      <3>1. i \in Nat /\ i <= n - 1
        BY <2>2 DEF Terms
      <3>2. (\E k \in 1 .. Len(p) : p[k] = i) \/ (\E k \in 1 .. Len(s) : s[k] = i)
        BY <1>3, <3>1 DEF CoverPart
      <3> QED
        BY <1>5, <1>7, <3>2
    <2> QED
      BY <2>1, <2>2
  <1>10. Sorting(t, n, n, n, Append(o, TokenOf(t[n])), w, p2, x2, s)
    BY <1>3, <1>6, <1>8, <1>9 DEF Sorting
  <1> QED
    BY <1>2, <1>4, <1>10 DEF IsSorting

\* The order does not change by reading on.
LEMMA GrowText ==
  ASSUME NEW t \in Seq(Lexemes), NEW ch \in Lexemes, NEW o, NEW w,
         NEW p, NEW x, NEW s,
         Sorting(t, Len(t), Len(t), Len(t), o, w, p, x, s)
  PROVE  Sorting(Append(t, ch), Len(t), Len(t), Len(t), o, w, p, x, s)
  <1> DEFINE u == Append(t, ch)
  <1>1. PICK n \in Nat : n = Len(t)
    OBVIOUS
  <1>2. Len(u) = n + 1 /\ \A i \in 1 .. n : u[i] = t[i]
    BY <1>1, PushedStack
  <1>3. \A i \in 1 .. n : Depth(u, i) = Depth(t, i)
    BY <1>1, DepthPushed
  <1>4. /\ \A i, e \in 1 .. n : Ends(t, i, e) <=> Ends(u, i, e)
        /\ \A i, e \in 1 .. n : EndsAt(t, i, e) => EndsAt(u, i, e)
    BY <1>1, EndsGrow
  <1>5. u \in Seq(Lexemes)
    BY PushedStack
  <1> HIDE DEF u
  <1>6. \A i \in 1 .. n : i \in Terms(t) <=> i \in Terms(u)
    BY <1>1, <1>2, <1>5 DEF Terms
  <1>7. /\ OutPart(t, n, o, p, x) /\ OrderPart(p, x) /\ StackPart(t, n, w, s)
        /\ TiePart(n, p, x, s) /\ CoverPart(t, n, p, s)
    BY <1>1 DEF Sorting
  <1>8. OutPart(u, n, o, p, x)
    <2> SUFFICES ASSUME NEW k \in 1 .. Len(o)
                 PROVE  /\ p[k] \in Terms(u) /\ o[k] = TokenOf(u[p[k]])
                        /\ p[k] <= x[k] /\ x[k] <= n /\ EndsAt(u, p[k], x[k])
      BY <1>7 DEF OutPart
    <2>1. /\ p[k] \in Terms(t) /\ o[k] = TokenOf(t[p[k]])
          /\ p[k] <= x[k] /\ x[k] <= n /\ EndsAt(t, p[k], x[k])
      BY <1>7 DEF OutPart
    <2>2. p \in Seq(Nat) /\ x \in Seq(Nat) /\ k \in 1 .. Len(p) /\ k \in 1 .. Len(x)
      BY <1>7 DEF OutPart
    <2>3. p[k] \in Nat /\ x[k] \in Nat
      BY <2>2
    <2>4. p[k] \in 1 .. n /\ x[k] \in 1 .. n
      BY <1>1, <2>1, <2>3 DEF Terms
    <2> QED
      BY <1>2, <1>4, <1>6, <2>1, <2>4
  <1>9. StackPart(u, n, w, s)
    <2> SUFFICES ASSUME NEW k \in 1 .. Len(s)
                 PROVE  /\ u[s[k]] = w[k] /\ Depth(u, s[k]) = Depth(w, k)
                        /\ \A e \in s[k]+1 .. n : ~Ends(u, s[k], e)
      BY <1>7 DEF StackPart
    <2>1. /\ s[k] \in 1 .. n /\ t[s[k]] = w[k] /\ Depth(t, s[k]) = Depth(w, k)
          /\ \A e \in s[k]+1 .. n : ~Ends(t, s[k], e)
      BY <1>7 DEF StackPart
    <2>2. \A e \in s[k]+1 .. n : e \in 1 .. n
      BY <1>1, <2>1
    <2> QED
      BY <1>2, <1>3, <1>4, <2>1, <2>2
  <1>10. CoverPart(u, n, p, s)
    <2>1. \A i \in Terms(u) : i <= n => i \in 1 .. n
      BY <1>1, <1>2, <1>5 DEF Terms
    <2> QED
      BY <1>6, <1>7, <2>1 DEF CoverPart
  <1>11. Sorting(u, n, n, n, o, w, p, x, s)
    BY <1>7, <1>8, <1>9, <1>10 DEF Sorting
  <1> QED
    BY <1>1, <1>11 DEF u

\* More may end than has been put out.
LEMMA Widen ==
  ASSUME NEW t, NEW n \in Int, NEW lim \in Int, NEW up \in Int, lim <= up, NEW m, NEW o, NEW w,
         NEW p, NEW x, NEW s, Sorting(t, n, lim, m, o, w, p, x, s)
  PROVE  Sorting(t, n, up, m, o, w, p, x, s)
  <1>1. OutPart(t, lim, o, p, x)
    BY DEF Sorting
  <1>2. \A k \in 1 .. Len(o) : x[k] <= up
    <2> TAKE k \in 1 .. Len(o)
    <2>1. x \in Seq(Nat) /\ k \in 1 .. Len(x) /\ x[k] <= lim
      BY <1>1 DEF OutPart
    <2>2. x[k] \in Nat
      BY <2>1
    <2> QED
      BY <2>1, <2>2
  <1>3. OutPart(t, up, o, p, x)
    BY <1>1, <1>2 DEF OutPart
  <1> QED
    BY <1>3 DEF Sorting

\* A character is passed that ends nothing of what is on the stack.
LEMMA Pass ==
  ASSUME NEW t, NEW n \in Nat, NEW m, NEW o, NEW w, NEW lim \in Int, lim <= n + 1,
         NEW p, NEW x, NEW s, Sorting(t, n, lim, m, o, w, p, x, s),
         \A k \in 1 .. Len(s) : ~Ends(t, s[k], n + 1)
  PROVE  Sorting(t, n + 1, lim, m, o, w, p, x, s)
  <1>1. /\ OutPart(t, lim, o, p, x) /\ OrderPart(p, x) /\ StackPart(t, n, w, s)
        /\ TiePart(n, p, x, s) /\ CoverPart(t, m, p, s)
    BY DEF Sorting
  <1>2. StackPart(t, n + 1, w, s)
    <2>1. ASSUME NEW k \in 1 .. Len(s)
          PROVE  /\ s[k] \in 1 .. n + 1 /\ t[s[k]] = w[k] /\ Depth(t, s[k]) = Depth(w, k)
                 /\ \A e \in s[k]+1 .. n + 1 : ~Ends(t, s[k], e)
      <3>1. /\ s[k] \in 1 .. n /\ t[s[k]] = w[k] /\ Depth(t, s[k]) = Depth(w, k)
            /\ \A e \in s[k]+1 .. n : ~Ends(t, s[k], e)
        BY <1>1 DEF StackPart
      <3>2. \A e \in s[k]+1 .. n + 1 : e \in s[k]+1 .. n \/ e = n + 1
        BY <3>1
      <3> QED
        BY <3>1, <3>2
    <2> QED
      BY <1>1, <2>1 DEF StackPart
  <1>3. TiePart(n + 1, p, x, s)
    <2> SUFFICES ASSUME NEW k \in 1 .. Len(p) PROVE ~(x[k] > n + 1)
      BY DEF TiePart
    <2>1. x \in Seq(Nat) /\ k \in 1 .. Len(x) /\ x[k] <= lim
      BY <1>1 DEF OutPart
    <2>2. x[k] \in Nat
      BY <2>1
    <2> QED
      BY <2>1, <2>2
  <1> QED
    BY <1>1, <1>2, <1>3 DEF Sorting

\* What is no term need not be put anywhere.
LEMMA Cover ==
  ASSUME NEW t \in Seq(Lexemes), NEW m \in Nat, m + 1 \notin Terms(t), NEW p, NEW s, CoverPart(t, m, p, s)
  PROVE  CoverPart(t, m + 1, p, s)
  <1>1. \A i \in Terms(t) : i <= m + 1 => i <= m
    <2> TAKE i \in Terms(t)
    <2>1. i # m + 1
      OBVIOUS
    <2>2. i \in DOMAIN t
      BY DEF Terms
    <2> QED
      BY <2>1, <2>2
  <1> QED
    BY <1>1 DEF CoverPart

\* Without its top the stack is still in order.
LEMMA PopPart ==
  ASSUME NEW t, NEW n \in Nat, NEW w \in Seq(Pushed), w # <<>>, NEW s, StackPart(t, n, w, s)
  PROVE  /\ StackPart(t, n, SubSeq(w, 1, Len(w) - 1), SubSeq(s, 1, Len(s) - 1))
         /\ Len(SubSeq(s, 1, Len(s) - 1)) = Len(s) - 1 /\ Len(s) = Len(w) /\ Len(s) \in Nat \ {0}
         /\ \A k \in 1 .. Len(s) - 1 : SubSeq(s, 1, Len(s) - 1)[k] = s[k]
         /\ \A k \in 1 .. Len(s) - 1 : s[k] < s[Len(s)]
         /\ s[Len(s)] \in 1 .. n
  <1> DEFINE w1 == SubSeq(w, 1, Len(w) - 1)
             s1 == SubSeq(s, 1, Len(s) - 1)
             l  == Len(s)
  <1>1. s \in Seq(Nat) /\ l = Len(w) /\ l \in Nat \ {0} /\ s # <<>>
    BY DEF StackPart
  <1>2. w1 \in Seq(Pushed) /\ Len(w1) = l - 1 /\ \A k \in 1 .. l - 1 : w1[k] = w[k]
    BY <1>1, PoppedStack
  <1>3. s1 \in Seq(Nat) /\ Len(s1) = l - 1 /\ \A k \in 1 .. l - 1 : s1[k] = s[k]
    BY <1>1, PoppedStack
  <1>4. \A j, k \in 1 .. l : j < k => s[j] < s[k]
    BY DEF StackPart
  <1>5. \A k \in 1 .. l :
          /\ s[k] \in 1 .. n /\ t[s[k]] = w[k] /\ Depth(t, s[k]) = Depth(w, k)
          /\ \A e \in s[k]+1 .. n : ~Ends(t, s[k], e)
    BY DEF StackPart
  <1> HIDE DEF w1, s1, l
  <1>6. \A k \in 1 .. l - 1 : Depth(w1, k) = Depth(w, k)
    <2> TAKE k \in 1 .. l - 1
    <2>1. k \in Nat /\ \A i \in 1 .. k : w1[i] = w[i]
      BY <1>1, <1>2
    <2> QED
      BY <2>1, SameDepth
  <1>7. \A k \in 1 .. l - 1 : k \in 1 .. l
    BY <1>1
  <1>8. StackPart(t, n, w1, s1)
    BY <1>2, <1>3, <1>4, <1>5, <1>6, <1>7 DEF StackPart
  <1>9. \A k \in 1 .. l - 1 : s[k] < s[l]
    <2> TAKE k \in 1 .. l - 1
    <2>1. k \in 1 .. l /\ l \in 1 .. l /\ k < l
      BY <1>1
    <2> QED
      BY <1>4, <2>1
  <1>10. s[l] \in 1 .. n
    <2>1. l \in 1 .. l
      BY <1>1
    <2> QED
      BY <1>5, <2>1
  <1> QED
    BY <1>1, <1>3, <1>8, <1>9, <1>10 DEF w1, s1, l

\* The operator on top is put out when what is handled next ends it.
LEMMA YieldOut ==
  ASSUME NEW t \in Seq(Lexemes), NEW n \in Nat, NEW m \in Nat, n <= Len(t),
         NEW o \in Seq(Tokens), NEW w \in Seq(Pushed), w # <<>>, w[Len(w)] # "(",
         NEW p, NEW x, NEW s, Sorting(t, n, n + 1, m, o, w, p, x, s),
         Ends(t, s[Len(s)], n + 1)
  PROVE  IsSorting(t, n, n + 1, m, Append(o, Operator(w[Len(w)])), SubSeq(w, 1, Len(w) - 1))
  <1> DEFINE s1 == SubSeq(s, 1, Len(s) - 1)
             w1 == SubSeq(w, 1, Len(w) - 1)
             l  == Len(s)
             p2 == Append(p, s[l])
             x2 == Append(x, n + 1)
  <1>1. /\ OutPart(t, n + 1, o, p, x) /\ OrderPart(p, x) /\ StackPart(t, n, w, s)
        /\ TiePart(n, p, x, s) /\ CoverPart(t, m, p, s)
    BY DEF Sorting
  <1>2. /\ StackPart(t, n, w1, s1)
        /\ Len(s1) = l - 1 /\ l = Len(w) /\ l \in Nat \ {0}
        /\ \A k \in 1 .. l - 1 : s1[k] = s[k]
        /\ \A k \in 1 .. l - 1 : s[k] < s[l]
        /\ s[l] \in 1 .. n
    BY <1>1, PopPart
  <1>3. w[l] \in Binary /\ Operator(w[l]) \in Tokens
    <2>1. w[Len(w)] \in Pushed
      BY PoppedStack
    <2> QED
      BY <1>2, <2>1, TokensOut DEF Pushed, Binary
  <1>4. /\ t[s[l]] = w[l] /\ \A e \in s[l]+1 .. n : ~Ends(t, s[l], e)
        /\ \A k \in 1 .. l : s[k] \in 1 .. n
    <2>1. \A k \in 1 .. l : /\ s[k] \in 1 .. n /\ t[s[k]] = w[k]
                            /\ \A e \in s[k]+1 .. n : ~Ends(t, s[k], e)
      BY <1>1 DEF StackPart
    <2>2. l \in 1 .. l
      BY <1>2
    <2> QED
      BY <2>1, <2>2
  <1>5. s[l] \in Terms(t) /\ TokenOf(t[s[l]]) = Operator(w[l])
    BY <1>2, <1>3, <1>4, LexiconApart DEF Terms, TokenOf
  <1>6. EndsAt(t, s[l], n + 1)
    <2>1. n + 1 \in s[l]+1 .. Len(t) + 1 /\ \A e \in s[l]+1 .. n + 1 - 1 : e \in s[l]+1 .. n
      BY <1>2
    <2>2. t[s[l]] \notin Words
      BY <1>3, <1>4, LexiconApart
    <2> QED
      BY <1>4, <2>1, <2>2 DEF EndsAt
  <1>7. /\ p \in Seq(Nat) /\ x \in Seq(Nat) /\ Len(p) = Len(x) /\ Len(p) \in Nat
        /\ \A k \in 1 .. Len(p) : p[k] \in Nat /\ x[k] \in Nat /\ x[k] <= n + 1
    <2>1. OutPart(t, n + 1, o, p, x)
      BY <1>1
    <2>2. p \in Seq(Nat) /\ x \in Seq(Nat) /\ Len(p) = Len(o) /\ Len(x) = Len(o)
      BY <2>1 DEF OutPart
    <2>3. \A k \in 1 .. Len(o) : x[k] <= n + 1
      BY <2>1 DEF OutPart
    <2>4. \A k \in 1 .. Len(p) : p[k] \in Nat
      BY <2>2, ElementOfSeq
    <2>5. \A k \in 1 .. Len(x) : x[k] \in Nat
      BY <2>2, ElementOfSeq
    <2> QED
      BY <2>2, <2>3, <2>4, <2>5
  <1>8. \A k \in 1 .. Len(p) : x[k] > n => \A j \in 1 .. l : p[k] > s[j]
    BY <1>1 DEF TiePart
  <1> HIDE DEF s1, w1, l, p2, x2
  <1>9. OutPart(t, n + 1, Append(o, TokenOf(t[s[l]])), p2, x2) /\ OrderPart(p2, x2)
    <2>1. \A k \in 1 .. Len(p) : x[k] < n + 1 \/ (x[k] = n + 1 /\ p[k] > s[l])
      <3> TAKE k \in 1 .. Len(p)
      <3>1. l \in 1 .. l /\ x[k] \in Nat /\ x[k] <= n + 1
        BY <1>2, <1>7
      <3>2. CASE x[k] > n
        <4>1. p[k] > s[l]
          BY <1>8, <3>1, <3>2
        <4> QED
          BY <3>1, <3>2, <4>1
      <3>3. CASE ~(x[k] > n)
        BY <3>1, <3>3
      <3> QED
        BY <3>2, <3>3
    <2>2. s[l] <= n + 1 /\ n + 1 <= n + 1 /\ n + 1 \in Nat /\ n + 1 \in Int
      BY <1>2
    <2>3. TokenOf(t[s[l]]) \in Tokens
      BY <1>3, <1>5
    <2> QED
      BY <1>1, <1>5, <1>6, <2>1, <2>2, <2>3, PutOut DEF p2, x2
  <1>10. /\ Len(p2) = Len(p) + 1 /\ p2[Len(p) + 1] = s[l] /\ \A k \in 1 .. Len(p) : p2[k] = p[k]
         /\ Len(x2) = Len(x) + 1 /\ x2[Len(x) + 1] = n + 1 /\ \A k \in 1 .. Len(x) : x2[k] = x[k]
    <2>1. Len(p2) = Len(p) + 1 /\ p2[Len(p) + 1] = s[l] /\ \A k \in 1 .. Len(p) : p2[k] = p[k]
      <3>1. s[l] \in Nat
        BY <1>2
      <3> QED
        BY <1>7, <3>1, PushedStack DEF p2
    <2>2. Len(x2) = Len(x) + 1 /\ x2[Len(x) + 1] = n + 1 /\ \A k \in 1 .. Len(x) : x2[k] = x[k]
      BY <1>7, PushedStack DEF x2
    <2> QED
      BY <2>1, <2>2
  <1>11. TiePart(n, p2, x2, s1)
    <2> SUFFICES ASSUME NEW k \in 1 .. Len(p2), x2[k] > n, NEW j \in 1 .. Len(s1)
                 PROVE  p2[k] > s1[j]
      BY DEF TiePart
    <2>1. j \in 1 .. l - 1 /\ j \in 1 .. l /\ s1[j] = s[j] /\ s[j] < s[l]
      BY <1>2
    <2>2. CASE k = Len(p) + 1
      <3>1. s[j] \in 1 .. n /\ s[l] \in 1 .. n
        BY <1>2, <1>4, <2>1
      <3>2. p2[k] = s[l] /\ s1[j] = s[j] /\ s[j] < s[l]
        BY <1>10, <2>1, <2>2
      <3> QED
        BY <3>1, <3>2
    <2>3. CASE k \in 1 .. Len(p)
      <3>1. p2[k] = p[k] /\ x2[k] = x[k]
        BY <1>7, <1>10, <2>3
      <3> QED
        BY <1>8, <2>1, <2>3, <3>1
    <2>4. k = Len(p) + 1 \/ k \in 1 .. Len(p)
      BY <1>7, <1>10
    <2> QED
      BY <2>2, <2>3, <2>4
  <1>12. CoverPart(t, m, p2, s1)
    <2> SUFFICES ASSUME NEW i \in Terms(t), i <= m
                 PROVE  (\E k \in 1 .. Len(p2) : p2[k] = i) \/ (\E k \in 1 .. Len(s1) : s1[k] = i)
      BY DEF CoverPart
    <2>1. (\E k \in 1 .. Len(p) : p[k] = i) \/ (\E k \in 1 .. l : s[k] = i)
      BY <1>1 DEF CoverPart, l
    <2>2. CASE \E k \in 1 .. Len(p) : p[k] = i
      <3>1. PICK k \in 1 .. Len(p) : p[k] = i
        BY <2>2
      <3>2. k \in 1 .. Len(p2)
        BY <1>7, <1>10
      <3>3. p2[k] = i
        BY <1>10, <3>1
      <3> QED
        BY <3>2, <3>3
    <2>3. CASE \E k \in 1 .. l : s[k] = i
      <3>1. PICK k \in 1 .. l : s[k] = i
        BY <2>3
      <3>2. CASE k = l
        <4>1. Len(p) + 1 \in 1 .. Len(p2)
          BY <1>7, <1>10
        <4>2. p2[Len(p) + 1] = i
          BY <1>10, <3>1, <3>2
        <4> QED
          BY <4>1, <4>2
      <3>3. CASE k # l
        <4>1. k \in 1 .. l - 1
          BY <1>2, <3>3
        <4> QED
          BY <1>2, <3>1, <4>1
      <3> QED
        BY <3>2, <3>3
    <2> QED
      BY <2>1, <2>2, <2>3
  <1>13. Sorting(t, n, n + 1, m, Append(o, Operator(w[l])), w1, p2, x2, s1)
    BY <1>2, <1>5, <1>9, <1>11, <1>12 DEF Sorting
  <1> QED
    BY <1>2, <1>13 DEF IsSorting, w1

\* What is pushed ends nothing that is still on the stack.
LEMMA PushedEndsNone ==
  ASSUME NEW t \in Seq(Lexemes), NEW n \in Nat, n < Len(t), NEW w \in Seq(Pushed),
         NEW c \in Pushed, t[n + 1] = c,
         Depth(t, n) = Depth(w, Len(w)), Rises(w),
         c # "(" => \/ w = <<>>
                    \/ w[Len(w)] = "("
                    \/ Precedence[w[Len(w)]] < Precedence[c],
         NEW s, StackPart(t, n, w, s), NEW k \in 1 .. Len(s)
  PROVE  ~Ends(t, s[k], n + 1)
  <1> SUFFICES ASSUME Ends(t, s[k], n + 1) PROVE FALSE
    OBVIOUS
  <1> DEFINE l == Len(w)
  <1>1. /\ k \in 1 .. l /\ l \in Nat \ {0} /\ w # <<>>
        /\ t[s[k]] = w[k] /\ Depth(t, s[k]) = Depth(w, k)
    BY DEF StackPart
  <1>2. w[k] \in Pushed /\ w[l] \in Pushed
    BY <1>1
  <1>3. /\ c \in Binary /\ Depth(t, n + 1) = Depth(w, k) /\ Precedence[c] <= Precedence[w[k]]
    <2>1. n + 1 # Len(t) + 1 /\ c # ")"
      BY DEF Pushed
    <2> QED
      BY <1>1, <2>1 DEF Ends, Binary
  <1>4. Depth(t, n + 1) = Depth(w, l)
    <2>1. Depth(t, n) \in Int /\ Depth(t, n + 1) = Depth(t, n) + Turn(t[n + 1])
      BY DepthNext
    <2>2. Turn(c) = 0
      BY <1>3 DEF Turn, Binary
    <2> QED
      BY <2>1, <2>2
  <1>5. /\ Precedence[c] \in Nat /\ Precedence[w[k]] \in Nat /\ Precedence[w[l]] \in Nat
        /\ Precedence["("] < Precedence[c]
    BY <1>2, <1>3, ParenthesisIsLowest DEF Pushed, Binary
  <1>6. Precedence[w[l]] < Precedence[c]
    <2>1. c # "("
      BY <1>3 DEF Binary
    <2> QED
      BY <1>1, <1>5, <2>1
  <1>7. k # l
    BY <1>3, <1>5, <1>6
  <1>8. k < l /\ k \in 0 .. l - 1 /\ l \in 1 .. l
    BY <1>1, <1>7
  <1>9. Precedence[w[k]] < Precedence[w[l]]
    BY <1>1, <1>3, <1>4, <1>8 DEF Rises
  <1> QED
    BY <1>3, <1>5, <1>6, <1>9

\* An operator is pushed.
LEMMA PushOn ==
  ASSUME NEW t \in Seq(Lexemes), NEW n \in Nat, n < Len(t), NEW w \in Seq(Pushed),
         NEW c \in Pushed, t[n + 1] = c,
         Depth(t, n) = Depth(w, Len(w)), Rises(w),
         c # "(" => \/ w = <<>>
                    \/ w[Len(w)] = "("
                    \/ Precedence[w[Len(w)]] < Precedence[c],
         NEW o, IsSorting(t, n, n + 1, n, o, w)
  PROVE  IsSorting(t, n + 1, n + 1, n + 1, o, Append(w, c))
  <1>1. PICK p, x, s : Sorting(t, n, n + 1, n, o, w, p, x, s)
    BY DEF IsSorting
  <1>2. StackPart(t, n, w, s)
    BY <1>1 DEF Sorting
  <1>3. \A k \in 1 .. Len(s) : ~Ends(t, s[k], n + 1)
    BY <1>2, PushedEndsNone
  <1>4. Sorting(t, n + 1, n + 1, n, o, w, p, x, s)
    <2>1. n + 1 \in Int /\ n + 1 <= n + 1
      OBVIOUS
    <2> QED
      BY <1>1, <1>3, <2>1, Pass
  <1>5. /\ OutPart(t, n + 1, o, p, x) /\ OrderPart(p, x) /\ StackPart(t, n + 1, w, s)
        /\ TiePart(n + 1, p, x, s) /\ CoverPart(t, n, p, s)
    BY <1>4 DEF Sorting
  <1> DEFINE l  == Len(w)
             w2 == Append(w, c)
             s2 == Append(s, n + 1)
  <1>6. /\ l \in Nat /\ s \in Seq(Nat) /\ Len(s) = l
        /\ \A j, k \in 1 .. l : j < k => s[j] < s[k]
        /\ \A k \in 1 .. l : s[k] \in 1 .. n
    BY <1>2 DEF StackPart
  <1>7. \A k \in 1 .. l :
          /\ t[s[k]] = w[k] /\ Depth(t, s[k]) = Depth(w, k)
          /\ \A e \in s[k]+1 .. n + 1 : ~Ends(t, s[k], e)
    BY <1>5, <1>6 DEF StackPart
  <1>8. Len(w2) = l + 1 /\ w2[l + 1] = c /\ \A k \in 1 .. l : w2[k] = w[k]
    BY PushedStack
  <1>9. s2 \in Seq(Nat) /\ Len(s2) = l + 1 /\ s2[l + 1] = n + 1 /\ \A k \in 1 .. l : s2[k] = s[k]
    <2>1. n + 1 \in Nat
      OBVIOUS
    <2> QED
      BY <1>6, <2>1, PushedStack
  <1>10. Depth(w2, l + 1) = Depth(w, l) + Turn(c) /\ \A k \in 1 .. l : Depth(w2, k) = Depth(w, k)
    BY <1>6, DepthPushed
  <1>11. Depth(t, n + 1) = Depth(w2, l + 1)
    BY <1>10, DepthNext
  <1> HIDE DEF l, w2, s2
  <1>12. StackPart(t, n + 1, w2, s2)
    <2>1. ASSUME NEW j \in 1 .. l + 1, NEW k \in 1 .. l + 1, j < k
          PROVE  s2[j] < s2[k]
      <3>1. j \in 1 .. l /\ s[j] \in 1 .. n /\ s2[j] = s[j]
        BY <1>6, <1>9, <2>1
      <3>2. CASE k = l + 1
        BY <1>9, <3>1, <3>2
      <3>3. CASE k \in 1 .. l
        BY <1>6, <1>9, <2>1, <3>1, <3>3
      <3> QED
        BY <1>6, <3>2, <3>3
    <2>2. ASSUME NEW k \in 1 .. l + 1
          PROVE  /\ s2[k] \in 1 .. n + 1 /\ t[s2[k]] = w2[k] /\ Depth(t, s2[k]) = Depth(w2, k)
                 /\ \A e \in s2[k]+1 .. n + 1 : ~Ends(t, s2[k], e)
      <3>1. CASE k = l + 1
        BY <1>8, <1>9, <1>11, <3>1
      <3>2. CASE k \in 1 .. l
        <4>1. s2[k] = s[k] /\ s[k] \in 1 .. n /\ w2[k] = w[k] /\ Depth(w2, k) = Depth(w, k)
          BY <1>6, <1>8, <1>9, <1>10, <3>2
        <4> QED
          BY <1>7, <3>2, <4>1
      <3> QED
        BY <1>6, <3>1, <3>2
    <2> QED
      BY <1>8, <1>9, <2>1, <2>2 DEF StackPart
  <1>13. TiePart(n + 1, p, x, s2)
    <2> SUFFICES ASSUME NEW k \in 1 .. Len(p) PROVE ~(x[k] > n + 1)
      BY DEF TiePart
    <2>1. x \in Seq(Nat) /\ k \in 1 .. Len(x) /\ x[k] <= n + 1
      BY <1>5 DEF OutPart
    <2>2. x[k] \in Nat
      BY <2>1
    <2> QED
      BY <2>1, <2>2
  <1>14. CoverPart(t, n + 1, p, s2)
    <2> SUFFICES ASSUME NEW i \in Terms(t), i <= n + 1
                 PROVE  (\E k \in 1 .. Len(p) : p[k] = i) \/ (\E k \in 1 .. Len(s2) : s2[k] = i)
      BY DEF CoverPart
    <2>1. CASE i = n + 1
      BY <1>6, <1>9, <2>1
    <2>2. CASE i # n + 1
      <3>1. i \in Nat /\ i <= n
        BY <2>2 DEF Terms
      <3>2. (\E k \in 1 .. Len(p) : p[k] = i) \/ (\E k \in 1 .. l : s[k] = i)
        BY <1>5, <1>6, <3>1 DEF CoverPart
      <3> QED
        BY <1>6, <1>9, <3>2
    <2> QED
      BY <2>1, <2>2
  <1> QED
    BY <1>5, <1>12, <1>13, <1>14 DEF Sorting, IsSorting, w2

\* A pair of parentheses is taken off.
LEMMA CloseOff ==
  ASSUME NEW t \in Seq(Lexemes), NEW n \in Nat, n < Len(t), NEW w \in Seq(Pushed), w # <<>>,
         t[n + 1] = ")", w[Len(w)] = "(", Depth(t, n) = Depth(w, Len(w)),
         NEW o, IsSorting(t, n, n + 1, n, o, w)
  PROVE  IsSorting(t, n + 1, n + 1, n + 1, o, SubSeq(w, 1, Len(w) - 1))
  <1>1. PICK p, x, s : Sorting(t, n, n + 1, n, o, w, p, x, s)
    BY DEF IsSorting
  <1>2. /\ OutPart(t, n + 1, o, p, x) /\ OrderPart(p, x) /\ StackPart(t, n, w, s)
        /\ TiePart(n, p, x, s) /\ CoverPart(t, n, p, s)
    BY <1>1 DEF Sorting
  <1> DEFINE w1 == SubSeq(w, 1, Len(w) - 1)
             s1 == SubSeq(s, 1, Len(s) - 1)
             l  == Len(s)
  <1>3. /\ StackPart(t, n, w1, s1)
        /\ Len(s1) = l - 1 /\ l = Len(w) /\ l \in Nat \ {0}
        /\ \A k \in 1 .. l - 1 : s1[k] = s[k]
        /\ \A k \in 1 .. l - 1 : s[k] < s[l]
        /\ s[l] \in 1 .. n
    BY <1>2, PopPart
  <1>4. \A k \in 1 .. l : t[s[k]] = w[k] /\ Depth(t, s[k]) = Depth(w, k)
    BY <1>2 DEF StackPart
  <1> HIDE DEF w1, s1, l
  <1>5. TiePart(n, p, x, s1)
    <2>1. \A j \in 1 .. Len(s1) : j \in 1 .. Len(s) /\ s1[j] = s[j]
      BY <1>3 DEF l
    <2> QED
      BY <1>2, <2>1 DEF TiePart
  <1>6. CoverPart(t, n, p, s1)
    <2> SUFFICES ASSUME NEW i \in Terms(t), i <= n
                 PROVE  (\E k \in 1 .. Len(p) : p[k] = i) \/ (\E k \in 1 .. Len(s1) : s1[k] = i)
      BY DEF CoverPart
    <2>1. (\E k \in 1 .. Len(p) : p[k] = i) \/ (\E k \in 1 .. l : s[k] = i)
      BY <1>2 DEF CoverPart, l
    <2>2. ASSUME NEW k \in 1 .. l, s[k] = i PROVE k \in 1 .. l - 1
      <3>1. t[i] # "("
        BY DEF Terms
      <3>2. k # l
        BY <1>3, <1>4, <2>2, <3>1
      <3> QED
        BY <1>3, <3>2
    <2> QED
      BY <1>3, <2>1, <2>2
  <1>7. Sorting(t, n, n + 1, n, o, w1, p, x, s1)
    BY <1>2, <1>3, <1>5, <1>6 DEF Sorting
  <1>8. ASSUME NEW k \in 1 .. Len(s1) PROVE ~Ends(t, s1[k], n + 1)
    <2>1. k \in 1 .. l - 1 /\ k \in 1 .. l /\ k \in 0 .. l - 1 /\ s1[k] = s[k] /\ l \in 1 .. Len(w)
      BY <1>3
    <2>2. Depth(t, s[k]) = Depth(w, k)
      BY <1>4, <2>1
    <2>3. Depth(w, k) < Depth(w, l)
      BY <1>3, <2>1, DeeperInside
    <2>4. Depth(w, k) \in Int /\ Depth(w, l) \in Int
      BY <1>3, <2>1, DepthNext
    <2>5. Depth(t, n + 1) = Depth(w, l) - 1
      <3>1. Depth(t, n + 1) = Depth(t, n) + Turn(t[n + 1])
        BY DepthNext
      <3>2. Turn(")") = -1
        BY DEF Turn
      <3> QED
        BY <1>3, <2>4, <3>1, <3>2
    <2>6. ~(Depth(t, n + 1) < Depth(t, s[k]))
      BY <2>2, <2>3, <2>4, <2>5
    <2>7. n + 1 # Len(t) + 1
      OBVIOUS
    <2> QED
      BY <2>1, <2>6, <2>7 DEF Ends
  <1>9. Sorting(t, n + 1, n + 1, n, o, w1, p, x, s1)
    <2>1. n + 1 \in Int /\ n + 1 <= n + 1
      OBVIOUS
    <2> QED
      BY <1>7, <1>8, <2>1, Pass
  <1>10. CoverPart(t, n + 1, p, s1)
    <2>1. n + 1 \notin Terms(t)
      BY DEF Terms
    <2> QED
      BY <1>6, <2>1, Cover
  <1>11. Sorting(t, n + 1, n + 1, n + 1, o, w1, p, x, s1)
    BY <1>9, <1>10 DEF Sorting
  <1> QED
    BY <1>11 DEF IsSorting, w1

\* What a function without repetitions lists from 1 to n has n members.
LEMMA CountListed ==
  ASSUME NEW n \in Nat, NEW S, NEW f,
         \A y : y \in S <=> \E i \in 1 .. n : y = f[i],
         \A i, j \in 1 .. n : f[i] = f[j] => i = j
  PROVE  Cardinality(S) = n
  <1> DEFINE g == [i \in 1 .. n |-> f[i]]
  <1>1. \A i \in 1 .. n : g[i] \in S
    OBVIOUS
  <1>2. \A y \in S : \E i \in 1 .. n : g[i] = y
    OBVIOUS
  <1>3. \A i, j \in 1 .. n : g[i] = g[j] => i = j
    OBVIOUS
  <1>4. g \in Bijection(1 .. n, S)
    <2>1. g \in [1 .. n -> S]
      BY <1>1
    <2> HIDE DEF g
    <2> QED
      BY <1>2, <1>3, <2>1 DEF Bijection, Injection, Surjection, IsInjective
  <1>5. ExistsBijection(1 .. n, S)
    BY <1>4 DEF ExistsBijection
  <1> QED
    BY <1>5, FS_CountingElements

\* When nothing is left on the stack, what was put out is what is to be.
LEMMA InOrder ==
  ASSUME NEW t \in Seq(Lexemes), NEW o \in Seq(Tokens), NEW lim, NEW n \in Nat,
         IsSorting(t, n, lim, Len(t), o, <<>>)
  PROVE  /\ Len(o) = Cardinality(TermsOf(t))
         /\ \A a \in TermsOf(t) :
              o[Cardinality({b \in TermsOf(t) : Sooner(b, a)}) + 1] = TokenOf(t[a[2]])
  <1>1. PICK p, x, s : Sorting(t, n, lim, Len(t), o, <<>>, p, x, s)
    BY DEF IsSorting
  <1> DEFINE l    == Len(o)
             f    == [k \in 1 .. l |-> <<x[k], p[k]>>]
             S    == TermsOf(t)
             H(a) == {b \in S : Sooner(b, a)}
  <1>2. /\ l \in Nat /\ Len(p) = l
        /\ \A k \in 1 .. l : /\ p[k] \in Terms(t) /\ o[k] = TokenOf(t[p[k]])
                             /\ p[k] \in Nat /\ x[k] \in Nat /\ EndsAt(t, p[k], x[k])
    BY <1>1 DEF Sorting, OutPart
  <1>3. \A j, k \in 1 .. l : j < k => Sooner(f[j], f[k])
    BY <1>1, <1>2 DEF Sorting, OrderPart, Sooner
  <1>4. \A a, b \in Nat \X Nat : Sooner(a, b) => ~Sooner(b, a) /\ a # b
    BY DEF Sooner
  <1>5. \A k \in 1 .. l : f[k] \in Nat \X Nat /\ f[k][2] = p[k]
    BY <1>2
  <1>6. \A k \in 1 .. l : f[k] = <<TermEnd(t, p[k]), p[k]>>
    BY <1>2, OneEnd
  <1>7. \A i \in Terms(t) : \E k \in 1 .. l : p[k] = i
    <2> TAKE i \in Terms(t)
    <2>1. i <= Len(t)
      BY DEF Terms
    <2>2. s \in Seq(Nat) /\ Len(s) = 0
      BY <1>1 DEF Sorting, StackPart
    <2> QED
      BY <1>1, <1>2, <2>1, <2>2 DEF Sorting, CoverPart
  <1>8. \A y : y \in S <=> \E i \in Terms(t) : y = <<TermEnd(t, i), i>>
    BY DEF TermsOf
  <1> HIDE DEF l, f, S, H
  <1>9. \A y : y \in S <=> \E k \in 1 .. l : y = f[k]
    <2>1. ASSUME NEW y, y \in S PROVE \E k \in 1 .. l : y = f[k]
      BY <1>6, <1>7, <1>8, <2>1
    <2>2. ASSUME NEW k \in 1 .. l PROVE f[k] \in S
      BY <1>2, <1>6, <1>8
    <2> QED
      BY <2>1, <2>2
  <1>10. \A j, k \in 1 .. l : f[j] = f[k] => j = k
    <2> TAKE j, k \in 1 .. l
    <2>1. j < k \/ j = k \/ k < j
      BY <1>2
    <2> QED
      BY <1>3, <1>4, <1>5, <2>1
  <1>11. Cardinality(S) = l
    BY <1>2, <1>9, <1>10, CountListed
  <1>12. ASSUME NEW k \in 1 .. l
         PROVE  Cardinality(H(f[k])) = k - 1
    <2>1. k - 1 \in Nat /\ \A j \in 1 .. k - 1 : j \in 1 .. l /\ j < k
      BY <1>2
    <2>2. \A y : y \in H(f[k]) <=> \E j \in 1 .. k - 1 : y = f[j]
      <3>1. ASSUME NEW y, y \in H(f[k]) PROVE \E j \in 1 .. k - 1 : y = f[j]
        <4>1. y \in S /\ Sooner(y, f[k])
          BY <3>1 DEF H
        <4>2. PICK j \in 1 .. l : y = f[j]
          BY <1>9, <4>1
        <4>3. ~(k < j) /\ j # k
          BY <1>3, <1>4, <1>5, <4>1, <4>2
        <4>4. j \in 1 .. k - 1
          BY <1>2, <4>3
        <4> QED
          BY <4>2, <4>4
      <3>2. ASSUME NEW j \in 1 .. k - 1 PROVE f[j] \in H(f[k])
        <4>1. f[j] \in S /\ Sooner(f[j], f[k])
          BY <1>3, <1>9, <2>1
        <4> QED
          BY <4>1 DEF H
      <3> QED
        BY <3>1, <3>2
    <2>3. \A i, j \in 1 .. k - 1 : f[i] = f[j] => i = j
      BY <1>10, <2>1
    <2> QED
      BY <2>1, <2>2, <2>3, CountListed
  <1>13. ASSUME NEW a \in S
         PROVE  o[Cardinality(H(a)) + 1] = TokenOf(t[a[2]])
    <2>1. PICK k \in 1 .. l : a = f[k]
      BY <1>9
    <2>2. Cardinality(H(a)) = k - 1 /\ k - 1 + 1 = k
      BY <1>2, <1>12, <2>1
    <2>3. o[k] = TokenOf(t[a[2]])
      BY <1>2, <1>5, <2>1
    <2> QED
      BY <2>2, <2>3
  <1> QED
    BY <1>11, <1>13 DEF l, S, H

\* What reading a character means for the order.
LEMMA ReadOn ==
  ASSUME NEW t \in Seq(Lexemes), NEW ch \in Lexemes, NEW o, NEW w, NEW n \in Nat, n = Len(t),
         IsSorting(t, n, n, n, o, w)
  PROVE  /\ IsSorting(Append(t, ch), n, n + 1, n, o, w)
         /\ ch \in Words \cup {"blank"} => IsSorting(Append(t, ch), n + 1, n, n, o, w)
         /\ ch = "blank" => IsSorting(Append(t, ch), n + 1, n + 1, n + 1, o, w)
  <1> DEFINE u == Append(t, ch)
  <1>1. PICK p, x, s : Sorting(t, n, n, n, o, w, p, x, s)
    BY DEF IsSorting
  <1>2. Sorting(u, n, n, n, o, w, p, x, s)
    BY <1>1, GrowText
  <1>3. u \in Seq(Lexemes) /\ Len(u) = n + 1 /\ u[n + 1] = ch
    BY PushedStack
  <1>4. n \in Int /\ n + 1 \in Int /\ n <= n + 1
    OBVIOUS
  <1> HIDE DEF u
  <1>5. Sorting(u, n, n + 1, n, o, w, p, x, s)
    BY <1>2, <1>4, Widen
  <1>6. ASSUME ch \in Words \cup {"blank"}
        PROVE  Sorting(u, n + 1, n, n, o, w, p, x, s)
    <2>1. \A i : ~Ends(u, i, n + 1)
      BY <1>3, <1>6, LexiconApart DEF Ends
    <2> QED
      BY <1>2, <1>4, <2>1, Pass
  <1>7. ASSUME ch = "blank"
        PROVE  Sorting(u, n + 1, n + 1, n + 1, o, w, p, x, s)
    <2>1. Sorting(u, n + 1, n + 1, n, o, w, p, x, s)
      BY <1>4, <1>6, <1>7, Widen
    <2>2. n + 1 \notin Terms(u)
      BY <1>3, <1>7 DEF Terms
    <2>3. CoverPart(u, n + 1, p, s)
      BY <1>3, <2>1, <2>2, Cover DEF Sorting
    <2> QED
      BY <2>1, <2>3 DEF Sorting
  <1> QED
    BY <1>5, <1>6, <1>7 DEF IsSorting, u

-----------------------------------------------------------------------------
\* Where a term that has been put out has ended, and up to where the terms are
\* on the stack or have been put out.
Limit   == IF status = "scanning" THEN IF word = <<>> THEN Len(text) ELSE Len(text) - 1
           ELSE Len(text) + 1
Covered == IF word = <<>> THEN Sorted ELSE Sorted - 1

\* The output is in postfix order, as far as it goes.
OrderOK ==
  /\ word # <<>> => /\ op = <<>> /\ text # <<>> /\ text[Len(text)] = word[1]
                    /\ status \notin {"draining", "success"}
  /\ status \in {"scanning", "draining", "success"} =>
        IsSorting(text, Sorted, Limit, Covered, out, ops)
  /\ status = "success" => op = <<>> /\ ops = <<>>

\* Ending a word puts it in order.
LEMMA WordOrder ==
  ASSUME TypeOK, OrderOK, status = "scanning", op = <<>>, EndWord, NEW n \in Nat, n = Len(text)
  PROVE  IsSorting(text, n, n, n, out', ops)
  <1>1. Sorted = n /\ IsSorting(text, Sorted, Limit, Covered, out, ops)
    BY DEF OrderOK, Sorted
  <1>2. text \in Seq(Lexemes) /\ out \in Seq(Tokens) /\ ops \in Seq(Pushed)
    BY DEF TypeOK
  <1>3. CASE word = <<>>
    BY <1>1, <1>3 DEF EndWord, Limit, Covered
  <1>4. CASE word # <<>>
    <2>1. word[1] \in Words /\ text # <<>> /\ text[n] = word[1]
      BY <1>4 DEF OrderOK, TypeOK
    <2>2. IsSorting(text, n, n - 1, n - 1, out, ops)
      BY <1>1, <1>4 DEF Limit, Covered
    <2>3. out' = Append(out, Operand(text[n]))
      BY <1>4, <2>1 DEF EndWord
    <2> QED
      BY <1>2, <2>1, <2>2, <2>3, WordOut
  <1> QED
    BY <1>3, <1>4

\* Reading keeps the order.
LEMMA ReadOrder ==
  ASSUME TypeOK, OrderOK, Read
  PROVE  OrderOK'
  <1>1. PICK n \in Nat : n = Len(text)
    BY DEF TypeOK
  <1>2. text \in Seq(Lexemes)
    BY DEF TypeOK
  <1>3. ASSUME NEW ch \in Lexemes, Reading(ch)
        PROVE  /\ status = "scanning" /\ op = <<>> /\ text' = Append(text, ch)
               /\ Len(text') = n + 1 /\ text'[Len(text')] = ch /\ text' # <<>>
    BY <1>1, <1>2, <1>3, PushedStack DEF Reading
  <1>4. CASE ReadWord
    <2>1. PICK v \in Words : Reading(v) /\ word' = <<v>>
      BY <1>4 DEF ReadWord
    <2>2. v \in Lexemes
      BY DEF Lexemes
    <2>3. IsSorting(text, n, n, n, out, ops)
      BY <1>1, <1>3, <1>4, <2>1, <2>2 DEF ReadWord, OrderOK, Sorted, Limit, Covered
    <2>4. IsSorting(text', n + 1, n, n, out, ops)
      BY <1>1, <1>2, <1>3, <2>1, <2>2, <2>3, ReadOn
    <2>5. Sorted' = n + 1 /\ Limit' = n /\ Covered' = n
      BY <1>1, <1>3, <1>4, <2>1, <2>2 DEF ReadWord, Sorted, Limit, Covered
    <2> QED
      BY <1>3, <1>4, <2>1, <2>2, <2>4, <2>5 DEF ReadWord, OrderOK
  <1>5. CASE ReadBlank
    <2>1. "blank" \in Lexemes /\ Reading("blank") /\ EndWord
      BY <1>5 DEF ReadBlank, Lexemes
    <2>2. IsSorting(text, n, n, n, out', ops)
      BY <1>1, <1>3, <2>1, WordOrder
    <2>3. IsSorting(text', n + 1, n + 1, n + 1, out', ops)
      BY <1>1, <1>2, <1>3, <2>1, <2>2, ReadOn
    <2>4. Sorted' = n + 1 /\ Limit' = n + 1 /\ Covered' = n + 1
      BY <1>3, <1>5, <2>1 DEF ReadBlank, EndWord, Sorted, Limit, Covered
    <2> QED
      BY <1>3, <1>5, <2>1, <2>3, <2>4 DEF ReadBlank, EndWord, OrderOK
  <1>6. CASE ReadOperator
    <2>1. PICK o \in Operators : Reading(o) /\ op' = <<o>>
      BY <1>6 DEF ReadOperator
    <2>2. o \in Lexemes /\ EndWord
      BY <1>6 DEF ReadOperator, Lexemes
    <2>3. IsSorting(text, n, n, n, out', ops)
      BY <1>1, <1>3, <2>1, <2>2, WordOrder
    <2>4. IsSorting(text', n, n + 1, n, out', ops)
      BY <1>1, <1>2, <1>3, <2>1, <2>2, <2>3, ReadOn
    <2>5. Sorted' = n /\ Limit' = n + 1 /\ Covered' = n
      BY <1>3, <1>6, <2>1, <2>2 DEF ReadOperator, EndWord, Sorted, Limit, Covered
    <2> QED
      BY <1>3, <1>6, <2>1, <2>2, <2>4, <2>5 DEF ReadOperator, EndWord, OrderOK
  <1>7. CASE ReadEnd
    <2>1. IsSorting(text, n, n, n, out', ops)
      BY <1>1, <1>7, WordOrder DEF ReadEnd
    <2>2. PICK p, x, s : Sorting(text, n, n, n, out', ops, p, x, s)
      BY <2>1 DEF IsSorting
    <2>3. n \in Int /\ n + 1 \in Int /\ n <= n + 1
      OBVIOUS
    <2>4. Sorting(text, n, n + 1, n, out', ops, p, x, s)
      BY <2>2, <2>3, Widen
    <2>5. Sorted' = n /\ Limit' = n + 1 /\ Covered' = n
      BY <1>1, <1>7 DEF ReadEnd, EndWord, Sorted, Limit, Covered
    <2> QED
      BY <1>7, <2>4, <2>5 DEF ReadEnd, EndWord, OrderOK, IsSorting
  <1>8. CASE CannotParseToken
    BY <1>8 DEF CannotParseToken, OrderOK
  <1> QED
    BY <1>4, <1>5, <1>6, <1>7, <1>8 DEF Read

\* An operator that is being handled is the last character.
LEMMA Handling ==
  ASSUME TypeOK, BracketsOK, OrderOK, op # <<>>, status = "scanning", NEW n, n = Len(text) - 1
  PROVE  /\ n \in Nat /\ n < Len(text) /\ Len(text) = n + 1 /\ Sorted = n /\ text[n + 1] = op[1]
         /\ word = <<>> /\ Limit = n + 1 /\ Covered = n
         /\ Depth(text, n) = Depth(ops, Len(ops))
         /\ IsSorting(text, n, n + 1, n, out, ops)
         /\ Depth(text, n + 1) = Depth(text, n) + Turn(op[1]) /\ Depth(text, n) \in Int
  <1>1. text \in Seq(Lexemes) /\ text # <<>> /\ text[Len(text)] = op[1]
    BY DEF TypeOK, BracketsOK
  <1>2. n \in Nat /\ n < Len(text) /\ Len(text) = n + 1 /\ Sorted = n /\ text[n + 1] = op[1]
    BY <1>1 DEF Sorted
  <1>3. word = <<>>
    BY DEF OrderOK
  <1>4. Limit = n + 1 /\ Covered = n
    BY <1>2, <1>3 DEF Limit, Covered
  <1>5. IsSorting(text, n, n + 1, n, out, ops)
    BY <1>2, <1>4 DEF OrderOK
  <1>6. Depth(text, n) = Depth(ops, Len(ops))
    BY <1>2 DEF BracketsOK
  <1>7. Depth(text, n + 1) = Depth(text, n) + Turn(op[1]) /\ Depth(text, n) \in Int
    BY <1>2, DepthNext
  <1> QED
    BY <1>2, <1>3, <1>4, <1>5, <1>6, <1>7

\* The operator on top is put out in order, if what is handled next ends it
\* wherever it came from.
LEMMA YieldOrder ==
  ASSUME TypeOK, OrderOK, status \in {"scanning", "draining"}, ops # <<>>, Top # "(", Yield,
         NEW n \in Nat, n = Sorted, Limit = n + 1, Covered = n,
         \A i \in 1 .. n : text[i] = Top /\ Depth(text, i) = Depth(ops, Len(ops)) => Ends(text, i, n + 1),
         UNCHANGED <<text, word, op>>
  PROVE  status' = status => OrderOK'
  <1>1. PICK p, x, s : Sorting(text, n, n + 1, n, out, ops, p, x, s)
    BY DEF OrderOK, IsSorting
  <1>2. StackPart(text, n, ops, s) /\ Len(s) = Len(ops) /\ Len(s) \in Nat \ {0}
    BY <1>1 DEF Sorting, StackPart, TypeOK
  <1>3. s[Len(s)] \in 1 .. n /\ text[s[Len(s)]] = Top /\ Depth(text, s[Len(s)]) = Depth(ops, Len(ops))
    BY <1>2 DEF StackPart, Top
  <1>4. text \in Seq(Lexemes) /\ out \in Seq(Tokens) /\ ops \in Seq(Pushed) /\ n <= Len(text)
    BY DEF TypeOK, Sorted
  <1>5. IsSorting(text, n, n + 1, n, Append(out, Operator(Top)), SubSeq(ops, 1, Len(ops) - 1))
    BY <1>1, <1>3, <1>4, YieldOut DEF Top
  <1>6. IsSorting(text, n, n + 1, n, out', ops')
    BY <1>5 DEF Yield, Pop
  <1>7. status' = status => Sorted' = n /\ Limit' = n + 1 /\ Covered' = n
    BY DEF Sorted, Limit, Covered
  <1> QED
    BY <1>6, <1>7 DEF OrderOK

\* Sorting the operators keeps the order.
LEMMA SortOrder ==
  ASSUME TypeOK, StackAscends, BracketsOK, OrderOK, Sort
  PROVE  OrderOK'
  <1> DEFINE n == Len(text) - 1
  <1>1. text \in Seq(Lexemes) /\ ops \in Seq(Pushed)
    BY DEF TypeOK
  <1>2. op # <<>> /\ status = "scanning" =>
          /\ n \in Nat /\ n < Len(text) /\ Len(text) = n + 1 /\ Sorted = n /\ text[n + 1] = op[1]
          /\ word = <<>> /\ Limit = n + 1 /\ Covered = n
          /\ Depth(text, n) = Depth(ops, Len(ops))
          /\ IsSorting(text, n, n + 1, n, out, ops)
          /\ Depth(text, n + 1) = Depth(text, n) + Turn(op[1]) /\ Depth(text, n) \in Int
    BY Handling
  <1>3. ASSUME op # <<>>, op' = <<>>, UNCHANGED <<text, word, status>>, status = "scanning"
        PROVE  Sorted' = n + 1 /\ Limit' = n + 1 /\ Covered' = n + 1
    BY <1>2, <1>3 DEF Sorted, Limit, Covered
  <1> HIDE DEF n
  <1>4. CASE YieldHigher
    <2>1. op # <<>> /\ op[1] \in Binary /\ status = "scanning" /\ status' = status
      BY <1>4 DEF YieldHigher, Binary, BracketsOK, TypeOK
    <2>2. /\ ops # <<>> /\ Top # "(" /\ Yield /\ UNCHANGED <<text, word, op>>
          /\ Precedence[op[1]] <= Precedence[Top]
      <3>1. Top \in Operators /\ op[1] \in Operators
        BY <1>1, <1>4, <2>1, PoppedStack DEF YieldHigher, Leaves, Top, Pushed, Binary
      <3>2. Precedence[Top] \in Nat /\ Precedence[op[1]] \in Nat
        BY <3>1, ParenthesisIsLowest
      <3> QED
        BY <1>4, <3>2 DEF YieldHigher, Leaves
    <2>3. Turn(op[1]) = 0
      BY <2>1 DEF Turn, Binary
    <2>4. \A i \in 1 .. n : text[i] = Top /\ Depth(text, i) = Depth(ops, Len(ops)) => Ends(text, i, n + 1)
      BY <1>2, <2>1, <2>2, <2>3 DEF Ends, Binary
    <2> QED
      BY <1>2, <2>1, <2>2, <2>4, YieldOrder
  <1>5. CASE Push
    <2>1. /\ op # <<>> /\ op[1] \in Pushed /\ status = "scanning" /\ status' = status
          /\ ops' = Append(ops, op[1]) /\ op' = <<>> /\ UNCHANGED <<text, word, out>>
      BY <1>5 DEF Push, BracketsOK, TypeOK, Pushed
    <2>2. op[1] # "(" => \/ ops = <<>>
                         \/ ops[Len(ops)] = "("
                         \/ Precedence[ops[Len(ops)]] < Precedence[op[1]]
      <3> SUFFICES ASSUME op[1] # "(", ops # <<>>, ops[Len(ops)] # "("
                   PROVE  Precedence[ops[Len(ops)]] < Precedence[op[1]]
        OBVIOUS
      <3>1. Top \in Operators /\ op[1] \in Operators
        BY <1>1, <2>1, PoppedStack DEF Top, Pushed
      <3>2. Precedence[Top] \in Nat /\ Precedence[op[1]] \in Nat
        BY <3>1, ParenthesisIsLowest
      <3> QED
        BY <1>5, <3>2 DEF Push, Leaves, Top
    <2>3. IsSorting(text, n + 1, n + 1, n + 1, out, Append(ops, op[1]))
      BY <1>1, <1>2, <2>1, <2>2, AscendsInside, PushOn
    <2> QED
      BY <1>2, <1>3, <2>1, <2>3 DEF OrderOK
  <1>6. CASE YieldEnclosed
    <2>1. /\ op # <<>> /\ op[1] = ")" /\ status = "scanning"
          /\ ops # <<>> /\ Top # "(" /\ Yield /\ UNCHANGED <<text, word, op>>
      BY <1>6 DEF YieldEnclosed, Closing
    <2>2. Turn(op[1]) = -1
      BY <2>1 DEF Turn
    <2>3. \A i \in 1 .. n : text[i] = Top /\ Depth(text, i) = Depth(ops, Len(ops)) => Ends(text, i, n + 1)
      BY <1>2, <2>1, <2>2 DEF Ends
    <2>4. status' = status => OrderOK'
      BY <1>2, <2>1, <2>3, YieldOrder
    <2>5. status' # status => status' = "UNMATCHED_PARENTHESIS"
      BY <1>6 DEF YieldEnclosed
    <2>6. word = <<>>
      BY <1>2, <2>1
    <2> QED
      BY <2>1, <2>4, <2>5, <2>6 DEF OrderOK
  <1>7. CASE Close
    <2>1. /\ op # <<>> /\ op[1] = ")" /\ status = "scanning" /\ status' = status
          /\ ops # <<>> /\ ops[Len(ops)] = "(" /\ op' = <<>> /\ UNCHANGED <<text, word, out>>
          /\ ops' = SubSeq(ops, 1, Len(ops) - 1)
      BY <1>7 DEF Close, Closing, Top, Pop
    <2>2. IsSorting(text, n + 1, n + 1, n + 1, out, SubSeq(ops, 1, Len(ops) - 1))
      BY <1>1, <1>2, <2>1, CloseOff
    <2> QED
      BY <1>2, <1>3, <2>1, <2>2 DEF OrderOK
  <1>8. CASE CloseNothing
    <2>1. op # <<>> /\ status' = "crashed" /\ UNCHANGED <<text, word, op, out, ops>>
      BY <1>8 DEF CloseNothing, Closing
    <2> QED
      BY <2>1 DEF OrderOK
  <1>9. status = "draining" => /\ op = <<>> /\ word = <<>> /\ Sorted = Len(text)
                               /\ Limit = Len(text) + 1 /\ Covered = Len(text) /\ Len(text) \in Nat
    BY <1>1 DEF BracketsOK, OrderOK, Sorted, Limit, Covered
  <1>10. CASE YieldRest
    <2>1. /\ status = "draining" /\ status' = status /\ ops # <<>> /\ Top # "(" /\ Yield
          /\ UNCHANGED <<text, word, op>>
      BY <1>10 DEF YieldRest
    <2>2. \A i : Ends(text, i, Len(text) + 1)
      BY DEF Ends
    <2> QED
      BY <1>9, <2>1, <2>2, YieldOrder
  <1>11. CASE LeftOpen
    BY <1>9, <1>11 DEF LeftOpen, OrderOK
  <1>12. CASE Succeed
    <2>1. /\ status = "draining" /\ status' = "success" /\ ops = <<>>
          /\ UNCHANGED <<text, word, op, out, ops>>
      BY <1>12 DEF Succeed
    <2>2. Sorted' = Sorted /\ Limit' = Limit /\ Covered' = Covered
      BY <2>1 DEF Sorted, Limit, Covered
    <2> QED
      BY <1>9, <2>1, <2>2 DEF OrderOK
  <1> QED
    BY <1>4, <1>5, <1>6, <1>7, <1>8, <1>10, <1>11, <1>12 DEF Sort

\* Before the first character there is nothing to put in order.
LEMMA InitOrder ==
  ASSUME Init
  PROVE  OrderOK
  <1>1. text = <<>> /\ out = <<>> /\ ops = <<>> /\ word = <<>> /\ op = <<>> /\ status = "scanning"
    BY DEF Init
  <1>2. Sorted = 0 /\ Limit = 0 /\ Covered = 0
    BY <1>1 DEF Sorted, Limit, Covered
  <1>3. Sorting(<<>>, 0, 0, 0, <<>>, <<>>, <<>>, <<>>, <<>>)
    BY DEF Sorting, OutPart, OrderPart, StackPart, TiePart, CoverPart, Terms
  <1> QED
    BY <1>1, <1>2, <1>3 DEF OrderOK, IsSorting

\* parse_expression returns the operands and operators of its text in postfix
\* order.
THEOREM OutputIsInOrder == Spec => []ReturnsInOrder
  <1>1. Init => OrderOK
    BY InitOrder
  <1>2. TypeOK /\ StackAscends /\ BracketsOK /\ OrderOK /\ [Next]_vars => OrderOK'
    <2>1. ASSUME OrderOK, UNCHANGED vars PROVE OrderOK'
      BY <2>1 DEF vars, OrderOK, Sorted, Limit, Covered
    <2> QED
      BY <2>1, ReadOrder, SortOrder DEF Next, Returned
  <1>3. TypeOK /\ OrderOK => ReturnsInOrder
    <2> SUFFICES ASSUME TypeOK, OrderOK, status = "success" PROVE ReturnsInOrder
      BY DEF ReturnsInOrder
    <2>1. text \in Seq(Lexemes) /\ out \in Seq(Tokens) /\ Len(text) \in Nat
      BY DEF TypeOK
    <2>2. IsSorting(text, Len(text), Limit, Len(text), out, <<>>)
      BY DEF OrderOK, Sorted, Covered
    <2> QED
      BY <2>1, <2>2, InOrder DEF ReturnsInOrder
  <1> QED
    BY <1>1, <1>2, <1>3, TypeCorrect, StackAlwaysAscends, BracketsHold, PTL DEF Spec

-----------------------------------------------------------------------------
(* The linked lists.                                                       *)

\* What prepare_line and parse_expression do to the tokens never departs from
\* what Expression says of the stacks.
THEOREM ListsFollowExpression == SpecTokens => Spec
  <1>1. InitTokens => Init
    BY DEF InitTokens
  <1>2. [NextTokens]_<<vars, memory>> => [Next]_vars
    <2> SUFFICES ASSUME [NextTokens]_<<vars, memory>> PROVE [Next]_vars
      OBVIOUS
    <2>1. CASE Parse
      BY <2>1 DEF Parse, PassWord, EndOperand, MakeOperator, LoseTokens, PushToken,
         YieldToken, YieldInside, CloseParens, Crash, FreeAll, TurnAround, Next, Read, Sort
    <2>2. CASE Loops
      BY <2>2 DEF Loops, FreeToken, FreeOutput, FreeEnd, ReverseToken, ReverseEnd,
         ResolveToken, NoParent, ResolveEnd, Loop, End
    <2>3. CASE Ended \/ UNCHANGED <<vars, memory>>
      BY <2>3 DEF Ended
    <2> QED
      BY <2>1, <2>2, <2>3 DEF NextTokens
  <1> QED
    BY <1>1, <1>2, PTL DEF SpecTokens, Spec

\* So the operators of the linked stack of operators ascend too.
THEOREM TokenStackAscends == SpecTokens => []StackAscends
  BY ListsFollowExpression, StackAlwaysAscends, PTL

\* And the texts whose lists are returned are those with matching parentheses.
THEOREM TokensAcceptBalanced == SpecTokens => []AcceptsBalanced
  BY ListsFollowExpression, OnlyBalancedAreAccepted, PTL

\* And the list that is returned is in postfix order.
THEOREM TokensAreInOrder == SpecTokens => []ReturnsInOrder
  BY ListsFollowExpression, OutputIsInOrder, PTL
=============================================================================
