--------------------------- MODULE OperandProofs ---------------------------
(***************************************************************************)
(* For every list of arguments of any length: the recursive descent stays  *)
(* inside the text and nests by precedence.  A function of C sees only the *)
(* place it was called with; what makes it safe is that the caller waits   *)
(* at that very place (Linked), so that the characters a call reports can  *)
(* be added to where its caller is.                                        *)
(*                                                                         *)
(* What is accepted is first found for the words as the functions of C     *)
(* take them (Readable).  Where no word is disputed these are the words of *)
(* the notations (WordsAgree), which gives AcceptsInfix.                   *)
(***************************************************************************)
EXTENDS OperandForm, StackLemmas, FiniteSetTheorems, TLAPS

AnyFrame == [fn : Functions, from : Nat, at : Nat, step : Steps]

\* The calls a function can wait for.
StepsOf(fn) ==
    CASE fn = "args"                   -> {"begin", "start"}
      [] fn = "start"                  -> {"begin", "indirect", "expr"}
      [] fn \in {"indirect", "paren"}  -> {"begin", "expr"}
      [] fn = "term"                   -> {"begin", "paren"}
      [] fn \in Levels                 -> {"begin", "left", "right"}

Callee(f) ==
    CASE f.step \in {"start", "indirect", "paren"} -> f.step
      [] f.step = "expr"  -> "bitor"
      [] f.step = "left"  -> NextOf[f.fn]
      [] f.step = "right" -> f.fn

TypeOK ==
    /\ argv \in ArgumentLists
    /\ arg \in 1 .. Len(argv) + 1
    /\ stack \in Seq(AnyFrame) /\ stack # <<>>
    /\ consumed \in Nat

\* Each call was made by the one below it, which waits for it at the place
\* where it started.
Linked ==
    /\ stack[1].fn = "args" /\ stack[1].from = 1 /\ stack[1].at = 1
    /\ \A n \in 1 .. Len(stack) : stack[n].step \in StepsOf(stack[n].fn)
    /\ \A n \in 2 .. Len(stack) :
          /\ stack[n - 1].step # "begin"
          /\ stack[n].fn = Callee(stack[n - 1]) /\ stack[n].fn # "args"
          /\ stack[n].from = stack[n - 1].at

\* After the last argument nothing is left to return.
EndsEmpty == arg > Len(argv) => stack = <<Called("args", 1)>>

Inv == TypeOK /\ Linked /\ StaysInText /\ EndsEmpty

-----------------------------------------------------------------------------
(* The text and the operators on it.                                       *)

\* What each function waits for, and calls.
LEMMA StepsFacts ==
  /\ StepsOf("args") = {"begin", "start"}
  /\ StepsOf("start") = {"begin", "indirect", "expr"}
  /\ StepsOf("indirect") = {"begin", "expr"} /\ StepsOf("paren") = {"begin", "expr"}
  /\ StepsOf("term") = {"begin", "paren"}
  /\ \A level \in Levels : StepsOf(level) = {"begin", "left", "right"}
  BY DEF StepsOf, Levels

\* The counters of the loop.
LEMMA ArgFacts ==
  ASSUME TypeOK
  PROVE  Len(argv) \in Nat /\ arg \in Nat \ {0} /\ Len(stack) \in Nat \ {0}
  BY OperandAssumption DEF TypeOK

\* The texts of the arguments.
LEMMA RawFacts ==
  ASSUME TypeOK, NEW n \in 1 .. Len(argv)
  PROVE  argv[n].raw \in Seq(STRING) /\ \A p \in DOMAIN argv[n].raw : argv[n].raw[p] # "NUL"
  <1> DEFINE Argument == [typed : BOOLEAN, raw : Seq(STRING)]
  <1>1. argv \in Seq(Argument)
    BY OperandAssumption DEF TypeOK
  <1>2. argv[n] \in Argument
    <2> HIDE DEF Argument
    <2> QED BY <1>1, ElementOfSeq
  <1>3. n \in DOMAIN argv
    BY <1>1
  <1> QED
    BY <1>2, <1>3, OperandAssumption DEF TypeOK

\* The text of an argument and the place of its NUL.
LEMMA TextFacts ==
  ASSUME TypeOK, arg <= Len(argv)
  PROVE  /\ Len(Text) \in Nat /\ DOMAIN Text = 1 .. Len(Text)
         /\ End \in Nat \ {0}
         /\ \A p \in 1 .. Len(Text) : Char(p) # "NUL" /\ p + 1 <= End
         /\ Char(End) = "NUL"
  <1>1. arg \in 1 .. Len(argv)
    BY ArgFacts DEF TypeOK
  <1>2. Text \in Seq(STRING) /\ \A p \in DOMAIN Text : Text[p] # "NUL"
    BY <1>1, RawFacts DEF Text
  <1>3. Len(Text) \in Nat /\ DOMAIN Text = 1 .. Len(Text)
    BY <1>2
  <1> QED
    BY <1>2, <1>3 DEF End, Char

\* Skipping the characters of a set that does not hold the NUL.
LEMMA AfterInText ==
  ASSUME TypeOK, arg <= Len(argv), NEW p \in Positions, NEW set, "NUL" \notin set
  PROVE  After(p, set) \in p .. End
  <1> DEFINE T == {n \in p .. End : Char(n) \notin set}
  <1>1. p \in Nat /\ End \in Nat /\ p <= End /\ Char(End) \notin set
    BY TextFacts DEF Positions
  <1>2. T \in SUBSET Nat /\ T # {}
    BY <1>1
  <1>3. PICK n \in T : \A m \in T : n <= m
    BY <1>2, LeastNat
  <1>4. \A k \in p .. n - 1 : Char(k) \in set
    BY <1>1, <1>3
  <1> QED
    BY <1>3, <1>4 DEF After

\* Skipping blanks.
LEMMA SkipInText ==
  ASSUME TypeOK, arg <= Len(argv), NEW p \in Positions
  PROVE  Skip(p) \in p .. End
  BY AfterInText DEF Skip, Blanks

\* A character that is not the NUL is followed by another position.
LEMMA NextPosition ==
  ASSUME TypeOK, arg <= Len(argv), NEW p \in Positions, Char(p) # "NUL"
  PROVE  p + 1 \in Positions
  BY TextFacts DEF Positions, Char

\* A number ends inside the text.
LEMMA NumInText ==
  ASSUME TypeOK, arg <= Len(argv), NEW p \in Positions
  PROVE  Num(p) \in Nat /\ p + Num(p) \in Positions
  <1> DEFINE q == Skip(p)
             prefix == Prefix(q)
             end == After(prefix.digits, Digits[prefix.base])
  <1>0. End \in Nat \ {0} /\ p \in 1 .. End
    BY TextFacts DEF Positions
  <1>1. q \in p .. End /\ q \in Positions
    BY <1>0, SkipInText DEF Positions
  <1>2. /\ prefix.base \in {2, 8, 10, 16}
        /\ prefix.digits \in q .. End
    <2>1. Char(q) = "0" => q + 1 \in Positions
      BY <1>1, NextPosition
    <2>2. Char(q) = "0" /\ Char(q + 1) \in {"x", "X", "b"} => q + 2 \in Positions
      <3> SUFFICES ASSUME Char(q) = "0", Char(q + 1) \in {"x", "X", "b"}
                   PROVE  q + 2 \in Positions
        OBVIOUS
      <3>1. (q + 1) + 1 \in Positions
        <4> HIDE DEF q
        <4> QED BY <2>1, NextPosition
      <3> QED BY <3>1, <1>1, <1>0
    <2> HIDE DEF q
    <2>3. CASE Char(q) # "0"
      BY <2>3, <1>0, <1>1 DEF Prefix
    <2>4. CASE Char(q) = "0"
      BY <2>4, <2>1, <2>2, <1>0, <1>1 DEF Prefix, Positions
    <2> QED BY <2>3, <2>4
  <1>3. "NUL" \notin Digits[prefix.base]
    <2> HIDE DEF prefix
    <2> QED BY <1>2 DEF Digits
  <1>4. prefix.digits \in Positions
    BY <1>0, <1>1, <1>2 DEF Positions
  <1>5. end \in prefix.digits .. End
    <2> HIDE DEF prefix
    <2> QED BY <1>3, <1>4, AfterInText
  <1>6. end \in Positions /\ p <= end
    BY <1>0, <1>1, <1>2, <1>5 DEF Positions
  <1>7. Skip(end) \in end .. End
    <2> HIDE DEF end
    <2> QED BY <1>6, SkipInText
  <1>8. Num(p) = IF Char(end) = "NUL" THEN 0 ELSE Skip(end) - p
    BY DEF Num
  <1> HIDE DEF end
  <1> QED
    BY <1>0, <1>6, <1>7, <1>8 DEF Positions

GoodName(t) ==
    /\ Len(t) \in Nat \ {0}
    /\ \A k \in 1 .. Len(t) : k \in DOMAIN t /\ t[k] # "NUL"

\* The names of the table are not empty and hold no NUL.
LEMMA RegisterNames ==
  \A n \in DOMAIN registers :
     /\ Len(registers[n].name) \in Nat \ {0}
     /\ \A k \in 1 .. Len(registers[n].name) :
           k \in DOMAIN registers[n].name /\ registers[n].name[k] # "NUL"
  <1>1. ASSUME NEW r \in {"A", "B", "D", "X", "Y", "U", "S", "E", "F", "W", "Q", "V", "Z"},
               NEW both \in BOOLEAN
        PROVE  GoodName(Register(<<r>>, both).name)
    BY DEF GoodName, Register
  <1>2. ASSUME NEW r \in {"P", "D", "C", "M"}, NEW q \in {"C", "P", "D"}, NEW both \in BOOLEAN
        PROVE  GoodName(Register(<<r, q>>, both).name)
    BY DEF GoodName, Register
  <1>3. GoodName(Register(<<"N", "O", "N", "E">>, TRUE).name)
    BY DEF GoodName, Register
  <1>4. \A n \in 1 .. 18 : GoodName(registers[n].name)
    <2>1. /\ GoodName(registers[2].name) /\ GoodName(registers[3].name)
          /\ GoodName(registers[4].name) /\ GoodName(registers[5].name)
          /\ GoodName(registers[6].name) /\ GoodName(registers[7].name)
          /\ GoodName(registers[8].name) /\ GoodName(registers[10].name)
          /\ GoodName(registers[11].name) /\ GoodName(registers[12].name)
          /\ GoodName(registers[13].name) /\ GoodName(registers[14].name)
          /\ GoodName(registers[15].name)
      BY <1>1 DEF registers
    <2>2. /\ GoodName(registers[9].name) /\ GoodName(registers[16].name)
          /\ GoodName(registers[17].name) /\ GoodName(registers[18].name)
      BY <1>2 DEF registers
    <2>3. GoodName(registers[1].name)
      BY <1>3 DEF registers
    <2> QED BY <2>1, <2>2, <2>3
  <1>5. DOMAIN registers = 1 .. 18
    BY DEF registers
  <1> QED
    BY <1>4, <1>5 DEF GoodName

\* So does the name of a register.
LEMMA RegisterInText ==
  ASSUME TypeOK, arg <= Len(argv), NEW p \in Positions
  PROVE  RegisterAt(p) \in Nat /\ p + RegisterAt(p) \in Positions
  <1> DEFINE found == {n \in DOMAIN registers : NameAt(n, p)}
             first == CHOOSE n \in found : \A m \in found : n <= m
  <1>0. End = Len(Text) + 1 /\ Len(Text) \in Nat /\ p \in 1 .. End
    BY TextFacts DEF Positions, End
  <1>1. DOMAIN registers \in SUBSET Nat
    BY DEF registers
  <1>2. CASE found = {}
    BY <1>0, <1>2 DEF RegisterAt, Positions
  <1>3. CASE found # {}
    <2>1. first \in found
      BY <1>1, <1>3, LeastNat
    <2>2. /\ Len(registers[first].name) \in Nat \ {0}
          /\ LET k == Len(registers[first].name) IN
                k \in DOMAIN registers[first].name /\ registers[first].name[k] # "NUL"
      <3> HIDE DEF first
      <3> QED BY <2>1, RegisterNames
    <2>3. RegisterAt(p) = Len(registers[first].name)
      BY <1>3 DEF RegisterAt
    <2> DEFINE k == Len(registers[first].name)
    <2>4. Char(p + k - 1) # "NUL"
      BY <2>1, <2>2 DEF NameAt
    <2>5. k \in Nat \ {0}
      BY <2>2
    <2> HIDE DEF k
    <2>6. p + k - 1 \in 1 .. Len(Text)
      BY <1>0, <2>4, <2>5, TextFacts DEF Char
    <2> QED
      BY <1>0, <2>3, <2>5, <2>6 DEF Positions, k
  <1> QED
    BY <1>2, <1>3

-----------------------------------------------------------------------------
(* Calls and returns.                                                      *)

\* The function on top has moved to p and waits.
LEMMA MovedStack ==
  ASSUME TypeOK, NEW p \in Nat, NEW step \in Steps
  PROVE  /\ Moved(p, step) \in Seq(AnyFrame)
         /\ Len(Moved(p, step)) = Len(stack) /\ Len(stack) \in Nat \ {0}
         /\ \A n \in 1 .. Len(stack) - 1 : Moved(p, step)[n] = stack[n]
         /\ Moved(p, step)[Len(stack)] = [fn |-> Top.fn, from |-> Top.from,
                                          at |-> p, step |-> step]
         /\ Top \in AnyFrame
  <1>1. Len(stack) \in Nat \ {0} /\ DOMAIN stack = 1 .. Len(stack)
    BY DEF TypeOK
  <1>2. Top \in AnyFrame
    BY <1>1, ElementOfSeq DEF Top, TypeOK
  <1>3. Moved(p, step) = [n \in 1 .. Len(stack) |->
           IF n = Len(stack) THEN [fn |-> Top.fn, from |-> Top.from, at |-> p, step |-> step]
                             ELSE stack[n]]
    BY <1>1 DEF Moved
  <1>4. [fn |-> Top.fn, from |-> Top.from, at |-> p, step |-> step] \in AnyFrame
    BY <1>2 DEF AnyFrame
  <1>5. \A n \in 1 .. Len(stack) : stack[n] \in AnyFrame
    BY <1>1, ElementOfSeq DEF TypeOK
  <1> HIDE DEF AnyFrame
  <1> QED
    BY <1>1, <1>2, <1>3, <1>4, <1>5

\* The top of a stack that is in order: it has a caller unless it is the loop
\* over the arguments.
LEMMA TopFacts ==
  ASSUME Inv, arg <= Len(argv)
  PROVE  /\ Top \in Frames /\ Top.from <= Top.at /\ Top.step \in StepsOf(Top.fn)
         /\ Top.fn # "args" => Len(stack) > 1
         /\ Top.step # "begin" => Reached \in Positions
  BY DEF Inv, TypeOK, Linked, StaysInText, Top

\* Nothing but the stack is changed by a call or a return.
LEMMA SameText ==
  ASSUME UNCHANGED <<argv, arg>>
  PROVE  Text' = Text /\ End' = End /\ Positions' = Positions /\ Frames' = Frames
  BY DEF Text, End, Positions, Frames

\* A call keeps the invariant when the caller waits for it.
LEMMA CallKeepsInv ==
  ASSUME Inv, arg <= Len(argv), UNCHANGED <<argv, arg>>,
         NEW fn \in Functions \ {"args"}, NEW p \in Positions, NEW step \in Steps \ {"begin"},
         Top.at <= p, Top.fn = "args" => p = 1, step \in StepsOf(Top.fn),
         fn = Callee([fn |-> Top.fn, from |-> Top.from, at |-> p, step |-> step]),
         Call(fn, p, step)
  PROVE  Inv'
  <1> DEFINE caller == [fn |-> Top.fn, from |-> Top.from, at |-> p, step |-> step]
             L == Len(stack)
  <1>1. p \in Nat /\ Called(fn, p) \in AnyFrame /\ Called(fn, p) \in Frames
    BY TextFacts DEF Inv, Positions, Called, AnyFrame, Frames, Steps
  <1>2. /\ Moved(p, step) \in Seq(AnyFrame) /\ Len(Moved(p, step)) = L /\ L \in Nat \ {0}
        /\ \A n \in 1 .. L - 1 : Moved(p, step)[n] = stack[n]
        /\ Moved(p, step)[L] = caller
        /\ Top \in AnyFrame
    BY <1>1, MovedStack DEF Inv
  <1>3. /\ stack' \in Seq(AnyFrame) /\ Len(stack') = L + 1
        /\ \A n \in 1 .. L - 1 : stack'[n] = stack[n]
        /\ stack'[L] = caller
        /\ stack'[L + 1] = Called(fn, p)
    BY <1>1, <1>2, PushedStack DEF Call
  <1>4. consumed' = consumed /\ L = Len(stack)
    BY DEF Call
  <1> HIDE DEF L
  <1>5. TypeOK'
    BY <1>2, <1>3, <1>4 DEF Inv, TypeOK
  <1>6. Linked'
    <2>1. stack'[1].fn = "args" /\ stack'[1].from = 1 /\ stack'[1].at = 1
      <3>1. CASE L = 1
        BY <1>2, <1>3, <1>4, <3>1 DEF Inv, Linked, Top
      <3>2. CASE L > 1
        BY <1>2, <1>3, <1>4, <3>2 DEF Inv, Linked
      <3> QED BY <1>2, <3>1, <3>2
    <2>2. \A n \in 1 .. Len(stack') : stack'[n].step \in StepsOf(stack'[n].fn)
      <3>1. Called(fn, p).step \in StepsOf(Called(fn, p).fn)
        BY DEF Called, StepsOf, Functions, Levels
      <3>2. \A n \in 1 .. L - 1 : stack'[n].step \in StepsOf(stack'[n].fn)
        BY <1>2, <1>3, <1>4 DEF Inv, Linked
      <3>3. stack'[L].step \in StepsOf(stack'[L].fn)
        BY <1>3
      <3>4. stack'[L + 1].step \in StepsOf(stack'[L + 1].fn)
        BY <1>3, <3>1
      <3> QED BY <1>2, <1>3, <1>4, <3>2, <3>3, <3>4
    <2>3. ASSUME NEW n \in 2 .. Len(stack')
          PROVE  /\ stack'[n - 1].step # "begin"
                 /\ stack'[n].fn = Callee(stack'[n - 1]) /\ stack'[n].fn # "args"
                 /\ stack'[n].from = stack'[n - 1].at
      <3>0. n \in 2 .. L + 1 /\ n - 1 \in 1 .. L
        BY <1>2, <1>3
      <3>1. CASE n < L
        <4>0. n \in 1 .. L - 1 /\ n - 1 \in 1 .. L - 1
          BY <1>2, <3>0, <3>1
        <4>1. stack'[n] = stack[n] /\ stack'[n - 1] = stack[n - 1] /\ n \in 2 .. Len(stack)
          BY <1>3, <1>4, <3>0, <4>0
        <4> QED BY <4>1 DEF Inv, Linked
      <3>2. CASE n = L
        <4>1. stack'[n - 1] = stack[n - 1] /\ L \in 2 .. Len(stack)
          BY <1>2, <1>3, <1>4, <3>2
        <4>2. stack'[n].fn = stack[n].fn /\ stack'[n].from = stack[n].from
          BY <1>3, <1>4, <3>2 DEF Top
        <4> QED BY <3>2, <4>1, <4>2 DEF Inv, Linked
      <3>3. CASE n = L + 1
        BY <1>2, <1>3, <1>4, <3>3 DEF Called
      <3> QED BY <1>2, <1>3, <1>4, <3>1, <3>2, <3>3
    <2> QED BY <2>1, <2>2, <2>3 DEF Linked
  <1>7. StaysInText'
    <2>1. Frames' = Frames /\ Positions' = Positions
      BY SameText
    <2>2. caller \in Frames /\ caller.from <= caller.at
      BY TopFacts, TextFacts DEF Inv, Frames, Positions
    <2>3. \A n \in DOMAIN stack' : stack'[n] \in Frames /\ stack'[n].from <= stack'[n].at
      <3>1. DOMAIN stack' = 1 .. L + 1
        BY <1>3
      <3>2. \A n \in 1 .. L - 1 : stack[n] \in Frames /\ stack[n].from <= stack[n].at
        BY <1>2, <1>4 DEF Inv, StaysInText, TypeOK
      <3>3. Called(fn, p).from <= Called(fn, p).at
        BY <1>1 DEF Called
      <3> QED BY <1>1, <1>2, <1>3, <2>2, <3>1, <3>2, <3>3
    <2>4. stack'[Len(stack')].step = "begin"
      BY <1>2, <1>3, <1>4 DEF Called
    <2> QED BY <1>6, <2>1, <2>3, <2>4 DEF StaysInText, Linked, Top
  <1> QED
    BY <1>5, <1>6, <1>7, ArgFacts DEF Inv, EndsEmpty

\* So does the stub, which returns 0 to the function that stays on top.
LEMMA StubKeepsInv ==
  ASSUME Inv, arg <= Len(argv), UNCHANGED <<argv, arg>>,
         NEW p \in Positions, Top.at <= p, "expr" \in StepsOf(Top.fn),
         stack' = Moved(p, "expr"), consumed' = 0
  PROVE  Inv'
  <1> DEFINE top == [fn |-> Top.fn, from |-> Top.from, at |-> p, step |-> "expr"]
             L == Len(stack)
  <1>1. /\ stack' \in Seq(AnyFrame) /\ Len(stack') = L /\ L \in Nat \ {0}
        /\ \A n \in 1 .. L - 1 : stack'[n] = stack[n]
        /\ stack'[L] = top
        /\ Top \in AnyFrame
    <2>1. p \in Nat /\ "expr" \in Steps
      BY TextFacts DEF Inv, Positions, Steps
    <2> QED BY <2>1, MovedStack DEF Inv
  <1>2. TypeOK'
    BY <1>1 DEF Inv, TypeOK
  <1>3. Linked'
    <2>1. /\ stack'[L].fn = stack[L].fn /\ stack'[L].from = stack[L].from
          /\ stack'[L].step = "expr"
      BY <1>1 DEF Top
    <2>2. stack'[1].fn = "args" /\ stack'[1].from = 1 /\ stack'[1].at = 1
      <3>1. L # 1
        BY DEF Inv, Linked, Top, StepsOf
      <3> QED BY <1>1, <3>1 DEF Inv, Linked
    <2>3. \A n \in 1 .. L : stack'[n].step \in StepsOf(stack'[n].fn)
      BY <1>1, <2>1 DEF Inv, Linked, Top
    <2>4. ASSUME NEW n \in 2 .. L
          PROVE  /\ stack'[n - 1] = stack[n - 1]
                 /\ stack'[n].fn = stack[n].fn /\ stack'[n].from = stack[n].from
      BY <1>1, <2>1
    <2>5. ASSUME NEW n \in 2 .. L
          PROVE  /\ stack'[n - 1].step # "begin"
                 /\ stack'[n].fn = Callee(stack'[n - 1]) /\ stack'[n].fn # "args"
                 /\ stack'[n].from = stack'[n - 1].at
      BY <2>4 DEF Inv, Linked
    <2> QED BY <1>1, <2>2, <2>3, <2>5 DEF Linked
  <1>4. StaysInText'
    <2>1. Frames' = Frames /\ Positions' = Positions
      BY SameText
    <2>2. top \in Frames /\ top.from <= top.at
      BY TopFacts, TextFacts DEF Inv, Frames, Positions, Steps
    <2>3. \A n \in DOMAIN stack' : stack'[n] \in Frames /\ stack'[n].from <= stack'[n].at
      <3>1. DOMAIN stack' = 1 .. L
        BY <1>1
      <3>2. \A n \in 1 .. L - 1 : stack[n] \in Frames /\ stack[n].from <= stack[n].at
        BY <1>1 DEF Inv, StaysInText, TypeOK
      <3> HIDE DEF top, L
      <3> QED BY <1>1, <2>2, <3>1, <3>2
    <2>4. Reached' = p
      BY <1>1, TextFacts DEF Reached, Top, Inv, Positions
    <2> QED BY <1>3, <2>1, <2>3, <2>4 DEF StaysInText, Linked, Top
  <1> QED
    BY <1>2, <1>3, <1>4, ArgFacts DEF Inv, EndsEmpty

\* And a return to the caller, who goes on from p.
LEMMA ReturnKeepsInv ==
  ASSUME Inv, arg <= Len(argv), UNCHANGED <<argv, arg>>, Top.fn # "args",
         NEW p \in Positions, Top.from <= p, Return(p - Top.from)
  PROVE  Inv'
  <1> DEFINE L == Len(stack)
  <1>1. L \in Nat /\ L > 1
    BY TopFacts DEF Inv, TypeOK
  <1>2. /\ stack' \in Seq(AnyFrame) /\ Len(stack') = L - 1
        /\ \A n \in 1 .. L - 1 : stack'[n] = stack[n]
    BY <1>1, PoppedStack DEF Inv, TypeOK, Return
  <1>3. Top \in Frames /\ consumed' = p - Top.from /\ consumed' \in Nat
    BY TopFacts, TextFacts DEF Return, Frames, Positions, Inv
  <1>4. TypeOK'
    BY <1>1, <1>2, <1>3 DEF Inv, TypeOK
  <1>5. Linked'
    <2>1. stack'[1] = stack[1]
      BY <1>1, <1>2
    <2>2. \A n \in 2 .. L - 1 : stack'[n] = stack[n] /\ stack'[n - 1] = stack[n - 1]
      BY <1>1, <1>2
    <2>3. \A n \in 1 .. L - 1 : stack'[n] = stack[n] /\ n \in 1 .. Len(stack)
      BY <1>1, <1>2
    <2>4. /\ stack'[1].fn = "args" /\ stack'[1].from = 1 /\ stack'[1].at = 1
          /\ \A n \in 1 .. L - 1 : stack'[n].step \in StepsOf(stack'[n].fn)
      BY <2>1, <2>3 DEF Inv, Linked
    <2>5. \A n \in 2 .. L - 1 :
             /\ stack'[n - 1].step # "begin"
             /\ stack'[n].fn = Callee(stack'[n - 1]) /\ stack'[n].fn # "args"
             /\ stack'[n].from = stack'[n - 1].at
      <3>1. \A n \in 2 .. L - 1 : n \in 2 .. Len(stack)
        BY <1>1
      <3>2. \A n \in 2 .. Len(stack) :
               /\ stack[n - 1].step # "begin"
               /\ stack[n].fn = Callee(stack[n - 1]) /\ stack[n].fn # "args"
               /\ stack[n].from = stack[n - 1].at
        BY DEF Inv, Linked
      <3> HIDE DEF L
      <3> QED BY <2>2, <3>1, <3>2
    <2> HIDE DEF L
    <2> QED BY <1>2, <2>4, <2>5 DEF Linked
  <1>6. StaysInText'
    <2>1. Frames' = Frames /\ Positions' = Positions
      BY SameText
    <2>2. \A n \in DOMAIN stack' : stack'[n] \in Frames /\ stack'[n].from <= stack'[n].at
      <3>1. \A n \in DOMAIN stack' : n \in DOMAIN stack /\ stack'[n] = stack[n]
        BY <1>1, <1>2 DEF Inv, TypeOK
      <3> QED BY <3>1, ArgFacts DEF Inv, StaysInText
    <2>3. Reached' = Top.from + (p - Top.from)
      BY <1>1, <1>2, <1>3 DEF Reached, Top, Inv, Linked
    <2>4. Reached' = p
      BY <1>3, <2>3, TextFacts DEF Frames, Positions, Inv
    <2> QED BY <1>5, <2>1, <2>2, <2>4 DEF StaysInText, Linked, Top
  <1> QED
    BY <1>4, <1>5, <1>6, ArgFacts DEF Inv, EndsEmpty

\* A function that does not match returns to where its caller was.
LEMMA MismatchKeepsInv ==
  ASSUME Inv, arg <= Len(argv), UNCHANGED <<argv, arg>>, Top.fn # "args", Mismatch
  PROVE  Inv'
  <1>1. Top.from \in Positions /\ Top.from <= Top.from /\ 0 = Top.from - Top.from
    BY TopFacts, TextFacts DEF Inv, Frames, Positions
  <1> QED
    BY <1>1, ReturnKeepsInv DEF Mismatch

\* The call of evaluate_expr, in either build.
LEMMA CallExprKeepsInv ==
  ASSUME Inv, arg <= Len(argv), UNCHANGED <<argv, arg>>,
         NEW p \in Positions, Top.at <= p, "expr" \in StepsOf(Top.fn), CallExpr(p)
  PROVE  Inv'
  <1>1. CASE body = "stub"
    BY <1>1, StubKeepsInv DEF CallExpr
  <1>2. CASE body # "stub"
    <2>0. Top.fn # "args"
      BY DEF StepsOf
    <2>1. "bitor" = Callee([fn |-> Top.fn, from |-> Top.from, at |-> p, step |-> "expr"])
      BY DEF Callee
    <2>2. "bitor" \in Functions \ {"args"} /\ "expr" \in Steps \ {"begin"}
      BY DEF Functions, Levels, Steps
    <2> QED BY <1>2, <2>0, <2>1, <2>2, CallKeepsInv DEF CallExpr
  <1> QED
    BY <1>1, <1>2

-----------------------------------------------------------------------------
(* The steps.                                                              *)

\* The end of the loop, and of the program, leave everything where it is.
LEMMA StutterKeepsInv ==
  ASSUME Inv, UNCHANGED <<argv, arg, stack, consumed>>
  PROVE  Inv'
  BY DEF Inv, TypeOK, Linked, StaysInText, EndsEmpty, Frames, Positions, End, Text, Top, Reached

\* The loop over the arguments.
LEMMA ArgsKeepInv ==
  ASSUME Inv, Args
  PROVE  Inv'
  <1> DEFINE Fresh == /\ argv' = argv /\ arg' \in 1 .. Len(argv) + 1
                      /\ stack' = <<Called("args", 1)>> /\ consumed' = consumed
  <1>0. arg \in Nat \ {0} /\ Len(argv) \in Nat /\ arg <= Len(argv) + 1
    BY ArgFacts DEF Inv, TypeOK
  <1>1. ASSUME Fresh PROVE Inv'
    <2>1. stack' \in Seq(AnyFrame) /\ Len(stack') = 1 /\ stack'[1] = Called("args", 1)
      BY <1>1 DEF AnyFrame, Called, Functions, Steps
    <2>2. TypeOK'
      BY <1>1, <2>1 DEF Inv, TypeOK
    <2>3. Linked'
      BY <2>1 DEF Linked, Called, StepsOf
    <2>4. StaysInText'
      <3>1. ASSUME arg' <= Len(argv') PROVE 1 \in Positions'
        <4>1. End' \in Nat \ {0}
          BY <1>1, <3>1, RawFacts DEF Inv, End, Text
        <4> QED BY <4>1 DEF Positions
      <3>2. ASSUME arg' <= Len(argv') PROVE Called("args", 1) \in Frames'
        BY <3>1, <3>2 DEF Frames, Called, Functions, Steps
      <3> QED BY <2>1, <3>2 DEF StaysInText, Called, Top
    <2>5. EndsEmpty'
      BY <1>1 DEF EndsEmpty, Called
    <2> QED BY <2>2, <2>3, <2>4, <2>5 DEF Inv
  <1>2. ASSUME At("args", "begin")
        PROVE  stack = <<Called("args", 1)>> /\ Top = Called("args", 1)
    <2>1. Len(stack) = 1
      BY <1>2, ArgFacts DEF At, Top, Inv, Linked
    <2>2. stack[1] \in AnyFrame /\ stack \in Seq(AnyFrame)
      BY <2>1, ElementOfSeq DEF Inv, TypeOK
    <2>3. stack[1] = Called("args", 1)
      BY <1>2, <2>1, <2>2 DEF At, Top, Inv, Linked, Called, AnyFrame
    <2> QED BY <2>1, <2>2, <2>3 DEF Top
  <1>3. CASE SkipTyped
    BY <1>0, <1>1, <1>2, <1>3 DEF SkipTyped, inputs
  <1>4. CASE EvaluateArg
    <2>1. Top = Called("args", 1)
      BY <1>2, <1>4 DEF EvaluateArg
    <2>2. 1 \in Positions /\ arg <= Len(argv)
      BY <1>4, TextFacts DEF EvaluateArg, Positions, Inv
    <2>3. /\ "start" \in Functions \ {"args"} /\ "start" \in Steps \ {"begin"}
          /\ "start" \in StepsOf(Top.fn) /\ Top.at <= 1
      BY <2>1, StepsFacts DEF Called, Functions, Levels, Steps
    <2>4. "start" = Callee([fn |-> Top.fn, from |-> Top.from, at |-> 1, step |-> "start"])
      BY DEF Callee
    <2> QED
      BY <1>4, <2>2, <2>3, <2>4, CallKeepsInv DEF EvaluateArg, Goes, inputs
  <1>5. CASE Complete
    <2>1. arg <= Len(argv)
      BY <1>0, <1>5 DEF Complete, At, Inv, EndsEmpty, Called, Top
    <2>2. CASE consumed # 0 /\ consumed = Len(Text)
      BY <1>0, <1>1, <1>5, <2>1, <2>2 DEF Complete, inputs
    <2>3. CASE ~(consumed # 0 /\ consumed = Len(Text))
      BY <1>5, <2>3, StutterKeepsInv DEF Complete, inputs
    <2> QED BY <2>2, <2>3
  <1>6. CASE EndArgs
    BY <1>6, StutterKeepsInv DEF EndArgs, inputs
  <1> QED
    BY <1>3, <1>4, <1>5, <1>6 DEF Args

\* The functions that have been called, which leave the loop alone.
LEMMA FunctionsKeepInv ==
  ASSUME Inv, Motorola \/ Common
  PROVE  Inv'
  <1>1. /\ Top.fn # "args" /\ UNCHANGED <<argv, arg>> /\ arg <= Len(argv)
    <2>1. Top.fn # "args" /\ UNCHANGED <<argv, arg>>
      BY DEF Motorola, Common, At, Goes, inputs, TryIndirect, TryExpr, EndStart, OpenBracket,
             CloseBracket, LeftOperand, FindOperator, RightOperand, TermParen, EndTerm, Levels
    <2> QED BY <2>1, ArgFacts DEF Inv, EndsEmpty, Called, Top
  <1>2. /\ Top \in Frames /\ Top.from <= Top.at /\ End \in Nat \ {0}
        /\ Top.at \in Positions /\ Top.from \in Positions
        /\ Top.step # "begin" => Reached \in Positions /\ Top.at <= Reached
        /\ Top.at \in Nat /\ Top.from \in Nat
    BY <1>1, TopFacts, TextFacts, ArgFacts DEF Inv, TypeOK, Frames, Positions, Reached
  <1>3. \A p \in Positions : Skip(p) \in Positions /\ p <= Skip(p) /\ p \in Nat
    BY <1>1, <1>2, SkipInText DEF Positions, Inv
  <1>4. CASE TryIndirect
    <2>1. /\ "indirect" \in Functions \ {"args"} /\ "indirect" \in Steps \ {"begin"}
          /\ "indirect" \in StepsOf(Top.fn)
      BY <1>4, StepsFacts DEF TryIndirect, At, Functions, Levels, Steps
    <2>2. "indirect" = Callee([fn |-> Top.fn, from |-> Top.from, at |-> Skip(Top.at),
                               step |-> "indirect"])
      BY DEF Callee
    <2>3. Skip(Top.at) \in Positions /\ Top.at <= Skip(Top.at)
      BY <1>2, <1>3
    <2> QED BY <1>1, <1>4, <2>1, <2>2, <2>3, CallKeepsInv DEF TryIndirect
  <1>5. CASE TryExpr
    <2>1. "expr" \in StepsOf(Top.fn) /\ Top.at \in Positions /\ Top.at <= Top.at
      BY <1>2, <1>5, StepsFacts DEF TryExpr, At
    <2> QED BY <1>1, <1>5, <2>1, CallExprKeepsInv DEF TryExpr
  <1>6. CASE EndStart
    <2>1. CASE consumed = 0
      BY <1>1, <1>6, <2>1, MismatchKeepsInv DEF EndStart
    <2>2. CASE consumed # 0
      <3>1. Reached \in Positions /\ Top.at <= Reached
        BY <1>2, <1>6 DEF EndStart, At
      <3>2. Skip(Reached) \in Positions /\ Reached <= Skip(Reached) /\ Reached \in Nat
        BY <1>3, <3>1
      <3>3. Top.from <= Skip(Reached)
        <4>1. Skip(Reached) \in Nat
          BY <1>3, <3>2
        <4> QED BY <1>2, <3>1, <3>2, <4>1
      <3> QED BY <1>1, <1>6, <2>2, <3>2, <3>3, ReturnKeepsInv DEF EndStart, ReturnAt
    <2> QED BY <2>1, <2>2
  <1>7. CASE OpenBracket
    <2> DEFINE p == Skip(Top.at)
    <2>1. p \in Positions /\ Top.at <= p /\ p \in Nat
      BY <1>2, <1>3
    <2>2. "expr" \in StepsOf(Top.fn) /\ Opening[Top.fn] # "NUL"
      BY <1>7, StepsFacts DEF OpenBracket, At, Opening
    <2>3. CASE Char(p) = Opening[Top.fn]
      <3>1. p + 1 \in Positions
        BY <1>1, <2>1, <2>2, <2>3, NextPosition DEF Inv
      <3>2. Skip(p + 1) \in Positions /\ Top.at <= Skip(p + 1)
        BY <1>2, <1>3, <2>1, <3>1 DEF Positions
      <3> QED BY <1>1, <1>7, <2>2, <2>3, <3>2, CallExprKeepsInv DEF OpenBracket
    <2>4. CASE Char(p) # Opening[Top.fn]
      BY <1>1, <1>7, <2>4, MismatchKeepsInv DEF OpenBracket
    <2> QED BY <2>3, <2>4
  <1>8. CASE CloseBracket
    <2> DEFINE p == Skip(Reached)
    <2>1. p \in Positions /\ Top.from <= p /\ p \in Nat
      BY <1>2, <1>3, <1>8 DEF CloseBracket, At
    <2>2. CASE consumed = 0 \/ Char(p) # Closing[Top.fn]
      BY <1>1, <1>8, <2>2, MismatchKeepsInv DEF CloseBracket
    <2>3. CASE ~(consumed = 0 \/ Char(p) # Closing[Top.fn])
      <3>1. p + 1 \in Positions
        BY <1>1, <1>8, <2>1, <2>3, NextPosition DEF Inv, CloseBracket, At, Closing
      <3>2. /\ Skip(p + 1) \in Positions /\ Top.from <= Skip(p + 1)
            /\ Top.from <= p + 1
        BY <1>2, <1>3, <2>1, <3>1
      <3> QED BY <1>1, <1>8, <2>3, <3>1, <3>2, ReturnKeepsInv DEF CloseBracket, ReturnAt
    <2> QED BY <2>2, <2>3
  <1>9. CASE LeftOperand
    <2>1. /\ NextOf[Top.fn] \in Functions \ {"args"} /\ "left" \in StepsOf(Top.fn)
          /\ "left" \in Steps \ {"begin"}
      BY <1>9 DEF LeftOperand, At, NextOf, Functions, Levels, StepsOf, Steps
    <2>2. NextOf[Top.fn] = Callee([fn |-> Top.fn, from |-> Top.from, at |-> Skip(Top.at),
                                   step |-> "left"])
      BY DEF Callee
    <2> QED BY <1>1, <1>2, <1>3, <1>9, <2>1, <2>2, CallKeepsInv DEF LeftOperand
  <1>10. CASE FindOperator
    <2> DEFINE p == Skip(Reached)
    <2>1. p \in Positions /\ Top.at <= p /\ Top.from <= p /\ p \in Nat
      <3>1. Reached \in Positions /\ Top.at <= Reached
        BY <1>2, <1>10 DEF FindOperator, At
      <3>2. p \in Positions /\ Reached <= p /\ Reached \in Nat /\ p \in Nat
        BY <1>3, <3>1
      <3> HIDE DEF p
      <3> QED BY <1>2, <3>1, <3>2
    <2>2. Top.fn \in Levels
      BY <1>10 DEF FindOperator, At
    <2>3. CASE consumed = 0
      BY <1>1, <1>10, <2>3, MismatchKeepsInv DEF FindOperator
    <2>4. CASE consumed # 0 /\ Char(p) \in Ops[Top.fn]
      <3>1. Char(p) # "NUL"
        BY <2>2, <2>4 DEF Ops, Levels
      <3>2. p + 1 \in Positions
        BY <1>1, <2>1, <3>1, NextPosition DEF Inv
      <3>3. Skip(p + 1) \in Positions /\ Top.at <= Skip(p + 1)
        <4> HIDE DEF p
        <4>1. Skip(p + 1) \in Positions /\ p + 1 <= Skip(p + 1) /\ Skip(p + 1) \in Nat
          BY <1>3, <3>2
        <4> QED BY <1>2, <2>1, <4>1
      <3>4. /\ Top.fn \in Functions \ {"args"} /\ "right" \in StepsOf(Top.fn)
            /\ "right" \in Steps \ {"begin"}
        BY <2>2 DEF Functions, Levels, StepsOf, Steps
      <3>5. Top.fn = Callee([fn |-> Top.fn, from |-> Top.from, at |-> Skip(p + 1),
                             step |-> "right"])
        BY DEF Callee
      <3> QED BY <1>1, <1>10, <2>4, <3>3, <3>4, <3>5, CallKeepsInv DEF FindOperator
    <2>5. CASE consumed # 0 /\ Char(p) \notin Ops[Top.fn]
      BY <1>1, <1>10, <2>1, <2>5, ReturnKeepsInv DEF FindOperator, ReturnAt
    <2> QED BY <2>3, <2>4, <2>5
  <1>11. CASE RightOperand
    <2>1. CASE consumed = 0
      BY <1>1, <1>11, <2>1, MismatchKeepsInv DEF RightOperand
    <2>2. CASE consumed # 0
      <3>1. Reached \in Positions /\ Top.at <= Reached
        BY <1>2, <1>11 DEF RightOperand, At
      <3>2. Skip(Reached) \in Positions /\ Reached <= Skip(Reached) /\ Reached \in Nat
        BY <1>3, <3>1
      <3>3. Top.from <= Skip(Reached)
        <4>1. Skip(Reached) \in Nat
          BY <1>3, <3>2
        <4> QED BY <1>2, <3>1, <3>2, <4>1
      <3> QED BY <1>1, <1>11, <2>2, <3>2, <3>3, ReturnKeepsInv DEF RightOperand, ReturnAt
    <2> QED BY <2>1, <2>2
  <1>12. CASE TermParen
    <2>1. /\ "paren" \in Functions \ {"args"} /\ "paren" \in Steps \ {"begin"}
          /\ "paren" \in StepsOf(Top.fn)
      BY <1>12, StepsFacts DEF TermParen, At, Functions, Levels, Steps
    <2>2. "paren" = Callee([fn |-> Top.fn, from |-> Top.from, at |-> Skip(Top.at),
                            step |-> "paren"])
      BY DEF Callee
    <2>3. Skip(Top.at) \in Positions /\ Top.at <= Skip(Top.at)
      BY <1>2, <1>3
    <2> QED BY <1>1, <1>12, <2>1, <2>2, <2>3, CallKeepsInv DEF TermParen
  <1>13. CASE EndTerm
    <2> DEFINE n == IF consumed # 0 THEN consumed
                    ELSE IF Num(Top.at) # 0 THEN Num(Top.at) ELSE RegisterAt(Top.at)
    <2>1. n \in Nat /\ Top.at + n \in Positions
      <3>1. Num(Top.at) \in Nat /\ Top.at + Num(Top.at) \in Positions
        BY <1>1, <1>2, NumInText DEF Inv
      <3>2. RegisterAt(Top.at) \in Nat /\ Top.at + RegisterAt(Top.at) \in Positions
        BY <1>1, <1>2, RegisterInText DEF Inv
      <3>3. consumed \in Nat /\ Top.at + consumed \in Positions
        BY <1>2, <1>13 DEF EndTerm, At, Reached, Inv, TypeOK
      <3> QED BY <3>1, <3>2, <3>3
    <2>2. Top.from <= Top.at + n
      BY <1>2, <2>1
    <2>3. IF n = 0 THEN Mismatch ELSE ReturnAt(Top.at + n)
      BY <1>13 DEF EndTerm
    <2> HIDE DEF n
    <2> QED BY <1>1, <2>1, <2>2, <2>3, MismatchKeepsInv, ReturnKeepsInv DEF ReturnAt
  <1> QED
    BY <1>4, <1>5, <1>6, <1>7, <1>8, <1>9, <1>10, <1>11, <1>12, <1>13 DEF Motorola, Common

\* The calls of the binary operators follow the table of their precedence.
LEMMA LinkedNests ==
  ASSUME Inv
  PROVE  NestsByPrecedence
  <1> SUFFICES ASSUME NEW n \in 2 .. Len(stack),
                      stack[n].fn \in Levels, stack[n - 1].fn \in Levels
               PROVE  \/ /\ Rank[stack[n - 1].fn] < Rank[stack[n].fn]
                         /\ stack[n - 1].step = "left"
                      \/ /\ stack[n - 1].fn = stack[n].fn
                         /\ stack[n - 1].step = "right"
    BY DEF NestsByPrecedence
  <1>1. /\ stack[n].fn = Callee(stack[n - 1]) /\ stack[n - 1].step # "begin"
        /\ stack[n - 1].step \in StepsOf(stack[n - 1].fn)
    BY ArgFacts DEF Inv, Linked
  <1>2. stack[n - 1].step \in {"left", "right"}
    BY <1>1 DEF StepsOf, Levels
  <1>3. CASE stack[n - 1].step = "left"
    <2>1. stack[n].fn = NextOf[stack[n - 1].fn]
      BY <1>1, <1>3 DEF Callee
    <2>2. \A level \in Levels : NextOf[level] \in Levels => Rank[level] < Rank[NextOf[level]]
      BY DEF NextOf, Rank, Levels
    <2> QED
      BY <1>3, <2>1, <2>2
  <1>4. CASE stack[n - 1].step = "right"
    BY <1>1, <1>4 DEF Callee
  <1> QED
    BY <1>2, <1>3, <1>4

\* Every step keeps the invariant.
LEMMA NextKeepsInv == Inv /\ [Next]_vars => Inv'
  <1>1. ASSUME Inv, UNCHANGED vars PROVE Inv'
    BY <1>1, StutterKeepsInv DEF vars
  <1> QED
    BY <1>1, ArgsKeepInv, FunctionsKeepInv DEF Next, Ended

\* The descent starts with the loop over the arguments.
LEMMA InitInv == Init => Inv
  <1> SUFFICES ASSUME Init PROVE Inv
    OBVIOUS
  <1>1. /\ stack \in Seq(AnyFrame) /\ Len(stack) = 1 /\ DOMAIN stack = {1}
        /\ stack[1] = Called("args", 1) /\ Top = Called("args", 1)
    BY DEF Init, AnyFrame, Called, Functions, Steps, Top
  <1>2. TypeOK
    BY <1>1, OperandAssumption DEF Init, TypeOK
  <1>3. Linked
    BY <1>1 DEF Linked, Called, StepsOf
  <1>4. arg <= Len(argv) => Called("args", 1) \in Frames
    BY <1>2, TextFacts DEF Frames, Positions, Called, Functions, Steps
  <1>5. StaysInText
    BY <1>1, <1>4 DEF StaysInText, Called
  <1> QED
    BY <1>2, <1>3, <1>5 DEF Inv, EndsEmpty, Init

\* However long and however deeply nested the operands are, no function gets
\* past the NUL of its text, in either build of evaluate_expr.
THEOREM OperandStaysInText == Spec => []StaysInText
  <1>1. Inv => StaysInText
    BY DEF Inv
  <1> QED
    BY InitInv, NextKeepsInv, <1>1, PTL DEF Spec

\* The calls of the operators nest by precedence.
THEOREM OperandNestsByPrecedence == Spec => []NestsByPrecedence
  <1>1. Inv => NestsByPrecedence
    BY LinkedNests
  <1> QED
    BY InitInv, NextKeepsInv, <1>1, PTL DEF Spec

-----------------------------------------------------------------------------
(* The operands that are accepted (OperandForm).  What the functions do    *)
(* not keep is which of them called which: what a call returns is stated   *)
(* by the text between where it started and where it ended (Contract), and *)
(* what it was called for by the text before it (Awaits), so that a return *)
(* turns what is known of the function into what its caller was told.      *)

\* The operators, and the characters that make no words.
LEMMA OpsAre ==
  /\ \A level \in Levels : Ops[level] \subseteq AllOps
  /\ \A c \in AllOps : \E level \in Levels : c \in Ops[level]
  <1>1. /\ Ops["bitor"] = {"|"} /\ Ops["bitxor"] = {"^"} /\ Ops["bitand"] = {"&"}
        /\ Ops["additive"] = {"+", "-"} /\ Ops["multiplicative"] = {"*", "/", "%"}
    BY DEF Ops, Levels
  <1> QED BY <1>1 DEF Levels, AllOps

\* The kinds of characters are apart.
LEMMA Characters ==
  /\ Blanks = {" ", "\t"} /\ Blanks \subseteq Special /\ AllOps \subseteq Special
  /\ {"(", ")", "[", "]"} \subseteq Special
  /\ {"(", ")", "[", "]"} \cap Blanks = {} /\ AllOps \cap Blanks = {}
  /\ {"(", ")", "[", "]"} \cap AllOps = {}
  /\ Special = Blanks \cup AllOps \cup {"(", ")", "[", "]"}
  /\ "NUL" \notin Special
  BY DEF Special, Blanks, AllOps

-----------------------------------------------------------------------------
(* The words the descent takes: those of the notations and the table but   *)
(* for the disputed ones.  It is these that the invariant is about.        *)

\* A digit may be the character after the last one of the base, and there need
\* not be one after a prefix.
ReadsNumeral(t, n, e) ==
    LET Of(base, from) == \A k \in from .. e - 1 : t[k] \in Digits[base]
        second         == IF n + 1 < e THEN t[n + 1] ELSE "NUL"
    IN  \/ t[n] # "0" /\ Of(10, n)
        \/ t[n] = "0" /\ Of(8, n + 1)
        \/ t[n] = "0" /\ second \in {"x", "X"} /\ Of(16, n + 2)
        \/ t[n] = "0" /\ second = "b" /\ Of(2, n + 2)

\* No register further up in the table begins there.
ReadsName(t, n, e) ==
    \E r \in DOMAIN registers :
        /\ Spells(t, r, n) /\ e = n + Len(registers[r].name)
        /\ \A q \in 1 .. r - 1 : ~Spells(t, q, n)

\* A number is not recognised at the end of the text.
ReadsWord(t, n, e) == ReadsName(t, n, e) \/ (e # Len(t) + 1 /\ ReadsNumeral(t, n, e))

Readable(t) ==
    /\ Composed(t)
    /\ \A n \in DOMAIN t : \A e \in n + 1 .. Len(t) + 1 :
          StartsWord(t, n) /\ EndsWord(t, n, e) => ReadsWord(t, n, e)

Taken(n) == argv[n].typed \/ (body = "bitor" /\ Readable(argv[n].raw))
TakesReadable ==
    /\ outcome = "evaluated" => \A n \in DOMAIN argv : Taken(n)
    /\ outcome = "died" => /\ arg \in DOMAIN argv /\ ~Taken(arg)
                            /\ \A n \in 1 .. arg - 1 : Taken(n)

-----------------------------------------------------------------------------
(* What is true of a text up to a position.                                *)

\* What stands before p fits, and the words that have ended there are words.
Sound(t, p) ==
    /\ \A n \in 1 .. p - 1 : FitsAt(t, n)
    /\ \A n \in 1 .. p - 1 : \A e \in n + 1 .. p :
          StartsWord(t, n) /\ EndsWord(t, n, e) => ReadsWord(t, n, e)

\* An operand is expected at p, has been read, or a closing bracket has.  A
\* word that goes on behind an operand that was read is none.
Expects(t, p) == Sound(t, p) /\ OperandBegins(t, p)
Done(t, p)    == /\ Sound(t, p) /\ OperandEnds(t, p)
                 /\ p \in DOMAIN t /\ t[p] \notin Special => ~Readable(t)
Shut(t, p)    == Sound(t, p) /\ BracketEnds(t, p) /\ Depth(t, p) = 0 /\ Bracketed(t, p)

\* As many parentheses are open at p as at q, and the bracket if it was there.
Same(t, q, p)   == Depth(t, p) = Depth(t, q) /\ (Bracketed(t, p) <=> Bracketed(t, q))
Passed(t, q, p) == Done(t, p) /\ Same(t, q, p)

IsText(t) == Len(t) \in Nat /\ DOMAIN t = 1 .. Len(t)

\* Counting one character more, and a run without the character counted.
LEMMA CountStep ==
  ASSUME NEW t, NEW p \in Nat \ {0}, NEW c
  PROVE  /\ Count(t, p, c) \in Nat
         /\ Count(t, p + 1, c) = Count(t, p, c) + IF t[p] = c THEN 1 ELSE 0
  <1> DEFINE S == {k \in 1 .. p - 1 : t[k] = c}
             U == {k \in 1 .. (p + 1) - 1 : t[k] = c}
  <1>1. IsFiniteSet(1 .. p - 1)
    BY FS_Interval
  <1>2. IsFiniteSet(S) /\ Cardinality(S) \in Nat
    BY <1>1, FS_Subset, FS_CardinalityType
  <1>3. CASE t[p] = c
    <2>1. U = S \cup {p} /\ p \notin S
      BY <1>3
    <2> HIDE DEF S, U
    <2>2. Cardinality(U) = Cardinality(S) + 1
      BY <1>2, <2>1, FS_AddElement
    <2> QED BY <1>2, <1>3, <2>2 DEF Count, S, U
  <1>4. CASE t[p] # c
    <2>1. U = S
      BY <1>4
    <2> HIDE DEF S, U
    <2> QED BY <1>2, <1>4, <2>1 DEF Count, S, U
  <1> QED BY <1>3, <1>4

\* A run without the character counted.
LEMMA CountRun ==
  ASSUME NEW t, NEW p \in Nat \ {0}, NEW q \in Nat, p <= q, NEW c,
         \A k \in p .. q - 1 : t[k] # c
  PROVE  Count(t, q, c) = Count(t, p, c)
  <1> DEFINE S == {k \in 1 .. p - 1 : t[k] = c}
             U == {k \in 1 .. q - 1 : t[k] = c}
  <1>1. \A k : k \in U <=> k \in S
    OBVIOUS
  <1>2. U = S
    <2> HIDE DEF S, U
    <2> QED BY <1>1
  <1> QED BY <1>2 DEF Count

\* A parenthesis changes the depth by one, and nothing else does.
LEMMA DepthType ==
  ASSUME NEW t, NEW p \in Nat \ {0}
  PROVE  /\ Depth(t, p) \in Int
         /\ Depth(t, p + 1) = IF t[p] = "(" THEN Depth(t, p) + 1
                              ELSE IF t[p] = ")" THEN Depth(t, p) - 1 ELSE Depth(t, p)
  <1>1. /\ Count(t, p, "(") \in Nat
        /\ Count(t, p + 1, "(") = Count(t, p, "(") + IF t[p] = "(" THEN 1 ELSE 0
    BY CountStep
  <1>2. /\ Count(t, p, ")") \in Nat
        /\ Count(t, p + 1, ")") = Count(t, p, ")") + IF t[p] = ")" THEN 1 ELSE 0
    BY CountStep
  <1> QED BY <1>1, <1>2 DEF Depth

\* A run without parentheses and brackets opens and closes none.
LEMMA RunSame ==
  ASSUME NEW t, NEW p \in Nat \ {0}, NEW q \in Nat, p <= q,
         \A k \in p .. q - 1 : t[k] \notin {"(", ")", "["}
  PROVE  Same(t, p, q)
  <1>1. Count(t, q, "(") = Count(t, p, "(") /\ Count(t, q, ")") = Count(t, p, ")")
    BY CountRun
  <1>2. Bracketed(t, q) <=> Bracketed(t, p)
    BY DEF Bracketed
  <1> QED BY <1>1, <1>2 DEF Same, Depth

\* What was open is still open.
LEMMA SameBoth ==
  ASSUME NEW t, NEW p, NEW q, NEW r, Same(t, p, q), Same(t, q, r)
  PROVE  Same(t, p, r)
BY DEF Same

-----------------------------------------------------------------------------
(* One more blank, character or word.                                      *)

\* An operand that has ended is followed by none.
LEMMA OperandsApart ==
  ASSUME NEW t, NEW p, OperandEnds(t, p)
  PROVE  ~OperandBegins(t, p)
BY DEF OperandEnds, OperandBegins

\* Only one place is beside another.
LEMMA BracketsApart ==
  ASSUME NEW t, NEW p \in Nat, BracketEnds(t, p)
  PROVE  ~OperandBegins(t, p) /\ ~OperandEnds(t, p)
  <1>1. PICK m \in 1 .. p - 1 : Beside(t, m, p) /\ t[m] = "]"
    BY DEF BracketEnds
  <1>2. ~OperandBegins(t, p)
    BY <1>1, Characters DEF OperandBegins
  <1>3. ASSUME NEW n \in 1 .. p - 1, Beside(t, n, p) PROVE n = m
    <2>1. n < m => m \in n + 1 .. p - 1
      OBVIOUS
    <2>2. m < n => n \in m + 1 .. p - 1
      OBVIOUS
    <2> QED BY <1>1, <1>3, <2>1, <2>2 DEF Beside
  <1>4. ~OperandEnds(t, p)
    BY <1>1, <1>3 DEF OperandEnds
  <1> QED BY <1>2, <1>4

\* Beside what is a place, blanks later.
LEMMA BesideRun ==
  ASSUME NEW t, NEW p \in Nat \ {0}, NEW q \in Nat, p <= q,
         \A k \in p .. q - 1 : t[k] \in Blanks
  PROVE  /\ \A m \in 1 .. p - 1 : Beside(t, m, q) <=> Beside(t, m, p)
         /\ \A m \in p .. q - 1 : ~Beside(t, m, q)
         /\ \A m \in 1 .. q - 1 : m \in 1 .. p - 1 \/ m \in p .. q - 1
  <1>1. ASSUME NEW m \in 1 .. p - 1 PROVE Beside(t, m, q) <=> Beside(t, m, p)
    <2>1. \A k \in m + 1 .. q - 1 : k \in m + 1 .. p - 1 \/ k \in p .. q - 1
      OBVIOUS
    <2>2. \A k \in m + 1 .. p - 1 : k \in m + 1 .. q - 1
      OBVIOUS
    <2> QED BY <2>1, <2>2 DEF Beside
  <1> QED BY <1>1 DEF Beside

\* Blanks change nothing that is true of a position.
LEMMA BlanksKeep ==
  ASSUME NEW t, NEW p \in Nat \ {0}, NEW q \in Nat, p <= q,
         \A k \in p .. q - 1 : t[k] \in Blanks
  PROVE  /\ OperandEnds(t, p) <=> OperandEnds(t, q)
         /\ OperandBegins(t, p) <=> OperandBegins(t, q)
         /\ BracketEnds(t, p) <=> BracketEnds(t, q)
         /\ Same(t, p, q)
         /\ Sound(t, p) => Sound(t, q)
  <1>1. /\ \A m \in 1 .. p - 1 : Beside(t, m, q) <=> Beside(t, m, p)
        /\ \A m \in p .. q - 1 : ~Beside(t, m, q)
        /\ \A m \in 1 .. q - 1 : m \in 1 .. p - 1 \/ m \in p .. q - 1
        /\ \A m \in 1 .. p - 1 : m \in 1 .. q - 1
    BY BesideRun
  <1>2. OperandEnds(t, p) <=> OperandEnds(t, q)
    BY <1>1 DEF OperandEnds
  <1>3. OperandBegins(t, p) <=> OperandBegins(t, q)
    BY <1>1 DEF OperandBegins
  <1>4. BracketEnds(t, p) <=> BracketEnds(t, q)
    BY <1>1 DEF BracketEnds
  <1>5. Same(t, p, q)
    <2>1. \A k \in p .. q - 1 : t[k] \notin {"(", ")", "["}
      BY Characters
    <2> QED BY <2>1, RunSame
  <1>6. ASSUME Sound(t, p) PROVE Sound(t, q)
    <2>1. ASSUME NEW n \in p .. q - 1 PROVE FitsAt(t, n) /\ ~StartsWord(t, n)
      <3>1. t[n] \in Blanks
        OBVIOUS
      <3> QED BY <3>1, Characters DEF FitsAt, StartsWord
    <2>2. \A n \in 1 .. q - 1 : FitsAt(t, n)
      BY <1>1, <1>6, <2>1 DEF Sound
    <2>3. ASSUME NEW n \in 1 .. q - 1, NEW e \in n + 1 .. q, StartsWord(t, n), EndsWord(t, n, e)
          PROVE  ReadsWord(t, n, e)
      <3>1. n \in 1 .. p - 1
        BY <1>1, <2>1, <2>3
      <3>2. ~(p < e)
        <4> SUFFICES ASSUME p < e PROVE FALSE
          OBVIOUS
        <4>1. p \in n .. e - 1 /\ p \in p .. q - 1
          BY <3>1
        <4> QED BY <2>3, <4>1, Characters DEF EndsWord
      <3>3. e \in n + 1 .. p
        BY <3>2
      <3> QED BY <1>6, <2>3, <3>1, <3>3 DEF Sound
    <2> QED BY <2>2, <2>3 DEF Sound
  <1> QED BY <1>2, <1>3, <1>4, <1>5, <1>6

\* A special character that fits.
LEMMA CharacterKeeps ==
  ASSUME NEW t, IsText(t), NEW p \in DOMAIN t, Sound(t, p), FitsAt(t, p), t[p] \in Special \ Blanks
  PROVE  /\ Sound(t, p + 1)
         /\ t[p] \in AllOps \cup {"(", "["} => OperandBegins(t, p + 1)
         /\ t[p] = ")" => OperandEnds(t, p + 1)
         /\ t[p] = "]" => BracketEnds(t, p + 1)
  <1>1. p \in Nat \ {0} /\ p \in 1 .. (p + 1) - 1
    BY DEF IsText
  <1>2. Beside(t, p, p + 1)
    BY <1>1 DEF Beside
  <1>3. ASSUME NEW m \in 1 .. (p + 1) - 1, Beside(t, m, p + 1) PROVE m = p
    <2>1. m # p => p \in m + 1 .. (p + 1) - 1
      BY <1>1
    <2> QED BY <1>3, <2>1 DEF Beside
  <1>4. t[p] \in AllOps \cup {"(", "["} => OperandBegins(t, p + 1)
    BY <1>3 DEF OperandBegins
  <1>5. t[p] = ")" => OperandEnds(t, p + 1)
    BY <1>1, <1>2, Characters DEF OperandEnds
  <1>6. t[p] = "]" => BracketEnds(t, p + 1)
    BY <1>1, <1>2 DEF BracketEnds
  <1>7. Sound(t, p + 1)
    <2>1. \A n \in 1 .. (p + 1) - 1 : n = p \/ n \in 1 .. p - 1
      BY <1>1
    <2>2. ASSUME NEW n \in 1 .. (p + 1) - 1, NEW e \in n + 1 .. p + 1,
                 StartsWord(t, n), EndsWord(t, n, e)
          PROVE  ReadsWord(t, n, e)
      <3>1. e # p + 1
        <4> SUFFICES ASSUME e = p + 1 PROVE FALSE
          OBVIOUS
        <4>1. p \in n .. e - 1
          BY <1>1
        <4> QED BY <2>2, <4>1 DEF EndsWord
      <3>2. n \in 1 .. p - 1 /\ e \in n + 1 .. p
        BY <1>1, <3>1
      <3> QED BY <2>2, <3>2 DEF Sound
    <2> QED BY <2>1, <2>2 DEF Sound
  <1> QED BY <1>4, <1>5, <1>6, <1>7

\* Nothing but blanks before a place where an operand may begin, or something
\* special: so a word starts there and not further on the left.
LEMMA StartsThere ==
  ASSUME NEW t, IsText(t), NEW p \in DOMAIN t, OperandBegins(t, p), t[p] \notin Special
  PROVE  StartsWord(t, p)
  <1>1. p \in Nat \ {0}
    BY DEF IsText
  <1>2. CASE p = 1
    BY <1>2 DEF StartsWord
  <1>3. CASE p # 1
    <2>1. p - 1 \in 1 .. p - 1 /\ \A k \in (p - 1) + 1 .. p - 1 : FALSE
      BY <1>1, <1>3
    <2>2. t[p - 1] \in Blanks \/ Beside(t, p - 1, p)
      BY <2>1 DEF Beside
    <2>3. t[p - 1] \in Special
      BY <2>1, <2>2, Characters DEF OperandBegins
    <2> QED BY <2>3 DEF StartsWord
  <1> QED BY <1>2, <1>3

\* A word.
LEMMA WordKeeps ==
  ASSUME NEW t, IsText(t), NEW p \in DOMAIN t, NEW q \in p + 1 .. Len(t) + 1,
         Sound(t, p), OperandBegins(t, p), \A k \in p .. q - 1 : t[k] \notin Special,
         EndsWord(t, p, q) => ReadsWord(t, p, q)
  PROVE  Sound(t, q) /\ OperandEnds(t, q) /\ Same(t, p, q) /\ StartsWord(t, p)
  <1>1. p \in Nat \ {0} /\ q \in Nat /\ p < q /\ p \in p .. q - 1 /\ q - 1 \in p .. q - 1
    BY DEF IsText
  <1>2. StartsWord(t, p)
    BY <1>1, StartsThere
  <1>3. Same(t, p, q)
    <2>1. \A k \in p .. q - 1 : t[k] \notin {"(", ")", "["}
      BY Characters
    <2> QED BY <1>1, <2>1, RunSame
  <1>4. OperandEnds(t, q)
    <2>1. q - 1 \in 1 .. q - 1 /\ \A k \in (q - 1) + 1 .. q - 1 : FALSE
      BY <1>1
    <2>2. t[q - 1] \notin Special
      BY <1>1
    <2>3. Beside(t, q - 1, q)
      BY <2>1, <2>2, Characters DEF Beside
    <2> QED BY <2>1, <2>2, <2>3, Characters DEF OperandEnds
  <1>5. ASSUME NEW n \in p .. q - 1 PROVE FitsAt(t, n) /\ (StartsWord(t, n) => n = p)
    <2>1. t[n] \notin Special /\ t[n] \notin AllOps \cup {"(", ")", "[", "]"}
      BY Characters
    <2>2. StartsWord(t, n) => n = p
      <3>1. n # p => n - 1 \in p .. q - 1 /\ n # 1
        BY <1>1
      <3> QED BY <3>1 DEF StartsWord
    <2> QED BY <2>1, <2>2 DEF FitsAt
  <1>6. \A n \in 1 .. q - 1 : n \in 1 .. p - 1 \/ n \in p .. q - 1
    BY <1>1
  <1>7. ASSUME NEW n \in 1 .. q - 1, NEW e \in n + 1 .. q, StartsWord(t, n), EndsWord(t, n, e)
        PROVE  ReadsWord(t, n, e)
    <2>1. CASE n \in 1 .. p - 1
      <3>1. e <= p
        <4> SUFFICES ASSUME p < e PROVE FALSE
          BY <1>1
        <4>1. \A k \in n .. e - 1 : t[k] \notin Special
          BY <1>7 DEF EndsWord
        <4>2. p - 1 \in n .. e - 1
          BY <1>1, <2>1
        <4>3. t[p - 1] \notin Special
          BY <4>1, <4>2
        <4>4. p # 1
          BY <2>1
        <4> QED BY <1>2, <4>3, <4>4 DEF StartsWord
      <3>2. e \in n + 1 .. p
        BY <1>1, <3>1
      <3> QED BY <1>7, <2>1, <3>2 DEF Sound
    <2>2. CASE n \in p .. q - 1
      <3>1. n = p
        BY <1>5, <1>7, <2>2
      <3>2. e = q
        <4> SUFFICES ASSUME e < q PROVE FALSE
          BY <1>1
        <4>1. e \in p .. q - 1 /\ e # Len(t) + 1
          BY <1>1, <3>1
        <4> QED BY <1>7, <4>1 DEF EndsWord
      <3> QED BY <1>7, <3>1, <3>2
    <2> QED BY <1>6, <2>1, <2>2
  <1>8. Sound(t, q)
    BY <1>5, <1>6, <1>7 DEF Sound
  <1> QED BY <1>2, <1>3, <1>4, <1>8

\* The text of the argument by its positions.
LEMMA TextIs ==
  ASSUME TypeOK, arg <= Len(argv)
  PROVE  /\ IsText(Text) /\ End = Len(Text) + 1 /\ Len(Text) \in Nat
         /\ \A p \in Positions : /\ p \in Nat \ {0}
                                 /\ p # End => p \in DOMAIN Text /\ Char(p) = Text[p]
                                 /\ p = End => Char(p) = "NUL" /\ p \notin DOMAIN Text
         /\ \A p \in DOMAIN Text : /\ p \in Positions /\ p + 1 \in Positions /\ p # End
                                   /\ Char(p) = Text[p] /\ Char(p) # "NUL"
  <1>1. /\ Len(Text) \in Nat /\ DOMAIN Text = 1 .. Len(Text) /\ End = Len(Text) + 1
        /\ \A p \in 1 .. Len(Text) : Char(p) # "NUL"
    BY TextFacts DEF End
  <1> QED BY <1>1 DEF IsText, Positions, Char

\* What After finds.
LEMMA AfterIs ==
  ASSUME TypeOK, arg <= Len(argv), NEW p \in Positions, NEW set, "NUL" \notin set
  PROVE  /\ After(p, set) \in p .. End /\ After(p, set) \in Positions
         /\ Char(After(p, set)) \notin set
         /\ \A k \in p .. After(p, set) - 1 : k \in DOMAIN Text /\ Text[k] \in set
  <1> DEFINE T == {n \in p .. End : Char(n) \notin set}
  <1>1. p \in Nat \ {0} /\ End \in Nat /\ p <= End /\ Char(End) \notin set
    BY TextFacts DEF Positions
  <1>2. T \in SUBSET Nat /\ T # {}
    BY <1>1
  <1>3. PICK n \in T : \A m \in T : n <= m
    BY <1>2, LeastNat
  <1>4. \A k \in p .. n - 1 : Char(k) \in set
    BY <1>1, <1>3
  <1>5. PICK q \in p .. End :
           q = After(p, set) /\ Char(q) \notin set /\ \A k \in p .. q - 1 : Char(k) \in set
    BY <1>3, <1>4 DEF After
  <1>6. \A k \in p .. q - 1 : k \in DOMAIN Text /\ Text[k] = Char(k)
    BY <1>1, <1>5, TextIs DEF Positions
  <1> QED BY <1>1, <1>5, <1>6 DEF Positions

\* Where the blanks end.
LEMMA SkipIs ==
  ASSUME TypeOK, arg <= Len(argv), NEW p \in Positions
  PROVE  /\ Skip(p) \in p .. End /\ Skip(p) \in Positions /\ Char(Skip(p)) \notin Blanks
         /\ \A k \in p .. Skip(p) - 1 : k \in DOMAIN Text /\ Text[k] \in Blanks
         /\ Char(p) \notin Blanks => Skip(p) = p
         /\ Skip(Skip(p)) = Skip(p)
  <1>1. "NUL" \notin Blanks
    BY DEF Blanks
  <1>2. ASSUME NEW r \in Positions
        PROVE  /\ Skip(r) \in r .. End /\ Skip(r) \in Positions /\ Char(Skip(r)) \notin Blanks
               /\ \A k \in r .. Skip(r) - 1 : k \in DOMAIN Text /\ Text[k] \in Blanks
    BY <1>1, AfterIs DEF Skip
  <1>3. ASSUME NEW r \in Positions, Char(r) \notin Blanks PROVE Skip(r) = r
    <2>1. PICK s \in Positions : s = Skip(r) /\ s \in r .. End
      BY <1>2
    <2>2. r \in Nat /\ s \in Nat /\ r <= s
      BY <2>1, TextIs DEF Positions
    <2>3. s # r => r \in r .. s - 1
      BY <2>2
    <2>4. s # r => Text[r] \in Blanks /\ r \in DOMAIN Text
      BY <1>2, <2>1, <2>3
    <2> QED BY <1>3, <2>1, <2>4, TextIs
  <1> QED BY <1>2, <1>3

\* The end of a word.
LEMMA WordHasEnd ==
  ASSUME NEW t, IsText(t), NEW p \in DOMAIN t, t[p] \notin Special
  PROVE  \E e \in p + 1 .. Len(t) + 1 : EndsWord(t, p, e)
  <1> DEFINE L == Len(t)
             T == {n \in p + 1 .. L + 1 : n = L + 1 \/ t[n] \in Special}
  <1>1. p \in 1 .. L /\ L \in Nat
    BY DEF IsText
  <1>2. T \in SUBSET Nat /\ L + 1 \in T
    BY <1>1
  <1>3. PICK e \in T : \A m \in T : e <= m
    BY <1>2, LeastNat
  <1>4. ASSUME NEW k \in p .. e - 1 PROVE t[k] \notin Special
    <2>1. CASE k = p
      BY <1>1, <2>1
    <2>2. CASE k # p
      <3>1. k \in p + 1 .. L + 1 /\ ~(e <= k)
        BY <1>1, <1>3, <2>2
      <3> QED BY <1>3, <3>1
    <2> QED BY <2>1, <2>2
  <1> QED BY <1>3, <1>4 DEF EndsWord

\* What a text in form cannot have.
LEMMA NotFitting ==
  ASSUME NEW t, IsText(t), NEW p \in DOMAIN t, ~FitsAt(t, p)
  PROVE  ~Readable(t)
BY DEF Readable, Composed

\* Nor a word that is neither a number nor a register.
LEMMA NotAWord ==
  ASSUME NEW t, IsText(t), NEW p \in DOMAIN t, NEW e \in p + 1 .. Len(t) + 1,
         StartsWord(t, p), EndsWord(t, p, e), ~ReadsWord(t, p, e)
  PROVE  ~Readable(t)
BY DEF Readable, Composed

\* Two operands, or words, behind one another.
LEMMA NoOperator ==
  ASSUME NEW t, IsText(t), NEW p \in DOMAIN t, ~OperandBegins(t, p),
         t[p] = "(" \/ StartsWord(t, p)
  PROVE  ~Readable(t)
BY NotFitting DEF FitsAt

\* Skipping blanks keeps what is true of a position.
LEMMA SkipKeeps ==
  ASSUME TypeOK, arg <= Len(argv), NEW p \in Positions
  PROVE  /\ Same(Text, p, Skip(p))
         /\ Expects(Text, p) => Expects(Text, Skip(p))
         /\ Done(Text, p) => Done(Text, Skip(p))
         /\ Shut(Text, p) => Shut(Text, Skip(p))
         /\ \A q : Passed(Text, q, p) => Passed(Text, q, Skip(p))
  <1>1. PICK q \in Positions :
           q = Skip(p) /\ q \in p .. End /\ \A k \in p .. q - 1 : Text[k] \in Blanks
    BY SkipIs
  <1>2. PICK t : t = Text /\ IsText(t)
    BY TextIs
  <1>3. p \in Nat \ {0} /\ q \in Nat /\ p <= q
    BY <1>1, TextIs
  <1>4. /\ OperandEnds(t, p) <=> OperandEnds(t, q)
        /\ OperandBegins(t, p) <=> OperandBegins(t, q)
        /\ BracketEnds(t, p) <=> BracketEnds(t, q)
        /\ Same(t, p, q)
        /\ Sound(t, p) => Sound(t, q)
    BY <1>1, <1>2, <1>3, BlanksKeep
  <1>5. ASSUME Done(t, p) PROVE Done(t, q)
    <2>1. CASE q = p
      BY <1>5, <2>1
    <2>2. CASE q # p
      <3>1. Sound(t, q) /\ OperandEnds(t, q)
        BY <1>4, <1>5 DEF Done
      <3>2. ~OperandBegins(t, q)
        BY <3>1, OperandsApart
      <3>3. q - 1 \in p .. q - 1
        BY <1>3, <2>2
      <3>5. t[q - 1] \in Special
        BY <1>1, <1>2, <3>3, Characters
      <3>4. ASSUME q \in DOMAIN t, t[q] \notin Special PROVE ~Readable(t)
        <4>1. StartsWord(t, q)
          BY <3>5, <3>4 DEF StartsWord
        <4> QED BY <1>2, <3>2, <3>4, <4>1, NoOperator
      <3> QED BY <3>1, <3>4 DEF Done
    <2> QED BY <2>1, <2>2
  <1>6. Expects(t, p) => Expects(t, q)
    BY <1>4 DEF Expects
  <1>7. Shut(t, p) => Shut(t, q)
    BY <1>4 DEF Shut, Same
  <1>8. \A r : Passed(t, r, p) => Passed(t, r, q)
    BY <1>4, <1>5 DEF Passed, Same
  <1> QED BY <1>1, <1>2, <1>4, <1>5, <1>6, <1>7, <1>8

-----------------------------------------------------------------------------
(* Words, as evaluate_num and evaluate_register read them.                 *)

PlainChar(c) == c \notin Special
PlainName(t) == (\A k \in 1 .. Len(t) : PlainChar(t[k])) /\ t[1] \notin Digits[10]

\* The letters of the names of registers.
LEMMA LettersArePlain ==
  \A c \in {"A", "B", "C", "D", "E", "F", "M", "N", "O",
            "P", "Q", "S", "U", "V", "W", "X", "Y", "Z"} :
     PlainChar(c) /\ c \notin Digits[10]
  <1>1. Special = {" ", "\t", "|", "^", "&", "+", "-", "*", "/", "%", "(", ")", "[", "]"}
    BY DEF Special, Blanks, AllOps
  <1>2. Digits[10] = {"0", "1", "2", "3", "4", "5", "6", "7", "8", "9", ":"}
    BY DEF Digits
  <1> QED BY <1>1, <1>2 DEF PlainChar

\* A register's name is made of them, so that it starts no number.
LEMMA NamesArePlain ==
  \A n \in DOMAIN registers : PlainName(registers[n].name)
  <1>1. ASSUME NEW r \in {"A", "B", "D", "X", "Y", "U", "S", "E", "F", "W", "Q", "V", "Z"},
               NEW both \in BOOLEAN
        PROVE  PlainName(Register(<<r>>, both).name)
    <2>1. PlainChar(r) /\ r \notin Digits[10]
      BY LettersArePlain
    <2>2. Len(<<r>>) = 1 /\ <<r>>[1] = r
      OBVIOUS
    <2>3. PlainName(<<r>>)
      BY <2>1, <2>2 DEF PlainName
    <2> QED BY <2>3 DEF Register
  <1>2. ASSUME NEW r \in {"P", "D", "C", "M"}, NEW q \in {"C", "P", "D"}, NEW both \in BOOLEAN
        PROVE  PlainName(Register(<<r, q>>, both).name)
    <2>1. PlainChar(r) /\ PlainChar(q) /\ r \notin Digits[10]
      BY LettersArePlain
    <2>2. Len(<<r, q>>) = 2 /\ <<r, q>>[1] = r /\ <<r, q>>[2] = q
      OBVIOUS
    <2>3. PlainName(<<r, q>>)
      BY <2>1, <2>2 DEF PlainName
    <2> QED BY <2>3 DEF Register
  <1>3. PlainName(Register(<<"N", "O", "N", "E">>, TRUE).name)
    <2> DEFINE w == <<"N", "O", "N", "E">>
    <2>1. PlainChar("N") /\ PlainChar("O") /\ PlainChar("E") /\ "N" \notin Digits[10]
      BY LettersArePlain
    <2>2. Len(w) = 4 /\ w[1] = "N" /\ w[2] = "O" /\ w[3] = "N" /\ w[4] = "E"
      OBVIOUS
    <2>3. PlainName(w)
      <3> HIDE DEF w
      <3> QED BY <2>1, <2>2 DEF PlainName
    <2> QED BY <2>3 DEF Register
  <1>4. \A n \in 1 .. 18 : PlainName(registers[n].name)
    <2>1. /\ PlainName(registers[2].name) /\ PlainName(registers[3].name)
          /\ PlainName(registers[4].name) /\ PlainName(registers[5].name)
          /\ PlainName(registers[6].name) /\ PlainName(registers[7].name)
          /\ PlainName(registers[8].name) /\ PlainName(registers[10].name)
          /\ PlainName(registers[11].name) /\ PlainName(registers[12].name)
          /\ PlainName(registers[13].name) /\ PlainName(registers[14].name)
          /\ PlainName(registers[15].name)
      BY <1>1 DEF registers
    <2>2. /\ PlainName(registers[9].name) /\ PlainName(registers[16].name)
          /\ PlainName(registers[17].name) /\ PlainName(registers[18].name)
      BY <1>2 DEF registers
    <2>3. PlainName(registers[1].name)
      BY <1>3 DEF registers
    <2> QED BY <2>1, <2>2, <2>3
  <1>5. DOMAIN registers = 1 .. 18
    BY DEF registers
  <1> QED BY <1>4, <1>5

\* The names at a position.
LEMMA NameIsSpelled ==
  ASSUME TypeOK, arg <= Len(argv), NEW p \in Positions, NEW r \in DOMAIN registers
  PROVE  /\ NameAt(r, p) <=> Spells(Text, r, p)
         /\ NameAt(r, p) => LET e == p + Len(registers[r].name)
                            IN  /\ e \in p + 1 .. End
                                /\ \A k \in p .. e - 1 : k \in DOMAIN Text /\ Text[k] \notin Special
                                /\ Text[p] \notin Digits[10]
  <1> DEFINE name == registers[r].name
  <1>1. /\ Len(name) \in Nat \ {0}
        /\ \A k \in 1 .. Len(name) : k \in DOMAIN name /\ name[k] # "NUL"
        /\ DOMAIN name = 1 .. Len(name)
    <2>1. DOMAIN name = 1 .. Len(name)
      <3>1. r \in 1 .. 18
        BY DEF registers
      <3> QED BY <3>1 DEF registers, Register
    <2> QED BY <2>1, RegisterNames
  <1>2. (\A k \in 1 .. Len(name) : name[k] \notin Special) /\ name[1] \notin Digits[10]
    BY NamesArePlain DEF PlainName, PlainChar
  <1>3. ASSUME NameAt(r, p), NEW k \in 1 .. Len(name)
        PROVE  p + k - 1 \in DOMAIN Text /\ Text[p + k - 1] = name[k]
    <2>1. Char(p + k - 1) = name[k] /\ name[k] # "NUL"
      BY <1>1, <1>3 DEF NameAt
    <2> QED BY <2>1 DEF Char
  <1>4. Spells(Text, r, p) => NameAt(r, p)
    BY DEF Spells, NameAt, Char
  <1>5. NameAt(r, p) => Spells(Text, r, p)
    BY <1>1, <1>3 DEF NameAt, Spells
  <1> DEFINE e == p + Len(name)
  <1>6. ASSUME NameAt(r, p)
        PROVE  /\ e \in p + 1 .. End
               /\ \A k \in p .. e - 1 : k \in DOMAIN Text /\ Text[k] \notin Special
               /\ Text[p] \notin Digits[10]
    <2> HIDE DEF name
    <2>1. p \in Nat \ {0} /\ Len(name) \in Nat \ {0} /\ Len(Text) \in Nat
          /\ DOMAIN Text = 1 .. Len(Text) /\ End = Len(Text) + 1
      BY <1>1, TextIs DEF IsText
    <2>2. ASSUME NEW k \in p .. e - 1 PROVE k \in DOMAIN Text /\ Text[k] \notin Special
      <3>1. PICK j \in 1 .. Len(name) : p + j - 1 = k
        <4>1. k - p + 1 \in 1 .. Len(name) /\ p + (k - p + 1) - 1 = k
          BY <2>1
        <4> QED BY <4>1
      <3>2. k \in DOMAIN Text /\ Text[k] = name[j]
        BY <1>3, <1>6, <3>1
      <3> QED BY <1>2, <3>1, <3>2
    <2>3. e - 1 \in p .. e - 1 /\ 1 \in 1 .. Len(name) /\ p + 1 - 1 = p
      BY <1>1, <2>1
    <2>4. e - 1 \in 1 .. Len(Text)
      BY <2>1, <2>2, <2>3
    <2>5. Text[p] = name[1]
      BY <1>3, <1>6, <2>3
    <2> QED BY <1>2, <2>1, <2>2, <2>4, <2>5
  <1> QED BY <1>4, <1>5, <1>6

\* The register that evaluate_register finds.
LEMMA RegisterIs ==
  ASSUME TypeOK, arg <= Len(argv), NEW p \in Positions
  PROVE  /\ RegisterAt(p) = 0 => \A r \in DOMAIN registers : ~Spells(Text, r, p)
         /\ RegisterAt(p) # 0 => \E r \in DOMAIN registers :
               /\ NameAt(r, p) /\ RegisterAt(p) = Len(registers[r].name)
               /\ \A q \in 1 .. r - 1 : ~Spells(Text, q, p)
               /\ \A q \in DOMAIN registers : Spells(Text, q, p) => r <= q
  <1> DEFINE found == {n \in DOMAIN registers : NameAt(n, p)}
             first == CHOOSE n \in found : \A m \in found : n <= m
  <1>1. DOMAIN registers = 1 .. 18
    BY DEF registers
  <1>2. CASE found = {}
    <2>1. RegisterAt(p) = 0
      BY <1>2 DEF RegisterAt
    <2> QED BY <1>2, <2>1, NameIsSpelled
  <1>3. CASE found # {}
    <2>0. found \in SUBSET Nat
      BY <1>1
    <2>1. first \in found /\ \A m \in found : first <= m
      BY <1>3, <2>0, LeastNat
    <2>2. RegisterAt(p) = Len(registers[first].name)
      BY <1>3 DEF RegisterAt
    <2>3. PICK r \in DOMAIN registers :
             r \in 1 .. 18 /\ r = first /\ NameAt(r, p) /\ \A m \in found : r <= m
      BY <1>1, <2>1
    <2>4. Len(registers[r].name) # 0
      BY RegisterNames
    <2>5. ASSUME NEW q \in DOMAIN registers, Spells(Text, q, p) PROVE r <= q
      BY <2>3, <2>5, NameIsSpelled
    <2>6. ASSUME NEW q \in 1 .. r - 1 PROVE ~Spells(Text, q, p)
      <3>1. r \in 1 .. 18
        BY <2>3
      <3>2. q \in 1 .. 18 /\ ~(r <= q)
        <4> HIDE DEF found, first
        <4> QED BY <3>1
      <3> QED BY <1>1, <2>5, <3>2
    <2> QED BY <2>2, <2>3, <2>4, <2>5, <2>6
  <1> QED BY <1>2, <1>3

\* No digit is special.
LEMMA DigitsArePlain ==
  /\ \A base \in {2, 8, 10, 16} :
        "NUL" \notin Digits[base] /\ \A c \in Digits[base] : c \notin Special
  /\ {"x", "X", "b"} \cap Digits[8] = {} /\ "0" \in Digits[10]
  /\ {"0", "x", "X", "b"} \cap Special = {}
  <1>1. Special = {" ", "\t", "|", "^", "&", "+", "-", "*", "/", "%", "(", ")", "[", "]"}
    BY DEF Special, Blanks, AllOps
  <1>2. /\ Digits[2] = {"0", "1", "2"}
        /\ Digits[8] = {"0", "1", "2", "3", "4", "5", "6", "7", "8"}
        /\ Digits[10] = {"0", "1", "2", "3", "4", "5", "6", "7", "8", "9", ":"}
        /\ Digits[16] = {"0", "1", "2", "3", "4", "5", "6", "7", "8", "9", ":",
                         "A", "B", "C", "D", "E", "F", "G", "a", "b", "c", "d", "e", "f", "g"}
    BY DEF Digits
  <1>3. \A c \in Digits[16] : c \notin Special /\ c # "NUL"
    BY <1>1, <1>2
  <1>4. \A base \in {2, 8, 10} : Digits[base] \subseteq Digits[16]
    BY <1>2
  <1>5. {"x", "X", "b"} \cap Digits[8] = {} /\ "0" \in Digits[10]
    BY <1>2
  <1>6. {"0", "x", "X", "b"} \cap Special = {}
    BY <1>1
  <1> QED BY <1>3, <1>4, <1>5, <1>6

\* A word is a number when all of it behind the prefix is digits.
LEMMA NumeralIs ==
  ASSUME TypeOK, arg <= Len(argv), NEW p \in DOMAIN Text, NEW e \in p + 1 .. End,
         EndsWord(Text, p, e), NEW d, NEW b, d = Prefix(p).digits, b = Prefix(p).base
  PROVE  /\ d \in p .. e /\ b \in {2, 8, 10, 16}
         /\ (b = 10 => d = p) /\ (b # 10 => d > p /\ Text[p] = "0")
         /\ \A k \in p .. d - 1 : Text[k] \in {"0", "x", "X", "b"}
         /\ ReadsNumeral(Text, p, e) <=> \A k \in d .. e - 1 : Text[k] \in Digits[b]
  <1>1. PICK t : t = Text /\ IsText(t)
    BY TextIs
  <1>2. /\ p \in Nat \ {0} /\ e \in Nat /\ p < e
        /\ p \in DOMAIN t /\ DOMAIN t = 1 .. Len(t) /\ Len(t) \in Nat
        /\ e <= Len(t) + 1 /\ End = Len(t) + 1
    BY <1>1, TextIs DEF IsText
  <1>3. Char(p) = t[p] /\ p + 1 \in Positions
    BY <1>1, TextIs
  <1>4. \A c \in {"x", "X", "b"} : Char(p + 1) = c <=> p + 1 < e /\ t[p + 1] = c
    <2>1. ASSUME NEW c \in {"x", "X", "b"}, Char(p + 1) = c PROVE p + 1 < e /\ t[p + 1] = c
      <3>1. p + 1 \in DOMAIN t /\ t[p + 1] = c
        BY <1>1, <2>1 DEF Char
      <3>2. t[p + 1] \notin Special
        BY <2>1, <3>1, DigitsArePlain
      <3>3. e # p + 1
        BY <1>1, <1>2, <3>1, <3>2 DEF EndsWord
      <3> QED BY <1>2, <3>1, <3>3
    <2>2. ASSUME p + 1 < e PROVE Char(p + 1) = t[p + 1]
      <3>1. p + 1 \in DOMAIN t
        BY <1>2, <2>2
      <3> QED BY <1>1, <3>1 DEF Char
    <2> QED BY <2>1, <2>2
  <1> DEFINE Of(base, from) == \A k \in from .. e - 1 : t[k] \in Digits[base]
             second         == IF p + 1 < e THEN t[p + 1] ELSE "NUL"
  <1>5. ReadsNumeral(t, p, e) <=>
          \/ t[p] # "0" /\ Of(10, p)
          \/ t[p] = "0" /\ Of(8, p + 1)
          \/ t[p] = "0" /\ second \in {"x", "X"} /\ Of(16, p + 2)
          \/ t[p] = "0" /\ second = "b" /\ Of(2, p + 2)
    BY DEF ReadsNumeral
  <1>6. ASSUME p + 1 < e, t[p + 1] \in {"x", "X", "b"} PROVE ~Of(8, p + 1)
    <2>1. p + 1 \in p + 1 .. e - 1
      BY <1>2, <1>6
    <2> QED BY <1>6, <2>1, DigitsArePlain
  <1>7. CASE t[p] # "0"
    <2>1. d = p /\ b = 10
      BY <1>3, <1>7 DEF Prefix
    <2>2. ReadsNumeral(t, p, e) <=> Of(10, p)
      BY <1>5, <1>7
    <2> QED BY <1>1, <1>2, <2>1, <2>2
  <1>8. CASE t[p] = "0" /\ Char(p + 1) \in {"x", "X"}
    <2>1. d = p + 2 /\ b = 16
      BY <1>3, <1>8 DEF Prefix
    <2>2. p + 1 < e /\ second \in {"x", "X"} /\ second # "b" /\ t[p + 1] = second
      BY <1>4, <1>8
    <2>3. ReadsNumeral(t, p, e) <=> Of(16, p + 2)
      BY <1>5, <1>6, <1>8, <2>2
    <2>4. \A k \in p .. d - 1 : k = p \/ k = p + 1
      BY <1>2, <2>1
    <2> QED BY <1>1, <1>2, <1>8, <2>1, <2>2, <2>3, <2>4
  <1>9. CASE t[p] = "0" /\ Char(p + 1) = "b"
    <2>1. d = p + 2 /\ b = 2
      BY <1>3, <1>9 DEF Prefix
    <2>2. p + 1 < e /\ second \notin {"x", "X"} /\ second = "b" /\ t[p + 1] = second
      BY <1>4, <1>9
    <2>3. ReadsNumeral(t, p, e) <=> Of(2, p + 2)
      BY <1>5, <1>6, <1>9, <2>2
    <2>4. \A k \in p .. d - 1 : k = p \/ k = p + 1
      BY <1>2, <2>1
    <2> QED BY <1>1, <1>2, <1>9, <2>1, <2>2, <2>3, <2>4
  <1>10. CASE t[p] = "0" /\ Char(p + 1) \notin {"x", "X", "b"}
    <2>1. d = p + 1 /\ b = 8
      BY <1>3, <1>10 DEF Prefix
    <2>2. second \notin {"x", "X", "b"}
      BY <1>4, <1>10
    <2>3. ReadsNumeral(t, p, e) <=> Of(8, p + 1)
      BY <1>5, <1>10, <2>2
    <2>4. \A k \in p .. d - 1 : k = p
      BY <1>2, <2>1
    <2> QED BY <1>1, <1>2, <1>10, <2>1, <2>3, <2>4
  <1> QED BY <1>7, <1>8, <1>9, <1>10

\* The number at p: the place of its digits, and that behind them.
LEMMA NumIs ==
  ASSUME TypeOK, arg <= Len(argv), NEW p \in DOMAIN Text, Text[p] \notin Special,
         NEW d, NEW b, NEW q, d = Prefix(p).digits, b = Prefix(p).base, q = After(d, Digits[b])
  PROVE  /\ d \in Positions /\ b \in {2, 8, 10, 16} /\ p <= d /\ q \in d .. End
         /\ Char(q) \notin Digits[b]
         /\ \A k \in d .. q - 1 : k \in DOMAIN Text /\ Text[k] \in Digits[b]
         /\ Num(p) = IF Char(q) = "NUL" THEN 0 ELSE Skip(q) - p
  <1>1. PICK e \in p + 1 .. End : EndsWord(Text, p, e)
    BY WordHasEnd, TextIs
  <1>2. p \in Positions /\ p \in Nat \ {0} /\ End \in Nat /\ Char(p) = Text[p]
    BY TextIs DEF Positions
  <1>3. d \in p .. e /\ b \in {2, 8, 10, 16}
    BY <1>1, NumeralIs
  <1>4. d \in Positions /\ p <= d
    BY <1>1, <1>2, <1>3 DEF Positions
  <1>5. "NUL" \notin Digits[b]
    BY <1>3, DigitsArePlain
  <1>6. /\ q \in d .. End /\ Char(q) \notin Digits[b]
        /\ \A k \in d .. q - 1 : k \in DOMAIN Text /\ Text[k] \in Digits[b]
    BY <1>4, <1>5, AfterIs
  <1>7. Skip(p) = p
    BY <1>2, Characters, SkipIs
  <1>8. Num(p) = IF Char(q) = "NUL" THEN 0 ELSE Skip(q) - p
    BY <1>7 DEF Num
  <1> QED BY <1>3, <1>4, <1>6, <1>8

\* A number that is read is an operand.
LEMMA NumPasses ==
  ASSUME TypeOK, arg <= Len(argv), NEW p \in DOMAIN Text, Text[p] \notin Special,
         Expects(Text, p), Num(p) # 0
  PROVE  Passed(Text, p, p + Num(p))
  <1>1. PICK t : t = Text /\ IsText(t)
    BY TextIs
  <1>2. PICK d, b, q : d = Prefix(p).digits /\ b = Prefix(p).base /\ q = After(d, Digits[b])
    OBVIOUS
  <1>3. /\ d \in Positions /\ b \in {2, 8, 10, 16} /\ p <= d /\ q \in d .. End
        /\ Char(q) \notin Digits[b]
        /\ \A k \in d .. q - 1 : k \in DOMAIN t /\ t[k] \in Digits[b]
        /\ Num(p) = IF Char(q) = "NUL" THEN 0 ELSE Skip(q) - p
    BY <1>1, <1>2, NumIs
  <1>4. /\ p \in Nat \ {0} /\ p \in 1 .. Len(t) /\ Len(t) \in Nat /\ End = Len(t) + 1
        /\ d \in Nat /\ q \in Nat
        /\ q \in Positions /\ p \in Positions /\ p <= q /\ d <= q /\ q <= End
    BY <1>1, <1>3, TextIs DEF Positions, IsText
  <1>5. Char(q) # "NUL" /\ Num(p) = Skip(q) - p
    BY <1>3
  <1>6. q # End /\ q \in DOMAIN t /\ Char(q) = t[q]
    BY <1>1, <1>4, <1>5, TextIs
  <1>7. PICK e \in p + 1 .. End : EndsWord(t, p, e)
    BY <1>1, WordHasEnd, TextIs
  <1>8. /\ b = 10 => d = p
        /\ b # 10 => d > p /\ t[p] = "0"
        /\ \A k \in p .. d - 1 : t[k] \in {"0", "x", "X", "b"}
        /\ ReadsNumeral(t, p, e) <=> \A k \in d .. e - 1 : t[k] \in Digits[b]
    BY <1>1, <1>2, <1>7, NumeralIs
  <1>9. Skip(p) = p
    <2>1. Char(p) \notin Blanks
      BY <1>1, TextIs, Characters
    <2> QED BY <1>4, <2>1, SkipIs
  <1>10. q # p
    BY <1>3, <1>4, <1>5, <1>8, <1>9
  <1>11. q \in p + 1 .. End
    BY <1>4, <1>10
  <1>12. ASSUME NEW k \in p .. q - 1 PROVE t[k] \notin Special
    <2>1. CASE k < d
      <3>1. k \in p .. d - 1
        BY <1>4, <2>1
      <3> QED BY <1>8, <3>1, DigitsArePlain
    <2>2. CASE d <= k
      <3>1. k \in d .. q - 1
        BY <1>4, <2>2
      <3> QED BY <1>3, <3>1, DigitsArePlain
    <2> QED BY <1>4, <2>1, <2>2
  <1>13. ASSUME EndsWord(t, p, q) PROVE ReadsWord(t, p, q)
    <2>1. ReadsNumeral(t, p, q)
      BY <1>1, <1>2, <1>3, <1>11, <1>13, NumeralIs
    <2> QED BY <1>4, <1>6, <2>1 DEF ReadsWord
  <1>14. Sound(t, q) /\ OperandEnds(t, q) /\ Same(t, p, q) /\ StartsWord(t, p)
    <2>1. Sound(t, p) /\ OperandBegins(t, p) /\ p \in DOMAIN t /\ q \in p + 1 .. Len(t) + 1
      BY <1>1, <1>4, <1>11 DEF Expects
    <2> QED BY <1>1, <1>12, <1>13, <2>1, WordKeeps
  <1>15. ASSUME t[q] \notin Special PROVE ~Readable(t)
    <2>1. q <= e
      <3> SUFFICES ASSUME e < q PROVE FALSE
        BY <1>4
      <3>1. e \in p .. q - 1 /\ e # Len(t) + 1
        BY <1>4, <1>7
      <3> QED BY <1>7, <1>12, <3>1 DEF EndsWord
    <2>2. e # q
      BY <1>4, <1>6, <1>7, <1>15 DEF EndsWord
    <2>3. q \in d .. e - 1
      BY <1>4, <1>7, <2>1, <2>2
    <2>4. ~ReadsNumeral(t, p, e)
      BY <1>3, <1>6, <1>8, <2>3
    <2>5. t[p] \in Digits[10]
      <3>1. CASE b = 10
        <4>1. p \in d .. q - 1
          BY <1>4, <1>8, <1>11, <3>1
        <4> QED BY <1>3, <3>1, <4>1
      <3>2. CASE b # 10
        BY <1>8, <3>2, DigitsArePlain
      <3> QED BY <3>1, <3>2
    <2>6. ~ReadsName(t, p, e)
      <3>1. ASSUME NEW r \in DOMAIN registers, Spells(t, r, p) PROVE FALSE
        BY <1>1, <1>4, <2>5, <3>1, NameIsSpelled
      <3> QED BY <3>1 DEF ReadsName
    <2>7. ~ReadsWord(t, p, e)
      BY <2>4, <2>6 DEF ReadsWord
    <2>8. e \in p + 1 .. Len(t) + 1 /\ p \in DOMAIN t
      BY <1>1, <1>4, <1>7
    <2> QED BY <1>1, <1>7, <1>14, <2>7, <2>8, NotAWord
  <1>16. Passed(t, p, q)
    BY <1>14, <1>15 DEF Passed, Done
  <1>17. Passed(t, p, Skip(q))
    BY <1>1, <1>4, <1>16, SkipKeeps
  <1>18. p + Num(p) = Skip(q)
    <2>1. Skip(q) \in Nat
      BY <1>4, SkipIs, TextIs
    <2> QED BY <1>4, <1>5, <2>1
  <1> QED BY <1>1, <1>17, <1>18

\* A register that is read is an operand.
LEMMA RegisterPasses ==
  ASSUME TypeOK, arg <= Len(argv), NEW p \in DOMAIN Text, Text[p] \notin Special,
         Expects(Text, p), RegisterAt(p) # 0
  PROVE  Passed(Text, p, p + RegisterAt(p))
  <1>1. PICK t : t = Text /\ IsText(t)
    BY TextIs
  <1>2. PICK r \in DOMAIN registers :
          /\ r \in 1 .. 18 /\ NameAt(r, p) /\ RegisterAt(p) = Len(registers[r].name)
          /\ \A n \in 1 .. r - 1 : ~Spells(t, n, p)
          /\ \A n \in DOMAIN registers : Spells(t, n, p) => r <= n
    <2>1. p \in Positions
      BY TextIs
    <2>2. DOMAIN registers = 1 .. 18
      BY DEF registers
    <2> QED BY <1>1, <2>1, <2>2, RegisterIs
  <1>3. PICK q : q = p + RegisterAt(p)
    OBVIOUS
  <1>4. /\ p \in Nat \ {0} /\ p \in 1 .. Len(t) /\ Len(t) \in Nat /\ End = Len(t) + 1
        /\ p \in Positions
    BY <1>1, TextIs DEF IsText
  <1>5. /\ Spells(t, r, p) /\ q \in p + 1 .. End /\ q = p + Len(registers[r].name)
        /\ \A k \in p .. q - 1 : t[k] \notin Special
        /\ t[p] \notin Digits[10]
    BY <1>1, <1>2, <1>3, <1>4, NameIsSpelled
  <1>6. ReadsName(t, p, q)
    BY <1>2, <1>5 DEF ReadsName
  <1>7. Sound(t, q) /\ OperandEnds(t, q) /\ Same(t, p, q) /\ StartsWord(t, p)
    <2>1. Sound(t, p) /\ OperandBegins(t, p) /\ p \in DOMAIN t /\ q \in p + 1 .. Len(t) + 1
      BY <1>1, <1>4, <1>5 DEF Expects
    <2>2. ReadsWord(t, p, q)
      BY <1>6 DEF ReadsWord
    <2> QED BY <1>1, <1>5, <2>1, <2>2, WordKeeps
  <1>8. ASSUME q \in DOMAIN t, t[q] \notin Special PROVE ~Readable(t)
    <2>1. PICK e \in p + 1 .. End : EndsWord(t, p, e)
      BY <1>1, WordHasEnd, TextIs
    <2>2. e # q
      BY <1>4, <1>5, <1>8, <2>1 DEF EndsWord, IsText
    <2>3. ASSUME NEW n \in DOMAIN registers, Spells(t, n, p), e = p + Len(registers[n].name),
                 \A m \in 1 .. n - 1 : ~Spells(t, m, p)
          PROVE  FALSE
      <3>1. r <= n
        BY <1>2, <2>3
      <3>2. n # r
        BY <1>5, <2>2, <2>3
      <3>3. n \in 1 .. 18 /\ r \in 1 .. 18
        BY <1>2 DEF registers
      <3>4. r \in 1 .. n - 1
        <4>1. \A a, b \in 1 .. 18 : a <= b /\ b # a => a \in 1 .. b - 1
          OBVIOUS
        <4> QED BY <3>1, <3>2, <3>3, <4>1
      <3> QED BY <1>5, <2>3, <3>4
    <2>4. ~ReadsName(t, p, e)
      BY <2>3 DEF ReadsName
    <2>5. ~ReadsNumeral(t, p, e)
      <3>1. p \in p .. e - 1
        BY <1>4
      <3>2. t[p] # "0"
        BY <1>5, DigitsArePlain
      <3> QED BY <1>5, <3>1, <3>2 DEF ReadsNumeral
    <2>6. ~ReadsWord(t, p, e)
      BY <2>4, <2>5 DEF ReadsWord
    <2>7. e \in p + 1 .. Len(t) + 1 /\ p \in DOMAIN t
      BY <1>1, <1>4, <2>1
    <2> QED BY <1>1, <1>7, <2>1, <2>6, <2>7, NotAWord
  <1>9. Passed(t, p, q)
    BY <1>7, <1>8 DEF Passed, Done
  <1> QED BY <1>1, <1>3, <1>9

\* Where neither is read there is no operand.
LEMMA NoOperand ==
  ASSUME TypeOK, arg <= Len(argv), NEW p \in Positions, OperandBegins(Text, p),
         Char(p) \notin Blanks \cup {"(", "["}, Num(p) = 0, RegisterAt(p) = 0
  PROVE  ~Readable(Text)
  <1>1. PICK t : t = Text /\ IsText(t)
    BY TextIs
  <1>2. /\ p \in Nat \ {0} /\ Len(t) \in Nat /\ End = Len(t) + 1 /\ p \in Positions
        /\ p # End => p \in DOMAIN t /\ Char(p) = t[p]
    BY <1>1, TextIs DEF IsText
  <1>3. CASE p = End
    <2>1. ~OperandEnds(t, p)
      BY <1>1, OperandsApart
    <2>2. ~BracketEnds(t, p)
      BY <1>1, <1>2, BracketsApart
    <2> QED BY <1>1, <1>2, <1>3, <2>1, <2>2 DEF Readable, Composed
  <1>4. CASE p # End /\ t[p] \in AllOps \cup {")", "]"}
    <2>1. ~OperandEnds(t, p)
      BY <1>1, OperandsApart
    <2>2. ~FitsAt(t, p)
      BY <1>4, <2>1 DEF FitsAt
    <2> QED BY <1>1, <1>2, <1>4, <2>2, NotFitting
  <1>5. CASE p # End /\ t[p] \notin Special
    <2>0. p \in DOMAIN t
      BY <1>2, <1>5
    <2>1. StartsWord(t, p)
      BY <1>1, <1>5, <2>0, StartsThere
    <2>2. PICK e \in p + 1 .. End : EndsWord(t, p, e)
      BY <1>1, <1>5, <2>0, WordHasEnd, TextIs
    <2>3. ~ReadsName(t, p, e)
      BY <1>1, RegisterIs DEF ReadsName
    <2>4. ASSUME e # Len(t) + 1 PROVE ~ReadsNumeral(t, p, e)
      <3>1. PICK d, b, q : d = Prefix(p).digits /\ b = Prefix(p).base /\ q = After(d, Digits[b])
        OBVIOUS
      <3>2. /\ d \in Positions /\ b \in {2, 8, 10, 16} /\ p <= d /\ q \in d .. End
            /\ Char(q) \notin Digits[b]
            /\ \A k \in d .. q - 1 : k \in DOMAIN t /\ t[k] \in Digits[b]
            /\ Num(p) = IF Char(q) = "NUL" THEN 0 ELSE Skip(q) - p
        BY <1>1, <1>5, <2>0, <3>1, NumIs
      <3>3. /\ d \in p .. e
            /\ b # 10 => d > p
            /\ b = 10 => d = p
            /\ ReadsNumeral(t, p, e) <=> \A k \in d .. e - 1 : t[k] \in Digits[b]
        BY <1>1, <2>0, <2>2, <3>1, NumeralIs
      <3>4. /\ d \in Nat /\ q \in Nat /\ e \in Nat
            /\ d <= q /\ q <= Len(t) + 1 /\ d <= e /\ p < e /\ e <= Len(t)
        <4>1. e \in p + 1 .. Len(t) + 1
          BY <1>2, <2>2
        <4>2. e \in Nat /\ p < e /\ e <= Len(t)
          BY <1>2, <2>4, <4>1
        <4>3. d \in p .. e /\ q \in d .. Len(t) + 1
          BY <1>2, <3>2, <3>3
        <4> QED BY <1>2, <4>2, <4>3
      <3>5. q <= e
        <4> SUFFICES ASSUME e < q PROVE FALSE
          BY <3>4
        <4>1. e \in d .. q - 1
          BY <3>4
        <4>2. t[e] \notin Special
          BY <3>2, <4>1, DigitsArePlain
        <4> QED BY <2>2, <2>4, <4>2 DEF EndsWord
      <3>6. q \in DOMAIN t /\ q \in Positions /\ Char(q) # "NUL" /\ Char(q) = t[q]
        <4>1. q \in DOMAIN t
          BY <1>1, <1>2, <3>2, <3>4, <3>5 DEF IsText
        <4> QED BY <1>1, <4>1, TextIs
      <3>7. Skip(q) - p = 0 /\ Skip(q) \in q .. End
        BY <3>2, <3>6, SkipIs
      <3>8. q = p
        BY <1>2, <3>2, <3>4, <3>7
      <3>9. b = 10 /\ d = p
        BY <1>2, <3>2, <3>3, <3>4, <3>8
      <3>10. p \in d .. e - 1 /\ t[p] \notin Digits[b]
        BY <1>2, <3>2, <3>4, <3>6, <3>8, <3>9
      <3> QED BY <3>3, <3>10
    <2>5. ~ReadsWord(t, p, e)
      BY <2>3, <2>4 DEF ReadsWord
    <2>6. e \in p + 1 .. Len(t) + 1
      BY <1>2, <2>2
    <2> QED BY <1>1, <2>0, <2>1, <2>2, <2>5, <2>6, NotAWord
  <1>6. p = End \/ t[p] \in AllOps \cup {")", "]"} \/ t[p] \notin Special
    BY <1>2, Characters
  <1> QED BY <1>3, <1>4, <1>5, <1>6

\* What is known of a call of fn at q that has returned n.  Of a binary
\* operator no operator of its level or of one that binds tighter follows.
NoneFollows(fn, p) ==
    \A level \in Levels :
        fn \in Levels /\ Rank[fn] <= Rank[level] => Char(Skip(p)) \notin Ops[level]

Contract(fn, q, n) ==
    /\ fn = "start" => IF n = 0 THEN ~Readable(Text) ELSE q + n = End <=> Readable(Text)
    /\ fn = "indirect" => IF n = 0 THEN Char(Skip(q)) = "[" => ~Readable(Text)
                                   ELSE Shut(Text, q + n)
    /\ fn = "paren" => IF n = 0 THEN Char(Skip(q)) = "(" => ~Readable(Text)
                                ELSE Passed(Text, q, q + n)
    /\ fn \in Levels \cup {"term"} => IF n = 0 THEN ~Readable(Text)
                                      ELSE Passed(Text, q, q + n) /\ NoneFollows(fn, q + n)

\* And of a call that has not.
OnlyBlanks(p) == \A k \in 1 .. p - 1 : Text[k] \in Blanks
Awaits(f) ==
    /\ Expects(Text, f.from) /\ Depth(Text, f.from) >= 0
    /\ Depth(Text, f.at) = Depth(Text, f.from) + IF f.fn = "paren" /\ f.step = "expr" THEN 1 ELSE 0
    /\ Bracketed(Text, f.at) <=> Bracketed(Text, f.from) \/ (f.fn = "indirect" /\ f.step = "expr")
    /\ IF f.fn \in {"start", "indirect"} THEN OnlyBlanks(f.from)
                                         ELSE Char(Skip(f.from)) = "[" => ~Readable(Text)
    /\ f.step = "begin" => f.at = f.from
    /\ f.step \in {"indirect", "left", "paren"} \/ (f.fn = "start" /\ f.step = "expr") =>
          f.at = Skip(f.from)

Described ==
    /\ \A n \in 2 .. Len(stack) : Awaits(stack[n])
    /\ Top.step # "begin" => Contract(Callee(Top), Top.at, consumed)

\* The same of the same text.
LEMMA FormStays ==
  ASSUME UNCHANGED <<argv, arch, arg>>
  PROVE  /\ \A t : Readable(t)' <=> Readable(t)
         /\ \A t, p : Sound(t, p)' <=> Sound(t, p)
         /\ \A p : Skip(p)' = Skip(p) /\ Char(p)' = Char(p)
         /\ Text' = Text /\ End' = End
  <1>1. \A t : Readable(t)' <=> Readable(t)
    BY DEF Readable, Composed, ReadsWord, ReadsName, Spells
  <1>2. \A t, p : Sound(t, p)' <=> Sound(t, p)
    BY DEF Sound, ReadsWord, ReadsName, Spells
  <1>3. \A p : Skip(p)' = Skip(p) /\ Char(p)' = Char(p)
    BY DEF Skip, After, Text, Char, End
  <1> QED BY <1>1, <1>2, <1>3 DEF Text, End

\* So is what is known of a call as long as the text is the same.
LEMMA AwaitsStays ==
  ASSUME UNCHANGED <<argv, arch, arg>>
  PROVE  \A f : Awaits(f)' <=> Awaits(f)
  <1>1. Text' = Text /\ End' = End
    BY FormStays
  <1>2. Readable(Text)' <=> Readable(Text)
    BY FormStays
  <1>3. \A p : Expects(Text, p)' <=> Expects(Text, p)
    BY FormStays DEF Expects
  <1>4. \A p : Skip(p)' = Skip(p) /\ Char(p)' = Char(p)
    BY FormStays
  <1>5. \A p : (Char(Skip(p)) = "[")' <=> Char(Skip(p)) = "["
    BY <1>4
  <1> QED BY <1>1, <1>2, <1>3, <1>4, <1>5 DEF Awaits, OnlyBlanks

\* And of what it has returned.
LEMMA ContractStays ==
  ASSUME UNCHANGED <<argv, arch, arg>>
  PROVE  \A fn, q, n : Contract(fn, q, n)' <=> Contract(fn, q, n)
  <1>1. Text' = Text /\ End' = End
    BY FormStays
  <1>2. Readable(Text)' <=> Readable(Text)
    BY FormStays
  <1>3. \A p : Shut(Text, p)' <=> Shut(Text, p)
    BY FormStays DEF Shut
  <1>4. \A q, p : Passed(Text, q, p)' <=> Passed(Text, q, p)
    BY FormStays DEF Passed, Done, Same
  <1>5. \A p : Skip(p)' = Skip(p) /\ Char(p)' = Char(p)
    BY FormStays
  <1>6. \A p : (Char(Skip(p)))' = Char(Skip(p))
    BY <1>5
  <1>7. \A fn, p : NoneFollows(fn, p)' <=> NoneFollows(fn, p)
    BY <1>6 DEF NoneFollows
  <1> QED BY <1>1, <1>2, <1>3, <1>4, <1>6, <1>7 DEF Contract

\* A call adds what is known of the two.
LEMMA CallDescribes ==
  ASSUME Inv, Described, arg <= Len(argv), UNCHANGED <<argv, arch, arg>>,
         NEW fn \in Functions \ {"args"}, NEW p \in Positions, NEW step \in Steps,
         Call(fn, p, step), Awaits(Called(fn, p)),
         Top.fn # "args" => Awaits([fn |-> Top.fn, from |-> Top.from, at |-> p, step |-> step])
  PROVE  Described'
  <1> DEFINE caller == [fn |-> Top.fn, from |-> Top.from, at |-> p, step |-> step]
             L == Len(stack)
  <1>1. p \in Nat /\ Called(fn, p) \in AnyFrame
    BY TextFacts DEF Inv, Positions, Called, AnyFrame, Steps
  <1>2. /\ Moved(p, step) \in Seq(AnyFrame) /\ Len(Moved(p, step)) = L /\ L \in Nat \ {0}
        /\ \A n \in 1 .. L - 1 : Moved(p, step)[n] = stack[n]
        /\ Moved(p, step)[L] = caller
    BY <1>1, MovedStack DEF Inv
  <1>3. /\ stack' \in Seq(AnyFrame) /\ Len(stack') = L + 1
        /\ \A n \in 1 .. L - 1 : stack'[n] = stack[n]
        /\ stack'[L] = caller
        /\ stack'[L + 1] = Called(fn, p)
    BY <1>1, <1>2, PushedStack DEF Call
  <1>4. L > 1 => Top.fn # "args"
    BY <1>2 DEF Inv, Linked, Top
  <1>5. ASSUME NEW n \in 2 .. L + 1 PROVE Awaits(stack'[n])
    <2>1. CASE n < L
      <3>1. n \in 2 .. L /\ n \in 1 .. L - 1
        BY <1>2, <2>1
      <3> QED BY <1>3, <3>1 DEF Described
    <2>2. CASE n = L
      BY <1>2, <1>3, <1>4, <2>2
    <2>3. CASE n = L + 1
      BY <1>3, <2>3
    <2> QED BY <1>2, <2>1, <2>2, <2>3
  <1>7. Top'.step = "begin"
    BY <1>2, <1>3 DEF Top, Called
  <1> HIDE DEF L
  <1>8. (\A n \in 2 .. Len(stack) : Awaits(stack[n]))'
    BY <1>3, <1>5, AwaitsStays
  <1> QED BY <1>7, <1>8 DEF Described

\* What a function returns is what its caller is told.
LEMMA ReturnDescribes ==
  ASSUME Inv, Described, arg <= Len(argv), UNCHANGED <<argv, arch, arg>>, Top.fn # "args",
         NEW n \in Nat, Return(n), Contract(Top.fn, Top.from, n)
  PROVE  Described'
  <1> DEFINE L == Len(stack)
  <1>1. L \in Nat /\ L > 1
    BY TopFacts DEF Inv, TypeOK
  <1>2. /\ stack' \in Seq(AnyFrame) /\ Len(stack') = L - 1
        /\ \A k \in 1 .. L - 1 : stack'[k] = stack[k]
    BY <1>1, PoppedStack DEF Inv, TypeOK, Return
  <1>3. \A k \in 2 .. L - 1 : Awaits(stack'[k])
    BY <1>1, <1>2 DEF Described
  <1>4. Top' = stack[L - 1] /\ L \in 2 .. Len(stack)
    BY <1>1, <1>2 DEF Top
  <1>5. Top.fn = Callee(Top') /\ Top.from = Top'.at
    BY <1>4 DEF Inv, Linked, Top
  <1>6. consumed' = n
    BY DEF Return
  <1>7. Contract(Callee(Top'), Top'.at, consumed')
    BY <1>5, <1>6
  <1>8. Contract(Callee(Top), Top.at, consumed)'
    <2>1. Callee(Top') = (Callee(Top))'
      BY DEF Callee
    <2> QED BY <1>7, <2>1, ContractStays
  <1> HIDE DEF L
  <1>9. (\A k \in 2 .. Len(stack) : Awaits(stack[k]))'
    BY <1>2, <1>3, AwaitsStays
  <1> QED BY <1>8, <1>9 DEF Described

\* The bracket comes first.
LEMMA BracketFirst ==
  ASSUME TypeOK, arg <= Len(argv), NEW p \in Positions, Char(p) = "[",
         NEW m \in 1 .. p - 1, Text[m] \notin Blanks
  PROVE  ~Readable(Text)
  <1>1. p # End
    BY TextIs
  <1>2. p \in DOMAIN Text /\ Text[p] = "[" /\ IsText(Text)
    BY <1>1, TextIs
  <1>3. ~FitsAt(Text, p)
    BY <1>2 DEF FitsAt
  <1> QED BY <1>2, <1>3, NotFitting

\* Behind blanks only, nothing is open.
LEMMA BlankStart ==
  ASSUME TypeOK, arg <= Len(argv), NEW p \in Positions, OnlyBlanks(p)
  PROVE  Depth(Text, p) = 0 /\ ~Bracketed(Text, p)
  <1>1. p \in Nat \ {0}
    BY TextIs
  <1>2. \A k \in 1 .. p - 1 : Text[k] # "(" /\ Text[k] # ")" /\ Text[k] # "["
    BY Characters DEF OnlyBlanks
  <1>3. \A c : Count(Text, 1, c) = 0
    <2>1. \A c : {k \in 1 .. 1 - 1 : Text[k] = c} = {}
      OBVIOUS
    <2> QED BY <2>1, FS_EmptySet DEF Count
  <1>4. Count(Text, p, "(") = Count(Text, 1, "(") /\ Count(Text, p, ")") = Count(Text, 1, ")")
    <2>1. 1 \in Nat \ {0} /\ p \in Nat /\ 1 <= p
      BY <1>1
    <2>2. Count(Text, p, "(") = Count(Text, 1, "(")
      BY <1>2, <2>1, CountRun
    <2>3. Count(Text, p, ")") = Count(Text, 1, ")")
      BY <1>2, <2>1, CountRun
    <2> QED BY <2>2, <2>3
  <1> QED BY <1>2, <1>3, <1>4 DEF Depth, Bracketed

\* Nothing but an operator or a closing bracket follows an operand.
LEMMA AfterOperand ==
  ASSUME TypeOK, arg <= Len(argv), NEW p \in Positions, Char(p) \notin Blanks \cup AllOps,
         Done(Text, p), p # End,
         Char(p) = ")" => ~(Depth(Text, p) > 0),
         Char(p) = "]" => Depth(Text, p) # 0 \/ ~Bracketed(Text, p)
  PROVE  ~Readable(Text)
  <1>1. p \in DOMAIN Text /\ Char(p) = Text[p] /\ IsText(Text)
    BY TextIs
  <1>2. CASE Text[p] \notin Special
    BY <1>1, <1>2 DEF Done
  <1>3. CASE Text[p] = "("
    <2>1. ~OperandBegins(Text, p)
      BY OperandsApart DEF Done
    <2> QED BY <1>1, <1>3, <2>1, NoOperator
  <1>4. CASE Text[p] = "["
    <2>1. PICK m \in 1 .. p - 1 : Text[m] \notin Blanks
      BY DEF Done, OperandEnds, Beside
    <2> QED BY <1>1, <1>4, <2>1, BracketFirst
  <1>5. CASE Text[p] \in {")", "]"}
    <2>1. ~FitsAt(Text, p)
      BY <1>1, <1>5 DEF FitsAt
    <2> QED BY <1>1, <2>1, NotFitting
  <1> QED BY <1>1, <1>2, <1>3, <1>4, <1>5, Characters

\* And nothing a closed bracket.
LEMMA AfterBracket ==
  ASSUME TypeOK, arg <= Len(argv), NEW p \in Positions, Char(p) \notin Blanks,
         Shut(Text, p), p # End
  PROVE  ~Readable(Text)
  <1>1. p \in DOMAIN Text /\ Char(p) = Text[p] /\ IsText(Text) /\ p \in Nat \ {0}
    BY TextIs
  <1>2. ~OperandBegins(Text, p) /\ ~OperandEnds(Text, p)
    BY <1>1, BracketsApart DEF Shut
  <1>3. PICK m \in 1 .. p - 1 : Beside(Text, m, p) /\ Text[m] = "]"
    BY DEF Shut, BracketEnds
  <1>4. CASE Text[p] \notin Special
    <2>1. Text[p - 1] \in Special
      <3>1. CASE m = p - 1
        BY <1>3, <3>1, Characters
      <3>2. CASE m # p - 1
        <4>1. p - 1 \in m + 1 .. p - 1
          BY <1>1, <3>2
        <4> QED BY <1>3, <4>1, Characters DEF Beside
      <3> QED BY <3>1, <3>2
    <2>2. StartsWord(Text, p)
      BY <1>4, <2>1 DEF StartsWord
    <2> QED BY <1>1, <1>2, <2>2, NoOperator
  <1>5. CASE Text[p] = "("
    BY <1>1, <1>2, <1>5, NoOperator
  <1>6. CASE Text[p] = "["
    BY <1>1, <1>3, <1>6, BracketFirst DEF Beside
  <1>7. CASE Text[p] \in AllOps \cup {")", "]"}
    <2>1. ~FitsAt(Text, p)
      BY <1>2, <1>7 DEF FitsAt
    <2> QED BY <1>1, <2>1, NotFitting
  <1> QED BY <1>1, <1>4, <1>5, <1>6, <1>7, Characters

\* A character that fits, and the place behind it.
LEMMA CharacterPasses ==
  ASSUME TypeOK, arg <= Len(argv), NEW p \in DOMAIN Text, Sound(Text, p), FitsAt(Text, p),
         Text[p] \in Special \ Blanks
  PROVE  /\ p + 1 \in Positions /\ p \in 1 .. (p + 1) - 1
         /\ Text[p] \in AllOps \cup {"(", "["} => Expects(Text, p + 1)
         /\ Text[p] = ")" => Done(Text, p + 1)
         /\ Text[p] = "]" => Sound(Text, p + 1) /\ BracketEnds(Text, p + 1)
         /\ Depth(Text, p) \in Int
         /\ Depth(Text, p + 1) = IF Text[p] = "(" THEN Depth(Text, p) + 1
                                 ELSE IF Text[p] = ")" THEN Depth(Text, p) - 1 ELSE Depth(Text, p)
         /\ Bracketed(Text, p + 1) <=> Bracketed(Text, p) \/ Text[p] = "["
  <1>1. p + 1 \in Positions /\ p \in Nat \ {0} /\ IsText(Text) /\ p \in 1 .. (p + 1) - 1
    BY TextIs
  <1>2. /\ Sound(Text, p + 1)
        /\ Text[p] \in AllOps \cup {"(", "["} => OperandBegins(Text, p + 1)
        /\ Text[p] = ")" => OperandEnds(Text, p + 1)
        /\ Text[p] = "]" => BracketEnds(Text, p + 1)
    BY <1>1, CharacterKeeps
  <1>3. ASSUME Text[p] = ")", p + 1 \in DOMAIN Text, Text[p + 1] \notin Special PROVE ~Readable(Text)
    <2>1. (p + 1) - 1 = p
      BY <1>1
    <2>2. StartsWord(Text, p + 1)
      BY <1>3, <2>1, Characters DEF StartsWord
    <2>3. ~OperandBegins(Text, p + 1)
      BY <1>2, <1>3, OperandsApart
    <2> QED BY <1>1, <1>3, <2>2, <2>3, NoOperator
  <1>4. Bracketed(Text, p + 1) <=> Bracketed(Text, p) \/ Text[p] = "["
    <2>1. \A k \in 1 .. (p + 1) - 1 : k = p \/ k \in 1 .. p - 1
      BY <1>1
    <2>2. \A k \in 1 .. p - 1 : k \in 1 .. (p + 1) - 1
      BY <1>1
    <2> QED BY <1>1, <2>1, <2>2 DEF Bracketed
  <1> QED BY <1>1, <1>2, <1>3, <1>4, DepthType DEF Expects, Done

\* Only words are read as one.
LEMMA OnlyWords ==
  ASSUME TypeOK, arg <= Len(argv), NEW p \in Positions, Char(p) \notin Blanks,
         Num(p) # 0 \/ RegisterAt(p) # 0
  PROVE  p \in DOMAIN Text /\ Text[p] \notin Special
  <1>1. CASE RegisterAt(p) # 0
    <2>1. PICK r \in DOMAIN registers : NameAt(r, p) /\ r \in DOMAIN registers
      BY <1>1, RegisterIs
    <2>2. \E e : /\ e \in p + 1 .. End
                 /\ \A k \in p .. e - 1 : k \in DOMAIN Text /\ Text[k] \notin Special
      BY <2>1, NameIsSpelled
    <2> QED BY <2>2, TextIs
  <1>2. CASE Num(p) # 0
    <2> SUFFICES ASSUME Char(p) \in Special \/ Char(p) = "NUL" PROVE FALSE
      BY TextIs
    <2>1. Char(p) # "0"
      BY DigitsArePlain
    <2>2. Skip(p) = p
      BY SkipIs
    <2>3. Prefix(p) = [base |-> 10, digits |-> p]
      BY <2>1 DEF Prefix
    <2>4. Char(p) \notin Digits[10] /\ "NUL" \notin Digits[10]
      BY DigitsArePlain
    <2>5. PICK q : q = After(p, Digits[10])
      OBVIOUS
    <2>6. /\ q \in p .. End /\ q \in Positions
          /\ \A k \in p .. q - 1 : k \in DOMAIN Text /\ Text[k] \in Digits[10]
      BY <2>4, <2>5, AfterIs
    <2>7. q = p
      <3> SUFFICES ASSUME q # p PROVE FALSE
        OBVIOUS
      <3>1. p \in p .. q - 1
        BY <2>6, TextIs
      <3> QED BY <2>4, <2>6, <3>1, TextIs
    <2>8. Num(p) = 0
      <3>1. Prefix(Skip(p)).digits = p /\ Prefix(Skip(p)).base = 10
        BY <2>2, <2>3
      <3>2. After(Prefix(Skip(p)).digits, Digits[Prefix(Skip(p)).base]) = p
        BY <2>5, <2>7, <3>1
      <3>3. Num(p) = IF Char(p) = "NUL" THEN 0 ELSE Skip(p) - p
        BY <3>2 DEF Num
      <3> QED BY <2>2, <3>3, TextIs
    <2> QED BY <1>2, <2>8
  <1> QED BY <1>1, <1>2

\* The function on top and its places.
LEMMA TopIs ==
  ASSUME Inv, Described, arg <= Len(argv), Top.fn # "args"
  PROVE  /\ Awaits(Top) /\ Top.from \in Positions /\ Top.at \in Positions
         /\ Top.from \in Nat \ {0} /\ Top.at \in Nat \ {0} /\ Top.from <= Top.at
         /\ consumed \in Nat /\ Reached = Top.at + consumed
         /\ Top.step # "begin" => Reached \in Positions /\ Contract(Callee(Top), Top.at, consumed)
         /\ Depth(Text, Top.from) \in Int /\ Depth(Text, Top.at) \in Int
         /\ Depth(Text, Top.from) >= 0
  <1>1. /\ Top.from \in Positions /\ Top.at \in Positions /\ Top.from <= Top.at
        /\ Top.step # "begin" => Reached \in Positions
        /\ consumed \in Nat
    BY TopFacts, ArgFacts DEF Frames, Inv, TypeOK
  <1>2. Top.from \in Nat \ {0} /\ Top.at \in Nat \ {0}
    BY <1>1, TextIs DEF Inv
  <1>3. Awaits(Top)
    <2>1. Len(stack) \in 2 .. Len(stack)
      BY TopFacts, ArgFacts DEF Inv
    <2> QED BY <2>1 DEF Described, Top
  <1> QED BY <1>1, <1>2, <1>3, DepthType DEF Described, Reached, Awaits

\* A call of a function that reads an operand.
LEMMA CalledAwaits ==
  ASSUME NEW p \in Nat \ {0}, NEW fn \in Levels \cup {"paren", "term"},
         Expects(Text, p), Depth(Text, p) >= 0,
         Char(Skip(p)) = "[" => ~Readable(Text)
  PROVE  Awaits(Called(fn, p))
  <1>1. Depth(Text, p) \in Int
    BY DepthType
  <1> QED BY <1>1 DEF Awaits, Called, Levels

\* Blanks behind the place where the function on top was called.
LEMMA SkipAt ==
  ASSUME Inv, Described, arg <= Len(argv), Top.fn # "args",
         Top.step = "begin" \/ Top.at = Skip(Top.from),
         Top.fn # "paren" \/ Top.step # "expr", Top.fn # "indirect" \/ Top.step # "expr",
         NEW p, p = Skip(Top.at)
  PROVE  /\ p = Skip(Top.from) /\ Skip(p) = p /\ p \in Positions /\ p \in Nat \ {0}
         /\ Top.from <= p /\ Top.at <= p /\ Char(p) \notin Blanks
         /\ Expects(Text, p) /\ Same(Text, Top.from, p) /\ Depth(Text, p) >= 0
         /\ IF Top.fn \in {"start", "indirect"} THEN OnlyBlanks(p)
                                                ELSE Char(p) = "[" => ~Readable(Text)
  <1>1. PICK q : q = Top.from
    OBVIOUS
  <1>2. /\ Awaits(Top) /\ q \in Positions /\ q \in Nat \ {0}
        /\ Depth(Text, q) >= 0 /\ Expects(Text, q)
        /\ Top.at \in Positions
    BY <1>1, TopIs DEF Awaits
  <1>3. p = Skip(q)
    <2>1. Top.at = q \/ Top.at = Skip(q)
      BY <1>1, <1>2 DEF Awaits
    <2> QED BY <1>2, <2>1, SkipIs DEF Inv
  <1>4. /\ p \in q .. End /\ p \in Positions /\ Char(p) \notin Blanks /\ Skip(p) = p
        /\ \A k \in q .. p - 1 : Text[k] \in Blanks
    BY <1>2, <1>3, SkipIs DEF Inv
  <1>5. Same(Text, q, p) /\ Expects(Text, p)
    BY <1>2, <1>3, SkipKeeps DEF Inv
  <1>6. p \in Nat \ {0}
    BY <1>4, TextIs DEF Inv
  <1>7. ASSUME Top.fn \in {"start", "indirect"} PROVE OnlyBlanks(p)
    <2>1. OnlyBlanks(q)
      BY <1>1, <1>2, <1>7 DEF Awaits
    <2>2. \A k \in 1 .. p - 1 : k \in 1 .. q - 1 \/ k \in q .. p - 1
      BY <1>2, <1>6
    <2> QED BY <1>4, <2>1, <2>2 DEF OnlyBlanks
  <1>8. Top.at <= p
    <2>1. Skip(Top.at) \in Top.at .. End
      BY <1>2, SkipIs DEF Inv
    <2> QED BY <2>1, <1>2, TextIs DEF Inv
  <1>9. Top.fn \notin {"start", "indirect"} => (Char(p) = "[" => ~Readable(Text))
    BY <1>1, <1>2, <1>3 DEF Awaits
  <1>10. Depth(Text, p) >= 0
    BY <1>2, <1>5 DEF Same
  <1> QED BY <1>1, <1>2, <1>3, <1>4, <1>5, <1>6, <1>7, <1>8, <1>9, <1>10

-----------------------------------------------------------------------------
\* No operator follows an operand of evaluate_bitor.
LEMMA NoOpsFollow ==
  ASSUME NEW p, NoneFollows("bitor", p)
  PROVE  Char(Skip(p)) \notin AllOps
  <1>1. ASSUME NEW level \in Levels PROVE Char(Skip(p)) \notin Ops[level]
    <2>1. Rank["bitor"] <= Rank[level] /\ "bitor" \in Levels
      BY DEF Rank, Levels
    <2> QED BY <2>1 DEF NoneFollows
  <1> QED BY <1>1, OpsAre

\* evaluate_start.
LEMMA StartDescribes ==
  ASSUME Inv, Described, body = "bitor", arg <= Len(argv), UNCHANGED <<argv, arch, arg>>,
         TryIndirect \/ TryExpr \/ EndStart
  PROVE  Described'
  <1>0. /\ Top.fn = "start" /\ Top.fn # "args"
        /\ Top.step \in {"begin", "indirect", "expr"}
    BY DEF TryIndirect, TryExpr, EndStart, At
  <1>1. /\ Awaits(Top) /\ Top.from \in Positions /\ Top.at \in Positions
        /\ Top.from \in Nat \ {0} /\ Top.at \in Nat \ {0} /\ Top.from <= Top.at
        /\ consumed \in Nat /\ Reached = Top.at + consumed
        /\ Top.step # "begin" => Reached \in Positions /\ Contract(Callee(Top), Top.at, consumed)
    BY <1>0, TopIs
  <1>2. Top.step = "begin" \/ Top.at = Skip(Top.from)
    BY <1>0, <1>1 DEF Awaits
  <1>3. PICK p : p = Skip(Top.at)
    OBVIOUS
  <1>4. /\ p = Skip(Top.from) /\ Skip(p) = p /\ p \in Positions /\ p \in Nat \ {0}
        /\ Top.from <= p /\ Top.at <= p /\ Char(p) \notin Blanks
        /\ Expects(Text, p) /\ Same(Text, Top.from, p) /\ Depth(Text, p) >= 0
        /\ OnlyBlanks(p)
    BY <1>0, <1>2, <1>3, SkipAt
  <1>5. ASSUME NEW step \in {"indirect", "expr"}
        PROVE  Awaits([fn |-> Top.fn, from |-> Top.from, at |-> p, step |-> step])
    BY <1>0, <1>1, <1>4 DEF Awaits, Same
  <1>6. Depth(Text, Top.from) = 0 /\ ~Bracketed(Text, Top.from)
    BY <1>0, <1>1, BlankStart DEF Awaits, Inv
  <1>7. CASE TryIndirect
    <2>1. Awaits(Called("indirect", p))
      BY <1>4, DepthType DEF Awaits, Called
    <2>2. "indirect" \in Functions \ {"args"} /\ "indirect" \in Steps
      BY DEF Functions, Levels, Steps
    <2>3. Call("indirect", p, "indirect")
      BY <1>3, <1>7 DEF TryIndirect
    <2> QED BY <1>4, <1>5, <2>1, <2>2, <2>3, CallDescribes
  <1>8. CASE TryExpr
    <2>1. Top.step = "indirect" /\ consumed = 0
      BY <1>8 DEF TryExpr, At
    <2>2. Top.at = p
      BY <1>2, <1>4, <2>1
    <2>3. Char(p) = "[" => ~Readable(Text)
      <3>1. Contract("indirect", p, 0)
        BY <1>1, <2>1, <2>2 DEF Callee
      <3> QED BY <1>4, <3>1 DEF Contract
    <2>4. Awaits(Called("bitor", p))
      BY <1>4, <2>3, CalledAwaits DEF Levels
    <2>5. "bitor" \in Functions \ {"args"} /\ "expr" \in Steps
      BY DEF Functions, Levels, Steps
    <2>6. Call("bitor", p, "expr")
      BY <1>8, <2>2 DEF TryExpr, CallExpr
    <2> QED BY <1>4, <1>5, <2>4, <2>5, <2>6, CallDescribes
  <1>9. CASE EndStart
    <2>1. Top.step \in {"expr", "indirect"} /\ (Top.step = "indirect" => consumed # 0)
          /\ Top.at = p
      <3>1. Top.step \in {"expr", "indirect"} /\ (Top.step = "indirect" => consumed # 0)
        BY <1>9 DEF EndStart, At
      <3> QED BY <1>2, <1>4, <3>1
    <2>2. CASE consumed = 0
      <3>1. Contract("bitor", p, 0)
        BY <1>1, <2>1, <2>2 DEF Callee
      <3>2. ~Readable(Text)
        BY <3>1 DEF Contract, Levels
      <3>3. Contract(Top.fn, Top.from, 0)
        BY <1>0, <3>2 DEF Contract, Levels
      <3>4. Return(0) /\ 0 \in Nat
        BY <1>9, <2>2 DEF EndStart, Mismatch
      <3> QED BY <1>0, <3>3, <3>4, ReturnDescribes
    <2>3. CASE consumed # 0
      <3>1. PICK r, s : r = Reached /\ s = Skip(r)
        OBVIOUS
      <3>2. /\ r \in Positions /\ r \in Nat /\ r > p /\ r = p + consumed
            /\ s \in r .. End /\ s \in Positions /\ s \in Nat /\ s > Top.from
            /\ Char(s) \notin Blanks /\ Skip(s) = s
        <4>1. r \in Positions /\ r = p + consumed
          BY <1>1, <2>1, <3>1
        <4>2. r \in Nat /\ r > p
          BY <1>1, <1>4, <2>3, <4>1
        <4>3. s \in r .. End /\ s \in Positions /\ Char(s) \notin Blanks /\ Skip(s) = s
          BY <3>1, <4>1, SkipIs DEF Inv
        <4>4. s \in Nat /\ s > Top.from
          BY <1>1, <1>4, <4>2, <4>3
        <4> QED BY <4>1, <4>2, <4>3, <4>4
      <3>3. IsText(Text) /\ Len(Text) \in Nat /\ End = Len(Text) + 1
            /\ DOMAIN Text = 1 .. End - 1
        BY TextIs DEF Inv, IsText
      <3>4. ASSUME Top.step = "expr" PROVE s = End <=> Readable(Text)
        <4>1. Contract("bitor", p, consumed)
          BY <1>1, <2>1, <3>4 DEF Callee
        <4>2. Passed(Text, p, r) /\ NoneFollows("bitor", r)
          BY <2>3, <3>2, <4>1 DEF Contract, Levels
        <4>3. Passed(Text, p, s)
          BY <3>1, <3>2, <4>2, SkipKeeps DEF Inv
        <4>4. Depth(Text, s) = 0 /\ ~Bracketed(Text, s) /\ Done(Text, s)
          BY <1>4, <1>6, <4>3 DEF Passed, Same
        <4>5. ASSUME s = End PROVE Readable(Text)
          <5>1. Sound(Text, End) /\ OperandEnds(Text, End)
            BY <4>4, <4>5 DEF Done
          <5> QED BY <3>3, <4>4, <4>5, <5>1 DEF Readable, Composed, Sound
        <4>6. ASSUME s # End PROVE ~Readable(Text)
          <5>1. Char(s) \notin AllOps
            BY <3>1, <4>2, NoOpsFollow
          <5> QED BY <3>2, <4>4, <4>6, <5>1, AfterOperand DEF Inv
        <4> QED BY <4>5, <4>6
      <3>5. ASSUME Top.step = "indirect" PROVE s = End <=> Readable(Text)
        <4>1. Contract("indirect", p, consumed)
          BY <1>1, <2>1, <3>5 DEF Callee
        <4>2. Shut(Text, r)
          BY <2>3, <3>2, <4>1 DEF Contract
        <4>3. Shut(Text, s)
          BY <3>1, <3>2, <4>2, SkipKeeps DEF Inv
        <4>4. ASSUME s = End PROVE Readable(Text)
          BY <3>3, <4>3, <4>4 DEF Readable, Composed, Sound, Shut
        <4>5. ASSUME s # End PROVE ~Readable(Text)
          BY <3>2, <4>3, <4>5, AfterBracket DEF Inv
        <4> QED BY <4>4, <4>5
      <3>6. s = End <=> Readable(Text)
        BY <2>1, <3>4, <3>5
      <3>7. PICK n \in Nat : n = s - Top.from /\ n # 0 /\ Top.from + n = s
        BY <1>1, <3>2
      <3>8. Contract(Top.fn, Top.from, n)
        BY <1>0, <3>6, <3>7 DEF Contract, Levels
      <3>9. Return(n)
        BY <1>9, <2>3, <3>1, <3>7 DEF EndStart, ReturnAt
      <3> QED BY <1>0, <3>7, <3>8, <3>9, ReturnDescribes
    <2> QED BY <2>2, <2>3
  <1> QED BY <1>7, <1>8, <1>9

\* A closing bracket was looked for behind an operand.
LEMMA NotClosed ==
  ASSUME Inv, arg <= Len(argv), NEW p \in Positions, Char(p) \notin Blanks \cup AllOps,
         Done(Text, p),
         \/ Depth(Text, p) > 0 /\ Char(p) # ")"
         \/ Depth(Text, p) = 0 /\ Bracketed(Text, p) /\ Char(p) # "]"
  PROVE  ~Readable(Text)
  <1>1. IsText(Text) /\ End = Len(Text) + 1 /\ p \in Nat \ {0}
    BY TextIs DEF Inv
  <1>2. Depth(Text, p) \in Int
    BY <1>1, DepthType
  <1>3. CASE p = End
    <2>1. ~BracketEnds(Text, p)
      BY <1>1, BracketsApart DEF Done
    <2> QED BY <1>1, <1>2, <1>3, <2>1 DEF Readable, Composed
  <1>4. CASE p # End
    BY <1>2, <1>4, AfterOperand DEF Inv
  <1> QED BY <1>3, <1>4

\* The opening bracket.
LEMMA OpenDescribes ==
  ASSUME Inv, Described, body = "bitor", arg <= Len(argv), UNCHANGED <<argv, arch, arg>>,
         OpenBracket
  PROVE  Described'
  <1>0. Top.fn \in {"indirect", "paren"} /\ Top.fn # "args" /\ Top.step = "begin"
    BY DEF OpenBracket, At
  <1>1. PICK p : p = Skip(Top.at)
    OBVIOUS
  <1>2. /\ p = Skip(Top.from) /\ Skip(p) = p /\ p \in Positions /\ p \in Nat \ {0}
        /\ Top.from <= p /\ Top.at <= p /\ Char(p) \notin Blanks
        /\ Expects(Text, p) /\ Same(Text, Top.from, p) /\ Depth(Text, p) >= 0
        /\ Top.fn = "indirect" => OnlyBlanks(p)
        /\ Top.fn = "paren" => (Char(p) = "[" => ~Readable(Text))
    BY <1>0, <1>1, SkipAt
  <1>3. /\ Awaits(Top) /\ Top.from \in Positions
        /\ Depth(Text, Top.from) \in Int /\ Depth(Text, Top.from) >= 0
    BY <1>0, TopIs
  <1>4. CASE Char(p) # Opening[Top.fn]
    <2>1. Contract(Top.fn, Top.from, 0)
      BY <1>0, <1>2, <1>4 DEF Contract, Opening, Levels
    <2>2. Return(0) /\ 0 \in Nat
      BY <1>1, <1>4 DEF OpenBracket, Mismatch
    <2> QED BY <1>0, <2>1, <2>2, ReturnDescribes
  <1>5. CASE Char(p) = Opening[Top.fn]
    <2>1. p # End
      BY <1>0, <1>2, <1>5, TextIs DEF Inv, Opening
    <2>2. p \in DOMAIN Text /\ Text[p] = Opening[Top.fn]
      BY <1>2, <1>5, <2>1, TextIs DEF Inv
    <2>3. /\ Top.fn = "indirect" => Text[p] = "["
          /\ Top.fn = "paren" => Text[p] = "("
      BY <2>2 DEF Opening
    <2>4. Text[p] \in {"(", "["} /\ Text[p] \in Special \ Blanks
      BY <1>0, <2>3, Characters
    <2>5. FitsAt(Text, p)
      <3>1. Text[p] = "[" => OnlyBlanks(p)
        BY <1>0, <1>2, <2>3
      <3>2. Text[p] \notin AllOps \cup {")", "]"} /\ ~StartsWord(Text, p)
        BY <2>4, Characters DEF StartsWord
      <3> QED BY <1>2, <3>1, <3>2 DEF FitsAt, OnlyBlanks, Expects
    <2>6. /\ p + 1 \in Positions /\ p \in 1 .. (p + 1) - 1
          /\ Expects(Text, p + 1)
          /\ Depth(Text, p) \in Int
          /\ Depth(Text, p + 1) = IF Text[p] = "(" THEN Depth(Text, p) + 1 ELSE Depth(Text, p)
          /\ Bracketed(Text, p + 1) <=> Bracketed(Text, p) \/ Text[p] = "["
      BY <1>2, <2>2, <2>4, <2>5, CharacterPasses DEF Inv, Expects
    <2>7. PICK s : s = Skip(p + 1)
      OBVIOUS
    <2>8. s \in Positions /\ s \in Nat \ {0} /\ s > p /\ Skip(s) = s
      BY <1>2, <2>6, <2>7, SkipIs, TextIs DEF Inv
    <2>9. Expects(Text, s) /\ Same(Text, p + 1, s)
      BY <2>6, <2>7, SkipKeeps DEF Inv
    <2>10. Depth(Text, s) >= 0
      BY <1>2, <2>6, <2>9 DEF Same
    <2>11. Char(s) = "[" => ~Readable(Text)
      <3>1. p \in 1 .. s - 1
        BY <1>2, <2>8
      <3> QED BY <2>4, <2>8, <3>1, BracketFirst DEF Inv
    <2>12. Awaits(Called("bitor", s))
      BY <2>8, <2>9, <2>10, <2>11, CalledAwaits DEF Levels
    <2>13. Awaits([fn |-> Top.fn, from |-> Top.from, at |-> s, step |-> "expr"])
      <3>1. Depth(Text, s) = Depth(Text, Top.from) + IF Top.fn = "paren" THEN 1 ELSE 0
        BY <1>0, <1>2, <1>3, <2>3, <2>6, <2>9 DEF Same
      <3>2. Bracketed(Text, s) <=> Bracketed(Text, Top.from) \/ Top.fn = "indirect"
        BY <1>0, <1>2, <2>3, <2>6, <2>9 DEF Same
      <3> QED BY <1>0, <1>3, <3>1, <3>2 DEF Awaits
    <2>14. "bitor" \in Functions \ {"args"} /\ "expr" \in Steps
      BY DEF Functions, Levels, Steps
    <2>15. Call("bitor", s, "expr")
      BY <1>1, <1>5, <2>7 DEF OpenBracket, CallExpr
    <2> QED BY <2>8, <2>12, <2>13, <2>14, <2>15, CallDescribes
  <1> QED BY <1>4, <1>5

\* The closing bracket.
LEMMA CloseDescribes ==
  ASSUME Inv, Described, body = "bitor", arg <= Len(argv), UNCHANGED <<argv, arch, arg>>,
         CloseBracket
  PROVE  Described'
  <1>0. Top.fn \in {"indirect", "paren"} /\ Top.fn # "args" /\ Top.step = "expr"
    BY DEF CloseBracket, At
  <1>1. PICK q : q = Top.at
    OBVIOUS
  <1>2. PICK r : r = Reached
    OBVIOUS
  <1>3. PICK p : p = Skip(r)
    OBVIOUS
  <1>4. /\ Awaits(Top) /\ Top.from \in Positions /\ q \in Positions
        /\ Top.from \in Nat \ {0} /\ q \in Nat \ {0} /\ Top.from <= q
        /\ consumed \in Nat /\ r = q + consumed /\ r \in Positions
        /\ Contract("bitor", q, consumed)
        /\ Depth(Text, Top.from) \in Int /\ Depth(Text, q) \in Int /\ Depth(Text, Top.from) >= 0
    <2>1. Callee(Top) = "bitor"
      BY <1>0 DEF Callee
    <2> QED BY <1>0, <1>1, <1>2, <2>1, TopIs
  <1>5. ASSUME ~Readable(Text), Mismatch PROVE Described'
    <2>1. Contract(Top.fn, Top.from, 0)
      BY <1>0, <1>5 DEF Contract, Levels
    <2>2. Return(0) /\ 0 \in Nat
      BY <1>5 DEF Mismatch
    <2> QED BY <1>0, <2>1, <2>2, ReturnDescribes
  <1>6. CASE consumed = 0
    <2>1. ~Readable(Text)
      BY <1>4, <1>6 DEF Contract, Levels
    <2>2. Mismatch
      BY <1>6 DEF CloseBracket
    <2> QED BY <1>5, <2>1, <2>2
  <1>7. CASE consumed # 0
    <2>1. Passed(Text, q, r) /\ NoneFollows("bitor", r)
      BY <1>4, <1>7 DEF Contract, Levels
    <2>2. Passed(Text, q, p) /\ Char(p) \notin AllOps
      BY <1>3, <1>4, <2>1, SkipKeeps, NoOpsFollow DEF Inv
    <2>3. p \in Positions /\ p \in Nat \ {0} /\ p >= r /\ Char(p) \notin Blanks
      BY <1>3, <1>4, SkipIs, TextIs DEF Inv
    <2>4. p > Top.from
      BY <1>4, <1>7, <2>3
    <2>5. /\ Depth(Text, p) = Depth(Text, Top.from) + IF Top.fn = "paren" THEN 1 ELSE 0
          /\ Bracketed(Text, p) <=> Bracketed(Text, Top.from) \/ Top.fn = "indirect"
          /\ Done(Text, p)
      BY <1>0, <1>1, <1>4, <2>2 DEF Passed, Same, Awaits
    <2>6. Top.fn = "indirect" => Depth(Text, Top.from) = 0 /\ ~Bracketed(Text, Top.from)
      BY <1>4, BlankStart DEF Awaits, Inv
    <2>7. CASE Char(p) # Closing[Top.fn]
      <3>1. \/ Depth(Text, p) > 0 /\ Char(p) # ")"
            \/ Depth(Text, p) = 0 /\ Bracketed(Text, p) /\ Char(p) # "]"
        BY <1>0, <1>4, <2>5, <2>6, <2>7 DEF Closing
      <3>2. ~Readable(Text)
        BY <2>2, <2>3, <2>5, <3>1, NotClosed
      <3>3. Mismatch
        BY <1>2, <1>3, <2>7 DEF CloseBracket
      <3> QED BY <1>5, <3>2, <3>3
    <2>8. CASE Char(p) = Closing[Top.fn]
      <3>1. p # End
        BY <1>0, <2>3, <2>8, TextIs DEF Inv, Closing
      <3>2. p \in DOMAIN Text /\ Text[p] = Closing[Top.fn]
        BY <2>3, <2>8, <3>1, TextIs DEF Inv
      <3>3. /\ Top.fn = "indirect" => Text[p] = "]"
            /\ Top.fn = "paren" => Text[p] = ")"
        BY <3>2 DEF Closing
      <3>4. Text[p] \in {")", "]"} /\ Text[p] \in Special \ Blanks
        BY <1>0, <3>3, Characters
      <3>5. FitsAt(Text, p)
        <4>1. Text[p] = ")" => Depth(Text, p) > 0
          BY <1>0, <1>4, <2>5, <3>3
        <4>2. Text[p] = "]" => Depth(Text, p) = 0 /\ Bracketed(Text, p)
          BY <1>0, <2>5, <2>6, <3>3
        <4>3. ~StartsWord(Text, p)
          BY <3>4 DEF StartsWord
        <4> QED BY <2>5, <3>4, <4>1, <4>2, <4>3 DEF FitsAt, Done
      <3>6. /\ p + 1 \in Positions
            /\ Text[p] = ")" => Done(Text, p + 1)
            /\ Text[p] = "]" => Sound(Text, p + 1) /\ BracketEnds(Text, p + 1)
            /\ Depth(Text, p) \in Int
            /\ Depth(Text, p + 1) = IF Text[p] = "(" THEN Depth(Text, p) + 1
                                    ELSE IF Text[p] = ")" THEN Depth(Text, p) - 1 ELSE Depth(Text, p)
            /\ Bracketed(Text, p + 1) <=> Bracketed(Text, p) \/ Text[p] = "["
        BY <2>5, <3>2, <3>4, <3>5, CharacterPasses DEF Inv, Done
      <3>7. CASE Top.fn = "indirect"
        <4>1. PICK s : s = Skip(p + 1)
          OBVIOUS
        <4>2. s \in Positions /\ s \in Nat /\ s > p
          BY <2>3, <3>6, <4>1, SkipIs, TextIs DEF Inv
        <4>3. Shut(Text, p + 1)
          <5>1. Text[p] = "]" /\ Depth(Text, p) = 0 /\ Bracketed(Text, p)
            BY <2>5, <2>6, <3>3, <3>7
          <5> QED BY <3>6, <5>1 DEF Shut
        <4>4. Shut(Text, s)
          BY <3>6, <4>1, <4>3, SkipKeeps DEF Inv
        <4>5. PICK n \in Nat : n = s - Top.from /\ n # 0 /\ Top.from + n = s
          BY <1>4, <2>3, <2>4, <4>2
        <4>6. Contract(Top.fn, Top.from, n)
          BY <3>7, <4>4, <4>5 DEF Contract, Levels
        <4>7. Return(n)
          BY <1>2, <1>3, <1>7, <2>8, <3>7, <4>1, <4>5 DEF CloseBracket, ReturnAt
        <4> QED BY <1>0, <4>5, <4>6, <4>7, ReturnDescribes
      <3>8. CASE Top.fn = "paren"
        <4>0. PICK s \in Nat : s = p + 1 /\ s > p
          BY <2>3
        <4>1. Passed(Text, Top.from, s)
          BY <1>4, <2>5, <3>3, <3>6, <3>8, <4>0 DEF Passed, Same
        <4>2. PICK n \in Nat : n = s - Top.from /\ n # 0 /\ Top.from + n = s
          BY <1>4, <2>3, <2>4, <4>0
        <4>3. Contract(Top.fn, Top.from, n)
          BY <3>8, <4>1, <4>2 DEF Contract, Levels
        <4>4. Return(n)
          <5>1. ReturnAt(p + 1)
            BY <1>0, <1>2, <1>3, <1>7, <2>8, <3>8 DEF CloseBracket
          <5> QED BY <4>0, <4>2, <5>1 DEF ReturnAt
        <4> QED BY <1>0, <4>2, <4>3, <4>4, ReturnDescribes
      <3> QED BY <1>0, <3>7, <3>8
    <2> QED BY <2>7, <2>8
  <1> QED BY <1>6, <1>7

\* The level that is called for the operands, and the operators it has read.
LEMMA LevelFacts ==
  ASSUME NEW fn \in Levels
  PROVE  /\ NextOf[fn] \in Levels \cup {"term"} /\ NextOf[fn] \in Functions \ {"args"}
         /\ fn \in Functions \ {"args"} /\ fn \notin {"start", "indirect", "paren", "args", "term"}
         /\ \A level \in Levels : Rank[fn] <= Rank[level] =>
               level = fn \/ (NextOf[fn] \in Levels /\ Rank[NextOf[fn]] <= Rank[level])
  <1>1. /\ NextOf["bitor"] = "bitxor" /\ NextOf["bitxor"] = "bitand" /\ NextOf["bitand"] = "additive"
        /\ NextOf["additive"] = "multiplicative" /\ NextOf["multiplicative"] = "term"
    BY DEF NextOf, Levels
  <1>2. /\ Rank["bitor"] = 1 /\ Rank["bitxor"] = 2 /\ Rank["bitand"] = 3
        /\ Rank["additive"] = 4 /\ Rank["multiplicative"] = 5
    BY DEF Rank, Levels
  <1>3. Levels = {"bitor", "bitxor", "bitand", "additive", "multiplicative"}
    BY DEF Levels
  <1>4. NextOf[fn] \in Levels \cup {"term"} /\ fn \notin {"start", "indirect", "paren", "args", "term"}
    BY <1>1, <1>3
  <1>5. \A level \in Levels : Rank[fn] <= Rank[level] =>
           level = fn \/ (NextOf[fn] \in Levels /\ Rank[NextOf[fn]] <= Rank[level])
    BY <1>1, <1>2, <1>3
  <1> QED BY <1>3, <1>4, <1>5 DEF Functions

\* A function that returns with an operand, to p.
LEMMA PassesOn ==
  ASSUME Inv, Described, arg <= Len(argv), UNCHANGED <<argv, arch, arg>>,
         Top.fn \in Levels \cup {"term"}, NEW p \in Positions, p > Top.from,
         Passed(Text, Top.at, p), NoneFollows(Top.fn, p), ReturnAt(p)
  PROVE  Described'
  <1>1. Top.fn \notin {"args", "start", "indirect", "paren"}
    BY DEF Levels
  <1>2. /\ Top.from \in Nat \ {0} /\ Depth(Text, Top.from) \in Int /\ Awaits(Top)
    BY <1>1, TopIs
  <1>3. Passed(Text, Top.from, p)
    BY <1>1, <1>2 DEF Passed, Same, Awaits
  <1>4. PICK n \in Nat : n = p - Top.from /\ n # 0 /\ Top.from + n = p
    BY <1>2, TextIs DEF Inv
  <1>5. Contract(Top.fn, Top.from, n)
    BY <1>1, <1>3, <1>4 DEF Contract
  <1>6. Return(n)
    BY <1>4 DEF ReturnAt
  <1> QED BY <1>1, <1>4, <1>5, <1>6, ReturnDescribes

\* And one that does not.
LEMMA FailsOn ==
  ASSUME Inv, Described, arg <= Len(argv), UNCHANGED <<argv, arch, arg>>,
         Top.fn \in Levels \cup {"term"}, ~Readable(Text), Mismatch
  PROVE  Described'
  <1>1. Top.fn \notin {"args", "start", "indirect", "paren"}
    BY DEF Levels
  <1>2. Contract(Top.fn, Top.from, 0)
    BY <1>1 DEF Contract
  <1> QED BY <1>1, <1>2, ReturnDescribes DEF Mismatch

\* The functions of the binary operators.
LEMMA LevelsDescribe ==
  ASSUME Inv, Described, body = "bitor", arg <= Len(argv), UNCHANGED <<argv, arch, arg>>,
         LeftOperand \/ FindOperator \/ RightOperand
  PROVE  Described'
  <1>0. Top.fn \in Levels
    BY DEF LeftOperand, FindOperator, RightOperand, At
  <1>1. PICK fn \in Levels : fn = Top.fn /\ fn \in Levels
    BY <1>0
  <1>2. /\ NextOf[fn] \in Levels \cup {"term"} /\ NextOf[fn] \in Functions \ {"args"}
        /\ fn \in Functions \ {"args"} /\ fn \notin {"start", "indirect", "paren", "args", "term"}
        /\ \A level \in Levels : Rank[fn] <= Rank[level] =>
              level = fn \/ (NextOf[fn] \in Levels /\ Rank[NextOf[fn]] <= Rank[level])
    BY <1>1, LevelFacts
  <1>3. PICK q, r : q = Top.at /\ r = Reached
    OBVIOUS
  <1>4. PICK p : p = Skip(r)
    OBVIOUS
  <1>5. /\ Awaits(Top) /\ Top.from \in Positions /\ q \in Positions
        /\ Top.from \in Nat \ {0} /\ q \in Nat \ {0} /\ Top.from <= q
        /\ consumed \in Nat /\ r = q + consumed
        /\ Top.step # "begin" => r \in Positions /\ Contract(Callee(Top), q, consumed)
        /\ Depth(Text, Top.from) \in Int /\ Depth(Text, q) \in Int /\ Depth(Text, Top.from) >= 0
    BY <1>1, <1>2, <1>3, TopIs
  <1>6. CASE LeftOperand
    <2>1. PICK s : s = Skip(Top.at)
      OBVIOUS
    <2>2. Top.step = "begin"
      BY <1>6 DEF LeftOperand, At
    <2>3. /\ s = Skip(Top.from) /\ Skip(s) = s /\ s \in Positions /\ s \in Nat \ {0}
          /\ Expects(Text, s) /\ Same(Text, Top.from, s) /\ Depth(Text, s) >= 0
          /\ Char(s) = "[" => ~Readable(Text)
      BY <1>1, <1>2, <2>1, <2>2, SkipAt
    <2>4. Awaits(Called(NextOf[fn], s))
      BY <1>2, <2>3, CalledAwaits
    <2>5. Awaits([fn |-> Top.fn, from |-> Top.from, at |-> s, step |-> "left"])
      BY <1>1, <1>2, <1>5, <2>3 DEF Awaits, Same
    <2>6. Call(NextOf[fn], s, "left") /\ "left" \in Steps
      BY <1>1, <1>6, <2>1 DEF LeftOperand, Steps
    <2> QED BY <1>2, <2>3, <2>4, <2>5, <2>6, CallDescribes
  <1>7. CASE FindOperator
    <2>1. Top.step = "left"
      BY <1>7 DEF FindOperator, At
    <2>2. Contract(NextOf[fn], q, consumed) /\ r \in Positions
      BY <1>1, <1>5, <2>1 DEF Callee
    <2>3. CASE consumed = 0
      <3>1. ~Readable(Text)
        BY <1>2, <2>2, <2>3 DEF Contract
      <3>2. Mismatch
        BY <1>7, <2>3 DEF FindOperator
      <3> QED BY <1>0, <3>1, <3>2, FailsOn
    <2>4. CASE consumed # 0
      <3>1. Passed(Text, q, r) /\ NoneFollows(NextOf[fn], r)
        BY <1>2, <1>5, <2>2, <2>4 DEF Contract
      <3>2. Passed(Text, q, p)
        BY <1>4, <2>2, <3>1, SkipKeeps DEF Inv
      <3>3. /\ p \in Positions /\ p \in Nat \ {0} /\ p >= r /\ Char(p) \notin Blanks /\ Skip(p) = p
        BY <1>4, <1>5, <2>2, SkipIs, TextIs DEF Inv
      <3>4. p > Top.from
        BY <1>5, <2>4, <3>3
      <3>5. CASE Char(p) \notin Ops[fn]
        <4>1. NoneFollows(fn, p)
          BY <1>2, <1>4, <3>1, <3>3, <3>5 DEF NoneFollows
        <4>2. ReturnAt(p)
          BY <1>1, <1>3, <1>4, <1>7, <2>4, <3>5 DEF FindOperator
        <4> QED BY <1>0, <1>1, <1>3, <3>2, <3>3, <3>4, <4>1, <4>2, PassesOn
      <3>6. CASE Char(p) \in Ops[fn]
        <4>1. Char(p) \in AllOps
          BY <1>1, <3>6, OpsAre
        <4>2. p # End
          BY <3>3, <4>1, TextIs, Characters DEF Inv
        <4>3. p \in DOMAIN Text /\ Text[p] \in AllOps
          BY <3>3, <4>1, <4>2, TextIs DEF Inv
        <4>4. FitsAt(Text, p)
          <5>1. OperandEnds(Text, p)
            BY <3>2 DEF Passed, Done
          <5>2. Text[p] \notin {"(", ")", "[", "]"} /\ ~StartsWord(Text, p)
            BY <4>3, Characters DEF StartsWord
          <5> QED BY <5>1, <5>2 DEF FitsAt
        <4>5. Text[p] \in Special \ Blanks /\ Text[p] \notin {"(", ")", "["}
          BY <4>3, Characters
        <4>6. /\ p + 1 \in Positions /\ p \in 1 .. (p + 1) - 1
              /\ Expects(Text, p + 1)
              /\ Depth(Text, p) \in Int /\ Depth(Text, p + 1) = Depth(Text, p)
              /\ Bracketed(Text, p + 1) <=> Bracketed(Text, p)
          BY <3>2, <4>3, <4>4, <4>5, CharacterPasses DEF Inv, Passed, Done
        <4>7. PICK s : s = Skip(p + 1)
          OBVIOUS
        <4>8. s \in Positions /\ s \in Nat \ {0} /\ s > p /\ Skip(s) = s
          BY <3>3, <4>6, <4>7, SkipIs, TextIs DEF Inv
        <4>9. Expects(Text, s) /\ Same(Text, p + 1, s)
          BY <4>6, <4>7, SkipKeeps DEF Inv
        <4>10. Depth(Text, s) = Depth(Text, Top.from)
               /\ (Bracketed(Text, s) <=> Bracketed(Text, Top.from))
          BY <1>1, <1>2, <1>3, <1>5, <3>2, <4>6, <4>9 DEF Same, Passed, Awaits
        <4>11. Char(s) = "[" => ~Readable(Text)
          <5>1. p \in 1 .. s - 1
            BY <3>3, <4>8
          <5> QED BY <4>5, <4>8, <5>1, BracketFirst DEF Inv
        <4>12. Awaits(Called(fn, s))
          BY <1>1, <1>5, <4>8, <4>9, <4>10, <4>11, CalledAwaits
        <4>13. Awaits([fn |-> Top.fn, from |-> Top.from, at |-> s, step |-> "right"])
          BY <1>1, <1>2, <1>5, <4>10 DEF Awaits
        <4>14. Call(fn, s, "right") /\ "right" \in Steps
          BY <1>1, <1>3, <1>4, <1>7, <2>4, <3>6, <4>7 DEF FindOperator, Steps
        <4> QED BY <1>2, <4>8, <4>12, <4>13, <4>14, CallDescribes
      <3> QED BY <3>5, <3>6
    <2> QED BY <2>3, <2>4
  <1>8. CASE RightOperand
    <2>1. Top.step = "right"
      BY <1>8 DEF RightOperand, At
    <2>2. Contract(fn, q, consumed) /\ r \in Positions
      BY <1>1, <1>5, <2>1 DEF Callee
    <2>3. CASE consumed = 0
      <3>1. ~Readable(Text)
        BY <1>1, <2>2, <2>3 DEF Contract
      <3>2. Mismatch
        BY <1>8, <2>3 DEF RightOperand
      <3> QED BY <1>0, <3>1, <3>2, FailsOn
    <2>4. CASE consumed # 0
      <3>1. Passed(Text, q, r) /\ NoneFollows(fn, r)
        BY <1>1, <1>5, <2>2, <2>4 DEF Contract
      <3>2. Passed(Text, q, p)
        BY <1>4, <2>2, <3>1, SkipKeeps DEF Inv
      <3>3. /\ p \in Positions /\ p \in Nat \ {0} /\ p >= r /\ Skip(p) = p
        BY <1>4, <1>5, <2>2, SkipIs, TextIs DEF Inv
      <3>4. p > Top.from
        BY <1>5, <2>4, <3>3
      <3>5. NoneFollows(fn, p)
        BY <1>4, <3>1, <3>3 DEF NoneFollows
      <3>6. ReturnAt(p)
        BY <1>3, <1>4, <1>8, <2>4 DEF RightOperand
      <3> QED BY <1>0, <1>1, <1>3, <3>2, <3>3, <3>4, <3>5, <3>6, PassesOn
    <2> QED BY <2>3, <2>4
  <1> QED BY <1>6, <1>7, <1>8

\* evaluate_term.
LEMMA TermDescribes ==
  ASSUME Inv, Described, body = "bitor", arg <= Len(argv), UNCHANGED <<argv, arch, arg>>,
         TermParen \/ EndTerm
  PROVE  Described'
  <1>0. Top.fn = "term" /\ Top.fn # "args" /\ Top.step \in {"begin", "paren"}
    BY DEF TermParen, EndTerm, At
  <1>1. /\ Awaits(Top) /\ Top.from \in Nat \ {0}
        /\ consumed \in Nat /\ Reached = Top.at + consumed
        /\ Top.step # "begin" => Reached \in Positions /\ Contract(Callee(Top), Top.at, consumed)
        /\ Depth(Text, Top.from) \in Int
    BY <1>0, TopIs
  <1>2. Top.step = "begin" \/ Top.at = Skip(Top.from)
    BY <1>0, <1>1 DEF Awaits
  <1>3. PICK p : p = Skip(Top.at)
    OBVIOUS
  <1>4. /\ p = Skip(Top.from) /\ Skip(p) = p /\ p \in Positions /\ p \in Nat \ {0}
        /\ Top.from <= p /\ Char(p) \notin Blanks
        /\ Expects(Text, p) /\ Same(Text, Top.from, p) /\ Depth(Text, p) >= 0
        /\ Char(p) = "[" => ~Readable(Text)
    BY <1>0, <1>2, <1>3, SkipAt
  <1>5. CASE TermParen
    <2>1. Awaits(Called("paren", p))
      BY <1>4, CalledAwaits
    <2>2. Awaits([fn |-> Top.fn, from |-> Top.from, at |-> p, step |-> "paren"])
      BY <1>0, <1>1, <1>4 DEF Awaits, Same
    <2>3. "paren" \in Functions \ {"args"} /\ "paren" \in Steps
      BY DEF Functions, Levels, Steps
    <2>4. Call("paren", p, "paren")
      BY <1>3, <1>5 DEF TermParen
    <2> QED BY <1>4, <2>1, <2>2, <2>3, <2>4, CallDescribes
  <1>6. CASE EndTerm
    <2>1. Top.step = "paren"
      BY <1>6 DEF EndTerm, At
    <2>2. Top.at = p
      BY <1>2, <1>4, <2>1
    <2>3. Contract("paren", p, consumed)
      BY <1>1, <2>1, <2>2 DEF Callee
    <2>4. PICK n : n = IF consumed # 0 THEN consumed
                       ELSE IF Num(p) # 0 THEN Num(p) ELSE RegisterAt(p)
      OBVIOUS
    <2>5. IF n = 0 THEN Mismatch ELSE ReturnAt(p + n)
      BY <1>6, <2>2, <2>4 DEF EndTerm
    <2>6. n \in Nat /\ p + n \in Positions
      BY <1>1, <1>4, <2>1, <2>2, <2>4, NumInText, RegisterInText DEF Inv
    <2>7. CASE n = 0
      <3>1. consumed = 0 /\ Num(p) = 0 /\ RegisterAt(p) = 0
        BY <2>4, <2>7
      <3>2. Char(p) = "(" => ~Readable(Text)
        BY <1>4, <2>3, <3>1 DEF Contract
      <3>3. ~Readable(Text)
        BY <1>4, <3>1, <3>2, NoOperand DEF Inv, Expects
      <3> QED BY <1>0, <2>5, <2>7, <3>3, FailsOn
    <2>8. CASE n # 0
      <3>1. Passed(Text, p, p + n)
        <4>1. CASE consumed # 0
          BY <2>3, <2>4, <4>1 DEF Contract
        <4>2. CASE consumed = 0
          <5>1. p \in DOMAIN Text /\ Text[p] \notin Special
            BY <1>4, <2>4, <2>8, <4>2, OnlyWords DEF Inv
          <5> QED BY <1>4, <2>4, <2>8, <4>2, <5>1, NumPasses, RegisterPasses DEF Inv
        <4> QED BY <4>1, <4>2
      <3>2. NoneFollows(Top.fn, p + n)
        BY <1>0 DEF NoneFollows, Levels
      <3>3. p + n > Top.from
        BY <1>1, <1>4, <2>6, <2>8
      <3>4. ReturnAt(p + n)
        BY <2>5, <2>8
      <3> QED BY <1>0, <2>2, <2>6, <3>1, <3>2, <3>3, <3>4, PassesOn
    <2> QED BY <2>7, <2>8
  <1> QED BY <1>5, <1>6

\* With the stub nothing is ever read.
Stubbed ==
    /\ consumed = 0
    /\ \A n \in DOMAIN stack : stack[n].fn \in {"args", "start", "indirect"}

\* What the answer to the whole line rests on.
FormInv ==
    /\ body \in {"stub", "bitor"} /\ outcome \in {"running", "evaluated", "died"}
    /\ TakesReadable
    /\ outcome = "running" =>
          /\ \A n \in 1 .. arg - 1 : Taken(n)
          /\ stack[1].step # "begin" => ~argv[arg].typed
          /\ body = "stub" => Stubbed
          /\ body = "bitor" => Described

\* An argument stays what it is.
LEMMA TakenStays ==
  ASSUME UNCHANGED <<argv, arch, body>>
  PROVE  \A n : Taken(n)' <=> Taken(n)
  <1>1. \A t : Readable(t)' <=> Readable(t)
    BY DEF Readable, Composed, ReadsWord, ReadsName, Spells
  <1> QED BY <1>1 DEF Taken

\* The functions that have been called.
LEMMA FunctionsKeepForm ==
  ASSUME Inv, FormInv, Motorola \/ Common
  PROVE  FormInv'
  <1>1. /\ Top.fn # "args" /\ UNCHANGED <<argv, arch, body, arg, outcome>> /\ outcome = "running"
        /\ arg <= Len(argv)
    <2>1. Top.fn # "args" /\ UNCHANGED <<argv, arch, body, arg, outcome>> /\ outcome = "running"
      BY DEF Motorola, Common, At, Goes, inputs, TryIndirect, TryExpr, EndStart, OpenBracket,
             CloseBracket, LeftOperand, FindOperator, RightOperand, TermParen, EndTerm, Levels
    <2> QED BY <2>1, ArgFacts DEF Inv, EndsEmpty, Called, Top
  <1>2. ~argv[arg].typed
    <2>1. 2 \in 2 .. Len(stack)
      BY <1>1, TopFacts, ArgFacts DEF Inv
    <2>2. stack[2 - 1].step # "begin"
      BY <2>1 DEF Inv, Linked
    <2> QED BY <1>1, <2>2 DEF FormInv
  <1>3. (\A n \in 1 .. arg - 1 : Taken(n))'
    BY <1>1, TakenStays DEF FormInv
  <1>4. body = "bitor" => Described'
    <2>1. ASSUME body = "bitor" PROVE Described'
      <3>1. Described
        BY <1>1, <2>1 DEF FormInv
      <3> QED BY <1>1, <2>1, <3>1, StartDescribes, OpenDescribes, CloseDescribes, LevelsDescribe,
                 TermDescribes DEF Motorola, Common
    <2> QED BY <2>1
  <1>5. ASSUME body = "stub" PROVE Stubbed'
    <2>1. Stubbed
      BY <1>1, <1>5 DEF FormInv
    <2>2. Top.fn \in {"start", "indirect"} /\ consumed = 0
      BY <1>1, <2>1, ArgFacts DEF Stubbed, Inv, TypeOK, Top
    <2> DEFINE L == Len(stack)
    <2>3. L \in Nat /\ L > 1
      BY <1>1, TopFacts DEF Inv, TypeOK
    <2>4. ASSUME NEW p \in Positions, NEW step \in Steps
          PROVE  /\ p \in Nat /\ Moved(p, step) \in Seq(AnyFrame) /\ Len(Moved(p, step)) = L
                 /\ \A n \in 1 .. L : Moved(p, step)[n].fn = stack[n].fn
      <3>1. p \in Nat
        BY <1>1, TextIs DEF Inv
      <3>2. /\ Moved(p, step) \in Seq(AnyFrame) /\ Len(Moved(p, step)) = Len(stack)
            /\ \A n \in 1 .. Len(stack) - 1 : Moved(p, step)[n] = stack[n]
            /\ Moved(p, step)[Len(stack)] = [fn |-> Top.fn, from |-> Top.from,
                                              at |-> p, step |-> step]
        BY <3>1, MovedStack DEF Inv
      <3> QED BY <2>3, <3>1, <3>2 DEF Top
    <2>5. \A n \in 1 .. L : stack[n].fn \in {"args", "start", "indirect"}
      BY <2>1, <2>3 DEF Stubbed, Inv, TypeOK
    <2>6. ASSUME NEW fn \in {"start", "indirect"}, NEW p \in Positions, NEW step \in Steps,
                 Call(fn, p, step)
          PROVE  Stubbed'
      <3>1. Called(fn, p) \in AnyFrame
        BY <2>4, <2>6 DEF Called, AnyFrame, Functions, Steps
      <3>2. /\ Len(stack') = L + 1 /\ stack' \in Seq(AnyFrame)
            /\ \A n \in 1 .. L : stack'[n] = Moved(p, step)[n]
            /\ stack'[L + 1] = Called(fn, p)
        BY <2>4, <3>1, PushedStack, <2>6 DEF Call
      <3>3. \A n \in 1 .. L + 1 : stack'[n].fn \in {"args", "start", "indirect"}
        <4>1. Called(fn, p).fn = fn
          BY DEF Called
        <4>2. \A n \in 1 .. L : stack'[n].fn \in {"args", "start", "indirect"}
          BY <2>4, <2>5, <3>2
        <4>3. \A n \in 1 .. L + 1 : n = L + 1 \/ n \in 1 .. L
          BY <2>3
        <4> HIDE DEF L
        <4> QED BY <3>2, <4>1, <4>2, <4>3
      <3>4. consumed' = 0 /\ DOMAIN stack' = 1 .. L + 1
        BY <2>2, <2>6, <3>2 DEF Call
      <3> QED BY <3>3, <3>4 DEF Stubbed
    <2>7. ASSUME NEW p \in Positions, CallExpr(p) PROVE Stubbed'
      <3>1. stack' = Moved(p, "expr") /\ consumed' = 0 /\ "expr" \in Steps
        BY <1>5, <2>7 DEF CallExpr, Steps
      <3> QED BY <2>4, <2>5, <3>1 DEF Stubbed
    <2>8. ASSUME Mismatch PROVE Stubbed'
      <3>1. /\ stack' \in Seq(AnyFrame) /\ Len(stack') = L - 1 /\ consumed' = 0
            /\ \A k \in 1 .. L - 1 : stack'[k] = stack[k]
        BY <2>3, <2>8, PoppedStack DEF Inv, TypeOK, Return, Mismatch
      <3> QED BY <2>3, <2>5, <3>1 DEF Stubbed
    <2> HIDE DEF L
    <2>9. Top.at \in Positions /\ Skip(Top.at) \in Positions
      BY <1>1, TopFacts, SkipIs DEF Inv, Frames
    <2>10. CASE TryIndirect
      BY <2>6, <2>9, <2>10 DEF TryIndirect, Steps
    <2>11. CASE TryExpr
      BY <2>7, <2>9, <2>11 DEF TryExpr
    <2>12. CASE EndStart
      BY <2>2, <2>8, <2>12 DEF EndStart
    <2>13. CASE OpenBracket
      <3>1. PICK p : p = Skip(Top.at)
        OBVIOUS
      <3>2. CASE Char(p) = Opening[Top.fn]
        <4>1. Char(p) # "NUL"
          BY <2>2, <2>13, <3>2 DEF OpenBracket, At, Opening
        <4>2. p + 1 \in Positions
          BY <1>1, <2>9, <3>1, <4>1, NextPosition DEF Inv
        <4>3. Skip(p + 1) \in Positions
          BY <1>1, <4>2, SkipIs DEF Inv
        <4> QED BY <2>7, <2>13, <3>1, <3>2, <4>3 DEF OpenBracket
      <3>3. CASE Char(p) # Opening[Top.fn]
        BY <2>8, <2>13, <3>1, <3>3 DEF OpenBracket
      <3> QED BY <3>2, <3>3
    <2>14. CASE CloseBracket
      BY <2>2, <2>8, <2>14 DEF CloseBracket
    <2>15. ~LeftOperand /\ ~FindOperator /\ ~RightOperand /\ ~TermParen /\ ~EndTerm
      BY <2>2 DEF LeftOperand, FindOperator, RightOperand, TermParen, EndTerm, At, Levels
    <2> QED BY <2>10, <2>11, <2>12, <2>13, <2>14, <2>15 DEF Motorola, Common
  <1> QED BY <1>1, <1>2, <1>3, <1>4, <1>5 DEF FormInv, TakesReadable

\* The loop over the arguments.
LEMMA ArgsKeepForm ==
  ASSUME Inv, FormInv, Args
  PROVE  FormInv'
  <1>0. /\ arg \in Nat \ {0} /\ Len(argv) \in Nat /\ arg <= Len(argv) + 1
        /\ DOMAIN argv = 1 .. Len(argv)
    <2>1. argv \in Seq([typed : BOOLEAN, raw : Seq(STRING)])
      BY OperandAssumption DEF Inv, TypeOK
    <2> QED BY <2>1, ArgFacts DEF Inv, TypeOK
  <1>1. UNCHANGED <<argv, arch, body>> /\ outcome = "running" /\ Top.fn = "args"
    BY DEF Args, SkipTyped, EvaluateArg, Complete, EndArgs, At, Goes, inputs
  <1>2. Len(stack) = 1 /\ stack[1] = Top
    <2>1. Len(stack) = 1
      <3>1. Len(stack) \in Nat \ {0}
        BY ArgFacts DEF Inv
      <3>2. \A n \in 2 .. Len(stack) : stack[n].fn # "args"
        BY DEF Inv, Linked
      <3>3. stack[Len(stack)].fn = "args"
        BY <1>1 DEF Top
      <3>4. Len(stack) \notin 2 .. Len(stack)
        BY <3>2, <3>3
      <3>5. \A k \in Nat \ {0} : k \notin 2 .. k => k = 1
        OBVIOUS
      <3> QED BY <3>1, <3>4, <3>5
    <2> QED BY <2>1 DEF Top
  <1>3. /\ body \in {"stub", "bitor"}
        /\ \A n \in 1 .. arg - 1 : Taken(n)
        /\ Top.step # "begin" => ~argv[arg].typed
        /\ body = "stub" => Stubbed
        /\ body = "bitor" => Described
    BY <1>1, <1>2 DEF FormInv
  <1>4. \A n : Taken(n)' <=> Taken(n)
    BY <1>1, TakenStays
  <1>5. ASSUME arg' = arg + 1, outcome' = outcome, consumed' = consumed, Taken(arg),
               stack' = <<Called("args", 1)>>, body = "stub" => consumed = 0
        PROVE  FormInv'
    <2>1. (\A n \in 1 .. arg - 1 : Taken(n))'
      <3>1. \A n \in 1 .. (arg + 1) - 1 : n = arg \/ n \in 1 .. arg - 1
        BY <1>0
      <3> QED BY <1>3, <1>4, <1>5, <3>1
    <2>2. /\ Len(stack') = 1 /\ DOMAIN stack' = {1} /\ stack'[1] = Called("args", 1)
          /\ Top' = Called("args", 1)
      BY <1>5 DEF Top
    <2>3. Called("args", 1).step = "begin" /\ Called("args", 1).fn = "args"
      BY DEF Called
    <2>4. body' = "bitor" => Described'
      BY <2>2, <2>3 DEF Described
    <2>5. body' = "stub" => Stubbed'
      BY <1>1, <1>5, <2>2, <2>3 DEF Stubbed
    <2> QED BY <1>1, <1>3, <1>5, <2>1, <2>2, <2>3, <2>4, <2>5 DEF FormInv, TakesReadable
  <1>6. CASE SkipTyped
    <2>1. /\ Top.step = "begin" /\ argv[arg].typed
          /\ arg' = arg + 1 /\ UNCHANGED <<stack, consumed, outcome>>
      BY <1>6 DEF SkipTyped, At
    <2>2. stack = <<Called("args", 1)>>
      <3>1. stack[1] \in AnyFrame /\ stack \in Seq(AnyFrame)
        BY <1>2, ElementOfSeq DEF Inv, TypeOK
      <3>2. stack[1] = Called("args", 1)
        BY <1>1, <1>2, <2>1, <3>1 DEF Inv, Linked, Called, AnyFrame
      <3> QED BY <1>2, <3>1, <3>2
    <2>3. Taken(arg)
      BY <2>1 DEF Taken
    <2> QED BY <1>3, <1>5, <2>1, <2>2, <2>3 DEF Stubbed
  <1>7. CASE EvaluateArg
    <2>1. /\ Top.step = "begin" /\ arg <= Len(argv) /\ ~argv[arg].typed
          /\ UNCHANGED <<arg, outcome>> /\ Call("start", 1, "start")
      BY <1>7 DEF EvaluateArg, At, Goes
    <2>2. /\ Moved(1, "start") \in Seq(AnyFrame) /\ Len(Moved(1, "start")) = 1
          /\ Moved(1, "start")[1].fn = "args" /\ "start" \in Steps /\ 1 \in Nat /\ 1 \in Positions
      <3>1. "start" \in Steps
        BY DEF Steps
      <3>2. 1 \in Positions
        BY <2>1, TextFacts DEF Inv, Positions
      <3>3. /\ Moved(1, "start") \in Seq(AnyFrame) /\ Len(Moved(1, "start")) = Len(stack)
            /\ Moved(1, "start")[Len(stack)] = [fn |-> Top.fn, from |-> Top.from,
                                                 at |-> 1, step |-> "start"]
        BY <3>1, MovedStack DEF Inv
      <3> QED BY <1>1, <1>2, <3>1, <3>2, <3>3
    <2>3. body = "bitor" => Described'
      <3>1. ASSUME body = "bitor" PROVE Described'
        <4>1. OnlyBlanks(1) /\ OperandBegins(Text, 1) /\ Sound(Text, 1)
          BY DEF OnlyBlanks, OperandBegins, Sound
        <4>2. Depth(Text, 1) = 0
          BY <2>1, <2>2, <4>1, BlankStart DEF Inv
        <4>3. Awaits(Called("start", 1))
          BY <4>1, <4>2 DEF Awaits, Called, Expects
        <4>4. Described
          BY <1>3, <3>1
        <4>5. "start" \in Functions \ {"args"}
          BY DEF Functions, Levels
        <4>6. UNCHANGED <<argv, arch, arg>>
          BY <1>1, <2>1
        <4> QED BY <1>1, <2>1, <2>2, <4>3, <4>4, <4>5, <4>6, CallDescribes
      <3> QED BY <3>1
    <2>4. ASSUME body = "stub" PROVE Stubbed'
      <3>1. Called("start", 1) \in AnyFrame
        BY DEF Called, AnyFrame, Functions, Steps
      <3>2. /\ Len(stack') = 2 /\ stack' \in Seq(AnyFrame)
            /\ stack'[1] = Moved(1, "start")[1] /\ stack'[2] = Called("start", 1)
        <4>1. PICK s \in Seq(AnyFrame), x \in AnyFrame :
                 s = Moved(1, "start") /\ x = Called("start", 1) /\ Len(s) = 1
          BY <2>2, <3>1
        <4>2. /\ Append(s, x) \in Seq(AnyFrame) /\ Len(Append(s, x)) = Len(s) + 1
              /\ \A n \in 1 .. Len(s) : Append(s, x)[n] = s[n]
              /\ Append(s, x)[Len(s) + 1] = x
          BY PushedStack
        <4>3. stack' = Append(s, x)
          BY <2>1, <4>1 DEF Call
        <4> HIDE DEF AnyFrame
        <4> QED BY <4>1, <4>2, <4>3
      <3>3. DOMAIN stack' = 1 .. 2 /\ consumed' = consumed
        BY <2>1, <3>2 DEF Call
      <3>4. consumed = 0
        BY <1>3, <2>4 DEF Stubbed
      <3>5. \A n \in 1 .. 2 : stack'[n].fn \in {"args", "start", "indirect"}
        <4>1. stack'[2].fn = "start" /\ stack'[1].fn = "args"
          BY <2>2, <3>2 DEF Called
        <4>2. \A n \in 1 .. 2 : n = 1 \/ n = 2
          OBVIOUS
        <4> QED BY <4>1, <4>2
      <3> QED BY <3>3, <3>4, <3>5 DEF Stubbed
    <2>5. (\A n \in 1 .. arg - 1 : Taken(n))'
      BY <1>3, <1>4, <2>1
    <2>6. ~argv'[arg'].typed
      BY <1>1, <2>1
    <2> QED BY <1>1, <1>3, <2>1, <2>3, <2>4, <2>5, <2>6 DEF FormInv, TakesReadable
  <1>8. CASE Complete
    <2>1. Top.step = "start" /\ consumed' = consumed
      BY <1>8 DEF Complete, At
    <2>2. arg <= Len(argv)
      BY <1>0, <1>2, <2>1 DEF Inv, EndsEmpty, Called
    <2>3. consumed \in Nat /\ ~argv[arg].typed /\ Text = argv[arg].raw
      BY <1>3, <2>1, ArgFacts DEF Inv, TypeOK, Text
    <2>4. consumed # 0 /\ consumed = Len(Text) <=> Taken(arg)
      <3>1. CASE body = "stub"
        BY <1>3, <2>3, <3>1 DEF Stubbed, Taken
      <3>2. CASE body = "bitor"
        <4>1. Top.at = 1
          BY <1>2 DEF Inv, Linked
        <4>2. Contract("start", 1, consumed)
          BY <1>3, <2>1, <3>2, <4>1 DEF Described, Callee
        <4>3. Len(Text) \in Nat /\ End = Len(Text) + 1
          BY <2>2, TextIs DEF Inv
        <4>4. Taken(arg) <=> Readable(Text)
          BY <2>3, <3>2 DEF Taken
        <4> QED BY <2>3, <4>2, <4>3, <4>4 DEF Contract
      <3> QED BY <1>3, <3>1, <3>2
    <2>5. CASE Taken(arg)
      <3>1. arg' = arg + 1 /\ stack' = <<Called("args", 1)>> /\ outcome' = outcome
        BY <1>8, <2>4, <2>5 DEF Complete
      <3> QED BY <1>3, <1>5, <2>1, <2>5, <3>1 DEF Stubbed
    <2>6. CASE ~Taken(arg)
      <3>1. outcome' = "died" /\ arg' = arg
        BY <1>8, <2>4, <2>6 DEF Complete
      <3>2. arg \in DOMAIN argv
        BY <1>0, <2>2
      <3> QED BY <1>1, <1>3, <1>4, <2>6, <3>1, <3>2 DEF FormInv, TakesReadable
    <2> QED BY <2>5, <2>6
  <1>9. CASE EndArgs
    <2>1. arg > Len(argv) /\ outcome' = "evaluated" /\ UNCHANGED <<arg, stack, consumed>>
      BY <1>9 DEF EndArgs
    <2>2. \A n \in DOMAIN argv : n \in 1 .. arg - 1
      BY <1>0, <2>1
    <2> QED BY <1>1, <1>3, <1>4, <2>1, <2>2 DEF FormInv, TakesReadable
  <1> QED BY <1>6, <1>7, <1>8, <1>9 DEF Args

\* Every step keeps what the answer rests on.
LEMMA NextKeepsForm == Inv /\ FormInv /\ [Next]_vars => FormInv'
  <1>1. ASSUME FormInv, UNCHANGED vars PROVE FormInv'
    <2>1. UNCHANGED <<argv, arch, arg, body, stack, consumed, outcome>>
      BY <1>1 DEF vars
    <2>2. \A n : Taken(n)' <=> Taken(n)
      BY <2>1, TakenStays
    <2>3. TakesReadable' <=> TakesReadable
      BY <2>1, <2>2 DEF TakesReadable
    <2>4. Described => Described'
      <3>1. \A f : Awaits(f)' <=> Awaits(f)
        BY <2>1, AwaitsStays
      <3>2. \A fn, q, n : Contract(fn, q, n)' <=> Contract(fn, q, n)
        BY <2>1, ContractStays
      <3>3. Top' = Top /\ (Callee(Top))' = Callee(Top)
        BY <2>1 DEF Top, Callee
      <3> QED BY <2>1, <3>1, <3>2, <3>3 DEF Described
    <2>5. Stubbed' <=> Stubbed
      BY <2>1 DEF Stubbed
    <2> QED BY <1>1, <2>1, <2>2, <2>3, <2>4, <2>5 DEF FormInv
  <1> QED BY <1>1, ArgsKeepForm, FunctionsKeepForm DEF Next, Ended

\* It holds before the first argument.
LEMMA InitForm == Init => FormInv
  <1> SUFFICES ASSUME Init PROVE FormInv
    OBVIOUS
  <1>1. /\ stack[1] = Called("args", 1) /\ Top = Called("args", 1) /\ DOMAIN stack = {1}
        /\ Len(stack) = 1 /\ arg = 1 /\ outcome = "running" /\ consumed = 0
    BY DEF Init, Top
  <1>2. body \in {"stub", "bitor"}
    BY OperandAssumption DEF Init
  <1>3. Called("args", 1).step = "begin" /\ Called("args", 1).fn = "args"
    BY DEF Called
  <1>4. Described /\ Stubbed
    BY <1>1, <1>3 DEF Described, Stubbed
  <1> QED BY <1>1, <1>2, <1>3, <1>4 DEF FormInv, TakesReadable

-----------------------------------------------------------------------------
(* Where no word is disputed, the descent takes those of the notations.    *)

LEMMA DigitsAgree ==
  \A base \in {2, 8, 10, 16} : Digits[base] = DigitsOf[base] \cup PastDigits[base]
  <1>1. /\ Digits[2] = DigitsOf[2] \cup PastDigits[2]
        /\ Digits[8] = DigitsOf[8] \cup PastDigits[8]
    BY DEF Digits, DigitsOf, PastDigits, Tens
  <1>2. Digits[10] = DigitsOf[10] \cup PastDigits[10]
    BY DEF Digits, DigitsOf, PastDigits, Tens
  <1>3. Digits[16] = DigitsOf[16] \cup PastDigits[16]
    BY DEF Digits, DigitsOf, PastDigits, Tens
  <1> QED BY <1>1, <1>2, <1>3

\* A word is in the notation of one base, and what it takes to be a number of
\* it is that the rest are its digits.
LEMMA NotationIs ==
  ASSUME NEW t, NEW n \in Nat, NEW e \in Nat, n < e
  PROVE  \E base \in {2, 8, 10, 16}, d \in n .. n + 2 :
            /\ Notation(t, n, e, base, d) /\ d <= e
            /\ \A b, c : Notation(t, n, e, b, c) => b = base /\ c = d
            /\ ReadsNumeral(t, n, e) <=> \A k \in d .. e - 1 : t[k] \in Digits[base]
  <1> DEFINE second == IF n + 1 < e THEN t[n + 1] ELSE "NUL"
             Of(base, d) == \A k \in d .. e - 1 : t[k] \in Digits[base]
  <1>1. \A b, c : Notation(t, n, e, b, c) <=>
           \/ t[n] # "0" /\ b = 10 /\ c = n
           \/ t[n] = "0" /\ second \in {"x", "X"} /\ b = 16 /\ c = n + 2
           \/ t[n] = "0" /\ second = "b" /\ b = 2 /\ c = n + 2
           \/ t[n] = "0" /\ second \notin {"x", "X", "b"} /\ b = 8 /\ c = n + 1
    BY DEF Notation
  <1>2. ReadsNumeral(t, n, e) <=>
           \/ t[n] # "0" /\ Of(10, n)
           \/ t[n] = "0" /\ Of(8, n + 1)
           \/ t[n] = "0" /\ second \in {"x", "X"} /\ Of(16, n + 2)
           \/ t[n] = "0" /\ second = "b" /\ Of(2, n + 2)
    BY DEF ReadsNumeral
  <1>3. second \in {"x", "X", "b"} => n + 2 <= e /\ ~Of(8, n + 1)
    <2> SUFFICES ASSUME second \in {"x", "X", "b"} PROVE n + 2 <= e /\ ~Of(8, n + 1)
      OBVIOUS
    <2>1. n + 1 < e /\ t[n + 1] \in {"x", "X", "b"}
      OBVIOUS
    <2>2. n + 1 \in n + 1 .. e - 1 /\ n + 2 <= e
      BY <2>1
    <2> QED BY <2>1, <2>2, DigitsArePlain
  <1> HIDE DEF second, Of
  <1>4. n \in n .. n + 2 /\ n + 1 \in n .. n + 2 /\ n + 2 \in n .. n + 2 /\ n + 1 <= e
    OBVIOUS
  <1>5. CASE t[n] # "0"
    <2>1. ReadsNumeral(t, n, e) <=> Of(10, n)
      BY <1>2, <1>5
    <2> QED BY <1>1, <1>4, <1>5, <2>1 DEF Of
  <1>6. CASE t[n] = "0" /\ second \in {"x", "X"}
    <2>1. ReadsNumeral(t, n, e) <=> Of(16, n + 2)
      BY <1>2, <1>3, <1>6
    <2> QED BY <1>1, <1>3, <1>4, <1>6, <2>1 DEF Of
  <1>7. CASE t[n] = "0" /\ second = "b"
    <2>1. ReadsNumeral(t, n, e) <=> Of(2, n + 2)
      BY <1>2, <1>3, <1>7
    <2> QED BY <1>1, <1>3, <1>4, <1>7, <2>1 DEF Of
  <1>8. CASE t[n] = "0" /\ second \notin {"x", "X", "b"}
    <2>1. ReadsNumeral(t, n, e) <=> Of(8, n + 1)
      BY <1>2, <1>8
    <2> QED BY <1>1, <1>4, <1>8, <2>1 DEF Of
  <1> QED BY <1>5, <1>6, <1>7, <1>8

LEMMA WordsAgree ==
  ASSUME NEW t, NEW n \in Nat, NEW e \in Nat, n < e, ~Disputed(t, n, e)
  PROVE  ReadsWord(t, n, e) <=> IsWord(t, n, e)
  <1>1. PICK base \in {2, 8, 10, 16}, d \in n .. n + 2 :
           /\ Notation(t, n, e, base, d) /\ d <= e
           /\ \A b, c : Notation(t, n, e, b, c) => b = base /\ c = d
           /\ ReadsNumeral(t, n, e) <=> \A k \in d .. e - 1 : t[k] \in Digits[base]
    BY NotationIs
  <1>2. /\ base = 8 \/ d < e
        /\ \A k \in d .. e - 1 : t[k] \notin PastDigits[base]
    <2>1. ~(base # 8 /\ d = e) /\ \A k \in d .. e - 1 : t[k] \notin PastDigits[base]
      BY <1>1 DEF Disputed
    <2> QED BY <1>1, <2>1
  <1>3. ReadsNumeral(t, n, e) <=> \A k \in d .. e - 1 : t[k] \in DigitsOf[base]
    BY <1>1, <1>2, DigitsAgree
  <1>4. ReadsNumeral(t, n, e) <=> IsNumeral(t, n, e)
    BY <1>1, <1>2, <1>3 DEF IsNumeral
  <1>5. IsNumeral(t, n, e) => e # Len(t) + 1
    BY DEF Disputed
  <1>6. ReadsName(t, n, e) <=> IsName(t, n, e)
    <2>1. ASSUME NEW r \in DOMAIN registers, NEW q \in 1 .. r - 1,
                 Spells(t, r, n), e = n + Len(registers[r].name)
          PROVE  ~Spells(t, q, n)
      <3>1. q \in DOMAIN registers /\ q < r
        BY DEF registers
      <3> QED BY <2>1, <3>1 DEF Disputed
    <2> QED BY <2>1 DEF ReadsName, IsName
  <1> QED BY <1>4, <1>5, <1>6 DEF ReadsWord, IsWord

LEMMA ReadableIs ==
  ASSUME NEW t, Len(t) \in Nat, DOMAIN t = 1 .. Len(t), Settled(t)
  PROVE  Readable(t) <=> InForm(t)
  <1>1. ASSUME NEW n \in DOMAIN t, NEW e \in n + 1 .. Len(t) + 1,
               StartsWord(t, n), EndsWord(t, n, e)
        PROVE  <<n, e>> \in Words(t) /\ (ReadsWord(t, n, e) <=> IsWord(t, n, e))
    <2>1. n \in Nat /\ e \in Nat /\ n < e /\ e \in 2 .. Len(t) + 1
      BY <1>1
    <2>2. <<n, e>> \in Words(t)
      BY <1>1, <2>1 DEF Words
    <2>3. ~Disputed(t, n, e)
      BY <2>2 DEF Settled
    <2> QED BY <2>1, <2>2, <2>3, WordsAgree
  <1>2. ASSUME NEW w \in Words(t)
        PROVE  /\ w[1] \in DOMAIN t /\ w[2] \in w[1] + 1 .. Len(t) + 1
               /\ StartsWord(t, w[1]) /\ EndsWord(t, w[1], w[2])
    <2>1. /\ w[1] \in 1 .. Len(t) /\ w[2] \in 2 .. Len(t) + 1 /\ w[1] < w[2]
          /\ StartsWord(t, w[1]) /\ EndsWord(t, w[1], w[2])
      BY DEF Words
    <2> QED BY <2>1
  <1>3. ASSUME Readable(t) PROVE InForm(t)
    BY <1>1, <1>2, <1>3 DEF Readable, InForm
  <1>4. ASSUME InForm(t) PROVE Readable(t)
    <2>1. ASSUME NEW n \in DOMAIN t, NEW e \in n + 1 .. Len(t) + 1,
                 StartsWord(t, n), EndsWord(t, n, e)
          PROVE  ReadsWord(t, n, e)
      <3>1. <<n, e>> \in Words(t) /\ (ReadsWord(t, n, e) <=> IsWord(t, n, e))
        BY <1>1, <2>1
      <3>2. PICK w \in Words(t) : w[1] = n /\ w[2] = e
        BY <3>1
      <3>3. IsWord(t, w[1], w[2])
        BY <1>4, <3>2 DEF InForm
      <3> QED BY <3>1, <3>2, <3>3
    <2> QED BY <1>4, <2>1 DEF InForm, Readable
  <1> QED BY <1>3, <1>4

\* Of any line, however long, whose words are undisputed, evaluate_motorola_args
\* accepts just those operands whose characters go with their neighbours and
\* whose words are numbers or registers: the descent, which never looks back,
\* decides a property of the whole text.
THEOREM OperandsAreInfix == Spec => []AcceptsInfix
  <1>1. Inv /\ FormInv /\ [Next]_vars => (Inv /\ FormInv)'
    BY NextKeepsInv, NextKeepsForm
  <1>2. Init => Inv /\ FormInv
    BY InitInv, InitForm
  <1>3. Inv /\ FormInv => AcceptsInfix
    <2> SUFFICES ASSUME Inv, FormInv PROVE AcceptsInfix
      OBVIOUS
    <2>1. DOMAIN argv = 1 .. Len(argv) /\ Len(argv) \in Nat /\ arg \in 1 .. Len(argv) + 1
      <3>1. argv \in Seq([typed : BOOLEAN, raw : Seq(STRING)])
        BY OperandAssumption DEF Inv, TypeOK
      <3> QED BY <3>1 DEF Inv, TypeOK
    <2>2. ASSUME NEW n \in DOMAIN argv, Plain(n) PROVE Taken(n) <=> Accepted(n)
      <3>1. argv[n].raw \in Seq(STRING)
        BY <2>1, RawFacts DEF Inv
      <3>2. Len(argv[n].raw) \in Nat /\ DOMAIN argv[n].raw = 1 .. Len(argv[n].raw)
        BY <3>1
      <3>3. CASE argv[n].typed
        BY <3>3 DEF Taken, Accepted
      <3>4. CASE ~argv[n].typed
        BY <2>2, <3>2, <3>4, ReadableIs DEF Plain, Taken, Accepted
      <3> QED BY <3>3, <3>4
    <2>3. outcome \in {"running", "evaluated", "died"}
      BY DEF FormInv
    <2>4. ASSUME NEW n \in DOMAIN argv, outcome = "evaluated" \/ n < arg PROVE Taken(n)
      <3>1. n < arg => n \in 1 .. arg - 1
        BY <2>1
      <3> QED BY <2>3, <2>4, <3>1 DEF FormInv, TakesReadable
    <2>5. ASSUME outcome = "died" PROVE ~Taken(arg) /\ arg \in DOMAIN argv
      BY <2>5 DEF FormInv, TakesReadable
    <2> QED BY <2>2, <2>4, <2>5 DEF AcceptsInfix
  <1> QED
    BY <1>1, <1>2, <1>3, PTL DEF Spec
=============================================================================
