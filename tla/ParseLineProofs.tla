--------------------------- MODULE ParseLineProofs ---------------------------
(***************************************************************************)
(* What holds of parse_line for every alphabet, size of the buffer and     *)
(* size of argv: TypeOK, FieldsSeparated, and that it accepts and stores   *)
(* what LineGrammar says of the text.                                      *)
(*                                                                         *)
(* The last two need an account of what the scan knows in the middle of a  *)
(* line (Scan): where the colon, the start of the mnemonic, the cuts and   *)
(* the current field are.  It is put together from parts, each a formula   *)
(* about a text t and its first n characters and not about the variables,  *)
(* so that what one more character changes (Agree: the longer text u has   *)
(* the same beginning) can be said part by part.                           *)
(***************************************************************************)
EXTENDS LineGrammar, StackLemmas, SequenceTheorems, FiniteSetTheorems, TLAPS

\* Where a position may point after one more character has been read.
LEMMA ReadGrows ==
    ASSUME TypeOK, NEW ch, Read(ch)
    PROVE  /\ text' \in Seq(Alphabet) /\ Len(text') < LINEBUFFERSIZE
           /\ Len(text') = Len(text) + 1 /\ Len(text) \in Nat
           /\ nul \in SUBSET (1 .. Len(text'))
           /\ nul \cup {c} \in SUBSET (1 .. Len(text'))
           /\ {label, mnemonic, buffer} \subseteq 0 .. Len(text')
           /\ {buffer, buffer + 1, c + 1} \subseteq 1 .. Len(text') + 1
  <1>1. text' \in Seq(Alphabet) /\ Len(text') = Len(text) + 1 /\ Len(text) \in Nat
    BY AppendProperties, LenProperties DEF TypeOK, Read, MayRead
  <1>2. Len(text') < LINEBUFFERSIZE
    BY <1>1, LimitsAssumption DEF Read, MayRead
  <1>3. nul \in SUBSET (1 .. Len(text')) /\ nul \cup {c} \in SUBSET (1 .. Len(text'))
    <2>1. \A n \in 1 .. Len(text) : n \in 1 .. Len(text')
      BY <1>1
    <2>2. c \in 1 .. Len(text')
      BY <1>1 DEF c
    <2>3. nul \in SUBSET (1 .. Len(text))
      BY DEF TypeOK
    <2> QED BY <2>1, <2>2, <2>3
  <1>4. /\ {label, mnemonic, buffer} \subseteq 0 .. Len(text')
        /\ {buffer, buffer + 1, c + 1} \subseteq 1 .. Len(text') + 1
    <2>1. /\ buffer \in 1 .. Len(text) + 1
          /\ label \in 0 .. Len(text) /\ mnemonic \in 0 .. Len(text)
      BY DEF TypeOK
    <2> QED BY <1>1, <2>1 DEF c
  <1> QED BY <1>1, <1>2, <1>3, <1>4

\* The argument that is stored finds room in argv.
LEMMA StoredArgument ==
    ASSUME TypeOK, ~ArgvFull, StoreArgument
    PROVE  argv' \in Seq(Arg) /\ Len(argv') <= LINE_ARG_MAX
  <1> DEFINE arg == [type |-> arg_type, str |-> buffer]
  <1>1. argv \in Seq(Arg) /\ Len(argv) < LINE_ARG_MAX
    BY LenProperties, LimitsAssumption DEF TypeOK, ArgvFull
  <1>2. arg \in Arg
    BY DEF TypeOK, Arg
  <1>3. argv' = Append(argv, arg)
    BY DEF StoreArgument
  <1> HIDE DEF arg
  <1> QED BY <1>1, <1>2, <1>3, AppendProperties, LenProperties, LimitsAssumption

\* Every step keeps TypeOK.
LEMMA TypeStep == ASSUME TypeOK, [Next]_vars PROVE TypeOK'
<1> USE DEF TypeOK, fields, Flags, Messages
<1>1. ASSUME NEW q \in Quotes, ReadQuote(q) PROVE TypeOK'
  <2>1. CASE OpenQuote(q)
    BY <2>1, ReadGrows DEF OpenQuote, QuoteFlag, ArgTypes
  <2>2. CASE CloseQuote(q)
    BY <2>2, ReadGrows DEF CloseQuote
  <2>3. CASE MisplacedQuote(q)
    BY <2>3, ReadGrows DEF MisplacedQuote, FailAt, Fail
  <2> QED BY <1>1, <2>1, <2>2, <2>3 DEF ReadQuote
<1>2. ASSUME NEW b \in {"lbracket", "rbracket"}, Bracket(b) PROVE TypeOK'
  BY <1>2, ReadGrows DEF Bracket
<1>3. CASE UnexpectedBracket
  BY <1>3, ReadGrows DEF UnexpectedBracket, FailAt, Fail
<1>4. CASE LeadingBlank
  BY <1>4, ReadGrows DEF LeadingBlank
<1>5. CASE EndMnemonic
  BY <1>5, ReadGrows DEF EndMnemonic, StoreMnemonic
<1>a. ASSUME NEW ch, Read(ch), ~ArgvFull, StoreArgument PROVE TypeOK'
  <2>1. argv' \in Seq(Arg) /\ Len(argv') <= LINE_ARG_MAX
    BY <1>a, StoredArgument
  <2> QED BY <1>a, ReadGrows, <2>1 DEF StoreArgument, ArgvFull, ArgTypes
<1>6. CASE Comma
  BY <1>6, <1>a DEF Comma
<1>7. CASE CommaFails
  BY <1>7, ReadGrows DEF CommaFails, FailAt, Fail
<1>8. CASE Newline
  <2>1. CASE StoreMnemonic
    BY <1>8, <2>1, ReadGrows DEF Newline, StoreMnemonic
  <2>2. CASE ~ArgvFull /\ StoreArgument
    BY <1>8, <2>2, <1>a DEF Newline
  <2> QED BY <1>8, <2>1, <2>2 DEF Newline
<1>9. CASE NewlineFails
  BY <1>9, ReadGrows DEF NewlineFails, FailAt, Fail
<1>10. CASE Colon
  BY <1>10, ReadGrows DEF Colon
<1>11. CASE ColonFails
  BY <1>11, ReadGrows DEF ColonFails, FailAt, Fail
<1>12. CASE Semicolon
  BY <1>12, ReadGrows DEF Semicolon
<1>13. ASSUME NEW ch \in Alphabet, PassOver(ch) PROVE TypeOK'
  BY <1>13, ReadGrows DEF PassOver
<1>14. CASE EndOfBuffer
  BY <1>14 DEF EndOfBuffer
<1>15. CASE Finished \/ UNCHANGED vars
  BY <1>15 DEF Finished, vars
<1> QED
  BY <1>1, <1>2, <1>3, <1>4, <1>5, <1>6, <1>7, <1>8, <1>9, <1>10, <1>11,
     <1>12, <1>13, <1>14, <1>15 DEF Next

\* parse_line never leaves its buffer or argv: the pointer to the current
\* field stays inside the text or just behind it, every position overwritten
\* or stored is one that was read, and argv holds at most LINE_ARG_MAX
\* arguments (the test of argc before each store).
THEOREM TypeCorrect == Spec => []TypeOK
<1>1. Init => TypeOK
  BY LimitsAssumption DEF Init, TypeOK, ArgTypes, Arg, Messages
<1> QED BY <1>1, TypeStep, PTL DEF Spec

-----------------------------------------------------------------------------
(* FieldsSeparated is not inductive: it must be known that a mnemonic is   *)
(* stored once, before every argument and after no other, which the code   *)
(* tells by the flag in line_state rather than by the field.               *)

StoredInOrder ==
    /\ Has("MNEMONIC") <=> mnemonic # 0
    /\ mnemonic = 0 => argv = <<>>

FieldsInv == TypeOK /\ StoredInOrder /\ FieldsSeparated

\* Fields that are apart stay apart when NULs are added and the current field
\* starts later.
LEMMA StaySeparated ==
    ASSUME FieldsInv, TypeOK', StoredInOrder', UNCHANGED fields,
           nul \subseteq nul', buffer <= buffer'
    PROVE  FieldsInv'
  <1>1. /\ label' = label /\ mnemonic' = mnemonic /\ argv' = argv
        /\ {label, mnemonic, buffer, buffer'} \subseteq Nat /\ nul' \subseteq Nat
        /\ \A n \in DOMAIN argv : argv[n].str \in Nat
    <2>1. \A n \in DOMAIN argv : argv[n] \in Arg
      BY ElementOfSeq DEF FieldsInv, TypeOK
    <2>2. \A n \in DOMAIN argv : argv[n].str \in Nat
      BY <2>1 DEF Arg
    <2>3. /\ {label, mnemonic, buffer} \subseteq Nat
          /\ label' = label /\ mnemonic' = mnemonic /\ argv' = argv
      BY DEF FieldsInv, TypeOK, fields
    <2>4. buffer' \in Nat /\ nul' \in SUBSET (1 .. Len(text')) /\ Len(text') \in Nat
      BY LenProperties DEF TypeOK
    <2> QED BY <2>2, <2>3, <2>4
  <1>2. \A p, q \in Nat : EndsBefore(nul, p, q) => EndsBefore(nul', p, q)
    BY <1>1 DEF EndsBefore
  <1>3. \A p \in Nat : EndsBefore(nul, p, buffer) => EndsBefore(nul', p, buffer')
    BY <1>1 DEF EndsBefore
  <1> QED BY <1>1, <1>2, <1>3 DEF FieldsInv, FieldsSeparated, Separated

\* Every step keeps FieldsInv.
LEMMA FieldsStep == ASSUME FieldsInv, [Next]_vars PROVE FieldsInv'
<1> TypeOK'
  BY TypeStep DEF FieldsInv
<1>t. /\ Len(text) \in Nat /\ buffer \in 1 .. Len(text) + 1
      /\ label \in 0 .. Len(text) /\ mnemonic \in 0 .. Len(text)
      /\ nul \in SUBSET (1 .. Len(text)) /\ c = Len(text) + 1
  BY LenProperties DEF FieldsInv, TypeOK, c
<1>k. ASSUME UNCHANGED fields, nul \subseteq nul', buffer <= buffer',
             "MNEMONIC" \in line_state' <=> "MNEMONIC" \in line_state
      PROVE  FieldsInv'
  <2>1. StoredInOrder'
    BY <1>k DEF FieldsInv, StoredInOrder, Has, fields
  <2> QED BY <1>k, <2>1, StaySeparated
<1>f. ASSUME NEW msg, Fail(msg) PROVE FieldsInv'
  <2>1. UNCHANGED fields /\ nul' = nul /\ buffer' = buffer /\ line_state' = line_state
    BY <1>f DEF Fail, fields
  <2> QED BY <2>1, <1>k, <1>t
<1>m. ASSUME StoreMnemonic, ~Has("MNEMONIC") PROVE FieldsInv'
  <2>1. mnemonic = 0 /\ argv = <<>>
    BY <1>m DEF FieldsInv, StoredInOrder
  <2>2. /\ mnemonic' = buffer /\ mnemonic' # 0 /\ label' = label /\ argv' = <<>>
        /\ c \in nul' /\ nul \subseteq nul' /\ buffer' = c + 1
    BY <1>m, <1>t, <2>1 DEF StoreMnemonic
  <2>3. Separated(mnemonic, buffer)'
    BY <2>2, <1>t DEF Separated, EndsBefore
  <2>4. label # 0 => Separated(label, mnemonic)'
    BY <2>1, <2>2 DEF FieldsInv, FieldsSeparated, Separated, EndsBefore
  <2>5. StoredInOrder'
    BY <1>m, <2>2 DEF StoredInOrder, StoreMnemonic, Has
  <2> QED BY <2>2, <2>3, <2>4, <2>5 DEF FieldsInv, FieldsSeparated
<1>a. ASSUME StoreArgument, Has("MNEMONIC") PROVE FieldsInv'
  <2>1. mnemonic # 0
    BY <1>a DEF FieldsInv, StoredInOrder
  <2>2. /\ mnemonic' = mnemonic /\ label' = label
        /\ c \in nul' /\ nul \subseteq nul' /\ buffer' = c + 1
    BY <1>a DEF StoreArgument
  <2>3. /\ \A p, q \in Nat : EndsBefore(nul, p, q) => EndsBefore(nul', p, q)
        /\ \A p \in 0 .. c : EndsBefore(nul', p, buffer')
        /\ \A p \in Nat : EndsBefore(nul, p, buffer) => p \in 0 .. c
    BY <2>2, <1>t DEF EndsBefore
  <2>4. /\ Len(argv) \in Nat /\ DOMAIN argv = 1 .. Len(argv)
        /\ DOMAIN argv' = 1 .. Len(argv) + 1
        /\ \A n \in DOMAIN argv : argv'[n] = argv[n] /\ argv[n].str \in Nat
        /\ argv'[Len(argv) + 1].str = buffer
    <3> DEFINE arg == [type |-> arg_type, str |-> buffer]
    <3>1. argv \in Seq(Arg) /\ arg \in Arg /\ arg.str = buffer
      BY <1>t DEF FieldsInv, TypeOK, Arg
    <3>2. argv' = Append(argv, arg)
      BY <1>a DEF StoreArgument
    <3> HIDE DEF arg
    <3>3. \A n \in 1 .. Len(argv) : argv[n] \in Arg
      BY <3>1, ElementOfSeq
    <3> QED BY <3>1, <3>2, <3>3, AppendProperties, LenProperties DEF Arg
  <2>5. StoredInOrder'
    BY <1>a, <2>1, <2>2 DEF StoredInOrder, StoreArgument, Has
  <2>6. /\ EndsBefore(nul, mnemonic, buffer)
        /\ label # 0 => EndsBefore(nul, label, mnemonic)
        /\ \A n \in DOMAIN argv :
              /\ EndsBefore(nul, mnemonic, argv[n].str)
              /\ EndsBefore(nul, argv[n].str, buffer)
              /\ \A j \in DOMAIN argv : n < j => EndsBefore(nul, argv[n].str, argv[j].str)
    BY <2>1 DEF FieldsInv, FieldsSeparated, Separated
  <2>7. ASSUME NEW n \in 1 .. Len(argv) + 1
        PROVE  /\ EndsBefore(nul', mnemonic, argv'[n].str)
               /\ EndsBefore(nul', argv'[n].str, buffer')
    <3>1. CASE n \in DOMAIN argv
      BY <3>1, <1>t, <2>3, <2>4, <2>6
    <3>2. CASE n = Len(argv) + 1
      BY <3>2, <1>t, <2>3, <2>4, <2>6
    <3> QED BY <2>4, <3>1, <3>2
  <2>8. ASSUME NEW n \in 1 .. Len(argv) + 1, NEW j \in 1 .. Len(argv) + 1, n < j
        PROVE  EndsBefore(nul', argv'[n].str, argv'[j].str)
    <3>1. CASE j \in DOMAIN argv
      BY <2>8, <3>1, <2>3, <2>4, <2>6
    <3>2. CASE j = Len(argv) + 1
      BY <2>8, <3>2, <1>t, <2>3, <2>4, <2>6
    <3> QED BY <2>4, <3>1, <3>2
  <2>9. FieldsSeparated'
    BY <1>t, <2>1, <2>2, <2>3, <2>4, <2>6, <2>7, <2>8 DEF FieldsSeparated, Separated
  <2> QED BY <2>5, <2>9 DEF FieldsInv
<1>1. ASSUME NEW q \in Quotes, ReadQuote(q) PROVE FieldsInv'
  <2>1. CASE OpenQuote(q)
    BY <2>1, <1>k, <1>t DEF OpenQuote, QuoteFlag
  <2>2. CASE CloseQuote(q)
    BY <2>2, <1>k, <1>t DEF CloseQuote, QuoteFlag
  <2>3. CASE MisplacedQuote(q)
    BY <2>3, <1>f DEF MisplacedQuote, FailAt
  <2> QED BY <1>1, <2>1, <2>2, <2>3 DEF ReadQuote
<1>2. ASSUME NEW b \in {"lbracket", "rbracket"}, Bracket(b) PROVE FieldsInv'
  BY <1>2, <1>k, <1>t DEF Bracket
<1>3. CASE UnexpectedBracket \/ CommaFails \/ NewlineFails \/ ColonFails
  BY <1>3, <1>f DEF UnexpectedBracket, CommaFails, NewlineFails, ColonFails, FailAt
<1>4. CASE LeadingBlank
  BY <1>4, <1>k, <1>t DEF LeadingBlank
<1>5. CASE EndMnemonic \/ Comma \/ Newline
  BY <1>5, <1>m, <1>a DEF EndMnemonic, Comma, Newline
<1>6. CASE Colon
  <2>1. mnemonic = 0 /\ argv = <<>>
    BY <1>6 DEF Colon, FieldsInv, StoredInOrder
  <2>2. /\ mnemonic' = 0 /\ argv' = <<>> /\ label' = buffer
        /\ c \in nul' /\ buffer' = c + 1
    BY <1>6, <2>1 DEF Colon
  <2>3. Separated(label, buffer)'
    BY <2>2, <1>t DEF Separated, EndsBefore
  <2>4. StoredInOrder'
    BY <1>6, <2>2 DEF Colon, StoredInOrder, Has
  <2> QED BY <2>2, <2>3, <2>4 DEF FieldsInv, FieldsSeparated
<1>7. CASE Semicolon \/ (\E ch \in Alphabet : PassOver(ch)) \/ EndOfBuffer
  <2>1. CASE Semicolon
    BY <2>1, <1>k, <1>t DEF Semicolon
  <2>2. ASSUME NEW ch \in Alphabet, PassOver(ch) PROVE FieldsInv'
    BY <2>2, <1>k, <1>t DEF PassOver
  <2>3. CASE EndOfBuffer
    <3>1. UNCHANGED fields /\ nul' = nul /\ buffer' = buffer /\ line_state' = line_state
      BY <2>3 DEF EndOfBuffer
    <3> QED BY <3>1, <1>k, <1>t
  <2> QED BY <1>7, <2>1, <2>2, <2>3
<1>8. CASE Finished \/ UNCHANGED vars
  BY <1>8, <1>k, <1>t DEF Finished, vars, fields
<1> QED
  BY <1>1, <1>2, <1>3, <1>4, <1>5, <1>6, <1>7, <1>8 DEF Next

\* The label, the mnemonic and the arguments are disjoint strings in the order
\* of the line, each ended by a NUL before the next begins, on every line.
THEOREM FieldsAreSeparated == Spec => []FieldsSeparated
<1>1. Init => FieldsInv
  BY LimitsAssumption
  DEF Init, FieldsInv, FieldsSeparated, StoredInOrder, Has, TypeOK, ArgTypes, Messages
<1>2. FieldsInv => FieldsSeparated
  BY DEF FieldsInv
<1> QED BY <1>1, <1>2, FieldsStep, PTL DEF Spec

-----------------------------------------------------------------------------
(* Facts about texts: u agrees with t up to n when it is t with characters *)
(* added behind position n.                                                *)

Agree(t, u, n) == \A i \in 1 .. n : u[i] = t[i]

\* What Enclosing is defined by, and its values.
Enclosed == Quotes \cup {"none"}

\* Behind the first n characters of t, as the values of a function.
OpenUpTo(t, n, g) ==
    /\ g \in [0 .. n -> Enclosed] /\ g[0] = "none"
    /\ \A j \in 1 .. n : g[j] = After(g[j-1], t[j])

LEMMA AfterType == ASSUME NEW p \in Enclosed, NEW ch PROVE After(p, ch) \in Enclosed
  BY DEF After, Enclosed

\* There is such a function for every number of characters.
LEMMA OpenExists == ASSUME NEW t, NEW n \in Nat PROVE \E g : OpenUpTo(t, n, g)
  <1> DEFINE Bad == {k \in Nat : ~\E g : OpenUpTo(t, k, g)}
  <1> SUFFICES ASSUME Bad # {} PROVE FALSE
    OBVIOUS
  <1>1. PICK k \in Bad : \A m \in Bad : k <= m
    <2>1. Bad \in SUBSET Nat
      OBVIOUS
    <2> HIDE DEF Bad
    <2> QED BY <2>1, LeastNat
  <1>2. CASE k = 0
    <2>1. [j \in 0 .. 0 |-> "none"] \in [0 .. 0 -> Enclosed]
      BY DEF Enclosed
    <2>2. OpenUpTo(t, 0, [j \in 0 .. 0 |-> "none"])
      BY <2>1 DEF OpenUpTo
    <2> QED BY <1>1, <1>2, <2>2
  <1>3. CASE k # 0
    <2>1. k - 1 \in Nat /\ ~(k <= k - 1) /\ k \in Nat
      BY <1>1, <1>3
    <2>2. PICK h : OpenUpTo(t, k - 1, h)
      BY <1>1, <2>1
    <2> DEFINE g == [j \in 0 .. k |-> IF j = k THEN After(h[k-1], t[k]) ELSE h[j]]
    <2>3. /\ h \in [0 .. k-1 -> Enclosed] /\ h[0] = "none"
          /\ \A j \in 1 .. k-1 : h[j] = After(h[j-1], t[j])
      BY <2>2 DEF OpenUpTo
    <2>4. After(h[k-1], t[k]) \in Enclosed
      BY <2>1, <2>3, AfterType
    <2>5. \A j \in 0 .. k : j # k => j \in 0 .. k-1
      BY <2>1
    <2>6. g \in [0 .. k -> Enclosed] /\ g[0] = "none"
      BY <1>3, <2>1, <2>3, <2>4, <2>5
    <2>7. ASSUME NEW j \in 1 .. k PROVE g[j] = After(g[j-1], t[j])
      <3>1. j - 1 \in 0 .. k /\ j - 1 # k /\ j \in 0 .. k
        BY <2>1
      <3>2. g[j-1] = h[j-1]
        BY <3>1
      <3>3. CASE j = k
        BY <3>1, <3>2, <3>3
      <3>4. CASE j # k
        <4>1. j \in 1 .. k-1 /\ g[j] = h[j]
          BY <2>1, <3>1, <3>4
        <4> QED BY <2>3, <3>2, <4>1
      <3> QED BY <3>3, <3>4
    <2> HIDE DEF g
    <2>8. OpenUpTo(t, k, g)
      BY <2>6, <2>7 DEF OpenUpTo
    <2> QED BY <1>1, <2>8
  <1> QED BY <1>2, <1>3

\* Two of them agree as far as the texts do.
LEMMA OpenAgree ==
    ASSUME NEW t, NEW u, NEW n \in Nat, Agree(t, u, n), NEW a \in Nat, NEW b \in Nat,
           n <= a, n <= b, NEW g, NEW h, OpenUpTo(t, a, g), OpenUpTo(u, b, h)
    PROVE  \A j \in 0 .. n : h[j] = g[j]
  <1> DEFINE Bad == {k \in 0 .. n : h[k] # g[k]}
  <1> SUFFICES ASSUME Bad # {} PROVE FALSE
    OBVIOUS
  <1>1. PICK k \in Bad : \A m \in Bad : k <= m
    <2>1. Bad \in SUBSET Nat
      OBVIOUS
    <2> HIDE DEF Bad
    <2> QED BY <2>1, LeastNat
  <1>2. k # 0
    BY <1>1 DEF OpenUpTo
  <1>3. k - 1 \in 0 .. n /\ ~(k <= k - 1) /\ k \in 1 .. n /\ k \in 1 .. a /\ k \in 1 .. b
    BY <1>1, <1>2
  <1>4. h[k-1] = g[k-1]
    BY <1>1, <1>3
  <1>5. u[k] = t[k]
    BY <1>3 DEF Agree
  <1>6. h[k] = After(h[k-1], u[k]) /\ g[k] = After(g[k-1], t[k])
    BY <1>3 DEF OpenUpTo
  <1> QED BY <1>1, <1>4, <1>5, <1>6

\* The recursive function of Enclosing exists, so that its equations hold.
LEMMA EnclosingIs ==
    ASSUME NEW t
    PROVE  /\ Enclosing(t, 0) = "none"
           /\ \A n \in Nat : /\ Enclosing(t, n) \in Enclosed
                             /\ Enclosing(t, n + 1) = After(Enclosing(t, n), t[n+1])
  <1> DEFINE row(n) == CHOOSE g : OpenUpTo(t, n, g)
             f      == [n \in Nat |-> row(n)[n]]
             F(g)   == [j \in Nat |-> IF j = 0 THEN "none" ELSE After(g[j-1], t[j])]
             open   == CHOOSE g : g = F(g)
  <1>1. \A n \in Nat : OpenUpTo(t, n, row(n))
    BY OpenExists
  <1> HIDE DEF row
  <1>2. ASSUME NEW n \in Nat, n # 0 PROVE f[n] = After(f[n-1], t[n])
    <2>1. n - 1 \in Nat /\ n - 1 <= n /\ n \in 1 .. n /\ n - 1 \in 0 .. n - 1 /\ n - 1 <= n - 1
      BY <1>2
    <2>2. OpenUpTo(t, n, row(n)) /\ OpenUpTo(t, n - 1, row(n - 1))
      BY <1>1, <2>1
    <2>3. Agree(t, t, n - 1)
      BY DEF Agree
    <2>4. row(n)[n-1] = row(n-1)[n-1]
      <3> DEFINE x == n - 1
                 g == row(n)
                 h == row(n - 1)
      <3>1. x \in Nat /\ x <= n /\ x <= x /\ OpenUpTo(t, n, g) /\ OpenUpTo(t, x, h) /\ Agree(t, t, x)
        BY <2>1, <2>2, <2>3
      <3> HIDE DEF x, g, h
      <3>2. \A j \in 0 .. x : h[j] = g[j]
        BY <3>1, OpenAgree
      <3>3. x \in 0 .. x
        BY <3>1
      <3> QED BY <3>2, <3>3 DEF x, g, h
    <2>5. row(n)[n] = After(row(n)[n-1], t[n])
      BY <2>1, <2>2 DEF OpenUpTo
    <2> QED BY <2>1, <2>4, <2>5
  <1>3. f[0] = "none"
    BY <1>1 DEF OpenUpTo
  <1>4. \A n \in Nat : f[n] \in Enclosed
    BY <1>1 DEF OpenUpTo
  <1>5. f = F(f)
    <2>1. \A n \in Nat : f[n] = IF n = 0 THEN "none" ELSE After(f[n-1], t[n])
      BY <1>2, <1>3
    <2> HIDE DEF row
    <2> QED BY <2>1
  <1>6. open = F(open)
    <2> HIDE DEF f
    <2> QED BY <1>5
  <1>7. \A n \in Nat : Enclosing(t, n) = open[n]
    BY DEF Enclosing
  <1>8. open[0] = "none" /\ \A n \in Nat : n # 0 => open[n] = After(open[n-1], t[n])
    <2> HIDE DEF open
    <2> QED BY <1>6
  <1> HIDE DEF open
  <1>9. \A n \in Nat : open[n+1] = After(open[n], t[n+1])
    <2> TAKE n \in Nat
    <2>1. n + 1 \in Nat /\ n + 1 # 0 /\ (n + 1) - 1 = n
      OBVIOUS
    <2> QED BY <1>8, <2>1
  <1>10. \A n \in Nat : open[n] \in Enclosed
    <2> DEFINE Bad == {k \in Nat : open[k] \notin Enclosed}
    <2> SUFFICES ASSUME Bad # {} PROVE FALSE
      OBVIOUS
    <2>1. PICK k \in Bad : \A m \in Bad : k <= m
      <3>1. Bad \in SUBSET Nat
        OBVIOUS
      <3> HIDE DEF Bad
      <3> QED BY <3>1, LeastNat
    <2>2. k # 0
      BY <1>8, <2>1 DEF Enclosed
    <2>3. k - 1 \in Nat /\ ~(k <= k - 1)
      BY <2>1, <2>2
    <2>4. open[k-1] \in Enclosed
      BY <2>1, <2>3
    <2> QED BY <1>8, <2>1, <2>2, <2>4, AfterType
  <1> QED BY <1>7, <1>8, <1>9, <1>10

\* What lies outside of quotes is decided by the characters before it.
LEMMA EnclosingSame ==
    ASSUME NEW t, NEW u, NEW n \in Nat, Agree(t, u, n)
    PROVE  \A j \in 0 .. n : Enclosing(u, j) = Enclosing(t, j)
  <1> DEFINE Bad == {k \in 0 .. n : Enclosing(u, k) # Enclosing(t, k)}
  <1> SUFFICES ASSUME Bad # {} PROVE FALSE
    OBVIOUS
  <1>1. PICK k \in Bad : \A m \in Bad : k <= m
    <2>1. Bad \in SUBSET Nat
      OBVIOUS
    <2> HIDE DEF Bad
    <2> QED BY <2>1, LeastNat
  <1>2. k # 0
    BY <1>1, EnclosingIs
  <1>3. k - 1 \in 0 .. n /\ ~(k <= k - 1) /\ k \in 1 .. n /\ k - 1 \in Nat /\ (k - 1) + 1 = k
    BY <1>1, <1>2
  <1>4. Enclosing(u, k - 1) = Enclosing(t, k - 1)
    BY <1>1, <1>3
  <1>5. u[k] = t[k]
    BY <1>3 DEF Agree
  <1>6. /\ Enclosing(u, k) = After(Enclosing(u, k - 1), u[k])
        /\ Enclosing(t, k) = After(Enclosing(t, k - 1), t[k])
    <2>1. /\ Enclosing(u, (k - 1) + 1) = After(Enclosing(u, k - 1), u[(k - 1) + 1])
          /\ Enclosing(t, (k - 1) + 1) = After(Enclosing(t, k - 1), t[(k - 1) + 1])
      BY <1>3, EnclosingIs
    <2> QED BY <1>3, <2>1
  <1> QED BY <1>1, <1>4, <1>5, <1>6

LEMMA OutsideSame ==
    ASSUME NEW t, NEW u, NEW n \in Nat, Agree(t, u, n),
           NEW i \in Nat, 1 <= i, i <= n + 1
    PROVE  Outside(u, i) <=> Outside(t, i)
  <1>1. i - 1 \in 0 .. n
    OBVIOUS
  <1> QED BY <1>1, EnclosingSame DEF Outside

\* What one more character does.
LEMMA EnclosingNext ==
    ASSUME NEW t, NEW u, NEW n \in Nat, Agree(t, u, n)
    PROVE  /\ Outside(t, n + 1) <=> Enclosing(t, n) = "none"
           /\ Outside(u, n + 1) <=> Enclosing(t, n) = "none"
           /\ Outside(u, n + 2) <=> Enclosing(u, n + 1) = "none"
           /\ Enclosing(u, n + 1) = After(Enclosing(t, n), u[n+1])
           /\ Enclosing(t, n) \in Enclosed
  <1>1. (n + 1) - 1 = n /\ (n + 2) - 1 = n + 1 /\ n \in 0 .. n
    OBVIOUS
  <1>2. Enclosing(u, n) = Enclosing(t, n)
    BY <1>1, EnclosingSame
  <1> QED BY <1>1, <1>2, EnclosingIs DEF Outside

\* The least element of a set of numbers.
LEMMA MinIs ==
    ASSUME NEW S \in SUBSET Nat, NEW p \in S, \A j \in S : p <= j
    PROVE  Min(S) = p
  <1>1. Min(S) \in S /\ \A j \in S : Min(S) <= j
    BY DEF Min
  <1>2. p \in Nat /\ Min(S) \in Nat /\ Min(S) <= p /\ p <= Min(S)
    BY <1>1
  <1> HIDE DEF Min
  <1> QED BY <1>2

\* p is the first position from i on, up to n, that is not blank, or n + 1.
Skips(t, n, i, p) ==
    /\ i <= p /\ p <= n + 1
    /\ \A j \in i .. p-1 : t[j] = "blank"
    /\ p <= n => t[p] # "blank"

\* It is the same position in the longer text, if it is not the end of the shorter one.
LEMMA SkipsSame ==
    ASSUME NEW t, NEW u, NEW n \in Nat, NEW o \in Nat, n <= o, Agree(t, u, n),
           NEW i \in Nat, NEW p \in Nat, 1 <= i, Skips(t, n, i, p), p <= n \/ o = n
    PROVE  Skips(u, o, i, p)
  BY DEF Skips, Agree

\* There is one such position at most.
LEMMA SkipsUnique ==
    ASSUME NEW t, NEW n \in Nat, NEW i \in Nat, NEW p \in Nat, NEW r \in Nat,
           Skips(t, n, i, p), Skips(t, n, i, r)
    PROVE  p = r
  BY DEF Skips

\* It is the grammar's SkipBlanks.
LEMMA SkipBlanksIs ==
    ASSUME NEW t, NEW n \in Nat, Stop(t) = n + 1, NEW i \in Nat, NEW p \in Nat,
           Skips(t, n, i, p)
    PROVE  SkipBlanks(t, i) = p
  <1> DEFINE S == {j \in i .. n + 1 : j = n + 1 \/ t[j] # "blank"}
  <1>1. S \in SUBSET Nat /\ p \in S /\ \A j \in S : p <= j
    BY DEF Skips
  <1> HIDE DEF S
  <1>2. Min(S) = p
    BY <1>1, MinIs
  <1> QED BY <1>2 DEF SkipBlanks, S

\* There is such a position.
LEMMA SkipsExists ==
    ASSUME NEW t, NEW n \in Nat, NEW i \in Nat, i <= n + 1
    PROVE  \E p \in Nat : Skips(t, n, i, p)
  <1> DEFINE S == {j \in i .. n + 1 : j = n + 1 \/ t[j] # "blank"}
  <1>1. S \in SUBSET Nat /\ S # {}
    <2>1. n + 1 \in S
      OBVIOUS
    <2> QED BY <2>1
  <1>2. PICK p \in S : \A j \in S : p <= j
    BY <1>1, LeastNat
  <1>3. Skips(t, n, i, p)
    BY <1>2 DEF Skips
  <1> QED BY <1>2, <1>3

-----------------------------------------------------------------------------
(* What the scan has found in the characters 1 .. n of a text t, when the  *)
(* NULs are at the positions N: the colon k, the start m of the mnemonic,  *)
(* the sequence q of the cuts and the start f of the current field.        *)

\* The C string at p ends at e.
CString(N, p, e) == e \in N /\ p <= e /\ \A j \in p .. e-1 : j \notin N

Quoted(t, n, s) == s <= n /\ t[s] \in Quotes

\* The quotes of the field that starts at s are closed at e.
ClosedAt(t, N, s, e) ==
    /\ t[e] = t[s]
    /\ \A j \in s+1 .. e-1 : t[j] # t[s]
    /\ CString(N, s + 1, e)

\* The pointer p is to the string of the field that starts at s and is cut at z.
Points(t, N, p, s, z) ==
    IF s < z /\ t[s] \in Quotes
    THEN p = s + 1 /\ \E e \in s+1 .. z-1 : ClosedAt(t, N, s, e)
    ELSE p = s /\ CString(N, s, z)

ColonPart(t, n, k) == \A p \in 1 .. n : t[p] = "colon" /\ Outside(t, p) <=> p = k

LabelPart(t, n, N, l, k) ==
    /\ l \in 0 .. n /\ k \in 0 .. n
    /\ l = 0 <=> k = 0
    /\ k # 0 => /\ Skips(t, n, 1, l) /\ l <= k
                /\ CString(N, l, k)
                /\ t[l] \notin Quotes
                /\ \A j \in l .. k : t[j] # "blank"

MnemonicPart(t, n, N, p, k, m, z) ==
    /\ Skips(t, n, k + 1, m) /\ m < z /\ z <= n
    /\ Points(t, N, p, m, z)
    /\ t[z] = "blank" /\ Outside(t, z)
    /\ \A j \in m .. z-1 : t[j] = "blank" => ~Outside(t, j)

CutsPart(t, n, q) ==
    /\ \A i \in 1 .. Len(q) : q[i] \in 1 .. n
    /\ \A i, j \in 1 .. Len(q) : i < j => q[i] < q[j]
    /\ \A p \in 1 .. n :
          t[p] = "comma" /\ Outside(t, p) <=> \E i \in 2 .. Len(q) : q[i] = p

\* The argument a is the i-th, between the cuts y and z.
ArgPart(t, n, N, a, m, i, y, z) ==
    \E s \in Nat :
       /\ Skips(t, n, y + 1, s) /\ s <= z
       /\ Points(t, N, a.str, s, z)
       /\ a.type = IF Quoted(t, n, s) \/ (i = 1 /\ t[m] \in Quotes)
                   THEN "STRING" ELSE "UNPROCESSED"

ArgsPart(t, n, N, av, m, q) ==
    \A i \in 1 .. Len(av) : ArgPart(t, n, N, av[i], m, i, q[i], q[i+1])

\* Where the current field begins, with the blanks before it.
Base(k, q) == IF q = <<>> THEN k + 1 ELSE q[Len(q)] + 1

\* The quote of the string that the flags fl say is open.
Open(fl) == IF "DOUBLE_QUOTE" \in fl THEN "dquote"
            ELSE IF "SINGLE_QUOTE" \in fl THEN "squote" ELSE "none"
InString(fl) == Open(fl) # "none"

\* b points to the current field, the flags fl tell whether its quotes are open.
FieldPart(t, n, N, b, fl, k, q, f) ==
    /\ Skips(t, n, Base(k, q), f)
    /\ Outside(t, f)
    /\ Open(fl) = Enclosing(t, n)
    /\ IF Quoted(t, n, f)
       THEN /\ b = f + 1
            /\ IF InString(fl)
               THEN /\ Open(fl) = t[f]
                    /\ \A j \in f+1 .. n : t[j] # t[f]
                    /\ \A j \in f .. n : j \notin N
               ELSE \E e \in f+1 .. n : ClosedAt(t, N, f, e)
       ELSE /\ b = f /\ ~InString(fl)
            /\ \A j \in f .. n : j \notin N
            /\ q = <<>> => \A j \in f .. n : t[j] # "blank"
    /\ q = <<>> => \A j \in f .. n : t[j] = "blank" => ~Outside(t, j)

TypePart(t, n, ty, m, q, f) ==
    ty = IF Quoted(t, n, f) \/ (Len(q) = 1 /\ t[m] \in Quotes)
         THEN "STRING" ELSE "UNPROCESSED"

Bases(k, q) == {1, k + 1} \cup {q[i] + 1 : i \in 1 .. Len(q)}

QuotesPart(t, n, fl, k, q, f) ==
    \A i \in 1 .. n : t[i] \in Quotes /\ Outside(t, i) =>
        /\ \E j \in Bases(k, q) : Skips(t, n, j, i)
        /\ (i = f /\ InString(fl)) \/ \E e \in i+1 .. n : t[e] = t[i]

BracketsPart(t, n) == \A i \in 1 .. n : t[i] = "rbracket" => ~Outside(t, i)

\* N2 has the NULs of N up to n.
SameNuls(N, N2, n) == \A i \in 1 .. n : i \in N2 <=> i \in N

\* Each part of what was found stays true of the longer text.
LEMMA PointsSame ==
    ASSUME NEW t, NEW u, NEW n \in Nat, Agree(t, u, n),
           NEW N, NEW N2, SameNuls(N, N2, n),
           NEW p \in Nat, NEW s \in Nat, NEW z \in Nat, 1 <= s, s <= z, z <= n
    PROVE  Points(t, N, p, s, z) => Points(u, N2, p, s, z)
  <1>1. \A x, e \in Nat : 1 <= x /\ e <= n /\ CString(N, x, e) => CString(N2, x, e)
    BY DEF CString, SameNuls
  <1>2. \A e \in s+1 .. z-1 : ClosedAt(t, N, s, e) => ClosedAt(u, N2, s, e)
    BY <1>1 DEF ClosedAt, Agree
  <1>3. u[s] = t[s]
    BY DEF Agree
  <1> QED BY <1>1, <1>2, <1>3 DEF Points

\* The label.
LEMMA LabelSame ==
    ASSUME NEW t, NEW u, NEW n \in Nat, NEW o \in Nat, n <= o, Agree(t, u, n),
           NEW N, NEW N2, SameNuls(N, N2, n), NEW l, NEW k,
           LabelPart(t, n, N, l, k)
    PROVE  LabelPart(u, o, N2, l, k)
  <1>1. l \in 0 .. n /\ k \in 0 .. n /\ (l = 0 <=> k = 0)
    BY DEF LabelPart
  <1>2. ASSUME k # 0
        PROVE  /\ Skips(u, o, 1, l) /\ l <= k
               /\ CString(N2, l, k)
               /\ u[l] \notin Quotes
               /\ \A j \in l .. k : u[j] # "blank"
    <2>1. l \in 1 .. n /\ k \in 1 .. n /\ l <= k /\ Skips(t, n, 1, l)
      BY <1>1, <1>2 DEF LabelPart
    <2>2. Skips(u, o, 1, l)
      BY <2>1, SkipsSame
    <2>3. /\ CString(N, l, k) /\ t[l] \notin Quotes /\ \A j \in l .. k : t[j] # "blank"
      BY <1>2 DEF LabelPart
    <2> QED BY <2>1, <2>2, <2>3 DEF CString, SameNuls, Agree
  <1> QED BY <1>1, <1>2 DEF LabelPart

\* The mnemonic.
LEMMA MnemonicSame ==
    ASSUME NEW t, NEW u, NEW n \in Nat, NEW o \in Nat, n <= o, Agree(t, u, n),
           NEW N, NEW N2, SameNuls(N, N2, n),
           NEW p \in Nat, NEW k \in Nat, NEW m \in Nat, NEW z \in Nat,
           MnemonicPart(t, n, N, p, k, m, z)
    PROVE  MnemonicPart(u, o, N2, p, k, m, z)
  <1>1. Skips(t, n, k + 1, m) /\ m < z /\ z <= n /\ k + 1 <= m
    BY DEF MnemonicPart, Skips
  <1>2. Skips(u, o, k + 1, m)
    BY <1>1, SkipsSame
  <1>3. Points(u, N2, p, m, z)
    BY <1>1, PointsSame DEF MnemonicPart
  <1>4. \A j \in m .. z : u[j] = t[j] /\ (Outside(u, j) <=> Outside(t, j))
    <2>1. \A j \in m .. z : j \in Nat /\ 1 <= j /\ j <= n + 1 /\ j \in 1 .. n
      BY <1>1
    <2> QED BY <2>1, OutsideSame DEF Agree
  <1> QED BY <1>1, <1>2, <1>3, <1>4 DEF MnemonicPart

\* An argument.
LEMMA ArgSame ==
    ASSUME NEW t, NEW u, NEW n \in Nat, NEW o \in Nat, n <= o, Agree(t, u, n),
           NEW N, NEW N2, SameNuls(N, N2, n), NEW a, a.str \in Nat,
           NEW m \in 1 .. n, NEW i \in Nat, NEW y \in Nat, NEW z \in 1 .. n,
           ArgPart(t, n, N, a, m, i, y, z)
    PROVE  ArgPart(u, o, N2, a, m, i, y, z)
  <1>1. PICK s \in Nat :
           /\ Skips(t, n, y + 1, s) /\ s <= z
           /\ Points(t, N, a.str, s, z)
           /\ a.type = IF Quoted(t, n, s) \/ (i = 1 /\ t[m] \in Quotes)
                       THEN "STRING" ELSE "UNPROCESSED"
    BY DEF ArgPart
  <1>2. s \in 1 .. n
    BY <1>1 DEF Skips
  <1>3. Skips(u, o, y + 1, s)
    BY <1>1, <1>2, SkipsSame
  <1>4. Points(u, N2, a.str, s, z)
    BY <1>1, <1>2, PointsSame
  <1>5. Quoted(u, o, s) <=> Quoted(t, n, s)
    BY <1>2 DEF Quoted, Agree
  <1>6. u[m] = t[m]
    BY DEF Agree
  <1> QED BY <1>1, <1>3, <1>4, <1>5, <1>6 DEF ArgPart

\* All arguments.
LEMMA ArgsSame ==
    ASSUME NEW t, NEW u, NEW n \in Nat, NEW o \in Nat, n <= o, Agree(t, u, n),
           NEW N, NEW N2, SameNuls(N, N2, n), NEW av \in Seq(Arg),
           NEW m, NEW q \in Seq(Nat), CutsPart(t, n, q),
           Len(av) = IF q = <<>> THEN 0 ELSE Len(q) - 1,
           q # <<>> => m \in 1 .. n,
           ArgsPart(t, n, N, av, m, q)
    PROVE  ArgsPart(u, o, N2, av, m, q)
  <1> SUFFICES ASSUME NEW i \in 1 .. Len(av)
               PROVE  ArgPart(u, o, N2, av[i], m, i, q[i], q[i+1])
    BY DEF ArgsPart
  <1>1. Len(av) \in Nat /\ Len(q) \in Nat /\ q # <<>> /\ Len(av) = Len(q) - 1
    BY LenProperties
  <1>2. q[i] \in 1 .. n /\ q[i+1] \in 1 .. n
    BY <1>1 DEF CutsPart
  <1>3. av[i] \in Arg
    BY ElementOfSeq
  <1>4. av[i].str \in Nat
    BY <1>3 DEF Arg
  <1>5. ArgPart(t, n, N, av[i], m, i, q[i], q[i+1])
    BY DEF ArgsPart
  <1>6. m \in 1 .. n /\ q[i] \in Nat /\ i \in Nat
    BY <1>1, <1>2
  <1> DEFINE a == av[i]
             y == q[i]
             z == q[i+1]
  <1>7. ArgPart(t, n, N, a, m, i, y, z) /\ a.str \in Nat /\ y \in Nat /\ z \in 1 .. n
    BY <1>2, <1>4, <1>5, <1>6
  <1> HIDE DEF a, y, z
  <1>8. ArgPart(u, o, N2, a, m, i, y, z)
    BY <1>6, <1>7, ArgSame
  <1> QED BY <1>8 DEF a, y, z

\* A character that does not cut leaves the colon and the cuts as they are.
LEMMA ColonSame ==
    ASSUME NEW t, NEW u, NEW n \in Nat, Agree(t, u, n), NEW k \in Nat, k <= n,
           ColonPart(t, n, k), u[n+1] # "colon" \/ ~Outside(t, n + 1)
    PROVE  ColonPart(u, n + 1, k)
  <1>1. \A p \in 1 .. n+1 : Outside(u, p) <=> Outside(t, p)
    BY OutsideSame
  <1> QED BY <1>1 DEF ColonPart, Agree

\* The cuts.
LEMMA CutsSame ==
    ASSUME NEW t, NEW u, NEW n \in Nat, Agree(t, u, n), NEW q \in Seq(Nat),
           CutsPart(t, n, q), u[n+1] # "comma" \/ ~Outside(t, n + 1)
    PROVE  CutsPart(u, n + 1, q)
  <1>1. \A p \in 1 .. n+1 : Outside(u, p) <=> Outside(t, p)
    BY OutsideSame
  <1>2. Len(q) \in Nat
    BY LenProperties
  <1>3. /\ \A i \in 1 .. Len(q) : q[i] \in 1 .. n
        /\ \A i, j \in 1 .. Len(q) : i < j => q[i] < q[j]
    BY DEF CutsPart
  <1>4. ASSUME NEW p \in 1 .. n + 1
        PROVE  u[p] = "comma" /\ Outside(u, p) <=> \E i \in 2 .. Len(q) : q[i] = p
    <2>1. CASE p \in 1 .. n
      <3>1. u[p] = t[p]
        BY <2>1 DEF Agree
      <3> QED BY <1>1, <2>1, <3>1 DEF CutsPart
    <2>2. CASE p = n + 1
      BY <1>1, <1>2, <1>3, <2>2
    <2> QED BY <2>1, <2>2
  <1>5. \A i \in 1 .. Len(q) : q[i] \in 1 .. n + 1
    BY <1>3
  <1> QED BY <1>3, <1>4, <1>5 DEF CutsPart

\* The same prefix, seen as a part of another text.
LEMMA PrefixSame ==
    ASSUME NEW t, NEW u, NEW n \in Nat, Agree(t, u, n), NEW k, NEW q
    PROVE  /\ ColonPart(t, n, k) => ColonPart(u, n, k)
           /\ CutsPart(t, n, q) => CutsPart(u, n, q)
  <1>1. \A p \in 1 .. n : u[p] = t[p] /\ (Outside(u, p) <=> Outside(t, p))
    BY OutsideSame DEF Agree
  <1> QED BY <1>1 DEF ColonPart, CutsPart

-----------------------------------------------------------------------------
(* The grammar's places in a text, from what the scan has found.           *)

\* The characters 1 .. n are the text before its tail.
Body(t, n) ==
    /\ t \in Seq(Alphabet) /\ Stop(t) = n + 1
    /\ Len(t) \in n .. n + 1
    /\ \A i \in n + 1 .. Len(t) : t[i] \in {"newline", "semicolon"}

\* The separators lie before the tail.
LEMMA SeparatorsIn ==
    ASSUME NEW t, NEW n \in Nat, Body(t, n), NEW ch, ch \notin {"newline", "semicolon"}
    PROVE  Separators(t, ch) = {p \in 1 .. n : t[p] = ch /\ Outside(t, p)}
  <1>1. DOMAIN t = 1 .. Len(t) /\ Len(t) \in n .. n + 1
    BY LenProperties DEF Body
  <1>2. \A p \in 1 .. Len(t) : t[p] = ch => p \in 1 .. n
    BY <1>1 DEF Body
  <1> QED BY <1>1, <1>2 DEF Separators

\* So do the quotes that open a string.
LEMMA OpeningsIn ==
    ASSUME NEW t, NEW n \in Nat, Body(t, n)
    PROVE  Openings(t) = {p \in 1 .. n : t[p] \in Quotes /\ Outside(t, p)}
  <1>1. DOMAIN t = 1 .. Len(t) /\ Len(t) \in n .. n + 1
    BY LenProperties DEF Body
  <1>2. \A p \in 1 .. Len(t) : t[p] \in Quotes => p \in 1 .. n
    BY <1>1 DEF Body, Quotes
  <1> QED BY <1>1, <1>2 DEF Openings

\* The colon that was found is the only one of the grammar.
LEMMA ColonsAre ==
    ASSUME NEW t, NEW n \in Nat, Body(t, n), NEW k \in 0 .. n, ColonPart(t, n, k)
    PROVE  /\ Colons(t) = IF k = 0 THEN {} ELSE {k}
           /\ k # 0 => Min(Colons(t)) = k
  <1>1. Colons(t) = {p \in 1 .. n : t[p] = "colon" /\ Outside(t, p)}
    BY SeparatorsIn DEF Colons
  <1>2. Colons(t) = IF k = 0 THEN {} ELSE {k}
    BY <1>1 DEF ColonPart
  <1>3. Min({k}) = k
    BY MinIs
  <1> QED BY <1>2, <1>3

\* The mnemonic starts where the scan found its start.
LEMMA StartIs ==
    ASSUME NEW t, NEW n \in Nat, Body(t, n), NEW k \in 0 .. n, ColonPart(t, n, k),
           NEW m \in Nat, Skips(t, n, k + 1, m)
    PROVE  MnemonicStart(t) = m
  <1>1. SkipBlanks(t, k + 1) = m
    BY SkipBlanksIs DEF Body
  <1>2. MnemonicStart(t) = SkipBlanks(t, k + 1)
    BY ColonsAre DEF MnemonicStart
  <1> QED BY <1>1, <1>2

\* The mnemonic ends at z, or there is no blank behind it.
LEMMA EndIs ==
    ASSUME NEW t, NEW n \in Nat, Body(t, n), NEW k \in 0 .. n, ColonPart(t, n, k),
           NEW m \in Nat, Skips(t, n, k + 1, m), NEW z \in Nat, m <= z, z <= n + 1,
           z <= n => t[z] = "blank" /\ Outside(t, z),
           \A j \in m .. z-1 : t[j] = "blank" => ~Outside(t, j)
    PROVE  MnemonicEnd(t) = z
  <1> DEFINE S == {j \in m .. n + 1 : j = n + 1 \/ (t[j] = "blank" /\ Outside(t, j))}
  <1>3. S \in SUBSET Nat /\ z \in S /\ \A j \in S : z <= j
    OBVIOUS
  <1> HIDE DEF S
  <1>4. Min(S) = z
    BY <1>3, MinIs
  <1>5. MnemonicEnd(t) = Min(S)
    BY StartIs DEF MnemonicEnd, Body, S
  <1> QED BY <1>4, <1>5

\* Without a blank behind the mnemonic there are no cuts.
LEMMA NoCuts ==
    ASSUME NEW t, NEW n \in Nat, Body(t, n), NEW k \in 0 .. n, ColonPart(t, n, k),
           NEW f \in Nat, Skips(t, n, k + 1, f),
           \A j \in f .. n : t[j] = "blank" => ~Outside(t, j)
    PROVE  MnemonicEnd(t) = n + 1 /\ Cuts(t) = {} /\ Cardinality(Cuts(t)) = 0
  <1>1. f <= n + 1
    BY DEF Skips
  <1>2. MnemonicEnd(t) = n + 1
    BY <1>1, EndIs
  <1>3. Cuts(t) = {}
    BY <1>2 DEF Cuts, Body
  <1> QED BY <1>2, <1>3, FS_EmptySet

\* The cuts that were found are those of the grammar.
LEMMA CutsAre ==
    ASSUME NEW t, NEW n \in Nat, Body(t, n), NEW q \in Seq(Nat), q # <<>>,
           CutsPart(t, n, q), MnemonicEnd(t) = q[1]
    PROVE  Cuts(t) = Range(q)
  <1>1. Len(q) \in Nat /\ 1 \in 1 .. Len(q) /\ q[1] \in 1 .. n
    BY LenProperties, EmptySeq DEF CutsPart
  <1>3. Separators(t, "comma") = {q[i] : i \in 2 .. Len(q)}
    <2>1. Separators(t, "comma") = {r \in 1 .. n : t[r] = "comma" /\ Outside(t, r)}
      BY SeparatorsIn
    <2>2. \A r \in 1 .. n :
             t[r] = "comma" /\ Outside(t, r) <=> \E i \in 2 .. Len(q) : q[i] = r
      BY DEF CutsPart
    <2>3. \A i \in 2 .. Len(q) : q[i] \in 1 .. n
      BY <1>1 DEF CutsPart
    <2>4. \A r : r \in Separators(t, "comma") <=> \E i \in 2 .. Len(q) : q[i] = r
      BY <2>1, <2>2, <2>3
    <2> QED BY <2>4
  <1>4. Cuts(t) = {q[1]} \cup Separators(t, "comma")
    BY <1>1 DEF Cuts, Body
  <1>5. 1 .. Len(q) = {1} \cup 2 .. Len(q)
    BY <1>1
  <1>6. Range(q) = {q[i] : i \in 1 .. Len(q)}
    BY LenProperties DEF Range
  <1> QED BY <1>3, <1>4, <1>5, <1>6

\* An increasing sequence lists its elements by their ranks.
LEMMA Ranks ==
    ASSUME NEW q \in Seq(Nat), \A i, j \in 1 .. Len(q) : i < j => q[i] < q[j]
    PROVE  /\ Cardinality(Range(q)) = Len(q)
           /\ \A i \in 1 .. Len(q) : Nth(Range(q), i) = q[i]
  <1> DEFINE S == {q[i] : i \in 1 .. Len(q)}
             Low(l) == {q[i] : i \in 1 .. l}
  <1>1. Len(q) \in Nat /\ \A i \in 1 .. Len(q) : q[i] \in Nat
    BY LenProperties, ElementOfSeq
  <1>s. Range(q) = S
    BY LenProperties DEF Range
  <1>2. ASSUME NEW l \in 0 .. Len(q)
        PROVE  Cardinality(Low(l)) = l
    <2> DEFINE g == [i \in 1 .. l |-> q[i]]
    <2>1. g \in [1 .. l -> Low(l)] /\ \A i \in 1 .. l : g[i] = q[i]
      OBVIOUS
    <2>2. \A i, j \in 1 .. l : i # j => q[i] # q[j]
      BY <1>1
    <2>3. g \in Bijection(1 .. l, Low(l))
      <3>1. \A y \in Low(l) : \E i \in 1 .. l : g[i] = y
        OBVIOUS
      <3> QED BY <2>1, <2>2, <3>1 DEF Bijection, Injection, Surjection, IsInjective
    <2> HIDE DEF g
    <2>4. ExistsBijection(1 .. l, Low(l))
      BY <2>3 DEF ExistsBijection
    <2> QED BY <2>4, FS_CountingElements
  <1>3. Cardinality(S) = Len(q)
    BY <1>1, <1>2
  <1>4. ASSUME NEW i \in 1 .. Len(q)
        PROVE  Cardinality({y \in S : y < q[i]}) = i - 1
    <2>1. {y \in S : y < q[i]} = Low(i - 1)
      <3>1. \A j \in 1 .. Len(q) : q[j] < q[i] <=> j \in 1 .. i - 1
        <4> TAKE j \in 1 .. Len(q)
        <4>1. q[j] \in Nat /\ q[i] \in Nat /\ i \in Nat /\ j \in Nat
          BY <1>1
        <4>2. j < i => q[j] < q[i]
          OBVIOUS
        <4>3. i < j => q[i] < q[j]
          OBVIOUS
        <4> QED BY <4>1, <4>2, <4>3
      <3>2. 1 .. i - 1 \subseteq 1 .. Len(q)
        BY <1>1
      <3> QED BY <3>1, <3>2
    <2>2. i - 1 \in 0 .. Len(q)
      BY <1>1
    <2> QED BY <1>2, <2>1, <2>2
  <1>5. ASSUME NEW i \in 1 .. Len(q)
        PROVE  Nth(S, i) = q[i]
    <2>1. q[i] \in S
      OBVIOUS
    <2>2. ASSUME NEW y \in S, Cardinality({x \in S : x < y}) = i - 1
          PROVE  y = q[i]
      <3>1. PICK j \in 1 .. Len(q) : y = q[j]
        OBVIOUS
      <3>2. j - 1 = i - 1
        BY <1>4, <2>2, <3>1
      <3> QED BY <3>1, <3>2
    <2> HIDE DEF S
    <2> QED BY <1>4, <2>1, <2>2 DEF Nth
  <1> HIDE DEF S
  <1> QED BY <1>3, <1>5, <1>s

-----------------------------------------------------------------------------
(* What is stored is what the grammar says.                                *)

\* The C string at p in the text t with the NULs N.
CText(t, N, p) == SubSeq(t, p, Min({e \in N : e >= p}) - 1)

\* The C string of a field is the text of the field.
LEMMA FieldString ==
    ASSUME NEW t, NEW n \in Nat, Stop(t) = n + 1, NEW N \in SUBSET Nat,
           NEW p, NEW s \in Nat, NEW z \in Nat, s <= z, z <= n + 1,
           s = z /\ z <= n => t[z] \notin Quotes,
           Points(t, N, p, s, z)
    PROVE  CText(t, N, p) = FieldText(t, s, z)
  <1>1. \A x, e \in Nat : CString(N, x, e) => CText(t, N, x) = SubSeq(t, x, e - 1)
    <2> TAKE x, e \in Nat
    <2> HAVE CString(N, x, e)
    <2> DEFINE S == {d \in N : d >= x}
    <2>0. e \in N /\ x <= e /\ \A j \in x .. e-1 : j \notin N
      BY DEF CString
    <2>1. S \in SUBSET Nat /\ e \in S /\ \A d \in S : e <= d
      <3>1. ASSUME NEW d \in S, ~(e <= d) PROVE FALSE
        <4>1. d \in Nat /\ d \in x .. e-1 /\ d \in N
          BY <3>1
        <4> QED BY <2>0, <4>1
      <3> QED BY <2>0, <3>1
    <2> HIDE DEF S
    <2>2. Min(S) = e
      BY <2>1, MinIs
    <2> QED BY <2>2 DEF CText, S
  <1>2. CASE s < z /\ t[s] \in Quotes
    <2>1. IsQuoted(t, s)
      BY <1>2 DEF IsQuoted
    <2>2. p = s + 1
      BY <1>2 DEF Points
    <2>3. PICK e \in s+1 .. z-1 : ClosedAt(t, N, s, e)
      BY <1>2 DEF Points
    <2>4. e \in Nat
      BY <2>3
    <2> DEFINE S == {j \in s+1 .. z : j = z \/ t[j] = t[s]}
    <2>5. S \in SUBSET Nat /\ e \in S /\ \A j \in S : e <= j
      BY <2>3 DEF ClosedAt
    <2> HIDE DEF S
    <2>6. Min(S) = e
      BY <2>5, MinIs
    <2>7. FieldEnd(t, s, z) = e
      BY <2>1, <2>6 DEF FieldEnd, S
    <2>8. CString(N, s + 1, e)
      BY <2>3 DEF ClosedAt
    <2> QED BY <1>1, <2>1, <2>2, <2>4, <2>7, <2>8 DEF FieldText, FieldStart
  <1>3. CASE ~(s < z /\ t[s] \in Quotes)
    <2>1. ~IsQuoted(t, s)
      BY <1>3 DEF IsQuoted
    <2>2. p = s /\ CString(N, s, z)
      BY <1>3 DEF Points
    <2> QED BY <1>1, <2>1, <2>2 DEF FieldText, FieldStart, FieldEnd
  <1> QED BY <1>2, <1>3

\* The label is stored.
LEMMA LabelStored ==
    ASSUME NEW t, NEW n \in Nat, Body(t, n), NEW N \in SUBSET Nat,
           NEW l, NEW k, LabelPart(t, n, N, l, k), ColonPart(t, n, k)
    PROVE  Shape(t).label = IF l = 0 THEN {} ELSE {CText(t, N, l)}
  <1>1. l \in 0 .. n /\ k \in 0 .. n /\ (l = 0 <=> k = 0)
    BY DEF LabelPart
  <1>2. CASE k = 0
    BY <1>1, <1>2, ColonsAre DEF Shape
  <1>3. CASE k # 0
    <2>1. Colons(t) = {k} /\ Min(Colons(t)) = k
      BY <1>1, <1>3, ColonsAre
    <2>2. SkipBlanks(t, 1) = l
      BY <1>1, <1>3, SkipBlanksIs DEF LabelPart, Body
    <2>3. Points(t, N, l, l, k) /\ l <= k /\ l # 0
      BY <1>1, <1>3 DEF LabelPart, Points
    <2>4. t[l] \notin Quotes
      BY <1>3 DEF LabelPart
    <2>5. CText(t, N, l) = FieldText(t, l, k)
      BY <1>1, <2>3, <2>4, FieldString DEF Body
    <2> QED BY <2>1, <2>2, <2>3, <2>5 DEF Shape, LabelText
  <1> QED BY <1>2, <1>3

\* The i-th argument, from its cut y to the next one or the end.
LEMMA ArgStored ==
    ASSUME NEW t, NEW n \in Nat, Body(t, n), NEW N \in SUBSET Nat,
           NEW m \in 1 .. n, MnemonicStart(t) = m, NEW a, a.str \in Nat, NEW i \in Nat,
           NEW y \in Nat, NEW z \in Nat, z <= n + 1, z <= n => t[z] \notin Quotes,
           Nth(Cuts(t), i) = y, ArgEnd(t, i) = z,
           ArgPart(t, n, N, a, m, i, y, z)
    PROVE  /\ a.type = ArgType(t, i)
           /\ CText(t, N, a.str) = FieldText(t, ArgStart(t, i), ArgEnd(t, i))
  <1>1. PICK s \in Nat :
           /\ Skips(t, n, y + 1, s) /\ s <= z
           /\ Points(t, N, a.str, s, z)
           /\ a.type = IF Quoted(t, n, s) \/ (i = 1 /\ t[m] \in Quotes)
                       THEN "STRING" ELSE "UNPROCESSED"
    BY DEF ArgPart
  <1>2. ArgStart(t, i) = s
    BY <1>1, SkipBlanksIs DEF ArgStart, Body
  <1>4. (IsQuoted(t, s) <=> Quoted(t, n, s)) /\ (IsQuoted(t, m) <=> t[m] \in Quotes)
    BY DEF IsQuoted, Quoted, Body
  <1>5. CText(t, N, a.str) = FieldText(t, s, z)
    BY <1>1, FieldString DEF Body
  <1> QED BY <1>1, <1>2, <1>4, <1>5 DEF ArgType

\* A function on 1 .. n is a sequence.
LEMMA FunctionIsSeq ==
    ASSUME NEW n \in Nat, NEW S, NEW g \in [1 .. n -> S]
    PROVE  g \in Seq(S) /\ Len(g) = n
  OBVIOUS

\* The text before the tail with all that was found in it, q the cuts.
Found(t, n, N, l, p, k, m, q, f) ==
    /\ Body(t, n) /\ ColonPart(t, n, k) /\ LabelPart(t, n, N, l, k)
    /\ CutsPart(t, n, q)
    /\ IF q = <<>>
       THEN /\ Skips(t, n, k + 1, f)
            /\ \A j \in f .. n : t[j] = "blank" => ~Outside(t, j)
       ELSE MnemonicPart(t, n, N, p, k, m, q[1])

\* Where the mnemonic starts and ends.
LEMMA MnemonicIs ==
    ASSUME NEW t, NEW n \in Nat, NEW N, NEW l, NEW p, NEW k, NEW m \in Nat,
           NEW q \in Seq(Nat), NEW f \in Nat, Found(t, n, N, l, p, k, m, q, f)
    PROVE  /\ MnemonicStart(t) = IF q = <<>> THEN f ELSE m
           /\ MnemonicEnd(t) = IF q = <<>> THEN n + 1 ELSE q[1]
           /\ Cuts(t) = Range(q)
  <1>1. Body(t, n) /\ ColonPart(t, n, k) /\ k \in 0 .. n /\ CutsPart(t, n, q)
    BY DEF Found, LabelPart
  <1>2. Len(q) \in Nat /\ (q = <<>> <=> Len(q) = 0)
    BY LenProperties, EmptySeq
  <1>3. /\ MnemonicStart(t) = IF q = <<>> THEN f ELSE m
        /\ MnemonicEnd(t) = IF q = <<>> THEN n + 1 ELSE q[1]
        /\ Cuts(t) = Range(q)
    <2>1. CASE q = <<>>
      <3>1. Skips(t, n, k + 1, f) /\ \A j \in f .. n : t[j] = "blank" => ~Outside(t, j)
        BY <2>1 DEF Found
      <3>2. MnemonicStart(t) = f
        BY <1>1, <3>1, StartIs
      <3>3. MnemonicEnd(t) = n + 1 /\ Cuts(t) = {}
        BY <1>1, <3>1, NoCuts
      <3>4. Range(q) = {}
        BY <2>1 DEF Range
      <3> QED BY <2>1, <3>2, <3>3, <3>4
    <2>2. CASE q # <<>>
      <3>1. MnemonicPart(t, n, N, p, k, m, q[1])
        BY <2>2 DEF Found
      <3>2. MnemonicStart(t) = m
        BY <1>1, <3>1, StartIs DEF MnemonicPart
      <3>3. q[1] \in 1 .. n
        BY <1>1, <1>2, <2>2 DEF CutsPart
      <3>4. MnemonicEnd(t) = q[1]
        BY <1>1, <3>1, <3>3, EndIs DEF MnemonicPart
      <3>5. Cuts(t) = Range(q)
        BY <1>1, <2>2, <3>4, CutsAre
      <3> QED BY <2>2, <3>2, <3>4, <3>5
    <2> QED BY <2>1, <2>2
  <1> QED BY <1>3

\* The i-th cut.
LEMMA CutIs ==
    ASSUME NEW t, NEW n, NEW q \in Seq(Nat), CutsPart(t, n, q), Cuts(t) = Range(q)
    PROVE  /\ Cardinality(Cuts(t)) = Len(q)
           /\ \A i \in 1 .. Len(q) : Nth(Cuts(t), i) = q[i]
  <1>1. \A i, j \in 1 .. Len(q) : i < j => q[i] < q[j]
    BY DEF CutsPart
  <1> QED BY <1>1, Ranks

\* A line has as many arguments as cuts.
LEMMA ArgsAre ==
    ASSUME NEW t, NEW n, NEW q \in Seq(Nat), CutsPart(t, n, q), Cuts(t) = Range(q)
    PROVE  /\ DOMAIN ArgsOf(t) = 1 .. Len(q) /\ Len(ArgsOf(t)) = Len(q)
           /\ ArgsOf(t) = <<>> <=> q = <<>>
  <1>1. Cardinality(Cuts(t)) = Len(q)
    BY CutIs
  <1>2. Len(q) \in Nat /\ (q = <<>> <=> Len(q) = 0)
    BY LenProperties, EmptySeq
  <1>3. DOMAIN ArgsOf(t) = 1 .. Len(q) /\ Len(ArgsOf(t)) = Len(q)
    <2> DEFINE A == ArgsOf(t)
               V == {A[i] : i \in 1 .. Len(q)}
    <2>1. DOMAIN A = 1 .. Len(q) /\ A = [i \in 1 .. Len(q) |-> A[i]]
      BY <1>1 DEF ArgsOf
    <2> HIDE DEF A
    <2>2. A \in [1 .. Len(q) -> V]
      BY <2>1
    <2>3. Len(A) = Len(q)
      BY <1>2, <2>2, FunctionIsSeq
    <2> QED BY <2>1, <2>3 DEF A
  <1>4. ArgsOf(t) = <<>> <=> q = <<>>
    <2>1. CASE q = <<>>
      <3>1. DOMAIN ArgsOf(t) = {}
        BY <1>2, <1>3, <2>1
      <3>2. ArgsOf(t) = <<>>
        BY <3>1 DEF ArgsOf
      <3> QED BY <2>1, <3>2
    <2>2. CASE q # <<>>
      BY <1>2, <1>3, <2>2
    <2> QED BY <2>1, <2>2
  <1> QED BY <1>3, <1>4

\* The arguments av, of which the last may extend to the end of the text.
ArgsUpTo(t, n, N, av, m, q) ==
    \A i \in 1 .. Len(av) :
       ArgPart(t, n, N, av[i], m, i, q[i], IF i = Len(q) THEN n + 1 ELSE q[i+1])

\* The stored arguments av are the first ones of the line.
Texts(t, N, av) ==
    [i \in DOMAIN av |-> [type |-> av[i].type, str |-> CText(t, N, av[i].str)]]

\* The arguments that are stored are the first ones of the line.
LEMMA ArgsStored ==
    ASSUME NEW t, NEW n \in Nat, Body(t, n), NEW N \in SUBSET Nat,
           NEW q \in Seq(Nat), CutsPart(t, n, q), Cuts(t) = Range(q),
           NEW m, q # <<>> => m \in 1 .. n /\ MnemonicStart(t) = m,
           NEW av \in Seq(Arg), Len(av) \in 0 .. Len(q),
           ArgsUpTo(t, n, N, av, m, q)
    PROVE  Texts(t, N, av) = SubSeq(ArgsOf(t), 1, Len(av))
  <1>0. /\ Cardinality(Cuts(t)) = Len(q)
        /\ \A i \in 1 .. Len(q) : Nth(Cuts(t), i) = q[i]
    BY CutIs
  <1> DEFINE A == ArgsOf(t)
             V == {A[i] : i \in 1 .. Len(q)}
             X == Texts(t, N, av)
  <1>1. /\ Len(q) \in Nat /\ Len(av) \in Nat /\ DOMAIN av = 1 .. Len(av)
        /\ 1 .. Len(av) \subseteq 1 .. Len(q)
    BY LenProperties
  <1>2. /\ Cardinality(Cuts(t)) = Len(q)
        /\ \A i \in 1 .. Len(q) : Nth(Cuts(t), i) = q[i]
        /\ Stop(t) = n + 1
    BY <1>0 DEF Body
  <1>3. ASSUME NEW i \in 1 .. Len(av) PROVE X[i] = A[i]
    <2> DEFINE z == IF i = Len(q) THEN n + 1 ELSE q[i+1]
               a == av[i]
    <2>1. i \in 1 .. Len(q) /\ i \in Nat
      BY <1>1
    <2>2. q[i] \in 1 .. n /\ (i # Len(q) => q[i+1] \in 1 .. n /\ t[q[i+1]] = "comma")
      BY <1>1, <2>1 DEF CutsPart
    <2>3. ArgEnd(t, i) = z /\ Nth(Cuts(t), i) = q[i]
      <3>1. i # Len(q) => Nth(Cuts(t), i + 1) = q[i+1]
        BY <1>1, <1>2, <2>1
      <3> QED BY <1>2, <2>1, <3>1 DEF ArgEnd
    <2>4. z \in Nat /\ z <= n + 1 /\ (z <= n => t[z] \notin Quotes)
      BY <2>2 DEF Quotes
    <2>5. a \in Arg
      BY ElementOfSeq
    <2>6. a.str \in Nat
      BY <2>5 DEF Arg
    <2>7. q # <<>>
      BY <2>1
    <2>8. m \in 1 .. n /\ MnemonicStart(t) = m
      BY <2>7
    <2>9. ArgPart(t, n, N, a, m, i, q[i], z)
      BY DEF ArgsUpTo
    <2> DEFINE y == q[i]
    <2>y. y \in Nat /\ Nth(Cuts(t), i) = y /\ ArgPart(t, n, N, a, m, i, y, z)
      BY <2>2, <2>3, <2>9
    <2> HIDE DEF z, a, y
    <2>10. /\ a.type = ArgType(t, i)
           /\ CText(t, N, a.str) = FieldText(t, ArgStart(t, i), ArgEnd(t, i))
      BY <2>1, <2>3, <2>4, <2>6, <2>8, <2>y, ArgStored
    <2>11. X[i] = [type |-> a.type, str |-> CText(t, N, a.str)]
      BY <1>1 DEF Texts, a
    <2>12. A[i] = [type |-> ArgType(t, i),
                   str |-> FieldText(t, ArgStart(t, i), ArgEnd(t, i))]
      BY <1>2, <2>1 DEF ArgsOf
    <2> QED BY <2>10, <2>11, <2>12
  <1>4. DOMAIN X = 1 .. Len(av) /\ X = [i \in 1 .. Len(av) |-> X[i]]
    BY <1>1 DEF Texts
  <1> HIDE DEF A, X
  <1>5. X \in [1 .. Len(av) -> V] /\ \A i \in 1 .. Len(av) : A[i] \in V
    BY <1>1, <1>3, <1>4
  <1> HIDE DEF V
  <1>6. X \in Seq(V) /\ Len(X) = Len(av)
    BY <1>1, <1>5, FunctionIsSeq
  <1>7. /\ SubSeq(A, 1, Len(av)) \in Seq(V)
        /\ Len(SubSeq(A, 1, Len(av))) = Len(av)
        /\ \A i \in 1 .. Len(av) : SubSeq(A, 1, Len(av))[i] = A[i]
    BY <1>1, <1>5, SubSeqProperties
  <1>8. X = SubSeq(A, 1, Len(av))
    BY <1>3, <1>6, <1>7, SeqEqual
  <1> QED BY <1>8 DEF X, A

\* The fields l, p and av hold what the grammar says is stored.
Stores(t, N, l, p, av) ==
    /\ Shape(t).label = IF l = 0 THEN {} ELSE {CText(t, N, l)}
    /\ StoredMnemonic(Shape(t), <<>>) = IF p = 0 THEN <<>> ELSE CText(t, N, p)
    /\ StoredArgs(Shape(t)) = Texts(t, N, av)

\* The mnemonic is stored.
LEMMA MnemonicStored ==
    ASSUME NEW t, NEW n \in Nat, Body(t, n), NEW N \in SUBSET Nat, NEW p,
           NEW m \in Nat, NEW z \in Nat, m <= z, z <= n + 1,
           m = z => z = n + 1, Points(t, N, p, m, z),
           MnemonicStart(t) = m, MnemonicEnd(t) = z
    PROVE  Shape(t).mnemonic = CText(t, N, p)
  <1>1. CText(t, N, p) = FieldText(t, m, z)
    BY FieldString DEF Body
  <1> QED BY <1>1 DEF Shape

\* A line without a newline does not store the field that is being read.
LEMMA OpenEnd ==
    ASSUME NEW t, NEW n \in Nat, NEW N \in SUBSET Nat, NEW l, NEW p, NEW k,
           NEW m \in Nat, NEW q \in Seq(Nat), NEW f \in Nat,
           Found(t, n, N, l, p, k, m, q, f), TailOf(t) # "newline",
           p = 0 <=> q = <<>>,
           NEW av \in Seq(Arg),
           q = <<>> => Len(av) = 0, q # <<>> => Len(av) = Len(q) - 1,
           ArgsPart(t, n, N, av, m, q)
    PROVE  Stores(t, N, l, p, av)
  <1>1. Shape(t).label = IF l = 0 THEN {} ELSE {CText(t, N, l)}
    BY LabelStored DEF Found
  <1>f. /\ Body(t, n) /\ CutsPart(t, n, q) /\ Cuts(t) = Range(q)
        /\ q # <<>> => m \in 1 .. n /\ MnemonicStart(t) = m
    <2>1. /\ MnemonicStart(t) = IF q = <<>> THEN f ELSE m
          /\ MnemonicEnd(t) = IF q = <<>> THEN n + 1 ELSE q[1]
          /\ Cuts(t) = Range(q)
      BY MnemonicIs
    <2>2. q # <<>> => m \in 1 .. n
      BY DEF Found, MnemonicPart, Skips, LabelPart
    <2> QED BY <2>1, <2>2 DEF Found
  <1>2. Shape(t).args = ArgsOf(t) /\ Shape(t).tail # "newline"
    BY DEF Shape
  <1>3. ArgsOf(t) = <<>> <=> q = <<>>
    BY <1>f, ArgsAre
  <1>4. Len(ArgsOf(t)) = Len(q) /\ Len(q) \in Nat /\ (q = <<>> <=> Len(q) = 0)
    BY <1>f, ArgsAre, LenProperties, EmptySeq
  <1>5. StoredMnemonic(Shape(t), <<>>) = IF p = 0 THEN <<>> ELSE CText(t, N, p)
    <2>1. CASE q = <<>>
      BY <1>2, <1>3, <2>1 DEF StoredMnemonic
    <2>2. CASE q # <<>>
      <3> DEFINE z == q[1]
      <3>1. MnemonicStart(t) = m /\ MnemonicEnd(t) = z
        BY <2>2, MnemonicIs
      <3>2. MnemonicPart(t, n, N, p, k, m, z) /\ Body(t, n)
        BY <2>2 DEF Found
      <3>3. z \in Nat
        BY <1>4, <2>2, ElementOfSeq
      <3> HIDE DEF z
      <3>4. Shape(t).mnemonic = CText(t, N, p)
        BY <3>1, <3>2, <3>3, MnemonicStored DEF MnemonicPart
      <3> QED BY <1>2, <1>3, <2>2, <3>4 DEF StoredMnemonic
    <2> QED BY <2>1, <2>2
  <1>6. StoredArgs(Shape(t)) = Texts(t, N, av)
    <2>1. Len(av) \in 0 .. Len(q)
      BY <1>4, LenProperties
    <2>2. ArgsUpTo(t, n, N, av, m, q)
      <3>1. \A i \in 1 .. Len(av) : i # Len(q)
        BY <1>4
      <3> QED BY <3>1 DEF ArgsUpTo, ArgsPart
    <2>3. Texts(t, N, av) = SubSeq(ArgsOf(t), 1, Len(av))
      BY <1>f, <2>1, <2>2, ArgsStored
    <2>4. CASE q = <<>>
      <3>1. SubSeq(ArgsOf(t), 1, Len(av)) = <<>>
        BY <2>4, SubSeqEmpty
      <3> QED BY <1>2, <1>3, <2>3, <2>4, <3>1 DEF StoredArgs
    <2>5. CASE q # <<>>
      BY <1>2, <1>3, <1>4, <2>3, <2>5 DEF StoredArgs
    <2> QED BY <2>4, <2>5
  <1> QED BY <1>1, <1>5, <1>6 DEF Stores

\* The newline stores that field, as the mnemonic or as an argument.
LEMMA LineEnd ==
    ASSUME NEW t, NEW n \in Nat, NEW N \in SUBSET Nat, NEW l, NEW p, NEW k,
           NEW m \in Nat, NEW q \in Seq(Nat), NEW f \in Nat,
           Found(t, n, N, l, p, k, m, q, f), TailOf(t) = "newline",
           p # 0, q = <<>> => Points(t, N, p, f, n + 1),
           NEW av \in Seq(Arg), Len(av) = Len(q),
           ArgsUpTo(t, n, N, av, m, q)
    PROVE  Stores(t, N, l, p, av)
  <1>1. Shape(t).label = IF l = 0 THEN {} ELSE {CText(t, N, l)}
    BY LabelStored DEF Found
  <1>f. /\ Body(t, n) /\ CutsPart(t, n, q) /\ Cuts(t) = Range(q)
        /\ q # <<>> => m \in 1 .. n /\ MnemonicStart(t) = m
    <2>1. /\ MnemonicStart(t) = IF q = <<>> THEN f ELSE m
          /\ MnemonicEnd(t) = IF q = <<>> THEN n + 1 ELSE q[1]
          /\ Cuts(t) = Range(q)
      BY MnemonicIs
    <2>2. q # <<>> => m \in 1 .. n
      BY DEF Found, MnemonicPart, Skips, LabelPart
    <2> QED BY <2>1, <2>2 DEF Found
  <1>2. Shape(t).args = ArgsOf(t) /\ Shape(t).tail = "newline"
    BY DEF Shape
  <1>3. Len(ArgsOf(t)) = Len(q) /\ Len(q) \in Nat /\ (q = <<>> <=> Len(q) = 0)
    BY <1>f, ArgsAre, LenProperties, EmptySeq
  <1>4. Shape(t).mnemonic = CText(t, N, p)
    <2>1. CASE q = <<>>
      <3>1. MnemonicStart(t) = f /\ MnemonicEnd(t) = n + 1
        BY <2>1, MnemonicIs
      <3>2. f <= n + 1 /\ Body(t, n)
        BY <2>1 DEF Found, Skips
      <3> QED BY <2>1, <3>1, <3>2, MnemonicStored
    <2>2. CASE q # <<>>
      <3> DEFINE z == q[1]
      <3>1. MnemonicStart(t) = m /\ MnemonicEnd(t) = z
        BY <2>2, MnemonicIs
      <3>2. MnemonicPart(t, n, N, p, k, m, z) /\ Body(t, n)
        BY <2>2 DEF Found
      <3>3. z \in Nat
        BY <1>3, <2>2, ElementOfSeq
      <3> HIDE DEF z
      <3> QED BY <3>1, <3>2, <3>3, MnemonicStored DEF MnemonicPart
    <2> QED BY <2>1, <2>2
  <1>5. StoredMnemonic(Shape(t), <<>>) = CText(t, N, p)
    BY <1>2, <1>4 DEF StoredMnemonic
  <1>6. StoredArgs(Shape(t)) = Texts(t, N, av)
    <2> DEFINE A == ArgsOf(t)
               V == {A[i] : i \in 1 .. Len(q)}
    <2>0. Len(av) \in 0 .. Len(q)
      BY <1>3
    <2>1. Texts(t, N, av) = SubSeq(A, 1, Len(q))
      BY <1>f, <2>0, ArgsStored
    <2>2. A = [i \in 1 .. Len(q) |-> A[i]]
      <3>1. DOMAIN A = 1 .. Len(q)
        BY <1>f, ArgsAre
      <3> QED BY <3>1 DEF ArgsOf
    <2> HIDE DEF A
    <2>3. A \in [1 .. Len(q) -> V]
      BY <2>2
    <2> HIDE DEF V
    <2>4. A \in Seq(V) /\ Len(A) = Len(q)
      BY <1>3, <2>3, FunctionIsSeq
    <2>5. SubSeq(A, 1, Len(q)) = A
      BY <2>4, SubSeqFull
    <2> QED BY <1>2, <2>1, <2>5 DEF StoredArgs, A
  <1> QED BY <1>1, <1>5, <1>6 DEF Stores

\* No more is stored than argv holds.
LEMMA StoredFit ==
    ASSUME NEW t, NEW N, NEW l, NEW p, NEW av \in Seq(Arg), NEW max \in Nat,
           Stores(t, N, l, p, av), Len(av) <= max
    PROVE  ~Overflows(Shape(t), max)
  <1> DEFINE X == Texts(t, N, av)
             V == {X[i] : i \in 1 .. Len(av)}
  <1>1. Len(av) \in Nat /\ DOMAIN av = 1 .. Len(av)
    BY LenProperties
  <1>2. X = [i \in 1 .. Len(av) |-> X[i]]
    BY <1>1 DEF Texts
  <1> HIDE DEF X
  <1>3. X \in [1 .. Len(av) -> V]
    BY <1>2
  <1> HIDE DEF V
  <1>4. Len(X) = Len(av)
    BY <1>1, <1>3, FunctionIsSeq
  <1> QED BY <1>1, <1>4 DEF Overflows, Stores, X

\* A line that was scanned to its end without complaint is well-formed.
LEMMA ScannedIsWellFormed ==
    ASSUME NEW t, NEW n \in Nat, NEW N, NEW l, NEW p, NEW k, NEW m \in Nat,
           NEW q \in Seq(Nat), NEW f \in Nat, Found(t, n, N, l, p, k, m, q, f),
           NEW fl, QuotesPart(t, n, fl, k, q, f), InString(fl) => TailOf(t) = "comment",
           BracketsPart(t, n),
           NEW max, ~Overflows(Shape(t), max)
    PROVE  WellFormed(t, max)
  <1>1. /\ Body(t, n) /\ ColonPart(t, n, k) /\ k \in 0 .. n /\ CutsPart(t, n, q)
        /\ Stop(t) = n + 1 /\ LabelPart(t, n, N, l, k)
    BY DEF Found, LabelPart, Body
  <1>2. /\ MnemonicStart(t) = IF q = <<>> THEN f ELSE m
        /\ MnemonicEnd(t) = IF q = <<>> THEN n + 1 ELSE q[1]
        /\ Cuts(t) = Range(q)
    BY MnemonicIs
  <1>3. Colons(t) = IF k = 0 THEN {} ELSE {k}
    BY <1>1, ColonsAre
  <1>4. Len(q) \in Nat /\ (q = <<>> <=> Len(q) = 0) /\ DOMAIN q = 1 .. Len(q)
    BY LenProperties, EmptySeq
  <1>5. \A i \in Colons(t) :
           /\ SkipBlanks(t, 1) = i \/ t[SkipBlanks(t, 1)] \notin Quotes
           /\ \A j \in SkipBlanks(t, 1) .. i : t[j] # "blank"
    <2> SUFFICES ASSUME k # 0
                 PROVE  /\ t[SkipBlanks(t, 1)] \notin Quotes
                        /\ \A j \in SkipBlanks(t, 1) .. k : t[j] # "blank"
      BY <1>3
    <2>1. /\ Skips(t, n, 1, l) /\ l \in Nat /\ t[l] \notin Quotes
          /\ \A j \in l .. k : t[j] # "blank"
      BY <1>1 DEF LabelPart
    <2>2. SkipBlanks(t, 1) = l
      BY <1>1, <2>1, SkipBlanksIs
    <2> QED BY <2>1, <2>2
  <1>6. \A i \in Separators(t, "comma") : i > MnemonicEnd(t)
    <2> TAKE i \in Separators(t, "comma")
    <2>1. i \in 1 .. n /\ t[i] = "comma" /\ Outside(t, i)
      BY <1>1, SeparatorsIn
    <2>2. PICK j \in 2 .. Len(q) : q[j] = i
      BY <1>1, <2>1 DEF CutsPart
    <2>3. 1 \in 1 .. Len(q) /\ j \in 1 .. Len(q) /\ 1 < j /\ q # <<>>
      BY <1>4, <2>2
    <2>4. q[1] < q[j] /\ q[1] \in 1 .. n
      BY <1>1, <2>3 DEF CutsPart
    <2> QED BY <1>2, <2>1, <2>2, <2>3, <2>4
  <1>7. ASSUME NEW i \in Openings(t)
        PROVE  /\ i \in Starts(t)
               /\ TailOf(t) = "comment" \/ \E j \in i+1 .. Stop(t) - 1 : t[j] = t[i]
    <2>1. i \in 1 .. n /\ t[i] \in Quotes /\ Outside(t, i)
      BY <1>1, OpeningsIn
    <2>2. PICK j \in Bases(k, q) : Skips(t, n, j, i)
      BY <2>1 DEF QuotesPart
    <2>3. (i = f /\ InString(fl)) \/ \E e \in i+1 .. n : t[e] = t[i]
      BY <2>1 DEF QuotesPart
    <2>4. i \in Starts(t)
      <3>1. CASE j = 1
        <4>1. SkipBlanks(t, 1) = i
          BY <1>1, <2>1, <2>2, <3>1, SkipBlanksIs
        <4> QED BY <4>1 DEF Starts
      <3>2. CASE j = k + 1
        <4>1. MnemonicStart(t) = i
          BY <1>1, <2>1, <2>2, <3>2, StartIs
        <4>2. Skips(t, n, i, i)
          BY <2>1, <2>2 DEF Skips
        <4>3. SkipBlanks(t, i) = i
          BY <1>1, <2>1, <4>2, SkipBlanksIs
        <4> QED BY <4>1, <4>3 DEF Starts
      <3>3. ASSUME NEW x \in 1 .. Len(q), j = q[x] + 1
            PROVE  i \in Starts(t)
        <4>1. q[x] \in Nat /\ q[x] \in Cuts(t)
          BY <1>2, <1>4, ElementOfSeq DEF Range
        <4>2. SkipBlanks(t, q[x] + 1) = i
          BY <1>1, <2>1, <2>2, <3>3, <4>1, SkipBlanksIs
        <4> QED BY <4>1, <4>2 DEF Starts
      <3> QED BY <2>2, <3>1, <3>2, <3>3 DEF Bases
    <2> QED BY <1>1, <2>3, <2>4
  <1>8. \A i, j \in Colons(t) : i = j
    BY <1>3
  <1>9. Separators(t, "rbracket") = {}
    BY <1>1, SeparatorsIn DEF BracketsPart
  <1> QED BY <1>5, <1>6, <1>7, <1>8, <1>9 DEF WellFormed

-----------------------------------------------------------------------------
(* What one more character ch, at position n + 1, changes.                 *)

\* All that is stored, from the fields l, p and av.
Past(t, n, N, l, p, av, k, m, q) ==
    /\ ColonPart(t, n, k) /\ LabelPart(t, n, N, l, k)
    /\ CutsPart(t, n, q)
    /\ q # <<>> => MnemonicPart(t, n, N, p, k, m, q[1])
    /\ ArgsPart(t, n, N, av, m, q)
    /\ p = 0 <=> q = <<>>
    /\ Len(av) = IF q = <<>> THEN 0 ELSE Len(q) - 1

\* A character that does not cut keeps all of it.
LEMMA PastSame ==
    ASSUME NEW t, NEW u, NEW n \in Nat, NEW o \in n .. n + 1, Agree(t, u, n),
           NEW N, NEW N2, SameNuls(N, N2, n),
           NEW l, NEW p \in Nat, NEW av \in Seq(Arg),
           NEW k \in Nat, NEW m \in Nat, NEW q \in Seq(Nat),
           Past(t, n, N, l, p, av, k, m, q),
           o = n \/ u[n+1] \notin {"colon", "comma"} \/ ~Outside(t, n + 1)
    PROVE  Past(u, o, N2, l, p, av, k, m, q)
  <1>1. o \in Nat /\ n <= o
    OBVIOUS
  <1>2. LabelPart(u, o, N2, l, k) /\ k <= n
    <2>1. LabelPart(t, n, N, l, k) /\ k <= n
      BY DEF Past, LabelPart
    <2> QED BY <1>1, <2>1, LabelSame
  <1>3. ColonPart(u, o, k) /\ CutsPart(u, o, q)
    <2>1. ColonPart(t, n, k) /\ CutsPart(t, n, q)
      BY DEF Past
    <2>2. CASE o = n
      BY <2>1, <2>2, PrefixSame
    <2>3. CASE o = n + 1
      BY <1>2, <2>1, <2>3, ColonSame, CutsSame
    <2> QED BY <2>2, <2>3
  <1>4. ASSUME q # <<>>
        PROVE  m \in 1 .. n /\ MnemonicPart(u, o, N2, p, k, m, q[1])
    <2> DEFINE z == q[1]
    <2>1. MnemonicPart(t, n, N, p, k, m, z)
      BY <1>4 DEF Past
    <2>2. Len(q) \in Nat \ {0}
      BY <1>4, EmptySeq
    <2>3. z \in Nat
      BY <2>2, ElementOfSeq
    <2> HIDE DEF z
    <2>4. m \in 1 .. n
      BY <2>1, <2>3 DEF MnemonicPart, Skips
    <2>5. MnemonicPart(u, o, N2, p, k, m, z)
      BY <1>1, <2>1, <2>3, MnemonicSame
    <2> QED BY <2>4, <2>5 DEF z
  <1>5. ArgsPart(u, o, N2, av, m, q)
    <2>1. /\ CutsPart(t, n, q) /\ ArgsPart(t, n, N, av, m, q)
          /\ Len(av) = IF q = <<>> THEN 0 ELSE Len(q) - 1
      BY DEF Past
    <2>2. q # <<>> => m \in 1 .. n
      BY <1>4
    <2> QED BY <1>1, <2>1, <2>2, ArgsSame
  <1> QED BY <1>2, <1>3, <1>4, <1>5 DEF Past

\* The base of a field is a position.
LEMMA BaseType ==
    ASSUME NEW k \in Nat, NEW q \in Seq(Nat)
    PROVE  Base(k, q) \in Nat /\ 1 <= Base(k, q) /\ Base(k, q) \in Bases(k, q)
  <1>1. Len(q) \in Nat /\ (q # <<>> => Len(q) \in 1 .. Len(q))
    BY LenProperties, EmptySeq
  <1>2. q # <<>> => q[Len(q)] \in Nat
    BY <1>1, ElementOfSeq
  <1> QED BY <1>1, <1>2 DEF Base, Bases

\* Blanks are skipped up to a character that is none.
LEMMA SkipsNext ==
    ASSUME NEW t, NEW u, NEW n \in Nat, Agree(t, u, n),
           NEW i \in Nat, 1 <= i, Skips(t, n, i, n + 1)
    PROVE  /\ u[n+1] = "blank" => Skips(u, n + 1, i, n + 2)
           /\ u[n+1] # "blank" => Skips(u, n + 1, i, n + 1)
  <1>1. i <= n + 1 /\ \A j \in i .. n : u[j] = "blank"
    BY DEF Skips, Agree
  <1>2. u[n+1] = "blank" => \A j \in i .. n + 1 : u[j] = "blank"
    BY <1>1
  <1>3. (n + 1) + 1 = n + 2 /\ (n + 2) - 1 = n + 1 /\ (n + 1) - 1 = n
    OBVIOUS
  <1> QED BY <1>1, <1>2, <1>3 DEF Skips

\* A blank before the field is skipped.
LEMMA FieldSkips ==
    ASSUME NEW t, NEW u, NEW n \in Nat, Agree(t, u, n), u[n+1] = "blank",
           NEW N, NEW fl, ~InString(fl),
           NEW k \in Nat, NEW q \in Seq(Nat), NEW f \in Nat,
           FieldPart(t, n, N, n + 1, fl, k, q, f)
    PROVE  f = n + 1 /\ FieldPart(u, n + 1, N, n + 2, fl, k, q, n + 2)
  <1>1. f = n + 1
    BY DEF FieldPart, Quoted
  <1>2. Skips(t, n, Base(k, q), n + 1) /\ Outside(t, n + 1)
    BY <1>1 DEF FieldPart
  <1>3. Skips(u, n + 1, Base(k, q), n + 2)
    BY <1>2, BaseType, SkipsNext
  <1>4. Outside(u, n + 2) /\ Open(fl) = Enclosing(u, n + 1)
    BY EnclosingNext DEF FieldPart, After, Quotes, InString
  <1>5. (n + 1) + 1 = n + 2 /\ ~(n + 2 <= n + 1) /\ n + 2 .. n + 1 = {}
    OBVIOUS
  <1> QED BY <1>1, <1>3, <1>4, <1>5 DEF FieldPart, Quoted

\* A quote opens the string of the field.
LEMMA FieldOpens ==
    ASSUME NEW t, NEW u, NEW n \in Nat, Agree(t, u, n), u[n+1] \in Quotes,
           NEW N, N \subseteq 1 .. n, NEW fl, ~InString(fl), NEW fl2, Open(fl2) = u[n+1],
           NEW k \in Nat, NEW q \in Seq(Nat), NEW f \in Nat,
           FieldPart(t, n, N, n + 1, fl, k, q, f)
    PROVE  f = n + 1 /\ FieldPart(u, n + 1, N, n + 2, fl2, k, q, f)
  <1>1. f = n + 1
    BY DEF FieldPart, Quoted
  <1>2. Skips(t, n, Base(k, q), n + 1) /\ Outside(t, n + 1)
    BY <1>1 DEF FieldPart
  <1>a. u[n+1] # "blank"
    BY DEF Quotes
  <1>3. Skips(u, n + 1, Base(k, q), n + 1)
    BY <1>2, <1>a, BaseType, SkipsNext
  <1>4. Outside(u, n + 1) /\ Open(fl2) = Enclosing(u, n + 1) /\ InString(fl2)
    BY <1>2, EnclosingNext DEF After, InString, Quotes
  <1>5. /\ (n + 1) + 1 = n + 2 /\ n + 1 <= n + 1 /\ n + 2 .. n + 1 = {}
        /\ n + 1 .. n + 1 = {n + 1} /\ n + 1 \notin N
    OBVIOUS
  <1>6. q = <<>> => \A j \in n + 1 .. n + 1 : u[j] = "blank" => ~Outside(u, j)
    BY <1>a, <1>5
  <1>7. (\A j \in n + 2 .. n + 1 : u[j] # u[n+1]) /\ \A j \in n + 1 .. n + 1 : j \notin N
    BY <1>5
  <1>8. Quoted(u, n + 1, n + 1)
    BY DEF Quoted
  <1>9. FieldPart(u, n + 1, N, n + 2, fl2, k, q, n + 1)
    BY <1>3, <1>4, <1>5, <1>6, <1>7, <1>8 DEF FieldPart
  <1> QED BY <1>1, <1>9

\* A quote closes it.
LEMMA FieldCloses ==
    ASSUME NEW t, NEW u, NEW n \in Nat, Agree(t, u, n), NEW fl, InString(fl),
           u[n+1] = Open(fl), NEW N, N \subseteq 1 .. n, NEW b, NEW fl2, ~InString(fl2),
           NEW k \in Nat, NEW q \in Seq(Nat), NEW f \in Nat,
           FieldPart(t, n, N, b, fl, k, q, f)
    PROVE  /\ f <= n /\ t[f] = u[n+1] /\ t[f] \in Quotes
           /\ FieldPart(u, n + 1, N \cup {n + 1}, b, fl2, k, q, f)
  <1>1. /\ f <= n /\ t[f] \in Quotes /\ t[f] = u[n+1] /\ b = f + 1
        /\ \A j \in f+1 .. n : t[j] # t[f]
        /\ \A j \in f .. n : j \notin N
        /\ Skips(t, n, Base(k, q), f) /\ Outside(t, f) /\ ~Outside(t, n + 1)
        /\ Enclosing(t, n) = u[n+1]
        /\ q = <<>> => \A j \in f .. n : t[j] = "blank" => ~Outside(t, j)
    BY EnclosingNext DEF FieldPart, Quoted, InString
  <1>2. Skips(u, n + 1, Base(k, q), f)
    BY <1>1, BaseType, SkipsSame
  <1>3. \A j \in 1 .. n + 1 : Outside(u, j) <=> Outside(t, j)
    BY OutsideSame
  <1>4. Open(fl2) = Enclosing(u, n + 1)
    BY <1>1, EnclosingNext DEF After, Quotes, InString
  <1>5. 1 <= f /\ f \in 1 .. n
    BY <1>1, BaseType DEF Skips
  <1>6. u[f] = t[f] /\ Outside(u, f)
    BY <1>1, <1>3, <1>5 DEF Agree
  <1>7. ClosedAt(u, N \cup {n + 1}, f, n + 1) /\ n + 1 \in f+1 .. n+1
    <2>1. f + 1 <= n + 1 /\ (n + 1) - 1 = n /\ n + 1 \in f+1 .. n+1
      BY <1>1
    <2>2. \A j \in f+1 .. n : j \in 1 .. n /\ j \in f .. n /\ j # n + 1
      BY <1>5
    <2>3. \A j \in f+1 .. n : u[j] # u[f]
      BY <1>1, <1>6, <2>2 DEF Agree
    <2>4. CString(N \cup {n + 1}, f + 1, n + 1)
      BY <1>1, <2>1, <2>2 DEF CString
    <2> QED BY <1>1, <1>6, <2>1, <2>3, <2>4 DEF ClosedAt
  <1>8. q = <<>> => \A j \in f .. n + 1 : u[j] = "blank" => ~Outside(u, j)
    BY <1>1, <1>3, <1>5 DEF Agree
  <1>9. (n + 1) + 1 = n + 2 /\ f <= n + 1
    BY <1>1
  <1> QED BY <1>1, <1>2, <1>4, <1>6, <1>7, <1>8, <1>9 DEF FieldPart, Quoted

\* A character is passed over: a quote only inside of the other kind's string,
\* a blank only inside of the field.
LEMMA FieldPasses ==
    ASSUME NEW t, NEW u, NEW n \in Nat, Agree(t, u, n), NEW fl,
           u[n+1] \in Quotes => InString(fl) /\ u[n+1] # Open(fl),
           NEW N, N \subseteq 1 .. n, NEW b \in Nat,
           NEW k \in Nat, NEW q \in Seq(Nat), NEW f \in Nat,
           FieldPart(t, n, N, b, fl, k, q, f),
           u[n+1] = "blank" => InString(fl) \/ (b # n + 1 /\ q # <<>>)
    PROVE  FieldPart(u, n + 1, N, b, fl, k, q, f)
  <1>1. /\ Skips(t, n, Base(k, q), f) /\ Outside(t, f)
        /\ Open(fl) = Enclosing(t, n)
        /\ q = <<>> => \A j \in f .. n : t[j] = "blank" => ~Outside(t, j)
        /\ 1 <= f /\ f <= n + 1
    BY BaseType DEF FieldPart, Skips
  <1>2. \A j \in 1 .. n + 1 : Outside(u, j) <=> Outside(t, j)
    BY OutsideSame
  <1>3. Open(fl) = Enclosing(u, n + 1)
    <2>1. Enclosing(u, n + 1) = After(Open(fl), u[n+1]) /\ Open(fl) \in Enclosed
      BY <1>1, EnclosingNext
    <2>2. u[n+1] = Open(fl) => Open(fl) = "none"
      BY <2>1 DEF Enclosed
    <2>3. Open(fl) = "none" => u[n+1] \notin Quotes
      BY DEF InString
    <2> QED BY <2>1, <2>2, <2>3 DEF After
  <1>4. Outside(u, f)
    BY <1>1, <1>2
  <1>5. f = n + 1 => u[n+1] # "blank" /\ u[n+1] \notin Quotes
    <2>1. f = n + 1 => b = n + 1 /\ ~InString(fl)
      BY <1>1 DEF FieldPart, Quoted
    <2> QED BY <2>1
  <1>6. Skips(u, n + 1, Base(k, q), f)
    <2>1. CASE f <= n
      BY <1>1, <2>1, BaseType, SkipsSame
    <2>2. CASE f = n + 1
      BY <1>1, <1>5, <2>2, BaseType, SkipsNext
    <2> QED BY <1>1, <2>1, <2>2
  <1>7. q = <<>> => \A j \in f .. n + 1 : u[j] = "blank" => ~Outside(u, j)
    <2>1. q = <<>> /\ u[n+1] = "blank" => ~Outside(u, n + 1)
      BY <1>1, EnclosingNext DEF InString
    <2>2. \A j \in f .. n + 1 : j = n + 1 \/ (j \in f .. n /\ j \in 1 .. n)
      BY <1>1
    <2>3. \A j \in f .. n + 1 : j # n + 1 => u[j] = t[j] /\ (Outside(u, j) <=> Outside(t, j))
      BY <1>2, <2>2 DEF Agree
    <2> QED BY <1>1, <2>1, <2>2, <2>3
  <1>8. Quoted(u, n + 1, f) <=> Quoted(t, n, f)
    <2>1. f <= n => u[f] = t[f]
      BY <1>1 DEF Agree
    <2>2. f <= n \/ f = n + 1
      BY <1>1
    <2> QED BY <1>1, <1>5, <2>1, <2>2 DEF Quoted
  <1>9. CASE Quoted(t, n, f)
    <2>1. b = f + 1 /\ f <= n
      BY <1>9 DEF FieldPart, Quoted
    <2>2. CASE InString(fl)
      <3>1. /\ \A j \in f+1 .. n : t[j] # t[f]
            /\ \A j \in f .. n : j \notin N
            /\ Open(fl) = t[f] /\ t[f] \in Quotes
        BY <1>9, <2>2 DEF FieldPart, Quoted
      <3>2. /\ \A j \in f+1 .. n+1 : u[j] # u[f]
            /\ \A j \in f .. n+1 : j \notin N
            /\ Open(fl) = u[f]
        BY <1>1, <2>1, <3>1 DEF Agree
      <3> QED BY <1>3, <1>4, <1>6, <1>7, <1>8, <1>9, <2>1, <2>2, <3>2 DEF FieldPart
    <2>3. CASE ~InString(fl)
      <3>1. PICK e \in f+1 .. n : ClosedAt(t, N, f, e)
        BY <1>9, <2>3 DEF FieldPart
      <3>2. /\ e \in f+1 .. n+1 /\ e \in 1 .. n
            /\ \A j \in f+1 .. e-1 : j \in 1 .. n
        BY <1>1, <3>1
      <3>3. t[e] = t[f] /\ CString(N, f + 1, e) /\ \A j \in f+1 .. e-1 : t[j] # t[f]
        BY <3>1 DEF ClosedAt
      <3>4. u[e] = u[f] /\ \A j \in f+1 .. e-1 : u[j] # u[f]
        BY <1>1, <2>1, <3>2, <3>3 DEF Agree
      <3>5. ClosedAt(u, N, f, e)
        BY <3>3, <3>4 DEF ClosedAt
      <3> QED BY <1>3, <1>4, <1>6, <1>7, <1>8, <1>9, <2>1, <2>3, <3>2, <3>5 DEF FieldPart
    <2> QED BY <2>2, <2>3
  <1>10. CASE ~Quoted(t, n, f)
    <2>1. /\ b = f /\ ~InString(fl)
          /\ \A j \in f .. n : j \notin N
          /\ q = <<>> => \A j \in f .. n : t[j] # "blank"
      BY <1>10 DEF FieldPart
    <2>2. \A j \in f .. n+1 : j \notin N
      BY <1>1, <2>1
    <2>3. q = <<>> => \A j \in f .. n+1 : u[j] # "blank"
      BY <1>1, <2>1 DEF Agree
    <2> QED BY <1>3, <1>4, <1>6, <1>7, <1>8, <1>10, <2>1, <2>2, <2>3 DEF FieldPart
  <1> QED BY <1>9, <1>10

\* The string of a field that is cut at n + 1.
LEMMA FieldIsCut ==
    ASSUME NEW t, NEW u, NEW n \in Nat, Agree(t, u, n),
           NEW N, N \subseteq 1 .. n, NEW b, NEW fl, ~InString(fl),
           NEW k \in Nat, NEW q \in Seq(Nat), NEW f \in Nat,
           FieldPart(t, n, N, b, fl, k, q, f)
    PROVE  f \in 1 .. n + 1 /\ Points(u, N \cup {n + 1}, b, f, n + 1)
  <1>1. f \in 1 .. n + 1
    BY BaseType DEF FieldPart, Skips
  <1>2. CASE Quoted(t, n, f)
    <2>1. PICK e \in f+1 .. n : ClosedAt(t, N, f, e)
      BY <1>2 DEF FieldPart
    <2>2. ClosedAt(u, N \cup {n + 1}, f, e) /\ e \in f+1 .. (n+1)-1
      BY <1>1, <2>1 DEF ClosedAt, CString, Agree
    <2>3. b = f + 1 /\ f < n + 1 /\ u[f] \in Quotes
      BY <1>1, <1>2 DEF FieldPart, Quoted, Agree
    <2> QED BY <1>1, <2>2, <2>3 DEF Points
  <1>3. CASE ~Quoted(t, n, f)
    <2>1. b = f /\ \A j \in f .. n : j \notin N
      BY <1>3 DEF FieldPart
    <2>2. ~(f < n + 1 /\ u[f] \in Quotes)
      BY <1>1, <1>3 DEF Quoted, Agree
    <2>3. CString(N \cup {n + 1}, f, n + 1)
      BY <1>1, <2>1 DEF CString
    <2> QED BY <1>1, <2>1, <2>2, <2>3 DEF Points
  <1> QED BY <1>2, <1>3

\* After a cut a field begins.
LEMMA FieldBegins ==
    ASSUME NEW u, NEW n \in Nat, u[n+1] \notin Quotes, Outside(u, n + 1),
           NEW N, N \subseteq 1 .. n, NEW fl, ~InString(fl),
           NEW k, NEW q, Base(k, q) = n + 2
    PROVE  FieldPart(u, n + 1, N \cup {n + 1}, n + 2, fl, k, q, n + 2)
  <1>1. Skips(u, n + 1, n + 2, n + 2)
    BY DEF Skips
  <1>2. Outside(u, n + 2) /\ Open(fl) = Enclosing(u, n + 1)
    <2>1. Agree(u, u, n)
      BY DEF Agree
    <2> QED BY <2>1, EnclosingNext DEF After, InString
  <1>3. (n + 1) + 1 = n + 2 /\ ~(n + 2 <= n + 1) /\ n + 2 .. n + 1 = {}
    OBVIOUS
  <1> QED BY <1>1, <1>2, <1>3 DEF FieldPart, Quoted

\* The quotes before the character are as they were, when bases are added and
\* no quotes are open or the field stays the same.
LEMMA QuotesBefore ==
    ASSUME NEW t, NEW u, NEW n \in Nat, Agree(t, u, n),
           NEW fl, NEW k \in Nat, NEW q \in Seq(Nat), NEW f,
           QuotesPart(t, n, fl, k, q, f),
           NEW fl2, NEW k2, NEW q2, NEW f2, Bases(k, q) \subseteq Bases(k2, q2),
           InString(fl) => u[n+1] = t[f] \/ (InString(fl2) /\ f2 = f),
           u[n+1] \in Quotes /\ Outside(t, n + 1) =>
              InString(fl2) /\ f2 = n + 1 /\ \E j \in Bases(k, q) : Skips(u, n + 1, j, n + 1)
    PROVE  QuotesPart(u, n + 1, fl2, k2, q2, f2)
  <1> SUFFICES ASSUME NEW i \in 1 .. n + 1, u[i] \in Quotes, Outside(u, i)
               PROVE  /\ \E j \in Bases(k2, q2) : Skips(u, n + 1, j, i)
                      /\ (i = f2 /\ InString(fl2)) \/ \E e \in i+1 .. n+1 : u[e] = u[i]
    BY DEF QuotesPart
  <1>1. Outside(t, i)
    BY OutsideSame
  <1>2. CASE i = n + 1
    BY <1>1, <1>2
  <1>3. CASE i \in 1 .. n
    <2>1. t[i] \in Quotes /\ u[i] = t[i]
      BY <1>3 DEF Agree
    <2>2. PICK j \in Bases(k, q) : Skips(t, n, j, i)
      BY <1>1, <1>3, <2>1 DEF QuotesPart
    <2>3. (i = f /\ InString(fl)) \/ \E e \in i+1 .. n : t[e] = t[i]
      BY <1>1, <1>3, <2>1 DEF QuotesPart
    <2>4. j \in Nat /\ 1 <= j
      <3>1. \A x \in 1 .. Len(q) : q[x] \in Nat
        BY ElementOfSeq
      <3> QED BY <2>2, <3>1 DEF Bases
    <2>5. Skips(u, n + 1, j, i)
      BY <1>3, <2>2, <2>4, SkipsSame
    <2>6. (\E e \in i+1 .. n : t[e] = t[i]) => \E e \in i+1 .. n+1 : u[e] = u[i]
      BY <1>3, <2>1 DEF Agree
    <2>7. u[n+1] = t[i] => \E e \in i+1 .. n+1 : u[e] = u[i]
      BY <1>3, <2>1
    <2> QED BY <2>2, <2>3, <2>5, <2>6, <2>7
  <1> QED BY <1>2, <1>3

\* The closing brackets before it.
LEMMA BracketsBefore ==
    ASSUME NEW t, NEW u, NEW n \in Nat, Agree(t, u, n), BracketsPart(t, n)
    PROVE  /\ BracketsPart(u, n)
           /\ u[n+1] # "rbracket" \/ ~Outside(t, n + 1) => BracketsPart(u, n + 1)
  <1>1. \A i \in 1 .. n + 1 : Outside(u, i) <=> Outside(t, i)
    BY OutsideSame
  <1>2. \A i \in 1 .. n : u[i] = t[i] /\ i \in 1 .. n + 1
    BY DEF Agree
  <1> QED BY <1>1, <1>2 DEF BracketsPart

\* The argument that a cut at z, or the end of the line, adds.
LEMMA ArgIsCut ==
    ASSUME NEW t, NEW u, NEW n \in Nat, NEW o \in n .. n + 1, Agree(t, u, n),
           u[n+1] \notin Quotes,
           NEW N, N \subseteq 1 .. n, NEW b, NEW fl, ~InString(fl),
           NEW k \in Nat, NEW m \in 1 .. n, NEW q \in Seq(Nat), q # <<>>, NEW f \in Nat,
           FieldPart(t, n, N, b, fl, k, q, f), u[n+1] # "blank",
           NEW ty, TypePart(t, n, ty, m, q, f)
    PROVE  ArgPart(u, o, N \cup {n + 1}, [type |-> ty, str |-> b], m, Len(q),
                   q[Len(q)], n + 1)
  <1>1. f \in 1 .. n + 1 /\ Points(u, N \cup {n + 1}, b, f, n + 1)
    BY FieldIsCut
  <1>2. Skips(t, n, q[Len(q)] + 1, f)
    BY DEF FieldPart, Base
  <1>3. q[Len(q)] \in Nat
    BY LenProperties, EmptySeq, ElementOfSeq
  <1>4. Skips(u, o, q[Len(q)] + 1, f)
    <2>1. CASE f <= n \/ o = n
      BY <1>1, <1>2, <1>3, <2>1, SkipsSame
    <2>2. CASE f = n + 1 /\ o = n + 1
      BY <1>2, <1>3, <2>2, SkipsNext
    <2> QED BY <1>1, <2>1, <2>2
  <1>5. Quoted(u, o, f) <=> Quoted(t, n, f)
    BY <1>1 DEF Quoted, Agree
  <1>6. u[m] = t[m]
    BY DEF Agree
  <1>7. ty = IF Quoted(u, o, f) \/ (Len(q) = 1 /\ u[m] \in Quotes)
             THEN "STRING" ELSE "UNPROCESSED"
    BY <1>5, <1>6 DEF TypePart
  <1> QED BY <1>1, <1>4, <1>7 DEF ArgPart

\* A colon stores the label.
LEMMA PastColon ==
    ASSUME NEW t, NEW u, NEW n \in Nat, Agree(t, u, n), u[n+1] = "colon",
           NEW N, N \subseteq 1 .. n, NEW b, NEW fl, ~InString(fl),
           NEW l, NEW p \in Nat, NEW av \in Seq(Arg), NEW m \in Nat, NEW f \in Nat,
           Past(t, n, N, l, p, av, 0, m, <<>>),
           FieldPart(t, n, N, b, fl, 0, <<>>, f),
           NEW ty, ty # "STRING", TypePart(t, n, ty, m, <<>>, f)
    PROVE  Past(u, n + 1, N \cup {n + 1}, b, p, av, n + 1, m, <<>>)
  <1>0. <<>> \in Seq(Nat) /\ Len(<<>>) = 0
    BY EmptySeq
  <1>1. Outside(t, n + 1) /\ Skips(t, n, 1, f)
    BY EnclosingNext DEF FieldPart, Base, InString
  <1>2. \A i \in 1 .. n + 1 : Outside(u, i) <=> Outside(t, i)
    BY OutsideSame
  <1>3. ColonPart(u, n + 1, n + 1)
    BY <1>1, <1>2 DEF Past, ColonPart, Agree
  <1>4. CutsPart(u, n + 1, <<>>)
    BY <1>0, CutsSame DEF Past
  <1>5. ~Quoted(t, n, f)
    BY DEF TypePart
  <1>6. f \in 1 .. n + 1 /\ Points(u, N \cup {n + 1}, b, f, n + 1)
    BY <1>0, FieldIsCut
  <1>7. b = f /\ \A j \in f .. n : t[j] # "blank"
    BY <1>5 DEF FieldPart
  <1>8. u[f] \notin Quotes
    BY <1>5, <1>6 DEF Quoted, Agree, Quotes
  <1>9. Skips(u, n + 1, 1, f)
    <2>1. CASE f <= n
      BY <1>1, <2>1, SkipsSame
    <2>2. CASE f = n + 1
      BY <1>1, <2>2, SkipsNext
    <2> QED BY <1>6, <2>1, <2>2
  <1>10. LabelPart(u, n + 1, N \cup {n + 1}, b, n + 1)
    <2>1. CString(N \cup {n + 1}, f, n + 1)
      BY <1>6, <1>8 DEF Points
    <2>2. \A j \in f .. n + 1 : u[j] # "blank"
      BY <1>6, <1>7 DEF Agree
    <2> QED BY <1>6, <1>7, <1>8, <1>9, <2>1, <2>2 DEF LabelPart
  <1>11. /\ p = 0 /\ Len(av) = 0
    BY DEF Past
  <1>12. ArgsPart(u, n + 1, N \cup {n + 1}, av, m, <<>>)
    BY <1>11 DEF ArgsPart
  <1> QED BY <1>3, <1>4, <1>10, <1>11, <1>12 DEF Past

\* A blank stores the mnemonic.
LEMMA PastMnemonic ==
    ASSUME NEW t, NEW u, NEW n \in Nat, Agree(t, u, n), u[n+1] = "blank",
           NEW N, N \subseteq 1 .. n, NEW b, b # n + 1, NEW fl, ~InString(fl),
           NEW l, NEW p \in Nat, NEW av \in Seq(Arg),
           NEW k \in Nat, NEW m \in Nat, NEW f \in Nat,
           Past(t, n, N, l, p, av, k, m, <<>>),
           FieldPart(t, n, N, b, fl, k, <<>>, f)
    PROVE  Past(u, n + 1, N \cup {n + 1}, l, b, av, k, f, <<n + 1>>)
  <1>0. <<>> \in Seq(Nat) /\ Len(<<>>) = 0 /\ Len(<<n + 1>>) = 1
    BY EmptySeq
  <1>1. /\ Outside(t, n + 1) /\ Skips(t, n, k + 1, f)
        /\ \A j \in f .. n : t[j] = "blank" => ~Outside(t, j)
    BY EnclosingNext DEF FieldPart, Base, InString
  <1>2. \A i \in 1 .. n + 1 : Outside(u, i) <=> Outside(t, i)
    BY OutsideSame
  <1>3. SameNuls(N, N \cup {n + 1}, n)
    BY DEF SameNuls
  <1>4. Past(u, n + 1, N \cup {n + 1}, l, p, av, k, m, <<>>)
    <2> DEFINE o == n + 1
               M == N \cup {n + 1}
               e == <<>>
    <2>1. /\ o \in n .. n + 1 /\ u[n+1] \notin {"colon", "comma"}
          /\ SameNuls(N, M, n) /\ Past(t, n, N, l, p, av, k, m, e) /\ e \in Seq(Nat)
      BY <1>0, <1>3
    <2> HIDE DEF o, M, e
    <2>2. Past(u, o, M, l, p, av, k, m, e)
      BY <2>1, PastSame
    <2> QED BY <2>2 DEF o, M, e
  <1>5. f \in 1 .. n + 1 /\ Points(u, N \cup {n + 1}, b, f, n + 1)
    BY <1>0, FieldIsCut
  <1>6. f <= n /\ b # 0
    BY <1>5 DEF Points, FieldPart, Quoted
  <1>7. Skips(u, n + 1, k + 1, f)
    BY <1>1, <1>6, SkipsSame
  <1>8. MnemonicPart(u, n + 1, N \cup {n + 1}, b, k, f, n + 1)
    <2>1. \A j \in f .. (n+1)-1 : u[j] = "blank" => ~Outside(u, j)
      BY <1>1, <1>2, <1>5 DEF Agree
    <2>2. Outside(u, n + 1)
      BY <1>1, <1>2
    <2> QED BY <1>5, <1>6, <1>7, <2>1, <2>2 DEF MnemonicPart
  <1>9. CutsPart(u, n + 1, <<n + 1>>)
    <2>1. \A i \in 1 .. n + 1 : ~(u[i] = "comma" /\ Outside(u, i))
      BY <1>0, <1>4 DEF Past, CutsPart
    <2> QED BY <1>0, <2>1 DEF CutsPart
  <1>10. Len(av) = 0
    BY DEF Past
  <1>11. ArgsPart(u, n + 1, N \cup {n + 1}, av, f, <<n + 1>>)
    BY <1>10 DEF ArgsPart
  <1>12. ColonPart(u, n + 1, k) /\ LabelPart(u, n + 1, N \cup {n + 1}, l, k)
    BY <1>4 DEF Past
  <1>13. <<n + 1>> # <<>> /\ <<n + 1>>[1] = n + 1
    OBVIOUS
  <1> QED BY <1>0, <1>6, <1>8, <1>9, <1>10, <1>11, <1>12, <1>13 DEF Past

\* A comma stores an argument.
LEMMA PastArg ==
    ASSUME NEW t, NEW u, NEW n \in Nat, Agree(t, u, n), u[n+1] = "comma",
           NEW N, N \subseteq 1 .. n, NEW b \in Nat, NEW fl, ~InString(fl),
           NEW l, NEW p \in Nat, NEW av \in Seq(Arg),
           NEW k \in Nat, NEW m \in Nat, NEW q \in Seq(Nat), q # <<>>, NEW f \in Nat,
           Past(t, n, N, l, p, av, k, m, q),
           FieldPart(t, n, N, b, fl, k, q, f),
           NEW ty \in ArgTypes, TypePart(t, n, ty, m, q, f)
    PROVE  Past(u, n + 1, N \cup {n + 1}, l, p, Append(av, [type |-> ty, str |-> b]),
                k, m, Append(q, n + 1))
  <1> DEFINE a == [type |-> ty, str |-> b]
             aw == Append(av, a)
             r == Append(q, n + 1)
             M == N \cup {n + 1}
  <1>1. Outside(t, n + 1)
    BY EnclosingNext DEF FieldPart, InString
  <1>2. \A i \in 1 .. n + 1 : Outside(u, i) <=> Outside(t, i)
    BY OutsideSame
  <1>3. SameNuls(N, M, n)
    BY DEF SameNuls
  <1>4. /\ Len(q) \in Nat /\ Len(q) >= 1 /\ r \in Seq(Nat) /\ Len(r) = Len(q) + 1
        /\ \A i \in 1 .. Len(q) : r[i] = q[i]
        /\ r[Len(q) + 1] = n + 1 /\ r # <<>>
    <2>1. n + 1 \in Nat /\ Len(q) \in Nat \ {0}
      BY EmptySeq
    <2>2. /\ r \in Seq(Nat) /\ Len(r) = Len(q) + 1
          /\ \A i \in 1 .. Len(q) : r[i] = q[i]
          /\ r[Len(q) + 1] = n + 1
      BY <2>1, AppendProperties
    <2>3. Len(q) \in Nat /\ Len(q) >= 1
      BY <2>1
    <2>4. r # <<>>
      BY <2>2, <2>3, EmptySeq
    <2> QED BY <2>2, <2>3, <2>4
  <1>5. a \in Arg
    BY DEF Arg
  <1>6. /\ Len(av) = Len(q) - 1 /\ Len(aw) = Len(av) + 1
        /\ \A i \in 1 .. Len(av) : aw[i] = av[i]
        /\ aw[Len(av) + 1] = a
    <2>1. Len(av) = Len(q) - 1
      BY DEF Past
    <2> HIDE DEF a
    <2> QED BY <1>5, <2>1, AppendProperties
  <1>7. LabelPart(t, n, N, l, k) /\ CutsPart(t, n, q) /\ ArgsPart(t, n, N, av, m, q)
    BY DEF Past
  <1>8. LabelPart(u, n + 1, M, l, k)
    BY <1>3, <1>7, LabelSame
  <1>9. ColonPart(u, n + 1, k)
    <2>1. ColonPart(t, n, k) /\ k <= n
      BY DEF Past, LabelPart
    <2> QED BY <2>1, ColonSame
  <1>10. r[1] = q[1] /\ q[1] \in Nat
    BY <1>4, ElementOfSeq
  <1>11. m \in 1 .. n /\ MnemonicPart(u, n + 1, M, p, k, m, r[1])
    <2> DEFINE z == q[1]
    <2>1. MnemonicPart(t, n, N, p, k, m, z) /\ z \in Nat
      BY <1>10 DEF Past
    <2> HIDE DEF z, M
    <2>2. m \in 1 .. n
      BY <2>1 DEF MnemonicPart, Skips
    <2>3. MnemonicPart(u, n + 1, M, p, k, m, z)
      BY <1>3, <2>1, MnemonicSame
    <2> QED BY <1>10, <2>2, <2>3 DEF z
  <1>12. CutsPart(u, n + 1, r)
    <2>1. \A i \in 1 .. Len(r) : r[i] \in 1 .. n + 1
      BY <1>4, <1>7 DEF CutsPart
    <2>2. \A i, j \in 1 .. Len(r) : i < j => r[i] < r[j]
      <3> TAKE i, j \in 1 .. Len(r)
      <3> HAVE i < j
      <3>1. i \in 1 .. Len(q) /\ r[i] = q[i] /\ q[i] \in 1 .. n
        BY <1>4, <1>7 DEF CutsPart
      <3>2. CASE j \in 1 .. Len(q)
        BY <1>4, <1>7, <3>1, <3>2 DEF CutsPart
      <3>3. CASE j = Len(q) + 1
        BY <1>4, <3>1, <3>3
      <3>4. j \in 1 .. Len(q) \/ j = Len(q) + 1
        BY <1>4
      <3> QED BY <3>2, <3>3, <3>4
    <2>3. ASSUME NEW x \in 1 .. n + 1
          PROVE  u[x] = "comma" /\ Outside(u, x) <=> \E i \in 2 .. Len(r) : r[i] = x
      <3>1. CASE x = n + 1
        <4>1. Len(q) + 1 \in 2 .. Len(r)
          BY <1>4
        <4> QED BY <1>1, <1>2, <1>4, <3>1, <4>1
      <3>2. CASE x \in 1 .. n
        <4>1. u[x] = t[x]
          BY <3>2 DEF Agree
        <4>2. u[x] = "comma" /\ Outside(u, x) <=> \E i \in 2 .. Len(q) : q[i] = x
          BY <1>2, <1>7, <3>2, <4>1 DEF CutsPart
        <4>3. (\E i \in 2 .. Len(q) : q[i] = x) => \E i \in 2 .. Len(r) : r[i] = x
          BY <1>4
        <4>4. ASSUME NEW i \in 2 .. Len(r), r[i] = x
              PROVE  \E j \in 2 .. Len(q) : q[j] = x
          BY <1>4, <3>2, <4>4
        <4> QED BY <4>2, <4>3, <4>4
      <3>3. x = n + 1 \/ x \in 1 .. n
        OBVIOUS
      <3> HIDE DEF r
      <3> QED BY <3>1, <3>2, <3>3
    <2> QED BY <2>1, <2>2, <2>3 DEF CutsPart
  <1>13. ArgsPart(u, n + 1, M, aw, m, r)
    <2>1. ArgsPart(u, n + 1, M, av, m, q)
      <3>1. Len(av) = IF q = <<>> THEN 0 ELSE Len(q) - 1
        BY DEF Past
      <3>2. n + 1 \in Nat /\ n <= n + 1 /\ (q # <<>> => m \in 1 .. n)
        BY <1>11
      <3> HIDE DEF M, a, aw, r
      <3> QED BY <1>3, <1>7, <3>1, <3>2, ArgsSame
    <2>2. ArgPart(u, n + 1, M, a, m, Len(q), q[Len(q)], n + 1)
      <3>1. n + 1 \in n .. n + 1 /\ u[n+1] # "blank" /\ u[n+1] \notin Quotes /\ m \in 1 .. n
        BY <1>11 DEF Quotes
      <3> QED BY <3>1, ArgIsCut
    <2> HIDE DEF M, a, aw, r
    <2>3. ASSUME NEW i \in 1 .. Len(aw)
          PROVE  ArgPart(u, n + 1, M, aw[i], m, i, r[i], r[i+1])
      <3>1. CASE i \in 1 .. Len(av)
        <4>1. r[i] = q[i] /\ r[i+1] = q[i+1] /\ aw[i] = av[i]
          <5>1. i \in 1 .. Len(q) /\ i + 1 \in 1 .. Len(q)
            BY <1>4, <1>6, <3>1
          <5> QED BY <1>4, <1>6, <3>1, <5>1
        <4> QED BY <2>1, <3>1, <4>1 DEF ArgsPart
      <3>2. CASE i = Len(q)
        <4>1. r[i] = q[Len(q)] /\ r[i+1] = n + 1 /\ aw[i] = a
          BY <1>4, <1>6, <3>2
        <4> QED BY <2>2, <3>2, <4>1
      <3>3. i \in 1 .. Len(av) \/ i = Len(q)
        <4>1. Len(aw) = Len(q) /\ Len(av) = Len(q) - 1 /\ Len(q) \in Nat
          BY <1>4, <1>6
        <4> QED BY <4>1
      <3> QED BY <3>1, <3>2, <3>3
    <2> QED BY <2>3 DEF ArgsPart
  <1>14. p # 0
    BY DEF Past
  <1> HIDE DEF M, a, aw, r
  <1>15. Past(u, n + 1, M, l, p, aw, k, m, r)
    BY <1>4, <1>6, <1>8, <1>9, <1>11, <1>12, <1>13, <1>14 DEF Past
  <1> QED BY <1>15 DEF M, a, aw, r

-----------------------------------------------------------------------------
(* The scan.                                                               *)

\* The state of the scan over the characters read so far.
Scan(k, m, q, f) ==
    /\ line_state \subseteq Flags \ {"BRACKET"}
    /\ ~(Has("DOUBLE_QUOTE") /\ Has("SINGLE_QUOTE"))
    /\ Has("LABEL") <=> k # 0
    /\ Has("MNEMONIC") <=> q # <<>>
    /\ Past(text, Len(text), nul, label, mnemonic, argv, k, m, q)
    /\ FieldPart(text, Len(text), nul, buffer, line_state, k, q, f)
    /\ TypePart(text, Len(text), arg_type, m, q, f)
    /\ QuotesPart(text, Len(text), line_state, k, q, f)
    /\ BracketsPart(text, Len(text))

Scanned == \E k, m, f \in Nat, q \in Seq(Nat) : Scan(k, m, q, f)

Accepted == /\ WellFormed(text, LINE_ARG_MAX)
            /\ Stores(text, nul, label, mnemonic, argv)

\* What is known while the scan goes on, behind a newline, and at the end.
Verdict ==
    /\ status = "scanning" /\ TailOf(text) = "eof" => Scanned
    /\ status = "scanning" /\ TailOf(text) # "eof" =>
          TailOf(text) = "newline" /\ ~InQuotes /\ ~Has("BRACKET") /\ Accepted
    /\ status = "returned" => Accepted
    /\ status \notin {"scanning", "returned"} => ~WellFormed(text, LINE_ARG_MAX)

\* A line with a bracket is in brackets from then on.
Bracketed ==
    /\ status = "scanning" => Has("BRACKET")
    /\ status = "returned" => TailOf(text) = "comment"

GrammarInv == TypeOK /\ IF HasForm(text) THEN Verdict ELSE Bracketed

\* The text when the character ch has been read.
LEMMA TextReads ==
    ASSUME TypeOK, NEW ch, Read(ch)
    PROVE  /\ Len(text) \in Nat /\ c = Len(text) + 1
           /\ Len(text') = Len(text) + 1 /\ text' \in Seq(Alphabet)
           /\ Agree(text, text', Len(text)) /\ text'[Len(text) + 1] = ch
           /\ HasForm(text') <=> HasForm(text) /\ ~(ch = "lbracket" /\ Outside(text, Len(text) + 1))
           /\ nul \subseteq 1 .. Len(text)
           /\ buffer \in Nat /\ mnemonic \in Nat /\ argv \in Seq(Arg) /\ arg_type \in ArgTypes
  <1>1. /\ Len(text) \in Nat /\ c = Len(text) + 1 /\ DOMAIN text = 1 .. Len(text)
        /\ text \in Seq(Alphabet)
    BY LenProperties DEF TypeOK, c
  <1>2. /\ Len(text') = Len(text) + 1 /\ text' \in Seq(Alphabet)
        /\ \A i \in 1 .. Len(text) : text'[i] = text[i]
        /\ text'[Len(text) + 1] = ch
    BY <1>1, AppendProperties DEF Read, MayRead
  <1>3. DOMAIN text' = 1 .. Len(text) + 1
    BY <1>2, LenProperties
  <1>4. HasForm(text') <=> HasForm(text) /\ ~(ch = "lbracket" /\ Outside(text, Len(text) + 1))
    <2>1. Agree(text, text', Len(text))
      BY <1>2 DEF Agree
    <2>2. \A i \in 1 .. Len(text) + 1 : Outside(text', i) <=> Outside(text, i)
      BY <1>1, <2>1, OutsideSame
    <2>3. \A i \in 1 .. Len(text) + 1 : i \in 1 .. Len(text) \/ i = Len(text) + 1
      BY <1>1
    <2>4. Len(text) + 1 \in 1 .. Len(text) + 1 /\ 1 .. Len(text) \subseteq 1 .. Len(text) + 1
      BY <1>1
    <2> QED BY <1>1, <1>2, <1>3, <2>2, <2>3, <2>4 DEF HasForm, Separators
  <1> QED BY <1>1, <1>2, <1>4 DEF TypeOK, Agree

\* Its tail, and the text before the tail.
LEMMA TailReads ==
    ASSUME TypeOK, NEW ch, Read(ch)
    PROVE  /\ ch = "newline" => TailOf(text') = "newline" /\ Body(text', Len(text))
           /\ ch = "semicolon" => TailOf(text') = "comment" /\ Body(text', Len(text))
           /\ ch \notin {"newline", "semicolon"} =>
                 TailOf(text') = "eof" /\ Body(text', Len(text) + 1)
  <1> DEFINE n == Len(text)
  <1>1. /\ n \in Nat /\ Len(text') = n + 1 /\ text' \in Seq(Alphabet)
        /\ text'[n + 1] = ch
    BY TextReads
  <1>2. text' # <<>>
    BY <1>1, EmptySeq
  <1>3. /\ n + 1 .. Len(text') = {n + 1} /\ n + 2 .. Len(text') = {}
        /\ Len(text') \in n .. n + 1 /\ Len(text') \in n + 1 .. n + 2
        /\ (n + 1) + 1 = n + 2
    BY <1>1
  <1> HIDE DEF n
  <1> QED BY <1>1, <1>2, <1>3 DEF TailOf, EndsWith, Body, Stop, n

\* A text in which the scan goes on is its own body.
LEMMA BodyAtEnd ==
    ASSUME TypeOK, TailOf(text) = "eof"
    PROVE  Body(text, Len(text)) /\ Len(text) \in Nat
  <1>1. Len(text) \in Nat /\ text \in Seq(Alphabet)
    BY LenProperties DEF TypeOK
  <1>2. Len(text) \in Len(text) .. Len(text) + 1 /\ Len(text) + 1 .. Len(text) = {}
    BY <1>1
  <1> QED BY <1>1, <1>2 DEF Body, Stop

\* The mnemonic starts in the text, when there is a cut behind it.
LEMMA MnemonicInText ==
    ASSUME NEW t, NEW n \in Nat, NEW N, NEW l, NEW p, NEW av, NEW k \in Nat,
           NEW m \in Nat, NEW q \in Seq(Nat), Past(t, n, N, l, p, av, k, m, q), q # <<>>
    PROVE  m \in 1 .. n
  <1> DEFINE z == q[1]
  <1>1. z \in Nat
    BY EmptySeq, ElementOfSeq
  <1>2. MnemonicPart(t, n, N, p, k, m, z)
    BY DEF Past
  <1> HIDE DEF z
  <1> QED BY <1>1, <1>2 DEF MnemonicPart, Skips

\* The characters that cut nothing.
LEMMA PassStep ==
    ASSUME TypeOK, TypeOK', HasForm(text'), Scanned,
           \/ \E s \in Quotes : OpenQuote(s) \/ CloseQuote(s)
           \/ LeadingBlank
           \/ \E ch \in Alphabet : PassOver(ch)
    PROVE  Scanned'
<1> DEFINE n == Len(text)
           t == text
           u == text'
<1>1. PICK k \in Nat, m \in Nat, f \in Nat, q \in Seq(Nat) : Scan(k, m, q, f)
  BY DEF Scanned
<1>2. /\ line_state \subseteq Flags \ {"BRACKET"}
      /\ ~(Has("DOUBLE_QUOTE") /\ Has("SINGLE_QUOTE"))
      /\ Past(t, n, nul, label, mnemonic, argv, k, m, q)
      /\ FieldPart(t, n, nul, buffer, line_state, k, q, f)
      /\ TypePart(t, n, arg_type, m, q, f)
      /\ QuotesPart(t, n, line_state, k, q, f) /\ BracketsPart(t, n)
      /\ Has("LABEL") <=> k # 0
      /\ Has("MNEMONIC") <=> q # <<>>
  BY <1>1 DEF Scan
<1>3. Bases(k, q) \subseteq Bases(k, q) /\ Base(k, q) \in Bases(k, q)
  BY BaseType
<1>4. ASSUME NEW ch, Read(ch), ch \notin {"colon", "comma"} \/ InString(line_state),
             UNCHANGED fields, nul' = nul \/ nul' = nul \cup {c}
      PROVE  /\ Past(u, n + 1, nul', label', mnemonic', argv', k, m, q)
             /\ SameNuls(nul, nul', n)
  <2>1. /\ n \in Nat /\ n + 1 \in n .. n + 1 /\ Agree(t, u, n) /\ u[n+1] = ch
        /\ c = n + 1 /\ nul \subseteq 1 .. n /\ mnemonic \in Nat /\ argv \in Seq(Arg)
    BY <1>4, TextReads
  <2>2. SameNuls(nul, nul', n)
    BY <1>4, <2>1 DEF SameNuls
  <2>3. u[n+1] \notin {"colon", "comma"} \/ ~Outside(t, n + 1)
    BY <1>2, <1>4, <2>1, EnclosingNext DEF FieldPart, InString
  <2> DEFINE o == n + 1
  <2>4. o \in n .. n + 1
    BY <2>1
  <2> HIDE DEF n, t, u, o
  <2>5. Past(u, o, nul', label, mnemonic, argv, k, m, q)
    BY <1>2, <2>1, <2>2, <2>3, <2>4, PastSame
  <2> QED BY <1>4, <2>2, <2>5 DEF fields, o
<1>5. ASSUME NEW g \in Nat, Len(text') = n + 1,
             line_state' \subseteq Flags \ {"BRACKET"},
             ~(Has("DOUBLE_QUOTE") /\ Has("SINGLE_QUOTE"))',
             Has("LABEL")' <=> Has("LABEL"), Has("MNEMONIC")' <=> Has("MNEMONIC"),
             Past(u, n + 1, nul', label', mnemonic', argv', k, m, q),
             FieldPart(u, n + 1, nul', buffer', line_state', k, q, g),
             TypePart(u, n + 1, arg_type', m, q, g),
             QuotesPart(u, n + 1, line_state', k, q, g), BracketsPart(u, n + 1)
      PROVE  Scanned'
  <2>1. Scan(k, m, q, g)'
    BY <1>2, <1>5 DEF Scan
  <2> QED BY <2>1 DEF Scanned
<1>6. ASSUME n \in Nat, Agree(t, u, n), NEW g \in Nat,
             arg_type' = IF Quoted(u, n + 1, g) \/ (Len(q) = 1 /\ t[m] \in Quotes)
                         THEN "STRING" ELSE "UNPROCESSED"
      PROVE  TypePart(u, n + 1, arg_type', m, q, g)
  <2>1. q # <<>> => u[m] = t[m]
    BY <1>2, <1>6, MnemonicInText DEF Agree
  <2>2. q = <<>> => Len(q) # 1
    BY EmptySeq
  <2> QED BY <1>6, <2>1, <2>2 DEF TypePart
<1>7. ASSUME NEW s \in Quotes, OpenQuote(s)
      PROVE  Scanned'
  <2>1. Read(s) /\ s \in {"dquote", "squote"}
    BY <1>7 DEF OpenQuote, Quotes
  <2>2. /\ ~InString(line_state) /\ Open(line_state') = s /\ buffer = c
        /\ line_state' = line_state \cup {QuoteFlag(s)}
        /\ ~Has("SINGLE_QUOTE") /\ ~Has("DOUBLE_QUOTE")
        /\ arg_type' = "STRING" /\ buffer' = buffer + 1 /\ nul' = nul
        /\ UNCHANGED fields
    BY <1>7, <2>1 DEF OpenQuote, Open, InString, Has, QuoteFlag, OtherQuote
  <2>3. /\ n \in Nat /\ c = n + 1 /\ Agree(t, u, n) /\ u[n+1] = s
        /\ u[n+1] \in Quotes /\ nul \subseteq 1 .. n /\ Len(text') = n + 1
    BY <2>1, TextReads DEF Quotes
  <2>4. Past(u, n + 1, nul', label', mnemonic', argv', k, m, q)
    BY <1>4, <2>1, <2>2
  <2>5. FieldPart(t, n, nul, n + 1, line_state, k, q, f)
    BY <1>2, <2>2, <2>3
  <2> HIDE DEF n, t, u
  <2>6. f = n + 1 /\ FieldPart(u, n + 1, nul, n + 2, line_state', k, q, f)
    <3> DEFINE fl2 == line_state'
    <3>1. Open(fl2) = u[n+1]
      BY <2>2, <2>3
    <3> HIDE DEF fl2
    <3>2. f = n + 1 /\ FieldPart(u, n + 1, nul, n + 2, fl2, k, q, f)
      BY <2>2, <2>3, <2>5, <3>1, FieldOpens
    <3> QED BY <3>2 DEF fl2
  <2>7. buffer' = n + 2
    BY <2>2, <2>3
  <2>8. TypePart(u, n + 1, arg_type', m, q, f)
    BY <1>6, <2>2, <2>3, <2>6 DEF Quoted
  <2>9. Skips(u, n + 1, Base(k, q), n + 1)
    BY <2>6 DEF FieldPart
  <2>10. QuotesPart(u, n + 1, line_state', k, q, f)
    <3>1. InString(line_state')
      BY <2>1, <2>2 DEF InString
    <3> QED BY <1>2, <1>3, <2>2, <2>3, <2>6, <2>9, <3>1, QuotesBefore
  <2>11. /\ line_state' \subseteq Flags \ {"BRACKET"}
         /\ ~(Has("DOUBLE_QUOTE") /\ Has("SINGLE_QUOTE"))'
         /\ Has("LABEL")' <=> Has("LABEL")
         /\ Has("MNEMONIC")' <=> Has("MNEMONIC")
    BY <1>2, <2>2 DEF Has, QuoteFlag, Flags
  <2>12. BracketsPart(u, n + 1)
    BY <1>2, <2>1, <2>3, BracketsBefore
  <2> QED BY <1>5, <2>2, <2>3, <2>4, <2>6, <2>7, <2>8, <2>10, <2>11, <2>12
<1>8. ASSUME NEW s \in Quotes, CloseQuote(s)
      PROVE  Scanned'
  <2>1. Read(s) /\ s \in {"dquote", "squote"}
    BY <1>8 DEF CloseQuote, Quotes
  <2>2. /\ InString(line_state) /\ Open(line_state) = s /\ ~InString(line_state')
        /\ line_state' = line_state \ {QuoteFlag(s)}
        /\ arg_type' = arg_type /\ buffer' = buffer /\ nul' = nul \cup {c}
        /\ UNCHANGED fields
    BY <1>2, <1>8, <2>1 DEF CloseQuote, Open, InString, Has, QuoteFlag, OtherQuote
  <2>3. /\ n \in Nat /\ c = n + 1 /\ Agree(t, u, n) /\ u[n+1] = s
        /\ u[n+1] \in Quotes /\ nul \subseteq 1 .. n /\ Len(text') = n + 1
    BY <2>1, TextReads DEF Quotes
  <2>4. Past(u, n + 1, nul', label', mnemonic', argv', k, m, q)
    BY <1>4, <2>1, <2>2
  <2> HIDE DEF n, t, u
  <2>6. /\ f <= n /\ t[f] = u[n+1] /\ t[f] \in Quotes
        /\ FieldPart(u, n + 1, nul \cup {n + 1}, buffer, line_state', k, q, f)
    <3> DEFINE fl == line_state
               fl2 == line_state'
    <3>1. InString(fl) /\ u[n+1] = Open(fl) /\ ~InString(fl2)
      BY <2>2, <2>3
    <3>2. FieldPart(t, n, nul, buffer, fl, k, q, f)
      BY <1>2
    <3> HIDE DEF fl, fl2
    <3>3. /\ f <= n /\ t[f] = u[n+1] /\ t[f] \in Quotes
          /\ FieldPart(u, n + 1, nul \cup {n + 1}, buffer, fl2, k, q, f)
      BY <2>3, <3>1, <3>2, FieldCloses
    <3> QED BY <3>3 DEF fl2
  <2>7. f \in 1 .. n
    BY <2>3, <2>6, BaseType DEF FieldPart, Skips
  <2>8. TypePart(u, n + 1, arg_type', m, q, f)
    <3>1. Quoted(u, n + 1, f) /\ Quoted(t, n, f)
      BY <2>3, <2>6, <2>7 DEF Quoted, Agree
    <3> QED BY <1>2, <1>6, <2>2, <2>3, <3>1 DEF TypePart
  <2>9. ~Outside(t, n + 1)
    <3>1. Enclosing(t, n) # "none"
      BY <1>2, <2>2 DEF FieldPart, InString
    <3> QED BY <2>3, <3>1, EnclosingNext
  <2>10. QuotesPart(u, n + 1, line_state', k, q, f)
    BY <1>2, <1>3, <2>2, <2>3, <2>6, <2>9, QuotesBefore
  <2>11. /\ line_state' \subseteq Flags \ {"BRACKET"}
         /\ ~(Has("DOUBLE_QUOTE") /\ Has("SINGLE_QUOTE"))'
         /\ Has("LABEL")' <=> Has("LABEL")
         /\ Has("MNEMONIC")' <=> Has("MNEMONIC")
    BY <1>2, <2>2 DEF Has, QuoteFlag
  <2>12. BracketsPart(u, n + 1)
    BY <1>2, <2>1, <2>3, BracketsBefore
  <2> QED BY <1>5, <2>2, <2>3, <2>4, <2>6, <2>8, <2>10, <2>11, <2>12
<1>9. CASE LeadingBlank
  <2>1. Read("blank")
    BY <1>9 DEF LeadingBlank
  <2>2. /\ ~InString(line_state) /\ line_state' = line_state /\ buffer = c
        /\ arg_type' = arg_type /\ buffer' = buffer + 1 /\ nul' = nul
        /\ UNCHANGED fields
    BY <1>9 DEF LeadingBlank, Open, InString, Bounded
  <2>3. /\ n \in Nat /\ c = n + 1 /\ Agree(t, u, n) /\ u[n+1] = "blank"
        /\ nul \subseteq 1 .. n /\ Len(text') = n + 1
    BY <2>1, TextReads
  <2>4. Past(u, n + 1, nul', label', mnemonic', argv', k, m, q)
    BY <1>4, <2>1, <2>2
  <2>5. FieldPart(t, n, nul, n + 1, line_state, k, q, f)
    BY <1>2, <2>2, <2>3
  <2> HIDE DEF n, t, u
  <2>6. f = n + 1 /\ FieldPart(u, n + 1, nul, n + 2, line_state, k, q, n + 2)
    BY <2>2, <2>3, <2>5, FieldSkips
  <2>7. buffer' = n + 2 /\ n + 2 \in Nat
    BY <2>2, <2>3
  <2>8. TypePart(u, n + 1, arg_type', m, q, n + 2)
    <3>1. ~Quoted(u, n + 1, n + 2) /\ ~Quoted(t, n, f)
      BY <2>3, <2>6 DEF Quoted
    <3> QED BY <1>2, <1>6, <2>2, <2>3, <2>7, <3>1 DEF TypePart
  <2>9. u[n+1] \notin Quotes
    BY <2>3 DEF Quotes
  <2>10. QuotesPart(u, n + 1, line_state', k, q, n + 2)
    BY <1>2, <1>3, <2>2, <2>3, <2>9, QuotesBefore
  <2>11. /\ Has("LABEL")' <=> Has("LABEL")
         /\ Has("MNEMONIC")' <=> Has("MNEMONIC")
         /\ ~(Has("DOUBLE_QUOTE") /\ Has("SINGLE_QUOTE"))'
    BY <1>2, <2>2 DEF Has
  <2>12. BracketsPart(u, n + 1)
    BY <1>2, <2>3, BracketsBefore
  <2> QED BY <1>2, <1>5, <2>2, <2>3, <2>4, <2>6, <2>7, <2>8, <2>10, <2>11, <2>12
<1>10. ASSUME NEW ch \in Alphabet, PassOver(ch)
       PROVE  Scanned'
  <2>1. Read(ch)
    BY <1>10 DEF PassOver
  <2>2. /\ line_state' = line_state /\ arg_type' = arg_type /\ buffer' = buffer
        /\ nul' = nul /\ UNCHANGED fields
    BY <1>10 DEF PassOver
  <2>3. /\ n \in Nat /\ c = n + 1 /\ Agree(t, u, n) /\ u[n+1] = ch
        /\ nul \subseteq 1 .. n /\ Len(text') = n + 1 /\ buffer \in Nat
    BY <2>1, TextReads
  <2>5. /\ ch \in Quotes => InString(line_state) /\ ch # Open(line_state)
        /\ ch \in {"colon", "comma", "rbracket"} => InString(line_state)
        /\ ch = "blank" => InString(line_state) \/ (buffer # n + 1 /\ q # <<>>)
    <3>1. ~Has("BRACKET") /\ ~(Has("DOUBLE_QUOTE") /\ Has("SINGLE_QUOTE"))
      BY <1>2 DEF Has
    <3>2. Bounded => InString(line_state)
      BY <3>1 DEF Bounded, Open, InString, Has
    <3>3. \/ ch \in Letters
          \/ ch \in Quotes /\ Has(OtherQuote(ch))
          \/ ch \in {"blank", "comma", "colon", "lbracket", "rbracket"} /\ Bounded
          \/ ch = "blank" /\ c # buffer /\ Has("MNEMONIC")
      BY <1>10 DEF PassOver
    <3>4. ch \in Letters => ch \notin {"dquote", "squote", "colon", "comma", "blank", "rbracket"}
      BY AlphabetAssumption DEF SpecialCharacters
    <3>5. ch \in Quotes /\ Has(OtherQuote(ch)) =>
             InString(line_state) /\ ch # Open(line_state)
      BY <3>1 DEF Quotes, OtherQuote, Open, InString, Has
    <3> QED BY <1>2, <2>3, <3>2, <3>3, <3>4, <3>5 DEF Quotes
  <2>4. Past(u, n + 1, nul', label', mnemonic', argv', k, m, q)
    BY <1>4, <2>1, <2>2, <2>5
  <2> HIDE DEF n, t, u
  <2>6. FieldPart(u, n + 1, nul, buffer, line_state, k, q, f)
    <3> DEFINE fl == line_state
    <3>1. u[n+1] \in Quotes => InString(fl) /\ u[n+1] # Open(fl)
      BY <2>3, <2>5
    <3> QED BY <1>2, <2>2, <2>3, <2>5, <3>1, FieldPasses
  <2>7. f \in 1 .. n + 1
    BY <1>2, <2>3, BaseType DEF FieldPart, Skips
  <2>8. TypePart(u, n + 1, arg_type', m, q, f)
    <3>0. f = n + 1 => ~InString(line_state)
      BY <1>2, <2>3 DEF FieldPart, Quoted
    <3>1. Quoted(u, n + 1, f) <=> Quoted(t, n, f)
      BY <2>3, <2>5, <2>7, <3>0 DEF Quoted, Agree
    <3> QED BY <1>2, <1>6, <2>2, <2>3, <3>1 DEF TypePart
  <2>9. InString(line_state) => ~Outside(t, n + 1)
    BY <1>2, <2>3, EnclosingNext DEF FieldPart, InString
  <2>10. QuotesPart(u, n + 1, line_state', k, q, f)
    BY <1>2, <1>3, <2>2, <2>3, <2>5, <2>9, QuotesBefore
  <2>11. /\ Has("LABEL")' <=> Has("LABEL")
         /\ Has("MNEMONIC")' <=> Has("MNEMONIC")
         /\ ~(Has("DOUBLE_QUOTE") /\ Has("SINGLE_QUOTE"))'
    BY <1>2, <2>2 DEF Has
  <2>12. BracketsPart(u, n + 1)
    BY <1>2, <2>3, <2>5, <2>9, BracketsBefore
  <2> QED BY <1>2, <1>5, <2>2, <2>3, <2>4, <2>6, <2>8, <2>10, <2>11, <2>12
<1> QED BY <1>7, <1>8, <1>9, <1>10

\* The characters that cut.
LEMMA CutStep ==
    ASSUME TypeOK, HasForm(text'), Scanned, Colon \/ EndMnemonic \/ Comma
    PROVE  Scanned'
<1> DEFINE n == Len(text)
           t == text
           u == text'
           M == nul \cup {n + 1}
<1>1. PICK k \in Nat, m \in Nat, f \in Nat, q \in Seq(Nat) : Scan(k, m, q, f)
  BY DEF Scanned
<1>2. /\ line_state \subseteq Flags \ {"BRACKET"}
      /\ ~(Has("DOUBLE_QUOTE") /\ Has("SINGLE_QUOTE"))
      /\ Past(t, n, nul, label, mnemonic, argv, k, m, q)
      /\ FieldPart(t, n, nul, buffer, line_state, k, q, f)
      /\ TypePart(t, n, arg_type, m, q, f)
      /\ QuotesPart(t, n, line_state, k, q, f) /\ BracketsPart(t, n)
      /\ Has("LABEL") <=> k # 0
      /\ Has("MNEMONIC") <=> q # <<>>
  BY <1>1 DEF Scan
<1>3. ASSUME NEW ch \in {"colon", "blank", "comma"}, Read(ch), ~Bounded
      PROVE  /\ n \in Nat /\ c = n + 1 /\ Agree(t, u, n) /\ u[n+1] = ch
             /\ nul \subseteq 1 .. n /\ Len(text') = n + 1
             /\ buffer \in Nat /\ mnemonic \in Nat /\ argv \in Seq(Arg)
             /\ arg_type \in ArgTypes
             /\ u[n+1] \notin Quotes /\ Outside(u, n + 1) /\ ~InString(line_state)
  <2>1. /\ n \in Nat /\ c = n + 1 /\ Agree(t, u, n) /\ u[n+1] = ch
        /\ nul \subseteq 1 .. n /\ Len(text') = n + 1
        /\ buffer \in Nat /\ mnemonic \in Nat /\ argv \in Seq(Arg)
        /\ arg_type \in ArgTypes
    BY <1>3, TextReads
  <2>2. ~InString(line_state)
    BY <1>3 DEF Bounded, Open, InString
  <2>3. Outside(t, n + 1)
    BY <1>2, <2>1, <2>2, EnclosingNext DEF FieldPart, InString
  <2>4. Outside(u, n + 1)
    BY <2>1, <2>3, OutsideSame
  <2> QED BY <1>3, <2>1, <2>2, <2>4 DEF Quotes
<1>4. ASSUME NEW ch \in {"colon", "blank", "comma"}, Read(ch), ~Bounded,
             NEW k2 \in Nat, NEW m2 \in Nat, NEW q2 \in Seq(Nat),
             Base(k2, q2) = n + 2, Bases(k, q) \subseteq Bases(k2, q2),
             nul' = M, buffer' = n + 2,
             line_state' \subseteq Flags \ {"BRACKET"}, ~InString(line_state'),
             Has("LABEL")' <=> k2 # 0, Has("MNEMONIC")' <=> q2 # <<>>,
             Past(u, n + 1, M, label', mnemonic', argv', k2, m2, q2),
             arg_type' = IF Len(q2) = 1 /\ u[m2] \in Quotes THEN "STRING" ELSE "UNPROCESSED"
      PROVE  Scanned'
  <2>1. /\ n \in Nat /\ Agree(t, u, n) /\ nul \subseteq 1 .. n /\ Len(text') = n + 1
        /\ u[n+1] \notin Quotes /\ Outside(u, n + 1) /\ ~InString(line_state)
    BY <1>3, <1>4
  <2>0. PICK f2 \in Nat : f2 = n + 2
    BY <2>1
  <2> DEFINE fl2 == line_state'
  <2>2. ~InString(fl2)
    BY <1>4
  <2> HIDE DEF fl2, t, u
  <2>3. FieldPart(u, n + 1, M, n + 2, fl2, k2, q2, n + 2)
    BY <1>4, <2>1, <2>2, FieldBegins
  <2>4. QuotesPart(u, n + 1, fl2, k2, q2, f2)
    <3> HIDE DEF n
    <3> QED BY <1>2, <1>4, <2>1, QuotesBefore
  <2>5. TypePart(u, n + 1, arg_type', m2, q2, n + 2) /\ n + 2 \in Nat
    <3>1. ~Quoted(u, n + 1, n + 2)
      BY <2>1 DEF Quoted
    <3> QED BY <1>4, <2>1, <3>1 DEF TypePart
  <2>6. Scan(k2, m2, q2, f2)'
    <3>1. Len(text') = n + 1 /\ nul' = M /\ buffer' = n + 2 /\ line_state' = fl2
      BY <1>4, <2>1 DEF fl2
    <3>2. Past(u, n + 1, M, label', mnemonic', argv', k2, m2, q2)
      BY <1>4
    <3> HIDE DEF n, M
    <3>3. /\ Past(text', Len(text'), nul', label', mnemonic', argv', k2, m2, q2)
          /\ FieldPart(text', Len(text'), nul', buffer', line_state', k2, q2, f2)
          /\ TypePart(text', Len(text'), arg_type', m2, q2, f2)
          /\ QuotesPart(text', Len(text'), line_state', k2, q2, f2)
      BY <2>0, <2>3, <2>4, <2>5, <3>1, <3>2 DEF u
    <3>4. BracketsPart(text', Len(text'))
      <4>1. u[n+1] # "rbracket"
        BY <1>4, <2>1, <1>3
      <4> QED BY <1>2, <2>1, <3>1, <4>1, BracketsBefore DEF u
    <3>5. ~(Has("DOUBLE_QUOTE") /\ Has("SINGLE_QUOTE"))'
      BY <1>4 DEF Has, Open, InString
    <3> QED BY <1>4, <3>3, <3>4, <3>5 DEF Scan
  <2> QED BY <2>6 DEF Scanned
<1>5. CASE Colon
  <2>1. /\ Read("colon") /\ ~Bounded /\ k = 0 /\ q = <<>> /\ arg_type # "STRING"
        /\ label' = buffer /\ nul' = nul \cup {c} /\ buffer' = c + 1
        /\ line_state' = line_state \cup {"LABEL"} /\ mnemonic' = mnemonic
        /\ argv' = argv /\ arg_type' = arg_type
    BY <1>2, <1>5 DEF Colon
  <2>2. /\ n \in Nat /\ c = n + 1 /\ Agree(t, u, n) /\ u[n+1] = "colon"
        /\ nul \subseteq 1 .. n /\ mnemonic \in Nat /\ argv \in Seq(Arg)
        /\ arg_type \in ArgTypes /\ ~InString(line_state)
    BY <1>3, <2>1
  <2>3. Past(u, n + 1, M, buffer, mnemonic, argv, n + 1, m, <<>>)
    <3>1. /\ Past(t, n, nul, label, mnemonic, argv, 0, m, <<>>)
          /\ FieldPart(t, n, nul, buffer, line_state, 0, <<>>, f)
          /\ TypePart(t, n, arg_type, m, <<>>, f)
      BY <1>2, <2>1
    <3> HIDE DEF n, t, u
    <3> QED BY <2>1, <2>2, <3>1, PastColon
  <2>4. /\ Base(n + 1, <<>>) = n + 2 /\ n + 1 \in Nat /\ <<>> \in Seq(Nat)
        /\ Len(<<>>) = 0 /\ Bases(k, q) \subseteq Bases(n + 1, <<>>) /\ n + 1 # 0
    BY <2>1, <2>2, EmptySeq DEF Base, Bases
  <2>5. /\ line_state' \subseteq Flags \ {"BRACKET"}
        /\ ~InString(line_state') /\ Has("LABEL")' /\ ~Has("MNEMONIC")'
    BY <1>2, <2>1, <2>2 DEF Open, InString, Has, Flags
  <2>6. nul' = M /\ buffer' = n + 2
    BY <2>1, <2>2
  <2>7. arg_type' = "UNPROCESSED"
    BY <2>1, <2>2 DEF ArgTypes
  <2> DEFINE k2 == n + 1
             e == <<>>
  <2>8. /\ Has("LABEL")' <=> k2 # 0
        /\ Has("MNEMONIC")' <=> e # <<>>
        /\ arg_type' = IF Len(e) = 1 /\ u[m] \in Quotes THEN "STRING" ELSE "UNPROCESSED"
        /\ Past(u, n + 1, M, label', mnemonic', argv', k2, m, e)
        /\ k2 \in Nat /\ e \in Seq(Nat) /\ Base(k2, e) = n + 2
        /\ Bases(k, q) \subseteq Bases(k2, e)
    BY <2>1, <2>3, <2>4, <2>5, <2>7
  <2> HIDE DEF k2, e
  <2> QED BY <1>4, <2>1, <2>5, <2>6, <2>8
<1>6. CASE EndMnemonic
  <2>1. /\ Read("blank") /\ ~Bounded /\ q = <<>> /\ c # buffer
        /\ mnemonic' = buffer /\ nul' = nul \cup {c} /\ buffer' = c + 1
        /\ line_state' = line_state \cup {"MNEMONIC"} /\ label' = label
        /\ argv' = argv /\ arg_type' = arg_type
    BY <1>2, <1>6 DEF EndMnemonic, StoreMnemonic
  <2>2. /\ n \in Nat /\ c = n + 1 /\ Agree(t, u, n) /\ u[n+1] = "blank"
        /\ nul \subseteq 1 .. n /\ mnemonic \in Nat /\ argv \in Seq(Arg)
        /\ ~InString(line_state)
    BY <1>3, <2>1
  <2>3. Past(u, n + 1, M, label, buffer, argv, k, f, <<n + 1>>)
    <3>1. /\ Past(t, n, nul, label, mnemonic, argv, k, m, <<>>)
          /\ FieldPart(t, n, nul, buffer, line_state, k, <<>>, f)
          /\ buffer # n + 1
      BY <1>2, <2>1, <2>2
    <3> HIDE DEF n, t, u
    <3> QED BY <2>2, <3>1, PastMnemonic
  <2>4. /\ Base(k, <<n + 1>>) = n + 2 /\ <<n + 1>> \in Seq(Nat) /\ <<n + 1>> # <<>>
        /\ Len(<<n + 1>>) = 1 /\ <<n + 1>>[1] = n + 1
        /\ Bases(k, q) \subseteq Bases(k, <<n + 1>>)
    BY <2>1, <2>2, EmptySeq DEF Base, Bases
  <2>5. /\ line_state' \subseteq Flags \ {"BRACKET"}
        /\ ~InString(line_state') /\ (Has("LABEL")' <=> k # 0) /\ Has("MNEMONIC")'
    BY <1>2, <2>1, <2>2 DEF Open, InString, Has, Flags
  <2>6. nul' = M /\ buffer' = n + 2
    BY <2>1, <2>2
  <2>7. f \in 1 .. n
    <3>1. f < n + 1
      BY <2>3, <2>4 DEF Past, MnemonicPart
    <3>2. 1 <= f
      BY <1>2, BaseType DEF FieldPart, Skips
    <3> QED BY <2>2, <3>1, <3>2
  <2>8. arg_type' = IF u[f] \in Quotes THEN "STRING" ELSE "UNPROCESSED"
    <3>1. u[f] = t[f] /\ (Quoted(t, n, f) <=> t[f] \in Quotes)
      BY <2>2, <2>7 DEF Agree, Quoted
    <3>2. Len(q) = 0
      BY <2>1, EmptySeq
    <3> QED BY <1>2, <2>1, <3>1, <3>2 DEF TypePart
  <2> QED BY <1>4, <2>1, <2>3, <2>4, <2>5, <2>6, <2>8
<1>7. CASE Comma
  <2>1. /\ Read("comma") /\ ~Bounded /\ q # <<>>
        /\ nul' = nul \cup {c} /\ buffer' = c + 1
        /\ argv' = Append(argv, [type |-> arg_type, str |-> buffer])
        /\ line_state' = line_state /\ label' = label
        /\ mnemonic' = mnemonic /\ arg_type' = "UNPROCESSED"
    BY <1>2, <1>7 DEF Comma, StoreArgument
  <2>2. /\ n \in Nat /\ c = n + 1 /\ Agree(t, u, n) /\ u[n+1] = "comma"
        /\ nul \subseteq 1 .. n /\ mnemonic \in Nat /\ argv \in Seq(Arg)
        /\ buffer \in Nat /\ arg_type \in ArgTypes /\ ~InString(line_state)
    BY <1>3, <2>1
  <2> DEFINE r == Append(q, n + 1)
             aw == Append(argv, [type |-> arg_type, str |-> buffer])
  <2>3. Past(u, n + 1, M, label, mnemonic, aw, k, m, r)
    <3> HIDE DEF n, t, u
    <3> QED BY <1>2, <2>1, <2>2, PastArg
  <2>4. /\ r \in Seq(Nat) /\ Len(r) = Len(q) + 1 /\ r[Len(q) + 1] = n + 1
        /\ \A i \in 1 .. Len(q) : r[i] = q[i]
        /\ Len(q) \in Nat /\ Len(q) # 0
    BY <2>1, <2>2, AppendProperties, EmptySeq
  <2>5. r # <<>>
    BY <2>4, EmptySeq
  <2> HIDE DEF r
  <2>6. Base(k, r) = n + 2 /\ Bases(k, q) \subseteq Bases(k, r)
    <3>1. Base(k, r) = n + 2
      BY <2>2, <2>4, <2>5 DEF Base
    <3>2. ASSUME NEW i \in 1 .. Len(q) PROVE i \in 1 .. Len(r) /\ r[i] + 1 = q[i] + 1
      BY <2>4
    <3>3. {q[i] + 1 : i \in 1 .. Len(q)} \subseteq {r[i] + 1 : i \in 1 .. Len(r)}
      BY <3>2
    <3> QED BY <3>1, <3>3 DEF Bases
  <2>7. /\ ~InString(line_state')
        /\ Has("LABEL")' <=> k # 0
        /\ Has("MNEMONIC")' <=> r # <<>>
    BY <1>2, <2>1, <2>2, <2>5 DEF Has
  <2>8. nul' = M /\ buffer' = n + 2 /\ Len(r) # 1
    BY <2>1, <2>2, <2>4
  <2> QED BY <1>2, <1>4, <2>1, <2>3, <2>4, <2>6, <2>7, <2>8
<1> QED BY <1>5, <1>6, <1>7

-----------------------------------------------------------------------------
(* The end of the line.                                                    *)

\* What was found stays when the tail is read.
LEMMA FoundIs ==
    ASSUME NEW t, NEW u, NEW n \in Nat, Agree(t, u, n), Body(u, n),
           NEW N, NEW N2, SameNuls(N, N2, n), NEW l, NEW p \in Nat, NEW av \in Seq(Arg),
           NEW k \in Nat, NEW m \in Nat, NEW q \in Seq(Nat), NEW f \in Nat,
           Past(t, n, N, l, p, av, k, m, q),
           NEW b, NEW fl, FieldPart(t, n, N, b, fl, k, q, f),
           QuotesPart(t, n, fl, k, q, f), BracketsPart(t, n)
    PROVE  /\ Found(u, n, N2, l, p, k, m, q, f)
           /\ BracketsPart(u, n)
           /\ Past(u, n, N2, l, p, av, k, m, q)
           /\ QuotesPart(u, n, fl, k, q, f)
           /\ Skips(u, n, Base(k, q), f)
  <1>1. PICK o \in n .. n + 1 : o = n
    OBVIOUS
  <1>2. Past(u, o, N2, l, p, av, k, m, q)
    BY <1>1, PastSame
  <1>3. Skips(u, n, Base(k, q), f)
    <2>1. Skips(t, n, Base(k, q), f)
      BY DEF FieldPart
    <2> QED BY <2>1, BaseType, SkipsSame
  <1>4. \A i \in 1 .. n : u[i] = t[i] /\ (Outside(u, i) <=> Outside(t, i))
    BY OutsideSame DEF Agree
  <1>5. 1 <= f
    BY BaseType DEF FieldPart, Skips
  <1>6. q = <<>> => /\ Skips(u, n, k + 1, f)
                    /\ \A j \in f .. n : u[j] = "blank" => ~Outside(u, j)
    BY <1>3, <1>4, <1>5 DEF FieldPart, Base
  <1>7. Found(u, n, N2, l, p, k, m, q, f)
    BY <1>1, <1>2, <1>6 DEF Past, Found
  <1>8. QuotesPart(u, n, fl, k, q, f)
    <2> SUFFICES ASSUME NEW i \in 1 .. n, u[i] \in Quotes, Outside(u, i)
                 PROVE  /\ \E j \in Bases(k, q) : Skips(u, n, j, i)
                        /\ (i = f /\ InString(fl)) \/ \E e \in i+1 .. n : u[e] = u[i]
      BY DEF QuotesPart
    <2>1. t[i] \in Quotes /\ Outside(t, i) /\ u[i] = t[i]
      BY <1>4
    <2>2. PICK j \in Bases(k, q) : Skips(t, n, j, i)
      BY <2>1 DEF QuotesPart
    <2>3. (i = f /\ InString(fl)) \/ \E e \in i+1 .. n : t[e] = t[i]
      BY <2>1 DEF QuotesPart
    <2>4. j \in Nat /\ 1 <= j
      <3>1. \A x \in 1 .. Len(q) : q[x] + 1 \in Nat /\ 1 <= q[x] + 1
        BY ElementOfSeq
      <3>2. k + 1 \in Nat /\ 1 <= k + 1
        OBVIOUS
      <3>3. j = 1 \/ j = k + 1 \/ \E x \in 1 .. Len(q) : j = q[x] + 1
        BY <2>2 DEF Bases
      <3> QED BY <3>1, <3>2, <3>3
    <2>5. Skips(u, n, j, i)
      BY <2>2, <2>4, SkipsSame
    <2>6. (\E e \in i+1 .. n : t[e] = t[i]) => \E e \in i+1 .. n : u[e] = u[i]
      BY <1>4, <2>1
    <2> QED BY <2>2, <2>3, <2>5, <2>6
  <1>9. BracketsPart(u, n)
    BY BracketsBefore
  <1> QED BY <1>1, <1>2, <1>3, <1>7, <1>8, <1>9

\* The tail of a line is read.
LEMMA TailFound ==
    ASSUME TypeOK, NEW ch \in {"newline", "semicolon"}, Read(ch),
           NEW k \in Nat, NEW m \in Nat, NEW q \in Seq(Nat), NEW f \in Nat,
           Scan(k, m, q, f), NEW N2, SameNuls(nul, N2, Len(text))
    PROVE  /\ Found(text', Len(text), N2, label, mnemonic, k, m, q, f)
           /\ Past(text', Len(text), N2, label, mnemonic, argv, k, m, q)
           /\ QuotesPart(text', Len(text), line_state, k, q, f)
           /\ BracketsPart(text', Len(text))
           /\ Skips(text', Len(text), Base(k, q), f)
           /\ Body(text', Len(text))
  <1>1. /\ Len(text) \in Nat /\ Agree(text, text', Len(text))
        /\ mnemonic \in Nat /\ argv \in Seq(Arg)
    BY TextReads
  <1>2. Body(text', Len(text))
    BY TailReads
  <1>3. /\ Past(text, Len(text), nul, label, mnemonic, argv, k, m, q)
        /\ FieldPart(text, Len(text), nul, buffer, line_state, k, q, f)
        /\ QuotesPart(text, Len(text), line_state, k, q, f)
        /\ BracketsPart(text, Len(text))
    BY DEF Scan
  <1> DEFINE n == Len(text)
             u == text'
  <1> HIDE DEF n, u
  <1>4. /\ n \in Nat /\ Agree(text, u, n) /\ Body(u, n) /\ SameNuls(nul, N2, n)
        /\ Past(text, n, nul, label, mnemonic, argv, k, m, q)
        /\ FieldPart(text, n, nul, buffer, line_state, k, q, f)
        /\ QuotesPart(text, n, line_state, k, q, f) /\ BracketsPart(text, n)
    BY <1>1, <1>2, <1>3 DEF n, u
  <1>5. /\ Found(u, n, N2, label, mnemonic, k, m, q, f)
        /\ Past(u, n, N2, label, mnemonic, argv, k, m, q)
        /\ QuotesPart(u, n, line_state, k, q, f) /\ BracketsPart(u, n)
        /\ Skips(u, n, Base(k, q), f)
    BY <1>1, <1>4, FoundIs
  <1> QED BY <1>2, <1>5 DEF n, u

\* A comment ends the line as it is.
LEMMA CommentEnds ==
    ASSUME TypeOK, Scanned, Semicolon
    PROVE  Accepted'
  <1>1. PICK k \in Nat, m \in Nat, f \in Nat, q \in Seq(Nat) : Scan(k, m, q, f)
    BY DEF Scanned
  <1>2. Read("semicolon")
    BY DEF Semicolon
  <1>3. SameNuls(nul, nul, Len(text))
    BY DEF SameNuls
  <1>4. /\ Found(text', Len(text), nul, label, mnemonic, k, m, q, f)
        /\ Past(text', Len(text), nul, label, mnemonic, argv, k, m, q)
        /\ QuotesPart(text', Len(text), line_state, k, q, f)
        /\ BracketsPart(text', Len(text))
    BY <1>1, <1>2, <1>3, TailFound
  <1>5. TailOf(text') = "comment"
    BY <1>2, TailReads
  <1>6. /\ Len(text) \in Nat /\ nul \in SUBSET Nat /\ mnemonic \in Nat /\ argv \in Seq(Arg)
        /\ Len(argv) <= LINE_ARG_MAX /\ LINE_ARG_MAX \in Nat
    BY <1>2, TextReads, LimitsAssumption DEF TypeOK
  <1>7. /\ mnemonic = 0 <=> q = <<>>
        /\ q = <<>> => Len(argv) = 0
        /\ q # <<>> => Len(argv) = Len(q) - 1
        /\ ArgsPart(text', Len(text), nul, argv, m, q)
    BY <1>4 DEF Past
  <1> DEFINE n == Len(text)
             u == text'
  <1> HIDE DEF n, u
  <1>8. Stores(u, nul, label, mnemonic, argv)
    BY <1>4, <1>5, <1>6, <1>7, OpenEnd DEF n, u
  <1>9. ~Overflows(Shape(u), LINE_ARG_MAX)
    BY <1>6, <1>8, StoredFit
  <1>10. WellFormed(u, LINE_ARG_MAX)
    <2>1. /\ n \in Nat /\ Found(u, n, nul, label, mnemonic, k, m, q, f)
          /\ QuotesPart(u, n, line_state, k, q, f) /\ BracketsPart(u, n)
          /\ TailOf(u) = "comment"
      BY <1>4, <1>5, <1>6 DEF n, u
    <2> QED BY <1>9, <2>1, ScannedIsWellFormed
  <1> QED BY <1>8, <1>10 DEF Accepted, Semicolon, fields, u

\* So does the end of the buffer, when no quotes are open.
LEMMA BufferEnds ==
    ASSUME TypeOK, TailOf(text) = "eof", Scanned, ~InQuotes
    PROVE  Accepted
  <1>1. PICK k \in Nat, m \in Nat, f \in Nat, q \in Seq(Nat) : Scan(k, m, q, f)
    BY DEF Scanned
  <1>2. Body(text, Len(text)) /\ Len(text) \in Nat
    BY BodyAtEnd
  <1>3. /\ Past(text, Len(text), nul, label, mnemonic, argv, k, m, q)
        /\ FieldPart(text, Len(text), nul, buffer, line_state, k, q, f)
        /\ QuotesPart(text, Len(text), line_state, k, q, f)
        /\ BracketsPart(text, Len(text))
    BY <1>1 DEF Scan
  <1>4. Agree(text, text, Len(text)) /\ SameNuls(nul, nul, Len(text))
    BY DEF Agree, SameNuls
  <1>6. /\ nul \in SUBSET Nat /\ mnemonic \in Nat /\ argv \in Seq(Arg)
        /\ Len(argv) <= LINE_ARG_MAX /\ LINE_ARG_MAX \in Nat
    BY <1>2, LimitsAssumption DEF TypeOK
  <1> DEFINE n == Len(text)
             t == text
  <1>7. /\ n \in Nat /\ Body(t, n) /\ Agree(t, t, n) /\ SameNuls(nul, nul, n)
        /\ Past(t, n, nul, label, mnemonic, argv, k, m, q)
        /\ FieldPart(t, n, nul, buffer, line_state, k, q, f)
        /\ QuotesPart(t, n, line_state, k, q, f) /\ BracketsPart(t, n)
        /\ TailOf(t) = "eof"
    BY <1>2, <1>3, <1>4
  <1>8. /\ mnemonic = 0 <=> q = <<>>
        /\ q = <<>> => Len(argv) = 0
        /\ q # <<>> => Len(argv) = Len(q) - 1
        /\ ArgsPart(t, n, nul, argv, m, q)
    BY <1>7 DEF Past
  <1> HIDE DEF n, t
  <1>9. Found(t, n, nul, label, mnemonic, k, m, q, f)
    BY <1>6, <1>7, FoundIs
  <1>10. Stores(t, nul, label, mnemonic, argv)
    BY <1>6, <1>7, <1>8, <1>9, OpenEnd
  <1>11. ~Overflows(Shape(t), LINE_ARG_MAX)
    BY <1>6, <1>10, StoredFit
  <1>12. ~InString(line_state)
    BY DEF Open, InString, InQuotes
  <1>13. WellFormed(t, LINE_ARG_MAX)
    BY <1>7, <1>9, <1>11, <1>12, ScannedIsWellFormed
  <1> QED BY <1>10, <1>13 DEF Accepted, t

\* The argument that the newline ends is the last one.
LEMMA LastArg ==
    ASSUME NEW u, NEW n \in Nat, NEW N, NEW av \in Seq(Arg), NEW m, NEW q \in Seq(Nat),
           q # <<>>, Len(av) = Len(q) - 1, ArgsPart(u, n, N, av, m, q), NEW a \in Arg,
           ArgPart(u, n, N, a, m, Len(q), q[Len(q)], n + 1)
    PROVE  /\ Len(Append(av, a)) = Len(q)
           /\ ArgsUpTo(u, n, N, Append(av, a), m, q)
  <1> DEFINE aw == Append(av, a)
  <1>1. /\ Len(q) \in Nat /\ Len(av) \in Nat
        /\ Len(aw) = Len(av) + 1 /\ aw[Len(av) + 1] = a
        /\ \A i \in 1 .. Len(av) : aw[i] = av[i]
    BY LenProperties, AppendProperties
  <1>2. Len(aw) = Len(q) /\ Len(av) + 1 = Len(q)
    BY <1>1
  <1> HIDE DEF aw
  <1>3. ASSUME NEW i \in 1 .. Len(aw)
        PROVE  ArgPart(u, n, N, aw[i], m, i, q[i], IF i = Len(q) THEN n + 1 ELSE q[i+1])
    <2>1. CASE i = Len(q)
      BY <1>1, <1>2, <2>1
    <2>2. CASE i # Len(q)
      <3>1. i \in 1 .. Len(av)
        BY <1>1, <1>2, <2>2
      <3> QED BY <1>1, <2>2, <3>1 DEF ArgsPart
    <2> QED BY <2>1, <2>2
  <1> QED BY <1>2, <1>3 DEF ArgsUpTo, aw

\* The newline ends the line.
LEMMA NewlineEnds ==
    ASSUME TypeOK, TypeOK', Scanned, Newline
    PROVE  Accepted' /\ ~InQuotes' /\ ~Has("BRACKET")'
  <1>1. PICK k \in Nat, m \in Nat, f \in Nat, q \in Seq(Nat) : Scan(k, m, q, f)
    BY DEF Scanned
  <1>2. Read("newline") /\ ~InQuotes /\ nul' = nul \cup {c} /\ label' = label
    BY DEF Newline, StoreMnemonic, StoreArgument
  <1>3. /\ Len(text) \in Nat /\ c = Len(text) + 1 /\ Agree(text, text', Len(text))
        /\ text'[Len(text) + 1] = "newline" /\ nul \subseteq 1 .. Len(text)
        /\ buffer \in Nat /\ mnemonic \in Nat /\ argv \in Seq(Arg) /\ arg_type \in ArgTypes
    BY <1>2, TextReads
  <1> DEFINE n == Len(text)
             t == text
             u == text'
             M == nul \cup {Len(text) + 1}
  <1>4. SameNuls(nul, M, n) /\ M \in SUBSET Nat
    <2>1. SameNuls(nul, M, n)
      BY <1>3 DEF SameNuls
    <2>2. n + 1 \in Nat /\ nul \subseteq Nat
      BY <1>3
    <2> QED BY <2>1, <2>2
  <1>5. /\ Found(u, n, M, label, mnemonic, k, m, q, f)
        /\ Past(u, n, M, label, mnemonic, argv, k, m, q)
        /\ QuotesPart(u, n, line_state, k, q, f) /\ BracketsPart(u, n)
    BY <1>1, <1>2, <1>4, TailFound
  <1>6. TailOf(u) = "newline"
    BY <1>2, TailReads
  <1>7. ~InString(line_state)
    BY <1>2 DEF Open, InString, InQuotes
  <1>8. /\ FieldPart(t, n, nul, buffer, line_state, k, q, f)
        /\ TypePart(t, n, arg_type, m, q, f)
        /\ line_state \subseteq Flags \ {"BRACKET"}
        /\ Has("MNEMONIC") <=> q # <<>>
    BY <1>1 DEF Scan
  <1>9. /\ mnemonic = 0 <=> q = <<>>
        /\ q = <<>> => Len(argv) = 0
        /\ q # <<>> => Len(argv) = Len(q) - 1
        /\ ArgsPart(u, n, M, argv, m, q)
    BY <1>5 DEF Past
  <1>10. nul' = M /\ n \in Nat
    BY <1>2, <1>3
  <1>11. line_state' \subseteq {"LABEL", "MNEMONIC"}
    <2>1. line_state' \subseteq line_state \cup {"MNEMONIC"}
      BY DEF Newline, StoreMnemonic, StoreArgument
    <2> QED BY <1>7, <1>8, <2>1 DEF Open, InString, Flags
  <1>12. Stores(u, M, label, mnemonic', argv')
    <2>1. CASE ~Has("MNEMONIC") /\ StoreMnemonic
      <3>1. mnemonic' = buffer /\ argv' = argv /\ q = <<>>
        BY <1>8, <2>1 DEF StoreMnemonic
      <3>2. Points(u, M, buffer, f, n + 1)
        <4>1. u[n+1] = "newline" /\ Agree(t, u, n) /\ nul \subseteq 1 .. n
          BY <1>3
        <4>2. M = nul \cup {n + 1}
          OBVIOUS
        <4> HIDE DEF n, t, u, M
        <4> QED BY <1>7, <1>8, <1>10, <4>1, <4>2, FieldIsCut
      <3>3. Found(u, n, M, label, buffer, k, m, q, f)
        BY <1>5, <3>1 DEF Found
      <3>4. buffer # 0 /\ Len(argv) = Len(q) /\ Len(argv) = 0
        BY <1>9, <3>1, EmptySeq DEF TypeOK
      <3>5. ArgsUpTo(u, n, M, argv, m, q)
        BY <3>4 DEF ArgsUpTo
      <3> HIDE DEF n, t, u, M
      <3>6. Stores(u, M, label, buffer, argv)
        BY <1>3, <1>4, <1>6, <1>10, <3>2, <3>3, <3>4, <3>5, LineEnd
      <3> QED BY <3>1, <3>6
    <2>2. CASE Has("MNEMONIC") /\ StoreArgument
      <3> DEFINE a == [type |-> arg_type, str |-> buffer]
      <3>1. mnemonic' = mnemonic /\ argv' = Append(argv, a) /\ q # <<>> /\ mnemonic # 0
        BY <1>8, <1>9, <2>2 DEF StoreArgument
      <3>2. a \in Arg
        BY <1>3 DEF Arg
      <3>3. m \in 1 .. n
        BY <1>5, <1>10, <3>1, MnemonicInText
      <3>4. ArgPart(u, n, M, a, m, Len(q), q[Len(q)], n + 1)
        <4>1. /\ u[n+1] = "newline" /\ Agree(t, u, n) /\ nul \subseteq 1 .. n
              /\ n \in n .. n + 1
          BY <1>3
        <4>2. M = nul \cup {n + 1}
          OBVIOUS
        <4>3. u[n+1] \notin Quotes /\ u[n+1] # "blank"
          BY <4>1 DEF Quotes
        <4> HIDE DEF n, t, u
        <4> QED BY <1>7, <1>8, <1>10, <3>1, <3>3, <4>1, <4>2, <4>3, ArgIsCut
      <3> DEFINE aw == Append(argv, a)
      <3> HIDE DEF n, t, u, M, a
      <3>5. Len(aw) = Len(q) /\ ArgsUpTo(u, n, M, aw, m, q)
        BY <1>3, <1>9, <1>10, <3>1, <3>2, <3>4, LastArg
      <3>6. aw \in Seq(Arg)
        BY <1>3, <3>2, AppendProperties
      <3> HIDE DEF aw
      <3>7. Stores(u, M, label, mnemonic, aw)
        BY <1>4, <1>5, <1>6, <1>10, <3>1, <3>5, <3>6, LineEnd
      <3> QED BY <3>1, <3>7 DEF aw
    <2> QED BY <2>1, <2>2 DEF Newline
  <1>13. argv' \in Seq(Arg) /\ Len(argv') <= LINE_ARG_MAX /\ LINE_ARG_MAX \in Nat
    BY LimitsAssumption DEF TypeOK
  <1>14. WellFormed(u, LINE_ARG_MAX)
    <2> HIDE DEF n, t, u, M
    <2>1. ~Overflows(Shape(u), LINE_ARG_MAX)
      BY <1>12, <1>13, StoredFit
    <2> QED BY <1>5, <1>7, <1>10, <2>1, ScannedIsWellFormed
  <1>15. Accepted'
    BY <1>2, <1>10, <1>12, <1>14 DEF Accepted
  <1>16. ~InQuotes' /\ ~Has("BRACKET")'
    BY <1>11 DEF InQuotes, Has
  <1> QED BY <1>15, <1>16

-----------------------------------------------------------------------------
(* What the scan complains about.                                          *)

\* As many arguments are stored as there are cuts, or one less.
LEMMA StoredCount ==
    ASSUME NEW t, NEW n, NEW q \in Seq(Nat), CutsPart(t, n, q), Cuts(t) = Range(q),
           q # <<>>
    PROVE  Len(StoredArgs(Shape(t))) = IF TailOf(t) = "newline" THEN Len(q) ELSE Len(q) - 1
  <1> DEFINE A == ArgsOf(t)
             V == {A[i] : i \in 1 .. Len(q)}
  <1>1. /\ DOMAIN A = 1 .. Len(q) /\ Len(A) = Len(q) /\ A # <<>>
        /\ A = [i \in 1 .. Len(q) |-> A[i]]
    <2>1. DOMAIN A = 1 .. Len(q) /\ Len(A) = Len(q) /\ A # <<>>
      BY ArgsAre
    <2> QED BY <2>1 DEF ArgsOf
  <1>2. Shape(t).args = A /\ Shape(t).tail = TailOf(t)
    BY DEF Shape
  <1>3. Len(q) \in Nat
    BY LenProperties
  <1> HIDE DEF A
  <1>4. A \in [1 .. Len(q) -> V]
    BY <1>1
  <1> HIDE DEF V
  <1>5. A \in Seq(V)
    BY <1>3, <1>4, FunctionIsSeq
  <1>6. Len(SubSeq(A, 1, Len(A) - 1)) = Len(A) - 1
    BY <1>1, <1>5, PoppedStack
  <1> QED BY <1>1, <1>2, <1>6 DEF StoredArgs

\* A character in the text before the tail that is no separator keeps the
\* places of the fields.
LEMMA FoundNext ==
    ASSUME NEW t, NEW u, NEW n \in Nat, Agree(t, u, n), Body(u, n + 1),
           u[n+1] \notin {"colon", "comma", "blank"},
           NEW N, NEW l, NEW p \in Nat, NEW av \in Seq(Arg),
           NEW k \in Nat, NEW m \in Nat, NEW q \in Seq(Nat), NEW f \in Nat,
           Past(t, n, N, l, p, av, k, m, q),
           NEW b, NEW fl, FieldPart(t, n, N, b, fl, k, q, f), f <= n
    PROVE  Found(u, n + 1, N, l, p, k, m, q, f)
  <1>1. PICK o \in n .. n + 1 : o = n + 1
    OBVIOUS
  <1>2. SameNuls(N, N, n)
    BY DEF SameNuls
  <1>3. Past(u, o, N, l, p, av, k, m, q)
    BY <1>1, <1>2, PastSame
  <1>4. Skips(u, n + 1, Base(k, q), f) /\ 1 <= f
    <2>1. Skips(t, n, Base(k, q), f)
      BY DEF FieldPart
    <2>2. Skips(u, o, Base(k, q), f)
      <3>1. Base(k, q) \in Nat /\ 1 <= Base(k, q)
        BY BaseType
      <3>2. o \in Nat /\ n <= o
        BY <1>1
      <3> QED BY <2>1, <3>1, <3>2, SkipsSame
    <2>3. 1 <= f
      BY <2>1, BaseType DEF Skips
    <2> QED BY <1>1, <2>2, <2>3
  <1>5. \A i \in 1 .. n : u[i] = t[i] /\ (Outside(u, i) <=> Outside(t, i))
    BY OutsideSame DEF Agree
  <1>6. q = <<>> => \A j \in f .. n + 1 : u[j] = "blank" => ~Outside(u, j)
    <2> SUFFICES ASSUME q = <<>>, NEW j \in f .. n + 1, u[j] = "blank"
                 PROVE  ~Outside(u, j)
      OBVIOUS
    <2>1. j \in f .. n /\ j \in 1 .. n
      BY <1>4
    <2> QED BY <1>5, <2>1 DEF FieldPart
  <1>7. q = <<>> => Skips(u, n + 1, k + 1, f)
    BY <1>4 DEF Base
  <1> QED BY <1>1, <1>3, <1>6, <1>7 DEF Found, Past

\* A quote that is not the first character of its field.
LEMMA QuoteIsMisplaced ==
    ASSUME NEW t, NEW u, NEW n \in Nat, Agree(t, u, n), Body(u, n + 1),
           u[n+1] \in Quotes,
           NEW N, NEW l, NEW p \in Nat, NEW av \in Seq(Arg),
           NEW k \in Nat, NEW m \in Nat, NEW q \in Seq(Nat), NEW f \in Nat,
           Past(t, n, N, l, p, av, k, m, q),
           NEW b, b # n + 1, NEW fl, ~InString(fl), FieldPart(t, n, N, b, fl, k, q, f),
           NEW max
    PROVE  ~WellFormed(u, max)
  <1>1. /\ Skips(t, n, Base(k, q), f) /\ Outside(t, n + 1) /\ f <= n /\ 1 <= f
        /\ t[f] # "blank"
    <2>1. Skips(t, n, Base(k, q), f) /\ Outside(t, n + 1) /\ f <= n
      BY EnclosingNext DEF FieldPart, Quoted, Skips, InString
    <2> QED BY <2>1, BaseType DEF Skips
  <1>2. Found(u, n + 1, N, l, p, k, m, q, f)
    BY <1>1, FoundNext DEF Quotes
  <1>3. /\ MnemonicStart(u) = IF q = <<>> THEN f ELSE m
        /\ Cuts(u) = Range(q)
    <2> DEFINE o == n + 1
    <2>1. o \in Nat /\ Found(u, o, N, l, p, k, m, q, f)
      BY <1>2
    <2> HIDE DEF o
    <2> QED BY <2>1, MnemonicIs
  <1>4. u[f] # "blank" /\ f \in 1 .. n
    BY <1>1 DEF Agree
  <1>5. Stop(u) = n + 2 /\ Body(u, n + 1)
    BY DEF Body
  <1>6. ASSUME NEW j \in Nat, j <= f
        PROVE  SkipBlanks(u, j) # n + 1
    <2> DEFINE o == n + 1
    <2>1. o \in Nat /\ Stop(u) = o + 1 /\ j <= o + 1
      BY <1>4, <1>5, <1>6
    <2>2. f <= o /\ u[f] # "blank"
      BY <1>4
    <2> HIDE DEF o
    <2>3. PICK x \in Nat : Skips(u, o, j, x)
      BY <2>1, SkipsExists
    <2>4. SkipBlanks(u, j) = x
      BY <2>1, <2>3, SkipBlanksIs
    <2>5. x <= f
      BY <1>6, <2>2, <2>3 DEF Skips
    <2> QED BY <1>4, <2>4, <2>5
  <1>7. MnemonicStart(u) \in Nat /\ MnemonicStart(u) <= f
    <2>1. CASE q = <<>>
      BY <1>3, <2>1
    <2>2. CASE q # <<>>
      <3> DEFINE z == q[1]
                 y == q[Len(q)]
      <3>1. Len(q) \in Nat \ {0} /\ z \in Nat /\ y \in Nat
        BY <2>2, EmptySeq, ElementOfSeq
      <3>2. z <= y
        <4>1. \A i, j \in 1 .. Len(q) : i < j => q[i] < q[j]
          BY DEF Past, CutsPart
        <4>2. 1 \in 1 .. Len(q) /\ Len(q) \in 1 .. Len(q)
          BY <3>1
        <4>3. CASE Len(q) = 1
          BY <3>1, <4>3
        <4>4. CASE 1 < Len(q)
          <5>1. q[1] < q[Len(q)]
            BY <4>1, <4>2, <4>4
          <5> QED BY <3>1, <5>1
        <4> QED BY <3>1, <4>3, <4>4
      <3>3. m < z
        BY <2>2 DEF Past, MnemonicPart
      <3>4. y + 1 <= f
        BY <1>1, <2>2 DEF Skips, Base
      <3> HIDE DEF z, y
      <3> QED BY <1>3, <2>2, <3>1, <3>2, <3>3, <3>4
    <2> QED BY <2>1, <2>2
  <1>8. ASSUME NEW x \in Cuts(u)
        PROVE  x \in Nat /\ x + 1 <= f
    <2>1. PICK i \in 1 .. Len(q) : q[i] = x
      BY <1>3, LenProperties DEF Range
    <2> DEFINE y == q[Len(q)]
    <2>2. Len(q) \in Nat /\ q # <<>> /\ y \in Nat /\ x \in Nat
      <3>1. Len(q) \in Nat /\ q # <<>>
        BY <2>1, LenProperties, EmptySeq
      <3>2. Len(q) \in 1 .. Len(q)
        BY <2>1, <3>1
      <3> QED BY <2>1, <3>1, <3>2, ElementOfSeq
    <2>3. x <= y
      <3>1. \A r, j \in 1 .. Len(q) : r < j => q[r] < q[j]
        BY DEF Past, CutsPart
      <3>2. Len(q) \in 1 .. Len(q)
        BY <2>1, <2>2
      <3>3. CASE i = Len(q)
        BY <2>1, <2>2, <3>3
      <3>4. CASE i < Len(q)
        <4>1. q[i] < q[Len(q)]
          BY <3>1, <3>2, <3>4
        <4> QED BY <2>1, <2>2, <4>1
      <3> QED BY <2>1, <2>2, <3>3, <3>4
    <2>4. y + 1 <= f
      BY <1>1, <2>2 DEF Skips, Base
    <2> HIDE DEF y
    <2> QED BY <2>2, <2>3, <2>4
  <1>9. n + 1 \notin Starts(u)
    <2> SUFFICES ASSUME NEW j \in {1, MnemonicStart(u)} \cup {x + 1 : x \in Cuts(u)}
                 PROVE  SkipBlanks(u, j) # n + 1
      BY DEF Starts
    <2>1. j \in Nat /\ j <= f
      BY <1>1, <1>7, <1>8
    <2> QED BY <1>6, <2>1
  <1>10. n + 1 \in Openings(u)
    <2>1. Outside(u, n + 1)
      BY <1>1, OutsideSame
    <2>2. Openings(u) = {x \in 1 .. n + 1 : u[x] \in Quotes /\ Outside(u, x)}
      <3>1. PICK o \in Nat : o = n + 1
        OBVIOUS
      <3>2. Openings(u) = {x \in 1 .. o : u[x] \in Quotes /\ Outside(u, x)}
        BY <3>1, OpeningsIn
      <3> QED BY <3>1, <3>2
    <2> QED BY <2>1, <2>2
  <1> QED BY <1>9, <1>10 DEF WellFormed

\* A comma before the mnemonic has ended.
LEMMA CommaIsEarly ==
    ASSUME NEW t, NEW u, NEW n \in Nat, Agree(t, u, n), Body(u, n + 1),
           u[n+1] = "comma",
           NEW N, NEW l, NEW p \in Nat, NEW av \in Seq(Arg),
           NEW k \in Nat, NEW m \in Nat, NEW f \in Nat,
           Past(t, n, N, l, p, av, k, m, <<>>),
           NEW b, NEW fl, ~InString(fl), FieldPart(t, n, N, b, fl, k, <<>>, f),
           NEW max
    PROVE  ~WellFormed(u, max)
  <1>1. /\ Skips(t, n, k + 1, f) /\ Outside(t, n + 1) /\ f <= n + 1 /\ 1 <= f
        /\ \A j \in f .. n : t[j] = "blank" => ~Outside(t, j)
        /\ ColonPart(t, n, k) /\ k \in 0 .. n
    BY EnclosingNext DEF FieldPart, Base, Skips, Past, LabelPart, InString
  <1>2. ColonPart(u, n + 1, k)
    BY <1>1, ColonSame
  <1>3. Skips(u, n + 1, k + 1, f)
    <2>1. CASE f <= n
      BY <1>1, <2>1, SkipsSame
    <2>2. CASE f = n + 1
      BY <1>1, <2>2, SkipsNext
    <2> QED BY <1>1, <2>1, <2>2
  <1>4. \A j \in f .. n + 1 : u[j] = "blank" => ~Outside(u, j)
    <2> SUFFICES ASSUME NEW j \in f .. n + 1, u[j] = "blank"
                 PROVE  ~Outside(u, j)
      OBVIOUS
    <2>1. j \in f .. n /\ j \in 1 .. n
      BY <1>1
    <2>2. t[j] = "blank" /\ (Outside(u, j) <=> Outside(t, j))
      <3>1. j \in Nat /\ 1 <= j /\ j <= n + 1
        BY <2>1
      <3>2. Outside(u, j) <=> Outside(t, j)
        BY <3>1, OutsideSame
      <3> QED BY <2>1, <3>2 DEF Agree
    <2> QED BY <1>1, <2>1, <2>2
  <1>5. MnemonicEnd(u) = n + 2
    <2> DEFINE o == n + 1
    <2>1. /\ o \in Nat /\ k \in 0 .. o /\ Body(u, o) /\ ColonPart(u, o, k)
          /\ Skips(u, o, k + 1, f)
          /\ \A j \in f .. o : u[j] = "blank" => ~Outside(u, j)
      BY <1>1, <1>2, <1>3, <1>4
    <2>2. o + 1 = n + 2
      OBVIOUS
    <2> HIDE DEF o
    <2> QED BY <2>1, <2>2, NoCuts
  <1>6. n + 1 \in Separators(u, "comma")
    <2>1. Outside(u, n + 1)
      BY <1>1, OutsideSame
    <2>2. Separators(u, "comma") = {x \in 1 .. n + 1 : u[x] = "comma" /\ Outside(u, x)}
      BY SeparatorsIn
    <2> QED BY <2>1, <2>2
  <1> QED BY <1>5, <1>6 DEF WellFormed

\* A line with more arguments than argv holds.
LEMMA TooMany ==
    ASSUME NEW u, NEW n \in Nat, NEW N, NEW l, NEW p, NEW k,
           NEW m \in Nat, NEW q \in Seq(Nat), q # <<>>, NEW f \in Nat,
           Found(u, n, N, l, p, k, m, q, f),
           NEW max \in Nat,
           max < IF TailOf(u) = "newline" THEN Len(q) ELSE Len(q) - 1
    PROVE  ~WellFormed(u, max)
  <1>1. Cuts(u) = Range(q)
    BY MnemonicIs
  <1>2. CutsPart(u, n, q) /\ Len(q) \in Nat
    BY LenProperties DEF Found
  <1>3. Len(StoredArgs(Shape(u))) = IF TailOf(u) = "newline" THEN Len(q) ELSE Len(q) - 1
    BY <1>1, <1>2, StoredCount
  <1>4. Overflows(Shape(u), max)
    BY <1>2, <1>3 DEF Overflows
  <1> QED BY <1>4 DEF WellFormed

\* The comma that ends an argument more than argv holds.
LEMMA CommaIsOneTooMany ==
    ASSUME NEW t, NEW u, NEW n \in Nat, Agree(t, u, n), Body(u, n + 1),
           u[n+1] = "comma", TailOf(u) = "eof",
           NEW N, NEW l, NEW p \in Nat, NEW av \in Seq(Arg),
           NEW k \in Nat, NEW m \in Nat, NEW q \in Seq(Nat), q # <<>>, NEW f \in Nat,
           Past(t, n, N, l, p, av, k, m, q),
           NEW b \in Nat, NEW fl, ~InString(fl), FieldPart(t, n, N, b, fl, k, q, f),
           NEW ty \in ArgTypes, TypePart(t, n, ty, m, q, f)
    PROVE  N \subseteq 1 .. n => ~WellFormed(u, Len(av))
  <1> DEFINE r == Append(q, n + 1)
             M == N \cup {n + 1}
             aw == Append(av, [type |-> ty, str |-> b])
             o == n + 1
  <1>1. N \subseteq 1 .. n => Past(u, o, M, l, p, aw, k, m, r)
    <2> HIDE DEF M, aw, r
    <2> QED BY PastArg DEF M, aw, r
  <1>2. /\ r \in Seq(Nat) /\ Len(r) = Len(q) + 1 /\ Len(q) \in Nat /\ o \in Nat
        /\ r # <<>>
    <2>1. r \in Seq(Nat) /\ Len(r) = Len(q) + 1 /\ Len(q) \in Nat /\ o \in Nat
      BY LenProperties, AppendProperties
    <2> HIDE DEF r, o
    <2> QED BY <2>1, EmptySeq
  <1>3. Body(u, o)
    OBVIOUS
  <1>4. Len(av) \in Nat /\ Len(av) < Len(r) - 1
    BY <1>2, LenProperties DEF Past
  <1> HIDE DEF r, M, aw, o
  <1>5. Past(u, o, M, l, p, aw, k, m, r) => Found(u, o, M, l, p, k, m, r, f)
    BY <1>2, <1>3 DEF Past, Found
  <1>6. Found(u, o, M, l, p, k, m, r, f) => ~WellFormed(u, Len(av))
    BY <1>2, <1>4, TooMany
  <1> QED BY <1>1, <1>5, <1>6

\* Quotes that are not closed on the line.
LEMMA StringIsOpen ==
    ASSUME NEW t, NEW u, NEW n \in Nat, Agree(t, u, n), Body(u, n), TailOf(u) # "comment",
           NEW N, NEW b, NEW fl, InString(fl), NEW k \in Nat, NEW q \in Seq(Nat),
           NEW f \in Nat, FieldPart(t, n, N, b, fl, k, q, f), NEW max
    PROVE  ~WellFormed(u, max)
  <1>1. /\ f <= n /\ t[f] \in Quotes /\ Outside(t, f) /\ \A j \in f+1 .. n : t[j] # t[f]
        /\ 1 <= f
    <2>1. 1 <= f
      BY BaseType DEF FieldPart, Skips
    <2> QED BY <2>1 DEF FieldPart, Quoted
  <1>2. u[f] \in Quotes /\ \A j \in f+1 .. n : u[j] # u[f]
    BY <1>1 DEF Agree
  <1>3. Outside(u, f)
    BY <1>1, OutsideSame
  <1>4. f \in Openings(u)
    BY <1>1, <1>2, <1>3, OpeningsIn
  <1>5. f+1 .. Stop(u) - 1 = f+1 .. n
    BY DEF Body
  <1> QED BY <1>2, <1>4, <1>5 DEF WellFormed

\* A colon behind the label, behind the mnemonic, or behind a string.
LEMMA ColonIsRefused ==
    ASSUME NEW t, NEW u, NEW n \in Nat, Agree(t, u, n), Body(u, n + 1),
           u[n+1] = "colon",
           NEW N, NEW l, NEW p \in Nat, NEW av \in Seq(Arg),
           NEW k \in Nat, NEW m \in Nat, NEW q \in Seq(Nat), NEW f \in Nat,
           Past(t, n, N, l, p, av, k, m, q),
           NEW b, NEW fl, ~InString(fl), FieldPart(t, n, N, b, fl, k, q, f),
           NEW ty, TypePart(t, n, ty, m, q, f),
           k # 0 \/ q # <<>> \/ ty = "STRING",
           NEW max
    PROVE  ~WellFormed(u, max)
  <1>1. Outside(t, n + 1) /\ ColonPart(t, n, k) /\ k \in 0 .. n
    BY EnclosingNext DEF FieldPart, Past, LabelPart, InString
  <1>2. \A i \in 1 .. n + 1 : Outside(u, i) <=> Outside(t, i)
    BY OutsideSame
  <1>3. \A i \in 1 .. n : u[i] = t[i]
    BY DEF Agree
  <1>4. Colons(u) = {x \in 1 .. n + 1 : u[x] = "colon" /\ Outside(u, x)}
    BY SeparatorsIn DEF Colons
  <1>5. n + 1 \in Colons(u)
    BY <1>1, <1>2, <1>4
  <1>6. CASE k # 0
    <2>1. k \in 1 .. n
      BY <1>1, <1>6
    <2>2. t[k] = "colon" /\ Outside(t, k)
      BY <1>1, <2>1 DEF ColonPart
    <2>3. k \in Colons(u) /\ k # n + 1
      BY <1>2, <1>3, <1>4, <2>1, <2>2
    <2> QED BY <1>5, <2>3 DEF WellFormed
  <1>7. ASSUME k = 0, NEW s \in 1 .. n, Skips(t, n, 1, s)
        PROVE  SkipBlanks(u, 1) = s
    <2> DEFINE o == n + 1
    <2>1. o \in Nat /\ n <= o /\ Stop(u) = o + 1 /\ 1 \in Nat /\ s <= n
      BY DEF Body
    <2> HIDE DEF o
    <2>2. Skips(u, o, 1, s)
      BY <1>7, <2>1, SkipsSame
    <2> QED BY <2>1, <2>2, SkipBlanksIs
  <1>8. CASE k = 0 /\ q # <<>>
    <2> DEFINE z == q[1]
    <2>1. z \in Nat /\ MnemonicPart(t, n, N, p, k, m, z)
      <3>1. Len(q) \in Nat \ {0}
        BY <1>8, EmptySeq
      <3> QED BY <1>8, <3>1, ElementOfSeq DEF Past
    <2> HIDE DEF z
    <2>2. /\ Skips(t, n, 1, m) /\ 1 <= m /\ m < z /\ z <= n /\ t[z] = "blank"
      BY <1>8, <2>1 DEF MnemonicPart, Skips
    <2>3. m \in 1 .. n
      BY <2>1, <2>2
    <2>4. SkipBlanks(u, 1) = m
      BY <1>7, <1>8, <2>2, <2>3
    <2>5. z \in SkipBlanks(u, 1) .. n + 1 /\ u[z] = "blank"
      BY <1>3, <2>1, <2>2, <2>4
    <2> QED BY <1>5, <2>5 DEF WellFormed
  <1>9. CASE k = 0 /\ q = <<>> /\ ty = "STRING"
    <2>1. Quoted(t, n, f) /\ Skips(t, n, 1, f)
      <3>1. Len(q) = 0
        BY <1>9, EmptySeq
      <3> QED BY <1>9, <3>1 DEF TypePart, FieldPart, Base
    <2>2. f \in 1 .. n /\ t[f] \in Quotes
      BY <2>1 DEF Quoted, Skips
    <2>3. SkipBlanks(u, 1) = f /\ u[f] \in Quotes /\ f # n + 1
      BY <1>3, <1>7, <1>9, <2>1, <2>2
    <2> QED BY <1>5, <2>3 DEF WellFormed
  <1> QED BY <1>6, <1>8, <1>9

\* The program stops in fail() on no line that is well-formed.
LEMMA FailStep ==
    ASSUME TypeOK, HasForm(text'), Scanned,
           \/ \E s \in Quotes : MisplacedQuote(s)
           \/ UnexpectedBracket \/ CommaFails \/ NewlineFails \/ ColonFails
    PROVE  ~WellFormed(text', LINE_ARG_MAX)
<1> DEFINE n == Len(text)
           t == text
           u == text'
<1>1. PICK k \in Nat, m \in Nat, f \in Nat, q \in Seq(Nat) : Scan(k, m, q, f)
  BY DEF Scanned
<1>2. /\ line_state \subseteq Flags \ {"BRACKET"}
      /\ ~(Has("DOUBLE_QUOTE") /\ Has("SINGLE_QUOTE"))
      /\ Past(t, n, nul, label, mnemonic, argv, k, m, q)
      /\ FieldPart(t, n, nul, buffer, line_state, k, q, f)
      /\ TypePart(t, n, arg_type, m, q, f)
      /\ Has("LABEL") <=> k # 0
      /\ Has("MNEMONIC") <=> q # <<>>
  BY <1>1 DEF Scan
<1>3. ASSUME NEW ch, Read(ch)
      PROVE  /\ n \in Nat /\ Agree(t, u, n) /\ u[n+1] = ch /\ c = n + 1
             /\ nul \subseteq 1 .. n /\ buffer \in Nat /\ mnemonic \in Nat
             /\ argv \in Seq(Arg) /\ arg_type \in ArgTypes
             /\ ch = "newline" => TailOf(u) = "newline" /\ Body(u, n)
             /\ ch \in {"dquote", "squote", "comma", "colon", "rbracket"} => TailOf(u) = "eof" /\ Body(u, n + 1)
  BY <1>3, TextReads, TailReads
<1>4. ~Bounded => ~InString(line_state)
  BY DEF Bounded, Open, InString
<1>5. InQuotes <=> InString(line_state)
  BY <1>2 DEF InQuotes, Open, InString
<1>6. CASE \E s \in Quotes : MisplacedQuote(s)
  <2>1. PICK s \in Quotes : Read(s) /\ ~Has("DOUBLE_QUOTE") /\ ~Has("SINGLE_QUOTE") /\ c # buffer
    BY <1>6 DEF MisplacedQuote, FailAt, QuoteFlag, OtherQuote, Quotes
  <2>2. /\ n \in Nat /\ Agree(t, u, n) /\ Body(u, n + 1) /\ u[n+1] \in Quotes
        /\ mnemonic \in Nat /\ argv \in Seq(Arg) /\ buffer # n + 1
    BY <1>3, <2>1 DEF Quotes
  <2>3. ~InString(line_state)
    BY <2>1 DEF Open, InString, Has
  <2> DEFINE max == LINE_ARG_MAX
  <2> HIDE DEF n, t, u, max
  <2>4. ~WellFormed(u, max)
    BY <1>2, <2>2, <2>3, QuoteIsMisplaced
  <2> QED BY <2>4 DEF u, max
<1>7. CASE UnexpectedBracket
  <2>1. Read("rbracket") /\ ~Bounded
    BY <1>7 DEF UnexpectedBracket, FailAt
  <2>2. n \in Nat /\ Agree(t, u, n) /\ Body(u, n + 1) /\ u[n+1] = "rbracket"
    BY <1>3, <2>1
  <2>3. Outside(u, n + 1)
    BY <1>2, <1>4, <2>1, <2>2, EnclosingNext DEF FieldPart, InString
  <2> DEFINE max == LINE_ARG_MAX
  <2> HIDE DEF n, t, u, max
  <2>4. PICK o \in Nat : o = n + 1
    BY <2>2
  <2>5. Separators(u, "rbracket") = {x \in 1 .. o : u[x] = "rbracket" /\ Outside(u, x)}
    BY <2>2, <2>4, SeparatorsIn
  <2>6. n + 1 \in Separators(u, "rbracket")
    BY <2>2, <2>3, <2>4, <2>5
  <2>7. ~WellFormed(u, max)
    BY <2>6 DEF WellFormed
  <2> QED BY <2>7 DEF u, max
<1>8. CASE CommaFails
  <2>1. /\ Read("comma") /\ ~Bounded
        /\ Has("MNEMONIC") => Len(argv) = LINE_ARG_MAX
    BY <1>8 DEF CommaFails, FailAt, ArgvFull
  <2>2. /\ n \in Nat /\ Agree(t, u, n) /\ Body(u, n + 1) /\ u[n+1] = "comma"
        /\ TailOf(u) = "eof" /\ nul \subseteq 1 .. n /\ mnemonic \in Nat
        /\ argv \in Seq(Arg) /\ buffer \in Nat /\ arg_type \in ArgTypes
        /\ ~InString(line_state)
    BY <1>3, <1>4, <2>1
  <2>3. CASE q = <<>>
    <3>1. /\ Past(t, n, nul, label, mnemonic, argv, k, m, <<>>)
          /\ FieldPart(t, n, nul, buffer, line_state, k, <<>>, f)
      BY <1>2, <2>3
    <3> DEFINE max == LINE_ARG_MAX
    <3> HIDE DEF n, t, u, max
    <3>2. ~WellFormed(u, max)
      BY <2>2, <3>1, CommaIsEarly
    <3> QED BY <3>2 DEF u, max
  <2>4. CASE q # <<>>
    <3>1. Len(argv) = LINE_ARG_MAX
      BY <1>2, <2>1, <2>4
    <3> HIDE DEF n, t, u
    <3>2. ~WellFormed(u, Len(argv))
      BY <1>2, <2>2, <2>4, CommaIsOneTooMany
    <3> QED BY <3>1, <3>2 DEF u
  <2> QED BY <2>3, <2>4
<1>9. CASE NewlineFails
  <2>1. /\ Read("newline")
        /\ InQuotes \/ (~InQuotes /\ Has("MNEMONIC") /\ Len(argv) = LINE_ARG_MAX)
    BY <1>9 DEF NewlineFails, FailAt, ArgvFull
  <2>2. n \in Nat /\ Agree(t, u, n) /\ Body(u, n) /\ TailOf(u) = "newline"
    BY <1>3, <2>1
  <2>3. CASE InQuotes
    <3>1. InString(line_state) /\ TailOf(u) # "comment"
      BY <1>5, <2>2, <2>3
    <3> DEFINE max == LINE_ARG_MAX
    <3> HIDE DEF n, t, u, max
    <3>2. ~WellFormed(u, max)
      BY <1>2, <2>2, <3>1, StringIsOpen
    <3> QED BY <3>2 DEF u, max
  <2>4. CASE q # <<>> /\ Len(argv) = LINE_ARG_MAX
    <3>1. SameNuls(nul, nul, n)
      BY DEF SameNuls
    <3>2. Found(u, n, nul, label, mnemonic, k, m, q, f)
      BY <1>1, <2>1, <3>1, TailFound
    <3>3. Len(argv) = Len(q) - 1 /\ Len(q) \in Nat /\ LINE_ARG_MAX \in Nat
      BY <1>2, <2>4, LenProperties, LimitsAssumption DEF Past
    <3> DEFINE max == LINE_ARG_MAX
    <3>4. max \in Nat /\ max < Len(q)
      BY <2>4, <3>3
    <3> HIDE DEF n, t, u, max
    <3>5. ~WellFormed(u, max)
      BY <2>2, <2>4, <3>2, <3>4, TooMany
    <3> QED BY <3>5 DEF u, max
  <2> QED BY <1>2, <2>1, <2>3, <2>4
<1>10. CASE ColonFails
  <2>1. /\ Read("colon") /\ ~Bounded
        /\ k # 0 \/ q # <<>> \/ arg_type = "STRING"
    BY <1>2, <1>10 DEF ColonFails, FailAt
  <2>2. /\ n \in Nat /\ Agree(t, u, n) /\ Body(u, n + 1) /\ u[n+1] = "colon"
        /\ mnemonic \in Nat /\ argv \in Seq(Arg) /\ ~InString(line_state)
    BY <1>3, <1>4, <2>1
  <2> DEFINE max == LINE_ARG_MAX
  <2> HIDE DEF n, t, u, max
  <2>3. ~WellFormed(u, max)
    BY <1>2, <2>1, <2>2, ColonIsRefused
  <2> QED BY <2>3 DEF u, max
<1> QED BY <1>6, <1>7, <1>8, <1>9, <1>10

\* Nor at the end of the buffer.
LEMMA BufferFails ==
    ASSUME TypeOK, TailOf(text) = "eof", Scanned, InQuotes
    PROVE  ~WellFormed(text, LINE_ARG_MAX)
  <1>1. PICK k \in Nat, m \in Nat, f \in Nat, q \in Seq(Nat) : Scan(k, m, q, f)
    BY DEF Scanned
  <1> DEFINE n == Len(text)
             t == text
             max == LINE_ARG_MAX
  <1>2. n \in Nat /\ Body(t, n) /\ TailOf(t) # "comment" /\ Agree(t, t, n)
    BY BodyAtEnd DEF Agree
  <1>3. FieldPart(t, n, nul, buffer, line_state, k, q, f) /\ InString(line_state)
    BY <1>1 DEF Scan, InQuotes, Open, InString
  <1> HIDE DEF n, t, max
  <1>4. ~WellFormed(t, max)
    BY <1>2, <1>3, StringIsOpen
  <1> QED BY <1>4 DEF t, max

-----------------------------------------------------------------------------
\* Before the first character nothing has been found.
LEMMA InitGrammar == Init => GrammarInv
  <1> SUFFICES ASSUME Init
               PROVE  GrammarInv
    OBVIOUS
  <1>1. TypeOK
    BY LimitsAssumption DEF Init, TypeOK, ArgTypes, Arg, Messages
  <1>2. /\ text = <<>> /\ nul = {} /\ buffer = 1 /\ line_state = {} /\ label = 0
        /\ mnemonic = 0 /\ argv = <<>> /\ arg_type = "UNPROCESSED" /\ status = "scanning"
    BY DEF Init
  <1>3. Len(<<>>) = 0 /\ <<>> \in Seq(Nat) /\ 1 .. 0 = {} /\ 2 .. 0 = {}
    BY EmptySeq
  <1>4. TailOf(text) = "eof"
    BY <1>2 DEF TailOf, EndsWith
  <1>5. Outside(<<>>, 1) /\ Enclosing(<<>>, 0) = "none" /\ Open({}) = "none"
    BY EnclosingIs DEF Outside, Open
  <1>f. HasForm(text)
    BY <1>2 DEF HasForm, Separators
  <1> DEFINE e == <<>>
  <1>6. /\ e = <<>> /\ Len(e) = 0 /\ e \in Seq(Nat) /\ Base(0, e) = 1 /\ Outside(e, 1)
        /\ Enclosing(e, 0) = Open({})
    BY <1>3, <1>5 DEF Base
  <1> HIDE DEF e
  <1>7. Past(e, 0, {}, 0, 0, e, 0, 0, e)
    BY <1>3, <1>6 DEF Past, ColonPart, LabelPart, CutsPart, ArgsPart
  <1>8. FieldPart(e, 0, {}, 1, {}, 0, e, 1)
    BY <1>3, <1>5, <1>6 DEF FieldPart, Skips, Quoted, InString
  <1>9. /\ TypePart(e, 0, "UNPROCESSED", 0, e, 1) /\ QuotesPart(e, 0, {}, 0, e, 1)
        /\ BracketsPart(e, 0)
    BY <1>3, <1>6 DEF TypePart, Quoted, QuotesPart, BracketsPart
  <1>10. Scan(0, 0, e, 1)
    BY <1>2, <1>6, <1>7, <1>8, <1>9 DEF Scan, Has
  <1>11. Scanned
    BY <1>6, <1>10 DEF Scanned
  <1> QED BY <1>1, <1>2, <1>4, <1>f, <1>11 DEF GrammarInv, Verdict

\* A character is read only while the scan goes on.
LEMMA ReadScanned ==
    ASSUME GrammarInv, NEW ch, Read(ch), HasForm(text')
    PROVE  /\ Scanned /\ TypeOK /\ status = "scanning"
           /\ ch \in Alphabet /\ (ch = "lbracket" => ~Outside(text, Len(text) + 1))
  <1>1. HasForm(text) /\ TypeOK /\ (ch = "lbracket" => ~Outside(text, Len(text) + 1))
    BY TextReads DEF GrammarInv
  <1>2. status = "scanning" /\ ch \in Alphabet /\ TailOf(text) # "newline"
    BY DEF Read, MayRead, TailOf, EndsWith
  <1> QED BY <1>1, <1>2 DEF GrammarInv, Verdict

\* The flags tell whether the character behind the text lies in a string.
LEMMA ScanOutside ==
    ASSUME TypeOK, Scanned
    PROVE  Bounded <=> ~Outside(text, Len(text) + 1)
<1>1. PICK k \in Nat, m \in Nat, f \in Nat, q \in Seq(Nat) : Scan(k, m, q, f)
  BY DEF Scanned
<1>2. (Len(text) + 1) - 1 = Len(text)
  BY LenProperties DEF TypeOK
<1>3. /\ line_state \subseteq Flags \ {"BRACKET"}
      /\ Open(line_state) = Enclosing(text, Len(text))
  BY <1>1 DEF Scan, FieldPart
<1> QED BY <1>2, <1>3 DEF Outside, Open, Bounded

\* There, an opening bracket is no character to pass over.
LEMMA BracketOpens ==
    ASSUME TypeOK, Scanned, Next, Read("lbracket"), Outside(text, Len(text) + 1)
    PROVE  Has("BRACKET")' /\ status' = status
<1>1. ~Bounded /\ ~Has("BRACKET")
  BY ScanOutside DEF Bounded, Has
<1>2. \A x : Read(x) => x = "lbracket"
  BY TextReads
<1>3. text' # text
  <2>1. Len(text) \in Nat /\ Len(text') = Len(text) + 1
    BY TextReads
  <2> QED BY <2>1
<1>4. CASE \E b \in {"lbracket", "rbracket"} : Bracket(b)
  BY <1>1, <1>4 DEF Bracket, Has
<1>5. CASE \E ch \in Alphabet : PassOver(ch)
  <2>1. "lbracket" \notin Letters
    BY AlphabetAssumption DEF SpecialCharacters
  <2> QED BY <1>1, <1>2, <1>5, <2>1 DEF PassOver, Quotes
<1>6. CASE \E q \in Quotes : ReadQuote(q)
  BY <1>2, <1>6 DEF ReadQuote, OpenQuote, CloseQuote, MisplacedQuote, FailAt, Quotes
<1>7. CASE \/ UnexpectedBracket \/ LeadingBlank \/ EndMnemonic \/ Comma \/ CommaFails
           \/ Newline \/ NewlineFails \/ Colon \/ ColonFails \/ Semicolon
  BY <1>2, <1>7 DEF UnexpectedBracket, LeadingBlank, EndMnemonic, Comma, CommaFails,
     Newline, NewlineFails, Colon, ColonFails, Semicolon, FailAt
<1>8. CASE EndOfBuffer \/ Finished
  BY <1>3, <1>8 DEF EndOfBuffer, Finished, vars
<1> QED BY <1>4, <1>5, <1>6, <1>7, <1>8 DEF Next

\* A bracket, once opened, is never closed, and only a comment ends the line without
\* an error.
LEMMA BracketStays ==
    ASSUME TypeOK, [Next]_vars, status = "scanning" => Has("BRACKET"),
           status = "returned" => TailOf(text) = "comment"
    PROVE  Bracketed'
<1>1. CASE Finished \/ UNCHANGED vars
  BY <1>1 DEF Finished, vars, Bracketed, Has
<1>2. CASE Semicolon
  <2>1. Read("semicolon") /\ status' = "returned"
    BY <1>2 DEF Semicolon
  <2> QED BY <2>1, TailReads DEF Bracketed
<1>3. CASE EndOfBuffer
  BY <1>3 DEF EndOfBuffer, Bracketed
<1>4. ASSUME NEW ch, Read(ch), status' = status, line_state \subseteq line_state'
      PROVE  Bracketed'
  BY <1>4 DEF Read, MayRead, Bracketed, Has
<1>5. ASSUME NEW ch, NEW d, NEW msg \in Messages, FailAt(ch, d, msg)
      PROVE  Bracketed'
  BY <1>5 DEF FailAt, Fail, Bracketed, Messages
<1>6. CASE \E q \in Quotes : ReadQuote(q)
  <2>1. PICK q \in Quotes : ReadQuote(q)
    BY <1>6
  <2>2. CASE OpenQuote(q)
    BY <1>4, <2>2 DEF OpenQuote
  <2>3. CASE CloseQuote(q)
    BY <2>1, <2>3 DEF CloseQuote, Read, MayRead, Bracketed, Has, QuoteFlag
  <2>4. CASE MisplacedQuote(q)
    BY <1>5, <2>4 DEF MisplacedQuote, Messages
  <2> QED BY <2>1, <2>2, <2>3, <2>4 DEF ReadQuote
<1>7. CASE \E b \in {"lbracket", "rbracket"} : Bracket(b)
  BY <1>7 DEF Bracket, Bounded, Has, Read, MayRead
<1>8. CASE UnexpectedBracket \/ CommaFails \/ NewlineFails \/ ColonFails
  BY <1>5, <1>8 DEF UnexpectedBracket, CommaFails, NewlineFails, ColonFails, Messages
<1>9. CASE LeadingBlank \/ EndMnemonic \/ Comma \/ Newline \/ Colon
  BY <1>4, <1>9 DEF LeadingBlank, EndMnemonic, StoreMnemonic, Comma, StoreArgument,
     Newline, Colon
<1>10. CASE \E ch \in Alphabet : PassOver(ch)
  BY <1>4, <1>10 DEF PassOver
<1> QED BY <1>1, <1>2, <1>3, <1>6, <1>7, <1>8, <1>9, <1>10 DEF Next

\* Every step keeps what is known of a line without brackets.
LEMMA NextVerdict ==
    ASSUME GrammarInv, [Next]_vars, HasForm(text')
    PROVE  Verdict'
<1>1. TypeOK /\ TypeOK'
  BY TypeStep DEF GrammarInv
<1>2. CASE UNCHANGED vars
  BY <1>2 DEF GrammarInv, Verdict, vars, Scanned, Scan, Accepted, InQuotes, Has
<1>3. CASE \/ \E s \in Quotes : OpenQuote(s) \/ CloseQuote(s)
           \/ LeadingBlank \/ EndMnemonic \/ Comma \/ Colon
           \/ \E ch \in Alphabet : PassOver(ch)
  <2>1. PICK ch : Read(ch) /\ ch \notin {"newline", "semicolon"} /\ status' = status
    <3>1. \A ch \in Letters : ch \notin {"newline", "semicolon"}
      BY AlphabetAssumption DEF SpecialCharacters
    <3> QED BY <1>3, <3>1 DEF OpenQuote, CloseQuote, LeadingBlank, EndMnemonic,
               StoreMnemonic, Comma, StoreArgument, Colon, PassOver, Quotes
  <2>2. Scanned /\ status = "scanning"
    BY <2>1, ReadScanned
  <2>3. Scanned'
    BY <1>1, <1>3, <2>2, PassStep, CutStep
  <2>4. TailOf(text') = "eof"
    BY <1>1, <2>1, TailReads
  <2> QED BY <2>1, <2>2, <2>3, <2>4 DEF Verdict
<1>4. CASE Newline
  <2>1. Read("newline") /\ status' = status
    BY <1>4 DEF Newline, StoreMnemonic, StoreArgument
  <2>2. Scanned /\ status = "scanning"
    BY <2>1, ReadScanned
  <2>3. Accepted' /\ ~InQuotes' /\ ~Has("BRACKET")'
    BY <1>1, <1>4, <2>2, NewlineEnds
  <2>4. TailOf(text') = "newline"
    BY <1>1, <2>1, TailReads
  <2> QED BY <2>1, <2>2, <2>3, <2>4 DEF Verdict
<1>5. CASE Semicolon
  <2>1. Read("semicolon") /\ status' = "returned"
    BY <1>5 DEF Semicolon
  <2>2. Scanned
    BY <2>1, ReadScanned
  <2>3. Accepted'
    BY <1>1, <1>5, <2>2, CommentEnds
  <2> QED BY <2>1, <2>3 DEF Verdict
<1>6. CASE \/ \E s \in Quotes : MisplacedQuote(s)
           \/ UnexpectedBracket \/ CommaFails \/ NewlineFails \/ ColonFails
  <2>1. \E ch : Read(ch)
    BY <1>6 DEF MisplacedQuote, UnexpectedBracket, CommaFails, NewlineFails, ColonFails,
                FailAt
  <2>2. Scanned
    BY <2>1, ReadScanned
  <2>3. ~WellFormed(text', LINE_ARG_MAX)
    BY <1>1, <1>6, <2>2, FailStep
  <2>4. status' \notin {"scanning", "returned"}
    BY <1>6 DEF MisplacedQuote, UnexpectedBracket, CommaFails, NewlineFails, ColonFails,
                FailAt, Fail
  <2> QED BY <2>3, <2>4 DEF Verdict
<1>7. CASE \E b \in {"lbracket", "rbracket"} : Bracket(b)
  <2>1. PICK b \in {"lbracket", "rbracket"} :
           /\ Read(b) /\ ~Bounded /\ (b = "rbracket" => Has("BRACKET"))
    BY <1>7 DEF Bracket
  <2>2. b = "lbracket"
    BY <2>1 DEF Bounded, Has
  <2>3. Scanned /\ ~Outside(text, Len(text) + 1)
    BY <2>1, <2>2, ReadScanned
  <2> QED BY <1>1, <2>1, <2>3, ScanOutside
<1>8. CASE EndOfBuffer
  <2>1. /\ text' = text /\ status = "scanning" /\ HasForm(text)
        /\ nul' = nul /\ label' = label /\ mnemonic' = mnemonic /\ argv' = argv
        /\ status' = IF InQuotes THEN "Unmatched quote."
                     ELSE IF Has("BRACKET") THEN "Unmatched bracket." ELSE "returned"
    BY <1>8 DEF EndOfBuffer, fields
  <2>2. Accepted => Accepted'
    BY <2>1 DEF Accepted
  <2>3. CASE TailOf(text) = "eof"
    <3>1. Scanned
      BY <2>1, <2>3 DEF GrammarInv, Verdict
    <3>2. ~Has("BRACKET")
      BY <3>1 DEF Scanned, Scan, Has
    <3>3. CASE InQuotes
      <4>1. ~WellFormed(text', LINE_ARG_MAX)
        BY <1>1, <2>1, <2>3, <3>1, <3>3, BufferFails
      <4> QED BY <2>1, <3>3, <4>1 DEF Verdict
    <3>4. CASE ~InQuotes
      <4>1. Accepted
        BY <1>1, <2>3, <3>1, <3>4, BufferEnds
      <4> QED BY <2>1, <2>2, <3>2, <3>4, <4>1 DEF Verdict
    <3> QED BY <3>3, <3>4
  <2>4. CASE TailOf(text) # "eof"
    <3>1. ~InQuotes /\ ~Has("BRACKET") /\ Accepted
      BY <2>1, <2>4 DEF GrammarInv, Verdict
    <3> QED BY <2>1, <2>2, <3>1 DEF Verdict
  <2> QED BY <2>3, <2>4
<1>9. CASE Finished
  BY <1>2, <1>9 DEF Finished
<1> QED BY <1>2, <1>3, <1>4, <1>5, <1>6, <1>7, <1>8, <1>9 DEF Next, ReadQuote

\* Every step keeps what is known.
LEMMA NextGrammar == GrammarInv /\ [Next]_vars => GrammarInv'
<1> SUFFICES ASSUME GrammarInv, [Next]_vars
             PROVE  GrammarInv'
  OBVIOUS
<1>1. TypeOK /\ TypeOK'
  BY TypeStep DEF GrammarInv
<1>2. CASE HasForm(text')
  BY <1>1, <1>2, NextVerdict DEF GrammarInv
<1>3. CASE ~HasForm(text) /\ ~HasForm(text')
  BY <1>1, <1>3, BracketStays DEF GrammarInv, Bracketed
<1>4. CASE HasForm(text) /\ ~HasForm(text')
  <2>1. PICK ch : Read(ch)
    BY <1>4 DEF Next, vars, ReadQuote, OpenQuote, CloseQuote, MisplacedQuote, Bracket,
       UnexpectedBracket, LeadingBlank, EndMnemonic, Comma, CommaFails, Newline,
       NewlineFails, Colon, ColonFails, Semicolon, PassOver, EndOfBuffer, Finished, FailAt
  <2>2. ch = "lbracket" /\ Outside(text, Len(text) + 1)
    BY <1>1, <1>4, <2>1, TextReads
  <2>3. status = "scanning" /\ TailOf(text) # "newline"
    BY <2>1 DEF Read, MayRead, TailOf, EndsWith
  <2>4. Scanned /\ Next
    <3>1. text' # text
      BY <1>4
    <3> QED BY <1>4, <2>3, <3>1 DEF GrammarInv, Verdict, vars
  <2>5. Has("BRACKET")' /\ status' = "scanning"
    BY <1>1, <2>1, <2>2, <2>3, <2>4, BracketOpens
  <2> QED BY <1>1, <1>4, <2>5 DEF GrammarInv, Bracketed
<1> QED BY <1>2, <1>3, <1>4

\* It is known in every state.
LEMMA GrammarInvariant == Spec => []GrammarInv
  <1>1. Init => GrammarInv
    BY InitGrammar
  <1>2. GrammarInv /\ [Next]_vars => GrammarInv'
    BY NextGrammar
  <1> QED BY <1>1, <1>2, PTL DEF Spec

\* Among the lines that open no bracket outside of their strings, of either kind of
\* quote, parse_line returns on exactly the well-formed ones and fails on all the
\* others, whatever the letters of the program, the size of the buffer and of argv
\* are.  A line that leaves a bracket open is refused, unless a comment cuts it short.
THEOREM AcceptsGrammar == Spec => []AcceptsWellFormed
  <1>1. GrammarInv => AcceptsWellFormed
    BY DEF GrammarInv, Verdict, Accepted, Bracketed, AcceptsWellFormed
  <1> QED BY <1>1, GrammarInvariant, PTL

\* What it stores of such a line is what the grammar says: the label, the mnemonic and
\* the arguments, as the C strings that the buffer then holds.
THEOREM StoresGrammar == Spec => []StoresTheLine
  <1>1. GrammarInv => StoresTheLine
    <2> SUFFICES ASSUME GrammarInv, status = "returned", HasForm(text)
                 PROVE  /\ ParsedLabel = Shape(text).label
                        /\ ParsedMnemonic = StoredMnemonic(Shape(text), <<>>)
                        /\ ParsedArgs = StoredArgs(Shape(text))
      BY DEF StoresTheLine
    <2>1. Stores(text, nul, label, mnemonic, argv)
      BY DEF GrammarInv, Verdict, Accepted
    <2>2. \A p : StringAt(p) = CText(text, nul, p)
      BY DEF StringAt, CText
    <2>3. ParsedArgs = Texts(text, nul, argv)
      BY <2>2 DEF ParsedArgs, Texts
    <2> QED BY <2>1, <2>2, <2>3 DEF Stores, ParsedLabel, ParsedMnemonic
  <1> QED BY <1>1, GrammarInvariant, PTL
=============================================================================
