--------------------------- MODULE TokenListProofs ---------------------------
(***************************************************************************)
(* For every lexicon and every length of text: the linked lists of tokens  *)
(* are the stacks of Expression, what prepare_line leaves is the output in *)
(* order, and only parentheses are lost.                                   *)
(*                                                                         *)
(* A list is described by the sequence of its addresses, from the bottom   *)
(* of the stack up.  The invariant says of every token where it is: on one *)
(* of the two stacks, set aside (the operator being handled, or freed), or *)
(* a parenthesis that was dropped.  Moving a token from the one stack to   *)
(* the other is then a pop and a push, each a lemma about sequences of     *)
(* addresses.                                                              *)
(***************************************************************************)
EXTENDS ExpressionProofs

-----------------------------------------------------------------------------
(* Lists of tokens.                                                        *)

\* The k-th of the n addresses in s, NULL past either end.
Place(n, s, k) == IF k \in 1 .. n THEN s[k] ELSE NULL

\* Following next from the first of a list finds the k-th token, then NULL.
LEMMA NodesOfList ==
  ASSUME NEW n \in Nat, NEW s \in [1 .. n -> DOMAIN tokens], NULL \notin DOMAIN tokens,
         \A k \in 1 .. n : tokens[s[k]].next = Place(n, s, k + 1)
  PROVE  \A k \in Nat \ {0} : Node(Place(n, s, 1), k) = Place(n, s, k)
  <1> DEFINE a        == Place(n, s, 1)
             After(b) == IF b \in DOMAIN tokens THEN tokens[b].next ELSE NULL
             f        == [k \in Nat \ {0} |-> Place(n, s, k)]
             F(g)     == [k \in Nat \ {0} |->
                            IF k = 1 THEN a
                            ELSE IF g[k - 1] \in DOMAIN tokens THEN tokens[g[k - 1]].next ELSE NULL]
             node     == CHOOSE g : g = F(g)
  <1>1. ASSUME NEW k \in Nat \ {0}, k # 1
        PROVE  After(Place(n, s, k - 1)) = Place(n, s, k)
    <2>1. CASE k - 1 \in 1 .. n
      BY <2>1 DEF Place
    <2>2. CASE k - 1 \notin 1 .. n
      BY <1>1, <2>2 DEF Place
    <2> QED
      BY <2>1, <2>2
  <1>2. \A k \in Nat \ {0} : f[k] = F(f)[k]
    <2> TAKE k \in Nat \ {0}
    <2>1. CASE k = 1
      BY <2>1
    <2>2. CASE k # 1
      <3>1. k - 1 \in Nat \ {0} /\ f[k - 1] = Place(n, s, k - 1) /\ f[k] = Place(n, s, k)
        BY <2>2
      <3>2. F(f)[k] = After(Place(n, s, k - 1))
        BY <2>2, <3>1
      <3> QED
        BY <1>1, <2>2, <3>1, <3>2
    <2> QED
      BY <2>1, <2>2
  <1>3. f = F(f)
    BY <1>2
  <1>4. node = F(node)
    BY <1>3
  <1>5. \A k \in Nat \ {0} : Node(a, k) = node[k]
    BY DEF Node
  <1>6. /\ node[1] = a
        /\ \A k \in Nat \ {0} : k # 1 => node[k] = After(node[k - 1])
    <2> HIDE DEF node
    <2> QED
      BY <1>4
  <1> HIDE DEF node, After
  <1> DEFINE Wrong == {k \in Nat : k # 0 /\ node[k] # Place(n, s, k)}
  <1>7. Wrong = {}
    <2> SUFFICES ASSUME Wrong # {} PROVE FALSE
      OBVIOUS
    <2>1. PICK m \in Wrong : \A k \in Wrong : m <= k
      BY LeastNat
    <2>2. m \in Nat \ {0} /\ m # 1 /\ m - 1 \in Nat \ {0}
      BY <2>1, <1>6
    <2>3. m - 1 \notin Wrong
      BY <2>1, <2>2
    <2>4. node[m - 1] = Place(n, s, m - 1)
      BY <2>2, <2>3
    <2> QED
      BY <1>1, <1>6, <2>1, <2>2, <2>4
  <1> QED
    BY <1>5, <1>7

On(n, s) == {s[k] : k \in 1 .. n}

\* In the tokens t, s is a stack of n of them with top on top.
IsStack(t, top, n, s) ==
  /\ s \in [1 .. n -> DOMAIN t]
  /\ \A j, k \in 1 .. n : s[j] = s[k] => j = k
  /\ top = Place(n, s, n)
  /\ \A k \in 1 .. n : t[s[k]].next = Place(n, s, k - 1)

LEMMA OnStack ==
  ASSUME NEW t, NEW top, NEW n \in Nat, NEW s, IsStack(t, top, n, s)
  PROVE  On(n, s) \subseteq DOMAIN t
  BY DEF IsStack, On

\* A stack stays one while its own tokens keep their links.
LEMMA StackKept ==
  ASSUME NEW t, NEW u, NEW top, NEW n \in Nat, NEW s, IsStack(t, top, n, s),
         DOMAIN t \subseteq DOMAIN u, \A a \in On(n, s) : u[a].next = t[a].next
  PROVE  IsStack(u, top, n, s)
  BY DEF IsStack, On

\* A token that is linked to the top is the new one.
LEMMA StackPushed ==
  ASSUME NEW t, NEW top, NEW n \in Nat, NEW s, IsStack(t, top, n, s), NULL \notin DOMAIN t,
         NEW a \in DOMAIN t, a \notin On(n, s), t[a].next = top
  PROVE  \E r : /\ IsStack(t, a, n + 1, r) /\ On(n + 1, r) = On(n, s) \cup {a}
                /\ r[n + 1] = a /\ \A k \in 1 .. n : r[k] = s[k]
  <1> DEFINE r == [k \in 1 .. n + 1 |-> IF k = n + 1 THEN a ELSE s[k]]
  <1>1. /\ r \in [1 .. n + 1 -> DOMAIN t] /\ r[n + 1] = a
        /\ \A k \in 1 .. n : r[k] = s[k]
    BY DEF IsStack
  <1>2. \A k \in 1 .. n + 1 : k = n + 1 \/ k \in 1 .. n
    OBVIOUS
  <1> HIDE DEF r
  <1>3. On(n + 1, r) = On(n, s) \cup {a}
    <2>1. On(n + 1, r) \subseteq On(n, s) \cup {a}
      BY <1>1, <1>2 DEF On
    <2>2. On(n, s) \cup {a} \subseteq On(n + 1, r)
      BY <1>1 DEF On
    <2> QED
      BY <2>1, <2>2
  <1>4. \A j, k \in 1 .. n + 1 : r[j] = r[k] => j = k
    BY <1>1, <1>2 DEF IsStack, On
  <1>5. \A k \in 1 .. n + 1 : t[r[k]].next = Place(n + 1, r, k - 1)
    <2> TAKE k \in 1 .. n + 1
    <2>1. CASE k = n + 1
      BY <1>1, <2>1 DEF IsStack, Place
    <2>2. CASE k \in 1 .. n
      BY <1>1, <2>2 DEF IsStack, Place
    <2> QED
      BY <1>2, <2>1, <2>2
  <1> QED
    BY <1>1, <1>3, <1>4, <1>5 DEF IsStack, Place

\* Without its top a stack begins at the token after it.
Below(n, s) == [k \in 1 .. n |-> s[k]]

LEMMA StackPopped ==
  ASSUME NEW t, NEW top, NEW n \in Nat, NEW s, IsStack(t, top, n + 1, s)
  PROVE  /\ top \in DOMAIN t /\ top = s[n + 1]
         /\ IsStack(t, t[top].next, n, Below(n, s))
         /\ On(n + 1, s) = On(n, Below(n, s)) \cup {top} /\ top \notin On(n, Below(n, s))
  <1> DEFINE r == Below(n, s)
  <1>1. top = s[n + 1] /\ s[n + 1] \in DOMAIN t /\ n + 1 \in 1 .. n + 1
    BY DEF IsStack, Place
  <1>2. r \in [1 .. n -> DOMAIN t] /\ \A k \in 1 .. n : r[k] = s[k] /\ k \in 1 .. n + 1
    BY DEF IsStack, Below
  <1>3. \A k \in 1 .. n + 1 : k = n + 1 \/ k \in 1 .. n
    OBVIOUS
  <1> HIDE DEF r
  <1>4. On(n + 1, s) = On(n, r) \cup {top}
    <2>1. On(n + 1, s) \subseteq On(n, r) \cup {top}
      BY <1>1, <1>2, <1>3 DEF On
    <2>2. On(n, r) \cup {top} \subseteq On(n + 1, s)
      BY <1>1, <1>2 DEF On
    <2> QED
      BY <2>1, <2>2
  <1>5. top \notin On(n, r)
    BY <1>1, <1>2 DEF On, IsStack
  <1>6. t[top].next = Place(n, r, n)
    BY <1>1, <1>2 DEF IsStack, Place
  <1>7. \A k \in 1 .. n : t[r[k]].next = Place(n, r, k - 1)
    BY <1>2 DEF IsStack, Place
  <1>8. \A j, k \in 1 .. n : r[j] = r[k] => j = k
    BY <1>2 DEF IsStack
  <1>9. IsStack(t, t[top].next, n, r)
    BY <1>2, <1>6, <1>7, <1>8 DEF IsStack
  <1> QED
    BY <1>1, <1>4, <1>5, <1>9 DEF r

-----------------------------------------------------------------------------
(* The two stacks, and the tokens on neither.                              *)

Parens == {Operator("("), Operator(")")}

\* At the addresses s there is a stack of the values v.
Carries(t, top, v, s) ==
  IsStack(t, top, Len(v), s) /\ \A k \in 1 .. Len(v) : t[s[k]].token = v[k]

\* A token is at one place of A, B and rest, or it is a parenthesis.
Places(t, A, B, rest) ==
  /\ A \cap B = {} /\ rest \subseteq DOMAIN t /\ rest \cap (A \cup B) = {}
  /\ \A a \in DOMAIN t : a \in A \cup B \cup rest \/ t[a].token \in Parens

\* Two stacks of the values v and w, and the tokens rest, which are on none.
Stacks(t, top1, v, top2, w, rest) ==
  \E r, s : /\ Carries(t, top1, v, r) /\ Carries(t, top2, w, s)
            /\ Places(t, On(Len(v), r), On(Len(w), s), rest)

LEMMA StacksSwapped ==
  ASSUME NEW t, NEW top1, NEW v, NEW top2, NEW w, NEW rest,
         Stacks(t, top1, v, top2, w, rest)
  PROVE  Stacks(t, top2, w, top1, v, rest)
  BY DEF Stacks, Places

\* A new token is on none of them.
LEMMA StacksWithToken ==
  ASSUME NEW V, NEW t, NEW top1, NEW v \in Seq(V), NEW top2, NEW w \in Seq(V), NEW rest,
         Stacks(t, top1, v, top2, w, rest),
         NEW u, NEW a, a \notin DOMAIN t, DOMAIN u = DOMAIN t \cup {a},
         \A b \in DOMAIN t : u[b] = t[b]
  PROVE  Stacks(u, top1, v, top2, w, rest \cup {a})
  <1>1. PICK r, s : /\ Carries(t, top1, v, r) /\ Carries(t, top2, w, s)
                    /\ Places(t, On(Len(v), r), On(Len(w), s), rest)
    BY DEF Stacks
  <1>2. /\ Len(v) \in Nat /\ Len(w) \in Nat
        /\ On(Len(v), r) \subseteq DOMAIN t /\ On(Len(w), s) \subseteq DOMAIN t
    BY <1>1, LenProperties, OnStack DEF Carries
  <1>3. IsStack(u, top1, Len(v), r) /\ IsStack(u, top2, Len(w), s)
    BY <1>1, <1>2, StackKept DEF Carries
  <1>4. Carries(u, top1, v, r) /\ Carries(u, top2, w, s)
    BY <1>1, <1>2, <1>3 DEF Carries, On
  <1>5. Places(u, On(Len(v), r), On(Len(w), s), rest \cup {a})
    BY <1>1, <1>2 DEF Places
  <1> QED
    BY <1>4, <1>5 DEF Stacks

\* The tokens u are t but for the link of a.
LinkedTo(t, u, a, n) ==
  /\ DOMAIN u = DOMAIN t /\ u[a].next = n
  /\ \A b \in DOMAIN t : /\ u[b].token = t[b].token /\ u[b].scope = t[b].scope
                         /\ b # a => u[b].next = t[b].next

LEMMA StacksPushed ==
  ASSUME NEW V, NEW t, NEW top1, NEW v \in Seq(V), NEW top2, NEW w \in Seq(V), NEW rest,
         Stacks(t, top1, v, top2, w, rest), NULL \notin DOMAIN t,
         NEW a \in rest, NEW u, LinkedTo(t, u, a, top1), t[a].token \in V
  PROVE  Stacks(u, a, Append(v, t[a].token), top2, w, rest \ {a})
  <1> DEFINE x == t[a].token
             vx == Append(v, x)
  <1>1. PICK r, s : /\ Carries(t, top1, v, r) /\ Carries(t, top2, w, s)
                    /\ Places(t, On(Len(v), r), On(Len(w), s), rest)
    BY DEF Stacks
  <1>2. /\ Len(v) \in Nat /\ Len(w) \in Nat /\ Len(vx) = Len(v) + 1
        /\ \A k \in 1 .. Len(v) : vx[k] = v[k]
        /\ vx[Len(v) + 1] = x
    BY LenProperties, PushedStack
  <1>3. /\ On(Len(v), r) \subseteq DOMAIN t /\ On(Len(w), s) \subseteq DOMAIN t
        /\ a \in DOMAIN t /\ a \notin On(Len(v), r) /\ a \notin On(Len(w), s)
    BY <1>1, <1>2, OnStack DEF Carries, Places
  <1>4. IsStack(u, top1, Len(v), r) /\ IsStack(u, top2, Len(w), s)
    BY <1>1, <1>2, <1>3, StackKept DEF Carries, LinkedTo
  <1>5. PICK q : /\ IsStack(u, a, Len(v) + 1, q) /\ On(Len(v) + 1, q) = On(Len(v), r) \cup {a}
                 /\ q[Len(v) + 1] = a /\ \A k \in 1 .. Len(v) : q[k] = r[k]
    BY <1>2, <1>3, <1>4, StackPushed DEF LinkedTo
  <1> HIDE DEF vx, x
  <1>6. Carries(u, a, vx, q)
    <2>1. \A k \in 1 .. Len(v) : u[q[k]].token = vx[k]
      BY <1>1, <1>2, <1>3, <1>5 DEF Carries, On, LinkedTo
    <2>2. u[q[Len(v) + 1]].token = vx[Len(v) + 1]
      BY <1>2, <1>3, <1>5 DEF LinkedTo, x
    <2>3. \A k \in 1 .. Len(v) + 1 : k \in 1 .. Len(v) \/ k = Len(v) + 1
      BY <1>2
    <2> QED
      BY <1>2, <1>5, <2>1, <2>2, <2>3 DEF Carries
  <1>7. Carries(u, top2, w, s)
    BY <1>1, <1>3, <1>4 DEF Carries, On, LinkedTo
  <1>8. Places(u, On(Len(vx), q), On(Len(w), s), rest \ {a})
    BY <1>1, <1>2, <1>3, <1>5 DEF Places, LinkedTo
  <1> QED
    BY <1>6, <1>7, <1>8 DEF Stacks, vx, x

LEMMA StacksPopped ==
  ASSUME NEW V, NEW t, NEW top1, NEW v \in Seq(V), NEW top2, NEW w \in Seq(V), NEW rest,
         Stacks(t, top1, v, top2, w, rest), v # <<>>
  PROVE  /\ top1 \in DOMAIN t \ rest /\ t[top1].token = v[Len(v)]
         /\ Stacks(t, t[top1].next, SubSeq(v, 1, Len(v) - 1), top2, w, rest \cup {top1})
  <1> DEFINE vp == SubSeq(v, 1, Len(v) - 1)
  <1>1. PICK r, s : /\ Carries(t, top1, v, r) /\ Carries(t, top2, w, s)
                    /\ Places(t, On(Len(v), r), On(Len(w), s), rest)
    BY DEF Stacks
  <1>2. PICK n \in Nat : Len(v) = n + 1
    <2>1. Len(v) - 1 \in Nat /\ Len(v) = (Len(v) - 1) + 1
      BY LenProperties, EmptySeq
    <2> QED
      BY <2>1
  <1>3. Len(vp) = n /\ \A k \in 1 .. n : vp[k] = v[k]
    BY <1>2, PoppedStack
  <1> HIDE DEF vp
  <1>4. IsStack(t, top1, n + 1, r)
    BY <1>1, <1>2 DEF Carries
  <1> DEFINE q == Below(n, r)
  <1>5. /\ top1 \in DOMAIN t /\ top1 = r[n + 1]
        /\ IsStack(t, t[top1].next, n, q)
        /\ On(n + 1, r) = On(n, q) \cup {top1} /\ top1 \notin On(n, q)
    BY <1>4, StackPopped
  <1>6. \A k \in 1 .. n : q[k] = r[k]
    BY DEF Below
  <1> HIDE DEF q
  <1>7. Carries(t, t[top1].next, vp, q)
    BY <1>1, <1>2, <1>3, <1>5, <1>6 DEF Carries
  <1>8. Places(t, On(Len(vp), q), On(Len(w), s), rest \cup {top1}) /\ top1 \notin rest
    BY <1>1, <1>2, <1>3, <1>5, <1>6 DEF Places
  <1>9. t[top1].token = v[Len(v)]
    BY <1>1, <1>2, <1>5 DEF Carries
  <1> QED
    BY <1>1, <1>5, <1>7, <1>8, <1>9 DEF Stacks, vp

\* A parenthesis need not be anywhere.
LEMMA StacksDropped ==
  ASSUME NEW t, NEW top1, NEW v, NEW top2, NEW w, NEW rest,
         Stacks(t, top1, v, top2, w, rest), NEW a, t[a].token \in Parens
  PROVE  Stacks(t, top1, v, top2, w, rest \ {a})
  BY DEF Stacks, Places

-----------------------------------------------------------------------------
(* The invariant.                                                          *)

Values == {Operand(w) : w \in Words} \cup {Operator(o) : o \in Operators}
Scopes == Parents \cup {NoScope}
Block  == [token : Values, scope : Scopes, next : Int]

\* The tokens of the operator stack s.
OpTokens(s) == [k \in 1 .. Len(s) |-> Operator(s[k])]

\* While an operator is handled its token is on neither stack.
Handled == IF op = <<>> THEN {} ELSE {tok}

TokensOK ==
  /\ tokens \in Seq(Block)
  /\ parent \in Scopes

Unresolved == freed = {} /\ \A a \in DOMAIN tokens : tokens[a].scope = NoScope

StatusOK ==
  /\ phase = "parse" <=> status \in {"scanning", "draining"}
  /\ status = "draining" => op = <<>>
  /\ op # <<>> => status = "scanning" \/ op[1] = ")"

ParseOK ==
  phase = "parse" =>
    /\ Unresolved /\ list = NULL
    /\ Stacks(tokens, outTop, out, opTop, OpTokens(ops), Handled)
    /\ op # <<>> => tok \in DOMAIN tokens /\ tokens[tok].token = Operator(op[1])

\* What was freed is on no list, and all the rest but parentheses is.
FreeOK ==
  /\ phase = "free operators" =>
       \E p \in Seq(Values) : Stacks(tokens, outTop, out, tok, p, freed)
  /\ phase = "free output" =>
       \E o \in Seq(Values) : Stacks(tokens, tok, o, NULL, <<>>, freed)
  /\ phase = "failed" /\ status = "UNMATCHED_PARENTHESIS" =>
       \A a \in DOMAIN tokens \ freed : Paren(a)

\* The output is at the addresses s, and only parentheses are elsewhere.
IsOutput(s) ==
  /\ s \in [1 .. Len(out) -> DOMAIN tokens]
  /\ \A j, k \in 1 .. Len(out) : s[j] = s[k] => j = k
  /\ \A k \in 1 .. Len(out) : tokens[s[k]].token = out[k]
  /\ \A a \in DOMAIN tokens : a \in On(Len(out), s) \/ Paren(a)

At(s, k) == Place(Len(out), s, k)

\* stack_to_list has turned around the links above the j-th token.
TurnedAbove(s, j) ==
  /\ IsOutput(s) /\ Unresolved
  /\ tok = At(s, j) /\ list = At(s, j + 1)
  /\ \A k \in 1 .. Len(out) :
        tokens[s[k]].next = IF k <= j THEN At(s, k - 1) ELSE At(s, k + 1)

\* prepare_line has been at the tokens before the j-th.
ResolvedTo(s, j) ==
  /\ IsOutput(s) /\ freed = {}
  /\ list = At(s, 1)
  /\ \A k \in 1 .. Len(out) :
        /\ tokens[s[k]].next = At(s, k + 1)
        /\ tokens[s[k]].scope = IF k < j /\ IsLocal(s[k]) THEN parent ELSE NoScope

OutputOK ==
  /\ phase = "reverse" => \E s : \E j \in 0 .. Len(out) : TurnedAbove(s, j)
  /\ phase = "resolve" =>
       \E s : \E j \in 1 .. Len(out) + 1 : ResolvedTo(s, j) /\ tok = At(s, j)
  /\ phase = "prepared" => \E s : ResolvedTo(s, Len(out) + 1)

ListsInv == TokensOK /\ StatusOK /\ ParseOK /\ FreeOK /\ OutputOK

-----------------------------------------------------------------------------
(* The tokens.                                                             *)

LEMMA TokenValues ==
  /\ \A w \in Words : Operand(w) \in Values
  /\ \A o \in Operators : Operator(o) \in Values
  /\ Tokens \subseteq Values /\ Seq(Tokens) \subseteq Seq(Values)
  <1>1. /\ \A w \in Words : Operand(w) \in Values
        /\ \A o \in Operators : Operator(o) \in Values
        /\ Tokens \subseteq Values
    BY DEF Values, Tokens, Pushed
  <1> QED
    BY <1>1

\* There is nothing at NULL.
LEMMA NothingAtNULL ==
  ASSUME NEW t \in Seq(Block)
  PROVE  NULL \notin DOMAIN t /\ DOMAIN t = 1 .. Len(t) /\ DOMAIN t \subseteq Int
  BY LenProperties DEF NULL

\* The top says whether a stack is empty.
LEMMA StackTop ==
  ASSUME NEW t, NEW top1, NEW v \in Seq(Values), NEW top2, NEW w, NEW rest,
         Stacks(t, top1, v, top2, w, rest), NULL \notin DOMAIN t
  PROVE  top1 = NULL <=> v = <<>>
  <1>1. PICK r : IsStack(t, top1, Len(v), r)
    BY DEF Stacks, Carries
  <1>2. Len(v) \in Nat /\ (v = <<>> <=> Len(v) = 0)
    BY LenProperties, EmptySeq
  <1> QED
    BY <1>1, <1>2 DEF IsStack, Place

\* A token is put after those there are.
LEMMA TokenAdded ==
  ASSUME NEW t \in Seq(Block), NEW x \in Block
  PROVE  /\ Append(t, x) \in Seq(Block)
         /\ Len(Append(t, x)) \notin DOMAIN t
         /\ DOMAIN Append(t, x) = DOMAIN t \cup {Len(Append(t, x))}
         /\ Append(t, x)[Len(Append(t, x))] = x
         /\ \A a \in DOMAIN t : Append(t, x)[a] = t[a]
  BY PushedStack, LenProperties

LEMMA TokenRelinked ==
  ASSUME tokens \in Seq(Block), NEW a \in DOMAIN tokens, NEW n \in Int
  PROVE  /\ Relinked(a, n) \in Seq(Block)
         /\ LinkedTo(tokens, Relinked(a, n), a, n)
  <1> DEFINE b == [tokens[a] EXCEPT !.next = n]
             u == [tokens EXCEPT ![a] = b]
  <1>1. tokens[a] \in Block
    BY ElementOfSeq
  <1>2. b \in Block /\ b.token = tokens[a].token /\ b.scope = tokens[a].scope /\ b.next = n
    BY <1>1 DEF Block
  <1> HIDE DEF b
  <1>3. u \in Seq(Block)
    BY <1>2
  <1>4. LinkedTo(tokens, u, a, n)
    BY <1>2 DEF LinkedTo
  <1> QED
    BY <1>3, <1>4 DEF Relinked, b

\* The tokens of a stack of operators are a stack of tokens.
LEMMA OpTokensStack ==
  ASSUME NEW s \in Seq(Pushed)
  PROVE  /\ OpTokens(s) \in Seq(Values) /\ Len(OpTokens(s)) = Len(s)
         /\ OpTokens(s) = <<>> <=> s = <<>>
         /\ \A k \in 1 .. Len(s) : OpTokens(s)[k] = Operator(s[k])
  BY TokenValues DEF OpTokens, Pushed

LEMMA OpTokensPushed ==
  ASSUME NEW s \in Seq(Pushed), NEW o \in Pushed
  PROVE  OpTokens(Append(s, o)) = Append(OpTokens(s), Operator(o))
  BY DEF OpTokens

LEMMA OpTokensPopped ==
  ASSUME NEW s \in Seq(Pushed), s # <<>>
  PROVE  OpTokens(SubSeq(s, 1, Len(s) - 1)) = SubSeq(OpTokens(s), 1, Len(OpTokens(s)) - 1)
  BY DEF OpTokens
-----------------------------------------------------------------------------
(* The steps of parse_expression.                                          *)

\* Both stacks hold values of tokens, and their tops are tokens or NULL.
LEMMA StacksTyped ==
  ASSUME TypeOK, TokensOK, ParseOK, phase = "parse"
  PROVE  /\ out \in Seq(Values) /\ OpTokens(ops) \in Seq(Values)
         /\ outTop \in Int /\ opTop \in Int
         /\ Handled \subseteq DOMAIN tokens
  <1>1. out \in Seq(Values) /\ OpTokens(ops) \in Seq(Values)
    BY TokenValues, OpTokensStack DEF TypeOK
  <1>2. PICK r, s : /\ Carries(tokens, outTop, out, r) /\ Carries(tokens, opTop, OpTokens(ops), s)
                    /\ Places(tokens, On(Len(out), r), On(Len(OpTokens(ops)), s), Handled)
    BY DEF ParseOK, Stacks
  <1>3. DOMAIN tokens \subseteq Int /\ NULL \in Int
    BY NothingAtNULL DEF TokensOK, NULL
  <1>4. outTop \in Int /\ opTop \in Int
    BY <1>2, <1>3 DEF Carries, IsStack, Place
  <1> QED
    BY <1>1, <1>2, <1>4 DEF Places

\* The word before the current character goes on the output stack.
LEMMA OperandEnded ==
  ASSUME TypeOK, TokensOK, ParseOK, phase = "parse", op = <<>>, EndWord
  PROVE  /\ WithOperand \in Seq(Block)
         /\ \A a \in DOMAIN WithOperand : WithOperand[a].scope = NoScope
         /\ Stacks(WithOperand, IF word = <<>> THEN outTop ELSE Len(WithOperand), out',
                   opTop, OpTokens(ops), {})
  <1>1. /\ Stacks(tokens, outTop, out, opTop, OpTokens(ops), {})
        /\ out \in Seq(Values) /\ OpTokens(ops) \in Seq(Values) /\ outTop \in Int
        /\ tokens \in Seq(Block) /\ \A a \in DOMAIN tokens : tokens[a].scope = NoScope
    BY StacksTyped DEF ParseOK, Handled, Unresolved, TokensOK
  <1>2. CASE word = <<>>
    BY <1>1, <1>2 DEF WithOperand, EndWord
  <1>3. CASE word # <<>>
    <2> DEFINE w == word[1]
               x == Token(Operand(w), outTop)
               u == Append(tokens, x)
               a == Len(u)
    <2>1. w \in Words /\ WithOperand = u /\ out' = Append(out, Operand(w))
      BY <1>3 DEF TypeOK, WithOperand, EndWord
    <2>2. /\ x \in Block /\ x.scope = NoScope /\ x.next = outTop /\ x.token = Operand(w)
          /\ x.token \in Values
      BY <1>1, <2>1, TokenValues DEF Token, Block, Scopes
    <2> HIDE DEF w, x
    <2>3. /\ u \in Seq(Block) /\ a \notin DOMAIN tokens /\ DOMAIN u = DOMAIN tokens \cup {a}
          /\ u[a] = x /\ \A b \in DOMAIN tokens : u[b] = tokens[b]
      BY <1>1, <2>2, TokenAdded
    <2> HIDE DEF u, a
    <2>4. Stacks(u, outTop, out, opTop, OpTokens(ops), {a})
      BY <1>1, <2>3, StacksWithToken
    <2>5. LinkedTo(u, u, a, outTop) /\ NULL \notin DOMAIN u
      BY <2>2, <2>3, NothingAtNULL DEF LinkedTo
    <2>6. Stacks(u, a, Append(out, u[a].token), opTop, OpTokens(ops), {a} \ {a})
      BY <1>1, <2>2, <2>3, <2>4, <2>5, StacksPushed
    <2>7. Stacks(u, a, out', opTop, OpTokens(ops), {})
      <3>1. {a} \ {a} = {} /\ Append(out, u[a].token) = out'
        BY <2>1, <2>2, <2>3
      <3> QED
        BY <2>6, <3>1
    <2>8. \A b \in DOMAIN u : u[b].scope = NoScope
      BY <1>1, <2>2, <2>3
    <2> QED
      BY <1>3, <2>1, <2>3, <2>7, <2>8 DEF a
  <1> QED
    BY <1>2, <1>3

\* The token of the operator on top leaves the list of operators, for Pop.
LEMMA TopTaken ==
  ASSUME TypeOK, TokensOK, ParseOK, phase = "parse", ops # <<>>, Pop
  PROVE  /\ opTop \in DOMAIN tokens \ Handled /\ tokens[opTop].token = Operator(Top)
         /\ Stacks(tokens, outTop, out, tokens[opTop].next, OpTokens(ops'), Handled \cup {opTop})
         /\ OpTokens(ops') \in Seq(Values)
  <1> DEFINE v    == OpTokens(ops)
             vp   == SubSeq(v, 1, Len(v) - 1)
  <1>1. /\ Stacks(tokens, opTop, v, outTop, out, Handled)
        /\ out \in Seq(Values) /\ v \in Seq(Values)
    BY StacksTyped, StacksSwapped DEF ParseOK, TokensOK
  <1>2. /\ v # <<>> /\ OpTokens(ops') = vp /\ v[Len(v)] = Operator(Top)
        /\ vp \in Seq(Values)
    <2>1. v # <<>> /\ Len(v) = Len(ops) /\ Len(ops) \in 1 .. Len(ops)
      BY OpTokensStack, LenProperties, EmptySeq DEF TypeOK
    <2>2. OpTokens(ops') = vp
      BY OpTokensPopped DEF TypeOK, Pop
    <2>3. v[Len(v)] = Operator(Top)
      BY <2>1, OpTokensStack DEF TypeOK, Top
    <2> QED
      BY <1>1, <2>1, <2>2, <2>3, PoppedStack
  <1> HIDE DEF v
  <1>3. /\ opTop \in DOMAIN tokens \ Handled /\ tokens[opTop].token = v[Len(v)]
        /\ Stacks(tokens, tokens[opTop].next, vp, outTop, out, Handled \cup {opTop})
    BY <1>1, <1>2, StacksPopped
  <1> QED
    BY <1>2, <1>3, StacksSwapped

\* It goes to the output stack, for Yield.
LEMMA TopMoved ==
  ASSUME TypeOK, TokensOK, ParseOK, phase = "parse", ops # <<>>, Yield, MoveTop
  PROVE  /\ tokens' \in Seq(Block) /\ DOMAIN tokens' = DOMAIN tokens
         /\ \A a \in DOMAIN tokens : /\ tokens'[a].token = tokens[a].token
                                     /\ tokens'[a].scope = tokens[a].scope
         /\ Stacks(tokens', outTop', out', opTop', OpTokens(ops'), Handled)
  <1> DEFINE next == tokens[opTop].next
  <1>1. /\ tokens \in Seq(Block) /\ NULL \notin DOMAIN tokens
        /\ out \in Seq(Values) /\ outTop \in Int /\ out' = Append(out, Operator(Top))
    BY StacksTyped, NothingAtNULL DEF TokensOK, Yield
  <1>2. /\ opTop \in DOMAIN tokens \ Handled /\ tokens[opTop].token = Operator(Top)
        /\ Stacks(tokens, outTop, out, next, OpTokens(ops'), Handled \cup {opTop})
        /\ OpTokens(ops') \in Seq(Values)
    BY TopTaken DEF Yield
  <1>3. tokens[opTop].token \in Values
    <2>1. tokens[opTop] \in Block
      BY <1>1, <1>2, NothingAtNULL, ElementOfSeq
    <2> QED
      BY <2>1 DEF Block
  <1>4. outTop' = opTop /\ opTop' = next
    BY DEF MoveTop
  <1> HIDE DEF next
  <1>5. tokens' \in Seq(Block) /\ LinkedTo(tokens, tokens', opTop, outTop)
    BY <1>1, <1>2, TokenRelinked DEF MoveTop
  <1>6. Stacks(tokens', opTop, Append(out, tokens[opTop].token), next, OpTokens(ops'),
               (Handled \cup {opTop}) \ {opTop})
    BY <1>1, <1>2, <1>3, <1>5, StacksPushed
  <1>7. (Handled \cup {opTop}) \ {opTop} = Handled
    BY <1>2
  <1>8. Stacks(tokens', outTop', out', opTop', OpTokens(ops'), Handled)
    BY <1>1, <1>2, <1>4, <1>6, <1>7
  <1> QED
    BY <1>5, <1>8 DEF LinkedTo

\* Nothing is said of the other phases while the text is read.
LEMMA StillParsing ==
  ASSUME phase' = "parse"
  PROVE  FreeOK' /\ OutputOK'
  BY DEF FreeOK, OutputOK

LEMMA PassWordKeeps ==
  ASSUME ListsInv, PassWord
  PROVE  ListsInv'
  <1> USE DEF PassWord, ReadWord, Reading, memory
  <1>1. phase = "parse" /\ phase' = "parse"
    BY DEF ListsInv, StatusOK
  <1>2. TokensOK' /\ StatusOK'
    BY DEF ListsInv, TokensOK, StatusOK
  <1>3. ParseOK'
    BY <1>1 DEF ListsInv, ParseOK, Handled, Unresolved
  <1> QED
    BY <1>1, <1>2, <1>3, StillParsing DEF ListsInv

LEMMA EndOperandKeeps ==
  ASSUME TypeOK, ListsInv, EndOperand
  PROVE  ListsInv'
  <1> USE DEF EndOperand, ReadBlank, ReadEnd, Reading, Keep
  <1>1. /\ phase = "parse" /\ phase' = "parse" /\ op = <<>> /\ op' = <<>> /\ EndWord
        /\ ops' = ops /\ opTop' = opTop /\ freed' = freed /\ list' = list /\ parent' = parent
        /\ status' \in {"scanning", "draining"} /\ tokens' = WithOperand
        /\ outTop' = IF word = <<>> THEN outTop ELSE Len(WithOperand)
    BY DEF ListsInv, StatusOK
  <1> HIDE DEF EndOperand
  <1>2. /\ WithOperand \in Seq(Block)
        /\ \A a \in DOMAIN WithOperand : WithOperand[a].scope = NoScope
        /\ Stacks(tokens', outTop', out', opTop', OpTokens(ops'), {})
    BY <1>1, OperandEnded DEF ListsInv
  <1>3. TokensOK' /\ StatusOK'
    BY <1>1, <1>2 DEF ListsInv, TokensOK, StatusOK
  <1>4. ParseOK'
    BY <1>1, <1>2 DEF ListsInv, ParseOK, Handled, Unresolved
  <1> QED
    BY <1>1, <1>3, <1>4, StillParsing DEF ListsInv

LEMMA MakeOperatorKeeps ==
  ASSUME TypeOK, ListsInv, MakeOperator
  PROVE  ListsInv'
  <1>1. PICK o \in Operators : Reading(o) /\ op' = <<o>>
    BY DEF MakeOperator, ReadOperator
  <1> DEFINE t   == WithOperand
             top == IF word = <<>> THEN outTop ELSE Len(t)
             x   == Token(Operator(o), UNSET)
             u   == Append(t, x)
             a   == Len(u)
  <1>2. /\ phase = "parse" /\ phase' = "parse" /\ op = <<>> /\ EndWord
        /\ ops' = ops /\ opTop' = opTop /\ freed' = freed /\ list' = list /\ parent' = parent
        /\ status' = "scanning" /\ tokens' = u /\ outTop' = top /\ tok' = a
    BY <1>1 DEF ListsInv, StatusOK, MakeOperator, ReadOperator, Reading, Keep
  <1>3. /\ t \in Seq(Block)
        /\ \A b \in DOMAIN t : t[b].scope = NoScope
        /\ Stacks(t, top, out', opTop, OpTokens(ops), {})
    BY <1>2, OperandEnded DEF ListsInv
  <1> HIDE DEF t, top
  <1>4. x \in Block /\ x.scope = NoScope /\ x.token = Operator(o)
    BY TokenValues DEF Token, Block, Scopes, UNSET
  <1> HIDE DEF x
  <1>5. /\ u \in Seq(Block) /\ a \notin DOMAIN t /\ DOMAIN u = DOMAIN t \cup {a}
        /\ u[a] = x /\ \A b \in DOMAIN t : u[b] = t[b]
    BY <1>3, <1>4, TokenAdded
  <1> HIDE DEF u, a
  <1>6. out' \in Seq(Values) /\ OpTokens(ops) \in Seq(Values)
    <2>1. Read
      BY DEF MakeOperator, Read
    <2>2. TypeOK'
      BY <2>1, ReadTypes
    <2> QED
      BY <2>2, TokenValues, OpTokensStack DEF TypeOK
  <1>7. Stacks(u, top, out', opTop, OpTokens(ops), {a})
    <2>1. {} \cup {a} = {a}
      OBVIOUS
    <2> QED
      BY <1>3, <1>5, <1>6, <2>1, StacksWithToken
  <1>8. TokensOK' /\ StatusOK'
    BY <1>2, <1>5 DEF ListsInv, TokensOK, StatusOK
  <1>9. Stacks(tokens, outTop, out, opTop, OpTokens(ops), Handled)'
    BY <1>1, <1>2, <1>7 DEF Handled
  <1>10. /\ Unresolved'
         /\ op' # <<>> => tok' \in DOMAIN tokens' /\ tokens'[tok'].token = Operator(op'[1])
    BY <1>1, <1>2, <1>3, <1>4, <1>5 DEF ListsInv, ParseOK, Unresolved
  <1>11. ParseOK'
    BY <1>2, <1>9, <1>10 DEF ListsInv, ParseOK
  <1> QED
    BY <1>2, <1>8, <1>11, StillParsing DEF ListsInv

LEMMA LoseTokensKeeps ==
  ASSUME TypeOK, ListsInv, LoseTokens
  PROVE  ListsInv'
  <1>1. /\ status' = "CANNOT_PARSE_TOKEN" /\ phase' = "failed" /\ parent' = parent
        /\ op' = <<>>
        /\ word[1] \in Words
    BY DEF LoseTokens, CannotParseToken, Converts, Keep, TypeOK
  <1>2. Token(Operand(word[1]), UNSET) \in Block
    BY <1>1, TokenValues DEF Token, Block, Scopes, UNSET
  <1>3. TokensOK'
    BY <1>1, <1>2, TokenAdded DEF ListsInv, TokensOK, LoseTokens
  <1> QED
    BY <1>1, <1>3 DEF ListsInv, StatusOK, ParseOK, FreeOK, OutputOK

LEMMA PushTokenKeeps ==
  ASSUME TypeOK, ListsInv, PushToken
  PROVE  ListsInv'
  <1>1. /\ phase = "parse" /\ phase' = "parse" /\ op # <<>> /\ op' = <<>>
        /\ out' = out /\ outTop' = outTop /\ freed' = freed /\ list' = list /\ parent' = parent
        /\ status' = status /\ tokens' = Relinked(tok, opTop) /\ opTop' = tok
        /\ op[1] \in Pushed /\ ops' = Append(ops, op[1])
    <2>1. op # <<>> /\ op[1] \in Pushed
      BY DEF PushToken, Push, TypeOK, Pushed
    <2>2. phase = "parse"
      BY <2>1 DEF ListsInv, StatusOK, PushToken, Push, Pushed
    <2> QED
      BY <2>1, <2>2 DEF PushToken, Push, Keep
  <1>2. /\ Stacks(tokens, opTop, OpTokens(ops), outTop, out, {tok})
        /\ out \in Seq(Values) /\ OpTokens(ops) \in Seq(Values) /\ opTop \in Int
        /\ tok \in DOMAIN tokens /\ tokens[tok].token = Operator(op[1])
        /\ tokens \in Seq(Block) /\ NULL \notin DOMAIN tokens
    BY <1>1, StacksTyped, StacksSwapped, NothingAtNULL DEF ListsInv, ParseOK, Handled, TokensOK
  <1>3. tokens' \in Seq(Block) /\ LinkedTo(tokens, tokens', tok, opTop)
    BY <1>1, <1>2, TokenRelinked
  <1>4. Stacks(tokens', tok, Append(OpTokens(ops), tokens[tok].token), outTop, out, {tok} \ {tok})
    BY <1>1, <1>2, <1>3, TokenValues, StacksPushed DEF Pushed
  <1>5. OpTokens(ops') = Append(OpTokens(ops), tokens[tok].token) /\ {tok} \ {tok} = {}
    BY <1>1, <1>2, OpTokensPushed DEF TypeOK
  <1>6. Stacks(tokens', opTop', OpTokens(ops'), outTop', out', {})
    BY <1>1, <1>4, <1>5
  <1>7. Stacks(tokens', outTop', out', opTop', OpTokens(ops'), {})
    BY <1>6, StacksSwapped
  <1>8. TokensOK' /\ StatusOK'
    BY <1>1, <1>3 DEF ListsInv, TokensOK, StatusOK
  <1>9. ParseOK'
    BY <1>1, <1>3, <1>7 DEF ListsInv, ParseOK, Handled, Unresolved, LinkedTo
  <1> QED
    BY <1>1, <1>8, <1>9, StillParsing DEF ListsInv
\* An operator leaves its stack, and the text is read on.
LEMMA MoveKeeps ==
  ASSUME TypeOK, ListsInv, phase = "parse", ops # <<>>, Yield, MoveTop,
         status' = status, UNCHANGED <<op, tok, phase, freed, list, parent>>
  PROVE  ListsInv'
  <1>1. /\ tokens' \in Seq(Block) /\ DOMAIN tokens' = DOMAIN tokens
        /\ \A a \in DOMAIN tokens : /\ tokens'[a].token = tokens[a].token
                                    /\ tokens'[a].scope = tokens[a].scope
        /\ Stacks(tokens', outTop', out', opTop', OpTokens(ops'), Handled)
    BY TopMoved DEF ListsInv
  <1>2. TokensOK' /\ StatusOK'
    BY <1>1 DEF ListsInv, TokensOK, StatusOK
  <1>3. ParseOK'
    BY <1>1 DEF ListsInv, ParseOK, Handled, Unresolved
  <1> QED
    BY <1>2, <1>3, StillParsing DEF ListsInv

LEMMA YieldTokenKeeps ==
  ASSUME TypeOK, ListsInv, YieldToken
  PROVE  ListsInv'
  <1>1. /\ ops # <<>> /\ Yield /\ status' = status /\ UNCHANGED <<op, tok, phase, freed, list, parent>>
    BY DEF YieldToken, YieldHigher, YieldRest, Leaves, Keep
  <1>2. phase = "parse"
    BY DEF ListsInv, StatusOK, YieldToken, YieldHigher, YieldRest
  <1> QED
    BY <1>1, <1>2, MoveKeeps DEF YieldToken

LEMMA YieldInsideKeeps ==
  ASSUME TypeOK, ListsInv, YieldInside
  PROVE  ListsInv'
  <1>1. /\ phase = "parse" /\ op = <<")">> /\ op' = op /\ ops # <<>> /\ Yield /\ MoveTop
        /\ UNCHANGED <<freed, list, parent>>
    BY DEF ListsInv, StatusOK, YieldInside, YieldEnclosed, Closing, Keep
  <1>2. CASE status' = status
    BY <1>1, <1>2, MoveKeeps DEF YieldInside
  <1>3. CASE status' # status
    <2>1. status' = "UNMATCHED_PARENTHESIS" /\ phase' = "free operators" /\ tok' = opTop'
      BY <1>3 DEF YieldInside, YieldEnclosed, FreeStacks
    <2>2. /\ tokens' \in Seq(Block) /\ DOMAIN tokens' = DOMAIN tokens
          /\ \A a \in DOMAIN tokens : tokens'[a].token = tokens[a].token
          /\ Stacks(tokens', outTop', out', opTop', OpTokens(ops'), Handled)
      BY <1>1, TopMoved DEF ListsInv
    <2>3. /\ Handled = {tok} /\ Handled \ {tok} = {} /\ freed' = {}
          /\ tok \in DOMAIN tokens /\ tokens[tok].token = Operator(")")
      BY <1>1 DEF ListsInv, ParseOK, Unresolved, Handled
    <2>4. Stacks(tokens', outTop', out', opTop', OpTokens(ops'), Handled \ {tok})
      BY <2>2, <2>3, StacksDropped DEF Parens
    <2>5. OpTokens(ops') \in Seq(Values)
      BY <1>1, PoppedStack, OpTokensStack DEF TypeOK, Yield, Pop
    <2>6. FreeOK'
      BY <2>1, <2>3, <2>4, <2>5 DEF FreeOK
    <2>7. TokensOK' /\ StatusOK'
      BY <1>1, <2>1, <2>2 DEF ListsInv, TokensOK, StatusOK
    <2> QED
      BY <2>1, <2>6, <2>7 DEF ListsInv, ParseOK, OutputOK
  <1> QED
    BY <1>2, <1>3

LEMMA CloseParensKeeps ==
  ASSUME TypeOK, ListsInv, CloseParens
  PROVE  ListsInv'
  <1>1. /\ phase = "parse" /\ phase' = "parse" /\ op = <<")">> /\ op' = <<>>
        /\ ops # <<>> /\ Top = "(" /\ Pop /\ status' = "scanning"
        /\ opTop' = tokens[opTop].next
        /\ UNCHANGED <<out, tokens, outTop, tok, freed, list, parent>>
    BY DEF ListsInv, StatusOK, CloseParens, Close, Closing, Keep
  <1> DEFINE left == Handled \cup {opTop}
  <1>2. /\ tokens[opTop].token \in Parens /\ tokens[tok].token \in Parens
        /\ Handled = {tok}
    BY <1>1, TopTaken DEF ListsInv, ParseOK, Handled, Parens
  <1>3. Stacks(tokens, outTop, out, opTop', OpTokens(ops'), left)
    BY <1>1, TopTaken DEF ListsInv
  <1> HIDE DEF left
  <1>4. Stacks(tokens, outTop, out, opTop', OpTokens(ops'), left \ {opTop})
    BY <1>2, <1>3, StacksDropped
  <1>5. Stacks(tokens, outTop, out, opTop', OpTokens(ops'), (left \ {opTop}) \ {tok})
    BY <1>2, <1>4, StacksDropped
  <1>6. (left \ {opTop}) \ {tok} = {}
    BY <1>2 DEF left
  <1>7. Stacks(tokens', outTop', out', opTop', OpTokens(ops'), {})
    BY <1>1, <1>5, <1>6
  <1>8. TokensOK' /\ StatusOK'
    BY <1>1 DEF ListsInv, TokensOK, StatusOK
  <1>9. ParseOK'
    BY <1>1, <1>7 DEF ListsInv, ParseOK, Handled, Unresolved
  <1> QED
    BY <1>1, <1>8, <1>9, StillParsing DEF ListsInv

LEMMA CrashKeeps ==
  ASSUME ListsInv, Crash
  PROVE  ListsInv'
  <1>1. /\ status' = "crashed" /\ phase' = "crashed" /\ op' = <<")">>
        /\ tokens' = tokens /\ parent' = parent
    BY DEF Crash, CloseNothing, Closing, Keep
  <1> QED
    BY <1>1 DEF ListsInv, TokensOK, StatusOK, ParseOK, FreeOK, OutputOK

LEMMA FreeAllKeeps ==
  ASSUME TypeOK, ListsInv, FreeAll
  PROVE  ListsInv'
  <1>1. /\ phase = "parse" /\ op = <<>> /\ op' = <<>> /\ status' = "UNMATCHED_PARENTHESIS"
        /\ phase' = "free operators" /\ tok' = opTop
        /\ UNCHANGED <<out, tokens, outTop, freed, parent>>
    BY DEF ListsInv, StatusOK, FreeAll, LeftOpen, FreeStacks, Keep
  <1>2. Stacks(tokens', outTop', out', tok', OpTokens(ops), freed') /\ OpTokens(ops) \in Seq(Values)
    BY <1>1, StacksTyped DEF ListsInv, ParseOK, Handled, Unresolved
  <1>3. FreeOK'
    BY <1>1, <1>2 DEF FreeOK
  <1>4. TokensOK' /\ StatusOK'
    BY <1>1 DEF ListsInv, TokensOK, StatusOK
  <1> QED
    BY <1>1, <1>3, <1>4 DEF ListsInv, ParseOK, OutputOK
\* When parse_expression succeeds only the output stack is left.
LEMMA TurnAroundKeeps ==
  ASSUME TypeOK, ListsInv, TurnAround
  PROVE  ListsInv'
  <1>1. /\ phase = "parse" /\ op = <<>> /\ op' = <<>> /\ ops = <<>> /\ status' = "success"
        /\ phase' = "reverse" /\ tok' = outTop /\ parent' \in Scopes
        /\ UNCHANGED <<out, tokens, outTop, freed, list>>
    BY DEF ListsInv, StatusOK, TurnAround, Succeed, Scopes
  <1>2. /\ Len(out) \in Nat /\ Len(OpTokens(ops)) = 0 /\ Unresolved /\ list = NULL
    BY <1>1, LenProperties, OpTokensStack DEF TypeOK, ListsInv, ParseOK
  <1>3. PICK r, s : /\ Carries(tokens, outTop, out, r) /\ Carries(tokens, opTop, OpTokens(ops), s)
                    /\ Places(tokens, On(Len(out), r), On(Len(OpTokens(ops)), s), Handled)
    BY <1>1 DEF ListsInv, ParseOK, Stacks
  <1>4. On(Len(OpTokens(ops)), s) = {} /\ Handled = {}
    BY <1>1, <1>2 DEF On, Handled
  <1>5. IsOutput(r)
    BY <1>3, <1>4 DEF IsOutput, Carries, IsStack, Places, Paren, Parens
  <1>6. /\ outTop = At(r, Len(out)) /\ NULL = At(r, Len(out) + 1)
        /\ \A k \in 1 .. Len(out) : tokens[r[k]].next = At(r, k - 1) /\ k <= Len(out)
    BY <1>2, <1>3 DEF Carries, IsStack, At, Place
  <1>7. TurnedAbove(r, Len(out))'
    BY <1>1, <1>2, <1>5, <1>6 DEF TurnedAbove, IsOutput, At, Unresolved, Paren
  <1>8. OutputOK'
    BY <1>1, <1>2, <1>7 DEF OutputOK
  <1>9. TokensOK' /\ StatusOK'
    BY <1>1 DEF ListsInv, TokensOK, StatusOK
  <1> QED
    BY <1>1, <1>8, <1>9 DEF ListsInv, ParseOK, FreeOK

-----------------------------------------------------------------------------
(* The loops.                                                              *)

\* What was on top of the list that is freed is on no list any more.
LEMMA FreeTokenKeeps ==
  ASSUME TypeOK, ListsInv, FreeToken
  PROVE  ListsInv'
  <1>1. /\ phase \in {"free operators", "free output"} /\ phase' = phase /\ tok # NULL
        /\ tok' = tokens[tok].next /\ freed' = freed \cup {tok}
        /\ UNCHANGED <<op, out, ops, status, tokens, outTop, opTop, list, parent>>
    BY DEF FreeToken, Freeing, Loop, vars
  <1>2. /\ tok # NULL /\ NULL \notin DOMAIN tokens
        /\ out \in Seq(Values) /\ <<>> \in Seq(Values)
    <2>1. tok # NULL
      BY <1>1
    <2>2. /\ NULL \notin DOMAIN tokens /\ out \in Seq(Values) /\ <<>> \in Seq(Values)
      BY NothingAtNULL, TokenValues DEF ListsInv, TokensOK, TypeOK
    <2> QED
      BY <2>1, <2>2
  <1>3. CASE phase = "free operators"
    <2>1. PICK p \in Seq(Values) : Stacks(tokens, outTop, out, tok, p, freed)
      BY <1>3 DEF ListsInv, FreeOK
    <2>2. Stacks(tokens, tok, p, outTop, out, freed)
      BY <2>1, StacksSwapped
    <2>3. p # <<>>
      BY <1>2, <2>2, StackTop
    <2> DEFINE q == SubSeq(p, 1, Len(p) - 1)
    <2>4. Stacks(tokens, tokens[tok].next, q, outTop, out, freed \cup {tok})
      BY <1>2, <2>2, <2>3, StacksPopped
    <2>5. q \in Seq(Values)
      BY <2>3, PoppedStack
    <2> HIDE DEF q
    <2>6. Stacks(tokens', outTop', out', tok', q, freed')
      BY <1>1, <2>4, StacksSwapped
    <2> QED
      BY <1>1, <1>3, <2>5, <2>6
      DEF ListsInv, TokensOK, StatusOK, ParseOK, FreeOK, OutputOK
  <1>4. CASE phase = "free output"
    <2>1. PICK o \in Seq(Values) : Stacks(tokens, tok, o, NULL, <<>>, freed)
      BY <1>4 DEF ListsInv, FreeOK
    <2>2. o # <<>>
      BY <1>2, <2>1, StackTop
    <2> DEFINE q == SubSeq(o, 1, Len(o) - 1)
    <2>3. Stacks(tokens, tokens[tok].next, q, NULL, <<>>, freed \cup {tok})
      BY <1>2, <2>1, <2>2, StacksPopped
    <2>4. q \in Seq(Values)
      BY <2>2, PoppedStack
    <2> HIDE DEF q
    <2>5. Stacks(tokens', tok', q, NULL, <<>>, freed')
      BY <1>1, <2>3
    <2> QED
      BY <1>1, <1>4, <2>4, <2>5
      DEF ListsInv, TokensOK, StatusOK, ParseOK, FreeOK, OutputOK
  <1> QED
    BY <1>1, <1>3, <1>4

LEMMA FreeOutputKeeps ==
  ASSUME TypeOK, ListsInv, FreeOutput
  PROVE  ListsInv'
  <1>1. /\ phase = "free operators" /\ phase' = "free output" /\ tok = NULL /\ tok' = outTop
        /\ UNCHANGED <<op, status, tokens, freed, parent>>
    BY DEF FreeOutput, End, vars
  <1>2. PICK p \in Seq(Values) : Stacks(tokens, outTop, out, tok, p, freed)
    BY <1>1 DEF ListsInv, FreeOK
  <1>3. out \in Seq(Values) /\ NULL \notin DOMAIN tokens
    BY NothingAtNULL, TokenValues DEF ListsInv, TokensOK, TypeOK
  <1>4. p = <<>>
    <2>1. Stacks(tokens, tok, p, outTop, out, freed)
      BY <1>2, StacksSwapped
    <2> QED
      BY <1>1, <1>3, <2>1, StackTop
  <1>5. Stacks(tokens', tok', out, NULL, <<>>, freed')
    BY <1>1, <1>2, <1>4
  <1> QED
    BY <1>1, <1>3, <1>5 DEF ListsInv, TokensOK, StatusOK, ParseOK, FreeOK, OutputOK

LEMMA FreeEndKeeps ==
  ASSUME TypeOK, ListsInv, FreeEnd
  PROVE  ListsInv'
  <1>1. /\ phase = "free output" /\ phase' = "failed" /\ tok = NULL
        /\ UNCHANGED <<op, status, tokens, freed, parent>>
    BY DEF FreeEnd, End, vars
  <1>2. PICK o \in Seq(Values) : Stacks(tokens, NULL, o, NULL, <<>>, freed)
    BY <1>1 DEF ListsInv, FreeOK
  <1>3. <<>> \in Seq(Values) /\ NULL \notin DOMAIN tokens /\ Len(<<>>) = 0
    BY NothingAtNULL DEF ListsInv, TokensOK
  <1>4. o = <<>>
    BY <1>2, <1>3, StackTop
  <1>5. \A a \in DOMAIN tokens \ freed : Paren(a)
    BY <1>2, <1>3, <1>4 DEF Stacks, Places, On, Paren, Parens
  <1> QED
    BY <1>1, <1>5 DEF ListsInv, TokensOK, StatusOK, ParseOK, FreeOK, OutputOK, Paren

\* Only a place of the list is not NULL.
LEMMA AtPlace ==
  ASSUME NEW s, TypeOK, TokensOK, IsOutput(s), NEW k \in Int
  PROVE  /\ At(s, k) # NULL <=> k \in 1 .. Len(out)
         /\ k \in 1 .. Len(out) => At(s, k) = s[k] /\ s[k] \in DOMAIN tokens
         /\ At(s, k) \in Int /\ Len(out) \in Nat
  <1>1. NULL \notin DOMAIN tokens /\ DOMAIN tokens \subseteq Int /\ NULL \in Int
    BY NothingAtNULL DEF TokensOK, NULL
  <1> QED
    <2>1. Len(out) \in Nat
      BY LenProperties DEF TypeOK
    <2>2. \A j \in 1 .. Len(out) : s[j] \in DOMAIN tokens
      BY DEF IsOutput
    <2>3. CASE k \in 1 .. Len(out)
      BY <1>1, <2>1, <2>2, <2>3 DEF At, Place
    <2>4. CASE k \notin 1 .. Len(out)
      BY <1>1, <2>1, <2>4 DEF At, Place
    <2> QED
      BY <2>3, <2>4
\* The link of the j-th token is turned around.
LEMMA ReverseTokenKeeps ==
  ASSUME TypeOK, ListsInv, ReverseToken
  PROVE  ListsInv'
  <1>1. /\ phase = "reverse" /\ phase' = "reverse" /\ tok # NULL
        /\ tokens' = Relinked(tok, list) /\ list' = tok /\ tok' = tokens[tok].next
        /\ UNCHANGED <<op, out, status, freed, parent>>
    BY DEF ReverseToken, Loop, vars
  <1>2. PICK s : \E j \in 0 .. Len(out) : TurnedAbove(s, j)
    BY <1>1 DEF ListsInv, OutputOK
  <1>3. PICK j \in 0 .. Len(out) : TurnedAbove(s, j)
    BY <1>2
  <1>4. /\ IsOutput(s) /\ Unresolved /\ tok = At(s, j) /\ list = At(s, j + 1)
        /\ \A k \in 1 .. Len(out) :
             tokens[s[k]].next = IF k <= j THEN At(s, k - 1) ELSE At(s, k + 1)
    BY <1>3 DEF TurnedAbove
  <1>5. j \in 1 .. Len(out) /\ tok = s[j] /\ tok \in DOMAIN tokens /\ list \in Int
    <2>1. j \in Int /\ j + 1 \in Int /\ tok # NULL /\ TokensOK
      BY <1>1 DEF ListsInv
    <2>2. j \in 1 .. Len(out) /\ At(s, j) = s[j] /\ s[j] \in DOMAIN tokens
      BY <1>4, <2>1, AtPlace
    <2>3. At(s, j + 1) \in Int
      BY <1>4, <2>1, AtPlace
    <2> QED
      BY <1>4, <2>2, <2>3
  <1>6. tokens' \in Seq(Block) /\ LinkedTo(tokens, tokens', tok, list)
    BY <1>1, <1>5, TokenRelinked DEF ListsInv, TokensOK
  <1>7. IsOutput(s)' /\ Unresolved'
    BY <1>1, <1>4, <1>6 DEF IsOutput, Unresolved, LinkedTo, Paren
  <1>8. \A k \in 1 .. Len(out) :
          tokens'[s[k]].next = IF k <= j - 1 THEN At(s, k - 1) ELSE At(s, k + 1)
    <2> TAKE k \in 1 .. Len(out)
    <2>1. CASE k = j
      BY <1>4, <1>5, <1>6, <2>1 DEF LinkedTo
    <2>2. CASE k # j
      <3>1. s[k] # tok /\ s[k] \in DOMAIN tokens
        BY <1>4, <1>5, <2>2 DEF IsOutput
      <3>2. tokens'[s[k]].next = tokens[s[k]].next
        BY <1>6, <3>1 DEF LinkedTo
      <3>3. k <= j <=> k <= j - 1
        BY <1>5, <2>2
      <3> QED
        BY <1>4, <3>2, <3>3
    <2> QED
      BY <2>1, <2>2
  <1>9. tok' = At(s, j - 1) /\ list' = At(s, (j - 1) + 1) /\ j - 1 \in 0 .. Len(out)
    <2>1. tokens[s[j]].next = At(s, j - 1)
      BY <1>4, <1>5
    <2>2. (j - 1) + 1 = j /\ j - 1 \in 0 .. Len(out)
      BY <1>5
    <2> QED
      BY <1>1, <1>4, <1>5, <2>1, <2>2
  <1>10. TurnedAbove(s, j - 1)'
    BY <1>1, <1>7, <1>8, <1>9 DEF TurnedAbove, At
  <1>11. OutputOK'
    BY <1>1, <1>9, <1>10 DEF OutputOK
  <1> QED
    BY <1>1, <1>6, <1>11 DEF ListsInv, TokensOK, StatusOK, ParseOK, FreeOK

LEMMA ReverseEndKeeps ==
  ASSUME TypeOK, ListsInv, ReverseEnd
  PROVE  ListsInv'
  <1>1. /\ phase = "reverse" /\ phase' = "resolve" /\ tok = NULL /\ tok' = list
        /\ UNCHANGED <<op, out, status, tokens, freed, list, parent>>
    BY DEF ReverseEnd, End, vars
  <1>2. PICK s : \E j \in 0 .. Len(out) : TurnedAbove(s, j)
    BY <1>1 DEF ListsInv, OutputOK
  <1>3. PICK j \in 0 .. Len(out) : TurnedAbove(s, j)
    BY <1>2
  <1>4. j = 0 /\ Len(out) \in Nat
    BY <1>1, <1>3, AtPlace DEF ListsInv, TurnedAbove
  <1>5. \A k \in 1 .. Len(out) : ~(k <= j) /\ ~(k < 1) /\ s[k] \in DOMAIN tokens
    BY <1>3, <1>4 DEF TurnedAbove, IsOutput
  <1>6. ResolvedTo(s, 1)
    BY <1>3, <1>4, <1>5 DEF TurnedAbove, ResolvedTo, Unresolved
  <1>7. tok' = At(s, 1)'
    BY <1>1, <1>3, <1>4 DEF TurnedAbove, At
  <1>8. ResolvedTo(s, 1)'
    BY <1>1, <1>6 DEF ResolvedTo, IsOutput, IsLocal, At, Paren
  <1>9. OutputOK'
    BY <1>1, <1>4, <1>7, <1>8 DEF OutputOK
  <1> QED
    BY <1>1, <1>9 DEF ListsInv, TokensOK, StatusOK, ParseOK, FreeOK
\* The j-th token gets its scope.
LEMMA TokenResolved ==
  ASSUME tokens \in Seq(Block), NEW a \in DOMAIN tokens, NEW p \in Scopes
  PROVE  LET u == [tokens EXCEPT ![a].scope = p]
         IN  /\ u \in Seq(Block) /\ DOMAIN u = DOMAIN tokens /\ u[a].scope = p
             /\ \A b \in DOMAIN tokens : /\ u[b].token = tokens[b].token
                                         /\ u[b].next = tokens[b].next
                                         /\ b # a => u[b].scope = tokens[b].scope
  <1> DEFINE b == [tokens[a] EXCEPT !.scope = p]
             u == [tokens EXCEPT ![a] = b]
  <1>1. tokens[a] \in Block
    BY ElementOfSeq
  <1>2. b \in Block /\ b.token = tokens[a].token /\ b.scope = p /\ b.next = tokens[a].next
    BY <1>1 DEF Block
  <1> HIDE DEF b
  <1>3. u \in Seq(Block)
    BY <1>2
  <1>4. /\ DOMAIN u = DOMAIN tokens /\ u[a] = b
        /\ \A c \in DOMAIN tokens : c # a => u[c] = tokens[c]
    OBVIOUS
  <1> HIDE DEF u
  <1>5. \A c \in DOMAIN tokens : /\ u[c].token = tokens[c].token
                                 /\ u[c].next = tokens[c].next
                                 /\ c # a => u[c].scope = tokens[c].scope
    BY <1>2, <1>4
  <1> QED
    BY <1>2, <1>3, <1>4, <1>5 DEF u, b

LEMMA ResolveTokenKeeps ==
  ASSUME TypeOK, ListsInv, ResolveToken
  PROVE  ListsInv'
  <1>1. /\ phase = "resolve" /\ phase' = "resolve" /\ tok # NULL
        /\ tokens' = IF IsLocal(tok) THEN [tokens EXCEPT ![tok].scope = parent] ELSE tokens
        /\ tok' = tokens[tok].next
        /\ UNCHANGED <<op, out, status, freed, list, parent>>
    BY DEF ResolveToken, Loop, vars
  <1>2. PICK s : \E j \in 1 .. Len(out) + 1 : ResolvedTo(s, j) /\ tok = At(s, j)
    BY <1>1 DEF ListsInv, OutputOK
  <1>3. PICK j \in 1 .. Len(out) + 1 : ResolvedTo(s, j) /\ tok = At(s, j)
    BY <1>2
  <1>4. /\ IsOutput(s) /\ freed = {} /\ list = At(s, 1)
        /\ \A k \in 1 .. Len(out) :
             /\ tokens[s[k]].next = At(s, k + 1)
             /\ tokens[s[k]].scope = IF k < j /\ IsLocal(s[k]) THEN parent ELSE NoScope
    BY <1>3 DEF ResolvedTo
  <1>5. j \in 1 .. Len(out) /\ tok = s[j] /\ tok \in DOMAIN tokens /\ Len(out) \in Nat
    <2>1. j \in Int /\ tok # NULL /\ TokensOK
      BY <1>1 DEF ListsInv
    <2> QED
      BY <1>3, <1>4, <2>1, AtPlace
  <1>6. /\ tokens' \in Seq(Block) /\ DOMAIN tokens' = DOMAIN tokens
        /\ tokens'[tok].scope = IF IsLocal(tok) THEN parent ELSE tokens[tok].scope
        /\ \A b \in DOMAIN tokens : /\ tokens'[b].token = tokens[b].token
                                    /\ tokens'[b].next = tokens[b].next
                                    /\ b # tok => tokens'[b].scope = tokens[b].scope
    BY <1>1, <1>5, TokenResolved DEF ListsInv, TokensOK
  <1>7. \A a \in DOMAIN tokens : IsLocal(a)' <=> IsLocal(a)
    BY <1>6 DEF IsLocal
  <1>8. IsOutput(s)'
    BY <1>1, <1>4, <1>6 DEF IsOutput, Paren
  <1>9. \A k \in 1 .. Len(out) :
          /\ tokens'[s[k]].next = At(s, k + 1)
          /\ tokens'[s[k]].scope = IF k < j + 1 /\ IsLocal(s[k]) THEN parent ELSE NoScope
    <2> TAKE k \in 1 .. Len(out)
    <2>1. s[k] \in DOMAIN tokens
      BY <1>4 DEF IsOutput
    <2>2. CASE k = j
      <3>1. k < j + 1 /\ ~(k < j)
        BY <1>5, <2>2
      <3> QED
        BY <1>4, <1>5, <1>6, <2>1, <2>2, <3>1
    <2>3. CASE k # j
      <3>1. s[k] # tok
        BY <1>4, <1>5, <2>3 DEF IsOutput
      <3>2. k < j <=> k < j + 1
        BY <1>5, <2>3
      <3> QED
        BY <1>4, <1>6, <2>1, <3>1, <3>2
    <2> QED
      BY <2>2, <2>3
  <1>10. \A k \in 1 .. Len(out) : s[k] \in DOMAIN tokens
    BY <1>4 DEF IsOutput
  <1>11. ResolvedTo(s, j + 1)'
    BY <1>1, <1>4, <1>7, <1>8, <1>9, <1>10 DEF ResolvedTo, At
  <1>12. tok' = At(s, j + 1)' /\ j + 1 \in 1 .. Len(out) + 1
    BY <1>1, <1>4, <1>5 DEF At
  <1>13. OutputOK'
    BY <1>1, <1>11, <1>12 DEF OutputOK
  <1> QED
    BY <1>1, <1>6, <1>13 DEF ListsInv, TokensOK, StatusOK, ParseOK, FreeOK

LEMMA ResolveEndKeeps ==
  ASSUME TypeOK, ListsInv, ResolveEnd
  PROVE  ListsInv'
  <1>1. /\ phase = "resolve" /\ phase' = "prepared" /\ tok = NULL
        /\ UNCHANGED <<op, out, status, tokens, freed, list, parent>>
    BY DEF ResolveEnd, End, vars
  <1>2. PICK s : \E j \in 1 .. Len(out) + 1 : ResolvedTo(s, j) /\ tok = At(s, j)
    BY <1>1 DEF ListsInv, OutputOK
  <1>3. PICK j \in 1 .. Len(out) + 1 : ResolvedTo(s, j) /\ tok = At(s, j)
    BY <1>2
  <1>4. j = Len(out) + 1
    <2>1. j \in Int /\ TokensOK /\ IsOutput(s)
      BY <1>3 DEF ListsInv, ResolvedTo
    <2>2. j \notin 1 .. Len(out) /\ Len(out) \in Nat
      BY <1>1, <1>3, <2>1, AtPlace
    <2> QED
      BY <2>2
  <1>5. ResolvedTo(s, Len(out) + 1)
    BY <1>3, <1>4
  <1>6. ResolvedTo(s, Len(out) + 1)'
    BY <1>1, <1>5 DEF ResolvedTo, IsOutput, IsLocal, At, Paren
  <1>7. OutputOK'
    BY <1>1, <1>6 DEF OutputOK
  <1> QED
    BY <1>1, <1>7 DEF ListsInv, TokensOK, StatusOK, ParseOK, FreeOK
LEMMA NoParentKeeps ==
  ASSUME ListsInv, NoParent
  PROVE  ListsInv'
  <1>1. /\ phase = "resolve" /\ phase' = "crashed"
        /\ UNCHANGED <<op, status, tokens, parent>>
    BY DEF NoParent, vars
  <1> QED
    BY <1>1 DEF ListsInv, TokensOK, StatusOK, ParseOK, FreeOK, OutputOK

LEMMA NothingKeeps ==
  ASSUME ListsInv, UNCHANGED <<vars, memory>>
  PROVE  ListsInv'
  <1>1. UNCHANGED <<op, out, ops, status, tokens, freed, outTop, opTop, tok, list, phase, parent>>
    BY DEF vars, memory
  <1>2. TokensOK' /\ StatusOK' /\ ParseOK' /\ FreeOK'
    BY <1>1 DEF ListsInv, TokensOK, StatusOK, ParseOK, FreeOK, Unresolved, Handled, Paren
  <1>3. OutputOK'
    BY <1>1 DEF ListsInv, OutputOK, TurnedAbove, ResolvedTo, IsOutput, Unresolved, At, Paren, IsLocal
  <1> QED
    BY <1>2, <1>3 DEF ListsInv

LEMMA ParseKeeps ==
  ASSUME TypeOK, ListsInv, Parse
  PROVE  ListsInv'
  BY PassWordKeeps, EndOperandKeeps, MakeOperatorKeeps, LoseTokensKeeps, PushTokenKeeps,
     YieldTokenKeeps, YieldInsideKeeps, CloseParensKeeps, CrashKeeps, FreeAllKeeps,
     TurnAroundKeeps
  DEF Parse

LEMMA LoopsKeep ==
  ASSUME TypeOK, ListsInv, Loops
  PROVE  ListsInv'
  BY FreeTokenKeeps, FreeOutputKeeps, FreeEndKeeps, ReverseTokenKeeps, ReverseEndKeeps,
     ResolveTokenKeeps, NoParentKeeps, ResolveEndKeeps
  DEF Loops

LEMMA ListsStart == InitTokens => ListsInv
  <1> SUFFICES ASSUME InitTokens PROVE ListsInv
    OBVIOUS
  <1> USE DEF InitTokens, Init
  <1>1. TokensOK /\ StatusOK
    BY DEF TokensOK, StatusOK, Scopes
  <1>2. OpTokens(ops) = <<>> /\ Handled = {} /\ Len(<<>>) = 0 /\ DOMAIN <<>> = {}
    BY DEF OpTokens, Handled
  <1>3. IsStack(<<>>, NULL, 0, <<>>) /\ On(0, <<>>) = {}
    BY <1>2 DEF IsStack, Place, On
  <1>4. Carries(<<>>, NULL, <<>>, <<>>) /\ Places(<<>>, {}, {}, {})
    BY <1>2, <1>3 DEF Carries, Places
  <1>5. Stacks(<<>>, NULL, <<>>, NULL, <<>>, {})
    BY <1>2, <1>3, <1>4 DEF Stacks
  <1>6. ParseOK
    BY <1>2, <1>5 DEF ParseOK, Unresolved
  <1> QED
    BY <1>1, <1>6 DEF ListsInv, FreeOK, OutputOK

\* Every token is where the invariant says it is, in every state.
THEOREM TokensStayInPlace == SpecTokens => []ListsInv
  <1>1. TypeOK /\ ListsInv /\ [NextTokens]_<<vars, memory>> => ListsInv'
    BY ParseKeeps, LoopsKeep, NothingKeeps DEF NextTokens, Ended
  <1>2. SpecTokens => []TypeOK
    BY ListsFollowExpression, TypeCorrect, PTL
  <1> QED
    BY <1>1, <1>2, ListsStart, PTL DEF SpecTokens

-----------------------------------------------------------------------------
(* What it says of the lists.                                              *)

\* A list from s[1] on that is linked forward holds the values v.
LEMMA ListHolds ==
  ASSUME tokens \in Seq(Block), NEW n \in Nat, NEW s \in [1 .. n -> DOMAIN tokens],
         \A k \in 1 .. n : tokens[s[k]].next = Place(n, s, k + 1),
         NEW v, DOMAIN v = 1 .. n, Len(v) = n, \A k \in 1 .. n : tokens[s[k]].token = v[k]
  PROVE  Holds(Place(n, s, 1), v) /\ OnList(Place(n, s, 1), n) = On(n, s)
  <1>1. \A k \in Nat \ {0} : Node(Place(n, s, 1), k) = Place(n, s, k)
    BY NothingAtNULL, NodesOfList
  <1>2. \A k \in 1 .. n : k \in Nat \ {0} /\ Place(n, s, k) = s[k] /\ s[k] \in DOMAIN tokens
    BY DEF Place
  <1>3. n + 1 \in Nat \ {0} /\ Place(n, s, n + 1) = NULL
    BY DEF Place
  <1>4. \A k \in 1 .. n : Node(Place(n, s, 1), k) = s[k]
    BY <1>1, <1>2
  <1>5. Holds(Place(n, s, 1), v)
    <2>1. Node(Place(n, s, 1), Len(v) + 1) = NULL
      BY <1>1, <1>3
    <2>2. \A k \in DOMAIN v : /\ Node(Place(n, s, 1), k) \in DOMAIN tokens
                             /\ tokens[Node(Place(n, s, 1), k)].token = v[k]
      BY <1>2, <1>4
    <2> QED
      BY <2>1, <2>2 DEF Holds
  <1>6. OnList(Place(n, s, 1), n) = On(n, s)
    BY <1>4 DEF OnList, On
  <1> QED
    BY <1>5, <1>6

\* A stack holds its values from the top down.
LEMMA StackHolds ==
  ASSUME tokens \in Seq(Block), NEW top, NEW v \in Seq(Values), NEW s, Carries(tokens, top, v, s)
  PROVE  Holds(top, Upended(v)) /\ OnList(top, Len(v)) = On(Len(v), s)
  <1> DEFINE n == Len(v)
             u == [k \in 1 .. n |-> s[n + 1 - k]]
             w == Upended(v)
  <1>1. n \in Nat /\ DOMAIN v = 1 .. n
    BY LenProperties
  <1>2. \A k \in 1 .. n : n + 1 - k \in 1 .. n /\ n + 1 - (n + 1 - k) = k
    BY <1>1
  <1>3. /\ s \in [1 .. n -> DOMAIN tokens] /\ top = Place(n, s, n)
        /\ \A k \in 1 .. n : tokens[s[k]].next = Place(n, s, k - 1) /\ tokens[s[k]].token = v[k]
    BY DEF Carries, IsStack
  <1>4. DOMAIN w = 1 .. n /\ Len(w) = n /\ \A k \in 1 .. n : w[k] = v[n + 1 - k]
    BY <1>1 DEF Upended
  <1>5. u \in [1 .. n -> DOMAIN tokens] /\ \A k \in 1 .. n : u[k] = s[n + 1 - k]
    BY <1>2, <1>3
  <1> HIDE DEF n, u, w
  <1>6. \A k \in 1 .. n : tokens[u[k]].next = Place(n, u, k + 1)
    BY <1>1, <1>2, <1>3, <1>5 DEF Place
  <1>7. \A k \in 1 .. n : tokens[u[k]].token = w[k]
    <2> TAKE k \in 1 .. n
    <2> DEFINE j == n + 1 - k
    <2>1. j \in 1 .. n /\ u[k] = s[j] /\ w[k] = v[j]
      BY <1>2, <1>4, <1>5
    <2> HIDE DEF j
    <2> QED
      BY <1>3, <2>1
  <1>8. top = Place(n, u, 1)
    BY <1>1, <1>3, <1>5 DEF Place
  <1>9. On(n, u) = On(n, s)
    <2>1. \A k \in 1 .. n : s[k] = u[n + 1 - k] /\ n + 1 - k \in 1 .. n
      BY <1>2, <1>5
    <2> QED
      BY <1>2, <1>5, <2>1 DEF On
  <1> QED
    BY <1>1, <1>4, <1>5, <1>6, <1>7, <1>8, <1>9, ListHolds DEF n, w

\* While the text is read the two lists are the two stacks.
THEOREM ListsAlwaysStacks == SpecTokens => []ListsAreStacks
  <1>1. TypeOK /\ ListsInv => ListsAreStacks
    <2> SUFFICES ASSUME TypeOK, ListsInv, phase = "parse"
                 PROVE  /\ Holds(outTop, Upended(out))
                        /\ Holds(opTop, [n \in DOMAIN ops |-> Operator(Upended(ops)[n])])
                        /\ OnList(outTop, Len(out)) \cap OnList(opTop, Len(ops)) = {}
      BY DEF ListsAreStacks
    <2>1. PICK r, s : /\ Carries(tokens, outTop, out, r) /\ Carries(tokens, opTop, OpTokens(ops), s)
                      /\ Places(tokens, On(Len(out), r), On(Len(OpTokens(ops)), s), Handled)
      BY DEF ListsInv, ParseOK, Stacks
    <2>2. /\ out \in Seq(Values) /\ OpTokens(ops) \in Seq(Values) /\ tokens \in Seq(Block)
          /\ Len(OpTokens(ops)) = Len(ops)
      BY StacksTyped, OpTokensStack DEF ListsInv, TokensOK, TypeOK
    <2>3. Holds(outTop, Upended(out)) /\ OnList(outTop, Len(out)) = On(Len(out), r)
      BY <2>1, <2>2, StackHolds
    <2>4. /\ Holds(opTop, Upended(OpTokens(ops)))
          /\ OnList(opTop, Len(ops)) = On(Len(ops), s)
      BY <2>1, <2>2, StackHolds
    <2>5. Upended(OpTokens(ops)) = [n \in DOMAIN ops |-> Operator(Upended(ops)[n])]
      <3>1. DOMAIN OpTokens(ops) = 1 .. Len(ops) /\ DOMAIN ops = 1 .. Len(ops) /\ Len(ops) \in Nat
        BY LenProperties DEF OpTokens, TypeOK
      <3>2. \A n \in 1 .. Len(ops) :
              /\ Len(ops) + 1 - n \in 1 .. Len(ops)
              /\ OpTokens(ops)[Len(ops) + 1 - n] = Operator(ops[Len(ops) + 1 - n])
        BY <3>1 DEF OpTokens
      <3> QED
        BY <2>2, <3>1, <3>2 DEF Upended
    <2> QED
      BY <2>1, <2>2, <2>3, <2>4, <2>5 DEF Places
  <1>2. SpecTokens => []TypeOK
    BY ListsFollowExpression, TypeCorrect, PTL
  <1> QED
    BY <1>1, <1>2, TokensStayInPlace, PTL

\* The argument gets the output, and its local names the scope of the label.
THEOREM OutputIsPrepared == SpecTokens => []PreparesList
  <1>1. TypeOK /\ ListsInv => PreparesList
    <2> SUFFICES ASSUME TypeOK, ListsInv, phase = "prepared"
                 PROVE  /\ Holds(list, out)
                        /\ \A a \in OnList(list, Len(out)) :
                              tokens[a].scope = IF IsLocal(a) THEN parent ELSE NoScope
      BY DEF PreparesList
    <2>1. PICK s : ResolvedTo(s, Len(out) + 1)
      BY DEF ListsInv, OutputOK
    <2>2. Len(out) \in Nat /\ DOMAIN out = 1 .. Len(out) /\ tokens \in Seq(Block)
      BY LenProperties DEF ListsInv, TokensOK, TypeOK
    <2>3. Holds(list, out) /\ OnList(list, Len(out)) = On(Len(out), s)
      BY <2>1, <2>2, ListHolds DEF ResolvedTo, IsOutput, At
    <2>4. \A k \in 1 .. Len(out) : k < Len(out) + 1
      BY <2>2
    <2>5. \A a \in On(Len(out), s) : tokens[a].scope = IF IsLocal(a) THEN parent ELSE NoScope
      BY <2>1, <2>4 DEF ResolvedTo, On
    <2> QED
      BY <2>3, <2>5
  <1>2. SpecTokens => []TypeOK
    BY ListsFollowExpression, TypeCorrect, PTL
  <1> QED
    BY <1>1, <1>2, TokensStayInPlace, PTL

\* What is at the top of a stack has not been put aside.
LEMMA TopIsLeft ==
  ASSUME NEW t, NULL \notin DOMAIN t,
         NEW top1, NEW v \in Seq(Values), NEW top2, NEW w \in Seq(Values),
         NEW rest, Stacks(t, top1, v, top2, w, rest)
  PROVE  top1 \in (DOMAIN t \cup {NULL}) \ rest
  <1>1. top1 = NULL <=> v = <<>>
    BY StackTop
  <1>2. ASSUME v # <<>>
        PROVE  top1 \in DOMAIN t \ rest
    <2>1. PICK n \in Nat : Len(v) = n + 1
      <3>1. Len(v) - 1 \in Nat /\ Len(v) = (Len(v) - 1) + 1
        BY <1>2, LenProperties, EmptySeq
      <3> QED
        BY <3>1
    <2>2. PICK r, s : IsStack(t, top1, n + 1, r) /\ Places(t, On(n + 1, r), On(Len(w), s), rest)
      BY <2>1 DEF Stacks, Carries
    <2> QED
      BY <2>2 DEF IsStack, Places, Place, On
  <1>3. rest \subseteq DOMAIN t
    BY DEF Stacks, Places
  <1> QED
    BY <1>1, <1>2, <1>3

\* Nothing is freed twice, and only parentheses are never freed or handed on.
THEOREM OnlyParensAreLost == SpecTokens => []LosesOnlyParens
  <1>1. TypeOK /\ ListsInv => LosesOnlyParens
    <2> SUFFICES ASSUME TypeOK, ListsInv PROVE LosesOnlyParens
      OBVIOUS
    <2>1. NULL \notin DOMAIN tokens /\ out \in Seq(Values) /\ <<>> \in Seq(Values)
      BY NothingAtNULL, TokenValues DEF ListsInv, TokensOK, TypeOK
    <2>2. ASSUME Freeing PROVE tok \in (DOMAIN tokens \cup {NULL}) \ freed
      <3>1. CASE phase = "free operators"
        <4>1. PICK p \in Seq(Values) : Stacks(tokens, outTop, out, tok, p, freed)
          BY <3>1 DEF ListsInv, FreeOK
        <4>2. Stacks(tokens, tok, p, outTop, out, freed)
          BY <4>1, StacksSwapped
        <4> QED
          BY <2>1, <4>2, TopIsLeft
      <3>2. CASE phase = "free output"
        <4>1. PICK o \in Seq(Values) : Stacks(tokens, tok, o, NULL, <<>>, freed)
          BY <3>2 DEF ListsInv, FreeOK
        <4> QED
          BY <2>1, <4>1, TopIsLeft
      <3> QED
        BY <2>2, <3>1, <3>2 DEF Freeing
    <2>3. ASSUME phase = "failed", status = "UNMATCHED_PARENTHESIS"
          PROVE  \A a \in DOMAIN tokens \ freed : Paren(a)
      BY <2>3 DEF ListsInv, FreeOK
    <2>4. ASSUME phase = "prepared"
          PROVE  freed = {} /\ \A a \in DOMAIN tokens \ OnList(list, Len(out)) : Paren(a)
      <3>1. PICK s : ResolvedTo(s, Len(out) + 1)
        BY <2>4 DEF ListsInv, OutputOK
      <3>2. Len(out) \in Nat /\ DOMAIN out = 1 .. Len(out) /\ tokens \in Seq(Block)
        BY LenProperties DEF ListsInv, TokensOK, TypeOK
      <3>3. OnList(list, Len(out)) = On(Len(out), s)
        BY <3>1, <3>2, ListHolds DEF ResolvedTo, IsOutput, At
      <3> QED
        BY <3>1, <3>3 DEF ResolvedTo, IsOutput
    <2> QED
      BY <2>2, <2>3, <2>4 DEF LosesOnlyParens
  <1>2. SpecTokens => []TypeOK
    BY ListsFollowExpression, TypeCorrect, PTL
  <1> QED
    BY <1>1, <1>2, TokensStayInPlace, PTL
=============================================================================
