----------------------------- MODULE SmemProofs -----------------------------
(***************************************************************************)
(* For every number of blocks and cells: the loops of smem never read a    *)
(* freed cell, no block is freed twice, and the list implements the set of *)
(* TrackedMemory.                                                          *)
(*                                                                         *)
(* The inductive invariant says that the allocated cells are a doubly      *)
(* linked list: there is a sequence s of n cells, each of them once, whose *)
(* links are the neighbours in s, and the loop variable is at a place of s *)
(* behind which the cells do not hold the block that is looked for.  While *)
(* release frees the cells only the next links are still right, and s      *)
(* loses its first cell in every turn.                                     *)
(***************************************************************************)
EXTENDS SmemList, Integers, TLAPS

\* The k-th cell of the list s of length n, NULL past either end.
At(n, s, k) == IF k \in 1 .. n THEN s[k] ELSE NULL

Chain(n, s) ==
    /\ \A j, k \in 1 .. n : s[j] = s[k] => j = k
    /\ cells = {s[k] : k \in 1 .. n}
    /\ \A k \in 1 .. n : cell[s[k]].next = At(n, s, k + 1)

Ends(n, s) == first = At(n, s, 1) /\ last = At(n, s, n)

BackLinks(n, s) == \A k \in 1 .. n : cell[s[k]].prev = At(n, s, k - 1)

\* find_memory is at the k-th cell.
Searched(n, s, k) ==
    mem = At(n, s, k) /\ \A j \in k + 1 .. n : cell[s[j]].address # call.ptr

Linked(n, s) ==
    /\ Chain(n, s)
    /\ status = "running" => Ends(n, s) /\ BackLinks(n, s)
    /\ Finding => \E k \in 0 .. n : Searched(n, s, k)
    /\ Releasing => mem = At(n, s, 1)
    /\ status = "died" => n = 0

BlocksOK ==
    /\ \A c \in cells : cell[c].address \in heap
    /\ \A c, d \in cells : cell[c].address = cell[d].address => c = d

PhaseOK ==
    /\ status # "running" => call = NoCall
    /\ Idle \/ status = "died" => mem = NULL

ListInv ==
    /\ TypeOK /\ BlocksOK /\ PhaseOK
    /\ \E n \in Nat : \E s \in [1 .. n -> Cells] : Linked(n, s)

-----------------------------------------------------------------------------
(* The types.                                                              *)

\* A call and no call are told apart.
LEMMA NoCallIsNone == NoCall \notin Calls
  BY DEF NoCall, Calls

\* Every step keeps the types.
LEMMA TypeStep ==
  ASSUME TypeOK, [Next]_vars
  PROVE  TypeOK'
  <1> USE NullAssumption DEF TypeOK
  <1>1. CASE UNCHANGED vars
    BY <1>1 DEF vars, list
  <1>2. CASE Malloc \/ Free \/ Realloc
    BY <1>2 DEF Malloc, Free, Realloc, list
  <1>3. CASE Salloc \/ Saquire
    <2>1. PICK b \in Blocks, c \in Cells : Append(c, b) /\ heap' \in SUBSET Blocks
      BY <1>3 DEF Salloc, Saquire
    <2>2. cell' \in [Cells -> Cell]
      BY <2>1 DEF Append, Cell
    <2> QED
      BY <1>3, <2>1, <2>2 DEF Salloc, Saquire, Append
  <1>4. CASE OutOfMemory \/ Die \/ Release
    BY <1>4 DEF OutOfMemory, Die, Release, EnterRelease, list
  <1>5. CASE ReleaseBlock
    BY <1>5 DEF ReleaseBlock, Cell, Blank
  <1>6. CASE Released
    BY <1>6 DEF Released
  <1>7. CASE Call \/ FindNext
    BY <1>7 DEF Call, FindNext, Cell, list
  <1>8. CASE NotFound \/ SreallocFails
    BY <1>8 DEF NotFound, SreallocFails, EnterRelease, list
  <1>9. CASE Sfree
    <2>1. mem \in Cells /\ Unlink(mem) /\ Return
      BY <1>9 DEF Sfree, Found
    <2>2. cell' \in [Cells -> Cell]
      <3>1. \A m \in Cells : NextPast(m, mem) \in Cells \cup {NULL}
                           /\ PrevPast(m, mem) \in Cells \cup {NULL}
        BY <2>1 DEF Cell, NextPast, PrevPast
      <3> QED
        BY <2>1, <3>1 DEF Unlink, Cell, Blank
    <2>3. first' \in Cells \cup {NULL} /\ last' \in Cells \cup {NULL} /\ cells' \in SUBSET Cells
      BY <2>1 DEF Unlink, Cell
    <2>4. heap' \in SUBSET Blocks
      BY <1>9 DEF Sfree
    <2> QED
      BY <2>1, <2>2, <2>3, <2>4 DEF Return
  <1>10. CASE Srealloc
    <2>1. mem \in Cells /\ call.ptr \in Blocks
      BY <1>10 DEF Srealloc, Found, Finding, Calls
    <2>2. PICK b \in (Blocks \ heap) \cup {call.ptr} :
             /\ heap' = (heap \ {call.ptr}) \cup {b}
             /\ cell' = [cell EXCEPT ![mem].address = b]
      BY <1>10 DEF Srealloc
    <2>3. cell' \in [Cells -> Cell] /\ heap' \in SUBSET Blocks
      BY <2>1, <2>2 DEF Cell
    <2> QED
      BY <1>10, <2>3 DEF Srealloc, Return
  <1> QED
    BY <1>1, <1>2, <1>3, <1>4, <1>5, <1>6, <1>7, <1>8, <1>9, <1>10
    DEF Next, Callers, Smem, Ended

-----------------------------------------------------------------------------
(* The list.                                                               *)

\* The first cell is there unless the list is empty.
LEMMA FirstOfList ==
  ASSUME NEW n \in Nat, NEW s \in [1 .. n -> Cells], Ends(n, s)
  PROVE  /\ first = NULL <=> n = 0
         /\ n # 0 => first = s[1] /\ last = s[n] /\ last \in Cells
  BY NullAssumption DEF Ends, At

\* saquire makes a list with one more cell of a list.
LEMMA AppendLinks ==
  ASSUME TypeOK, NEW n \in Nat, NEW s \in [1 .. n -> Cells],
         Chain(n, s), Ends(n, s), BackLinks(n, s),
         NEW c \in Cells \ cells, NEW b \in Blocks, Append(c, b)
  PROVE  \E t \in [1 .. n + 1 -> Cells] :
            Chain(n + 1, t)' /\ Ends(n + 1, t)' /\ BackLinks(n + 1, t)'
  <1> DEFINE t == [k \in 1 .. n + 1 |-> IF k = n + 1 THEN c ELSE s[k]]
  <1>1. t \in [1 .. n + 1 -> Cells] /\ t[n + 1] = c /\ \A k \in 1 .. n : t[k] = s[k]
    OBVIOUS
  <1>2. \A k \in 1 .. n : s[k] \in cells /\ s[k] # c
    BY DEF Chain
  <1>3. cell'[c] = [address |-> b, next |-> NULL, prev |-> At(n, s, n)]
    BY FirstOfList, NullAssumption DEF Append, At
  <1>4. \A k \in 1 .. n : cell'[s[k]].next = (IF k = n THEN c ELSE s[k + 1])
    <2> TAKE k \in 1 .. n
    <2>1. CASE k = n
      BY <2>1, <1>2, FirstOfList DEF Append, TypeOK, Cell
    <2>2. CASE k # n
      <3>1. s[k] # last /\ cell[s[k]].next = s[k + 1]
        BY <2>2, FirstOfList DEF Chain, At
      <3> QED
        BY <2>2, <3>1, <1>2 DEF Append
    <2> QED
      BY <2>1, <2>2
  <1>5. \A k \in 1 .. n : cell'[s[k]].prev = At(n, s, k - 1)
    BY <1>2 DEF Append, BackLinks, TypeOK, Cell
  <1>6. Chain(n + 1, t)'
    <2>1. \A j, k \in 1 .. n + 1 : t[j] = t[k] => j = k
      BY <1>1, <1>2 DEF Chain
    <2>2. cells' = {t[k] : k \in 1 .. n + 1}
      <3>1. cells' = {s[k] : k \in 1 .. n} \cup {c}
        BY DEF Append, Chain
      <3> QED
        BY <3>1, <1>1
    <2>3. \A k \in 1 .. n + 1 : cell'[t[k]].next = At(n + 1, t, k + 1)
      <3> TAKE k \in 1 .. n + 1
      <3>1. CASE k = n + 1
        BY <1>1, <1>3, <3>1 DEF At
      <3>2. CASE k # n + 1
        BY <1>1, <1>4, <3>2 DEF At
      <3> QED
        BY <3>1, <3>2
    <2> QED
      BY <2>1, <2>2, <2>3 DEF Chain, At
  <1>7. Ends(n + 1, t)'
    BY <1>1, FirstOfList DEF Append, Ends, At
  <1>8. BackLinks(n + 1, t)'
    <2>1. \A k \in 1 .. n + 1 : cell'[t[k]].prev = At(n + 1, t, k - 1)
      <3> TAKE k \in 1 .. n + 1
      <3>1. CASE k = n + 1
        BY <1>1, <1>3, <3>1 DEF At
      <3>2. CASE k # n + 1
        BY <1>1, <1>5, <3>2 DEF At
      <3> QED
        BY <3>1, <3>2
    <2> QED
      BY <2>1 DEF BackLinks, At
  <1> QED
    BY <1>1, <1>6, <1>7, <1>8

\* sfree makes a list of the same cells but one.
LEMMA UnlinkLinks ==
  ASSUME TypeOK, NEW n \in Nat, NEW s \in [1 .. n -> Cells],
         Chain(n, s), Ends(n, s), BackLinks(n, s),
         NEW k \in 1 .. n, Unlink(s[k])
  PROVE  /\ n - 1 \in Nat
         /\ \E t \in [1 .. n - 1 -> Cells] :
               Chain(n - 1, t)' /\ Ends(n - 1, t)' /\ BackLinks(n - 1, t)'
  <1> DEFINE t == [j \in 1 .. n - 1 |-> IF j < k THEN s[j] ELSE s[j + 1]]
  <1>1. /\ n - 1 \in Nat
        /\ t \in [1 .. n - 1 -> Cells]
        /\ \A j \in 1 .. n - 1 : t[j] = IF j < k THEN s[j] ELSE s[j + 1]
    OBVIOUS
  <1>2. \A j \in 1 .. n : j # k => s[j] # s[k]
    BY DEF Chain
  <1>3. \A j \in 1 .. n : j # k =>
           cell'[s[j]].next = IF j = k - 1 THEN At(n, s, k + 1) ELSE At(n, s, j + 1)
    <2> SUFFICES ASSUME NEW j \in 1 .. n, j # k
                 PROVE  cell'[s[j]].next =
                          IF j = k - 1 THEN At(n, s, k + 1) ELSE At(n, s, j + 1)
      OBVIOUS
    <2>1. cell'[s[j]].next = NextPast(s[j], s[k])
      BY <1>2 DEF Unlink
    <2>2. s[j] = At(n, s, k - 1) <=> j = k - 1
      BY NullAssumption DEF Chain, At
    <2> QED
      BY <2>1, <2>2 DEF NextPast, Chain, BackLinks
  <1>4. \A j \in 1 .. n : j # k =>
           cell'[s[j]].prev = IF j = k + 1 THEN At(n, s, k - 1) ELSE At(n, s, j - 1)
    <2> SUFFICES ASSUME NEW j \in 1 .. n, j # k
                 PROVE  cell'[s[j]].prev =
                          IF j = k + 1 THEN At(n, s, k - 1) ELSE At(n, s, j - 1)
      OBVIOUS
    <2>1. cell'[s[j]].prev = PrevPast(s[j], s[k])
      BY <1>2 DEF Unlink
    <2>2. s[j] = At(n, s, k + 1) <=> j = k + 1
      BY NullAssumption DEF Chain, At
    <2> QED
      BY <2>1, <2>2 DEF PrevPast, Chain, BackLinks
  <1>5. Chain(n - 1, t)'
    <2>1. \A i, j \in 1 .. n - 1 : t[i] = t[j] => i = j
      BY <1>1 DEF Chain
    <2>2. cells' = {t[j] : j \in 1 .. n - 1}
      <3>1. ASSUME NEW j \in 1 .. n - 1
            PROVE  t[j] \in {s[i] : i \in 1 .. n} \ {s[k]}
        <4>1. j \in 1 .. n /\ j + 1 \in 1 .. n
          BY <1>1
        <4>2. CASE j < k
          BY <4>1, <4>2, <1>1, <1>2
        <4>3. CASE ~(j < k)
          BY <4>1, <4>3, <1>1, <1>2
        <4> QED
          BY <4>2, <4>3
      <3>2. ASSUME NEW i \in 1 .. n, i # k
            PROVE  \E j \in 1 .. n - 1 : s[i] = t[j]
        <4>1. CASE i < k
          BY <4>1, <1>1
        <4>2. CASE i > k
          <5>1. i - 1 \in 1 .. n - 1 /\ t[i - 1] = s[i]
            BY <4>2, <1>1
          <5> QED
            BY <5>1
        <4> QED
          BY <3>2, <4>1, <4>2
      <3>3. cells' = {s[i] : i \in 1 .. n} \ {s[k]}
        BY DEF Unlink, Chain
      <3>4. {s[i] : i \in 1 .. n} \ {s[k]} \subseteq {t[j] : j \in 1 .. n - 1}
        BY <3>2
      <3> HIDE DEF t
      <3> QED
        BY <3>1, <3>3, <3>4
    <2>3. ASSUME NEW j \in 1 .. n - 1
          PROVE  cell'[t[j]].next = At(n - 1, t, j + 1)
      <3>1. CASE j < k - 1
        BY <3>1, <1>1, <1>3 DEF At
      <3>2. CASE j = k - 1
        BY <3>2, <1>1, <1>3 DEF At
      <3>3. CASE j >= k
        BY <3>3, <1>1, <1>3 DEF At
      <3> QED
        BY <3>1, <3>2, <3>3
    <2> QED
      BY <2>1, <2>2, <2>3 DEF Chain, At
  <1>6. Ends(n - 1, t)'
    <2>1. first' = IF k = 1 THEN At(n, s, 2) ELSE s[1]
      BY FirstOfList, <1>2 DEF Unlink, Chain
    <2>2. last' = IF k = n THEN At(n, s, n - 1) ELSE s[n]
      BY FirstOfList, <1>2 DEF Unlink, BackLinks
    <2> QED
      BY <2>1, <2>2, <1>1 DEF Ends, At
  <1>7. BackLinks(n - 1, t)'
    <2>1. ASSUME NEW j \in 1 .. n - 1
          PROVE  cell'[t[j]].prev = At(n - 1, t, j - 1)
      <3>1. CASE j < k
        BY <3>1, <1>1, <1>4 DEF At
      <3>2. CASE j = k
        BY <3>2, <1>1, <1>4 DEF At
      <3>3. CASE j > k
        BY <3>3, <1>1, <1>4 DEF At
      <3> QED
        BY <3>1, <3>2, <3>3
    <2> QED
      BY <2>1 DEF BackLinks, At
  <1> QED
    BY <1>1, <1>5, <1>6, <1>7

\* release makes a list of all cells but the first, with the next links.
LEMMA ReleaseLinks ==
  ASSUME TypeOK, NEW n \in Nat, NEW s \in [1 .. n -> Cells],
         Chain(n, s), mem = At(n, s, 1), ReleaseBlock
  PROVE  /\ n - 1 \in Nat
         /\ \E t \in [1 .. n - 1 -> Cells] : Chain(n - 1, t)' /\ mem' = At(n - 1, t, 1)
  <1> DEFINE t == [j \in 1 .. n - 1 |-> s[j + 1]]
  <1>1. n - 1 \in Nat /\ mem = s[1] /\ 1 \in 1 .. n
    BY DEF ReleaseBlock, At
  <1>2. t \in [1 .. n - 1 -> Cells] /\ \A j \in 1 .. n - 1 : t[j] = s[j + 1]
    BY <1>1
  <1>3. \A j \in 1 .. n - 1 : t[j] \in cells /\ t[j] # mem
    BY <1>1, <1>2 DEF Chain
  <1>4. cells' = {t[j] : j \in 1 .. n - 1}
    <2>1. ASSUME NEW i \in 1 .. n, i # 1
          PROVE  \E j \in 1 .. n - 1 : s[i] = t[j]
      <3>1. i - 1 \in 1 .. n - 1 /\ t[i - 1] = s[i]
        BY <2>1, <1>1, <1>2
      <3> QED
        BY <3>1
    <2> QED
      BY <2>1, <1>1, <1>3 DEF ReleaseBlock, Chain
  <1>5. \A j \in 1 .. n - 1 : cell'[t[j]].next = At(n - 1, t, j + 1)
    <2> TAKE j \in 1 .. n - 1
    <2>1. cell'[t[j]] = cell[s[j + 1]]
      BY <1>1, <1>2, <1>3 DEF ReleaseBlock, TypeOK
    <2>2. cell[s[j + 1]].next = At(n, s, j + 2)
      BY <1>1 DEF Chain
    <2> QED
      BY <2>1, <2>2, <1>1, <1>2 DEF At
  <1>6. mem' = At(n - 1, t, 1)
    BY <1>1, <1>2 DEF ReleaseBlock, Chain, At
  <1>7. \A i, j \in 1 .. n - 1 : t[i] = t[j] => i = j
    BY <1>1, <1>2 DEF Chain
  <1> QED
    BY <1>1, <1>2, <1>4, <1>5, <1>6, <1>7 DEF Chain, At

-----------------------------------------------------------------------------
(* The invariant.                                                          *)

\* The loop variable is at an allocated cell.
LEMMA CursorInList ==
  ASSUME ListInv, mem # NULL
  PROVE  mem \in cells
  <1>0. PICK n \in Nat : \E s \in [1 .. n -> Cells] : Linked(n, s)
    BY DEF ListInv
  <1>1. PICK s \in [1 .. n -> Cells] : Linked(n, s)
    BY <1>0
  <1>2. Finding \/ Releasing
    BY DEF ListInv, TypeOK, PhaseOK, Idle, Finding, Releasing
  <1>3. \E k \in 0 .. n + 1 : mem = At(n, s, k)
    BY <1>1, <1>2 DEF Linked, Searched
  <1> QED
    BY <1>1, <1>3 DEF Linked, Chain, At

\* Every tracked block is allocated and is tracked by one cell.
LEMMA BlocksStep ==
  ASSUME ListInv, [Next]_vars
  PROVE  BlocksOK'
  <1> USE DEF ListInv, BlocksOK, TypeOK
  <1>1. CASE UNCHANGED <<heap, cells, cell>>
    BY <1>1
  <1>2. CASE Malloc \/ Free \/ Realloc \/ OutOfMemory
    BY <1>2 DEF Malloc, Free, Realloc, OutOfMemory, Tracked, list
  <1>3. CASE Salloc \/ Saquire
    <2>1. PICK b \in Blocks, c \in Cells \ cells :
             /\ Append(c, b) /\ b \notin Tracked
             /\ heap \subseteq heap' /\ b \in heap'
      BY <1>3 DEF Salloc, Saquire, Tracked
    <2>2. cell'[c].address = b /\ \A m \in cells : cell'[m].address = cell[m].address
      BY <2>1 DEF Append, Cell
    <2>3. cells' = cells \cup {c}
      BY <2>1 DEF Append
    <2> QED
      BY <2>1, <2>2, <2>3 DEF Tracked
  <1>4. CASE ReleaseBlock
    <2>1. mem \in cells
      BY <1>4, CursorInList DEF ReleaseBlock
    <2>2. \A m \in cells' : m \in cells /\ m # mem /\ cell'[m] = cell[m]
      BY <1>4, <2>1 DEF ReleaseBlock
    <2> QED
      BY <1>4, <2>1, <2>2 DEF ReleaseBlock
  <1>5. CASE Sfree
    <2>1. mem \in cells /\ Unlink(mem)
      BY <1>5, CursorInList DEF Sfree, Found
    <2>2. \A m \in cells' : m \in cells /\ m # mem /\ cell'[m].address = cell[m].address
      BY <2>1 DEF Unlink
    <2> QED
      BY <1>5, <2>1, <2>2 DEF Sfree
  <1>6. CASE Srealloc
    <2>1. mem \in cells /\ cell[mem].address = call.ptr
      BY <1>6, CursorInList DEF Srealloc, Found
    <2>2. PICK b \in (Blocks \ heap) \cup {call.ptr} :
             /\ heap' = (heap \ {call.ptr}) \cup {b}
             /\ cell' = [cell EXCEPT ![mem].address = b]
      BY <1>6 DEF Srealloc
    <2>3. /\ cells' = cells /\ cell'[mem].address = b
          /\ \A m \in cells : m # mem => cell'[m] = cell[m]
      BY <1>6, <2>1, <2>2 DEF Srealloc, Cell
    <2> QED
      BY <2>1, <2>2, <2>3
  <1> QED
    BY <1>1, <1>2, <1>3, <1>4, <1>5, <1>6
    DEF Next, Callers, Smem, Ended, vars, list, Die, Release, Call, FindNext,
        NotFound, SreallocFails, Released, EnterRelease

\* A call is answered before its caller goes on.
LEMMA PhaseStep ==
  ASSUME ListInv, [Next]_vars
  PROVE  PhaseOK'
  <1> USE NoCallIsNone DEF ListInv, PhaseOK, TypeOK, Idle
  <1>1. CASE UNCHANGED <<call, mem, status>>
    BY <1>1
  <1>2. CASE OutOfMemory \/ Die \/ Release \/ NotFound \/ SreallocFails
    BY <1>2 DEF OutOfMemory, Die, Release, NotFound, SreallocFails, EnterRelease
  <1>3. CASE Call \/ FindNext
    BY <1>3 DEF Call, FindNext, Finding
  <1>4. CASE Sfree \/ Srealloc
    BY <1>4 DEF Sfree, Srealloc, Return, Found, Finding
  <1>5. CASE ReleaseBlock \/ Released
    BY <1>5 DEF ReleaseBlock, Released, Releasing
  <1> QED
    BY <1>1, <1>2, <1>3, <1>4, <1>5
    DEF Next, Callers, Smem, Ended, vars, Malloc, Free, Realloc, Salloc, Saquire

\* The allocated cells are a list again after every step.
LEMMA LinkedStep ==
  ASSUME ListInv, [Next]_vars
  PROVE  \E n \in Nat : \E s \in [1 .. n -> Cells] : Linked(n, s)'
  <1>0. PICK n \in Nat : \E s \in [1 .. n -> Cells] : Linked(n, s)
    BY DEF ListInv
  <1>1. PICK s \in [1 .. n -> Cells] : Linked(n, s)
    BY <1>0
  <1> USE DEF ListInv
  <1>2. CASE UNCHANGED <<list, call, mem, status>>
    <2>1. Linked(n, s)'
      BY <1>1, <1>2 DEF list, Linked, Chain, Ends, BackLinks, Searched, At, Finding, Releasing
    <2> QED
      BY <2>1
  <1>3. CASE Salloc \/ Saquire
    <2>1. PICK b \in Blocks, c \in Cells \ cells : Append(c, b)
      BY <1>3 DEF Salloc, Saquire, TypeOK
    <2>2. status' = "running" /\ call' = NoCall /\ Ends(n, s) /\ BackLinks(n, s)
      BY <1>1, <1>3 DEF Salloc, Saquire, Idle, Linked
    <2>3. PICK t \in [1 .. n + 1 -> Cells] :
             Chain(n + 1, t)' /\ Ends(n + 1, t)' /\ BackLinks(n + 1, t)'
      BY <1>1, <2>1, <2>2, AppendLinks DEF Linked
    <2>4. Linked(n + 1, t)'
      BY <2>2, <2>3 DEF Linked, Finding, Releasing
    <2> QED
      BY <2>4
  <1>4. CASE OutOfMemory \/ Die \/ Release \/ NotFound \/ SreallocFails
    <2>1. /\ UNCHANGED list /\ mem' = first /\ call' = NoCall
          /\ status = "running" /\ status' \in {"releasing", "exiting"}
      BY <1>4
      DEF OutOfMemory, Die, Release, NotFound, SreallocFails, EnterRelease, Idle, Finding, Found
    <2>2. Linked(n, s)'
      BY <1>1, <2>1 DEF list, Linked, Chain, Ends, At, Finding, Releasing
    <2> QED
      BY <2>2
  <1>5. CASE ReleaseBlock
    <2>1. mem = At(n, s, 1) /\ Chain(n, s)
      BY <1>1, <1>5 DEF Linked, ReleaseBlock
    <2>2. PICK t \in [1 .. n - 1 -> Cells] : Chain(n - 1, t)' /\ mem' = At(n - 1, t, 1)
      BY <1>5, <2>1, ReleaseLinks
    <2>3. n - 1 \in Nat
      BY <1>5, <2>1, ReleaseLinks
    <2>4. Linked(n - 1, t)'
      BY <1>5, <2>2 DEF Linked, At, ReleaseBlock, Releasing, Finding
    <2> QED
      BY <2>3, <2>4
  <1>6. CASE Released
    <2>1. n = 0
      BY <1>1, <1>6, NullAssumption DEF Released, Linked, At
    <2>2. call' = NoCall /\ first' = NULL /\ last' = NULL /\ status' \in {"running", "died"}
      BY <1>6 DEF Released, Releasing, PhaseOK
    <2>3. Linked(n, s)'
      BY <1>1, <1>6, <2>1, <2>2
      DEF Released, Linked, Chain, Ends, BackLinks, At, Finding, Releasing
    <2> QED
      BY <2>3
  <1>7. CASE Call
    <2>1. status = "running" /\ status' = status /\ UNCHANGED list /\ mem' = last
      BY <1>7 DEF Call, Idle
    <2>2. n \in 0 .. n /\ Searched(n, s, n)'
      BY <1>1, <2>1 DEF Linked, Ends, Searched, At, list
    <2>3. Linked(n, s)'
      BY <1>1, <2>1, <2>2 DEF Linked, Chain, Ends, BackLinks, At, Releasing, list
    <2> QED
      BY <2>3
  <1>8. ASSUME Finding, mem # NULL
        PROVE  \E k \in 1 .. n : mem = s[k] /\ \A j \in k + 1 .. n : cell[s[j]].address # call.ptr
    BY <1>1, <1>8 DEF Linked, Searched, At
  <1>9. CASE FindNext
    <2>1. PICK k \in 1 .. n : mem = s[k] /\ \A j \in k + 1 .. n : cell[s[j]].address # call.ptr
      BY <1>8, <1>9 DEF FindNext
    <2>2. /\ status = "running" /\ status' = status /\ UNCHANGED <<call, list>>
          /\ mem' = cell[mem].prev /\ cell[mem].address # call.ptr
      BY <1>9 DEF FindNext, Finding
    <2>3. mem' = At(n, s, k - 1)
      BY <1>1, <2>1, <2>2 DEF Linked, BackLinks
    <2>4. k - 1 \in 0 .. n /\ Searched(n, s, k - 1)'
      BY <2>1, <2>2, <2>3 DEF Searched, At, list
    <2>5. Linked(n, s)'
      BY <1>1, <2>2, <2>4 DEF Linked, Chain, Ends, BackLinks, At, Releasing, list
    <2> QED
      BY <2>5
  <1>10. CASE Sfree
    <2>1. Finding /\ mem # NULL /\ Unlink(mem) /\ Return
      BY <1>10 DEF Sfree, Found
    <2>2. PICK k \in 1 .. n : mem = s[k]
      BY <1>8, <2>1
    <2>3. n - 1 \in Nat /\ \E t \in [1 .. n - 1 -> Cells] :
             Chain(n - 1, t)' /\ Ends(n - 1, t)' /\ BackLinks(n - 1, t)'
      BY <1>1, <2>1, <2>2, UnlinkLinks DEF Linked, Finding
    <2>4. PICK t \in [1 .. n - 1 -> Cells] :
             Chain(n - 1, t)' /\ Ends(n - 1, t)' /\ BackLinks(n - 1, t)'
      BY <2>3
    <2>5. Linked(n - 1, t)'
      BY <2>1, <2>4 DEF Linked, Return, Finding, Releasing
    <2> QED
      BY <2>3, <2>5
  <1>11. CASE Srealloc
    <2>1. Finding /\ mem # NULL /\ Return /\ UNCHANGED <<first, last, cells>>
      BY <1>11 DEF Srealloc, Found
    <2>2. \A c \in Cells : cell'[c].next = cell[c].next /\ cell'[c].prev = cell[c].prev
      BY <1>11 DEF Srealloc, TypeOK, Cell
    <2>3. Linked(n, s)'
      BY <1>1, <2>1, <2>2
      DEF Linked, Chain, Ends, BackLinks, At, Return, Finding, Releasing
    <2> QED
      BY <2>3
  <1> QED
    BY <1>2, <1>3, <1>4, <1>5, <1>6, <1>7, <1>9, <1>10, <1>11
    DEF Next, Callers, Smem, Ended, vars, list, Malloc, Free, Realloc

\* Every reachable state satisfies the invariant.
THEOREM AlwaysAList == Spec => []ListInv
  <1>1. Init => ListInv
    <2> SUFFICES ASSUME Init PROVE ListInv
      OBVIOUS
    <2>1. TypeOK
      BY DEF Init, TypeOK, Cell, Blank
    <2>2. BlocksOK /\ PhaseOK
      BY DEF Init, BlocksOK, PhaseOK
    <2>3. PICK s \in [1 .. 0 -> Cells] : TRUE
      <3>1. [k \in 1 .. 0 |-> NULL] \in [1 .. 0 -> Cells]
        OBVIOUS
      <3> QED
        BY <3>1
    <2>4. Linked(0, s)
      BY DEF Init, Linked, Chain, Ends, BackLinks, At, Finding, Releasing
    <2> QED
      BY <2>1, <2>2, <2>4 DEF ListInv
  <1>2. ListInv /\ [Next]_vars => ListInv'
    BY TypeStep, BlocksStep, PhaseStep, LinkedStep DEF ListInv
  <1> QED
    BY <1>1, <1>2, PTL DEF Spec

\* find_memory and release only read cells that are allocated, and what
\* release and sfree free is allocated.
THEOREM NothingFreedTwice == Spec => []NoUseAfterFree
  <1>1. ListInv => NoUseAfterFree
    BY CursorInList DEF NoUseAfterFree, ListInv, BlocksOK
  <1> QED
    BY <1>1, AlwaysAList, PTL

-----------------------------------------------------------------------------
(* The refinement.                                                         *)

\* What a cell of the list tracks is no longer tracked without it.
LEMMA TrackedWithout ==
  ASSUME ListInv, NEW c \in cells, cells' = cells \ {c},
         \A m \in cells \ {c} : cell'[m].address = cell[m].address
  PROVE  Tracked' = Tracked \ {cell[c].address}
  BY DEF Tracked, ListInv, BlocksOK

\* find_memory reaches the end of the list only when nothing in it matches.
LEMMA NotFoundNotTracked ==
  ASSUME ListInv, NotFound
  PROVE  call.ptr \notin Tracked
  <1>0. PICK n \in Nat : \E s \in [1 .. n -> Cells] : Linked(n, s)
    BY DEF ListInv
  <1>1. PICK s \in [1 .. n -> Cells] : Linked(n, s)
    BY <1>0
  <1>2. \A j \in 1 .. n : cell[s[j]].address # call.ptr
    BY <1>1, NullAssumption DEF NotFound, Linked, Searched, At
  <1> QED
    BY <1>1, <1>2 DEF Tracked, Linked, Chain

\* release ends when no cell is left.
LEMMA ReleasedAll ==
  ASSUME ListInv, Released
  PROVE  Tracked = {}
  <1>0. PICK n \in Nat : \E s \in [1 .. n -> Cells] : Linked(n, s)
    BY DEF ListInv
  <1>1. PICK s \in [1 .. n -> Cells] : Linked(n, s)
    BY <1>0
  <1>2. n = 0
    BY <1>1, NullAssumption DEF Released, Linked, At
  <1> QED
    BY <1>1, <1>2 DEF Tracked, Linked, Chain

\* A step of the list is a step of the set, or none.
LEMMA StepRefines ==
  ASSUME ListInv, [Next]_vars
  PROVE  [Abstract!Next]_(Abstract!vars)
  <1> USE DEF ListInv, TypeOK
  <1>1. CASE UNCHANGED vars
    BY <1>1 DEF vars, Abstract!vars, Tracked
  <1>2. CASE Malloc
    BY <1>2
    DEF Malloc, Idle, list, Tracked, NoCall,
        Abstract!Next, Abstract!Callers, Abstract!Malloc, Abstract!Idle, Abstract!NoCall
  <1>3. CASE Free \/ Realloc
    BY <1>3
    DEF Free, Realloc, Idle, list, Tracked, NoCall, Abstract!Next, Abstract!Callers,
        Abstract!Free, Abstract!Realloc, Abstract!Idle, Abstract!NoCall
  <1>4. CASE Salloc \/ Saquire
    <2>1. PICK b \in Blocks, c \in Cells \ cells :
             Append(c, b) /\ b \notin Tracked /\ heap' = heap \cup {b}
      BY <1>4 DEF Salloc, Saquire, BlocksOK, Tracked
    <2>2. cell'[c].address = b /\ \A m \in cells : cell'[m].address = cell[m].address
      BY <2>1 DEF Append, Cell
    <2>3. cells' = cells \cup {c}
      BY <2>1 DEF Append
    <2>4. Tracked' = Tracked \cup {b}
      BY <2>2, <2>3 DEF Tracked
    <2>5. Abstract!Acquire
      BY <1>4, <2>1, <2>4
      DEF Salloc, Saquire, Idle, NoCall, Abstract!Acquire, Abstract!Idle, Abstract!NoCall
    <2> QED
      BY <2>5 DEF Abstract!Next, Abstract!Callers
  <1>5. CASE OutOfMemory
    BY <1>5
    DEF OutOfMemory, EnterRelease, Idle, list, Tracked, NoCall,
        Abstract!Next, Abstract!Callers, Abstract!OutOfMemory, Abstract!Idle, Abstract!NoCall
  <1>6. CASE Die
    BY <1>6
    DEF Die, EnterRelease, Idle, list, Tracked, NoCall,
        Abstract!Next, Abstract!Callers, Abstract!Die, Abstract!Idle, Abstract!NoCall
  <1>7. CASE Release
    BY <1>7
    DEF Release, EnterRelease, Idle, list, Tracked, NoCall,
        Abstract!Next, Abstract!Callers, Abstract!Release, Abstract!Idle, Abstract!NoCall
  <1>8. CASE Call
    BY <1>8
    DEF Call, Idle, list, Tracked, NoCall, Calls, Abstract!Calls,
        Abstract!Next, Abstract!Callers, Abstract!Call, Abstract!Idle, Abstract!NoCall
  <1>9. CASE FindNext
    BY <1>9 DEF FindNext, list, Tracked, Abstract!vars
  <1>10. CASE NotFound \/ SreallocFails
    <2>1. call # NoCall /\ (call.ptr \notin Tracked \/ call.op = "srealloc")
      BY <1>10, NotFoundNotTracked DEF NotFound, SreallocFails, Found, Finding
    <2>2. Abstract!Refuse
      BY <1>10, <2>1
      DEF NotFound, SreallocFails, EnterRelease, Found, Finding, list, Tracked, NoCall,
          Abstract!Refuse, Abstract!NoCall
    <2> QED
      BY <2>2 DEF Abstract!Next, Abstract!Smem
  <1>11. CASE Sfree
    <2>1. mem \in cells /\ cell[mem].address = call.ptr /\ Unlink(mem)
      BY <1>11, CursorInList DEF Sfree, Found
    <2>2. Tracked' = Tracked \ {call.ptr}
      BY <2>1, TrackedWithout DEF Unlink
    <2>3. Abstract!Serve
      BY <1>11, <2>1, <2>2
      DEF Sfree, Found, Finding, Return, Tracked, NoCall,
          Abstract!Serve, Abstract!Exchange, Abstract!NoCall
    <2> QED
      BY <2>3 DEF Abstract!Next, Abstract!Smem
  <1>12. CASE Srealloc
    <2>1. mem \in cells /\ cell[mem].address = call.ptr
      BY <1>12, CursorInList DEF Srealloc, Found
    <2>2. PICK b \in (Blocks \ heap) \cup {call.ptr} :
             /\ heap' = (heap \ {call.ptr}) \cup {b}
             /\ cell' = [cell EXCEPT ![mem].address = b]
      BY <1>12 DEF Srealloc
    <2>3. /\ cells' = cells /\ cell'[mem].address = b
          /\ \A m \in cells : m # mem => cell'[m] = cell[m]
      BY <1>12, <2>1, <2>2 DEF Srealloc, Cell
    <2>4. Tracked' = (Tracked \ {call.ptr}) \cup {b}
      BY <2>1, <2>3 DEF Tracked, BlocksOK
    <2>5. status = "running" /\ call.op = "srealloc" /\ Return
      BY <1>12 DEF Srealloc, Found, Finding
    <2>6. call.ptr \in Tracked
      BY <2>1 DEF Tracked
    <2>7. Abstract!Exchange({b})
      BY <2>2, <2>4, <2>5 DEF Return, NoCall, Abstract!Exchange, Abstract!NoCall
    <2>8. Abstract!Serve
      BY <2>2, <2>5, <2>6, <2>7 DEF Abstract!Serve
    <2> QED
      BY <2>8 DEF Abstract!Next, Abstract!Smem
  <1>13. CASE ReleaseBlock
    <2>1. mem \in cells
      BY <1>13, CursorInList DEF ReleaseBlock
    <2>2. Tracked' = Tracked \ {cell[mem].address}
      BY <1>13, <2>1, TrackedWithout DEF ReleaseBlock
    <2>3. Abstract!ReleaseBlock
      BY <1>13, <2>1, <2>2
      DEF ReleaseBlock, Releasing, Tracked, Abstract!ReleaseBlock, Abstract!Releasing
    <2> QED
      BY <2>3 DEF Abstract!Next, Abstract!Smem
  <1>14. CASE Released
    <2>1. Abstract!Released
      BY <1>14, ReleasedAll
      DEF Released, Releasing, Tracked, Abstract!Released, Abstract!Releasing
    <2> QED
      BY <2>1 DEF Abstract!Next, Abstract!Smem
  <1> QED
    BY <1>1, <1>2, <1>3, <1>4, <1>5, <1>6, <1>7, <1>8, <1>9, <1>10, <1>11, <1>12,
       <1>13, <1>14
    DEF Next, Callers, Smem, Ended

\* The list of smem.c implements the set of tracked blocks: a pointer is found
\* exactly when it is tracked, and release frees every tracked block once.
THEOREM ListImplementsSet == Spec => ImplementsTracked
  <1>1. Init => Abstract!Init
    BY DEF Init, Tracked, NoCall, Abstract!Init, Abstract!NoCall
  <1>2. ListInv /\ [Next]_vars => [Abstract!Next]_(Abstract!vars)
    BY StepRefines
  <1> QED
    BY <1>1, <1>2, AlwaysAList, PTL DEF Spec, ImplementsTracked, Abstract!Spec
=============================================================================
