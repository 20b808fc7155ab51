------------------------------ MODULE SmemList ------------------------------
(***************************************************************************)
(* smem.c: the doubly linked list alloced_mem of the blocks to be freed    *)
(* when the program ends.  One step is one turn of a loop: find_memory     *)
(* follows prev from the last cell, release follows next from the first    *)
(* and frees on the way.                                                   *)
(*                                                                         *)
(* malloc gives any block or cell that is not allocated, or NULL at any    *)
(* time.  The callers are free to do anything but to free a block behind   *)
(* smem's back or to make it track a block that is not theirs to give      *)
(* away: saquire's callers pass the string they have just duplicated.      *)
(***************************************************************************)
CONSTANTS
    Blocks,   \* addresses malloc can return to the callers
    Cells,    \* addresses it can return for a struct alloced
    NULL

ASSUME NullAssumption == NULL \notin Blocks \cup Cells

VARIABLES
    heap,     \* the blocks that are allocated
    first,    \* alloced_mem.first
    last,     \* alloced_mem.last
    cells,    \* the cells that are allocated
    cell,     \* their contents
    call,     \* the sfree or srealloc that is under way
    mem,      \* loop variable of find_memory, or of release
    status    \* "running", in release(), in release() from die(), "died"

vars == <<heap, first, last, cells, cell, call, mem, status>>
list == <<first, last, cells, cell>>

Cell  == [address : Blocks \cup {NULL}, next : Cells \cup {NULL}, prev : Cells \cup {NULL}]
Blank == [address |-> NULL, next |-> NULL, prev |-> NULL]   \* not allocated

Calls  == [op : {"sfree", "srealloc"}, ptr : Blocks]
NoCall == [op |-> "none", ptr |-> NULL]

Init ==
    /\ heap = {} /\ first = NULL /\ last = NULL
    /\ cells = {} /\ cell = [n \in Cells |-> Blank]
    /\ call = NoCall /\ mem = NULL /\ status = "running"

Tracked == {cell[n].address : n \in cells}
Idle    == status = "running" /\ call = NoCall

-----------------------------------------------------------------------------
(* What the callers do with malloc, free and realloc themselves.           *)

Malloc ==
    /\ Idle
    /\ \E b \in Blocks \ heap : heap' = heap \cup {b}
    /\ UNCHANGED <<call, mem, status, list>>

Free ==
    /\ Idle
    /\ \E b \in heap \ Tracked : heap' = heap \ {b}
    /\ UNCHANGED <<call, mem, status, list>>

Realloc ==
    /\ Idle
    /\ \E a \in heap \ Tracked, b \in Blocks \ heap : heap' = (heap \ {a}) \cup {b}
    /\ UNCHANGED <<call, mem, status, list>>

-----------------------------------------------------------------------------
(* salloc and saquire.                                                     *)

AppendBug(n, b) ==
    /\ cells' = cells \cup {n}
    /\ cell' = [cell EXCEPT ![n] = [address |-> b, next |-> NULL, prev |-> NULL]]
    /\ first' = IF first = NULL THEN n ELSE first
    /\ last' = n

\* The list with a new cell n for block b at its end.
Append(n, b) ==
    /\ cells' = cells \cup {n}
    /\ cell' = [m \in Cells |->
                  IF m = n THEN [address |-> b, next |-> NULL,
                                 prev |-> IF first = NULL THEN NULL ELSE last]
                  ELSE IF m = last /\ first # NULL THEN [cell[m] EXCEPT !.next = n]
                  ELSE cell[m]]
    /\ first' = IF first = NULL THEN n ELSE first
    /\ last' = n

Salloc ==
    /\ Idle
    /\ \E b \in Blocks \ heap, n \in Cells \ cells : heap' = heap \cup {b} /\ Append(n, b)
    /\ UNCHANGED <<call, mem, status>>

Saquire ==
    /\ Idle
    /\ \E b \in heap \ Tracked, n \in Cells \ cells : Append(n, b)
    /\ UNCHANGED <<heap, call, mem, status>>

-----------------------------------------------------------------------------
(* die and release.                                                        *)

EnterRelease(why) == status' = why /\ mem' = first /\ call' = NoCall

\* malloc returns NULL in salloc, or in saquire for the cell; in the latter
\* case nothing will free the block.
OutOfMemory ==
    /\ Idle
    /\ heap' = heap \/ \E b \in Blocks \ heap : heap' = heap \cup {b}
    /\ EnterRelease("exiting")
    /\ UNCHANGED list

Die     == Idle /\ EnterRelease("exiting") /\ UNCHANGED <<heap, list>>
Release == Idle /\ EnterRelease("releasing") /\ UNCHANGED <<heap, list>>

Releasing == status \in {"releasing", "exiting"}

ReleaseBlock ==
    /\ Releasing /\ mem # NULL
    /\ mem' = cell[mem].next
    /\ heap' = heap \ {cell[mem].address}
    /\ cells' = cells \ {mem}
    /\ cell' = [cell EXCEPT ![mem] = Blank]
    /\ UNCHANGED <<first, last, call, status>>

Released ==
    /\ Releasing /\ mem = NULL
    /\ first' = NULL /\ last' = NULL
    /\ status' = IF status = "exiting" THEN "died" ELSE "running"
    /\ UNCHANGED <<heap, cells, cell, call, mem>>

-----------------------------------------------------------------------------
(* sfree and srealloc, both through find_memory.  (sfree of NULL returns   *)
(* at once.)                                                               *)

Call ==
    /\ Idle
    /\ call' \in Calls
    /\ mem' = last
    /\ UNCHANGED <<heap, status, list>>

Finding == status = "running" /\ call # NoCall
Found   == Finding /\ mem # NULL /\ cell[mem].address = call.ptr

FindNext ==
    /\ Finding /\ mem # NULL /\ cell[mem].address # call.ptr
    /\ mem' = cell[mem].prev
    /\ UNCHANGED <<heap, call, status, list>>

NotFound ==
    /\ Finding /\ mem = NULL
    /\ EnterRelease("exiting")
    /\ UNCHANGED <<heap, list>>

Return == call' = NoCall /\ mem' = NULL /\ status' = status

\* The links of m once its neighbour a is gone.
NextPast(m, a) == IF m = cell[a].prev THEN cell[a].next ELSE cell[m].next
PrevPast(m, a) == IF m = cell[a].next THEN cell[a].prev ELSE cell[m].prev

UnlinkBug1(a) ==
    /\ cells' = cells \ {a}
    /\ cell' = [m \in Cells |-> IF m = a THEN Blank
                               ELSE [address |-> cell[m].address,
                                     next |-> NextPast(m, a), prev |-> PrevPast(m, a)]]
    /\ first' = IF first = a THEN cell[a].next ELSE first
    /\ last' = last
UnlinkBug2(a) ==
    /\ cells' = cells \ {a}
    /\ cell' = [m \in Cells |-> IF m = a THEN Blank
                               ELSE [cell[m] EXCEPT !.next = NextPast(m, a)]]
    /\ first' = IF first = a THEN cell[a].next ELSE first
    /\ last' = IF last = a THEN cell[a].prev ELSE last

\* The list without cell a.
Unlink(a) ==
    /\ cells' = cells \ {a}
    /\ cell' = [m \in Cells |-> IF m = a THEN Blank
                               ELSE [address |-> cell[m].address,
                                     next |-> NextPast(m, a), prev |-> PrevPast(m, a)]]
    /\ first' = IF first = a THEN cell[a].next ELSE first
    /\ last' = IF last = a THEN cell[a].prev ELSE last

Sfree ==
    /\ Found /\ call.op = "sfree"
    /\ heap' = heap \ {cell[mem].address}
    /\ Unlink(mem)
    /\ Return

\* realloc leaves the block where it is or moves it to another.
Srealloc ==
    /\ Found /\ call.op = "srealloc"
    /\ \E b \in (Blocks \ heap) \cup {call.ptr} :
          /\ heap' = (heap \ {call.ptr}) \cup {b}
          /\ cell' = [cell EXCEPT ![mem].address = b]
    /\ Return
    /\ UNCHANGED <<first, last, cells>>

SreallocFails ==
    /\ Found /\ call.op = "srealloc"
    /\ EnterRelease("exiting")
    /\ UNCHANGED <<heap, list>>

\* The process has exited.
Ended == status = "died" /\ UNCHANGED vars

-----------------------------------------------------------------------------
Callers == Malloc \/ Free \/ Realloc \/ Salloc \/ Saquire \/ OutOfMemory \/ Die \/ Release \/ Call
Smem    == FindNext \/ NotFound \/ Sfree \/ Srealloc \/ SreallocFails
              \/ ReleaseBlock \/ Released
Next    == Callers \/ Smem \/ Ended

\* smem runs in its callers' thread, which may stop calling but not inside it.
Spec == Init /\ [][Next]_vars /\ WF_vars(Smem)

-----------------------------------------------------------------------------
TypeOK ==
    /\ heap \in SUBSET Blocks
    /\ first \in Cells \cup {NULL} /\ last \in Cells \cup {NULL}
    /\ cells \in SUBSET Cells
    /\ cell \in [Cells -> Cell]
    /\ call \in Calls \cup {NoCall}
    /\ mem \in Cells \cup {NULL}
    /\ status \in {"running", "releasing", "exiting", "died"}

\* No loop of smem reads a cell after it was freed, and no block is freed
\* twice: the cell under the loop variable is allocated and so is its block.
NoUseAfterFree ==
    mem # NULL => mem \in cells /\ cell[mem].address \in heap

\* The list is the set of tracked blocks of TrackedMemory: find_memory finds
\* a block exactly when it is tracked, and release frees all of them.
Abstract == INSTANCE TrackedMemory WITH tracked <- Tracked

ImplementsTracked == Abstract!Spec

\* Neither find_memory nor release goes round in circles, whatever the order
\* in which cells were linked, unlinked and allocated again.
LoopsEnd == /\ Finding ~> ~Finding
            /\ Releasing ~> ~Releasing
=============================================================================
