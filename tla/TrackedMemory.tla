---------------------------- MODULE TrackedMemory ----------------------------
(***************************************************************************)
(* What smem promises: a set of tracked blocks.  A tracked block can be    *)
(* freed or moved, once; asking that of any other pointer ends the         *)
(* program; and when the program ends through die(), or calls release(),   *)
(* every tracked block is freed, each one once.                            *)
(***************************************************************************)
CONSTANTS
    Blocks,   \* addresses malloc can return
    NULL

VARIABLES
    heap,     \* the blocks that are allocated, by whoever
    tracked,  \* those of them that smem frees at the end
    call,     \* the sfree or srealloc being served
    status

vars == <<heap, tracked, call, status>>

Calls  == [op : {"sfree", "srealloc"}, ptr : Blocks]
NoCall == [op |-> "none", ptr |-> NULL]

Init == heap = {} /\ tracked = {} /\ call = NoCall /\ status = "running"

Idle == status = "running" /\ call = NoCall

-----------------------------------------------------------------------------
(* What the callers do.                                                    *)

Malloc == Idle /\ (\E b \in Blocks \ heap : heap' = heap \cup {b})
               /\ UNCHANGED <<tracked, call, status>>
Free   == Idle /\ (\E b \in heap \ tracked : heap' = heap \ {b})
               /\ UNCHANGED <<tracked, call, status>>

Realloc ==
    /\ Idle
    /\ \E a \in heap \ tracked, b \in Blocks \ heap : heap' = (heap \ {a}) \cup {b}
    /\ UNCHANGED <<tracked, call, status>>

Acquire ==
    /\ Idle
    /\ \E b \in Blocks : /\ b \notin tracked
                         /\ heap' = heap \cup {b}
                         /\ tracked' = tracked \cup {b}
    /\ UNCHANGED <<call, status>>

\* No memory for a block, or none to keep track of one.
OutOfMemory ==
    /\ Idle /\ status' = "exiting"
    /\ heap' = heap \/ \E b \in Blocks \ heap : heap' = heap \cup {b}
    /\ UNCHANGED <<tracked, call>>

Call    == Idle /\ call' \in Calls /\ UNCHANGED <<heap, tracked, status>>
Release == Idle /\ status' = "releasing" /\ UNCHANGED <<heap, tracked, call>>
Die     == Idle /\ status' = "exiting" /\ UNCHANGED <<heap, tracked, call>>

-----------------------------------------------------------------------------
(* What smem does.                                                         *)

\* The block of the call is exchanged for those in new (none, or one).
Exchange(new) ==
    /\ heap' = (heap \ {call.ptr}) \cup new
    /\ tracked' = (tracked \ {call.ptr}) \cup new
    /\ call' = NoCall /\ status' = status

Serve ==
    /\ status = "running" /\ call.ptr \in tracked
    /\ \/ call.op = "sfree" /\ Exchange({})
       \/ call.op = "srealloc" /\ \E b \in (Blocks \ heap) \cup {call.ptr} : Exchange({b})

\* The pointer is not tracked, or there is no memory to move the block.
Refuse ==
    /\ status = "running" /\ call # NoCall
    /\ call.ptr \notin tracked \/ call.op = "srealloc"
    /\ status' = "exiting" /\ call' = NoCall
    /\ UNCHANGED <<heap, tracked>>

Releasing == status \in {"releasing", "exiting"}

ReleaseBlock ==
    /\ Releasing
    /\ \E b \in tracked : heap' = heap \ {b} /\ tracked' = tracked \ {b}
    /\ UNCHANGED <<call, status>>

Released ==
    /\ Releasing /\ tracked = {}
    /\ status' = IF status = "exiting" THEN "died" ELSE "running"
    /\ UNCHANGED <<heap, tracked, call>>

Callers == Malloc \/ Free \/ Realloc \/ Acquire \/ OutOfMemory \/ Call \/ Release \/ Die
Smem    == Serve \/ Refuse \/ ReleaseBlock \/ Released
Next    == Callers \/ Smem

Spec == Init /\ [][Next]_vars
=============================================================================
