--------------------------- MODULE InlineAssembly ---------------------------
(***************************************************************************)
(* What assembling promises: one list of statements, with every included   *)
(* file written out in place of its .INCLUDE, is carried out from first to *)
(* last.  There are no files, lines, buffers or data entries here, only    *)
(* the symbols, the location, and the addresses of the bytes laid down.    *)
(***************************************************************************)
EXTENDS Integers, Sequences

CONSTANT Space   \* the number of addresses

VARIABLES
    source,      \* the whole list of statements
    todo,        \* those not yet carried out
    outcome,     \* "running", "assembled" or "stopped"
    names,       \* the symbols and their values, in the order of definition
    scope,       \* the last global label (<<>>: none)
    location,    \* where the next byte goes
    image        \* the addresses of the bytes laid down, in order

vars == <<source, todo, outcome, names, scope, location, image>>

Init ==
    /\ todo = source
    /\ outcome = "running"
    /\ names = <<>> /\ scope = <<>>
    /\ location = 0 /\ image = <<>>

Now(op) == outcome = "running" /\ todo # <<>> /\ Head(todo).op = op
Done    == todo' = Tail(todo)

FullName(l) == IF l.local THEN scope \o l.path ELSE l.path
Usable(l)   == /\ l.local => scope # <<>>
               /\ \A n \in DOMAIN names : names[n].label # FullName(l)

\* A label has the value of the current location.
Define ==
    /\ Now("label") /\ Done
    /\ LET l == Head(todo).label
       IN  /\ Usable(l)
           /\ names' = Append(names, [label |-> FullName(l), value |-> location])
           /\ scope' = IF l.local THEN scope ELSE l.path
    /\ UNCHANGED <<source, outcome, location, image>>

\* Unless .EQU on the same line gives it another.
Equate ==
    /\ Now("equ") /\ Done
    /\ names' = [names EXCEPT ![Len(names)].value = Head(todo).value % Space]
    /\ UNCHANGED <<source, outcome, scope, location, image>>

\* Bytes go to consecutive addresses, some or all of a statement's at a time.
Place ==
    /\ Now("bytes")
    /\ \E m \in 0 .. Head(todo).count :
          /\ image' = image \o [j \in 1 .. m |-> (location + j - 1) % Space]
          /\ location' = (location + m) % Space
          /\ todo' = IF m = Head(todo).count THEN Tail(todo)
                     ELSE <<[Head(todo) EXCEPT !.count = @ - m]>> \o Tail(todo)
    /\ UNCHANGED <<source, outcome, names, scope>>

SetOrigin ==
    /\ Now("origin") /\ Done
    /\ location' = Head(todo).value % Space
    /\ UNCHANGED <<source, outcome, names, scope, image>>

Reject ==
    /\ Now("error") \/ (Now("label") /\ ~Usable(Head(todo).label))
    /\ outcome' = "stopped"
    /\ UNCHANGED <<source, todo, names, scope, location, image>>

Complete ==
    /\ outcome = "running" /\ todo = <<>>
    /\ outcome' = "assembled"
    /\ UNCHANGED <<source, todo, names, scope, location, image>>

Next == Define \/ Equate \/ Place \/ SetOrigin \/ Reject \/ Complete

Spec == Init /\ [][Next]_vars
=============================================================================
