--------------------------- MODULE PerThreadSpec ---------------------------
(***************************************************************************)
(* What per-thread data promises: every thread object has one slot of its  *)
(* own, the slot of a thread that never ran is empty, a block that one     *)
(* thread was given is never in the slot of another, and a slot changes    *)
(* one at a time.                                                          *)
(***************************************************************************)
CONSTANTS
    Objs,       \* thread objects
    Blocks,     \* addresses of per-thread data
    Null,       \* the null pointer, a value a slot may hold
    Empty       \* a slot nothing was stored in

VARIABLES
    live,       \* the thread objects that exist
    slot        \* slot[o]: the data of o

vars == <<live, slot>>

Init ==
    /\ live = {}
    /\ slot = [o \in Objs |-> Empty]

Begin(o) ==
    /\ o \notin live
    /\ slot[o] = Empty
    /\ live' = live \cup {o}
    /\ UNCHANGED slot

(* A thread object goes away; its slot is empty by then. *)
End(o) ==
    /\ o \in live
    /\ slot[o] = Empty
    /\ live' = live \ {o}
    /\ UNCHANGED slot

Store(o, v) ==
    /\ o \in live
    /\ v \in Blocks => \A p \in Objs : slot[p] # v
    /\ slot' = [slot EXCEPT ![o] = v]
    /\ UNCHANGED live

Next ==
    \E o \in Objs :
        Begin(o) \/ End(o) \/ \E v \in Blocks \cup {Null, Empty} : Store(o, v)

Spec == Init /\ [][Next]_vars
=============================================================================
