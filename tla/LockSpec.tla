------------------------------ MODULE LockSpec ------------------------------
(***************************************************************************)
(* What a HAL mutex promises its callers: at most one thread owns it, it   *)
(* changes hands only through the free state, and only the owner frees it. *)
(***************************************************************************)

CONSTANTS
    Threads,    \* the threads that may call the mutex
    NoThread    \* the owner of a free mutex

VARIABLE owner

Init == owner = NoThread

Acquire(t) ==
    /\ owner = NoThread
    /\ owner' = t

Release(t) ==
    /\ owner = t
    /\ owner' = NoThread

Next == \E t \in Threads : Acquire(t) \/ Release(t)

Spec == Init /\ [][Next]_owner
=============================================================================
