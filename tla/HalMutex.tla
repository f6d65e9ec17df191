------------------------------ MODULE HalMutex ------------------------------
(***************************************************************************)
(* The spin lock of the hardware abstraction layer, HalKernel/Mutex.c and  *)
(* HalUser/Mutex.c.  Both are a compare-and-swap loop on lSpinLock.  The   *)
(* user build also stamps dwThreadId with the id of the owner, and refuses *)
(* (returns false) a second MUTEX_Lock of the thread it finds there.  The  *)
(* kernel build has no owner: a second MUTEX_Lock of the same thread spins *)
(* on itself.                                                              *)
(*                                                                         *)
(* Every interlocked instruction and every access to dwThreadId is a step  *)
(* of its own, so threads interleave between them.  A failed               *)
(* compare-and-swap changes nothing and is not a step.                     *)
(***************************************************************************)
EXTENDS Naturals

CONSTANTS
    Threads,    \* the threads that call the mutex
    NoThread,   \* the value 0 of dwThreadId
    Nesting     \* the builds whose callers may lock a mutex they hold

Hals == {"kernel", "user"}

ASSUME HalMutexAssumption ==
    /\ NoThread \notin Threads
    /\ Nesting \subseteq Hals

VARIABLES
    hal,        \* which of the two files is linked; it never changes
    lSpinLock,  \* 0 or 1
    dwThreadId, \* the stamped owner, written by the user build only
    pc,         \* where each thread is inside MUTEX_Lock or MUTEX_UnLock
    held        \* held[t]: t got true from MUTEX_Lock and has not unlocked

vars == <<hal, lSpinLock, dwThreadId, pc, held>>

Locations == {"outside", "check", "spin", "stamp", "wipe", "release"}

(* The state of a mutex and of the threads that use it. *)
TypeOK ==
    /\ hal \in Hals
    /\ lSpinLock \in {0, 1}
    /\ dwThreadId \in Threads \cup {NoThread}
    /\ pc \in [Threads -> Locations]
    /\ held \in [Threads -> BOOLEAN]

(* MUTEX_Create: the allocator zeroes the block, the user build says so too. *)
Init ==
    /\ hal \in Hals
    /\ lSpinLock = 0
    /\ dwThreadId = NoThread
    /\ pc = [t \in Threads |-> "outside"]
    /\ held = [t \in Threads |-> FALSE]

Goto(t, from, to) ==
    /\ pc[t] = from
    /\ pc' = [pc EXCEPT ![t] = to]

-----------------------------------------------------------------------------
(* Plausible slips in the code below; no specification uses them. *)

PassCheck_NoCompare(t) ==
    /\ Goto(t, "check", "spin")
    /\ UNCHANGED <<hal, lSpinLock, dwThreadId, held>>

SwapIn_Increment(t) ==          \* InterlockedIncrement instead of the exchange
    /\ lSpinLock' = lSpinLock + 1
    /\ IF hal = "user"
       THEN Goto(t, "spin", "stamp") /\ UNCHANGED held
       ELSE Goto(t, "spin", "outside") /\ held' = [held EXCEPT ![t] = TRUE]
    /\ UNCHANGED <<hal, dwThreadId>>

SwapIn_Exchange(t) ==           \* InterlockedExchange: takes a taken lock
    /\ lSpinLock' = 1
    /\ IF hal = "user"
       THEN Goto(t, "spin", "stamp") /\ UNCHANGED held
       ELSE Goto(t, "spin", "outside") /\ held' = [held EXCEPT ![t] = TRUE]
    /\ UNCHANGED <<hal, dwThreadId>>

Wipe_FreesFirst(t) ==           \* the two stores of MUTEX_UnLock swapped
    /\ Goto(t, "wipe", "release")
    /\ lSpinLock' = 0
    /\ UNCHANGED <<hal, dwThreadId, held>>

Wipe_Forgets(t) ==              \* the stamp is left behind
    /\ Goto(t, "wipe", "release")
    /\ UNCHANGED <<hal, lSpinLock, dwThreadId, held>>

SwapOut_Forgets(t) ==
    /\ Goto(t, "release", "outside")
    /\ UNCHANGED <<hal, lSpinLock, dwThreadId, held>>

-----------------------------------------------------------------------------
(* MUTEX_Lock *)

CallLock(t) ==
    /\ held[t] => hal \in Nesting
    /\ Goto(t, "outside", IF hal = "user" THEN "check" ELSE "spin")
    /\ UNCHANGED <<hal, lSpinLock, dwThreadId, held>>

(* GetCurrentThreadId() == dwThreadId: return false and touch nothing. *)
RefuseOwner(t) ==
    /\ dwThreadId = t
    /\ Goto(t, "check", "outside")
    /\ UNCHANGED <<hal, lSpinLock, dwThreadId, held>>

PassCheck(t) ==
    /\ dwThreadId # t
    /\ Goto(t, "check", "spin")
    /\ UNCHANGED <<hal, lSpinLock, dwThreadId, held>>

(* The InterlockedCompareExchange that finds 0; the kernel build is done. *)
SwapIn(t) ==
    /\ lSpinLock = 0
    /\ lSpinLock' = 1
    /\ IF hal = "user"
       THEN Goto(t, "spin", "stamp") /\ UNCHANGED held
       ELSE Goto(t, "spin", "outside") /\ held' = [held EXCEPT ![t] = TRUE]
    /\ UNCHANGED <<hal, dwThreadId>>

Stamp(t) ==
    /\ Goto(t, "stamp", "outside")
    /\ dwThreadId' = t
    /\ held' = [held EXCEPT ![t] = TRUE]
    /\ UNCHANGED <<hal, lSpinLock>>

-----------------------------------------------------------------------------
(* MUTEX_UnLock: it does not look at the owner, so the callers' discipline *)
(* (they unlock only after a MUTEX_Lock that returned true) is the guard.  *)

CallUnLock(t) ==
    /\ held[t]
    /\ Goto(t, "outside", IF hal = "user" THEN "wipe" ELSE "release")
    /\ held' = [held EXCEPT ![t] = FALSE]
    /\ UNCHANGED <<hal, lSpinLock, dwThreadId>>

Wipe(t) ==
    /\ Goto(t, "wipe", "release")
    /\ dwThreadId' = NoThread
    /\ UNCHANGED <<hal, lSpinLock, held>>

SwapOut(t) ==
    /\ Goto(t, "release", "outside")
    /\ lSpinLock' = 0
    /\ UNCHANGED <<hal, dwThreadId, held>>

-----------------------------------------------------------------------------
Step(t) ==
    \/ CallLock(t)   \/ RefuseOwner(t) \/ PassCheck(t) \/ SwapIn(t) \/ Stamp(t)
    \/ CallUnLock(t) \/ Wipe(t)        \/ SwapOut(t)

Next == \E t \in Threads : Step(t)

Spec == Init /\ [][Next]_vars

(***************************************************************************)
(* A thread inside MUTEX_Lock or MUTEX_UnLock keeps running, and one that  *)
(* holds the lock eventually unlocks it.  Nothing makes a thread call      *)
(* MUTEX_Lock, and the loop gives no thread a turn: weak fairness of each  *)
(* thread on its own steps is all that preemptive scheduling gives.        *)
(***************************************************************************)
InsideStep(t) == pc[t] # "outside" /\ Step(t)

FairSpec ==
    /\ Spec
    /\ \A t \in Threads : WF_vars(InsideStep(t)) /\ WF_vars(CallUnLock(t))

-----------------------------------------------------------------------------
(* Between the two exchanges a thread has the lock. *)
Owns(t) == held[t] \/ pc[t] \in {"stamp", "wipe", "release"}

(***************************************************************************)
(* MUTEX_Lock returns true to one thread at a time (the while loop of both *)
(* files): no two threads have the lock, whatever the interleaving of the  *)
(* exchanges with the owner stamp.                                         *)
(***************************************************************************)
MutualExclusion == \A t, u \in Threads : Owns(t) /\ Owns(u) => t = u

(***************************************************************************)
(* The owner stamp of the user build tells the truth to the only thread    *)
(* that can act on it: a thread that is about to compare finds its own id  *)
(* if and only if it holds the lock, although dwThreadId is written        *)
(* outside any interlocked operation.                                      *)
(***************************************************************************)
StampTruthful ==
    \A t \in Threads :
        hal = "user" /\ pc[t] \in {"outside", "check"} =>
            (dwThreadId = t <=> held[t])

(***************************************************************************)
(* The user build's check does what it is there for: no thread spins on a  *)
(* lock it already holds, even when callers nest MUTEX_Lock.               *)
(***************************************************************************)
NoSelfSpin ==
    \A t \in Threads :
        ~(held[t] /\ pc[t] = "spin")

Owners == {t \in Threads : Owns(t)}

Holder == IF Owners = {} THEN NoThread ELSE CHOOSE t \in Owners : TRUE

Abstract == INSTANCE LockSpec WITH owner <- Holder

(***************************************************************************)
(* Both files implement the abstract lock: the lock changes hands only     *)
(* through the free state, and a refused or spinning call changes nothing. *)
(***************************************************************************)
ImplementsLock == Abstract!Spec

(***************************************************************************)
(* The loop makes progress as a whole: when some thread spins, some thread *)
(* eventually has the lock.  It does not promise which: a thread may lose  *)
(* every race.                                                             *)
(***************************************************************************)
SomeoneGetsIn ==
    (\E t \in Threads : pc[t] = "spin") ~> (\E t \in Threads : held[t])
=============================================================================
