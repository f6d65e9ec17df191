--------------------------- MODULE HalMutexProofs ---------------------------
(***************************************************************************)
(* What holds of the HAL mutex for any set of threads and for both builds. *)
(* The inductive invariant LockInv adds to the properties of HalMutex that *)
(* an owner implies a taken lSpinLock, and how held, pc and the owner      *)
(* stamp go together inside the two functions.                             *)
(***************************************************************************)
EXTENDS HalMutex, TLAPS

USE DEF Hals, Locations

(* A thread with the lock has set lSpinLock. *)
OwnersLock == \A t \in Threads : Owns(t) => lSpinLock = 1

(* The flag held is down inside the unlocking half and before the stamp. *)
HeldOutside ==
    \A t \in Threads : pc[t] \in {"stamp", "wipe", "release"} => ~held[t]

(* The stamp names the holder, or the thread that is about to wipe it. *)
StampInv ==
    hal = "user" =>
        \A t \in Threads :
            /\ dwThreadId = t => held[t] \/ pc[t] = "wipe"
            /\ held[t] => dwThreadId = t /\ pc[t] # "spin"

(* The kernel build has no owner stamp, and there nobody nests. *)
KernelPlain ==
    hal = "kernel" =>
        \A t \in Threads :
            /\ pc[t] \in {"outside", "spin", "release"}
            /\ held[t] /\ "kernel" \notin Nesting => pc[t] = "outside"

LockInv ==
    /\ TypeOK
    /\ MutualExclusion
    /\ OwnersLock
    /\ HeldOutside
    /\ StampInv
    /\ KernelPlain

LEMMA InitLockInv == Init => LockInv
BY HalMutexAssumption
   DEF Init, LockInv, TypeOK, MutualExclusion, OwnersLock, HeldOutside,
       StampInv, KernelPlain, Owns

LEMMA NextLockInv == LockInv /\ [Next]_vars => LockInv'
<1> SUFFICES ASSUME LockInv, [Next]_vars PROVE LockInv'
  OBVIOUS
<1> USE HalMutexAssumption
    DEF LockInv, TypeOK, MutualExclusion, OwnersLock, HeldOutside, StampInv,
        KernelPlain, Owns, Goto
<1>1. ASSUME NEW t \in Threads, CallLock(t) PROVE LockInv'
  BY <1>1 DEF CallLock
<1>2. ASSUME NEW t \in Threads, RefuseOwner(t) PROVE LockInv'
  BY <1>2 DEF RefuseOwner
<1>3. ASSUME NEW t \in Threads, PassCheck(t) PROVE LockInv'
  BY <1>3 DEF PassCheck
<1>4. ASSUME NEW t \in Threads, SwapIn(t) PROVE LockInv'
  <2>1. \A u \in Threads : ~held[u] /\ pc[u] \notin {"stamp", "wipe", "release"}
    BY <1>4 DEF SwapIn
  <2>2. CASE hal = "user"
    BY <1>4, <2>1, <2>2 DEF SwapIn
  <2>3. CASE hal = "kernel"
    <3>1. /\ pc' = [pc EXCEPT ![t] = "outside"]
          /\ held' = [held EXCEPT ![t] = TRUE]
          /\ lSpinLock' = 1 /\ UNCHANGED <<hal, dwThreadId>>
      BY <1>4, <2>3 DEF SwapIn
    <3>2. TypeOK'
      BY <3>1
    <3>3. MutualExclusion' /\ OwnersLock'
      BY <2>1, <3>1
    <3>4. HeldOutside' /\ StampInv'
      BY <2>1, <2>3, <3>1
    <3>5. KernelPlain'
      BY <2>1, <2>3, <3>1
    <3> QED
      BY <3>2, <3>3, <3>4, <3>5
  <2> QED
    BY <2>2, <2>3
<1>5. ASSUME NEW t \in Threads, Stamp(t) PROVE LockInv'
  BY <1>5 DEF Stamp
<1>6. ASSUME NEW t \in Threads, CallUnLock(t) PROVE LockInv'
  BY <1>6 DEF CallUnLock
<1>7. ASSUME NEW t \in Threads, Wipe(t) PROVE LockInv'
  BY <1>7 DEF Wipe
<1>8. ASSUME NEW t \in Threads, SwapOut(t) PROVE LockInv'
  BY <1>8 DEF SwapOut
<1>9. CASE UNCHANGED vars
  BY <1>9 DEF vars
<1> QED
  BY <1>1, <1>2, <1>3, <1>4, <1>5, <1>6, <1>7, <1>8, <1>9 DEF Next, Step

THEOREM LockInvariant == Spec => []LockInv
BY InitLockInv, NextLockInv, PTL DEF Spec

(***************************************************************************)
(* The variables of the mutex and of its callers stay in their types, for  *)
(* any number of threads.                                                  *)
(***************************************************************************)
THEOREM TypeCorrect == Spec => []TypeOK
<1>1. LockInv => TypeOK
  BY DEF LockInv
<1> QED
  BY LockInvariant, <1>1, PTL

(***************************************************************************)
(* No two threads get true from MUTEX_Lock at a time, in either build and  *)
(* for any number of threads, nested calls included.                       *)
(***************************************************************************)
THEOREM MutualExclusionHolds == Spec => []MutualExclusion
<1>1. LockInv => MutualExclusion
  BY DEF LockInv
<1> QED
  BY LockInvariant, <1>1, PTL

(***************************************************************************)
(* A thread that compares its id with dwThreadId finds it exactly when it  *)
(* holds the lock: the unlocked read of the user build is harmless.        *)
(***************************************************************************)
THEOREM StampTruthfulHolds == Spec => []StampTruthful
<1>1. LockInv => StampTruthful
  BY DEF LockInv, StampInv, StampTruthful
<1> QED
  BY LockInvariant, <1>1, PTL

(***************************************************************************)
(* When kernel callers do not nest, no thread of either build spins on a   *)
(* lock it holds.                                                          *)
(***************************************************************************)
THEOREM NoSelfSpinHolds ==
  ASSUME "kernel" \notin Nesting
  PROVE  Spec => []NoSelfSpin
<1>1. LockInv => NoSelfSpin
  BY DEF LockInv, TypeOK, StampInv, KernelPlain, NoSelfSpin
<1> QED
  BY LockInvariant, <1>1, PTL

-----------------------------------------------------------------------------
(* Choosing from a set of one. *)
LEMMA OnlyMember ==
  ASSUME NEW S, NEW t \in S, \A u, v \in S : u = v
  PROVE  (CHOOSE x \in S : TRUE) = t
OBVIOUS

(* The holder of the abstract lock is the one owner of the concrete one. *)
LEMMA HolderIsOwner ==
  ASSUME MutualExclusion, NEW t \in Threads, Owns(t)
  PROVE  Holder = t
<1>1. t \in Owners /\ \A u, v \in Owners : u = v
  BY DEF Owners, MutualExclusion
<1>2. (CHOOSE x \in Owners : TRUE) = t
  BY <1>1, OnlyMember
<1> QED
  BY <1>1, <1>2 DEF Holder

(* The other way round: a holder other than NoThread is an owner. *)
LEMMA NobodyHolds ==
  ASSUME \A u \in Threads : ~Owns(u)
  PROVE  Holder = NoThread
BY DEF Holder, Owners

(* The same two facts about the next state. *)
LEMMA NextHolderIsOwner ==
  ASSUME MutualExclusion', NEW t \in Threads, Owns(t)'
  PROVE  Holder' = t
<1>1. t \in Owners' /\ \A u, v \in Owners' : u = v
  BY DEF Owners, MutualExclusion
<1>2. (CHOOSE x \in Owners' : TRUE) = t
  BY <1>1, OnlyMember
<1> QED
  BY <1>1, <1>2 DEF Holder

LEMMA NobodyHoldsNext ==
  ASSUME \A u \in Threads : ~Owns(u)'
  PROVE  Holder' = NoThread
BY DEF Holder, Owners

(* A step that changes nobody's ownership leaves the holder alone. *)
LEMMA SameHolder ==
  ASSUME \A u \in Threads : Owns(u)' <=> Owns(u)
  PROVE  Holder' = Holder
<1>1. Owners' = Owners
  BY DEF Owners
<1> QED
  BY <1>1 DEF Holder

(***************************************************************************)
(* A step of the mutex is a step of the abstract lock, or changes nothing  *)
(* in it: SwapIn is Acquire, SwapOut is Release.                           *)
(***************************************************************************)
LEMMA StepImplements ==
  ASSUME LockInv, LockInv', [Next]_vars
  PROVE  [Abstract!Next]_Holder
<1> USE DEF LockInv, TypeOK, Goto
<1>1. ASSUME NEW t \in Threads, SwapIn(t) PROVE Abstract!Acquire(t)
  <2>1. \A u \in Threads : ~Owns(u)
    BY <1>1 DEF SwapIn, OwnersLock
  <2>2. Owns(t)'
    BY <1>1 DEF SwapIn, Owns
  <2> QED
    BY <2>1, <2>2, NobodyHolds, NextHolderIsOwner DEF Abstract!Acquire
<1>2. ASSUME NEW t \in Threads, SwapOut(t) PROVE Abstract!Release(t)
  <2>1. Owns(t) /\ ~Owns(t)'
    BY <1>2 DEF SwapOut, Owns, HeldOutside
  <2>2. \A u \in Threads : ~Owns(u)'
    BY <1>2, <2>1 DEF SwapOut, Owns, MutualExclusion
  <2> QED
    BY <2>1, <2>2, HolderIsOwner, NobodyHoldsNext DEF Abstract!Release
<1>3. ASSUME NEW t \in Threads,
             \/ CallLock(t) \/ RefuseOwner(t) \/ PassCheck(t)
             \/ Stamp(t) \/ CallUnLock(t) \/ Wipe(t)
      PROVE  Holder' = Holder
  <2>1. \A u \in Threads : Owns(u)' <=> Owns(u)
    BY <1>3 DEF CallLock, RefuseOwner, PassCheck, Stamp, CallUnLock, Wipe,
                Owns, HeldOutside, KernelPlain
  <2> QED
    BY <2>1, SameHolder
<1>4. CASE UNCHANGED vars
  <2>1. \A u \in Threads : Owns(u)' <=> Owns(u)
    BY <1>4 DEF vars, Owns
  <2> QED
    BY <2>1, SameHolder
<1> QED
  BY <1>1, <1>2, <1>3, <1>4 DEF Next, Step, Abstract!Next

(***************************************************************************)
(* Both builds of the mutex implement the abstract lock, for any set of    *)
(* threads.                                                                *)
(***************************************************************************)
THEOREM ImplementsLockHolds == Spec => ImplementsLock
<1>1. Init => Abstract!Init
  <2> SUFFICES ASSUME Init PROVE Holder = NoThread
    BY DEF Abstract!Init
  <2>1. \A u \in Threads : ~Owns(u)
    BY DEF Init, Owns
  <2> QED
    BY <2>1, NobodyHolds
<1>2. LockInv /\ LockInv' /\ [Next]_vars => [Abstract!Next]_Holder
  BY StepImplements
<1> QED
  BY <1>1, <1>2, LockInvariant, PTL DEF Spec, ImplementsLock, Abstract!Spec
=============================================================================
