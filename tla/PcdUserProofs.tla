---------------------------- MODULE PcdUserProofs ----------------------------
(***************************************************************************)
(* What holds of the user build's per-thread data for any number of        *)
(* threads and blocks, in either layer.                                    *)
(*                                                                         *)
(* SlotIsOwn is not inductive by itself: it speaks of threads that have    *)
(* not detached, and an initialization that starts over must not find a    *)
(* slot filled.  UserInv adds that only the entry thread's slot is ever    *)
(* filled, and only while the runtime is up, and that the PTD which is     *)
(* about to be stored is live.                                             *)
(***************************************************************************)
EXTENDS PcdUser, TLAPS

(* Only the entry thread has a PTD, and only between the two ends. *)
SlotsEmpty == \A t \in Threads : slot[t] # Null => t = Entry /\ pc = "up"

(* What is about to be stored is a PTD of the entry thread. *)
PtdInHand == ptPtd # Null => kind[ptPtd] = "ptd" /\ maker[ptPtd] = Entry

UserInv == TypeOK /\ SlotIsOwn /\ SlotsEmpty /\ PtdInHand

(* The actions of initialize_ptd, together. *)
Initialization ==
    \/ CreatePcd \/ Allocate \/ AllocateFails \/ CreateEntry \/ SetValue
    \/ AbandonPtd

LEMMA InitInv == Init => UserInv
  <1> USE PcdUserAssumption
  <1> QED BY DEF Init, UserInv, TypeOK, SlotIsOwn, SlotsEmpty, PtdInHand

LEMMA CreatePcdInv == UserInv /\ CreatePcd => UserInv'
  BY PcdUserAssumption DEF UserInv, TypeOK, SlotIsOwn, SlotsEmpty, PtdInHand,
     CreatePcd, Goto, Quiet, heapVars

LEMMA AllocateInv == UserInv /\ Allocate => UserInv'
  BY PcdUserAssumption DEF UserInv, TypeOK, SlotIsOwn, SlotsEmpty, PtdInHand,
     Allocate, Take, Goto, Quiet

LEMMA AllocateFailsInv == UserInv /\ AllocateFails => UserInv'
  BY PcdUserAssumption DEF UserInv, TypeOK, SlotIsOwn, SlotsEmpty, PtdInHand,
     AllocateFails, Goto, Quiet, heapVars

LEMMA CreateEntryInv == UserInv /\ CreateEntry => UserInv'
  BY PcdUserAssumption DEF UserInv, TypeOK, SlotIsOwn, SlotsEmpty, PtdInHand,
     CreateEntry, Take, Goto, Quiet, heapVars

LEMMA SetValueInv == UserInv /\ SetValue => UserInv'
  BY PcdUserAssumption DEF UserInv, TypeOK, SlotIsOwn, SlotsEmpty, PtdInHand,
     SetValue, Goto, Quiet, heapVars

LEMMA AbandonPtdInv == UserInv /\ AbandonPtd => UserInv'
  BY PcdUserAssumption DEF UserInv, TypeOK, SlotIsOwn, SlotsEmpty, PtdInHand,
     AbandonPtd, Release, Goto, Quiet, heapVars

LEMMA UninitializeInv == UserInv /\ Uninitialize => UserInv'
  BY PcdUserAssumption DEF UserInv, TypeOK, SlotIsOwn, SlotsEmpty, PtdInHand,
     Uninitialize, Goto, heapVars

LEMMA AttachInv == \A t \in Threads : UserInv /\ Attach(t) => UserInv'
  BY PcdUserAssumption DEF UserInv, TypeOK, SlotIsOwn, SlotsEmpty, PtdInHand,
     Attach, Goto, heapVars

LEMMA GetPtdInv == \A t \in Threads : UserInv /\ GetPtd(t) => UserInv'
  BY PcdUserAssumption DEF UserInv, TypeOK, SlotIsOwn, SlotsEmpty, PtdInHand,
     GetPtd, Goto, Quiet, heapVars

(* A thread that detaches gives up what its slot holds, which is nobody else's. *)
LEMMA DetachInv == \A t \in Threads : UserInv /\ Detach(t) => UserInv'
  BY PcdUserAssumption DEF UserInv, TypeOK, SlotIsOwn, SlotsEmpty, PtdInHand,
     Detach, Release, GetContext, Goto, heapVars

LEMMA EndThreadInv == \A t \in Threads : UserInv /\ EndThread(t) => UserInv'
  BY PcdUserAssumption DEF UserInv, TypeOK, SlotIsOwn, SlotsEmpty, PtdInHand,
     EndThread, heapVars

LEMMA OtherInv == \A b \in Blocks : UserInv /\ (OtherMalloc(b) \/ OtherFree(b)) => UserInv'
  BY PcdUserAssumption DEF UserInv, TypeOK, SlotIsOwn, SlotsEmpty, PtdInHand,
     OtherMalloc, OtherFree, Take, Release, Quiet, heapVars

LEMMA NextInv == UserInv /\ [Next]_vars => UserInv'
  <1> SUFFICES ASSUME UserInv, [Next]_vars PROVE UserInv'
    OBVIOUS
  <1>1. CASE Initialization
    BY <1>1, CreatePcdInv, AllocateInv, AllocateFailsInv, CreateEntryInv, SetValueInv,
       AbandonPtdInv DEF Initialization
  <1>2. CASE Uninitialize
    BY <1>2, UninitializeInv
  <1>3. CASE \E t \in Threads : Attach(t) \/ GetPtd(t) \/ Detach(t) \/ EndThread(t)
    BY <1>3, AttachInv, GetPtdInv, DetachInv, EndThreadInv
  <1>4. CASE \E b \in Blocks : OtherMalloc(b) \/ OtherFree(b)
    BY <1>4, OtherInv
  <1>5. CASE UNCHANGED vars
    BY <1>5 DEF vars, UserInv, TypeOK, SlotIsOwn, SlotsEmpty, PtdInHand
  <1> QED
    BY <1>1, <1>2, <1>3, <1>4, <1>5 DEF Next, Initialization

(***************************************************************************)
(* Whatever fails, the inductive invariant holds of the user build's PTDs  *)
(* (per_thread_data.cpp of both layers, HalUser/PerContextData.c).         *)
(***************************************************************************)
THEOREM UserInvariant == Spec => []UserInv
  BY InitInv, NextInv, PTL DEF Spec

(* The state is well typed; locals of the initialization live only in it. *)
THEOREM UserTypeCorrect == Spec => []TypeOK
  <1>1. UserInv => TypeOK
    BY DEF UserInv
  <1> QED BY <1>1, UserInvariant, PTL

(***************************************************************************)
(* A slot that holds anything holds its thread's own live PTD up to its    *)
(* detach, and no thread but the entry thread ever has one                 *)
(* (HalUser/PerContextData.c).                                             *)
(***************************************************************************)
THEOREM SlotIsOwnHolds == Spec => []SlotIsOwn
  <1>1. UserInv => SlotIsOwn
    BY DEF UserInv
  <1> QED BY <1>1, UserInvariant, PTL

-----------------------------------------------------------------------------
(* What NoPtdLostByFailure says of one step. *)
KeepsPtds ==
    \A b \in Blocks :
        kind[b] = "ptd" /\ Reachable(b) /\ kind'[b] = "ptd" /\ ~Reachable(b)'
            => pc = "up" /\ pc' = "down"

(* Storing the PTD hands it from the local to the slot, or keeps it. *)
LEMMA SetValueKeeps == UserInv /\ SetValue => KeepsPtds
  BY PcdUserAssumption DEF UserInv, TypeOK, SlotsEmpty, KeepsPtds, Reachable, SetValue, Goto

(* The abandoned PTD is freed. *)
LEMMA AbandonKeeps == UserInv /\ AbandonPtd => KeepsPtds
  BY PcdUserAssumption DEF UserInv, TypeOK, KeepsPtds, Reachable, AbandonPtd, Release, Goto, heapVars

(* An ending thread has nothing in its slot. *)
LEMMA EndThreadKeeps == \A t \in Threads : UserInv /\ EndThread(t) => KeepsPtds
  BY PcdUserAssumption DEF UserInv, TypeOK, SlotsEmpty, KeepsPtds, Reachable, EndThread

LEMMA NextKeeps == UserInv /\ [Next]_vars => KeepsPtds
  <1> SUFFICES ASSUME UserInv, [Next]_vars PROVE KeepsPtds
    OBVIOUS
  <1>1. CASE Uninitialize
    BY <1>1 DEF Uninitialize, KeepsPtds, Goto
  <1>2. CASE SetValue
    BY <1>2, SetValueKeeps
  <1>3. CASE AbandonPtd
    BY <1>3, AbandonKeeps
  <1>4. CASE \E t \in Threads : EndThread(t)
    BY <1>4, EndThreadKeeps
  <1>5. CASE Allocate
    BY <1>5, PcdUserAssumption DEF UserInv, TypeOK, KeepsPtds, Reachable, Allocate, Goto
  <1>6. CASE UNCHANGED <<slot, ptPtd>>
    BY <1>6 DEF KeepsPtds, Reachable
  <1>7. CreatePcd \/ AllocateFails \/ CreateEntry => UNCHANGED <<slot, ptPtd>>
    BY DEF CreatePcd, AllocateFails, CreateEntry
  <1>8. \A t \in Threads : Attach(t) \/ GetPtd(t) \/ Detach(t) => UNCHANGED <<slot, ptPtd>>
    BY DEF Attach, GetPtd, Detach
  <1>9. \A b \in Blocks : OtherMalloc(b) \/ OtherFree(b) => UNCHANGED <<slot, ptPtd>>
    BY DEF OtherMalloc, OtherFree
  <1>10. UNCHANGED vars => UNCHANGED <<slot, ptPtd>>
    BY DEF vars
  <1> QED
    BY <1>1, <1>2, <1>3, <1>4, <1>5, <1>6, <1>7, <1>8, <1>9, <1>10 DEF Next

(***************************************************************************)
(* No failure loses a PTD: out of reach goes only what an orderly          *)
(* uninitialization leaves behind (store_and_initialize_ptd).              *)
(***************************************************************************)
THEOREM NoPtdLostHolds == Spec => NoPtdLostByFailure
  <1>1. UserInv /\ [Next]_vars => [KeepsPtds]_vars
    BY NextKeeps
  <1>2. Spec => [][KeepsPtds]_vars
    BY <1>1, UserInvariant, PTL DEF Spec
  <1> QED
    BY <1>2 DEF NoPtdLostByFailure, KeepsPtds
=============================================================================
