------------------------------ MODULE PcdUser ------------------------------
(***************************************************************************)
(* Per-thread data of the user build: HalUser/PerContextData.c keeps the   *)
(* PTD in a TLS slot, under the same two per_thread_data.cpp as in         *)
(* PcdKernel.  The entry thread initializes and uninitializes, every       *)
(* thread may attach, ask for its PTD, detach and end.                     *)
(*                                                                         *)
(* TlsGetValue of a slot that holds null succeeds, so PCD_GetContext       *)
(* always does, and a thread that has no PTD is never given one.  The slot *)
(* holds the PTD, not the entry that PCD_SetContext allocates for it:      *)
(* PCD_ReleaseContext takes the PTD for an entry, and as its first word,   *)
(* the place of pfnDataRelease, is zero, it frees just the PTD.            *)
(***************************************************************************)
EXTENDS Naturals

CONSTANTS
    Threads,
    Entry,      \* the thread that runs __vcrt_initialize and __acrt_initialize
    Blocks,     \* the blocks of the heap
    Null

ASSUME PcdUserAssumption == Entry \in Threads /\ Null \notin Blocks

VARIABLES
    layer,      \* "vcrt" or "acrt"; it never changes
    pc,         \* where initialize_ptd of the entry thread is
    slot,       \* the TLS value of each thread
    kind,       \* of each block: "free", "entry", "ptd" or "other"
    maker,      \* the thread that allocated a PTD
    ptPtd,      \* the local of store_and_initialize_ptd
    ptEntry,    \* the local of PCD_SetContext
    attached,   \* what __vcrt_thread_attach last returned
    detached,   \* the threads that have detached
    failures,   \* an allocation or a Tls call has failed
    halted      \* the process has crashed or aborted

heapVars == <<kind, maker>>
vars == <<layer, pc, slot, kind, maker, ptPtd, ptEntry, attached, detached,
          failures, halted>>

(* The state of the heap, of the TLS slots and of the initialization. *)
TypeOK ==
    /\ layer \in {"vcrt", "acrt"}
    /\ pc \in {"down", "alloc", "entry", "set", "undo", "up"}
    /\ slot \in [Threads -> Blocks \cup {Null}]
    /\ kind \in [Blocks -> {"free", "entry", "ptd", "other"}]
    /\ maker \in [Blocks -> Threads \cup {Null}]
    /\ ptPtd \in Blocks \cup {Null} /\ ptEntry \in Blocks \cup {Null}
    /\ ptPtd # Null => pc \in {"entry", "set", "undo"}
    /\ ptEntry # Null => pc = "set"
    /\ attached \in [Threads -> {"never", "true", "false"}]
    /\ detached \subseteq Threads
    /\ failures \in BOOLEAN /\ halted \in BOOLEAN

Init ==
    /\ layer \in {"vcrt", "acrt"}
    /\ pc = "down"
    /\ slot = [t \in Threads |-> Null]
    /\ kind = [b \in Blocks |-> "free"]
    /\ maker = [b \in Blocks |-> Null]
    /\ ptPtd = Null /\ ptEntry = Null
    /\ attached = [t \in Threads |-> "never"]
    /\ detached = {}
    /\ failures = FALSE /\ halted = FALSE

Take(b, k) ==
    /\ kind[b] = "free"
    /\ kind' = [kind EXCEPT ![b] = k]
    /\ maker' = [maker EXCEPT ![b] = IF k = "ptd" THEN Entry ELSE Null]

Release(b) ==
    IF b = Null THEN UNCHANGED heapVars
    ELSE kind' = [kind EXCEPT ![b] = "free"] /\ maker' = [maker EXCEPT ![b] = Null]

Goto(from, to) == ~halted /\ pc = from /\ pc' = to

Quiet == UNCHANGED <<layer, attached, detached>>

-----------------------------------------------------------------------------
(* Plausible slips in the code below; no specification uses them. *)

AbandonPtd_Forgets ==           \* the unstored PTD is not freed
    /\ Goto("undo", "down")
    /\ ptPtd' = Null
    /\ UNCHANGED <<slot, heapVars, ptEntry, failures, halted>> /\ Quiet

AbandonPtd_ReturnsIt ==         \* freed, and returned for a success
    /\ Goto("undo", "up")
    /\ Release(ptPtd)
    /\ UNCHANGED <<slot, ptPtd, ptEntry, failures, halted>> /\ Quiet

Uninitialize_KeepsIndex ==      \* no TlsFree, and the PTD is freed
    /\ Goto("up", "down")
    /\ Release(slot[Entry])
    /\ UNCHANGED <<slot, ptPtd, ptEntry, failures, halted>> /\ Quiet

-----------------------------------------------------------------------------
(* __vcrt_initialize_ptd, __acrt_initialize_ptd *)

(* PCD_Create: TlsAlloc. *)
CreatePcd ==
    /\ \/ Goto("down", "alloc") /\ UNCHANGED failures
       \/ Goto("down", "down") /\ failures' = TRUE
    /\ UNCHANGED <<slot, heapVars, ptPtd, ptEntry, halted>> /\ Quiet

Allocate ==
    /\ Goto("alloc", "entry")
    /\ \E b \in Blocks : Take(b, "ptd") /\ ptPtd' = b
    /\ UNCHANGED <<slot, ptEntry, failures, halted>> /\ Quiet

(* The AppCRT goes on with a null PTD (its errno is the static one, for    *)
(* getptd finds null), the VCRuntime writes through it.                    *)
AllocateFails ==
    /\ \/ layer = "acrt" /\ Goto("alloc", "entry") /\ UNCHANGED halted
       \/ layer = "vcrt" /\ Goto("alloc", "alloc") /\ halted' = TRUE
    /\ failures' = TRUE
    /\ UNCHANGED <<slot, heapVars, ptPtd, ptEntry>> /\ Quiet

(* PCD_SetContext: pcd_CreateEntry ... *)
CreateEntry ==
    /\ \/ /\ Goto("entry", "set")
          /\ \E b \in Blocks : Take(b, "entry") /\ ptEntry' = b
          /\ UNCHANGED failures
       \/ /\ Goto("entry", "undo")
          /\ failures' = TRUE
          /\ UNCHANGED <<heapVars, ptEntry>>
    /\ UNCHANGED <<slot, ptPtd, halted>> /\ Quiet

(* ... and TlsSetValue; the entry is forgotten either way.  A null PTD is  *)
(* stored with success, and initialize_ptd fails because it is null.       *)
SetValue ==
    /\ \/ /\ Goto("set", IF ptPtd = Null THEN "undo" ELSE "up")
          /\ slot' = [slot EXCEPT ![Entry] = ptPtd]
          /\ UNCHANGED failures
       \/ /\ Goto("set", "undo")
          /\ failures' = TRUE
          /\ UNCHANGED slot
    /\ ptEntry' = Null
    /\ ptPtd' = IF pc' = "up" THEN Null ELSE ptPtd
    /\ UNCHANGED <<heapVars, halted>> /\ Quiet

(* store_and_initialize_ptd frees the PTD, initialize_ptd the TLS index. *)
AbandonPtd ==
    /\ Goto("undo", "down")
    /\ Release(ptPtd)
    /\ ptPtd' = Null
    /\ UNCHANGED <<slot, ptEntry, failures, halted>> /\ Quiet

(* __vcrt_uninitialize_ptd, __acrt_uninitialize_ptd: only TlsFree. *)
Uninitialize ==
    /\ Goto("up", "down")
    /\ slot' = [t \in Threads |-> Null]
    /\ detached' = {}
    /\ UNCHANGED <<layer, heapVars, ptPtd, ptEntry, attached, failures, halted>>

-----------------------------------------------------------------------------
(* PCD_GetContext: it succeeds, with what the slot holds. *)
GetContext(t) == slot[t]

(* __vcrt_thread_attach *)
Attach(t) ==
    /\ Goto("up", "up")
    /\ attached' = [attached EXCEPT ![t] =
                       IF GetContext(t) = Null THEN "false" ELSE "true"]
    /\ UNCHANGED <<layer, slot, heapVars, ptPtd, ptEntry, detached, failures, halted>>

(* __vcrt_getptd: abort when there is no PTD. *)
GetPtd(t) ==
    /\ Goto("up", "up")
    /\ layer = "vcrt" /\ GetContext(t) = Null
    /\ halted' = TRUE
    /\ UNCHANGED <<slot, heapVars, ptPtd, ptEntry, failures>> /\ Quiet

(* freeptd: the slot keeps the address of the freed block. *)
Detach(t) ==
    /\ Goto("up", "up")
    /\ t \notin detached
    /\ Release(GetContext(t))
    /\ detached' = detached \cup {t}
    /\ UNCHANGED <<layer, slot, ptPtd, ptEntry, attached, failures, halted>>

(* A thread ends, and one with an empty slot takes its place. *)
EndThread(t) ==
    /\ ~halted /\ t # Entry
    /\ slot' = [slot EXCEPT ![t] = Null]
    /\ attached' = [attached EXCEPT ![t] = "never"]
    /\ detached' = detached \ {t}
    /\ UNCHANGED <<layer, pc, heapVars, ptPtd, ptEntry, failures, halted>>

OtherMalloc(b) ==
    /\ ~halted
    /\ Take(b, "other")
    /\ UNCHANGED <<pc, slot, ptPtd, ptEntry, failures, halted>> /\ Quiet

OtherFree(b) ==
    /\ ~halted /\ kind[b] = "other"
    /\ Release(b)
    /\ UNCHANGED <<pc, slot, ptPtd, ptEntry, failures, halted>> /\ Quiet

Next ==
    \/ CreatePcd \/ Allocate \/ AllocateFails \/ CreateEntry \/ SetValue
    \/ AbandonPtd \/ Uninitialize
    \/ \E t \in Threads : Attach(t) \/ GetPtd(t) \/ Detach(t) \/ EndThread(t)
    \/ \E b \in Blocks : OtherMalloc(b) \/ OtherFree(b)

Spec == Init /\ [][Next]_vars

-----------------------------------------------------------------------------
(***************************************************************************)
(* Up to its detach the entry thread owns what its slot holds: a live PTD  *)
(* that it allocated itself, whatever initialization failed before.  No    *)
(* other thread's slot ever holds anything.                                *)
(***************************************************************************)
SlotIsOwn ==
    \A t \in Threads \ detached :
        slot[t] # Null =>
            t = Entry /\ pc = "up" /\ kind[slot[t]] = "ptd" /\ maker[slot[t]] = t

Reachable(b) == b = ptPtd \/ \E t \in Threads : slot[t] = b

(***************************************************************************)
(* No failure loses a PTD: a live one goes out of reach of every slot and  *)
(* of the initialization only when the TLS index is freed by an orderly    *)
(* uninitialization (which frees no thread's data).                        *)
(***************************************************************************)
NoPtdLostByFailure ==
    [][\A b \in Blocks :
        kind[b] = "ptd" /\ Reachable(b) /\ kind'[b] = "ptd" /\ ~Reachable(b)'
            => pc = "up" /\ pc' = "down"]_vars

(***************************************************************************)
(* Attaching a thread creates its PTD if it has none (the comment in       *)
(* __vcrt_thread_attach), so it fails only when memory is short.           *)
(***************************************************************************)
AttachGivesPtd == (\E t \in Threads : attached[t] = "false") => failures
=============================================================================
