----------------------------- MODULE PcdKernel -----------------------------
(***************************************************************************)
(* Per-thread data of the kernel build: the list of HalKernel/             *)
(* PerContextData.c under its spin lock, and on top of it the two copies   *)
(* of per_thread_data.cpp (VCRuntime "vcrt", AppCRT "acrt") that create a  *)
(* thread's PTD on first use.  Threads come and go and their ids are       *)
(* reused; any allocation may fail; other code allocates and frees blocks  *)
(* of the same heap at any time.                                           *)
(*                                                                         *)
(* The critical sections run under PCD.hMutex, a HalMutex.  A section that *)
(* only reads or writes the list is one step; one that calls the heap in   *)
(* the middle is split there, and pc says who is inside.  The order of the *)
(* list is left out: it would matter only if two entries had the same id.  *)
(***************************************************************************)
EXTENDS Naturals, Sequences

CONSTANTS
    Objs,       \* kernel thread objects (ETHREAD)
    Cids,       \* thread ids, fewer than the thread objects
    Blocks,     \* the blocks of the heap
    Null,
    NoCid,
    Empty,      \* the abstract empty slot
    StackDepth  \* how many nested getptd calls the stack holds

ASSUME PcdAssumption ==
    /\ Null \notin Blocks
    /\ NoCid \notin Cids
    /\ Empty \notin Blocks \cup {Null}
    /\ StackDepth \in Nat

Layers == {"vcrt", "acrt"}

VARIABLES
    layer,      \* whose per_thread_data.cpp it is; it never changes
    state,      \* of each thread object: "none", "running" or "exited"
    cid,        \* its thread id
    refs,       \* references that ObReferenceObject added to it
    kind,       \* of each block: "free", "entry", "ptd" or "other"
    maker,      \* the thread whose data it holds, if any
    entries,    \* the list: records [at, hCid, pvContext, pvData]
    pc,         \* where each thread is
    ptPtd,      \* the local of store_and_initialize_ptd
    calls,      \* why getptd was called again from inside itself
    mine,       \* what getptd last returned to the thread
    bugcheck    \* the machine has crashed

threadVars == <<state, cid>>
heapVars == <<kind, maker>>
vars == <<layer, state, cid, refs, kind, maker, entries, pc, ptPtd, calls, mine,
          bugcheck>>

Entry == [at : Blocks, hCid : Cids, pvContext : Objs, pvData : Blocks \cup {Null}]

Frames == {"malloc", "calloc", "raise"}

(* The state of the threads, of the heap and of the list. *)
TypeOK ==
    /\ layer \in Layers
    /\ state \in [Objs -> {"none", "running", "exited"}]
    /\ cid \in [Objs -> Cids \cup {NoCid}]
    /\ refs \in [Objs -> Nat]
    /\ kind \in [Blocks -> {"free", "entry", "ptd", "other"}]
    /\ maker \in [Blocks -> Objs \cup {Null}]
    /\ entries \subseteq Entry
    /\ pc \in [Objs -> {"run", "get", "alloc", "set", "entry", "unlink"}]
    /\ ptPtd \in [Objs -> Blocks \cup {Null}]
    /\ calls \in [Objs -> Seq(Frames)]
    /\ mine \in [Objs -> Blocks \cup {Null}]
    /\ bugcheck \in BOOLEAN

Init ==
    /\ layer \in Layers
    /\ state = [o \in Objs |-> "none"]
    /\ cid = [o \in Objs |-> NoCid]
    /\ refs = [o \in Objs |-> 0]
    /\ kind = [b \in Blocks |-> "free"]
    /\ maker = [b \in Blocks |-> Null]
    /\ entries = {}
    /\ pc = [o \in Objs |-> "run"]
    /\ ptPtd = [o \in Objs |-> Null]
    /\ calls = [o \in Objs |-> <<>>]
    /\ mine = [o \in Objs |-> Null]
    /\ bugcheck = FALSE

-----------------------------------------------------------------------------
(* The mutex is held by a thread in the middle of a critical section. *)
MutexFree == \A o \in Objs : pc[o] \notin {"entry", "unlink"}

(* pcd_Get: the entries whose id is the caller's. *)
Found(o) == {e \in entries : e.hCid = cid[o]}

(* The freed entry of o has not been allocated since: its links are still there. *)
Untouched(o) == \E e \in Found(o) : kind[e.at] = "free" /\ maker[e.at] = o

Goto(o, from, to) ==
    /\ ~bugcheck
    /\ state[o] = "running"
    /\ pc[o] = from
    /\ pc' = [pc EXCEPT ![o] = to]

Take(b, o, k) ==
    /\ kind[b] = "free"
    /\ kind' = [kind EXCEPT ![b] = k]
    /\ maker' = [maker EXCEPT ![b] = o]

Give(bs) ==
    /\ kind' = [b \in Blocks |-> IF b \in bs THEN "free" ELSE kind[b]]
    /\ maker' = [b \in Blocks |-> IF b \in bs THEN Null ELSE maker[b]]

(***************************************************************************)
(* getptd_noexit of thread o returns v.  The caller is the program, or the *)
(* errno of a failed malloc or calloc inside an outer getptd (calls), or   *)
(* the exception runtime, which then unwinds the frames below it.          *)
(***************************************************************************)
Return(o, from, v) ==
    LET top == calls[o][Len(calls[o])] IN
    IF calls[o] = <<>>
    THEN /\ Goto(o, from, "run")
         /\ mine' = [mine EXCEPT ![o] = v]
         /\ ptPtd' = [ptPtd EXCEPT ![o] = Null]
         /\ UNCHANGED calls
    ELSE /\ ptPtd' = [ptPtd EXCEPT ![o] = Null]
         /\ UNCHANGED mine
         /\ CASE top = "malloc" ->     \* malloc returns null, calloc sets errno
                 /\ Goto(o, from, "get")
                 /\ calls' = [calls EXCEPT ![o][Len(calls[o])] = "calloc"]
              [] top = "calloc" ->     \* calloc returns null to the outer call
                 /\ Goto(o, from, "set")
                 /\ calls' = [calls EXCEPT ![o] = SubSeq(@, 1, Len(@) - 1)]
              [] top = "raise" ->
                 /\ Goto(o, from, "run")
                 /\ calls' = [calls EXCEPT ![o] = <<>>]

Quiet == UNCHANGED <<layer, threadVars, bugcheck>>

-----------------------------------------------------------------------------
(* Plausible slips in the code below; no specification uses them. *)

Lookup_FirstEntry(o) ==         \* the id is not compared
    /\ MutexFree
    /\ \/ \E e \in entries : Return(o, "get", e.pvData)
       \/ entries = {} /\ Goto(o, "get", "alloc") /\ UNCHANGED <<ptPtd, calls, mine>>
    /\ UNCHANGED <<refs, entries, heapVars>> /\ Quiet

Lookup_Misses(o) ==             \* getptd does not look for an existing PTD
    /\ MutexFree
    /\ Goto(o, "get", "alloc")
    /\ UNCHANGED <<refs, entries, heapVars, ptPtd, calls, mine>> /\ Quiet

SetContext_NoSearch(o) ==       \* a second entry instead of the found one
    /\ MutexFree
    /\ Goto(o, "set", "entry")
    /\ refs' = [refs EXCEPT ![o] = @ + 1]
    /\ UNCHANGED <<entries, heapVars, ptPtd, calls, mine>> /\ Quiet

SetContext_NoReference(o) ==    \* the thread object is not referenced
    /\ MutexFree
    /\ \/ \E e \in Found(o) :
            /\ entries' = (entries \ {e}) \cup {[e EXCEPT !.pvData = ptPtd[o]]}
            /\ Return(o, "set", ptPtd[o])
       \/ Found(o) = {} /\ Goto(o, "set", "entry")
          /\ UNCHANGED <<entries, ptPtd, calls, mine>>
    /\ UNCHANGED <<refs, heapVars>> /\ Quiet

CreateEntryFails_TwiceReleased(o) ==
    /\ Return(o, "entry", Null)
    /\ refs' = [refs EXCEPT ![o] = @ - 2]
    /\ Give({ptPtd[o]})
    /\ UNCHANGED entries /\ Quiet

CreateEntryFails_KeepsReference(o) ==
    /\ Return(o, "entry", Null)
    /\ Give({ptPtd[o]})
    /\ UNCHANGED <<entries, refs>> /\ Quiet

CreateEntryFails_KeepsPtd(o) ==
    /\ Return(o, "entry", Null)
    /\ refs' = [refs EXCEPT ![o] = @ - 1]
    /\ UNCHANGED <<entries, heapVars>> /\ Quiet

Unlink_Forgotten(o) ==
    /\ Untouched(o)
    /\ Goto(o, "unlink", "run")
    /\ UNCHANGED <<entries, refs, heapVars, ptPtd, calls, mine>> /\ Quiet

-----------------------------------------------------------------------------
(* Thread objects, an external part: the system gives a new thread an id   *)
(* that no existing object has, and deletes the object of an exited thread *)
(* when its last reference goes.                                           *)

Spawn(o) ==
    /\ ~bugcheck /\ state[o] = "none"
    /\ \E c \in Cids \ {cid[p] : p \in Objs} : cid' = [cid EXCEPT ![o] = c]
    /\ state' = [state EXCEPT ![o] = "running"]
    /\ UNCHANGED <<layer, refs, entries, heapVars, pc, ptPtd, calls, mine, bugcheck>>

Exit(o) ==
    /\ Goto(o, "run", "run")
    /\ mine' = [mine EXCEPT ![o] = Null]
    /\ IF refs[o] = 0
       THEN /\ state' = [state EXCEPT ![o] = "none"]
            /\ cid' = [cid EXCEPT ![o] = NoCid]
       ELSE /\ state' = [state EXCEPT ![o] = "exited"]
            /\ UNCHANGED cid
    /\ UNCHANGED <<layer, refs, entries, heapVars, ptPtd, calls, bugcheck>>

(* Any other use of the heap, by any code of the machine. *)
OtherMalloc(b) ==
    /\ ~bugcheck /\ kind[b] = "free"
    /\ kind' = [kind EXCEPT ![b] = "other"]
    /\ maker' = [maker EXCEPT ![b] = Null]
    /\ UNCHANGED <<refs, entries, pc, ptPtd, calls, mine>> /\ Quiet

OtherFree(b) ==
    /\ ~bugcheck /\ kind[b] = "other"
    /\ Give({b})
    /\ UNCHANGED <<refs, entries, pc, ptPtd, calls, mine>> /\ Quiet

-----------------------------------------------------------------------------
(* getptd_noexit *)

CallGetPtd(o) ==
    /\ Goto(o, "run", "get")
    /\ UNCHANGED <<refs, entries, heapVars, ptPtd, calls, mine>> /\ Quiet

(* PCD_GetContext: lock, pcd_Get, unlock. *)
Lookup(o) ==
    /\ MutexFree
    /\ \/ \E e \in Found(o) : Return(o, "get", e.pvData)
       \/ Found(o) = {} /\ Goto(o, "get", "alloc") /\ UNCHANGED <<ptPtd, calls, mine>>
    /\ UNCHANGED <<refs, entries, heapVars>> /\ Quiet

(* store_and_initialize_ptd: calloc the PTD ... *)
Allocate(o) ==
    /\ \E b \in Blocks : Take(b, o, "ptd") /\ ptPtd' = [ptPtd EXCEPT ![o] = b]
    /\ Goto(o, "alloc", "set")
    /\ UNCHANGED <<refs, entries, calls, mine>> /\ Quiet

(***************************************************************************)
(* ... or not.  The failed malloc sets errno, and errno is in the AppCRT's *)
(* PTD: getptd is entered again.  In the VCRuntime the null pointer is     *)
(* written through (in every build but x86); the access violation crashes  *)
(* the machine, or reaches an exception handler that needs the PTD and     *)
(* enters getptd again.                                                    *)
(***************************************************************************)
AllocateFails(o) ==
    LET frame == IF layer = "acrt" THEN "malloc" ELSE "raise" IN
    /\ \/ /\ Len(calls[o]) < StackDepth
          /\ Goto(o, "alloc", "get")
          /\ calls' = [calls EXCEPT ![o] = Append(@, frame)]
          /\ UNCHANGED bugcheck
       \/ /\ layer = "vcrt" \/ Len(calls[o]) = StackDepth
          /\ Goto(o, "alloc", "alloc")
          /\ bugcheck' = TRUE
          /\ UNCHANGED calls
    /\ UNCHANGED <<layer, threadVars, refs, entries, heapVars, ptPtd, mine>>

(* PCD_SetContext up to pcd_CreateEntry: lock, find the entry or reference *)
(* the thread.  An entry that is found gets the new data, the old is lost. *)
SetContext(o) ==
    /\ MutexFree
    /\ \/ \E e \in Found(o) :
            /\ entries' = (entries \ {e}) \cup {[e EXCEPT !.pvData = ptPtd[o]]}
            /\ Return(o, "set", ptPtd[o])
            /\ UNCHANGED refs
       \/ /\ Found(o) = {}
          /\ Goto(o, "set", "entry")
          /\ refs' = [refs EXCEPT ![o] = @ + 1]
          /\ UNCHANGED <<entries, ptPtd, calls, mine>>
    /\ UNCHANGED heapVars /\ Quiet

(* pcd_CreateEntry, InsertHeadList, the assignments, unlock. *)
CreateEntry(o) ==
    /\ \E b \in Blocks :
        /\ Take(b, o, "entry")
        /\ entries' = entries \cup
            {[at |-> b, hCid |-> cid[o], pvContext |-> o, pvData |-> ptPtd[o]]}
    /\ Return(o, "entry", ptPtd[o])
    /\ UNCHANGED refs /\ Quiet

(* No memory for the entry: dereference, unlock, free the PTD, return null. *)
CreateEntryFails(o) ==
    /\ Return(o, "entry", Null)
    /\ refs' = [refs EXCEPT ![o] = @ - 1]
    /\ Give({ptPtd[o]})
    /\ UNCHANGED entries /\ Quiet

-----------------------------------------------------------------------------
(* freeptd, that is PCD_ReleaseContext *)

(* pcd_ReleaseEntry frees the data, dereferences the thread and frees the  *)
(* entry, which is still on the list and holds its links.                  *)
ReleaseEntry(o) ==
    /\ MutexFree
    /\ Goto(o, "run", "unlink")
    /\ \E e \in Found(o) :
        /\ kind' = [b \in Blocks |-> IF b \in {e.at, e.pvData} THEN "free" ELSE kind[b]]
        /\ maker' = [b \in Blocks |-> IF b = e.pvData THEN Null ELSE maker[b]]
        /\ refs' = [refs EXCEPT ![e.pvContext] = @ - 1]
    /\ mine' = [mine EXCEPT ![o] = Null]
    /\ UNCHANGED <<entries, ptPtd, calls>> /\ Quiet

(* RemoveEntryList reads the links out of the freed block: they are still  *)
(* there if nobody has allocated the block since (what the pool itself may *)
(* write into a free block is left out).                                   *)
Unlink(o) ==
    /\ Untouched(o)
    /\ \E e \in Found(o) :
        /\ entries' = entries \ {e}
        /\ maker' = [maker EXCEPT ![e.at] = Null]
    /\ Goto(o, "unlink", "run")
    /\ UNCHANGED <<refs, kind, ptPtd, calls, mine>> /\ Quiet

(* Somebody has: the links are what the new owner wrote, even if it has    *)
(* freed the block again, and the write through them is undefined.         *)
UnlinkBreaks(o) ==
    /\ ~Untouched(o)
    /\ Goto(o, "unlink", "unlink")
    /\ bugcheck' = TRUE
    /\ UNCHANGED <<layer, threadVars, refs, entries, heapVars, ptPtd, calls, mine>>

-----------------------------------------------------------------------------
Step(o) ==
    \/ Spawn(o)    \/ Exit(o)
    \/ CallGetPtd(o) \/ Lookup(o) \/ Allocate(o) \/ AllocateFails(o)
    \/ SetContext(o) \/ CreateEntry(o) \/ CreateEntryFails(o)
    \/ ReleaseEntry(o) \/ Unlink(o) \/ UnlinkBreaks(o)

Next ==
    \/ \E o \in Objs : Step(o)
    \/ \E b \in Blocks : OtherMalloc(b) \/ OtherFree(b)

Spec == Init /\ [][Next]_vars

-----------------------------------------------------------------------------
(***************************************************************************)
(* getptd never gives a thread the data of another, nor freed memory: what *)
(* it last returned is null or a live PTD that this very thread allocated. *)
(* Thread ids are reused, and the list is searched by id.                  *)
(***************************************************************************)
OwnData ==
    \A o \in Objs :
        mine[o] # Null => kind[mine[o]] = "ptd" /\ maker[mine[o]] = o

(***************************************************************************)
(* An entry pins its thread (the comment in pcd_CreateContextId): while it *)
(* is listed, its thread object exists and keeps the id of the entry, so   *)
(* the id cannot be given to a new thread.                                 *)
(***************************************************************************)
EntryPinsThread ==
    \A e \in entries : state[e.pvContext] # "none" /\ cid[e.pvContext] = e.hCid

(***************************************************************************)
(* PCD_SetContext never lists a second entry for an id, even when getptd   *)
(* is entered again from its own allocation.                               *)
(***************************************************************************)
UniqueIds == \A e, f \in entries : e.hCid = f.hCid => e = f

(***************************************************************************)
(* A thread object has one reference from here while the thread is listed  *)
(* or its entry is being created, else none: all the failure paths give    *)
(* back what pcd_CreateContextId took, and no path gives it back twice.    *)
(***************************************************************************)
ReferencesBalance ==
    \A o \in Objs :
        refs[o] = IF \/ pc[o] = "entry"
                     \/ pc[o] # "unlink" /\ \E e \in entries : e.pvContext = o
                  THEN 1 ELSE 0

(***************************************************************************)
(* No block is on the list after the critical section that freed it.       *)
(***************************************************************************)
ListedIsLive ==
    \A e \in entries :
        pc[e.pvContext] # "unlink" =>
            /\ kind[e.at] = "entry"
            /\ e.pvData # Null => kind[e.pvData] = "ptd"

(***************************************************************************)
(* A live PTD that is neither listed nor in the hands of the thread that   *)
(* is storing it is lost.  In the VCRuntime no failure loses one.          *)
(***************************************************************************)
NoPtdLost ==
    layer = "vcrt" =>
        \A b \in Blocks :
            kind[b] = "ptd" => \/ \E e \in entries : e.pvData = b
                               \/ \E o \in Objs : ptPtd[o] = b

(***************************************************************************)
(* A thread that asks again gets the same PTD: the pointers into it that   *)
(* callers keep (errno, the current exception) stay good until the thread  *)
(* itself detaches or ends.                                                *)
(***************************************************************************)
SamePtdAgain ==
    [][\A o \in Objs :
        mine[o] # Null /\ mine'[o] # mine[o] => mine'[o] = Null
                                                /\ (pc'[o] = "unlink" \/ state'[o] # "running")]_vars

(***************************************************************************)
(* Detaching a thread frees that thread's data and nothing breaks (the     *)
(* comment in __vcrt_thread_detach).                                       *)
(***************************************************************************)
DetachIsSafe == \A o \in Objs : bugcheck => pc[o] # "unlink"

(* The entry of a thread is its slot, from the insertion to the release. *)
SlotOf(o) ==
    LET own == {e \in Found(o) : pc[o] # "unlink"} IN
    IF state[o] = "none" \/ own = {} THEN Empty ELSE (CHOOSE e \in own : TRUE).pvData

Abstract == INSTANCE PerThreadSpec WITH
    live <- {o \in Objs : state[o] # "none"},
    slot <- [o \in Objs |-> SlotOf(o)]

(***************************************************************************)
(* The list with its reused ids and its references implements one private  *)
(* slot per thread.                                                        *)
(***************************************************************************)
ImplementsPerThread == Abstract!Spec
=============================================================================
