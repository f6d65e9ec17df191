---------------------------- MODULE CrtLifecycle ----------------------------
(***************************************************************************)
(* The life of the runtime in one image: the entry thread builds the heap, *)
(* the VCRuntime and the AppCRT, runs the initializers and ModuleMain, and *)
(* on shutdown runs the C termination and takes everything down again      *)
(* (sys_common.inl, utility.cpp, the two initialization.cpp and the        *)
(* initializer table of shared_initialization.cpp).  Worker threads of the *)
(* program call atexit and the exit functions meanwhile.                   *)
(*                                                                         *)
(* The exit lock is a HalMutex: in the kernel build a thread that locks it *)
(* again spins for ever, in the user build the call is refused and the     *)
(* refusal is ignored.  __acrt_lock_and_call locks it and never unlocks    *)
(* it: the cleanup in __crt_seh_guarded_call is commented out.             *)
(***************************************************************************)
EXTENDS Naturals, Sequences

CONSTANTS
    Workers,    \* threads of the program other than the entry thread
    Entry,      \* the entry thread
    Nobody,     \* the holder of a free lock
    VcrtLocks,  \* __vcrt_lock_count
    AcrtLocks,  \* __acrt_lock_count
    Statics     \* static objects whose constructors register a destructor

ASSUME CrtAssumption ==
    /\ Entry \notin Workers
    /\ Nobody \notin Workers \cup {Entry}
    /\ VcrtLocks \in Nat /\ AcrtLocks \in Nat /\ Statics \in Nat

Threads == Workers \cup {Entry}

Layers == {"vcrt", "acrt"}

(* __acrt_initializers, in the order of the table. *)
Table == <<"pointers", "locks", "ptd", "c">>

VARIABLES
    hal,        \* "kernel" or "user"; it never changes
    pc,         \* what the entry thread is doing
    it,         \* its position in the initializer table, 1 .. Len(Table) + 1
    outcome,    \* why the entry thread takes the runtime down
    heap,       \* std_heap_init has been called, std_heap_uninit has not
    locks,      \* how many locks of each layer exist
    pcd,        \* whether each layer's g_hPcd exists
    call,       \* the CRT call each thread is in
    exitLock,   \* the holder of __acrt_exit_lock
    complete,   \* c_termination_complete
    atexits,    \* functions in __acrt_atexit_table
    built,      \* static objects constructed
    destroyed,  \* static objects whose destructor the table has run
    terminated, \* how often the C terminators have run
    halted      \* the process or the machine is gone

building == <<heap, locks, pcd>>
exiting == <<call, exitLock, complete, atexits, destroyed, terminated>>
entering == <<pc, it, outcome, built>>
vars == <<hal, entering, building, exiting, halted>>

Phases ==
    {"heap", "vlocks", "vptd", "acrt", "rollback", "xi", "xc", "main", "up",
     "cexit", "cexit_done", "acrt_undo", "undo_vptd", "undo_vlocks",
     "undo_heap", "ended"}

Steps == {"none", "atexit", "enter", "execute", "terminate", "leave"}

Cleanups == {"full", "quick", "no"}

Idle == [step |-> "none", cleanup |-> "no", ends |-> FALSE]

(* The state of the entry thread, of the layers and of the exit lock. *)
TypeOK ==
    /\ hal \in {"kernel", "user"}
    /\ pc \in Phases
    /\ it \in 1 .. Len(Table) + 1
    /\ outcome \in {"success", "main_failed", "xi_failed", "fastfail"}
    /\ heap \in BOOLEAN
    /\ locks \in [Layers -> Nat]
    /\ locks["vcrt"] <= VcrtLocks /\ locks["acrt"] <= AcrtLocks
    /\ pcd \in [Layers -> BOOLEAN]
    /\ call \in [Threads -> [step : Steps, cleanup : Cleanups, ends : BOOLEAN]]
    /\ exitLock \in Threads \cup {Nobody}
    /\ complete \in BOOLEAN /\ halted \in BOOLEAN
    /\ atexits \in Nat /\ built \in 0 .. Statics
    /\ destroyed \in Nat /\ terminated \in Nat

Init ==
    /\ hal \in {"kernel", "user"}
    /\ pc = "heap" /\ it = 1 /\ outcome = "success" /\ built = 0
    /\ heap = FALSE
    /\ locks = [l \in Layers |-> 0]
    /\ pcd = [l \in Layers |-> FALSE]
    /\ call = [t \in Threads |-> Idle]
    /\ exitLock = Nobody /\ complete = FALSE
    /\ atexits = 0 /\ destroyed = 0 /\ terminated = 0
    /\ halted = FALSE

Phase(from, to) ==
    /\ ~halted
    /\ pc = from
    /\ call[Entry].step = "none"
    /\ pc' = to

-----------------------------------------------------------------------------
(* Steps of the two layers' initialization, shared by both. *)

NLocks(l) == IF l = "vcrt" THEN VcrtLocks ELSE AcrtLocks

MakeLock_OneMore(l) ==          \* a slip: the loop bound is off by one
    /\ locks[l] <= NLocks(l)
    /\ locks' = [locks EXCEPT ![l] = @ + 1]
    /\ UNCHANGED <<heap, pcd>>

(* One MUTEX_Create that succeeds. *)
MakeLock(l) ==
    /\ locks[l] < NLocks(l)
    /\ locks' = [locks EXCEPT ![l] = @ + 1]
    /\ UNCHANGED <<heap, pcd>>

MakeLockFails_KeepsOthers(l) ==  \* a slip: the earlier locks are not destroyed
    /\ locks[l] < NLocks(l)
    /\ UNCHANGED building

(* One that fails: the locks made so far are destroyed in reverse. *)
MakeLockFails(l) ==
    /\ locks[l] < NLocks(l)
    /\ locks' = [locks EXCEPT ![l] = 0]
    /\ UNCHANGED <<heap, pcd>>

MakePtd(l) ==
    /\ pcd' = [pcd EXCEPT ![l] = TRUE]
    /\ UNCHANGED <<heap, locks>>

(* initialize_ptd returns false and leaves no PCD behind.  The kernel      *)
(* build gets that far only when PCD_Create cannot allocate the PCD.       *)
MakePtdFails(l) == ~pcd[l] /\ UNCHANGED building

(***************************************************************************)
(* Or it does not come back.  In the kernel build PCD_Destroy on the error *)
(* path releases the list head itself as an entry, and a PTD that cannot   *)
(* be allocated overflows the stack (PcdKernel); in both builds the        *)
(* VCRuntime writes through the null PTD.                                  *)
(***************************************************************************)
MakePtdBreaks(l) == (hal = "kernel" \/ l = "vcrt") /\ UNCHANGED building

(* PCD_Destroy: one TlsFree in the user build.  In the kernel build the    *)
(* loop waits for a null that RemoveHeadList never returns: on the empty   *)
(* list it gets the list head itself, releases that as an entry, with the  *)
(* words behind the PCD for its fields, frees the PCD and goes round       *)
(* again; the machine does not survive the second free.                    *)
DropPtd(l) ==
    /\ pcd' = [pcd EXCEPT ![l] = FALSE]
    /\ halted' = (hal = "kernel" /\ pcd[l])
    /\ UNCHANGED <<heap, locks>>

DropLocks(l) ==
    /\ locks' = [locks EXCEPT ![l] = 0]
    /\ UNCHANGED <<heap, pcd, halted>>

(* The _uninitialize of a table entry; "pointers" has none. *)
Uninitialize(unit) ==
    CASE unit = "locks" -> DropLocks("acrt")
      [] unit = "ptd"   -> DropPtd("acrt")
      [] OTHER          -> UNCHANGED <<building, halted>>

-----------------------------------------------------------------------------
(* __scrt_initialize_crt *)

Quiet == UNCHANGED <<hal, exiting>>

HeapInit ==
    /\ Phase("heap", "vlocks")
    /\ heap' = TRUE
    /\ UNCHANGED <<it, outcome, built, locks, pcd, halted>> /\ Quiet

VcrtLock ==
    /\ \/ Phase("vlocks", "vlocks") /\ MakeLock("vcrt") /\ UNCHANGED outcome
       \/ Phase("vlocks", "undo_heap") /\ MakeLockFails("vcrt") /\ outcome' = "fastfail"
       \/ /\ Phase("vlocks", "vptd") /\ locks["vcrt"] = VcrtLocks
          /\ UNCHANGED <<building, outcome>>
    /\ UNCHANGED <<it, built, halted>> /\ Quiet

VcrtPtd ==
    /\ \/ Phase("vptd", "acrt") /\ MakePtd("vcrt") /\ UNCHANGED <<outcome, halted>>
       \/ /\ Phase("vptd", "undo_vlocks") /\ MakePtdFails("vcrt")
          /\ outcome' = "fastfail" /\ UNCHANGED halted
       \/ /\ Phase("vptd", "vptd") /\ MakePtdBreaks("vcrt")
          /\ halted' = TRUE /\ UNCHANGED outcome
    /\ UNCHANGED <<it, built>> /\ Quiet

(* __acrt_execute_initializers: one round of its first loop. *)
AcrtInitializer ==
    LET unit == Table[it]
        Advance == it' = it + 1 /\ Phase("acrt", "acrt") /\ UNCHANGED halted
        Abandon == it' = it /\ Phase("acrt", "rollback") /\ UNCHANGED halted
    IN
    /\ it <= Len(Table)
    /\ \/ unit = "locks" /\ Phase("acrt", "acrt") /\ MakeLock("acrt") /\ UNCHANGED <<it, halted>>
       \/ unit = "locks" /\ MakeLockFails("acrt") /\ Abandon
       \/ unit = "locks" /\ locks["acrt"] = AcrtLocks /\ Advance /\ UNCHANGED building
       \/ unit = "ptd" /\ MakePtd("acrt") /\ Advance
       \/ unit = "ptd" /\ MakePtdFails("acrt") /\ Abandon
       \/ /\ unit = "ptd" /\ MakePtdBreaks("acrt") /\ Phase("acrt", "acrt")
          /\ halted' = TRUE /\ UNCHANGED it
       \/ unit \in {"pointers", "c"} /\ Advance /\ UNCHANGED building
    /\ UNCHANGED <<outcome, built>> /\ Quiet

AcrtReady ==
    /\ it = Len(Table) + 1
    /\ Phase("acrt", "xi")
    /\ UNCHANGED <<it, outcome, built, building, halted>> /\ Quiet

Rollback_SkipsOne ==            \* a slip: it starts below the last success
    /\ it > 1
    /\ Phase("rollback", "rollback")
    /\ Uninitialize(IF it > 2 THEN Table[it - 2] ELSE "pointers")
    /\ it' = it - 1
    /\ UNCHANGED <<outcome, built>> /\ Quiet

Rollback_Forever ==             \* a slip: the loop does not step back
    /\ it > 1
    /\ Phase("rollback", "rollback")
    /\ Uninitialize(Table[it - 1])
    /\ UNCHANGED <<it, outcome, built>> /\ Quiet

(* Its second loop: undo the entries before the one that failed. *)
Rollback ==
    /\ it > 1
    /\ Phase("rollback", "rollback")
    /\ Uninitialize(Table[it - 1])
    /\ it' = it - 1
    /\ UNCHANGED <<outcome, built>> /\ Quiet

RollbackDone ==
    /\ it = 1
    /\ Phase("rollback", "undo_vptd")
    /\ outcome' = "fastfail"
    /\ UNCHANGED <<it, built, building, halted>> /\ Quiet

-----------------------------------------------------------------------------
(* __scrt_common_main_seh after the initialization, __scrt_common_exit *)

(* _initterm_e: pre_c_initialization succeeds, the program's initializers  *)
(* may not; then the status is returned and nothing is taken down.         *)
CInitializers ==
    /\ \/ Phase("xi", "xc") /\ UNCHANGED outcome
       \/ Phase("xi", "ended") /\ outcome' = "xi_failed"
    /\ UNCHANGED <<it, built, building, halted>> /\ Quiet

(* _initterm: a constructor of a static object, which then calls atexit. *)
Construct ==
    /\ built < Statics
    /\ Phase("xc", "xc")
    /\ built' = built + 1
    /\ call' = [call EXCEPT ![Entry] = [Idle EXCEPT !.step = "atexit"]]
    /\ UNCHANGED <<hal, it, outcome, building, exitLock, complete, atexits,
                   destroyed, terminated, halted>>

InvokeMain ==
    /\ built = Statics
    /\ Phase("xc", "main")
    /\ UNCHANGED <<it, outcome, built, building, halted>> /\ Quiet

MainReturns_SkipsExit ==        \* a slip: no _cexit when ModuleMain fails
    /\ \/ Phase("main", "up") /\ UNCHANGED <<outcome, it>>
       \/ /\ Phase("main", "acrt_undo") /\ outcome' = "main_failed"
          /\ it' = Len(Table) + 1
    /\ UNCHANGED <<built, building, halted>> /\ Quiet

(* ModuleMain(1) returns, ModuleMain(0) is called on unload. *)
MainReturns ==
    /\ \/ Phase("main", "up") /\ UNCHANGED outcome
       \/ Phase("main", "cexit") /\ outcome' = "main_failed"
    /\ UNCHANGED <<it, built, building, halted>> /\ Quiet

Shutdown ==
    /\ Phase("up", "cexit")
    /\ UNCHANGED <<it, outcome, built, building, halted>> /\ Quiet

CallCexit ==
    /\ Phase("cexit", "cexit_done")
    /\ call' = [call EXCEPT ![Entry] = [step |-> "enter", cleanup |-> "full", ends |-> FALSE]]
    /\ UNCHANGED <<hal, it, outcome, built, building, exitLock, complete,
                   atexits, destroyed, terminated, halted>>

CexitReturned ==
    /\ Phase("cexit_done", "acrt_undo")
    /\ it' = Len(Table) + 1
    /\ UNCHANGED <<outcome, built, building, halted>> /\ Quiet

(* __acrt_execute_uninitializers *)
AcrtUninitializer ==
    /\ it > 1
    /\ Phase("acrt_undo", "acrt_undo")
    /\ Uninitialize(Table[it - 1])
    /\ it' = it - 1
    /\ UNCHANGED <<outcome, built>> /\ Quiet

AcrtDown ==
    /\ it = 1
    /\ Phase("acrt_undo", "undo_vptd")
    /\ UNCHANGED <<it, outcome, built, building, halted>> /\ Quiet

(* __vcrt_uninitialize, std_heap_uninit; then the entry thread returns, or *)
(* fastfails when the initialization had failed.                           *)
VcrtUndo_HeapFirst ==           \* a slip: the heap goes before the locks
    /\ \/ Phase("undo_vptd", "undo_vlocks") /\ DropPtd("vcrt")
       \/ Phase("undo_vlocks", "undo_heap") /\ heap' = FALSE /\ UNCHANGED <<locks, pcd, halted>>
       \/ Phase("undo_heap", "ended") /\ DropLocks("vcrt")
    /\ UNCHANGED <<it, outcome, built>> /\ Quiet

VcrtUndo ==
    /\ \/ Phase("undo_vptd", "undo_vlocks") /\ DropPtd("vcrt")
       \/ Phase("undo_vlocks", "undo_heap") /\ DropLocks("vcrt")
       \/ /\ Phase("undo_heap", "ended")
          /\ heap' = FALSE
          /\ UNCHANGED <<locks, pcd, halted>>
    /\ UNCHANGED <<it, outcome, built>> /\ Quiet

-----------------------------------------------------------------------------
(* atexit and the exit functions, called by any thread of the program *)

MayCall(t) ==
    IF t = Entry THEN pc \in {"main", "up"} ELSE pc \in {"xc", "main", "up"}

Calling(t, from, to) ==
    /\ ~halted
    /\ call[t].step = from
    /\ call' = [call EXCEPT ![t].step = to]
    /\ UNCHANGED <<hal, entering, building>>

(* MUTEX_Lock on the exit lock; its result is not looked at. *)
LockExit(t) ==
    \/ exitLock = Nobody /\ exitLock' = t
    \/ exitLock = t /\ hal = "user" /\ UNCHANGED exitLock

CallAtExit(t) ==
    /\ MayCall(t)
    /\ Calling(t, "none", "atexit")
    /\ UNCHANGED <<exitLock, complete, atexits, destroyed, terminated, halted>>

(* exit, _exit, quick_exit end the process; _cexit and _c_exit return. *)
CallExit(t) ==
    /\ ~halted /\ MayCall(t) /\ call[t].step = "none"
    /\ \E c \in Cleanups, e \in BOOLEAN :
        /\ c = "quick" => e
        /\ call' = [call EXCEPT ![t] = [step |-> "enter", cleanup |-> c, ends |-> e]]
    /\ UNCHANGED <<hal, entering, building, exitLock, complete, atexits,
                   destroyed, terminated, halted>>

(* _recalloc of the null table: ALLOCATOR_Realloc refuses a null block. *)
Recalloc(block) == IF block = 0 THEN {0} ELSE {0, block + 1}

(* _register_onexit_function: append, when the table can grow by one. *)
AtExit(t) ==
    /\ Calling(t, "atexit", "none")
    /\ LockExit(t)
    /\ \E grown \in Recalloc(atexits) :
        atexits' = IF grown = 0 THEN atexits ELSE grown
    /\ UNCHANGED <<complete, destroyed, terminated, halted>>

EnterExit_Unchecked(t) ==       \* a slip: c_termination_complete is not read
    /\ LockExit(t)
    /\ complete' = TRUE
    /\ Calling(t, "enter", IF call[t].cleanup = "no" THEN "terminate" ELSE "execute")
    /\ UNCHANGED <<atexits, destroyed, terminated, halted>>

(* common_exit takes the lock; only the first caller does the rest. *)
EnterExit(t) ==
    /\ LockExit(t)
    /\ complete' = TRUE
    /\ Calling(t, "enter", IF complete THEN "leave"
                           ELSE IF call[t].cleanup = "no" THEN "terminate" ELSE "execute")
    /\ UNCHANGED <<atexits, destroyed, terminated, halted>>

(* _execute_onexit_table locks the exit lock again, runs the functions of  *)
(* the table in reverse order and empties it.                              *)
ExecuteTable(t) ==
    /\ Calling(t, "execute", "terminate")
    /\ LockExit(t)
    /\ IF call[t].cleanup = "full"
       THEN destroyed' = destroyed + atexits /\ atexits' = 0
       ELSE UNCHANGED <<atexits, destroyed>>
    /\ UNCHANGED <<complete, terminated, halted>>

(* _initterm on the pre-terminators and the terminators. *)
RunTerminators(t) ==
    /\ Calling(t, "terminate", "leave")
    /\ terminated' = terminated + 1
    /\ UNCHANGED <<exitLock, complete, atexits, destroyed, halted>>

LeaveExit(t) ==
    /\ Calling(t, "leave", "none")
    /\ halted' = call[t].ends
    /\ UNCHANGED <<exitLock, complete, atexits, destroyed, terminated>>

-----------------------------------------------------------------------------
Building ==
    \/ HeapInit \/ VcrtLock \/ VcrtPtd \/ AcrtInitializer \/ AcrtReady
    \/ Rollback \/ RollbackDone \/ CInitializers \/ Construct \/ InvokeMain

Ending ==
    \/ CallCexit \/ CexitReturned \/ AcrtUninitializer \/ AcrtDown \/ VcrtUndo

InCall(t) ==
    \/ AtExit(t) \/ EnterExit(t) \/ ExecuteTable(t) \/ RunTerminators(t) \/ LeaveExit(t)

Next ==
    \/ Building \/ MainReturns \/ Shutdown \/ Ending
    \/ \E t \in Threads : CallAtExit(t) \/ CallExit(t) \/ InCall(t)

Spec == Init /\ [][Next]_vars

(***************************************************************************)
(* The entry thread runs, ModuleMain returns however often it calls the    *)
(* CRT, and somebody unloads the image.  Nothing is asked of the workers.  *)
(***************************************************************************)
FairSpec ==
    /\ Spec
    /\ WF_vars(Building) /\ WF_vars(Ending) /\ WF_vars(InCall(Entry))
    /\ SF_vars(MainReturns) /\ SF_vars(Shutdown)

-----------------------------------------------------------------------------
(***************************************************************************)
(* A layer exists only on top of all that it uses: on every path, forward, *)
(* rolled back at any failure, or shut down, the AppCRT's thread data and  *)
(* locks stand on a complete VCRuntime, and everything on the heap.        *)
(***************************************************************************)
LayersNest ==
    /\ pcd["acrt"] => locks["acrt"] = AcrtLocks
    /\ locks["acrt"] > 0 => pcd["vcrt"]
    /\ pcd["vcrt"] => locks["vcrt"] = VcrtLocks
    /\ locks["vcrt"] > 0 => heap

(***************************************************************************)
(* Whenever the entry thread returns to the loader, after a failure of any *)
(* allocation or a full run, the heap, both lock tables and both PCDs are  *)
(* gone.  (A failed .CRT$XI initializer is the exception: the code returns *)
(* STATUS_FAILED_DRIVER_ENTRY with the whole runtime up.)                  *)
(***************************************************************************)
EndsClean ==
    pc = "ended" /\ outcome # "xi_failed" =>
        ~heap /\ \A l \in Layers : locks[l] = 0 /\ ~pcd[l]

(***************************************************************************)
(* The C terminators run at most once, whatever threads call the exit      *)
(* functions, and they have run before the AppCRT is taken down.           *)
(***************************************************************************)
TerminatedOnce ==
    /\ terminated <= 1
    /\ pc = "acrt_undo" => terminated = 1

(***************************************************************************)
(* The entry thread always gets to the end, except when it waits for the   *)
(* exit lock: held by another thread, or in the kernel build by itself.    *)
(***************************************************************************)
EndsUnlessExitLockTaken ==
    <>(\/ pc = "ended"
       \/ halted
       \/ exitLock # Nobody /\ (hal = "kernel" \/ exitLock # Entry))

(***************************************************************************)
(* A thread holds the exit lock only while it is in a CRT call (the        *)
(* comment on __crt_seh_guarded_call: the lock is released under all       *)
(* circumstances).                                                         *)
(***************************************************************************)
ExitLockReleased == exitLock # Nobody => call[exitLock].step # "none"

(***************************************************************************)
(* After a full run every static object that was constructed has been      *)
(* destroyed (README: "support static objects").                           *)
(***************************************************************************)
StaticsDestroyed == pc = "ended" /\ outcome = "success" => destroyed = built
=============================================================================
