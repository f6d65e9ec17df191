------------------------- MODULE CrtLifecycleProofs -------------------------
(***************************************************************************)
(* What holds of the runtime's life for any number of worker threads,      *)
(* locks and static objects, in both builds.                               *)
(*                                                                         *)
(* LayersNest and EndsClean say what may stand on what; they do not say    *)
(* which step the entry thread is at, and so not why the next one is safe. *)
(* LifeInv gives, for every phase and position in the initializer table,   *)
(* exactly what has been built.  TerminatedOnce rests on the exit lock:    *)
(* nobody ever releases it, so who took it first is alone between the test *)
(* of c_termination_complete and the terminators.                          *)
(***************************************************************************)
EXTENDS CrtLifecycle, TLAPS

(* The entry thread: its type, and when its position and outcome matter. *)
EnteringInv ==
    /\ hal \in {"kernel", "user"}
    /\ pc \in Phases
    /\ it \in 1 .. 5
    /\ outcome \in {"success", "main_failed", "xi_failed", "fastfail"}
    /\ built \in 0 .. Statics
    /\ pc \in {"heap", "vlocks", "vptd"} => it = 1
    /\ outcome = "xi_failed" => pc = "ended"

(* The types of the layers and of the exit functions. *)
BuildingType ==
    /\ heap \in BOOLEAN
    /\ locks \in [Layers -> Nat]
    /\ locks["vcrt"] <= VcrtLocks /\ locks["acrt"] <= AcrtLocks
    /\ pcd \in [Layers -> BOOLEAN]

ExitingType ==
    /\ call \in [Threads -> [step : Steps, cleanup : Cleanups, ends : BOOLEAN]]
    /\ exitLock \in Threads \cup {Nobody}
    /\ complete \in BOOLEAN
    /\ atexits \in Nat /\ destroyed \in Nat /\ terminated \in Nat

(* Phases in which the whole runtime stands. *)
Standing == {"xi", "xc", "main", "up", "cexit", "cexit_done"}

(* Phases that walk along the initializer table. *)
Walking == {"acrt", "rollback", "acrt_undo"}

(* A failed .CRT$XI initializer: the code leaves everything as it is. *)
LeftUp == pc = "ended" /\ outcome = "xi_failed"

(* The VCRuntime and the heap below it, by phase. *)
VcrtWhole == pc \in Standing \cup Walking \cup {"undo_vptd"} \/ LeftUp

AllGone == pc = "heap" \/ (pc = "ended" /\ ~LeftUp)

VcrtBuilt ==
    /\ AllGone => ~heap /\ locks["vcrt"] = 0 /\ ~pcd["vcrt"]
    /\ ~AllGone => heap
    /\ pc = "vlocks" => ~pcd["vcrt"]
    /\ pc \in {"vptd", "undo_vlocks"} => locks["vcrt"] = VcrtLocks /\ ~pcd["vcrt"]
    /\ VcrtWhole => locks["vcrt"] = VcrtLocks /\ pcd["vcrt"]
    /\ pc = "undo_heap" => locks["vcrt"] = 0 /\ ~pcd["vcrt"]

(* The AppCRT, by phase and by the position in the table. *)
AcrtWhole ==
    \/ pc \in Standing \/ LeftUp
    \/ pc \in {"acrt", "acrt_undo"} /\ it \in {4, 5}

AcrtBare ==
    \/ pc \in {"heap", "vlocks", "vptd", "undo_vptd", "undo_vlocks", "undo_heap"}
    \/ pc = "ended" /\ ~LeftUp
    \/ pc \in Walking /\ it = 1
    \/ pc \in {"rollback", "acrt_undo"} /\ it = 2

AcrtBuilt ==
    /\ AcrtWhole => pcd["acrt"] /\ locks["acrt"] = AcrtLocks
    /\ pc \in Walking /\ it = 3 => ~pcd["acrt"] /\ locks["acrt"] = AcrtLocks
    /\ pc = "acrt" /\ it = 2 => ~pcd["acrt"]
    /\ AcrtBare => ~pcd["acrt"] /\ locks["acrt"] = 0
    /\ pc = "rollback" => it \in {1, 2, 3}

(* Who took the exit lock keeps it; who finds c_termination_complete unset *)
(* is the one that runs the terminators.                                   *)
OneTerminator ==
    /\ \A t \in Threads : call[t].step \in {"execute", "terminate", "leave"}
          => complete /\ exitLock = t
    /\ complete => exitLock # Nobody
    /\ IF complete /\ call[exitLock].step \notin {"execute", "terminate"}
       THEN terminated = 1
       ELSE terminated = 0

(* The entry thread comes out of _cexit only after the terminators. *)
CexitTerminates ==
    /\ pc = "cexit_done" =>
          /\ call[Entry].step # "atexit"
          /\ call[Entry].step = "none" => complete /\ terminated = 1
    /\ pc = "acrt_undo" => complete /\ terminated = 1

LifeInv ==
    /\ EnteringInv /\ BuildingType /\ ExitingType /\ halted \in BOOLEAN
    /\ VcrtBuilt /\ AcrtBuilt
    /\ OneTerminator /\ CexitTerminates

LEMMA TableFacts ==
    Len(Table) = 4 /\ Table[1] = "pointers" /\ Table[2] = "locks"
    /\ Table[3] = "ptd" /\ Table[4] = "c"
  BY DEF Table

LEMMA TableLength == Len(Table) = 4
  BY TableFacts

LEMMA TableEnd == Len(Table) + 1 = 5
  BY TableLength

(***************************************************************************)
(* What the steps on one layer do to it and leave of the other.            *)
(***************************************************************************)
LEMMA MakeLockFacts ==
    ASSUME NEW l \in Layers, BuildingType, MakeLock(l)
    PROVE  /\ BuildingType' /\ UNCHANGED <<heap, pcd>>
           /\ \A k \in Layers : k # l => locks'[k] = locks[k]
  BY CrtAssumption DEF BuildingType, MakeLock, NLocks, Layers

LEMMA DropLocksFacts ==
    ASSUME NEW l \in Layers, BuildingType, locks' = [locks EXCEPT ![l] = 0], UNCHANGED <<heap, pcd>>
    PROVE  /\ BuildingType' /\ locks'[l] = 0
           /\ \A k \in Layers : k # l => locks'[k] = locks[k]
  BY CrtAssumption DEF BuildingType, Layers

LEMMA PcdFacts ==
    ASSUME NEW l \in Layers, NEW b \in BOOLEAN, BuildingType,
           pcd' = [pcd EXCEPT ![l] = b], UNCHANGED <<heap, locks>>
    PROVE  /\ BuildingType' /\ pcd'[l] = b
           /\ \A k \in Layers : k # l => pcd'[k] = pcd[k]
  BY DEF BuildingType

(* What the _uninitialize at each position of the table takes away. *)
LEMMA UninitializeFacts ==
    ASSUME it \in 2 .. 5, halted \in BOOLEAN, Uninitialize(Table[it - 1])
    PROVE  /\ heap' = heap
           /\ locks' = IF it = 3 THEN [locks EXCEPT !["acrt"] = 0] ELSE locks
           /\ pcd' = IF it = 4 THEN [pcd EXCEPT !["acrt"] = FALSE] ELSE pcd
           /\ halted' \in BOOLEAN
  <1>1. CASE it = 3
    <2>1. Table[it - 1] = "locks"
      BY <1>1, TableFacts
    <2>2. DropLocks("acrt")
      BY <2>1 DEF Uninitialize
    <2>3. halted \in BOOLEAN /\ halted' = halted
      BY <2>2 DEF DropLocks
    <2> QED
      BY <1>1, <2>2, <2>3 DEF DropLocks
  <1>2. CASE it = 4
    <2>1. Table[it - 1] = "ptd"
      BY <1>2, TableFacts
    <2>2. DropPtd("acrt")
      BY <2>1 DEF Uninitialize
    <2> QED
      BY <1>2, <2>2 DEF DropPtd
  <1>3. CASE it \in {2, 5}
    <2>1. Table[it - 1] = "pointers" \/ Table[it - 1] = "c"
      BY <1>3, TableFacts
    <2>2. UNCHANGED <<building, halted>>
      BY <2>1 DEF Uninitialize
    <2>3. halted \in BOOLEAN /\ halted' = halted
      BY <2>2
    <2> QED
      BY <1>3, <2>2, <2>3 DEF building
  <1> QED BY <1>1, <1>2, <1>3

LEMMA InitInv == Init => LifeInv
  <1> SUFFICES ASSUME Init PROVE LifeInv
    OBVIOUS
  <1>1. EnteringInv
    BY CrtAssumption DEF Init, EnteringInv, Phases
  <1>2. BuildingType
    <2>1. locks \in [Layers -> Nat] /\ locks["vcrt"] = 0 /\ locks["acrt"] = 0
      BY DEF Init, Layers
    <2>2. heap \in BOOLEAN /\ pcd \in [Layers -> BOOLEAN]
      BY DEF Init
    <2> QED
      BY <2>1, <2>2, CrtAssumption DEF BuildingType
  <1>3. ExitingType /\ halted \in BOOLEAN
    BY DEF Init, ExitingType, Idle, Steps, Cleanups, Threads
  <1>4. VcrtBuilt /\ AcrtBuilt
    BY DEF Init, VcrtBuilt, VcrtWhole, AllGone, AcrtBuilt, AcrtWhole, AcrtBare,
       Standing, Walking, LeftUp, Layers
  <1>5. OneTerminator /\ CexitTerminates
    BY DEF Init, OneTerminator, CexitTerminates, Idle
  <1> QED
    BY <1>1, <1>2, <1>3, <1>4, <1>5 DEF LifeInv

(* Steps that leave the exit functions alone keep what is said of them. *)
LEMMA QuietExit ==
    ASSUME ExitingType, OneTerminator, CexitTerminates, UNCHANGED exiting,
           pc' \in {"cexit_done", "acrt_undo"} => pc' = pc
    PROVE  ExitingType' /\ OneTerminator' /\ CexitTerminates'
  BY DEF ExitingType, OneTerminator, CexitTerminates, exiting

(***************************************************************************)
(* The steps of the entry thread.  Those of the exit functions are further *)
(* down.                                                                   *)
(***************************************************************************)
LEMMA HeapInitInv == LifeInv /\ HeapInit => LifeInv'
  <1> SUFFICES ASSUME LifeInv, HeapInit PROVE LifeInv'
    OBVIOUS
  <1>0. EnteringInv /\ BuildingType /\ VcrtBuilt /\ AcrtBuilt /\ halted \in BOOLEAN
    BY DEF LifeInv
  <1>1. EnteringInv'
    BY <1>0, CrtAssumption, TableLength DEF EnteringInv, Phases, HeapInit, Phase, Quiet
  <1>2. BuildingType' /\ halted' \in BOOLEAN
    BY <1>0 DEF BuildingType, building, HeapInit, Phase, Quiet
  <1>3. VcrtBuilt'
    BY <1>0 DEF VcrtBuilt, VcrtWhole, AllGone, Standing, Walking, LeftUp, building,
       HeapInit, Phase, Quiet
  <1>4. AcrtBuilt'
    BY <1>0 DEF AcrtBuilt, AcrtWhole, AcrtBare, Standing, Walking, LeftUp, building,
       HeapInit, Phase, Quiet
  <1>5. ExitingType' /\ OneTerminator' /\ CexitTerminates'
    BY QuietExit DEF LifeInv, HeapInit, Phase, Quiet
  <1> QED
    BY <1>1, <1>2, <1>3, <1>4, <1>5 DEF LifeInv

(* A lock that fails takes the earlier ones with it; the loop ends with all of them. *)
LEMMA VcrtLockInv == LifeInv /\ VcrtLock => LifeInv'
  <1> SUFFICES ASSUME LifeInv, VcrtLock PROVE LifeInv'
    OBVIOUS
  <1>0. EnteringInv /\ BuildingType /\ VcrtBuilt /\ AcrtBuilt /\ halted \in BOOLEAN
    BY DEF LifeInv
  <1>1. EnteringInv'
    BY <1>0 DEF EnteringInv, Phases, VcrtLock, Phase, Quiet
  <1>2. pc = "vlocks" /\ heap /\ ~pcd["vcrt"] /\ ~pcd["acrt"] /\ locks["acrt"] = 0
    BY <1>0 DEF VcrtLock, Phase, VcrtBuilt, AllGone, AcrtBuilt, AcrtBare, LeftUp
  <1>3. /\ BuildingType' /\ UNCHANGED <<heap, pcd, halted>> /\ locks'["acrt"] = locks["acrt"]
        /\ \/ pc' = "vlocks"
           \/ pc' = "undo_heap" /\ locks'["vcrt"] = 0
           \/ pc' = "vptd" /\ locks'["vcrt"] = VcrtLocks
    <2>1. CASE Phase("vlocks", "vlocks") /\ MakeLock("vcrt")
      BY <1>0, <2>1, MakeLockFacts DEF Layers, Phase, VcrtLock
    <2>2. CASE Phase("vlocks", "undo_heap") /\ MakeLockFails("vcrt")
      BY <1>0, <2>2, DropLocksFacts DEF Layers, Phase, VcrtLock, MakeLockFails
    <2>3. CASE Phase("vlocks", "vptd") /\ locks["vcrt"] = VcrtLocks /\ UNCHANGED building
      BY <1>0, <2>3 DEF Phase, VcrtLock, building, BuildingType
    <2> QED
      BY <2>1, <2>2, <2>3 DEF VcrtLock
  <1>4. VcrtBuilt' /\ AcrtBuilt'
    BY <1>2, <1>3 DEF VcrtBuilt, VcrtWhole, AllGone, AcrtBuilt, AcrtWhole, AcrtBare,
       Standing, Walking, LeftUp
  <1>5. ExitingType' /\ OneTerminator' /\ CexitTerminates'
    BY <1>3, QuietExit DEF LifeInv, VcrtLock, Quiet
  <1> QED
    BY <1>0, <1>1, <1>3, <1>4, <1>5 DEF LifeInv

(* A PCD that cannot be made leaves the locks to be undone. *)
LEMMA VcrtPtdInv == LifeInv /\ VcrtPtd => LifeInv'
  <1> SUFFICES ASSUME LifeInv, VcrtPtd PROVE LifeInv'
    OBVIOUS
  <1>0. EnteringInv /\ BuildingType /\ VcrtBuilt /\ AcrtBuilt /\ halted \in BOOLEAN
    BY DEF LifeInv
  <1>1. /\ pc = "vptd" /\ heap /\ ~pcd["vcrt"] /\ locks["vcrt"] = VcrtLocks
        /\ ~pcd["acrt"] /\ locks["acrt"] = 0
    BY <1>0 DEF VcrtPtd, Phase, VcrtBuilt, AllGone, AcrtBuilt, AcrtBare, LeftUp
  <1>2. EnteringInv'
    <2>1. it = 1 /\ it' = it /\ outcome # "xi_failed"
      BY <1>0, <1>1 DEF EnteringInv, VcrtPtd
    <2>2. pc' \in {"acrt", "undo_vlocks", "vptd"} /\ outcome' \in {outcome, "fastfail"}
      BY DEF VcrtPtd, Phase
    <2> QED
      BY <1>0, <2>1, <2>2 DEF EnteringInv, Phases, VcrtPtd, Quiet
  <1>3. /\ BuildingType' /\ UNCHANGED <<heap, locks>> /\ pcd'["acrt"] = pcd["acrt"]
        /\ halted' \in BOOLEAN
        /\ \/ pc' = "acrt" /\ pcd'["vcrt"]
           \/ pc' \in {"undo_vlocks", "vptd"} /\ ~pcd'["vcrt"]
    <2>1. CASE Phase("vptd", "acrt") /\ MakePtd("vcrt") /\ UNCHANGED halted
      BY <1>0, <2>1, PcdFacts DEF Layers, Phase, MakePtd
    <2>2. CASE Phase("vptd", "undo_vlocks") /\ UNCHANGED <<building, halted>>
      BY <1>0, <1>1, <2>2 DEF Phase, building, BuildingType
    <2>3. CASE Phase("vptd", "vptd") /\ UNCHANGED building /\ halted' = TRUE
      BY <1>0, <1>1, <2>3 DEF Phase, building, BuildingType
    <2> QED
      BY <2>1, <2>2, <2>3 DEF VcrtPtd, MakePtdFails, MakePtdBreaks
  <1>4. it' = 1
    BY <1>0, <1>1 DEF EnteringInv, VcrtPtd
  <1>6. VcrtBuilt' /\ AcrtBuilt'
    <2>1. VcrtBuilt'
      BY <1>1, <1>3 DEF VcrtBuilt, VcrtWhole, AllGone, Standing, Walking, LeftUp
    <2>2. AcrtBuilt'
      BY <1>1, <1>3, <1>4 DEF AcrtBuilt, AcrtWhole, AcrtBare, Standing, Walking, LeftUp
    <2> QED
      BY <2>1, <2>2
  <1>7. ExitingType' /\ OneTerminator' /\ CexitTerminates'
    BY <1>3, QuietExit DEF LifeInv, VcrtPtd, Quiet
  <1> QED
    BY <1>2, <1>3, <1>6, <1>7 DEF LifeInv

LEMMA AcrtReadyInv == LifeInv /\ AcrtReady => LifeInv'
  <1> SUFFICES ASSUME LifeInv, AcrtReady PROVE LifeInv'
    OBVIOUS
  <1>0. EnteringInv /\ BuildingType /\ VcrtBuilt /\ AcrtBuilt /\ halted \in BOOLEAN
    BY DEF LifeInv
  <1>1. EnteringInv'
    BY <1>0, CrtAssumption, TableLength DEF EnteringInv, Phases, AcrtReady, Phase, Quiet
  <1>2. BuildingType' /\ halted' \in BOOLEAN
    BY <1>0 DEF BuildingType, building, AcrtReady, Phase, Quiet
  <1>3. VcrtBuilt'
    BY <1>0 DEF VcrtBuilt, VcrtWhole, AllGone, Standing, Walking, LeftUp, building,
       AcrtReady, Phase, Quiet
  <1>4. AcrtBuilt'
    <2>1. it = Len(Table) + 1
      BY DEF AcrtReady
    <2>2. it = 5
      BY <2>1, TableLength
    <2> QED
      BY <1>0, <2>2 DEF EnteringInv, AcrtBuilt, AcrtWhole, AcrtBare, Standing, Walking, LeftUp,
       building, AcrtReady, Phase
  <1>5. ExitingType' /\ OneTerminator' /\ CexitTerminates'
    BY QuietExit DEF LifeInv, AcrtReady, Phase, Quiet
  <1> QED
    BY <1>1, <1>2, <1>3, <1>4, <1>5 DEF LifeInv

LEMMA RollbackDoneInv == LifeInv /\ RollbackDone => LifeInv'
  <1> SUFFICES ASSUME LifeInv, RollbackDone PROVE LifeInv'
    OBVIOUS
  <1>0. EnteringInv /\ BuildingType /\ VcrtBuilt /\ AcrtBuilt /\ halted \in BOOLEAN
    BY DEF LifeInv
  <1>1. EnteringInv'
    BY <1>0, CrtAssumption, TableLength DEF EnteringInv, Phases, RollbackDone, Phase, Quiet
  <1>2. BuildingType' /\ halted' \in BOOLEAN
    BY <1>0 DEF BuildingType, building, RollbackDone, Phase, Quiet
  <1>3. VcrtBuilt'
    BY <1>0 DEF VcrtBuilt, VcrtWhole, AllGone, Standing, Walking, LeftUp, building,
       RollbackDone, Phase, Quiet
  <1>4. AcrtBuilt'
    BY <1>0 DEF AcrtBuilt, AcrtWhole, AcrtBare, Standing, Walking, LeftUp, building,
       RollbackDone, Phase, Quiet
  <1>5. ExitingType' /\ OneTerminator' /\ CexitTerminates'
    BY QuietExit DEF LifeInv, RollbackDone, Phase, Quiet
  <1> QED
    BY <1>1, <1>2, <1>3, <1>4, <1>5 DEF LifeInv

LEMMA CInitializersInv == LifeInv /\ CInitializers => LifeInv'
  <1> SUFFICES ASSUME LifeInv, CInitializers PROVE LifeInv'
    OBVIOUS
  <1>0. EnteringInv /\ BuildingType /\ VcrtBuilt /\ AcrtBuilt /\ halted \in BOOLEAN
    BY DEF LifeInv
  <1>1. EnteringInv'
    BY <1>0, CrtAssumption, TableLength DEF EnteringInv, Phases, CInitializers, Phase, Quiet
  <1>2. BuildingType' /\ halted' \in BOOLEAN
    BY <1>0 DEF BuildingType, building, CInitializers, Phase, Quiet
  <1>3. VcrtBuilt'
    BY <1>0 DEF VcrtBuilt, VcrtWhole, AllGone, Standing, Walking, LeftUp, building,
       CInitializers, Phase, Quiet
  <1>4. AcrtBuilt'
    BY <1>0 DEF AcrtBuilt, AcrtWhole, AcrtBare, Standing, Walking, LeftUp, building,
       CInitializers, Phase, Quiet
  <1>5. ExitingType' /\ OneTerminator' /\ CexitTerminates'
    BY QuietExit DEF LifeInv, CInitializers, Phase, Quiet
  <1> QED
    BY <1>1, <1>2, <1>3, <1>4, <1>5 DEF LifeInv

LEMMA InvokeMainInv == LifeInv /\ InvokeMain => LifeInv'
  <1> SUFFICES ASSUME LifeInv, InvokeMain PROVE LifeInv'
    OBVIOUS
  <1>0. EnteringInv /\ BuildingType /\ VcrtBuilt /\ AcrtBuilt /\ halted \in BOOLEAN
    BY DEF LifeInv
  <1>1. EnteringInv'
    BY <1>0, CrtAssumption, TableLength DEF EnteringInv, Phases, InvokeMain, Phase, Quiet
  <1>2. BuildingType' /\ halted' \in BOOLEAN
    BY <1>0 DEF BuildingType, building, InvokeMain, Phase, Quiet
  <1>3. VcrtBuilt'
    BY <1>0 DEF VcrtBuilt, VcrtWhole, AllGone, Standing, Walking, LeftUp, building,
       InvokeMain, Phase, Quiet
  <1>4. AcrtBuilt'
    BY <1>0 DEF AcrtBuilt, AcrtWhole, AcrtBare, Standing, Walking, LeftUp, building,
       InvokeMain, Phase, Quiet
  <1>5. ExitingType' /\ OneTerminator' /\ CexitTerminates'
    BY QuietExit DEF LifeInv, InvokeMain, Phase, Quiet
  <1> QED
    BY <1>1, <1>2, <1>3, <1>4, <1>5 DEF LifeInv

LEMMA MainReturnsInv == LifeInv /\ MainReturns => LifeInv'
  <1> SUFFICES ASSUME LifeInv, MainReturns PROVE LifeInv'
    OBVIOUS
  <1>0. EnteringInv /\ BuildingType /\ VcrtBuilt /\ AcrtBuilt /\ halted \in BOOLEAN
    BY DEF LifeInv
  <1>1. EnteringInv'
    BY <1>0, CrtAssumption, TableLength DEF EnteringInv, Phases, MainReturns, Phase, Quiet
  <1>2. BuildingType' /\ halted' \in BOOLEAN
    BY <1>0 DEF BuildingType, building, MainReturns, Phase, Quiet
  <1>3. VcrtBuilt'
    BY <1>0 DEF VcrtBuilt, VcrtWhole, AllGone, Standing, Walking, LeftUp, building,
       MainReturns, Phase, Quiet
  <1>4. AcrtBuilt'
    BY <1>0 DEF AcrtBuilt, AcrtWhole, AcrtBare, Standing, Walking, LeftUp, building,
       MainReturns, Phase, Quiet
  <1>5. ExitingType' /\ OneTerminator' /\ CexitTerminates'
    BY QuietExit DEF LifeInv, MainReturns, Phase, Quiet
  <1> QED
    BY <1>1, <1>2, <1>3, <1>4, <1>5 DEF LifeInv

LEMMA ShutdownInv == LifeInv /\ Shutdown => LifeInv'
  <1> SUFFICES ASSUME LifeInv, Shutdown PROVE LifeInv'
    OBVIOUS
  <1>0. EnteringInv /\ BuildingType /\ VcrtBuilt /\ AcrtBuilt /\ halted \in BOOLEAN
    BY DEF LifeInv
  <1>1. EnteringInv'
    BY <1>0, CrtAssumption, TableLength DEF EnteringInv, Phases, Shutdown, Phase, Quiet
  <1>2. BuildingType' /\ halted' \in BOOLEAN
    BY <1>0 DEF BuildingType, building, Shutdown, Phase, Quiet
  <1>3. VcrtBuilt'
    BY <1>0 DEF VcrtBuilt, VcrtWhole, AllGone, Standing, Walking, LeftUp, building,
       Shutdown, Phase, Quiet
  <1>4. AcrtBuilt'
    BY <1>0 DEF AcrtBuilt, AcrtWhole, AcrtBare, Standing, Walking, LeftUp, building,
       Shutdown, Phase, Quiet
  <1>5. ExitingType' /\ OneTerminator' /\ CexitTerminates'
    BY QuietExit DEF LifeInv, Shutdown, Phase, Quiet
  <1> QED
    BY <1>1, <1>2, <1>3, <1>4, <1>5 DEF LifeInv

(* The way down begins with the runtime whole and the terminators run. *)
LEMMA CexitReturnedInv == LifeInv /\ CexitReturned => LifeInv'
  <1> SUFFICES ASSUME LifeInv, CexitReturned PROVE LifeInv'
    OBVIOUS
  <1>0. EnteringInv /\ BuildingType /\ VcrtBuilt /\ AcrtBuilt /\ halted \in BOOLEAN
    BY DEF LifeInv
  <1>1. it' = 5
    <2>1. it' = Len(Table) + 1
      BY DEF CexitReturned
    <2> QED
      BY <2>1, TableLength
  <1>2. /\ pc = "cexit_done" /\ pc' = "acrt_undo"
        /\ UNCHANGED <<hal, outcome, built, building, halted>>
    BY DEF CexitReturned, Phase, Quiet
  <1>3. EnteringInv'
    BY <1>0, <1>1, <1>2 DEF EnteringInv, Phases
  <1>4. BuildingType' /\ halted' \in BOOLEAN
    BY <1>0, <1>2 DEF BuildingType, building
  <1>5. VcrtBuilt'
    BY <1>0, <1>2 DEF VcrtBuilt, VcrtWhole, AllGone, Standing, Walking, LeftUp, building
  <1>6. AcrtBuilt'
    BY <1>0, <1>1, <1>2 DEF AcrtBuilt, AcrtWhole, AcrtBare, Standing, Walking, LeftUp, building
  <1>7. ExitingType' /\ OneTerminator' /\ CexitTerminates'
    BY <1>2 DEF LifeInv, ExitingType, OneTerminator, CexitTerminates, exiting,
       CexitReturned, Phase, Quiet
  <1> QED
    BY <1>3, <1>4, <1>5, <1>6, <1>7 DEF LifeInv

LEMMA AcrtDownInv == LifeInv /\ AcrtDown => LifeInv'
  <1> SUFFICES ASSUME LifeInv, AcrtDown PROVE LifeInv'
    OBVIOUS
  <1>0. EnteringInv /\ BuildingType /\ VcrtBuilt /\ AcrtBuilt /\ halted \in BOOLEAN
    BY DEF LifeInv
  <1>1. EnteringInv'
    BY <1>0, CrtAssumption, TableLength DEF EnteringInv, Phases, AcrtDown, Phase, Quiet
  <1>2. BuildingType' /\ halted' \in BOOLEAN
    BY <1>0 DEF BuildingType, building, AcrtDown, Phase, Quiet
  <1>3. VcrtBuilt'
    BY <1>0 DEF VcrtBuilt, VcrtWhole, AllGone, Standing, Walking, LeftUp, building,
       AcrtDown, Phase, Quiet
  <1>4. AcrtBuilt'
    BY <1>0 DEF AcrtBuilt, AcrtWhole, AcrtBare, Standing, Walking, LeftUp, building,
       AcrtDown, Phase, Quiet
  <1>5. ExitingType' /\ OneTerminator' /\ CexitTerminates'
    BY QuietExit DEF LifeInv, AcrtDown, Phase, Quiet
  <1> QED
    BY <1>1, <1>2, <1>3, <1>4, <1>5 DEF LifeInv

(* The VCRuntime goes from the top down. *)
LEMMA VcrtUndoInv == LifeInv /\ VcrtUndo => LifeInv'
  <1> SUFFICES ASSUME LifeInv, VcrtUndo PROVE LifeInv'
    OBVIOUS
  <1>0. EnteringInv /\ BuildingType /\ VcrtBuilt /\ AcrtBuilt /\ halted \in BOOLEAN
    BY DEF LifeInv
  <1>1. EnteringInv'
    BY <1>0 DEF EnteringInv, Phases, VcrtUndo, Phase, Quiet
  <1>2. ~pcd["acrt"] /\ locks["acrt"] = 0 /\ heap
    BY <1>0 DEF VcrtUndo, Phase, VcrtBuilt, AllGone, AcrtBuilt, AcrtBare, LeftUp
  <1>3. /\ BuildingType' /\ halted' \in BOOLEAN
        /\ pcd'["acrt"] = pcd["acrt"] /\ locks'["acrt"] = locks["acrt"]
    <2>1. CASE DropPtd("vcrt")
      <3>1. pcd' = [pcd EXCEPT !["vcrt"] = FALSE] /\ UNCHANGED <<heap, locks>>
        BY <2>1 DEF DropPtd
      <3>2. halted' \in BOOLEAN
        BY <2>1 DEF DropPtd
      <3> QED
        BY <1>0, <3>1, <3>2, PcdFacts DEF Layers
    <2>2. CASE DropLocks("vcrt")
      BY <1>0, <2>2, DropLocksFacts DEF Layers, DropLocks
    <2>3. CASE heap' = FALSE /\ UNCHANGED <<locks, pcd, halted>>
      BY <1>0, <2>3 DEF BuildingType
    <2> QED
      BY <2>1, <2>2, <2>3 DEF VcrtUndo
  <1>4. AcrtBuilt'
    BY <1>0, <1>2, <1>3 DEF VcrtUndo, Phase, EnteringInv, AcrtBuilt, AcrtWhole, AcrtBare,
       Standing, Walking, LeftUp
  <1>5. VcrtBuilt'
    <2>1. CASE Phase("undo_vptd", "undo_vlocks") /\ DropPtd("vcrt")
      <3>1. ~pcd'["vcrt"] /\ UNCHANGED <<heap, locks>>
        BY <1>0, <2>1 DEF DropPtd, BuildingType, Layers
      <3>2. locks["vcrt"] = VcrtLocks
        BY <1>0, <2>1 DEF Phase, VcrtBuilt, VcrtWhole
      <3> QED
        BY <1>2, <2>1, <3>1, <3>2 DEF Phase, VcrtBuilt, VcrtWhole, AllGone, Standing, Walking, LeftUp
    <2>2. CASE Phase("undo_vlocks", "undo_heap") /\ DropLocks("vcrt")
      <3>1. locks'["vcrt"] = 0 /\ UNCHANGED <<heap, pcd>>
        BY <1>0, <2>2 DEF DropLocks, BuildingType, Layers
      <3>2. ~pcd["vcrt"]
        BY <1>0, <2>2 DEF Phase, VcrtBuilt
      <3> QED
        BY <1>2, <2>2, <3>1, <3>2 DEF Phase, VcrtBuilt, VcrtWhole, AllGone, Standing, Walking, LeftUp
    <2>3. CASE Phase("undo_heap", "ended") /\ heap' = FALSE /\ UNCHANGED <<locks, pcd>>
      <3>1. outcome # "xi_failed"
        BY <1>0, <2>3 DEF Phase, EnteringInv
      <3> QED
        BY <1>0, <2>3, <3>1 DEF Phase, VcrtUndo, VcrtBuilt, VcrtWhole, AllGone, Standing, Walking, LeftUp
    <2> QED
      BY <2>1, <2>2, <2>3 DEF VcrtUndo
  <1>6. ExitingType' /\ OneTerminator' /\ CexitTerminates'
    BY QuietExit DEF LifeInv, VcrtUndo, Phase, Quiet
  <1> QED
    BY <1>1, <1>3, <1>4, <1>5, <1>6 DEF LifeInv

(* The same, layer by layer. *)
LEMMA TakenAway ==
    ASSUME it \in 2 .. 5, halted \in BOOLEAN, BuildingType, Uninitialize(Table[it - 1])
    PROVE  /\ BuildingType' /\ halted' \in BOOLEAN
           /\ heap' = heap /\ locks'["vcrt"] = locks["vcrt"] /\ pcd'["vcrt"] = pcd["vcrt"]
           /\ it # 3 => locks'["acrt"] = locks["acrt"]
           /\ it = 3 => locks'["acrt"] = 0
           /\ it # 4 => pcd'["acrt"] = pcd["acrt"]
           /\ it = 4 => ~pcd'["acrt"]
  <1>1. halted' \in BOOLEAN /\ heap' = heap
    BY UninitializeFacts
  <1>2. CASE it = 3
    <2>1. locks' = [locks EXCEPT !["acrt"] = 0] /\ UNCHANGED <<heap, pcd>>
      BY <1>2, UninitializeFacts
    <2> QED
      BY <1>1, <1>2, <2>1, DropLocksFacts DEF Layers
  <1>3. CASE it = 4
    <2>1. pcd' = [pcd EXCEPT !["acrt"] = FALSE] /\ UNCHANGED <<heap, locks>>
      BY <1>3, UninitializeFacts
    <2>2. /\ BuildingType' /\ pcd'["acrt"] = FALSE
          /\ \A k \in Layers : k # "acrt" => pcd'[k] = pcd[k]
      BY <2>1, PcdFacts DEF Layers
    <2>3. pcd'["vcrt"] = pcd["vcrt"] /\ ~pcd'["acrt"]
      BY <2>2 DEF Layers
    <2> QED
      BY <1>1, <1>3, <2>1, <2>2, <2>3
  <1>4. CASE it \in {2, 5}
    <2>1. UNCHANGED <<heap, locks, pcd>>
      BY <1>4, UninitializeFacts
    <2> QED
      BY <1>1, <1>4, <2>1 DEF BuildingType
  <1> QED
    BY <1>2, <1>3, <1>4

(* Each round of the two loops down takes away what its entry has built. *)
LEMMA RollbackInv == LifeInv /\ Rollback => LifeInv'
  <1> SUFFICES ASSUME LifeInv, Rollback PROVE LifeInv'
    OBVIOUS
  <1>0. EnteringInv /\ BuildingType /\ VcrtBuilt /\ AcrtBuilt /\ halted \in BOOLEAN
    BY DEF LifeInv
  <1>1. /\ it > 1 /\ it' = it - 1 /\ pc = "rollback" /\ pc' = "rollback"
        /\ UNCHANGED <<hal, outcome, built, exiting>>
        /\ Uninitialize(Table[it - 1])
    BY DEF Rollback, Phase, Quiet
  <1>2. it \in 2 .. 5
    BY <1>0, <1>1 DEF EnteringInv
  <1>3. EnteringInv'
    BY <1>0, <1>1, <1>2 DEF EnteringInv
  <1>4. /\ BuildingType' /\ halted' \in BOOLEAN
        /\ heap' = heap /\ locks'["vcrt"] = locks["vcrt"] /\ pcd'["vcrt"] = pcd["vcrt"]
    BY <1>0, <1>1, <1>2, TakenAway
  <1>5. VcrtBuilt'
    BY <1>0, <1>1, <1>4 DEF VcrtBuilt, VcrtWhole, AllGone, Standing, Walking, LeftUp
  <1>6. AcrtBuilt'
    <2>1. CASE it = 2
      <3>1. it' = 1 /\ locks'["acrt"] = locks["acrt"] /\ pcd'["acrt"] = pcd["acrt"]
        BY <1>0, <1>1, <1>2, <2>1, TakenAway
      <3> QED
        BY <1>0, <1>1, <2>1, <3>1 DEF AcrtBuilt, AcrtWhole, AcrtBare, Standing, Walking, LeftUp
    <2>2. CASE it = 3
      <3>1. it' = 2 /\ locks'["acrt"] = 0 /\ pcd'["acrt"] = pcd["acrt"]
        BY <1>0, <1>1, <1>2, <2>2, TakenAway
      <3> QED
        BY <1>0, <1>1, <2>2, <3>1 DEF AcrtBuilt, AcrtWhole, AcrtBare, Standing, Walking, LeftUp
    <2>3. CASE it = 4
      <3>1. it' = 3 /\ locks'["acrt"] = locks["acrt"] /\ ~pcd'["acrt"]
        BY <1>0, <1>1, <1>2, <2>3, TakenAway
      <3> QED
        BY <1>0, <1>1, <2>3, <3>1 DEF AcrtBuilt, AcrtWhole, AcrtBare, Standing, Walking, LeftUp
    <2>4. CASE it = 5
      <3>1. it' = 4 /\ locks'["acrt"] = locks["acrt"] /\ pcd'["acrt"] = pcd["acrt"]
        BY <1>0, <1>1, <1>2, <2>4, TakenAway
      <3> QED
        BY <1>0, <1>1, <2>4, <3>1 DEF AcrtBuilt, AcrtWhole, AcrtBare, Standing, Walking, LeftUp
    <2> QED
      BY <1>2, <2>1, <2>2, <2>3, <2>4
  <1>7. ExitingType' /\ OneTerminator' /\ CexitTerminates'
    BY <1>1, QuietExit DEF LifeInv
  <1> QED
    BY <1>3, <1>4, <1>5, <1>6, <1>7 DEF LifeInv

LEMMA AcrtUninitializerInv == LifeInv /\ AcrtUninitializer => LifeInv'
  <1> SUFFICES ASSUME LifeInv, AcrtUninitializer PROVE LifeInv'
    OBVIOUS
  <1>0. EnteringInv /\ BuildingType /\ VcrtBuilt /\ AcrtBuilt /\ halted \in BOOLEAN
    BY DEF LifeInv
  <1>1. /\ it > 1 /\ it' = it - 1 /\ pc = "acrt_undo" /\ pc' = "acrt_undo"
        /\ UNCHANGED <<hal, outcome, built, exiting>>
        /\ Uninitialize(Table[it - 1])
    BY DEF AcrtUninitializer, Phase, Quiet
  <1>2. it \in 2 .. 5
    BY <1>0, <1>1 DEF EnteringInv
  <1>3. EnteringInv'
    BY <1>0, <1>1, <1>2 DEF EnteringInv
  <1>4. /\ BuildingType' /\ halted' \in BOOLEAN
        /\ heap' = heap /\ locks'["vcrt"] = locks["vcrt"] /\ pcd'["vcrt"] = pcd["vcrt"]
    BY <1>0, <1>1, <1>2, TakenAway
  <1>5. VcrtBuilt'
    BY <1>0, <1>1, <1>4 DEF VcrtBuilt, VcrtWhole, AllGone, Standing, Walking, LeftUp
  <1>6. AcrtBuilt'
    <2>1. CASE it = 2
      <3>1. it' = 1 /\ locks'["acrt"] = locks["acrt"] /\ pcd'["acrt"] = pcd["acrt"]
        BY <1>0, <1>1, <1>2, <2>1, TakenAway
      <3> QED
        BY <1>0, <1>1, <2>1, <3>1 DEF AcrtBuilt, AcrtWhole, AcrtBare, Standing, Walking, LeftUp
    <2>2. CASE it = 3
      <3>1. it' = 2 /\ locks'["acrt"] = 0 /\ pcd'["acrt"] = pcd["acrt"]
        BY <1>0, <1>1, <1>2, <2>2, TakenAway
      <3> QED
        BY <1>0, <1>1, <2>2, <3>1 DEF AcrtBuilt, AcrtWhole, AcrtBare, Standing, Walking, LeftUp
    <2>3. CASE it = 4
      <3>1. it' = 3 /\ locks'["acrt"] = locks["acrt"] /\ ~pcd'["acrt"]
        BY <1>0, <1>1, <1>2, <2>3, TakenAway
      <3> QED
        BY <1>0, <1>1, <2>3, <3>1 DEF AcrtBuilt, AcrtWhole, AcrtBare, Standing, Walking, LeftUp
    <2>4. CASE it = 5
      <3>1. it' = 4 /\ locks'["acrt"] = locks["acrt"] /\ pcd'["acrt"] = pcd["acrt"]
        BY <1>0, <1>1, <1>2, <2>4, TakenAway
      <3> QED
        BY <1>0, <1>1, <2>4, <3>1 DEF AcrtBuilt, AcrtWhole, AcrtBare, Standing, Walking, LeftUp
    <2> QED
      BY <1>2, <2>1, <2>2, <2>3, <2>4
  <1>7. ExitingType' /\ OneTerminator' /\ CexitTerminates'
    BY <1>1, QuietExit DEF LifeInv
  <1> QED
    BY <1>3, <1>4, <1>5, <1>6, <1>7 DEF LifeInv

(* One round of the loop up: an entry that fails leaves what is below it. *)
LEMMA AcrtInitializerInv == LifeInv /\ AcrtInitializer => LifeInv'
  <1> SUFFICES ASSUME LifeInv, AcrtInitializer PROVE LifeInv'
    OBVIOUS
  <1>0. EnteringInv /\ BuildingType /\ VcrtBuilt /\ AcrtBuilt /\ halted \in BOOLEAN
    BY DEF LifeInv
  <1>1. UNCHANGED <<hal, outcome, built, exiting>>
    BY DEF AcrtInitializer, Quiet
  <1>2. it \in 1 .. 4
    <2>1. it <= Len(Table)
      BY DEF AcrtInitializer
    <2> QED
      BY <1>0, <2>1, TableLength DEF EnteringInv
  <1>3. CASE it \in {1, 4}
    <2>1. Table[it] \in {"pointers", "c"}
      BY <1>3, TableFacts
    <2>2. pc = "acrt" /\ pc' = "acrt" /\ it' = it + 1 /\ UNCHANGED <<building, halted>>
      BY <2>1 DEF AcrtInitializer, Phase
    <2>3. EnteringInv' /\ BuildingType' /\ halted' \in BOOLEAN
      BY <1>0, <1>1, <1>2, <2>2 DEF EnteringInv, BuildingType, building
    <2>4. VcrtBuilt'
      BY <1>0, <1>1, <2>2 DEF VcrtBuilt, VcrtWhole, AllGone, Standing, Walking, LeftUp, building
    <2>5. AcrtBuilt'
      BY <1>0, <1>3, <2>2 DEF AcrtBuilt, AcrtWhole, AcrtBare, Standing, Walking, LeftUp, building
    <2> QED
      BY <1>1, <2>2, <2>3, <2>4, <2>5, QuietExit DEF LifeInv
  <1>4. CASE it = 2
    <2>1. Table[it] = "locks"
      BY <1>4, TableFacts
    <2>2. /\ pc = "acrt" /\ UNCHANGED halted
          /\ \/ MakeLock("acrt") /\ pc' = "acrt" /\ it' = 2
             \/ MakeLockFails("acrt") /\ pc' = "rollback" /\ it' = 2
             \/ /\ locks["acrt"] = AcrtLocks /\ pc' = "acrt" /\ it' = 3
                /\ UNCHANGED building
      BY <1>4, <2>1 DEF AcrtInitializer, Phase
    <2>3. /\ BuildingType' /\ UNCHANGED <<heap, pcd>> /\ locks'["vcrt"] = locks["vcrt"]
          /\ pc' = "rollback" => locks'["acrt"] = 0
          /\ it' = 3 => locks'["acrt"] = AcrtLocks
      <3>1. CASE MakeLock("acrt") /\ pc' = "acrt" /\ it' = 2
        BY <1>0, <3>1, MakeLockFacts DEF Layers
      <3>2. CASE MakeLockFails("acrt") /\ it' = 2
        BY <1>0, <3>2, DropLocksFacts DEF Layers, MakeLockFails
      <3>3. CASE locks["acrt"] = AcrtLocks /\ pc' = "acrt" /\ UNCHANGED building
        BY <1>0, <3>3 DEF BuildingType, building
      <3> QED
        BY <2>2, <3>1, <3>2, <3>3
    <2>4. pc' \in {"acrt", "rollback"} /\ it' \in {2, 3} /\ (pc' = "rollback" => it' = 2)
      BY <2>2
    <2>5. EnteringInv'
      BY <1>0, <1>1, <2>2, <2>4 DEF EnteringInv, Phases
    <2>6. VcrtBuilt'
      BY <1>0, <2>2, <2>3, <2>4 DEF VcrtBuilt, VcrtWhole, AllGone, Standing, Walking, LeftUp
    <2>7. AcrtBuilt'
      BY <1>0, <1>4, <2>2, <2>3, <2>4
      DEF AcrtBuilt, AcrtWhole, AcrtBare, Standing, Walking, LeftUp
    <2>8. halted' \in BOOLEAN
      BY <1>0, <2>2
    <2> QED
      BY <1>1, <2>3, <2>4, <2>5, <2>6, <2>7, <2>8, QuietExit DEF LifeInv
  <1>5. CASE it = 3
    <2>1. Table[it] = "ptd"
      BY <1>5, TableFacts
    <2>2. /\ pc = "acrt"
          /\ \/ MakePtd("acrt") /\ pc' = "acrt" /\ it' = 4 /\ halted' = halted
             \/ UNCHANGED building /\ pc' = "rollback" /\ it' = 3 /\ halted' = halted
             \/ UNCHANGED building /\ pc' = "acrt" /\ it' = 3 /\ halted' = TRUE
      BY <1>5, <2>1 DEF AcrtInitializer, Phase, MakePtdFails, MakePtdBreaks
    <2>3. /\ BuildingType' /\ UNCHANGED <<heap, locks>> /\ pcd'["vcrt"] = pcd["vcrt"]
          /\ IF it' = 4 THEN pcd'["acrt"] = TRUE ELSE pcd' = pcd
      <3>1. CASE MakePtd("acrt") /\ it' = 4
        BY <1>0, <3>1, PcdFacts DEF Layers, MakePtd
      <3>2. CASE UNCHANGED building /\ it' = 3
        BY <1>0, <3>2 DEF BuildingType, building
      <3> QED
        BY <2>2, <3>1, <3>2
    <2>4. pc' \in {"acrt", "rollback"} /\ it' \in {3, 4} /\ (pc' = "rollback" => it' = 3)
      BY <2>2
    <2>5. EnteringInv'
      BY <1>0, <1>1, <2>2, <2>4 DEF EnteringInv, Phases
    <2>6. VcrtBuilt'
      BY <1>0, <2>2, <2>3, <2>4 DEF VcrtBuilt, VcrtWhole, AllGone, Standing, Walking, LeftUp
    <2>7. AcrtBuilt'
      BY <1>0, <1>5, <2>2, <2>3, <2>4
      DEF AcrtBuilt, AcrtWhole, AcrtBare, Standing, Walking, LeftUp
    <2>8. halted' \in BOOLEAN
      BY <1>0, <2>2
    <2> QED
      BY <1>1, <2>3, <2>4, <2>5, <2>6, <2>7, <2>8, QuietExit DEF LifeInv
  <1> QED
    BY <1>2, <1>3, <1>4, <1>5

LEMMA ConstructInv == LifeInv /\ Construct => LifeInv'
  <1> SUFFICES ASSUME LifeInv, Construct PROVE LifeInv'
    OBVIOUS
  <1>0. EnteringInv /\ BuildingType /\ VcrtBuilt /\ AcrtBuilt /\ halted \in BOOLEAN
    BY DEF LifeInv
  <1>1. EnteringInv'
    BY <1>0, CrtAssumption, TableLength DEF EnteringInv, Phases, Construct, Phase
  <1>2. BuildingType' /\ halted' \in BOOLEAN
    BY <1>0 DEF BuildingType, building, Construct, Phase
  <1>3. VcrtBuilt'
    BY <1>0 DEF VcrtBuilt, VcrtWhole, AllGone, Standing, Walking, LeftUp, building,
       Construct, Phase
  <1>4. AcrtBuilt'
    BY <1>0 DEF AcrtBuilt, AcrtWhole, AcrtBare, Standing, Walking, LeftUp, building,
       Construct, Phase
  <1>5. ExitingType' /\ OneTerminator' /\ CexitTerminates'
    <2> DEFINE registering == [Idle EXCEPT !.step = "atexit"]
    <2>1. /\ pc = "xc" /\ pc' = "xc" /\ call[Entry].step = "none"
          /\ call' = [call EXCEPT ![Entry] = registering]
          /\ UNCHANGED <<exitLock, complete, atexits, destroyed, terminated>>
      BY DEF Construct, Phase
    <2>2. registering.step = "atexit"
          /\ registering \in [step : Steps, cleanup : Cleanups, ends : BOOLEAN]
      BY DEF Idle, Steps, Cleanups
    <2> HIDE DEF registering
    <2> QED
      BY <2>1, <2>2, CrtAssumption DEF LifeInv, ExitingType, OneTerminator, CexitTerminates, Threads
  <1> QED
    BY <1>1, <1>2, <1>3, <1>4, <1>5 DEF LifeInv

LEMMA CallCexitInv == LifeInv /\ CallCexit => LifeInv'
  <1> SUFFICES ASSUME LifeInv, CallCexit PROVE LifeInv'
    OBVIOUS
  <1>0. EnteringInv /\ BuildingType /\ VcrtBuilt /\ AcrtBuilt /\ halted \in BOOLEAN
    BY DEF LifeInv
  <1>1. EnteringInv'
    BY <1>0, CrtAssumption, TableLength DEF EnteringInv, Phases, CallCexit, Phase
  <1>2. BuildingType' /\ halted' \in BOOLEAN
    BY <1>0 DEF BuildingType, building, CallCexit, Phase
  <1>3. VcrtBuilt'
    BY <1>0 DEF VcrtBuilt, VcrtWhole, AllGone, Standing, Walking, LeftUp, building,
       CallCexit, Phase
  <1>4. AcrtBuilt'
    BY <1>0 DEF AcrtBuilt, AcrtWhole, AcrtBare, Standing, Walking, LeftUp, building,
       CallCexit, Phase
  <1>5. ExitingType' /\ OneTerminator' /\ CexitTerminates'
    <2>1. /\ pc' = "cexit_done" /\ call[Entry].step = "none"
          /\ call' = [call EXCEPT ![Entry] = [step |-> "enter", cleanup |-> "full", ends |-> FALSE]]
          /\ UNCHANGED <<exitLock, complete, atexits, destroyed, terminated>>
      BY DEF CallCexit, Phase
    <2> QED
      BY <2>1, CrtAssumption DEF LifeInv, ExitingType, OneTerminator, CexitTerminates, Threads,
         Steps, Cleanups
  <1> QED
    BY <1>1, <1>2, <1>3, <1>4, <1>5 DEF LifeInv

(***************************************************************************)
(* The exit functions, called by any thread.                               *)
(***************************************************************************)
LEMMA SameLayers ==
    ASSUME LifeInv, UNCHANGED <<hal, entering, building>>
    PROVE  EnteringInv' /\ BuildingType' /\ VcrtBuilt' /\ AcrtBuilt'
  <1>1. EnteringInv' /\ BuildingType'
    BY DEF LifeInv, EnteringInv, BuildingType, entering, building
  <1>2. VcrtBuilt' /\ AcrtBuilt'
    BY DEF LifeInv, VcrtBuilt, VcrtWhole, AllGone, AcrtBuilt, AcrtWhole, AcrtBare, LeftUp,
       entering, building
  <1> QED
    BY <1>1, <1>2

(* A call moves on to its next step; the others stay where they are. *)
LEMMA CallFacts ==
    ASSUME NEW t \in Threads, NEW from, NEW to \in Steps, ExitingType, Calling(t, from, to)
    PROVE  /\ call' \in [Threads -> [step : Steps, cleanup : Cleanups, ends : BOOLEAN]]
           /\ call[t].step = from /\ call'[t].step = to
           /\ \A u \in Threads : u # t => call'[u] = call[u]
           /\ UNCHANGED <<hal, entering, building>> /\ ~halted
  BY DEF Calling, ExitingType

(* The lock is taken from nobody, or by its owner. *)
LEMMA LockExitFacts ==
    ASSUME NEW t \in Threads, LockExit(t)
    PROVE  exitLock \in {Nobody, t} /\ exitLock' = t
  BY DEF LockExit

LEMMA CallAtExitInv == \A t \in Threads : LifeInv /\ CallAtExit(t) => LifeInv'
  <1> SUFFICES ASSUME NEW t \in Threads, LifeInv, CallAtExit(t) PROVE LifeInv'
    OBVIOUS
  <1>0. ExitingType /\ OneTerminator /\ CexitTerminates /\ halted \in BOOLEAN
    BY DEF LifeInv
  <1>1. /\ Calling(t, "none", "atexit")
        /\ UNCHANGED <<exitLock, complete, atexits, destroyed, terminated, halted>>
    BY DEF CallAtExit
  <1>2. /\ call' \in [Threads -> [step : Steps, cleanup : Cleanups, ends : BOOLEAN]]
        /\ call[t].step = "none" /\ call'[t].step = "atexit"
        /\ \A u \in Threads : u # t => call'[u] = call[u]
        /\ UNCHANGED <<hal, entering, building>>
    BY <1>0, <1>1, CallFacts DEF Steps
  <1>3. EnteringInv' /\ BuildingType' /\ VcrtBuilt' /\ AcrtBuilt'
    BY <1>2, SameLayers
  <1>4. ExitingType' /\ halted' \in BOOLEAN
    BY <1>0, <1>1, <1>2 DEF ExitingType
  <1>5. OneTerminator'
    BY <1>0, <1>1, <1>2 DEF OneTerminator, ExitingType
  <1>6. CexitTerminates'
    BY <1>0, <1>1, <1>2 DEF CexitTerminates, CallAtExit, MayCall, entering, Threads
  <1> QED
    BY <1>3, <1>4, <1>5, <1>6 DEF LifeInv

LEMMA CallExitInv == \A t \in Threads : LifeInv /\ CallExit(t) => LifeInv'
  <1> SUFFICES ASSUME NEW t \in Threads, LifeInv, CallExit(t) PROVE LifeInv'
    OBVIOUS
  <1>0. ExitingType /\ OneTerminator /\ CexitTerminates /\ halted \in BOOLEAN
    BY DEF LifeInv
  <1>1. /\ MayCall(t) /\ call[t].step = "none"
        /\ UNCHANGED <<hal, entering, building, exitLock, complete, atexits, destroyed,
                       terminated, halted>>
    BY DEF CallExit
  <1>2. PICK c \in Cleanups, e \in BOOLEAN :
            call' = [call EXCEPT ![t] = [step |-> "enter", cleanup |-> c, ends |-> e]]
    BY DEF CallExit
  <1>3. /\ call' \in [Threads -> [step : Steps, cleanup : Cleanups, ends : BOOLEAN]]
        /\ call'[t].step = "enter"
        /\ \A u \in Threads : u # t => call'[u] = call[u]
    BY <1>0, <1>2 DEF ExitingType, Steps
  <1>4. EnteringInv' /\ BuildingType' /\ VcrtBuilt' /\ AcrtBuilt'
    BY <1>1, SameLayers
  <1>5. ExitingType' /\ halted' \in BOOLEAN
    BY <1>0, <1>1, <1>3 DEF ExitingType
  <1>6. OneTerminator'
    BY <1>0, <1>1, <1>3 DEF OneTerminator, ExitingType
  <1>7. CexitTerminates'
    BY <1>0, <1>1, <1>3 DEF CexitTerminates, MayCall, entering, Threads
  <1> QED
    BY <1>4, <1>5, <1>6, <1>7 DEF LifeInv

LEMMA AtExitInv == \A t \in Threads : LifeInv /\ AtExit(t) => LifeInv'
  <1> SUFFICES ASSUME NEW t \in Threads, LifeInv, AtExit(t) PROVE LifeInv'
    OBVIOUS
  <1>0. ExitingType /\ OneTerminator /\ CexitTerminates /\ halted \in BOOLEAN
    BY DEF LifeInv
  <1>1. /\ Calling(t, "atexit", "none") /\ LockExit(t)
        /\ UNCHANGED <<complete, destroyed, terminated, halted>>
    BY DEF AtExit
  <1>2. /\ call' \in [Threads -> [step : Steps, cleanup : Cleanups, ends : BOOLEAN]]
        /\ call[t].step = "atexit" /\ call'[t].step = "none"
        /\ \A u \in Threads : u # t => call'[u] = call[u]
        /\ UNCHANGED <<hal, entering, building>>
    BY <1>0, <1>1, CallFacts DEF Steps
  <1>3. exitLock \in {Nobody, t} /\ exitLock' = t
    BY <1>1, LockExitFacts
  <1>4. atexits' \in Nat
    BY <1>0 DEF AtExit, Recalloc, ExitingType
  <1>5. EnteringInv' /\ BuildingType' /\ VcrtBuilt' /\ AcrtBuilt'
    BY <1>2, SameLayers
  <1>6. ExitingType' /\ halted' \in BOOLEAN
    BY <1>0, <1>1, <1>2, <1>3, <1>4 DEF ExitingType
  <1>7. OneTerminator'
    BY <1>0, <1>1, <1>2, <1>3, CrtAssumption DEF OneTerminator, ExitingType, Threads
  <1>8. CexitTerminates'
    BY <1>0, <1>1, <1>2 DEF CexitTerminates, entering, Threads
  <1> QED
    BY <1>5, <1>6, <1>7, <1>8 DEF LifeInv

(* The first to take the lock goes on to the terminators; nobody else does. *)
LEMMA EnterExitInv == \A t \in Threads : LifeInv /\ EnterExit(t) => LifeInv'
  <1> SUFFICES ASSUME NEW t \in Threads, LifeInv, EnterExit(t) PROVE LifeInv'
    OBVIOUS
  <1>0. ExitingType /\ OneTerminator /\ CexitTerminates /\ halted \in BOOLEAN
    BY DEF LifeInv
  <1> DEFINE to == IF complete THEN "leave"
                   ELSE IF call[t].cleanup = "no" THEN "terminate" ELSE "execute"
  <1>1. /\ Calling(t, "enter", to) /\ LockExit(t) /\ complete' = TRUE
        /\ UNCHANGED <<atexits, destroyed, terminated, halted>>
    BY DEF EnterExit
  <1>2. /\ to \in Steps /\ (complete => to = "leave")
        /\ ~complete => to \in {"execute", "terminate"}
    BY DEF Steps
  <1> HIDE DEF to
  <1>3. /\ call' \in [Threads -> [step : Steps, cleanup : Cleanups, ends : BOOLEAN]]
        /\ call[t].step = "enter" /\ call'[t].step = to
        /\ \A u \in Threads : u # t => call'[u] = call[u]
        /\ UNCHANGED <<hal, entering, building>>
    BY <1>0, <1>1, <1>2, CallFacts
  <1>4. exitLock \in {Nobody, t} /\ exitLock' = t /\ t # Nobody
    BY <1>1, LockExitFacts, CrtAssumption DEF Threads
  <1>5. EnteringInv' /\ BuildingType' /\ VcrtBuilt' /\ AcrtBuilt'
    BY <1>3, SameLayers
  <1>6. ExitingType' /\ halted' \in BOOLEAN
    BY <1>0, <1>1, <1>3, <1>4 DEF ExitingType
  <1>7. \A u \in Threads : call'[u].step \in {"execute", "terminate", "leave"} => u = t
    BY <1>0, <1>3, <1>4, CrtAssumption DEF OneTerminator, Threads
  <1>8. OneTerminator'
    <2>1. CASE complete
      <3>1. exitLock = t /\ terminated = 1
        BY <1>0, <1>3, <1>4, <2>1 DEF OneTerminator
      <3> QED
        BY <1>1, <1>2, <1>3, <1>4, <1>7, <2>1, <3>1 DEF OneTerminator
    <2>2. CASE ~complete
      BY <1>0, <1>1, <1>2, <1>3, <1>4, <1>7, <2>2 DEF OneTerminator
    <2> QED
      BY <2>1, <2>2
  <1>9. CexitTerminates'
    BY <1>0, <1>1, <1>2, <1>3 DEF CexitTerminates, entering, Threads
  <1> QED
    BY <1>5, <1>6, <1>8, <1>9 DEF LifeInv

LEMMA ExecuteTableInv == \A t \in Threads : LifeInv /\ ExecuteTable(t) => LifeInv'
  <1> SUFFICES ASSUME NEW t \in Threads, LifeInv, ExecuteTable(t) PROVE LifeInv'
    OBVIOUS
  <1>0. ExitingType /\ OneTerminator /\ CexitTerminates /\ halted \in BOOLEAN
    BY DEF LifeInv
  <1>1. /\ Calling(t, "execute", "terminate") /\ LockExit(t)
        /\ UNCHANGED <<complete, terminated, halted>>
    BY DEF ExecuteTable
  <1>2. /\ call' \in [Threads -> [step : Steps, cleanup : Cleanups, ends : BOOLEAN]]
        /\ call[t].step = "execute" /\ call'[t].step = "terminate"
        /\ \A u \in Threads : u # t => call'[u] = call[u]
        /\ UNCHANGED <<hal, entering, building>>
    BY <1>0, <1>1, CallFacts DEF Steps
  <1>3. exitLock = t /\ exitLock' = t
    BY <1>0, <1>1, <1>2, LockExitFacts DEF OneTerminator
  <1>4. atexits' \in Nat /\ destroyed' \in Nat
    BY <1>0 DEF ExecuteTable, ExitingType
  <1>5. EnteringInv' /\ BuildingType' /\ VcrtBuilt' /\ AcrtBuilt'
    BY <1>2, SameLayers
  <1>6. ExitingType' /\ halted' \in BOOLEAN
    BY <1>0, <1>1, <1>2, <1>3, <1>4 DEF ExitingType
  <1>7. OneTerminator'
    BY <1>0, <1>1, <1>2, <1>3 DEF OneTerminator
  <1>8. CexitTerminates'
    BY <1>0, <1>1, <1>2 DEF CexitTerminates, entering, Threads
  <1> QED
    BY <1>5, <1>6, <1>7, <1>8 DEF LifeInv

LEMMA RunTerminatorsInv == \A t \in Threads : LifeInv /\ RunTerminators(t) => LifeInv'
  <1> SUFFICES ASSUME NEW t \in Threads, LifeInv, RunTerminators(t) PROVE LifeInv'
    OBVIOUS
  <1>0. ExitingType /\ OneTerminator /\ CexitTerminates /\ halted \in BOOLEAN
    BY DEF LifeInv
  <1>1. /\ Calling(t, "terminate", "leave") /\ terminated' = terminated + 1
        /\ UNCHANGED <<exitLock, complete, atexits, destroyed, halted>>
    BY DEF RunTerminators
  <1>2. /\ call' \in [Threads -> [step : Steps, cleanup : Cleanups, ends : BOOLEAN]]
        /\ call[t].step = "terminate" /\ call'[t].step = "leave"
        /\ \A u \in Threads : u # t => call'[u] = call[u]
        /\ UNCHANGED <<hal, entering, building>>
    BY <1>0, <1>1, CallFacts DEF Steps
  <1>3. exitLock = t /\ complete /\ terminated = 0
    BY <1>0, <1>2 DEF OneTerminator
  <1>4. EnteringInv' /\ BuildingType' /\ VcrtBuilt' /\ AcrtBuilt'
    BY <1>2, SameLayers
  <1>5. ExitingType' /\ halted' \in BOOLEAN
    BY <1>0, <1>1, <1>2, <1>3 DEF ExitingType
  <1>6. OneTerminator'
    BY <1>0, <1>1, <1>2, <1>3 DEF OneTerminator
  <1>7. CexitTerminates'
    BY <1>0, <1>1, <1>2, <1>3 DEF CexitTerminates, entering, Threads
  <1> QED
    BY <1>4, <1>5, <1>6, <1>7 DEF LifeInv

(* A call returns when the terminators have run, by it or before it. *)
LEMMA LeaveExitInv == \A t \in Threads : LifeInv /\ LeaveExit(t) => LifeInv'
  <1> SUFFICES ASSUME NEW t \in Threads, LifeInv, LeaveExit(t) PROVE LifeInv'
    OBVIOUS
  <1>0. ExitingType /\ OneTerminator /\ CexitTerminates /\ halted \in BOOLEAN
    BY DEF LifeInv
  <1>1. /\ Calling(t, "leave", "none") /\ halted' = call[t].ends
        /\ UNCHANGED <<exitLock, complete, atexits, destroyed, terminated>>
    BY DEF LeaveExit
  <1>2. /\ call' \in [Threads -> [step : Steps, cleanup : Cleanups, ends : BOOLEAN]]
        /\ call[t].step = "leave" /\ call'[t].step = "none"
        /\ \A u \in Threads : u # t => call'[u] = call[u]
        /\ UNCHANGED <<hal, entering, building>>
    BY <1>0, <1>1, CallFacts DEF Steps
  <1>3. exitLock = t /\ complete /\ terminated = 1
    BY <1>0, <1>2 DEF OneTerminator
  <1>4. EnteringInv' /\ BuildingType' /\ VcrtBuilt' /\ AcrtBuilt'
    BY <1>2, SameLayers
  <1>5. ExitingType' /\ halted' \in BOOLEAN
    BY <1>0, <1>1, <1>2 DEF ExitingType
  <1>6. OneTerminator'
    BY <1>0, <1>1, <1>2, <1>3 DEF OneTerminator
  <1>7. CexitTerminates'
    BY <1>0, <1>1, <1>2, <1>3 DEF CexitTerminates, entering, Threads
  <1> QED
    BY <1>4, <1>5, <1>6, <1>7 DEF LifeInv

-----------------------------------------------------------------------------
LEMMA NextInv == LifeInv /\ [Next]_vars => LifeInv'
  <1> SUFFICES ASSUME LifeInv, [Next]_vars PROVE LifeInv'
    OBVIOUS
  <1>1. CASE Building
    BY <1>1, HeapInitInv, VcrtLockInv, VcrtPtdInv, AcrtInitializerInv, AcrtReadyInv, RollbackInv,
       RollbackDoneInv, CInitializersInv, ConstructInv, InvokeMainInv DEF Building
  <1>2. CASE Ending
    BY <1>2, CallCexitInv, CexitReturnedInv, AcrtUninitializerInv, AcrtDownInv, VcrtUndoInv
    DEF Ending
  <1>3. CASE MainReturns \/ Shutdown
    BY <1>3, MainReturnsInv, ShutdownInv
  <1>4. CASE \E t \in Threads : CallAtExit(t) \/ CallExit(t) \/ InCall(t)
    BY <1>4, CallAtExitInv, CallExitInv, AtExitInv, EnterExitInv, ExecuteTableInv,
       RunTerminatorsInv, LeaveExitInv DEF InCall
  <1>5. CASE UNCHANGED vars
    <2>1. EnteringInv' /\ BuildingType' /\ VcrtBuilt' /\ AcrtBuilt'
      BY <1>5, SameLayers DEF vars
    <2>2. ExitingType' /\ OneTerminator' /\ CexitTerminates'
      BY <1>5, QuietExit DEF vars, entering, LifeInv
    <2> QED
      BY <1>5, <2>1, <2>2 DEF vars, LifeInv
  <1> QED
    BY <1>1, <1>2, <1>3, <1>4, <1>5 DEF Next

(***************************************************************************)
(* For every phase of the entry thread LifeInv gives what exists, whatever *)
(* fails on the way and whatever the other threads call (sys_common.inl,   *)
(* shared_initialization.cpp, exit.cpp).                                   *)
(***************************************************************************)
THEOREM LifeInvariant == Spec => []LifeInv
  BY InitInv, NextInv, PTL DEF Spec

(* The state of the entry thread, of the layers and of the exit lock is typed. *)
THEOREM LifeTypeCorrect == Spec => []TypeOK
  <1>1. LifeInv => TypeOK
    BY TableEnd DEF LifeInv, EnteringInv, BuildingType, ExitingType, TypeOK
  <1> QED
    BY <1>1, LifeInvariant, PTL

(***************************************************************************)
(* With any number of locks, and at any failure: the AppCRT's thread data  *)
(* and locks stand on a complete VCRuntime, and everything on the heap     *)
(* (the order of __acrt_initializers and of __vcrt_initialize).            *)
(***************************************************************************)
THEOREM LayersNestHolds == Spec => []LayersNest
  <1>1. LifeInv => LayersNest
    <2> SUFFICES ASSUME LifeInv PROVE LayersNest
      OBVIOUS
    <2>1. /\ pc \in Phases /\ it \in 1 .. 5
          /\ pc \in {"heap", "vlocks", "vptd"} => it = 1
          /\ locks["acrt"] \in Nat /\ locks["vcrt"] \in Nat
          /\ VcrtBuilt /\ AcrtBuilt
      BY DEF LifeInv, EnteringInv, BuildingType, Layers
    <2>2. pcd["acrt"] => locks["acrt"] = AcrtLocks
      BY <2>1 DEF AcrtBuilt, AcrtWhole, AcrtBare, Standing, Walking, LeftUp, Phases
    <2>3. locks["acrt"] > 0 => pcd["vcrt"]
      BY <2>1 DEF AcrtBuilt, AcrtBare, VcrtBuilt, VcrtWhole, Standing, Walking, LeftUp, Phases
    <2>4. pcd["vcrt"] => locks["vcrt"] = VcrtLocks
      BY <2>1 DEF VcrtBuilt, VcrtWhole, AllGone, Standing, Walking, LeftUp, Phases
    <2>5. locks["vcrt"] > 0 => heap
      BY <2>1 DEF VcrtBuilt
    <2> QED
      BY <2>2, <2>3, <2>4, <2>5 DEF LayersNest
  <1> QED
    BY <1>1, LifeInvariant, PTL

(***************************************************************************)
(* Once the entry thread has returned nothing is left, unless a .CRT$XI    *)
(* initializer failed (__scrt_common_main_seh, __scrt_common_exit).        *)
(***************************************************************************)
THEOREM EndsCleanHolds == Spec => []EndsClean
  <1>1. LifeInv => EndsClean
    BY DEF LifeInv, EndsClean, VcrtBuilt, AllGone, AcrtBuilt, AcrtBare, LeftUp, Layers
  <1> QED
    BY <1>1, LifeInvariant, PTL

(***************************************************************************)
(* However many threads call the exit functions, the terminators run once, *)
(* and before the AppCRT is taken down (common_exit).                      *)
(***************************************************************************)
THEOREM TerminatedOnceHolds == Spec => []TerminatedOnce
  <1>1. LifeInv => TerminatedOnce
    BY DEF LifeInv, ExitingType, OneTerminator, CexitTerminates, TerminatedOnce
  <1> QED
    BY <1>1, LifeInvariant, PTL
=============================================================================
