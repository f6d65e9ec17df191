------------------------- MODULE ExceptionPtrProofs -------------------------
(***************************************************************************)
(* What holds of exception_ptr for any number of threads, pointers, blocks *)
(* and exceptions.                                                         *)
(*                                                                         *)
(* PointersRight is not inductive by itself.  PtrInv adds that a call      *)
(* which copies an exception is the only one that will set its pointer,    *)
(* which is null until then, that the block it fills holds no exception    *)
(* yet, and that a call which ends a block has it alone.                   *)
(***************************************************************************)
EXTENDS ExceptionPtr, FiniteSetTheorems, TLAPS

All == Blocks \cup Statics
Throwables == Exceptions \cup Statics

Calls ==
    {Idle} \cup [at : {"release"}, b : All] \cup [at : {"destroy", "delete"}, b : Blocks]
    \cup [at : {"copy", "recopy"}, p : Pointers, b : Blocks, ex : Throwables]
    \cup [at : {"raise"}, p : Pointers, ex : Throwables]

PtrType ==
    /\ ptr \in [Pointers -> All \cup {Null, Unborn}]
    /\ uses \in [All -> Int]
    /\ rep \in [Blocks -> {Free} \cup [size : Nat, ex : Throwables \cup {None}]]
    /\ call \in [Threads -> Calls]
    /\ handled \in [Threads -> Throwables \cup {None}]

Copies(t) == call[t].at \in {"copy", "recopy"}

(* A call that copies will be the only one to set its null pointer. *)
Targets ==
    \A t \in Threads : Copies(t) =>
        /\ ptr[call[t].p] = Null
        /\ \A u \in Threads \ {t} : Copies(u) => call[u].p # call[t].p

(* A call that fills or ends a block has it alone. *)
Alone ==
    \A t \in Threads : call[t].at \in {"copy", "recopy", "destroy", "delete"} =>
        /\ Holders(call[t].b) = {}
        /\ \A u \in Threads \ {t} :
              call[u].at \in {"copy", "recopy", "destroy", "delete"} => call[u].b # call[t].b
        /\ rep[call[t].b] # Free
        /\ Copies(t) => rep[call[t].b].ex = None /\ call[t].ex.size <= rep[call[t].b].size
        /\ call[t].at = "delete" => call[t].b \notin objects

(* A block that nobody has is free. *)
NothingLost ==
    \A b \in Blocks :
        rep[b] # Free /\ Holders(b) = {} =>
            \E t \in Threads : call[t].at \in {"copy", "recopy", "destroy", "delete"} /\ call[t].b = b

Fits == \A b \in Blocks : rep[b].ex # None /\ rep[b].ex.kind = "cxx" => rep[b].ex.size <= rep[b].size

PtrInv == PtrType /\ CountsExact /\ Targets /\ Alone /\ NothingLost /\ ObjectsKept /\ Fits

-----------------------------------------------------------------------------
(* Who holds a block is a finite set. *)
LEMMA HoldersFinite ==
  ASSUME PtrAssumption, NEW b
  PROVE  IsFiniteSet(Holders(b))
  <1>1. Holders(b) \subseteq Pointers \cup Threads
    BY DEF Holders
  <1>2. IsFiniteSet(Pointers \cup Threads)
    BY FS_Union DEF PtrAssumption
  <1> QED BY <1>1, <1>2, FS_Subset

(* What PtrInv implies of the properties in terms of numbers of owners. *)
LEMMA InvImplies == ASSUME PtrAssumption, PtrInv PROVE PointersRight
  <1>1. ASSUME NEW b \in Blocks
        PROVE  LET owners == (IF Holders(b) = {} THEN {} ELSE {"holders"}) \cup Makers(b) \cup Enders(b)
               IN  Cardinality(owners) = IF rep[b] = Free THEN 0 ELSE 1
    <2> DEFINE busy == Makers(b) \cup Enders(b)
    <2>1. \A t \in Threads : t \in busy <=>
              call[t].at \in {"copy", "recopy", "destroy", "delete"} /\ call[t].b = b
      BY DEF Makers, Enders
    <2>2. busy \subseteq Threads
      BY DEF Makers, Enders
    <2> HIDE DEF busy
    <2>3. CASE rep[b] = Free
      <3>1. Holders(b) = {}
        BY <2>3 DEF PtrInv, ObjectsKept, Free
      <3>2. busy = {}
        BY <2>1, <2>2, <2>3 DEF PtrInv, Alone
      <3> QED BY <3>1, <3>2, <2>3, FS_EmptySet DEF busy
    <2>4. CASE rep[b] # Free /\ Holders(b) # {}
      <3>1. busy = {}
        BY <2>1, <2>2, <2>4 DEF PtrInv, Alone
      <3> QED BY <3>1, <2>4, FS_Singleton DEF busy
    <2>5. CASE rep[b] # Free /\ Holders(b) = {}
      <3>1. \E t \in Threads : busy = {t}
        BY <2>1, <2>2, <2>5 DEF PtrInv, Alone, NothingLost
      <3> QED BY <3>1, <2>5, FS_Singleton DEF busy
    <2> QED BY <2>3, <2>4, <2>5
  <1>2. ObjectsFit
    BY DEF PtrInv, Fits, Alone, ObjectsFit, Makers, Copies
  <1> QED BY <1>1, <1>2 DEF PtrInv, PointersRight, BlocksOwned

LEMMA InitInv == ASSUME PtrAssumption, PtrInit PROVE PtrInv
  <1>1. \A b \in All : Holders(b) = {}
    BY DEF PtrInit, Holders, Idle, PtrAssumption, All
  <1>2. CountsExact
    BY <1>1, FS_EmptySet DEF PtrInit, CountsExact, All, PtrAssumption
  <1>3. PtrType
    BY DEF PtrInit, PtrType, Calls, All, PtrAssumption
  <1>4. Targets /\ Alone
    BY DEF PtrInit, Targets, Alone, Copies, Idle
  <1>5. NothingLost /\ ObjectsKept /\ Fits
    BY <1>1 DEF PtrInit, NothingLost, ObjectsKept, Fits, Free, All
  <1> QED BY <1>2, <1>3, <1>4, <1>5 DEF PtrInv

-----------------------------------------------------------------------------
(* The end and the beginning of a copy, for all the places in the code that  *)
(* come to it: p is a pointer that t sets, and what t allocated for it is    *)
(* free, or t is about to fill it again.                                     *)

Ready(t, p) ==
    /\ call[t] = Idle \/ (Copies(t) /\ call[t].p = p)
    /\ ptr[p] = Null
    /\ \A u \in Threads \ {t} : Copies(u) => call[u].p # p

Released(t) == IF call[t] = Idle THEN rep ELSE [rep EXCEPT ![call[t].b] = Free]

SameBlocks(objs) == \A b \in Blocks : b \in objs <=> b \in objects

(* The pointer that is set is the one new holder. *)
LEMMA SettingHolders ==
  ASSUME PtrAssumption, PtrInv, NEW t \in Threads, NEW p \in Pointers, Ready(t, p), NEW b \in All,
         ptr' = [ptr EXCEPT ![p] = b], call' = [call EXCEPT ![t] = Idle]
  PROVE  /\ p \notin Holders(b)
         /\ \A c \in All : Holders(c)' = IF c = b THEN Holders(c) \cup {p} ELSE Holders(c)
  <1>1. call[t].at # "release" /\ Idle.at # "release"
    BY DEF Ready, Copies, Idle
  <1>2. p \notin Holders(b)
    BY DEF Holders, Ready, PtrAssumption, All
  <1>3. ASSUME NEW c \in All
        PROVE  Holders(c)' = IF c = b THEN Holders(c) \cup {p} ELSE Holders(c)
    <2>1. \A x \in Pointers : ptr'[x] = c <=> (ptr[x] = c /\ x # p) \/ (x = p /\ c = b)
      BY DEF PtrInv, PtrType
    <2>2. ptr[p] # c
      BY DEF Ready, PtrAssumption, All
    <2>3. \A u \in Threads : call'[u].at = "release" /\ call'[u].b = c
                                 <=> call[u].at = "release" /\ call[u].b = c
      BY <1>1 DEF PtrInv, PtrType
    <2> QED BY <2>1, <2>2, <2>3 DEF Holders
  <1> QED BY <1>2, <1>3

(* Where the counts follow the holders they stay exact. *)
LEMMA OneMoreHolder ==
  ASSUME PtrAssumption, PtrInv, NEW b \in All, NEW x,
         x \notin Holders(b), Holders(b)' = Holders(b) \cup {x}
  PROVE  Cardinality(Holders(b)') = Cardinality(Holders(b)) + 1 /\ Cardinality(Holders(b)) \in Nat
  BY HoldersFinite, FS_AddElement, FS_CardinalityType

(* The static block is given instead of a copy. *)
LEMMA GetStaticInv ==
  ASSUME PtrAssumption, PtrInv, NEW t \in Threads, NEW p \in Pointers, Ready(t, p), NEW b \in Statics,
         GetStatic(t, p, b, Released(t)), SameBlocks(objects'), handled' = handled
  PROVE  PtrInv'
  <1>0. b \in All /\ b \notin Blocks
    BY DEF All, PtrAssumption
  <1>1. ptr' = [ptr EXCEPT ![p] = b] /\ call' = [call EXCEPT ![t] = Idle] /\ rep' = Released(t)
        /\ uses' = [uses EXCEPT ![b] = @ + 1]
    BY <1>0 DEF GetStatic, Incref, PtrAssumption, All
  <1>2. /\ p \notin Holders(b)
        /\ \A c \in All : Holders(c)' = IF c = b THEN Holders(c) \cup {p} ELSE Holders(c)
    BY <1>0, <1>1, SettingHolders
  <1>3. \A c \in Blocks : Holders(c)' = Holders(c)
    BY <1>0, <1>2 DEF All
  <1>4. PtrType'
    <2>1. ptr' \in [Pointers -> All \cup {Null, Unborn}] /\ uses' \in [All -> Int]
      BY <1>0, <1>1 DEF PtrInv, PtrType
    <2>2. rep' \in [Blocks -> {Free} \cup [size : Nat, ex : Throwables \cup {None}]]
      BY <1>1 DEF PtrInv, PtrType, Released
    <2>3. call' \in [Threads -> Calls]
      BY <1>1 DEF PtrInv, PtrType, Calls
    <2> QED BY <2>1, <2>2, <2>3 DEF PtrInv, PtrType
  <1>5. CountsExact'
    <2>1. SUFFICES ASSUME NEW c \in All
                   PROVE  uses'[c] = Cardinality(Holders(c)') + IF c \in Statics THEN 1 ELSE 0
      BY DEF CountsExact, All
    <2>2. uses[c] = Cardinality(Holders(c)) + IF c \in Statics THEN 1 ELSE 0
      BY DEF PtrInv, CountsExact, All
    <2>3. CASE c = b
      BY <1>0, <1>1, <1>2, <2>2, <2>3, OneMoreHolder DEF PtrInv, PtrType
    <2>4. CASE c # b
      BY <1>1, <1>2, <2>2, <2>4 DEF PtrInv, PtrType
    <2> QED BY <2>3, <2>4
  <1>6. Targets'
    BY <1>1 DEF PtrInv, PtrType, Targets, Copies, Ready, Idle
  <1>7. \A u \in Threads : call'[u].at \in {"copy", "recopy", "destroy", "delete"} =>
            /\ u # t /\ call'[u] = call[u] /\ call[u].b \in Blocks /\ rep'[call[u].b] = rep[call[u].b]
    BY <1>1 DEF PtrInv, PtrType, Alone, Idle, Calls, Released, Ready, Copies
  <1>8. Alone'
    BY <1>3, <1>7 DEF PtrInv, Alone, Copies, SameBlocks
  <1>9. NothingLost'
    BY <1>1, <1>3 DEF PtrInv, PtrType, NothingLost, Released, Ready, Copies, Idle, Calls
  <1>10. \A c \in Blocks : rep'[c] = rep[c] \/ (rep'[c] = Free /\ Holders(c) = {} /\ c \notin objects)
    BY <1>1 DEF PtrInv, PtrType, Alone, ObjectsKept, Released, Ready, Copies, Calls
  <1>11. ObjectsKept'
    BY <1>3, <1>10 DEF PtrInv, ObjectsKept, SameBlocks, Object
  <1>12. Fits'
    BY <1>10 DEF PtrInv, Fits, Free
  <1> QED BY <1>4, <1>5, <1>6, <1>8, <1>9, <1>11, <1>12 DEF PtrInv

(* A block that is free once t has let go of its own is nobody else's. *)
LEMMA FreeIsFree ==
  ASSUME PtrAssumption, PtrInv, NEW t \in Threads, NEW p \in Pointers, Ready(t, p), NEW b \in Blocks,
         Released(t)[b] = Free
  PROVE  /\ Holders(b) = {} /\ b \notin objects /\ uses[b] = 0
         /\ \A u \in Threads \ {t} :
               call[u].at \in {"copy", "recopy", "destroy", "delete"} => call[u].b # b
         /\ \A c \in Blocks \ {b} :
               \/ Released(t)[c] = rep[c] /\ (Copies(t) => call[t].b # c)
               \/ Released(t)[c] = Free /\ Holders(c) = {} /\ c \notin objects
  <1>1. Holders(b) = {} /\ b \notin objects
    BY DEF PtrInv, PtrType, Alone, ObjectsKept, Released, Ready, Copies, Calls, Free
  <1>2. uses[b] = 0
    <2>1. Cardinality(Holders(b)) = 0 /\ b \notin Statics
      BY <1>1, FS_EmptySet DEF PtrAssumption
    <2> QED BY <2>1 DEF PtrInv, CountsExact
  <1>3. \A u \in Threads \ {t} :
            call[u].at \in {"copy", "recopy", "destroy", "delete"} => call[u].b # b
    BY DEF PtrInv, PtrType, Alone, Released, Ready, Copies, Calls
  <1>4. \A c \in Blocks \ {b} :
            \/ Released(t)[c] = rep[c] /\ (Copies(t) => call[t].b # c)
            \/ Released(t)[c] = Free /\ Holders(c) = {} /\ c \notin objects
    BY DEF PtrInv, PtrType, Alone, ObjectsKept, Released, Ready, Copies, Calls, Idle
  <1> QED BY <1>1, <1>2, <1>3, <1>4

(* The copy is complete: the block is counted and kept. *)
LEMMA NewControlBlockInv ==
  ASSUME PtrAssumption, PtrInv, NEW t \in Threads, NEW p \in Pointers, Ready(t, p), NEW b \in Blocks,
         Released(t)[b] = Free, NEW size \in Nat, NEW e \in Throwables,
         e.kind = "cxx" => e.size <= size,
         NewControlBlock(t, p, b, size, e, Released(t)),
         \A c \in Blocks : c \in objects' <=> c \in objects \/ c \in Object(b, e),
         handled' = handled
  PROVE  PtrInv'
  <1>0. b \in All /\ b \notin Statics
    BY DEF All, PtrAssumption
  <1>1. ptr' = [ptr EXCEPT ![p] = b] /\ call' = [call EXCEPT ![t] = Idle]
        /\ rep' = [Released(t) EXCEPT ![b] = [size |-> size, ex |-> e]] /\ uses' = [uses EXCEPT ![b] = 1]
    BY DEF NewControlBlock
  <1>2. /\ p \notin Holders(b)
        /\ \A c \in All : Holders(c)' = IF c = b THEN Holders(c) \cup {p} ELSE Holders(c)
    BY <1>0, <1>1, SettingHolders
  <1>3. /\ Holders(b) = {} /\ b \notin objects /\ uses[b] = 0
        /\ \A u \in Threads \ {t} :
               call[u].at \in {"copy", "recopy", "destroy", "delete"} => call[u].b # b
        /\ \A c \in Blocks \ {b} :
               \/ Released(t)[c] = rep[c] /\ (Copies(t) => call[t].b # c)
               \/ Released(t)[c] = Free /\ Holders(c) = {} /\ c \notin objects
    BY FreeIsFree
  <1>4. Released(t) \in [Blocks -> {Free} \cup [size : Nat, ex : Throwables \cup {None}]]
    BY DEF PtrInv, PtrType, Released
  <1>5. PtrType'
    <2>1. ptr' \in [Pointers -> All \cup {Null, Unborn}] /\ uses' \in [All -> Int]
      BY <1>0, <1>1 DEF PtrInv, PtrType
    <2>2. rep' \in [Blocks -> {Free} \cup [size : Nat, ex : Throwables \cup {None}]]
      BY <1>1, <1>4
    <2>3. call' \in [Threads -> Calls]
      BY <1>1 DEF PtrInv, PtrType, Calls
    <2> QED BY <2>1, <2>2, <2>3 DEF PtrInv, PtrType
  <1>6. CountsExact'
    <2>1. SUFFICES ASSUME NEW c \in All
                   PROVE  uses'[c] = Cardinality(Holders(c)') + IF c \in Statics THEN 1 ELSE 0
      BY DEF CountsExact, All
    <2>2. uses[c] = Cardinality(Holders(c)) + IF c \in Statics THEN 1 ELSE 0
      BY DEF PtrInv, CountsExact, All
    <2>3. CASE c = b
      <3>1. Cardinality(Holders(b)) = 0 /\ Holders(b)' = Holders(b) \cup {p}
        BY <1>0, <1>2, <1>3, FS_EmptySet
      <3>2. Cardinality(Holders(b)') = 1
        BY <1>0, <1>2, <3>1, OneMoreHolder
      <3> QED BY <1>0, <1>1, <2>3, <3>2 DEF PtrInv, PtrType
    <2>4. CASE c # b
      BY <1>1, <1>2, <2>2, <2>4 DEF PtrInv, PtrType
    <2> QED BY <2>3, <2>4
  <1>7. Targets'
    BY <1>1 DEF PtrInv, PtrType, Targets, Copies, Ready, Idle
  <1>8. \A u \in Threads : call'[u].at \in {"copy", "recopy", "destroy", "delete"} =>
            /\ u # t /\ call'[u] = call[u] /\ call[u].b \in Blocks \ {b} /\ rep'[call[u].b] = rep[call[u].b]
    BY <1>1, <1>3 DEF PtrInv, PtrType, Alone, Idle, Calls, Released, Ready, Copies
  <1>9. Alone'
    BY <1>0, <1>2, <1>8 DEF PtrInv, Alone, Copies, All, Object
  <1>10. NothingLost'
    <2>1. SUFFICES ASSUME NEW c \in Blocks, rep'[c] # Free, Holders(c)' = {}
                   PROVE  \E u \in Threads : call'[u].at \in {"copy", "recopy", "destroy", "delete"}
                                               /\ call'[u].b = c
      BY DEF NothingLost
    <2>2. c \in Blocks \ {b} /\ Holders(c) = {}
      BY <1>0, <1>2, <2>1 DEF All
    <2>3. rep[c] # Free /\ (Copies(t) => call[t].b # c)
      BY <1>1, <1>3, <1>4, <2>1, <2>2
    <2>4. PICK u \in Threads : call[u].at \in {"copy", "recopy", "destroy", "delete"} /\ call[u].b = c
      BY <2>2, <2>3 DEF PtrInv, NothingLost
    <2>5. u # t
      BY <2>3, <2>4 DEF Ready, Copies, Idle
    <2> QED BY <1>1, <2>4, <2>5 DEF PtrInv, PtrType
  <1>11. /\ rep'[b] = [size |-> size, ex |-> e]
         /\ \A c \in Blocks \ {b} :
               rep'[c] = rep[c] \/ (rep'[c] = Free /\ Holders(c) = {} /\ c \notin objects)
    BY <1>1, <1>3, <1>4
  <1>12. e # None /\ Object(b, e) \subseteq {b}
    BY DEF Object, PtrAssumption, Throwables
  <1>13. ObjectsKept'
    <2>1. SUFFICES ASSUME NEW c \in Blocks
                   PROVE  /\ c \in objects' => rep'[c].ex # None /\ Object(c, rep'[c].ex) = {c}
                          /\ Holders(c)' # {} => rep'[c].ex # None /\ Object(c, rep'[c].ex) \subseteq objects'
      BY DEF ObjectsKept, Object
    <2>2. CASE c = b
      BY <1>3, <1>11, <1>12, <2>2 DEF Object
    <2>3. CASE c # b
      BY <1>2, <1>11, <1>12, <2>3 DEF PtrInv, ObjectsKept, Object, All
    <2> QED BY <2>2, <2>3
  <1>14. Fits'
    BY <1>11 DEF PtrInv, Fits, Free
  <1> QED BY <1>5, <1>6, <1>7, <1>9, <1>10, <1>13, <1>14 DEF PtrInv

(* A copy constructor is called on a block that holds nothing yet. *)
LEMMA StartInv ==
  ASSUME PtrAssumption, PtrInv, NEW t \in Threads, NEW p \in Pointers, Ready(t, p), NEW b \in Blocks,
         Released(t)[b] = Free, NEW size \in Nat, NEW e \in Throwables, e.size <= size,
         NEW at \in {"copy", "recopy"},
         rep' = [Released(t) EXCEPT ![b] = Raw(size)],
         call' = [call EXCEPT ![t] = [at |-> at, p |-> p, b |-> b, ex |-> e]],
         UNCHANGED <<ptr, uses, handled>>, SameBlocks(objects')
  PROVE  PtrInv'
  <1>1. \A c \in All : Holders(c)' = Holders(c)
    BY DEF PtrInv, PtrType, Holders, Ready, Copies, Idle
  <1>2. /\ Holders(b) = {} /\ b \notin objects
        /\ \A u \in Threads \ {t} :
               call[u].at \in {"copy", "recopy", "destroy", "delete"} => call[u].b # b
        /\ \A c \in Blocks \ {b} :
               \/ Released(t)[c] = rep[c] /\ (Copies(t) => call[t].b # c)
               \/ Released(t)[c] = Free /\ Holders(c) = {} /\ c \notin objects
    BY FreeIsFree
  <1>3. Released(t) \in [Blocks -> {Free} \cup [size : Nat, ex : Throwables \cup {None}]]
    BY DEF PtrInv, PtrType, Released
  <1>4. Raw(size) \in [size : Nat, ex : Throwables \cup {None}] /\ Raw(size) # Free
        /\ Raw(size).ex = None /\ Raw(size).size = size
    BY DEF Raw, Free
  <1>5. PtrType'
    <2>1. rep' \in [Blocks -> {Free} \cup [size : Nat, ex : Throwables \cup {None}]]
      BY <1>3, <1>4
    <2>2. [at |-> at, p |-> p, b |-> b, ex |-> e] \in Calls
      BY DEF Calls
    <2> QED BY <2>1, <2>2 DEF PtrInv, PtrType
  <1>6. CountsExact'
    BY <1>1 DEF PtrInv, CountsExact, All
  <1>7. Targets'
    BY DEF PtrInv, PtrType, Targets, Copies, Ready
  <1>8. \A u \in Threads \ {t} : call'[u].at \in {"copy", "recopy", "destroy", "delete"} =>
            call'[u] = call[u] /\ call[u].b \in Blocks \ {b} /\ rep'[call[u].b] = rep[call[u].b]
    BY <1>2 DEF PtrInv, PtrType, Alone, Idle, Calls, Released, Ready, Copies
  <1>9. call'[t] = [at |-> at, p |-> p, b |-> b, ex |-> e] /\ rep'[b] = Raw(size)
    BY <1>3 DEF PtrInv, PtrType
  <1>10. Alone'
    BY <1>1, <1>2, <1>4, <1>8, <1>9 DEF PtrInv, Alone, Copies, All, SameBlocks
  <1>11. /\ \A c \in Blocks \ {b} :
               rep'[c] = rep[c] \/ (rep'[c] = Free /\ Holders(c) = {} /\ c \notin objects)
    BY <1>2, <1>3
  <1>12. NothingLost'
    BY <1>1, <1>2, <1>3, <1>9 DEF PtrInv, PtrType, NothingLost, Copies, Idle, Calls, Ready, All
  <1>13. ObjectsKept'
    BY <1>1, <1>2, <1>4, <1>9, <1>11 DEF PtrInv, ObjectsKept, Object, All, SameBlocks
  <1>14. Fits'
    BY <1>4, <1>9, <1>11 DEF PtrInv, Fits, Free
  <1> QED BY <1>5, <1>6, <1>7, <1>10, <1>12, <1>13, <1>14 DEF PtrInv

-----------------------------------------------------------------------------
(* Copies of exceptions *)

LEMMA PlacesDiffer ==
  ASSUME PtrAssumption, NEW t \in Threads
  PROVE  /\ Handled(t) \notin Blocks /\ Inner(t) \notin Blocks
         /\ \A place, e : Object(place, e) \subseteq {place}
  BY DEF PtrAssumption, Handled, Inner, Object

LEMMA ThrowableSizes == ASSUME PtrAssumption PROVE \A e \in Throwables : e.size \in Nat /\ e # None
  BY DEF PtrAssumption, Throwables, Statics, BadAlloc, BadException

LEMMA StartCopyInv ==
  ASSUME PtrAssumption, PtrInv, NEW t \in Threads, NEW p \in Pointers, Ready(t, p), NEW b \in Blocks,
         Released(t)[b] = Free, NEW size \in Nat, NEW e \in Throwables, e.size <= size,
         NEW at \in {"copy", "recopy"}, handled' = handled,
         StartCopy(t, p, b, size, e, Released(t), at)
  PROVE  PtrInv'
  <1>1. CASE e.copied = "bytes"
    <2>1. NewControlBlock(t, p, b, size, e, Released(t)) /\ objects' = objects \cup Object(b, e)
      BY <1>1 DEF StartCopy
    <2> QED BY <2>1, NewControlBlockInv
  <1>2. CASE e.copied # "bytes"
    <2>1. /\ rep' = [Released(t) EXCEPT ![b] = Raw(size)]
          /\ call' = [call EXCEPT ![t] = [at |-> at, p |-> p, b |-> b, ex |-> e]]
          /\ UNCHANGED <<ptr, uses, handled>>
          /\ objects' = objects \cup IF at = "recopy" THEN Object(Inner(t), e) ELSE {}
      BY <1>2 DEF StartCopy
    <2>2. SameBlocks(objects')
      BY <2>1, PlacesDiffer DEF SameBlocks
    <2> QED BY <2>1, <2>2, StartInv
  <1> QED BY <1>1, <1>2

LEMMA AllocateInv ==
  ASSUME PtrAssumption, PtrInv, NEW t \in Threads, NEW p \in Pointers, Ready(t, p), NEW e \in Throwables,
         NEW at \in {"copy", "recopy"}, handled' = handled, Allocate(t, p, e, Released(t), at)
  PROVE  PtrInv'
  <1>1. CASE GetStatic(t, p, BadAlloc, Released(t)) /\ UNCHANGED objects
    <2>1. BadAlloc \in Statics /\ SameBlocks(objects')
      BY <1>1 DEF Statics, SameBlocks
    <2> QED BY <1>1, <2>1, GetStaticInv
  <1>2. CASE \E b \in Blocks : Released(t)[b] = Free /\ StartCopy(t, p, b, e.size, e, Released(t), at)
    BY <1>2, ThrowableSizes, StartCopyInv
  <1> QED BY <1>1, <1>2 DEF Allocate

(* A thread that is in no function of excptptr.cpp has nothing to let go. *)
LEMMA IdleReady ==
  ASSUME NEW t \in Threads, NEW p \in Pointers, call[t] = Idle, ptr[p] = Null, ~InUse(p)
  PROVE  Ready(t, p) /\ Released(t) = rep
  BY DEF Ready, Released, InUse, Copies

LEMMA CurrentExceptionInv ==
  ASSUME PtrAssumption, PtrInv, NEW t \in Threads, NEW p \in Pointers, ExceptionPtrCurrentException(t, p)
  PROVE  PtrInv'
  <1> DEFINE e == handled[t]
  <1>1. e \in Throwables /\ handled' = handled /\ e.size \in Nat
    BY ThrowableSizes DEF PtrInv, PtrType, ExceptionPtrCurrentException
  <1>2. Ready(t, p) /\ Released(t) = rep
    BY IdleReady DEF ExceptionPtrCurrentException
  <1>3. CASE Allocate(t, p, e, rep, "copy")
    BY <1>1, <1>2, <1>3, AllocateInv
  <1>4. CASE e.kind = "seh" /\ Assign_seh_exception_ptr_from_record(t, p, e) /\ UNCHANGED objects
    <2>1. BadAlloc \in Statics /\ SameBlocks(objects')
      BY <1>4 DEF Statics, SameBlocks
    <2>2. CASE GetStatic(t, p, BadAlloc, rep)
      BY <1>1, <1>2, <2>1, <2>2, GetStaticInv
    <2>3. CASE \E b \in Blocks : rep[b] = Free /\ NewControlBlock(t, p, b, 0, e, rep)
      <3>1. \A c : Object(c, e) = {}
        BY <1>4 DEF Object
      <3> QED BY <1>1, <1>2, <1>4, <2>1, <2>3, <3>1, NewControlBlockInv DEF SameBlocks
    <2> QED BY <1>4, <2>2, <2>3 DEF Assign_seh_exception_ptr_from_record
  <1> QED BY <1>3, <1>4 DEF ExceptionPtrCurrentException

LEMMA CopyExceptionInv ==
  ASSUME PtrAssumption, PtrInv, NEW t \in Threads, NEW p \in Pointers, NEW e \in Exceptions,
         ExceptionPtrCopyException(t, p, e)
  PROVE  PtrInv'
  <1>1. Ready(t, p) /\ Released(t) = rep
    BY IdleReady DEF ExceptionPtrCopyException
  <1> QED BY <1>1, AllocateInv DEF ExceptionPtrCopyException, Throwables

(* In the middle of a copy. *)
LEMMA CopyReady ==
  ASSUME PtrInv, NEW t \in Threads, Copies(t)
  PROVE  /\ call[t].p \in Pointers /\ call[t].b \in Blocks /\ call[t].ex \in Throwables
         /\ Ready(t, call[t].p) /\ Released(t)[call[t].b] = Free
         /\ Released(t) = [rep EXCEPT ![call[t].b] = Free]
         /\ \A x : [rep EXCEPT ![call[t].b] = x] = [Released(t) EXCEPT ![call[t].b] = x]
         /\ rep[call[t].b].size \in Nat /\ call[t].ex.size <= rep[call[t].b].size
  <1>1. call[t].p \in Pointers /\ call[t].b \in Blocks /\ call[t].ex \in Throwables
    BY DEF PtrInv, PtrType, Copies, Calls, Idle
  <1>2. Ready(t, call[t].p)
    BY <1>1 DEF PtrInv, Targets, Ready
  <1>3. Released(t) = [rep EXCEPT ![call[t].b] = Free]
    BY DEF Released, Copies, Idle
  <1>4. rep[call[t].b].size \in Nat /\ call[t].ex.size <= rep[call[t].b].size
    BY <1>1 DEF PtrInv, PtrType, Alone, Copies
  <1>5. rep = [c \in Blocks |-> rep[c]]
    BY DEF PtrInv, PtrType
  <1> QED BY <1>1, <1>2, <1>3, <1>4, <1>5

LEMMA CopyReturnsInv ==
  ASSUME PtrAssumption, PtrInv, NEW t \in Threads, CopyReturns(t)
  PROVE  PtrInv'
  <1> DEFINE c == call[t]
  <1>1. Copies(t)
    BY DEF CopyReturns, Copies
  <1>2. NewControlBlock(t, c.p, c.b, rep[c.b].size, c.ex, rep)
        /\ objects' = (objects \ {Inner(t)}) \cup Object(c.b, c.ex) /\ handled' = handled
    BY DEF CopyReturns
  <1>3. NewControlBlock(t, c.p, c.b, rep[c.b].size, c.ex, Released(t))
    BY <1>1, <1>2, CopyReady DEF NewControlBlock
  <1> QED BY <1>1, <1>2, <1>3, CopyReady, PlacesDiffer, NewControlBlockInv

LEMMA CopyThrowsInv ==
  ASSUME PtrAssumption, PtrInv, NEW t \in Threads, NEW e \in Exceptions, CopyThrows(t, e)
  PROVE  PtrInv'
  <1> DEFINE c == call[t]
  <1>1. Copies(t) /\ handled' = handled
    BY DEF CopyThrows, Copies
  <1>2. e \in Throwables /\ e.size \in Nat
    BY DEF Throwables, PtrAssumption
  <1>3. CASE GetStatic(t, c.p, BadException, [rep EXCEPT ![c.b] = Free]) /\ UNCHANGED objects
    <2>1. BadException \in Statics /\ SameBlocks(objects')
      BY <1>3 DEF Statics, SameBlocks
    <2> QED BY <1>1, <1>3, <2>1, CopyReady, GetStaticInv
  <1>4. CASE e.kind = "seh" /\ NewControlBlock(t, c.p, c.b, rep[c.b].size, e, rep) /\ UNCHANGED objects
    <2>1. NewControlBlock(t, c.p, c.b, rep[c.b].size, e, Released(t))
      BY <1>1, <1>4, CopyReady DEF NewControlBlock
    <2>2. /\ e.kind # "cxx"
          /\ \A b \in Blocks : b \in objects' <=> b \in objects \/ b \in Object(c.b, e)
      BY <1>4 DEF Object
    <2> QED BY <1>1, <1>2, <1>4, <2>1, <2>2, CopyReady, NewControlBlockInv
  <1>5. CASE e.size > rep[c.b].size /\ Allocate(t, c.p, e, [rep EXCEPT ![c.b] = Free], "recopy")
    BY <1>1, <1>2, <1>5, CopyReady, AllocateInv
  <1>6. CASE e.size <= rep[c.b].size /\ StartCopy(t, c.p, c.b, rep[c.b].size, e, rep, "recopy")
    <2>1. StartCopy(t, c.p, c.b, rep[c.b].size, e, Released(t), "recopy")
      BY <1>1, <1>6, CopyReady DEF StartCopy, NewControlBlock
    <2> QED BY <1>1, <1>2, <1>6, <2>1, CopyReady, StartCopyInv
  <1> QED BY <1>1, <1>2, <1>3, <1>4, <1>5, <1>6, CopyReady DEF CopyThrows, Recopy

LEMMA RecopyThrowsInv ==
  ASSUME PtrAssumption, PtrInv, NEW t \in Threads, RecopyThrows(t)
  PROVE  PtrInv'
  <1>1. /\ Copies(t) /\ handled' = handled /\ objects' = objects \ {Inner(t)}
        /\ GetStatic(t, call[t].p, BadException, [rep EXCEPT ![call[t].b] = Free])
    BY DEF RecopyThrows, Copies
  <1>2. BadException \in Statics /\ SameBlocks(objects')
    BY <1>1, PlacesDiffer DEF Statics, SameBlocks
  <1>3. call[t].p \in Pointers /\ Ready(t, call[t].p)
        /\ GetStatic(t, call[t].p, BadException, Released(t))
    BY <1>1, CopyReady
  <1> QED BY <1>1, <1>2, <1>3, GetStaticInv

-----------------------------------------------------------------------------
(* Throwing and catching *)

(* A step of which the blocks see nothing. *)
LEMMA QuietInv ==
  ASSUME PtrAssumption, PtrInv, NEW t \in Threads, call[t].at \in {"idle", "raise"},
         NEW c \in Calls, c.at \in {"idle", "raise"}, call' = [call EXCEPT ![t] = c],
         UNCHANGED <<ptr, uses, rep>>, SameBlocks(objects'),
         handled' \in [Threads -> Throwables \cup {None}]
  PROVE  PtrInv'
  <1>1. \A b \in All : Holders(b)' = Holders(b)
    BY DEF PtrInv, PtrType, Holders
  <1>2. \A u \in Threads : /\ call'[u].at \in {"copy", "recopy", "destroy", "delete"}
                                <=> call[u].at \in {"copy", "recopy", "destroy", "delete"}
                           /\ call'[u].at \in {"copy", "recopy", "destroy", "delete"} => call'[u] = call[u]
    BY DEF PtrInv, PtrType
  <1>3. PtrType' /\ Targets'
    BY DEF PtrInv, PtrType, Targets, Copies
  <1>4. CountsExact'
    BY <1>1 DEF PtrInv, CountsExact, All
  <1>5. \A u \in Threads : call[u].at \in {"copy", "recopy", "destroy", "delete"} => call[u].b \in Blocks
    BY DEF PtrInv, PtrType, Calls, Idle
  <1>6. Alone'
    BY <1>1, <1>2, <1>5 DEF PtrInv, Alone, Copies, All, SameBlocks
  <1>7. NothingLost'
    BY <1>1, <1>2 DEF PtrInv, NothingLost, All
  <1>8. ObjectsKept' /\ Fits'
    BY <1>1 DEF PtrInv, ObjectsKept, Fits, Object, All, SameBlocks
  <1> QED BY <1>3, <1>4, <1>6, <1>7, <1>8 DEF PtrInv

LEMMA RaiseInv ==
  ASSUME PtrAssumption, PtrInv, NEW t \in Threads, call[t].at \in {"idle", "raise"}, NEW e \in Throwables,
         Raise(t, e), UNCHANGED <<ptr, uses, rep>>
  PROVE  PtrInv'
  <1>1. Idle \in Calls /\ Idle.at = "idle"
    BY DEF Calls, Idle
  <1>2. SameBlocks(objects')
    BY PlacesDiffer DEF Raise, SameBlocks
  <1>3. handled' \in [Threads -> Throwables \cup {None}]
    BY DEF Raise, PtrInv, PtrType
  <1> QED BY <1>1, <1>2, <1>3, QuietInv DEF Raise

LEMMA ThrowAndCatchInv ==
  ASSUME PtrAssumption, PtrInv, NEW t \in Threads, NEW e \in Exceptions, ThrowAndCatch(t, e)
  PROVE  PtrInv'
  <1>1. Raise(t, e) /\ call[t].at = "idle"
    BY DEF ThrowAndCatch, Raise, Idle, PtrInv, PtrType
  <1> QED BY <1>1, RaiseInv DEF ThrowAndCatch, Throwables

LEMMA LeaveHandlerInv ==
  ASSUME PtrAssumption, PtrInv, NEW t \in Threads, LeaveHandler(t)
  PROVE  PtrInv'
  <1>1. Idle \in Calls /\ Idle.at = "idle" /\ call[t] = Idle /\ call' = [call EXCEPT ![t] = Idle]
    BY DEF Calls, Idle, LeaveHandler, PtrInv, PtrType
  <1>2. SameBlocks(objects')
    BY PlacesDiffer DEF LeaveHandler, SameBlocks
  <1>3. handled' \in [Threads -> Throwables \cup {None}]
    BY DEF LeaveHandler, PtrInv, PtrType
  <1> QED BY <1>1, <1>2, <1>3, QuietInv DEF LeaveHandler

(* What a pointer holds can be thrown. *)
LEMMA KeptThrowable ==
  ASSUME PtrAssumption, PtrInv, NEW p \in Pointers, ptr[p] \notin {Null, Unborn}
  PROVE  Kept(ptr[p]) \in Throwables
  <1>1. ptr[p] \in All /\ p \in Holders(ptr[p])
    BY DEF PtrInv, PtrType, Holders
  <1>2. CASE ptr[p] \in Statics
    BY <1>2 DEF Kept, Throwables
  <1>3. CASE ptr[p] \notin Statics
    <2>1. ptr[p] \in Blocks /\ rep[ptr[p]].ex # None
      BY <1>1, <1>3 DEF All, PtrInv, ObjectsKept
    <2> QED BY <2>1, <1>3 DEF Kept, PtrInv, PtrType, Free
  <1> QED BY <1>2, <1>3

LEMMA RethrowInv ==
  ASSUME PtrAssumption, PtrInv, NEW t \in Threads, NEW p \in Pointers, ExceptionPtrRethrow(t, p)
  PROVE  PtrInv'
  <1>1. call[t].at = "idle" /\ UNCHANGED <<ptr, uses, rep>> /\ ptr[p] # Unborn
    BY DEF ExceptionPtrRethrow, Idle
  <1>2. CASE Raise(t, BadException)
    BY <1>1, <1>2, RaiseInv DEF Throwables, Statics
  <1>3. CASE ptr[p] # Null /\ Raise(t, Kept(ptr[p]))
    BY <1>1, <1>3, KeptThrowable, RaiseInv
  <1>4. CASE /\ ptr[p] # Null /\ UNCHANGED <<handled, objects>>
             /\ call' = [call EXCEPT ![t] = [at |-> "raise", p |-> p, ex |-> Kept(ptr[p])]]
    <2> DEFINE c == [at |-> "raise", p |-> p, ex |-> Kept(ptr[p])]
    <2>1. c \in Calls /\ c.at = "raise"
      BY <1>1, <1>4, KeptThrowable DEF Calls
    <2>2. SameBlocks(objects') /\ handled' \in [Threads -> Throwables \cup {None}]
      BY <1>4 DEF SameBlocks, PtrInv, PtrType
    <2> HIDE DEF c
    <2>3. call' = [call EXCEPT ![t] = c]
      BY <1>4 DEF c
    <2> QED BY <1>1, <2>1, <2>2, <2>3, QuietInv
  <1> QED BY <1>2, <1>3, <1>4 DEF ExceptionPtrRethrow

LEMMA StackCopyInv ==
  ASSUME PtrAssumption, PtrInv, NEW t \in Threads,
         StackCopyReturns(t) \/ \E e \in Exceptions : StackCopyThrows(t, e)
  PROVE  PtrInv'
  <1>1. call[t].at = "raise" /\ UNCHANGED <<ptr, uses, rep>>
    BY DEF StackCopyReturns, StackCopyThrows
  <1>2. call[t].ex \in Throwables
    BY <1>1 DEF PtrInv, PtrType, Calls, Idle
  <1>3. \E e \in Throwables : Raise(t, e)
    BY <1>2 DEF StackCopyReturns, StackCopyThrows, Throwables
  <1> QED BY <1>1, <1>3, RaiseInv

-----------------------------------------------------------------------------
(* The pointer as such *)

(* Holders come and go, but every block keeps some and the counts follow. *)
LEMMA MoveInv ==
  ASSUME PtrAssumption, PtrInv, NEW t \in Threads, call[t] = Idle,
         NEW c \in {Idle} \cup [at : {"release"}, b : All], call' = [call EXCEPT ![t] = c],
         UNCHANGED <<rep, handled, objects>>,
         ptr' \in [Pointers -> All \cup {Null, Unborn}], uses' \in [All -> Int], CountsExact',
         \A b \in Blocks : Holders(b) = {} <=> Holders(b)' = {},
         \A p \in Pointers : (\E u \in Threads : Copies(u) /\ call[u].p = p) => ptr'[p] = ptr[p]
  PROVE  PtrInv'
  <1>1. c \in Calls /\ c.at \in {"idle", "release"}
    BY DEF Calls, Idle
  <1>2. PtrType'
    BY <1>1 DEF PtrInv, PtrType
  <1>3. \A u \in Threads : /\ call'[u].at \in {"copy", "recopy", "destroy", "delete"}
                                <=> call[u].at \in {"copy", "recopy", "destroy", "delete"}
                           /\ call'[u].at \in {"copy", "recopy", "destroy", "delete"} => call'[u] = call[u]
    BY <1>1 DEF PtrInv, PtrType, Idle
  <1>4. \A u \in Threads :
            /\ call[u].at \in {"copy", "recopy", "destroy", "delete"} => call[u].b \in Blocks
            /\ Copies(u) => call[u].p \in Pointers
    BY DEF PtrInv, PtrType, Calls, Idle, Copies
  <1>5. Targets'
    BY <1>3, <1>4 DEF PtrInv, Targets, Copies
  <1>6. Alone'
    BY <1>3, <1>4 DEF PtrInv, Alone, Copies
  <1>7. NothingLost'
    BY <1>3 DEF PtrInv, NothingLost
  <1>8. ObjectsKept' /\ Fits'
    BY DEF PtrInv, ObjectsKept, Fits, Object
  <1> QED BY <1>2, <1>5, <1>6, <1>7, <1>8 DEF PtrInv

(* One holder for another. *)
LEMMA OtherHolder ==
  ASSUME PtrAssumption, NEW b, NEW x, NEW y,
         x \in Holders(b), y \notin Holders(b), Holders(b)' = (Holders(b) \ {x}) \cup {y}
  PROVE  Cardinality(Holders(b)') = Cardinality(Holders(b))
  <1>1. IsFiniteSet(Holders(b)) /\ Cardinality(Holders(b)) \in Nat
    BY HoldersFinite, FS_CardinalityType
  <1>2. IsFiniteSet(Holders(b) \ {x}) /\ Cardinality(Holders(b) \ {x}) = Cardinality(Holders(b)) - 1
    BY <1>1, FS_RemoveElement
  <1>3. Cardinality((Holders(b) \ {x}) \cup {y}) = Cardinality(Holders(b) \ {x}) + 1
    BY <1>2, FS_AddElement
  <1> QED BY <1>1, <1>2, <1>3

(* The count of one block: it moves by d, and so do the holders. *)
LEMMA CountsFollow ==
  ASSUME PtrAssumption, PtrInv,
         \A b \in All : uses'[b] - uses[b] = Cardinality(Holders(b)') - Cardinality(Holders(b)),
         uses' \in [All -> Int], \A b \in All : IsFiniteSet(Holders(b)')
  PROVE  CountsExact'
  <1>1. SUFFICES ASSUME NEW b \in All
                 PROVE  uses'[b] = Cardinality(Holders(b)') + IF b \in Statics THEN 1 ELSE 0
    BY DEF CountsExact, All
  <1>2. /\ uses[b] = Cardinality(Holders(b)) + IF b \in Statics THEN 1 ELSE 0
        /\ uses[b] \in Int /\ uses'[b] \in Int
    BY DEF PtrInv, PtrType, CountsExact, All
  <1>3. Cardinality(Holders(b)) \in Nat /\ Cardinality(Holders(b)') \in Nat
    BY HoldersFinite, FS_CardinalityType
  <1> QED BY <1>2, <1>3

LEMMA HoldersFinitePrime == ASSUME PtrAssumption, NEW b PROVE IsFiniteSet(Holders(b)')
  <1>1. Holders(b)' \subseteq Pointers \cup Threads
    BY DEF Holders
  <1>2. IsFiniteSet(Pointers \cup Threads)
    BY FS_Union DEF PtrAssumption
  <1> QED BY <1>1, <1>2, FS_Subset

(* Which pointers and which calls hold a block. *)
LEMMA HoldersAre ==
  ASSUME PtrAssumption, NEW b
  PROVE  /\ \A p \in Pointers : p \in Holders(b) <=> ptr[p] = b
         /\ \A t \in Threads : t \in Holders(b) <=> call[t].at = "release" /\ call[t].b = b
         /\ Holders(b) \subseteq Pointers \cup Threads
  BY DEF Holders, PtrAssumption

LEMMA HoldersArePrime ==
  ASSUME PtrAssumption, NEW b
  PROVE  /\ \A p \in Pointers : p \in Holders(b)' <=> ptr'[p] = b
         /\ \A t \in Threads : t \in Holders(b)' <=> call'[t].at = "release" /\ call'[t].b = b
         /\ Holders(b)' \subseteq Pointers \cup Threads
  BY DEF Holders, PtrAssumption

(* Nobody copies into a pointer that is not in use. *)
LEMMA NotTarget ==
  ASSUME NEW p \in Pointers, ~InUse(p)
  PROVE  \A u \in Threads : Copies(u) => call[u].p # p
  BY DEF InUse, Copies

LEMMA CreateInv ==
  ASSUME PtrAssumption, PtrInv, NEW t \in Threads, NEW p \in Pointers, ExceptionPtrCreate(t, p)
  PROVE  PtrInv'
  <1>1. /\ ptr[p] = Unborn /\ call[t] = Idle /\ ptr' = [ptr EXCEPT ![p] = Null]
        /\ UNCHANGED <<uses, rep, call, handled, objects>> /\ call' = [call EXCEPT ![t] = Idle]
    BY DEF ExceptionPtrCreate, PtrInv, PtrType
  <1>2. \A b \in All : Holders(b)' = Holders(b)
    BY <1>1 DEF Holders, PtrInv, PtrType, PtrAssumption, All
  <1>3. CountsExact'
    BY <1>1, <1>2 DEF PtrInv, CountsExact, All
  <1>4. \A q \in Pointers : (\E u \in Threads : Copies(u) /\ call[u].p = q) => ptr'[q] = ptr[q]
    BY <1>1 DEF PtrInv, PtrType, Targets, PtrAssumption
  <1>5. ptr' \in [Pointers -> All \cup {Null, Unborn}] /\ uses' \in [All -> Int]
    BY <1>1 DEF PtrInv, PtrType
  <1>6. \A b \in Blocks : Holders(b) = {} <=> Holders(b)' = {}
    BY <1>2 DEF All
  <1>7. Idle \in {Idle} \cup [at : {"release"}, b : All]
    OBVIOUS
  <1> QED BY <1>1, <1>3, <1>4, <1>5, <1>6, <1>7, MoveInv

LEMMA DestroyPointerInv ==
  ASSUME PtrAssumption, PtrInv, NEW t \in Threads, NEW p \in Pointers, ExceptionPtrDestroy(t, p)
  PROVE  PtrInv'
  <1> DEFINE c == Releasing(ptr[p])
  <1>1. /\ ptr[p] # Unborn /\ ~InUse(p) /\ call[t] = Idle /\ ptr' = [ptr EXCEPT ![p] = Unborn]
        /\ UNCHANGED <<uses, rep, handled, objects>> /\ call' = [call EXCEPT ![t] = c]
    BY DEF ExceptionPtrDestroy
  <1>2. c \in {Idle} \cup [at : {"release"}, b : All]
    BY <1>1 DEF Releasing, PtrInv, PtrType
  <1>3. \A q \in Pointers : (\E u \in Threads : Copies(u) /\ call[u].p = q) => ptr'[q] = ptr[q]
    BY <1>1, NotTarget DEF PtrInv, PtrType
  <1>4. ptr' \in [Pointers -> All \cup {Null, Unborn}] /\ uses' \in [All -> Int]
    BY <1>1 DEF PtrInv, PtrType
  <1>5. ASSUME NEW b \in All
        PROVE  IF b = ptr[p] THEN p \in Holders(b) /\ t \notin Holders(b) /\ Holders(b)' = (Holders(b) \ {p}) \cup {t}
               ELSE Holders(b)' = Holders(b)
    <2>1. b # Null /\ b # Unborn
      BY DEF PtrAssumption, All
    <2>2. call[t].at = "idle" /\ (c.at = "release" /\ c.b = b <=> b = ptr[p])
      BY <1>1, <2>1 DEF Releasing, Idle
    <2>3. /\ \A q \in Pointers : ptr'[q] = b <=> ptr[q] = b /\ q # p
          /\ \A u \in Threads : call'[u] = IF u = t THEN c ELSE call[u]
      BY <1>1, <2>1 DEF PtrInv, PtrType
    <2> HIDE DEF c
    <2>4. /\ \A q \in Pointers : q \in Holders(b)' <=> q \in Holders(b) /\ q # p
          /\ \A u \in Threads : u \in Holders(b)' <=> u \in Holders(b) \/ (u = t /\ b = ptr[p])
          /\ t \notin Holders(b) /\ (p \in Holders(b) <=> b = ptr[p])
      BY <2>2, <2>3, HoldersAre, HoldersArePrime
    <2>5. /\ Holders(b) \subseteq Pointers \cup Threads /\ Holders(b)' \subseteq Pointers \cup Threads
          /\ p \notin Threads /\ t \notin Pointers
      BY HoldersAre, HoldersArePrime DEF PtrAssumption
    <2>6. CASE b = ptr[p]
      BY <2>4, <2>5, <2>6
    <2>7. CASE b # ptr[p]
      BY <2>4, <2>5, <2>7
    <2> QED BY <2>6, <2>7
  <1>6. \A b \in All : Cardinality(Holders(b)') = Cardinality(Holders(b))
                          /\ (Holders(b) = {} <=> Holders(b)' = {})
    BY <1>5, OtherHolder
  <1>7. CountsExact'
    BY <1>1, <1>6 DEF PtrInv, CountsExact, All
  <1> HIDE DEF c
  <1> QED BY <1>1, <1>2, <1>3, <1>4, <1>6, <1>7, MoveInv DEF All

LEMMA CopyPointerInv ==
  ASSUME PtrAssumption, PtrInv, NEW t \in Threads, NEW p \in Pointers, NEW q \in Pointers \ {p},
         ExceptionPtrCopy(t, p, q)
  PROVE  PtrInv'
  <1> DEFINE new == ptr[q]
  <1>1. /\ ptr[p] = Unborn /\ new # Unborn /\ call[t] = Idle /\ ptr' = [ptr EXCEPT ![p] = new]
        /\ uses' = Incref(new)
        /\ UNCHANGED <<rep, call, handled, objects>> /\ call' = [call EXCEPT ![t] = Idle]
    BY DEF ExceptionPtrCopy, PtrInv, PtrType
  <1>2. \A r \in Pointers : (\E u \in Threads : Copies(u) /\ call[u].p = r) => ptr'[r] = ptr[r]
    BY <1>1 DEF PtrInv, PtrType, Targets, PtrAssumption
  <1>3. ptr' \in [Pointers -> All \cup {Null, Unborn}] /\ uses' \in [All -> Int]
    BY <1>1 DEF PtrInv, PtrType, Incref
  <1>4. ASSUME NEW b \in All
        PROVE  IF b = new THEN q \in Holders(b) /\ p \notin Holders(b) /\ Holders(b)' = Holders(b) \cup {p}
               ELSE Holders(b)' = Holders(b)
    <2>1. b # Null /\ b # Unborn
      BY DEF PtrAssumption, All
    <2>2. /\ \A r \in Pointers : ptr'[r] = b <=> ptr[r] = b \/ (r = p /\ b = new)
          /\ ptr[p] # b
      BY <1>1, <2>1 DEF PtrInv, PtrType
    <2>3. /\ \A r \in Pointers : r \in Holders(b)' <=> r \in Holders(b) \/ (r = p /\ b = new)
          /\ \A u \in Threads : u \in Holders(b)' <=> u \in Holders(b)
          /\ p \notin Holders(b) /\ (q \in Holders(b) <=> b = new)
      BY <1>1, <2>2, HoldersAre, HoldersArePrime
    <2>4. /\ Holders(b) \subseteq Pointers \cup Threads /\ Holders(b)' \subseteq Pointers \cup Threads
          /\ p \notin Threads
      BY HoldersAre, HoldersArePrime DEF PtrAssumption
    <2>5. CASE b = new
      BY <2>3, <2>4, <2>5
    <2>6. CASE b # new
      BY <2>3, <2>4, <2>6
    <2> QED BY <2>5, <2>6
  <1>5. \A b \in All : uses'[b] = IF b = new THEN uses[b] + 1 ELSE uses[b]
    BY <1>1 DEF Incref, PtrInv, PtrType, PtrAssumption, All
  <1>6. ASSUME NEW b \in All
        PROVE  uses'[b] - uses[b] = Cardinality(Holders(b)') - Cardinality(Holders(b))
    <2>1. uses[b] \in Int /\ Cardinality(Holders(b)) \in Nat
      BY HoldersFinite, FS_CardinalityType DEF PtrInv, PtrType
    <2>2. CASE b = new
      BY <1>4, <1>5, <2>1, <2>2, OneMoreHolder
    <2>3. CASE b # new
      BY <1>4, <1>5, <2>1, <2>3
    <2> QED BY <2>2, <2>3
  <1>7. CountsExact'
    BY <1>3, <1>6, CountsFollow, HoldersFinitePrime
  <1>8. \A b \in Blocks : Holders(b) = {} <=> Holders(b)' = {}
    BY <1>4 DEF All
  <1> QED BY <1>1, <1>2, <1>3, <1>7, <1>8, MoveInv

LEMMA AssignInv ==
  ASSUME PtrAssumption, PtrInv, NEW t \in Threads, NEW p \in Pointers, NEW q \in Pointers \ {p},
         ExceptionPtrAssign(t, p, q)
  PROVE  PtrInv'
  <1> DEFINE new == ptr[q]
             old == ptr[p]
             c == Releasing(old)
  <1>1. /\ Unborn \notin {old, new} /\ ~InUse(p) /\ call[t] = Idle /\ ptr' = [ptr EXCEPT ![p] = new]
        /\ uses' = Incref(new) /\ UNCHANGED <<rep, handled, objects>> /\ call' = [call EXCEPT ![t] = c]
    BY DEF ExceptionPtrAssign
  <1>2. c \in {Idle} \cup [at : {"release"}, b : All]
    BY <1>1 DEF Releasing, PtrInv, PtrType
  <1>3. \A r \in Pointers : (\E u \in Threads : Copies(u) /\ call[u].p = r) => ptr'[r] = ptr[r]
    BY <1>1, NotTarget DEF PtrInv, PtrType
  <1>4. ptr' \in [Pointers -> All \cup {Null, Unborn}] /\ uses' \in [All -> Int]
    BY <1>1 DEF PtrInv, PtrType, Incref
  <1>5. \A b \in All : uses'[b] = IF b = new THEN uses[b] + 1 ELSE uses[b]
    BY <1>1 DEF Incref, PtrInv, PtrType, PtrAssumption, All
  <1>6. ASSUME NEW b \in All
        PROVE  /\ \A r \in Pointers : r \in Holders(b)' <=> (r \in Holders(b) /\ r # p) \/ (r = p /\ b = new)
               /\ \A u \in Threads : u \in Holders(b)' <=> u \in Holders(b) \/ (u = t /\ b = old)
               /\ t \notin Holders(b) /\ (p \in Holders(b) <=> b = old) /\ (q \in Holders(b) <=> b = new)
               /\ Holders(b) \subseteq Pointers \cup Threads /\ Holders(b)' \subseteq Pointers \cup Threads
               /\ p \notin Threads /\ t \notin Pointers
    <2>1. b # Null /\ b # Unborn
      BY DEF PtrAssumption, All
    <2>2. call[t].at = "idle" /\ (c.at = "release" /\ c.b = b <=> b = old)
      BY <1>1, <2>1 DEF Releasing, Idle
    <2>3. /\ \A r \in Pointers : ptr'[r] = b <=> (ptr[r] = b /\ r # p) \/ (r = p /\ b = new)
          /\ \A u \in Threads : call'[u] = IF u = t THEN c ELSE call[u]
      BY <1>1, <2>1 DEF PtrInv, PtrType
    <2> HIDE DEF c
    <2>4. /\ \A r \in Pointers : r \in Holders(b)' <=> (r \in Holders(b) /\ r # p) \/ (r = p /\ b = new)
          /\ \A u \in Threads : u \in Holders(b)' <=> u \in Holders(b) \/ (u = t /\ b = old)
          /\ t \notin Holders(b) /\ (p \in Holders(b) <=> b = old) /\ (q \in Holders(b) <=> b = new)
      BY <2>2, <2>3, HoldersAre, HoldersArePrime
    <2>5. /\ Holders(b) \subseteq Pointers \cup Threads /\ Holders(b)' \subseteq Pointers \cup Threads
          /\ p \notin Threads /\ t \notin Pointers
      BY HoldersAre, HoldersArePrime DEF PtrAssumption
    <2> QED BY <2>4, <2>5
  <1> HIDE DEF c, new, old
  <1>7. ASSUME NEW b \in All
        PROVE  uses'[b] - uses[b] = Cardinality(Holders(b)') - Cardinality(Holders(b))
    <2>1. uses[b] \in Int /\ Cardinality(Holders(b)) \in Nat
      BY HoldersFinite, FS_CardinalityType DEF PtrInv, PtrType
    <2>2. CASE b = new /\ b = old
      <3>1. Holders(b)' = Holders(b) \cup {t} /\ t \notin Holders(b)
        BY <1>6, <2>2
      <3>2. Cardinality(Holders(b)') = Cardinality(Holders(b)) + 1
        BY <3>1, OneMoreHolder
      <3> QED BY <1>5, <2>1, <2>2, <3>2
    <2>3. CASE b = new /\ b # old
      <3>1. Holders(b)' = Holders(b) \cup {p} /\ p \notin Holders(b)
        BY <1>6, <2>3
      <3>2. Cardinality(Holders(b)') = Cardinality(Holders(b)) + 1
        BY <3>1, OneMoreHolder
      <3> QED BY <1>5, <2>1, <2>3, <3>2
    <2>4. CASE b # new /\ b = old
      <3>1. Holders(b)' = (Holders(b) \ {p}) \cup {t} /\ p \in Holders(b) /\ t \notin Holders(b)
        BY <1>6, <2>4
      <3>2. Cardinality(Holders(b)') = Cardinality(Holders(b))
        BY <3>1, OtherHolder
      <3> QED BY <1>5, <2>1, <2>4, <3>2
    <2>5. CASE b # new /\ b # old
      <3>1. Holders(b)' = Holders(b)
        BY <1>6, <2>5
      <3> QED BY <1>5, <2>1, <2>5, <3>1
    <2> QED BY <2>2, <2>3, <2>4, <2>5
  <1>8. CountsExact'
    BY <1>4, <1>7, CountsFollow, HoldersFinitePrime
  <1>9. ASSUME NEW b \in Blocks
        PROVE  Holders(b) = {} <=> Holders(b)' = {}
    <2>1. b \in All
      BY DEF All
    <2> QED BY <1>6, <2>1
  <1> QED BY <1>1, <1>2, <1>3, <1>4, <1>8, <1>9, MoveInv

LEMMA SwapInv ==
  ASSUME PtrAssumption, PtrInv, NEW t \in Threads, NEW p \in Pointers, NEW q \in Pointers \ {p},
         ExceptionPtrSwap(t, p, q)
  PROVE  PtrInv'
  <1>1. /\ ~InUse(p) /\ ~InUse(q) /\ call[t] = Idle /\ ptr' = [ptr EXCEPT ![p] = ptr[q], ![q] = ptr[p]]
        /\ UNCHANGED <<uses, rep, call, handled, objects>> /\ call' = [call EXCEPT ![t] = Idle]
    BY DEF ExceptionPtrSwap, PtrInv, PtrType
  <1>2. \A r \in Pointers : (\E u \in Threads : Copies(u) /\ call[u].p = r) => ptr'[r] = ptr[r]
    BY <1>1, NotTarget DEF PtrInv, PtrType
  <1>3. ptr' \in [Pointers -> All \cup {Null, Unborn}] /\ uses' \in [All -> Int]
    BY <1>1 DEF PtrInv, PtrType
  <1>4. ASSUME NEW b \in All
        PROVE  Cardinality(Holders(b)') = Cardinality(Holders(b)) /\ (Holders(b) = {} <=> Holders(b)' = {})
    <2>1. /\ \A r \in Pointers : r \in Holders(b)' <=>
                 ptr[IF r = p THEN q ELSE IF r = q THEN p ELSE r] = b
          /\ \A r \in Pointers : r \in Holders(b) <=> ptr[r] = b
          /\ \A u \in Threads : u \in Holders(b)' <=> u \in Holders(b)
      BY <1>1, HoldersAre, HoldersArePrime DEF PtrInv, PtrType
    <2>2. /\ Holders(b) \subseteq Pointers \cup Threads /\ Holders(b)' \subseteq Pointers \cup Threads
          /\ p \notin Threads /\ q \notin Threads
      BY HoldersAre, HoldersArePrime DEF PtrAssumption
    <2>3. CASE ptr[p] = b /\ ptr[q] # b
      <3>1. Holders(b)' = (Holders(b) \ {p}) \cup {q} /\ p \in Holders(b) /\ q \notin Holders(b)
        BY <2>1, <2>2, <2>3
      <3> QED BY <3>1, OtherHolder
    <2>4. CASE ptr[q] = b /\ ptr[p] # b
      <3>1. Holders(b)' = (Holders(b) \ {q}) \cup {p} /\ q \in Holders(b) /\ p \notin Holders(b)
        BY <2>1, <2>2, <2>4
      <3> QED BY <3>1, OtherHolder
    <2>5. CASE ptr[p] = b <=> ptr[q] = b
      <3>1. Holders(b)' = Holders(b)
        BY <2>1, <2>2, <2>5
      <3> QED BY <3>1
    <2> QED BY <2>3, <2>4, <2>5
  <1>5. CountsExact'
    BY <1>1, <1>4 DEF PtrInv, CountsExact, All
  <1>6. \A b \in Blocks : Holders(b) = {} <=> Holders(b)' = {}
    BY <1>4 DEF All
  <1>7. Idle \in {Idle} \cup [at : {"release"}, b : All]
    OBVIOUS
  <1> QED BY <1>1, <1>2, <1>3, <1>5, <1>6, <1>7, MoveInv

(* Where the block and the pointer of a call are. *)
LEMMA CallFacts ==
  ASSUME PtrInv, NEW t \in Threads
  PROVE  /\ call[t].at \in {"copy", "recopy", "destroy", "delete"} => call[t].b \in Blocks
         /\ call[t].at = "release" => call[t].b \in All
  BY DEF PtrInv, PtrType, Calls, Idle

(* Whoever lets go of a block as its last holder has it alone from there on. *)
LEMMA DecrefInv ==
  ASSUME PtrAssumption, PtrInv, NEW t \in Threads, Decref(t)
  PROVE  PtrInv'
  <1>0. PICK b \in All : b = call[t].b
    BY CallFacts DEF Decref
  <1> DEFINE last == uses[b] = 1 /\ b \in Blocks
             c == IF last THEN [call[t] EXCEPT !.at = "destroy"] ELSE Idle
  <1>1. /\ call[t].at = "release" /\ uses' = [uses EXCEPT ![b] = @ - 1] /\ call' = [call EXCEPT ![t] = c]
        /\ UNCHANGED <<ptr, rep, handled, objects>>
    BY <1>0 DEF Decref, PtrInv, PtrType
  <1>2. b \in All /\ t \in Holders(b)
    BY <1>0, <1>1 DEF Holders
  <1>3. c \in Calls /\ c.at # "release" /\ (last => c.at = "destroy" /\ c.b = b) /\ (~last => c = Idle)
    BY <1>0, <1>1, <1>2 DEF PtrInv, PtrType, Calls, Idle
  <1>4. IsFiniteSet(Holders(b)) /\ Cardinality(Holders(b)) \in Nat
        /\ Cardinality(Holders(b) \ {t}) = Cardinality(Holders(b)) - 1
    BY <1>2, HoldersFinite, FS_CardinalityType, FS_RemoveElement
  <1>5. uses[b] = Cardinality(Holders(b)) + IF b \in Statics THEN 1 ELSE 0
    BY <1>2 DEF PtrInv, CountsExact, All
  <1>6. b \in Blocks => (last <=> Holders(b) = {t})
    <2>1. Cardinality(Holders(b)) = 1 <=> \E x : Holders(b) = {x}
      BY <1>4, FS_Singleton
    <2>2. Cardinality(Holders(b)) = 1 <=> Holders(b) = {t}
      BY <1>2, <2>1
    <2>3. b \in Blocks => b \notin Statics
      BY DEF PtrAssumption
    <2>4. b \in Blocks => uses[b] = Cardinality(Holders(b))
      BY <1>4, <1>5, <2>3
    <2> QED BY <2>2, <2>4
  <1> HIDE DEF c, last
  <1>7. call'[t] = c /\ \A u \in Threads \ {t} : call'[u] = call[u]
    BY <1>1 DEF PtrInv, PtrType
  <1>8. \A d \in All : Holders(d)' = IF d = b THEN Holders(d) \ {t} ELSE Holders(d)
    <2>1. SUFFICES ASSUME NEW d \in All PROVE Holders(d)' = IF d = b THEN Holders(d) \ {t} ELSE Holders(d)
      OBVIOUS
    <2>2. /\ \A p \in Pointers : p \in Holders(d)' <=> p \in Holders(d)
          /\ \A u \in Threads : u \in Holders(d)' <=> u \in Holders(d) /\ u # t
          /\ t \in Holders(d) <=> d = b
      BY <1>0, <1>1, <1>3, <1>7, HoldersAre, HoldersArePrime
    <2>3. /\ Holders(d) \subseteq Pointers \cup Threads /\ Holders(d)' \subseteq Pointers \cup Threads
          /\ t \notin Pointers
      BY HoldersAre, HoldersArePrime DEF PtrAssumption
    <2>4. CASE d = b
      BY <2>2, <2>3, <2>4
    <2>5. CASE d # b
      BY <2>2, <2>3, <2>5
    <2> QED BY <2>4, <2>5
  <1>9. PtrType'
    BY <1>1, <1>2, <1>3 DEF PtrInv, PtrType
  <1>10. CountsExact'
    <2>1. SUFFICES ASSUME NEW d \in All
                   PROVE  uses'[d] = Cardinality(Holders(d)') + IF d \in Statics THEN 1 ELSE 0
      BY DEF CountsExact, All
    <2>2. CASE d = b
      <3>1. Cardinality(Holders(d)') = Cardinality(Holders(b)) - 1
        BY <1>4, <1>8, <2>2, <1>2
      <3>2. uses'[d] = uses[b] - 1
        BY <1>1, <1>2, <2>2 DEF PtrInv, PtrType
      <3> QED BY <1>4, <1>5, <2>2, <3>1, <3>2
    <2>3. CASE d # b
      <3>1. uses'[d] = uses[d] /\ Holders(d)' = Holders(d)
        BY <1>1, <1>2, <1>8, <2>3 DEF PtrInv, PtrType
      <3> QED BY <3>1 DEF PtrInv, CountsExact, All
    <2> QED BY <2>2, <2>3
  <1>11. Targets'
    BY <1>1, <1>3, <1>7 DEF PtrInv, Targets, Copies, Idle
  <1>12. \A u \in Threads : call[u].at \in {"copy", "recopy", "destroy", "delete"} =>
             u # t /\ call[u].b \in Blocks /\ call[u].b # b
    BY <1>1, <1>2, CallFacts DEF PtrInv, Alone
  <1>13. b \in Blocks => rep[b] # Free
    BY <1>2 DEF PtrInv, ObjectsKept, Free
  <1>14. Alone'
    <2>1. SUFFICES ASSUME NEW u \in Threads, call'[u].at \in {"copy", "recopy", "destroy", "delete"}
                   PROVE  (/\ Holders(call[u].b) = {}
                           /\ \A v \in Threads \ {u} :
                                 call[v].at \in {"copy", "recopy", "destroy", "delete"} => call[v].b # call[u].b
                           /\ rep[call[u].b] # Free
                           /\ Copies(u) => rep[call[u].b].ex = None /\ call[u].ex.size <= rep[call[u].b].size
                           /\ call[u].at = "delete" => call[u].b \notin objects)'
      BY DEF Alone
    <2>2. CASE u = t
      <3>1. last /\ call'[u].b = b /\ call'[u].at = "destroy" /\ b \in Blocks
        BY <1>3, <1>7, <2>1, <2>2 DEF Idle, last
      <3>2. Holders(b)' = {}
        BY <1>2, <1>6, <1>8, <3>1
      <3>3. Holders(call[u].b)' = {}
        BY <3>1, <3>2
      <3> QED BY <1>1, <1>7, <1>12, <1>13, <2>2, <3>1, <3>3 DEF Copies
    <2>3. CASE u # t
      <3>1. call'[u] = call[u] /\ call[u].b \in Blocks /\ call[u].b # b
        BY <1>7, <1>12, <2>1, <2>3
      <3>2. \A v \in Threads \ {u} :
                call'[v].at \in {"copy", "recopy", "destroy", "delete"} => call'[v].b # call'[u].b
        BY <1>3, <1>7, <2>1, <2>3, <3>1 DEF PtrInv, Alone, Idle
      <3>3. Holders(call[u].b)' = {}
        BY <1>8, <2>1, <3>1 DEF PtrInv, Alone, All
      <3> QED BY <1>1, <2>1, <3>1, <3>2, <3>3 DEF PtrInv, Alone, Copies
    <2> QED BY <2>2, <2>3
  <1>15. NothingLost'
    <2>1. SUFFICES ASSUME NEW d \in Blocks, rep[d] # Free, Holders(d)' = {}
                   PROVE  \E u \in Threads : call'[u].at \in {"copy", "recopy", "destroy", "delete"}
                                               /\ call'[u].b = d
      BY <1>1 DEF NothingLost
    <2>2. CASE d = b
      <3>1. Holders(b) = {t}
        BY <1>2, <1>8, <2>1, <2>2
      <3>2. last
        BY <1>6, <2>2, <3>1
      <3> QED BY <1>3, <1>7, <2>2, <3>2
    <2>3. CASE d # b
      <3>1. Holders(d) = {}
        BY <1>8, <2>1, <2>3 DEF All
      <3>2. PICK u \in Threads : call[u].at \in {"copy", "recopy", "destroy", "delete"} /\ call[u].b = d
        BY <2>1, <3>1 DEF PtrInv, NothingLost
      <3> QED BY <1>7, <1>12, <3>2
    <2> QED BY <2>2, <2>3
  <1>16. ObjectsKept' /\ Fits'
    BY <1>1, <1>8 DEF PtrInv, ObjectsKept, Fits, Object, All
  <1> QED BY <1>9, <1>10, <1>11, <1>14, <1>15, <1>16 DEF PtrInv

(* The two steps after that touch nobody else's block. *)
LEMMA DestroyInv ==
  ASSUME PtrAssumption, PtrInv, NEW t \in Threads, Destroy(t) \/ Delete_this(t)
  PROVE  PtrInv'
  <1>1. call[t].at \in {"destroy", "delete"} /\ UNCHANGED <<ptr, uses, handled>>
    BY DEF Destroy, Delete_this
  <1>0. PICK b \in Blocks : b = call[t].b
    BY <1>1, CallFacts
  <1>2. b \in Blocks /\ Holders(b) = {}
    BY <1>0, <1>1 DEF PtrInv, Alone
  <1>3. \A u \in Threads \ {t} : /\ call'[u] = call[u]
                                 /\ call[u].at \in {"copy", "recopy", "destroy", "delete"} =>
                                        call[u].b \in Blocks /\ call[u].b # b
    BY <1>0, <1>1, CallFacts DEF PtrInv, PtrType, Alone, Destroy, Delete_this
  <1>4. CASE Destroy(t)
    <2>1. /\ call[t].at = "destroy" /\ call'[t].at = "delete" /\ call'[t].b = b /\ call'[t] \in Calls
          /\ objects' = objects \ {b} /\ rep' = rep
      BY <1>0, <1>1, <1>2, <1>4 DEF Destroy, PtrInv, PtrType, Calls, Idle
    <2>2. \A d \in All : Holders(d)' = Holders(d)
      BY <1>1, <1>3, <2>1 DEF Holders
    <2>3. PtrType' /\ Targets'
      BY <1>1, <1>3, <1>4, <2>1 DEF PtrInv, PtrType, Targets, Copies, Destroy
    <2>4. CountsExact'
      BY <1>1, <2>2 DEF PtrInv, CountsExact, All
    <2>5. Alone'
      <3>1. SUFFICES ASSUME NEW u \in Threads, call'[u].at \in {"copy", "recopy", "destroy", "delete"}
                     PROVE  (/\ Holders(call[u].b) = {}
                             /\ \A v \in Threads \ {u} :
                                   call[v].at \in {"copy", "recopy", "destroy", "delete"} => call[v].b # call[u].b
                             /\ rep[call[u].b] # Free
                             /\ Copies(u) => rep[call[u].b].ex = None /\ call[u].ex.size <= rep[call[u].b].size
                             /\ call[u].at = "delete" => call[u].b \notin objects)'
        BY DEF Alone
      <3>2. call'[u].b = call[u].b /\ call[u].b \in All /\ Holders(call[u].b) = {}
        BY <1>0, <1>1, <1>2, <1>3, <2>1, <3>1 DEF PtrInv, Alone, All
      <3>3. Holders(call[u].b)' = {}
        BY <2>2, <3>2
      <3>4. CASE u = t
        BY <1>0, <1>1, <1>3, <2>1, <3>3, <3>4 DEF PtrInv, Alone, Copies
      <3>5. CASE u # t
        BY <1>0, <1>1, <1>3, <2>1, <3>1, <3>3, <3>5 DEF PtrInv, Alone, Copies
      <3> QED BY <3>4, <3>5
    <2>6. NothingLost'
      <3>1. \A d \in Blocks : Holders(d)' = Holders(d)
        BY <2>2 DEF All
      <3> QED BY <1>0, <1>3, <2>1, <3>1 DEF PtrInv, NothingLost
    <2>7. ObjectsKept' /\ Fits'
      BY <1>2, <2>1, <2>2 DEF PtrInv, ObjectsKept, Fits, Object, All
    <2> QED BY <2>3, <2>4, <2>5, <2>6, <2>7 DEF PtrInv
  <1>5. CASE Delete_this(t)
    <2>1. /\ call[t].at = "delete" /\ call'[t] = Idle /\ Idle.at = "idle" /\ Idle \in Calls
          /\ objects' = objects /\ rep' = [rep EXCEPT ![b] = Free] /\ b \notin objects
      BY <1>0, <1>1, <1>5 DEF Delete_this, PtrInv, PtrType, Calls, Idle, Alone
    <2>2. \A d \in All : Holders(d)' = Holders(d)
      BY <1>1, <1>3, <2>1 DEF Holders
    <2>3. PtrType' /\ Targets'
      <3>1. call' \in [Threads -> Calls] /\ rep' \in [Blocks -> {Free} \cup [size : Nat, ex : Throwables \cup {None}]]
        BY <1>5, <2>1 DEF PtrInv, PtrType, Delete_this
      <3>2. Targets'
        BY <1>1, <1>3, <2>1 DEF PtrInv, Targets, Copies
      <3> QED BY <1>1, <3>1, <3>2 DEF PtrInv, PtrType
    <2>4. CountsExact'
      BY <1>1, <2>2 DEF PtrInv, CountsExact, All
    <2>5. Alone'
      <3>1. SUFFICES ASSUME NEW u \in Threads, call'[u].at \in {"copy", "recopy", "destroy", "delete"}
                     PROVE  (/\ Holders(call[u].b) = {}
                             /\ \A v \in Threads \ {u} :
                                   call[v].at \in {"copy", "recopy", "destroy", "delete"} => call[v].b # call[u].b
                             /\ rep[call[u].b] # Free
                             /\ Copies(u) => rep[call[u].b].ex = None /\ call[u].ex.size <= rep[call[u].b].size
                             /\ call[u].at = "delete" => call[u].b \notin objects)'
        BY DEF Alone
      <3>2. u # t /\ call'[u] = call[u] /\ call[u].b \in Blocks \ {b} /\ rep'[call[u].b] = rep[call[u].b]
        BY <1>3, <2>1, <3>1 DEF PtrInv, PtrType
      <3>3. Holders(call[u].b)' = {}
        BY <2>2, <3>1, <3>2 DEF PtrInv, Alone, All
      <3> QED BY <1>3, <2>1, <3>1, <3>2, <3>3 DEF PtrInv, Alone, Copies
    <2>6. rep'[b] = Free /\ \A d \in Blocks \ {b} : rep'[d] = rep[d]
      BY <1>2, <2>1 DEF PtrInv, PtrType
    <2>7. NothingLost'
      <3>1. \A d \in Blocks : Holders(d)' = Holders(d)
        BY <2>2 DEF All
      <3> QED BY <1>0, <1>3, <2>6, <3>1 DEF PtrInv, NothingLost
    <2>8. ObjectsKept' /\ Fits'
      BY <1>2, <2>1, <2>2, <2>6 DEF PtrInv, ObjectsKept, Fits, Object, All, Free
    <2> QED BY <2>3, <2>4, <2>5, <2>7, <2>8 DEF PtrInv
  <1> QED BY <1>4, <1>5

LEMMA NextInv == ASSUME PtrAssumption, PtrInv, [PtrNext]_ptrVars PROVE PtrInv'
  <1>1. CASE \E t \in Threads : LeaveHandler(t) \/ StackCopyReturns(t)
                                   \/ \E e \in Exceptions : ThrowAndCatch(t, e) \/ StackCopyThrows(t, e)
    BY <1>1, LeaveHandlerInv, StackCopyInv, ThrowAndCatchInv
  <1>2. CASE \E t \in Threads : Decref(t) \/ Destroy(t) \/ Delete_this(t)
    BY <1>2, DecrefInv, DestroyInv
  <1>3. CASE \E t \in Threads : CopyReturns(t) \/ RecopyThrows(t) \/ \E e \in Exceptions : CopyThrows(t, e)
    BY <1>3, CopyReturnsInv, RecopyThrowsInv, CopyThrowsInv
  <1>4. CASE \E t \in Threads, p \in Pointers :
                \/ ExceptionPtrCurrentException(t, p) \/ ExceptionPtrRethrow(t, p)
                \/ \E e \in Exceptions : ExceptionPtrCopyException(t, p, e)
    BY <1>4, CurrentExceptionInv, RethrowInv, CopyExceptionInv
  <1>5. CASE \E t \in Threads, p \in Pointers : ExceptionPtrCreate(t, p) \/ ExceptionPtrDestroy(t, p)
    BY <1>5, CreateInv, DestroyPointerInv
  <1>6. CASE \E t \in Threads, p \in Pointers : \E q \in Pointers \ {p} :
                ExceptionPtrCopy(t, p, q) \/ ExceptionPtrAssign(t, p, q) \/ ExceptionPtrSwap(t, p, q)
    BY <1>6, CopyPointerInv, AssignInv, SwapInv
  <1>7. CASE UNCHANGED ptrVars
    <2>1. \A b : Holders(b)' = Holders(b)
      BY <1>7 DEF ptrVars, Holders
    <2> QED BY <1>7, <2>1 DEF ptrVars, PtrInv, PtrType, CountsExact, Targets, Alone, NothingLost,
               ObjectsKept, Fits, Object, Copies
  <1> QED BY <1>1, <1>2, <1>3, <1>4, <1>5, <1>6, <1>7 DEF PtrNext

-----------------------------------------------------------------------------
(* The inductive invariant holds whatever the threads do and whichever allocation or copy
   fails (excptptr.cpp). *)
THEOREM PtrInvariant == ASSUME PtrAssumption PROVE PtrSpec => []PtrInv
  <1>1. PtrInit => PtrInv
    BY InitInv
  <1>2. PtrInv /\ [PtrNext]_ptrVars => PtrInv'
    BY NextInv
  <1> QED BY <1>1, <1>2, PTL DEF PtrSpec

(* The counts of exception_ptr are exact, no block is lost or used after it was freed, and
   every exception object lives as long as its block is held and fits into it: for any
   number of threads, pointers, blocks and exceptions (excptptr.cpp). *)
THEOREM PointersRightHolds == ASSUME PtrAssumption PROVE PtrSpec => []PointersRight
  <1>1. PtrInv => PointersRight
    BY InvImplies
  <1> QED BY <1>1, PtrInvariant, PTL
=============================================================================
