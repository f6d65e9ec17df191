-------------------------- MODULE PcdKernelProofs ---------------------------
(***************************************************************************)
(* What holds of the kernel build's per-thread data for any number of      *)
(* threads, ids and blocks and any depth of nested calls.                  *)
(*                                                                         *)
(* The properties of PcdKernel are not inductive by themselves.  PcdInv    *)
(* adds that existing thread objects have different ids, that the blocks   *)
(* of an entry were allocated by the entry's thread (so that two entries   *)
(* share none), where a thread can be while it stores a PTD, and that what *)
(* getptd returned is in the thread's own entry.                           *)
(***************************************************************************)
EXTENDS PcdKernel, SequenceTheorems, TLAPS

(* A thread object that does not exist has no id; two that do, have two. *)
IdsOfLive ==
    /\ \A o \in Objs : state[o] = "none" <=> cid[o] = NoCid
    /\ \A o, p \in Objs : cid[o] # NoCid /\ cid[o] = cid[p] => o = p

(* Only a running thread is inside getptd or freeptd. *)
InsideRuns == \A o \in Objs : pc[o] # "run" => state[o] = "running"

(* A live entry and its data were allocated by the thread of the entry. *)
EntryOwnsBlocks ==
    \A e \in entries :
        pc[e.pvContext] # "unlink" =>
            /\ kind[e.at] = "entry" /\ maker[e.at] = e.pvContext
            /\ e.pvData # Null =>
                  kind[e.pvData] = "ptd" /\ maker[e.pvData] = e.pvContext

(* The PTD a thread is about to store is its own and on no entry. *)
StoringPtd ==
    \A o \in Objs :
        ptPtd[o] # Null =>
            /\ pc[o] \in {"set", "entry"}
            /\ kind[ptPtd[o]] = "ptd" /\ maker[ptPtd[o]] = o
            /\ \A e \in entries : pc[e.pvContext] # "unlink" => e.pvData # ptPtd[o]

(* An entry is created only for a thread without one, released only for a  *)
(* thread with one.                                                        *)
EntryWhere ==
    \A o \in Objs :
        /\ pc[o] = "entry" => \A e \in entries : e.pvContext # o
        /\ pc[o] = "unlink" => \E e \in entries : e.pvContext = o

(* What getptd returned is in the entry of the thread, which is not in the *)
(* middle of getting another.                                              *)
MineListed ==
    \A o \in Objs :
        mine[o] # Null =>
            /\ pc[o] \in {"run", "get"} /\ state[o] = "running"
            /\ calls[o] = <<>>
            /\ \E e \in entries : e.pvContext = o /\ e.pvData = mine[o]

(* In the VCRuntime a failed allocation unwinds all of getptd, so no call  *)
(* finds an entry that a nested one has made.                              *)
VcrtStoresFirst ==
    layer = "vcrt" =>
        \A o \in Objs :
            /\ \A i \in 1 .. Len(calls[o]) : calls[o][i] = "raise"
            /\ pc[o] \in {"alloc", "set", "entry"} =>
                  \A e \in entries : e.pvContext # o

(* Every live PTD of the VCRuntime is stored or being stored. *)
VcrtPtdKept ==
    layer = "vcrt" =>
        \A b \in Blocks :
            kind[b] = "ptd" =>
                \/ \E e \in entries : e.pvData = b /\ pc[e.pvContext] # "unlink"
                \/ \E o \in Objs : ptPtd[o] = b

PcdInv ==
    /\ TypeOK
    /\ IdsOfLive
    /\ InsideRuns
    /\ EntryPinsThread
    /\ UniqueIds
    /\ ReferencesBalance
    /\ EntryOwnsBlocks
    /\ StoringPtd
    /\ EntryWhere
    /\ MineListed
    /\ VcrtStoresFirst
    /\ VcrtPtdKept

-----------------------------------------------------------------------------
(* What Return does, with the stack of interrupted calls taken apart. *)

LEMMA LastFrame ==
    ASSUME NEW s \in Seq(Frames), s # <<>>
    PROVE  /\ Len(s) \in 1 .. Len(s)
           /\ s[Len(s)] \in Frames
           /\ SubSeq(s, 1, Len(s) - 1) \in Seq(Frames)
           /\ [s EXCEPT ![Len(s)] = "calloc"] \in Seq(Frames)
<1>1. Len(s) \in Nat /\ Len(s) # 0
  BY EmptySeq, LenProperties
<1>2. Len(s) \in 1 .. Len(s)
  BY <1>1
<1>3. \A i \in 1 .. Len(s) - 1 : s[i] \in Frames
  BY <1>1, ElementOfSeq
<1>4. SubSeq(s, 1, Len(s) - 1) \in Seq(Frames)
  BY <1>1, <1>3, SubSeqProperties, 1 \in Int, Len(s) - 1 \in Int
<1>5. [s EXCEPT ![Len(s)] = "calloc"] \in Seq(Frames)
  BY <1>2, ExceptSeq DEF Frames
<1> QED
  BY <1>2, <1>4, <1>5, ElementOfSeq

LEMMA ReturnEffect ==
    ASSUME TypeOK, NEW o \in Objs, NEW from, NEW v \in Blocks \cup {Null},
           Return(o, from, v)
    PROVE  /\ ~bugcheck /\ state[o] = "running" /\ pc[o] = from
           /\ ptPtd' = [ptPtd EXCEPT ![o] = Null]
           /\ \E to \in {"run", "get", "set"} : pc' = [pc EXCEPT ![o] = to]
           /\ \E s \in Seq(Frames) : calls' = [calls EXCEPT ![o] = s]
           /\ \/ /\ calls[o] = <<>> /\ calls' = calls
                 /\ mine' = [mine EXCEPT ![o] = v]
                 /\ pc' = [pc EXCEPT ![o] = "run"]
              \/ calls[o] # <<>> /\ mine' = mine
           /\ (\A i \in 1 .. Len(calls[o]) : calls[o][i] = "raise") =>
                 /\ pc' = [pc EXCEPT ![o] = "run"]
                 /\ calls' = [calls EXCEPT ![o] = <<>>]
<1>1. calls \in [Objs -> Seq(Frames)]
  BY DEF TypeOK
<1>2. CASE calls[o] = <<>>
  <2>1. calls = [calls EXCEPT ![o] = <<>>]
    BY <1>1, <1>2
  <2>2. <<>> \in Seq(Frames)
    BY EmptySeq
  <2> QED
    BY <1>2, <2>1, <2>2 DEF Return, Goto
<1>3. CASE calls[o] # <<>>
  <2> DEFINE s == calls[o]
             top == s[Len(s)]
  <2>1. /\ s \in Seq(Frames) /\ top \in Frames /\ Len(s) \in 1 .. Len(s)
        /\ SubSeq(s, 1, Len(s) - 1) \in Seq(Frames)
        /\ [s EXCEPT ![Len(s)] = "calloc"] \in Seq(Frames)
    BY <1>1, <1>3, LastFrame
  <2>2. ptPtd' = [ptPtd EXCEPT ![o] = Null] /\ mine' = mine
    BY <1>3 DEF Return
  <2>3. CASE top = "malloc"
    <3>1. /\ Goto(o, from, "get")
          /\ calls' = [calls EXCEPT ![o] = [s EXCEPT ![Len(s)] = "calloc"]]
      BY <1>3, <2>3 DEF Return
    <3> QED
      BY <1>3, <2>1, <2>2, <2>3, <3>1 DEF Goto
  <2>4. CASE top = "calloc"
    <3>1. /\ Goto(o, from, "set")
          /\ calls' = [calls EXCEPT ![o] = SubSeq(s, 1, Len(s) - 1)]
      BY <1>3, <2>4 DEF Return
    <3> QED
      BY <1>3, <2>1, <2>2, <2>4, <3>1 DEF Goto
  <2>5. CASE top = "raise"
    <3>1. Goto(o, from, "run") /\ calls' = [calls EXCEPT ![o] = <<>>]
      BY <1>3, <2>5 DEF Return
    <3>2. <<>> \in Seq(Frames)
      BY EmptySeq
    <3> QED
      BY <1>3, <2>1, <2>2, <2>5, <3>1, <3>2 DEF Goto
  <2> QED
    BY <2>1, <2>3, <2>4, <2>5 DEF Frames
<1> QED
  BY <1>2, <1>3

-----------------------------------------------------------------------------
LEMMA InitPcdInv == Init => PcdInv
<1> SUFFICES ASSUME Init PROVE PcdInv
  OBVIOUS
<1>1. <<>> \in Seq(Frames) /\ Len(<<>>) = 0
  BY EmptySeq
<1>2. TypeOK
  BY <1>1 DEF Init, TypeOK
<1>3. IdsOfLive /\ InsideRuns /\ EntryPinsThread /\ UniqueIds
  BY PcdAssumption DEF Init, IdsOfLive, InsideRuns, EntryPinsThread, UniqueIds
<1>4. ReferencesBalance /\ EntryWhere /\ EntryOwnsBlocks
  BY DEF Init, ReferencesBalance, EntryWhere, EntryOwnsBlocks
<1>5. StoringPtd /\ MineListed /\ VcrtPtdKept
  BY DEF Init, StoringPtd, MineListed, VcrtPtdKept
<1>6. VcrtStoresFirst
  <2>1. \A i \in 1 .. Len(<<>>) : FALSE
    BY <1>1
  <2> QED
    BY <2>1 DEF Init, VcrtStoresFirst
<1> QED
  BY <1>2, <1>3, <1>4, <1>5, <1>6 DEF PcdInv

-----------------------------------------------------------------------------
(* One lemma per action: it keeps PcdInv.  The last step but one of each   *)
(* collects the parts that read nothing the action changes.                *)

LEMMA SpawnKeeps == ASSUME PcdInv, NEW o \in Objs, Spawn(o) PROVE PcdInv'
<1> USE PcdAssumption DEF PcdInv, Spawn, heapVars
<1>1. TypeOK'
  BY DEF TypeOK
<1>2. IdsOfLive'
  BY DEF IdsOfLive, TypeOK
<1>3. InsideRuns' /\ EntryPinsThread' /\ MineListed'
  BY DEF InsideRuns, EntryPinsThread, MineListed, TypeOK
<1>4. /\ UniqueIds' /\ ReferencesBalance' /\ EntryOwnsBlocks' /\ StoringPtd'
      /\ EntryWhere' /\ VcrtStoresFirst' /\ VcrtPtdKept'
  BY DEF UniqueIds, ReferencesBalance, EntryOwnsBlocks, StoringPtd, EntryWhere,
         VcrtStoresFirst, VcrtPtdKept
<1> QED
  BY <1>1, <1>2, <1>3, <1>4

LEMMA ExitKeeps == ASSUME PcdInv, NEW o \in Objs, Exit(o) PROVE PcdInv'
<1> USE PcdAssumption DEF PcdInv, Exit, Goto, heapVars
<1>1. TypeOK' /\ pc' = pc
  BY DEF TypeOK
<1>2. IdsOfLive' /\ EntryPinsThread' /\ MineListed'
  <2>1. /\ entries' = entries /\ calls' = calls
        /\ \A p \in Objs : mine'[p] # Null => p # o /\ mine'[p] = mine[p]
    BY DEF TypeOK
  <2>2. cid[o] # NoCid
    BY DEF IdsOfLive
  <2>3. (\A p \in Objs : p # o => state'[p] = state[p]) => MineListed'
    <3> SUFFICES ASSUME \A p \in Objs : p # o => state'[p] = state[p],
                        NEW p \in Objs, mine'[p] # Null
                 PROVE  /\ pc'[p] \in {"run", "get"} /\ state'[p] = "running"
                        /\ calls'[p] = <<>>
                        /\ \E e \in entries' : e.pvContext = p /\ e.pvData = mine'[p]
      BY DEF MineListed
    <3> QED
      BY <1>1, <2>1 DEF MineListed
  <2>4. CASE refs[o] = 0
    <3>1. \A e \in entries : e.pvContext # o
      BY <2>4 DEF ReferencesBalance
    <3>2. /\ state' = [state EXCEPT ![o] = "none"]
          /\ cid' = [cid EXCEPT ![o] = NoCid]
      BY <2>4
    <3>3. IdsOfLive'
      BY <3>2 DEF IdsOfLive, TypeOK
    <3>4. EntryPinsThread'
      BY <3>1, <3>2 DEF EntryPinsThread, TypeOK, Entry
    <3>5. \A p \in Objs : p # o => state'[p] = state[p]
      BY <3>2 DEF TypeOK
    <3> QED
      BY <2>3, <3>3, <3>4, <3>5
  <2>5. CASE refs[o] # 0
    <3>1. state' = [state EXCEPT ![o] = "exited"] /\ cid' = cid
      BY <2>5
    <3>2. IdsOfLive' /\ EntryPinsThread'
      BY <2>2, <3>1 DEF IdsOfLive, EntryPinsThread, TypeOK
    <3>3. \A p \in Objs : p # o => state'[p] = state[p]
      BY <3>1 DEF TypeOK
    <3> QED
      BY <2>3, <3>2, <3>3
  <2> QED
    BY <2>4, <2>5
<1>3. InsideRuns'
  BY <1>1 DEF InsideRuns, TypeOK
<1>4. /\ UniqueIds' /\ ReferencesBalance' /\ EntryOwnsBlocks' /\ StoringPtd'
      /\ EntryWhere' /\ VcrtStoresFirst' /\ VcrtPtdKept'
  BY <1>1 DEF UniqueIds, ReferencesBalance, EntryOwnsBlocks, StoringPtd,
     EntryWhere, VcrtStoresFirst, VcrtPtdKept
<1> QED
  BY <1>1, <1>2, <1>3, <1>4

LEMMA OtherMallocKeeps ==
    ASSUME PcdInv, NEW b \in Blocks, OtherMalloc(b) PROVE PcdInv'
<1> USE DEF PcdInv, OtherMalloc, Quiet, threadVars
<1>1. TypeOK'
  BY DEF TypeOK
<1>2. EntryOwnsBlocks' /\ StoringPtd'
  BY DEF TypeOK, Entry, EntryOwnsBlocks, StoringPtd
<1>3. VcrtPtdKept'
  BY DEF TypeOK, VcrtPtdKept
<1>4. /\ IdsOfLive' /\ InsideRuns' /\ EntryPinsThread' /\ UniqueIds'
      /\ ReferencesBalance' /\ EntryWhere' /\ MineListed' /\ VcrtStoresFirst'
  BY DEF IdsOfLive, InsideRuns, EntryPinsThread, UniqueIds, ReferencesBalance,
         EntryWhere, MineListed, VcrtStoresFirst
<1> QED
  BY <1>1, <1>2, <1>3, <1>4

LEMMA OtherFreeKeeps ==
    ASSUME PcdInv, NEW b \in Blocks, OtherFree(b) PROVE PcdInv'
<1> USE DEF PcdInv, OtherFree, Give, Quiet, threadVars
<1>1. TypeOK' /\ EntryOwnsBlocks' /\ StoringPtd' /\ VcrtPtdKept'
  BY DEF TypeOK, Entry, EntryOwnsBlocks, StoringPtd, VcrtPtdKept
<1>2. /\ IdsOfLive' /\ InsideRuns' /\ EntryPinsThread' /\ UniqueIds'
      /\ ReferencesBalance' /\ EntryWhere' /\ MineListed' /\ VcrtStoresFirst'
  BY DEF IdsOfLive, InsideRuns, EntryPinsThread, UniqueIds, ReferencesBalance,
         EntryWhere, MineListed, VcrtStoresFirst
<1> QED
  BY <1>1, <1>2

LEMMA CallGetPtdKeeps ==
    ASSUME PcdInv, NEW o \in Objs, CallGetPtd(o) PROVE PcdInv'
<1> USE DEF PcdInv, CallGetPtd, Goto, Quiet, threadVars, heapVars
<1>1. TypeOK' /\ InsideRuns' /\ EntryWhere' /\ MineListed'
  BY DEF TypeOK, InsideRuns, EntryWhere, MineListed
<1>2. ReferencesBalance' /\ EntryOwnsBlocks' /\ StoringPtd'
  BY DEF TypeOK, Entry, ReferencesBalance, EntryOwnsBlocks, StoringPtd
<1>3. VcrtStoresFirst'
  BY DEF TypeOK, VcrtStoresFirst
<1>4. VcrtPtdKept'
  BY DEF TypeOK, Entry, VcrtPtdKept
<1>5. IdsOfLive' /\ EntryPinsThread' /\ UniqueIds'
  BY DEF IdsOfLive, EntryPinsThread, UniqueIds
<1> QED
  BY <1>1, <1>2, <1>3, <1>4, <1>5

LEMMA AllocateKeeps ==
    ASSUME PcdInv, NEW o \in Objs, Allocate(o) PROVE PcdInv'
<1> USE PcdAssumption DEF PcdInv, Allocate, Quiet, threadVars
<1>1. PICK b \in Blocks : Take(b, o, "ptd") /\ ptPtd' = [ptPtd EXCEPT ![o] = b]
  OBVIOUS
<1>2. /\ kind[b] = "free" /\ b # Null
      /\ kind' = [kind EXCEPT ![b] = "ptd"] /\ maker' = [maker EXCEPT ![b] = o]
      /\ state[o] = "running" /\ pc[o] = "alloc" /\ pc' = [pc EXCEPT ![o] = "set"]
  BY <1>1 DEF Take, Goto
<1>3. TypeOK' /\ InsideRuns' /\ MineListed'
  BY <1>1, <1>2 DEF TypeOK, InsideRuns, MineListed
<1>4. EntryOwnsBlocks' /\ ReferencesBalance' /\ EntryWhere' /\ VcrtStoresFirst'
  BY <1>2 DEF TypeOK, Entry, EntryOwnsBlocks, ReferencesBalance, EntryWhere,
     VcrtStoresFirst
<1>5. StoringPtd'
  <2>1. \A e \in entries : pc'[e.pvContext] # "unlink" => e.pvData # b
    BY <1>2 DEF EntryOwnsBlocks, TypeOK, Entry
  <2>2. \A p \in Objs : ptPtd[p] # Null => ptPtd[p] # b
    BY <1>2 DEF StoringPtd
  <2> QED
    BY <1>1, <1>2, <2>1, <2>2 DEF StoringPtd, TypeOK, Entry
<1>6. VcrtPtdKept'
  <2>1. ptPtd[o] = Null
    BY <1>2 DEF StoringPtd
  <2>2. SUFFICES ASSUME layer = "vcrt", NEW c \in Blocks, kind'[c] = "ptd"
                 PROVE  \/ \E e \in entries : e.pvData = c /\ pc'[e.pvContext] # "unlink"
                        \/ \E p \in Objs : ptPtd'[p] = c
    BY DEF VcrtPtdKept
  <2>3. CASE c = b
    BY <1>1, <2>3 DEF TypeOK
  <2>4. CASE c # b
    <3>1. kind[c] = "ptd"
      BY <1>2, <2>2, <2>4 DEF TypeOK
    <3>2. CASE \E e \in entries : e.pvData = c /\ pc[e.pvContext] # "unlink"
      BY <1>2, <3>2 DEF TypeOK, Entry
    <3>3. CASE \E p \in Objs : ptPtd[p] = c
      BY <1>1, <2>1, <3>3, c # Null DEF TypeOK
    <3> QED
      BY <2>2, <3>1, <3>2, <3>3 DEF VcrtPtdKept
  <2> QED
    BY <2>3, <2>4
<1>7. IdsOfLive' /\ EntryPinsThread' /\ UniqueIds'
  BY DEF IdsOfLive, EntryPinsThread, UniqueIds
<1> QED
  BY <1>3, <1>4, <1>5, <1>6, <1>7

(* The VCRuntime's returns leave no interrupted call. *)
LEMMA ReturnUnwinds ==
    ASSUME PcdInv, NEW o \in Objs, UNCHANGED <<layer, entries>>,
           (\A i \in 1 .. Len(calls[o]) : calls[o][i] = "raise") =>
              /\ pc' = [pc EXCEPT ![o] = "run"]
              /\ calls' = [calls EXCEPT ![o] = <<>>]
    PROVE  VcrtStoresFirst'
<1> SUFFICES ASSUME layer = "vcrt", NEW p \in Objs
             PROVE  /\ \A i \in 1 .. Len(calls'[p]) : calls'[p][i] = "raise"
                    /\ pc'[p] \in {"alloc", "set", "entry"} =>
                          \A e \in entries : e.pvContext # p
  BY DEF VcrtStoresFirst
<1>1. pc' = [pc EXCEPT ![o] = "run"] /\ calls' = [calls EXCEPT ![o] = <<>>]
  BY DEF PcdInv, VcrtStoresFirst
<1>2. CASE p = o
  <2>1. pc'[o] = "run" /\ calls'[o] = <<>>
    BY <1>1 DEF PcdInv, TypeOK
  <2> QED
    BY <1>2, <2>1, EmptySeq
<1>3. CASE p # o
  <2>1. pc'[p] = pc[p] /\ calls'[p] = calls[p]
    BY <1>1, <1>3 DEF PcdInv, TypeOK
  <2> QED
    BY <2>1 DEF PcdInv, VcrtStoresFirst
<1> QED
  BY <1>2, <1>3

(* The entries with the id of a thread are the entries of that thread. *)
LEMMA FoundIsOwn ==
    ASSUME PcdInv, NEW o \in Objs, state[o] # "none"
    PROVE  \A e \in entries : e \in Found(o) <=> e.pvContext = o
BY DEF PcdInv, TypeOK, Entry, IdsOfLive, EntryPinsThread, Found

(* A step of thread o that touches neither blocks nor entries nor ptPtd, *)
(* outside the storing of a PTD and the unlinking.                        *)
LEMMA SameBlocks ==
    ASSUME PcdInv, NEW o \in Objs, NEW to \in {"run", "get", "alloc", "set"},
           UNCHANGED <<layer, kind, maker, entries, ptPtd>>,
           pc[o] \in {"run", "get", "alloc"}, pc' = [pc EXCEPT ![o] = to]
    PROVE  EntryOwnsBlocks' /\ StoringPtd' /\ VcrtPtdKept'
<1> USE DEF PcdInv
<1>1. \A e \in entries : pc'[e.pvContext] = "unlink" <=> pc[e.pvContext] = "unlink"
  BY DEF TypeOK, Entry
<1>2. \A p \in Objs : ptPtd[p] # Null => pc'[p] = pc[p]
  <2>1. ptPtd[o] = Null
    BY DEF StoringPtd
  <2>2. \A p \in Objs : p # o => pc'[p] = pc[p]
    BY DEF TypeOK
  <2> QED
    BY <2>1, <2>2
<1>3. EntryOwnsBlocks'
  BY <1>1 DEF EntryOwnsBlocks
<1>4. StoringPtd'
  BY <1>1, <1>2 DEF StoringPtd
<1>5. VcrtPtdKept'
  BY <1>1 DEF VcrtPtdKept
<1> QED
  BY <1>3, <1>4, <1>5

LEMMA LookupKeeps ==
    ASSUME PcdInv, NEW o \in Objs, Lookup(o) PROVE PcdInv'
<1> USE PcdAssumption DEF PcdInv
<1>1. UNCHANGED <<layer, state, cid, refs, kind, maker, entries, bugcheck>>
  BY DEF Lookup, Quiet, threadVars, heapVars
<1>2. CASE \E e \in Found(o) : Return(o, "get", e.pvData)
  <2>1. PICK e \in Found(o) : Return(o, "get", e.pvData)
    BY <1>2
  <2>2. e \in entries /\ e.pvData \in Blocks \cup {Null}
    BY DEF Found, TypeOK, Entry
  <2>3. /\ state[o] = "running" /\ pc[o] = "get"
        /\ ptPtd' = [ptPtd EXCEPT ![o] = Null]
        /\ \E to \in {"run", "get", "set"} : pc' = [pc EXCEPT ![o] = to]
        /\ \E s \in Seq(Frames) : calls' = [calls EXCEPT ![o] = s]
        /\ \/ /\ calls[o] = <<>> /\ calls' = calls
              /\ mine' = [mine EXCEPT ![o] = e.pvData]
              /\ pc' = [pc EXCEPT ![o] = "run"]
           \/ calls[o] # <<>> /\ mine' = mine
        /\ (\A i \in 1 .. Len(calls[o]) : calls[o][i] = "raise") =>
              /\ pc' = [pc EXCEPT ![o] = "run"]
              /\ calls' = [calls EXCEPT ![o] = <<>>]
    BY <2>1, <2>2, ReturnEffect
  <2>4. e.pvContext = o
    BY <2>2, <2>3, FoundIsOwn
  <2>5. ptPtd' = ptPtd
    <3>1. ptPtd[o] = Null
      BY <2>3 DEF StoringPtd
    <3> QED
      BY <2>3, <3>1 DEF TypeOK
  <2>6. TypeOK'
    <3>1. mine' \in [Objs -> Blocks \cup {Null}]
      BY <2>2, <2>3 DEF TypeOK
    <3>2. pc' \in [Objs -> {"run", "get", "alloc", "set", "entry", "unlink"}]
      BY <2>3 DEF TypeOK
    <3>3. calls' \in [Objs -> Seq(Frames)]
      BY <2>3 DEF TypeOK
    <3> QED
      BY <1>1, <2>5, <3>1, <3>2, <3>3 DEF TypeOK
  <2>7. InsideRuns' /\ EntryWhere' /\ ReferencesBalance'
    BY <1>1, <2>3 DEF InsideRuns, EntryWhere, ReferencesBalance, TypeOK, Entry
  <2>8. EntryOwnsBlocks' /\ StoringPtd' /\ VcrtPtdKept'
    BY <1>1, <2>3, <2>5, SameBlocks
  <2>9. MineListed'
    <3> SUFFICES ASSUME NEW p \in Objs, mine'[p] # Null
                 PROVE  /\ pc'[p] \in {"run", "get"} /\ state[p] = "running"
                        /\ calls'[p] = <<>>
                        /\ \E f \in entries : f.pvContext = p /\ f.pvData = mine'[p]
      BY <1>1 DEF MineListed
    <3>1. CASE p = o
      BY <2>2, <2>3, <2>4, <3>1 DEF MineListed, TypeOK
    <3>2. CASE p # o
      <4>1. pc'[p] = pc[p] /\ calls'[p] = calls[p] /\ mine'[p] = mine[p]
        BY <2>3, <3>2 DEF TypeOK
      <4> QED
        BY <4>1 DEF MineListed
    <3> QED
      BY <3>1, <3>2
  <2>10. VcrtStoresFirst'
    BY <1>1, <2>3, ReturnUnwinds
  <2>11. IdsOfLive' /\ EntryPinsThread' /\ UniqueIds'
    BY <1>1 DEF IdsOfLive, EntryPinsThread, UniqueIds
  <2> QED
    BY <2>6, <2>7, <2>8, <2>9, <2>10, <2>11
<1>3. CASE /\ Found(o) = {} /\ Goto(o, "get", "alloc")
           /\ UNCHANGED <<ptPtd, calls, mine>>
  <2>1. /\ state[o] = "running" /\ pc[o] = "get" /\ pc' = [pc EXCEPT ![o] = "alloc"]
    BY <1>3 DEF Goto
  <2>2. \A e \in entries : e.pvContext # o
    BY <1>3, <2>1, FoundIsOwn
  <2>3. TypeOK' /\ InsideRuns' /\ EntryWhere' /\ ReferencesBalance'
    BY <1>1, <1>3, <2>1
       DEF TypeOK, InsideRuns, EntryWhere, ReferencesBalance, Entry
  <2>4. EntryOwnsBlocks' /\ StoringPtd' /\ VcrtPtdKept'
    BY <1>1, <1>3, <2>1, SameBlocks
  <2>5. MineListed'
    <3>1. mine[o] = Null
      BY <2>1, <2>2 DEF MineListed
    <3> QED
      BY <1>1, <1>3, <2>1, <3>1 DEF MineListed, TypeOK
  <2>6. VcrtStoresFirst'
    BY <1>1, <1>3, <2>1, <2>2 DEF VcrtStoresFirst, TypeOK
  <2>7. IdsOfLive' /\ EntryPinsThread' /\ UniqueIds'
    BY <1>1 DEF IdsOfLive, EntryPinsThread, UniqueIds
  <2> QED
    BY <2>3, <2>4, <2>5, <2>6, <2>7
<1> QED
  BY <1>2, <1>3 DEF Lookup

LEMMA AllocateFailsKeeps ==
    ASSUME PcdInv, NEW o \in Objs, AllocateFails(o) PROVE PcdInv'
<1> USE PcdAssumption DEF PcdInv
<1>1. UNCHANGED <<layer, state, cid, refs, kind, maker, entries, ptPtd, mine>>
  BY DEF AllocateFails, threadVars, heapVars
<1>2. /\ state[o] = "running" /\ pc[o] = "alloc" /\ bugcheck' \in BOOLEAN
      /\ \E to \in {"get", "alloc"} : pc' = [pc EXCEPT ![o] = to]
  BY DEF AllocateFails, Goto, TypeOK
<1>3. \E s \in Seq(Frames) :
        /\ calls' = [calls EXCEPT ![o] = s]
        /\ layer = "vcrt" => s = calls[o] \/ s = Append(calls[o], "raise")
  <2>1. calls[o] \in Seq(Frames)
    BY DEF TypeOK
  <2>2. \A f \in Frames : Append(calls[o], f) \in Seq(Frames)
    BY <2>1, AppendProperties
  <2>3. calls = [calls EXCEPT ![o] = calls[o]]
    BY DEF TypeOK
  <2> QED
    BY <2>1, <2>2, <2>3 DEF AllocateFails, Frames
<1>4. TypeOK' /\ InsideRuns' /\ EntryWhere' /\ ReferencesBalance'
  BY <1>1, <1>2, <1>3 DEF TypeOK, InsideRuns, EntryWhere, ReferencesBalance, Entry
<1>5. EntryOwnsBlocks' /\ StoringPtd' /\ VcrtPtdKept'
  BY <1>1, <1>2, SameBlocks
<1>6. MineListed'
  BY <1>1, <1>2, <1>3 DEF MineListed, TypeOK
<1>7. VcrtStoresFirst'
  <2> SUFFICES ASSUME layer = "vcrt", NEW p \in Objs
               PROVE  /\ \A i \in 1 .. Len(calls'[p]) : calls'[p][i] = "raise"
                      /\ pc'[p] \in {"alloc", "set", "entry"} =>
                            \A e \in entries : e.pvContext # p
    BY <1>1 DEF VcrtStoresFirst
  <2>1. \A i \in 1 .. Len(calls[p]) : calls[p][i] = "raise"
    BY DEF VcrtStoresFirst
  <2>2. \A i \in 1 .. Len(Append(calls[p], "raise")) :
            Append(calls[p], "raise")[i] = "raise"
    BY <2>1, AppendProperties, LenProperties DEF TypeOK, Frames
  <2>3. \A i \in 1 .. Len(calls'[p]) : calls'[p][i] = "raise"
    <3>1. CASE p = o
      <4>1. calls'[p] = calls[p] \/ calls'[p] = Append(calls[p], "raise")
        BY <1>3, <3>1 DEF TypeOK
      <4> QED
        BY <2>1, <2>2, <4>1
    <3>2. CASE p # o
      <4>1. calls'[p] = calls[p]
        BY <1>3, <3>2 DEF TypeOK
      <4> QED
        BY <2>1, <4>1
    <3> QED
      BY <3>1, <3>2
  <2> QED
    BY <1>2, <2>3 DEF VcrtStoresFirst, TypeOK
<1>8. IdsOfLive' /\ EntryPinsThread' /\ UniqueIds'
  BY <1>1 DEF IdsOfLive, EntryPinsThread, UniqueIds
<1> QED
  BY <1>4, <1>5, <1>6, <1>7, <1>8

LEMMA SetContextKeeps ==
    ASSUME PcdInv, NEW o \in Objs, SetContext(o) PROVE PcdInv'
<1> USE PcdAssumption DEF PcdInv
<1>1. UNCHANGED <<layer, state, cid, kind, maker, bugcheck>>
  BY DEF SetContext, Quiet, threadVars, heapVars
<1>2. ASSUME NEW e \in Found(o),
             entries' = (entries \ {e}) \cup {[e EXCEPT !.pvData = ptPtd[o]]},
             Return(o, "set", ptPtd[o]), UNCHANGED refs
      PROVE  PcdInv'
  <2>1. e \in entries /\ e \in Entry /\ ptPtd[o] \in Blocks \cup {Null}
    BY DEF Found, TypeOK
  <2>2. /\ state[o] = "running" /\ pc[o] = "set"
        /\ ptPtd' = [ptPtd EXCEPT ![o] = Null]
        /\ \E to \in {"run", "get", "set"} : pc' = [pc EXCEPT ![o] = to]
        /\ \E s \in Seq(Frames) : calls' = [calls EXCEPT ![o] = s]
        /\ \/ /\ calls[o] = <<>> /\ calls' = calls
              /\ mine' = [mine EXCEPT ![o] = ptPtd[o]]
              /\ pc' = [pc EXCEPT ![o] = "run"]
           \/ calls[o] # <<>> /\ mine' = mine
    BY <1>2, <2>1, ReturnEffect
  <2>3. e.pvContext = o
    BY <2>1, <2>2, FoundIsOwn
  <2>4. layer # "vcrt"
    BY <2>1, <2>2, <2>3 DEF VcrtStoresFirst
  <2> DEFINE n == [e EXCEPT !.pvData = ptPtd[o]]
  <2>5. /\ n \in Entry /\ n.at = e.at /\ n.hCid = e.hCid /\ n.pvContext = o
        /\ n.pvData = ptPtd[o]
    BY <2>1, <2>3 DEF Entry
  <2>6. \A f \in entries : f.pvContext = o => f = e
    BY <2>1, <2>3 DEF UniqueIds, EntryPinsThread
  <2>7. /\ entries' = (entries \ {e}) \cup {n}
        /\ \A f \in entries' : f # n => f \in entries /\ f.pvContext # o
        /\ n \in entries'
        /\ \A f \in entries : f.pvContext # o => f \in entries'
    BY <1>2, <2>1, <2>3, <2>6
  <2> HIDE DEF n
  <2>8. /\ pc'[o] \in {"run", "get", "set"}
        /\ \A p \in Objs : p # o => /\ pc'[p] = pc[p] /\ mine'[p] = mine[p]
                                    /\ ptPtd'[p] = ptPtd[p] /\ calls'[p] = calls[p]
        /\ ptPtd'[o] = Null
    BY <2>2 DEF TypeOK
  <2>9. TypeOK'
    <3>1. entries' \subseteq Entry
      BY <2>5, <2>7 DEF TypeOK
    <3>2. mine' \in [Objs -> Blocks \cup {Null}]
      BY <2>1, <2>2 DEF TypeOK
    <3>3. pc' \in [Objs -> {"run", "get", "alloc", "set", "entry", "unlink"}]
      BY <2>2 DEF TypeOK
    <3>4. calls' \in [Objs -> Seq(Frames)] /\ ptPtd' \in [Objs -> Blocks \cup {Null}]
      BY <2>2 DEF TypeOK
    <3> QED
      BY <1>1, <1>2, <3>1, <3>2, <3>3, <3>4 DEF TypeOK
  <2>10. InsideRuns' /\ IdsOfLive'
    BY <1>1, <2>2, <2>8 DEF InsideRuns, IdsOfLive
  <2>11. EntryPinsThread' /\ UniqueIds'
    BY <1>1, <2>1, <2>3, <2>5, <2>7 DEF EntryPinsThread, UniqueIds
  <2>12. ReferencesBalance'
    BY <1>1, <1>2, <2>1, <2>2, <2>3, <2>5, <2>7, <2>8 DEF ReferencesBalance
  <2>13. EntryOwnsBlocks'
    <3>1. /\ kind[n.at] = "entry" /\ maker[n.at] = n.pvContext
          /\ n.pvData # Null => kind[n.pvData] = "ptd" /\ maker[n.pvData] = n.pvContext
      BY <2>1, <2>2, <2>3, <2>5 DEF EntryOwnsBlocks, StoringPtd
    <3>2. \A f \in entries' : f # n => f \in entries /\ pc'[f.pvContext] = pc[f.pvContext]
      BY <2>7, <2>8 DEF TypeOK, Entry
    <3> QED
      BY <1>1, <3>1, <3>2 DEF EntryOwnsBlocks
  <2>14. StoringPtd'
    BY <1>1, <2>2, <2>5, <2>7, <2>8 DEF StoringPtd, TypeOK, Entry
  <2>15. EntryWhere'
    BY <2>5, <2>7, <2>8 DEF EntryWhere
  <2>16. MineListed'
    <3>1. ASSUME mine'[o] # Null
          PROVE  /\ pc'[o] = "run" /\ calls'[o] = <<>> /\ n.pvData = mine'[o]
      <4>1. mine[o] = Null
        BY <2>2 DEF MineListed
      <4> QED
        BY <2>2, <2>5, <3>1, <4>1 DEF TypeOK
    <3>2. ASSUME NEW p \in Objs, p # o, mine'[p] # Null
          PROVE  /\ pc'[p] \in {"run", "get"} /\ state[p] = "running"
                 /\ calls'[p] = <<>>
                 /\ \E f \in entries' : f.pvContext = p /\ f.pvData = mine'[p]
      BY <2>7, <2>8, <3>2 DEF MineListed
    <3> QED
      BY <1>1, <2>2, <2>5, <2>7, <3>1, <3>2 DEF MineListed
  <2>17. VcrtStoresFirst' /\ VcrtPtdKept'
    BY <1>1, <2>4 DEF VcrtStoresFirst, VcrtPtdKept
  <2> QED
    BY <2>9, <2>10, <2>11, <2>12, <2>13, <2>14, <2>15, <2>16, <2>17
<1>3. ASSUME Found(o) = {}, Goto(o, "set", "entry"), refs' = [refs EXCEPT ![o] = @ + 1],
             UNCHANGED <<entries, ptPtd, calls, mine>>
      PROVE  PcdInv'
  <2>1. state[o] = "running" /\ pc[o] = "set" /\ pc' = [pc EXCEPT ![o] = "entry"]
    BY <1>3 DEF Goto
  <2>2. \A e \in entries : e.pvContext # o
    BY <1>3, <2>1, FoundIsOwn
  <2>3. TypeOK' /\ InsideRuns' /\ EntryWhere'
    BY <1>1, <1>3, <2>1, <2>2 DEF TypeOK, InsideRuns, EntryWhere
  <2>4. ReferencesBalance'
    <3>1. refs[o] = 0
      BY <2>1, <2>2 DEF ReferencesBalance
    <3>2. refs'[o] = 1 /\ pc'[o] = "entry"
      BY <1>3, <2>1, <3>1 DEF TypeOK
    <3>3. \A p \in Objs : p # o => refs'[p] = refs[p] /\ pc'[p] = pc[p]
      BY <1>3, <2>1 DEF TypeOK
    <3> QED
      BY <1>3, <3>2, <3>3 DEF ReferencesBalance
  <2>5. EntryOwnsBlocks' /\ StoringPtd'
    BY <1>1, <1>3, <2>1 DEF EntryOwnsBlocks, StoringPtd, TypeOK, Entry
  <2>6. MineListed'
    <3>1. mine[o] = Null
      BY <2>1 DEF MineListed
    <3> QED
      BY <1>1, <1>3, <2>1, <3>1 DEF MineListed, TypeOK
  <2>7. VcrtStoresFirst'
    BY <1>1, <1>3, <2>1, <2>2 DEF VcrtStoresFirst, TypeOK
  <2>8. VcrtPtdKept'
    BY <1>1, <1>3, <2>1 DEF VcrtPtdKept, TypeOK, Entry
  <2>9. IdsOfLive' /\ EntryPinsThread' /\ UniqueIds'
    BY <1>1, <1>3 DEF IdsOfLive, EntryPinsThread, UniqueIds
  <2> QED
    BY <2>3, <2>4, <2>5, <2>6, <2>7, <2>8, <2>9
<1> QED
  BY <1>2, <1>3 DEF SetContext

LEMMA CreateEntryFailsKeeps ==
    ASSUME PcdInv, NEW o \in Objs, CreateEntryFails(o) PROVE PcdInv'
<1> USE PcdAssumption DEF PcdInv
<1>1. /\ UNCHANGED <<layer, state, cid, entries, bugcheck>>
      /\ refs' = [refs EXCEPT ![o] = @ - 1]
      /\ kind' = [b \in Blocks |-> IF b = ptPtd[o] THEN "free" ELSE kind[b]]
      /\ maker' = [b \in Blocks |-> IF b = ptPtd[o] THEN Null ELSE maker[b]]
  BY DEF CreateEntryFails, Give, Quiet, threadVars
<1>2. /\ state[o] = "running" /\ pc[o] = "entry"
      /\ ptPtd' = [ptPtd EXCEPT ![o] = Null]
      /\ \E to \in {"run", "get", "set"} : pc' = [pc EXCEPT ![o] = to]
      /\ \E s \in Seq(Frames) : calls' = [calls EXCEPT ![o] = s]
      /\ mine' = [mine EXCEPT ![o] = Null] \/ mine' = mine
      /\ (\A i \in 1 .. Len(calls[o]) : calls[o][i] = "raise") =>
            /\ pc' = [pc EXCEPT ![o] = "run"]
            /\ calls' = [calls EXCEPT ![o] = <<>>]
  BY ReturnEffect DEF CreateEntryFails
<1>3. refs[o] = 1 /\ \A e \in entries : e.pvContext # o
  BY <1>2 DEF ReferencesBalance, EntryWhere
<1>4. mine[o] = Null
  BY <1>2 DEF MineListed
<1>5. mine' = mine
  BY <1>2, <1>4 DEF TypeOK
<1>6. /\ pc'[o] \in {"run", "get", "set"}
      /\ \A p \in Objs : p # o => /\ pc'[p] = pc[p] /\ ptPtd'[p] = ptPtd[p]
                                  /\ calls'[p] = calls[p]
      /\ ptPtd'[o] = Null
  BY <1>2 DEF TypeOK
<1>7. \A b \in Blocks : b # ptPtd[o] => kind'[b] = kind[b] /\ maker'[b] = maker[b]
  BY <1>1
<1>8. \A e \in entries : /\ e.pvContext \in Objs /\ e.pvContext # o
                         /\ e.at \in Blocks /\ e.pvData \in Blocks \cup {Null}
  BY <1>3 DEF TypeOK, Entry
<1>9. TypeOK'
  <2>1. /\ pc' \in [Objs -> {"run", "get", "alloc", "set", "entry", "unlink"}]
        /\ calls' \in [Objs -> Seq(Frames)] /\ ptPtd' \in [Objs -> Blocks \cup {Null}]
    BY <1>2 DEF TypeOK
  <2>2. refs' \in [Objs -> Nat]
    BY <1>1, <1>3 DEF TypeOK
  <2>3. /\ kind' \in [Blocks -> {"free", "entry", "ptd", "other"}]
        /\ maker' \in [Blocks -> Objs \cup {Null}]
    BY <1>1 DEF TypeOK
  <2> QED
    BY <1>1, <1>5, <2>1, <2>2, <2>3 DEF TypeOK
<1>10. InsideRuns' /\ IdsOfLive' /\ EntryPinsThread' /\ UniqueIds'
  BY <1>1, <1>2, <1>6 DEF InsideRuns, IdsOfLive, EntryPinsThread, UniqueIds
<1>11. ReferencesBalance'
  BY <1>1, <1>3, <1>6 DEF ReferencesBalance, TypeOK
<1>12. EntryOwnsBlocks'
  BY <1>1, <1>6, <1>7, <1>8 DEF EntryOwnsBlocks, StoringPtd
<1>13. StoringPtd'
  <2> SUFFICES ASSUME NEW p \in Objs, ptPtd'[p] # Null
               PROVE  /\ pc'[p] \in {"set", "entry"}
                      /\ kind'[ptPtd'[p]] = "ptd" /\ maker'[ptPtd'[p]] = p
                      /\ \A e \in entries' :
                            pc'[e.pvContext] # "unlink" => e.pvData # ptPtd'[p]
    BY DEF StoringPtd
  <2>1. p # o /\ ptPtd'[p] = ptPtd[p] /\ pc'[p] = pc[p]
    BY <1>6
  <2>2. ptPtd[p] \in Blocks /\ ptPtd[p] # ptPtd[o]
    BY <2>1 DEF StoringPtd, TypeOK
  <2> QED
    BY <1>1, <1>6, <1>7, <1>8, <2>1, <2>2 DEF StoringPtd
<1>14. EntryWhere'
  BY <1>1, <1>3, <1>6 DEF EntryWhere
<1>15. MineListed'
  BY <1>1, <1>4, <1>5, <1>6 DEF MineListed
<1>16. VcrtStoresFirst'
  BY <1>1, <1>2, ReturnUnwinds
<1>17. VcrtPtdKept'
  BY <1>1, <1>6, <1>7, <1>8 DEF VcrtPtdKept
<1> QED
  BY <1>9, <1>10, <1>11, <1>12, <1>13, <1>14, <1>15, <1>16, <1>17

LEMMA CreateEntryKeeps ==
    ASSUME PcdInv, NEW o \in Objs, CreateEntry(o) PROVE PcdInv'
<1> USE PcdAssumption DEF PcdInv
<1>1. PICK b \in Blocks :
        /\ Take(b, o, "entry")
        /\ entries' = entries \cup
            {[at |-> b, hCid |-> cid[o], pvContext |-> o, pvData |-> ptPtd[o]]}
  BY DEF CreateEntry
<1> DEFINE n == [at |-> b, hCid |-> cid[o], pvContext |-> o, pvData |-> ptPtd[o]]
<1>2. /\ UNCHANGED <<layer, state, cid, refs, bugcheck>>
      /\ kind[b] = "free"
      /\ kind' = [kind EXCEPT ![b] = "entry"] /\ maker' = [maker EXCEPT ![b] = o]
  BY <1>1 DEF CreateEntry, Take, Quiet, threadVars
<1>3. /\ state[o] = "running" /\ pc[o] = "entry"
      /\ ptPtd' = [ptPtd EXCEPT ![o] = Null]
      /\ \E to \in {"run", "get", "set"} : pc' = [pc EXCEPT ![o] = to]
      /\ \E s \in Seq(Frames) : calls' = [calls EXCEPT ![o] = s]
      /\ \/ /\ calls[o] = <<>> /\ calls' = calls
            /\ mine' = [mine EXCEPT ![o] = ptPtd[o]]
            /\ pc' = [pc EXCEPT ![o] = "run"]
         \/ calls[o] # <<>> /\ mine' = mine
      /\ (\A i \in 1 .. Len(calls[o]) : calls[o][i] = "raise") =>
            /\ pc' = [pc EXCEPT ![o] = "run"]
            /\ calls' = [calls EXCEPT ![o] = <<>>]
  BY ReturnEffect DEF CreateEntry, TypeOK
<1>4. /\ refs[o] = 1 /\ mine[o] = Null /\ cid[o] \in Cids /\ cid[o] # NoCid
      /\ \A e \in entries : e.pvContext # o
  <2>1. refs[o] = 1 /\ \A e \in entries : e.pvContext # o
    BY <1>3 DEF ReferencesBalance, EntryWhere
  <2>2. mine[o] = Null
    BY <1>3 DEF MineListed
  <2>3. cid[o] \in Cids /\ cid[o] # NoCid
    BY <1>3 DEF IdsOfLive, TypeOK
  <2> QED
    BY <2>1, <2>2, <2>3
<1>5. /\ n \in Entry /\ n.at = b /\ n.hCid = cid[o] /\ n.pvContext = o
      /\ n.pvData = ptPtd[o]
  BY <1>4 DEF Entry, TypeOK
<1>6. /\ entries' = entries \cup {n} /\ n \in entries'
      /\ \A f \in entries' : f # n => f \in entries
  BY <1>1
<1> HIDE DEF n
<1>7. /\ pc'[o] \in {"run", "get", "set"}
      /\ \A p \in Objs : p # o => /\ pc'[p] = pc[p] /\ mine'[p] = mine[p]
                                  /\ ptPtd'[p] = ptPtd[p] /\ calls'[p] = calls[p]
      /\ ptPtd'[o] = Null
  BY <1>3 DEF TypeOK
<1>8. /\ \A c \in Blocks : c # b => kind'[c] = kind[c] /\ maker'[c] = maker[c]
      /\ kind'[b] = "entry" /\ maker'[b] = o
  BY <1>2 DEF TypeOK
<1>9. \A e \in entries : /\ e.pvContext \in Objs /\ e.pvContext # o
                         /\ e.at \in Blocks /\ e.pvData \in Blocks \cup {Null}
                         /\ pc'[e.pvContext] = pc[e.pvContext]
  BY <1>4, <1>7 DEF TypeOK, Entry
<1>10. TypeOK'
  <2>1. /\ pc' \in [Objs -> {"run", "get", "alloc", "set", "entry", "unlink"}]
        /\ calls' \in [Objs -> Seq(Frames)] /\ ptPtd' \in [Objs -> Blocks \cup {Null}]
    BY <1>3 DEF TypeOK
  <2>2. mine' \in [Objs -> Blocks \cup {Null}]
    BY <1>3 DEF TypeOK
  <2>3. /\ kind' \in [Blocks -> {"free", "entry", "ptd", "other"}]
        /\ maker' \in [Blocks -> Objs \cup {Null}]
    BY <1>2 DEF TypeOK
  <2>4. entries' \subseteq Entry
    BY <1>5, <1>6 DEF TypeOK
  <2> QED
    BY <1>2, <2>1, <2>2, <2>3, <2>4 DEF TypeOK
<1>11. InsideRuns' /\ IdsOfLive'
  BY <1>2, <1>3, <1>7 DEF InsideRuns, IdsOfLive
<1>12. EntryPinsThread'
  BY <1>2, <1>3, <1>5, <1>6 DEF EntryPinsThread
<1>13. UniqueIds'
  <2>1. \A e \in entries : e.hCid # n.hCid
    BY <1>4, <1>5, <1>9 DEF EntryPinsThread, IdsOfLive
  <2> QED
    BY <1>6, <2>1 DEF UniqueIds
<1>14. ReferencesBalance' /\ EntryWhere'
  BY <1>2, <1>4, <1>5, <1>6, <1>7 DEF ReferencesBalance, EntryWhere
<1>15. EntryOwnsBlocks'
  <2>1. \A e \in entries : pc[e.pvContext] # "unlink" => e.at # b /\ e.pvData # b
    BY <1>2, <1>9 DEF EntryOwnsBlocks
  <2>2. n.pvData # Null => kind'[n.pvData] = "ptd" /\ maker'[n.pvData] = o
    BY <1>2, <1>3, <1>5, <1>8 DEF StoringPtd, TypeOK
  <2> QED
    BY <1>5, <1>6, <1>8, <1>9, <2>1, <2>2 DEF EntryOwnsBlocks
<1>16. StoringPtd'
  <2> SUFFICES ASSUME NEW p \in Objs, ptPtd'[p] # Null
               PROVE  /\ pc'[p] \in {"set", "entry"}
                      /\ kind'[ptPtd'[p]] = "ptd" /\ maker'[ptPtd'[p]] = p
                      /\ \A e \in entries' :
                            pc'[e.pvContext] # "unlink" => e.pvData # ptPtd'[p]
    BY DEF StoringPtd
  <2>1. p # o /\ ptPtd'[p] = ptPtd[p] /\ pc'[p] = pc[p]
    BY <1>7
  <2>2. ptPtd[p] \in Blocks /\ ptPtd[p] # ptPtd[o] /\ ptPtd[p] # b
    BY <1>2, <2>1 DEF StoringPtd, TypeOK
  <2> QED
    BY <1>5, <1>6, <1>8, <1>9, <2>1, <2>2 DEF StoringPtd
<1>17. MineListed'
  <2>1. ASSUME mine'[o] # Null
        PROVE  /\ pc'[o] = "run" /\ calls'[o] = <<>> /\ n.pvData = mine'[o]
    BY <1>3, <1>4, <1>5, <2>1 DEF TypeOK
  <2>2. ASSUME NEW p \in Objs, p # o, mine'[p] # Null
        PROVE  /\ pc'[p] \in {"run", "get"} /\ state[p] = "running"
               /\ calls'[p] = <<>>
               /\ \E f \in entries' : f.pvContext = p /\ f.pvData = mine'[p]
    BY <1>6, <1>7, <2>2 DEF MineListed
  <2> QED
    BY <1>2, <1>3, <1>5, <1>6, <2>1, <2>2 DEF MineListed
<1>18. VcrtStoresFirst'
  <2> SUFFICES ASSUME layer = "vcrt", NEW p \in Objs
               PROVE  /\ \A i \in 1 .. Len(calls'[p]) : calls'[p][i] = "raise"
                      /\ pc'[p] \in {"alloc", "set", "entry"} =>
                            \A e \in entries' : e.pvContext # p
    BY <1>2 DEF VcrtStoresFirst
  <2>1. CASE p = o
    <3>1. pc'[o] = "run" /\ calls'[o] = <<>>
      BY <1>3 DEF VcrtStoresFirst, TypeOK
    <3> QED
      BY <2>1, <3>1, EmptySeq
  <2>2. CASE p # o
    BY <1>5, <1>6, <1>7, <2>2 DEF VcrtStoresFirst
  <2> QED
    BY <2>1, <2>2
<1>19. VcrtPtdKept'
  <2> SUFFICES ASSUME layer = "vcrt", NEW c \in Blocks, kind'[c] = "ptd"
               PROVE  \/ \E e \in entries' : e.pvData = c /\ pc'[e.pvContext] # "unlink"
                      \/ \E p \in Objs : ptPtd'[p] = c
    BY <1>2 DEF VcrtPtdKept
  <2>1. kind[c] = "ptd"
    BY <1>8
  <2>2. CASE ptPtd[o] = c
    BY <1>5, <1>6, <1>7, <2>2
  <2>3. CASE ptPtd[o] # c
    BY <1>6, <1>7, <1>9, <2>1, <2>3 DEF VcrtPtdKept
  <2> QED
    BY <2>2, <2>3
<1> QED
  BY <1>10, <1>11, <1>12, <1>13, <1>14, <1>15, <1>16, <1>17, <1>18, <1>19

LEMMA ReleaseEntryKeeps ==
    ASSUME PcdInv, NEW o \in Objs, ReleaseEntry(o) PROVE PcdInv'
<1> USE PcdAssumption DEF PcdInv
<1>1. PICK e \in Found(o) :
        /\ kind' = [b \in Blocks |-> IF b \in {e.at, e.pvData} THEN "free" ELSE kind[b]]
        /\ maker' = [b \in Blocks |-> IF b = e.pvData THEN Null ELSE maker[b]]
        /\ refs' = [refs EXCEPT ![e.pvContext] = @ - 1]
  BY DEF ReleaseEntry
<1>2. /\ UNCHANGED <<layer, state, cid, bugcheck, entries, ptPtd, calls>>
      /\ state[o] = "running" /\ pc[o] = "run" /\ pc' = [pc EXCEPT ![o] = "unlink"]
      /\ mine' = [mine EXCEPT ![o] = Null]
  BY DEF ReleaseEntry, Goto, Quiet, threadVars
<1>3. e \in entries /\ e.pvContext = o
  BY <1>2, FoundIsOwn DEF Found
<1>4. /\ kind' = [b \in Blocks |-> IF b \in {e.at, e.pvData} THEN "free" ELSE kind[b]]
      /\ maker' = [b \in Blocks |-> IF b = e.pvData THEN Null ELSE maker[b]]
  BY <1>1
<1>5. /\ pc'[o] = "unlink" /\ mine'[o] = Null
      /\ \A p \in Objs : p # o => pc'[p] = pc[p] /\ mine'[p] = mine[p]
  BY <1>2 DEF TypeOK
<1>6. refs[o] = 1
  BY <1>2, <1>3 DEF ReferencesBalance
<1>7. /\ refs' \in [Objs -> Nat] /\ refs'[o] = 0
      /\ \A p \in Objs : p # o => refs'[p] = refs[p]
  BY <1>1, <1>3, <1>6 DEF TypeOK
<1>8. /\ kind[e.at] = "entry" /\ maker[e.at] = o
      /\ e.pvData # Null => kind[e.pvData] = "ptd" /\ maker[e.pvData] = o
  BY <1>2, <1>3 DEF EntryOwnsBlocks
<1>9. \A b \in Blocks : maker[b] # o => kind'[b] = kind[b] /\ maker'[b] = maker[b]
  BY <1>4, <1>8
<1>10. \A f \in entries : /\ f.pvContext \in Objs /\ f.at \in Blocks
                          /\ f.pvData \in Blocks \cup {Null}
                          /\ f.pvContext = o => f = e
  BY <1>3 DEF TypeOK, Entry, UniqueIds, EntryPinsThread
<1>11. TypeOK'
  <2>1. /\ kind' \in [Blocks -> {"free", "entry", "ptd", "other"}]
        /\ maker' \in [Blocks -> Objs \cup {Null}]
    BY <1>4 DEF TypeOK
  <2> QED
    BY <1>2, <1>7, <2>1 DEF TypeOK
<1>12. InsideRuns' /\ EntryWhere' /\ ReferencesBalance'
  BY <1>2, <1>3, <1>5, <1>7 DEF InsideRuns, EntryWhere, ReferencesBalance
<1>13. EntryOwnsBlocks'
  BY <1>2, <1>5, <1>9, <1>10 DEF EntryOwnsBlocks
<1>14. StoringPtd'
  BY <1>2, <1>5, <1>9, <1>10 DEF StoringPtd, TypeOK
<1>15. MineListed'
  BY <1>2, <1>5 DEF MineListed
<1>16. VcrtStoresFirst'
  BY <1>2, <1>5 DEF VcrtStoresFirst
<1>17. VcrtPtdKept'
  <2> SUFFICES ASSUME layer = "vcrt", NEW c \in Blocks, kind'[c] = "ptd"
               PROVE  \/ \E f \in entries : f.pvData = c /\ pc'[f.pvContext] # "unlink"
                      \/ \E p \in Objs : ptPtd[p] = c
    BY <1>2 DEF VcrtPtdKept
  <2>1. kind[c] = "ptd" /\ c # e.pvData
    BY <1>4
  <2>2. CASE \E f \in entries : f.pvData = c /\ pc[f.pvContext] # "unlink"
    BY <1>5, <1>10, <2>1, <2>2
  <2> QED
    BY <2>1, <2>2 DEF VcrtPtdKept
<1>18. IdsOfLive' /\ EntryPinsThread' /\ UniqueIds'
  BY <1>2 DEF IdsOfLive, EntryPinsThread, UniqueIds
<1> QED
  BY <1>11, <1>12, <1>13, <1>14, <1>15, <1>16, <1>17, <1>18

LEMMA UnlinkKeeps ==
    ASSUME PcdInv, NEW o \in Objs, Unlink(o) PROVE PcdInv'
<1> USE PcdAssumption DEF PcdInv
<1>1. PICK e \in Found(o) : entries' = entries \ {e} /\ maker' = [maker EXCEPT ![e.at] = Null]
  BY DEF Unlink
<1>2. /\ UNCHANGED <<layer, state, cid, refs, kind, ptPtd, calls, mine, bugcheck>>
      /\ state[o] = "running" /\ pc[o] = "unlink" /\ pc' = [pc EXCEPT ![o] = "run"]
  BY DEF Unlink, Goto, Quiet, threadVars
<1>3. e \in entries /\ e.pvContext = o
  BY <1>2, FoundIsOwn DEF Found
<1>4. \A f \in entries : f \in entries' <=> f.pvContext # o
  BY <1>1, <1>3 DEF UniqueIds, EntryPinsThread
<1>5. entries' \subseteq entries
  BY <1>1
<1>6. pc'[o] = "run" /\ \A p \in Objs : p # o => pc'[p] = pc[p]
  BY <1>2 DEF TypeOK
<1>7. \A f \in entries' : /\ f \in entries /\ f.pvContext \in Objs
                          /\ pc'[f.pvContext] = pc[f.pvContext]
  BY <1>4, <1>5, <1>6 DEF TypeOK, Entry
<1>8. /\ maker' \in [Blocks -> Objs \cup {Null}]
       /\ \A b \in Blocks : maker[b] # o => maker'[b] = maker[b]
  <2>1. maker[e.at] = o
    BY <1>3 DEF Unlink, Untouched, Found, UniqueIds
  <2> QED
    BY <1>1, <2>1 DEF TypeOK
<1>9. TypeOK' /\ InsideRuns' /\ EntryWhere'
  <2>1. TypeOK'
    BY <1>2, <1>5, <1>8 DEF TypeOK
  <2>2. InsideRuns' /\ EntryWhere'
    BY <1>2, <1>4, <1>5, <1>6 DEF InsideRuns, EntryWhere
  <2> QED
    BY <2>1, <2>2
<1>10. EntryPinsThread' /\ UniqueIds' /\ IdsOfLive'
  BY <1>2, <1>5 DEF EntryPinsThread, UniqueIds, IdsOfLive
<1>11. ReferencesBalance'
  BY <1>2, <1>4, <1>5, <1>6 DEF ReferencesBalance
<1>12. EntryOwnsBlocks' /\ StoringPtd'
  <2>1. ptPtd[o] = Null
    BY <1>2 DEF StoringPtd
  <2>2. EntryOwnsBlocks'
    BY <1>2, <1>4, <1>7, <1>8 DEF EntryOwnsBlocks, TypeOK, Entry
  <2>3. StoringPtd'
    BY <1>2, <1>6, <1>7, <1>8, <2>1 DEF StoringPtd, TypeOK
  <2> QED
    BY <2>2, <2>3
<1>13. MineListed'
  <2>1. mine[o] = Null
    BY <1>2 DEF MineListed
  <2> QED
    BY <1>2, <1>4, <1>6, <2>1 DEF MineListed
<1>14. VcrtStoresFirst'
  BY <1>2, <1>5, <1>6 DEF VcrtStoresFirst
<1>15. VcrtPtdKept'
  <2>1. \A f \in entries : pc[f.pvContext] # "unlink" =>
            f \in entries' /\ pc'[f.pvContext] # "unlink"
    BY <1>2, <1>4, <1>7
  <2> QED
    BY <1>2, <2>1 DEF VcrtPtdKept
<1> QED
  BY <1>9, <1>10, <1>11, <1>12, <1>13, <1>14, <1>15

LEMMA UnlinkBreaksKeeps ==
    ASSUME PcdInv, NEW o \in Objs, UnlinkBreaks(o) PROVE PcdInv'
<1>1. /\ UNCHANGED <<layer, state, cid, refs, kind, maker, entries, ptPtd, calls, mine>>
      /\ bugcheck' = TRUE /\ pc' = pc
  BY DEF UnlinkBreaks, Goto, threadVars, heapVars, PcdInv, TypeOK
<1> QED
  BY <1>1 DEF PcdInv, TypeOK, IdsOfLive, InsideRuns, EntryPinsThread, UniqueIds,
     ReferencesBalance, EntryOwnsBlocks, StoringPtd, EntryWhere, MineListed,
     VcrtStoresFirst, VcrtPtdKept

LEMMA NextPcdInv == PcdInv /\ [Next]_vars => PcdInv'
<1> SUFFICES ASSUME PcdInv, [Next]_vars PROVE PcdInv'
  OBVIOUS
<1>1. ASSUME NEW o \in Objs, Step(o) PROVE PcdInv'
  BY <1>1, SpawnKeeps, ExitKeeps, CallGetPtdKeeps, LookupKeeps, AllocateKeeps,
     AllocateFailsKeeps, SetContextKeeps, CreateEntryKeeps, CreateEntryFailsKeeps,
     ReleaseEntryKeeps, UnlinkKeeps, UnlinkBreaksKeeps
     DEF Step
<1>2. ASSUME NEW b \in Blocks, OtherMalloc(b) \/ OtherFree(b) PROVE PcdInv'
  BY <1>2, OtherMallocKeeps, OtherFreeKeeps
<1>3. CASE UNCHANGED vars
  BY <1>3 DEF vars, PcdInv, TypeOK, IdsOfLive, InsideRuns, EntryPinsThread,
     UniqueIds, ReferencesBalance, EntryOwnsBlocks, StoringPtd, EntryWhere,
     MineListed, VcrtStoresFirst, VcrtPtdKept
<1> QED
  BY <1>1, <1>2, <1>3 DEF Next

THEOREM PcdInvariant == Spec => []PcdInv
BY InitPcdInv, NextPcdInv, PTL DEF Spec

(***************************************************************************)
(* The list, the heap and the threads inside getptd and freeptd stay in    *)
(* their types.                                                            *)
(***************************************************************************)
THEOREM TypeCorrect == Spec => []TypeOK
<1>1. PcdInv => TypeOK
  BY DEF PcdInv
<1> QED
  BY PcdInvariant, <1>1, PTL

(***************************************************************************)
(* getptd returns to a thread only live data that this thread allocated,   *)
(* however thread ids are reused.                                          *)
(***************************************************************************)
THEOREM OwnDataHolds == Spec => []OwnData
<1>1. PcdInv => OwnData
  BY DEF PcdInv, OwnData, MineListed, EntryOwnsBlocks
<1> QED
  BY PcdInvariant, <1>1, PTL

(***************************************************************************)
(* While pcd_CreateContextId's entry is listed, its thread object exists   *)
(* and has the entry's id.                                                 *)
(***************************************************************************)
THEOREM EntryPinsThreadHolds == Spec => []EntryPinsThread
<1>1. PcdInv => EntryPinsThread
  BY DEF PcdInv
<1> QED
  BY PcdInvariant, <1>1, PTL

(***************************************************************************)
(* PCD_SetContext never lists two entries with the same id, whatever       *)
(* allocation of getptd failed and entered getptd again.                   *)
(***************************************************************************)
THEOREM UniqueIdsHolds == Spec => []UniqueIds
<1>1. PcdInv => UniqueIds
  BY DEF PcdInv
<1> QED
  BY PcdInvariant, <1>1, PTL

(***************************************************************************)
(* Every reference to a thread object is given back once, on every path    *)
(* of PCD_SetContext and PCD_ReleaseContext.                               *)
(***************************************************************************)
THEOREM ReferencesBalanceHolds == Spec => []ReferencesBalance
<1>1. PcdInv => ReferencesBalance
  BY DEF PcdInv
<1> QED
  BY PcdInvariant, <1>1, PTL

(***************************************************************************)
(* Outside the unlinking of an entry, no listed block has been freed.      *)
(***************************************************************************)
THEOREM ListedIsLiveHolds == Spec => []ListedIsLive
<1>1. PcdInv => ListedIsLive
  BY DEF PcdInv, ListedIsLive, EntryOwnsBlocks
<1> QED
  BY PcdInvariant, <1>1, PTL

(***************************************************************************)
(* The VCRuntime's getptd loses no PTD, whichever allocation fails.        *)
(***************************************************************************)
THEOREM NoPtdLostHolds == Spec => []NoPtdLost
<1>1. PcdInv => NoPtdLost
  BY DEF PcdInv, NoPtdLost, VcrtPtdKept
<1> QED
  BY PcdInvariant, <1>1, PTL

-----------------------------------------------------------------------------
(***************************************************************************)
(* What getptd returned stays what it returns, until the thread detaches   *)
(* or ends.                                                                *)
(***************************************************************************)
SameAgain ==
    \A o \in Objs :
        mine[o] # Null /\ mine'[o] # mine[o] =>
            mine'[o] = Null /\ (pc'[o] = "unlink" \/ state'[o] # "running")

LEMMA ReturnsSame ==
    ASSUME PcdInv, NEW o \in Objs, NEW v \in Blocks \cup {Null},
           NEW from \in {"get", "set", "entry"}, Return(o, from, v),
           from = "get" => \E e \in Found(o) : v = e.pvData
    PROVE  \A p \in Objs : mine[p] # Null => mine'[p] = mine[p]
<1>1. /\ state[o] = "running" /\ pc[o] = from
      /\ mine' = [mine EXCEPT ![o] = v] \/ mine' = mine
  BY ReturnEffect DEF PcdInv
<1>2. mine[o] # Null => v = mine[o]
  <2> SUFFICES ASSUME mine[o] # Null PROVE v = mine[o]
    OBVIOUS
  <2>1. /\ pc[o] \in {"run", "get"}
        /\ \E e \in entries : e.pvContext = o /\ e.pvData = mine[o]
    BY DEF PcdInv, MineListed
  <2>2. from = "get"
    BY <1>1, <2>1
  <2>3. \A e, f \in entries : e.pvContext = o /\ f.pvContext = o => e = f
    BY DEF PcdInv, UniqueIds, EntryPinsThread
  <2> QED
    BY <1>1, <2>1, <2>2, <2>3, FoundIsOwn DEF Found
<1> QED
  BY <1>1, <1>2 DEF PcdInv, TypeOK

THEOREM SamePtdAgainHolds == Spec => SamePtdAgain
<1>1. PcdInv /\ [Next]_vars => SameAgain
  <2> SUFFICES ASSUME PcdInv, [Next]_vars PROVE SameAgain
    OBVIOUS
  <2>1. ASSUME mine' = mine PROVE SameAgain
    BY <2>1 DEF SameAgain
  <2>2. ASSUME \A p \in Objs : mine[p] # Null => mine'[p] = mine[p] PROVE SameAgain
    BY <2>2 DEF SameAgain
  <2>3. ASSUME NEW o \in Objs, Exit(o) PROVE SameAgain
    BY <2>3 DEF Exit, SameAgain, PcdInv, TypeOK
  <2>4. ASSUME NEW o \in Objs, ReleaseEntry(o) PROVE SameAgain
    BY <2>4 DEF ReleaseEntry, Goto, SameAgain, PcdInv, TypeOK
  <2>5. ASSUME NEW o \in Objs, Lookup(o) PROVE SameAgain
    <3>1. CASE \E e \in Found(o) : Return(o, "get", e.pvData)
      BY <2>2, <3>1, ReturnsSame DEF Found, PcdInv, TypeOK, Entry
    <3>2. CASE mine' = mine
      BY <2>1, <3>2
    <3> QED
      BY <2>5, <3>1, <3>2 DEF Lookup
  <2>6. ASSUME NEW o \in Objs, SetContext(o) PROVE SameAgain
    <3>1. CASE Return(o, "set", ptPtd[o])
      BY <2>2, <3>1, ReturnsSame DEF PcdInv, TypeOK
    <3>2. CASE mine' = mine
      BY <2>1, <3>2
    <3> QED
      BY <2>6, <3>1, <3>2 DEF SetContext
  <2>7. ASSUME NEW o \in Objs, CreateEntry(o) \/ CreateEntryFails(o) PROVE SameAgain
    BY <2>2, <2>7, ReturnsSame DEF CreateEntry, CreateEntryFails, PcdInv, TypeOK
  <2>8. ASSUME NEW o \in Objs,
               \/ Spawn(o) \/ CallGetPtd(o) \/ Allocate(o) \/ AllocateFails(o)
               \/ Unlink(o) \/ UnlinkBreaks(o)
        PROVE  SameAgain
    BY <2>1, <2>8
       DEF Spawn, CallGetPtd, Allocate, AllocateFails, Unlink, UnlinkBreaks
  <2>9. ASSUME NEW b \in Blocks, OtherMalloc(b) \/ OtherFree(b) PROVE SameAgain
    BY <2>1, <2>9 DEF OtherMalloc, OtherFree
  <2>10. CASE UNCHANGED vars
    BY <2>1, <2>10 DEF vars
  <2> QED
    BY <2>3, <2>4, <2>5, <2>6, <2>7, <2>8, <2>9, <2>10 DEF Next, Step
<1> QED
  BY PcdInvariant, <1>1, PTL DEF Spec, SamePtdAgain, SameAgain

-----------------------------------------------------------------------------
(* The list implements one private slot per thread. *)

Live == {o \in Objs : state[o] # "none"}

Slots == [o \in Objs |-> SlotOf(o)]

(* SlotOf without its CHOOSE. *)
SlotFacts ==
    \A o \in Objs :
        /\ \A e \in entries :
              e.pvContext = o /\ pc[o] # "unlink" => SlotOf(o) = e.pvData
        /\ pc[o] = "unlink" \/ (\A e \in entries : e.pvContext # o) =>
              SlotOf(o) = Empty

LEMMA SlotsRight == PcdInv => SlotFacts
<1> SUFFICES ASSUME PcdInv, NEW o \in Objs
             PROVE  /\ \A e \in entries :
                         e.pvContext = o /\ pc[o] # "unlink" => SlotOf(o) = e.pvData
                    /\ pc[o] = "unlink" \/ (\A e \in entries : e.pvContext # o) =>
                         SlotOf(o) = Empty
  BY DEF SlotFacts
<1> DEFINE own == {e \in Found(o) : pc[o] # "unlink"}
<1>1. ASSUME NEW e \in entries, e.pvContext = o, pc[o] # "unlink"
      PROVE  SlotOf(o) = e.pvData
  <2>1. state[o] # "none"
    BY <1>1 DEF PcdInv, EntryPinsThread
  <2>2. \A f : f \in own <=> f = e
    BY <1>1, <2>1, FoundIsOwn DEF Found, PcdInv, UniqueIds, EntryPinsThread
  <2>3. own # {} /\ (CHOOSE f \in own : TRUE) = e
    BY <2>2
  <2> QED
    BY <2>1, <2>3 DEF SlotOf
<1>2. ASSUME pc[o] = "unlink" \/ (\A e \in entries : e.pvContext # o)
      PROVE  SlotOf(o) = Empty
  <2>1. CASE state[o] = "none"
    BY <2>1 DEF SlotOf
  <2>2. CASE state[o] # "none"
    <3>1. own = {}
      BY <1>2, <2>2, FoundIsOwn DEF Found
    <3> QED
      BY <3>1 DEF SlotOf
  <2> QED
    BY <2>1, <2>2
<1> QED
  BY <1>1, <1>2

LEMMA SlotsRightNext == PcdInv' => SlotFacts'
BY SlotsRight, PTL

(* The slot of a thread whose entry stays. *)
LEMMA SlotKept ==
    ASSUME PcdInv, PcdInv', NEW p \in Objs,
           pc'[p] = "unlink" <=> pc[p] = "unlink",
           \A e : e.pvContext = p => (e \in entries' <=> e \in entries)
    PROVE  SlotOf(p)' = SlotOf(p)
<1>1. SlotFacts /\ SlotFacts'
  BY SlotsRight, SlotsRightNext
<1>2. CASE pc[p] # "unlink" /\ \E e \in entries : e.pvContext = p
  BY <1>1, <1>2 DEF SlotFacts
<1>3. CASE pc[p] = "unlink" \/ \A e \in entries : e.pvContext # p
  <2>1. pc'[p] = "unlink" \/ \A e \in entries' : e.pvContext # p
    BY <1>3
  <2> QED
    BY <1>1, <1>3, <2>1 DEF SlotFacts
<1> QED
  BY <1>2, <1>3

LEMMA Stutters ==
    ASSUME PcdInv, PcdInv', UNCHANGED entries, Live' = Live,
           \A p \in Objs : pc'[p] = "unlink" <=> pc[p] = "unlink"
    PROVE  UNCHANGED <<Live, Slots>>
<1>1. \A p \in Objs : SlotOf(p)' = SlotOf(p)
  BY SlotKept
<1> QED
  BY <1>1 DEF Slots

(* A step of thread o that changes at most the slot of o. *)
LEMMA StoresSlot ==
    ASSUME PcdInv, PcdInv', NEW o \in Objs, NEW v \in Blocks \cup {Null, Empty},
           UNCHANGED state, state[o] # "none", SlotOf(o)' = v,
           v \in Blocks => \A p \in Objs : SlotOf(p) # v,
           \A p \in Objs : p # o => pc'[p] = pc[p],
           \A e : e.pvContext # o => (e \in entries' <=> e \in entries)
    PROVE  Abstract!Next
<1>1. \A p \in Objs : p # o => SlotOf(p)' = SlotOf(p)
  BY SlotKept
<1>2. Slots' = [Slots EXCEPT ![o] = v]
  BY <1>1 DEF Slots
<1>3. Abstract!Store(o, v)
  BY <1>2 DEF Abstract!Store, Slots, Live
<1> QED
  BY <1>3 DEF Abstract!Next

(* The PTD that a thread is storing is in no slot. *)
LEMMA StoringIsFresh ==
    ASSUME PcdInv, NEW o \in Objs
    PROVE  ptPtd[o] \in Blocks => \A p \in Objs : SlotOf(p) # ptPtd[o]
<1> SUFFICES ASSUME ptPtd[o] \in Blocks, NEW p \in Objs PROVE SlotOf(p) # ptPtd[o]
  OBVIOUS
<1>1. \A e \in entries : pc[e.pvContext] # "unlink" => e.pvData # ptPtd[o]
  BY PcdAssumption DEF PcdInv, StoringPtd
<1> QED
  BY <1>1, SlotsRight, PcdAssumption DEF SlotFacts

LEMMA StepImplements == PcdInv /\ PcdInv' /\ [Next]_vars => [Abstract!Next]_<<Live, Slots>>
<1> SUFFICES ASSUME PcdInv, PcdInv', [Next]_vars
             PROVE  Abstract!Next \/ UNCHANGED <<Live, Slots>>
  OBVIOUS
<1> USE PcdAssumption
<1>1. ASSUME NEW o \in Objs, Spawn(o) PROVE Abstract!Next
  <2>1. /\ state[o] = "none" /\ state' = [state EXCEPT ![o] = "running"]
        /\ UNCHANGED <<entries, pc>>
    BY <1>1 DEF Spawn
  <2>2. \A p \in Objs : SlotOf(p)' = SlotOf(p)
    BY <2>1, SlotKept
  <2>3. SlotOf(o) = Empty
    BY <2>1 DEF SlotOf
  <2>4. Slots' = Slots /\ Live' = Live \cup {o} /\ o \notin Live /\ Slots[o] = Empty
    BY <2>1, <2>2, <2>3 DEF Slots, Live, PcdInv, TypeOK
  <2> QED
    BY <2>4 DEF Abstract!Next, Abstract!Begin, Slots, Live
<1>2. ASSUME NEW o \in Objs, Exit(o) PROVE Abstract!Next \/ UNCHANGED <<Live, Slots>>
  <2>1. state[o] = "running" /\ pc[o] = "run" /\ pc' = pc /\ entries' = entries
    BY <1>2 DEF Exit, Goto, PcdInv, TypeOK
  <2>2. CASE refs[o] = 0
    <3>1. \A e \in entries : e.pvContext # o
      BY <2>1, <2>2 DEF PcdInv, ReferencesBalance
    <3>2. SlotOf(o) = Empty
      BY <3>1, SlotsRight DEF SlotFacts
    <3>3. \A p \in Objs : SlotOf(p)' = SlotOf(p)
      BY <2>1, SlotKept
    <3>4. Slots' = Slots /\ Live' = Live \ {o} /\ o \in Live /\ Slots[o] = Empty
      BY <1>2, <2>1, <2>2, <3>2, <3>3 DEF Exit, Slots, Live, PcdInv, TypeOK
    <3> QED
      BY <3>4 DEF Abstract!Next, Abstract!End, Slots, Live
  <2>3. CASE refs[o] # 0
    <3>1. Live' = Live
      BY <1>2, <2>1, <2>3 DEF Exit, Live, PcdInv, TypeOK
    <3> QED
      BY <2>1, <3>1, Stutters
  <2> QED
    BY <2>2, <2>3
<1>3. ASSUME NEW o \in Objs, SetContext(o)
      PROVE  Abstract!Next \/ UNCHANGED <<Live, Slots>>
  <2>1. CASE Found(o) = {} /\ Goto(o, "set", "entry") /\ UNCHANGED entries
    BY <1>3, <2>1, Stutters
       DEF SetContext, Goto, Quiet, threadVars, Live, PcdInv, TypeOK
  <2>2. ASSUME NEW e \in Found(o), Return(o, "set", ptPtd[o]),
               entries' = (entries \ {e}) \cup {[e EXCEPT !.pvData = ptPtd[o]]}
        PROVE  Abstract!Next
    <3>1. /\ e \in entries /\ e \in Entry /\ ptPtd[o] \in Blocks \cup {Null}
          /\ state' = state
      BY <1>3 DEF SetContext, Quiet, threadVars, Found, PcdInv, TypeOK
    <3>2. /\ state[o] = "running"
          /\ \E to \in {"run", "get", "set"} : pc' = [pc EXCEPT ![o] = to]
      BY <2>2, <3>1, ReturnEffect DEF PcdInv
    <3>3. /\ pc'[o] # "unlink" /\ \A p \in Objs : p # o => pc'[p] = pc[p]
      BY <3>2 DEF PcdInv, TypeOK
    <3>4. e.pvContext = o
      BY <3>1, <3>2, FoundIsOwn
    <3> DEFINE n == [e EXCEPT !.pvData = ptPtd[o]]
    <3>5. n \in entries' /\ n.pvContext = o /\ n.pvData = ptPtd[o]
      BY <2>2, <3>1, <3>4 DEF Entry
    <3>6. \A f : f.pvContext # o => (f \in entries' <=> f \in entries)
      BY <2>2, <3>1, <3>4 DEF Entry
    <3>7. SlotOf(o)' = ptPtd[o]
      BY <3>3, <3>5, SlotsRightNext DEF SlotFacts
    <3> QED
      BY <3>1, <3>2, <3>3, <3>6, <3>7, StoringIsFresh, StoresSlot
  <2> QED
    BY <1>3, <2>1, <2>2 DEF SetContext
<1>4. ASSUME NEW o \in Objs, CreateEntry(o) PROVE Abstract!Next
  <2>1. PICK b \in Blocks : entries' = entries \cup
            {[at |-> b, hCid |-> cid[o], pvContext |-> o, pvData |-> ptPtd[o]]}
    BY <1>4 DEF CreateEntry
  <2>2. ptPtd[o] \in Blocks \cup {Null} /\ state' = state
    BY <1>4 DEF CreateEntry, Quiet, threadVars, PcdInv, TypeOK
  <2>3. /\ state[o] = "running"
        /\ \E to \in {"run", "get", "set"} : pc' = [pc EXCEPT ![o] = to]
    BY <1>4, <2>2, ReturnEffect DEF CreateEntry, PcdInv
  <2>4. /\ pc'[o] # "unlink" /\ \A p \in Objs : p # o => pc'[p] = pc[p]
    BY <2>3 DEF PcdInv, TypeOK
  <2> DEFINE n == [at |-> b, hCid |-> cid[o], pvContext |-> o, pvData |-> ptPtd[o]]
  <2>5. n \in entries' /\ n.pvContext = o /\ n.pvData = ptPtd[o]
    BY <2>1
  <2>6. \A f : f.pvContext # o => (f \in entries' <=> f \in entries)
    BY <2>1
  <2>7. SlotOf(o)' = ptPtd[o]
    BY <2>4, <2>5, SlotsRightNext DEF SlotFacts
  <2> QED
    BY <2>2, <2>3, <2>4, <2>6, <2>7, StoringIsFresh, StoresSlot
<1>5. ASSUME NEW o \in Objs, ReleaseEntry(o) PROVE Abstract!Next
  <2>1. /\ state[o] = "running" /\ UNCHANGED <<state, entries>>
        /\ pc' = [pc EXCEPT ![o] = "unlink"]
    BY <1>5 DEF ReleaseEntry, Goto, Quiet, threadVars
  <2>2. /\ pc'[o] = "unlink" /\ \A p \in Objs : p # o => pc'[p] = pc[p]
    BY <2>1 DEF PcdInv, TypeOK
  <2>3. SlotOf(o)' = Empty
    BY <2>2, SlotsRightNext DEF SlotFacts
  <2> QED
    BY <2>1, <2>2, <2>3, StoresSlot
<1>6. ASSUME NEW o \in Objs, Unlink(o) PROVE Abstract!Next
  <2>1. PICK e \in Found(o) : entries' = entries \ {e}
    BY <1>6 DEF Unlink
  <2>2. /\ state[o] = "running" /\ state' = state /\ pc' = [pc EXCEPT ![o] = "run"]
    BY <1>6 DEF Unlink, Goto, Quiet, threadVars
  <2>3. e \in entries /\ e.pvContext = o
    BY <2>2, FoundIsOwn DEF Found
  <2>4. \A f \in entries' : f.pvContext # o
    BY <2>1, <2>3 DEF PcdInv, UniqueIds, EntryPinsThread
  <2>5. SlotOf(o)' = Empty
    BY <2>4, SlotsRightNext DEF SlotFacts
  <2>6. \A p \in Objs : p # o => pc'[p] = pc[p]
    BY <2>2 DEF PcdInv, TypeOK
  <2>7. \A f : f.pvContext # o => (f \in entries' <=> f \in entries)
    BY <2>1, <2>3
  <2> QED
    BY <2>2, <2>5, <2>6, <2>7, StoresSlot
<1>7. ASSUME NEW o \in Objs, Lookup(o) PROVE UNCHANGED <<Live, Slots>>
  <2>1. UNCHANGED <<state, entries>>
    BY <1>7 DEF Lookup, Quiet, threadVars
  <2>2. \E to \in {"run", "get", "set", "alloc"} :
            pc[o] = "get" /\ pc' = [pc EXCEPT ![o] = to]
    <3>1. \A e \in Found(o) : e.pvData \in Blocks \cup {Null}
      BY DEF Found, PcdInv, TypeOK, Entry
    <3>2. ASSUME NEW e \in Found(o), Return(o, "get", e.pvData)
          PROVE  \E to \in {"run", "get", "set"} :
                    pc[o] = "get" /\ pc' = [pc EXCEPT ![o] = to]
      BY <3>1, <3>2, ReturnEffect DEF PcdInv
    <3> QED
      BY <1>7, <3>2 DEF Lookup, Goto
  <2> QED
    BY <2>1, <2>2, Stutters DEF Live, PcdInv, TypeOK
<1>8. ASSUME NEW o \in Objs, CreateEntryFails(o) PROVE UNCHANGED <<Live, Slots>>
  <2>1. UNCHANGED <<state, entries>>
    BY <1>8 DEF CreateEntryFails, Quiet, threadVars
  <2>2. \E to \in {"run", "get", "set"} :
            pc[o] = "entry" /\ pc' = [pc EXCEPT ![o] = to]
    BY <1>8, ReturnEffect DEF CreateEntryFails, PcdInv
  <2> QED
    BY <2>1, <2>2, Stutters DEF Live, PcdInv, TypeOK
<1>9. ASSUME NEW o \in Objs,
             CallGetPtd(o) \/ Allocate(o) \/ AllocateFails(o) \/ UnlinkBreaks(o)
      PROVE  UNCHANGED <<Live, Slots>>
  <2>1. UNCHANGED <<state, entries>>
    BY <1>9 DEF CallGetPtd, Allocate, AllocateFails, UnlinkBreaks, Quiet, threadVars
  <2>2. \/ pc' = pc
        \/ \E to \in {"get", "set"} :
              pc[o] \in {"run", "alloc"} /\ pc' = [pc EXCEPT ![o] = to]
    BY <1>9
       DEF CallGetPtd, Allocate, AllocateFails, UnlinkBreaks, Goto, PcdInv, TypeOK
  <2> QED
    BY <2>1, <2>2, Stutters DEF Live, PcdInv, TypeOK
<1>10. ASSUME NEW b \in Blocks, OtherMalloc(b) \/ OtherFree(b)
       PROVE  UNCHANGED <<Live, Slots>>
  BY <1>10, Stutters DEF OtherMalloc, OtherFree, Quiet, threadVars, Live
<1>11. CASE UNCHANGED vars
  BY <1>11, Stutters DEF vars, Live
<1> QED
  BY <1>1, <1>2, <1>3, <1>4, <1>5, <1>6, <1>7, <1>8, <1>9, <1>10, <1>11
     DEF Next, Step

(***************************************************************************)
(* Whatever the number of threads, ids and blocks, the list of HalKernel/  *)
(* PerContextData.c gives every thread a slot of its own.                  *)
(***************************************************************************)
THEOREM ImplementsPerThreadHolds == Spec => ImplementsPerThread
<1>1. Init => Abstract!Init
  BY DEF Init, Abstract!Init, SlotOf
<1>2. PcdInv /\ PcdInv' /\ [Next]_vars => [Abstract!Next]_(Abstract!vars)
  BY StepImplements DEF Abstract!vars, Live, Slots
<1> QED
  BY <1>1, <1>2, PcdInvariant, PTL DEF Spec, ImplementsPerThread, Abstract!Spec
=============================================================================
