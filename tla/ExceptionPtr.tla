---------------------------- MODULE ExceptionPtr ----------------------------
(***************************************************************************)
(* exception_ptr (excptptr.cpp): pointers to counted control blocks, each  *)
(* with the copy of an exception behind it.  The copy is made in a handler *)
(* and may fail for want of memory, or because the copy constructor throws *)
(* - what it throws is then kept instead, and copied in its turn.          *)
(*                                                                         *)
(* A pointer belongs to one thread at a time, its control block to all: a  *)
(* change of the count is one interlocked instruction, a step of its own.  *)
(* bad_alloc and bad_exception have control blocks that are never freed;   *)
(* each is named by its exception.                                         *)
(***************************************************************************)
EXTENDS Integers, FiniteSets

CONSTANTS
    Threads,
    Pointers,       \* the exception_ptr variables
    Blocks,         \* what malloc can return
    Exceptions,     \* what programs throw: records of name, kind, size, copied, dtor
    None, Unborn, Null

VARIABLES
    ptr,        \* for each pointer, Unborn, Null or the control block (_Rep)
    uses,       \* for each control block, _Uses
    rep,        \* for each block, its size behind the header and the exception kept
    call,       \* for each thread, where it is in a function of excptptr.cpp
    handled,    \* for each thread, _pCurrentException
    objects     \* ghost: the exception objects that exist and need destruction, by place

ptrVars == <<ptr, uses, rep, call, handled, objects>>

BadAlloc == [name |-> "bad_alloc", kind |-> "cxx", size |-> 1, copied |-> "constructor", dtor |-> TRUE]
BadException == [BadAlloc EXCEPT !.name = "bad_exception"]
Statics == {BadAlloc, BadException}

Idle == [at |-> "idle"]
Free == [size |-> -1, ex |-> None]
Raw(size) == [size |-> size, ex |-> None]
Kept(b) == IF b \in Statics THEN b ELSE rep[b].ex

Handled(t) == <<t, "handled">>      \* where the object of the handler's exception is
Inner(t) == <<t, "inner">>          \* where that of a copy constructor's is
Object(place, e) == IF e.kind = "cxx" /\ e.dtor THEN {place} ELSE {}

(* Threads, pointers and blocks are finitely many and told apart. *)
PtrAssumption ==
    /\ IsFiniteSet(Threads) /\ IsFiniteSet(Pointers) /\ Threads \cap Pointers = {}
    /\ Blocks \cap Statics = {} /\ Blocks \cap (Threads \X {"handled", "inner"}) = {}
    /\ {Null, Unborn} \cap (Blocks \cup Statics) = {} /\ Null # Unborn
    /\ None \notin Exceptions \cup Statics /\ \A e \in Exceptions : e.size \in Nat

InUse(p) == \E t \in Threads : call[t].at \in {"copy", "recopy", "raise"} /\ call[t].p = p

PtrInit ==
    /\ ptr = [p \in Pointers |-> Null]
    /\ uses = [b \in Blocks \cup Statics |-> IF b \in Statics THEN 1 ELSE 0]
    /\ rep = [b \in Blocks |-> Free]
    /\ call = [t \in Threads |-> Idle]
    /\ handled = [t \in Threads |-> None]
    /\ objects = {}

-----------------------------------------------------------------------------
(* What the program does with exceptions (external). *)

ThrowAndCatch(t, e) ==
    /\ call[t] = Idle /\ handled[t] = None
    /\ handled' = [handled EXCEPT ![t] = e]
    /\ objects' = objects \cup Object(Handled(t), e)
    /\ UNCHANGED <<ptr, uses, rep, call>>

LeaveHandler(t) ==
    /\ call[t] = Idle /\ handled[t] # None
    /\ handled' = [handled EXCEPT ![t] = None]
    /\ objects' = objects \ {Handled(t)}
    /\ UNCHANGED <<ptr, uses, rep, call>>

-----------------------------------------------------------------------------
(* The pointer as such *)

ExceptionPtrCreate(t, p) ==
    /\ call[t] = Idle /\ ptr[p] = Unborn
    /\ ptr' = [ptr EXCEPT ![p] = Null]
    /\ UNCHANGED <<uses, rep, call, handled, objects>>

Incref(b) == IF b = Null THEN uses ELSE [uses EXCEPT ![b] = @ + 1]
Releasing(b) == IF b = Null THEN Idle ELSE [at |-> "release", b |-> b]

ExceptionPtrDestroy(t, p) ==
    /\ call[t] = Idle /\ ptr[p] # Unborn /\ ~InUse(p)
    /\ ptr' = [ptr EXCEPT ![p] = Unborn]
    /\ call' = [call EXCEPT ![t] = Releasing(ptr[p])]
    /\ UNCHANGED <<uses, rep, handled, objects>>

ExceptionPtrCopy(t, p, q) ==
    /\ call[t] = Idle /\ ptr[p] = Unborn /\ ptr[q] # Unborn /\ ~InUse(q)
    /\ ptr' = [ptr EXCEPT ![p] = ptr[q]]
    /\ uses' = Incref(ptr[q])
    /\ UNCHANGED <<rep, call, handled, objects>>

(* The assignment of a shared_ptr counts the new block before it lets the old one go. *)
ExceptionPtrAssign(t, p, q) ==
    /\ call[t] = Idle /\ Unborn \notin {ptr[p], ptr[q]} /\ ~InUse(p) /\ ~InUse(q)
    /\ ptr' = [ptr EXCEPT ![p] = ptr[q]]
    /\ uses' = Incref(ptr[q])
    /\ call' = [call EXCEPT ![t] = Releasing(ptr[p])]
    /\ UNCHANGED <<rep, handled, objects>>

ExceptionPtrSwap(t, p, q) ==
    /\ call[t] = Idle /\ Unborn \notin {ptr[p], ptr[q]} /\ ~InUse(p) /\ ~InUse(q)
    /\ ptr' = [ptr EXCEPT ![p] = ptr[q], ![q] = ptr[p]]
    /\ UNCHANGED <<uses, rep, call, handled, objects>>

(* The count goes down; whoever takes it to zero destroys the object and frees the block,
   unless the block is static. *)
Decref(t) ==
    /\ call[t].at = "release"
    /\ LET b == call[t].b
       IN  /\ uses' = [uses EXCEPT ![b] = @ - 1]
           /\ call' = [call EXCEPT ![t] = IF uses[b] = 1 /\ b \in Blocks THEN [@ EXCEPT !.at = "destroy"] ELSE Idle]
    /\ UNCHANGED <<ptr, rep, handled, objects>>

Destroy(t) ==
    /\ call[t].at = "destroy"
    /\ objects' = objects \ {call[t].b}
    /\ call' = [call EXCEPT ![t].at = "delete"]
    /\ UNCHANGED <<ptr, uses, rep, handled>>

Delete_this(t) ==
    /\ call[t].at = "delete"
    /\ rep' = [rep EXCEPT ![call[t].b] = Free]
    /\ call' = [call EXCEPT ![t] = Idle]
    /\ UNCHANGED <<ptr, uses, handled, objects>>

-----------------------------------------------------------------------------
(* Copies of exceptions.  The operators say what becomes of the variables that they name;
   r is rep with nothing allocated for the call. *)

GetStatic_Uncounted(t, p, b, r) ==      \* a slip: without _Incref
    /\ ptr' = [ptr EXCEPT ![p] = b]
    /\ UNCHANGED uses
    /\ rep' = r
    /\ call' = [call EXCEPT ![t] = Idle]
GetStatic(t, p, b, r) ==
    /\ ptr' = [ptr EXCEPT ![p] = b]
    /\ uses' = Incref(b)
    /\ rep' = r
    /\ call' = [call EXCEPT ![t] = Idle]

NewControlBlock(t, p, b, size, e, r) ==
    /\ ptr' = [ptr EXCEPT ![p] = b]
    /\ uses' = [uses EXCEPT ![b] = 1]
    /\ rep' = [r EXCEPT ![b] = [size |-> size, ex |-> e]]
    /\ call' = [call EXCEPT ![t] = Idle]

(* CopyExceptionObject: bytes are copied at once, a copy constructor is a call. *)
StartCopy(t, p, b, size, e, r, at) ==
    IF e.copied = "bytes"
    THEN NewControlBlock(t, p, b, size, e, r) /\ objects' = objects \cup Object(b, e)
    ELSE /\ rep' = [r EXCEPT ![b] = Raw(size)]
         /\ call' = [call EXCEPT ![t] = [at |-> at, p |-> p, b |-> b, ex |-> e]]
         /\ objects' = objects \cup IF at = "recopy" THEN Object(Inner(t), e) ELSE {}
         /\ UNCHANGED <<ptr, uses>>

Allocate(t, p, e, r, at) ==
    \/ GetStatic(t, p, BadAlloc, r) /\ UNCHANGED objects
    \/ \E b \in Blocks : r[b] = Free /\ StartCopy(t, p, b, e.size, e, r, at)

Assign_seh_exception_ptr_from_record(t, p, e) ==
    \/ GetStatic(t, p, BadAlloc, rep)
    \/ \E b \in Blocks : rep[b] = Free /\ NewControlBlock(t, p, b, 0, e, rep)

(* Managed exceptions are not supported: the pointer stays null. *)
ExceptionPtrCurrentException(t, p) ==
    /\ call[t] = Idle /\ ptr[p] = Null /\ ~InUse(p) /\ handled[t] # None
    /\ \/ handled[t].kind = "cxx" /\ Allocate(t, p, handled[t], rep, "copy")
       \/ /\ handled[t].kind = "seh" /\ Assign_seh_exception_ptr_from_record(t, p, handled[t])
          /\ UNCHANGED objects
    /\ UNCHANGED handled

ExceptionPtrCopyException(t, p, e) ==
    /\ call[t] = Idle /\ ptr[p] = Null /\ ~InUse(p) /\ e.kind = "cxx"
    /\ Allocate(t, p, e, rep, "copy")
    /\ UNCHANGED handled

CopyReturns(t) ==
    /\ call[t].at \in {"copy", "recopy"}
    /\ LET c == call[t]
       IN  /\ NewControlBlock(t, c.p, c.b, rep[c.b].size, c.ex, rep)
           /\ objects' = (objects \ {Inner(t)}) \cup Object(c.b, c.ex)
    /\ UNCHANGED handled

Recopy(t, p, b, e) ==
    IF e.size > rep[b].size
    THEN Allocate(t, p, e, [rep EXCEPT ![b] = Free], "recopy")
    ELSE StartCopy(t, p, b, rep[b].size, e, rep, "recopy")

(* What the first copy constructor throws is kept instead. *)
CopyThrows(t, e) ==
    /\ call[t].at = "copy"
    /\ LET c == call[t]
       IN  \/ /\ e.kind = "managed" /\ GetStatic(t, c.p, BadException, [rep EXCEPT ![c.b] = Free])
              /\ UNCHANGED objects
           \/ /\ e.kind = "seh" /\ NewControlBlock(t, c.p, c.b, rep[c.b].size, e, rep)
              /\ UNCHANGED objects
           \/ e.kind = "cxx" /\ Recopy(t, c.p, c.b, e)
    /\ UNCHANGED handled

(* What the second throws is given up. *)
RecopyThrows(t) ==
    /\ call[t].at = "recopy"
    /\ GetStatic(t, call[t].p, BadException, [rep EXCEPT ![call[t].b] = Free])
    /\ objects' = objects \ {Inner(t)}
    /\ UNCHANGED handled

-----------------------------------------------------------------------------
(* rethrow_exception: a C++ exception is thrown as a copy on the stack, which its handler
   destroys; what its copy constructor throws, or a stack overflow, is thrown instead. *)

Raise(t, e) ==
    /\ handled' = [handled EXCEPT ![t] = e]
    /\ objects' = objects \cup Object(Handled(t), e)
    /\ call' = [call EXCEPT ![t] = Idle]

ExceptionPtrRethrow(t, p) ==
    /\ call[t] = Idle /\ handled[t] = None /\ ptr[p] # Unborn /\ ~InUse(p)
    /\ IF ptr[p] = Null THEN Raise(t, BadException)
       ELSE LET e == Kept(ptr[p])
            IN  IF e.kind = "seh" THEN Raise(t, e)
                ELSE /\ call' = [call EXCEPT ![t] = [at |-> "raise", p |-> p, ex |-> e]]
                     /\ UNCHANGED <<handled, objects>>
    /\ UNCHANGED <<ptr, uses, rep>>

StackCopyReturns(t) ==
    /\ call[t].at = "raise"
    /\ Raise(t, call[t].ex)
    /\ UNCHANGED <<ptr, uses, rep>>

StackCopyThrows(t, e) ==
    /\ call[t].at = "raise"
    /\ \/ e.kind = "seh"
       \/ call[t].ex \notin Statics /\ call[t].ex.copied = "constructor"
    /\ Raise(t, e)
    /\ UNCHANGED <<ptr, uses, rep>>

-----------------------------------------------------------------------------
PtrNext ==
    \E t \in Threads :
        \/ LeaveHandler(t)
        \/ Decref(t)
        \/ Destroy(t)
        \/ Delete_this(t)
        \/ CopyReturns(t)
        \/ RecopyThrows(t)
        \/ StackCopyReturns(t)
        \/ \E e \in Exceptions : ThrowAndCatch(t, e) \/ CopyThrows(t, e) \/ StackCopyThrows(t, e)
        \/ \E p \in Pointers :
              \/ ExceptionPtrCreate(t, p)
              \/ ExceptionPtrDestroy(t, p)
              \/ ExceptionPtrCurrentException(t, p)
              \/ ExceptionPtrRethrow(t, p)
              \/ \E e \in Exceptions : ExceptionPtrCopyException(t, p, e)
              \/ \E q \in Pointers \ {p} :
                    ExceptionPtrCopy(t, p, q) \/ ExceptionPtrAssign(t, p, q) \/ ExceptionPtrSwap(t, p, q)

PtrSpec == PtrInit /\ [][PtrNext]_ptrVars

-----------------------------------------------------------------------------
Holders(b) ==
    {p \in Pointers : ptr[p] = b} \cup {t \in Threads : call[t].at = "release" /\ call[t].b = b}
Makers(b) == {t \in Threads : call[t].at \in {"copy", "recopy"} /\ call[t].b = b}
Enders(b) == {t \in Threads : call[t].at \in {"destroy", "delete"} /\ call[t].b = b}

CountsExact ==
    \A b \in Blocks \cup Statics :
        uses[b] = Cardinality(Holders(b)) + IF b \in Statics THEN 1 ELSE 0

(* A block has holders, or it is being made or ended by one call, or it is free. *)
BlocksOwned ==
    \A b \in Blocks :
        LET owners == (IF Holders(b) = {} THEN {} ELSE {"holders"}) \cup Makers(b) \cup Enders(b)
        IN  Cardinality(owners) = IF rep[b] = Free THEN 0 ELSE 1

(* An object exists behind the header as long as anybody can get at it. *)
ObjectsKept ==
    \A b \in Blocks :
        /\ b \in objects => rep[b].ex # None /\ Object(b, rep[b].ex) = {b}
        /\ Holders(b) # {} => rep[b].ex # None /\ Object(b, rep[b].ex) \subseteq objects

ObjectsFit ==
    \A b \in Blocks :
        /\ rep[b].ex # None /\ rep[b].ex.kind = "cxx" => rep[b].ex.size <= rep[b].size
        /\ \A t \in Makers(b) : call[t].ex.size <= rep[b].size

(* Whatever fails while exceptions are copied, assigned and rethrown, and however the
   threads that share a control block interleave: the counts are exact, no block is lost or
   used after it was freed, and every exception object lives as long as its block is held
   and fits into it (excptptr.cpp). *)
PointersRight == CountsExact /\ BlocksOwned /\ ObjectsKept /\ ObjectsFit
=============================================================================
