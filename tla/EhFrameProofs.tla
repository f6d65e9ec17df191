--------------------------- MODULE EhFrameProofs ---------------------------
(***************************************************************************)
(* What holds of C++ exceptions on x64 for every program that a compiler's *)
(* tables can describe, any number of exceptions and any depth of calls,   *)
(* with either version of the frame handler.                               *)
(*                                                                         *)
(* The inductive invariant EhInv has three parts.  FramesInv is about the  *)
(* frames: each is well formed by itself (Own) and fits the frames below   *)
(* it (Down), a catch block has saved the exception of the handler around  *)
(* it, and chain, pt and cur are functions of the stack.  TypesInv is      *)
(* about the other variables, ParentInv about csp.                         *)
(*                                                                         *)
(* Respects is what makes it inductive.  Two unwinds can overlap: one      *)
(* collides with another and takes over where that one was.  No frame of   *)
(* the runtime is ever at a position inside the range that an older unwind *)
(* has left, so the frames hidden from the top of the stack are exactly    *)
(* those hidden from where it is (HandlersOfUnwind), and moving down by    *)
(* one frame reveals or hides what the frame at that place says.           *)
(*                                                                         *)
(* One lemma for each action says that it keeps EhInv: those of the        *)
(* program first, then the search, then the unwind and where it lands.     *)
(* Most actions only push a frame or move the top one (RaiseStep,          *)
(* UnwindStep); entering and leaving a catch block change the list of      *)
(* handlers (Link, Unlink).                                                *)
(***************************************************************************)
EXTENDS EhFrame, SequenceTheorems, FiniteSetTheorems, WellFoundedInduction, TLAPS

Kinds == {"fn", "seh", "catch", "ccb", "raise", "unw"}

(* The fields of a frame of each kind. *)
FnFields == {"k", "f", "ip", "us", "ut"}
SehFields == {"k", "f", "ip"}
CatchFields == {"k", "f", "ip", "est", "try"}
CcbFields == {"k", "rec", "saved", "try", "phase", "rethrow"}
RaiseFields == {"k", "rec", "at", "scope", "again", "phase", "hit", "want"}
UnwFields == {"k", "rec", "at", "target", "scope", "state", "phase", "hit", "want"}

(* What a frame of each kind is, taken by itself. *)
OwnFn(fr) ==
    fr.k = "fn" =>
        /\ DOMAIN fr = FnFields /\ fr.f \in DOMAIN Prog
        /\ fr.ip \in {EH_EMPTY_STATE} \cup DOMAIN Prog[fr.f].unwind

OwnSeh(fr) ==
    fr.k = "seh" =>
        /\ DOMAIN fr = SehFields /\ fr.f \in DOMAIN Prog
        /\ fr.ip \in {0, EH_EMPTY_STATE}

OwnCatch(fr) ==
    fr.k = "catch" =>
        /\ DOMAIN fr = CatchFields /\ fr.f \in DOMAIN Prog
        /\ fr.try \in DOMAIN Tries(fr.f) /\ InCatch(Try(fr.f, fr.try), fr.ip)
        /\ fr.ip \in DOMAIN Prog[fr.f].unwind

OwnCcb(fr) ==
    fr.k = "ccb" =>
        /\ DOMAIN fr = CcbFields /\ fr.rec \in Records /\ fr.saved \in Records
        /\ fr.phase \in {"try", "except"} /\ fr.rethrow \in BOOLEAN

OwnRaise(fr) ==
    fr.k = "raise" =>
        /\ DOMAIN fr = RaiseFields /\ fr.rec \in Records
        /\ fr.at \in Nat /\ fr.again \in BOOLEAN
        /\ fr.phase \in {"scan", "build", "filter"} /\ fr.hit \in Hits
        /\ ~fr.again => fr.scope = 0

OwnUnw(fr) ==
    fr.k = "unw" =>
        /\ DOMAIN fr = UnwFields /\ fr.rec \in Records
        /\ fr.at \in Nat /\ fr.target \in Nat
        /\ fr.phase \in {"scan", "states", "land"} /\ fr.hit \in Hits

Own(fr) ==
    /\ fr.k \in Kinds
    /\ OwnFn(fr) /\ OwnSeh(fr) /\ OwnCatch(fr) /\ OwnCcb(fr) /\ OwnRaise(fr) /\ OwnUnw(fr)

(* Frame q is one of function f's code whose try block i may take an exception. *)
Accepts(st, q, i) ==
    /\ st[q].k \in {"fn", "catch"} /\ i \in DOMAIN Tries(st[q].f)
    /\ st[q].k = "catch" => InCatch(Try(st[q].f, st[q].try), Outside(st[q].f, i))

(* No unwind below p jumps over x. *)
Respects(st, p, x) == \A q \in 1 .. p - 1 : st[q].k = "unw" /\ x < q => x <= st[q].at

DownFn(st, p) ==
    st[p].k = "fn" =>
        \/ p = 1
        \/ p > 1 /\ st[p - 1].k \in User
        \/ p > 1 /\ st[p - 1].k = "raise" /\ st[p - 1].phase \in {"build", "filter"}
        \/ p > 1 /\ st[p - 1].k = "unw" /\ st[p - 1].phase = "states"

DownSeh(st, p) == st[p].k = "seh" => p > 1 /\ st[p - 1].k \in User

DownCatch(st, p) ==
    st[p].k = "catch" =>
        /\ p > 2 /\ st[p - 1].k = "ccb"
        /\ st[p - 1].phase = "try" /\ st[p - 1].try = st[p].try
        /\ st[p - 2].k \in {"fn", "catch"} /\ st[p - 2].f = st[p].f
        /\ st[p].est \in 1 .. p - 2 /\ st[st[p].est].k = "fn"

DownCcb(st, p) == st[p].k = "ccb" => p > 1 /\ Accepts(st, p - 1, st[p].try)

DownRaise(st, p) ==
    st[p].k = "raise" =>
        /\ p > 1
        /\ st[p - 1].k \in User \/ (st[p - 1].k = "ccb" /\ st[p - 1].phase = "except")
        /\ st[p].at < p /\ Respects(st, p, st[p].at)
        /\ st[p].phase = "build" =>
               st[p].at > 0 /\ st[p].hit # NoHit /\ Accepts(st, st[p].at, st[p].hit.try)
        /\ st[p].phase = "filter" => st[p].at > 0 /\ st[st[p].at].k = "seh"
        /\ st[p].again => st[p].at > 0 /\ st[st[p].at].k \in {"fn", "catch"}

Lands(st, u) ==
    \/ u.hit # NoHit /\ Accepts(st, u.target, u.hit.try)
    \/ u.hit = NoHit /\ st[u.target].k \in {"seh", "ccb", "raise"}

DownUnw(st, p) ==
    st[p].k = "unw" =>
        /\ p > 1 /\ st[p - 1].k = "raise" /\ st[p - 1].phase = "scan"
        /\ 1 <= st[p].target /\ st[p].target <= st[p].at /\ st[p].at < p
        /\ Respects(st, p, st[p].at) /\ Respects(st, p, st[p].target)
        /\ Lands(st, st[p])
        /\ st[p].phase = "land" => st[p].at = st[p].target /\ st[p].hit # NoHit
        /\ st[p].phase = "states" => st[st[p].at].k \in {"fn", "catch"}

Down(st, p) ==
    /\ DownFn(st, p) /\ DownSeh(st, p) /\ DownCatch(st, p)
    /\ DownCcb(st, p) /\ DownRaise(st, p) /\ DownUnw(st, p)

WellFormed(st) ==
    /\ Len(st) \in Nat /\ Len(st) > 0 /\ st[1].k = "fn"
    /\ \A p \in 1 .. Len(st) : Own(st[p]) /\ Down(st, p)

(* Position p as the frames up to n see it: no unwind among them hides it. *)
Seen(st, n, p) == \A q \in 1 .. n : st[q].k = "unw" => ~(st[q].at < p /\ p < q)

HandlersIn(st, n) == {p \in 1 .. n : st[p].k = "ccb" /\ Seen(st, n, p)}

UnwindingIn(st, n) ==
    {p \in 1 .. n : st[p].k = "unw" /\ st[p].phase = "states" /\ Seen(st, n, p)}

(* The record the innermost of the handlers among the first n frames is for. *)
IsCurrent(st, n, rec) ==
    \/ HandlersIn(st, n) = {} /\ rec = NoRecord
    \/ \E m \in HandlersIn(st, n) :
        (\A q \in HandlersIn(st, n) : q <= m) /\ rec = st[m].rec

SavedRight(st) == \A p \in 1 .. Len(st) : st[p].k = "ccb" => IsCurrent(st, p - 1, st[p].saved)

ParentInv ==
    csp # INVALID_STATE =>
        /\ mode.fh = 4 /\ Run.k \in {"raise", "unw"} /\ Run.phase = "scan" /\ Run.scope = 0
        /\ Run.at > 0
        /\ \/ stack[Run.at].k = "ccb" /\ stack[Run.at].phase = "except"
           \/ stack[Run.at].k \in {"fn", "catch"} /\ stack[Run.at + 1].k = "ccb"

TypesInv ==
    /\ mode \in [fh : {3, 4}, ehs : BOOLEAN]
    /\ halt \in {"no", "terminate", "abort", "unhandled"}
    /\ cur \in Records /\ pt \in Nat
    /\ csp \in Int /\ rethr \in BOOLEAN
    /\ thrown \in Seq(DOMAIN Catchable) /\ Len(thrown) <= raised
    /\ raised \in 0 .. MaxRaises
    /\ alive \subseteq 1 .. Len(thrown) /\ lost \subseteq Records

(* The stack is a sequence, of frames of any kind. *)
IsStack(st) == \E S : st \in Seq(S)

(* Frames alike in all that other frames rely on. *)
Like(a, b) ==
    /\ a.k = b.k
    /\ a.k \in User => a.f = b.f
    /\ a.k = "catch" => a.est = b.est /\ a.try = b.try
    /\ a.k = "ccb" =>
        a.rec = b.rec /\ a.saved = b.saved /\ a.try = b.try /\ a.phase = b.phase
    /\ a.k = "raise" => a.at = b.at /\ a.again = b.again /\ a.phase = b.phase /\ a.hit = b.hit
    /\ a.k = "unw" =>
        a.at = b.at /\ a.target = b.target /\ a.phase = b.phase /\ a.hit = b.hit

(* The first n frames are there still. *)
Kept(st, st2, n) == \A p \in 1 .. n : Like(st[p], st2[p]) /\ Own(st2[p])


-----------------------------------------------------------------------------
(* Numbers and tables *)

(* A set of natural numbers that is not empty has a least element. *)
LEMMA LeastExists ==
    ASSUME NEW S, S \subseteq Nat, S # {}
    PROVE  \E x \in S : \A y \in S : x <= y
  <1>1. IsWellFoundedOn(OpToRel(<, Nat), Nat)
    BY NatLessThanWellFounded, Zenon
  <1>2. PICK x \in S : \A y \in S : ~ (<<y, x>> \in OpToRel(<, Nat))
    BY <1>1, WFMin, Zenon
  <1>3. ASSUME NEW y \in S PROVE x <= y
    <2>1. x \in Nat /\ y \in Nat
      OBVIOUS
    <2>2. ASSUME y < x PROVE FALSE
      <3> DEFINE yx == <<y, x>>
      <3>1. yx \in Nat \X Nat /\ yx[1] = y /\ yx[2] = x
        BY <2>1
      <3>2. yx[1] < yx[2]
        BY <3>1, <2>2
      <3> HIDE DEF yx
      <3>3. yx \in OpToRel(<, Nat)
        BY <3>1, <3>2, Zenon DEF OpToRel
      <3>4. yx \notin OpToRel(<, Nat)
        BY <1>2, Zenon DEF yx
      <3> QED BY <3>3, <3>4, Zenon
    <2> QED BY <2>1, <2>2
  <1> QED BY <1>3

(* So Min picks the least element of such a set. *)
LEMMA MinIsLeast ==
    ASSUME NEW S, S \subseteq Nat, S # {}
    PROVE  Min(S) \in S /\ \A y \in S : Min(S) <= y
  BY LeastExists, Zenon DEF Min

(* A bounded one has a greatest element as well, which Max picks. *)
LEMMA MaxIsGreatest ==
    ASSUME NEW n \in Nat, NEW S, S \subseteq 0 .. n, S # {}
    PROVE  Max(S) \in S /\ \A y \in S : Max(S) >= y
  <1> DEFINE T == {n - x : x \in S}
  <1>1. T \subseteq Nat /\ T # {}
    <2>1. ASSUME NEW x \in S PROVE n - x \in Nat
      OBVIOUS
    <2>2. PICK x \in S : TRUE
      BY Zenon
    <2> QED BY <2>1, <2>2
  <1>2. PICK t \in T : \A y \in T : t <= y
    BY <1>1, LeastExists, Zenon
  <1>3. PICK m \in S : t = n - m
    BY <1>2
  <1>4. \A y \in S : m >= y
    <2>1. TAKE y \in S
    <2>2. n - y \in T /\ m \in Int /\ y \in Int
      BY <2>1, <1>3
    <2>3. n - m <= n - y
      BY <2>2, <1>2, <1>3, Zenon
    <2> QED BY <2>2, <2>3
  <1> QED BY <1>3, <1>4, Zenon DEF Max

(* A greatest element is what Max picks. *)
LEMMA MaxUnique ==
    ASSUME NEW S, S \subseteq Int, NEW m \in S, \A y \in S : y <= m
    PROVE  Max(S) = m
  <1>1. \E x \in S : \A y \in S : x >= y
    OBVIOUS
  <1>2. Max(S) \in S /\ \A y \in S : Max(S) >= y
    BY <1>1, Zenon DEF Max
  <1>3. Max(S) \in Int /\ m \in Int /\ Max(S) >= m /\ Max(S) <= m
    BY <1>2, Zenon
  <1> QED BY <1>3

LEMMA TablesOK ==
    ASSUME NEW f \in DOMAIN Prog, NEW i \in DOMAIN Tries(f)
    PROVE  /\ UnwindMapOK(f) /\ IsSequence(Tries(f)) /\ TryOK(f, Try(f, i))
           /\ i \in Nat /\ i > 0
  <1>1. UnwindMapOK(f) /\ TryBlockMapOK(f)
    BY TablesAssumption
  <1>2. i \in Nat /\ i > 0
    BY <1>1 DEF TryBlockMapOK, IsSequence
  <1> QED BY <1>1, <1>2 DEF TryBlockMapOK

(* The state outside of a try block is one of the function's, or none. *)
LEMMA OutsideIsState ==
    ASSUME NEW f \in DOMAIN Prog, NEW i \in DOMAIN Tries(f)
    PROVE  Outside(f, i) \in {EH_EMPTY_STATE} \cup DOMAIN Prog[f].unwind
  <1>1. Try(f, i).low \in DOMAIN Prog[f].unwind
    BY TablesOK DEF TryOK
  <1> QED BY <1>1, TablesOK DEF Outside, UnwindMapOK

(* A catch block starts in a state of its own. *)
LEMMA CatchStart ==
    ASSUME NEW f \in DOMAIN Prog, NEW i \in DOMAIN Tries(f)
    PROVE  /\ InCatch(Try(f, i), Try(f, i).high + 1)
           /\ Try(f, i).high + 1 \in DOMAIN Prog[f].unwind
  BY TablesOK DEF TryOK, InCatch

(* States of a catch block are states of the function. *)
LEMMA CatchState ==
    ASSUME NEW f \in DOMAIN Prog, NEW i \in DOMAIN Tries(f), NEW s \in {EH_EMPTY_STATE} \cup DOMAIN Prog[f].unwind,
           InCatch(Try(f, i), s)
    PROVE  s \in DOMAIN Prog[f].unwind
  BY TablesOK DEF TryOK, InCatch, EH_EMPTY_STATE

(* Unwinding within a catch block, but from its first state, stays in it. *)
LEMMA CatchClosed ==
    ASSUME NEW f \in DOMAIN Prog, NEW i \in DOMAIN Tries(f), NEW s \in DOMAIN Prog[f].unwind,
           s # Try(f, i).high + 1
    PROVE  InCatch(Try(f, i), s) <=> InCatch(Try(f, i), UWE_TOSTATE(f, s))
  BY TablesOK DEF TryOK

(* A try block that TryRange selects for a funclet lies within its catch block, and
   so does the state around it. *)
LEMMA TryRangeInCatch ==
    ASSUME NEW f \in DOMAIN Prog, NEW c \in DOMAIN Tries(f), NEW ip \in DOMAIN Prog[f].unwind,
           InCatch(Try(f, c), ip), NEW s, NEW i \in TryRange(f, ip, s)
    PROVE  InCatch(Try(f, c), Outside(f, i))
  <1> DEFINE own == {j \in DOMAIN Tries(f) : InCatch(Try(f, j), ip)}
             o == Max(own)
  <1>1. IsSequence(Tries(f)) /\ c \in own
    BY TablesOK
  <1>2. own \subseteq 0 .. Len(Tries(f)) /\ Len(Tries(f)) \in Nat
    BY <1>1 DEF IsSequence
  <1>3. o \in own /\ o >= c
    <2> HIDE DEF own
    <2> QED BY <1>1, <1>2, MaxIsGreatest
  <1>4. o \in DOMAIN Tries(f) /\ InCatch(Try(f, o), ip)
    BY <1>3
  <1>5. o # 0 /\ CatchTryBlock(f, ip) = o
    <2>1. own # {} /\ CatchTryBlock(f, ip) = o
      BY <1>1 DEF CatchTryBlock
    <2> QED BY <2>1, <1>4, TablesOK
  <1> HIDE DEF o
  <1>6. c <= o
    BY <1>3, <1>4, TablesOK
  <1>7. Try(f, c).high <= Try(f, o).high /\ Try(f, o).catchHigh <= Try(f, c).catchHigh
    BY <1>6, <1>4, TablesAssumption DEF TryBlockMapOK, CatchInside
  <1>8. i \in DOMAIN Tries(f) /\ Try(f, i).low > Try(f, o).high /\ Try(f, i).high <= Try(f, o).catchHigh
    BY <1>5 DEF TryRange
  <1>9. TryOK(f, Try(f, i)) /\ TryOK(f, Try(f, o)) /\ TryOK(f, Try(f, c))
    BY <1>8, <1>4, TablesOK
  <1>10. InCatch(Try(f, c), Try(f, i).low) /\ Try(f, i).low \in DOMAIN Prog[f].unwind
    BY <1>7, <1>8, <1>9 DEF TryOK, InCatch
  <1>11. Try(f, i).low # Try(f, c).high + 1
    BY <1>8, TablesAssumption DEF TryBlockMapOK
  <1> QED BY <1>10, <1>11, CatchClosed DEF Outside

-----------------------------------------------------------------------------
(* Stacks *)

LEMMA PushFrame ==
    ASSUME NEW st, IsStack(st), NEW fr
    PROVE  /\ IsStack(Append(st, fr)) /\ Len(st) \in Nat
           /\ Len(Append(st, fr)) = Len(st) + 1
           /\ DOMAIN Append(st, fr) = 1 .. Len(st) + 1
           /\ Append(st, fr)[Len(st) + 1] = fr
           /\ \A p \in 1 .. Len(st) : Append(st, fr)[p] = st[p]
  <1>1. PICK S : st \in Seq(S)
    BY DEF IsStack
  <1>2. st \in Seq(S \cup {fr})
    BY <1>1
  <1>3. Append(st, fr) \in Seq(S \cup {fr})
    BY <1>2
  <1> QED BY <1>2, <1>3 DEF IsStack

LEMMA ChangeFrame ==
    ASSUME NEW st, IsStack(st), NEW i \in 1 .. Len(st), NEW fr
    PROVE  /\ IsStack([st EXCEPT ![i] = fr])
           /\ Len([st EXCEPT ![i] = fr]) = Len(st)
           /\ [st EXCEPT ![i] = fr][i] = fr
           /\ \A p \in 1 .. Len(st) : p # i => [st EXCEPT ![i] = fr][p] = st[p]
  <1>1. PICK S : st \in Seq(S)
    BY DEF IsStack
  <1>2. st \in Seq(S \cup {fr})
    BY <1>1
  <1>3. [st EXCEPT ![i] = fr] \in Seq(S \cup {fr})
    BY <1>2
  <1> QED BY <1>2, <1>3 DEF IsStack

LEMMA CutFrames ==
    ASSUME NEW st, IsStack(st), NEW n \in 0 .. Len(st)
    PROVE  /\ IsStack(SubSeq(st, 1, n)) /\ Len(st) \in Nat
           /\ Len(SubSeq(st, 1, n)) = n
           /\ \A p \in 1 .. n : SubSeq(st, 1, n)[p] = st[p]
  <1>1. PICK S : st \in Seq(S)
    BY DEF IsStack
  <1>2. SubSeq(st, 1, n) \in Seq(S)
    BY <1>1
  <1> QED BY <1>1, <1>2 DEF IsStack

LEMMA StackDomain ==
    ASSUME NEW st, IsStack(st)
    PROVE  DOMAIN st = 1 .. Len(st) /\ Len(st) \in Nat
  <1>1. PICK S : st \in Seq(S)
    BY DEF IsStack
  <1> QED BY <1>1

LEMMA LikeItself ==
    ASSUME NEW fr
    PROVE  Like(fr, fr)
  BY DEF Like

(* What a frame relies on is kept with the frames below it. *)
LEMMA AcceptsKept ==
    ASSUME NEW st, NEW st2, NEW n \in Nat, Kept(st, st2, n), NEW q \in 1 .. n, NEW i
    PROVE  Accepts(st, q, i) <=> Accepts(st2, q, i)
  BY DEF Kept, Like, Accepts, User

LEMMA RespectsKept ==
    ASSUME NEW st, NEW st2, NEW n \in Nat, Kept(st, st2, n), NEW p \in 1 .. n + 1, NEW x
    PROVE  Respects(st, p, x) <=> Respects(st2, p, x)
  BY DEF Kept, Like, Respects

LEMMA DownKept ==
    ASSUME NEW st, NEW st2, NEW n \in Nat, Kept(st, st2, n), NEW p \in 1 .. n,
           Own(st[p]), Down(st, p)
    PROVE  Down(st2, p)
  <1>1. Like(st[p], st2[p]) /\ (p > 1 => Like(st[p - 1], st2[p - 1]))
    BY DEF Kept
  <1>2. DownFn(st2, p)
    BY <1>1 DEF Down, DownFn, Like
  <1>3. DownSeh(st2, p)
    BY <1>1 DEF Down, DownSeh, Like
  <1>4. DownCatch(st2, p)
    <2> SUFFICES ASSUME st[p].k = "catch" PROVE DownCatch(st2, p)
      BY <1>1 DEF DownCatch, Like
    <2>1. DownCatch(st, p)
      BY DEF Down
    <2>2. Like(st[p - 2], st2[p - 2]) /\ Like(st[st[p].est], st2[st[p].est])
      BY <2>1 DEF Kept, DownCatch
    <2> QED BY <1>1, <2>1, <2>2 DEF DownCatch, Like, User
  <1>5. DownCcb(st2, p)
    <2> SUFFICES ASSUME st2[p].k = "ccb" PROVE p > 1 /\ Accepts(st2, p - 1, st2[p].try)
      BY DEF DownCcb
    <2>1. st2[p].try = st[p].try /\ p > 1 /\ Accepts(st, p - 1, st[p].try)
      BY <1>1 DEF Down, DownCcb, Like
    <2> QED BY <2>1, AcceptsKept
  <1>6. DownRaise(st2, p)
    <2> SUFFICES ASSUME st[p].k = "raise" PROVE DownRaise(st2, p)
      BY <1>1 DEF DownRaise, Like
    <2>1. DownRaise(st, p) /\ OwnRaise(st[p])
      BY DEF Down, Own
    <2>2. st2[p].at = st[p].at /\ st2[p].again = st[p].again
          /\ st2[p].phase = st[p].phase /\ st2[p].hit = st[p].hit
      BY <1>1 DEF Like
    <2>3. Respects(st2, p, st2[p].at)
      BY <2>1, <2>2, RespectsKept DEF DownRaise
    <2>4. st[p].at \in 0 .. p - 1
      BY <2>1 DEF DownRaise, OwnRaise
    <2>5. CASE st[p].at = 0
      BY <1>1, <2>1, <2>2, <2>3, <2>5 DEF DownRaise, Like
    <2>6. CASE st[p].at > 0
      <3>1. st[p].at \in 1 .. n
        BY <2>4, <2>6
      <3>2. Like(st[st[p].at], st2[st[p].at])
        BY <3>1 DEF Kept
      <3>3. st2[st[p].at].k = st[st[p].at].k
        BY <3>2 DEF Like
      <3>4. Accepts(st, st[p].at, st[p].hit.try) <=> Accepts(st2, st[p].at, st[p].hit.try)
        BY <3>1, AcceptsKept
      <3> QED BY <1>1, <2>1, <2>2, <2>3, <3>3, <3>4 DEF DownRaise, Like
    <2> QED BY <2>4, <2>5, <2>6
  <1>7. DownUnw(st2, p)
    <2> SUFFICES ASSUME st[p].k = "unw" PROVE DownUnw(st2, p)
      BY <1>1 DEF DownUnw, Like
    <2>1. DownUnw(st, p) /\ OwnUnw(st[p])
      BY DEF Down, Own
    <2>2. st2[p].at = st[p].at /\ st2[p].target = st[p].target
          /\ st2[p].phase = st[p].phase /\ st2[p].hit = st[p].hit
      BY <1>1 DEF Like
    <2>3. Respects(st2, p, st2[p].at) /\ Respects(st2, p, st2[p].target)
      BY <2>1, <2>2, RespectsKept DEF DownUnw
    <2>4. st[p].at \in 1 .. n /\ st[p].target \in 1 .. n
      BY <2>1 DEF DownUnw, OwnUnw
    <2>5. st2[st[p].at].k = st[st[p].at].k /\ st2[st[p].target].k = st[st[p].target].k
      BY <2>4 DEF Kept, Like
    <2>6. Lands(st2, st2[p])
      <3>1. Lands(st, st[p])
        BY <2>1 DEF DownUnw
      <3>2. Accepts(st, st[p].target, st[p].hit.try) <=> Accepts(st2, st[p].target, st[p].hit.try)
        BY <2>4, AcceptsKept
      <3> QED BY <2>2, <2>5, <3>1, <3>2 DEF Lands
    <2> QED BY <1>1, <2>1, <2>2, <2>3, <2>5, <2>6 DEF DownUnw, Like
  <1> QED BY <1>2, <1>3, <1>4, <1>5, <1>6, <1>7 DEF Down

(* A stack is well formed when its new frames are. *)
LEMMA WellFormedStep ==
    ASSUME NEW st, NEW st2, NEW n \in Nat, WellFormed(st), n > 0, n <= Len(st), n <= Len(st2),
           Len(st2) \in Nat, Kept(st, st2, n),
           \A p \in n + 1 .. Len(st2) : Own(st2[p]) /\ Down(st2, p)
    PROVE  WellFormed(st2)
  <1>1. ASSUME NEW p \in 1 .. Len(st2) PROVE Own(st2[p]) /\ Down(st2, p)
    <2>1. CASE p <= n
      <3>1. p \in 1 .. n /\ Own(st[p]) /\ Down(st, p)
        BY <2>1 DEF WellFormed
      <3>2. Down(st2, p)
        BY <3>1, DownKept
      <3> QED BY <3>1, <3>2 DEF Kept
    <2>2. CASE p > n
      BY <2>2
    <2> QED BY <2>1, <2>2
  <1>2. st2[1].k = "fn"
    BY DEF WellFormed, Kept, Like
  <1> QED BY <1>1, <1>2 DEF WellFormed

-----------------------------------------------------------------------------
(* What a frame hides *)

LEMMA SeenKept ==
    ASSUME NEW st, NEW st2, NEW n \in Nat, Kept(st, st2, n), NEW p
    PROVE  Seen(st, n, p) <=> Seen(st2, n, p)
  BY DEF Kept, Like, Seen

LEMMA HandlersKept ==
    ASSUME NEW st, NEW st2, NEW n \in Nat, Kept(st, st2, n)
    PROVE  HandlersIn(st, n) = HandlersIn(st2, n) /\ UnwindingIn(st, n) = UnwindingIn(st2, n)
  <1>1. \A p \in 1 .. n : Seen(st, n, p) <=> Seen(st2, n, p)
    BY SeenKept
  <1>2. \A p \in 1 .. n : st[p].k = st2[p].k /\ (st[p].k = "unw" => st[p].phase = st2[p].phase)
    BY DEF Kept, Like
  <1> QED BY <1>1, <1>2 DEF HandlersIn, UnwindingIn

LEMMA CurrentKept ==
    ASSUME NEW st, NEW st2, NEW n \in Nat, Kept(st, st2, n), NEW rec, IsCurrent(st, n, rec)
    PROVE  IsCurrent(st2, n, rec)
  <1>1. HandlersIn(st, n) = HandlersIn(st2, n)
    BY HandlersKept
  <1>2. \A m \in HandlersIn(st, n) : st[m].rec = st2[m].rec
    BY DEF HandlersIn, Kept, Like
  <1> QED BY <1>1, <1>2 DEF IsCurrent

(* The frame at the top hides those between it and where it is. *)
LEMMA SeenTop ==
    ASSUME NEW st, NEW n \in Nat, n > 0, NEW p \in 1 .. n - 1,
           st[n].k = "unw" => st[n].at \in Nat
    PROVE  Seen(st, n, p) <=> Seen(st, n - 1, p) /\ (st[n].k = "unw" => p <= st[n].at)
  BY DEF Seen

LEMMA SeenItself ==
    ASSUME NEW st, NEW n \in Nat
    PROVE  Seen(st, n, n)
  BY DEF Seen

(* Any other frame than an unwind hides nothing. *)
LEMMA HandlersBelow ==
    ASSUME NEW st, NEW n \in Nat, n > 0, st[n].k # "unw"
    PROVE  /\ st[n].k # "ccb" => HandlersIn(st, n) = HandlersIn(st, n - 1)
           /\ st[n].k = "ccb" => HandlersIn(st, n) = HandlersIn(st, n - 1) \cup {n}
           /\ UnwindingIn(st, n) = UnwindingIn(st, n - 1)
  <1>1. \A p \in 1 .. n - 1 : Seen(st, n, p) <=> Seen(st, n - 1, p)
    BY SeenTop
  <1>2. Seen(st, n, n)
    BY SeenItself
  <1>3. 1 .. n = 1 .. n - 1 \cup {n}
    OBVIOUS
  <1> QED BY <1>1, <1>2, <1>3 DEF HandlersIn, UnwindingIn

(* To the frames an unwind has not reached it makes no difference. *)
LEMMA SeenBelow ==
    ASSUME NEW st, NEW n \in Nat, NEW x \in Nat, x < n, Respects(st, n, x),
           \A q \in 1 .. n - 1 : Own(st[q]), NEW p \in 1 .. x
    PROVE  Seen(st, n - 1, p) <=> Seen(st, x, p)
  <1>1. ASSUME Seen(st, n - 1, p) PROVE Seen(st, x, p)
    BY <1>1 DEF Seen
  <1>2. ASSUME Seen(st, x, p), NEW q \in 1 .. n - 1, st[q].k = "unw", st[q].at < p, p < q
        PROVE  FALSE
    <2>1. st[q].at \in Nat
      BY <1>2 DEF Own, OwnUnw
    <2>2. CASE q <= x
      BY <1>2, <2>2 DEF Seen
    <2>3. CASE q > x
      BY <1>2, <2>1, <2>3 DEF Respects
    <2> QED BY <2>2, <2>3
  <1> QED BY <1>1, <1>2 DEF Seen

LEMMA HandlersOfUnwind ==
    ASSUME NEW st, NEW n \in Nat, n > 0, st[n].k = "unw", \A q \in 1 .. n : Own(st[q]), Down(st, n)
    PROVE  /\ HandlersIn(st, n) = HandlersIn(st, st[n].at)
           /\ st[n].phase # "states" => UnwindingIn(st, n) = UnwindingIn(st, st[n].at)
           /\ st[n].phase = "states" =>
                  UnwindingIn(st, n) = UnwindingIn(st, st[n].at) \cup {n}
  <1> DEFINE x == st[n].at
  <1>1. x \in Nat /\ x > 0 /\ x < n /\ Respects(st, n, x)
    BY DEF Own, OwnUnw, Down, DownUnw
  <1>2. ASSUME NEW p \in 1 .. n - 1
        PROVE  Seen(st, n, p) <=> Seen(st, n - 1, p) /\ p <= x
    BY <1>1, SeenTop
  <1> HIDE DEF x
  <1>3. ASSUME NEW p \in 1 .. x
        PROVE  Seen(st, n - 1, p) <=> Seen(st, x, p)
    BY <1>1, SeenBelow
  <1>4. \A p \in 1 .. n - 1 : Seen(st, n, p) <=> p \in 1 .. x /\ Seen(st, x, p)
    BY <1>1, <1>2, <1>3
  <1>5. Seen(st, n, n)
    BY SeenItself
  <1>6. 1 .. n = 1 .. n - 1 \cup {n} /\ 1 .. x \subseteq 1 .. n - 1
    BY <1>1
  <1>7. HandlersIn(st, n) = HandlersIn(st, x)
    BY <1>4, <1>6 DEF HandlersIn
  <1>8. /\ st[n].phase # "states" => UnwindingIn(st, n) = UnwindingIn(st, x)
        /\ st[n].phase = "states" => UnwindingIn(st, n) = UnwindingIn(st, x) \cup {n}
    BY <1>4, <1>5, <1>6 DEF UnwindingIn
  <1> QED BY <1>7, <1>8 DEF x

(* What Visible says is what Seen says of the whole stack. *)
LEMMA VisibleIsSeen ==
    ASSUME NEW st, IsStack(st), NEW p
    PROVE  Visible(st, p) <=> Seen(st, Len(st), p)
  BY StackDomain DEF Visible, Seen

(* The saved records stay right when those of the new frames are. *)
LEMMA SavedStep ==
    ASSUME NEW st, NEW st2, NEW n \in Nat, SavedRight(st), n <= Len(st), Len(st) \in Nat,
           Len(st2) \in Nat, Kept(st, st2, n),
           \A p \in n + 1 .. Len(st2) : st2[p].k = "ccb" => IsCurrent(st2, p - 1, st2[p].saved)
    PROVE  SavedRight(st2)
  <1> SUFFICES ASSUME NEW p \in 1 .. Len(st2), st2[p].k = "ccb"
               PROVE  IsCurrent(st2, p - 1, st2[p].saved)
    BY DEF SavedRight
  <1>1. CASE p > n
    BY <1>1
  <1>2. CASE p <= n
    <2>1. Like(st[p], st2[p]) /\ p \in 1 .. Len(st)
      BY <1>2 DEF Kept
    <2>2. IsCurrent(st, p - 1, st2[p].saved)
      BY <2>1 DEF SavedRight, Like
    <2>3. p - 1 \in Nat /\ Kept(st, st2, p - 1)
      BY <1>2 DEF Kept
    <2> QED BY <2>2, <2>3, CurrentKept
  <1> QED BY <1>1, <1>2

-----------------------------------------------------------------------------
(* The invariant, and steps of the whole system *)

StackOK(st) == IsStack(st) /\ WellFormed(st) /\ SavedRight(st)

(* The list ch has the handlers among the first n frames, the innermost first. *)
ChainFor(ch, st, n) ==
    /\ ch \in Seq([pos : Nat, obj : Records])
    /\ \A i \in 1 .. Len(ch) :
        ch[i].pos \in HandlersIn(st, n) /\ ch[i].obj = st[ch[i].pos].rec
    /\ \A h \in HandlersIn(st, n) : \E i \in 1 .. Len(ch) : ch[i].pos = h
    /\ \A i, j \in 1 .. Len(ch) : i < j => ch[i].pos > ch[j].pos

ChainOK(ch, st) == ChainFor(ch, st, Len(st))

CountOK(n, st) == n = Cardinality(UnwindingIn(st, Len(st)))

CurrentOK(h, rec, st) == h = "no" => IsCurrent(st, Len(st), rec)

FramesInv ==
    StackOK(stack) /\ ChainOK(chain, stack) /\ CountOK(pt, stack) /\ CurrentOK(halt, cur, stack)

EhInv == FramesInv /\ TypesInv /\ ParentInv

(* st2 has the first n frames of st and otherwise new ones. *)
Extended(st, st2, n) ==
    /\ n \in Nat /\ n > 0 /\ n <= Len(st) /\ n <= Len(st2)
    /\ IsStack(st2) /\ Kept(st, st2, n)
    /\ \A p \in n + 1 .. Len(st2) :
        /\ Own(st2[p]) /\ Down(st2, p)
        /\ st2[p].k = "ccb" => IsCurrent(st2, p - 1, st2[p].saved)

LEMMA StackStep ==
    ASSUME NEW st, NEW st2, NEW n, StackOK(st), Extended(st, st2, n)
    PROVE  StackOK(st2)
  <1>1. n \in Nat /\ n > 0 /\ n <= Len(st) /\ n <= Len(st2) /\ Len(st) \in Nat /\ Len(st2) \in Nat
    BY StackDomain DEF StackOK, Extended
  <1>2. WellFormed(st2)
    BY <1>1, WellFormedStep DEF StackOK, Extended
  <1>3. SavedRight(st2)
    BY <1>1, SavedStep DEF StackOK, Extended
  <1> QED BY <1>2, <1>3 DEF StackOK, Extended

(* The frames above n hide nothing of those up to n, and no handler is among them. *)
Quiet(st, n) ==
    \A p \in n + 1 .. Len(st) :
        \/ st[p].k \in {"fn", "seh", "raise"}
        \/ st[p].k = "unw" /\ st[p].at = p - 1 /\ st[p].phase = "scan"

LEMMA QuietTop ==
    ASSUME NEW st, NEW n \in Nat, n > 0, n <= Len(st), StackOK(st), Quiet(st, n - 1)
    PROVE  HandlersIn(st, n) = HandlersIn(st, n - 1) /\ UnwindingIn(st, n) = UnwindingIn(st, n - 1)
  <1>1. Len(st) \in Nat /\ (\A q \in 1 .. n : Own(st[q])) /\ Down(st, n)
    BY DEF StackOK, WellFormed
  <1>2. n \in n - 1 + 1 .. Len(st)
    BY <1>1
  <1>3. CASE st[n].k \in {"fn", "seh", "raise"}
    <2>1. st[n].k # "unw" /\ st[n].k # "ccb"
      BY <1>3
    <2> QED BY <2>1, HandlersBelow
  <1>4. CASE st[n].k = "unw" /\ st[n].at = n - 1 /\ st[n].phase = "scan"
    <2>1. st[n].phase # "states"
      BY <1>4
    <2> QED BY <1>1, <1>4, <2>1, HandlersOfUnwind
  <1> QED BY <1>2, <1>3, <1>4 DEF Quiet

LEMMA QuietFrames ==
    ASSUME NEW st, NEW n \in Nat, n <= Len(st), Len(st) <= n + 2, StackOK(st), Quiet(st, n)
    PROVE  /\ HandlersIn(st, Len(st)) = HandlersIn(st, n)
           /\ UnwindingIn(st, Len(st)) = UnwindingIn(st, n)
  <1>1. Len(st) \in Nat
    BY DEF StackOK, WellFormed
  <1>2. CASE Len(st) = n
    BY <1>2
  <1>3. CASE Len(st) = n + 1
    <2>1. Quiet(st, n + 1 - 1)
      OBVIOUS
    <2> QED BY <1>1, <1>3, <2>1, QuietTop
  <1>4. CASE Len(st) = n + 2
    <2>1. Quiet(st, n + 1 - 1) /\ Quiet(st, n + 2 - 1)
      BY DEF Quiet
    <2>2. HandlersIn(st, n + 2) = HandlersIn(st, n + 1) /\ UnwindingIn(st, n + 2) = UnwindingIn(st, n + 1)
      <3>1. n + 2 \in Nat /\ n + 2 > 0 /\ n + 2 <= Len(st) /\ n + 2 - 1 = n + 1
        BY <1>4
      <3> QED BY <3>1, <2>1, QuietTop
    <2>3. HandlersIn(st, n + 1) = HandlersIn(st, n) /\ UnwindingIn(st, n + 1) = UnwindingIn(st, n)
      BY <1>4, <2>1, QuietTop
    <2> QED BY <1>4, <2>2, <2>3
  <1> QED BY <1>1, <1>2, <1>3, <1>4

(* The list, the count and the current exception follow the frames. *)
LEMMA FramesFollow ==
    ASSUME NEW st, NEW st2, NEW ch, ChainOK(ch, st), NEW c, CountOK(c, st), NEW n \in Nat,
           NEW h, NEW h2, NEW rec, NEW rec2, CurrentOK(h, rec, st),
           StackOK(st), StackOK(st2), Kept(st, st2, n),
           HandlersIn(st, Len(st)) = HandlersIn(st, n),
           HandlersIn(st2, Len(st2)) = HandlersIn(st2, n),
           UnwindingIn(st, Len(st)) = UnwindingIn(st, n),
           UnwindingIn(st2, Len(st2)) = UnwindingIn(st2, n),
           h2 = "no" => h = "no" /\ rec2 = rec
    PROVE  ChainOK(ch, st2) /\ CountOK(c, st2) /\ CurrentOK(h2, rec2, st2)
  <1>1. HandlersIn(st, n) = HandlersIn(st2, n) /\ UnwindingIn(st, n) = UnwindingIn(st2, n)
    BY HandlersKept
  <1>2. \A m \in HandlersIn(st, n) : st2[m].rec = st[m].rec
    BY DEF HandlersIn, Kept, Like
  <1>3. ChainOK(ch, st2)
    BY <1>1, <1>2, Zenon DEF ChainOK, ChainFor
  <1>4. CountOK(c, st2)
    BY <1>1 DEF CountOK
  <1>5. CurrentOK(h2, rec2, st2)
    BY <1>1, <1>2 DEF CurrentOK, IsCurrent
  <1> QED BY <1>3, <1>4, <1>5

(* A step that leaves no handler, enters none and moves no unwind. *)
LEMMA QuietStep ==
    ASSUME FramesInv, NEW n, Extended(stack, stack', n), Quiet(stack, n), Quiet(stack', n),
           Top <= n + 2, Len(stack') <= n + 2, chain' = chain, pt' = pt,
           halt' = "no" => halt = "no" /\ cur' = cur
    PROVE  FramesInv'
  <1>1. StackOK(stack')
    BY StackStep DEF FramesInv
  <1>2. n \in Nat /\ n <= Top /\ n <= Len(stack') /\ Kept(stack, stack', n)
    BY DEF Extended, Top
  <1>3. HandlersIn(stack, Len(stack)) = HandlersIn(stack, n)
        /\ UnwindingIn(stack, Len(stack)) = UnwindingIn(stack, n)
    BY <1>2, QuietFrames DEF FramesInv, Top
  <1>4. HandlersIn(stack', Len(stack')) = HandlersIn(stack', n)
        /\ UnwindingIn(stack', Len(stack')) = UnwindingIn(stack', n)
    BY <1>1, <1>2, QuietFrames
  <1>5. ChainOK(chain, stack') /\ CountOK(pt, stack') /\ CurrentOK(halt', cur', stack')
    BY <1>1, <1>2, <1>3, <1>4, FramesFollow, Zenon DEF FramesInv
  <1> QED BY <1>1, <1>5 DEF FramesInv

(* While code of the program runs, CatchStateInParent is invalid. *)
LEMMA ProgramParent ==
    ASSUME ParentInv, Run.k \in User \/ Run.phase \in {"states", "land", "build", "filter"}
    PROVE  csp = INVALID_STATE
  BY DEF ParentInv, User

LEMMA ParentInvalid ==
    ASSUME csp' = INVALID_STATE
    PROVE  ParentInv'
  BY DEF ParentInv

-----------------------------------------------------------------------------
(* Changes that no other frame notices *)

LEMMA KeptItself ==
    ASSUME NEW st, NEW n \in Nat, \A p \in 1 .. n : Own(st[p])
    PROVE  Kept(st, st, n)
  BY LikeItself DEF Kept

LEMMA KeptTwice ==
    ASSUME NEW a, NEW b, NEW c, NEW n \in Nat, Kept(a, b, n), Kept(b, c, n)
    PROVE  Kept(a, c, n)
  <1> SUFFICES ASSUME NEW p \in 1 .. n PROVE Like(a[p], c[p]) /\ Own(c[p])
    BY DEF Kept
  <1>1. Like(a[p], b[p]) /\ Like(b[p], c[p]) /\ Own(c[p])
    BY DEF Kept
  <1> QED BY <1>1 DEF Like

(* st2 is st with frame i replaced by fr. *)
Changed(st, st2, i, fr) ==
    /\ IsStack(st2) /\ Len(st2) = Len(st) /\ st2[i] = fr
    /\ \A p \in 1 .. Len(st) : p # i => st2[p] = st[p]

(* st2 is as long as st, and no frame of it differs for the others. *)
Unnoticed(st, st2) ==
    IsStack(st2) /\ Len(st2) = Len(st) /\ \A p \in 1 .. Len(st) : Like(st[p], st2[p]) /\ Own(st2[p])

LEMMA ChangeFrameTo ==
    ASSUME NEW st, IsStack(st), NEW i \in 1 .. Len(st), NEW fr
    PROVE  Changed(st, [st EXCEPT ![i] = fr], i, fr)
  BY ChangeFrame DEF Changed

LEMMA ChangeKept ==
    ASSUME NEW st, \A p \in 1 .. Len(st) : Own(st[p]), NEW i \in 1 .. Len(st),
           NEW fr, Like(st[i], fr), Own(fr), NEW st2, Changed(st, st2, i, fr)
    PROVE  Unnoticed(st, st2)
  BY LikeItself DEF Unnoticed, Changed

(* The instruction pointer of a frame of the program. *)
LEMMA IpChange ==
    ASSUME NEW st, IsStack(st), \A p \in 1 .. Len(st) : Own(st[p]),
           NEW i \in 1 .. Len(st), st[i].k \in User, NEW s,
           st[i].k = "fn" => s \in {EH_EMPTY_STATE} \cup DOMAIN Prog[st[i].f].unwind,
           st[i].k = "seh" => s \in {0, EH_EMPTY_STATE},
           st[i].k = "catch" => /\ InCatch(Try(st[i].f, st[i].try), s)
                                /\ s \in DOMAIN Prog[st[i].f].unwind,
           NEW st2, st2 = [st EXCEPT ![i].ip = s]
    PROVE  Unnoticed(st, st2)
  <1> DEFINE fr == [st[i] EXCEPT !.ip = s]
  <1>1. st2 = [st EXCEPT ![i] = fr]
    OBVIOUS
  <1>2. Own(st[i])
    OBVIOUS
  <1>3. Own(fr) /\ Like(st[i], fr)
    <2>1. CASE st[i].k = "fn"
      <3>1. DOMAIN st[i] = FnFields /\ st[i].f \in DOMAIN Prog
        BY <1>2, <2>1 DEF Own, OwnFn
      <3>2. fr.k = "fn" /\ fr.f = st[i].f /\ fr.ip = s /\ DOMAIN fr = FnFields
        BY <2>1, <3>1 DEF FnFields
      <3> QED BY <2>1, <3>1, <3>2
            DEF Own, OwnFn, OwnSeh, OwnCatch, OwnCcb, OwnRaise, OwnUnw, Like, Kinds
    <2>2. CASE st[i].k = "seh"
      <3>1. DOMAIN st[i] = SehFields /\ st[i].f \in DOMAIN Prog
        BY <1>2, <2>2 DEF Own, OwnSeh
      <3>2. fr.k = "seh" /\ fr.f = st[i].f /\ fr.ip = s /\ DOMAIN fr = SehFields
        BY <2>2, <3>1 DEF SehFields
      <3> QED BY <2>2, <3>1, <3>2
            DEF Own, OwnFn, OwnSeh, OwnCatch, OwnCcb, OwnRaise, OwnUnw, Like, Kinds
    <2>3. CASE st[i].k = "catch"
      <3>1. DOMAIN st[i] = CatchFields /\ st[i].f \in DOMAIN Prog /\ st[i].try \in DOMAIN Tries(st[i].f)
        BY <1>2, <2>3 DEF Own, OwnCatch
      <3>2. /\ fr.k = "catch" /\ fr.f = st[i].f /\ fr.ip = s /\ DOMAIN fr = CatchFields
            /\ fr.est = st[i].est /\ fr.try = st[i].try
        BY <2>3, <3>1 DEF CatchFields
      <3> QED BY <2>3, <3>1, <3>2
            DEF Own, OwnFn, OwnSeh, OwnCatch, OwnCcb, OwnRaise, OwnUnw, Like, Kinds
    <2> QED BY <2>1, <2>2, <2>3 DEF User
  <1> HIDE DEF fr
  <1>4. Unnoticed(st, st2)
    <2>1. Changed(st, [st EXCEPT ![i] = fr], i, fr)
      BY ChangeFrameTo, Zenon
    <2>2. Changed(st, st2, i, fr)
      BY <2>1, <1>1, Zenon
    <2> QED BY <2>2, <1>3, ChangeKept, Zenon DEF Changed
  <1> QED BY <1>4

(* The UNWINDHELP of a function. *)
LEMMA OwnHelp ==
    ASSUME NEW fr, Own(fr), fr.k = "fn", NEW x, NEW y
    PROVE  /\ Own([fr EXCEPT !.us = x]) /\ Like(fr, [fr EXCEPT !.us = x])
           /\ Own([fr EXCEPT !.us = x, !.ut = y]) /\ Like(fr, [fr EXCEPT !.us = x, !.ut = y])
  <1>1. DOMAIN fr = FnFields /\ OwnFn(fr)
    BY DEF Own, OwnFn
  <1> DEFINE g == [fr EXCEPT !.us = x]
             h == [fr EXCEPT !.us = x, !.ut = y]
  <1>2. /\ g.k = "fn" /\ g.f = fr.f /\ g.ip = fr.ip /\ DOMAIN g = FnFields
        /\ h.k = "fn" /\ h.f = fr.f /\ h.ip = fr.ip /\ DOMAIN h = FnFields
    BY <1>1 DEF FnFields
  <1> HIDE DEF g, h
  <1>3. Own(g) /\ Like(fr, g)
    BY <1>1, <1>2 DEF Own, OwnFn, OwnSeh, OwnCatch, OwnCcb, OwnRaise, OwnUnw, Like, Kinds
  <1>4. Own(h) /\ Like(fr, h)
    BY <1>1, <1>2 DEF Own, OwnFn, OwnSeh, OwnCatch, OwnCcb, OwnRaise, OwnUnw, Like, Kinds
  <1> QED BY <1>3, <1>4 DEF g, h

LEMMA HelpChange ==
    ASSUME NEW st, IsStack(st), \A p \in 1 .. Len(st) : Own(st[p]),
           NEW i \in 1 .. Len(st), st[i].k = "fn", NEW x, NEW y, NEW fr,
           fr = [st[i] EXCEPT !.us = x, !.ut = y],
           NEW st2, st2 = [st EXCEPT ![i] = fr]
    PROVE  Unnoticed(st, st2) /\ \A p \in 1 .. Len(st) : p # i => st2[p] = st[p]
  <1>1. Own(fr) /\ Like(st[i], fr)
    <2>1. Own(st[i])
      OBVIOUS
    <2> QED BY <2>1, OwnHelp, Zenon
  <1>2. Changed(st, [st EXCEPT ![i] = fr], i, fr)
    BY ChangeFrameTo, Zenon
  <1>3. Changed(st, st2, i, fr)
    BY <1>2
  <1>4. Unnoticed(st, st2)
    BY <1>1, <1>3, ChangeKept
  <1> QED BY <1>3, <1>4 DEF Changed

LEMMA UsChange ==
    ASSUME NEW st, IsStack(st), \A p \in 1 .. Len(st) : Own(st[p]),
           NEW i \in 1 .. Len(st), st[i].k = "fn", NEW x, NEW st2,
           st2 = [st EXCEPT ![i].us = x]
    PROVE  Unnoticed(st, st2) /\ \A p \in 1 .. Len(st) : p # i => st2[p] = st[p]
  <1> DEFINE fr == [st[i] EXCEPT !.us = x]
  <1>1. st2 = [st EXCEPT ![i] = fr]
    OBVIOUS
  <1>2. Own(fr) /\ Like(st[i], fr)
    <2>1. Own(st[i])
      OBVIOUS
    <2> QED BY <2>1, OwnHelp, Zenon
  <1> HIDE DEF fr
  <1>3. Changed(st, [st EXCEPT ![i] = fr], i, fr)
    BY ChangeFrameTo, Zenon
  <1>4. Changed(st, st2, i, fr)
    BY <1>1, <1>3, Zenon
  <1> QED BY <1>2, <1>4, ChangeKept, Zenon DEF Changed

-----------------------------------------------------------------------------
(* Steps by their effect on the stack *)

LEMMA StackFacts ==
    ASSUME FramesInv
    PROVE  /\ Top \in Nat /\ Top > 0 /\ Top = Len(stack) /\ DOMAIN stack = 1 .. Top
           /\ IsStack(stack) /\ WellFormed(stack)
           /\ \A p \in 1 .. Top : Own(stack[p]) /\ Down(stack, p)
           /\ Own(Run) /\ Down(stack, Top) /\ stack[1].k = "fn"
  <1>1. IsStack(stack) /\ WellFormed(stack)
    BY DEF FramesInv, StackOK
  <1>2. DOMAIN stack = 1 .. Len(stack)
    BY <1>1, StackDomain
  <1> QED BY <1>1, <1>2 DEF WellFormed, Top, Run

(* No frame is added or removed, and none changes for the others. *)
LEMMA StillStep ==
    ASSUME FramesInv, IsStack(stack'), Len(stack') = Top, Kept(stack, stack', Top),
           chain' = chain, pt' = pt, halt' = "no" => halt = "no" /\ cur' = cur
    PROVE  FramesInv'
  <1>1. Top \in Nat /\ Top > 0 /\ Top = Len(stack)
    BY StackFacts
  <1>2. Extended(stack, stack', Top)
    BY <1>1 DEF Extended
  <1>3. Quiet(stack, Top) /\ Quiet(stack', Top)
    BY <1>1 DEF Quiet
  <1> QED BY <1>1, <1>2, <1>3, QuietStep

(* A frame is pushed, none of the others changes for the rest. *)
LEMMA PushStep ==
    ASSUME FramesInv, NEW s, IsStack(s), Len(s) = Top, Kept(stack, s, Top),
           NEW fr, stack' = Append(s, fr), Own(fr), Down(stack', Top + 1),
           \/ fr.k \in {"fn", "seh", "raise"}
           \/ fr.k = "unw" /\ fr.at = Top /\ fr.phase = "scan",
           chain' = chain, pt' = pt, halt' = "no" => halt = "no" /\ cur' = cur
    PROVE  FramesInv'
  <1>1. Top \in Nat /\ Top > 0 /\ Top = Len(stack)
    BY StackFacts
  <1>2. /\ IsStack(stack') /\ Len(stack') = Top + 1 /\ stack'[Top + 1] = fr
        /\ \A p \in 1 .. Top : stack'[p] = s[p]
    BY PushFrame
  <1>3. Kept(stack, stack', Top)
    BY <1>2 DEF Kept
  <1>4. \A p \in Top + 1 .. Len(stack') : p = Top + 1
    BY <1>1, <1>2
  <1>5. fr.k # "ccb"
    OBVIOUS
  <1>6. Extended(stack, stack', Top)
    BY <1>1, <1>2, <1>3, <1>4, <1>5 DEF Extended
  <1>7. Quiet(stack, Top) /\ Quiet(stack', Top)
    BY <1>1, <1>2, <1>4 DEF Quiet
  <1> QED BY <1>1, <1>2, <1>6, <1>7, QuietStep

(* The dispatcher at the top moves on, and may have pushed a frame. *)
LEMMA RaiseStep ==
    ASSUME FramesInv, Run.k = "raise", IsStack(stack'), Kept(stack, stack', Top - 1),
           Len(stack') \in {Top, Top + 1}, stack'[Top].k = "raise", Own(stack'[Top]), Down(stack', Top),
           Len(stack') = Top + 1 =>
               /\ Own(stack'[Top + 1]) /\ Down(stack', Top + 1)
               /\ \/ stack'[Top + 1].k = "fn"
                  \/ /\ stack'[Top + 1].k = "unw" /\ stack'[Top + 1].at = Top
                     /\ stack'[Top + 1].phase = "scan",
           chain' = chain, pt' = pt, halt' = "no" => halt = "no" /\ cur' = cur
    PROVE  FramesInv'
  <1>1. Top \in Nat /\ Top > 1 /\ Top = Len(stack)
    BY StackFacts DEF Down, DownRaise, Run
  <1>2. \A p \in Top - 1 + 1 .. Len(stack') : p = Top \/ (p = Top + 1 /\ Len(stack') = Top + 1)
    BY <1>1
  <1>3. \A p \in Top - 1 + 1 .. Len(stack') : stack'[p].k # "ccb" /\ Own(stack'[p]) /\ Down(stack', p)
    BY <1>1, <1>2
  <1>4. Extended(stack, stack', Top - 1)
    BY <1>1, <1>3 DEF Extended
  <1>5. Quiet(stack, Top - 1)
    BY <1>1 DEF Quiet, Run
  <1>6. Quiet(stack', Top - 1)
    BY <1>1, <1>2 DEF Quiet
  <1> QED BY <1>1, <1>4, <1>5, <1>6, QuietStep

-----------------------------------------------------------------------------
(* The program *)

LEMMA EnterScopeStep ==
    ASSUME EhInv, EnterScope
    PROVE  EhInv'
  <1>1. FramesInv /\ TypesInv /\ ParentInv /\ Run.k \in User
    BY DEF EhInv, EnterScope, RunIsUser
  <1>2. Own(Run) /\ Top \in 1 .. Len(stack) /\ IsStack(stack)
        /\ (\A p \in 1 .. Len(stack) : Own(stack[p]))
    BY <1>1, StackFacts
  <1>3. PICK s \in DOMAIN Prog[Run.f].unwind :
            /\ UWE_TOSTATE(Run.f, s) = Run.ip
            /\ \A t \in Range(Tries(Run.f)) : s # t.high + 1
            /\ stack' = [stack EXCEPT ![Top].ip = s]
    BY Zenon DEF EnterScope
  <1>4. Run.k = "catch" => InCatch(Try(Run.f, Run.try), s)
    <2> HAVE Run.k = "catch"
    <2>1. Run.f \in DOMAIN Prog /\ Run.try \in DOMAIN Tries(Run.f) /\ InCatch(Try(Run.f, Run.try), Run.ip)
      BY <1>2 DEF Own, OwnCatch
    <2>2. s # Try(Run.f, Run.try).high + 1
      BY <1>3, <2>1 DEF Range, Try, Tries
    <2> QED BY <1>3, <2>1, <2>2, CatchClosed
  <1>5. Run.k # "seh"
    BY DEF EnterScope
  <1>6. IsStack(stack') /\ Len(stack') = Top /\ Kept(stack, stack', Top)
    <2>1. Unnoticed(stack, stack')
      BY <1>1, <1>2, <1>3, <1>4, <1>5, IpChange, Zenon DEF Run, Top, User
    <2> QED BY <2>1 DEF Unnoticed, Kept, Top
  <1>7. FramesInv'
    BY <1>1, <1>6, StillStep DEF EnterScope, runtime
  <1>8. csp = INVALID_STATE
    BY <1>1, ProgramParent
  <1>9. TypesInv' /\ ParentInv'
    BY <1>1, <1>8, ParentInvalid DEF EnterScope, runtime, TypesInv
  <1> QED BY <1>7, <1>9 DEF EhInv

LEMMA LeaveScopeStep ==
    ASSUME EhInv, LeaveScope
    PROVE  EhInv'
  <1>1. FramesInv /\ TypesInv /\ ParentInv /\ Run.k \in {"fn", "catch"}
    BY DEF EhInv, LeaveScope, RunIsUser, User
  <1>2. Own(Run) /\ Top \in 1 .. Len(stack) /\ IsStack(stack)
        /\ (\A p \in 1 .. Len(stack) : Own(stack[p]))
    BY <1>1, StackFacts
  <1> DEFINE s == UWE_TOSTATE(Run.f, Run.ip)
  <1>3. stack' = [stack EXCEPT ![Top].ip = s] /\ Run.ip # Base(Top)
    BY DEF LeaveScope
  <1>4. Run.f \in DOMAIN Prog /\ Run.ip \in DOMAIN Prog[Run.f].unwind
    <2>1. CASE Run.k = "fn"
      BY <1>2, <1>3, <2>1 DEF Own, OwnFn, Base, Run
    <2>2. CASE Run.k = "catch"
      BY <1>2, <2>2 DEF Own, OwnCatch
    <2> QED BY <1>1, <2>1, <2>2
  <1>5. s \in {EH_EMPTY_STATE} \cup DOMAIN Prog[Run.f].unwind
    BY <1>4, TablesAssumption DEF UnwindMapOK
  <1>6. Run.k = "catch" =>
            InCatch(Try(Run.f, Run.try), s) /\ s \in DOMAIN Prog[Run.f].unwind
    <2> HAVE Run.k = "catch"
    <2>1. Run.try \in DOMAIN Tries(Run.f) /\ InCatch(Try(Run.f, Run.try), Run.ip)
      BY <1>2 DEF Own, OwnCatch
    <2>2. Run.ip # Try(Run.f, Run.try).high + 1
      BY <1>3 DEF Base, Run
    <2>3. InCatch(Try(Run.f, Run.try), s)
      BY <1>4, <2>1, <2>2, CatchClosed
    <2> QED BY <1>4, <1>5, <2>1, <2>3, CatchState
  <1> HIDE DEF s
  <1>7. IsStack(stack') /\ Len(stack') = Top /\ Kept(stack, stack', Top)
    <2>1. Unnoticed(stack, stack')
      BY <1>1, <1>2, <1>3, <1>5, <1>6, IpChange, Zenon DEF Run, Top, User
    <2> QED BY <2>1 DEF Unnoticed, Kept, Top
  <1>8. FramesInv'
    BY <1>1, <1>7, StillStep DEF LeaveScope, runtime
  <1>9. csp = INVALID_STATE
    BY <1>1, ProgramParent DEF User
  <1>10. TypesInv' /\ ParentInv'
    BY <1>1, <1>9, ParentInvalid DEF LeaveScope, runtime, TypesInv
  <1> QED BY <1>8, <1>10 DEF EhInv

(* A function that is entered. *)
LEMMA EnteredFrame ==
    ASSUME NEW f \in DOMAIN Prog
    PROVE  /\ Own(Fn(f)) /\ Fn(f).k = "fn"
           /\ Own(Seh(f)) /\ Seh(f).k = "seh"
           /\ Enter(f) \in {Fn(f), Seh(f)}
  BY DEF Fn, Seh, Enter, Own, OwnFn, OwnSeh, OwnCatch, OwnCcb, OwnRaise, OwnUnw, Kinds,
         FnFields, SehFields

LEMMA CallStep ==
    ASSUME EhInv, Call
    PROVE  EhInv'
  <1>1. FramesInv /\ TypesInv /\ ParentInv /\ Run.k \in User
    BY DEF EhInv, Call, RunIsUser
  <1>2. Own(Run) /\ Top \in Nat /\ Top > 0 /\ Top = Len(stack) /\ IsStack(stack)
        /\ \A p \in 1 .. Top : Own(stack[p])
    BY <1>1, StackFacts
  <1>3. Run.f \in DOMAIN Prog
    BY <1>1, <1>2 DEF Own, OwnFn, OwnSeh, OwnCatch, User
  <1>4. PICK g \in Prog[Run.f].calls : stack' = Append(stack, Enter(g))
    BY DEF Call
  <1>5. g \in DOMAIN Prog
    BY <1>3, <1>4, TablesAssumption
  <1> DEFINE fr == Enter(g)
  <1>6. Own(fr) /\ fr.k \in {"fn", "seh"}
    BY <1>5, EnteredFrame
  <1> HIDE DEF fr
  <1>7. stack' = Append(stack, fr)
    BY <1>4 DEF fr
  <1>8. stack'[Top + 1] = fr /\ stack'[Top] = Run
    BY <1>2, <1>7, PushFrame DEF Run
  <1>9. Down(stack', Top + 1)
    BY <1>1, <1>2, <1>6, <1>8 DEF Down, DownFn, DownSeh, DownCatch, DownCcb, DownRaise, DownUnw
  <1>10. Kept(stack, stack, Top)
    BY <1>2, KeptItself
  <1>11. FramesInv'
    BY <1>1, <1>2, <1>6, <1>7, <1>9, <1>10, PushStep DEF Call, runtime
  <1>12. csp = INVALID_STATE
    BY <1>1, ProgramParent
  <1>13. TypesInv' /\ ParentInv'
    BY <1>1, <1>12, ParentInvalid DEF Call, runtime, ghost, TypesInv
  <1> QED BY <1>11, <1>13 DEF EhInv

LEMMA ReturnStep ==
    ASSUME EhInv, Return
    PROVE  EhInv'
  <1>1. FramesInv /\ TypesInv /\ ParentInv /\ Run.k \in {"fn", "seh"}
    BY DEF EhInv, Return, RunIsUser, User
  <1>2. Top \in Nat /\ Top > 1 /\ Top = Len(stack) /\ IsStack(stack)
        /\ \A p \in 1 .. Top : Own(stack[p])
    BY <1>1, StackFacts DEF Return
  <1>3. stack' = SubSeq(stack, 1, Top - 1)
    BY <1>2 DEF Return, Front
  <1>4. IsStack(stack') /\ Len(stack') = Top - 1 /\ \A p \in 1 .. Top - 1 : stack'[p] = stack[p]
    <2>1. Top - 1 \in 0 .. Len(stack)
      BY <1>2
    <2> QED BY <1>2, <1>3, <2>1, CutFrames
  <1>5. Kept(stack, stack', Top - 1)
    BY <1>2, <1>4, LikeItself DEF Kept
  <1>6. Extended(stack, stack', Top - 1)
    BY <1>2, <1>4, <1>5 DEF Extended
  <1>7. Quiet(stack, Top - 1) /\ Quiet(stack', Top - 1)
    BY <1>1, <1>2, <1>4 DEF Quiet, Run
  <1>8. FramesInv'
    BY <1>1, <1>2, <1>4, <1>6, <1>7, QuietStep DEF Return, runtime
  <1>9. csp = INVALID_STATE
    BY <1>1, ProgramParent DEF User
  <1>10. TypesInv' /\ ParentInv'
    BY <1>1, <1>9, ParentInvalid DEF Return, runtime, ghost, TypesInv
  <1> QED BY <1>8, <1>10 DEF EhInv

(* A dispatcher that starts, and where it has to. *)
LEMMA RaiseFrame ==
    ASSUME NEW rec \in Records, NEW at \in Nat, NEW want
    PROVE  /\ Own(Raise(rec, at, want)) /\ Raise(rec, at, want).k = "raise"
           /\ Raise(rec, at, want).at = at /\ Raise(rec, at, want).phase = "scan"
           /\ ~Raise(rec, at, want).again /\ Raise(rec, at, want).scope = 0
  BY DEF Raise, Own, OwnFn, OwnSeh, OwnCatch, OwnCcb, OwnRaise, OwnUnw, Kinds,
         RaiseFields, NoHit, Hits

LEMMA DownRaiseFrame ==
    ASSUME NEW st, NEW n \in Nat, n > 0,
           st[n].k \in User \/ (st[n].k = "ccb" /\ st[n].phase = "except"),
           NEW rec \in Records, NEW want, st[n + 1] = Raise(rec, n, want)
    PROVE  Down(st, n + 1)
  <1>1. st[n + 1].k = "raise" /\ st[n + 1].at = n /\ st[n + 1].phase = "scan" /\ ~st[n + 1].again
    BY DEF Raise
  <1>2. Respects(st, n + 1, n)
    BY DEF Respects
  <1> QED BY <1>1, <1>2 DEF Down, DownFn, DownSeh, DownCatch, DownCcb, DownRaise, DownUnw

(* The program raises an exception. *)
LEMMA RaisePushed ==
    ASSUME FramesInv, Run.k \in User, NEW rec \in Records, NEW want,
           stack' = Append(stack, Raise(rec, Top, want)), UNCHANGED <<chain, pt, halt, cur>>
    PROVE  FramesInv'
  <1>1. Top \in Nat /\ Top > 0 /\ Top = Len(stack) /\ IsStack(stack)
        /\ \A p \in 1 .. Top : Own(stack[p])
    BY StackFacts
  <1> DEFINE fr == Raise(rec, Top, want)
  <1>2. Own(fr) /\ fr.k = "raise"
    <2>1. Top \in Nat
      BY <1>1
    <2>2. Own(Raise(rec, Top, want)) /\ Raise(rec, Top, want).k = "raise"
      BY <2>1, RaiseFrame
    <2> QED BY <2>2
  <1>3. stack'[Top + 1] = fr /\ stack'[Top] = Run
    BY <1>1, PushFrame DEF Run
  <1>4. Down(stack', Top + 1)
    BY <1>1, <1>3, DownRaiseFrame, Zenon
  <1>5. Kept(stack, stack, Top)
    BY <1>1, KeptItself
  <1>6. stack' = Append(stack, fr)
    OBVIOUS
  <1> HIDE DEF fr
  <1> QED BY <1>1, <1>2, <1>4, <1>5, <1>6, PushStep

LEMMA ThrowStep ==
    ASSUME EhInv, Throw
    PROVE  EhInv'
  <1>1. FramesInv /\ TypesInv /\ ParentInv /\ Run.k \in User
    BY DEF EhInv, Throw, MayRaise, RunIsUser
  <1>2. PICK type \in DOMAIN Catchable : thrown' = Append(thrown, type)
    BY DEF Throw
  <1>3. raised \in 0 .. MaxRaises /\ raised < MaxRaises /\ raised' = raised + 1
        /\ thrown \in Seq(DOMAIN Catchable) /\ Len(thrown) <= raised
    BY <1>1 DEF Throw, MayRaise, TypesInv
  <1>4. Len(thrown') = Len(thrown) + 1 /\ thrown' \in Seq(DOMAIN Catchable)
    BY <1>2, <1>3
  <1>5. Len(thrown') \in Records /\ Len(thrown') <= raised' /\ raised' \in 0 .. MaxRaises
    BY <1>3, <1>4, EhAssumption DEF Records
  <1>6. UNCHANGED <<mode, halt, cur, chain, pt, csp, rethr, live, lost>>
    BY DEF Throw, runtime
  <1>7. FramesInv'
    <2>1. PICK want : stack' = Append(stack, Raise(Len(thrown'), Top, want))
      BY DEF Throw
    <2> QED BY <1>1, <1>5, <1>6, <2>1, RaisePushed
  <1>8. alive' \subseteq 1 .. Len(thrown')
    <2>1. alive \subseteq 1 .. Len(thrown) /\ alive' = alive \cup {Len(thrown')}
      BY <1>1 DEF TypesInv, Throw
    <2>2. Len(thrown) \in Nat
      BY <1>3
    <2>3. 1 .. Len(thrown) \subseteq 1 .. Len(thrown') /\ Len(thrown') \in 1 .. Len(thrown')
      BY <1>4, <2>2
    <2> QED BY <2>1, <2>3, Zenon
  <1>9. TypesInv'
    BY <1>1, <1>4, <1>5, <1>6, <1>8 DEF TypesInv
  <1>10. ParentInv'
    BY <1>1, <1>6, ProgramParent, ParentInvalid
  <1> QED BY <1>7, <1>9, <1>10 DEF EhInv

LEMMA RethrowStep ==
    ASSUME EhInv, Rethrow
    PROVE  EhInv'
  <1>1. FramesInv /\ TypesInv /\ ParentInv /\ Run.k \in User
    BY DEF EhInv, Rethrow, MayRaise, RunIsUser
  <1>2. UNCHANGED <<mode, halt, cur, chain, pt, csp, rethr, thrown, live, alive, lost>>
    BY DEF Rethrow, runtime, ghost
  <1>3. FramesInv'
    <2>1. PICK want : stack' = Append(stack, Raise(Rethrown, Top, want))
      BY DEF Rethrow
    <2>2. Rethrown \in Records
      BY DEF Records
    <2> QED BY <1>1, <1>2, <2>1, <2>2, RaisePushed
  <1>4. raised' \in 0 .. MaxRaises /\ Len(thrown) <= raised' /\ thrown \in Seq(DOMAIN Catchable)
    BY <1>1, EhAssumption DEF Rethrow, MayRaise, TypesInv
  <1>5. TypesInv'
    BY <1>1, <1>2, <1>4 DEF TypesInv
  <1>6. ParentInv'
    BY <1>1, <1>2, ProgramParent, ParentInvalid
  <1> QED BY <1>3, <1>5, <1>6 DEF EhInv

LEMMA FaultStep ==
    ASSUME EhInv, Fault
    PROVE  EhInv'
  <1>1. FramesInv /\ TypesInv /\ ParentInv /\ Run.k \in User
    BY DEF EhInv, Fault, MayRaise, RunIsUser
  <1>2. UNCHANGED <<mode, halt, cur, chain, pt, csp, rethr, thrown, live, alive, lost>>
    BY DEF Fault, runtime, ghost
  <1>3. FramesInv'
    <2>1. stack' = Append(stack, Raise(Foreign, Top, Unspecified))
      BY DEF Fault
    <2>2. Foreign \in Records
      BY DEF Records
    <2> QED BY <1>1, <1>2, <2>1, <2>2, RaisePushed
  <1>4. raised' \in 0 .. MaxRaises /\ Len(thrown) <= raised' /\ thrown \in Seq(DOMAIN Catchable)
    BY <1>1, EhAssumption DEF Fault, MayRaise, TypesInv
  <1>5. TypesInv'
    BY <1>1, <1>2, <1>4 DEF TypesInv
  <1>6. ParentInv'
    BY <1>1, <1>2, ProgramParent, ParentInvalid
  <1> QED BY <1>3, <1>5, <1>6 DEF EhInv

LEMMA ChainSame ==
    ASSUME NEW ch, NEW st, NEW st2, NEW n \in Nat, NEW m \in Nat, ChainFor(ch, st, n),
           HandlersIn(st, n) = HandlersIn(st, m), Kept(st, st2, m)
    PROVE  ChainFor(ch, st2, m)
  <1>1. HandlersIn(st, m) = HandlersIn(st2, m)
    BY HandlersKept
  <1>2. \A h \in HandlersIn(st, m) : st2[h].rec = st[h].rec
    BY DEF HandlersIn, Kept, Like
  <1> QED BY <1>1, <1>2, Zenon DEF ChainFor

(* Leaving the innermost handler takes the first element off the list. *)
LEMMA UnlinkedIsRest ==
    ASSUME NEW st, NEW n \in Nat, NEW p \in Nat, p > 0, ChainFor(chain, st, n),
           HandlersIn(st, n) = HandlersIn(st, p - 1) \cup {p}
    PROVE  /\ Len(chain) \in Nat /\ Len(chain) > 0 /\ chain[1].pos = p
           /\ Unlinked(p) \in Seq([pos : Nat, obj : Records])
           /\ Len(Unlinked(p)) = Len(chain) - 1
           /\ \A j \in 1 .. Len(chain) - 1 : Unlinked(p)[j] = chain[j + 1]
           /\ \A j \in 1 .. Len(chain) : chain[j].pos = p => j = 1
           /\ \A h \in HandlersIn(st, p - 1) : h \in Nat /\ h < p
  <1>1. chain \in Seq([pos : Nat, obj : Records]) /\ Len(chain) \in Nat /\ DOMAIN chain = 1 .. Len(chain)
    BY DEF ChainFor
  <1>2. \A h \in HandlersIn(st, p - 1) : h \in Nat /\ h < p
    BY DEF HandlersIn
  <1>3. \A i \in 1 .. Len(chain) : chain[i].pos \in Nat /\ chain[i].pos <= p
    <2> SUFFICES ASSUME NEW i \in 1 .. Len(chain) PROVE chain[i].pos \in Nat /\ chain[i].pos <= p
      OBVIOUS
    <2>1. chain[i].pos \in HandlersIn(st, p - 1) \cup {p}
      BY DEF ChainFor
    <2> QED BY <1>2, <2>1
  <1>4. PICK i \in 1 .. Len(chain) : chain[i].pos = p
    BY Zenon DEF ChainFor
  <1>5. i = 1
    <2> SUFFICES ASSUME i > 1 PROVE FALSE
      BY <1>4
    <2>1. 1 \in 1 .. Len(chain) /\ chain[1].pos > chain[i].pos
      BY <1>4 DEF ChainFor
    <2> QED BY <1>3, <1>4, <2>1
  <1>6. \A j \in 1 .. Len(chain) : chain[j].pos = p => j = 1
    <2> SUFFICES ASSUME NEW j \in 1 .. Len(chain), chain[j].pos = p, j > 1 PROVE FALSE
      OBVIOUS
    <2>1. chain[1].pos > chain[j].pos
      BY <1>4, <1>5 DEF ChainFor
    <2> QED BY <1>4, <1>5, <2>1
  <1> DEFINE at == {j \in DOMAIN chain : chain[j].pos = p}
             rest == SubSeq(chain, 2, Len(chain))
  <1>7. at = {1}
    BY <1>1, <1>4, <1>5, <1>6
  <1>8. Min(at) = 1
    <2>1. Min(at) \in at
      BY <1>7, MinIsLeast
    <2> QED BY <1>7, <2>1
  <1>9. Unlinked(p) = rest
    <2>1. Unlinked(p) = IF at = {} THEN chain ELSE SubSeq(chain, Min(at) + 1, Len(chain))
      BY Zenon DEF Unlinked
    <2> HIDE DEF at
    <2> QED BY <1>7, <1>8, <2>1
  <1>10. /\ rest \in Seq([pos : Nat, obj : Records]) /\ Len(rest) = Len(chain) - 1
         /\ \A j \in 1 .. Len(rest) : rest[j] = chain[j + 1]
    <2> DEFINE Elements == [pos : Nat, obj : Records]
    <2>1. Len(chain) \in Int /\ Len(chain) >= 1
      BY <1>1, <1>4
    <2> HIDE DEF Elements
    <2>2. chain \in Seq(Elements)
      BY <1>1 DEF Elements
    <2>3. 2 \in Int /\ \A j \in 2 .. Len(chain) : chain[j] \in Elements
      BY <2>2
    <2>4. /\ rest \in Seq(Elements)
          /\ Len(rest) = IF 2 <= Len(chain) THEN Len(chain) - 2 + 1 ELSE 0
          /\ \A j \in 1 .. Len(chain) - 2 + 1 : rest[j] = chain[2 + j - 1]
      BY <2>1, <2>3, SubSeqProperties
    <2> HIDE DEF rest
    <2>5. Len(rest) = Len(chain) - 1
      <3>1. CASE 2 <= Len(chain)
        BY <2>1, <2>4, <3>1
      <3>2. CASE ~(2 <= Len(chain))
        <4>1. Len(chain) = 1
          <5>1. \A k \in Int : k >= 1 /\ ~(2 <= k) => k = 1
            OBVIOUS
          <5> QED BY <2>1, <3>2, <5>1, Zenon
        <4>2. Len(rest) = 0
          BY <2>4, <3>2, Zenon
        <4> QED BY <4>1, <4>2
      <3> QED BY <3>1, <3>2
    <2>6. ASSUME NEW j \in 1 .. Len(rest) PROVE rest[j] = chain[j + 1]
      <3>1. j \in 1 .. Len(chain) - 2 + 1 /\ 2 + j - 1 = j + 1
        BY <2>1, <2>5
      <3> QED BY <2>4, <3>1
    <2> QED BY <2>4, <2>5, <2>6, Zenon DEF Elements
  <1> HIDE DEF rest
  <1> QED BY <1>1, <1>2, <1>4, <1>5, <1>6, <1>9, <1>10

LEMMA Unlink ==
    ASSUME NEW st, NEW n \in Nat, NEW p \in Nat, p > 0, ChainFor(chain, st, n),
           HandlersIn(st, n) = HandlersIn(st, p - 1) \cup {p}
    PROVE  ChainFor(Unlinked(p), st, p - 1)
  <1>1. PICK rest : rest = Unlinked(p)
    OBVIOUS
  <1>2. Len(chain) \in Nat /\ Len(chain) > 0 /\ chain[1].pos = p
        /\ \A j \in 1 .. Len(chain) : chain[j].pos = p => j = 1
    BY UnlinkedIsRest
  <1>3. /\ rest \in Seq([pos : Nat, obj : Records]) /\ Len(rest) = Len(chain) - 1
        /\ \A j \in 1 .. Len(rest) : rest[j] = chain[j + 1]
    BY <1>1, UnlinkedIsRest, Zenon
  <1>4. \A h \in HandlersIn(st, p - 1) : h \in Nat /\ h < p
    BY DEF HandlersIn
  <1>5. ASSUME NEW j \in 1 .. Len(rest)
         PROVE  rest[j].pos \in HandlersIn(st, p - 1) /\ rest[j].obj = st[rest[j].pos].rec
    <2>1. j + 1 \in 1 .. Len(chain) /\ rest[j] = chain[j + 1] /\ j + 1 # 1
      BY <1>2, <1>3
    <2>2. chain[j + 1].pos # p
      BY <1>2, <2>1
    <2> QED BY <2>1, <2>2, Zenon DEF ChainFor
  <1>6. ASSUME NEW h \in HandlersIn(st, p - 1)
         PROVE  \E j \in 1 .. Len(rest) : rest[j].pos = h
    <2>1. PICK j \in 1 .. Len(chain) : chain[j].pos = h
      BY DEF ChainFor
    <2>2. j # 1
      BY <1>2, <1>4, <2>1
    <2>3. j - 1 \in 1 .. Len(rest) /\ rest[j - 1] = chain[j]
      BY <1>2, <1>3, <2>2
    <2> QED BY <2>1, <2>3
  <1>7. ASSUME NEW j \in 1 .. Len(rest), NEW k \in 1 .. Len(rest), j < k
         PROVE  rest[j].pos > rest[k].pos
    <2>1. /\ j + 1 \in 1 .. Len(chain) /\ rest[j] = chain[j + 1] /\ j + 1 < k + 1
          /\ k + 1 \in 1 .. Len(chain) /\ rest[k] = chain[k + 1]
      <3>1. Len(chain) \in Nat /\ Len(rest) = Len(chain) - 1 /\ j < k
        BY <1>2, <1>3, <1>7
      <3>2. j + 1 \in 1 .. Len(chain) /\ k + 1 \in 1 .. Len(chain) /\ j + 1 < k + 1
        BY <3>1
      <3> QED BY <1>3, <3>2, Zenon
    <2> QED BY <2>1 DEF ChainFor
  <1> QED BY <1>1, <1>3, <1>5, <1>6, <1>7, Zenon DEF ChainFor

LEMMA FramesBack ==
    ASSUME FramesInv, NEW n, Extended(stack, stack', n), Len(stack') = n,
           ChainFor(chain', stack', n), CountOK(pt', stack'), IsCurrent(stack', n, cur')
    PROVE  FramesInv'
  <1>1. StackOK(stack')
    BY StackStep DEF FramesInv
  <1> QED BY <1>1 DEF FramesInv, ChainOK, CurrentOK

(* A funclet, the frame that called it, and the one whose exception it handles. *)
LEMMA CatchFacts ==
    ASSUME FramesInv, NEW p \in 1 .. Top, stack[p].k = "catch"
    PROVE  /\ p > 2 /\ stack[p].f \in DOMAIN Prog /\ stack[p].try \in DOMAIN Tries(stack[p].f)
           /\ stack[p - 1].k = "ccb" /\ stack[p - 2].k \in {"fn", "catch"}
           /\ stack[p - 2].f = stack[p].f
           /\ stack[p - 2].k = "catch" =>
                  /\ InCatch(Try(stack[p].f, stack[p - 2].try), Outside(stack[p].f, stack[p].try))
                  /\ stack[p - 2].try \in DOMAIN Tries(stack[p].f)
           /\ stack[p].est \in 1 .. p - 2 /\ stack[stack[p].est].k = "fn"
  <1>1. Own(stack[p]) /\ Down(stack, p) /\ Top \in Nat
    BY StackFacts
  <1>2. DownCatch(stack, p) /\ OwnCatch(stack[p])
    BY <1>1 DEF Down, Own
  <1>3. p > 2 /\ p - 1 \in 1 .. Top /\ p - 2 \in 1 .. Top /\ p - 1 - 1 = p - 2
    BY <1>1, <1>2 DEF DownCatch
  <1>4. Down(stack, p - 1) /\ Own(stack[p - 2])
    BY <1>3, StackFacts
  <1>5. Accepts(stack, p - 2, stack[p - 1].try)
    BY <1>2, <1>3, <1>4 DEF Down, DownCcb, DownCatch
  <1>6. stack[p - 2].k = "catch" =>
            /\ InCatch(Try(stack[p].f, stack[p - 2].try), Outside(stack[p].f, stack[p].try))
            /\ stack[p - 2].try \in DOMAIN Tries(stack[p].f)
    BY <1>2, <1>4, <1>5 DEF Accepts, DownCatch, Own, OwnCatch
  <1> QED BY <1>2, <1>3, <1>6 DEF DownCatch, OwnCatch

LEMMA CatchDoneStep ==
    ASSUME EhInv, CatchDone
    PROVE  EhInv'
  <1>1. FramesInv /\ TypesInv /\ ParentInv /\ Run.k = "catch" /\ Running
    BY DEF EhInv, CatchDone, RunIsUser
  <1>2. Top \in Nat /\ Top > 0 /\ Top = Len(stack) /\ IsStack(stack)
        /\ \A p \in 1 .. Top : Own(stack[p])
    BY <1>1, StackFacts
  <1>3. /\ Top > 2 /\ Run.f \in DOMAIN Prog /\ Run.try \in DOMAIN Tries(Run.f)
        /\ stack[Top - 1].k = "ccb" /\ stack[Top - 2].k \in {"fn", "catch"}
        /\ stack[Top - 2].f = Run.f
        /\ stack[Top - 2].k = "catch" =>
               /\ InCatch(Try(Run.f, stack[Top - 2].try), Outside(Run.f, Run.try))
               /\ stack[Top - 2].try \in DOMAIN Tries(Run.f)
        /\ Run.est \in 1 .. Top - 2 /\ stack[Run.est].k = "fn"
    <2>1. Top \in 1 .. Top /\ stack[Top].k = "catch"
      BY <1>1, <1>2 DEF Run
    <2> QED BY <1>1, <2>1, CatchFacts DEF Run
  <1> DEFINE n == Top - 2
  <1>4. n \in 1 .. Top /\ n \in 0 .. Len(stack) /\ n \in Nat /\ n > 0
    BY <1>2, <1>3
  <1>5. PICK cut : cut = SubSeq(stack, 1, n)
    BY Zenon
  <1>6. IsStack(cut) /\ Len(cut) = n /\ \A p \in 1 .. n : cut[p] = stack[p]
    BY <1>2, <1>4, <1>5, CutFrames
  <1>7. Kept(stack, cut, n) /\ \A p \in 1 .. Len(cut) : Own(cut[p])
    BY <1>2, <1>4, <1>6, LikeItself DEF Kept
  <1>8. PICK s : IsStack(s) /\ Len(s) = n /\ Kept(cut, s, n)
                 /\ stack' = IF mode.fh = 3
                             THEN [s EXCEPT ![Run.est].us = INVALID_STATE, ![Run.est].ut = -1]
                             ELSE s
    <2>1. PICK o : o = Outside(Run.f, Run.try)
      OBVIOUS
    <2>2. PICK m : m = n
      OBVIOUS
    <2>3. PICK s : s = [cut EXCEPT ![m].ip = o]
      BY Zenon
    <2>4. m \in 1 .. Len(cut) /\ cut[m].k \in {"fn", "catch"} /\ cut[m].f = Run.f
      BY <1>3, <1>4, <1>6, <2>2
    <2>5. o \in {EH_EMPTY_STATE} \cup DOMAIN Prog[Run.f].unwind
      BY <1>3, <2>1, OutsideIsState
    <2>6. cut[m].k = "catch" => /\ InCatch(Try(Run.f, cut[m].try), o)
                                /\ o \in DOMAIN Prog[Run.f].unwind
      BY <1>3, <1>4, <1>6, <2>1, <2>2, <2>5, CatchState
    <2>7. Unnoticed(cut, s)
      BY <1>6, <1>7, <2>3, <2>4, <2>5, <2>6, IpChange, Zenon DEF User
    <2>8. stack' = IF mode.fh = 3
                   THEN [s EXCEPT ![Run.est].us = INVALID_STATE, ![Run.est].ut = -1] ELSE s
      BY <1>5, <2>1, <2>2, <2>3, Zenon DEF CatchDone
    <2> QED BY <1>6, <2>7, <2>8, Zenon DEF Unnoticed, Kept
  <1>9. IsStack(stack') /\ Len(stack') = n /\ Kept(s, stack', n)
    <2>1. CASE mode.fh = 3
      <3>1. Run.est \in 1 .. Len(s) /\ s[Run.est].k = "fn" /\ \A p \in 1 .. Len(s) : Own(s[p])
        BY <1>3, <1>6, <1>8 DEF Kept, Like
      <3>2. PICK e, x, y : e = Run.est /\ x = INVALID_STATE /\ y = -1
        OBVIOUS
      <3>3. PICK t : t = stack'
        OBVIOUS
      <3>4. t = [s EXCEPT ![e].us = x, ![e].ut = y]
        BY <1>8, <2>1, <3>2, <3>3
      <3>5. PICK fr : fr = [s[e] EXCEPT !.us = x, !.ut = y]
        OBVIOUS
      <3>6. t = [s EXCEPT ![e] = fr]
        <4>1. e \in DOMAIN s /\ DOMAIN s[e] = FnFields
          BY <1>8, <3>1, <3>2, StackDomain DEF Own, OwnFn
        <4> QED BY <3>4, <3>5, <4>1, Zenon DEF FnFields
      <3>7. Unnoticed(s, t)
        BY <1>8, <3>1, <3>2, <3>5, <3>6, HelpChange, Zenon
      <3> QED BY <1>8, <3>3, <3>7 DEF Unnoticed, Kept
    <2>2. CASE mode.fh # 3
      <3>1. stack' = s
        BY <1>8, <2>2
      <3> QED BY <1>4, <1>8, <3>1, KeptItself, Zenon DEF Kept
    <2> QED BY <2>1, <2>2
  <1>10. Kept(stack, stack', n)
    BY <1>4, <1>7, <1>8, <1>9, KeptTwice
  <1>11. Extended(stack, stack', n)
    BY <1>2, <1>4, <1>9, <1>10 DEF Extended
  <1>12. /\ HandlersIn(stack, Top) = HandlersIn(stack, n) \cup {Top - 1}
         /\ UnwindingIn(stack, Top) = UnwindingIn(stack, n)
    <2>1. /\ HandlersIn(stack, Top) = HandlersIn(stack, Top - 1)
          /\ UnwindingIn(stack, Top) = UnwindingIn(stack, Top - 1)
      <3>1. stack[Top].k # "unw" /\ stack[Top].k # "ccb"
        BY <1>1 DEF Run
      <3> QED BY <1>2, <3>1, HandlersBelow
    <2>2. /\ HandlersIn(stack, Top - 1) = HandlersIn(stack, n) \cup {Top - 1}
          /\ UnwindingIn(stack, Top - 1) = UnwindingIn(stack, n)
      <3>1. stack[Top - 1].k # "unw" /\ stack[Top - 1].k = "ccb" /\ Top - 1 \in Nat /\ Top - 1 > 0
            /\ Top - 1 - 1 = n
        BY <1>2, <1>3
      <3> QED BY <3>1, HandlersBelow
    <2> QED BY <2>1, <2>2
  <1>13. LeaveCatchBlock(Top - 1) /\ pt' = pt
    BY DEF CatchDone
  <1>14. ChainFor(chain', stack', n)
    <2>1. ChainFor(chain, stack, Top)
      BY <1>1, <1>2 DEF FramesInv, ChainOK
    <2>2. Top - 1 \in Nat /\ Top - 1 > 0 /\ Top - 1 - 1 = n
      BY <1>2, <1>3
    <2>3. ChainFor(Unlinked(Top - 1), stack, n)
      BY <1>2, <1>12, <2>1, <2>2, Unlink
    <2>4. chain' = Unlinked(Top - 1)
      BY <1>13 DEF LeaveCatchBlock
    <2> QED BY <1>4, <1>10, <2>3, <2>4, ChainSame
  <1>15. CountOK(pt', stack')
    BY <1>1, <1>2, <1>4, <1>9, <1>10, <1>12, <1>13, HandlersKept DEF CountOK, FramesInv
  <1>16. IsCurrent(stack', n, cur')
    <2>1. Top - 1 \in 1 .. Len(stack) /\ Top - 1 - 1 = n
      BY <1>2, <1>3
    <2>2. IsCurrent(stack, n, stack[Top - 1].saved)
      BY <1>1, <1>3, <2>1 DEF FramesInv, StackOK, SavedRight
    <2>3. cur' = stack[Top - 1].saved
      BY <1>13 DEF LeaveCatchBlock
    <2> QED BY <1>4, <1>10, <2>2, <2>3, CurrentKept
  <1>17. FramesInv'
    BY <1>1, <1>9, <1>11, <1>14, <1>15, <1>16, FramesBack
  <1>18. csp = INVALID_STATE
    BY <1>1, ProgramParent DEF User
  <1>19. csp' = INVALID_STATE /\ UNCHANGED <<mode, halt, rethr, thrown, raised, lost>>
    BY <1>18 DEF CatchDone, Invalidated
  <1>20. cur' \in Records /\ alive' \subseteq alive
    <2>1. Top - 1 \in 1 .. Top
      BY <1>2, <1>3
    <2>2. Own(stack[Top - 1])
      BY <1>2, <2>1
    <2>3. stack[Top - 1].saved \in Records
      BY <1>3, <2>2 DEF Own, OwnCcb
    <2> QED BY <1>13, <2>3 DEF LeaveCatchBlock
  <1>21. TypesInv'
    <2>1. alive' \subseteq 1 .. Len(thrown')
      BY <1>1, <1>19, <1>20 DEF TypesInv
    <2>2. csp' \in Int
      BY <1>19 DEF INVALID_STATE
    <2> QED BY <1>1, <1>13, <1>19, <1>20, <2>1, <2>2 DEF TypesInv
  <1> QED BY <1>17, <1>19, <1>21, ParentInvalid DEF EhInv

-----------------------------------------------------------------------------
(* The search *)

LEMMA NextFrameOf ==
    ASSUME NEW r, Own(r), r.k = "raise", r.at > 0
    PROVE  /\ Own(NextFrame(r)) /\ NextFrame(r).k = "raise" /\ NextFrame(r).phase = r.phase
           /\ NextFrame(r).hit = r.hit /\ ~NextFrame(r).again /\ NextFrame(r).scope = 0
           /\ r.again => NextFrame(r).at = r.at
           /\ ~r.again => NextFrame(r).at = r.at - 1
  <1>1. /\ DOMAIN r = RaiseFields /\ r.rec \in Records /\ r.at \in Nat /\ r.again \in BOOLEAN
        /\ r.phase \in {"scan", "build", "filter"} /\ r.hit \in Hits /\ (~r.again => r.scope = 0)
    BY DEF Own, OwnRaise
  <1>2. PICK s : s = NextFrame(r)
    OBVIOUS
  <1>3. /\ DOMAIN s = RaiseFields /\ s.k = "raise" /\ s.rec = r.rec /\ s.phase = r.phase /\ s.hit = r.hit
        /\ s.again \in BOOLEAN /\ ~s.again /\ s.scope = 0 /\ (r.again => s.at = r.at) /\ (~r.again => s.at = r.at - 1)
    <2>1. CASE r.again
      <3>1. s = [r EXCEPT !.again = FALSE, !.scope = 0]
        BY <1>2, <2>1 DEF NextFrame
      <3> QED BY <1>1, <2>1, <3>1 DEF RaiseFields
    <2>2. CASE ~r.again
      <3>1. s = [r EXCEPT !.at = r.at - 1]
        BY <1>2, <2>2 DEF NextFrame
      <3> QED BY <1>1, <2>2, <3>1 DEF RaiseFields
    <2> QED BY <2>1, <2>2
  <1>4. s.at \in Nat
    BY <1>1, <1>3
  <1>5. Own(s)
    BY <1>1, <1>3, <1>4 DEF Own, OwnFn, OwnSeh, OwnCatch, OwnCcb, OwnRaise, OwnUnw, Kinds
  <1> QED BY <1>2, <1>3, <1>5

(* An unwind that starts. *)
LEMMA UnwindFrame ==
    ASSUME NEW rec \in Records, NEW at \in Nat, NEW target \in Nat, NEW hit \in Hits, NEW want
    PROVE  Own(Unw(rec, at, target, hit, want))
  BY DEF Unw, Own, OwnFn, OwnSeh, OwnCatch, OwnCcb, OwnRaise, OwnUnw, Kinds, UnwFields

LEMMA DownUnwindFrame ==
    ASSUME NEW st, NEW n \in Nat, st[n].k = "raise", st[n].phase = "scan",
           NEW target \in 1 .. n - 1, Respects(st, n, target), NEW rec, NEW hit, NEW want,
           st[n + 1] = Unw(rec, n, target, hit, want),
           \/ hit # NoHit /\ Accepts(st, target, hit.try)
           \/ hit = NoHit /\ st[target].k \in {"seh", "ccb", "raise"}
    PROVE  Down(st, n + 1)
  <1>1. /\ st[n + 1].k = "unw" /\ st[n + 1].at = n /\ st[n + 1].target = target
        /\ st[n + 1].hit = hit /\ st[n + 1].phase = "scan"
    BY DEF Unw
  <1>2. Respects(st, n + 1, n)
    BY DEF Respects
  <1>3. Respects(st, n + 1, target)
    BY DEF Respects
  <1>4. Lands(st, st[n + 1])
    BY <1>1 DEF Lands
  <1> QED BY <1>1, <1>2, <1>3, <1>4 DEF Down, DownFn, DownSeh, DownCatch, DownCcb, DownRaise, DownUnw

(* Where a dispatcher goes next, no unwind below it is jumped over. *)
LEMMA RespectsNext ==
    ASSUME NEW st, NEW p \in Nat, NEW x \in Nat, x > 0, st[x].k # "unw", Respects(st, p, x),
           \A q \in 1 .. p - 1 : Own(st[q])
    PROVE  Respects(st, p, x - 1)
  <1> SUFFICES ASSUME NEW q \in 1 .. p - 1, st[q].k = "unw", x - 1 < q PROVE x - 1 <= st[q].at
    BY DEF Respects
  <1>1. q > x /\ st[q].at \in Nat
    BY DEF Own, OwnUnw
  <1>2. x <= st[q].at
    BY <1>1 DEF Respects
  <1> QED BY <1>1, <1>2

LEMMA RespectsOver ==
    ASSUME NEW st, NEW p \in Nat, NEW x \in 1 .. p - 1, st[x].k = "unw", Respects(st, p, x),
           Down(st, x), \A q \in 1 .. p - 1 : Own(st[q])
    PROVE  Respects(st, p, st[x].at)
  <1>1. st[x].at \in Nat /\ st[x].at < x /\ Respects(st, x, st[x].at)
    BY DEF Own, OwnUnw, Down, DownUnw
  <1> SUFFICES ASSUME NEW q \in 1 .. p - 1, st[q].k = "unw", st[x].at < q PROVE st[x].at <= st[q].at
    BY DEF Respects
  <1>2. CASE q < x
    BY <1>1, <1>2 DEF Respects
  <1>3. CASE q >= x
    BY <1>1, <1>3 DEF Respects, Own, OwnUnw
  <1> QED BY <1>1, <1>2, <1>3

(* A dispatcher that has moved stays well placed. *)
LEMMA DownRaiseMoved ==
    ASSUME NEW st, NEW st2, NEW n \in Nat, n > 1, Kept(st, st2, n - 1), Down(st, n), st[n].k = "raise",
           st2[n].k = "raise", st2[n].at \in 0 .. n - 1, Respects(st, n, st2[n].at),
           st2[n].phase = "build" =>
               st2[n].at > 0 /\ st2[n].hit # NoHit /\ Accepts(st, st2[n].at, st2[n].hit.try),
           st2[n].phase = "filter" => st2[n].at > 0 /\ st[st2[n].at].k = "seh",
           st2[n].again => st2[n].at > 0 /\ st[st2[n].at].k \in {"fn", "catch"}
    PROVE  Down(st2, n)
  <1>1. st2[n - 1].k \in User \/ (st2[n - 1].k = "ccb" /\ st2[n - 1].phase = "except")
    <2>1. st[n - 1].k \in User \/ (st[n - 1].k = "ccb" /\ st[n - 1].phase = "except")
      BY DEF Down, DownRaise
    <2>2. Like(st[n - 1], st2[n - 1])
      BY DEF Kept
    <2> QED BY <2>1, <2>2 DEF Like
  <1> DEFINE x == st2[n].at
             i == st2[n].hit.try
  <1>2. Respects(st2, n, x)
    BY RespectsKept
  <1>3. x > 0 => st2[x].k = st[x].k /\ (Accepts(st, x, i) <=> Accepts(st2, x, i))
    <2> HAVE x > 0
    <2>1. x \in 1 .. n - 1 /\ n - 1 \in Nat
      OBVIOUS
    <2>2. Like(st[x], st2[x])
      BY <2>1 DEF Kept
    <2> HIDE DEF x, i
    <2>3. Accepts(st, x, i) <=> Accepts(st2, x, i)
      BY <2>1, AcceptsKept
    <2> QED BY <2>2, <2>3 DEF Like
  <1>4. DownRaise(st2, n)
    BY <1>1, <1>2, <1>3 DEF DownRaise
  <1> QED BY <1>4 DEF Down, DownFn, DownSeh, DownCatch, DownCcb, DownUnw

(* What is known of the dispatcher at the top. *)
LEMMA RaiseFacts ==
    ASSUME FramesInv, Run.k = "raise"
    PROVE  /\ Top > 1 /\ OwnRaise(Run) /\ DownRaise(stack, Top) /\ Run.rec \in Records
           /\ Run.at \in 0 .. Top - 1 /\ Respects(stack, Top, Run.at)
           /\ Run.again \in BOOLEAN /\ Run.hit \in Hits /\ (~Run.again => Run.scope = 0)
           /\ Run.again => Run.at > 0 /\ stack[Run.at].k \in {"fn", "catch"}
  <1>1. Own(Run) /\ Down(stack, Top) /\ Top \in Nat
    BY StackFacts
  <1>2. OwnRaise(Run) /\ DownRaise(stack, Top)
    BY <1>1 DEF Own, Down
  <1> QED BY <1>1, <1>2 DEF OwnRaise, DownRaise, Run

(* The dispatcher turns to the next frame. *)
LEMMA MoveOn ==
    ASSUME FramesInv, Run.k = "raise", Run.at > 0, stack[Run.at].k # "unw",
           Run.phase = "scan",
           NEW s, IsStack(s), Len(s) = Top, Kept(stack, s, Top - 1),
           NEW r, r = NextFrame(Run), stack' = [s EXCEPT ![Top] = r],
           chain' = chain, pt' = pt, halt' = "no" => halt = "no" /\ cur' = cur
    PROVE  FramesInv' /\ Top' = Top /\ Run' = r
  <1>1. Top \in Nat /\ Top > 1 /\ Own(Run) /\ Down(stack, Top) /\ \A p \in 1 .. Top : Own(stack[p])
    BY StackFacts, RaiseFacts
  <1>2. Run.at \in 1 .. Top - 1 /\ Respects(stack, Top, Run.at)
        /\ (Run.again => stack[Run.at].k \in {"fn", "catch"}) /\ Run.again \in BOOLEAN
    BY RaiseFacts
  <1>3. /\ Own(r) /\ r.k = "raise" /\ r.phase = "scan" /\ ~r.again
        /\ Run.again => r.at = Run.at
        /\ ~Run.again => r.at = Run.at - 1
    BY <1>1, NextFrameOf
  <1>4. r.at \in 0 .. Top - 1 /\ Respects(stack, Top, r.at)
    <2>1. CASE Run.again
      BY <1>2, <1>3, <2>1
    <2>2. CASE ~Run.again
      <3>1. Respects(stack, Top, Run.at - 1)
        BY <1>1, <1>2, RespectsNext
      <3> QED BY <1>2, <1>3, <2>2, <3>1
    <2> QED BY <2>1, <2>2
  <1>5. /\ IsStack(stack') /\ Len(stack') = Top /\ stack'[Top] = r
        /\ \A p \in 1 .. Top - 1 : stack'[p] = s[p]
    <2>1. Top \in 1 .. Len(s)
      BY <1>1
    <2>2. Changed(s, [s EXCEPT ![Top] = r], Top, r)
      BY <2>1, ChangeFrameTo, Zenon
    <2>3. Changed(s, stack', Top, r)
      BY <2>2
    <2> QED BY <1>1, <2>3 DEF Changed
  <1>6. Kept(stack, stack', Top - 1)
    BY <1>5 DEF Kept
  <1>7. Down(stack', Top)
    <2>1. stack[Top].k = "raise" /\ stack'[Top].k = "raise" /\ stack'[Top].phase = "scan"
      BY <1>3, <1>5 DEF Run
    <2>2. stack'[Top].at \in 0 .. Top - 1 /\ Respects(stack, Top, stack'[Top].at) /\ ~stack'[Top].again
      BY <1>3, <1>4, <1>5
    <2> QED BY <1>1, <1>6, <2>1, <2>2, DownRaiseMoved, Zenon
  <1>8. FramesInv'
    BY <1>1, <1>3, <1>5, <1>6, <1>7, RaiseStep
  <1>9. Top' = Top /\ Run' = r
    BY <1>5 DEF Top, Run
  <1> QED BY <1>8, <1>9

(* The dispatcher has found a frame to unwind to. *)
LEMMA UnwindStarts ==
    ASSUME FramesInv, Run.k = "raise", Run.at > 0,
           NEW s, IsStack(s), Len(s) = Top, Kept(stack, s, Top - 1), NEW r, s[Top] = r, Own(r),
           r.k = "raise", r.phase = "scan", r.at = Run.at, r.again = Run.again,
           NEW rec \in Records, NEW hit \in Hits, NEW want,
           stack' = Append(s, Unw(rec, Top, Run.at, hit, want)),
           \/ hit # NoHit /\ Accepts(stack, Run.at, hit.try)
           \/ hit = NoHit /\ stack[Run.at].k \in {"seh", "ccb", "raise"},
           chain' = chain, pt' = pt, halt' = halt, cur' = cur
    PROVE  FramesInv' /\ Top' = Top + 1 /\ Run'.k = "unw" /\ Run'.phase = "scan"
  <1>1. Top \in Nat /\ Top > 1 /\ Down(stack, Top)
    BY StackFacts, RaiseFacts
  <1>2. Run.at \in 1 .. Top - 1 /\ Respects(stack, Top, Run.at)
        /\ (Run.again => stack[Run.at].k \in {"fn", "catch"})
    BY RaiseFacts
  <1>3. PICK u : u = Unw(rec, Top, Run.at, hit, want)
    OBVIOUS
  <1>4. Own(u) /\ u.k = "unw" /\ u.at = Top /\ u.phase = "scan"
    <2>1. u.k = "unw" /\ u.at = Top /\ u.phase = "scan"
      BY <1>3 DEF Unw
    <2>2. Top \in Nat /\ Run.at \in Nat
      BY <1>1, <1>2
    <2> QED BY <1>3, <2>1, <2>2, UnwindFrame
  <1>5. /\ IsStack(stack') /\ Len(stack') = Top + 1 /\ stack'[Top + 1] = u
        /\ \A p \in 1 .. Top : stack'[p] = s[p]
    <2>1. stack' = Append(s, u)
      BY <1>3
    <2> QED BY <2>1, PushFrame
  <1>6. Kept(stack, stack', Top - 1) /\ stack'[Top] = r
    BY <1>1, <1>5 DEF Kept
  <1>7. Down(stack', Top)
    <2>1. stack[Top].k = "raise" /\ stack'[Top].k = "raise" /\ stack'[Top].phase = "scan"
      BY <1>6 DEF Run
    <2>2. stack'[Top].at \in 0 .. Top - 1 /\ Respects(stack, Top, stack'[Top].at)
      BY <1>2, <1>6
    <2>3. stack'[Top].again => stack'[Top].at > 0 /\ stack[stack'[Top].at].k \in {"fn", "catch"}
      BY <1>2, <1>6
    <2> QED BY <1>1, <1>6, <2>1, <2>2, <2>3, DownRaiseMoved, Zenon
  <1>8. Down(stack', Top + 1)
    <2>1. Respects(stack', Top, Run.at)
      <3>1. Top - 1 \in Nat /\ Top \in 1 .. Top - 1 + 1
        BY <1>1
      <3> QED BY <1>2, <1>6, <3>1, RespectsKept
    <2>2. PICK x : x = Run.at
      OBVIOUS
    <2>3. x \in 1 .. Top - 1 /\ Top - 1 \in Nat
      BY <1>1, <1>2, <2>2
    <2>4. PICK i : i = hit.try
      OBVIOUS
    <2>5. Accepts(stack, x, i) <=> Accepts(stack', x, i)
      BY <1>6, <2>3, AcceptsKept
    <2>6. stack'[x].k = stack[x].k
      BY <1>6, <2>3 DEF Kept, Like
    <2>7. \/ hit # NoHit /\ Accepts(stack', x, hit.try)
          \/ hit = NoHit /\ stack'[x].k \in {"seh", "ccb", "raise"}
      BY <2>2, <2>4, <2>5, <2>6
    <2>8. stack'[Top + 1] = Unw(rec, Top, x, hit, want)
      BY <1>3, <1>5, <2>2
    <2> QED BY <1>1, <1>6, <2>1, <2>2, <2>3, <2>7, <2>8, DownUnwindFrame, Zenon
  <1>9. FramesInv'
    BY <1>1, <1>4, <1>5, <1>6, <1>7, <1>8, RaiseStep
  <1>10. Top' = Top + 1 /\ Run' = u
    BY <1>5 DEF Top, Run
  <1> QED BY <1>4, <1>9, <1>10

(* The dispatcher calls code of the program: a filter, or a copy constructor. *)
LEMMA AuxStarts ==
    ASSUME FramesInv, Run.k = "raise", Run.at > 0,
           NEW s, IsStack(s), Len(s) = Top, Kept(stack, s, Top - 1), NEW r, s[Top] = r, Own(r),
           r.k = "raise", r.phase \in {"build", "filter"}, r.at = Run.at, r.again = Run.again,
           r.phase = "build" => r.hit # NoHit /\ Accepts(stack, Run.at, r.hit.try),
           r.phase = "filter" => stack[Run.at].k = "seh",
           stack' = Append(s, Fn("aux")),
           chain' = chain, pt' = pt, halt' = halt, cur' = cur
    PROVE  FramesInv'
  <1>1. Top \in Nat /\ Top > 1 /\ Down(stack, Top)
    BY StackFacts, RaiseFacts
  <1>2. Run.at \in 1 .. Top - 1 /\ Respects(stack, Top, Run.at)
        /\ (Run.again => stack[Run.at].k \in {"fn", "catch"})
    BY RaiseFacts
  <1>3. PICK u : u = Fn("aux")
    OBVIOUS
  <1>4. Own(u) /\ u.k = "fn"
    BY <1>3, EnteredFrame, EhAssumption
  <1>5. /\ IsStack(stack') /\ Len(stack') = Top + 1 /\ stack'[Top + 1] = u
        /\ \A p \in 1 .. Top : stack'[p] = s[p]
    <2>1. stack' = Append(s, u)
      BY <1>3
    <2> QED BY <2>1, PushFrame
  <1>6. Kept(stack, stack', Top - 1) /\ stack'[Top] = r
    BY <1>1, <1>5 DEF Kept
  <1>7. Down(stack', Top)
    <2>1. stack[Top].k = "raise" /\ stack'[Top].k = "raise"
      BY <1>6, Zenon DEF Run
    <2>2. stack'[Top].at \in 0 .. Top - 1 /\ Respects(stack, Top, stack'[Top].at)
      BY <1>2, <1>6
    <2>3. stack'[Top].again => stack'[Top].at > 0 /\ stack[stack'[Top].at].k \in {"fn", "catch"}
      BY <1>2, <1>6
    <2>4. stack'[Top].phase = "build" =>
              /\ stack'[Top].at > 0 /\ stack'[Top].hit # NoHit
              /\ Accepts(stack, stack'[Top].at, stack'[Top].hit.try)
      BY <1>2, <1>6
    <2>5. stack'[Top].phase = "filter" => stack'[Top].at > 0 /\ stack[stack'[Top].at].k = "seh"
      BY <1>2, <1>6
    <2> QED BY <1>1, <1>6, <2>1, <2>2, <2>3, <2>4, <2>5, DownRaiseMoved, Zenon
  <1>8. Down(stack', Top + 1)
    BY <1>1, <1>4, <1>5, <1>6 DEF Down, DownFn, DownSeh, DownCatch, DownCcb, DownRaise, DownUnw
  <1> QED BY <1>1, <1>4, <1>5, <1>6, <1>7, <1>8, RaiseStep

(* The dispatcher's frame in another phase. *)
Rephased(fr, ph) == [fr EXCEPT !.phase = ph]

LEMMA PhaseChange ==
    ASSUME NEW fr, fr.k = "raise", Own(fr), NEW ph \in {"scan", "build", "filter"}
    PROVE  /\ Own(Rephased(fr, ph)) /\ Rephased(fr, ph).k = "raise"
           /\ Rephased(fr, ph).phase = ph /\ Rephased(fr, ph).at = fr.at
           /\ Rephased(fr, ph).again = fr.again /\ Rephased(fr, ph).hit = fr.hit
  <1>1. DOMAIN fr = RaiseFields /\ OwnRaise(fr)
    BY DEF Own, OwnRaise
  <1>2. PICK r : r = Rephased(fr, ph)
    OBVIOUS
  <1>3. /\ DOMAIN r = RaiseFields /\ r.k = "raise" /\ r.phase = ph /\ r.at = fr.at
        /\ r.again = fr.again /\ r.hit = fr.hit /\ r.rec = fr.rec /\ r.scope = fr.scope
    BY <1>1, <1>2 DEF RaiseFields, Rephased
  <1>4. /\ r.rec \in Records /\ r.at \in Nat /\ r.again \in BOOLEAN /\ r.hit \in Hits
        /\ (~r.again => r.scope = 0)
    BY <1>1, <1>3 DEF OwnRaise
  <1>5. Own(r)
    BY <1>3, <1>4 DEF Own, OwnFn, OwnSeh, OwnCatch, OwnCcb, OwnRaise, OwnUnw, Kinds
  <1> QED BY <1>2, <1>3, <1>5

LEMMA TopChange ==
    ASSUME FramesInv, NEW r, NEW s, s = [stack EXCEPT ![Top] = r]
    PROVE  /\ IsStack(s) /\ Len(s) = Top /\ s[Top] = r /\ Kept(stack, s, Top - 1)
           /\ \A p \in 1 .. Top : p # Top => s[p] = stack[p]
  <1>1. Top \in 1 .. Len(stack) /\ Top = Len(stack) /\ IsStack(stack)
        /\ \A p \in 1 .. Top : Own(stack[p])
    BY StackFacts
  <1>2. Changed(stack, [stack EXCEPT ![Top] = r], Top, r)
    BY <1>1, ChangeFrameTo, Zenon
  <1>3. Changed(stack, s, Top, r)
    BY <1>2
  <1> QED BY <1>1, <1>3, LikeItself DEF Changed, Kept

LEMMA MeantOK ==
    ASSUME TypesInv, NEW rec \in Records
    PROVE  Meant(rec) \in Records
  BY DEF Meant, TypesInv

LEMMA CatchObjectBuiltStep ==
    ASSUME EhInv, CatchObjectBuilt
    PROVE  EhInv'
  <1>1. FramesInv /\ TypesInv /\ ParentInv /\ Run.k = "raise" /\ Run.phase = "build"
    BY DEF EhInv, CatchObjectBuilt, RunIs
  <1>2. DownRaise(stack, Top) /\ Run.rec \in Records /\ Run.hit \in Hits
    BY <1>1, RaiseFacts
  <1>3. Own(Run) /\ stack[Top] = Run
    BY <1>1, StackFacts DEF Run
  <1>4. Run.at > 0 /\ Run.hit # NoHit /\ Accepts(stack, Run.at, Run.hit.try)
    BY <1>1, <1>2 DEF DownRaise, Run
  <1>5. PICK r : r = Rephased(Run, "scan")
    OBVIOUS
  <1>6. Own(r) /\ r.k = "raise" /\ r.phase = "scan" /\ r.at = Run.at /\ r.again = Run.again
    BY <1>1, <1>3, <1>5, PhaseChange
  <1>7. PICK s : s = [stack EXCEPT ![Top] = r]
    BY Zenon
  <1>8. IsStack(s) /\ Len(s) = Top /\ s[Top] = r /\ Kept(stack, s, Top - 1)
    BY <1>1, <1>7, TopChange, Zenon
  <1>9. PICK rec \in Records : rec = Meant(Run.rec)
    BY <1>1, <1>2, MeantOK
  <1>10. stack' = Append(s, Unw(rec, Top, Run.at, Run.hit, Run.want))
    <2>1. s = [stack EXCEPT ![Top].phase = "scan"]
      BY <1>3, <1>5, <1>7 DEF Rephased
    <2> QED BY <1>9, <2>1, Zenon DEF CatchObjectBuilt, StartUnwind
  <1>11. chain' = chain /\ pt' = pt /\ halt' = halt /\ cur' = cur
    BY DEF CatchObjectBuilt, runtime
  <1>12. FramesInv'
    BY <1>1, <1>2, <1>4, <1>6, <1>8, <1>10, <1>11, UnwindStarts
  <1>13. csp = INVALID_STATE
    BY <1>1, ProgramParent
  <1>14. TypesInv' /\ ParentInv'
    BY <1>1, <1>13, ParentInvalid DEF CatchObjectBuilt, runtime, ghost, TypesInv
  <1> QED BY <1>12, <1>14 DEF EhInv

LEMMA SearchSehStep ==
    ASSUME EhInv, SearchSeh
    PROVE  EhInv'
  <1>1. FramesInv /\ TypesInv /\ ParentInv /\ Run.k = "raise" /\ Run.phase \in {"scan", "filter"}
        /\ Run.at > 0 /\ stack[Run.at].k = "seh"
    BY DEF EhInv, SearchSeh, RunIs
  <1>2. Top > 1 /\ Run.at \in 0 .. Top - 1 /\ Respects(stack, Top, Run.at) /\ ~Run.again
    BY <1>1, RaiseFacts
  <1>3. Top \in Nat /\ (\A p \in 1 .. Top : Own(stack[p])) /\ Down(stack, Top)
        /\ stack[Top] = Run /\ Own(Run)
    BY <1>1, StackFacts DEF Run
  <1>4. chain' = chain /\ pt' = pt /\ halt' = halt /\ cur' = cur
    BY DEF SearchSeh, runtime
  <1>5. FramesInv'
    <2>1. ASSUME stack' = [stack EXCEPT ![Top] = [NextFrame(Run) EXCEPT !.phase = "scan"]]
          PROVE  FramesInv'
      <3>1. /\ Own(NextFrame(Run)) /\ NextFrame(Run).k = "raise" /\ ~NextFrame(Run).again
            /\ NextFrame(Run).at = Run.at - 1
        BY <1>1, <1>2, <1>3, NextFrameOf
      <3>2. PICK r : r = Rephased(NextFrame(Run), "scan")
        OBVIOUS
      <3>3. Own(r) /\ r.k = "raise" /\ r.phase = "scan" /\ r.at = Run.at - 1 /\ ~r.again
        BY <3>1, <3>2, PhaseChange
      <3>4. stack' = [stack EXCEPT ![Top] = r]
        BY <2>1, <3>2 DEF Rephased
      <3>5. IsStack(stack') /\ Len(stack') = Top /\ stack'[Top] = r /\ Kept(stack, stack', Top - 1)
        BY <1>1, <3>4, TopChange, Zenon
      <3>6. Respects(stack, Top, Run.at - 1)
        BY <1>1, <1>2, <1>3, RespectsNext
      <3>7. Down(stack', Top)
        <4>1. /\ stack'[Top].k = "raise" /\ stack'[Top].phase = "scan" /\ ~stack'[Top].again
              /\ stack'[Top].at = Run.at - 1
          BY <3>3, <3>5
        <4>2. stack'[Top].at \in 0 .. Top - 1 /\ Respects(stack, Top, stack'[Top].at)
          BY <1>1, <1>2, <1>3, <3>6, <4>1
        <4> QED BY <1>1, <1>2, <1>3, <3>5, <4>1, <4>2, DownRaiseMoved, Zenon
      <3> QED BY <1>1, <1>3, <1>4, <3>3, <3>5, <3>7, RaiseStep
    <2>2. ASSUME stack' = StartUnwind([stack EXCEPT ![Top].phase = "scan"], Foreign, Run.at, NoHit)
          PROVE  FramesInv'
      <3>1. PICK r : r = Rephased(Run, "scan")
        OBVIOUS
      <3>2. Own(r) /\ r.k = "raise" /\ r.phase = "scan" /\ r.at = Run.at /\ r.again = Run.again
        BY <1>1, <1>3, <3>1, PhaseChange
      <3>3. PICK s : s = [stack EXCEPT ![Top] = r]
        BY Zenon
      <3>4. IsStack(s) /\ Len(s) = Top /\ s[Top] = r /\ Kept(stack, s, Top - 1)
        BY <1>1, <3>3, TopChange, Zenon
      <3>5. stack' = Append(s, Unw(Foreign, Top, Run.at, NoHit, Run.want))
        <4>1. s = [stack EXCEPT ![Top].phase = "scan"]
          BY <1>3, <3>1, <3>3 DEF Rephased
        <4> QED BY <2>2, <4>1, Zenon DEF StartUnwind
      <3>6. Foreign \in Records /\ NoHit \in Hits
        BY DEF Records, NoHit, Hits
      <3> QED BY <1>1, <1>4, <3>2, <3>4, <3>5, <3>6, UnwindStarts
    <2>3. ASSUME stack' = Append([stack EXCEPT ![Top].phase = "filter"], Fn("aux"))
          PROVE  FramesInv'
      <3>1. PICK r : r = Rephased(Run, "filter")
        OBVIOUS
      <3>2. Own(r) /\ r.k = "raise" /\ r.phase = "filter" /\ r.at = Run.at /\ r.again = Run.again
        BY <1>1, <1>3, <3>1, PhaseChange
      <3>3. PICK s : s = [stack EXCEPT ![Top] = r]
        BY Zenon
      <3>4. IsStack(s) /\ Len(s) = Top /\ s[Top] = r /\ Kept(stack, s, Top - 1)
        BY <1>1, <3>3, TopChange, Zenon
      <3>5. stack' = Append(s, Fn("aux"))
        <4>1. s = [stack EXCEPT ![Top].phase = "filter"]
          BY <1>3, <3>1, <3>3 DEF Rephased
        <4> QED BY <2>3, <4>1, Zenon
      <3> QED BY <1>1, <1>4, <3>2, <3>4, <3>5, AuxStarts
    <2> QED BY <2>1, <2>2, <2>3, Zenon DEF SearchSeh
  <1>6. csp = INVALID_STATE
    BY <1>1 DEF ParentInv
  <1>7. TypesInv' /\ ParentInv'
    BY <1>1, <1>6, ParentInvalid DEF SearchSeh, runtime, ghost, TypesInv
  <1> QED BY <1>5, <1>7 DEF EhInv

LEMMA FrameChange ==
    ASSUME FramesInv, NEW i \in 1 .. Top, NEW fr, Own(fr), Like(stack[i], fr),
           NEW s, s = [stack EXCEPT ![i] = fr]
    PROVE  Changed(stack, s, i, fr) /\ Unnoticed(stack, s)
  <1>1. i \in 1 .. Len(stack) /\ Top = Len(stack) /\ IsStack(stack) /\ Top \in Nat
        /\ \A p \in 1 .. Top : Own(stack[p])
    BY StackFacts
  <1>2. Changed(stack, [stack EXCEPT ![i] = fr], i, fr)
    BY <1>1, ChangeFrameTo, Zenon
  <1>3. Changed(stack, s, i, fr)
    BY <1>2
  <1>4. Unnoticed(stack, s)
    BY <1>1, <1>3, ChangeKept, Zenon
  <1> QED BY <1>3, <1>4

(* The frame of a catch block that is left by an exception. *)
Rethrowing(fr, b) == [fr EXCEPT !.rethrow = b]

LEMMA RethrowChange ==
    ASSUME NEW fr, fr.k = "ccb", Own(fr), NEW b \in BOOLEAN
    PROVE  Own(Rethrowing(fr, b)) /\ Like(fr, Rethrowing(fr, b))
  <1>1. DOMAIN fr = CcbFields /\ OwnCcb(fr)
    BY DEF Own, OwnCcb
  <1>2. PICK r : r = Rethrowing(fr, b)
    OBVIOUS
  <1>3. /\ DOMAIN r = CcbFields /\ r.k = "ccb" /\ r.rec = fr.rec /\ r.saved = fr.saved
        /\ r.try = fr.try /\ r.phase = fr.phase /\ r.rethrow = b
    BY <1>1, <1>2 DEF CcbFields, Rethrowing
  <1>4. Own(r)
    BY <1>1, <1>3 DEF Own, OwnFn, OwnSeh, OwnCatch, OwnCcb, OwnRaise, OwnUnw, Kinds
  <1>5. Like(fr, r)
    BY <1>3 DEF Like, User
  <1> QED BY <1>2, <1>4, <1>5

(* CxxCallCatchBlock and the frame below it, whose try block it handles. *)
LEMMA BelowCatchBlock ==
    ASSUME FramesInv, NEW p \in 1 .. Top, stack[p].k = "ccb"
    PROVE  /\ p > 1 /\ Accepts(stack, p - 1, stack[p].try)
           /\ Try(stack[p - 1].f, stack[p].try).catchHigh \in Int
           /\ Try(stack[p - 1].f, stack[p].try).low \in Int
           /\ Try(stack[p - 1].f, stack[p].try).catchHigh # INVALID_STATE
  <1>1. p > 1 /\ Accepts(stack, p - 1, stack[p].try)
    BY StackFacts DEF Down, DownCcb
  <1>2. p - 1 \in 1 .. Top /\ Own(stack[p - 1])
    BY <1>1, StackFacts
  <1>3. stack[p - 1].f \in DOMAIN Prog /\ stack[p].try \in DOMAIN Tries(stack[p - 1].f)
    BY <1>1, <1>2 DEF Accepts, Own, OwnFn, OwnCatch
  <1>4. TryOK(stack[p - 1].f, Try(stack[p - 1].f, stack[p].try))
    BY <1>3, TablesOK
  <1>5. Try(stack[p - 1].f, stack[p].try).catchHigh \in Nat
        /\ Try(stack[p - 1].f, stack[p].try).low \in Nat
    BY <1>4 DEF TryOK
  <1> QED BY <1>1, <1>5 DEF INVALID_STATE

LEMMA SearchCatchBlockStep ==
    ASSUME EhInv, SearchCatchBlock
    PROVE  EhInv'
  <1>1. FramesInv /\ TypesInv /\ ParentInv /\ Run.k = "raise" /\ Run.phase = "scan"
        /\ Run.at > 0 /\ stack[Run.at].k = "ccb"
    BY DEF EhInv, SearchCatchBlock, RunIs
  <1>2. Top > 1 /\ Run.at \in 1 .. Top - 1 /\ Respects(stack, Top, Run.at) /\ ~Run.again
        /\ Run.rec \in Records
    BY <1>1, RaiseFacts
  <1>3. Top \in Nat /\ Top = Len(stack) /\ IsStack(stack) /\ (\A p \in 1 .. Top : Own(stack[p]))
        /\ stack[Top] = Run /\ Own(Run)
    BY <1>1, StackFacts DEF Run
  <1> DEFINE p == Run.at
             c == stack[p]
             same == Run.rec = Rethrown \/ (Run.rec = c.rec /\ IsObject(c.rec))
             filtered == [stack EXCEPT ![p].rethrow = same]
  <1>4. UNCHANGED <<mode, halt, cur, chain, pt, thrown, raised, live, alive, lost>>
    BY DEF SearchCatchBlock, ghost
  <1>5. PICK r : r = NextFrame(Run)
    OBVIOUS
  <1>6. r.k = "raise" /\ r.phase = "scan" /\ r.scope = 0 /\ r.at = p - 1
    BY <1>1, <1>2, <1>3, <1>5, NextFrameOf
  <1>7. /\ IsStack(filtered) /\ Len(filtered) = Top /\ Kept(stack, filtered, Top - 1)
        /\ filtered[Top] = Run
    <2>1. p \in 1 .. Top /\ p # Top /\ Own(c)
      BY <1>2, <1>3
    <2>2. same \in BOOLEAN
      OBVIOUS
    <2>3. PICK b \in BOOLEAN : b = same
      BY <2>2, Zenon
    <2>4. Own(Rethrowing(c, b)) /\ Like(c, Rethrowing(c, b))
      <3>1. c.k = "ccb"
        BY <1>1
      <3> HIDE DEF c
      <3> QED BY <2>1, <3>1, RethrowChange
    <2>5. PICK fr : fr = Rethrowing(c, b)
      OBVIOUS
    <2>6. filtered = [stack EXCEPT ![p] = fr]
      BY <2>3, <2>5 DEF Rethrowing
    <2> HIDE DEF filtered, same
    <2>7. Own(fr) /\ Like(stack[p], fr)
      BY <2>4, <2>5
    <2> HIDE DEF p, c
    <2>8. /\ IsStack(filtered) /\ Len(filtered) = Top /\ Kept(stack, filtered, Top - 1)
          /\ \A q \in 1 .. Top : q # p => filtered[q] = stack[q]
      <3>1. PICK i \in 1 .. Top : i = p
        BY <2>1
      <3>2. PICK s : s = filtered
        OBVIOUS
      <3>3. s = [stack EXCEPT ![i] = fr] /\ Own(fr) /\ Like(stack[i], fr)
        BY <2>6, <2>7, <3>1, <3>2
      <3>4. Changed(stack, s, i, fr) /\ Unnoticed(stack, s)
        BY <1>1, <3>1, <3>3, FrameChange, Zenon
      <3> QED BY <1>3, <3>1, <3>2, <3>4 DEF Changed, Unnoticed, Kept
    <2> QED BY <1>2, <1>3, <2>1, <2>8
  <1>8. p > 1 /\ stack[p - 1].k \in {"fn", "catch"}
        /\ Try(stack[p - 1].f, c.try).catchHigh \in Int
    BY <1>1, <1>2, <1>3, BelowCatchBlock DEF Accepts
  <1>9. CASE c.phase = "except"
    <2>1. stack' = [stack EXCEPT ![Top] = r] /\ csp' = csp /\ rethr' = rethr
      BY <1>5, <1>9 DEF SearchCatchBlock
    <2>2. Kept(stack, stack, Top - 1)
      BY <1>3, LikeItself DEF Kept
    <2>3. FramesInv' /\ Top' = Top /\ Run' = r
      BY <1>1, <1>3, <1>4, <1>5, <2>1, <2>2, MoveOn, Zenon
    <2>4. stack'[p] = c /\ stack'[p - 1] = stack[p - 1]
      BY <1>1, <1>2, <1>3, <1>8, <2>1, TopChange
    <2>5. ParentInv'
      <3>1. ASSUME csp' # INVALID_STATE PROVE mode'.fh = 4
        BY <1>1, <1>4, <2>1, <3>1 DEF ParentInv
      <3> QED BY <1>1, <1>2, <1>6, <1>8, <2>3, <2>4, <3>1 DEF ParentInv
    <2>6. TypesInv'
      BY <1>1, <1>4, <2>1 DEF TypesInv
    <2> QED BY <2>3, <2>5, <2>6 DEF EhInv
  <1>10. CASE c.phase # "except" /\ Run.rec = Rethrown
    <2>1. /\ stack' = Append(filtered, Unw(Rethrown, Top, p, NoHit, Run.want))
          /\ csp' = csp /\ rethr' = TRUE
      BY <1>10 DEF SearchCatchBlock, StartUnwind
    <2> HIDE DEF filtered
    <2>2. NoHit \in Hits /\ Rethrown \in Records
      BY DEF NoHit, Hits, Records
    <2>3. FramesInv'
      BY <1>1, <1>3, <1>4, <1>7, <2>1, <2>2, UnwindStarts
    <2>4. csp = INVALID_STATE
      BY <1>1, <1>10 DEF ParentInv
    <2>5. TypesInv'
      BY <1>1, <1>4, <2>1 DEF TypesInv
    <2> QED BY <2>1, <2>3, <2>4, <2>5, ParentInvalid DEF EhInv
  <1>11. CASE c.phase # "except" /\ Run.rec # Rethrown
    <2>1. /\ stack' = [filtered EXCEPT ![Top] = r] /\ rethr' = rethr
          /\ csp' = IF mode.fh = 4 THEN Try(stack[p - 1].f, c.try).catchHigh ELSE csp
      BY <1>5, <1>11 DEF SearchCatchBlock
    <2> HIDE DEF filtered
    <2>2. FramesInv' /\ Top' = Top /\ Run' = r
      BY <1>1, <1>3, <1>4, <1>5, <1>7, <2>1, MoveOn, Zenon
    <2>3. csp = INVALID_STATE
      BY <1>1, <1>11 DEF ParentInv
    <2>4. csp' \in Int /\ (csp' # INVALID_STATE => mode'.fh = 4)
      BY <1>4, <1>8, <2>1, <2>3 DEF INVALID_STATE
    <2>5. Like(c, stack'[p]) /\ Like(stack[p - 1], stack'[p - 1])
      <3>1. Changed(filtered, stack', Top, r)
        <4>1. Top \in 1 .. Len(filtered)
          BY <1>2, <1>3, <1>7
        <4>2. Changed(filtered, [filtered EXCEPT ![Top] = r], Top, r)
          BY <1>7, <4>1, ChangeFrameTo, Zenon
        <4> QED BY <2>1, <4>2
      <3>2. stack'[p] = filtered[p] /\ stack'[p - 1] = filtered[p - 1]
        BY <1>2, <1>3, <1>7, <1>8, <3>1 DEF Changed
      <3> QED BY <1>2, <1>3, <1>7, <1>8, <3>2 DEF Kept
    <2>6. stack'[p].k = "ccb" /\ stack'[p - 1].k \in {"fn", "catch"}
      BY <1>1, <1>8, <2>5 DEF Like
    <2>7. ParentInv'
      BY <1>2, <1>6, <1>8, <2>2, <2>4, <2>6 DEF ParentInv
    <2>8. TypesInv'
      BY <1>1, <1>4, <2>1, <2>4 DEF TypesInv
    <2> QED BY <2>2, <2>7, <2>8 DEF EhInv
  <1> QED BY <1>9, <1>10, <1>11

LEMMA SearchDispatcherStep ==
    ASSUME EhInv, SearchDispatcher
    PROVE  EhInv'
  <1>1. FramesInv /\ TypesInv /\ ParentInv /\ Run.k = "raise" /\ Run.phase = "scan"
        /\ Run.at > 0 /\ stack[Run.at].k = "raise"
    BY DEF EhInv, SearchDispatcher, RunIs
  <1>2. Run.rec \in Records
    BY <1>1, RaiseFacts
  <1>3. Top \in Nat /\ Top = Len(stack) /\ IsStack(stack) /\ (\A p \in 1 .. Top : Own(stack[p]))
        /\ stack[Top] = Run /\ Own(Run)
    BY <1>1, StackFacts DEF Run
  <1>4. chain' = chain /\ pt' = pt /\ halt' = halt /\ cur' = cur
    BY DEF SearchDispatcher, runtime
  <1>5. Kept(stack, stack, Top - 1)
    BY <1>3, LikeItself DEF Kept
  <1>6. ASSUME stack[Run.at].phase = "build" PROVE FramesInv'
    <2>1. stack' = Append(stack, Unw(Run.rec, Top, Run.at, NoHit, Run.want))
      BY <1>6 DEF SearchDispatcher, StartUnwind
    <2>2. NoHit \in Hits
      BY DEF NoHit, Hits
    <2> QED BY <1>1, <1>2, <1>3, <1>4, <1>5, <2>1, <2>2, UnwindStarts
  <1>7. ASSUME stack[Run.at].phase # "build" PROVE FramesInv'
    <2>1. PICK r : r = NextFrame(Run)
      OBVIOUS
    <2>2. stack' = [stack EXCEPT ![Top] = r]
      BY <1>7, <2>1 DEF SearchDispatcher
    <2> QED BY <1>1, <1>3, <1>4, <1>5, <2>1, <2>2, MoveOn, Zenon
  <1>8. FramesInv'
    BY <1>6, <1>7
  <1>9. csp = INVALID_STATE
    BY <1>1 DEF ParentInv
  <1>10. TypesInv' /\ ParentInv'
    BY <1>1, <1>9, ParentInvalid DEF SearchDispatcher, runtime, ghost, TypesInv
  <1> QED BY <1>8, <1>10 DEF EhInv

(* An unwind with a frame above it is running a destructor. *)
LEMMA CoveredUnwind ==
    ASSUME FramesInv, NEW x \in 1 .. Top - 1, stack[x].k = "unw"
    PROVE  stack[x].phase = "states" /\ stack[x].at \in 1 .. x - 1
           /\ stack[stack[x].at].k \in {"fn", "catch"}
  <1>1. x \in 1 .. Top /\ x + 1 \in 1 .. Top /\ x + 1 - 1 = x
    BY StackFacts
  <1>2. Own(stack[x + 1]) /\ Down(stack, x + 1) /\ Own(stack[x]) /\ Down(stack, x)
    BY <1>1, StackFacts
  <1>3. stack[x + 1].k \in Kinds
    BY <1>2 DEF Own
  <1>4. stack[x].phase = "states"
    <2>1. CASE stack[x + 1].k = "fn"
      BY <1>1, <1>2, <2>1 DEF Down, DownFn, User
    <2>2. CASE stack[x + 1].k \in {"seh", "catch", "ccb", "raise", "unw"}
      BY <1>1, <1>2, <2>2 DEF Down, DownSeh, DownCatch, DownCcb, DownRaise, DownUnw, Accepts, User
    <2> QED BY <1>3, <2>1, <2>2 DEF Kinds
  <1> QED BY <1>2, <1>4 DEF Own, OwnUnw, Down, DownUnw

(* The dispatcher goes on with the frame that was being unwound. *)
Collided(fr, u) == [fr EXCEPT !.at = u.at, !.scope = u.scope, !.again = TRUE]

LEMMA CollidedFrame ==
    ASSUME NEW fr, fr.k = "raise", Own(fr), NEW u, u.at \in Nat
    PROVE  /\ Own(Collided(fr, u)) /\ Collided(fr, u).k = "raise"
           /\ Collided(fr, u).phase = fr.phase /\ Collided(fr, u).at = u.at
  <1>1. DOMAIN fr = RaiseFields /\ OwnRaise(fr)
    BY DEF Own, OwnRaise
  <1>2. PICK r : r = Collided(fr, u)
    OBVIOUS
  <1>3. /\ DOMAIN r = RaiseFields /\ r.k = "raise" /\ r.phase = fr.phase /\ r.at = u.at
        /\ r.again = TRUE /\ r.hit = fr.hit /\ r.rec = fr.rec
    BY <1>1, <1>2 DEF RaiseFields, Collided
  <1>4. r.rec \in Records /\ r.at \in Nat /\ r.again \in BOOLEAN /\ r.again /\ r.hit \in Hits
        /\ r.phase \in {"scan", "build", "filter"}
    BY <1>1, <1>3, Zenon DEF OwnRaise
  <1>5. Own(r)
    BY <1>3, <1>4 DEF Own, OwnFn, OwnSeh, OwnCatch, OwnCcb, OwnRaise, OwnUnw, Kinds
  <1> QED BY <1>2, <1>3, <1>5

LEMMA SearchUnwindStep ==
    ASSUME EhInv, SearchUnwind
    PROVE  EhInv'
  <1>1. FramesInv /\ TypesInv /\ ParentInv /\ Run.k = "raise" /\ Run.phase = "scan"
        /\ Run.at > 0 /\ stack[Run.at].k = "unw"
    BY DEF EhInv, SearchUnwind, RunIs
  <1>2. Top > 1 /\ Run.at \in 1 .. Top - 1 /\ Respects(stack, Top, Run.at) /\ Run.rec \in Records
    BY <1>1, RaiseFacts
  <1>3. Top \in Nat /\ Top = Len(stack) /\ IsStack(stack) /\ (\A p \in 1 .. Top : Own(stack[p]))
        /\ stack[Top] = Run /\ Own(Run) /\ Down(stack, Top) /\ Down(stack, Run.at)
    BY <1>1, <1>2, StackFacts DEF Run
  <1>4. csp = INVALID_STATE
    BY <1>1 DEF ParentInv
  <1>5. CASE IsCxx(Run.rec)
    <2>1. stack' = stack /\ halt' = "terminate" /\ cur' = Run.rec
          /\ UNCHANGED <<mode, chain, pt, csp, rethr, thrown, raised, live, alive, lost>>
      BY <1>5 DEF SearchUnwind, Halted, ghost
    <2>2. FramesInv'
      BY <1>1, <2>1 DEF FramesInv, CurrentOK
    <2>3. TypesInv'
      BY <1>1, <1>2, <2>1 DEF TypesInv
    <2> QED BY <1>4, <2>1, <2>2, <2>3, ParentInvalid DEF EhInv
  <1>6. CASE ~IsCxx(Run.rec)
    <2>1. /\ stack' = [stack EXCEPT ![Top].at = stack[Run.at].at,
                            ![Top].scope = stack[Run.at].scope, ![Top].again = TRUE]
          /\ UNCHANGED <<mode, halt, cur, chain, pt, csp, rethr, thrown, raised, live, alive, lost>>
      BY <1>6, Zenon DEF SearchUnwind, runtime, ghost
    <2>2. PICK u : u = stack[Run.at]
      OBVIOUS
    <2>3. u.at \in 1 .. Run.at - 1 /\ stack[u.at].k \in {"fn", "catch"} /\ u.at \in Nat
      BY <1>1, <1>2, <2>2, CoveredUnwind
    <2>4. PICK r : r = Collided(Run, u)
      OBVIOUS
    <2>5. Own(r) /\ r.k = "raise" /\ r.phase = "scan" /\ r.at = u.at
      BY <1>1, <1>3, <2>3, <2>4, CollidedFrame
    <2>6. stack' = [stack EXCEPT ![Top] = r]
      <3>1. DOMAIN Run = RaiseFields /\ Top \in DOMAIN stack
        BY <1>1, <1>2, <1>3, StackFacts DEF Own, OwnRaise
      <3> QED BY <1>3, <2>1, <2>2, <2>4, <3>1, Zenon DEF Collided, RaiseFields
    <2>7. IsStack(stack') /\ Len(stack') = Top /\ stack'[Top] = r /\ Kept(stack, stack', Top - 1)
      BY <1>1, <2>6, TopChange, Zenon
    <2>8. Respects(stack, Top, u.at)
      BY <1>1, <1>2, <1>3, <2>2, RespectsOver
    <2>9. Down(stack', Top)
      <3>1. stack[Top].k = "raise" /\ stack'[Top].k = "raise" /\ stack'[Top].phase = "scan"
        BY <1>1, <1>3, <2>5, <2>7
      <3>2. stack'[Top].at \in 0 .. Top - 1 /\ Respects(stack, Top, stack'[Top].at)
        BY <1>2, <1>3, <2>3, <2>5, <2>7, <2>8
      <3>3. stack'[Top].again => stack'[Top].at > 0 /\ stack[stack'[Top].at].k \in {"fn", "catch"}
        BY <2>3, <2>5, <2>7
      <3> QED BY <1>2, <1>3, <2>7, <3>1, <3>2, <3>3, DownRaiseMoved
    <2>10. FramesInv'
      <3>1. chain' = chain /\ pt' = pt /\ halt' = halt /\ cur' = cur
        BY <2>1
      <3> QED BY <1>1, <1>3, <2>5, <2>7, <2>9, <3>1, RaiseStep
    <2>11. TypesInv'
      BY <1>1, <2>1 DEF TypesInv
    <2> QED BY <1>4, <2>1, <2>10, <2>11, ParentInvalid DEF EhInv
  <1> QED BY <1>5, <1>6

LEMMA SearchFailsStep ==
    ASSUME EhInv, SearchFails
    PROVE  EhInv'
  <1>1. FramesInv /\ TypesInv /\ ParentInv /\ Run.at = 0
    BY DEF EhInv, SearchFails
  <1>2. stack' = stack /\ halt' = "unhandled" /\ cur' = cur
        /\ UNCHANGED <<mode, chain, pt, csp, rethr, thrown, raised, live, alive, lost>>
    BY DEF SearchFails, Halted, ghost
  <1>3. FramesInv'
    BY <1>1, <1>2 DEF FramesInv, CurrentOK
  <1>4. csp = INVALID_STATE
    BY <1>1 DEF ParentInv
  <1>5. TypesInv'
    BY <1>1, <1>2 DEF TypesInv
  <1> QED BY <1>2, <1>3, <1>4, <1>5, ParentInvalid DEF EhInv

(* What the tables answer is one of the try blocks that were asked about. *)
LEMMA HandlerForOK ==
    ASSUME NEW p, stack[p].f \in DOMAIN Prog, NEW scope, NEW rec
    PROVE  /\ HandlerFor(p, scope, rec) \in Hits
           /\ HandlerFor(p, scope, rec) # NoHit =>
                  HandlerFor(p, scope, rec).try \in TryRange(stack[p].f, stack[p].ip, SearchState(p, scope))
  <1> DEFINE f == stack[p].f
             s == SearchState(p, scope)
             tries == TrysToCheck(p, s)
             t == [i \in DOMAIN Tries(f) |-> Try(f, i)]
             foreign == {i \in tries : ForeignHandlers(t[i]) # {}}
             cxx == {i \in tries : CxxHandlers(t[i], thrown[rec]) # {}}
  <1>1. tries \subseteq TryRange(f, stack[p].ip, s)
    BY DEF TrysToCheck
  <1>2. TryRange(f, stack[p].ip, s) \subseteq DOMAIN Tries(f)
    BY DEF TryRange
  <1>3. ASSUME NEW i \in tries
        PROVE  /\ i \in Nat /\ ForeignHandlers(t[i]) \subseteq Nat
               /\ CxxHandlers(t[i], thrown[rec]) \subseteq Nat
    <2>1. i \in DOMAIN Tries(f)
      BY <1>1, <1>2
    <2>2. t[i] = Try(f, i) /\ TryOK(f, Try(f, i)) /\ i \in Nat
      BY <2>1, TablesOK
    <2>3. DOMAIN t[i].handlers \subseteq Nat
      BY <2>2 DEF TryOK, IsSequence
    <2> QED BY <2>2, <2>3 DEF ForeignHandlers, CxxHandlers
  <1>4. CASE rec = Foreign
    <2>1. HandlerFor(p, scope, rec) =
              IF foreign = {} THEN NoHit
              ELSE [try |-> Min(foreign), handler |-> Min(ForeignHandlers(t[Min(foreign)]))]
      BY <1>4 DEF HandlerFor, FirstHit
    <2> HIDE DEF t, tries
    <2>2. foreign # {} => /\ Min(foreign) \in foreign
                          /\ Min(ForeignHandlers(t[Min(foreign)])) \in ForeignHandlers(t[Min(foreign)])
      <3> HAVE foreign # {}
      <3>1. Min(foreign) \in foreign
        BY <1>3, MinIsLeast
      <3>2. PICK m : m = Min(foreign)
        BY Zenon
      <3>3. ForeignHandlers(t[m]) # {} /\ ForeignHandlers(t[m]) \subseteq Nat
        BY <1>3, <3>1, <3>2, Zenon
      <3>4. Min(ForeignHandlers(t[m])) \in ForeignHandlers(t[m])
        BY <3>3, MinIsLeast
      <3> QED BY <3>1, <3>2, <3>4, Zenon
    <2> QED BY <1>1, <1>3, <2>1, <2>2 DEF Hits, NoHit
  <1>5. CASE rec # Foreign
    <2>1. HandlerFor(p, scope, rec) =
              IF cxx = {} THEN NoHit
              ELSE [try |-> Min(cxx), handler |-> Min(CxxHandlers(t[Min(cxx)], thrown[rec]))]
      BY <1>5 DEF HandlerFor, FirstHit
    <2> HIDE DEF t, tries
    <2>2. cxx # {} => /\ Min(cxx) \in cxx
                      /\ Min(CxxHandlers(t[Min(cxx)], thrown[rec])) \in CxxHandlers(t[Min(cxx)], thrown[rec])
      <3> HAVE cxx # {}
      <3>1. Min(cxx) \in cxx
        BY <1>3, MinIsLeast, Zenon
      <3>2. PICK m : m = Min(cxx)
        BY Zenon
      <3>3. CxxHandlers(t[m], thrown[rec]) # {} /\ CxxHandlers(t[m], thrown[rec]) \subseteq Nat
        BY <1>3, <3>1, <3>2, Zenon
      <3>4. Min(CxxHandlers(t[m], thrown[rec])) \in CxxHandlers(t[m], thrown[rec])
        BY <3>3, MinIsLeast
      <3> QED BY <3>1, <3>2, <3>4, Zenon
    <2> QED BY <1>1, <1>3, <2>1, <2>2 DEF Hits, NoHit
  <1> QED BY <1>4, <1>5

(* The frame whose UNWINDHELP a function or a funclet uses. *)
LEMMA EstIsFunction ==
    ASSUME FramesInv, NEW p \in 1 .. Top, stack[p].k \in {"fn", "catch"}
    PROVE  Est(p) \in 1 .. p /\ stack[Est(p)].k = "fn"
  <1>1. Top \in Nat
    BY StackFacts
  <1>2. CASE stack[p].k = "fn"
    <2>1. Est(p) = p
      BY <1>2 DEF Est
    <2> QED BY <1>1, <1>2, <2>1
  <1>3. CASE stack[p].k = "catch"
    <2>1. Est(p) = stack[p].est
      BY <1>3 DEF Est
    <2>2. p > 2 /\ stack[p].est \in 1 .. p - 2 /\ stack[stack[p].est].k = "fn"
      BY <1>3, CatchFacts
    <2> QED BY <1>1, <2>1, <2>2
  <1> QED BY <1>2, <1>3

(* FrameHandler3 notes the state it searched in UNWINDHELP; no frame notices. *)
LEMMA RememberedOK ==
    ASSUME FramesInv, Run.k = "raise", NEW p \in 1 .. Top - 1, stack[p].k \in {"fn", "catch"}
    PROVE  /\ IsStack(Remembered(p)) /\ Len(Remembered(p)) = Top
           /\ Kept(stack, Remembered(p), Top - 1) /\ Remembered(p)[Top] = Run
           /\ Kept(stack, Remembered(p), Top)
  <1>1. Top \in Nat /\ Top = Len(stack) /\ IsStack(stack) /\ (\A q \in 1 .. Top : Own(stack[q]))
        /\ DOMAIN stack = 1 .. Top
    BY StackFacts
  <1>2. p \in 1 .. Top
    BY <1>1
  <1>3. PICK e : e = Est(p)
    OBVIOUS
  <1>4. e \in 1 .. Top /\ stack[e].k = "fn" /\ e # Top
    BY <1>1, <1>2, <1>3, EstIsFunction DEF Run
  <1>5. PICK x : x = stack[p].ip
    OBVIOUS
  <1>6. CASE mode.fh = 3 /\ stack[p].ip > stack[Est(p)].ut
    <2>1. PICK s : s = Remembered(p)
      OBVIOUS
    <2>2. s = [stack EXCEPT ![e].us = x, ![e].ut = x]
      BY <1>3, <1>5, <1>6, <2>1 DEF Remembered
    <2>3. PICK fr : fr = [stack[e] EXCEPT !.us = x, !.ut = x]
      OBVIOUS
    <2>4. s = [stack EXCEPT ![e] = fr]
      <3>1. e \in DOMAIN stack /\ DOMAIN stack[e] = FnFields
        BY <1>1, <1>4 DEF Own, OwnFn
      <3> QED BY <2>2, <2>3, <3>1, Zenon DEF FnFields
    <2>5. Unnoticed(stack, s) /\ \A q \in 1 .. Len(stack) : q # e => s[q] = stack[q]
      BY <1>1, <1>4, <2>3, <2>4, HelpChange, Zenon
    <2>6. s[Top] = Run
      BY <1>1, <1>2, <1>4, <2>5 DEF Run
    <2> QED BY <1>1, <2>1, <2>5, <2>6 DEF Unnoticed, Kept
  <1>7. CASE ~(mode.fh = 3 /\ stack[p].ip > stack[Est(p)].ut)
    <2>1. Remembered(p) = stack
      BY <1>7 DEF Remembered
    <2> QED BY <1>1, <2>1, LikeItself DEF Kept, Run
  <1> QED BY <1>6, <1>7

LEMMA SearchCxxStep ==
    ASSUME EhInv, SearchCxx
    PROVE  EhInv'
  <1>1. FramesInv /\ TypesInv /\ ParentInv /\ Run.k = "raise" /\ Run.phase = "scan"
        /\ Run.at > 0 /\ stack[Run.at].k \in {"fn", "catch"}
    BY DEF EhInv, SearchCxx, RunIs
  <1>2. Top > 1 /\ Run.at \in 1 .. Top - 1 /\ Run.rec \in Records /\ Run.again \in BOOLEAN
    BY <1>1, RaiseFacts
  <1>3. Top \in Nat /\ Top = Len(stack) /\ IsStack(stack) /\ (\A q \in 1 .. Top : Own(stack[q]))
        /\ stack[Top] = Run /\ Own(Run)
    BY <1>1, StackFacts DEF Run
  <1>4. csp' = INVALID_STATE /\ chain' = chain /\ pt' = pt
        /\ UNCHANGED <<mode, rethr, thrown, raised, live, alive, lost>>
    BY DEF SearchCxx, ghost
  <1>5. PICK p : p = Run.at
    OBVIOUS
  <1>6. p \in 1 .. Top - 1 /\ stack[p].k \in {"fn", "catch"}
    BY <1>1, <1>2, <1>5
  <1>7. PICK known : known = Remembered(p)
    OBVIOUS
  <1>8. IsStack(known) /\ Len(known) = Top /\ Kept(stack, known, Top - 1) /\ known[Top] = Run
        /\ Kept(stack, known, Top)
    BY <1>1, <1>6, <1>7, RememberedOK
  <1>9. PICK rec \in Records : rec = Meant(Run.rec)
    BY <1>1, <1>2, MeantOK
  <1>10. PICK hit : hit = HandlerFor(p, Run.scope, rec)
    OBVIOUS
  <1>11. Own(stack[p]) /\ stack[p].f \in DOMAIN Prog
    <2>1. Own(stack[p])
      BY <1>3, <1>6
    <2> QED BY <1>6, <2>1 DEF Own, OwnFn, OwnCatch
  <1>12. hit \in Hits /\ (hit # NoHit => hit.try \in TryRange(stack[p].f, stack[p].ip, SearchState(p, Run.scope)))
    BY <1>10, <1>11, HandlerForOK
  <1>13. hit # NoHit => Accepts(stack, p, hit.try)
    <2> HAVE hit # NoHit
    <2>1. PICK f, i, s : f = stack[p].f /\ i = hit.try /\ s = SearchState(p, Run.scope)
      OBVIOUS
    <2>2. i \in TryRange(f, stack[p].ip, s) /\ i \in DOMAIN Tries(f) /\ f \in DOMAIN Prog
      BY <1>11, <1>12, <2>1 DEF TryRange
    <2>3. stack[p].k = "catch" => InCatch(Try(f, stack[p].try), Outside(f, i))
      <3> HAVE stack[p].k = "catch"
      <3>1. PICK c, ip : c = stack[p].try /\ ip = stack[p].ip
        OBVIOUS
      <3>2. c \in DOMAIN Tries(f) /\ InCatch(Try(f, c), ip) /\ ip \in DOMAIN Prog[f].unwind
        BY <1>11, <2>1, <3>1 DEF Own, OwnCatch
      <3>3. InCatch(Try(f, c), Outside(f, i))
        BY <2>2, <3>1, <3>2, TryRangeInCatch
      <3> QED BY <3>1, <3>3
    <2> QED BY <1>6, <2>1, <2>2, <2>3 DEF Accepts
  <1>14. PICK r : r = NextFrame(Run)
    OBVIOUS
  <1>15. ASSUME stack' = [stack EXCEPT ![Top] = r], halt' = halt, cur' = cur
         PROVE  EhInv'
    <2>1. Kept(stack, stack, Top - 1)
      BY <1>3, LikeItself DEF Kept
    <2>2. stack[Run.at].k # "unw"
      BY <1>1
    <2>3. FramesInv'
      BY <1>1, <1>3, <1>4, <1>14, <1>15, <2>1, <2>2, MoveOn, Zenon
    <2>4. TypesInv'
      BY <1>1, <1>4, <1>15 DEF TypesInv, INVALID_STATE
    <2> QED BY <1>4, <2>3, <2>4, ParentInvalid DEF EhInv
  <1>16. ASSUME stack' = [known EXCEPT ![Top] = r], halt' = halt, cur' = cur
         PROVE  EhInv'
    <2>1. stack[Run.at].k # "unw"
      BY <1>1
    <2>2. FramesInv'
      BY <1>1, <1>4, <1>8, <1>14, <1>16, <2>1, MoveOn, Zenon
    <2>3. TypesInv'
      BY <1>1, <1>4, <1>16 DEF TypesInv, INVALID_STATE
    <2> QED BY <1>4, <2>2, <2>3, ParentInvalid DEF EhInv
  <1>17. ASSUME hit # NoHit, stack' = StartUnwind(known, rec, p, hit), halt' = halt, cur' = cur
         PROVE  EhInv'
    <2>1. stack' = Append(known, Unw(rec, Top, Run.at, hit, Run.want))
      BY <1>5, <1>17 DEF StartUnwind
    <2>2. Accepts(stack, Run.at, hit.try)
      BY <1>5, <1>13, <1>17
    <2>3. FramesInv'
      BY <1>1, <1>3, <1>4, <1>8, <1>12, <1>17, <2>1, <2>2, UnwindStarts
    <2>4. TypesInv'
      BY <1>1, <1>4, <1>17 DEF TypesInv, INVALID_STATE
    <2> QED BY <1>4, <2>3, <2>4, ParentInvalid DEF EhInv
  <1>18. ASSUME hit # NoHit, halt' = halt, cur' = cur,
                stack' = Append([known EXCEPT ![Top].phase = "build", ![Top].hit = hit], Fn("aux"))
         PROVE  EhInv'
    <2>1. PICK b : b = [Run EXCEPT !.phase = "build", !.hit = hit]
      OBVIOUS
    <2>2. DOMAIN Run = RaiseFields /\ OwnRaise(Run)
      BY <1>1, <1>3 DEF Own, OwnRaise
    <2>3. /\ DOMAIN b = RaiseFields /\ b.k = "raise" /\ b.rec = Run.rec /\ b.at = Run.at
          /\ b.scope = Run.scope /\ b.again = Run.again /\ b.phase = "build" /\ b.hit = hit
      BY <1>1, <2>1, <2>2 DEF RaiseFields
    <2>4. Own(b)
      <3>1. /\ b.rec \in Records /\ b.at \in Nat /\ b.again \in BOOLEAN /\ b.hit \in Hits
            /\ (~b.again => b.scope = 0)
        BY <1>1, <1>12, <2>2, <2>3 DEF OwnRaise
      <3> QED BY <2>3, <3>1 DEF Own, OwnFn, OwnSeh, OwnCatch, OwnCcb, OwnRaise, OwnUnw, Kinds
    <2>5. PICK s : s = [known EXCEPT ![Top] = b]
      BY Zenon
    <2>6. s = [known EXCEPT ![Top].phase = "build", ![Top].hit = hit]
      <3>1. Top \in DOMAIN known
        BY <1>2, <1>3, <1>8, StackDomain
      <3> QED BY <1>8, <2>1, <2>2, <2>5, <3>1, Zenon DEF RaiseFields
    <2>7. IsStack(s) /\ Len(s) = Top /\ s[Top] = b /\ Kept(stack, s, Top - 1)
      <3>1. Top \in 1 .. Len(known)
        BY <1>2, <1>3, <1>8
      <3>2. Changed(known, [known EXCEPT ![Top] = b], Top, b)
        BY <1>8, <3>1, ChangeFrameTo, Zenon
      <3>3. Changed(known, s, Top, b)
        BY <2>5, <3>2
      <3> QED BY <1>3, <1>8, <3>3 DEF Changed, Kept
    <2>8. stack' = Append(s, Fn("aux"))
      BY <1>18, <2>6, Zenon
    <2>9. Accepts(stack, Run.at, b.hit.try) /\ b.hit # NoHit
      BY <1>5, <1>13, <1>18, <2>3
    <2>10. FramesInv'
      BY <1>1, <1>4, <1>18, <2>3, <2>4, <2>7, <2>8, <2>9, AuxStarts, Zenon
    <2>11. TypesInv'
      BY <1>1, <1>4, <1>18 DEF TypesInv, INVALID_STATE
    <2> QED BY <1>4, <2>10, <2>11, ParentInvalid DEF EhInv
  <1>19. ASSUME halt' = "terminate", cur' = rec, stack' = known
         PROVE  EhInv'
    <2>1. FramesInv'
      <3>1. ~(halt' = "no")
        BY <1>19
      <3> QED BY <1>1, <1>4, <1>8, <1>19, <3>1, StillStep
    <2>2. TypesInv'
      BY <1>1, <1>4, <1>19 DEF TypesInv, INVALID_STATE
    <2> QED BY <1>4, <2>1, <2>2, ParentInvalid DEF EhInv
  <1> QED
    <2>1. \/ stack' = [stack EXCEPT ![Top] = r] /\ halt' = halt /\ cur' = cur
          \/ FindHandler
      BY <1>14, Zenon DEF SearchCxx
    <2>2. FindHandler =>
            \/ stack' = [known EXCEPT ![Top] = r] /\ halt' = halt /\ cur' = cur
            \/ hit # NoHit /\ stack' = StartUnwind(known, rec, p, hit) /\ halt' = halt /\ cur' = cur
            \/ /\ hit # NoHit /\ halt' = halt /\ cur' = cur
               /\ stack' = Append([known EXCEPT ![Top].phase = "build", ![Top].hit = hit], Fn("aux"))
            \/ halt' = "terminate" /\ cur' = rec /\ stack' = known
      BY <1>5, <1>7, <1>9, <1>10, <1>14, Zenon DEF FindHandler
    <2> QED BY <1>15, <1>16, <1>17, <1>18, <1>19, <2>1, <2>2, Zenon

-----------------------------------------------------------------------------
(* The unwind *)

LEMMA UnwFacts ==
    ASSUME FramesInv, Run.k = "unw"
    PROVE  /\ Top \in Nat /\ Top > 1 /\ OwnUnw(Run) /\ DownUnw(stack, Top) /\ stack[Top] = Run
           /\ Run.target \in 1 .. Run.at /\ Run.at \in 1 .. Top - 1 /\ Run.target \in 1 .. Top - 1
           /\ Respects(stack, Top, Run.at) /\ Respects(stack, Top, Run.target) /\ Lands(stack, Run)
           /\ Run.rec \in Records /\ Run.hit \in Hits
  <1>1. Own(Run) /\ Down(stack, Top) /\ Top \in Nat
    BY StackFacts
  <1>2. OwnUnw(Run) /\ DownUnw(stack, Top) /\ stack[Top] = Run
    BY <1>1 DEF Own, Down, Run
  <1>3. /\ Top > 1 /\ Run.at \in Nat /\ Run.target \in Nat
        /\ 1 <= Run.target /\ Run.target <= Run.at /\ Run.at < Top
        /\ Run.rec \in Records /\ Run.hit \in Hits
        /\ Respects(stack, Top, Run.at) /\ Respects(stack, Top, Run.target) /\ Lands(stack, Run)
    BY <1>2 DEF OwnUnw, DownUnw
  <1> QED BY <1>1, <1>2, <1>3

(* An unwind that has moved stays well placed. *)
LEMMA DownUnwindMoved ==
    ASSUME NEW st, NEW st2, NEW n \in Nat, n > 1, Kept(st, st2, n - 1), Down(st, n), st[n].k = "unw",
           st2[n].k = "unw", st2[n].target = st[n].target, st2[n].hit = st[n].hit,
           st[n].target \in 1 .. n - 1,
           NEW x \in 1 .. n - 1, st2[n].at = x, st[n].target <= x, Respects(st, n, x),
           st2[n].phase = "land" => x = st[n].target /\ st[n].hit # NoHit,
           st2[n].phase = "states" => st[x].k \in {"fn", "catch"}
    PROVE  Down(st2, n)
  <1>1. DownUnw(st, n)
    BY DEF Down
  <1>2. PICK t, i : t = st[n].target /\ i = st[n].hit.try
    BY Zenon
  <1>3. t \in 1 .. n - 1 /\ n - 1 \in Nat
    BY <1>2
  <1>4. Like(st[n - 1], st2[n - 1]) /\ Like(st[x], st2[x]) /\ Like(st[t], st2[t])
    BY <1>3 DEF Kept
  <1>5. Respects(st2, n, x) /\ Respects(st2, n, t)
    <2>1. Respects(st, n, t)
      BY <1>1, <1>2 DEF DownUnw
    <2> QED BY <1>3, <2>1, RespectsKept
  <1>6. Accepts(st, t, i) <=> Accepts(st2, t, i)
    BY <1>3, AcceptsKept
  <1>7. Lands(st2, st2[n])
    <2>1. Lands(st, st[n])
      BY <1>1 DEF DownUnw
    <2> QED BY <1>2, <1>4, <1>6, <2>1 DEF Lands, Like
  <1>8. st2[n - 1].k = "raise" /\ st2[n - 1].phase = "scan"
    BY <1>1, <1>4 DEF DownUnw, Like
  <1>9. DownUnw(st2, n)
    BY <1>2, <1>3, <1>4, <1>5, <1>7, <1>8 DEF DownUnw, Like
  <1> QED BY <1>9 DEF Down, DownFn, DownSeh, DownCatch, DownCcb, DownRaise

(* Frames are counted one at a time. *)
LEMMA UnwindingCount ==
    ASSUME NEW st, NEW n \in Nat
    PROVE  /\ IsFiniteSet(UnwindingIn(st, n)) /\ Cardinality(UnwindingIn(st, n)) \in Nat
           /\ \A x \in Nat : x > n =>
                Cardinality(UnwindingIn(st, n) \cup {x}) = Cardinality(UnwindingIn(st, n)) + 1
  <1>1. IsFiniteSet(1 .. n)
    BY FS_Interval
  <1>2. UnwindingIn(st, n) \subseteq 1 .. n
    BY DEF UnwindingIn
  <1>3. PICK S : S = UnwindingIn(st, n)
    OBVIOUS
  <1>4. IsFiniteSet(S)
    BY <1>1, <1>2, <1>3, FS_Subset
  <1>5. Cardinality(S) \in Nat
    BY <1>4, FS_CardinalityType
  <1>6. ASSUME NEW x \in Nat, x > n PROVE Cardinality(S \cup {x}) = Cardinality(S) + 1
    <2>1. x \notin S
      BY <1>2, <1>3, <1>6
    <2> QED BY <1>4, <2>1, FS_AddElement
  <1> QED BY <1>3, <1>4, <1>5, <1>6

(* What the list, the count and the current exception are about during an unwind:
   the frames up to the one being unwound. *)
LEMMA UnwindNow ==
    ASSUME FramesInv, Run.k = "unw"
    PROVE  /\ ChainFor(chain, stack, Run.at)
           /\ halt = "no" => IsCurrent(stack, Run.at, cur)
           /\ Run.phase # "states" => pt = Cardinality(UnwindingIn(stack, Run.at))
           /\ Run.phase = "states" => pt = Cardinality(UnwindingIn(stack, Run.at)) + 1
  <1>1. Top \in Nat /\ Top > 0 /\ Top = Len(stack) /\ (\A p \in 1 .. Top : Own(stack[p]))
        /\ Down(stack, Top) /\ stack[Top] = Run /\ stack[Top].k = "unw"
    BY StackFacts DEF Run
  <1>2. /\ HandlersIn(stack, Top) = HandlersIn(stack, stack[Top].at)
        /\ stack[Top].phase # "states" => UnwindingIn(stack, Top) = UnwindingIn(stack, stack[Top].at)
        /\ stack[Top].phase = "states" =>
               UnwindingIn(stack, Top) = UnwindingIn(stack, stack[Top].at) \cup {Top}
    BY <1>1, HandlersOfUnwind
  <1>3. PICK a : a = Run.at
    OBVIOUS
  <1>4. a \in Nat /\ a < Top
    BY <1>3, UnwFacts
  <1>5. ChainFor(chain, stack, a)
    BY <1>1, <1>2, <1>3 DEF FramesInv, ChainOK, ChainFor
  <1>6. halt = "no" => IsCurrent(stack, a, cur)
    BY <1>1, <1>2, <1>3 DEF FramesInv, CurrentOK, IsCurrent
  <1>7. pt = Cardinality(UnwindingIn(stack, Top))
    BY <1>1 DEF FramesInv, CountOK
  <1>8. Cardinality(UnwindingIn(stack, a) \cup {Top}) = Cardinality(UnwindingIn(stack, a)) + 1
    BY <1>1, <1>4, UnwindingCount
  <1> QED BY <1>1, <1>2, <1>3, <1>5, <1>6, <1>7, <1>8, Zenon

(* A step of the unwind at the top. *)
LEMMA UnwindStep ==
    ASSUME FramesInv, Run.k = "unw", IsStack(stack'), Len(stack') = Top,
           Kept(stack, stack', Top - 1), NEW u, stack'[Top] = u, Own(u), u.k = "unw",
           u.target = Run.target, u.hit = Run.hit,
           NEW x \in 1 .. Top - 1, u.at = x, Run.target <= x, Respects(stack, Top, x),
           u.phase = "land" => x = Run.target /\ Run.hit # NoHit,
           u.phase = "states" => stack[x].k \in {"fn", "catch"},
           ChainFor(chain', stack, x), halt' = "no" => IsCurrent(stack, x, cur'),
           u.phase # "states" => pt' = Cardinality(UnwindingIn(stack, x)),
           u.phase = "states" => pt' = Cardinality(UnwindingIn(stack, x)) + 1
    PROVE  FramesInv' /\ Top' = Top /\ Run' = u
  <1>1. Top \in Nat /\ Top > 1 /\ Top = Len(stack) /\ (\A p \in 1 .. Top : Own(stack[p]))
        /\ Down(stack, Top) /\ stack[Top] = Run /\ Run.target \in 1 .. Top - 1
    BY StackFacts, UnwFacts
  <1>2. Down(stack', Top)
    BY <1>1, DownUnwindMoved, Zenon
  <1>3. \A p \in Top - 1 + 1 .. Len(stack') : p = Top
    BY <1>1
  <1>4. Extended(stack, stack', Top - 1)
    BY <1>1, <1>2, <1>3 DEF Extended
  <1>5. StackOK(stack')
    BY <1>4, StackStep DEF FramesInv
  <1>6. x \in Nat /\ Kept(stack, stack', x)
    BY <1>1 DEF Kept
  <1>7. HandlersIn(stack, x) = HandlersIn(stack', x) /\ UnwindingIn(stack, x) = UnwindingIn(stack', x)
    BY <1>6, HandlersKept
  <1>8. /\ HandlersIn(stack', Top) = HandlersIn(stack', x)
        /\ u.phase # "states" => UnwindingIn(stack', Top) = UnwindingIn(stack', x)
        /\ u.phase = "states" => UnwindingIn(stack', Top) = UnwindingIn(stack', x) \cup {Top}
    <2>1. \A p \in 1 .. Top : Own(stack'[p])
      BY <1>1, <1>5 DEF StackOK, WellFormed
    <2>2. stack'[Top].k = "unw" /\ Top > 0
      BY <1>1
    <2>3. /\ HandlersIn(stack', Top) = HandlersIn(stack', stack'[Top].at)
          /\ stack'[Top].phase # "states" => UnwindingIn(stack', Top) = UnwindingIn(stack', stack'[Top].at)
          /\ stack'[Top].phase = "states" =>
                 UnwindingIn(stack', Top) = UnwindingIn(stack', stack'[Top].at) \cup {Top}
      BY <1>1, <1>2, <2>1, <2>2, HandlersOfUnwind, Zenon
    <2> QED BY <2>3
  <1>9. ChainFor(chain', stack', Top)
    <2>1. ChainFor(chain', stack', x)
      BY <1>6, ChainSame
    <2> QED BY <1>8, <2>1 DEF ChainFor
  <1>10. halt' = "no" => IsCurrent(stack', Top, cur')
    <2> HAVE halt' = "no"
    <2>1. IsCurrent(stack', x, cur')
      BY <1>6, CurrentKept
    <2> QED BY <1>8, <2>1 DEF IsCurrent
  <1>11. pt' = Cardinality(UnwindingIn(stack', Top))
    <2>1. Top \in Nat /\ Top > x
      BY <1>1
    <2>2. Cardinality(UnwindingIn(stack', x) \cup {Top}) = Cardinality(UnwindingIn(stack', x)) + 1
      BY <1>6, <2>1, UnwindingCount
    <2> QED BY <1>7, <1>8, <2>2, Zenon
  <1>12. FramesInv'
    BY <1>5, <1>9, <1>10, <1>11 DEF FramesInv, ChainOK, CountOK, CurrentOK
  <1>13. Top' = Top /\ Run' = u
    BY DEF Top, Run
  <1> QED BY <1>12, <1>13

(* The frame of an unwind that has moved. *)
UnwAs(u, at, scope, state, phase) ==
    [u EXCEPT !.at = at, !.scope = scope, !.state = state, !.phase = phase]

LEMMA UnwAsOK ==
    ASSUME NEW u, u.k = "unw", Own(u), NEW at \in Nat, NEW scope, NEW state,
           NEW phase \in {"scan", "states", "land"}
    PROVE  /\ Own(UnwAs(u, at, scope, state, phase)) /\ UnwAs(u, at, scope, state, phase).k = "unw"
           /\ UnwAs(u, at, scope, state, phase).target = u.target
           /\ UnwAs(u, at, scope, state, phase).hit = u.hit
           /\ UnwAs(u, at, scope, state, phase).at = at
           /\ UnwAs(u, at, scope, state, phase).scope = scope
           /\ UnwAs(u, at, scope, state, phase).phase = phase
  <1>1. DOMAIN u = UnwFields /\ OwnUnw(u)
    BY DEF Own, OwnUnw
  <1>2. PICK r : r = UnwAs(u, at, scope, state, phase)
    OBVIOUS
  <1>3. /\ DOMAIN r = UnwFields /\ r.k = "unw" /\ r.rec = u.rec /\ r.at = at /\ r.target = u.target
        /\ r.scope = scope /\ r.phase = phase /\ r.hit = u.hit
    BY <1>1, <1>2 DEF UnwFields, UnwAs
  <1>4. r.rec \in Records /\ r.target \in Nat /\ r.hit \in Hits
    BY <1>1, <1>3 DEF OwnUnw
  <1>5. Own(r)
    BY <1>3, <1>4 DEF Own, OwnFn, OwnSeh, OwnCatch, OwnCcb, OwnRaise, OwnUnw, Kinds
  <1> QED BY <1>2, <1>3, <1>5

LEMMA ThenTop ==
    ASSUME FramesInv, NEW s, IsStack(s), Len(s) = Top, Kept(stack, s, Top - 1), NEW u,
           NEW t, t = [s EXCEPT ![Top] = u]
    PROVE  Changed(s, t, Top, u) /\ Kept(stack, t, Top - 1)
  <1>1. Top \in Nat /\ Top \in 1 .. Len(s)
    BY StackFacts
  <1>2. Changed(s, [s EXCEPT ![Top] = u], Top, u)
    BY <1>1, ChangeFrameTo, Zenon
  <1>3. Changed(s, t, Top, u)
    BY <1>2
  <1> QED BY <1>1, <1>3 DEF Changed, Kept

(* The frame an unwind is at, and its target. *)
LEMMA UnwindAtFunction ==
    ASSUME FramesInv, Run.k = "unw", stack[Run.at].k \in {"fn", "catch"}
    PROVE  /\ stack[Run.at].f \in DOMAIN Prog
           /\ Run.at = Run.target => Run.hit # NoHit /\ Prog[stack[Run.at].f].unwind # <<>>
  <1>1. Run.at \in 1 .. Top /\ Lands(stack, Run)
    BY UnwFacts
  <1>2. Own(stack[Run.at])
    BY <1>1, StackFacts
  <1>3. stack[Run.at].f \in DOMAIN Prog
    BY <1>2 DEF Own, OwnFn, OwnCatch
  <1>4. ASSUME Run.at = Run.target PROVE Run.hit # NoHit /\ Prog[stack[Run.at].f].unwind # <<>>
    <2>1. Run.hit # NoHit /\ Accepts(stack, Run.target, Run.hit.try)
      BY <1>1, <1>4 DEF Lands
    <2>2. PICK f, i : f = stack[Run.at].f /\ i = Run.hit.try
      OBVIOUS
    <2>3. f \in DOMAIN Prog /\ i \in DOMAIN Tries(f)
      BY <1>3, <1>4, <2>1, <2>2 DEF Accepts
    <2>4. TryOK(f, Try(f, i))
      BY <2>3, TablesOK
    <2>5. Try(f, i).low \in DOMAIN Prog[f].unwind
      BY <2>4 DEF TryOK
    <2>6. DOMAIN Prog[f].unwind # {}
      BY <2>5
    <2> QED BY <2>1, <2>2, <2>6
  <1> QED BY <1>3, <1>4

LEMMA NextDown ==
    ASSUME FramesInv, Run.k = "unw", Run.at # Run.target, stack[Run.at].k # "unw"
    PROVE  /\ Run.at - 1 \in 1 .. Top - 1 /\ Run.target <= Run.at - 1
           /\ Respects(stack, Top, Run.at - 1)
           /\ stack[Run.at].k # "ccb" =>
                  /\ HandlersIn(stack, Run.at) = HandlersIn(stack, Run.at - 1)
                  /\ UnwindingIn(stack, Run.at) = UnwindingIn(stack, Run.at - 1)
           /\ stack[Run.at].k = "ccb" =>
                  /\ HandlersIn(stack, Run.at) = HandlersIn(stack, Run.at - 1) \cup {Run.at}
                  /\ UnwindingIn(stack, Run.at) = UnwindingIn(stack, Run.at - 1)
  <1>1. /\ Top \in Nat /\ Run.target \in 1 .. Run.at /\ Run.at \in 1 .. Top - 1
        /\ Respects(stack, Top, Run.at) /\ \A q \in 1 .. Top - 1 : Own(stack[q])
    BY UnwFacts, StackFacts
  <1>2. PICK a \in Nat : a = Run.at
    BY <1>1
  <1>3. a > 0 /\ a - 1 \in 1 .. Top - 1 /\ Run.target <= a - 1
    BY <1>1, <1>2
  <1>4. Respects(stack, Top, a - 1)
    BY <1>1, <1>2, <1>3, RespectsNext
  <1>5. /\ stack[a].k # "ccb" => HandlersIn(stack, a) = HandlersIn(stack, a - 1)
        /\ stack[a].k = "ccb" => HandlersIn(stack, a) = HandlersIn(stack, a - 1) \cup {a}
        /\ UnwindingIn(stack, a) = UnwindingIn(stack, a - 1)
    <2>1. stack[a].k # "unw"
      BY <1>2
    <2> QED BY <1>3, <2>1, HandlersBelow
  <1> QED BY <1>2, <1>3, <1>4, <1>5

LEMMA UnwindCxxStep ==
    ASSUME EhInv, UnwindCxx
    PROVE  EhInv'
  <1>1. FramesInv /\ TypesInv /\ ParentInv /\ Run.k = "unw" /\ Run.phase = "scan"
        /\ stack[Run.at].k \in {"fn", "catch"}
    BY DEF EhInv, UnwindCxx, RunIs
  <1>2. /\ Top \in Nat /\ Top > 1 /\ stack[Top] = Run /\ Run.target \in 1 .. Run.at
        /\ Run.at \in 1 .. Top - 1 /\ Run.at \in Nat /\ Respects(stack, Top, Run.at)
    BY <1>1, UnwFacts
  <1>3. Own(Run) /\ DOMAIN Run = UnwFields /\ Top \in DOMAIN stack /\ IsStack(stack) /\ Len(stack) = Top
        /\ (\A q \in 1 .. Top : Own(stack[q]))
    BY <1>1, <1>2, StackFacts DEF Own, OwnUnw
  <1>4. csp' = INVALID_STATE /\ chain' = chain
        /\ UNCHANGED <<mode, halt, cur, rethr, thrown, raised, live, alive, lost>>
    BY DEF UnwindCxx, ghost
  <1>5. /\ ChainFor(chain, stack, Run.at) /\ (halt = "no" => IsCurrent(stack, Run.at, cur))
        /\ pt = Cardinality(UnwindingIn(stack, Run.at))
    BY <1>1, UnwindNow
  <1>6. ASSUME pt' \in Nat, FramesInv' PROVE EhInv'
    <2>1. TypesInv'
      BY <1>1, <1>4, <1>6 DEF TypesInv, INVALID_STATE
    <2> QED BY <1>4, <1>6, <2>1, ParentInvalid DEF EhInv
  <1>7. ASSUME stack' = Next1(stack), pt' = pt, Run.at # Run.target
        PROVE  EhInv'
    <2>1. PICK u : u = UnwAs(Run, Run.at - 1, 0, Run.state, Run.phase)
      OBVIOUS
    <2>2. Run.at - 1 \in 1 .. Top - 1 /\ Run.target <= Run.at - 1 /\ Respects(stack, Top, Run.at - 1)
          /\ HandlersIn(stack, Run.at) = HandlersIn(stack, Run.at - 1)
          /\ UnwindingIn(stack, Run.at) = UnwindingIn(stack, Run.at - 1)
      BY <1>1, <1>7, NextDown
    <2>3. Own(u) /\ u.k = "unw" /\ u.target = Run.target /\ u.hit = Run.hit /\ u.at = Run.at - 1
          /\ u.phase = "scan"
      <3>1. Run.at - 1 \in Nat
        BY <2>2
      <3> QED BY <1>1, <1>3, <2>1, <3>1, UnwAsOK
    <2>4. stack' = [stack EXCEPT ![Top] = u]
      BY <1>2, <1>3, <1>7, <2>1, Zenon DEF Next1, UnwFields, UnwAs
    <2>5. IsStack(stack') /\ Len(stack') = Top /\ stack'[Top] = u /\ Kept(stack, stack', Top - 1)
      BY <1>1, <2>4, TopChange, Zenon
    <2>6. PICK x \in 1 .. Top - 1 : x = Run.at - 1
      BY <2>2
    <2>7. ChainFor(chain', stack, x) /\ (halt' = "no" => IsCurrent(stack, x, cur'))
          /\ pt' = Cardinality(UnwindingIn(stack, x))
      BY <1>4, <1>5, <1>7, <2>2, <2>6 DEF ChainFor, IsCurrent
    <2>8. FramesInv'
      BY <1>1, <2>2, <2>3, <2>5, <2>6, <2>7, UnwindStep
    <2>9. pt' \in Nat
      BY <1>1, <1>7 DEF TypesInv
    <2> QED BY <1>6, <2>8, <2>9
  <1>8. ASSUME NEW y, stack' = [stack EXCEPT ![Top].phase = "states", ![Top].state = y], pt' = pt + 1
        PROVE  EhInv'
    <2>1. PICK u : u = UnwAs(Run, Run.at, Run.scope, y, "states")
      OBVIOUS
    <2>2. Own(u) /\ u.k = "unw" /\ u.target = Run.target /\ u.hit = Run.hit /\ u.at = Run.at
          /\ u.phase = "states"
      BY <1>1, <1>2, <1>3, <2>1, UnwAsOK
    <2>3. stack' = [stack EXCEPT ![Top] = u]
      BY <1>2, <1>3, <1>8, <2>1, Zenon DEF UnwFields, UnwAs
    <2>4. IsStack(stack') /\ Len(stack') = Top /\ stack'[Top] = u /\ Kept(stack, stack', Top - 1)
      BY <1>1, <2>3, TopChange, Zenon
    <2>5. PICK x \in 1 .. Top - 1 : x = Run.at
      BY <1>2
    <2>6. ChainFor(chain', stack, x) /\ (halt' = "no" => IsCurrent(stack, x, cur'))
          /\ pt' = Cardinality(UnwindingIn(stack, x)) + 1
      BY <1>4, <1>5, <1>8, <2>5
    <2>7. Run.target <= x /\ Respects(stack, Top, x) /\ stack[x].k \in {"fn", "catch"}
      BY <1>1, <1>2, <2>5
    <2>8. FramesInv'
      BY <1>1, <2>2, <2>4, <2>5, <2>6, <2>7, UnwindStep
    <2>9. pt' \in Nat
      BY <1>1, <1>8 DEF TypesInv
    <2> QED BY <1>6, <2>8, <2>9
  <1> QED
    <2>1. PICK y : \/ /\ stack' = Next1(stack) /\ pt' = pt
                      /\ \/ Skipped(Run.rec) /\ ~Consolidates(Run)
                         \/ Prog[stack[Run.at].f].unwind = <<>>
                   \/ /\ stack' = [stack EXCEPT ![Top].phase = "states", ![Top].state = y]
                      /\ pt' = pt + 1
      BY Zenon DEF UnwindCxx
    <2>2. Run.at = Run.target => Consolidates(Run) /\ Prog[stack[Run.at].f].unwind # <<>>
      BY <1>1, UnwindAtFunction DEF Consolidates
    <2> QED BY <1>7, <1>8, <2>1, <2>2

(* Frames alike are alike through others. *)
LEMMA UnnoticedTwice ==
    ASSUME NEW a, NEW b, NEW c, Len(a) \in Nat, Unnoticed(a, b), Unnoticed(b, c)
    PROVE  Unnoticed(a, c)
  <1>1. ASSUME NEW p \in 1 .. Len(a) PROVE Like(a[p], c[p]) /\ Own(c[p])
    <2>1. Like(a[p], b[p]) /\ Like(b[p], c[p]) /\ Own(c[p])
      BY DEF Unnoticed
    <2> QED BY <2>1 DEF Like
  <1> QED BY <1>1 DEF Unnoticed

LEMMA UnwindStateStep ==
    ASSUME EhInv, UnwindState
    PROVE  EhInv'
  <1>1. FramesInv /\ TypesInv /\ ParentInv /\ Run.k = "unw" /\ Run.phase = "states"
    BY DEF EhInv, UnwindState, RunIs
  <1>2. /\ Top \in Nat /\ Top > 1 /\ stack[Top] = Run /\ Run.at \in 1 .. Top - 1 /\ Run.at \in Nat
        /\ stack[Run.at].k \in {"fn", "catch"}
    BY <1>1, UnwFacts DEF DownUnw
  <1>3. Own(Run) /\ DOMAIN Run = UnwFields /\ Top \in DOMAIN stack /\ IsStack(stack) /\ Len(stack) = Top
        /\ Top \in 1 .. Top /\ (\A q \in 1 .. Top : Own(stack[q]))
    BY <1>1, <1>2, StackFacts DEF Own, OwnUnw
  <1>4. csp = INVALID_STATE
    BY <1>1, ProgramParent
  <1>5. UNCHANGED <<mode, halt, cur, chain, pt, csp, rethr, thrown, raised, alive, lost>>
    BY DEF UnwindState, runtime
  <1>6. chain' = chain /\ pt' = pt /\ halt' = halt /\ cur' = cur
    BY <1>5
  <1> DEFINE p == Run.at
             f == stack[p].f
             s == Run.state
             next == UWE_TOSTATE(f, s)
             stepped == [stack EXCEPT ![Top].state = next]
             moved == IF mode.fh = 3 THEN [stepped EXCEPT ![Est(p)].us = next]
                      ELSE [stepped EXCEPT ![Top].scope = next + 2]
  <1>7. \/ stack' = stepped \/ stack' = moved \/ stack' = Append(moved, Fn("aux"))
    BY DEF UnwindState
  <1>8. PICK t, n : t = stepped /\ n = next
    BY Zenon
  <1>9. PICK m : m = moved
    BY Zenon
  <1>10. t = [stack EXCEPT ![Top].state = n]
         /\ m = IF mode.fh = 3 THEN [t EXCEPT ![Est(p)].us = n] ELSE [t EXCEPT ![Top].scope = n + 2]
    BY <1>8, <1>9, Zenon
  <1>11. stack' = t \/ stack' = m \/ stack' = Append(m, Fn("aux"))
    BY <1>7, <1>8, <1>9, Zenon
  <1> HIDE DEF p, f, s, next, stepped, moved
  <1>12. PICK e : e = Est(Run.at)
    OBVIOUS
  <1>13. e \in 1 .. Top - 1 /\ stack[e].k = "fn"
    <2>1. Run.at \in 1 .. Top
      BY <1>2
    <2> QED BY <1>1, <1>2, <1>12, <2>1, EstIsFunction
  <1>14. PICK u : u = UnwAs(Run, Run.at, Run.scope, n, "states")
    OBVIOUS
  <1>15. Own(u) /\ u.k = "unw" /\ u.target = Run.target /\ u.hit = Run.hit /\ u.at = Run.at
         /\ u.phase = "states"
    BY <1>1, <1>2, <1>3, <1>14, UnwAsOK
  <1>16. Like(Run, u)
    BY <1>1, <1>15 DEF Like, User
  <1>17. t = [stack EXCEPT ![Top] = u]
    BY <1>1, <1>2, <1>3, <1>10, <1>14, Zenon DEF UnwFields, UnwAs
  <1>18. Changed(stack, t, Top, u) /\ Unnoticed(stack, t)
    BY <1>1, <1>2, <1>3, <1>15, <1>16, <1>17, FrameChange, Zenon
  <1>19. IsStack(t) /\ Len(t) = Top /\ t[Top] = u /\ (\A q \in 1 .. Top : Own(t[q])) /\ t[e] = stack[e]
    BY <1>2, <1>3, <1>13, <1>18 DEF Changed, Unnoticed
  <1>20. Unnoticed(stack, m)
    <2>1. CASE mode.fh = 3
      <3>1. m = [t EXCEPT ![e].us = n]
        BY <1>10, <1>12, <2>1 DEF p
      <3>2. e \in 1 .. Len(t) /\ t[e].k = "fn" /\ \A q \in 1 .. Len(t) : Own(t[q])
        BY <1>2, <1>13, <1>19
      <3>3. Unnoticed(t, m)
        BY <1>19, <3>1, <3>2, UsChange, Zenon
      <3> QED BY <1>2, <1>3, <1>18, <3>3, UnnoticedTwice
    <2>2. CASE mode.fh # 3
      <3>1. m = [t EXCEPT ![Top].scope = n + 2]
        BY <1>10, <2>2
      <3>2. PICK z : z = n + 2
        OBVIOUS
      <3>3. PICK v : v = UnwAs(u, u.at, z, u.state, u.phase)
        OBVIOUS
      <3>4. Own(v) /\ v.k = "unw" /\ v.target = u.target /\ v.hit = u.hit /\ v.at = u.at
            /\ v.phase = u.phase
        BY <1>2, <1>15, <3>3, UnwAsOK
      <3>5. Like(u, v)
        BY <1>15, <3>4 DEF Like, User
      <3>6. m = [t EXCEPT ![Top] = v]
        <4>1. Top \in DOMAIN t
          BY <1>3, <1>19, StackDomain
        <4>2. DOMAIN u = UnwFields
          BY <1>15 DEF Own, OwnUnw
        <4> QED BY <1>19, <3>1, <3>2, <3>3, <4>1, <4>2, Zenon DEF UnwFields, UnwAs
      <3>7. Changed(t, m, Top, v)
        <4>1. Changed(t, [t EXCEPT ![Top] = v], Top, v)
          BY <1>3, <1>19, ChangeFrameTo, Zenon
        <4> QED BY <3>6, <4>1
      <3>8. Unnoticed(t, m)
        BY <1>3, <1>19, <3>4, <3>5, <3>7, ChangeKept, Zenon
      <3> QED BY <1>2, <1>3, <1>18, <3>8, UnnoticedTwice
    <2> QED BY <2>1, <2>2
  <1>21. FramesInv'
    <2>1. ASSUME NEW x, Unnoticed(stack, x), stack' = x PROVE FramesInv'
      BY <1>1, <1>3, <1>6, <2>1, StillStep DEF Unnoticed, Kept
    <2>2. ASSUME stack' = Append(m, Fn("aux")) PROVE FramesInv'
      <3>1. PICK fr : fr = Fn("aux")
        OBVIOUS
      <3>2. Own(fr) /\ fr.k = "fn"
        BY <3>1, EnteredFrame, EhAssumption
      <3>3. IsStack(m) /\ Len(m) = Top /\ Kept(stack, m, Top)
        BY <1>3, <1>20 DEF Unnoticed, Kept
      <3>4. stack' = Append(m, fr)
        BY <2>2, <3>1
      <3>5. stack'[Top + 1] = fr /\ stack'[Top] = m[Top]
        BY <1>3, <3>3, <3>4, PushFrame
      <3>6. m[Top].k = "unw" /\ m[Top].phase = "states"
        BY <1>1, <1>2, <1>3, <3>3 DEF Kept, Like
      <3>7. Down(stack', Top + 1)
        BY <1>2, <3>2, <3>5, <3>6 DEF Down, DownFn, DownSeh, DownCatch, DownCcb, DownRaise, DownUnw
      <3> QED BY <1>1, <1>6, <3>2, <3>3, <3>4, <3>7, PushStep
    <2> QED BY <1>11, <1>18, <1>20, <2>1, <2>2
  <1>22. TypesInv' /\ ParentInv'
    BY <1>1, <1>4, <1>5, ParentInvalid DEF TypesInv
  <1> QED BY <1>21, <1>22 DEF EhInv

LEMMA FrameUnwoundStep ==
    ASSUME EhInv, FrameUnwound
    PROVE  EhInv'
  <1>1. FramesInv /\ TypesInv /\ ParentInv /\ Run.k = "unw" /\ Run.phase = "states"
    BY DEF EhInv, FrameUnwound, RunIs
  <1>2. /\ Top \in Nat /\ Top > 1 /\ stack[Top] = Run /\ Run.target \in 1 .. Run.at
        /\ Run.at \in 1 .. Top - 1 /\ Run.at \in Nat /\ Respects(stack, Top, Run.at)
        /\ stack[Run.at].k \in {"fn", "catch"}
    BY <1>1, UnwFacts DEF DownUnw
  <1>3. Own(Run) /\ DOMAIN Run = UnwFields /\ Top \in DOMAIN stack /\ IsStack(stack) /\ Len(stack) = Top
        /\ Top \in 1 .. Top /\ (\A q \in 1 .. Top : Own(stack[q]))
    BY <1>1, <1>2, StackFacts DEF Own, OwnUnw
  <1>4. csp = INVALID_STATE
    BY <1>1, ProgramParent
  <1>5. /\ csp' = INVALID_STATE /\ chain' = chain /\ pt' = Decrement(pt)
        /\ UNCHANGED <<mode, halt, cur, rethr, thrown, raised, live, alive, lost>>
    BY <1>4 DEF FrameUnwound, ghost, Invalidated
  <1>6. /\ ChainFor(chain, stack, Run.at) /\ (halt = "no" => IsCurrent(stack, Run.at, cur))
        /\ pt = Cardinality(UnwindingIn(stack, Run.at)) + 1
    BY <1>1, UnwindNow
  <1>7. pt' = Cardinality(UnwindingIn(stack, Run.at)) /\ pt' \in Nat
    <2>1. Cardinality(UnwindingIn(stack, Run.at)) \in Nat
      BY <1>2, UnwindingCount
    <2> QED BY <1>5, <1>6, <2>1 DEF Decrement
  <1>8. PICK s : s = IF mode.fh = 3 THEN [stack EXCEPT ![Est(Run.at)].us = Run.state] ELSE stack
    BY Zenon
  <1>9. stack' = IF Run.at = Run.target THEN [s EXCEPT ![Top].phase = "land"]
                 ELSE [Next1(s) EXCEPT ![Top].phase = "scan"]
    BY <1>8, Zenon DEF FrameUnwound
  <1>10. IsStack(s) /\ Len(s) = Top /\ Kept(stack, s, Top - 1) /\ s[Top] = Run /\ Top \in DOMAIN s
    <2>1. CASE mode.fh = 3
      <3>1. PICK e, n : e = Est(Run.at) /\ n = Run.state
        OBVIOUS
      <3>2. e \in 1 .. Top - 1 /\ stack[e].k = "fn"
        <4>1. Run.at \in 1 .. Top
          BY <1>2
        <4> QED BY <1>1, <1>2, <3>1, <4>1, EstIsFunction
      <3>3. s = [stack EXCEPT ![e].us = n]
        BY <1>8, <2>1, <3>1
      <3>4. e \in 1 .. Len(stack) /\ IsStack(stack) /\ \A q \in 1 .. Len(stack) : Own(stack[q])
        BY <1>2, <1>3, <3>2
      <3>5. Unnoticed(stack, s) /\ \A q \in 1 .. Len(stack) : q # e => s[q] = stack[q]
        <4>1. PICK t : t = stack
          OBVIOUS
        <4>2. /\ e \in 1 .. Len(t) /\ t[e].k = "fn" /\ s = [t EXCEPT ![e].us = n] /\ IsStack(t)
              /\ \A q \in 1 .. Len(t) : Own(t[q])
          BY <3>2, <3>3, <3>4, <4>1
        <4>3. Unnoticed(t, s)
          BY <4>2, UsChange, Zenon
        <4>4. \A q \in 1 .. Len(t) : q # e => s[q] = t[q]
          BY <4>2, UsChange
        <4> QED BY <4>1, <4>3, <4>4
      <3>6. IsStack(s) /\ Len(s) = Top /\ Kept(stack, s, Top - 1) /\ s[Top] = Run
        BY <1>2, <1>3, <3>2, <3>5 DEF Unnoticed, Kept
      <3> QED BY <1>3, <3>6, StackDomain
    <2>2. CASE mode.fh # 3
      <3>1. s = stack
        BY <1>8, <2>2
      <3> QED BY <1>2, <1>3, <3>1, LikeItself DEF Kept
    <2> QED BY <2>1, <2>2
  <1>11. CASE Run.at = Run.target
    <2>1. PICK u : u = UnwAs(Run, Run.at, Run.scope, Run.state, "land")
      OBVIOUS
    <2>2. Own(u) /\ u.k = "unw" /\ u.target = Run.target /\ u.hit = Run.hit /\ u.at = Run.at
          /\ u.phase = "land"
      BY <1>1, <1>2, <1>3, <2>1, UnwAsOK
    <2>3. stack' = [s EXCEPT ![Top] = u]
      BY <1>3, <1>9, <1>10, <1>11, <2>1, Zenon DEF UnwFields, UnwAs
    <2>4. IsStack(stack') /\ Len(stack') = Top /\ stack'[Top] = u /\ Kept(stack, stack', Top - 1)
      <3>1. Changed(s, stack', Top, u) /\ Kept(stack, stack', Top - 1)
        BY <1>1, <1>10, <2>3, ThenTop, Zenon
      <3> QED BY <1>10, <3>1 DEF Changed
    <2>5. PICK x \in 1 .. Top - 1 : x = Run.at
      BY <1>2
    <2>6. ChainFor(chain', stack, x) /\ (halt' = "no" => IsCurrent(stack, x, cur'))
          /\ pt' = Cardinality(UnwindingIn(stack, x))
      BY <1>5, <1>6, <1>7, <2>5
    <2>7. Run.target <= x /\ Respects(stack, Top, x) /\ x = Run.target /\ Run.hit # NoHit
      BY <1>1, <1>2, <1>11, <2>5, UnwindAtFunction
    <2>8. FramesInv'
      BY <1>1, <2>2, <2>4, <2>5, <2>6, <2>7, UnwindStep
    <2>9. TypesInv'
      BY <1>1, <1>5, <1>7 DEF TypesInv, INVALID_STATE
    <2> QED BY <1>5, <2>8, <2>9, ParentInvalid DEF EhInv
  <1>12. CASE Run.at # Run.target
    <2>1. PICK u : u = UnwAs(Run, Run.at - 1, 0, Run.state, "scan")
      OBVIOUS
    <2>2. Run.at - 1 \in 1 .. Top - 1 /\ Run.target <= Run.at - 1 /\ Respects(stack, Top, Run.at - 1)
          /\ HandlersIn(stack, Run.at) = HandlersIn(stack, Run.at - 1)
          /\ UnwindingIn(stack, Run.at) = UnwindingIn(stack, Run.at - 1)
      BY <1>1, <1>2, <1>12, NextDown
    <2>3. Own(u) /\ u.k = "unw" /\ u.target = Run.target /\ u.hit = Run.hit /\ u.at = Run.at - 1
          /\ u.phase = "scan"
      <3>1. Run.at - 1 \in Nat
        BY <2>2
      <3> QED BY <1>1, <1>3, <2>1, <3>1, UnwAsOK
    <2>4. stack' = [s EXCEPT ![Top] = u]
      BY <1>3, <1>9, <1>10, <1>12, <2>1, Zenon DEF Next1, UnwFields, UnwAs
    <2>5. IsStack(stack') /\ Len(stack') = Top /\ stack'[Top] = u /\ Kept(stack, stack', Top - 1)
      <3>1. Changed(s, stack', Top, u) /\ Kept(stack, stack', Top - 1)
        BY <1>1, <1>10, <2>4, ThenTop, Zenon
      <3> QED BY <1>10, <3>1 DEF Changed
    <2>6. PICK x \in 1 .. Top - 1 : x = Run.at - 1
      BY <2>2
    <2>7. ChainFor(chain', stack, x) /\ (halt' = "no" => IsCurrent(stack, x, cur'))
          /\ pt' = Cardinality(UnwindingIn(stack, x))
      BY <1>5, <1>6, <1>7, <2>2, <2>6, Zenon DEF ChainFor, IsCurrent
    <2>8. FramesInv'
      BY <1>1, <2>2, <2>3, <2>5, <2>6, <2>7, UnwindStep
    <2>9. TypesInv'
      BY <1>1, <1>5, <1>7 DEF TypesInv, INVALID_STATE
    <2> QED BY <1>5, <2>8, <2>9, ParentInvalid DEF EhInv
  <1> QED BY <1>11, <1>12

LEMMA UnwindOtherStep ==
    ASSUME EhInv, UnwindOther
    PROVE  EhInv'
  <1>1. FramesInv /\ TypesInv /\ ParentInv /\ Run.k = "unw" /\ Run.phase = "scan"
        /\ stack[Run.at].k \in {"seh", "raise"} /\ Run.at # Run.target
    BY DEF EhInv, UnwindOther, RunIs
  <1>2. /\ Top \in Nat /\ Top > 1 /\ stack[Top] = Run /\ Run.at \in Nat
    BY <1>1, UnwFacts
  <1>3. Own(Run) /\ DOMAIN Run = UnwFields /\ Top \in DOMAIN stack
    BY <1>1, <1>2, StackFacts DEF Own, OwnUnw
  <1>4. csp = INVALID_STATE
    BY <1>1 DEF ParentInv
  <1>5. /\ csp' = INVALID_STATE /\ chain' = chain /\ pt' = pt /\ stack' = Next1(stack)
        /\ UNCHANGED <<mode, halt, cur, rethr, thrown, raised, live, alive, lost>>
    BY <1>4 DEF UnwindOther, ghost, Invalidated
  <1>6. /\ ChainFor(chain, stack, Run.at) /\ (halt = "no" => IsCurrent(stack, Run.at, cur))
        /\ pt = Cardinality(UnwindingIn(stack, Run.at))
    BY <1>1, UnwindNow
  <1>7. PICK u : u = UnwAs(Run, Run.at - 1, 0, Run.state, Run.phase)
    OBVIOUS
  <1>8. Run.at - 1 \in 1 .. Top - 1 /\ Run.target <= Run.at - 1 /\ Respects(stack, Top, Run.at - 1)
        /\ HandlersIn(stack, Run.at) = HandlersIn(stack, Run.at - 1)
        /\ UnwindingIn(stack, Run.at) = UnwindingIn(stack, Run.at - 1)
    BY <1>1, NextDown
  <1>9. Own(u) /\ u.k = "unw" /\ u.target = Run.target /\ u.hit = Run.hit /\ u.at = Run.at - 1
        /\ u.phase = "scan"
    <2>1. Run.at - 1 \in Nat
      BY <1>8
    <2> QED BY <1>1, <1>3, <1>7, <2>1, UnwAsOK
  <1>10. stack' = [stack EXCEPT ![Top] = u]
    BY <1>2, <1>3, <1>5, <1>7, Zenon DEF Next1, UnwFields, UnwAs
  <1>11. IsStack(stack') /\ Len(stack') = Top /\ stack'[Top] = u /\ Kept(stack, stack', Top - 1)
    BY <1>1, <1>10, TopChange, Zenon
  <1>12. PICK x \in 1 .. Top - 1 : x = Run.at - 1
    BY <1>8
  <1>13. ChainFor(chain', stack, x) /\ (halt' = "no" => IsCurrent(stack, x, cur'))
         /\ pt' = Cardinality(UnwindingIn(stack, x))
    BY <1>5, <1>6, <1>8, <1>12, Zenon DEF ChainFor, IsCurrent
  <1>14. FramesInv'
    BY <1>1, <1>8, <1>9, <1>11, <1>12, <1>13, UnwindStep
  <1>15. TypesInv'
    BY <1>1, <1>5 DEF TypesInv, INVALID_STATE
  <1> QED BY <1>5, <1>14, <1>15, ParentInvalid DEF EhInv

LEMMA UnwindCatchBlockStep ==
    ASSUME EhInv, UnwindCatchBlock
    PROVE  EhInv'
  <1>1. FramesInv /\ TypesInv /\ ParentInv /\ Run.k = "unw" /\ Run.phase = "scan"
        /\ stack[Run.at].k = "ccb" /\ Run.at # Run.target
    BY DEF EhInv, UnwindCatchBlock, RunIs
  <1>2. /\ Top \in Nat /\ Top > 1 /\ stack[Top] = Run /\ Run.at \in Nat /\ Run.at \in 1 .. Top - 1
        /\ Run.at \in 1 .. Top
    BY <1>1, UnwFacts
  <1>3. Own(Run) /\ DOMAIN Run = UnwFields /\ Top \in DOMAIN stack /\ Own(stack[Run.at]) /\ Top = Len(stack)
    BY <1>1, <1>2, StackFacts DEF Own, OwnUnw
  <1>4. PICK a : a = Run.at
    OBVIOUS
  <1>5. /\ LeaveCatchBlock(a) /\ pt' = pt /\ stack' = Next1(stack)
        /\ csp' = IF mode.fh = 4 THEN Try(stack[a - 1].f, stack[a].try).low ELSE csp
        /\ UNCHANGED <<mode, halt, rethr, thrown, raised, live, lost>>
    BY <1>4 DEF UnwindCatchBlock
  <1>6. /\ ChainFor(chain, stack, a) /\ (halt = "no" => IsCurrent(stack, a, cur))
        /\ pt = Cardinality(UnwindingIn(stack, a))
    BY <1>1, <1>4, UnwindNow
  <1>7. PICK u : u = UnwAs(Run, Run.at - 1, 0, Run.state, Run.phase)
    OBVIOUS
  <1>8. a - 1 \in 1 .. Top - 1 /\ Run.target <= a - 1 /\ Respects(stack, Top, a - 1)
        /\ HandlersIn(stack, a) = HandlersIn(stack, a - 1) \cup {a}
        /\ UnwindingIn(stack, a) = UnwindingIn(stack, a - 1)
    BY <1>1, <1>4, NextDown
  <1>9. Own(u) /\ u.k = "unw" /\ u.target = Run.target /\ u.hit = Run.hit /\ u.at = a - 1
        /\ u.phase = "scan" /\ u.scope = 0
    <2>1. Run.at - 1 \in Nat
      BY <1>4, <1>8
    <2> QED BY <1>1, <1>3, <1>4, <1>7, <2>1, UnwAsOK
  <1>10. stack' = [stack EXCEPT ![Top] = u]
    BY <1>2, <1>3, <1>5, <1>7, Zenon DEF Next1, UnwFields, UnwAs
  <1>11. IsStack(stack') /\ Len(stack') = Top /\ stack'[Top] = u /\ Kept(stack, stack', Top - 1)
    BY <1>1, <1>10, TopChange, Zenon
  <1>12. PICK x \in 1 .. Top - 1 : x = a - 1
    BY <1>8
  <1>13. ChainFor(chain', stack, x)
    <2>1. ChainFor(Unlinked(a), stack, a - 1)
      BY <1>2, <1>4, <1>6, <1>8, Unlink
    <2> QED BY <1>5, <1>12, <2>1 DEF LeaveCatchBlock
  <1>14. IsCurrent(stack, x, cur')
    <2>1. IsCurrent(stack, a - 1, stack[a].saved)
      BY <1>1, <1>2, <1>3, <1>4 DEF FramesInv, StackOK, SavedRight
    <2> QED BY <1>5, <1>12, <2>1 DEF LeaveCatchBlock
  <1>15. pt' = Cardinality(UnwindingIn(stack, x))
    BY <1>5, <1>6, <1>8, <1>12
  <1>16. FramesInv' /\ Top' = Top /\ Run' = u
    BY <1>1, <1>8, <1>9, <1>11, <1>12, <1>13, <1>14, <1>15, UnwindStep
  <1>17. a > 1 /\ stack[a - 1].k \in {"fn", "catch"} /\ Try(stack[a - 1].f, stack[a].try).low \in Int
    BY <1>1, <1>2, <1>4, BelowCatchBlock DEF Accepts
  <1>18. csp' \in Int /\ (csp' # INVALID_STATE => mode'.fh = 4)
    <2>1. csp # INVALID_STATE => mode.fh = 4
      BY <1>1 DEF ParentInv
    <2> QED BY <1>1, <1>5, <1>17, <2>1 DEF TypesInv
  <1>19. stack'[a] = stack[a] /\ stack'[a - 1] = stack[a - 1]
    BY <1>1, <1>2, <1>4, <1>10, <1>17, TopChange
  <1>20. ParentInv'
    BY <1>1, <1>2, <1>4, <1>9, <1>16, <1>17, <1>18, <1>19 DEF ParentInv
  <1>21. cur' \in Records /\ alive' \subseteq alive
    BY <1>1, <1>3, <1>4, <1>5 DEF LeaveCatchBlock, Own, OwnCcb
  <1>22. TypesInv'
    <2>1. alive' \subseteq 1 .. Len(thrown')
      BY <1>1, <1>5, <1>21 DEF TypesInv
    <2> QED BY <1>1, <1>5, <1>18, <1>21, <2>1 DEF TypesInv
  <1> QED BY <1>16, <1>20, <1>22 DEF EhInv

LEMMA UnwindUnwindStep ==
    ASSUME EhInv, UnwindUnwind
    PROVE  EhInv'
  <1>1. FramesInv /\ TypesInv /\ ParentInv /\ Run.k = "unw" /\ Run.phase = "scan"
        /\ stack[Run.at].k = "unw"
    BY DEF EhInv, UnwindUnwind, RunIs
  <1>2. /\ Top \in Nat /\ Top > 1 /\ stack[Top] = Run /\ Run.at \in Nat /\ Run.at \in 1 .. Top - 1
        /\ Run.at \in 1 .. Top /\ Respects(stack, Top, Run.at) /\ Respects(stack, Top, Run.target)
        /\ Run.target \in 1 .. Run.at /\ Lands(stack, Run)
    BY <1>1, UnwFacts
  <1>3. Own(Run) /\ DOMAIN Run = UnwFields /\ Top \in DOMAIN stack /\ Top = Len(stack)
        /\ (\A q \in 1 .. Top : Own(stack[q])) /\ Down(stack, Run.at)
    BY <1>1, <1>2, StackFacts DEF Own, OwnUnw
  <1>4. PICK a : a = Run.at
    OBVIOUS
  <1>5. stack[a].phase = "states" /\ stack[a].at \in 1 .. a - 1 /\ stack[stack[a].at].k \in {"fn", "catch"}
    BY <1>1, <1>2, <1>4, CoveredUnwind
  <1>6. PICK x : x = stack[a].at
    OBVIOUS
  <1>7. x \in 1 .. Top - 1 /\ x \in Nat /\ a \in Nat /\ x < a
    BY <1>2, <1>4, <1>5, <1>6
  <1>8. csp = INVALID_STATE
    BY <1>1 DEF ParentInv
  <1>9. /\ csp' = INVALID_STATE /\ chain' = chain /\ pt' = Decrement(pt)
        /\ stack' = [stack EXCEPT ![Top].at = x, ![Top].scope = stack[a].scope]
        /\ UNCHANGED <<mode, halt, cur, rethr, thrown, raised, live, alive, lost>>
    BY <1>4, <1>6, <1>8 DEF UnwindUnwind, ghost, Invalidated
  <1>10. /\ ChainFor(chain, stack, a) /\ (halt = "no" => IsCurrent(stack, a, cur))
         /\ pt = Cardinality(UnwindingIn(stack, a))
    BY <1>1, <1>4, UnwindNow
  <1>11. HandlersIn(stack, a) = HandlersIn(stack, x) /\ UnwindingIn(stack, a) = UnwindingIn(stack, x) \cup {a}
    <2>1. stack[a].k = "unw" /\ a > 0 /\ (\A q \in 1 .. a : Own(stack[q])) /\ Down(stack, a)
      BY <1>1, <1>2, <1>3, <1>4
    <2>2. /\ HandlersIn(stack, a) = HandlersIn(stack, stack[a].at)
          /\ stack[a].phase = "states" =>
                 UnwindingIn(stack, a) = UnwindingIn(stack, stack[a].at) \cup {a}
      BY <1>7, <2>1, HandlersOfUnwind
    <2> QED BY <1>5, <1>6, <2>2
  <1>12. pt' = Cardinality(UnwindingIn(stack, x)) /\ pt' \in Nat
    <2>1. Cardinality(UnwindingIn(stack, x)) \in Nat
          /\ Cardinality(UnwindingIn(stack, x) \cup {a}) = Cardinality(UnwindingIn(stack, x)) + 1
      BY <1>7, UnwindingCount
    <2> QED BY <1>9, <1>10, <1>11, <2>1 DEF Decrement
  <1>13. PICK z, u : z = stack[a].scope /\ u = UnwAs(Run, x, z, Run.state, Run.phase)
    OBVIOUS
  <1>14. Own(u) /\ u.k = "unw" /\ u.target = Run.target /\ u.hit = Run.hit /\ u.at = x
         /\ u.phase = "scan"
    <2>1. Own(Run) /\ Run.k = "unw" /\ x \in Nat /\ Run.phase \in {"scan", "states", "land"}
      BY <1>1, <1>3, <1>7
    <2> QED BY <1>1, <1>13, <2>1, UnwAsOK
  <1>15. stack' = [stack EXCEPT ![Top] = u]
    BY <1>2, <1>3, <1>9, <1>13, Zenon DEF UnwFields, UnwAs
  <1>16. IsStack(stack') /\ Len(stack') = Top /\ stack'[Top] = u /\ Kept(stack, stack', Top - 1)
    BY <1>1, <1>15, TopChange, Zenon
  <1>17. Run.target <= x
    <2>1. Run.target # a
      BY <1>1, <1>2, <1>4 DEF Lands, Accepts
    <2>2. a \in 1 .. Top - 1 /\ Run.target < a
      BY <1>2, <1>4, <2>1
    <2> QED BY <1>1, <1>2, <1>4, <1>6, <2>2 DEF Respects
  <1>18. Respects(stack, Top, x)
    BY <1>1, <1>2, <1>3, <1>4, <1>6, RespectsOver
  <1>19. ChainFor(chain', stack, x) /\ (halt' = "no" => IsCurrent(stack, x, cur'))
    BY <1>9, <1>10, <1>11 DEF ChainFor, IsCurrent
  <1>20. FramesInv'
    BY <1>1, <1>7, <1>12, <1>14, <1>16, <1>17, <1>18, <1>19, UnwindStep
  <1>21. TypesInv'
    BY <1>1, <1>9, <1>12 DEF TypesInv, INVALID_STATE
  <1> QED BY <1>9, <1>20, <1>21, ParentInvalid DEF EhInv

(* Landing: the stack is cut at the target. *)
LEMMA InFlightOK ==
    ASSUME FramesInv, NEW p \in Nat
    PROVE  Replaced(p) \subseteq Records
  <1> SUFFICES ASSUME NEW q \in p + 1 .. Top - 2, stack[q].k \in {"raise", "unw"}
               PROVE  InFlight(stack[q]) \in Records
    BY DEF Replaced
  <1>1. q \in 1 .. Top /\ Top \in Nat
    BY StackFacts
  <1>2. Own(stack[q]) /\ Down(stack, q)
    BY <1>1, StackFacts
  <1>3. stack[q].rec \in Records
    BY <1>2 DEF Own, OwnRaise, OwnUnw
  <1>4. ASSUME stack[q].k = "unw", stack[q].target < Top, stack[stack[q].target].k = "ccb"
        PROVE  stack[stack[q].target].rec \in Records
    <2>1. stack[q].target \in 1 .. Top
      BY <1>1, <1>2, <1>4 DEF Own, OwnUnw, Down, DownUnw
    <2>2. PICK t \in 1 .. Top : t = stack[q].target
      BY <2>1
    <2>3. Own(stack[t])
      BY StackFacts
    <2> QED BY <1>4, <2>2, <2>3 DEF Own, OwnCcb
  <1>5. Rethrown \in Records
    BY DEF Records
  <1> QED BY <1>3, <1>4, <1>5 DEF InFlight

LEMMA FramesNew ==
    ASSUME FramesInv, NEW n, Extended(stack, stack', n), ChainFor(chain', stack', Len(stack')),
           CountOK(pt', stack'), IsCurrent(stack', Len(stack'), cur')
    PROVE  FramesInv'
  <1>1. StackOK(stack')
    BY StackStep DEF FramesInv
  <1> QED BY <1>1 DEF FramesInv, ChainOK, CurrentOK

LEMMA LandInBuildStep ==
    ASSUME EhInv, LandInBuild
    PROVE  EhInv'
  <1>1. FramesInv /\ TypesInv /\ ParentInv /\ Run.k = "unw" /\ stack[Run.at].k = "raise"
    BY DEF EhInv, LandInBuild, RunIs
  <1>2. stack' = stack /\ halt' = "abort" /\ cur' = cur
        /\ UNCHANGED <<mode, chain, pt, csp, rethr, thrown, raised, live, alive, lost>>
    BY DEF LandInBuild, Halted, ghost
  <1>3. FramesInv'
    BY <1>1, <1>2 DEF FramesInv, CurrentOK
  <1>4. csp = INVALID_STATE
    BY <1>1 DEF ParentInv
  <1>5. TypesInv'
    BY <1>1, <1>2 DEF TypesInv
  <1> QED BY <1>2, <1>3, <1>4, <1>5, ParentInvalid DEF EhInv

LEMMA LandInSehStep ==
    ASSUME EhInv, LandInSeh
    PROVE  EhInv'
  <1>1. FramesInv /\ TypesInv /\ ParentInv /\ Run.k = "unw" /\ Run.phase = "scan" /\ halt = "no"
        /\ Run.at = Run.target /\ stack[Run.at].k = "seh"
    BY DEF EhInv, LandInSeh, RunIs, Running
  <1>2. Top \in Nat /\ Top > 1 /\ Top = Len(stack) /\ Run.at \in 1 .. Top - 1 /\ IsStack(stack)
        /\ (\A q \in 1 .. Top : Own(stack[q])) /\ Run.target \in 1 .. Top - 1
    BY <1>1, UnwFacts, StackFacts
  <1>3. PICK p \in 1 .. Top - 1 : p = Run.target
    BY <1>2
  <1>4. p \in Nat /\ p > 0 /\ p \in 0 .. Len(stack) /\ p <= Len(stack) /\ stack[p].k = "seh"
    BY <1>1, <1>2, <1>3
  <1>5. /\ UNCHANGED <<mode, halt, cur, chain, pt, csp, rethr, thrown, raised, alive>>
        /\ lost' = lost \cup Replaced(p)
    BY <1>3 DEF LandInSeh, runtime
  <1>6. PICK cut : cut = SubSeq(stack, 1, p)
    BY Zenon
  <1>7. IsStack(cut) /\ Len(cut) = p /\ \A q \in 1 .. p : cut[q] = stack[q]
    BY <1>2, <1>4, <1>6, CutFrames
  <1>8. stack' = [cut EXCEPT ![p].ip = EH_EMPTY_STATE]
    BY <1>3, <1>6, Zenon DEF LandInSeh
  <1>9. Unnoticed(cut, stack')
    <2>1. p \in 1 .. Len(cut) /\ cut[p].k = "seh" /\ \A q \in 1 .. Len(cut) : Own(cut[q])
      BY <1>2, <1>4, <1>7
    <2>2. PICK s : s = EH_EMPTY_STATE
      OBVIOUS
    <2>3. stack' = [cut EXCEPT ![p].ip = s] /\ s \in {0, EH_EMPTY_STATE}
      BY <1>8, <2>2
    <2> QED BY <1>7, <2>1, <2>3, IpChange, Zenon DEF User
  <1>10. IsStack(stack') /\ Len(stack') = p /\ Kept(stack, stack', p)
    BY <1>4, <1>7, <1>9 DEF Unnoticed, Kept
  <1>11. Extended(stack, stack', p)
    BY <1>4, <1>10 DEF Extended
  <1>12. /\ ChainFor(chain, stack, p) /\ IsCurrent(stack, p, cur)
         /\ pt = Cardinality(UnwindingIn(stack, p))
    BY <1>1, <1>3, UnwindNow
  <1>13. ChainFor(chain', stack', p)
    BY <1>4, <1>5, <1>10, <1>12, ChainSame
  <1>14. IsCurrent(stack', p, cur')
    BY <1>4, <1>5, <1>10, <1>12, CurrentKept
  <1>15. CountOK(pt', stack')
    BY <1>4, <1>5, <1>10, <1>12, HandlersKept DEF CountOK
  <1>16. FramesInv'
    BY <1>1, <1>10, <1>11, <1>13, <1>14, <1>15, FramesBack
  <1>17. csp = INVALID_STATE
    BY <1>1 DEF ParentInv
  <1>18. lost' \subseteq Records
    BY <1>1, <1>4, <1>5, InFlightOK DEF TypesInv
  <1>19. TypesInv'
    BY <1>1, <1>5, <1>18 DEF TypesInv
  <1> QED BY <1>5, <1>16, <1>17, <1>19, ParentInvalid DEF EhInv

(* The catch block that "throw;" has left. *)
Excepting(fr) == [fr EXCEPT !.phase = "except", !.rethrow = TRUE]

LEMMA ExceptingOK ==
    ASSUME NEW fr, fr.k = "ccb", Own(fr)
    PROVE  /\ Own(Excepting(fr)) /\ Excepting(fr).k = "ccb" /\ Excepting(fr).phase = "except"
           /\ Excepting(fr).rec = fr.rec /\ Excepting(fr).saved = fr.saved
           /\ Excepting(fr).try = fr.try
  <1>1. DOMAIN fr = CcbFields /\ OwnCcb(fr)
    BY DEF Own, OwnCcb
  <1>2. PICK r : r = Excepting(fr)
    OBVIOUS
  <1>3. /\ DOMAIN r = CcbFields /\ r.k = "ccb" /\ r.rec = fr.rec /\ r.saved = fr.saved
        /\ r.try = fr.try /\ r.phase = "except" /\ r.rethrow \in BOOLEAN
    BY <1>1, <1>2 DEF CcbFields, Excepting
  <1>4. Own(r)
    BY <1>1, <1>3 DEF Own, OwnFn, OwnSeh, OwnCatch, OwnCcb, OwnRaise, OwnUnw, Kinds
  <1> QED BY <1>2, <1>3, <1>4

LEMMA LandInCatchBlockStep ==
    ASSUME EhInv, LandInCatchBlock
    PROVE  EhInv'
  <1>1. FramesInv /\ TypesInv /\ ParentInv /\ Run.k = "unw" /\ Run.phase = "scan" /\ halt = "no"
        /\ Run.at = Run.target /\ stack[Run.at].k = "ccb"
    BY DEF EhInv, LandInCatchBlock, RunIs, Running
  <1>2. Top \in Nat /\ Top > 1 /\ Top = Len(stack) /\ Run.at \in 1 .. Top - 1 /\ IsStack(stack)
        /\ (\A q \in 1 .. Top : Own(stack[q])) /\ Run.target \in 1 .. Top - 1
    BY <1>1, UnwFacts, StackFacts
  <1>3. PICK p \in 1 .. Top - 1 : p = Run.target
    BY <1>2
  <1>4. p \in Nat /\ p > 0 /\ p \in 0 .. Len(stack) /\ p <= Len(stack) /\ p \in 1 .. Top /\ stack[p].k = "ccb"
        /\ Own(stack[p])
    BY <1>1, <1>2, <1>3
  <1>5. /\ UNCHANGED <<mode, halt, cur, chain, pt, thrown, raised, alive>>
        /\ lost' = lost \cup Replaced(p) /\ rethr' = FALSE
        /\ csp' = IF mode.fh = 4 THEN Try(stack[p - 1].f, stack[p].try).catchHigh ELSE csp
    BY <1>3, Zenon DEF LandInCatchBlock
  <1>6. /\ p > 1 /\ Accepts(stack, p - 1, stack[p].try)
        /\ Try(stack[p - 1].f, stack[p].try).catchHigh \in Int
    BY <1>1, <1>4, BelowCatchBlock
  <1>7. PICK cut : cut = SubSeq(stack, 1, p)
    BY Zenon
  <1>8. IsStack(cut) /\ Len(cut) = p /\ \A q \in 1 .. p : cut[q] = stack[q]
    BY <1>2, <1>4, <1>7, CutFrames
  <1>9. PICK c : c = Excepting(stack[p])
    OBVIOUS
  <1>10. Own(c) /\ c.k = "ccb" /\ c.phase = "except" /\ c.rec = stack[p].rec
         /\ c.saved = stack[p].saved /\ c.try = stack[p].try
    BY <1>4, <1>9, ExceptingOK
  <1>11. PICK s : s = [cut EXCEPT ![p] = c]
    BY Zenon
  <1>12. IsStack(s) /\ Len(s) = p /\ s[p] = c /\ \A q \in 1 .. p : q # p => s[q] = stack[q]
    <2>1. p \in 1 .. Len(cut)
      BY <1>4, <1>8
    <2>2. Changed(cut, [cut EXCEPT ![p] = c], p, c)
      BY <1>8, <2>1, ChangeFrameTo, Zenon
    <2>3. Changed(cut, s, p, c)
      BY <1>11, <2>2
    <2> QED BY <1>4, <1>8, <2>3 DEF Changed
  <1>13. PICK rec, want : rec = stack[p].rec /\ want = Expected(s, stack[p].rec)
    OBVIOUS
  <1>14. rec \in Records
    BY <1>4, <1>13 DEF Own, OwnCcb
  <1>15. PICK r : r = Raise(rec, p, want)
    OBVIOUS
  <1>16. stack' = Append(s, r)
    <2>1. s = [SubSeq(stack, 1, p) EXCEPT ![p].phase = "except", ![p].rethrow = TRUE]
      <3>1. p \in DOMAIN cut /\ DOMAIN stack[p] = CcbFields /\ cut[p] = stack[p]
        BY <1>4, <1>8, StackDomain DEF Own, OwnCcb
      <3> QED BY <1>7, <1>9, <1>11, <3>1, Zenon DEF Excepting, CcbFields
    <2>2. stack' = Append(s, Raise(stack[p].rec, p, Expected(s, stack[p].rec)))
      BY <1>3, <2>1, Zenon DEF LandInCatchBlock
    <2> QED BY <1>13, <1>15, <2>2, Zenon
  <1>17. Own(r) /\ r.k = "raise" /\ r.at = p /\ r.phase = "scan" /\ ~r.again /\ r.scope = 0
    BY <1>4, <1>14, <1>15, RaiseFrame
  <1>18. /\ IsStack(stack') /\ Len(stack') = p + 1 /\ stack'[p + 1] = r
         /\ \A q \in 1 .. p : stack'[q] = s[q]
    <2>1. /\ IsStack(Append(s, r)) /\ Len(Append(s, r)) = Len(s) + 1 /\ Append(s, r)[Len(s) + 1] = r
          /\ \A q \in 1 .. Len(s) : Append(s, r)[q] = s[q]
      BY <1>12, PushFrame
    <2> QED BY <1>12, <1>16, <2>1
  <1>19. stack'[p] = c /\ \A q \in 1 .. p - 1 : stack'[q] = stack[q]
    BY <1>4, <1>12, <1>18
  <1>20. Kept(stack, stack', p - 1)
    BY <1>2, <1>4, <1>19, LikeItself DEF Kept
  <1>21. Down(stack', p)
    <2>1. p - 1 \in Nat /\ p - 1 \in 1 .. p - 1
      BY <1>4, <1>6
    <2>2. PICK i, q : i = stack[p].try /\ q = p - 1
      OBVIOUS
    <2>3. Accepts(stack', q, i)
      BY <1>6, <1>20, <2>1, <2>2, AcceptsKept
    <2>4. DownCcb(stack', p)
      BY <1>6, <1>10, <1>19, <2>2, <2>3 DEF DownCcb
    <2> QED BY <1>10, <1>19, <2>4 DEF Down, DownFn, DownSeh, DownCatch, DownRaise, DownUnw
  <1>22. Down(stack', p + 1)
    <2>1. stack'[p].k = "ccb" /\ stack'[p].phase = "except" /\ stack'[p + 1] = Raise(rec, p, want)
      BY <1>10, <1>15, <1>18, <1>19
    <2> QED BY <1>4, <1>14, <2>1, DownRaiseFrame
  <1>23. IsCurrent(stack', p - 1, c.saved)
    <2>1. IsCurrent(stack, p - 1, c.saved)
      BY <1>1, <1>2, <1>4, <1>10 DEF FramesInv, StackOK, SavedRight
    <2>2. p - 1 \in Nat
      BY <1>4
    <2> QED BY <1>20, <2>1, <2>2, CurrentKept
  <1>24. Extended(stack, stack', p - 1)
    <2>1. \A q \in p - 1 + 1 .. Len(stack') : q = p \/ q = p + 1
      BY <1>4, <1>18
    <2> QED BY <1>4, <1>6, <1>10, <1>17, <1>18, <1>19, <1>20, <1>21, <1>22, <1>23, <2>1 DEF Extended
  <1>25. /\ ChainFor(chain, stack, p) /\ IsCurrent(stack, p, cur)
         /\ pt = Cardinality(UnwindingIn(stack, p))
    BY <1>1, <1>3, UnwindNow
  <1>26. /\ HandlersIn(stack', p + 1) = HandlersIn(stack, p)
         /\ UnwindingIn(stack', p + 1) = UnwindingIn(stack, p)
    <2>1. /\ HandlersIn(stack', p + 1) = HandlersIn(stack', p)
          /\ UnwindingIn(stack', p + 1) = UnwindingIn(stack', p)
      <3>1. p + 1 \in Nat /\ p + 1 > 0 /\ p + 1 - 1 = p /\ stack'[p + 1].k # "unw" /\ stack'[p + 1].k # "ccb"
        BY <1>4, <1>17, <1>18
      <3> QED BY <3>1, HandlersBelow
    <2>2. /\ HandlersIn(stack', p) = HandlersIn(stack', p - 1) \cup {p}
          /\ UnwindingIn(stack', p) = UnwindingIn(stack', p - 1)
      <3>1. stack'[p].k # "unw" /\ stack'[p].k = "ccb"
        BY <1>10, <1>19
      <3> QED BY <1>4, <3>1, HandlersBelow
    <2>3. /\ HandlersIn(stack, p) = HandlersIn(stack, p - 1) \cup {p}
          /\ UnwindingIn(stack, p) = UnwindingIn(stack, p - 1)
      <3>1. stack[p].k # "unw"
        BY <1>4
      <3> QED BY <1>4, <3>1, HandlersBelow
    <2>4. /\ HandlersIn(stack, p - 1) = HandlersIn(stack', p - 1)
          /\ UnwindingIn(stack, p - 1) = UnwindingIn(stack', p - 1)
      <3>1. p - 1 \in Nat
        BY <1>4
      <3> QED BY <1>20, <3>1, HandlersKept
    <2> QED BY <2>1, <2>2, <2>3, <2>4
  <1>27. \A h \in HandlersIn(stack, p) : stack'[h].rec = stack[h].rec
    <2> TAKE h \in HandlersIn(stack, p)
    <2>1. h \in 1 .. p
      BY DEF HandlersIn
    <2>2. CASE h = p
      BY <1>10, <1>19, <2>2
    <2>3. CASE h # p
      <3>1. h \in 1 .. p - 1
        BY <1>4, <2>1, <2>3
      <3> QED BY <1>19, <3>1
    <2> QED BY <2>2, <2>3
  <1>28. ChainFor(chain', stack', p + 1)
    BY <1>5, <1>25, <1>26, <1>27, Zenon DEF ChainFor
  <1>29. IsCurrent(stack', p + 1, cur')
    BY <1>5, <1>25, <1>26, <1>27 DEF IsCurrent
  <1>30. CountOK(pt', stack')
    BY <1>5, <1>18, <1>25, <1>26 DEF CountOK
  <1>31. FramesInv'
    BY <1>1, <1>18, <1>24, <1>28, <1>29, <1>30, FramesNew
  <1>32. Top' = p + 1 /\ Run' = r
    BY <1>18 DEF Top, Run
  <1>33. csp' \in Int /\ (csp' # INVALID_STATE => mode'.fh = 4)
    <2>1. csp # INVALID_STATE => mode.fh = 4
      BY <1>1 DEF ParentInv
    <2> QED BY <1>1, <1>5, <1>6, <2>1 DEF TypesInv
  <1>34. ParentInv'
    BY <1>4, <1>10, <1>17, <1>19, <1>32, <1>33 DEF ParentInv
  <1>35. lost' \subseteq Records
    BY <1>1, <1>4, <1>5, InFlightOK DEF TypesInv
  <1>36. TypesInv'
    BY <1>1, <1>5, <1>33, <1>35, Zenon DEF TypesInv
  <1> QED BY <1>31, <1>34, <1>36 DEF EhInv

(* A handler that is called becomes the first of the list. *)
LEMMA Link ==
    ASSUME NEW ch, NEW st, NEW n \in Nat, NEW m \in Nat, ChainFor(ch, st, n),
           HandlersIn(st, m) = HandlersIn(st, n) \cup {n + 1},
           NEW rec \in Records, st[n + 1].rec = rec,
           NEW x, x = [pos |-> n + 1, obj |-> rec], NEW ch2, ch2 = <<x>> \o ch
    PROVE  ChainFor(ch2, st, m)
  <1> DEFINE Elements == [pos : Nat, obj : Records]
  <1>1. x \in Elements /\ x.pos = n + 1 /\ x.obj = rec
    OBVIOUS
  <1>2. ch \in Seq(Elements) /\ Len(ch) \in Nat
    BY DEF ChainFor
  <1> HIDE DEF Elements
  <1>3. /\ ch2 \in Seq(Elements) /\ Len(ch2) = Len(ch) + 1 /\ ch2[1] = x
        /\ \A i \in 2 .. Len(ch2) : ch2[i] = ch[i - 1]
    BY <1>1, <1>2
  <1>4. \A h \in HandlersIn(st, n) : h \in Nat /\ h < n + 1
    BY DEF HandlersIn
  <1>5. ASSUME NEW i \in 1 .. Len(ch2)
        PROVE  \/ i = 1
               \/ i - 1 \in 1 .. Len(ch) /\ ch2[i] = ch[i - 1] /\ ch2[i].pos \in HandlersIn(st, n)
    <2>1. i = 1 \/ (i - 1 \in 1 .. Len(ch) /\ i \in 2 .. Len(ch2))
      BY <1>2, <1>3
    <2>2. i = 1 \/ (i - 1 \in 1 .. Len(ch) /\ ch2[i] = ch[i - 1])
      BY <1>3, <2>1
    <2> QED BY <2>2, Zenon DEF ChainFor
  <1>6. ASSUME NEW i \in 1 .. Len(ch2)
        PROVE  ch2[i].pos \in HandlersIn(st, m) /\ ch2[i].obj = st[ch2[i].pos].rec
    <2>1. CASE i = 1
      BY <1>1, <1>3, <2>1
    <2>2. CASE i # 1
      BY <1>5, <2>2, Zenon DEF ChainFor
    <2> QED BY <2>1, <2>2
  <1>7. ASSUME NEW h \in HandlersIn(st, m)
        PROVE  \E i \in 1 .. Len(ch2) : ch2[i].pos = h
    <2>1. CASE h = n + 1
      <3>1. 1 \in 1 .. Len(ch2) /\ ch2[1].pos = h
        BY <1>1, <1>2, <1>3, <2>1
      <3> QED BY <3>1
    <2>2. CASE h \in HandlersIn(st, n)
      <3>1. PICK j \in 1 .. Len(ch) : ch[j].pos = h
        BY <2>2 DEF ChainFor
      <3>2. j + 1 \in 2 .. Len(ch2) /\ j + 1 - 1 = j
        BY <1>2, <1>3
      <3>3. ch2[j + 1] = ch[j] /\ j + 1 \in 1 .. Len(ch2)
        BY <1>3, <3>2
      <3> QED BY <3>1, <3>3
    <2> QED BY <2>1, <2>2
  <1>8. ASSUME NEW i \in 1 .. Len(ch2), NEW j \in 1 .. Len(ch2), i < j
        PROVE  ch2[i].pos > ch2[j].pos
    <2>1. j # 1
      BY <1>8
    <2>2. j - 1 \in 1 .. Len(ch) /\ ch2[j] = ch[j - 1] /\ ch2[j].pos \in HandlersIn(st, n)
      BY <1>5, <2>1
    <2>3. CASE i = 1
      BY <1>1, <1>3, <1>4, <2>2, <2>3
    <2>4. CASE i # 1
      <3>1. i - 1 \in 1 .. Len(ch) /\ ch2[i] = ch[i - 1]
        BY <1>5, <2>4
      <3>2. i - 1 < j - 1
        BY <1>8
      <3> QED BY <2>2, <3>1, <3>2, Zenon DEF ChainFor
    <2> QED BY <2>3, <2>4
  <1> QED BY <1>3, <1>6, <1>7, <1>8, Zenon DEF ChainFor, Elements

(* The frames of a handler that is called. *)
LEMMA HandlerFrames ==
    ASSUME NEW f \in DOMAIN Prog, NEW i \in DOMAIN Tries(f), NEW rec \in Records,
           cur \in Records, NEW e
    PROVE  /\ Own(Ccb(rec, i)) /\ Ccb(rec, i).k = "ccb" /\ Ccb(rec, i).rec = rec
           /\ Ccb(rec, i).saved = cur /\ Ccb(rec, i).try = i /\ Ccb(rec, i).phase = "try"
           /\ Own(CatchFn(f, e, i)) /\ CatchFn(f, e, i).k = "catch" /\ CatchFn(f, e, i).f = f
           /\ CatchFn(f, e, i).est = e /\ CatchFn(f, e, i).try = i
  <1>1. PICK a, b : a = Ccb(rec, i) /\ b = CatchFn(f, e, i)
    OBVIOUS
  <1>2. /\ DOMAIN a = CcbFields /\ a.k = "ccb" /\ a.rec = rec /\ a.saved = cur
        /\ a.try = i /\ a.phase = "try" /\ a.rethrow \in BOOLEAN
    BY <1>1 DEF Ccb, CcbFields
  <1>3. Own(a)
    BY <1>2 DEF Own, OwnFn, OwnSeh, OwnCatch, OwnCcb, OwnRaise, OwnUnw, Kinds
  <1>4. /\ DOMAIN b = CatchFields /\ b.k = "catch" /\ b.f = f /\ b.ip = Try(f, i).high + 1
        /\ b.est = e /\ b.try = i
    BY <1>1 DEF CatchFn, CatchFields
  <1>5. Own(b)
    BY <1>4, CatchStart DEF Own, OwnFn, OwnSeh, OwnCatch, OwnCcb, OwnRaise, OwnUnw, Kinds
  <1> QED BY <1>1, <1>2, <1>3, <1>4, <1>5

LEMMA LandInHandlerStep ==
    ASSUME EhInv, LandInHandler
    PROVE  EhInv'
  <1>1. FramesInv /\ TypesInv /\ ParentInv /\ Run.k = "unw" /\ Run.phase = "land" /\ halt = "no"
    BY DEF EhInv, LandInHandler, RunIs, Running
  <1>2. Top \in Nat /\ Top > 1 /\ Top = Len(stack) /\ IsStack(stack)
        /\ (\A q \in 1 .. Top : Own(stack[q])) /\ Run.target \in 1 .. Top - 1
        /\ Run.rec \in Records /\ Run.at = Run.target /\ Run.hit # NoHit
    BY <1>1, UnwFacts, StackFacts DEF DownUnw, Run
  <1>3. PICK p \in 1 .. Top - 1 : p = Run.target
    BY <1>2
  <1>4. PICK i, rec, f, e : i = Run.hit.try /\ rec = Run.rec /\ f = stack[p].f /\ e = Est(p)
    OBVIOUS
  <1>5. p \in Nat /\ p > 0 /\ p \in 0 .. Len(stack) /\ p <= Len(stack) /\ p \in 1 .. Top
        /\ rec \in Records /\ cur \in Records /\ Own(stack[p])
    BY <1>1, <1>2, <1>4 DEF TypesInv
  <1>6. Accepts(stack, p, i)
    BY <1>1, <1>2, <1>3, <1>4, UnwFacts DEF Lands
  <1>7. stack[p].k \in {"fn", "catch"} /\ f \in DOMAIN Prog /\ i \in DOMAIN Tries(f)
    BY <1>4, <1>5, <1>6 DEF Accepts, Own, OwnFn, OwnCatch
  <1>8. e \in 1 .. p /\ stack[e].k = "fn"
    BY <1>1, <1>4, <1>5, <1>7, EstIsFunction
  <1>9. PICK a, b : a = Ccb(rec, i) /\ b = CatchFn(f, e, i)
    OBVIOUS
  <1>10. /\ Own(a) /\ a.k = "ccb" /\ a.rec = rec /\ a.saved = cur /\ a.try = i /\ a.phase = "try"
         /\ Own(b) /\ b.k = "catch" /\ b.f = f /\ b.est = e /\ b.try = i
    BY <1>5, <1>7, <1>9, HandlerFrames
  <1>11. PICK cut : cut = SubSeq(stack, 1, p)
    BY Zenon
  <1>12. IsStack(cut) /\ Len(cut) = p /\ \A q \in 1 .. p : cut[q] = stack[q]
    BY <1>2, <1>5, <1>11, CutFrames
  <1>13. PICK rest : rest = IF chain # <<>> /\ chain[1].pos < p + 1 THEN chain ELSE <<>>
    OBVIOUS
  <1>14. /\ stack' = cut \o <<a, b>>
         /\ chain' = <<[pos |-> p + 1, obj |-> rec]>> \o rest
         /\ lost' = lost \cup Replaced(p) /\ cur' = rec
         /\ UNCHANGED <<mode, halt, pt, csp, rethr, thrown, raised, alive>>
    BY <1>3, <1>4, <1>9, <1>11, <1>13, Zenon DEF LandInHandler
  <1>15. /\ IsStack(stack') /\ Len(stack') = p + 2 /\ stack'[p + 1] = a /\ stack'[p + 2] = b
         /\ \A q \in 1 .. p : stack'[q] = stack[q]
    <2>1. PICK S : cut \in Seq(S)
      BY <1>12 DEF IsStack
    <2> DEFINE T == S \cup {a, b}
    <2>2. cut \in Seq(T) /\ a \in T /\ b \in T
      BY <2>1
    <2> HIDE DEF T
    <2>3. <<a, b>> \in Seq(T) /\ Len(<<a, b>>) = 2 /\ <<a, b>>[1] = a /\ <<a, b>>[2] = b
      BY <2>2
    <2>4. /\ stack' \in Seq(T) /\ Len(stack') = p + 2 /\ stack'[p + 1] = a /\ stack'[p + 2] = b
          /\ \A q \in 1 .. p : stack'[q] = cut[q]
      BY <1>5, <1>12, <1>14, <2>2, <2>3
    <2> QED BY <1>12, <2>4 DEF IsStack
  <1>16. Kept(stack, stack', p)
    BY <1>2, <1>5, <1>15, LikeItself DEF Kept
  <1>17. Down(stack', p + 1)
    <2>1. p \in 1 .. p
      BY <1>5
    <2>2. Accepts(stack', p, i)
      BY <1>5, <1>6, <1>16, <2>1, AcceptsKept
    <2>3. DownCcb(stack', p + 1)
      BY <1>5, <1>10, <1>15, <2>2 DEF DownCcb
    <2> QED BY <1>10, <1>15, <2>3 DEF Down, DownFn, DownSeh, DownCatch, DownRaise, DownUnw
  <1>18. Down(stack', p + 2)
    <2>1. stack'[p] = stack[p] /\ stack'[e] = stack[e]
      BY <1>5, <1>8, <1>15
    <2>2. p + 2 - 1 = p + 1 /\ p + 2 - 2 = p /\ p + 2 > 2
      BY <1>5
    <2>3. DownCatch(stack', p + 2)
      BY <1>4, <1>7, <1>8, <1>10, <1>15, <2>1, <2>2 DEF DownCatch
    <2> QED BY <1>10, <1>15, <2>3 DEF Down, DownFn, DownSeh, DownCcb, DownRaise, DownUnw
  <1>19. /\ ChainFor(chain, stack, p) /\ IsCurrent(stack, p, cur)
         /\ pt = Cardinality(UnwindingIn(stack, p))
    BY <1>1, <1>2, <1>3, UnwindNow
  <1>20. IsCurrent(stack', p, cur)
    BY <1>5, <1>16, <1>19, CurrentKept
  <1>21. Extended(stack, stack', p)
    <2>1. \A q \in p + 1 .. Len(stack') : q = p + 1 \/ q = p + 2
      BY <1>5, <1>15
    <2>2. p + 1 - 1 = p
      BY <1>5
    <2>3. \A q \in p + 1 .. Len(stack') :
            /\ Own(stack'[q]) /\ Down(stack', q)
            /\ stack'[q].k = "ccb" => IsCurrent(stack', q - 1, stack'[q].saved)
      BY <1>10, <1>15, <1>17, <1>18, <1>20, <2>1, <2>2
    <2> QED BY <1>5, <1>15, <1>16, <2>3 DEF Extended
  <1>22. /\ HandlersIn(stack', p + 2) = HandlersIn(stack', p) \cup {p + 1}
         /\ UnwindingIn(stack', p + 2) = UnwindingIn(stack', p)
    <2>1. /\ HandlersIn(stack', p + 2) = HandlersIn(stack', p + 1)
          /\ UnwindingIn(stack', p + 2) = UnwindingIn(stack', p + 1)
      <3>1. p + 2 \in Nat /\ p + 2 > 0 /\ p + 2 - 1 = p + 1 /\ stack'[p + 2].k # "unw"
            /\ stack'[p + 2].k # "ccb"
        BY <1>5, <1>10, <1>15
      <3> QED BY <3>1, HandlersBelow
    <2>2. /\ HandlersIn(stack', p + 1) = HandlersIn(stack', p) \cup {p + 1}
          /\ UnwindingIn(stack', p + 1) = UnwindingIn(stack', p)
      <3>1. p + 1 \in Nat /\ p + 1 > 0 /\ p + 1 - 1 = p /\ stack'[p + 1].k # "unw"
            /\ stack'[p + 1].k = "ccb"
        BY <1>5, <1>10, <1>15
      <3> QED BY <3>1, HandlersBelow
    <2> QED BY <2>1, <2>2
  <1>23. rest = chain
    <2>1. ASSUME chain # <<>> PROVE chain[1].pos < p + 1
      <3>1. 1 \in 1 .. Len(chain)
        BY <1>19, <2>1 DEF ChainFor
      <3>2. chain[1].pos \in HandlersIn(stack, p)
        BY <1>19, <3>1 DEF ChainFor
      <3> QED BY <1>5, <3>2 DEF HandlersIn
    <2> QED BY <1>13, <2>1
  <1>24. ChainFor(chain', stack', p + 2)
    <2>1. ChainFor(chain, stack', p)
      BY <1>5, <1>16, <1>19, ChainSame
    <2>2. PICK x, n : x = [pos |-> p + 1, obj |-> rec] /\ n = p + 2
      BY Zenon
    <2>3. chain' = <<x>> \o chain
      BY <1>14, <1>23, <2>2, Zenon
    <2>4. stack'[p + 1].rec = rec /\ n \in Nat
      BY <1>5, <1>10, <1>15, <2>2
    <2>5. HandlersIn(stack', n) = HandlersIn(stack', p) \cup {p + 1}
      BY <1>22, <2>2
    <2>6. ChainFor(chain', stack', n)
      BY <1>5, <2>1, <2>2, <2>3, <2>4, <2>5, Link, Zenon
    <2> QED BY <2>2, <2>6
  <1>25. IsCurrent(stack', p + 2, cur')
    <2>1. p + 1 \in HandlersIn(stack', p + 2)
      BY <1>22
    <2>2. \A q \in HandlersIn(stack', p + 2) : q <= p + 1
      BY <1>5, <1>22 DEF HandlersIn
    <2> QED BY <1>10, <1>14, <1>15, <2>1, <2>2, Zenon DEF IsCurrent
  <1>26. CountOK(pt', stack')
    <2>1. UnwindingIn(stack', p) = UnwindingIn(stack, p)
      BY <1>5, <1>16, HandlersKept
    <2> QED BY <1>14, <1>15, <1>19, <1>22, <2>1 DEF CountOK
  <1>27. FramesInv'
    BY <1>1, <1>15, <1>21, <1>24, <1>25, <1>26, FramesNew
  <1>28. csp' = INVALID_STATE
    BY <1>1, <1>14, ProgramParent
  <1>29. lost' \subseteq Records
    BY <1>1, <1>5, <1>14, InFlightOK DEF TypesInv
  <1>30. TypesInv'
    BY <1>1, <1>5, <1>14, <1>29 DEF TypesInv
  <1> QED BY <1>27, <1>28, <1>30, ParentInvalid DEF EhInv

-----------------------------------------------------------------------------
(* The invariant holds initially and is kept by every step. *)

LEMMA InitHolds ==
    ASSUME Init
    PROVE  EhInv
  <1>1. /\ mode \in [fh : {3, 4}, ehs : BOOLEAN] /\ halt = "no" /\ cur = NoRecord /\ chain = <<>>
        /\ pt = 0 /\ csp = INVALID_STATE /\ rethr = FALSE /\ thrown = <<>> /\ raised = 0
        /\ alive = {} /\ lost = {}
    BY DEF Init
  <1>2. PICK fr : fr = Fn("main")
    OBVIOUS
  <1>3. stack = <<fr>>
    BY <1>2 DEF Init
  <1>4. Own(fr) /\ fr.k = "fn"
    BY <1>2, EhAssumption, EnteredFrame
  <1>5. Len(stack) = 1 /\ stack[1] = fr /\ IsStack(stack)
    <2>1. stack \in Seq({fr})
      BY <1>3
    <2> QED BY <1>3, <2>1, Zenon DEF IsStack
  <1>6. \A p \in 1 .. Len(stack) : p = 1
    BY <1>5
  <1>7. Down(stack, 1)
    BY <1>4, <1>5 DEF Down, DownFn, DownSeh, DownCatch, DownCcb, DownRaise, DownUnw
  <1>8. StackOK(stack)
    BY <1>4, <1>5, <1>6, <1>7 DEF StackOK, WellFormed, SavedRight
  <1>9. HandlersIn(stack, 1) = {} /\ UnwindingIn(stack, 1) = {}
    BY <1>4, <1>5 DEF HandlersIn, UnwindingIn
  <1>10. ChainOK(chain, stack)
    <2>1. chain \in Seq([pos : Nat, obj : Records]) /\ Len(chain) = 0
      BY <1>1
    <2> QED BY <1>5, <1>9, <2>1 DEF ChainOK, ChainFor
  <1>11. CountOK(pt, stack)
    BY <1>1, <1>5, <1>9, FS_EmptySet DEF CountOK
  <1>12. CurrentOK(halt, cur, stack)
    BY <1>1, <1>5, <1>9 DEF CurrentOK, IsCurrent
  <1>13. TypesInv
    <2>1. thrown \in Seq(DOMAIN Catchable) /\ Len(thrown) = 0
      BY <1>1
    <2>2. INVALID_STATE \in Int /\ NoRecord \in Records
      BY DEF INVALID_STATE, Records
    <2>3. raised \in 0 .. MaxRaises /\ Len(thrown) <= raised /\ alive \subseteq 1 .. Len(thrown)
      BY <1>1, <2>1, EhAssumption
    <2>4. cur \in Records /\ csp \in Int /\ pt \in Nat /\ lost \subseteq Records /\ rethr \in BOOLEAN
      BY <1>1, <2>2, Zenon
    <2> QED BY <1>1, <2>1, <2>3, <2>4 DEF TypesInv
  <1>14. ParentInv
    BY <1>1 DEF ParentInv
  <1> QED BY <1>8, <1>10, <1>11, <1>12, <1>13, <1>14 DEF EhInv, FramesInv

LEMMA StillHolds ==
    ASSUME EhInv, UNCHANGED vars
    PROVE  EhInv'
  <1>1. UNCHANGED <<mode, stack, halt, cur, chain, pt, csp, rethr, thrown, raised, alive, lost>>
    BY DEF vars, runtime, ghost
  <1>2. FramesInv'
    BY <1>1 DEF EhInv, FramesInv
  <1>3. TypesInv'
    BY <1>1 DEF EhInv, TypesInv
  <1>4. Run' = Run
    BY <1>1 DEF Run, Top
  <1>5. ParentInv'
    BY <1>1, <1>4 DEF EhInv, ParentInv
  <1> QED BY <1>2, <1>3, <1>5 DEF EhInv

LEMMA NextHolds ==
    ASSUME EhInv, [Next]_vars
    PROVE  EhInv'
  <1>1. CASE Program
    BY <1>1, EnterScopeStep, LeaveScopeStep, CallStep, ReturnStep, ThrowStep, RethrowStep, FaultStep,
       CatchDoneStep DEF Program
  <1>2. CASE Search
    BY <1>2, SearchCxxStep, CatchObjectBuiltStep, SearchSehStep, SearchCatchBlockStep,
       SearchDispatcherStep, SearchUnwindStep, SearchFailsStep DEF Search
  <1>3. CASE Unwind
    BY <1>3, UnwindCxxStep, UnwindStateStep, FrameUnwoundStep, UnwindCatchBlockStep, UnwindOtherStep,
       UnwindUnwindStep, LandInHandlerStep, LandInCatchBlockStep, LandInSehStep, LandInBuildStep
    DEF Unwind
  <1>4. CASE UNCHANGED vars
    BY <1>4, StillHolds
  <1> QED BY <1>1, <1>2, <1>3, <1>4 DEF Next, Stopped

(* The inductive invariant: the frames on the stack fit those below them, every saved
   and current exception is that of the innermost handler, pFrameInfoChain lists the
   handlers, __ProcessingThrow counts the unwinds, and CatchStateInParent is that of
   the frame handled next. *)
THEOREM FramesAreRight == Spec => []EhInv
  <1>1. Init => EhInv
    BY InitHolds
  <1>2. EhInv /\ [Next]_vars => EhInv'
    BY NextHolds
  <1> QED BY <1>1, <1>2, PTL DEF Spec

(* Every frame of the program and of the runtime (CxxCallCatchBlock, RtlDispatchException,
   RtlUnwindEx) is well formed in every state, and an unwind is never below its target. *)
THEOREM TypesAreRight == Spec => []TypeOK
  <1>1. EhInv => TypeOK
    <2> SUFFICES ASSUME EhInv PROVE TypeOK
      OBVIOUS
    <2>1. FramesInv /\ TypesInv
      BY DEF EhInv
    <2>2. ASSUME NEW p \in 1 .. Top PROVE FrameOK(p)
      <3>1. Own(stack[p]) /\ Down(stack, p) /\ Top \in Nat
        BY <2>1, StackFacts
      <3>2. CASE stack[p].k = "fn"
        BY <3>1, <3>2 DEF FrameOK, Own, OwnFn
      <3>3. CASE stack[p].k = "catch"
        BY <3>1, <3>3 DEF FrameOK, Own, OwnCatch, Down, DownCatch
      <3>4. CASE stack[p].k = "seh"
        BY <3>1, <3>4 DEF FrameOK, Own, OwnSeh
      <3>5. CASE stack[p].k = "ccb"
        BY <3>1, <3>5 DEF FrameOK, Own, OwnCcb
      <3>6. CASE stack[p].k = "raise"
        <4>1. OwnRaise(stack[p]) /\ DownRaise(stack, p)
          BY <3>1 DEF Own, Down
        <4>2. stack[p].at \in 0 .. p - 1
          BY <3>6, <4>1 DEF OwnRaise, DownRaise
        <4> QED BY <3>6, <4>1, <4>2 DEF FrameOK, OwnRaise
      <3>7. CASE stack[p].k = "unw"
        <4>1. OwnUnw(stack[p]) /\ DownUnw(stack, p)
          BY <3>1 DEF Own, Down
        <4>2. stack[p].target \in 1 .. stack[p].at /\ stack[p].at < p
          BY <3>7, <4>1 DEF OwnUnw, DownUnw
        <4> QED BY <3>7, <4>1, <4>2 DEF FrameOK, OwnUnw
      <3> QED BY <3>1, <3>2, <3>3, <3>4, <3>5, <3>6, <3>7 DEF Own, Kinds
    <2>3. DOMAIN thrown = 1 .. Len(thrown)
      BY <2>1 DEF TypesInv
    <2> QED BY <2>1, <2>2, <2>3 DEF TypeOK, TypesInv
  <1> QED BY <1>1, FramesAreRight, PTL

(* __ProcessingThrow, which FrameUnwindToState increments and decrements, equals the
   number of frames being unwound in every state: collided unwinds and destructors that
   throw or handle exceptions included.  (uncaught_exception is read from it.) *)
THEOREM CountIsBalanced == Spec => []CountBalanced
  <1>1. EhInv => CountBalanced
    <2> SUFFICES ASSUME EhInv PROVE CountBalanced
      OBVIOUS
    <2>1. FramesInv /\ IsStack(stack) /\ Top = Len(stack)
      BY StackFacts DEF EhInv
    <2>2. \A p \in 1 .. Top : Visible(stack, p) <=> Seen(stack, Top, p)
      BY <2>1, VisibleIsSeen
    <2>3. UnwindingIn(stack, Top) =
              {p \in 1 .. Top :
                stack[p].k = "unw" /\ stack[p].phase = "states" /\ Visible(stack, p)}
      BY <2>2 DEF UnwindingIn
    <2>4. pt = Cardinality(UnwindingIn(stack, Top))
      BY <2>1 DEF FramesInv, CountOK
    <2> QED BY <2>3, <2>4 DEF CountBalanced
  <1> QED BY <1>1, FramesAreRight, PTL

(* pFrameInfoChain, which CxxCallCatchBlock and _FindAndUnlinkFrame maintain, lists the
   handlers being executed in every state, the innermost first, each with its own
   exception, and _pCurrentException is that of the innermost. *)
THEOREM ChainListsHandlers == Spec => []ChainIsHandlers
  <1>1. EhInv => ChainIsHandlers
    <2> SUFFICES ASSUME EhInv PROVE ChainIsHandlers
      OBVIOUS
    <2>1. FramesInv /\ IsStack(stack) /\ Top = Len(stack) /\ Top \in Nat
      BY StackFacts DEF EhInv
    <2>2. \A p \in 1 .. Top : Visible(stack, p) <=> Seen(stack, Top, p)
      BY <2>1, VisibleIsSeen
    <2>3. Handlers = HandlersIn(stack, Top)
      BY <2>2 DEF Handlers, HandlersIn
    <2>4. ChainFor(chain, stack, Top)
      BY <2>1 DEF FramesInv, ChainOK
    <2>5. DOMAIN chain = 1 .. Len(chain)
      BY <2>4 DEF ChainFor
    <2>6. {chain[i].pos : i \in DOMAIN chain} = Handlers
      BY <2>3, <2>4, <2>5, Zenon DEF ChainFor
    <2>7. \A i \in DOMAIN chain :
            /\ chain[i].obj = stack[chain[i].pos].rec
            /\ \A j \in DOMAIN chain : i < j => chain[i].pos > chain[j].pos
      BY <2>4, <2>5, Zenon DEF ChainFor
    <2>8. ASSUME Running
          PROVE  cur = IF Handlers = {} THEN NoRecord ELSE stack[Max(Handlers)].rec
      <3>1. IsCurrent(stack, Top, cur)
        BY <2>1, <2>8 DEF FramesInv, CurrentOK, Running
      <3>2. CASE Handlers = {}
        BY <2>3, <3>1, <3>2 DEF IsCurrent
      <3>3. CASE Handlers # {}
        <4>1. PICK m \in Handlers : (\A q \in Handlers : q <= m) /\ cur = stack[m].rec
          BY <2>3, <3>1, <3>3 DEF IsCurrent
        <4>2. Handlers \subseteq Int
          BY DEF Handlers
        <4>3. Max(Handlers) = m
          BY <4>1, <4>2, MaxUnique, Zenon
        <4> QED BY <3>3, <4>1, <4>3
      <3> QED BY <3>2, <3>3
    <2> QED BY <2>6, <2>7, <2>8 DEF ChainIsHandlers
  <1> QED BY <1>1, FramesAreRight, PTL

(* CatchStateInParent, through which ExFilterRethrowFH4 and the __finally of
   CxxCallCatchBlock tell the frame handler the state of the frame below a catch block,
   is never left over: when it is valid, a search or an unwind has just passed a catch
   block or is at the frame below one, and no interrupted scope is pending. *)
THEOREM ParentStateIsFresh == Spec => []ParentStateFresh
  <1>1. EhInv => ParentStateFresh
    <2> SUFFICES ASSUME EhInv, csp # INVALID_STATE
                 PROVE  /\ Run.k \in {"raise", "unw"} /\ Run.scope = 0
                        /\ \E p \in {Run.at, Run.at + 1} \ {0} : stack[p].k = "ccb"
      BY DEF ParentStateFresh
    <2>1. FramesInv /\ ParentInv
      BY DEF EhInv
    <2>2. Run.at \in Nat
      BY <2>1, StackFacts DEF ParentInv, Own, OwnRaise, OwnUnw
    <2>3. /\ Run.k \in {"raise", "unw"} /\ Run.scope = 0 /\ Run.at > 0
          /\ stack[Run.at].k = "ccb" \/ stack[Run.at + 1].k = "ccb"
      BY <2>1 DEF ParentInv
    <2>4. Run.at \in {Run.at, Run.at + 1} \ {0} /\ Run.at + 1 \in {Run.at, Run.at + 1} \ {0}
      BY <2>2, <2>3
    <2> QED BY <2>3, <2>4
  <1> QED BY <1>1, FramesAreRight, PTL

-----------------------------------------------------------------------------
(***************************************************************************)
(* The lifetime of exception objects, for every program and any number of  *)
(* exceptions: ObjectsExist.                                               *)
(*                                                                         *)
(* An object is destroyed by the __finally of the CxxCallCatchBlock that   *)
(* leaves a handler of it, unless another handler in the list holds it or  *)
(* the flag rethrow is set.  ObjInv says why that is neither too early nor *)
(* too late:                                                               *)
(*   Backed   an object that is thrown a second time, or handled while it  *)
(*            is in flight, is held by a handler further down the stack    *)
(*   Passed   a search for an object that has gone past a handler of it    *)
(*            has set the flag of that handler, and nothing has cleared it *)
(*            unless another exception was replaced                        *)
(*   Flagged  an object whose handler has the flag set is in flight above  *)
(*            it, or its exception was replaced                            *)
(***************************************************************************)

ObjectNumbers == 1 .. MaxRaises

(* Frame q searches or unwinds for object o; an unwind for "throw;" that ends at a
   catch block is for the exception handled there. *)
Flies(st, q, o) ==
    \/ st[q].k \in {"raise", "unw"} /\ st[q].rec = o
    \/ /\ st[q].k = "unw" /\ st[q].rec = Rethrown
       /\ st[st[q].target].k = "ccb" /\ st[st[q].target].rec = o

Holds(st, h, o) == st[h].k = "ccb" /\ st[h].rec = o

(* The numbers in a frame are what they should be. *)
Placed(st, y) ==
    /\ st[y].k \in {"ccb", "raise", "unw"} => st[y].rec \in Records
    /\ st[y].k \in {"raise", "unw"} => st[y].at \in Nat
    /\ st[y].k = "ccb" => st[y].phase \in {"try", "except"}
    /\ st[y].k = "unw" => y > 1 /\ st[y].target \in 1 .. y - 1 /\ st[y - 1].k = "raise"

(* No frame is about an object that has not been thrown. *)
Thrown(st, y, t) == st[y].k \in {"ccb", "raise", "unw"} => st[y].rec <= t

(* An unwind goes where the dispatcher below it has found a handler. *)
PairOK(st, y) ==
    st[y].k = "unw" =>
        /\ st[y].target = st[y - 1].at
        /\ st[y - 1].rec # Rethrown => st[y].rec = st[y - 1].rec
        /\ st[st[y].target].k = "ccb" => st[y].rec = Rethrown
        /\ st[st[y].target].k = "seh" => st[y].rec = Foreign

(* The search for "throw;" ends at the first catch block that runs its handler. *)
RethrownOK(st, y) ==
    st[y].k = "raise" /\ st[y].rec = Rethrown =>
        \A p \in 1 .. y - 1 :
            st[p].k = "ccb" /\ st[y].at < p /\ Seen(st, y - 1, p) => st[p].phase = "except"

(* Frame y is about object o, and not the unwind of the search x. *)
About(st, y, x, o) ==
    Holds(st, y, o) \/ (Flies(st, y, o) /\ ~(st[y].k = "unw" /\ x = y - 1))

Backed(st, y) ==
    \A o \in ObjectNumbers : \A x \in 1 .. y - 1 :
        Flies(st, x, o) /\ Seen(st, y, x) /\ About(st, y, x, o)
            => \E h \in 1 .. x - 1 : Holds(st, h, o) /\ Seen(st, x, h)

Fits(st, y, t) ==
    /\ Placed(st, y) /\ Thrown(st, y, t)
    /\ PairOK(st, y) /\ RethrownOK(st, y) /\ Backed(st, y)

Witness(st, p, q) ==
    \/ st[q].k = "raise" /\ st[q].rec = st[p].rec /\ st[q].at <= p
    \/ st[q].k = "unw" /\ st[q].rec = Rethrown /\ st[q].target = p

(* A catch block that raises its exception again has the flag set. *)
Excepted(st) == \A p \in 1 .. Len(st) : st[p].k = "ccb" /\ st[p].phase = "except" => st[p].rethrow

Flagged(st, l) ==
    \A p \in 1 .. Len(st) :
        st[p].k = "ccb" /\ st[p].rethrow /\ IsObject(st[p].rec) =>
            st[p].rec \in l \/ \E q \in p + 1 .. Len(st) : Witness(st, p, q)

(* The search z for object o has gone past its handler p, and no search for another
   exception has since. *)
HasPassed(st, z, p, o) ==
    /\ st[z].k = "raise" /\ st[z].rec = o /\ Holds(st, p, o) /\ st[p].phase = "try"
    /\ st[z].at < p /\ Seen(st, z - 1, p)
    /\ \A w \in z + 1 .. Len(st) : st[w].k = "raise" /\ st[w].rec # o => st[w].at >= p

Passed(st, l) ==
    \A o \in ObjectNumbers : l \subseteq {o} =>
        \A z \in 1 .. Len(st) : \A p \in 1 .. z - 1 : HasPassed(st, z, p, o) => st[p].rethrow

(* Whatever the top of the stack can see exists. *)
AliveOK(st, a, l) ==
    \A o \in ObjectNumbers : l \subseteq {o} =>
        \A p \in 1 .. Len(st) :
            Seen(st, Len(st), p) /\ (Flies(st, p, o) \/ Holds(st, p, o)) => o \in a

LeakOK(st, ch, a, l) ==
    \A o \in a :
        \/ o \in l
        \/ (\E i \in 1 .. Len(ch) : ch[i].obj = o)
        \/ (\E q \in 1 .. Len(st) : Flies(st, q, o))

(* FlightOK is about the stack and what was lost, ObjOK also about what exists. *)
FlightOK(st, t, l) ==
    /\ Len(st) \in Nat /\ \A y \in 1 .. Len(st) : Fits(st, y, t)
    /\ Excepted(st) /\ Flagged(st, l) /\ Passed(st, l)

ObjOK(st, t, ch, a, l) == FlightOK(st, t, l) /\ AliveOK(st, a, l) /\ LeakOK(st, ch, a, l)

ObjInv == ObjOK(stack, Len(thrown), chain, alive, lost)

-----------------------------------------------------------------------------
(* What a frame sees *)

(* Who is seen by somebody seen is seen. *)
LEMMA SeenThrough ==
    ASSUME NEW st, NEW n \in Nat, NEW x \in 1 .. n, NEW h \in 1 .. x, Seen(st, n, x), Seen(st, x, h),
           \A q \in 1 .. n : st[q].k = "unw" => st[q].at \in Nat
    PROVE  Seen(st, n, h)
  <1> SUFFICES ASSUME NEW q \in 1 .. n, st[q].k = "unw", st[q].at < h, h < q
               PROVE  FALSE
    BY DEF Seen
  <1>1. CASE q <= x
    BY <1>1 DEF Seen
  <1>2. CASE q > x
    <2>1. st[q].at < x
      OBVIOUS
    <2> QED BY <1>2, <2>1 DEF Seen
  <1> QED BY <1>1, <1>2

(* Who is seen from above is seen from in between. *)
LEMMA SeenFromBelow ==
    ASSUME NEW st, NEW n \in Nat, NEW m \in 0 .. n, NEW x, Seen(st, n, x)
    PROVE  Seen(st, m, x)
  BY DEF Seen

-----------------------------------------------------------------------------
(* Frames alike in what the invariant is about *)

Alike(a, b) ==
    /\ a.k = b.k
    /\ a.k \in {"ccb", "raise", "unw"} => a.rec = b.rec
    /\ a.k \in {"raise", "unw"} => a.at = b.at
    /\ a.k = "unw" => a.target = b.target
    /\ a.k = "ccb" => a.phase = b.phase

Alikes(st, st2, n) == \A p \in 1 .. n : Alike(st[p], st2[p])

SameFlags(st, st2, n) == \A p \in 1 .. n : st[p].k = "ccb" => st2[p].rethrow = st[p].rethrow

LEMMA SeenAlike ==
    ASSUME NEW st, NEW st2, NEW n \in Nat, Alikes(st, st2, n), NEW m \in 0 .. n, NEW p
    PROVE  Seen(st, m, p) <=> Seen(st2, m, p)
  BY DEF Alikes, Alike, Seen

LEMMA FliesAlike ==
    ASSUME NEW st, NEW st2, NEW n \in Nat, Alikes(st, st2, n), NEW q \in 1 .. n,
           Placed(st, q), NEW o
    PROVE  (Flies(st, q, o) <=> Flies(st2, q, o)) /\ (Holds(st, q, o) <=> Holds(st2, q, o))
  <1>1. Alike(st[q], st2[q])
    BY DEF Alikes
  <1>2. CASE st[q].k = "unw"
    <2>1. st[q].target \in 1 .. n
      BY <1>2 DEF Placed
    <2>2. Alike(st[st[q].target], st2[st[q].target])
      BY <2>1 DEF Alikes
    <2> QED BY <1>1, <1>2, <2>2 DEF Alike, Flies, Holds
  <1>3. CASE st[q].k # "unw"
    BY <1>1, <1>3 DEF Alike, Flies, Holds
  <1> QED BY <1>2, <1>3

LEMMA FitsAlike ==
    ASSUME NEW st, NEW st2, NEW n \in Nat, Alikes(st, st2, n), NEW t,
           \A p \in 1 .. n : Fits(st, p, t), NEW y \in 1 .. n
    PROVE  Fits(st2, y, t)
  <1>1. Alike(st[y], st2[y]) /\ Fits(st, y, t)
    BY DEF Alikes
  <1>2. Placed(st2, y)
    <2>1. y > 1 => Alike(st[y - 1], st2[y - 1])
      BY DEF Alikes
    <2> QED BY <1>1, <2>1 DEF Fits, Placed, Alike
  <1>3. Thrown(st2, y, t)
    BY <1>1 DEF Fits, Thrown, Alike
  <1>4. PairOK(st2, y)
    <2> SUFFICES ASSUME st[y].k = "unw" PROVE PairOK(st2, y)
      BY <1>1 DEF PairOK, Alike
    <2>1. y > 1 /\ st[y].target \in 1 .. y - 1 /\ st[y - 1].k = "raise"
      BY <1>1 DEF Fits, Placed
    <2>2. Alike(st[y - 1], st2[y - 1]) /\ Alike(st[st[y].target], st2[st[y].target])
      BY <2>1 DEF Alikes
    <2> QED BY <1>1, <2>1, <2>2 DEF Fits, PairOK, Alike
  <1>5. RethrownOK(st2, y)
    <2> SUFFICES ASSUME st2[y].k = "raise", st2[y].rec = Rethrown, NEW p \in 1 .. y - 1,
                        st2[p].k = "ccb", st2[y].at < p, Seen(st2, y - 1, p)
                 PROVE  st2[p].phase = "except"
      BY DEF RethrownOK
    <2>1. Alike(st[p], st2[p])
      BY DEF Alikes
    <2>2. y - 1 \in 0 .. n
      OBVIOUS
    <2>3. Seen(st, y - 1, p)
      BY <2>2, SeenAlike
    <2> QED BY <1>1, <2>1, <2>3 DEF Fits, RethrownOK, Alike
  <1>6. Backed(st2, y)
    <2> SUFFICES ASSUME NEW o \in ObjectNumbers, NEW x \in 1 .. y - 1, Flies(st2, x, o), Seen(st2, y, x),
                        About(st2, y, x, o)
                 PROVE  \E h \in 1 .. x - 1 : Holds(st2, h, o) /\ Seen(st2, x, h)
      BY DEF Backed
    <2>1. x \in 1 .. n /\ Placed(st, x) /\ Placed(st, y)
      BY DEF Fits
    <2>2. Flies(st, x, o) /\ Seen(st, y, x)
      BY <2>1, FliesAlike, SeenAlike
    <2>3. About(st, y, x, o)
      <3>1. (Flies(st, y, o) <=> Flies(st2, y, o)) /\ (Holds(st, y, o) <=> Holds(st2, y, o))
        BY <2>1, FliesAlike
      <3> QED BY <1>1, <3>1 DEF About, Alike
    <2>4. PICK h \in 1 .. x - 1 : Holds(st, h, o) /\ Seen(st, x, h)
      BY <1>1, <2>2, <2>3 DEF Fits, Backed
    <2>5. h \in 1 .. n /\ Fits(st, h, t)
      BY <2>1
    <2>6. Holds(st2, h, o) /\ Seen(st2, x, h)
      BY <2>1, <2>4, <2>5, FliesAlike, SeenAlike DEF Fits
    <2> QED BY <2>6
  <1> QED BY <1>2, <1>3, <1>4, <1>5, <1>6 DEF Fits

-----------------------------------------------------------------------------
(* The frame at the top moves down *)

TopMoved(a, b) ==
    /\ b.k = a.k
    /\ a.k \in {"ccb", "raise", "unw"} => b.rec = a.rec
    /\ a.k \in {"raise", "unw"} => b.at \in Nat /\ b.at <= a.at
    /\ a.k = "unw" => b.target = a.target
    /\ a.k = "ccb" => b.phase = a.phase

(* What a search may go past: not a handler that would take "throw;", and its own
   handler only when the flag is set. *)
MayPass(st, n, at) ==
    st[n].k = "raise" =>
        \A p \in 1 .. n - 1 :
            at < p /\ p <= st[n].at /\ st[p].k = "ccb" /\ st[p].phase = "try" =>
                /\ st[n].rec # Rethrown
                /\ IsObject(st[n].rec) /\ st[p].rec = st[n].rec => st[p].rethrow

Moved(st, st2) ==
    /\ Len(st) \in Nat /\ Len(st) > 0 /\ Len(st2) = Len(st)
    /\ Alikes(st, st2, Len(st) - 1) /\ TopMoved(st[Len(st)], st2[Len(st)])
    /\ SameFlags(st, st2, Len(st))
    /\ MayPass(st, Len(st), st2[Len(st)].at)

LEMMA MovedSeen ==
    ASSUME NEW st, NEW st2, NEW t, Moved(st, st2), \A y \in 1 .. Len(st) : Fits(st, y, t),
           NEW x, Seen(st2, Len(st), x), x \in Int
    PROVE  Seen(st, Len(st), x)
  <1> DEFINE n == Len(st)
  <1>1. n \in Nat /\ n > 0 /\ Alikes(st, st2, n - 1) /\ TopMoved(st[n], st2[n])
    BY DEF Moved
  <1> SUFFICES ASSUME NEW q \in 1 .. n, st[q].k = "unw", st[q].at < x, x < q
               PROVE  FALSE
    BY DEF Seen
  <1>2. Fits(st, q, t) /\ st2[q].k = "unw" /\ st2[q].at \in Nat /\ st2[q].at <= st[q].at /\ st[q].at \in Nat
    <2>1. Fits(st, q, t)
      OBVIOUS
    <2>2. st[q].at \in Nat
      BY <2>1 DEF Fits, Placed
    <2>3. CASE q = n
      BY <1>1, <2>1, <2>2, <2>3 DEF TopMoved
    <2>4. CASE q < n
      <3>1. Alike(st[q], st2[q])
        BY <1>1, <2>4 DEF Alikes
      <3> QED BY <2>1, <2>2, <3>1 DEF Alike
    <2> QED BY <1>1, <2>3, <2>4
  <1>3. st2[q].at < x
    BY <1>2
  <1> QED BY <1>2, <1>3 DEF Seen

LEMMA MovedFlies ==
    ASSUME NEW st, NEW st2, NEW t, Moved(st, st2), \A y \in 1 .. Len(st) : Fits(st, y, t),
           NEW q \in 1 .. Len(st), NEW o
    PROVE  (Flies(st, q, o) <=> Flies(st2, q, o)) /\ (Holds(st, q, o) <=> Holds(st2, q, o))
  <1> DEFINE n == Len(st)
  <1>1. n \in Nat /\ n > 0 /\ Alikes(st, st2, n - 1) /\ TopMoved(st[n], st2[n]) /\ Placed(st, q)
    BY DEF Moved, Fits
  <1>2. CASE q < n
    <2>1. n - 1 \in Nat /\ q \in 1 .. n - 1
      BY <1>1, <1>2
    <2> QED BY <1>1, <2>1, FliesAlike
  <1>3. CASE q = n
    <2>1. CASE st[n].k = "unw"
      <3>1. st[n].target \in 1 .. n - 1
        BY <1>1, <1>3, <2>1 DEF Placed
      <3>2. Alike(st[st[n].target], st2[st[n].target])
        BY <1>1, <3>1 DEF Alikes
      <3> QED BY <1>1, <1>3, <2>1, <3>2 DEF TopMoved, Alike, Flies, Holds
    <2>2. CASE st[n].k # "unw"
      BY <1>1, <1>3, <2>2 DEF TopMoved, Flies, Holds
    <2> QED BY <2>1, <2>2
  <1> QED BY <1>1, <1>2, <1>3

LEMMA MovedFits ==
    ASSUME NEW st, NEW st2, NEW t, Moved(st, st2), \A y \in 1 .. Len(st) : Fits(st, y, t),
           NEW y \in 1 .. Len(st)
    PROVE  Fits(st2, y, t)
  <1> DEFINE n == Len(st)
  <1>1. n \in Nat /\ n > 0 /\ Alikes(st, st2, n - 1) /\ TopMoved(st[n], st2[n])
    BY DEF Moved
  <1>2. CASE y < n
    <2>1. n - 1 \in Nat /\ y \in 1 .. n - 1 /\ \A p \in 1 .. n - 1 : Fits(st, p, t)
      BY <1>1, <1>2
    <2> QED BY <1>1, <2>1, FitsAlike
  <1>3. CASE y = n
    <2>1. Fits(st, n, t)
      BY <1>1
    <2>2. Placed(st2, n)
      <3>1. n > 1 => Alike(st[n - 1], st2[n - 1])
        BY <1>1 DEF Alikes
      <3> QED BY <1>1, <2>1, <3>1 DEF Fits, Placed, TopMoved, Alike
    <2>3. Thrown(st2, n, t)
      BY <1>1, <2>1 DEF Fits, Thrown, TopMoved
    <2>4. PairOK(st2, n)
      <3> SUFFICES ASSUME st[n].k = "unw" PROVE PairOK(st2, n)
        BY <1>1 DEF PairOK, TopMoved
      <3>1. n > 1 /\ st[n].target \in 1 .. n - 1 /\ st[n - 1].k = "raise"
        BY <2>1 DEF Fits, Placed
      <3>2. Alike(st[n - 1], st2[n - 1]) /\ Alike(st[st[n].target], st2[st[n].target])
        BY <1>1, <3>1 DEF Alikes
      <3> QED BY <1>1, <2>1, <3>1, <3>2 DEF Fits, PairOK, Alike, TopMoved
    <2>5. RethrownOK(st2, n)
      <3> SUFFICES ASSUME st2[n].k = "raise", st2[n].rec = Rethrown, NEW p \in 1 .. n - 1,
                          st2[p].k = "ccb", st2[n].at < p, Seen(st2, n - 1, p)
                   PROVE  st2[p].phase = "except"
        BY DEF RethrownOK
      <3>1. Alike(st[p], st2[p])
        BY <1>1 DEF Alikes
      <3>2. Seen(st, n - 1, p)
        <4>1. n - 1 \in Nat /\ n - 1 \in 0 .. n - 1
          BY <1>1
        <4> QED BY <1>1, <4>1, SeenAlike
      <3>3. st[n].k = "raise" /\ st[n].rec = Rethrown /\ st[n].at \in Nat /\ st[p].k = "ccb"
            /\ st2[p].phase = st[p].phase
        BY <1>1, <2>1, <3>1 DEF TopMoved, Fits, Placed, Alike
      <3>4. CASE st[n].at < p
        BY <2>1, <3>2, <3>3, <3>4 DEF Fits, RethrownOK
      <3>5. CASE p <= st[n].at
        <4>1. st[p].phase # "try"
          BY <3>3, <3>5 DEF Moved, MayPass
        <4>2. st[p].phase = "except"
          <5>1. p \in 1 .. n /\ Fits(st, p, t)
            BY <1>1
          <5> QED BY <3>3, <4>1, <5>1 DEF Fits, Placed
        <4> QED BY <3>3, <4>2
      <3> QED BY <3>3, <3>4, <3>5
    <2>6. Backed(st2, n)
      <3> SUFFICES ASSUME NEW o \in ObjectNumbers, NEW x \in 1 .. n - 1, Flies(st2, x, o),
                          Seen(st2, n, x), About(st2, n, x, o)
                   PROVE  \E h \in 1 .. x - 1 : Holds(st2, h, o) /\ Seen(st2, x, h)
        BY DEF Backed
      <3>1. Flies(st, x, o) /\ Seen(st, n, x)
        <4>1. x \in 1 .. n /\ x \in Int
          BY <1>1
        <4> QED BY <4>1, MovedFlies, MovedSeen, Zenon
      <3>2. About(st, n, x, o)
        <4>1. n \in 1 .. Len(st)
          BY <1>1
        <4>2. (Flies(st, n, o) <=> Flies(st2, n, o)) /\ (Holds(st, n, o) <=> Holds(st2, n, o))
          BY <4>1, MovedFlies, Zenon
        <4> QED BY <1>1, <4>2 DEF About, TopMoved
      <3>3. PICK h \in 1 .. x - 1 : Holds(st, h, o) /\ Seen(st, x, h)
        BY <2>1, <3>1, <3>2 DEF Fits, Backed
      <3>4. Holds(st2, h, o)
        <4>1. h \in 1 .. Len(st)
          BY <1>1
        <4> QED BY <3>3, <4>1, MovedFlies, Zenon
      <3>5. Seen(st2, x, h)
        <4>1. n - 1 \in Nat /\ x \in 0 .. n - 1
          BY <1>1
        <4> QED BY <1>1, <3>3, <4>1, SeenAlike
      <3> QED BY <3>3, <3>4, <3>5
    <2> QED BY <1>3, <2>2, <2>3, <2>4, <2>5, <2>6 DEF Fits
  <1> QED BY <1>1, <1>2, <1>3

LEMMA MovedFlagged ==
    ASSUME NEW st, NEW st2, NEW t, Moved(st, st2), \A y \in 1 .. Len(st) : Fits(st, y, t),
           NEW l, Flagged(st, l)
    PROVE  Flagged(st2, l)
  <1> DEFINE n == Len(st)
  <1>1. n \in Nat /\ n > 0 /\ Len(st2) = n /\ Alikes(st, st2, n - 1) /\ TopMoved(st[n], st2[n])
    BY DEF Moved
  <1> SUFFICES ASSUME NEW p \in 1 .. n, st2[p].k = "ccb", st2[p].rethrow, IsObject(st2[p].rec),
                      st2[p].rec \notin l
               PROVE  \E q \in p + 1 .. n : Witness(st2, p, q)
    BY <1>1 DEF Flagged
  <1>2. st[p].k = "ccb" /\ st[p].rethrow /\ st[p].rec = st2[p].rec
    BY <1>1 DEF Alikes, Alike, TopMoved, Moved, SameFlags
  <1>3. PICK q \in p + 1 .. n : Witness(st, p, q)
    BY <1>1, <1>2 DEF Flagged
  <1>4. Fits(st, q, t)
    OBVIOUS
  <1>5. Witness(st2, p, q)
    <2>1. CASE q = n
      BY <1>1, <1>2, <1>3, <1>4, <2>1 DEF Witness, TopMoved, Fits, Placed
    <2>2. CASE q < n
      <3>1. Alike(st[q], st2[q])
        BY <1>1, <2>2 DEF Alikes
      <3> QED BY <1>2, <1>3, <3>1 DEF Witness, Alike
    <2> QED BY <1>1, <2>1, <2>2
  <1> QED BY <1>5

LEMMA MovedPassed ==
    ASSUME NEW st, NEW st2, NEW t, Moved(st, st2), \A y \in 1 .. Len(st) : Fits(st, y, t),
           NEW l, Passed(st, l)
    PROVE  Passed(st2, l)
  <1> DEFINE n == Len(st)
  <1>1. n \in Nat /\ n > 0 /\ Len(st2) = n /\ Alikes(st, st2, n - 1) /\ TopMoved(st[n], st2[n])
    BY DEF Moved
  <1> SUFFICES ASSUME NEW o \in ObjectNumbers, l \subseteq {o}, NEW z \in 1 .. n, NEW p \in 1 .. z - 1,
                      HasPassed(st2, z, p, o)
               PROVE  st2[p].rethrow
    BY <1>1 DEF Passed
  <1>2. Alike(st[p], st2[p]) /\ Fits(st, p, t) /\ Fits(st, z, t)
    BY <1>1 DEF Alikes
  <1>3. st[z].k = "raise" /\ st[z].rec = o /\ st[z].at \in Nat
        /\ Holds(st, p, o) /\ st[p].phase = "try"
    <2>1. st2[z].k = "raise" /\ st2[z].rec = o /\ Holds(st2, p, o) /\ st2[p].phase = "try"
      BY DEF HasPassed
    <2>2. CASE z = n
      BY <1>1, <1>2, <2>1, <2>2 DEF TopMoved, Holds, Alike, Fits, Placed
    <2>3. CASE z < n
      <3>1. Alike(st[z], st2[z])
        BY <1>1, <2>3 DEF Alikes
      <3> QED BY <1>2, <2>1, <3>1 DEF Alike, Holds, Fits, Placed
    <2> QED BY <1>1, <2>2, <2>3
  <1>4. Seen(st, z - 1, p)
    <2>1. n - 1 \in Nat /\ z - 1 \in 0 .. n - 1
      BY <1>1
    <2> QED BY <1>1, <2>1, SeenAlike DEF HasPassed
  <1>5. \A w \in z + 1 .. n : st[w].k = "raise" /\ st[w].rec # o => st[w].at >= p
    <2> SUFFICES ASSUME NEW w \in z + 1 .. n, st[w].k = "raise", st[w].rec # o
                 PROVE  st[w].at >= p
      OBVIOUS
    <2>1. Fits(st, w, t)
      OBVIOUS
    <2>2. st2[w].k = "raise" /\ st2[w].rec # o /\ st2[w].at \in Nat /\ st2[w].at <= st[w].at
          /\ st[w].at \in Nat
      <3>1. CASE w = n
        BY <1>1, <2>1, <3>1 DEF TopMoved, Fits, Placed
      <3>2. CASE w < n
        <4>1. Alike(st[w], st2[w])
          BY <1>1, <3>2 DEF Alikes
        <4> QED BY <2>1, <4>1 DEF Alike, Fits, Placed
      <3> QED BY <1>1, <3>1, <3>2
    <2>3. st2[w].at >= p
      BY <1>1, <2>2 DEF HasPassed
    <2> QED BY <2>2, <2>3
  <1>6. CASE st[z].at < p
    <2>1. HasPassed(st, z, p, o)
      BY <1>3, <1>4, <1>5, <1>6 DEF HasPassed
    <2>2. st[p].rethrow
      BY <2>1 DEF Passed
    <2> QED BY <1>3, <2>2 DEF Moved, SameFlags, Holds
  <1>7. CASE ~(st[z].at < p)
    <2>1. z = n
      <3> SUFFICES ASSUME z < n PROVE FALSE
        BY <1>1
      <3>1. Alike(st[z], st2[z])
        BY <1>1 DEF Alikes
      <3> QED BY <1>3, <1>7, <3>1 DEF Alike, HasPassed
    <2>2. IsObject(o) /\ st[p].k = "ccb" /\ st[p].rec = o
      BY <1>3 DEF ObjectNumbers, IsObject, Holds
    <2>3. st2[n].at < p /\ p <= st[n].at
      BY <1>3, <1>7, <2>1 DEF HasPassed
    <2>4. st[p].rethrow
      BY <1>3, <2>1, <2>2, <2>3 DEF Moved, MayPass
    <2> QED BY <2>2, <2>4 DEF Moved, SameFlags
  <1> QED BY <1>6, <1>7

LEMMA MovedFlights ==
    ASSUME NEW st, NEW st2, NEW t, NEW l, Moved(st, st2), FlightOK(st, t, l)
    PROVE  FlightOK(st2, t, l)
  <1>1. \A y \in 1 .. Len(st) : Fits(st, y, t)
    BY DEF FlightOK
  <1>2. \A y \in 1 .. Len(st2) : Fits(st2, y, t)
    BY <1>1, MovedFits DEF Moved
  <1>3. Flagged(st2, l) /\ Passed(st2, l)
    BY <1>1, MovedFlagged, MovedPassed, Zenon DEF FlightOK
  <1>4. Excepted(st2)
    BY DEF FlightOK, Excepted, Moved, SameFlags, Alikes, Alike, TopMoved
  <1> QED BY <1>2, <1>3, <1>4 DEF FlightOK, Moved

LEMMA MovedOK ==
    ASSUME NEW st, NEW st2, NEW t, NEW ch, NEW a, NEW l, Moved(st, st2), ObjOK(st, t, ch, a, l)
    PROVE  ObjOK(st2, t, ch, a, l)
  <1>1. FlightOK(st, t, l) /\ FlightOK(st2, t, l) /\ \A y \in 1 .. Len(st) : Fits(st, y, t)
    BY MovedFlights DEF ObjOK, FlightOK
  <1>2. Len(st2) = Len(st)
    BY DEF Moved
  <1>3. \A q \in 1 .. Len(st) : \A o :
            (Flies(st, q, o) <=> Flies(st2, q, o)) /\ (Holds(st, q, o) <=> Holds(st2, q, o))
    BY <1>1, MovedFlies, Zenon
  <1>4. AliveOK(st2, a, l)
    <2> SUFFICES ASSUME NEW o \in ObjectNumbers, l \subseteq {o}, NEW p \in 1 .. Len(st),
                        Seen(st2, Len(st), p), Flies(st2, p, o) \/ Holds(st2, p, o)
                 PROVE  o \in a
      BY <1>2 DEF AliveOK
    <2>1. p \in Int
      BY DEF Moved
    <2>2. Seen(st, Len(st), p)
      BY <1>1, <2>1, MovedSeen, Zenon
    <2> QED BY <1>3, <2>2 DEF ObjOK, AliveOK
  <1>5. LeakOK(st2, ch, a, l)
    BY <1>2, <1>3 DEF ObjOK, LeakOK
  <1> QED BY <1>1, <1>4, <1>5 DEF ObjOK

-----------------------------------------------------------------------------
(* The flag of a catch block changes *)

Reflagged(st, st2, p) ==
    /\ Len(st) \in Nat /\ Len(st2) = Len(st) /\ p \in 1 .. Len(st) /\ st[p].k = "ccb"
    /\ Alikes(st, st2, Len(st))
    /\ \A q \in 1 .. Len(st) : q # p /\ st[q].k = "ccb" => st2[q].rethrow = st[q].rethrow

LEMMA ReflaggedFits ==
    ASSUME NEW st, NEW st2, NEW p, Reflagged(st, st2, p), NEW t,
           \A y \in 1 .. Len(st) : Fits(st, y, t)
    PROVE  \A y \in 1 .. Len(st2) : Fits(st2, y, t)
  BY FitsAlike DEF Reflagged

LEMMA ReflaggedPassed ==
    ASSUME NEW st, NEW st2, NEW p, Reflagged(st, st2, p), NEW z \in 1 .. Len(st),
           NEW r \in 1 .. z - 1, NEW o, HasPassed(st2, z, r, o)
    PROVE  HasPassed(st, z, r, o)
  <1>1. Len(st) \in Nat /\ Len(st2) = Len(st) /\ Alikes(st, st2, Len(st))
    BY DEF Reflagged
  <1>2. Alike(st[z], st2[z]) /\ Alike(st[r], st2[r])
    BY <1>1 DEF Alikes
  <1>3. Seen(st, z - 1, r) <=> Seen(st2, z - 1, r)
    <2>1. z - 1 \in 0 .. Len(st)
      BY <1>1
    <2> QED BY <1>1, <2>1, SeenAlike
  <1>4. \A w \in z + 1 .. Len(st) : Alike(st[w], st2[w])
    BY <1>1 DEF Alikes
  <1> QED BY <1>1, <1>2, <1>3, <1>4 DEF HasPassed, Alike, Holds

LEMMA FlagSet ==
    ASSUME NEW st, NEW st2, NEW p, Reflagged(st, st2, p), NEW t, NEW l, FlightOK(st, t, l),
           st2[p].rethrow,
           IsObject(st[p].rec) => \E q \in p + 1 .. Len(st) : Witness(st, p, q)
    PROVE  FlightOK(st2, t, l)
  <1>1. Len(st) \in Nat /\ Len(st2) = Len(st) /\ Alikes(st, st2, Len(st))
    BY DEF Reflagged
  <1>2. \A y \in 1 .. Len(st2) : Fits(st2, y, t)
    BY ReflaggedFits DEF FlightOK
  <1>3. Excepted(st2)
    BY <1>1 DEF FlightOK, Excepted, Reflagged, Alikes, Alike
  <1>4. Flagged(st2, l)
    <2> SUFFICES ASSUME NEW r \in 1 .. Len(st), st2[r].k = "ccb", st2[r].rethrow,
                        IsObject(st2[r].rec), st2[r].rec \notin l
                 PROVE  \E q \in r + 1 .. Len(st) : Witness(st2, r, q)
      BY <1>1 DEF Flagged
    <2>1. Alike(st[r], st2[r])
      BY <1>1 DEF Alikes
    <2>2. st[r].k = "ccb" /\ st[r].rec = st2[r].rec
      BY <2>1 DEF Alike
    <2>3. \E q \in r + 1 .. Len(st) : Witness(st, r, q)
      <3>1. CASE r = p
        BY <2>2, <3>1
      <3>2. CASE r # p
        BY <2>2, <3>2 DEF Reflagged, FlightOK, Flagged
      <3> QED BY <3>1, <3>2
    <2>4. PICK q \in r + 1 .. Len(st) : Witness(st, r, q)
      BY <2>3
    <2>5. Alike(st[q], st2[q])
      BY <1>1 DEF Alikes
    <2> QED BY <2>2, <2>4, <2>5 DEF Witness, Alike
  <1>5. Passed(st2, l)
    <2> SUFFICES ASSUME NEW o \in ObjectNumbers, l \subseteq {o}, NEW z \in 1 .. Len(st),
                        NEW r \in 1 .. z - 1, HasPassed(st2, z, r, o), r # p
                 PROVE  st2[r].rethrow
      BY <1>1 DEF Passed
    <2>1. HasPassed(st, z, r, o)
      BY ReflaggedPassed
    <2>2. st[r].rethrow /\ st[r].k = "ccb"
      BY <2>1, Zenon DEF FlightOK, Passed, HasPassed, Holds
    <2> QED BY <1>1, <2>2 DEF Reflagged
  <1> QED BY <1>1, <1>2, <1>3, <1>4, <1>5 DEF FlightOK

LEMMA FlagCleared ==
    ASSUME NEW st, NEW st2, NEW p, Reflagged(st, st2, p), NEW t, NEW l, FlightOK(st, t, l),
           ~st2[p].rethrow, st[p].phase = "try", st[Len(st)].k = "raise",
           st[Len(st)].at < p, IsObject(st[p].rec) => st[Len(st)].rec # st[p].rec
    PROVE  FlightOK(st2, t, l)
  <1>1. Len(st) \in Nat /\ Len(st2) = Len(st) /\ Alikes(st, st2, Len(st)) /\ st2[p].phase = "try"
    BY DEF Reflagged, Alikes, Alike
  <1>2. \A y \in 1 .. Len(st2) : Fits(st2, y, t)
    BY ReflaggedFits DEF FlightOK
  <1>3. Excepted(st2)
    BY <1>1 DEF FlightOK, Excepted, Reflagged, Alikes, Alike
  <1>4. Flagged(st2, l)
    <2> SUFFICES ASSUME NEW r \in 1 .. Len(st), st2[r].k = "ccb", st2[r].rethrow,
                        IsObject(st2[r].rec), st2[r].rec \notin l
                 PROVE  \E q \in r + 1 .. Len(st) : Witness(st2, r, q)
      BY <1>1 DEF Flagged
    <2>1. Alike(st[r], st2[r]) /\ r # p
      BY <1>1 DEF Alikes
    <2>2. st[r].k = "ccb" /\ st[r].rec = st2[r].rec /\ st[r].rethrow
      BY <2>1 DEF Alike, Reflagged
    <2>3. PICK q \in r + 1 .. Len(st) : Witness(st, r, q)
      BY <2>2 DEF Reflagged, FlightOK, Flagged
    <2>4. Alike(st[q], st2[q])
      BY <1>1 DEF Alikes
    <2> QED BY <2>2, <2>3, <2>4 DEF Witness, Alike
  <1>5. Passed(st2, l)
    <2> SUFFICES ASSUME NEW o \in ObjectNumbers, l \subseteq {o}, NEW z \in 1 .. Len(st),
                        NEW r \in 1 .. z - 1, HasPassed(st2, z, r, o)
                 PROVE  st2[r].rethrow
      BY <1>1 DEF Passed
    <2>1. HasPassed(st, z, r, o)
      BY ReflaggedPassed
    <2>2. st[r].rethrow /\ st[r].k = "ccb"
      BY <2>1, Zenon DEF FlightOK, Passed, HasPassed, Holds
    <2>3. r # p
      <3> SUFFICES ASSUME r = p PROVE FALSE
        OBVIOUS
      <3>1. st[p].rec = o /\ st[z].rec = o
        BY <2>1 DEF HasPassed, Holds
      <3>2. z # Len(st) /\ st[Len(st)].rec # o
        BY <3>1 DEF ObjectNumbers, IsObject
      <3>3. Len(st) \in z + 1 .. Len(st)
        BY <1>1, <3>2
      <3>4. st[Len(st)].at >= p
        BY <2>1, <3>1, <3>2, <3>3 DEF HasPassed
      <3>5. Fits(st, Len(st), t)
        BY <1>1, <3>3 DEF FlightOK
      <3>6. p \in Int /\ st[Len(st)].at \in Nat
        BY <3>5 DEF Reflagged, Fits, Placed
      <3> QED BY <3>4, <3>6
    <2> QED BY <1>1, <2>2, <2>3 DEF Reflagged
  <1> QED BY <1>1, <1>2, <1>3, <1>4, <1>5 DEF FlightOK

(* What exists is as before when the frames are. *)
LEMMA ObjectsAlike ==
    ASSUME NEW st, NEW st2, Len(st) \in Nat, Len(st2) = Len(st), Alikes(st, st2, Len(st)),
           NEW t, \A y \in 1 .. Len(st) : Fits(st, y, t), NEW ch, NEW a, NEW l
    PROVE  /\ AliveOK(st, a, l) => AliveOK(st2, a, l)
           /\ LeakOK(st, ch, a, l) => LeakOK(st2, ch, a, l)
  <1>1. \A q \in 1 .. Len(st) : \A o :
            (Flies(st, q, o) <=> Flies(st2, q, o)) /\ (Holds(st, q, o) <=> Holds(st2, q, o))
    BY FliesAlike DEF Fits
  <1>2. \A p : Seen(st, Len(st), p) <=> Seen(st2, Len(st), p)
    BY SeenAlike
  <1>3. AliveOK(st, a, l) => AliveOK(st2, a, l)
    BY <1>1, <1>2 DEF AliveOK
  <1>4. LeakOK(st, ch, a, l) => LeakOK(st2, ch, a, l)
    BY <1>1 DEF LeakOK
  <1> QED BY <1>3, <1>4

-----------------------------------------------------------------------------
(* Frames are pushed *)

Pushed(st, st2) ==
    /\ Len(st) \in Nat /\ Len(st2) \in Nat /\ Len(st2) >= Len(st)
    /\ Alikes(st, st2, Len(st)) /\ SameFlags(st, st2, Len(st))
    /\ \A q \in Len(st) + 1 .. Len(st2) :
        /\ st2[q].k \in {"raise", "unw"} => st2[q].at = q - 1
        /\ st2[q].k = "ccb" =>
            /\ st2[q].phase = "except" => st2[q].rethrow
            /\ st2[q].rethrow => \E w \in q + 1 .. Len(st2) : Witness(st2, q, w)

LEMMA RecordsAreInts == Records \subseteq Int
  BY EhAssumption DEF Records, NoRecord, Foreign, Rethrown

LEMMA FitsLater ==
    ASSUME NEW st, NEW y, NEW t \in Int, NEW t2 \in Int, t <= t2, Fits(st, y, t)
    PROVE  Fits(st, y, t2)
  <1>1. Thrown(st, y, t2)
    <2> SUFFICES ASSUME st[y].k \in {"ccb", "raise", "unw"} PROVE st[y].rec <= t2
      BY DEF Thrown
    <2>1. st[y].rec \in Int /\ st[y].rec <= t
      BY RecordsAreInts, Zenon DEF Fits, Placed, Thrown
    <2> QED BY <2>1
  <1> QED BY <1>1 DEF Fits

(* The new frames hide nothing. *)
LEMMA PushedSeen ==
    ASSUME NEW st, NEW st2, Pushed(st, st2), NEW p \in 1 .. Len(st)
    PROVE  Seen(st2, Len(st2), p) <=> Seen(st, Len(st), p)
  <1> DEFINE n == Len(st)
             m == Len(st2)
  <1>1. n \in Nat /\ m \in Nat /\ m >= n /\ Alikes(st, st2, n)
    BY DEF Pushed
  <1>2. Seen(st2, n, p) <=> Seen(st, n, p)
    BY <1>1, SeenAlike
  <1>3. Seen(st2, m, p) <=> Seen(st2, n, p)
    <2>1. ASSUME NEW q \in n + 1 .. m, st2[q].k = "unw" PROVE ~(st2[q].at < p)
      <3>1. st2[q].at = q - 1
        BY <2>1 DEF Pushed
      <3> QED BY <1>1, <3>1
    <2>2. \A q \in 1 .. m : q \in 1 .. n \/ q \in n + 1 .. m
      BY <1>1
    <2>3. \A q \in 1 .. n : q \in 1 .. m
      BY <1>1
    <2> QED BY <2>1, <2>2, <2>3 DEF Seen
  <1> QED BY <1>2, <1>3

LEMMA PushedFlights ==
    ASSUME NEW st, NEW st2, Pushed(st, st2), NEW t \in Int, NEW t2 \in Int, t <= t2, NEW l,
           FlightOK(st, t, l), \A y \in Len(st) + 1 .. Len(st2) : Fits(st2, y, t2)
    PROVE  FlightOK(st2, t2, l)
  <1> DEFINE n == Len(st)
             m == Len(st2)
  <1>1. n \in Nat /\ m \in Nat /\ m >= n /\ Alikes(st, st2, n) /\ SameFlags(st, st2, n)
    BY DEF Pushed
  <1>2. \A y \in 1 .. m : y \in 1 .. n \/ y \in n + 1 .. m
    BY <1>1
  <1>3. \A y \in 1 .. m : Fits(st2, y, t2)
    <2> SUFFICES ASSUME NEW y \in 1 .. n PROVE Fits(st2, y, t2)
      BY <1>2
    <2>1. Fits(st2, y, t)
      BY <1>1, FitsAlike DEF FlightOK
    <2> QED BY <2>1, FitsLater
  <1>4. Excepted(st2)
    <2> SUFFICES ASSUME NEW p \in 1 .. m, st2[p].k = "ccb", st2[p].phase = "except"
                 PROVE  st2[p].rethrow
      BY DEF Excepted
    <2>1. CASE p \in 1 .. n
      <3>1. Alike(st[p], st2[p])
        BY <1>1, <2>1 DEF Alikes
      <3> QED BY <1>1, <2>1, <3>1 DEF FlightOK, Excepted, Alike, SameFlags
    <2>2. CASE p \in n + 1 .. m
      BY <2>2 DEF Pushed
    <2> QED BY <1>2, <2>1, <2>2
  <1>5. Flagged(st2, l)
    <2> SUFFICES ASSUME NEW r \in 1 .. m, st2[r].k = "ccb", st2[r].rethrow,
                        IsObject(st2[r].rec), st2[r].rec \notin l
                 PROVE  \E q \in r + 1 .. m : Witness(st2, r, q)
      BY DEF Flagged
    <2>1. CASE r \in n + 1 .. m
      BY <2>1 DEF Pushed
    <2>2. CASE r \in 1 .. n
      <3>1. Alike(st[r], st2[r])
        BY <1>1, <2>2 DEF Alikes
      <3>2. st[r].k = "ccb" /\ st[r].rec = st2[r].rec /\ st[r].rethrow
        BY <1>1, <2>2, <3>1 DEF Alike, SameFlags
      <3>3. PICK q \in r + 1 .. n : Witness(st, r, q)
        BY <2>2, <3>2 DEF FlightOK, Flagged
      <3>4. Alike(st[q], st2[q])
        BY <1>1, <2>2 DEF Alikes
      <3>5. q \in r + 1 .. m
        BY <1>1
      <3> QED BY <3>2, <3>3, <3>4, <3>5 DEF Witness, Alike
    <2> QED BY <1>2, <2>1, <2>2
  <1>6. Passed(st2, l)
    <2> SUFFICES ASSUME NEW o \in ObjectNumbers, l \subseteq {o}, NEW z \in 1 .. m,
                        NEW r \in 1 .. z - 1, HasPassed(st2, z, r, o)
                 PROVE  st2[r].rethrow
      BY DEF Passed
    <2>1. z \notin n + 1 .. m
      <3> SUFFICES ASSUME z \in n + 1 .. m PROVE FALSE
        OBVIOUS
      <3>1. st2[z].at = z - 1 /\ st2[z].at < r
        BY Zenon DEF Pushed, HasPassed
      <3> QED BY <1>1, <3>1
    <2>2. z \in 1 .. n /\ r \in 1 .. n
      BY <1>1, <2>1
    <2>3. Alike(st[z], st2[z]) /\ Alike(st[r], st2[r])
      BY <1>1, <2>2 DEF Alikes
    <2>4. Seen(st, z - 1, r) <=> Seen(st2, z - 1, r)
      <3>1. z - 1 \in 0 .. n
        BY <1>1, <2>2
      <3> QED BY <1>1, <3>1, SeenAlike
    <2>5. ASSUME NEW w \in z + 1 .. n, st[w].k = "raise", st[w].rec # o PROVE st[w].at >= r
      <3>1. w \in 1 .. n /\ w \in z + 1 .. m
        BY <1>1, <2>2
      <3>2. Alike(st[w], st2[w])
        BY <1>1, <3>1 DEF Alikes
      <3> QED BY <2>5, <3>1, <3>2, Zenon DEF Alike, HasPassed
    <2>6. HasPassed(st, z, r, o)
      BY <2>3, <2>4, <2>5 DEF HasPassed, Alike, Holds
    <2>7. st[r].rethrow /\ st[r].k = "ccb"
      BY <2>2, <2>6, Zenon DEF FlightOK, Passed, HasPassed, Holds
    <2> QED BY <1>1, <2>2, <2>7 DEF SameFlags
  <1> QED BY <1>1, <1>3, <1>4, <1>5, <1>6 DEF FlightOK

LEMMA PushedFlies ==
    ASSUME NEW st, NEW st2, Pushed(st, st2), NEW t, \A y \in 1 .. Len(st) : Fits(st, y, t),
           NEW q \in 1 .. Len(st), NEW o
    PROVE  (Flies(st, q, o) <=> Flies(st2, q, o)) /\ (Holds(st, q, o) <=> Holds(st2, q, o))
  BY FliesAlike DEF Pushed, Fits

LEMMA PushedAlive ==
    ASSUME NEW st, NEW st2, Pushed(st, st2), NEW t, \A y \in 1 .. Len(st) : Fits(st, y, t),
           NEW a, NEW a2, a \subseteq a2, NEW l, AliveOK(st, a, l),
           \A q \in Len(st) + 1 .. Len(st2) : \A o \in ObjectNumbers :
               l \subseteq {o} /\ (Flies(st2, q, o) \/ Holds(st2, q, o)) => o \in a2
    PROVE  AliveOK(st2, a2, l)
  <1> SUFFICES ASSUME NEW o \in ObjectNumbers, l \subseteq {o}, NEW p \in 1 .. Len(st2),
                      Seen(st2, Len(st2), p), Flies(st2, p, o) \/ Holds(st2, p, o)
               PROVE  o \in a2
    BY DEF AliveOK
  <1>1. CASE p \in Len(st) + 1 .. Len(st2)
    BY <1>1
  <1>2. CASE p \notin Len(st) + 1 .. Len(st2)
    <2>1. p \in 1 .. Len(st)
      BY <1>2 DEF Pushed
    <2>2. Seen(st, Len(st), p) /\ (Flies(st, p, o) \/ Holds(st, p, o))
      BY <2>1, PushedSeen, PushedFlies, Zenon
    <2> QED BY <2>1, <2>2 DEF AliveOK
  <1> QED BY <1>1, <1>2

LEMMA PushedLeak ==
    ASSUME NEW st, NEW st2, Pushed(st, st2), NEW t, \A y \in 1 .. Len(st) : Fits(st, y, t),
           NEW ch, NEW a, NEW a2, NEW l, LeakOK(st, ch, a, l),
           \A o \in a2 : o \notin a => \E q \in 1 .. Len(st2) : Flies(st2, q, o)
    PROVE  LeakOK(st2, ch, a2, l)
  <1> SUFFICES ASSUME NEW o \in a2, o \notin l, ~\E i \in 1 .. Len(ch) : ch[i].obj = o
               PROVE  \E q \in 1 .. Len(st2) : Flies(st2, q, o)
    BY DEF LeakOK
  <1>1. \A q \in 1 .. Len(st) : q \in 1 .. Len(st2)
    BY DEF Pushed
  <1>2. CASE o \in a
    <2>1. PICK q \in 1 .. Len(st) : Flies(st, q, o)
      BY <1>2 DEF LeakOK
    <2>2. Flies(st2, q, o)
      BY <2>1, PushedFlies
    <2> QED BY <1>1, <2>2
  <1>3. CASE o \notin a
    BY <1>3
  <1> QED BY <1>2, <1>3

-----------------------------------------------------------------------------
(* The frames above m are cut away *)

Cut(st, st2, m) ==
    /\ Len(st) \in Nat /\ m \in 1 .. Len(st) /\ Len(st2) = m
    /\ Alikes(st, st2, m) /\ SameFlags(st, st2, m)

(* None of the frames that go has to remain: those that prove a flag right or spoil one
   are counted as lost. *)
Dispensable(st, m, l) ==
    /\ \A r \in 1 .. m : \A q \in m + 1 .. Len(st) :
           st[r].k = "ccb" /\ IsObject(st[r].rec) /\ Witness(st, r, q) => st[r].rec \in l
    /\ \A w \in m + 1 .. Len(st) : \A o \in ObjectNumbers :
           st[w].k = "raise" /\ st[w].rec # o /\ l \subseteq {o} => st[w].at >= m

LEMMA CutFlights ==
    ASSUME NEW st, NEW st2, NEW m, Cut(st, st2, m), NEW t, NEW l, NEW l2, l \subseteq l2,
           FlightOK(st, t, l), Dispensable(st, m, l2)
    PROVE  FlightOK(st2, t, l2)
  <1> DEFINE n == Len(st)
  <1>1. n \in Nat /\ m \in 1 .. n /\ Len(st2) = m /\ Alikes(st, st2, m) /\ SameFlags(st, st2, m)
    BY DEF Cut
  <1>2. \A y \in 1 .. m : Fits(st2, y, t)
    <2>1. m \in Nat /\ \A y \in 1 .. m : Fits(st, y, t)
      BY <1>1 DEF FlightOK
    <2> QED BY <1>1, <2>1, FitsAlike
  <1>3. Excepted(st2)
    BY <1>1 DEF FlightOK, Excepted, Alikes, Alike, SameFlags
  <1>4. Flagged(st2, l2)
    <2> SUFFICES ASSUME NEW r \in 1 .. m, st2[r].k = "ccb", st2[r].rethrow,
                        IsObject(st2[r].rec), st2[r].rec \notin l2
                 PROVE  \E q \in r + 1 .. m : Witness(st2, r, q)
      BY <1>1 DEF Flagged
    <2>1. Alike(st[r], st2[r])
      BY <1>1 DEF Alikes
    <2>2. st[r].k = "ccb" /\ st[r].rec = st2[r].rec /\ st[r].rethrow /\ r \in 1 .. n
      BY <1>1, <2>1 DEF Alike, SameFlags
    <2>3. PICK q \in r + 1 .. n : Witness(st, r, q)
      BY <2>2 DEF FlightOK, Flagged
    <2>4. q <= m
      <3> SUFFICES ASSUME q > m PROVE FALSE
        BY <1>1
      <3>1. q \in m + 1 .. n
        BY <1>1
      <3> QED BY <2>2, <2>3, <3>1 DEF Dispensable
    <2>5. q \in 1 .. m /\ q \in r + 1 .. m
      BY <1>1, <2>4
    <2>6. Alike(st[q], st2[q])
      BY <1>1, <2>5 DEF Alikes
    <2> QED BY <2>2, <2>3, <2>5, <2>6 DEF Witness, Alike
  <1>5. Passed(st2, l2)
    <2> SUFFICES ASSUME NEW o \in ObjectNumbers, l2 \subseteq {o}, NEW z \in 1 .. m,
                        NEW r \in 1 .. z - 1, HasPassed(st2, z, r, o)
                 PROVE  st2[r].rethrow
      BY <1>1 DEF Passed
    <2>1. z \in 1 .. n /\ r \in 1 .. m /\ l \subseteq {o}
      BY <1>1
    <2>2. Alike(st[z], st2[z]) /\ Alike(st[r], st2[r])
      BY <1>1, <2>1 DEF Alikes
    <2>3. Seen(st, z - 1, r) <=> Seen(st2, z - 1, r)
      <3>1. m \in Nat /\ z - 1 \in 0 .. m
        BY <1>1, <2>1
      <3> QED BY <1>1, <3>1, SeenAlike
    <2>4. ASSUME NEW w \in z + 1 .. n, st[w].k = "raise", st[w].rec # o PROVE st[w].at >= r
      <3>1. CASE w <= m
        <4>1. Alike(st[w], st2[w]) /\ w \in z + 1 .. Len(st2)
          BY <1>1, <2>1, <3>1 DEF Alikes
        <4> QED BY <2>4, <4>1 DEF Alike, HasPassed
      <3>2. CASE w > m
        <4>1. w \in m + 1 .. n /\ Fits(st, w, t)
          BY <1>1, <3>2 DEF FlightOK
        <4>2. st[w].at >= m /\ st[w].at \in Nat
          BY <2>4, <4>1 DEF Dispensable, Fits, Placed
        <4> QED BY <1>1, <2>1, <4>2
      <3> QED BY <1>1, <3>1, <3>2
    <2>5. HasPassed(st, z, r, o)
      BY <2>2, <2>3, <2>4 DEF HasPassed, Alike, Holds
    <2>6. st[r].rethrow /\ st[r].k = "ccb"
      BY <2>1, <2>5, Zenon DEF FlightOK, Passed, HasPassed, Holds
    <2> QED BY <1>1, <2>1, <2>6 DEF SameFlags
  <1> QED BY <1>1, <1>2, <1>3, <1>4, <1>5 DEF FlightOK

LEMMA CutFlies ==
    ASSUME NEW st, NEW st2, NEW m, Cut(st, st2, m), NEW t, \A y \in 1 .. Len(st) : Fits(st, y, t),
           NEW q \in 1 .. m, NEW o
    PROVE  (Flies(st, q, o) <=> Flies(st2, q, o)) /\ (Holds(st, q, o) <=> Holds(st2, q, o))
  <1>1. m \in Nat /\ q \in 1 .. Len(st) /\ Alikes(st, st2, m)
    BY DEF Cut
  <1>2. Placed(st, q)
    BY <1>1 DEF Fits
  <1> QED BY <1>1, <1>2, FliesAlike

LEMMA CutAlive ==
    ASSUME NEW st, NEW st2, NEW m, Cut(st, st2, m), NEW t, \A y \in 1 .. Len(st) : Fits(st, y, t),
           NEW a, NEW l, NEW l2, l \subseteq l2, AliveOK(st, a, l),
           \A p \in 1 .. m : Seen(st, m, p) => Seen(st, Len(st), p)
    PROVE  AliveOK(st2, a, l2)
  <1>1. Len(st) \in Nat /\ m \in Nat /\ m <= Len(st) /\ Len(st2) = m /\ Alikes(st, st2, m)
    BY DEF Cut
  <1> SUFFICES ASSUME NEW o \in ObjectNumbers, l2 \subseteq {o}, NEW p \in 1 .. m,
                      Seen(st2, m, p), Flies(st2, p, o) \/ Holds(st2, p, o)
               PROVE  o \in a
    BY <1>1 DEF AliveOK
  <1>2. m \in 0 .. m
    BY <1>1
  <1>3. Seen(st, m, p)
    BY <1>1, <1>2, SeenAlike
  <1>4. Flies(st, p, o) \/ Holds(st, p, o)
    BY CutFlies
  <1> QED BY <1>1, <1>3, <1>4 DEF AliveOK

-----------------------------------------------------------------------------
(* An unwind ends *)

(* The facts about the frames that the lemmas use. *)
LEMMA FlightFacts ==
    ASSUME FramesInv, FlightOK(stack, Len(thrown), lost)
    PROVE  \A q \in 1 .. Top : Fits(stack, q, Len(thrown)) /\ Placed(stack, q)
  <1>1. Top = Len(stack)
    BY StackFacts
  <1> QED BY <1>1 DEF FlightOK, Fits

LEMMA UnwindPair ==
    ASSUME FramesInv, FlightOK(stack, Len(thrown), lost), Run.k = "unw"
    PROVE  /\ Top > 1 /\ stack[Top - 1].k = "raise" /\ stack[Top - 1].at = Run.target
           /\ Run.target \in 1 .. Top - 2 /\ Run.target <= Run.at
           /\ stack[Top - 1].rec # Rethrown => Run.rec = stack[Top - 1].rec
           /\ stack[Run.target].k = "ccb" => Run.rec = Rethrown
           /\ stack[Run.target].k = "seh" => Run.rec = Foreign
  <1>1. Top \in Nat /\ Top > 0 /\ Run = stack[Top] /\ Down(stack, Top)
        /\ \A q \in 1 .. Top : Down(stack, q)
    BY StackFacts DEF Run
  <1>2. Fits(stack, Top, Len(thrown))
    BY <1>1, FlightFacts
  <1>3. Top > 1 /\ stack[Top - 1].k = "raise" /\ PairOK(stack, Top)
        /\ Run.target \in 1 .. Top - 1 /\ Run.target <= Run.at
    BY <1>1, <1>2 DEF Fits, Placed, Down, DownUnw
  <1>4. Down(stack, Top - 1)
    BY <1>1, <1>3
  <1>5. stack[Top - 1].at < Top - 1
    BY <1>3, <1>4 DEF Down, DownRaise
  <1> QED BY <1>1, <1>3, <1>5 DEF PairOK

(* What the unwind will land on sees as much as the unwind. *)
LEMMA TargetSees ==
    ASSUME FramesInv, FlightOK(stack, Len(thrown), lost), Run.k = "unw",
           NEW m \in {Run.target - 1, Run.target},
           m = Run.target - 1 => stack[Run.target].k = "ccb",
           NEW r \in 1 .. m, Seen(stack, m, r)
    PROVE  Seen(stack, Top, r)
  <1>1. Top \in Nat /\ Top > 0 /\ Run = stack[Top] /\ Down(stack, Top)
    BY StackFacts DEF Run
  <1>2. Run.target \in 1 .. Top - 2 /\ Run.target <= Run.at
    BY UnwindPair
  <1>3. Respects(stack, Top, Run.target)
    BY <1>1 DEF Down, DownUnw
  <1>4. \A q \in 1 .. Top : Placed(stack, q)
    BY FlightFacts
  <1> SUFFICES ASSUME NEW q \in 1 .. Top, stack[q].k = "unw", stack[q].at < r, r < q
               PROVE  FALSE
    BY DEF Seen
  <1>5. stack[q].at \in Nat
    BY <1>4 DEF Placed
  <1>6. CASE q <= m
    BY <1>1, <1>6 DEF Seen
  <1>7. CASE q > m /\ q <= Run.target
    BY <1>2, <1>7
  <1>8. CASE q > Run.target /\ q < Top
    <2>1. q \in 1 .. Top - 1 /\ Run.target < q
      BY <1>1, <1>2, <1>8
    <2>2. Run.target <= stack[q].at
      BY <1>3, <2>1 DEF Respects
    <2> QED BY <1>2, <1>5, <2>2
  <1>9. CASE q = Top
    BY <1>1, <1>2, <1>5, <1>9
  <1> QED BY <1>1, <1>2, <1>6, <1>7, <1>8, <1>9

(* A frame in between that is about an object counts as lost. *)
LEMMA ReplacedFlies ==
    ASSUME FramesInv, NEW q \in Run.target + 1 .. Top - 2, Run.target \in Nat, Placed(stack, q),
           stack[q].k \in {"raise", "unw"}, Down(stack, q)
    PROVE  /\ \A o \in ObjectNumbers : Flies(stack, q, o) => o \in Replaced(Run.target)
           /\ stack[q].k = "raise" => stack[q].rec \in Replaced(Run.target)
  <1>1. Top \in Nat
    BY StackFacts
  <1>2. InFlight(stack[q]) \in Replaced(Run.target)
    BY DEF Replaced
  <1>3. ASSUME NEW o \in ObjectNumbers, Flies(stack, q, o) PROVE InFlight(stack[q]) = o
    <2>1. o # Rethrown
      BY DEF ObjectNumbers, Rethrown
    <2>2. CASE stack[q].rec = o
      BY <2>1, <2>2 DEF InFlight
    <2>3. CASE stack[q].rec # o
      <3>1. stack[q].k = "unw" /\ stack[q].rec = Rethrown
            /\ stack[stack[q].target].k = "ccb" /\ stack[stack[q].target].rec = o
        BY <1>3, <2>3 DEF Flies
      <3>2. stack[q].target < Top
        BY <1>1, <3>1 DEF Placed
      <3> QED BY <3>1, <3>2 DEF InFlight
    <2> QED BY <2>2, <2>3
  <1>4. stack[q].k = "raise" => InFlight(stack[q]) = stack[q].rec
    BY DEF InFlight
  <1> QED BY <1>2, <1>3, <1>4

LEMMA LandingFlies ==
    ASSUME FramesInv, FlightOK(stack, Len(thrown), lost), Run.k = "unw", NEW o \in ObjectNumbers,
           NEW q \in 1 .. Top, Flies(stack, q, o), q > Run.target
    PROVE  o \in Replaced(Run.target) \/ Flies(stack, Top, o)
  <1>1. Top \in Nat /\ Run = stack[Top] /\ \A p \in 1 .. Top : Down(stack, p)
    BY StackFacts DEF Run
  <1>2. Run.target \in 1 .. Top - 2
    BY UnwindPair
  <1>3. \A p \in 1 .. Top : Placed(stack, p)
    BY FlightFacts
  <1>4. CASE q <= Top - 2
    <2>1. q \in Run.target + 1 .. Top - 2
      BY <1>1, <1>2, <1>4
    <2>2. stack[q].k \in {"raise", "unw"}
      BY DEF Flies
    <2> QED BY <1>1, <1>2, <1>3, <2>1, <2>2, ReplacedFlies
  <1>5. CASE q = Top - 1
    <2>1. stack[q].k = "raise" /\ (stack[q].rec # Rethrown => Run.rec = stack[q].rec)
      BY <1>5, UnwindPair
    <2>2. stack[q].rec = o /\ o # Rethrown
      BY <2>1 DEF Flies, ObjectNumbers, Rethrown
    <2> QED BY <1>1, <2>1, <2>2 DEF Flies
  <1>6. CASE q = Top
    BY <1>6
  <1> QED BY <1>1, <1>4, <1>5, <1>6

LEMMA LandingDispenses ==
    ASSUME FramesInv, FlightOK(stack, Len(thrown), lost), Run.k = "unw",
           NEW m \in {Run.target - 1, Run.target},
           m = Run.target <=> stack[Run.target].k # "ccb",
           NEW l, Replaced(Run.target) \subseteq l
    PROVE  Dispensable(stack, m, l)
  <1>1. Top \in Nat /\ Top = Len(stack) /\ Run = stack[Top] /\ \A p \in 1 .. Top : Down(stack, p)
    BY StackFacts DEF Run
  <1>2. Run.target \in 1 .. Top - 2 /\ stack[Top - 1].k = "raise" /\ stack[Top - 1].at = Run.target
    BY UnwindPair
  <1>3. \A p \in 1 .. Top : Placed(stack, p)
    BY FlightFacts
  <1>4. ASSUME NEW q \in m + 1 .. Top, stack[q].k \in {"raise", "unw"}
        PROVE  q \in Run.target + 1 .. Top - 2 \/ q = Top - 1 \/ q = Top
    BY <1>1, <1>2, <1>4
  <1>5. ASSUME NEW r \in 1 .. m, NEW q \in m + 1 .. Top, stack[r].k = "ccb",
               IsObject(stack[r].rec), Witness(stack, r, q)
        PROVE  stack[r].rec \in l
    <2>1. stack[q].k \in {"raise", "unw"} /\ r <= Run.target /\ r # Run.target
      BY <1>2, <1>5 DEF Witness
    <2>2. q # Top
      BY <1>1, <1>5, <2>1 DEF Witness
    <2>3. q # Top - 1
      BY <1>2, <1>5, <2>1 DEF Witness
    <2>4. q \in Run.target + 1 .. Top - 2
      BY <1>4, <2>1, <2>2, <2>3
    <2>5. stack[r].rec \in ObjectNumbers
      <3>1. r \in 1 .. Top
        BY <1>1, <1>2
      <3>2. stack[r].rec \in Records
        BY <1>3, <1>5, <3>1 DEF Placed
      <3> QED BY <1>5, <3>2, EhAssumption DEF Records, ObjectNumbers, IsObject, NoRecord, Foreign, Rethrown
    <2>6. Flies(stack, q, stack[r].rec)
      BY <1>5 DEF Witness, Flies
    <2>7. q \in 1 .. Top
      BY <1>1, <1>2, <2>4
    <2> QED BY <1>1, <1>2, <1>3, <2>1, <2>4, <2>5, <2>6, <2>7, ReplacedFlies
  <1>6. ASSUME NEW w \in m + 1 .. Top, NEW o \in ObjectNumbers, stack[w].k = "raise", stack[w].rec # o,
               l \subseteq {o}
        PROVE  stack[w].at >= m
    <2>1. CASE w = Top - 1
      BY <1>2, <2>1
    <2>2. CASE w \in Run.target + 1 .. Top - 2
      <3>1. w \in 1 .. Top
        BY <1>1, <1>2, <2>2
      <3>2. stack[w].rec \in Replaced(Run.target)
        BY <1>1, <1>2, <1>3, <1>6, <2>2, <3>1, ReplacedFlies, SMTT(30)
      <3> QED BY <1>6, <3>2
    <2>3. w # Top
      BY <1>1, <1>6
    <2> QED BY <1>4, <1>6, <2>1, <2>2, <2>3
  <1> QED BY <1>1, <1>5, <1>6 DEF Dispensable

-----------------------------------------------------------------------------
(* A handler is left *)

(* Alive objects are among those that the invariant speaks of. *)
LEMMA AliveObjects ==
    ASSUME TypesInv
    PROVE  /\ alive \subseteq ObjectNumbers /\ Len(thrown) \in Int
           /\ \A o \in ObjectNumbers : IsObject(o) /\ o # Rethrown /\ o # Foreign
  <1>1. raised \in 0 .. MaxRaises /\ Len(thrown) <= raised /\ thrown \in Seq(DOMAIN Catchable)
        /\ alive \subseteq 1 .. Len(thrown) /\ MaxRaises \in Nat
    BY EhAssumption DEF TypesInv
  <1>2. Len(thrown) \in Nat
    BY <1>1
  <1> QED BY <1>1, <1>2 DEF ObjectNumbers, IsObject, Rethrown, Foreign

(* A flight of the object that the handler could see began at a handler of it. *)
LEMMA HandlerBelow ==
    ASSUME FramesInv, FlightOK(stack, Len(thrown), lost), NEW p \in 1 .. Top, stack[p].k = "ccb",
           stack[p].rec \in ObjectNumbers, NEW x \in 1 .. p - 1, Seen(stack, p - 1, x),
           Flies(stack, x, stack[p].rec)
    PROVE  \E h \in HandlersIn(stack, p - 1) : stack[h].rec = stack[p].rec
  <1>1. Top \in Nat /\ Fits(stack, p, Len(thrown)) /\ \A q \in 1 .. Top : Placed(stack, q)
    BY StackFacts, FlightFacts
  <1>2. Seen(stack, p, x)
    <2>1. x \in 1 .. p - 1 /\ p \in Nat /\ p > 0
      BY <1>1
    <2> QED BY <2>1, SeenTop
  <1>3. About(stack, p, x, stack[p].rec)
    BY DEF About, Holds
  <1>4. PICK h \in 1 .. x - 1 : Holds(stack, h, stack[p].rec) /\ Seen(stack, x, h)
    BY <1>1, <1>2, <1>3 DEF Fits, Backed
  <1>5. Seen(stack, p - 1, h)
    <2>1. p - 1 \in Nat /\ x \in 1 .. p - 1 /\ h \in 1 .. x
      BY <1>1
    <2>2. \A q \in 1 .. p - 1 : stack[q].k = "unw" => stack[q].at \in Nat
      BY <1>1 DEF Placed
    <2> QED BY <1>4, <2>1, <2>2, SeenThrough
  <1>6. h \in 1 .. p - 1
    BY <1>1
  <1> QED BY <1>4, <1>5, <1>6 DEF HandlersIn, Holds

LEMMA LeaveKeeps ==
    ASSUME FramesInv, TypesInv, NEW p \in 1 .. Top, stack[p].k = "ccb",
           alive' = IF ~stack[p].rethrow /\ IsObject(stack[p].rec)
                        /\ ~\E x \in Range(chain') : x.obj = stack[p].rec
                    THEN alive \ {stack[p].rec} ELSE alive,
           HandlersIn(stack, Top) = HandlersIn(stack, p - 1) \cup {p},
           ChainFor(chain', stack, p - 1),
           NEW st2, FlightOK(st2, Len(thrown), lost), AliveOK(st2, alive, lost),
           LeakOK(st2, chain, alive, lost),
           stack[p].rec \in ObjectNumbers /\ lost \subseteq {stack[p].rec} /\ ~stack[p].rethrow =>
               \A q \in 1 .. Len(st2) :
                   /\ Seen(st2, Len(st2), q)
                   /\ Flies(st2, q, stack[p].rec) \/ Holds(st2, q, stack[p].rec)
                   => \E h \in HandlersIn(stack, p - 1) : stack[h].rec = stack[p].rec,
           stack[p].rec \in ObjectNumbers /\ stack[p].rethrow =>
               stack[p].rec \in lost \/ \E q \in 1 .. Len(st2) : Flies(st2, q, stack[p].rec)
    PROVE  ObjOK(st2, Len(thrown), chain', alive', lost)
  <1> DEFINE o == stack[p].rec
             used == \E x \in Range(chain') : x.obj = o
  <1>1. Top = Len(stack) /\ ChainFor(chain, stack, Top)
    BY StackFacts DEF FramesInv, ChainOK
  <1>2. DOMAIN chain' = 1 .. Len(chain')
    BY DEF ChainFor
  <1>3. used <=> \E j \in 1 .. Len(chain') : chain'[j].obj = o
    BY <1>2 DEF Range
  <1>4. used <=> \E h \in HandlersIn(stack, p - 1) : stack[h].rec = o
    <2>1. ASSUME used PROVE \E h \in HandlersIn(stack, p - 1) : stack[h].rec = o
      BY <1>3, <2>1, ZenonT(30) DEF ChainFor
    <2>2. ASSUME NEW h \in HandlersIn(stack, p - 1), stack[h].rec = o PROVE used
      <3>1. PICK j \in 1 .. Len(chain') : chain'[j].pos = h
        BY DEF ChainFor
      <3>2. chain'[j].obj = stack[h].rec
        BY <3>1, Zenon DEF ChainFor
      <3> QED BY <1>3, <2>2, <3>2
    <2> QED BY <2>1, <2>2
  <1>5. ASSUME NEW i \in 1 .. Len(chain), chain[i].obj # o
        PROVE  \E j \in 1 .. Len(chain') : chain'[j].obj = chain[i].obj
    <2>1. chain[i].pos \in HandlersIn(stack, Top) /\ chain[i].obj = stack[chain[i].pos].rec
      BY <1>1 DEF ChainFor
    <2>2. chain[i].pos \in HandlersIn(stack, p - 1)
      BY <1>5, <2>1
    <2>3. PICK j \in 1 .. Len(chain') : chain'[j].pos = chain[i].pos
      BY <2>2, Zenon DEF ChainFor
    <2>4. chain'[j].obj = stack[chain[i].pos].rec
      BY <2>3, Zenon DEF ChainFor
    <2> QED BY <2>1, <2>4
  <1>6. AliveOK(st2, alive', lost)
    <2> SUFFICES ASSUME NEW x \in ObjectNumbers, lost \subseteq {x}, NEW q \in 1 .. Len(st2),
                        Seen(st2, Len(st2), q), Flies(st2, q, x) \/ Holds(st2, q, x)
                 PROVE  x \in alive'
      BY DEF AliveOK
    <2>1. x \in alive
      BY DEF AliveOK
    <2>2. CASE x # o
      BY <2>1, <2>2
    <2>3. CASE x = o /\ stack[p].rethrow
      BY <2>1, <2>3
    <2>4. CASE x = o /\ ~stack[p].rethrow
      BY <1>4, <2>1, <2>4
    <2> QED BY <2>2, <2>3, <2>4
  <1>7. LeakOK(st2, chain', alive', lost)
    <2> SUFFICES ASSUME NEW x \in alive', x \notin lost, ~\E q \in 1 .. Len(st2) : Flies(st2, q, x)
                 PROVE  \E j \in 1 .. Len(chain') : chain'[j].obj = x
      BY DEF LeakOK
    <2>1. x \in alive /\ x \in ObjectNumbers /\ IsObject(x)
      BY AliveObjects
    <2>2. PICK i \in 1 .. Len(chain) : chain[i].obj = x
      BY <2>1 DEF LeakOK
    <2>3. CASE x # o
      BY <1>5, <2>2, <2>3, Zenon
    <2>4. CASE x = o
      <3>1. ~stack[p].rethrow
        BY <2>1, <2>4
      <3>2. used
        BY <2>1, <2>4, <3>1
      <3> QED BY <1>3, <2>4, <3>2
    <2> QED BY <2>3, <2>4
  <1> QED BY <1>6, <1>7 DEF ObjOK

-----------------------------------------------------------------------------
(* The program *)

(* Frames that are the same, but for what functions keep to themselves. *)
Kin(st, st2, n) ==
    \A p \in 1 .. n : st2[p] = st[p] \/ (st[p].k = "fn" /\ st2[p].k = "fn")

LEMMA KinAlike ==
    ASSUME NEW st, NEW st2, NEW n, Kin(st, st2, n)
    PROVE  Alikes(st, st2, n) /\ SameFlags(st, st2, n)
  BY DEF Kin, Alikes, Alike, SameFlags

LEMMA KinMoved ==
    ASSUME FramesInv, NEW st2, Len(st2) = Top, Kin(stack, st2, Top - 1),
           TopMoved(Run, st2[Top]), Run.k # "ccb", MayPass(stack, Top, st2[Top].at)
    PROVE  Moved(stack, st2)
  <1>1. Top \in Nat /\ Top > 0 /\ Top = Len(stack) /\ Run = stack[Top]
    BY StackFacts DEF Run
  <1>2. Alikes(stack, st2, Top - 1) /\ SameFlags(stack, st2, Top - 1)
    BY KinAlike
  <1>3. SameFlags(stack, st2, Top)
    <2> SUFFICES ASSUME NEW p \in 1 .. Top, stack[p].k = "ccb"
                 PROVE  st2[p].rethrow = stack[p].rethrow
      BY DEF SameFlags
    <2>1. p \in 1 .. Top - 1
      BY <1>1
    <2> QED BY <1>2, <2>1 DEF SameFlags
  <1> QED BY <1>1, <1>2, <1>3 DEF Moved

(* A frame of the program changes by itself. *)
LEMMA ProgramMoved ==
    ASSUME FramesInv, Run.k \in User, NEW st2, Len(st2) = Top, Kin(stack, st2, Top - 1),
           st2[Top].k = Run.k
    PROVE  Moved(stack, st2)
  <1>1. TopMoved(Run, st2[Top]) /\ Run.k # "ccb"
    BY DEF TopMoved, User
  <1>2. MayPass(stack, Top, st2[Top].at)
    BY DEF MayPass, User, Run
  <1> QED BY <1>1, <1>2, KinMoved

LEMMA ScopeObjects ==
    ASSUME EhInv, ObjInv, RunIsUser, NEW s, stack' = [stack EXCEPT ![Top].ip = s],
           UNCHANGED <<thrown, chain, alive, lost>>
    PROVE  ObjInv'
  <1>1. FramesInv /\ Run.k \in User
    BY DEF EhInv, RunIsUser
  <1>2. Top \in 1 .. Len(stack) /\ IsStack(stack) /\ Own(Run) /\ Top = Len(stack) /\ Run = stack[Top]
    BY <1>1, StackFacts DEF Run
  <1>3. PICK fr : fr = [Run EXCEPT !.ip = s]
    BY Zenon
  <1>4. stack' = [stack EXCEPT ![Top] = fr]
    BY <1>2, <1>3
  <1>5. fr.k = Run.k
    <2>1. "k" \in DOMAIN Run
      BY <1>1, <1>2 DEF Own, OwnFn, OwnSeh, OwnCatch, User, FnFields, SehFields, CatchFields
    <2> QED BY <1>3, <2>1
  <1>6. Len(stack') = Top /\ stack'[Top] = fr /\ \A p \in 1 .. Top : p # Top => stack'[p] = stack[p]
    BY <1>2, <1>4, ChangeFrame
  <1>7. Kin(stack, stack', Top - 1)
    <2>1. \A p \in 1 .. Top - 1 : p \in 1 .. Top /\ p # Top
      BY <1>2
    <2> QED BY <1>6, <2>1 DEF Kin
  <1>8. Moved(stack, stack')
    BY <1>1, <1>5, <1>6, <1>7, ProgramMoved, Zenon
  <1>9. ObjOK(stack', Len(thrown), chain, alive, lost)
    BY <1>8, MovedOK DEF ObjInv
  <1> QED BY <1>9 DEF ObjInv

LEMMA EnterScopeObjects ==
    ASSUME EhInv, ObjInv, EnterScope
    PROVE  ObjInv'
  <1>1. PICK s : stack' = [stack EXCEPT ![Top].ip = s]
    BY Zenon DEF EnterScope
  <1> QED BY <1>1, ScopeObjects, Zenon DEF EnterScope, runtime

LEMMA LeaveScopeObjects ==
    ASSUME EhInv, ObjInv, LeaveScope
    PROVE  ObjInv'
  <1>1. PICK s : stack' = [stack EXCEPT ![Top].ip = s]
    BY Zenon DEF LeaveScope
  <1> QED BY <1>1, ScopeObjects, Zenon DEF LeaveScope, runtime

NewFrame(fr, n) == fr.k # "ccb" /\ (fr.k \in {"raise", "unw"} => fr.at = n)

LEMMA Appended ==
    ASSUME NEW st, IsStack(st), NEW fr, NEW st2, st2 = Append(st, fr),
           NewFrame(fr, Len(st))
    PROVE  /\ Pushed(st, st2) /\ IsStack(st2) /\ Len(st2) = Len(st) + 1 /\ Len(st) \in Nat
           /\ st2[Len(st) + 1] = fr /\ \A p \in 1 .. Len(st) : st2[p] = st[p]
  <1>1. /\ IsStack(st2) /\ Len(st2) = Len(st) + 1 /\ Len(st) \in Nat
        /\ st2[Len(st) + 1] = fr /\ \A p \in 1 .. Len(st) : st2[p] = st[p]
    BY PushFrame
  <1>2. Alikes(st, st2, Len(st)) /\ SameFlags(st, st2, Len(st))
    BY <1>1 DEF Alikes, Alike, SameFlags
  <1>3. \A q \in Len(st) + 1 .. Len(st2) : q = Len(st) + 1 /\ q - 1 = Len(st)
    BY <1>1
  <1> QED BY <1>1, <1>2, <1>3 DEF Pushed, NewFrame

(* Code of the program is called. *)
IsCode(fr) == fr.k \in {"fn", "seh"}

LEMMA CodePushed ==
    ASSUME NEW st, IsStack(st), NEW t \in Int, NEW ch, NEW a, NEW l, ObjOK(st, t, ch, a, l),
           NEW fr, IsCode(fr), NEW st2, st2 = Append(st, fr)
    PROVE  ObjOK(st2, t, ch, a, l)
  <1>1. Pushed(st, st2) /\ Len(st2) = Len(st) + 1 /\ Len(st) \in Nat /\ st2[Len(st) + 1] = fr
    <2>1. NewFrame(fr, Len(st))
      BY DEF NewFrame, IsCode
    <2> QED BY <2>1, Appended, Zenon
  <1>2. FlightOK(st, t, l) /\ AliveOK(st, a, l) /\ LeakOK(st, ch, a, l)
        /\ \A y \in 1 .. Len(st) : Fits(st, y, t)
    BY DEF ObjOK, FlightOK
  <1>3. \A q \in Len(st) + 1 .. Len(st2) : st2[q].k \in {"fn", "seh"}
    BY <1>1 DEF IsCode
  <1>4. \A q \in Len(st) + 1 .. Len(st2) : Fits(st2, q, t)
    BY <1>3 DEF Fits, Placed, Thrown, PairOK, RethrownOK, Backed, About, Flies, Holds
  <1>5. FlightOK(st2, t, l)
    <2>1. t <= t
      OBVIOUS
    <2> QED BY <1>1, <1>2, <1>4, <2>1, PushedFlights, Zenon
  <1>6. AliveOK(st2, a, l)
    <2>1. \A q \in Len(st) + 1 .. Len(st2) : \A o : ~(Flies(st2, q, o) \/ Holds(st2, q, o))
      BY <1>3 DEF Flies, Holds
    <2> QED BY <1>1, <1>2, <2>1, PushedAlive, Zenon
  <1>7. LeakOK(st2, ch, a, l)
    BY <1>1, <1>2, PushedLeak, Zenon
  <1> QED BY <1>5, <1>6, <1>7 DEF ObjOK

LEMMA CallObjects ==
    ASSUME EhInv, ObjInv, Call
    PROVE  ObjInv'
  <1>1. FramesInv /\ TypesInv
    BY DEF EhInv
  <1>2. IsStack(stack) /\ Len(thrown) \in Int
    BY <1>1, StackFacts, AliveObjects
  <1>3. PICK fr : fr.k \in {"fn", "seh"} /\ stack' = Append(stack, fr)
    <2>1. PICK g : stack' = Append(stack, Enter(g))
      BY DEF Call
    <2>2. Enter(g).k \in {"fn", "seh"}
      BY DEF Enter, Fn, Seh
    <2> QED BY <2>1, <2>2
  <1>4. ObjOK(stack', Len(thrown), chain, alive, lost)
    <2>1. PICK t \in Int : t = Len(thrown)
      BY <1>2, Zenon
    <2>2. ObjOK(stack, t, chain, alive, lost)
      BY <2>1 DEF ObjInv
    <2>3. ObjOK(stack', t, chain, alive, lost)
      <3>1. PICK st2 : st2 = stack'
        OBVIOUS
      <3>2. IsStack(stack) /\ IsCode(fr) /\ st2 = Append(stack, fr)
        BY <1>2, <1>3, <3>1 DEF IsCode
      <3>3. ObjOK(st2, t, chain, alive, lost)
        BY <2>2, <3>2, CodePushed, Zenon
      <3> QED BY <3>1, <3>3
    <2> QED BY <2>1, <2>3
  <1>5. UNCHANGED <<thrown, chain, alive, lost>>
    BY DEF Call, runtime, ghost
  <1> QED BY <1>4, <1>5 DEF ObjInv

LEMMA ReturnObjects ==
    ASSUME EhInv, ObjInv, Return
    PROVE  ObjInv'
  <1>1. FramesInv /\ Run.k \in {"fn", "seh"}
    BY DEF EhInv, Return, RunIsUser, User
  <1>2. Top \in Nat /\ Top > 1 /\ Top = Len(stack) /\ IsStack(stack) /\ Run = stack[Top]
    BY <1>1, StackFacts DEF Return, Run
  <1> DEFINE m == Top - 1
  <1>3. Len(stack') = m /\ \A p \in 1 .. m : stack'[p] = stack[p]
    <2>1. stack' = SubSeq(stack, 1, m) /\ m \in 0 .. Len(stack)
      BY <1>2 DEF Return, Front
    <2> QED BY <1>2, <2>1, CutFrames
  <1>4. Kin(stack, stack', m)
    BY <1>3 DEF Kin
  <1>5. Cut(stack, stack', m)
    BY <1>2, <1>3, <1>4, KinAlike DEF Cut
  <1>6. \A q \in m + 1 .. Len(stack) : q = Top /\ stack[q].k \in {"fn", "seh"}
    BY <1>1, <1>2
  <1>7. Dispensable(stack, m, lost)
    BY <1>6 DEF Dispensable, Witness
  <1>8. FlightOK(stack, Len(thrown), lost) /\ AliveOK(stack, alive, lost)
        /\ LeakOK(stack, chain, alive, lost) /\ \A y \in 1 .. Len(stack) : Fits(stack, y, Len(thrown))
    BY DEF ObjInv, ObjOK, FlightOK
  <1>9. FlightOK(stack', Len(thrown), lost)
    BY <1>5, <1>7, <1>8, CutFlights
  <1>10. AliveOK(stack', alive, lost)
    <2>1. ASSUME NEW p \in 1 .. m, Seen(stack, m, p) PROVE Seen(stack, Len(stack), p)
      <3>1. Seen(stack, Top, p) <=> Seen(stack, Top - 1, p)
        BY <1>1, <1>2, SeenTop
      <3> QED BY <1>2, <2>1, <3>1
    <2> QED BY <1>5, <1>8, <2>1, CutAlive, Zenon
  <1>11. LeakOK(stack', chain, alive, lost)
    <2> SUFFICES ASSUME NEW o \in alive, NEW q \in 1 .. Len(stack), Flies(stack, q, o)
                 PROVE  \E r \in 1 .. m : Flies(stack', r, o)
      BY <1>3, <1>8 DEF LeakOK
    <2>1. q # Top
      BY <1>1, <1>2 DEF Flies
    <2>2. q \in 1 .. m
      BY <1>2, <2>1
    <2> QED BY <1>5, <1>8, <2>2, CutFlies, Zenon
  <1>12. UNCHANGED <<thrown, chain, alive, lost>>
    BY DEF Return, runtime, ghost
  <1> QED BY <1>9, <1>10, <1>11, <1>12 DEF ObjInv, ObjOK

(* The object of an exception that is raised is a new one. *)
LEMMA NothingFlies ==
    ASSUME FramesInv, FlightOK(stack, Len(thrown), lost), Len(thrown) \in Int,
           NEW o \in ObjectNumbers, o > Len(thrown), NEW q \in 1 .. Top
    PROVE  ~Flies(stack, q, o)
  <1> SUFFICES ASSUME Flies(stack, q, o) PROVE FALSE
    OBVIOUS
  <1>1. Fits(stack, q, Len(thrown)) /\ Top \in Nat
    BY FlightFacts, StackFacts
  <1>2. CASE stack[q].rec = o
    BY <1>1, <1>2 DEF Flies, Fits, Thrown, ObjectNumbers
  <1>3. CASE stack[q].rec # o
    <2>1. stack[q].k = "unw" /\ stack[stack[q].target].k = "ccb" /\ stack[stack[q].target].rec = o
      BY <1>3 DEF Flies
    <2>2. stack[q].target \in 1 .. Top
      BY <1>1, <2>1 DEF Fits, Placed
    <2>3. Fits(stack, stack[q].target, Len(thrown))
      BY <2>2, FlightFacts
    <2> QED BY <2>1, <2>3 DEF Fits, Thrown, ObjectNumbers
  <1> QED BY <1>2, <1>3

LEMMA RaiseObjects ==
    ASSUME FramesInv, ObjInv, NEW rec \in Records, NEW want,
           NEW st2, st2 = Append(stack, Raise(rec, Top, want)), Len(thrown) \in Int,
           NEW t2 \in Int, Len(thrown) <= t2, rec <= t2, rec \in ObjectNumbers => rec > Len(thrown),
           NEW a2, alive \subseteq a2, rec \in ObjectNumbers => rec \in a2,
           \A o \in a2 : o \in alive \/ o = rec
    PROVE  ObjOK(st2, t2, chain, a2, lost)
  <1>1. Top \in Nat /\ Top = Len(stack) /\ IsStack(stack)
    BY StackFacts
  <1>2. PICK fr : fr = Raise(rec, Top, want)
    OBVIOUS
  <1>3. fr.k = "raise" /\ fr.rec = rec /\ fr.at = Top
    BY <1>2 DEF Raise
  <1>4. Pushed(stack, st2) /\ Len(st2) = Top + 1 /\ st2[Top + 1] = fr
    <2>1. NewFrame(fr, Len(stack)) /\ st2 = Append(stack, fr)
      BY <1>1, <1>2, <1>3 DEF NewFrame
    <2> QED BY <1>1, <2>1, Appended, Zenon
  <1>5. FlightOK(stack, Len(thrown), lost) /\ AliveOK(stack, alive, lost)
        /\ LeakOK(stack, chain, alive, lost) /\ \A y \in 1 .. Len(stack) : Fits(stack, y, Len(thrown))
    BY DEF ObjInv, ObjOK, FlightOK
  <1>6. Fits(st2, Top + 1, t2)
    <2>1. Placed(st2, Top + 1) /\ Thrown(st2, Top + 1, t2) /\ PairOK(st2, Top + 1)
      BY <1>1, <1>3, <1>4 DEF Placed, Thrown, PairOK
    <2>2. RethrownOK(st2, Top + 1)
      BY <1>1, <1>3, <1>4 DEF RethrownOK
    <2>3. Backed(st2, Top + 1)
      <3> SUFFICES ASSUME NEW o \in ObjectNumbers, NEW x \in 1 .. Top, Flies(st2, x, o),
                          About(st2, Top + 1, x, o)
                   PROVE  FALSE
        BY <1>1 DEF Backed
      <3>1. rec = o
        BY <1>3, <1>4 DEF About, Holds, Flies
      <3>2. ~Flies(stack, x, o)
        BY <1>5, <3>1, NothingFlies
      <3>3. x \in 1 .. Len(stack)
        BY <1>1
      <3> QED BY <1>4, <1>5, <3>2, <3>3, PushedFlies, Zenon
    <2> QED BY <2>1, <2>2, <2>3 DEF Fits
  <1>7. \A q \in Len(stack) + 1 .. Len(st2) : q = Top + 1
    BY <1>1, <1>4
  <1>8. FlightOK(st2, t2, lost)
    <2>1. \A q \in Len(stack) + 1 .. Len(st2) : Fits(st2, q, t2)
      BY <1>6, <1>7
    <2>2. PICK t \in Int : t = Len(thrown)
      OBVIOUS
    <2>3. FlightOK(stack, t, lost) /\ t <= t2
      BY <1>5, <2>2
    <2> QED BY <1>4, <2>1, <2>3, PushedFlights, Zenon
  <1>9. AliveOK(st2, a2, lost)
    <2>1. \A q \in Len(stack) + 1 .. Len(st2) : \A o \in ObjectNumbers :
              Flies(st2, q, o) \/ Holds(st2, q, o) => o \in a2
      BY <1>3, <1>4, <1>7 DEF Flies, Holds
    <2> QED BY <1>4, <1>5, <2>1, PushedAlive, Zenon
  <1>10. LeakOK(st2, chain, a2, lost)
    <2>1. ASSUME NEW o \in a2, o \notin alive PROVE \E q \in 1 .. Len(st2) : Flies(st2, q, o)
      <3>1. Flies(st2, Top + 1, o)
        BY <1>3, <1>4, <2>1 DEF Flies
      <3>2. Top + 1 \in 1 .. Len(st2)
        BY <1>1, <1>4
      <3> QED BY <3>1, <3>2
    <2> QED BY <1>4, <1>5, <2>1, PushedLeak, Zenon
  <1> QED BY <1>8, <1>9, <1>10 DEF ObjOK

LEMMA ThrowObjects ==
    ASSUME EhInv, ObjInv, Throw
    PROVE  ObjInv'
  <1>1. FramesInv /\ TypesInv /\ Len(thrown) \in Nat
    <2>1. TypesInv
      BY DEF EhInv
    <2>2. thrown \in Seq(DOMAIN Catchable)
      BY <2>1 DEF TypesInv
    <2> QED BY <2>1, <2>2 DEF EhInv
  <1>2. PICK type \in DOMAIN Catchable : thrown' = Append(thrown, type)
    BY DEF Throw
  <1>3. raised \in 0 .. MaxRaises /\ raised < MaxRaises /\ Len(thrown) <= raised
        /\ thrown \in Seq(DOMAIN Catchable)
    BY <1>1 DEF Throw, MayRaise, TypesInv
  <1>4. PICK rec : rec = Len(thrown')
    BY Zenon
  <1>5. rec = Len(thrown) + 1
    BY <1>2, <1>3, <1>4
  <1>6. rec \in Records /\ rec \in Int
    BY <1>1, <1>3, <1>5, EhAssumption DEF Records
  <1>7. PICK want : stack' = Append(stack, Raise(rec, Top, want))
    BY <1>4 DEF Throw
  <1>8. alive' = alive \cup {rec} /\ UNCHANGED <<chain, lost>>
    BY <1>4 DEF Throw, runtime
  <1>9. Len(thrown) <= rec /\ rec <= rec /\ rec > Len(thrown) /\ Len(thrown) \in Int
    BY <1>1, <1>5
  <1>10. ObjOK(stack', rec, chain, alive', lost)
    BY <1>1, <1>6, <1>7, <1>8, <1>9, RaiseObjects, Zenon
  <1> QED BY <1>4, <1>8, <1>10 DEF ObjInv

LEMMA OtherRaise ==
    ASSUME EhInv, ObjInv, NEW rec \in {Rethrown, Foreign}, NEW want,
           stack' = Append(stack, Raise(rec, Top, want)), UNCHANGED <<thrown, chain, alive, lost>>
    PROVE  ObjInv'
  <1>1. FramesInv /\ TypesInv /\ Len(thrown) \in Nat
    <2>1. TypesInv
      BY DEF EhInv
    <2>2. thrown \in Seq(DOMAIN Catchable)
      BY <2>1 DEF TypesInv
    <2> QED BY <2>1, <2>2 DEF EhInv
  <1>2. rec \in Records /\ rec \in Int /\ rec <= 0 /\ rec \notin ObjectNumbers
    BY DEF Records, ObjectNumbers, Rethrown, Foreign
  <1>3. PICK t \in Int : t = Len(thrown)
    BY <1>1
  <1>4. Len(thrown) <= t /\ rec <= t /\ Len(thrown) \in Int
    BY <1>1, <1>2, <1>3
  <1>5. ObjOK(stack', t, chain, alive, lost)
    BY <1>1, <1>2, <1>4, RaiseObjects, Zenon
  <1> QED BY <1>3, <1>5 DEF ObjInv

LEMMA RethrowObjects ==
    ASSUME EhInv, ObjInv, Rethrow
    PROVE  ObjInv'
  <1>1. PICK want : stack' = Append(stack, Raise(Rethrown, Top, want))
    BY DEF Rethrow
  <1>2. UNCHANGED <<thrown, chain, alive, lost>>
    BY DEF Rethrow, runtime, ghost
  <1> QED BY <1>1, <1>2, OtherRaise

LEMMA FaultObjects ==
    ASSUME EhInv, ObjInv, Fault
    PROVE  ObjInv'
  <1>1. stack' = Append(stack, Raise(Foreign, Top, Unspecified))
    BY DEF Fault
  <1>2. UNCHANGED <<thrown, chain, alive, lost>>
    BY DEF Fault, runtime, ghost
  <1> QED BY <1>1, <1>2, OtherRaise

-----------------------------------------------------------------------------
(* The search *)

(* The records of frames that have moved. *)
LEMMA RecKept ==
    ASSUME NEW r, Own(r), r.k = "raise"
    PROVE  /\ NextFrame(r).rec = r.rec
           /\ \A ph : Rephased(r, ph).rec = r.rec
           /\ \A u : Collided(r, u).rec = r.rec
  <1>1. DOMAIN r = RaiseFields
    BY DEF Own, OwnRaise
  <1> QED BY <1>1 DEF RaiseFields, NextFrame, Rephased, Collided

(* The dispatcher at the top moves, and functions may change. *)
LEMMA SearchMoved ==
    ASSUME FramesInv, Run.k = "raise", NEW st2, Len(st2) = Top, Kin(stack, st2, Top - 1),
           st2[Top].k = "raise", st2[Top].rec = Run.rec, st2[Top].at \in Nat,
           st2[Top].at <= Run.at, MayPass(stack, Top, st2[Top].at)
    PROVE  Moved(stack, st2)
  <1>1. TopMoved(Run, st2[Top]) /\ Run.k # "ccb"
    BY DEF TopMoved
  <1> QED BY <1>1, KinMoved

(* It may go past any frame that is no handler, and one that has ended. *)
LEMMA PassesOne ==
    ASSUME FramesInv, Run.k = "raise", Run.at > 0,
           stack[Run.at].k # "ccb" \/ stack[Run.at].phase = "except",
           NEW x \in {Run.at, Run.at - 1}
    PROVE  MayPass(stack, Top, x)
  <1>1. Run.at \in Nat /\ Run = stack[Top]
    BY RaiseFacts DEF Run
  <1> SUFFICES ASSUME NEW p \in 1 .. Top - 1, x < p, p <= Run.at, stack[p].k = "ccb",
                      stack[p].phase = "try"
               PROVE  FALSE
    BY <1>1 DEF MayPass
  <1>2. p \in Int /\ Top \in Nat
    BY StackFacts
  <1>3. p = Run.at
    BY <1>1, <1>2
  <1> QED BY <1>3

(* An exception that is not C++ goes past every handler but those of "throw;". *)
LEMMA PassesForeign ==
    ASSUME FramesInv, Run.k = "raise", Run.rec # Rethrown, ~IsObject(Run.rec), NEW x
    PROVE  MayPass(stack, Top, x)
  BY DEF MayPass, Run

LEMMA AppendedAt ==
    ASSUME NEW s, IsStack(s), NEW n, n = Len(s), NEW fr, NewFrame(fr, n),
           NEW st2, st2 = Append(s, fr)
    PROVE  /\ Pushed(s, st2) /\ IsStack(st2) /\ Len(st2) = n + 1 /\ st2[n + 1] = fr
           /\ \A q \in 1 .. n : st2[q] = s[q]
  <1>1. NewFrame(fr, Len(s))
    BY Zenon
  <1>2. Pushed(s, st2)
    BY <1>1, Appended, Zenon
  <1>3. Len(st2) = Len(s) + 1
    BY <1>1, Appended, Zenon
  <1>4. st2[Len(s) + 1] = fr
    BY <1>1, Appended, Zenon
  <1>5. \A q \in 1 .. Len(s) : st2[q] = s[q]
    BY <1>1, Appended
  <1>6. IsStack(st2)
    BY <1>1, Appended, Zenon
  <1> QED BY <1>2, <1>3, <1>4, <1>5, <1>6, Zenon

(* The dispatcher starts an unwind for its own record, or for the current exception in
   the place of "throw;". *)
LEMMA UnwindPushed ==
    ASSUME NEW s, IsStack(s), NEW t \in Int, NEW ch, NEW a, NEW l, ObjOK(s, t, ch, a, l),
           NEW n \in Nat, n = Len(s), s[n].k = "raise", NEW p \in 1 .. n - 1, s[n].at = p,
           Respects(s, n, p), NEW rec \in Records, 0 <= t, NEW hit, NEW want,
           s[n].rec # Rethrown => rec = s[n].rec,
           s[n].rec = Rethrown => rec = Rethrown \/ IsCurrent(s, n, rec),
           s[p].k = "ccb" => rec = Rethrown, s[p].k = "seh" => rec = Foreign,
           NEW st2, st2 = Append(s, Unw(rec, n, p, hit, want))
    PROVE  ObjOK(st2, t, ch, a, l)
  <1>1. PICK fr : fr = Unw(rec, n, p, hit, want)
    OBVIOUS
  <1>2. fr.k = "unw" /\ fr.rec = rec /\ fr.at = n /\ fr.target = p
    BY <1>1 DEF Unw
  <1>3. PICK y : y = n + 1
    OBVIOUS
  <1>4. Pushed(s, st2) /\ Len(st2) = y /\ st2[y] = fr /\ \A q \in 1 .. n : st2[q] = s[q]
    <2>1. IsStack(s) /\ n = Len(s) /\ NewFrame(fr, n)
      BY <1>2 DEF NewFrame
    <2>0. st2 = Append(s, fr)
      BY <1>1
    <2>2. Pushed(s, st2)
      BY <2>0, <2>1, AppendedAt, Zenon
    <2>3. Len(st2) = n + 1
      BY <2>0, <2>1, AppendedAt
    <2>4. st2[n + 1] = fr
      BY <2>0, <2>1, AppendedAt
    <2>5. \A q \in 1 .. n : st2[q] = s[q]
      BY <2>0, <2>1, AppendedAt
    <2> QED BY <1>3, <2>2, <2>3, <2>4, <2>5
  <1>5. FlightOK(s, t, l) /\ AliveOK(s, a, l) /\ LeakOK(s, ch, a, l)
        /\ \A q \in 1 .. n : Fits(s, q, t) /\ Placed(s, q)
    BY DEF ObjOK, FlightOK, Fits
  <1>6. \A q \in 1 .. n : s[q].k = "unw" => s[q].at \in Nat
    BY <1>5 DEF Placed
  <1>7. Seen(s, n, p)
    <2>1. Seen(s, n - 1, p)
      <3>1. \A q \in 1 .. n - 1 : s[q].k = "unw" => s[q].at \in Nat
        BY <1>6
      <3> QED BY <3>1 DEF Respects, Seen
    <2>2. n > 0 /\ s[n].k # "unw"
      OBVIOUS
    <2>3. Seen(s, n, p) <=> Seen(s, n - 1, p) /\ (s[n].k = "unw" => p <= s[n].at)
      BY <2>2, SeenTop, Zenon
    <2> QED BY <2>1, <2>2, <2>3
  (* Where the object comes from: the search, or a handler that sees all. *)
  <1>8. ASSUME NEW o \in ObjectNumbers, Flies(st2, y, o)
        PROVE  Flies(s, n, o) \/ \E m \in 1 .. n : Holds(s, m, o) /\ Seen(s, n, m)
    <2>0. o # 0 /\ o # NoRecord /\ IsObject(o)
      BY DEF ObjectNumbers, NoRecord, IsObject
    <2>1. CASE rec = o
      <3>1. CASE s[n].rec # Rethrown
        BY <2>1, <3>1 DEF Flies
      <3>2. CASE s[n].rec = Rethrown
        <4>1. IsCurrent(s, n, o)
          BY <2>0, <2>1, <3>2 DEF Rethrown
        <4>2. PICK m \in HandlersIn(s, n) : o = s[m].rec
          BY <2>0, <4>1 DEF IsCurrent
        <4> QED BY <4>2 DEF HandlersIn, Holds
      <3> QED BY <3>1, <3>2
    <2>2. CASE rec # o
      <3>1. st2[p].k = "ccb" /\ st2[p].rec = o
        BY <1>2, <1>4, <2>2, <1>8 DEF Flies
      <3>2. p \in 1 .. n
        OBVIOUS
      <3>3. Holds(s, p, o)
        BY <1>4, <3>1, <3>2 DEF Holds
      <3> QED BY <1>7, <3>2, <3>3
    <2> QED BY <2>1, <2>2
  <1>9. Backed(st2, y)
    <2> SUFFICES ASSUME NEW o \in ObjectNumbers, NEW x \in 1 .. y - 1, Flies(st2, x, o),
                        Seen(st2, y, x), About(st2, y, x, o)
                 PROVE  \E h \in 1 .. x - 1 : Holds(st2, h, o) /\ Seen(st2, x, h)
      BY DEF Backed
    <2>1. Flies(st2, y, o) /\ x # n
      BY <1>2, <1>3, <1>4 DEF About, Holds
    <2>2. x \in 1 .. n - 1 /\ x \in 1 .. n /\ y \in Nat /\ n \in 0 .. y
      BY <1>3, <2>1
    <2>3. Alikes(s, st2, n)
      BY <1>4 DEF Pushed
    <2>4. Flies(s, x, o)
      BY <1>4, <1>5, <2>2, PushedFlies, Zenon
    <2>5. Seen(s, n, x)
      <3>1. Seen(st2, n, x)
        BY <2>2, SeenFromBelow
      <3> QED BY <2>2, <2>3, <3>1, SeenAlike
    <2>6. \E h \in 1 .. x - 1 : Holds(s, h, o) /\ Seen(s, x, h)
      <3>1. CASE Flies(s, n, o)
        <4>1. About(s, n, x, o)
          BY <3>1 DEF About
        <4>2. Backed(s, n) /\ n \in 1 .. n
          BY <1>5, <2>2 DEF Fits
        <4> QED BY <2>2, <2>4, <2>5, <4>1, <4>2, Zenon DEF Backed
      <3>2. ASSUME NEW m \in 1 .. n, Holds(s, m, o), Seen(s, n, m)
            PROVE  \E h \in 1 .. x - 1 : Holds(s, h, o) /\ Seen(s, x, h)
        <4>1. x # m
          BY <2>4, <3>2 DEF Flies, Holds
        <4>2. CASE m < x
          <5>1. m \in 1 .. x - 1 /\ x \in 0 .. n
            BY <2>2, <4>2
          <5>2. Seen(s, x, m)
            BY <3>2, <5>1, SeenFromBelow
          <5> QED BY <3>2, <5>1, <5>2
        <4>3. CASE x < m
          <5>1. x \in 1 .. m - 1 /\ m \in 0 .. n
            BY <2>2, <4>3
          <5>2. Seen(s, m, x)
            BY <2>5, <5>1, SeenFromBelow
          <5>3. About(s, m, x, o) /\ Backed(s, m)
            BY <1>5, <3>2 DEF About, Fits
          <5> QED BY <2>4, <5>1, <5>2, <5>3 DEF Backed
        <4> QED BY <2>2, <4>1, <4>2, <4>3
      <3> QED BY <1>8, <2>1, <3>1, <3>2, Zenon
    <2>7. PICK h \in 1 .. x - 1 : Holds(s, h, o) /\ Seen(s, x, h)
      BY <2>6
    <2>8. Holds(st2, h, o)
      <3>1. h \in 1 .. n
        BY <2>2
      <3> QED BY <1>4, <2>7, <3>1 DEF Holds
    <2>9. Seen(st2, x, h)
      <3>1. x \in 0 .. n
        BY <2>2
      <3> QED BY <2>3, <2>7, <3>1, SeenAlike
    <2> QED BY <2>8, <2>9
  <1>10. Fits(st2, y, t)
    <2>1. st2[n] = s[n] /\ st2[p] = s[p] /\ y - 1 = n /\ y > 1 /\ p \in 1 .. y - 1 /\ p \in 1 .. n
      BY <1>3, <1>4
    <2>2. Placed(st2, y)
      BY <1>2, <1>4, <2>1 DEF Placed
    <2>3. Thrown(st2, y, t)
      <3> SUFFICES rec <= t
        BY <1>2, <1>4 DEF Thrown
      <3>1. CASE s[n].rec # Rethrown
        <4>1. Thrown(s, n, t)
          BY <1>5, <2>1 DEF Fits
        <4> QED BY <3>1, <4>1 DEF Thrown
      <3>2. CASE rec = Rethrown
        BY <3>2 DEF Rethrown
      <3>3. CASE IsCurrent(s, n, rec)
        <4>1. CASE rec = NoRecord
          BY <4>1 DEF NoRecord
        <4>2. CASE \E m \in HandlersIn(s, n) : rec = s[m].rec
          <5>1. PICK m \in 1 .. n : s[m].k = "ccb" /\ rec = s[m].rec
            BY <4>2 DEF HandlersIn
          <5>2. Thrown(s, m, t)
            BY <1>5 DEF Fits
          <5> QED BY <5>1, <5>2 DEF Thrown
        <4> QED BY <3>3, <4>1, <4>2 DEF IsCurrent
      <3> QED BY <3>1, <3>2, <3>3
    <2>4. PairOK(st2, y)
      BY <1>2, <1>4, <2>1 DEF PairOK
    <2>5. RethrownOK(st2, y)
      BY <1>2, <1>4 DEF RethrownOK
    <2> QED BY <1>9, <2>2, <2>3, <2>4, <2>5 DEF Fits
  <1>11. \A q \in Len(s) + 1 .. Len(st2) : q = y
    BY <1>3, <1>4
  <1>12. FlightOK(st2, t, l)
    <2>1. \A q \in Len(s) + 1 .. Len(st2) : Fits(st2, q, t)
      BY <1>10, <1>11, Zenon
    <2>2. t <= t
      OBVIOUS
    <2> QED BY <1>4, <1>5, <2>1, <2>2, PushedFlights, Zenon
  <1>13. AliveOK(st2, a, l)
    <2>1. ASSUME NEW o \in ObjectNumbers, l \subseteq {o}, Flies(st2, y, o) \/ Holds(st2, y, o)
          PROVE  o \in a
      <3>1. Flies(st2, y, o)
        BY <1>2, <1>4, <2>1 DEF Holds
      <3>2. n \in 1 .. n /\ Seen(s, n, n)
        BY SeenItself
      <3> QED BY <1>5, <1>8, <2>1, <3>1, <3>2 DEF AliveOK
    <2>2. \A q \in Len(s) + 1 .. Len(st2) : \A o \in ObjectNumbers :
              l \subseteq {o} /\ (Flies(st2, q, o) \/ Holds(st2, q, o)) => o \in a
      BY <1>11, <2>1, Zenon
    <2> QED BY <1>4, <1>5, <2>2, PushedAlive, Zenon
  <1>14. LeakOK(st2, ch, a, l)
    BY <1>4, <1>5, PushedLeak, Zenon
  <1> QED BY <1>12, <1>13, <1>14 DEF ObjOK

LEMMA CurrentAlike ==
    ASSUME NEW st, NEW st2, NEW n \in Nat, Alikes(st, st2, n), NEW rec, IsCurrent(st, n, rec)
    PROVE  IsCurrent(st2, n, rec)
  <1>1. n \in 0 .. n
    OBVIOUS
  <1>2. \A p : Seen(st, n, p) <=> Seen(st2, n, p)
    BY <1>1, SeenAlike
  <1>3. \A p \in 1 .. n : st[p].k = st2[p].k /\ (st[p].k = "ccb" => st[p].rec = st2[p].rec)
    BY DEF Alikes, Alike
  <1>4. HandlersIn(st, n) = HandlersIn(st2, n)
    BY <1>2, <1>3 DEF HandlersIn
  <1>5. \A m \in HandlersIn(st, n) : st[m].rec = st2[m].rec
    BY <1>3 DEF HandlersIn
  <1> QED BY <1>4, <1>5 DEF IsCurrent

LEMMA PassesNone ==
    ASSUME FramesInv, Run.k = "raise"
    PROVE  MayPass(stack, Top, Run.at)
  <1>1. Run.at \in Nat /\ Run = stack[Top]
    BY RaiseFacts DEF Run
  <1> QED BY <1>1 DEF MayPass

(* The dispatcher goes on, with what functions have noted. *)
LEMMA SearchChanged ==
    ASSUME FramesInv, ObjInv, Run.k = "raise",
           NEW s, IsStack(s), Len(s) = Top, Kin(stack, s, Top - 1),
           NEW r, r.k = "raise", r.rec = Run.rec, r.at \in Nat, r.at <= Run.at,
           MayPass(stack, Top, r.at), NEW st2, st2 = [s EXCEPT ![Top] = r]
    PROVE  /\ ObjOK(st2, Len(thrown), chain, alive, lost) /\ Moved(stack, st2)
           /\ IsStack(st2) /\ Len(st2) = Top /\ st2[Top] = r
  <1>1. Top \in Nat /\ Top > 0 /\ Top \in 1 .. Len(s)
    BY StackFacts
  <1>2. IsStack(st2) /\ Len(st2) = Top /\ st2[Top] = r /\ \A p \in 1 .. Top : p # Top => st2[p] = s[p]
    <2>1. Changed(s, [s EXCEPT ![Top] = r], Top, r)
      BY <1>1, ChangeFrameTo, Zenon
    <2>2. Changed(s, st2, Top, r)
      BY <2>1
    <2> QED BY <2>2 DEF Changed
  <1>3. Kin(stack, st2, Top - 1)
    <2>1. \A p \in 1 .. Top - 1 : p \in 1 .. Top /\ p # Top
      BY <1>1
    <2> QED BY <1>2, <2>1 DEF Kin
  <1>4. Moved(stack, st2)
    BY <1>2, <1>3, SearchMoved, Zenon
  <1>5. ObjOK(st2, Len(thrown), chain, alive, lost)
    BY <1>4, MovedOK DEF ObjInv
  <1> QED BY <1>2, <1>4, <1>5

LEMMA KinItself ==
    ASSUME NEW st, NEW n
    PROVE  Kin(st, st, n)
  BY DEF Kin

(* The dispatcher has found a frame to unwind to. *)
LEMMA UnwindObjects ==
    ASSUME EhInv, ObjInv, halt = "no", Run.k = "raise", Run.at > 0,
           NEW s, IsStack(s), Len(s) = Top, Kin(stack, s, Top - 1),
           NEW r, s[Top] = r, r.k = "raise", r.rec = Run.rec, r.at = Run.at,
           NEW rec \in Records, NEW hit, NEW want,
           Run.rec # Rethrown => rec = Run.rec,
           Run.rec = Rethrown => rec = Rethrown \/ rec = cur,
           stack[Run.at].k = "ccb" => rec = Rethrown, stack[Run.at].k = "seh" => rec = Foreign,
           NEW st2, st2 = Append(s, Unw(rec, Top, Run.at, hit, want))
    PROVE  ObjOK(st2, Len(thrown), chain, alive, lost)
  <1>1. FramesInv /\ TypesInv /\ CurrentOK(halt, cur, stack)
    BY DEF EhInv, FramesInv
  <1>2. Top \in Nat /\ Top > 1 /\ Run = stack[Top] /\ Run.at \in 1 .. Top - 1 /\ Run.at \in Nat
        /\ Respects(stack, Top, Run.at)
    BY <1>1, RaiseFacts, StackFacts DEF Run
  <1>3. MayPass(stack, Top, Run.at) /\ Run.at <= Run.at
    BY <1>1, <1>2, PassesNone
  <1>4. Moved(stack, s)
    BY <1>1, <1>2, <1>3, SearchMoved
  <1>5. PICK t \in Int : t = Len(thrown)
    BY <1>1, AliveObjects, Zenon
  <1>6. ObjOK(s, t, chain, alive, lost) /\ 0 <= t
    <2>1. thrown \in Seq(DOMAIN Catchable)
      BY <1>1 DEF TypesInv
    <2>2. ObjOK(stack, t, chain, alive, lost)
      BY <1>5 DEF ObjInv
    <2> QED BY <1>4, <1>5, <2>1, <2>2, MovedOK
  <1>7. Alikes(stack, s, Top - 1)
    BY KinAlike
  <1>8. Alikes(stack, s, Top)
    <2>1. \A p \in 1 .. Top : p \in 1 .. Top - 1 \/ p = Top
      BY <1>2
    <2>2. Alike(stack[Top], s[Top])
      BY <1>2 DEF Alike
    <2> QED BY <1>7, <2>1, <2>2 DEF Alikes
  <1>9. Respects(s, Top, Run.at)
    <2>1. \A q \in 1 .. Top - 1 : s[q].k = "unw" => stack[q].k = "unw" /\ s[q].at = stack[q].at
      BY <1>7 DEF Alikes, Alike
    <2> QED BY <1>2, <2>1 DEF Respects
  <1>10. s[Run.at].k = stack[Run.at].k
    BY <1>2, <1>7 DEF Alikes, Alike
  <1>11. Run.rec = Rethrown => rec = Rethrown \/ IsCurrent(s, Top, rec)
    <2>1. IsCurrent(stack, Top, cur)
      BY <1>1 DEF CurrentOK, Top
    <2>2. IsCurrent(s, Top, cur)
      BY <1>2, <1>8, <2>1, CurrentAlike
    <2> QED BY <2>2
  <1>12. ObjOK(st2, t, chain, alive, lost)
    <2>1. PICK n \in Nat : n = Top
      BY <1>2
    <2>2. PICK p \in 1 .. n - 1 : p = Run.at
      BY <1>2, <2>1
    <2>3. n = Len(s) /\ s[n].k = "raise" /\ s[n].at = p /\ s[n].rec = Run.rec
      BY <2>1, <2>2
    <2>4. Respects(s, n, p) /\ (s[p].k = "ccb" => rec = Rethrown) /\ (s[p].k = "seh" => rec = Foreign)
      BY <1>9, <1>10, <2>1, <2>2
    <2>5. /\ s[n].rec # Rethrown => rec = s[n].rec
          /\ s[n].rec = Rethrown => rec = Rethrown \/ IsCurrent(s, n, rec)
      BY <1>11, <2>1, <2>3
    <2>6. st2 = Append(s, Unw(rec, n, p, hit, want))
      BY <2>1, <2>2
    <2>7. IsStack(s) /\ rec \in Records
      OBVIOUS
    <2> QED BY <1>5, <1>6, <2>1, <2>2, <2>3, <2>4, <2>5, <2>6, <2>7, UnwindPushed, Zenon
  <1> QED BY <1>5, <1>12

LEMMA CatchObjectBuiltObjects ==
    ASSUME EhInv, ObjInv, CatchObjectBuilt
    PROVE  ObjInv'
  <1>1. FramesInv /\ TypesInv /\ Run.k = "raise" /\ Run.phase = "build" /\ halt = "no"
    BY DEF EhInv, CatchObjectBuilt, RunIs, Running
  <1>2. DownRaise(stack, Top) /\ Run.rec \in Records /\ stack[Top] = Run /\ Own(Run)
    BY <1>1, RaiseFacts, StackFacts DEF Run
  <1>3. Run.at > 0 /\ stack[Run.at].k \in {"fn", "catch"}
    BY <1>1, <1>2 DEF DownRaise, Accepts
  <1>4. PICK r : r = Rephased(Run, "scan")
    OBVIOUS
  <1>5. r.k = "raise" /\ r.rec = Run.rec /\ r.at = Run.at
    BY <1>1, <1>2, <1>4, PhaseChange, RecKept
  <1>6. PICK s : s = [stack EXCEPT ![Top] = r]
    BY Zenon
  <1>7. IsStack(s) /\ Len(s) = Top /\ s[Top] = r /\ \A p \in 1 .. Top : p # Top => s[p] = stack[p]
    <2>1. IsStack(s) /\ Len(s) = Top /\ s[Top] = r
      BY <1>1, <1>6, TopChange, Zenon
    <2>2. \A p \in 1 .. Top : p # Top => s[p] = stack[p]
      BY <1>1, <1>6, TopChange
    <2> QED BY <2>1, <2>2
  <1>8. Kin(stack, s, Top - 1)
    <2>1. \A p \in 1 .. Top - 1 : p \in 1 .. Top /\ p # Top
      BY <1>1, StackFacts
    <2> QED BY <1>7, <2>1 DEF Kin
  <1>9. PICK rec \in Records : rec = Meant(Run.rec)
    BY <1>1, <1>2, MeantOK
  <1>10. stack' = Append(s, Unw(rec, Top, Run.at, Run.hit, Run.want))
    <2>1. s = [stack EXCEPT ![Top].phase = "scan"]
      BY <1>2, <1>4, <1>6 DEF Rephased
    <2> QED BY <1>9, <2>1, Zenon DEF CatchObjectBuilt, StartUnwind
  <1>11. (Run.rec # Rethrown => rec = Run.rec) /\ (Run.rec = Rethrown => rec = cur)
    BY <1>9 DEF Meant
  <1>12. ObjOK(stack', Len(thrown), chain, alive, lost)
    BY <1>1, <1>3, <1>5, <1>7, <1>8, <1>10, <1>11, UnwindObjects, Zenon
  <1>13. UNCHANGED <<thrown, chain, alive, lost>>
    BY DEF CatchObjectBuilt, runtime, ghost
  <1> QED BY <1>12, <1>13 DEF ObjInv

(* The dispatcher turns to the next frame. *)
LEMMA SearchGoesOn ==
    ASSUME FramesInv, ObjInv, Run.k = "raise", Run.at > 0,
           stack[Run.at].k # "ccb" \/ stack[Run.at].phase = "except",
           NEW s, IsStack(s), Len(s) = Top, Kin(stack, s, Top - 1),
           NEW r \in {NextFrame(Run), Rephased(NextFrame(Run), "scan")},
           NEW st2, st2 = [s EXCEPT ![Top] = r]
    PROVE  ObjOK(st2, Len(thrown), chain, alive, lost)
  <1>1. Own(Run) /\ Run.at \in Nat /\ Run.again \in BOOLEAN
    BY StackFacts, RaiseFacts
  <1>2. PICK n : n = NextFrame(Run)
    OBVIOUS
  <1>3. /\ Own(n) /\ n.k = "raise" /\ n.rec = Run.rec
        /\ Run.again => n.at = Run.at
        /\ ~Run.again => n.at = Run.at - 1
    BY <1>1, <1>2, NextFrameOf, RecKept
  <1>4. r.k = "raise" /\ r.rec = Run.rec /\ r.at = n.at
    <2>1. CASE r = n
      BY <1>3, <2>1
    <2>2. CASE r = Rephased(n, "scan")
      <3>1. Rephased(n, "scan").k = "raise" /\ Rephased(n, "scan").at = n.at
        BY <1>3, PhaseChange
      <3>2. Rephased(n, "scan").rec = n.rec
        BY <1>3, RecKept
      <3> QED BY <1>3, <2>2, <3>1, <3>2
    <2> QED BY <1>2, <2>1, <2>2
  <1>5. r.at \in {Run.at, Run.at - 1} /\ r.at \in Nat /\ r.at <= Run.at
    BY <1>1, <1>3, <1>4
  <1>6. MayPass(stack, Top, r.at)
    BY <1>5, PassesOne
  <1> QED BY <1>4, <1>5, <1>6, SearchChanged, Zenon

(* Code of the program is called by a frame of the runtime. *)
LEMMA CodeObjects ==
    ASSUME TypesInv, NEW s, IsStack(s), ObjOK(s, Len(thrown), chain, alive, lost),
           NEW fr, IsCode(fr), NEW st2, st2 = Append(s, fr)
    PROVE  ObjOK(st2, Len(thrown), chain, alive, lost)
  <1>1. PICK t \in Int : t = Len(thrown)
    BY AliveObjects
  <1>2. ObjOK(s, t, chain, alive, lost)
    BY <1>1
  <1>3. ObjOK(st2, t, chain, alive, lost)
    BY <1>1, <1>2, CodePushed, Zenon
  <1> QED BY <1>1, <1>3

(* The dispatcher enters another phase. *)
LEMMA PhaseObjects ==
    ASSUME FramesInv, ObjInv, Run.k = "raise", NEW ph, NEW s,
           s = [stack EXCEPT ![Top].phase = ph]
    PROVE  /\ ObjOK(s, Len(thrown), chain, alive, lost) /\ IsStack(s) /\ Len(s) = Top
           /\ s[Top].k = "raise" /\ s[Top].rec = Run.rec /\ s[Top].at = Run.at
           /\ Kin(stack, s, Top - 1)
  <1>1. stack[Top] = Run /\ Own(Run) /\ IsStack(stack) /\ Len(stack) = Top
        /\ Kin(stack, stack, Top - 1) /\ Run.at \in Nat /\ Top \in Nat
    BY RaiseFacts, StackFacts, KinItself DEF Run
  <1>2. PICK r : r = Rephased(Run, ph)
    OBVIOUS
  <1>3. DOMAIN Run = RaiseFields
    BY <1>1 DEF Own, OwnRaise
  <1>4. r.k = "raise" /\ r.rec = Run.rec /\ r.at = Run.at
    BY <1>1, <1>2, <1>3 DEF Rephased, RaiseFields
  <1>5. s = [stack EXCEPT ![Top] = r]
    BY <1>1, <1>2 DEF Rephased
  <1>6. MayPass(stack, Top, r.at) /\ r.at \in Nat /\ r.at <= Run.at
    BY <1>1, <1>4, PassesNone
  <1>7. ObjOK(s, Len(thrown), chain, alive, lost)
    BY <1>1, <1>4, <1>5, <1>6, SearchChanged, Zenon
  <1>8. IsStack(s) /\ Len(s) = Top /\ s[Top] = r
    BY <1>5, TopChange, Zenon
  <1>9. \A p \in 1 .. Top : p # Top => s[p] = stack[p]
    BY <1>5, TopChange
  <1>10. \A p \in 1 .. Top - 1 : p \in 1 .. Top /\ p # Top
    BY <1>1
  <1>11. Kin(stack, s, Top - 1)
    BY <1>9, <1>10 DEF Kin
  <1> QED BY <1>4, <1>7, <1>8, <1>11, Zenon

LEMMA SearchSehObjects ==
    ASSUME EhInv, ObjInv, SearchSeh
    PROVE  ObjInv'
  <1>1. FramesInv /\ TypesInv /\ Run.k = "raise" /\ Run.at > 0 /\ stack[Run.at].k = "seh"
        /\ halt = "no"
    BY DEF EhInv, SearchSeh, RunIs, Running
  <1>2. IsStack(stack) /\ Len(stack) = Top /\ Kin(stack, stack, Top - 1)
    BY <1>1, StackFacts, KinItself
  <1>3. ASSUME stack' = [stack EXCEPT ![Top] = [NextFrame(Run) EXCEPT !.phase = "scan"]]
        PROVE  ObjOK(stack', Len(thrown), chain, alive, lost)
    <2>1. PICK r : r = Rephased(NextFrame(Run), "scan")
      OBVIOUS
    <2>2. stack' = [stack EXCEPT ![Top] = r]
      BY <1>3, <2>1 DEF Rephased
    <2>3. r \in {NextFrame(Run), Rephased(NextFrame(Run), "scan")} /\ stack[Run.at].k # "ccb"
      BY <1>1, <2>1
    <2> QED BY <1>1, <1>2, <2>2, <2>3, SearchGoesOn, Zenon
  <1>4. ASSUME stack' = StartUnwind([stack EXCEPT ![Top].phase = "scan"], Foreign, Run.at, NoHit),
               Run.rec = Foreign
        PROVE  ObjOK(stack', Len(thrown), chain, alive, lost)
    <2>1. PICK s : s = [stack EXCEPT ![Top].phase = "scan"]
      BY Zenon
    <2>2. /\ IsStack(s) /\ Len(s) = Top /\ s[Top].k = "raise" /\ s[Top].rec = Run.rec
          /\ s[Top].at = Run.at /\ Kin(stack, s, Top - 1)
      BY <1>1, <2>1, PhaseObjects, Zenon
    <2>3. stack' = Append(s, Unw(Foreign, Top, Run.at, NoHit, Run.want))
      BY <1>4, <2>1, Zenon DEF StartUnwind
    <2>4. Foreign \in Records /\ Foreign # Rethrown
      BY DEF Records, Foreign, Rethrown
    <2>5. stack[Run.at].k # "ccb"
      BY <1>1
    <2> QED BY <1>1, <1>4, <2>2, <2>3, <2>4, <2>5, UnwindObjects, Zenon
  <1>5. ASSUME stack' = Append([stack EXCEPT ![Top].phase = "filter"], Fn("aux"))
        PROVE  ObjOK(stack', Len(thrown), chain, alive, lost)
    <2>1. PICK s : s = [stack EXCEPT ![Top].phase = "filter"]
      BY Zenon
    <2>2. IsStack(s) /\ ObjOK(s, Len(thrown), chain, alive, lost)
      BY <1>1, <2>1, PhaseObjects, Zenon
    <2>3. PICK fr : fr = Fn("aux")
      OBVIOUS
    <2>4. IsCode(fr)
      BY <2>3 DEF IsCode, Fn
    <2>5. stack' = Append(s, fr)
      BY <1>5, <2>1, <2>3
    <2> QED BY <1>1, <2>2, <2>4, <2>5, CodeObjects, Zenon
  <1>6. ObjOK(stack', Len(thrown), chain, alive, lost)
    BY <1>3, <1>4, <1>5, Zenon DEF SearchSeh
  <1>7. UNCHANGED <<thrown, chain, alive, lost>>
    BY DEF SearchSeh, runtime, ghost
  <1> QED BY <1>6, <1>7 DEF ObjInv

LEMMA SearchDispatcherObjects ==
    ASSUME EhInv, ObjInv, SearchDispatcher
    PROVE  ObjInv'
  <1>1. FramesInv /\ TypesInv /\ Run.k = "raise" /\ Run.at > 0 /\ stack[Run.at].k = "raise"
        /\ halt = "no"
    BY DEF EhInv, SearchDispatcher, RunIs, Running
  <1>2. stack[Top] = Run /\ IsStack(stack) /\ Len(stack) = Top
        /\ Kin(stack, stack, Top - 1) /\ Run.rec \in Records
    BY <1>1, RaiseFacts, StackFacts, KinItself DEF Run
  <1>3. stack[Run.at].k # "ccb" /\ stack[Run.at].k # "seh"
    BY <1>1
  <1>4. CASE stack[Run.at].phase = "build"
    <2>1. stack' = Append(stack, Unw(Run.rec, Top, Run.at, NoHit, Run.want))
      BY <1>4 DEF SearchDispatcher, StartUnwind
    <2>2. ObjOK(stack', Len(thrown), chain, alive, lost)
      BY <1>1, <1>2, <1>3, <2>1, UnwindObjects, Zenon
    <2> QED BY <2>2 DEF SearchDispatcher, runtime, ghost, ObjInv
  <1>5. CASE stack[Run.at].phase # "build"
    <2>1. PICK r : r = NextFrame(Run)
      OBVIOUS
    <2>2. stack' = [stack EXCEPT ![Top] = r] /\ r \in {NextFrame(Run), Rephased(NextFrame(Run), "scan")}
      BY <1>5, <2>1 DEF SearchDispatcher
    <2>3. ObjOK(stack', Len(thrown), chain, alive, lost)
      BY <1>1, <1>2, <1>3, <2>2, SearchGoesOn, Zenon
    <2> QED BY <2>3 DEF SearchDispatcher, runtime, ghost, ObjInv
  <1> QED BY <1>4, <1>5

(* Nothing of what the invariant is about changes. *)
LEMMA SameObjects ==
    ASSUME ObjInv, stack' = stack, UNCHANGED <<thrown, chain, alive, lost>>
    PROVE  ObjInv'
  BY DEF ObjInv

LEMMA SearchUnwindObjects ==
    ASSUME EhInv, ObjInv, SearchUnwind
    PROVE  ObjInv'
  <1>1. FramesInv /\ Run.k = "raise" /\ Run.at > 0 /\ stack[Run.at].k = "unw"
    BY DEF EhInv, SearchUnwind, RunIs
  <1>2. Run.at \in 1 .. Top - 1 /\ Run.rec \in Records
    BY <1>1, RaiseFacts
  <1>3. Top \in Nat /\ Top = Len(stack) /\ IsStack(stack) /\ stack[Top] = Run /\ Own(Run)
        /\ Kin(stack, stack, Top - 1)
    BY <1>1, StackFacts, KinItself DEF Run
  <1>4. CASE IsCxx(Run.rec)
    <2>1. stack' = stack /\ UNCHANGED <<thrown, chain, alive, lost>>
      BY <1>4 DEF SearchUnwind, Halted, ghost
    <2> QED BY <2>1, SameObjects
  <1>5. CASE ~IsCxx(Run.rec)
    <2>1. /\ stack' = [stack EXCEPT ![Top].at = stack[Run.at].at,
                            ![Top].scope = stack[Run.at].scope, ![Top].again = TRUE]
          /\ UNCHANGED <<thrown, chain, alive, lost>>
      BY <1>5, Zenon DEF SearchUnwind, runtime, ghost
    <2>2. PICK u : u = stack[Run.at]
      OBVIOUS
    <2>3. u.at \in 1 .. Run.at - 1 /\ u.at \in Nat /\ u.at <= Run.at
      <3>1. u.at \in 1 .. Run.at - 1
        BY <1>1, <1>2, <2>2, CoveredUnwind
      <3> QED BY <1>2, <1>3, <3>1
    <2>4. PICK r : r = Collided(Run, u)
      OBVIOUS
    <2>5. r.k = "raise" /\ r.at = u.at /\ r.rec = Run.rec
      BY <1>1, <1>3, <2>3, <2>4, CollidedFrame, RecKept
    <2>6. stack' = [stack EXCEPT ![Top] = r]
      <3>1. DOMAIN Run = RaiseFields /\ Top \in DOMAIN stack
        BY <1>1, <1>2, <1>3, StackFacts DEF Own, OwnRaise
      <3> QED BY <1>3, <2>1, <2>2, <2>4, <3>1, Zenon DEF Collided, RaiseFields
    <2>7. MayPass(stack, Top, r.at)
      <3>1. Run.rec # Rethrown /\ ~IsObject(Run.rec)
        BY <1>2, <1>5, EhAssumption DEF IsCxx, IsObject, Rethrown, Records, NoRecord, Foreign
      <3> QED BY <1>1, <3>1, PassesForeign
    <2>8. ObjOK(stack', Len(thrown), chain, alive, lost)
      BY <1>1, <1>3, <2>3, <2>5, <2>6, <2>7, SearchChanged, Zenon
    <2> QED BY <2>1, <2>8 DEF ObjInv
  <1> QED BY <1>4, <1>5

LEMMA SearchFailsObjects ==
    ASSUME EhInv, ObjInv, SearchFails
    PROVE  ObjInv'
  BY SameObjects DEF SearchFails, Halted, ghost

(* A change of what a function notes for its unwinding. *)
LEMMA HelpKin ==
    ASSUME NEW st, NEW s, NEW e \in 1 .. Len(st), st[e].k = "fn", Unnoticed(st, s),
           \A q \in 1 .. Len(st) : q # e => s[q] = st[q]
    PROVE  Kin(st, s, Len(st))
  <1>1. s[e].k = "fn"
    BY DEF Unnoticed, Like
  <1> QED BY <1>1 DEF Kin

LEMMA RememberedKin ==
    ASSUME FramesInv, Run.k = "raise", NEW p \in 1 .. Top - 1, stack[p].k \in {"fn", "catch"}
    PROVE  Kin(stack, Remembered(p), Top - 1)
  <1>1. Top \in Nat /\ Top = Len(stack) /\ IsStack(stack) /\ (\A q \in 1 .. Top : Own(stack[q]))
        /\ DOMAIN stack = 1 .. Top
    BY StackFacts
  <1>2. PICK e : e = Est(p)
    OBVIOUS
  <1>3. e \in 1 .. Top /\ stack[e].k = "fn"
    <2>1. p \in 1 .. Top
      BY <1>1
    <2> QED BY <1>1, <1>2, <2>1, EstIsFunction
  <1>4. PICK s : s = Remembered(p)
    OBVIOUS
  <1>5. CASE s = stack
    BY <1>4, <1>5, KinItself
  <1>6. CASE s = [stack EXCEPT ![Est(p)].us = stack[p].ip, ![Est(p)].ut = stack[p].ip]
    <2>1. PICK x : x = stack[p].ip
      OBVIOUS
    <2>2. PICK fr : fr = [stack[e] EXCEPT !.us = x, !.ut = x]
      OBVIOUS
    <2>3. s = [stack EXCEPT ![e].us = x, ![e].ut = x]
      BY <1>2, <1>6, <2>1
    <2>4. s = [stack EXCEPT ![e] = fr]
      <3>1. e \in DOMAIN stack /\ DOMAIN stack[e] = FnFields
        BY <1>1, <1>3 DEF Own, OwnFn
      <3> QED BY <2>2, <2>3, <3>1, Zenon DEF FnFields
    <2>5. Unnoticed(stack, s)
      BY <1>1, <1>3, <2>2, <2>4, HelpChange, Zenon
    <2>6. \A q \in 1 .. Len(stack) : q # e => s[q] = stack[q]
      BY <1>1, <1>3, <2>2, <2>4, HelpChange, Zenon
    <2>7. Kin(stack, s, Len(stack))
      BY <1>1, <1>3, <2>5, <2>6, HelpKin
    <2>8. \A q \in 1 .. Top - 1 : q \in 1 .. Len(stack)
      BY <1>1
    <2> QED BY <1>4, <2>7, <2>8 DEF Kin
  <1> QED BY <1>4, <1>5, <1>6 DEF Remembered

LEMMA SearchCxxObjects ==
    ASSUME EhInv, ObjInv, SearchCxx
    PROVE  ObjInv'
  <1>1. FramesInv /\ TypesInv /\ Run.k = "raise" /\ Run.at > 0 /\ stack[Run.at].k \in {"fn", "catch"}
        /\ halt = "no"
    BY DEF EhInv, SearchCxx, RunIs, Running
  <1>2. Top \in Nat /\ Top > 1 /\ Run.at \in 1 .. Top - 1 /\ Run.rec \in Records /\ IsStack(stack)
        /\ Top = Len(stack) /\ stack[Top] = Run /\ Own(Run) /\ Kin(stack, stack, Top - 1)
        /\ stack[Run.at].k # "ccb" /\ stack[Run.at].k # "seh"
    BY <1>1, RaiseFacts, StackFacts, KinItself DEF Run
  <1>3. PICK p : p = Run.at
    OBVIOUS
  <1>4. p \in 1 .. Top - 1 /\ stack[p].k \in {"fn", "catch"}
    BY <1>1, <1>2, <1>3
  <1>5. PICK known : known = Remembered(p)
    OBVIOUS
  <1>6. IsStack(known) /\ Len(known) = Top /\ known[Top] = Run
    BY <1>1, <1>4, <1>5, RememberedOK
  <1>7. Kin(stack, known, Top - 1)
    BY <1>1, <1>4, <1>5, RememberedKin
  <1>8. PICK rec \in Records : rec = Meant(Run.rec)
    BY <1>1, <1>2, MeantOK
  <1>9. (Run.rec # Rethrown => rec = Run.rec) /\ (Run.rec = Rethrown => rec = cur)
    BY <1>8 DEF Meant
  <1>10. PICK r : r = NextFrame(Run)
    OBVIOUS
  <1>11. r \in {NextFrame(Run), Rephased(NextFrame(Run), "scan")}
    BY <1>10
  <1>12. PICK hit : hit = HandlerFor(p, Run.scope, rec)
    OBVIOUS
  <1>13. ASSUME stack' = [stack EXCEPT ![Top] = r]
         PROVE  ObjOK(stack', Len(thrown), chain, alive, lost)
    BY <1>1, <1>2, <1>11, <1>13, SearchGoesOn, Zenon
  <1>14. ASSUME stack' = [known EXCEPT ![Top] = r]
         PROVE  ObjOK(stack', Len(thrown), chain, alive, lost)
    BY <1>1, <1>2, <1>6, <1>7, <1>11, <1>14, SearchGoesOn, Zenon
  <1>15. ASSUME stack' = StartUnwind(known, rec, p, hit)
         PROVE  ObjOK(stack', Len(thrown), chain, alive, lost)
    <2>1. stack' = Append(known, Unw(rec, Top, Run.at, hit, Run.want))
      BY <1>3, <1>15 DEF StartUnwind
    <2> QED BY <1>1, <1>2, <1>6, <1>7, <1>9, <2>1, UnwindObjects, Zenon
  <1>16. ASSUME stack' = Append([known EXCEPT ![Top].phase = "build", ![Top].hit = hit], Fn("aux"))
         PROVE  ObjOK(stack', Len(thrown), chain, alive, lost)
    <2>1. PICK b : b = [Run EXCEPT !.phase = "build", !.hit = hit]
      OBVIOUS
    <2>2. DOMAIN Run = RaiseFields /\ Run.at \in Nat
      BY <1>1, <1>2 DEF Own, OwnRaise
    <2>3. b.k = "raise" /\ b.rec = Run.rec /\ b.at = Run.at
      BY <1>1, <2>1, <2>2 DEF RaiseFields
    <2>4. PICK s : s = [known EXCEPT ![Top] = b]
      BY Zenon
    <2>5. s = [known EXCEPT ![Top].phase = "build", ![Top].hit = hit]
      <3>1. Top \in DOMAIN known
        BY <1>2, <1>6, StackDomain
      <3> QED BY <1>6, <2>1, <2>2, <2>4, <3>1, Zenon DEF RaiseFields
    <2>6. MayPass(stack, Top, b.at) /\ b.at \in Nat /\ b.at <= Run.at
      BY <1>1, <2>2, <2>3, PassesNone
    <2>7. ObjOK(s, Len(thrown), chain, alive, lost) /\ IsStack(s)
      BY <1>1, <1>6, <1>7, <2>3, <2>4, <2>6, SearchChanged, Zenon
    <2>8. PICK fr : fr = Fn("aux")
      OBVIOUS
    <2>9. IsCode(fr)
      BY <2>8 DEF IsCode, Fn
    <2>10. stack' = Append(s, fr)
      BY <1>16, <2>5, <2>8, Zenon
    <2> QED BY <1>1, <2>7, <2>9, <2>10, CodeObjects, Zenon
  <1>17. ASSUME stack' = known
         PROVE  ObjOK(stack', Len(thrown), chain, alive, lost)
    <2>1. MayPass(stack, Top, known[Top].at) /\ known[Top].at \in Nat /\ known[Top].at <= Run.at
      BY <1>1, <1>2, <1>6, PassesNone
    <2>2. Moved(stack, known)
      BY <1>1, <1>6, <1>7, <2>1, SearchMoved
    <2> QED BY <1>17, <2>2, MovedOK DEF ObjInv
  <1>18. ObjOK(stack', Len(thrown), chain, alive, lost)
    <2>1. stack' = [stack EXCEPT ![Top] = r] \/ FindHandler
      BY <1>10, Zenon DEF SearchCxx
    <2>2. FindHandler =>
            \/ stack' = [known EXCEPT ![Top] = r]
            \/ stack' = StartUnwind(known, rec, p, hit)
            \/ stack' = Append([known EXCEPT ![Top].phase = "build", ![Top].hit = hit], Fn("aux"))
            \/ stack' = known
      BY <1>3, <1>5, <1>8, <1>10, <1>12, Zenon DEF FindHandler
    <2> QED BY <1>13, <1>14, <1>15, <1>16, <1>17, <2>1, <2>2
  <1>19. UNCHANGED <<thrown, chain, alive, lost>>
    BY DEF SearchCxx, ghost
  <1> QED BY <1>18, <1>19 DEF ObjInv

(* The flag of one frame, seen frame by frame. *)
LEMMA FlagChange ==
    ASSUME NEW st, NEW st2, Len(st) \in Nat, Len(st2) = Len(st), NEW p \in 1 .. Len(st),
           Own(st[p]), st[p].k = "ccb", NEW b, st2[p] = Rethrowing(st[p], b),
           \A q \in 1 .. Len(st) : q # p => st2[q] = st[q]
    PROVE  Reflagged(st, st2, p) /\ st2[p].rethrow = b
  <1>1. PICK c : c = st[p]
    OBVIOUS
  <1>2. DOMAIN c = CcbFields /\ c.k = "ccb"
    BY <1>1 DEF Own, OwnCcb
  <1>3. /\ Rethrowing(c, b).k = c.k /\ Rethrowing(c, b).rec = c.rec
        /\ Rethrowing(c, b).phase = c.phase /\ Rethrowing(c, b).rethrow = b
    BY <1>2 DEF Rethrowing, CcbFields
  <1>4. Alike(st[p], st2[p]) /\ st2[p].rethrow = b
    BY <1>1, <1>2, <1>3 DEF Alike
  <1>5. Alikes(st, st2, Len(st))
    <2>1. \A q \in 1 .. Len(st) : q # p => Alike(st[q], st2[q])
      BY DEF Alike
    <2> QED BY <1>4, <2>1 DEF Alikes
  <1> QED BY <1>4, <1>5 DEF Reflagged

(* It is what it has been set to. *)
LEMMA FlagNow ==
    ASSUME NEW fr, fr.k = "ccb", Own(fr)
    PROVE  Rethrowing(fr, TRUE).rethrow /\ ~Rethrowing(fr, FALSE).rethrow
  <1>1. "rethrow" \in DOMAIN fr
    BY DEF Own, OwnCcb, CcbFields
  <1> QED BY <1>1 DEF Rethrowing

LEMMA SearchCatchBlockObjects ==
    ASSUME EhInv, ObjInv, SearchCatchBlock
    PROVE  ObjInv'
  <1>1. FramesInv /\ TypesInv /\ Run.k = "raise" /\ Run.phase = "scan"
        /\ Run.at > 0 /\ stack[Run.at].k = "ccb" /\ halt = "no"
    BY DEF EhInv, SearchCatchBlock, RunIs, Running
  <1>2. Run.at \in 1 .. Top - 1 /\ Run.rec \in Records /\ ~Run.again
    BY <1>1, RaiseFacts
  <1>3. Top \in Nat /\ Top > 1 /\ Top = Len(stack) /\ IsStack(stack) /\ stack[Top] = Run /\ Own(Run)
        /\ Kin(stack, stack, Top - 1)
    BY <1>1, RaiseFacts, StackFacts, KinItself DEF Run
  <1>4. PICK p \in 1 .. Top - 1 : p = Run.at
    BY <1>2
  <1>5. PICK c : c = stack[p]
    OBVIOUS
  <1>6. c.k = "ccb" /\ Own(c) /\ c.phase \in {"try", "except"} /\ p \in 1 .. Top /\ p # Top
    <2>1. p \in 1 .. Top /\ p # Top
      BY <1>3
    <2>2. Own(c) /\ c.k = "ccb"
      BY <1>1, <1>4, <1>5, <2>1, StackFacts
    <2> QED BY <2>1, <2>2 DEF Own, OwnCcb
  <1>7. PICK same \in BOOLEAN : same = (Run.rec = Rethrown \/ (Run.rec = c.rec /\ IsObject(c.rec)))
    BY Zenon
  <1>8. PICK filtered : filtered = [stack EXCEPT ![p].rethrow = same]
    BY Zenon
  <1>9. /\ IsStack(filtered) /\ Len(filtered) = Top /\ filtered[p] = Rethrowing(c, same)
        /\ \A q \in 1 .. Top : q # p => filtered[q] = stack[q]
    <2>1. PICK fr : fr = Rethrowing(c, same)
      OBVIOUS
    <2>2. filtered = [stack EXCEPT ![p] = fr]
      BY <1>5, <1>8, <2>1 DEF Rethrowing
    <2>3. Changed(stack, [stack EXCEPT ![p] = fr], p, fr)
      BY <1>3, <1>6, ChangeFrameTo, Zenon
    <2>4. Changed(stack, filtered, p, fr)
      BY <2>2, <2>3
    <2> QED BY <1>3, <2>1, <2>4 DEF Changed
  <1>10. PICK r : r = NextFrame(Run)
    OBVIOUS
  <1>11. r.k = "raise" /\ r.at = p - 1 /\ r.rec = Run.rec /\ r.at \in Nat /\ r.at <= Run.at
    <2>1. r.k = "raise" /\ r.at = p - 1
      BY <1>1, <1>2, <1>3, <1>4, <1>10, NextFrameOf
    <2>2. r.rec = Run.rec
      BY <1>1, <1>3, <1>10, RecKept
    <2> QED BY <1>3, <1>4, <2>1, <2>2
  <1>12. UNCHANGED <<thrown, chain, alive, lost>>
    BY DEF SearchCatchBlock, ghost
  <1>13. CASE c.phase = "except"
    <2>1. stack' = [stack EXCEPT ![Top] = r]
      BY <1>4, <1>5, <1>10, <1>13 DEF SearchCatchBlock
    <2>2. r \in {NextFrame(Run), Rephased(NextFrame(Run), "scan")} /\ stack[Run.at].phase = "except"
      BY <1>4, <1>5, <1>10, <1>13
    <2>3. ObjOK(stack', Len(thrown), chain, alive, lost)
      BY <1>1, <1>3, <2>1, <2>2, SearchGoesOn, Zenon
    <2> QED BY <1>12, <2>3 DEF ObjInv
  <1>14. CASE c.phase # "except" /\ Run.rec = Rethrown
    <2>1. PICK u : u = Unw(Rethrown, Top, Run.at, NoHit, Run.want)
      OBVIOUS
    <2>2. stack' = Append(filtered, u)
      BY <1>4, <1>5, <1>7, <1>8, <1>14, <2>1, Zenon DEF SearchCatchBlock, StartUnwind
    <2>3. PICK st : st = Append(stack, u)
      BY Zenon
    <2>4. ObjOK(st, Len(thrown), chain, alive, lost)
      <3>1. Rethrown \in Records /\ stack[Run.at].k # "seh"
        BY <1>1 DEF Records
      <3>2. st = Append(stack, Unw(Rethrown, Top, Run.at, NoHit, Run.want))
        BY <2>1, <2>3
      <3> QED BY <1>1, <1>3, <1>14, <3>1, <3>2, UnwindObjects, Zenon
    <2>5. /\ Len(st) = Top + 1 /\ st[Top + 1] = u /\ Len(stack') = Top + 1 /\ stack'[Top + 1] = u
          /\ \A q \in 1 .. Top : st[q] = stack[q] /\ stack'[q] = filtered[q]
      BY <1>3, <1>9, <2>2, <2>3, PushFrame
    <2>6. Reflagged(st, stack', p) /\ stack'[p].rethrow
      <3>1. p \in 1 .. Len(st) /\ Len(st) \in Nat /\ Len(stack') = Len(st)
        BY <1>3, <2>5
      <3>2. st[p] = c /\ stack'[p] = Rethrowing(st[p], TRUE)
        BY <1>5, <1>6, <1>7, <1>9, <1>14, <2>5, Zenon
      <3>3. \A q \in 1 .. Len(st) : q # p => stack'[q] = st[q]
        <4> TAKE q \in 1 .. Len(st)
        <4>1. q \in 1 .. Top \/ q = Top + 1
          BY <1>3, <2>5
        <4> QED BY <1>9, <2>5, <4>1
      <3>4. Own(st[p]) /\ st[p].k = "ccb"
        BY <1>6, <3>2
      <3>8. Reflagged(st, stack', p)
        BY <3>1, <3>2, <3>3, <3>4, FlagChange, Zenon
      <3>9. stack'[p].rethrow
        BY <3>2, <3>4, FlagNow, Zenon
      <3> QED BY <3>8, <3>9
    <2>7. \E q \in p + 1 .. Len(st) : Witness(st, p, q)
      <3>1. u.k = "unw" /\ u.rec = Rethrown /\ u.target = p
        BY <1>4, <2>1 DEF Unw
      <3>2. Witness(st, p, Top + 1)
        BY <2>5, <3>1 DEF Witness
      <3>3. Top + 1 \in p + 1 .. Len(st)
        BY <1>3, <2>5
      <3> QED BY <3>2, <3>3
    <2>8. FlightOK(st, Len(thrown), lost) /\ AliveOK(st, alive, lost) /\ LeakOK(st, chain, alive, lost)
          /\ Len(st) \in Nat /\ \A y \in 1 .. Len(st) : Fits(st, y, Len(thrown))
      BY <2>4 DEF ObjOK, FlightOK
    <2>9. FlightOK(stack', Len(thrown), lost)
      BY <2>6, <2>7, <2>8, FlagSet
    <2>10. AliveOK(stack', alive, lost) /\ LeakOK(stack', chain, alive, lost)
      <3>1. Alikes(st, stack', Len(st)) /\ Len(stack') = Len(st)
        BY <2>6 DEF Reflagged
      <3> QED BY <2>8, <3>1, ObjectsAlike, Zenon
    <2> QED BY <1>12, <2>9, <2>10 DEF ObjInv, ObjOK
  <1>15. CASE c.phase # "except" /\ Run.rec # Rethrown
    <2>1. stack' = [filtered EXCEPT ![Top] = r]
      BY <1>4, <1>5, <1>7, <1>8, <1>10, <1>15 DEF SearchCatchBlock
    <2>2. /\ Len(stack') = Top /\ stack'[Top] = r
          /\ \A q \in 1 .. Top : q # Top => stack'[q] = filtered[q]
      <3>1. Top \in 1 .. Len(filtered)
        BY <1>3, <1>9
      <3>2. Changed(filtered, [filtered EXCEPT ![Top] = r], Top, r)
        BY <1>9, <3>1, ChangeFrameTo, Zenon
      <3>3. Changed(filtered, stack', Top, r)
        BY <2>1, <3>2
      <3> QED BY <1>9, <3>3 DEF Changed
    <2>3. FlightOK(stack, Len(thrown), lost) /\ AliveOK(stack, alive, lost)
          /\ LeakOK(stack, chain, alive, lost) /\ \A y \in 1 .. Len(stack) : Fits(stack, y, Len(thrown))
      BY DEF ObjInv, ObjOK, FlightOK
    <2>4. ASSUME same PROVE ObjOK(stack', Len(thrown), chain, alive, lost)
      <3>1. Reflagged(stack, filtered, p) /\ filtered[p].rethrow
        <4>1. p \in 1 .. Len(stack) /\ Len(stack) \in Nat /\ Len(filtered) = Len(stack)
          BY <1>3, <1>6, <1>9
        <4>2. filtered[p] = Rethrowing(stack[p], TRUE) /\ Own(stack[p]) /\ stack[p].k = "ccb"
          BY <1>5, <1>6, <1>9, <2>4
        <4>3. \A q \in 1 .. Len(stack) : q # p => filtered[q] = stack[q]
          BY <1>3, <1>9
        <4>8. Reflagged(stack, filtered, p)
          BY <4>1, <4>2, <4>3, FlagChange, Zenon
        <4>9. filtered[p].rethrow
          BY <4>2, FlagNow, Zenon
        <4> QED BY <4>8, <4>9
      <3>2. \E q \in p + 1 .. Len(stack) : Witness(stack, p, q)
        <4>0. Run.rec = c.rec
          BY <1>7, <1>15, <2>4, Zenon
        <4>1. Run.rec = c.rec /\ Run.at <= p
          BY <1>3, <1>4, <4>0
        <4>2. Witness(stack, p, Top)
          BY <1>1, <1>3, <1>5, <4>1 DEF Witness
        <4>3. Top \in p + 1 .. Len(stack)
          BY <1>3
        <4> QED BY <4>2, <4>3
      <3>3. FlightOK(filtered, Len(thrown), lost)
        BY <2>3, <3>1, <3>2, FlagSet
      <3>4. AliveOK(filtered, alive, lost) /\ LeakOK(filtered, chain, alive, lost)
        <4>1. Alikes(stack, filtered, Len(stack)) /\ Len(filtered) = Len(stack) /\ Len(stack) \in Nat
          BY <1>3, <3>1 DEF Reflagged
        <4> QED BY <2>3, <4>1, ObjectsAlike
      <3>5. Moved(filtered, stack')
        <4>1. Len(filtered) \in Nat /\ Len(filtered) > 0 /\ Len(stack') = Len(filtered)
          BY <1>3, <1>9, <2>2
        <4>2. \A q \in 1 .. Top - 1 : q \in 1 .. Top /\ q # Top /\ stack'[q] = filtered[q]
          BY <1>3, <2>2
        <4>3. Alikes(filtered, stack', Top - 1)
          BY <4>2 DEF Alikes, Alike
        <4>4. filtered[Top] = Run
          BY <1>3, <1>6, <1>9
        <4>5. TopMoved(filtered[Top], stack'[Top])
          BY <1>1, <1>11, <2>2, <4>4 DEF TopMoved
        <4>6. SameFlags(filtered, stack', Top)
          <5> SUFFICES ASSUME NEW q \in 1 .. Top, filtered[q].k = "ccb"
                       PROVE  stack'[q].rethrow = filtered[q].rethrow
            BY DEF SameFlags
          <5>1. q # Top
            BY <1>1, <4>4
          <5> QED BY <2>2, <5>1
        <4>7. MayPass(filtered, Top, r.at)
          <5> SUFFICES ASSUME NEW q \in 1 .. Top - 1, r.at < q, q <= filtered[Top].at
                       PROVE  Run.rec # Rethrown /\ filtered[q].rethrow
            BY <4>4 DEF MayPass
          <5>1. q = p
            BY <1>3, <1>4, <1>11, <4>4
          <5> QED BY <1>15, <3>1, <5>1
        <4> QED BY <1>9, <2>2, <4>1, <4>3, <4>5, <4>6, <4>7 DEF Moved
      <3> QED BY <3>3, <3>4, <3>5, MovedOK DEF ObjOK
    <2>5. ASSUME ~same PROVE ObjOK(stack', Len(thrown), chain, alive, lost)
      <3>1. PICK mid : mid = [stack EXCEPT ![Top] = r]
        BY Zenon
      <3>2. MayPass(stack, Top, r.at)
        <4> SUFFICES ASSUME NEW q \in 1 .. Top - 1, r.at < q, q <= Run.at
                     PROVE  Run.rec # Rethrown /\ (IsObject(Run.rec) => stack[q].rec # Run.rec)
          BY <1>3 DEF MayPass
        <4>1. q = p
          BY <1>3, <1>4, <1>11
        <4> QED BY <1>5, <1>7, <2>5, <4>1, Zenon
      <3>3. ObjOK(mid, Len(thrown), chain, alive, lost)
        BY <1>1, <1>3, <1>11, <3>1, <3>2, SearchChanged, Zenon
      <3>4. Len(mid) = Top /\ mid[Top] = r
        BY <1>1, <3>1, TopChange, Zenon
      <3>5. \A q \in 1 .. Top : q # Top => mid[q] = stack[q]
        BY <1>1, <3>1, TopChange
      <3>6. mid[p] = c
        BY <1>5, <1>6, <3>5
      <3>7. Reflagged(mid, stack', p) /\ ~stack'[p].rethrow
        <4>1. p \in 1 .. Len(mid) /\ Len(mid) \in Nat /\ Len(stack') = Len(mid)
          BY <1>3, <1>6, <2>2, <3>4
        <4>2. stack'[p] = Rethrowing(mid[p], FALSE) /\ Own(mid[p]) /\ mid[p].k = "ccb"
          BY <1>6, <1>9, <2>2, <2>5, <3>6, Zenon
        <4>3. \A q \in 1 .. Len(mid) : q # p => stack'[q] = mid[q]
          BY <1>9, <2>2, <3>4, <3>5
        <4>8. Reflagged(mid, stack', p)
          BY <4>1, <4>2, <4>3, FlagChange, Zenon
        <4>9. ~stack'[p].rethrow
          BY <4>2, FlagNow, Zenon
        <4> QED BY <4>8, <4>9
      <3>8. FlightOK(mid, Len(thrown), lost) /\ AliveOK(mid, alive, lost) /\ LeakOK(mid, chain, alive, lost)
            /\ Len(mid) \in Nat /\ \A y \in 1 .. Len(mid) : Fits(mid, y, Len(thrown))
        BY <3>3 DEF ObjOK, FlightOK
      <3>9. FlightOK(stack', Len(thrown), lost)
        <4>1. mid[p].phase = "try"
          BY <1>6, <1>15, <3>6
        <4>2. mid[Len(mid)].k = "raise" /\ mid[Len(mid)].at < p
          BY <1>3, <1>11, <3>4
        <4>3. IsObject(mid[p].rec) => mid[Len(mid)].rec # mid[p].rec
          BY <1>7, <1>11, <2>5, <3>4, <3>6, Zenon
        <4> QED BY <3>7, <3>8, <4>1, <4>2, <4>3, FlagCleared
      <3>10. AliveOK(stack', alive, lost) /\ LeakOK(stack', chain, alive, lost)
        <4>1. Alikes(mid, stack', Len(mid)) /\ Len(stack') = Len(mid)
          BY <3>7 DEF Reflagged
        <4> QED BY <3>8, <4>1, ObjectsAlike, Zenon
      <3> QED BY <3>9, <3>10 DEF ObjOK
    <2> QED BY <1>12, <2>4, <2>5 DEF ObjInv
  <1> QED BY <1>13, <1>14, <1>15

-----------------------------------------------------------------------------
(* The unwind *)

LEMMA UnwRec ==
    ASSUME NEW u, u.k = "unw", Own(u), NEW at, NEW scope, NEW state, NEW phase
    PROVE  UnwAs(u, at, scope, state, phase).rec = u.rec
  <1>1. DOMAIN u = UnwFields
    BY DEF Own, OwnUnw
  <1> QED BY <1>1 DEF UnwFields, UnwAs

(* The unwind at the top has moved down. *)
LEMMA UnwMoved ==
    ASSUME FramesInv, ObjInv, Run.k = "unw",
           NEW st2, Len(st2) = Top, Kin(stack, st2, Top - 1), NEW u, st2[Top] = u,
           u.k = "unw", u.rec = Run.rec, u.target = Run.target, u.at \in Nat, u.at <= Run.at
    PROVE  Moved(stack, st2) /\ ObjOK(st2, Len(thrown), chain, alive, lost)
  <1>1. TopMoved(Run, st2[Top]) /\ Run.k # "ccb"
    BY DEF TopMoved
  <1>2. MayPass(stack, Top, st2[Top].at)
    BY DEF MayPass, Run
  <1>3. Moved(stack, st2)
    BY <1>1, <1>2, KinMoved
  <1>4. ObjOK(st2, Len(thrown), chain, alive, lost)
    BY <1>3, MovedOK DEF ObjInv
  <1> QED BY <1>3, <1>4

LEMMA UnwChanged ==
    ASSUME FramesInv, ObjInv, Run.k = "unw",
           NEW s, IsStack(s), Len(s) = Top, Kin(stack, s, Top - 1),
           NEW at \in Nat, at <= Run.at, NEW scope, NEW state, NEW phase,
           NEW st2, st2 = [s EXCEPT ![Top] = UnwAs(Run, at, scope, state, phase)],
           phase \in {"scan", "states", "land"}
    PROVE  /\ Moved(stack, st2) /\ ObjOK(st2, Len(thrown), chain, alive, lost)
           /\ IsStack(st2) /\ Len(st2) = Top
  <1>1. Top \in Nat /\ Top > 0 /\ Top \in 1 .. Len(s) /\ Own(Run)
    BY StackFacts
  <1>2. PICK u : u = UnwAs(Run, at, scope, state, phase)
    OBVIOUS
  <1>3. u.k = "unw" /\ u.target = Run.target /\ u.at = at /\ u.rec = Run.rec
    BY <1>1, <1>2, UnwAsOK, UnwRec
  <1>4. IsStack(st2) /\ Len(st2) = Top /\ st2[Top] = u /\ \A p \in 1 .. Top : p # Top => st2[p] = s[p]
    <2>1. Changed(s, [s EXCEPT ![Top] = u], Top, u)
      BY <1>1, ChangeFrameTo, Zenon
    <2>2. Changed(s, st2, Top, u)
      BY <1>2, <2>1
    <2> QED BY <2>2 DEF Changed
  <1>5. Kin(stack, st2, Top - 1)
    <2>1. \A p \in 1 .. Top - 1 : p \in 1 .. Top /\ p # Top
      BY <1>1
    <2> QED BY <1>4, <2>1 DEF Kin
  <1>6. Moved(stack, st2) /\ ObjOK(st2, Len(thrown), chain, alive, lost)
    BY <1>3, <1>4, <1>5, UnwMoved, Zenon
  <1> QED BY <1>4, <1>6

(* The next frame is one below. *)
LEMMA UnwDown ==
    ASSUME FramesInv, ObjInv, Run.k = "unw", Run.at # Run.target, stack[Run.at].k # "unw",
           NEW phase \in {"scan", "states", "land"}, NEW state,
           NEW s, IsStack(s), Len(s) = Top, Kin(stack, s, Top - 1), NEW scope,
           NEW st2, st2 = [s EXCEPT ![Top] = UnwAs(Run, Run.at - 1, scope, state, phase)]
    PROVE  Moved(stack, st2) /\ ObjOK(st2, Len(thrown), chain, alive, lost)
  <1>1. Run.at \in Nat /\ Run.at - 1 \in 1 .. Top - 1 /\ Top \in Nat
    BY NextDown, UnwFacts
  <1>2. Run.at - 1 \in Nat /\ Run.at - 1 <= Run.at
    BY <1>1
  <1> QED BY <1>2, UnwChanged, Zenon

LEMMA UnwindCxxObjects ==
    ASSUME EhInv, ObjInv, UnwindCxx
    PROVE  ObjInv'
  <1>1. FramesInv /\ Run.k = "unw" /\ Run.phase = "scan" /\ stack[Run.at].k \in {"fn", "catch"}
    BY DEF EhInv, UnwindCxx, RunIs
  <1>2. /\ Top \in Nat /\ Top > 1 /\ stack[Top] = Run /\ Run.at \in Nat /\ Run.at <= Run.at
    BY <1>1, UnwFacts
  <1>3. DOMAIN Run = UnwFields /\ Top \in DOMAIN stack /\ IsStack(stack) /\ Len(stack) = Top
    BY <1>1, <1>2, StackFacts DEF Own, OwnUnw
  <1>4. UNCHANGED <<thrown, chain, alive, lost>>
    BY DEF UnwindCxx, ghost
  <1>5. PICK st2 : st2 = stack'
    OBVIOUS
  <1>6. ASSUME st2 = Next1(stack), Run.at # Run.target
        PROVE  ObjOK(st2, Len(thrown), chain, alive, lost)
    <2>1. st2 = [stack EXCEPT ![Top] = UnwAs(Run, Run.at - 1, 0, Run.state, Run.phase)]
      BY <1>2, <1>3, <1>6, Zenon DEF Next1, UnwFields, UnwAs
    <2>2. stack[Run.at].k # "unw" /\ Run.phase \in {"scan", "states", "land"} /\ Run.at # Run.target
      BY <1>1, <1>6
    <2> QED BY <1>1, <1>3, <2>1, <2>2, UnwDown, KinItself, Zenon
  <1>7. ASSUME NEW y, st2 = [stack EXCEPT ![Top].phase = "states", ![Top].state = y]
        PROVE  ObjOK(st2, Len(thrown), chain, alive, lost)
    <2>1. st2 = [stack EXCEPT ![Top] = UnwAs(Run, Run.at, Run.scope, y, "states")]
      BY <1>2, <1>3, <1>7, Zenon DEF UnwFields, UnwAs
    <2> QED BY <1>1, <1>2, <1>3, <2>1, UnwChanged, KinItself, Zenon
  <1>8. ObjOK(st2, Len(thrown), chain, alive, lost)
    <2>1. PICK y : \/ /\ stack' = Next1(stack)
                      /\ \/ Skipped(Run.rec) /\ ~Consolidates(Run)
                         \/ Prog[stack[Run.at].f].unwind = <<>>
                   \/ stack' = [stack EXCEPT ![Top].phase = "states", ![Top].state = y]
      BY Zenon DEF UnwindCxx
    <2>2. Run.at = Run.target => Consolidates(Run) /\ Prog[stack[Run.at].f].unwind # <<>>
      BY <1>1, UnwindAtFunction DEF Consolidates
    <2> QED BY <1>5, <1>6, <1>7, <2>1, <2>2
  <1> QED BY <1>4, <1>5, <1>8 DEF ObjInv

LEMMA UnwindOtherObjects ==
    ASSUME EhInv, ObjInv, UnwindOther
    PROVE  ObjInv'
  <1>1. FramesInv /\ Run.k = "unw" /\ Run.phase = "scan"
        /\ stack[Run.at].k \in {"seh", "raise"} /\ Run.at # Run.target
    BY DEF EhInv, UnwindOther, RunIs
  <1>2. /\ Top \in Nat /\ Top > 1 /\ stack[Top] = Run
    BY <1>1, UnwFacts
  <1>3. DOMAIN Run = UnwFields /\ Top \in DOMAIN stack /\ IsStack(stack) /\ Len(stack) = Top
    BY <1>1, <1>2, StackFacts DEF Own, OwnUnw
  <1>4. UNCHANGED <<thrown, chain, alive, lost>> /\ stack' = Next1(stack)
    BY DEF UnwindOther, ghost
  <1>5. PICK st2 : st2 = stack'
    OBVIOUS
  <1>6. st2 = [stack EXCEPT ![Top] = UnwAs(Run, Run.at - 1, 0, Run.state, Run.phase)]
    BY <1>2, <1>3, <1>4, <1>5, Zenon DEF Next1, UnwFields, UnwAs
  <1>7. ObjOK(st2, Len(thrown), chain, alive, lost)
    BY <1>1, <1>3, <1>6, UnwDown, KinItself, Zenon
  <1> QED BY <1>4, <1>5, <1>7 DEF ObjInv

LEMMA UnwindUnwindObjects ==
    ASSUME EhInv, ObjInv, UnwindUnwind
    PROVE  ObjInv'
  <1>1. FramesInv /\ Run.k = "unw" /\ Run.phase = "scan" /\ stack[Run.at].k = "unw"
    BY DEF EhInv, UnwindUnwind, RunIs
  <1>2. /\ Top \in Nat /\ Top > 1 /\ stack[Top] = Run /\ Run.at \in Nat /\ Run.at \in 1 .. Top - 1
    BY <1>1, UnwFacts
  <1>3. DOMAIN Run = UnwFields /\ Top \in DOMAIN stack /\ IsStack(stack) /\ Len(stack) = Top
    BY <1>1, <1>2, StackFacts DEF Own, OwnUnw
  <1>4. stack[Run.at].at \in 1 .. Run.at - 1
    BY <1>1, <1>2, CoveredUnwind
  <1>5. PICK x \in Nat : x = stack[Run.at].at
    BY <1>4
  <1>6. x <= Run.at
    BY <1>2, <1>4, <1>5
  <1>7. PICK z : z = stack[Run.at].scope
    OBVIOUS
  <1>8. UNCHANGED <<thrown, chain, alive, lost>>
        /\ stack' = [stack EXCEPT ![Top].at = x, ![Top].scope = z]
    BY <1>5, <1>7 DEF UnwindUnwind, ghost
  <1>9. PICK st2 : st2 = stack'
    OBVIOUS
  <1>10. st2 = [stack EXCEPT ![Top] = UnwAs(Run, x, z, Run.state, Run.phase)]
    BY <1>2, <1>3, <1>8, <1>9, Zenon DEF UnwFields, UnwAs
  <1>11. ObjOK(st2, Len(thrown), chain, alive, lost)
    BY <1>1, <1>3, <1>6, <1>10, UnwChanged, KinItself, Zenon
  <1> QED BY <1>8, <1>9, <1>11 DEF ObjInv

LEMMA LandInBuildObjects ==
    ASSUME EhInv, ObjInv, LandInBuild
    PROVE  ObjInv'
  <1>1. stack' = stack /\ UNCHANGED <<thrown, chain, alive, lost>>
    BY DEF LandInBuild, Halted, ghost
  <1> QED BY <1>1, SameObjects

(* UNWINDHELP of the frame being unwound is written. *)
HelpSet(t, m, e, n) == m = [t EXCEPT ![e].us = n]

LEMMA UsKin ==
    ASSUME FramesInv, Run.k = "unw", NEW p \in 1 .. Top - 1, stack[p].k \in {"fn", "catch"},
           NEW t, IsStack(t), Len(t) = Top, \A q \in 1 .. Top : Own(t[q]),
           \A q \in 1 .. Top - 1 : t[q] = stack[q],
           NEW n, NEW m, HelpSet(t, m, Est(p), n)
    PROVE  IsStack(m) /\ Len(m) = Top /\ Kin(stack, m, Top - 1) /\ m[Top] = t[Top]
  <1>1. Top \in Nat /\ Top > 1
    BY UnwFacts
  <1>2. PICK e : e = Est(p)
    OBVIOUS
  <1>3. e \in 1 .. Top - 1 /\ stack[e].k = "fn"
    <2>1. p \in 1 .. Top
      BY <1>1
    <2> QED BY <1>1, <1>2, <2>1, EstIsFunction
  <1>4. e \in 1 .. Len(t) /\ t[e].k = "fn" /\ (\A q \in 1 .. Len(t) : Own(t[q]))
        /\ m = [t EXCEPT ![e].us = n]
    BY <1>1, <1>2, <1>3 DEF HelpSet
  <1>5. Unnoticed(t, m)
    BY <1>4, UsChange, Zenon
  <1>6. \A q \in 1 .. Len(t) : q # e => m[q] = t[q]
    BY <1>4, UsChange
  <1>7. IsStack(m) /\ Len(m) = Top
    BY <1>5 DEF Unnoticed
  <1>8. m[Top] = t[Top]
    BY <1>1, <1>3, <1>6
  <1>9. Kin(t, m, Len(t))
    BY <1>4, <1>5, <1>6, HelpKin, Zenon
  <1>10. Kin(stack, m, Top - 1)
    <2>1. \A q \in 1 .. Top - 1 : q \in 1 .. Len(t) /\ t[q] = stack[q]
      BY <1>1
    <2> QED BY <1>9, <2>1 DEF Kin
  <1> QED BY <1>7, <1>8, <1>10

LEMMA FrameUnwoundObjects ==
    ASSUME EhInv, ObjInv, FrameUnwound
    PROVE  ObjInv'
  <1>1. FramesInv /\ Run.k = "unw" /\ Run.phase = "states"
    BY DEF EhInv, FrameUnwound, RunIs
  <1>2. /\ Top \in Nat /\ Top > 1 /\ stack[Top] = Run /\ Run.at \in 1 .. Top - 1 /\ Run.at \in Nat
        /\ Run.at <= Run.at /\ stack[Run.at].k \in {"fn", "catch"} /\ stack[Run.at].k # "unw"
    BY <1>1, UnwFacts DEF DownUnw
  <1>3. DOMAIN Run = UnwFields /\ Top \in DOMAIN stack /\ IsStack(stack) /\ Len(stack) = Top
        /\ \A q \in 1 .. Top : Own(stack[q])
    BY <1>1, <1>2, StackFacts DEF Own, OwnUnw
  <1>4. UNCHANGED <<thrown, chain, alive, lost>>
    BY DEF FrameUnwound, ghost
  <1>5. PICK s : s = IF mode.fh = 3 THEN [stack EXCEPT ![Est(Run.at)].us = Run.state] ELSE stack
    BY Zenon
  <1>6. PICK st2 : st2 = stack'
    OBVIOUS
  <1>7. st2 = IF Run.at = Run.target THEN [s EXCEPT ![Top].phase = "land"]
              ELSE [Next1(s) EXCEPT ![Top].phase = "scan"]
    BY <1>5, <1>6, Zenon DEF FrameUnwound
  <1>8. IsStack(s) /\ Len(s) = Top /\ Kin(stack, s, Top - 1) /\ s[Top] = Run
    <2>1. CASE mode.fh = 3
      <3>1. HelpSet(stack, s, Est(Run.at), Run.state)
        BY <1>5, <2>1 DEF HelpSet
      <3>2. \A q \in 1 .. Top - 1 : stack[q] = stack[q]
        OBVIOUS
      <3> QED BY <1>1, <1>2, <1>3, <3>1, <3>2, UsKin
    <2>2. CASE mode.fh # 3
      <3>1. s = stack
        BY <1>5, <2>2
      <3> QED BY <1>2, <1>3, <3>1, KinItself
    <2> QED BY <2>1, <2>2
  <1>9. Top \in DOMAIN s
    <2>1. Top \in 1 .. Len(s)
      BY <1>2, <1>8
    <2> QED BY <1>8, <2>1, StackDomain
  <1>10. CASE Run.at = Run.target
    <2>1. st2 = [s EXCEPT ![Top] = UnwAs(Run, Run.at, Run.scope, Run.state, "land")]
      BY <1>3, <1>7, <1>8, <1>9, <1>10, Zenon DEF UnwFields, UnwAs
    <2>2. ObjOK(st2, Len(thrown), chain, alive, lost)
      BY <1>1, <1>2, <1>8, <2>1, UnwChanged, Zenon
    <2> QED BY <1>4, <1>6, <2>2 DEF ObjInv
  <1>11. CASE Run.at # Run.target
    <2>1. st2 = [s EXCEPT ![Top] = UnwAs(Run, Run.at - 1, 0, Run.state, "scan")]
      BY <1>3, <1>7, <1>8, <1>9, <1>11, Zenon DEF Next1, UnwFields, UnwAs
    <2>2. ObjOK(st2, Len(thrown), chain, alive, lost)
      BY <1>1, <1>2, <1>8, <1>11, <2>1, UnwDown, Zenon
    <2> QED BY <1>4, <1>6, <2>2 DEF ObjInv
  <1> QED BY <1>10, <1>11

LEMMA UnwindStateObjects ==
    ASSUME EhInv, ObjInv, UnwindState
    PROVE  ObjInv'
  <1>1. FramesInv /\ TypesInv /\ Run.k = "unw" /\ Run.phase = "states"
    BY DEF EhInv, UnwindState, RunIs
  <1>2. /\ Top \in Nat /\ Top > 1 /\ stack[Top] = Run /\ Run.at \in 1 .. Top - 1 /\ Run.at \in Nat
        /\ Run.at <= Run.at /\ stack[Run.at].k \in {"fn", "catch"}
    BY <1>1, UnwFacts DEF DownUnw
  <1>3. Own(Run) /\ DOMAIN Run = UnwFields /\ Top \in DOMAIN stack /\ IsStack(stack) /\ Len(stack) = Top
        /\ (\A q \in 1 .. Top : Own(stack[q])) /\ Run.phase \in {"scan", "states", "land"}
    BY <1>1, <1>2, StackFacts DEF Own, OwnUnw
  <1>4. UNCHANGED <<thrown, chain, alive, lost>>
    BY DEF UnwindState, runtime
  <1> DEFINE p == Run.at
             f == stack[p].f
             s == Run.state
             next == UWE_TOSTATE(f, s)
             stepped == [stack EXCEPT ![Top].state = next]
             moved == IF mode.fh = 3 THEN [stepped EXCEPT ![Est(p)].us = next]
                      ELSE [stepped EXCEPT ![Top].scope = next + 2]
  <1>5. \/ stack' = stepped \/ stack' = moved \/ stack' = Append(moved, Fn("aux"))
    BY DEF UnwindState
  <1>6. PICK t, n : t = stepped /\ n = next
    BY Zenon
  <1>7. PICK m : m = moved
    BY Zenon
  <1>8. t = [stack EXCEPT ![Top].state = n]
        /\ m = IF mode.fh = 3 THEN [t EXCEPT ![Est(Run.at)].us = n] ELSE [t EXCEPT ![Top].scope = n + 2]
    BY <1>6, <1>7, Zenon
  <1>9. stack' = t \/ stack' = m \/ stack' = Append(m, Fn("aux"))
    BY <1>5, <1>6, <1>7, Zenon
  <1> HIDE DEF p, f, s, next, stepped, moved
  <1>10. t = [stack EXCEPT ![Top] = UnwAs(Run, Run.at, Run.scope, n, Run.phase)]
    BY <1>2, <1>3, <1>8, Zenon DEF UnwFields, UnwAs
  <1>11. ObjOK(t, Len(thrown), chain, alive, lost)
    BY <1>1, <1>2, <1>3, <1>10, UnwChanged, KinItself, ZenonT(30)
  <1>12. PICK u : u = UnwAs(Run, Run.at, Run.scope, n, Run.phase)
    OBVIOUS
  <1>13. Own(u) /\ u.k = "unw" /\ u.target = Run.target /\ u.at = Run.at
    BY <1>1, <1>2, <1>3, <1>12, UnwAsOK
  <1>14. u.rec = Run.rec
    BY <1>1, <1>3, <1>12, UnwRec
  <1>15. Changed(stack, t, Top, u)
    <2>1. Top \in 1 .. Len(stack)
      BY <1>2, <1>3
    <2>2. Changed(stack, [stack EXCEPT ![Top] = u], Top, u)
      BY <1>3, <2>1, ChangeFrameTo, Zenon
    <2> QED BY <1>10, <1>12, <2>2
  <1>16. IsStack(t) /\ Len(t) = Top /\ t[Top] = u
    BY <1>3, <1>15 DEF Changed
  <1>17. \A q \in 1 .. Top - 1 : t[q] = stack[q]
    BY <1>2, <1>3, <1>15 DEF Changed
  <1>18. \A q \in 1 .. Top : Own(t[q])
    BY <1>2, <1>3, <1>13, <1>15 DEF Changed
  <1>19. IsStack(m) /\ ObjOK(m, Len(thrown), chain, alive, lost)
    <2>1. CASE mode.fh = 3
      <3>1. HelpSet(t, m, Est(Run.at), n)
        BY <1>8, <2>1 DEF HelpSet
      <3>2. IsStack(m) /\ Len(m) = Top /\ Kin(stack, m, Top - 1) /\ m[Top] = u
        BY <1>1, <1>2, <1>16, <1>17, <1>18, <3>1, UsKin
      <3> QED BY <1>1, <1>2, <1>13, <1>14, <3>2, UnwMoved
    <2>2. CASE mode.fh # 3
      <3>1. m = [t EXCEPT ![Top].scope = n + 2]
        BY <1>8, <2>2
      <3>2. PICK z : z = n + 2
        OBVIOUS
      <3>3. m = [t EXCEPT ![Top] = UnwAs(Run, Run.at, z, n, Run.phase)]
        <4>1. Top \in DOMAIN t
          <5>1. Top \in 1 .. Len(t)
            BY <1>2, <1>16
          <5> QED BY <1>16, <5>1, StackDomain
        <4>2. PICK v : v = UnwAs(Run, Run.at, z, n, Run.phase)
          OBVIOUS
        <4>3. v = [u EXCEPT !.scope = z]
          BY <1>3, <1>12, <4>2, Zenon DEF UnwFields, UnwAs
        <4>4. m = [t EXCEPT ![Top] = v]
          BY <1>16, <3>1, <3>2, <4>1, <4>3
        <4> QED BY <4>2, <4>4
      <3>4. Kin(stack, t, Top - 1)
        BY <1>17 DEF Kin
      <3> QED BY <1>1, <1>2, <1>3, <1>16, <3>3, <3>4, UnwChanged, Zenon
    <2> QED BY <2>1, <2>2
  <1>20. PICK st2 : st2 = stack'
    OBVIOUS
  <1>21. ObjOK(st2, Len(thrown), chain, alive, lost)
    <2>1. PICK fr : fr = Fn("aux")
      OBVIOUS
    <2>2. IsCode(fr)
      BY <2>1 DEF IsCode, Fn
    <2>3. ASSUME st2 = Append(m, fr) PROVE ObjOK(st2, Len(thrown), chain, alive, lost)
      BY <1>1, <1>19, <2>2, <2>3, CodeObjects, Zenon
    <2> QED BY <1>9, <1>11, <1>19, <1>20, <2>1, <2>3
  <1> QED BY <1>4, <1>20, <1>21 DEF ObjInv

(* The search that led to this unwind has passed the catch block the unwind is at. *)
LEMMA UnwindHasPassed ==
    ASSUME FramesInv, FlightOK(stack, Len(thrown), lost), Run.k = "unw", Run.at # Run.target,
           stack[Run.at].k = "ccb", NEW o \in ObjectNumbers, stack[Run.at].rec = o, lost \subseteq {o},
           Run.rec = o, TypesInv
    PROVE  stack[Run.at].rethrow
  <1>1. /\ Top \in Nat /\ Run.at \in 1 .. Top - 1 /\ Run.at \in Nat /\ Respects(stack, Top, Run.at)
        /\ Run = stack[Top] /\ Run.target \in 1 .. Run.at
    BY UnwFacts DEF Run
  <1>2. /\ Top > 1 /\ stack[Top - 1].k = "raise" /\ stack[Top - 1].at = Run.target
        /\ stack[Top - 1].rec # Rethrown => Run.rec = stack[Top - 1].rec
    BY UnwindPair
  <1>3. PICK a \in Nat : a = Run.at
    BY <1>1
  <1>4. PICK z \in Nat : z = Top - 1
    BY <1>1, <1>2
  <1>5. a \in 1 .. z - 1 /\ z \in 1 .. Top /\ stack[z].at < a /\ stack[z].k = "raise"
    <2>1. a # z
      BY <1>2, <1>3, <1>4
    <2> QED BY <1>1, <1>2, <1>3, <1>4, <2>1
  <1>6. Seen(stack, z - 1, a)
    <2> SUFFICES ASSUME NEW q \in 1 .. z - 1, stack[q].k = "unw", stack[q].at < a, a < q
                 PROVE  FALSE
      BY DEF Seen
    <2>1. q \in 1 .. Top - 1
      BY <1>1, <1>4
    <2>2. a <= stack[q].at
      BY <1>1, <1>3, <2>1 DEF Respects
    <2>3. Placed(stack, q)
      BY <1>1, <2>1, FlightFacts
    <2> QED BY <1>3, <2>2, <2>3 DEF Placed
  <1>7. Excepted(stack) /\ Passed(stack, lost) /\ Fits(stack, z, Len(thrown)) /\ Len(stack) = Top
    BY <1>5, FlightFacts DEF FlightOK, Top
  <1>8. CASE stack[a].phase = "except"
    BY <1>1, <1>3, <1>7, <1>8 DEF Excepted
  <1>9. CASE stack[a].phase # "except"
    <2>1. stack[a].phase = "try"
      <3>1. Placed(stack, a)
        BY <1>1, <1>3, FlightFacts
      <3> QED BY <1>3, <1>9, <3>1 DEF Placed
    <2>2. stack[z].rec # Rethrown
      BY <1>3, <1>5, <1>6, <1>7, <1>9 DEF Fits, RethrownOK
    <2>3. stack[z].rec = o
      BY <1>2, <1>4, <2>2
    <2>4. \A w \in z + 1 .. Len(stack) : stack[w].k # "raise"
      <3>1. \A w \in z + 1 .. Len(stack) : w = Top
        BY <1>1, <1>4, <1>7
      <3> QED BY <1>1, <3>1
    <2>5. HasPassed(stack, z, a, o)
      BY <1>3, <1>5, <1>6, <2>1, <2>3, <2>4 DEF HasPassed, Holds
    <2>6. z \in 1 .. Len(stack)
      BY <1>5, <1>7
    <2> QED BY <1>3, <1>5, <1>7, <2>5, <2>6 DEF Passed
  <1> QED BY <1>8, <1>9

(* What flies at the top, or is seen below the catch block that is left, is held below. *)
LEMMA UnwindHolds ==
    ASSUME FramesInv, FlightOK(stack, Len(thrown), lost), TypesInv, Run.k = "unw",
           Run.at # Run.target, stack[Run.at].k = "ccb", NEW o \in ObjectNumbers,
           stack[Run.at].rec = o, lost \subseteq {o}, ~stack[Run.at].rethrow,
           NEW q \in 1 .. Top, q = Top \/ (q < Run.at /\ Seen(stack, Top, q)),
           Flies(stack, q, o) \/ Holds(stack, q, o)
    PROVE  \E h \in HandlersIn(stack, Run.at - 1) : stack[h].rec = o
  <1>1. /\ Top \in Nat /\ Run.at \in 1 .. Top - 1 /\ Run.at \in Nat /\ Respects(stack, Top, Run.target)
        /\ Run = stack[Top] /\ Run.target \in 1 .. Run.at
    BY UnwFacts DEF Run
  <1>2. PICK a \in Nat : a = Run.at
    BY <1>1
  <1>3. a - 1 \in Nat /\ a \in 1 .. Top /\ a - 1 \in 0 .. Top
    BY <1>1, <1>2
  <1>4. CASE q # Top
    <2>1. q \in 1 .. a - 1
      BY <1>2, <1>3, <1>4
    <2>2. Seen(stack, a - 1, q)
      BY <1>1, <1>3, <1>4, SeenFromBelow
    <2>3. CASE Flies(stack, q, o)
      <3>1. stack[a].k = "ccb" /\ stack[a].rec = o
        BY <1>2
      <3> QED BY <1>2, <1>3, <2>1, <2>2, <2>3, <3>1, HandlerBelow
    <2>4. CASE Holds(stack, q, o)
      BY <1>2, <2>1, <2>2, <2>4 DEF HandlersIn, Holds
    <2> QED BY <2>3, <2>4
  <1>5. CASE q = Top
    <2>1. Flies(stack, Top, o) /\ ~Holds(stack, Top, o)
      BY <1>1, <1>5 DEF Holds
    <2>2. CASE Run.rec = o
      BY <2>2, UnwindHasPassed
    <2>3. CASE Run.rec # o
      <3>1. stack[Run.target].k = "ccb" /\ stack[Run.target].rec = o
        BY <1>1, <2>1, <2>3 DEF Flies
      <3>2. PICK r \in Nat : r = Run.target
        BY <1>1
      <3>3. r \in 1 .. a - 1
        BY <1>1, <1>2, <3>2
      <3>4. Seen(stack, a - 1, r)
        <4> SUFFICES ASSUME NEW w \in 1 .. a - 1, stack[w].k = "unw", stack[w].at < r, r < w
                     PROVE  FALSE
          BY DEF Seen
        <4>1. w \in 1 .. Top - 1
          BY <1>1, <1>2
        <4>2. r <= stack[w].at
          BY <1>1, <3>2, <4>1 DEF Respects
        <4>3. Placed(stack, w)
          BY <1>1, <4>1, FlightFacts
        <4> QED BY <3>2, <4>2, <4>3 DEF Placed
      <3> QED BY <1>2, <3>1, <3>2, <3>3, <3>4 DEF HandlersIn
    <2> QED BY <2>2, <2>3
  <1> QED BY <1>4, <1>5

LEMMA UnwindCatchBlockObjects ==
    ASSUME EhInv, ObjInv, UnwindCatchBlock
    PROVE  ObjInv'
  <1>1. FramesInv /\ TypesInv /\ Run.k = "unw" /\ Run.phase = "scan"
        /\ stack[Run.at].k = "ccb" /\ Run.at # Run.target
    BY DEF EhInv, UnwindCatchBlock, RunIs
  <1>2. /\ Top \in Nat /\ Top > 1 /\ stack[Top] = Run /\ Run.at \in Nat /\ Run.at \in 1 .. Top - 1
        /\ Run.at \in 1 .. Top
    BY <1>1, UnwFacts
  <1>3. Own(Run) /\ DOMAIN Run = UnwFields /\ Top \in DOMAIN stack /\ IsStack(stack) /\ Len(stack) = Top
    BY <1>1, <1>2, StackFacts DEF Own, OwnUnw
  <1>4. PICK a \in Nat : a = Run.at
    BY <1>2
  <1>5. LeaveCatchBlock(a) /\ stack' = Next1(stack) /\ UNCHANGED <<thrown, lost>>
    BY <1>4 DEF UnwindCatchBlock
  <1>6. FlightOK(stack, Len(thrown), lost)
    BY DEF ObjInv, ObjOK
  <1>7. PICK st2 : st2 = stack'
    OBVIOUS
  <1>8. st2 = [stack EXCEPT ![Top] = UnwAs(Run, Run.at - 1, 0, Run.state, Run.phase)]
    BY <1>2, <1>3, <1>5, <1>7, Zenon DEF Next1, UnwFields, UnwAs
  <1>9. Moved(stack, st2) /\ ObjOK(st2, Len(thrown), chain, alive, lost)
    BY <1>1, <1>3, <1>8, UnwDown, KinItself, Zenon
  <1>10. PICK u : u = UnwAs(Run, Run.at - 1, 0, Run.state, Run.phase)
    OBVIOUS
  <1>11. u.k = "unw" /\ u.at = a - 1
    <2>1. Run.at - 1 \in Nat
      BY <1>2
    <2> QED BY <1>1, <1>3, <1>4, <1>10, <2>1, UnwAsOK
  <1>12. Len(st2) = Top /\ st2[Top] = u
    BY <1>1, <1>8, <1>10, TopChange, Zenon
  <1>13. HandlersIn(stack, Top) = HandlersIn(stack, a - 1) \cup {a} /\ ChainFor(chain', stack, a - 1)
    <2>1. ChainFor(chain, stack, a)
      BY <1>1, <1>4, UnwindNow
    <2>2. HandlersIn(stack, a) = HandlersIn(stack, a - 1) \cup {a}
      BY <1>1, <1>4, NextDown
    <2>3. HandlersIn(stack, Top) = HandlersIn(stack, a)
      <3>1. (\A q \in 1 .. Top : Own(stack[q])) /\ Down(stack, Top) /\ stack[Top].k = "unw" /\ Top > 0
        BY <1>1, <1>2, StackFacts
      <3>2. HandlersIn(stack, Top) = HandlersIn(stack, stack[Top].at)
        BY <1>2, <3>1, HandlersOfUnwind
      <3> QED BY <1>2, <1>4, <3>2
    <2>4. ChainFor(Unlinked(a), stack, a - 1)
      BY <1>2, <1>4, <2>1, <2>2, Unlink
    <2> QED BY <1>5, <2>2, <2>3, <2>4 DEF LeaveCatchBlock
  <1>14. alive' = IF ~stack[a].rethrow /\ IsObject(stack[a].rec)
                      /\ ~\E x \in Range(chain') : x.obj = stack[a].rec
                  THEN alive \ {stack[a].rec} ELSE alive
    BY <1>5, Zenon DEF LeaveCatchBlock
  <1>15. FlightOK(st2, Len(thrown), lost) /\ AliveOK(st2, alive, lost)
         /\ LeakOK(st2, chain, alive, lost) /\ a \in 1 .. Top /\ stack[a].k = "ccb"
    BY <1>1, <1>2, <1>4, <1>9 DEF ObjOK
  <1>16. PICK o : o = stack[a].rec
    OBVIOUS
  <1>17. ASSUME o \in ObjectNumbers, lost \subseteq {o}, ~stack[a].rethrow, NEW q \in 1 .. Len(st2),
                Seen(st2, Len(st2), q), Flies(st2, q, o) \/ Holds(st2, q, o)
         PROVE  \E h \in HandlersIn(stack, a - 1) : stack[h].rec = o
    <2>1. q \in 1 .. Top /\ q \in 1 .. Len(stack) /\ q \in Int
      BY <1>3, <1>12, <1>17
    <2>2. \A y \in 1 .. Len(stack) : Fits(stack, y, Len(thrown))
      BY <1>1, <1>3, <1>6, FlightFacts
    <2>3. Flies(stack, q, o) \/ Holds(stack, q, o)
      BY <1>9, <1>17, <2>1, <2>2, MovedFlies, Zenon
    <2>4. Seen(stack, Top, q)
      BY <1>3, <1>9, <1>12, <1>17, <2>1, <2>2, MovedSeen, Zenon
    <2>5. q = Top \/ q < Run.at
      <3>1. ~(a - 1 < q /\ q < Top)
        <4>1. Top \in 1 .. Len(st2)
          BY <1>2, <1>12
        <4> QED BY <1>11, <1>12, <1>17, <4>1 DEF Seen
      <3> QED BY <1>2, <1>4, <2>1, <3>1
    <2>6. stack[Run.at].rec = o /\ ~stack[Run.at].rethrow
      BY <1>4, <1>16, <1>17
    <2>7. \E h \in HandlersIn(stack, Run.at - 1) : stack[h].rec = o
      BY <1>1, <1>6, <1>17, <2>1, <2>3, <2>4, <2>5, <2>6, UnwindHolds
    <2> QED BY <1>4, <2>7
  <1>18. ASSUME o \in ObjectNumbers, stack[a].rethrow
         PROVE  o \in lost \/ \E q \in 1 .. Len(st2) : Flies(st2, q, o)
    <2>1. IsObject(o) /\ a \in 1 .. Len(stack) /\ Flagged(stack, lost)
      BY <1>1, <1>3, <1>6, <1>15, <1>18, AliveObjects DEF FlightOK
    <2>2. CASE o \in lost
      BY <2>2
    <2>3. CASE o \notin lost
      <3>1. PICK q \in a + 1 .. Len(stack) : Witness(stack, a, q)
        BY <1>15, <1>16, <1>18, <2>1, <2>3 DEF Flagged
      <3>2. q \in 1 .. Len(stack) /\ q \in 1 .. Len(st2)
        BY <1>3, <1>4, <1>12, <3>1
      <3>3. Flies(stack, q, o)
        BY <1>15, <1>16, <3>1 DEF Witness, Flies
      <3>4. \A y \in 1 .. Len(stack) : Fits(stack, y, Len(thrown))
        BY <1>1, <1>3, <1>6, FlightFacts
      <3>5. Flies(st2, q, o)
        BY <1>9, <3>2, <3>3, <3>4, MovedFlies, Zenon
      <3> QED BY <3>2, <3>5
    <2> QED BY <2>2, <2>3
  <1>19. ObjOK(st2, Len(thrown), chain', alive', lost)
    <2>1. stack[a].rec \in ObjectNumbers /\ lost \subseteq {stack[a].rec} /\ ~stack[a].rethrow =>
               \A q \in 1 .. Len(st2) :
                   /\ Seen(st2, Len(st2), q)
                   /\ Flies(st2, q, stack[a].rec) \/ Holds(st2, q, stack[a].rec)
                   => \E h \in HandlersIn(stack, a - 1) : stack[h].rec = stack[a].rec
      BY <1>16, <1>17
    <2>2. stack[a].rec \in ObjectNumbers /\ stack[a].rethrow =>
               stack[a].rec \in lost \/ \E q \in 1 .. Len(st2) : Flies(st2, q, stack[a].rec)
      BY <1>16, <1>18
    <2> QED BY <1>1, <1>13, <1>14, <1>15, <2>1, <2>2, LeaveKeeps, Zenon
  <1> QED BY <1>5, <1>7, <1>19 DEF ObjInv

-----------------------------------------------------------------------------
(* A handler ends *)

(* Frames that are the same, but for where the program is. *)
KinUser(st, st2, n) ==
    \A p \in 1 .. n : st2[p] = st[p] \/ (st[p].k \in User /\ st2[p].k = st[p].k)

LEMMA KinUserAlike ==
    ASSUME NEW st, NEW st2, NEW n, KinUser(st, st2, n)
    PROVE  Alikes(st, st2, n) /\ SameFlags(st, st2, n)
  BY DEF KinUser, Alikes, Alike, SameFlags, User

IpSet(st, st2, i, x) == st2 = [st EXCEPT ![i].ip = x]

LEMMA IpKin ==
    ASSUME NEW st, IsStack(st), NEW n, Len(st) = n, NEW i \in 1 .. n, Own(st[i]),
           st[i].k \in User, NEW x, NEW st2, IpSet(st, st2, i, x)
    PROVE  /\ IsStack(st2) /\ Len(st2) = n /\ KinUser(st, st2, n)
           /\ \A p \in 1 .. n : DOMAIN st2[p] = DOMAIN st[p]
  <1>1. PICK fr : fr = [st[i] EXCEPT !.ip = x]
    BY Zenon
  <1>2. fr.k = st[i].k /\ DOMAIN fr = DOMAIN st[i]
    BY <1>1 DEF Own, OwnFn, OwnSeh, OwnCatch, User, FnFields, SehFields, CatchFields
  <1>3. st2 = [st EXCEPT ![i] = fr]
    BY <1>1 DEF IpSet
  <1>4. Changed(st, [st EXCEPT ![i] = fr], i, fr)
    BY ChangeFrameTo, Zenon
  <1>5. Changed(st, st2, i, fr)
    BY <1>3, <1>4
  <1> QED BY <1>2, <1>5 DEF Changed, KinUser

(* The stack a handler leaves behind: without its two frames. *)
LEMMA CatchDoneCut ==
    ASSUME EhInv, CatchDone
    PROVE  /\ Top > 2 /\ stack[Top - 1].k = "ccb" /\ Run.k = "catch"
           /\ Len(stack') = Top - 2 /\ KinUser(stack, stack', Top - 2)
  <1>1. FramesInv /\ Run.k = "catch"
    BY DEF EhInv, CatchDone
  <1>2. Top \in Nat /\ Top > 0 /\ Top = Len(stack) /\ IsStack(stack)
        /\ \A p \in 1 .. Top : Own(stack[p])
    BY <1>1, StackFacts
  <1>3. /\ Top > 2 /\ stack[Top - 1].k = "ccb" /\ stack[Top - 2].k \in {"fn", "catch"}
        /\ Run.est \in 1 .. Top - 2 /\ stack[Run.est].k = "fn"
    <2>1. Top \in 1 .. Top /\ stack[Top].k = "catch"
      BY <1>1, <1>2 DEF Run
    <2> QED BY <1>1, <2>1, CatchFacts DEF Run
  <1>4. PICK m \in Nat : m = Top - 2
    BY <1>2, <1>3
  <1>5. m \in 1 .. Top /\ m \in 0 .. Len(stack) /\ m > 0
    BY <1>2, <1>3, <1>4
  <1>6. PICK cut : cut = SubSeq(stack, 1, m)
    BY Zenon
  <1>7. IsStack(cut) /\ Len(cut) = m /\ \A p \in 1 .. m : cut[p] = stack[p]
    BY <1>2, <1>5, <1>6, CutFrames
  <1>8. m \in 1 .. Len(cut) /\ Own(cut[m]) /\ cut[m].k \in User
    BY <1>2, <1>3, <1>4, <1>5, <1>7 DEF User
  <1>9. PICK o : o = Outside(Run.f, Run.try)
    OBVIOUS
  <1>10. PICK s : s = [cut EXCEPT ![m].ip = o]
    BY Zenon
  <1>11. /\ IsStack(s) /\ Len(s) = m /\ KinUser(cut, s, m)
         /\ \A p \in 1 .. m : DOMAIN s[p] = DOMAIN cut[p]
    <2>1. m \in 1 .. m /\ IsStack(cut) /\ Len(cut) = m /\ IpSet(cut, s, m, o)
      BY <1>7, <1>8, <1>10 DEF IpSet
    <2> QED BY <1>8, <2>1, IpKin
  <1>12. PICK st2 : st2 = stack'
    OBVIOUS
  <1>13. PICK e, x, y : e = Run.est /\ x = INVALID_STATE /\ y = -1
    OBVIOUS
  <1>14. st2 = IF mode.fh = 3 THEN [s EXCEPT ![e].us = x, ![e].ut = y] ELSE s
    BY <1>4, <1>6, <1>9, <1>10, <1>12, <1>13, Zenon DEF CatchDone
  <1>15. Len(st2) = m /\ KinUser(s, st2, m)
    <2>1. CASE mode.fh = 3
      <3>1. st2 = [s EXCEPT ![e].us = x, ![e].ut = y]
        BY <1>14, <2>1
      <3>2. e \in 1 .. m /\ cut[e] = stack[e] /\ cut[e].k = "fn"
        BY <1>3, <1>4, <1>7, <1>13
      <3>3. s[e].k = "fn"
        BY <1>11, <3>2 DEF KinUser
      <3>4. PICK fr : fr = [s[e] EXCEPT !.us = x, !.ut = y]
        OBVIOUS
      <3>5. fr.k = "fn"
        <4>1. "k" \in DOMAIN s[e]
          <5>1. e \in 1 .. Top /\ DOMAIN s[e] = DOMAIN stack[e]
            BY <1>2, <1>5, <1>11, <3>2
          <5>2. Own(stack[e]) /\ stack[e].k = "fn"
            BY <1>2, <3>2, <5>1
          <5> QED BY <5>1, <5>2 DEF Own, OwnFn, FnFields
        <4> QED BY <3>3, <3>4, <4>1
      <3>6. st2 = [s EXCEPT ![e] = fr]
        BY <1>11, <3>1, <3>2, <3>4, StackDomain, Zenon
      <3>7. Changed(s, [s EXCEPT ![e] = fr], e, fr)
        BY <1>11, <3>2, ChangeFrameTo, Zenon
      <3>8. Changed(s, st2, e, fr)
        BY <3>6, <3>7
      <3> QED BY <1>11, <3>3, <3>5, <3>8 DEF Changed, KinUser, User
    <2>2. CASE mode.fh # 3
      <3>1. st2 = s
        BY <1>14, <2>2
      <3> QED BY <1>11, <3>1 DEF KinUser
    <2> QED BY <2>1, <2>2
  <1>16. KinUser(stack, st2, m)
    BY <1>7, <1>11, <1>15 DEF KinUser
  <1> QED BY <1>1, <1>3, <1>4, <1>12, <1>15, <1>16

LEMMA CatchDoneObjects ==
    ASSUME EhInv, ObjInv, CatchDone
    PROVE  ObjInv'
  <1>1. FramesInv /\ TypesInv
    BY DEF EhInv
  <1>2. /\ Top > 2 /\ stack[Top - 1].k = "ccb" /\ Run.k = "catch"
        /\ Len(stack') = Top - 2 /\ KinUser(stack, stack', Top - 2)
    BY CatchDoneCut
  <1>3. Top \in Nat /\ Top = Len(stack) /\ Run = stack[Top] /\ stack[Top].k = "catch"
    BY <1>1, <1>2, StackFacts DEF Run
  <1>4. PICK m \in Nat : m = Top - 2
    BY <1>2, <1>3
  <1>5. PICK p \in Nat : p = Top - 1
    BY <1>2, <1>3
  <1>6. m \in 1 .. Top /\ p \in 1 .. Top /\ p - 1 = m /\ p = m + 1 /\ stack[p].k = "ccb"
    BY <1>2, <1>3, <1>4, <1>5
  <1>7. PICK st2 : st2 = stack'
    OBVIOUS
  <1>8. Len(st2) = m /\ KinUser(stack, st2, m)
    BY <1>2, <1>4, <1>7
  <1>9. Cut(stack, st2, m)
    BY <1>3, <1>6, <1>8, KinUserAlike DEF Cut
  <1>10. \A q \in m + 1 .. Len(stack) : q = p \/ q = Top
    BY <1>3, <1>4, <1>5
  <1>11. \A q \in m + 1 .. Len(stack) : stack[q].k \in {"ccb", "catch"}
    BY <1>3, <1>6, <1>10
  <1>12. Dispensable(stack, m, lost)
    BY <1>11 DEF Dispensable, Witness
  <1>13. FlightOK(stack, Len(thrown), lost) /\ AliveOK(stack, alive, lost)
         /\ LeakOK(stack, chain, alive, lost) /\ \A y \in 1 .. Len(stack) : Fits(stack, y, Len(thrown))
    BY DEF ObjInv, ObjOK, FlightOK
  <1>14. lost \subseteq lost /\ FlightOK(st2, Len(thrown), lost)
    BY <1>9, <1>12, <1>13, CutFlights
  <1>15. AliveOK(st2, alive, lost)
    <2>1. ASSUME NEW q \in 1 .. m, Seen(stack, m, q) PROVE Seen(stack, Len(stack), q)
      <3>1. Seen(stack, p, q) <=> Seen(stack, p - 1, q)
        <4>1. p > 0 /\ q \in 1 .. p - 1 /\ stack[p].k # "unw"
          BY <1>6
        <4> QED BY <4>1, SeenTop
      <3>2. Seen(stack, Top, q) <=> Seen(stack, Top - 1, q)
        <4>1. Top > 0 /\ q \in 1 .. Top - 1 /\ stack[Top].k # "unw"
          BY <1>2, <1>3, <1>6
        <4> QED BY <1>3, <4>1, SeenTop
      <3> QED BY <1>3, <1>5, <1>6, <2>1, <3>1, <3>2
    <2> QED BY <1>9, <1>13, <1>14, <2>1, CutAlive, Zenon
  <1>16. LeakOK(st2, chain, alive, lost)
    <2> SUFFICES ASSUME NEW o \in alive, NEW q \in 1 .. Len(stack), Flies(stack, q, o)
                 PROVE  \E r \in 1 .. m : Flies(st2, r, o)
      BY <1>8, <1>13 DEF LeakOK
    <2>1. q \notin m + 1 .. Len(stack)
      BY <1>11 DEF Flies
    <2>2. q \in 1 .. m
      BY <1>3, <1>6, <2>1
    <2> QED BY <1>9, <1>13, <2>2, CutFlies, Zenon
  <1>17. LeaveCatchBlock(p) /\ UNCHANGED <<thrown, lost>>
    BY <1>5 DEF CatchDone
  <1>18. HandlersIn(stack, Top) = HandlersIn(stack, p - 1) \cup {p}
    <2>1. HandlersIn(stack, Top) = HandlersIn(stack, Top - 1)
      BY <1>2, <1>3, HandlersBelow
    <2>2. HandlersIn(stack, p) = HandlersIn(stack, p - 1) \cup {p}
      BY <1>6, HandlersBelow
    <2> QED BY <1>5, <2>1, <2>2
  <1>19. ChainFor(chain', stack, p - 1)
    <2>1. ChainFor(chain, stack, Top)
      BY <1>1, <1>3 DEF FramesInv, ChainOK
    <2>2. p > 0
      BY <1>6
    <2>3. ChainFor(Unlinked(p), stack, p - 1)
      BY <1>3, <1>18, <2>1, <2>2, Unlink
    <2> QED BY <1>17, <2>3 DEF LeaveCatchBlock
  <1>20. alive' = IF ~stack[p].rethrow /\ IsObject(stack[p].rec)
                      /\ ~\E x \in Range(chain') : x.obj = stack[p].rec
                  THEN alive \ {stack[p].rec} ELSE alive
    BY <1>17, Zenon DEF LeaveCatchBlock
  <1>21. PICK o : o = stack[p].rec
    OBVIOUS
  <1>22. ASSUME o \in ObjectNumbers, NEW q \in 1 .. Len(st2), Seen(st2, Len(st2), q),
                Flies(st2, q, o) \/ Holds(st2, q, o)
         PROVE  \E h \in HandlersIn(stack, p - 1) : stack[h].rec = o
    <2>1. q \in 1 .. m /\ q \in 1 .. p - 1 /\ m \in 0 .. m
      BY <1>6, <1>8, <1>22
    <2>2. Flies(stack, q, o) \/ Holds(stack, q, o)
      BY <1>9, <1>13, <1>22, <2>1, CutFlies, Zenon
    <2>3. Seen(stack, p - 1, q)
      <3>1. Alikes(stack, st2, m)
        BY <1>9 DEF Cut
      <3> QED BY <1>6, <1>8, <1>22, <2>1, <3>1, SeenAlike
    <2>4. CASE Flies(stack, q, o)
      BY <1>1, <1>6, <1>13, <1>21, <1>22, <2>1, <2>3, <2>4, HandlerBelow
    <2>5. CASE Holds(stack, q, o)
      BY <2>1, <2>3, <2>5 DEF HandlersIn, Holds
    <2> QED BY <2>2, <2>4, <2>5
  <1>23. ASSUME o \in ObjectNumbers, stack[p].rethrow
         PROVE  o \in lost
    <2>1. IsObject(o) /\ p \in 1 .. Len(stack) /\ Flagged(stack, lost)
      BY <1>1, <1>3, <1>6, <1>13, <1>23, AliveObjects DEF FlightOK
    <2>2. ASSUME NEW q \in p + 1 .. Len(stack), Witness(stack, p, q) PROVE FALSE
      <3>1. q = Top
        BY <1>3, <1>5, <2>2
      <3> QED BY <1>3, <2>2, <3>1 DEF Witness
    <2> QED BY <1>6, <1>21, <1>23, <2>1, <2>2 DEF Flagged
  <1>24. ObjOK(st2, Len(thrown), chain', alive', lost)
    <2>1. stack[p].rec \in ObjectNumbers /\ lost \subseteq {stack[p].rec} /\ ~stack[p].rethrow =>
               \A q \in 1 .. Len(st2) :
                   /\ Seen(st2, Len(st2), q)
                   /\ Flies(st2, q, stack[p].rec) \/ Holds(st2, q, stack[p].rec)
                   => \E h \in HandlersIn(stack, p - 1) : stack[h].rec = stack[p].rec
      BY <1>21, <1>22
    <2>2. stack[p].rec \in ObjectNumbers /\ stack[p].rethrow =>
               stack[p].rec \in lost \/ \E q \in 1 .. Len(st2) : Flies(st2, q, stack[p].rec)
      BY <1>21, <1>23
    <2> QED BY <1>1, <1>6, <1>14, <1>15, <1>16, <1>18, <1>19, <1>20, <2>1, <2>2, LeaveKeeps, Zenon
  <1> QED BY <1>7, <1>17, <1>24 DEF ObjInv

-----------------------------------------------------------------------------
(* An unwind lands *)

(* Frames below the target stay. *)
LEMMA Landed ==
    ASSUME FramesInv, ObjInv, Run.k = "unw", NEW m \in {Run.target - 1, Run.target}, m \in 1 .. Top,
           m = Run.target <=> stack[Run.target].k # "ccb",
           NEW s, Len(s) = m, Alikes(stack, s, m), SameFlags(stack, s, m),
           NEW l2, l2 = lost \cup Replaced(Run.target)
    PROVE  /\ Cut(stack, s, m) /\ FlightOK(s, Len(thrown), l2) /\ AliveOK(s, alive, l2)
           /\ \A o \in alive : TypesInv =>
                  \/ o \in l2
                  \/ \E i \in 1 .. Len(chain) : chain[i].obj = o
                  \/ \E q \in 1 .. m : Flies(s, q, o)
                  \/ Flies(stack, Top, o)
  <1>1. Top \in Nat /\ Top = Len(stack) /\ Run.target \in 1 .. Top - 1
    BY UnwFacts, StackFacts
  <1>2. FlightOK(stack, Len(thrown), lost) /\ AliveOK(stack, alive, lost)
        /\ LeakOK(stack, chain, alive, lost) /\ \A y \in 1 .. Len(stack) : Fits(stack, y, Len(thrown))
    BY DEF ObjInv, ObjOK, FlightOK
  <1>3. Cut(stack, s, m)
    BY <1>1 DEF Cut
  <1>4. lost \subseteq l2 /\ Replaced(Run.target) \subseteq l2
    OBVIOUS
  <1>5. Dispensable(stack, m, l2)
    BY <1>2, <1>4, LandingDispenses
  <1>6. FlightOK(s, Len(thrown), l2)
    BY <1>2, <1>3, <1>4, <1>5, CutFlights
  <1>7. m = Run.target - 1 => stack[Run.target].k = "ccb"
    BY <1>1
  <1>8. AliveOK(s, alive, l2)
    <2>1. ASSUME NEW p \in 1 .. m, Seen(stack, m, p) PROVE Seen(stack, Len(stack), p)
      BY <1>1, <1>2, <1>7, <2>1, TargetSees
    <2>2. \A p \in 1 .. m : Seen(stack, m, p) => Seen(stack, Len(stack), p)
      BY <2>1
    <2>3. PICK l, t : l = lost /\ t = Len(thrown)
      BY Zenon
    <2>4. l \subseteq l2 /\ AliveOK(stack, alive, l) /\ \A y \in 1 .. Len(stack) : Fits(stack, y, t)
      BY <1>2, <1>4, <2>3
    <2> QED BY <1>3, <2>2, <2>4, CutAlive
  <1>9. ASSUME NEW o \in alive, TypesInv, o \notin l2, ~\E i \in 1 .. Len(chain) : chain[i].obj = o,
               ~Flies(stack, Top, o)
        PROVE  \E q \in 1 .. m : Flies(s, q, o)
    <2>1. o \in ObjectNumbers /\ o \notin lost /\ o \notin Replaced(Run.target)
      BY <1>9, AliveObjects
    <2>2. PICK q \in 1 .. Len(stack) : Flies(stack, q, o)
      BY <1>2, <1>9, <2>1 DEF LeakOK
    <2>3. q \in 1 .. Top
      BY <1>1
    <2>4. ~(q > Run.target)
      BY <1>2, <1>9, <2>1, <2>2, <2>3, LandingFlies
    <2>5. q \in 1 .. m
      <3>1. q = Run.target => stack[Run.target].k # "ccb"
        BY <2>2 DEF Flies
      <3> QED BY <1>1, <2>3, <2>4, <3>1
    <2> QED BY <1>2, <1>3, <2>2, <2>5, CutFlies, Zenon
  <1> QED BY <1>3, <1>6, <1>8, <1>9

LEMMA LandInSehObjects ==
    ASSUME EhInv, ObjInv, LandInSeh
    PROVE  ObjInv'
  <1>1. FramesInv /\ TypesInv /\ Run.k = "unw" /\ stack[Run.target].k = "seh"
    BY DEF EhInv, LandInSeh, RunIs
  <1>2. Top \in Nat /\ Top = Len(stack) /\ IsStack(stack)
        /\ (\A q \in 1 .. Top : Own(stack[q])) /\ Run.target \in 1 .. Top - 1 /\ Run = stack[Top]
    BY <1>1, UnwFacts, StackFacts DEF Run
  <1>3. PICK p \in Nat : p = Run.target
    BY <1>2
  <1>4. p \in 1 .. Top /\ p \in 0 .. Len(stack) /\ stack[p].k = "seh"
    BY <1>1, <1>2, <1>3
  <1>5. UNCHANGED <<chain, thrown, alive>> /\ lost' = lost \cup Replaced(Run.target)
    BY DEF LandInSeh, runtime
  <1>6. PICK cut : cut = SubSeq(stack, 1, p)
    BY Zenon
  <1>7. IsStack(cut) /\ Len(cut) = p /\ \A q \in 1 .. p : cut[q] = stack[q]
    BY <1>2, <1>4, <1>6, CutFrames
  <1>8. PICK st2 : st2 = stack'
    OBVIOUS
  <1>9. PICK x : x = EH_EMPTY_STATE
    OBVIOUS
  <1>10. IpSet(cut, st2, p, x)
    BY <1>3, <1>6, <1>8, <1>9, Zenon DEF LandInSeh, IpSet
  <1>11. Len(st2) = p /\ KinUser(cut, st2, p)
    <2>1. p \in 1 .. p /\ cut[p].k \in User /\ Own(cut[p])
      BY <1>2, <1>4, <1>7 DEF User
    <2> QED BY <1>7, <1>10, <2>1, IpKin
  <1>12. Alikes(stack, st2, p) /\ SameFlags(stack, st2, p)
    <2>1. KinUser(stack, st2, p)
      BY <1>7, <1>11 DEF KinUser
    <2> QED BY <2>1, KinUserAlike
  <1>13. PICK l2 : l2 = lost'
    OBVIOUS
  <1>14. l2 = lost \cup Replaced(Run.target) /\ p \in {Run.target - 1, Run.target}
         /\ (p = Run.target <=> stack[Run.target].k # "ccb")
    BY <1>1, <1>3, <1>5, <1>13
  <1>15. FlightOK(st2, Len(thrown), l2) /\ AliveOK(st2, alive, l2)
    BY <1>1, <1>4, <1>11, <1>12, <1>14, Landed
  <1>16. LeakOK(st2, chain, alive, l2)
    <2> SUFFICES ASSUME NEW o \in alive
                 PROVE  \/ o \in l2
                        \/ \E i \in 1 .. Len(chain) : chain[i].obj = o
                        \/ \E q \in 1 .. p : Flies(st2, q, o)
      BY <1>11 DEF LeakOK
    <2>1. \/ o \in l2
          \/ \E i \in 1 .. Len(chain) : chain[i].obj = o
          \/ \E q \in 1 .. p : Flies(st2, q, o)
          \/ Flies(stack, Top, o)
      BY <1>1, <1>4, <1>11, <1>12, <1>14, Landed, Zenon
    <2>2. ~Flies(stack, Top, o)
      <3>1. Run.rec = Foreign
        BY <1>1, UnwindPair DEF ObjInv, ObjOK
      <3>2. o # Foreign
        BY <1>1, AliveObjects
      <3> QED BY <1>1, <1>2, <3>1, <3>2 DEF Flies
    <2> QED BY <2>1, <2>2
  <1> QED BY <1>5, <1>8, <1>13, <1>15, <1>16 DEF ObjInv, ObjOK

(* The unwind of an object that is thrown a second time has what it needs. *)
LEMMA LandingBacked ==
    ASSUME FramesInv, ObjInv, Run.k = "unw", NEW p, p = Run.target, stack[p].k # "ccb",
           NEW o \in ObjectNumbers, Run.rec = o, NEW x \in 1 .. p, Flies(stack, x, o), Seen(stack, p, x)
    PROVE  \E h \in 1 .. x - 1 : Holds(stack, h, o) /\ Seen(stack, x, h)
  <1>1. Top \in Nat /\ Top > 1 /\ Top = Len(stack) /\ Run = stack[Top] /\ p \in 1 .. Top - 2
    BY UnwFacts, StackFacts, UnwindPair DEF ObjInv, ObjOK
  <1>2. FlightOK(stack, Len(thrown), lost)
    BY DEF ObjInv, ObjOK
  <1>3. Seen(stack, Top, x)
    <2>1. p \in {Run.target - 1, Run.target} /\ ~(p = Run.target - 1)
      BY <1>1
    <2> QED BY <1>2, <2>1, TargetSees
  <1>4. Backed(stack, Top)
    <2>1. Top \in 1 .. Top
      BY <1>1
    <2> QED BY <1>2, <2>1, FlightFacts DEF Fits
  <1>5. About(stack, Top, x, o) /\ x \in 1 .. Top - 1
    BY <1>1 DEF About, Flies
  <1> QED BY <1>3, <1>4, <1>5 DEF Backed

LEMMA LandInHandlerObjects ==
    ASSUME EhInv, ObjInv, LandInHandler
    PROVE  ObjInv'
  <1>1. FramesInv /\ TypesInv /\ Run.k = "unw"
    BY DEF EhInv, LandInHandler, RunIs
  <1>2. Top \in Nat /\ Top > 1 /\ Top = Len(stack) /\ IsStack(stack) /\ Run = stack[Top]
        /\ (\A q \in 1 .. Top : Own(stack[q])) /\ Run.target \in 1 .. Top - 1 /\ Run.rec \in Records
    BY <1>1, UnwFacts, StackFacts DEF Run
  <1>3. PICK p \in 1 .. Top - 1 : p = Run.target
    BY <1>2
  <1>4. PICK i, rec, f, e : i = Run.hit.try /\ rec = Run.rec /\ f = stack[p].f /\ e = Est(p)
    OBVIOUS
  <1>5. p \in Nat /\ p > 0 /\ p \in 0 .. Len(stack) /\ p \in 1 .. Top /\ rec \in Records
    BY <1>2, <1>4
  <1>6. stack[p].k \in {"fn", "catch"}
    BY <1>1, <1>3, UnwFacts DEF Lands, Accepts, LandInHandler, RunIs, DownUnw
  <1>7. PICK a, b : a = Ccb(rec, i) /\ b = CatchFn(f, e, i)
    OBVIOUS
  <1>8. a.k = "ccb" /\ a.rec = rec /\ a.phase = "try" /\ ~a.rethrow /\ b.k = "catch"
    BY <1>7 DEF Ccb, CatchFn
  <1>9. ChainFor(chain, stack, p)
    <2>1. Run.phase = "land" /\ Run.at = Run.target
      BY <1>1, <1>2, UnwFacts DEF LandInHandler, RunIs, DownUnw, Run
    <2> QED BY <1>1, <1>2, <1>3, <2>1, UnwindNow
  <1>10. PICK cut : cut = SubSeq(stack, 1, p)
    BY Zenon
  <1>11. IsStack(cut) /\ Len(cut) = p /\ \A q \in 1 .. p : cut[q] = stack[q]
    BY <1>2, <1>5, <1>10, CutFrames
  <1>12. PICK st2, l2, ch2 : st2 = stack' /\ l2 = lost' /\ ch2 = chain'
    OBVIOUS
  <1>13. PICK rest : rest = IF chain # <<>> /\ chain[1].pos < p + 1 THEN chain ELSE <<>>
    OBVIOUS
  <1>14. /\ st2 = cut \o <<a, b>> /\ ch2 = <<[pos |-> p + 1, obj |-> rec]>> \o rest
         /\ l2 = lost \cup Replaced(Run.target) /\ UNCHANGED <<thrown, alive>>
    BY <1>3, <1>4, <1>7, <1>10, <1>12, <1>13, Zenon DEF LandInHandler
  <1>15. /\ Len(st2) = p + 2 /\ st2[p + 1] = a /\ st2[p + 2] = b
         /\ \A q \in 1 .. p : st2[q] = cut[q]
    <2>1. PICK S : cut \in Seq(S)
      BY <1>11 DEF IsStack
    <2> DEFINE T == S \cup {a, b}
    <2>2. cut \in Seq(T) /\ a \in T /\ b \in T
      BY <2>1
    <2> HIDE DEF T
    <2>3. <<a, b>> \in Seq(T) /\ Len(<<a, b>>) = 2 /\ <<a, b>>[1] = a /\ <<a, b>>[2] = b
      BY <2>2
    <2> QED BY <1>5, <1>11, <1>14, <2>2, <2>3
  <1>16. Alikes(stack, cut, p) /\ SameFlags(stack, cut, p)
    BY <1>11 DEF Alikes, Alike, SameFlags
  <1>17. p \in {Run.target - 1, Run.target} /\ (p = Run.target <=> stack[Run.target].k # "ccb")
         /\ stack[p].k # "ccb"
    BY <1>3, <1>6
  <1>18. /\ Cut(stack, cut, p) /\ FlightOK(cut, Len(thrown), l2) /\ AliveOK(cut, alive, l2)
         /\ \A o \in alive :
                \/ o \in l2
                \/ \E j \in 1 .. Len(chain) : chain[j].obj = o
                \/ \E q \in 1 .. p : Flies(cut, q, o)
                \/ Flies(stack, Top, o)
    BY <1>1, <1>5, <1>11, <1>14, <1>16, <1>17, Landed, Zenon
  <1>19. Pushed(cut, st2)
    <2>1. \A q \in p + 1 .. p + 2 : q = p + 1 \/ q = p + 2
      BY <1>5
    <2>2. Alikes(cut, st2, p) /\ SameFlags(cut, st2, p)
      BY <1>15 DEF Alikes, Alike, SameFlags
    <2>3. \A q \in p + 1 .. p + 2 : st2[q].k \in {"ccb", "catch"} /\ (st2[q].k = "ccb" => ~st2[q].rethrow /\ st2[q].phase = "try")
      BY <1>8, <1>15, <2>1
    <2> QED BY <1>5, <1>11, <1>15, <2>2, <2>3 DEF Pushed
  <1>20. PICK t \in Int : t = Len(thrown)
    BY <1>1, AliveObjects, Zenon
  <1>21. FlightOK(cut, t, l2) /\ \A y \in 1 .. Len(cut) : Fits(cut, y, t)
    BY <1>18, <1>20 DEF FlightOK
  <1>22. rec <= t
    <2>1. FlightOK(stack, Len(thrown), lost) /\ Top \in 1 .. Top
      BY <1>2 DEF ObjInv, ObjOK
    <2>2. Thrown(stack, Top, Len(thrown))
      BY <1>1, <2>1, FlightFacts DEF Fits
    <2> QED BY <1>1, <1>2, <1>4, <1>20, <2>2 DEF Thrown
  <1>23. Fits(st2, p + 1, t)
    <2>1. Placed(st2, p + 1) /\ Thrown(st2, p + 1, t) /\ PairOK(st2, p + 1) /\ RethrownOK(st2, p + 1)
      BY <1>5, <1>8, <1>15, <1>22 DEF Placed, Thrown, PairOK, RethrownOK
    <2>2. Backed(st2, p + 1)
      <3> SUFFICES ASSUME NEW o \in ObjectNumbers, NEW x \in 1 .. p, Flies(st2, x, o), Seen(st2, p + 1, x),
                          About(st2, p + 1, x, o)
                   PROVE  \E h \in 1 .. x - 1 : Holds(st2, h, o) /\ Seen(st2, x, h)
        BY <1>5 DEF Backed
      <3>1. rec = o
        BY <1>8, <1>15 DEF About, Holds, Flies
      <3>2. x \in 1 .. Len(cut) /\ Flies(cut, x, o)
        BY <1>11, <1>19, <1>21, PushedFlies, Zenon
      <3>3. Flies(stack, x, o)
        <4>1. \A y \in 1 .. Len(stack) : Fits(stack, y, Len(thrown))
          BY DEF ObjInv, ObjOK, FlightOK
        <4> QED BY <1>18, <3>2, <4>1, CutFlies, Zenon
      <3>4. Seen(stack, p, x)
        <4>1. p \in 0 .. p + 1 /\ p + 1 \in Nat
          BY <1>5
        <4>2. Seen(st2, p, x)
          BY <4>1, SeenFromBelow
        <4> QED BY <1>11, <1>15, <4>2 DEF Seen
      <3>5. PICK h \in 1 .. x - 1 : Holds(stack, h, o) /\ Seen(stack, x, h)
        BY <1>1, <1>3, <1>4, <1>17, <3>1, <3>3, <3>4, LandingBacked
      <3>6. Holds(st2, h, o) /\ Seen(st2, x, h)
        BY <1>5, <1>11, <1>15, <3>5 DEF Holds, Seen
      <3> QED BY <3>6
    <2> QED BY <2>1, <2>2 DEF Fits
  <1>24. Fits(st2, p + 2, t)
    BY <1>5, <1>8, <1>15 DEF Fits, Placed, Thrown, PairOK, RethrownOK, Backed, About, Holds, Flies
  <1>25. \A q \in Len(cut) + 1 .. Len(st2) : q = p + 1 \/ q = p + 2
    BY <1>5, <1>11, <1>15
  <1>26. FlightOK(st2, t, l2)
    <2>1. \A y \in Len(cut) + 1 .. Len(st2) : Fits(st2, y, t)
      BY <1>23, <1>24, <1>25
    <2>2. t <= t
      OBVIOUS
    <2> QED BY <1>19, <1>21, <2>1, <2>2, PushedFlights
  <1>27. AliveOK(st2, alive, l2)
    <2>1. ASSUME NEW q \in Len(cut) + 1 .. Len(st2), NEW o \in ObjectNumbers, l2 \subseteq {o},
                 Flies(st2, q, o) \/ Holds(st2, q, o)
          PROVE  o \in alive
      <3>1. rec = o
        BY <1>8, <1>15, <1>25, <2>1 DEF Flies, Holds
      <3>2. Flies(stack, Top, o)
        BY <1>1, <1>2, <1>4, <3>1 DEF Flies
      <3>3. Top \in 1 .. Len(stack) /\ Seen(stack, Len(stack), Top)
        BY <1>2 DEF Seen
      <3>4. lost \subseteq {o} /\ AliveOK(stack, alive, lost)
        BY <1>14, <2>1 DEF ObjInv, ObjOK
      <3> QED BY <3>2, <3>3, <3>4 DEF AliveOK
    <2>2. alive \subseteq alive
      OBVIOUS
    <2> QED BY <1>18, <1>19, <1>21, <2>1, <2>2, PushedAlive, Zenon
  <1>28. /\ Len(ch2) = Len(chain) + 1 /\ ch2[1].obj = rec
         /\ \A j \in 1 .. Len(chain) : ch2[j + 1] = chain[j]
    <2>1. rest = chain
      <3>1. ASSUME chain # <<>> PROVE chain[1].pos < p + 1
        <4>1. 1 \in 1 .. Len(chain)
          BY <1>9, <3>1 DEF ChainFor
        <4>2. chain[1].pos \in HandlersIn(stack, p)
          BY <1>9, <4>1 DEF ChainFor
        <4> QED BY <1>5, <4>2 DEF HandlersIn
      <3> QED BY <1>13, <3>1
    <2>2. PICK S : chain \in Seq(S)
      BY <1>9 DEF ChainFor
    <2>3. PICK z : z = [pos |-> p + 1, obj |-> rec]
      BY Zenon
    <2> DEFINE T == S \cup {z}
    <2>4. chain \in Seq(T) /\ z \in T /\ z.obj = rec
      BY <2>2, <2>3
    <2> HIDE DEF T
    <2>5. ch2 = <<z>> \o chain
      BY <1>14, <2>1, <2>3
    <2> QED BY <2>4, <2>5
  <1>29. LeakOK(st2, ch2, alive, l2)
    <2> SUFFICES ASSUME NEW o \in alive, o \notin l2
                 PROVE  \/ \E j \in 1 .. Len(ch2) : ch2[j].obj = o
                        \/ \E q \in 1 .. Len(st2) : Flies(st2, q, o)
      BY DEF LeakOK
    <2>1. Len(chain) \in Nat
      BY <1>9 DEF ChainFor
    <2>2. CASE \E j \in 1 .. Len(chain) : chain[j].obj = o
      <3>1. PICK j \in 1 .. Len(chain) : chain[j].obj = o
        BY <2>2
      <3>2. j + 1 \in 1 .. Len(ch2) /\ ch2[j + 1].obj = o
        BY <1>28, <2>1, <3>1
      <3> QED BY <3>2
    <2>3. CASE \E q \in 1 .. p : Flies(cut, q, o)
      <3>1. PICK q \in 1 .. p : Flies(cut, q, o)
        BY <2>3
      <3>2. q \in 1 .. Len(cut) /\ q \in 1 .. Len(st2)
        BY <1>5, <1>11, <1>15
      <3>3. Flies(st2, q, o)
        BY <1>19, <1>21, <3>1, <3>2, PushedFlies
      <3> QED BY <3>2, <3>3
    <2>4. CASE Flies(stack, Top, o)
      <3>1. rec = o
        BY <1>1, <1>2, <1>3, <1>4, <1>17, <2>4 DEF Flies
      <3>2. 1 \in 1 .. Len(ch2)
        BY <1>28, <2>1
      <3> QED BY <1>28, <3>1, <3>2
    <2> QED BY <1>18, <2>2, <2>3, <2>4
  <1> QED BY <1>12, <1>14, <1>20, <1>26, <1>27, <1>29 DEF ObjInv, ObjOK

(* The frames that the __except of CxxCallCatchBlock leaves. *)
LEMMA RaisedAgain ==
    ASSUME EhInv, LandInCatchBlock, NEW p, p = Run.target
    PROVE  /\ Run.k = "unw" /\ p \in 1 .. Top - 1 /\ p > 1 /\ stack[p].k = "ccb"
           /\ Len(stack') = p + 1 /\ \A q \in 1 .. p - 1 : stack'[q] = stack[q]
           /\ stack'[p].k = "ccb" /\ stack'[p].rec = stack[p].rec
           /\ stack'[p].phase = "except" /\ stack'[p].rethrow
           /\ stack'[p + 1].k = "raise" /\ stack'[p + 1].rec = stack[p].rec /\ stack'[p + 1].at = p
  <1>1. FramesInv /\ Run.k = "unw" /\ stack[p].k = "ccb"
    BY DEF EhInv, LandInCatchBlock, RunIs
  <1>2. Top \in Nat /\ Top = Len(stack) /\ IsStack(stack) /\ p \in 1 .. Top - 1 /\ p \in 1 .. Top
        /\ \A q \in 1 .. Top : Own(stack[q])
    BY <1>1, UnwFacts, StackFacts
  <1>3. p > 1 /\ p \in Nat /\ p \in 0 .. Len(stack) /\ Own(stack[p])
    BY <1>1, <1>2, BelowCatchBlock
  <1>4. PICK cut : cut = SubSeq(stack, 1, p)
    BY Zenon
  <1>5. IsStack(cut) /\ Len(cut) = p /\ \A q \in 1 .. p : cut[q] = stack[q]
    BY <1>2, <1>3, <1>4, CutFrames
  <1>6. PICK c : c = Excepting(stack[p])
    OBVIOUS
  <1>7. c.k = "ccb" /\ c.phase = "except" /\ c.rec = stack[p].rec /\ c.rethrow
    <2>1. c.k = "ccb" /\ c.phase = "except" /\ c.rec = stack[p].rec
      BY <1>1, <1>3, <1>6, ExceptingOK
    <2>2. "rethrow" \in DOMAIN stack[p]
      BY <1>1, <1>3 DEF Own, OwnCcb, CcbFields
    <2> QED BY <1>6, <2>1, <2>2 DEF Excepting
  <1>8. PICK s : s = [cut EXCEPT ![p] = c]
    BY Zenon
  <1>9. IsStack(s) /\ Len(s) = p /\ s[p] = c /\ \A q \in 1 .. p : q # p => s[q] = stack[q]
    <2>1. p \in 1 .. Len(cut)
      BY <1>2, <1>5
    <2>2. Changed(cut, [cut EXCEPT ![p] = c], p, c)
      BY <1>5, <2>1, ChangeFrameTo
    <2>3. Changed(cut, s, p, c)
      BY <1>8, <2>2
    <2> QED BY <1>2, <1>5, <2>3 DEF Changed
  <1>10. PICK rec, want : rec = stack[p].rec /\ want = Expected(s, stack[p].rec)
    OBVIOUS
  <1>11. PICK r : r = Raise(rec, p, want)
    OBVIOUS
  <1>12. stack' = Append(s, r)
    <2>1. s = [SubSeq(stack, 1, p) EXCEPT ![p].phase = "except", ![p].rethrow = TRUE]
      <3>1. p \in DOMAIN cut /\ DOMAIN stack[p] = CcbFields /\ cut[p] = stack[p]
        BY <1>1, <1>2, <1>3, <1>5, StackDomain DEF Own, OwnCcb
      <3> QED BY <1>4, <1>6, <1>8, <3>1, Zenon DEF Excepting, CcbFields
    <2>2. stack' = Append(s, Raise(stack[p].rec, p, Expected(s, stack[p].rec)))
      BY <2>1, Zenon DEF LandInCatchBlock
    <2> QED BY <1>10, <1>11, <2>2, Zenon
  <1>13. /\ Len(stack') = p + 1 /\ stack'[p + 1] = r
         /\ \A q \in 1 .. p : stack'[q] = s[q]
    <2>1. /\ Len(Append(s, r)) = Len(s) + 1 /\ Append(s, r)[Len(s) + 1] = r
          /\ \A q \in 1 .. Len(s) : Append(s, r)[q] = s[q]
      BY <1>9, PushFrame
    <2> QED BY <1>9, <1>12, <2>1
  <1>14. stack'[p] = c /\ \A q \in 1 .. p - 1 : stack'[q] = stack[q]
    <2>1. p \in 1 .. p /\ \A q \in 1 .. p - 1 : q \in 1 .. p /\ q # p
      BY <1>3
    <2> QED BY <1>9, <1>13, <2>1
  <1>15. r.k = "raise" /\ r.rec = stack[p].rec /\ r.at = p
    BY <1>10, <1>11 DEF Raise
  <1> QED BY <1>1, <1>2, <1>3, <1>7, <1>13, <1>14, <1>15

LEMMA LandInCatchBlockObjects ==
    ASSUME EhInv, ObjInv, LandInCatchBlock
    PROVE  ObjInv'
  <1>1. FramesInv /\ TypesInv
    BY DEF EhInv
  <1>2. PICK p, st2, l2, rec : p = Run.target /\ st2 = stack' /\ l2 = lost' /\ rec = stack[p].rec
    OBVIOUS
  <1>3. /\ Run.k = "unw" /\ p \in 1 .. Top - 1 /\ p > 1 /\ stack[p].k = "ccb"
        /\ Len(st2) = p + 1 /\ \A q \in 1 .. p - 1 : st2[q] = stack[q]
    BY <1>2, RaisedAgain
  <1>4. /\ st2[p].k = "ccb" /\ st2[p].rec = rec /\ st2[p].phase = "except" /\ st2[p].rethrow
        /\ st2[p + 1].k = "raise" /\ st2[p + 1].rec = rec /\ st2[p + 1].at = p
    BY <1>2, RaisedAgain
  <1>5. UNCHANGED <<chain, thrown, alive>> /\ l2 = lost \cup Replaced(Run.target)
    BY <1>2, Zenon DEF LandInCatchBlock
  <1>6. Top \in Nat /\ Top = Len(stack) /\ IsStack(stack) /\ Run = stack[Top]
    BY <1>1, StackFacts DEF Run
  <1>7. PICK m \in Nat : m = p - 1
    BY <1>3
  <1>8. m \in 1 .. Top /\ m \in 0 .. Len(stack) /\ p \in 1 .. Top /\ p = m + 1
    BY <1>3, <1>6, <1>7
  <1>9. PICK cut : cut = SubSeq(stack, 1, m)
    BY Zenon
  <1>10. IsStack(cut) /\ Len(cut) = m /\ \A q \in 1 .. m : cut[q] = stack[q]
    BY <1>6, <1>8, <1>9, CutFrames
  <1>11. Alikes(stack, cut, m) /\ SameFlags(stack, cut, m)
    BY <1>10 DEF Alikes, Alike, SameFlags
  <1>12. m \in {Run.target - 1, Run.target} /\ (m = Run.target <=> stack[Run.target].k # "ccb")
    BY <1>2, <1>3, <1>7
  <1>13. /\ Cut(stack, cut, m) /\ FlightOK(cut, Len(thrown), l2) /\ AliveOK(cut, alive, l2)
         /\ \A o \in alive :
                \/ o \in l2
                \/ \E j \in 1 .. Len(chain) : chain[j].obj = o
                \/ \E q \in 1 .. m : Flies(cut, q, o)
                \/ Flies(stack, Top, o)
    BY <1>1, <1>3, <1>5, <1>8, <1>10, <1>11, <1>12, Landed, Zenon
  <1>14. FlightOK(stack, Len(thrown), lost) /\ AliveOK(stack, alive, lost)
    BY DEF ObjInv, ObjOK
  <1>15. PICK t \in Int : t = Len(thrown)
    BY <1>1, AliveObjects, Zenon
  <1>16. FlightOK(cut, t, l2) /\ \A y \in 1 .. Len(cut) : Fits(cut, y, t)
    BY <1>13, <1>15 DEF FlightOK
  <1>17. Fits(stack, p, t)
    BY <1>1, <1>8, <1>14, <1>15, FlightFacts
  <1>18. \A q \in Len(cut) + 1 .. Len(st2) : q = p \/ q = p + 1
    BY <1>3, <1>8, <1>10
  <1>19. Pushed(cut, st2)
    <2>1. Alikes(cut, st2, m) /\ SameFlags(cut, st2, m)
      BY <1>3, <1>8, <1>10 DEF Alikes, Alike, SameFlags
    <2>2. Witness(st2, p, p + 1) /\ p + 1 \in p + 1 .. Len(st2)
      BY <1>3, <1>4, <1>8 DEF Witness
    <2>3. ASSUME NEW q \in Len(cut) + 1 .. Len(st2)
          PROVE  /\ st2[q].k \in {"raise", "unw"} => st2[q].at = q - 1
                 /\ st2[q].k = "ccb" =>
                     /\ st2[q].phase = "except" => st2[q].rethrow
                     /\ st2[q].rethrow => \E w \in q + 1 .. Len(st2) : Witness(st2, q, w)
      <3>1. CASE q = p
        BY <1>4, <2>2, <3>1
      <3>2. CASE q = p + 1
        BY <1>4, <1>8, <3>2
      <3> QED BY <1>18, <3>1, <3>2
    <2>4. Len(cut) \in Nat /\ Len(st2) \in Nat /\ Len(st2) >= Len(cut)
      BY <1>3, <1>8, <1>10
    <2> QED BY <1>10, <2>1, <2>3, <2>4 DEF Pushed
  <1>20. ASSUME NEW o \in ObjectNumbers, rec = o, NEW x \in 1 .. m, Flies(st2, x, o), Seen(st2, p, x)
         PROVE  \E h \in 1 .. x - 1 : Holds(st2, h, o) /\ Seen(st2, x, h)
    <2>1. x \in 1 .. Len(cut) /\ Flies(cut, x, o)
      BY <1>10, <1>16, <1>19, <1>20, PushedFlies
    <2>2. Flies(stack, x, o)
      BY <1>13, <1>14, <2>1, CutFlies, Zenon DEF FlightOK
    <2>3. Seen(stack, p, x)
      BY <1>3, <1>4, <1>8, <1>20 DEF Seen
    <2>4. About(stack, p, x, o) /\ x \in 1 .. p - 1
      BY <1>2, <1>3, <1>8, <1>20 DEF About, Holds
    <2>5. PICK h \in 1 .. x - 1 : Holds(stack, h, o) /\ Seen(stack, x, h)
      BY <1>17, <2>2, <2>3, <2>4 DEF Fits, Backed
    <2>6. Holds(st2, h, o) /\ Seen(st2, x, h)
      BY <1>3, <1>8, <2>5 DEF Holds, Seen
    <2> QED BY <2>6
  <1>21. Fits(st2, p, t)
    <2>1. Placed(st2, p) /\ Thrown(st2, p, t) /\ PairOK(st2, p) /\ RethrownOK(st2, p)
      BY <1>2, <1>3, <1>4, <1>17 DEF Fits, Placed, Thrown, PairOK, RethrownOK
    <2>2. Backed(st2, p)
      <3> SUFFICES ASSUME NEW o \in ObjectNumbers, NEW x \in 1 .. p - 1, Flies(st2, x, o), Seen(st2, p, x),
                          About(st2, p, x, o)
                   PROVE  \E h \in 1 .. x - 1 : Holds(st2, h, o) /\ Seen(st2, x, h)
        BY DEF Backed
      <3>1. rec = o /\ x \in 1 .. m
        BY <1>4, <1>7 DEF About, Holds, Flies
      <3> QED BY <1>20, <3>1
    <2> QED BY <2>1, <2>2 DEF Fits
  <1>22. Fits(st2, p + 1, t)
    <2>1. Placed(st2, p + 1) /\ Thrown(st2, p + 1, t) /\ PairOK(st2, p + 1) /\ RethrownOK(st2, p + 1)
      BY <1>2, <1>3, <1>4, <1>8, <1>17 DEF Fits, Placed, Thrown, PairOK, RethrownOK
    <2>2. Backed(st2, p + 1)
      <3> SUFFICES ASSUME NEW o \in ObjectNumbers, NEW x \in 1 .. p, Flies(st2, x, o), Seen(st2, p + 1, x),
                          About(st2, p + 1, x, o)
                   PROVE  \E h \in 1 .. x - 1 : Holds(st2, h, o) /\ Seen(st2, x, h)
        BY <1>8 DEF Backed
      <3>1. rec = o
        BY <1>4 DEF About, Holds, Flies
      <3>2. x \in 1 .. m
        <4>1. x # p
          BY <1>4 DEF Flies
        <4> QED BY <1>8, <4>1
      <3>3. Seen(st2, p, x)
        <4>1. p \in 0 .. p + 1 /\ p + 1 \in Nat
          BY <1>8
        <4> QED BY <4>1, SeenFromBelow
      <3> QED BY <1>20, <3>1, <3>2, <3>3
    <2> QED BY <2>1, <2>2 DEF Fits
  <1>23. FlightOK(st2, t, l2)
    <2>1. \A y \in Len(cut) + 1 .. Len(st2) : Fits(st2, y, t)
      BY <1>18, <1>21, <1>22
    <2>2. t <= t
      OBVIOUS
    <2> QED BY <1>16, <1>19, <2>1, <2>2, PushedFlights
  <1>24. AliveOK(st2, alive, l2)
    <2>1. ASSUME NEW q \in Len(cut) + 1 .. Len(st2), NEW o \in ObjectNumbers, l2 \subseteq {o},
                 Flies(st2, q, o) \/ Holds(st2, q, o)
          PROVE  o \in alive
      <3>1. rec = o
        BY <1>4, <1>18, <2>1 DEF Flies, Holds
      <3>2. Holds(stack, p, o)
        BY <1>2, <1>3, <3>1 DEF Holds
      <3>3. Seen(stack, Top, p)
        <4>1. p \in {Run.target - 1, Run.target} /\ p \in 1 .. p /\ ~(p = Run.target - 1)
          BY <1>2, <1>3
        <4>2. p \in Nat /\ Seen(stack, p, p)
          BY <1>8, SeenItself
        <4> QED BY <1>1, <1>3, <1>14, <4>1, <4>2, TargetSees
      <3>4. lost \subseteq {o} /\ p \in 1 .. Len(stack)
        BY <1>5, <1>6, <1>8, <2>1
      <3> QED BY <1>6, <1>14, <3>2, <3>3, <3>4 DEF AliveOK
    <2>2. alive \subseteq alive
      OBVIOUS
    <2> QED BY <1>13, <1>16, <1>19, <2>1, <2>2, PushedAlive, Zenon
  <1>25. LeakOK(st2, chain, alive, l2)
    <2> SUFFICES ASSUME NEW o \in alive, o \notin l2, ~\E j \in 1 .. Len(chain) : chain[j].obj = o
                 PROVE  \E q \in 1 .. Len(st2) : Flies(st2, q, o)
      BY DEF LeakOK
    <2>1. CASE \E q \in 1 .. m : Flies(cut, q, o)
      <3>1. PICK q \in 1 .. m : Flies(cut, q, o)
        BY <2>1
      <3>2. q \in 1 .. Len(cut) /\ q \in 1 .. Len(st2)
        BY <1>3, <1>8, <1>10
      <3>3. Flies(st2, q, o)
        BY <1>16, <1>19, <3>1, <3>2, PushedFlies, Zenon
      <3> QED BY <3>2, <3>3
    <2>2. CASE Flies(stack, Top, o)
      <3>1. Run.rec = Rethrown
        BY <1>1, <1>2, <1>3, <1>14, UnwindPair
      <3>2. o # Rethrown
        BY <1>1, AliveObjects
      <3>3. rec = o
        BY <1>2, <1>6, <2>2, <3>1, <3>2 DEF Flies
      <3>4. Flies(st2, p + 1, o) /\ p + 1 \in 1 .. Len(st2)
        BY <1>3, <1>4, <1>8, <3>3 DEF Flies
      <3> QED BY <3>4
    <2> QED BY <1>13, <2>1, <2>2
  <1> QED BY <1>2, <1>5, <1>15, <1>23, <1>24, <1>25 DEF ObjInv, ObjOK

-----------------------------------------------------------------------------
(* The invariant holds initially and is kept by every step. *)

LEMMA InitObjects ==
    ASSUME Init, EhInv
    PROVE  ObjInv
  <1>1. /\ chain = <<>> /\ thrown = <<>> /\ alive = {} /\ lost = {} /\ stack = <<Fn("main")>>
    BY DEF Init
  <1>2. PICK st : st = stack
    OBVIOUS
  <1>3. Len(st) = 1 /\ st[1].k = "fn"
    <2>1. PICK fr : fr = Fn("main")
      OBVIOUS
    <2>2. fr.k = "fn" /\ st = <<fr>>
      BY <1>1, <1>2, <2>1, EhAssumption, EnteredFrame
    <2> QED BY <2>2
  <1>4. \A y \in 1 .. Len(st) : y = 1
    BY <1>3
  <1>5. \A y \in 1 .. Len(st) : Fits(st, y, Len(thrown))
    BY <1>3, <1>4 DEF Fits, Placed, Thrown, PairOK, RethrownOK, Backed
  <1>6. Excepted(st) /\ Flagged(st, lost) /\ Passed(st, lost)
    BY <1>3, <1>4 DEF Excepted, Flagged, Passed
  <1>7. AliveOK(st, alive, lost)
    BY <1>3, <1>4 DEF AliveOK, Flies, Holds
  <1>8. LeakOK(st, chain, alive, lost)
    BY <1>1 DEF LeakOK
  <1> QED BY <1>2, <1>3, <1>5, <1>6, <1>7, <1>8 DEF ObjInv, ObjOK, FlightOK

LEMMA StillObjects ==
    ASSUME ObjInv, UNCHANGED vars
    PROVE  ObjInv'
  <1>1. UNCHANGED <<stack, chain, thrown, alive, lost>>
    BY DEF vars, runtime, ghost
  <1> QED BY <1>1 DEF ObjInv

LEMMA NextObjects ==
    ASSUME EhInv, ObjInv, [Next]_vars
    PROVE  ObjInv'
  <1>1. CASE Program
    BY <1>1, EnterScopeObjects, LeaveScopeObjects, CallObjects, ReturnObjects, ThrowObjects,
       RethrowObjects, FaultObjects, CatchDoneObjects DEF Program
  <1>2. CASE Search
    BY <1>2, SearchCxxObjects, CatchObjectBuiltObjects, SearchSehObjects, SearchCatchBlockObjects,
       SearchDispatcherObjects, SearchUnwindObjects, SearchFailsObjects DEF Search
  <1>3. CASE Unwind
    BY <1>3, UnwindCxxObjects, UnwindStateObjects, FrameUnwoundObjects, UnwindCatchBlockObjects,
       UnwindOtherObjects, UnwindUnwindObjects, LandInHandlerObjects, LandInCatchBlockObjects,
       LandInSehObjects, LandInBuildObjects
    DEF Unwind
  <1>4. CASE UNCHANGED vars
    BY <1>4, StillObjects
  <1> QED BY <1>1, <1>2, <1>3, <1>4 DEF Next, Stopped

(* Why an exception object lives as long as it is needed: the flag rethrow is set in
   every handler that a search for its object has gone past, an object that is thrown
   again is held by a handler further down, and a handler with the flag set has its
   object in flight above it. *)
THEOREM ObjectsAreRight == Spec => [](EhInv /\ ObjInv)
  <1>1. Init => EhInv /\ ObjInv
    BY InitHolds, InitObjects
  <1>2. EhInv /\ ObjInv /\ [Next]_vars => (EhInv /\ ObjInv)'
    BY NextHolds, NextObjects
  <1> QED BY <1>1, <1>2, PTL DEF Spec

LEMMA InFlightFlies ==
    ASSUME FramesInv, FlightOK(stack, Len(thrown), lost), NEW q \in 1 .. Top,
           stack[q].k \in {"raise", "unw"}, NEW o, IsObject(o)
    PROVE  InFlight(stack[q]) = o <=> Flies(stack, q, o)
  <1>1. Top \in Nat /\ Placed(stack, q)
    BY StackFacts, FlightFacts
  <1>2. o # Rethrown
    BY DEF IsObject, Rethrown
  <1>3. stack[q].k = "unw" => stack[q].target < Top /\ stack[q].k # "raise"
    BY <1>1 DEF Placed
  <1> QED BY <1>2, <1>3 DEF InFlight, Flies

(* The destructor of an exception object runs neither while the exception is in flight
   or handled (_IsExceptionObjectToBeDestroyed and the flag rethrow of CxxCallCatchBlock
   prevent it) nor is it forgotten, unless another exception has replaced the exception
   in flight. *)
THEOREM ExceptionObjectsExist == Spec => []ObjectsExist
  <1>1. EhInv /\ ObjInv => ObjectsExist
    <2> SUFFICES ASSUME EhInv, ObjInv PROVE ObjectsExist
      OBVIOUS
    <2>1. FramesInv /\ TypesInv /\ IsStack(stack) /\ Top = Len(stack) /\ Top \in Nat
      BY StackFacts DEF EhInv
    <2>2. FlightOK(stack, Len(thrown), lost) /\ AliveOK(stack, alive, lost)
          /\ LeakOK(stack, chain, alive, lost)
      BY DEF ObjInv, ObjOK
    <2>3. \A p \in 1 .. Top : Visible(stack, p) <=> Seen(stack, Top, p)
      BY <2>1, VisibleIsSeen
    <2>4. ChainFor(chain, stack, Top)
      BY <2>1 DEF FramesInv, ChainOK
    <2>5. DOMAIN chain = 1 .. Len(chain)
      BY <2>4 DEF ChainFor
    <2>6. Handled = {chain[i].obj : i \in 1 .. Len(chain)}
      BY <2>5 DEF Handled, Range
    <2>7. ASSUME NEW o \in Flying({p \in 1 .. Top : Visible(stack, p)}) \cup Handled,
                 IsObject(o), lost \subseteq {o}
          PROVE  o \in alive
      <3>1. ASSUME NEW q \in 1 .. Top, Seen(stack, Top, q), Flies(stack, q, o) \/ Holds(stack, q, o)
            PROVE  o \in alive
        <4>1. o \in ObjectNumbers
          <5>1. o \in Records
            <6>1. \A p \in 1 .. Top : Placed(stack, p)
              BY <2>1, <2>2, FlightFacts
            <6>2. CASE stack[q].rec = o
              BY <3>1, <6>1, <6>2 DEF Placed, Flies, Holds
            <6>3. CASE stack[q].rec # o
              <7>1. stack[q].k = "unw" /\ stack[stack[q].target].k = "ccb"
                    /\ stack[stack[q].target].rec = o
                BY <3>1, <6>3 DEF Flies, Holds
              <7>2. stack[q].target \in 1 .. Top
                BY <2>1, <6>1, <7>1 DEF Placed
              <7> QED BY <6>1, <7>1, <7>2 DEF Placed
            <6> QED BY <6>2, <6>3
          <5> QED BY <2>7, <5>1, EhAssumption
              DEF Records, ObjectNumbers, IsObject, NoRecord, Foreign, Rethrown
        <4> QED BY <2>1, <2>2, <2>7, <3>1, <4>1 DEF AliveOK
      <3>2. CASE o \in Handled
        <4>1. PICK i \in 1 .. Len(chain) : chain[i].obj = o
          BY <2>6, <3>2
        <4>2. chain[i].pos \in HandlersIn(stack, Top) /\ stack[chain[i].pos].rec = o
          BY <2>4, <4>1 DEF ChainFor
        <4> QED BY <3>1, <4>2 DEF HandlersIn, Holds
      <3>3. CASE o \in Flying({p \in 1 .. Top : Visible(stack, p)})
        <4>1. PICK q \in 1 .. Top : /\ Visible(stack, q) /\ stack[q].k \in {"raise", "unw"}
                                    /\ InFlight(stack[q]) = o
          BY <3>3 DEF Flying
        <4>2. Flies(stack, q, o)
          BY <2>1, <2>2, <2>7, <4>1, InFlightFlies
        <4> QED BY <2>3, <3>1, <4>1, <4>2
      <3> QED BY <2>7, <3>2, <3>3
    <2>8. ASSUME NEW o \in alive, o \notin lost, o \notin Handled
          PROVE  o \in Flying(1 .. Top)
      <3>1. IsObject(o)
        BY <2>1, AliveObjects
      <3>2. PICK q \in 1 .. Len(stack) : Flies(stack, q, o)
        BY <2>2, <2>6, <2>8 DEF LeakOK
      <3>3. q \in 1 .. Top /\ stack[q].k \in {"raise", "unw"}
        BY <2>1, <3>2 DEF Flies
      <3>4. InFlight(stack[q]) = o
        BY <2>1, <2>2, <3>1, <3>2, <3>3, InFlightFlies
      <3> QED BY <3>3, <3>4 DEF Flying
    <2> QED BY <2>7, <2>8, Zenon DEF ObjectsExist
  <1> QED BY <1>1, ObjectsAreRight, PTL

-----------------------------------------------------------------------------
(* Handlers nest *)

HandledIn(ch) == [i \in DOMAIN ch |-> ch[i].obj]

Handling == INSTANCE CxxScopes WITH live <- <<>>, handled <- HandledIn(chain), thrown <- Len(thrown)

(* CxxScopes without the objects on the stack: exceptions are thrown one at a time,
   handlers are entered for objects that exist and left in the reverse order, and an
   object goes, once, when the last handler of it is left. *)
HandlersNest == Handling!Init /\ [][Handling!Next(FALSE, FALSE, lost)]_(Handling!vars)

LEMMA HandlingIdle ==
    ASSUME UNCHANGED <<chain, thrown, alive>>
    PROVE  UNCHANGED Handling!vars
  BY DEF Handling!vars, HandledIn

LEMMA HandlingThrow ==
    ASSUME EhInv, Throw
    PROVE  Handling!Throw
  <1>1. PICK type \in DOMAIN Catchable : thrown' = Append(thrown, type)
    BY DEF Throw
  <1>2. thrown \in Seq(DOMAIN Catchable)
    BY DEF EhInv, TypesInv
  <1>3. Len(thrown') = Len(thrown) + 1
    BY <1>1, <1>2
  <1>4. alive' = alive \cup {Len(thrown')} /\ chain' = chain
    BY DEF Throw, runtime
  <1> QED BY <1>3, <1>4 DEF Handling!Throw, HandledIn

LEMMA HandlingEnter ==
    ASSUME EhInv, ObjInv, LandInHandler
    PROVE  Handling!Handle(lost)
  <1>1. FramesInv /\ TypesInv /\ Run.k = "unw" /\ Run.phase = "land"
    BY DEF EhInv, LandInHandler, RunIs
  <1>2. Top \in Nat /\ Top > 0 /\ Top = Len(stack) /\ Run = stack[Top] /\ Run.target \in Nat
        /\ Run.rec \in Records /\ Run.at = Run.target
    BY <1>1, UnwFacts, StackFacts DEF DownUnw, Run
  <1>3. PICK p, rec : p = Run.target /\ rec = Run.rec
    OBVIOUS
  <1>4. ChainFor(chain, stack, p)
    BY <1>1, <1>2, <1>3, UnwindNow
  <1>5. PICK z, rest : z = [pos |-> p + 1, obj |-> rec]
                       /\ rest = IF chain # <<>> /\ chain[1].pos < p + 1 THEN chain ELSE <<>>
    BY Zenon
  <1>6. chain' = <<z>> \o rest /\ UNCHANGED <<thrown, alive>>
    BY <1>3, <1>5, Zenon DEF LandInHandler
  <1>7. rest = chain
    <2>1. ASSUME chain # <<>> PROVE chain[1].pos < p + 1
      <3>1. 1 \in 1 .. Len(chain)
        BY <1>4, <2>1 DEF ChainFor
      <3>2. chain[1].pos \in HandlersIn(stack, p)
        BY <1>4, <3>1 DEF ChainFor
      <3> QED BY <1>2, <1>3, <3>2 DEF HandlersIn
    <2> QED BY <1>5, <2>1
  <1>8. PICK S : chain \in Seq(S) /\ z \in S
    <2>1. PICK S : chain \in Seq(S)
      BY <1>4 DEF ChainFor
    <2>2. chain \in Seq(S \cup {z}) /\ z \in S \cup {z}
      BY <2>1
    <2> QED BY <2>2
  <1>9. PICK ch2 : ch2 = chain'
    OBVIOUS
  <1>10. /\ Len(chain) \in Nat /\ DOMAIN chain = 1 .. Len(chain) /\ DOMAIN ch2 = 1 .. Len(chain) + 1
         /\ ch2[1] = z /\ \A i \in 1 .. Len(chain) : ch2[i + 1] = chain[i]
    BY <1>6, <1>7, <1>8, <1>9
  <1>11. PICK h, h2 : h = HandledIn(chain) /\ h2 = HandledIn(ch2)
    OBVIOUS
  <1>12. /\ h \in Seq({h[i] : i \in DOMAIN h}) /\ Len(h) = Len(chain) /\ DOMAIN h = 1 .. Len(chain)
         /\ \A i \in 1 .. Len(chain) : h[i] = chain[i].obj
    BY <1>10, <1>11 DEF HandledIn
  <1>13. /\ Len(h2) = Len(chain) + 1 /\ DOMAIN h2 = 1 .. Len(chain) + 1
         /\ h2[1] = rec /\ \A i \in 1 .. Len(chain) : h2[i + 1] = h[i]
    BY <1>5, <1>10, <1>11, <1>12 DEF HandledIn
  <1>14. h2 # <<>> /\ Tail(h2) = h /\ Head(h2) = rec
    BY <1>10, <1>12, <1>13
  <1>15. ASSUME rec > 0, lost \subseteq {rec} PROVE rec \in alive
    <2>1. rec \in ObjectNumbers
      BY <1>2, <1>3, <1>15, EhAssumption DEF Records, ObjectNumbers, NoRecord, Foreign, Rethrown
    <2>2. Flies(stack, Top, rec) /\ Top \in 1 .. Len(stack) /\ Seen(stack, Len(stack), Top)
      BY <1>1, <1>2, <1>3, SeenItself DEF Flies
    <2> QED BY <1>15, <2>1, <2>2 DEF ObjInv, ObjOK, AliveOK
  <1> QED BY <1>6, <1>9, <1>11, <1>14, <1>15, Zenon DEF Handling!Handle

LEMMA HandlingLeave ==
    ASSUME NEW n \in Nat, NEW p \in Nat, p > 0, ChainFor(chain, stack, n),
           HandlersIn(stack, n) = HandlersIn(stack, p - 1) \cup {p},
           LeaveCatchBlock(p), UNCHANGED thrown
    PROVE  Handling!Leave
  <1>1. PICK ch2 : ch2 = chain'
    OBVIOUS
  <1>2. ch2 = Unlinked(p)
    BY <1>1 DEF LeaveCatchBlock
  <1>3. /\ Len(chain) \in Nat /\ Len(chain) > 0 /\ chain[1].pos = p
        /\ ch2 \in Seq([pos : Nat, obj : Records]) /\ Len(ch2) = Len(chain) - 1
        /\ \A j \in 1 .. Len(chain) - 1 : ch2[j] = chain[j + 1]
    BY <1>2, UnlinkedIsRest, Zenon
  <1>4. chain \in Seq([pos : Nat, obj : Records]) /\ chain[1].obj = stack[p].rec
    BY <1>3 DEF ChainFor
  <1>5. DOMAIN chain = 1 .. Len(chain) /\ DOMAIN ch2 = 1 .. Len(chain) - 1
    BY <1>3, <1>4
  <1>6. PICK h, h2, o : h = HandledIn(chain) /\ h2 = HandledIn(ch2) /\ o = stack[p].rec
    OBVIOUS
  <1>7. /\ Len(h) = Len(chain) /\ DOMAIN h = 1 .. Len(chain) /\ h[1] = o
        /\ \A i \in 1 .. Len(chain) : h[i] = chain[i].obj
    BY <1>3, <1>4, <1>5, <1>6 DEF HandledIn
  <1>8. /\ Len(h2) = Len(chain) - 1 /\ DOMAIN h2 = 1 .. Len(chain) - 1
        /\ \A i \in 1 .. Len(chain) - 1 : h2[i] = h[i + 1] /\ h2[i] = ch2[i].obj
    BY <1>3, <1>5, <1>6, <1>7 DEF HandledIn
  <1>9. h # <<>> /\ h2 = Tail(h) /\ Head(h) = o
    BY <1>3, <1>6, <1>7, <1>8 DEF HandledIn
  <1>10. (\E x \in Range(ch2) : x.obj = o) <=> o \in {h2[i] : i \in DOMAIN h2}
    BY <1>5, <1>8 DEF Range
  <1>11. alive' = IF ~stack[p].rethrow /\ IsObject(o) /\ ~\E x \in Range(ch2) : x.obj = o
                  THEN alive \ {o} ELSE alive
    BY <1>2, <1>6, Zenon DEF LeaveCatchBlock
  <1>12. \/ alive' = alive
         \/ o \notin {h2[i] : i \in DOMAIN h2} /\ o \in alive /\ alive' = alive \ {o}
    <2>1. CASE o \in alive
      BY <1>10, <1>11, <2>1
    <2>2. CASE o \notin alive
      BY <1>11, <2>2
    <2> QED BY <2>1, <2>2
  <1> QED BY <1>1, <1>6, <1>9, <1>12 DEF Handling!Leave

LEMMA CatchDoneLeaves ==
    ASSUME EhInv, CatchDone
    PROVE  Handling!Leave
  <1>1. FramesInv /\ Run.k = "catch" /\ Top > 2 /\ stack[Top - 1].k = "ccb"
    BY CatchDoneCut DEF EhInv
  <1>2. Top \in Nat /\ Top = Len(stack) /\ stack[Top].k = "catch"
    BY <1>1, StackFacts DEF Run
  <1>3. PICK p \in Nat : p = Top - 1
    BY <1>1, <1>2
  <1>4. p > 0 /\ stack[p].k = "ccb"
    BY <1>1, <1>2, <1>3
  <1>5. ChainFor(chain, stack, Top)
    BY <1>1, <1>2 DEF FramesInv, ChainOK
  <1>6. HandlersIn(stack, Top) = HandlersIn(stack, p - 1) \cup {p}
    <2>1. HandlersIn(stack, Top) = HandlersIn(stack, Top - 1)
      BY <1>1, <1>2, HandlersBelow
    <2>2. HandlersIn(stack, p) = HandlersIn(stack, p - 1) \cup {p}
      BY <1>4, HandlersBelow
    <2> QED BY <1>3, <2>1, <2>2
  <1>7. LeaveCatchBlock(p) /\ UNCHANGED thrown
    BY <1>3 DEF CatchDone
  <1> QED BY <1>2, <1>4, <1>5, <1>6, <1>7, HandlingLeave

LEMMA UnwindCatchBlockLeaves ==
    ASSUME EhInv, UnwindCatchBlock
    PROVE  Handling!Leave
  <1>1. FramesInv /\ Run.k = "unw" /\ stack[Run.at].k = "ccb"
    BY DEF EhInv, UnwindCatchBlock, RunIs
  <1>2. PICK p : p = Run.at
    OBVIOUS
  <1>3. p \in Nat /\ p > 0 /\ stack[p].k = "ccb"
    BY <1>1, <1>2, UnwFacts
  <1>4. ChainFor(chain, stack, p)
    BY <1>1, <1>2, UnwindNow
  <1>5. HandlersIn(stack, p) = HandlersIn(stack, p - 1) \cup {p}
    BY <1>3, HandlersBelow
  <1>6. LeaveCatchBlock(p) /\ UNCHANGED thrown
    BY <1>2 DEF UnwindCatchBlock
  <1> QED BY <1>3, <1>4, <1>5, <1>6, HandlingLeave

(* Only a throw, the start of a handler and the end of one touch what is handled. *)
LEMMA HandlingStep ==
    ASSUME EhInv, ObjInv, [Next]_vars
    PROVE  [Handling!Next(FALSE, FALSE, lost)]_(Handling!vars)
  <1>1. ASSUME Throw PROVE Handling!Next(FALSE, FALSE, lost)
    BY <1>1, HandlingThrow DEF Handling!Next
  <1>2. ASSUME LandInHandler PROVE Handling!Next(FALSE, FALSE, lost)
    BY <1>2, HandlingEnter DEF Handling!Next
  <1>3. ASSUME CatchDone \/ UnwindCatchBlock PROVE Handling!Next(FALSE, FALSE, lost)
    BY <1>3, CatchDoneLeaves, UnwindCatchBlockLeaves DEF Handling!Next
  <1>4. ASSUME Program, ~Throw, ~CatchDone PROVE UNCHANGED <<chain, thrown, alive>>
    BY <1>4 DEF Program, EnterScope, LeaveScope, Call, Return, Rethrow, Fault, runtime, ghost
  <1>5. ASSUME Search PROVE UNCHANGED <<chain, thrown, alive>>
    BY <1>5 DEF Search, SearchCxx, CatchObjectBuilt, SearchSeh, SearchCatchBlock, SearchDispatcher,
        SearchUnwind, SearchFails, Halted, runtime, ghost
  <1>6. ASSUME Unwind, ~LandInHandler, ~UnwindCatchBlock PROVE UNCHANGED <<chain, thrown, alive>>
    BY <1>6, Zenon DEF Unwind, UnwindCxx, UnwindState, FrameUnwound, UnwindOther, UnwindUnwind,
        LandInCatchBlock, LandInSeh, LandInBuild, Halted, runtime, ghost
  <1>7. ASSUME UNCHANGED vars PROVE UNCHANGED <<chain, thrown, alive>>
    BY <1>7 DEF vars, runtime, ghost
  <1>8. ASSUME UNCHANGED <<chain, thrown, alive>> PROVE UNCHANGED Handling!vars
    BY <1>8, HandlingIdle
  <1> QED BY <1>1, <1>2, <1>3, <1>4, <1>5, <1>6, <1>7, <1>8, Zenon DEF Next, Stopped

LEMMA HandlingInit ==
    ASSUME Init
    PROVE  Handling!Init
  <1>1. chain = <<>> /\ alive = {} /\ thrown = <<>>
    BY DEF Init
  <1>2. HandledIn(chain) = <<>> /\ Len(thrown) = 0
    BY <1>1 DEF HandledIn
  <1> QED BY <1>1, <1>2 DEF Handling!Init

(* Handlers nest as C++ has it, also when FH3 states are out of date: no handler is
   entered for an object that is gone, none is left but the innermost, and no object
   is destroyed twice or while another handler has it. *)
THEOREM HandlersAreNested == Spec => HandlersNest
  <1>1. Init => Handling!Init
    BY HandlingInit
  <1>2. EhInv /\ ObjInv /\ [Next]_vars => [Handling!Next(FALSE, FALSE, lost)]_(Handling!vars)
    BY HandlingStep, Zenon
  <1> QED BY <1>1, <1>2, ObjectsAreRight, PTL DEF Spec, HandlersNest
=============================================================================
