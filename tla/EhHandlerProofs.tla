-------------------------- MODULE EhHandlerProofs --------------------------
(***************************************************************************)
(* The handler that FH4 runs is the one the text of the program selected,  *)
(* for every program, any number of exceptions and any depth of calls, as  *)
(* long as no search has taken a state that was out of date (stale).       *)
(*                                                                         *)
(* The invariant HandInv compares a search with Want, what the text of the *)
(* program selected when the exception was thrown: no frame that the       *)
(* search has gone past could have ended it (GoneDown), so Want is still   *)
(* below, and the frame handler's search through the try block map of one  *)
(* frame finds the innermost of the try blocks around its state that take  *)
(* the exception.                                                          *)
(*                                                                         *)
(* The last part shows that FH4 implements CxxScopes.                      *)
(***************************************************************************)
EXTENDS EhStateProofs

-----------------------------------------------------------------------------
(* The innermost try block *)

(* A state of a function outside of its catch blocks, or of a catch block outside of
   those that come later in the table, hence outside of those inside of it. *)
PlainState(fr, s) ==
    \A i \in DOMAIN Tries(fr.f) : InCatch(Try(fr.f, i), s) => fr.k = "catch" /\ i <= fr.try

LEMMA TryNumbers ==
    ASSUME NEW f \in DOMAIN Prog, NEW i \in DOMAIN Tries(f)
    PROVE  /\ Try(f, i).low \in Nat /\ Try(f, i).high \in Nat /\ Try(f, i).catchHigh \in Nat
           /\ Try(f, i).low <= Try(f, i).high /\ Try(f, i).high < Try(f, i).catchHigh
           /\ Outside(f, i) \in Int /\ Outside(f, i) < Try(f, i).low
           /\ i \in Nat
  <1>1. Outside(f, i) \in StatesOf(f) /\ Outside(f, i) < Try(f, i).low
    BY TryStates
  <1>2. i \in Nat
    BY TablesAssumption DEF TryBlockMapOK, IsSequence, Tries
  <1> QED BY <1>1, <1>2, TryStates, StatesFacts

LEMMA TwoTries ==
    ASSUME NEW f \in DOMAIN Prog, NEW i \in DOMAIN Tries(f), NEW j \in DOMAIN Tries(f), i # j
    PROVE  /\ Nested(Try(f, i), Try(f, j))
           /\ Try(f, i).low # Try(f, j).low
           /\ Try(f, i).low # Try(f, j).high + 1
           /\ \A s \in DOMAIN Prog[f].unwind :
                  i <= j /\ InTry(Try(f, i), s) /\ InTry(Try(f, j), s) => Try(f, j).low <= Try(f, i).low
  <1>1. /\ Nested(Try(f, i), Try(f, j)) /\ Try(f, i).low # Try(f, j).high + 1
        /\ i <= j => TryInside(f, Try(f, i), Try(f, j))
    BY TablesAssumption DEF TryBlockMapOK
  <1>2. Try(f, i).low # Try(f, j).low
    BY <1>1, TryNumbers DEF Nested, Inside
  <1> QED BY <1>1, <1>2 DEF TryInside

(* A try block in a catch block lies there with all of its states. *)
LEMMA TryInCatch ==
    ASSUME NEW f \in DOMAIN Prog, NEW i \in DOMAIN Tries(f), NEW j \in DOMAIN Tries(f),
           NEW s \in Int, InTry(Try(f, i), s), InCatch(Try(f, j), Try(f, i).low)
    PROVE  InCatch(Try(f, j), s)
  <1>1. i # j
    BY TryNumbers DEF InCatch
  <1>2. Nested(Try(f, i), Try(f, j))
    BY <1>1, TwoTries
  <1>3. /\ Try(f, i).low \in Nat /\ Try(f, i).high \in Nat /\ Try(f, i).catchHigh \in Nat
        /\ Try(f, i).low <= Try(f, i).high /\ Try(f, i).high < Try(f, i).catchHigh
    BY TryNumbers
  <1>4. /\ Try(f, j).low \in Nat /\ Try(f, j).high \in Nat /\ Try(f, j).catchHigh \in Nat
        /\ Try(f, j).low <= Try(f, j).high /\ Try(f, j).high < Try(f, j).catchHigh
    BY TryNumbers
  <1> QED BY <1>2, <1>3, <1>4 DEF Nested, Inside, InTry, InCatch

LEMMA TryPlain ==
    ASSUME NEW fr, fr.f \in DOMAIN Prog, NEW s \in Int, PlainState(fr, s),
           NEW i \in DOMAIN Tries(fr.f), InTry(Try(fr.f, i), s)
    PROVE  PlainState(fr, Try(fr.f, i).low)
  BY TryInCatch DEF PlainState

(* Unwinding does not lead into a catch block. *)
LEMMA PlainUnwinds ==
    ASSUME NEW fr, fr.f \in DOMAIN Prog, NEW s \in DOMAIN Prog[fr.f].unwind, PlainState(fr, s)
    PROVE  PlainState(fr, UWE_TOSTATE(fr.f, s))
  <1> SUFFICES ASSUME NEW j \in DOMAIN Tries(fr.f), InCatch(Try(fr.f, j), UWE_TOSTATE(fr.f, s))
               PROVE  InCatch(Try(fr.f, j), s)
    BY DEF PlainState
  <1>1. CASE s = Try(fr.f, j).high + 1
    <2>1. UWE_TOSTATE(fr.f, s) = Outside(fr.f, j)
      BY <1>1, TryStates
    <2> QED BY <2>1, TryNumbers DEF InCatch
  <1>2. CASE s # Try(fr.f, j).high + 1
    BY <1>2, TablesOK DEF TryOK
  <1> QED BY <1>1, <1>2

LEMMA PlainOutside ==
    ASSUME NEW fr, fr.f \in DOMAIN Prog, NEW i \in DOMAIN Tries(fr.f),
           PlainState(fr, Try(fr.f, i).low)
    PROVE  PlainState(fr, Outside(fr.f, i))
  BY PlainUnwinds, TryStates

LEMMA PlainEnters ==
    ASSUME NEW fr, fr.f \in DOMAIN Prog, NEW s \in DOMAIN Prog[fr.f].unwind,
           PlainState(fr, UWE_TOSTATE(fr.f, s)),
           \A i \in DOMAIN Tries(fr.f) : s # Try(fr.f, i).high + 1
    PROVE  PlainState(fr, s)
  <1> SUFFICES ASSUME NEW j \in DOMAIN Tries(fr.f), InCatch(Try(fr.f, j), s)
               PROVE  InCatch(Try(fr.f, j), UWE_TOSTATE(fr.f, s))
    BY DEF PlainState
  <1> QED BY TablesOK DEF TryOK

(* The catch block that a funclet starts in. *)
LEMMA PlainFunclet ==
    ASSUME NEW fr, fr.f \in DOMAIN Prog, fr.k = "catch", fr.try \in DOMAIN Tries(fr.f)
    PROVE  PlainState(fr, Try(fr.f, fr.try).high + 1)
  <1> DEFINE f == fr.f
             i == fr.try
  <1> SUFFICES ASSUME NEW j \in DOMAIN Tries(f), InCatch(Try(f, j), Try(f, i).high + 1), ~(j <= i)
               PROVE  FALSE
    BY DEF PlainState
  <1>1. i # j /\ i <= j
    BY TryNumbers
  <1>2. Try(f, i).high + 1 \in DOMAIN Prog[f].unwind /\ InCatch(Try(f, i), Try(f, i).high + 1)
    BY TryStates, TryNumbers DEF InCatch
  <1>3. CatchInside(f, Try(f, i), Try(f, j)) /\ Nested(Try(f, i), Try(f, j))
    BY <1>1, TablesAssumption DEF TryBlockMapOK
  <1>4. Try(f, i).high <= Try(f, j).high
    BY <1>2, <1>3 DEF CatchInside
  <1>5. /\ Try(f, i).low \in Nat /\ Try(f, i).high \in Nat /\ Try(f, i).catchHigh \in Nat
        /\ Try(f, i).low <= Try(f, i).high /\ Try(f, i).high < Try(f, i).catchHigh
    BY TryNumbers
  <1>6. /\ Try(f, j).low \in Nat /\ Try(f, j).high \in Nat /\ Try(f, j).catchHigh \in Nat
        /\ Try(f, j).low <= Try(f, j).high /\ Try(f, j).high < Try(f, j).catchHigh
    BY TryNumbers
  <1>7. Try(f, i).high = Try(f, j).high
    BY <1>4, <1>5, <1>6 DEF InCatch
  <1> QED BY <1>3, <1>5, <1>6, <1>7 DEF Nested, Inside

(* The try blocks around the catch blocks of a try block are those around it. *)
LEMMA CatchAround ==
    ASSUME NEW f \in DOMAIN Prog, NEW i \in DOMAIN Tries(f), NEW u \in DOMAIN Tries(f)
    PROVE  InTry(Try(f, i), Try(f, u).catchHigh) <=> InTry(Try(f, i), Outside(f, u))
  <1>1. /\ Try(f, i).low \in Nat /\ Try(f, i).high \in Nat /\ Try(f, i).catchHigh \in Nat
        /\ Try(f, i).low <= Try(f, i).high /\ Try(f, i).high < Try(f, i).catchHigh
    BY TryNumbers
  <1>2. /\ Try(f, u).low \in Nat /\ Try(f, u).high \in Nat /\ Try(f, u).catchHigh \in Nat
        /\ Try(f, u).low <= Try(f, u).high /\ Try(f, u).high < Try(f, u).catchHigh
        /\ Outside(f, u) \in Int /\ Outside(f, u) < Try(f, u).low
    BY TryNumbers
  <1>3. CASE i = u
    BY <1>2, <1>3 DEF InTry
  <1>4. CASE i # u
    <2>1. Nested(Try(f, i), Try(f, u)) /\ Try(f, u).low # Try(f, i).low
      BY <1>4, TwoTries
    <2>2. Try(f, u).low \in DOMAIN Prog[f].unwind /\ UWE_TOSTATE(f, Try(f, u).low) = Outside(f, u)
      BY TryStates
    <2>3. InTry(Try(f, i), Try(f, u).low) <=> InTry(Try(f, i), Outside(f, u))
      BY <2>1, <2>2, TablesOK DEF TryOK
    <2>4. InTry(Try(f, i), Try(f, u).low) <=> InTry(Try(f, i), Try(f, u).catchHigh)
      BY <1>1, <1>2, <2>1 DEF InTry, Nested, Inside
    <2> QED BY <2>3, <2>4
  <1> QED BY <1>3, <1>4

-----------------------------------------------------------------------------
(* Where a search must end, frame by frame *)

(* The state of frame q of the first m, where no frame is being unwound. *)
Under(st, m, q) ==
    IF q < m /\ st[q + 1].k = "ccb" THEN Outside(st[q].f, st[q + 1].try) ELSE st[q].ip

TriesUnder(st, m, q) ==
    {i \in DOMAIN Tries(st[q].f) :
        /\ Try(st[q].f, i).low \in Around(st[q].f)[Under(st, m, q)]
        /\ st[q].k = "catch" => Try(st[q].f, i).low > Try(st[q].f, st[q].try).high}

TakesAt(st, m, q, T) ==
    {i \in TriesUnder(st, m, q) : T # "none" /\ CxxHandlers(Try(st[q].f, i), T) # {}}

Innermost(st, m, q, T, i) ==
    /\ i \in TakesAt(st, m, q, T)
    /\ \A j \in TakesAt(st, m, q, T) : Try(st[q].f, i).low >= Try(st[q].f, j).low

HandlesAt(st, m, q, T) == st[q].k \in Scoped /\ TakesAt(st, m, q, T) # {}

EndsAt(st, q, rec) ==
    \/ st[q].k = "raise" /\ st[q].phase = "build"
    \/ st[q].k = "ccb" /\ st[q].phase = "try" /\ rec = Rethrown

BarsAt(st, q, T) ==
    \/ st[q].k = "unw"
    \/ st[q].k = "fn" /\ Prog[st[q].f].noexcept /\ T # "none"

GoneBy(st, m, q, rec, T) == ~HandlesAt(st, m, q, T) /\ ~EndsAt(st, q, rec) /\ ~BarsAt(st, q, T)

(* A search through the first m frames has gone past all above a. *)
GoneDown(st, m, a, rec, T) == \A q \in a + 1 .. m : GoneBy(st, m, q, rec, T)

WantOK(st, m, rec, T, w) ==
    /\ \A a \in 1 .. m : GoneDown(st, m, a, rec, T) =>
        /\ EndsAt(st, a, rec) => w = [pos |-> a, try |-> 0]
        /\ HandlesAt(st, m, a, T) => \E i : Innermost(st, m, a, T, i) /\ w = [pos |-> a, try |-> i]
        /\ BarsAt(st, a, T) /\ ~HandlesAt(st, m, a, T) => w = Nowhere
    /\ GoneDown(st, m, 0, rec, T) => w = Nowhere

(* Want, with names for its parts. *)
Seeing(st) == {p \in DOMAIN st : Visible(st, p)}

TakesIn(st, p, T) ==
    {i \in Enclosing(st, p) : T # "none" /\ CxxHandlers(Try(st[p].f, i), T) # {}}

EndsOf(st, rec) == {p \in Seeing(st) : EndsAt(st, p, rec)}

TakersOf(st, T) == {p \in Seeing(st) : st[p].k \in {"fn", "catch"} /\ TakesIn(st, p, T) # {}}

StopOf(st, rec, T) == Max(TakersOf(st, T) \cup EndsOf(st, rec) \cup {0})

LEMMA WantIs ==
    ASSUME NEW st, NEW rec, NEW T
    PROVE  Want(st, rec, T) =
               IF \/ StopOf(st, rec, T) = 0
                  \/ \E q \in Seeing(st) : q > StopOf(st, rec, T) /\ BarsAt(st, q, T)
               THEN Nowhere
               ELSE [pos |-> StopOf(st, rec, T),
                     try |-> IF StopOf(st, rec, T) \in EndsOf(st, rec) THEN 0
                             ELSE CHOOSE i \in TakesIn(st, StopOf(st, rec, T), T) :
                                      \A j \in TakesIn(st, StopOf(st, rec, T), T) :
                                          Try(st[StopOf(st, rec, T)].f, i).low
                                              >= Try(st[StopOf(st, rec, T)].f, j).low]
  BY Zenon DEF Want, StopOf, TakersOf, EndsOf, TakesIn, Seeing, EndsAt, BarsAt

(* Above a all is seen, as long as no frame is being unwound. *)
LEMMA SeenAbove ==
    ASSUME NEW st, IsStack(st), NEW m, m = Len(st), Formed(st, m), NEW a \in 0 .. m,
           \A q \in a + 1 .. m : st[q].k # "unw", NEW q \in 1 .. m, a <= q
    PROVE  /\ Visible(st, q) /\ Above(st, q) = q + 1
           /\ StateFor(st, q) = Under(st, m, q)
           /\ Enclosing(st, q) = TriesUnder(st, m, q)
  <1>1. m \in Nat /\ a \in Nat /\ q \in Nat
    BY DEF Formed
  <1>2. ASSUME NEW p \in 1 .. m, a <= p PROVE Seen(st, m, p)
    <2>1. ASSUME NEW u \in 1 .. m, st[u].k = "unw", p < u PROVE FALSE
      <3>1. u \in a + 1 .. m
        BY <1>1, <1>2, <2>1
      <3> QED BY <2>1, <3>1
    <2> QED BY <2>1 DEF Seen
  <1>3. Visible(st, q)
    BY <1>2, VisibleIsSeen
  <1>4. Above(st, q) = q + 1
    <2>1. q + 1 <= m => Seen(st, m, q + 1)
      BY <1>1, <1>2
    <2>2. q + 1 \in q + 1 .. m + 1 /\ \A r \in q + 1 .. (q + 1) - 1 : ~Seen(st, m, r)
      BY <1>1
    <2> QED BY <2>1, <2>2, AboveIs
  <1>5. StateFor(st, q) = Under(st, m, q)
    <2>1. (q + 1 <= Len(st)) <=> q < m
      BY <1>1
    <2> QED BY <1>4, <2>1, Zenon DEF StateFor, Under
  <1>6. Enclosing(st, q) = TriesUnder(st, m, q)
    BY <1>5 DEF Enclosing, TriesUnder
  <1> QED BY <1>3, <1>4, <1>5, <1>6

(* The try blocks that take an exception in a frame hold its state, so one of them is
   the innermost. *)
LEMMA InnermostExists ==
    ASSUME NEW st, NEW m, Formed(st, m), NEW a \in 1 .. m, st[a].k \in Scoped, NEW T,
           TakesAt(st, m, a, T) # {}
    PROVE  /\ st[a].f \in DOMAIN Prog /\ Under(st, m, a) \in StatesOf(st[a].f)
           /\ \E i : Innermost(st, m, a, T, i)
           /\ \A i, j : Innermost(st, m, a, T, i) /\ Innermost(st, m, a, T, j) => i = j
  <1>1. /\ st[a].f \in DOMAIN Prog /\ st[a].ip \in StatesOf(st[a].f) /\ m \in Nat /\ a \in Nat
    BY DEF Formed, Own, OwnFn, OwnCatch, Scoped, StatesOf
  <1>2. Under(st, m, a) \in StatesOf(st[a].f)
    <2>1. CASE a < m /\ st[a + 1].k = "ccb"
      <3>1. a + 1 \in 1 .. m /\ (a + 1) - 1 = a
        BY <1>1, <2>1
      <3>2. st[a + 1].try \in DOMAIN Tries(st[a].f)
        BY <2>1, <3>1, CcbGroup
      <3> QED BY <1>1, <2>1, <3>2, TryStates DEF Under
    <2> QED BY <1>1, <2>1 DEF Under
  <1>3. PICK f, s : f = st[a].f /\ s = Under(st, m, a)
    OBVIOUS
  <1>4. PICK X : X = TakesAt(st, m, a, T)
    OBVIOUS
  <1>5. ASSUME NEW i \in X
        PROVE  i \in DOMAIN Tries(f) /\ Try(f, i).low \in Nat /\ Try(f, i).low <= s /\ s \in Int
    <2>1. i \in DOMAIN Tries(f) /\ Try(f, i).low \in Around(f)[s]
      BY <1>3, <1>4 DEF TakesAt, TriesUnder
    <2> QED BY <1>1, <1>2, <1>3, <2>1, TryAround, TryNumbers, StatesFacts DEF InTry
  <1>6. PICK i \in X : TRUE
    BY <1>4
  <1>7. s \in Nat
    BY <1>5, <1>6
  <1>8. PICK L : L = {Try(f, j).low : j \in X}
    BY Zenon
  <1>9. L \subseteq 0 .. s /\ L # {}
    BY <1>5, <1>6, <1>7, <1>8
  <1>10. Max(L) \in L /\ \A y \in L : Max(L) >= y
    BY <1>7, <1>9, MaxIsGreatest, Zenon
  <1>11. PICK j \in X : Try(f, j).low = Max(L)
    BY <1>8, <1>10, Zenon
  <1>12. \A x \in X : Try(f, j).low >= Try(f, x).low
    BY <1>8, <1>10, <1>11
  <1>13. Innermost(st, m, a, T, j)
    BY <1>3, <1>4, <1>12 DEF Innermost
  <1>14. ASSUME NEW x, NEW y, Innermost(st, m, a, T, x), Innermost(st, m, a, T, y) PROVE x = y
    <2>1. /\ x \in X /\ y \in X /\ Try(f, x).low >= Try(f, y).low /\ Try(f, y).low >= Try(f, x).low
      BY <1>3, <1>4, <1>14 DEF Innermost
    <2>2. Try(f, x).low = Try(f, y).low
      BY <1>5, <2>1
    <2> QED BY <1>1, <1>3, <1>5, <2>1, <2>2, TwoTries
  <1> QED BY <1>1, <1>2, <1>13, <1>14

LEMMA WantIsOK ==
    ASSUME NEW st, IsStack(st), NEW m, m = Len(st), Formed(st, m), NEW rec, NEW T
    PROVE  WantOK(st, m, rec, T, Want(st, rec, T))
  <1>1. m \in Nat /\ DOMAIN st = 1 .. m
    BY StackDomain
  <1>2. PICK S : S = TakersOf(st, T) \cup EndsOf(st, rec) \cup {0}
    BY Zenon
  <1>3. PICK t : t = StopOf(st, rec, T)
    OBVIOUS
  <1>4. t = Max(S) /\ S \subseteq 0 .. m /\ 0 \in S
    BY <1>1, <1>2, <1>3 DEF StopOf, TakersOf, EndsOf, Seeing
  <1>5. t \in S /\ \A x \in S : t >= x
    BY <1>1, <1>4, MaxIsGreatest, Zenon
  <1>6. PICK w : w = Want(st, rec, T)
    OBVIOUS
  <1>7. w = IF t = 0 \/ \E q \in Seeing(st) : q > t /\ BarsAt(st, q, T)
            THEN Nowhere
            ELSE [pos |-> t,
                  try |-> IF t \in EndsOf(st, rec) THEN 0
                          ELSE CHOOSE i \in TakesIn(st, t, T) : \A j \in TakesIn(st, t, T) :
                                   Try(st[t].f, i).low >= Try(st[t].f, j).low]
    BY <1>3, <1>6, WantIs, Zenon
  <1>8. ASSUME NEW a \in 0 .. m, GoneDown(st, m, a, rec, T)
        PROVE  /\ \A q \in 1 .. m : a <= q =>
                      /\ q \in Seeing(st)
                      /\ TakesIn(st, q, T) = TakesAt(st, m, q, T)
                      /\ q \in TakersOf(st, T) <=> HandlesAt(st, m, q, T)
                      /\ q \in EndsOf(st, rec) <=> EndsAt(st, q, rec)
               /\ t <= a
               /\ \A q \in Seeing(st) : q > a => ~BarsAt(st, q, T)
    <2>1. \A q \in a + 1 .. m : st[q].k # "unw"
      BY <1>8 DEF GoneDown, GoneBy, BarsAt
    <2>2. ASSUME NEW q \in 1 .. m, a <= q
          PROVE  /\ q \in Seeing(st)
                 /\ TakesIn(st, q, T) = TakesAt(st, m, q, T)
                 /\ q \in TakersOf(st, T) <=> HandlesAt(st, m, q, T)
                 /\ q \in EndsOf(st, rec) <=> EndsAt(st, q, rec)
      <3>1. Visible(st, q) /\ Enclosing(st, q) = TriesUnder(st, m, q)
        BY <2>1, <2>2, SeenAbove
      <3>2. q \in Seeing(st)
        BY <1>1, <3>1 DEF Seeing
      <3>3. TakesIn(st, q, T) = TakesAt(st, m, q, T)
        BY <3>1 DEF TakesIn, TakesAt
      <3> QED BY <3>2, <3>3 DEF TakersOf, EndsOf, HandlesAt, Scoped
    <2>3. t <= a
      <3> SUFFICES ASSUME a < t PROVE FALSE
        BY <1>1, <1>4, <1>5
      <3>1. t \in a + 1 .. m /\ t \in 1 .. m /\ a <= t /\ t # 0
        BY <1>1, <1>4, <1>5
      <3>2. t \in TakersOf(st, T) \/ t \in EndsOf(st, rec)
        BY <1>2, <1>5, <3>1
      <3>3. HandlesAt(st, m, t, T) \/ EndsAt(st, t, rec)
        BY <2>2, <3>1, <3>2
      <3> QED BY <1>8, <3>1, <3>3 DEF GoneDown, GoneBy
    <2>4. ASSUME NEW q \in Seeing(st), q > a PROVE ~BarsAt(st, q, T)
      <3>1. q \in a + 1 .. m
        BY <1>1, <2>4 DEF Seeing
      <3> QED BY <1>8, <3>1 DEF GoneDown, GoneBy
    <2> QED BY <2>2, <2>3, <2>4
  <1>9. ASSUME NEW a \in 1 .. m, GoneDown(st, m, a, rec, T)
        PROVE  /\ EndsAt(st, a, rec) => w = [pos |-> a, try |-> 0]
               /\ HandlesAt(st, m, a, T) => \E i : Innermost(st, m, a, T, i) /\ w = [pos |-> a, try |-> i]
               /\ BarsAt(st, a, T) /\ ~HandlesAt(st, m, a, T) => w = Nowhere
    <2>1. /\ a \in Nat /\ a \in 0 .. m /\ a # 0 /\ a <= a /\ t \in Nat
      BY <1>1, <1>4, <1>5
    <2>2. /\ a \in Seeing(st)
          /\ TakesIn(st, a, T) = TakesAt(st, m, a, T)
          /\ a \in TakersOf(st, T) <=> HandlesAt(st, m, a, T)
          /\ a \in EndsOf(st, rec) <=> EndsAt(st, a, rec)
          /\ t <= a
          /\ \A q \in Seeing(st) : q > a => ~BarsAt(st, q, T)
      BY <1>8, <1>9, <2>1
    <2>3. ASSUME EndsAt(st, a, rec) \/ HandlesAt(st, m, a, T)
          PROVE  /\ t = a /\ ~(t = 0 \/ \E q \in Seeing(st) : q > t /\ BarsAt(st, q, T))
      <3>1. a \in S
        BY <1>2, <2>2, <2>3
      <3>2. t = a
        BY <1>5, <2>1, <2>2, <3>1
      <3> QED BY <2>1, <2>2, <3>2
    <2>4. CASE EndsAt(st, a, rec)
      <3>1. ~HandlesAt(st, m, a, T) /\ st[a].k # "fn" /\ st[a].k # "unw"
        BY <2>4 DEF EndsAt, HandlesAt, Scoped
      <3>2. w = [pos |-> a, try |-> 0]
        BY <1>7, <2>2, <2>3, <2>4
      <3> QED BY <3>1, <3>2 DEF BarsAt
    <2>5. CASE HandlesAt(st, m, a, T)
      <3>1. ~EndsAt(st, a, rec)
        BY <2>5 DEF EndsAt, HandlesAt, Scoped
      <3>2. w = [pos |-> a, try |-> CHOOSE i \in TakesAt(st, m, a, T) : \A j \in TakesAt(st, m, a, T) :
                                        Try(st[a].f, i).low >= Try(st[a].f, j).low]
        BY <1>7, <2>2, <2>3, <2>5, <3>1, Zenon
      <3>3. \E i : Innermost(st, m, a, T, i)
        BY <2>5, InnermostExists DEF HandlesAt
      <3>4. PICK i : i = CHOOSE k \in TakesAt(st, m, a, T) : \A j \in TakesAt(st, m, a, T) :
                                    Try(st[a].f, k).low >= Try(st[a].f, j).low
        OBVIOUS
      <3>5. Innermost(st, m, a, T, i)
        BY <3>3, <3>4 DEF Innermost
      <3> QED BY <2>5, <3>1, <3>2, <3>4, <3>5, Zenon
    <2>6. CASE BarsAt(st, a, T) /\ ~HandlesAt(st, m, a, T) /\ ~EndsAt(st, a, rec)
      <3>1. t # a
        BY <1>2, <1>5, <2>1, <2>2, <2>6
      <3>2. a > t
        BY <2>1, <2>2, <3>1
      <3> QED BY <1>7, <2>2, <2>6, <3>2
    <2>7. BarsAt(st, a, T) => ~EndsAt(st, a, rec)
      BY DEF BarsAt, EndsAt
    <2> QED BY <2>4, <2>5, <2>6, <2>7
  <1>10. ASSUME GoneDown(st, m, 0, rec, T) PROVE w = Nowhere
    <2>1. t <= 0
      BY <1>1, <1>8, <1>10
    <2>2. t = 0
      BY <1>4, <1>5, <2>1
    <2> QED BY <1>7, <2>2
  <1> QED BY <1>6, <1>9, <1>10 DEF WantOK

-----------------------------------------------------------------------------
(* The handler that the frame handler finds *)

LEMMA TryWithin ==
    ASSUME NEW f \in DOMAIN Prog, NEW i \in DOMAIN Tries(f), NEW v \in DOMAIN Tries(f),
           NEW s \in Int, InTry(Try(f, i), s), InCatch(Try(f, v), s), Try(f, i).low > Try(f, v).high
    PROVE  Try(f, i).high <= Try(f, v).catchHigh
  <1>1. /\ Try(f, i).low \in Nat /\ Try(f, i).high \in Nat /\ Try(f, i).catchHigh \in Nat
        /\ Try(f, i).low <= Try(f, i).high /\ Try(f, i).high < Try(f, i).catchHigh
    BY TryNumbers
  <1>2. /\ Try(f, v).low \in Nat /\ Try(f, v).high \in Nat /\ Try(f, v).catchHigh \in Nat
        /\ Try(f, v).low <= Try(f, v).high /\ Try(f, v).high < Try(f, v).catchHigh
    BY TryNumbers
  <1>3. i # v
    BY <1>1
  <1>4. Nested(Try(f, i), Try(f, v))
    BY <1>3, TwoTries
  <1> QED BY <1>1, <1>2, <1>4 DEF Nested, Inside, InTry, InCatch

(* The try blocks FH4 considers are those that the program text puts around the frame's
   state, if that is what the search was told. *)
LEMMA TrysAre ==
    ASSUME mode.fh = 4, NEW m, Formed(stack, m), NEW p \in 1 .. m, stack[p].k \in Scoped,
           PlainState(stack[p], stack[p].ip),
           p < m /\ stack[p + 1].k = "ccb" => PlainState(stack[p], LowOf(stack, p + 1)),
           NEW s, s = IF p < m /\ stack[p + 1].k = "ccb"
                      THEN Try(stack[p].f, stack[p + 1].try).catchHigh ELSE stack[p].ip
    PROVE  TrysToCheck(p, s) = TriesUnder(stack, m, p)
  <1>1. PICK fr : fr = stack[p]
    OBVIOUS
  <1>2. PICK f : f = fr.f
    OBVIOUS
  <1>3. /\ f \in DOMAIN Prog /\ fr.ip \in StatesOf(f) /\ m \in Nat /\ p \in Nat
        /\ fr.ip \in Int /\ PlainState(fr, fr.ip)
    BY <1>1, <1>2, StatesFacts DEF Formed, Own, OwnFn, OwnCatch, Scoped, StatesOf
  <1>4. ASSUME p < m, stack[p + 1].k = "ccb"
        PROVE  /\ stack[p + 1].try \in DOMAIN Tries(f)
               /\ LowOf(stack, p + 1) = Try(f, stack[p + 1].try).low
               /\ PlainState(fr, Try(f, stack[p + 1].try).low)
               /\ fr.k = "catch" => InCatch(OwnTry(stack, p), Try(f, stack[p + 1].try).low)
    <2>1. p + 1 \in 1 .. m /\ (p + 1) - 1 = p
      BY <1>3, <1>4
    <2>2. /\ stack[p + 1].try \in DOMAIN Tries(stack[p].f)
          /\ LowOf(stack, p + 1) = Try(stack[p].f, stack[p + 1].try).low
          /\ stack[p].k = "catch" => InCatch(OwnTry(stack, p), LowOf(stack, p + 1))
      BY <1>4, <2>1, CcbGroup
    <2> QED BY <1>1, <1>2, <1>4, <2>2
  <1>5. fr.k = "catch" =>
            /\ fr.try \in DOMAIN Tries(f) /\ OwnTry(stack, p) = Try(f, fr.try)
            /\ InCatch(Try(f, fr.try), fr.ip)
    BY <1>1, <1>2, CatchGroup
  <1>6. ASSUME NEW i \in DOMAIN Tries(f)
        PROVE  /\ InTry(Try(f, i), s) <=> Try(f, i).low \in Around(f)[Under(stack, m, p)]
               /\ InTry(Try(f, i), s) =>
                    /\ PlainState(fr, Try(f, i).low)
                    /\ fr.k = "catch" /\ Try(f, i).low > Try(f, fr.try).high
                           => Try(f, i).high <= Try(f, fr.try).catchHigh
    <2>1. CASE p < m /\ stack[p + 1].k = "ccb"
      <3>1. PICK u : u = stack[p + 1].try
        OBVIOUS
      <3>2. /\ u \in DOMAIN Tries(f) /\ PlainState(fr, Try(f, u).low)
            /\ fr.k = "catch" => InCatch(Try(f, fr.try), Try(f, u).low)
            /\ s = Try(f, u).catchHigh /\ Under(stack, m, p) = Outside(f, u)
        BY <1>1, <1>2, <1>4, <1>5, <2>1, <3>1 DEF Under
      <3>3. InTry(Try(f, i), s) <=> Try(f, i).low \in Around(f)[Under(stack, m, p)]
        <4>1. Outside(f, u) \in StatesOf(f)
          BY <1>3, <3>2, TryStates
        <4>2. Try(f, i).low \in Around(f)[Outside(f, u)] <=> InTry(Try(f, i), Outside(f, u))
          BY <1>3, <4>1, TryAround
        <4>3. InTry(Try(f, i), Try(f, u).catchHigh) <=> InTry(Try(f, i), Outside(f, u))
          BY <1>3, <3>2, CatchAround
        <4> QED BY <3>2, <4>2, <4>3
      <3>4. ASSUME InTry(Try(f, i), s)
            PROVE  /\ PlainState(fr, Try(f, i).low)
                   /\ fr.k = "catch" /\ Try(f, i).low > Try(f, fr.try).high
                          => Try(f, i).high <= Try(f, fr.try).catchHigh
        <4>1. InTry(Try(f, i), Try(f, u).low) /\ Try(f, u).low \in Int
          BY <1>3, <3>2, <3>4, NestedTries, TryNumbers
        <4>2. PlainState(fr, Try(f, i).low)
          BY <1>2, <1>3, <3>2, <4>1, TryPlain
        <4> QED BY <1>3, <1>5, <3>2, <4>1, <4>2, TryWithin
      <3> QED BY <3>3, <3>4
    <2>2. CASE ~(p < m /\ stack[p + 1].k = "ccb")
      <3>1. s = fr.ip /\ Under(stack, m, p) = fr.ip
        BY <1>1, <2>2 DEF Under
      <3>2. InTry(Try(f, i), s) <=> Try(f, i).low \in Around(f)[Under(stack, m, p)]
        BY <1>3, <3>1, TryAround
      <3>3. ASSUME InTry(Try(f, i), s)
            PROVE  /\ PlainState(fr, Try(f, i).low)
                   /\ fr.k = "catch" /\ Try(f, i).low > Try(f, fr.try).high
                          => Try(f, i).high <= Try(f, fr.try).catchHigh
        <4>1. PlainState(fr, Try(f, i).low)
          BY <1>2, <1>3, <3>1, <3>3, TryPlain, Zenon
        <4> QED BY <1>3, <1>5, <3>1, <3>3, <4>1, TryWithin
      <3> QED BY <3>2, <3>3
    <2> QED BY <2>1, <2>2
  <1>7. CASE fr.k = "fn"
    <2>1. ASSUME NEW x, PlainState(fr, x) PROVE CatchTryBlock(f, x) = 0
      BY <1>2, <1>7, <2>1 DEF PlainState, CatchTryBlock
    <2>2. CatchTryBlock(f, fr.ip) = 0
      BY <1>3, <2>1
    <2>3. TryRange(f, fr.ip, s) = {i \in DOMAIN Tries(f) : InTry(Try(f, i), s)}
      BY <2>2 DEF TryRange
    <2>4. TrysToCheck(p, s) = {i \in DOMAIN Tries(f) : InTry(Try(f, i), s)}
      <3>1. TrysToCheck(p, s) = {i \in TryRange(f, fr.ip, s) : CatchTryBlock(f, Try(f, i).low) = 0}
        BY <1>1, <1>2, <1>7 DEF TrysToCheck
      <3>2. \A i \in TryRange(f, fr.ip, s) : CatchTryBlock(f, Try(f, i).low) = 0
        BY <1>6, <2>1, <2>3
      <3> QED BY <2>3, <3>1, <3>2
    <2>5. TriesUnder(stack, m, p) = {i \in DOMAIN Tries(f) : Try(f, i).low \in Around(f)[Under(stack, m, p)]}
      BY <1>1, <1>2, <1>7 DEF TriesUnder
    <2> QED BY <1>6, <2>4, <2>5
  <1>8. CASE fr.k = "catch"
    <2>1. CatchTryBlock(f, fr.ip) = fr.try
      <3>1. PICK S : S = {i \in DOMAIN Tries(f) : InCatch(Try(f, i), fr.ip)}
        BY Zenon
      <3>2. S \subseteq Int /\ fr.try \in S /\ \A i \in S : i <= fr.try
        BY <1>2, <1>3, <1>5, <1>8, <3>1, TablesOK DEF PlainState
      <3>3. Max(S) = fr.try
        BY <3>2, MaxUnique, Zenon
      <3>4. CatchTryBlock(f, fr.ip) = IF S = {} THEN 0 ELSE Max(S)
        BY <3>1, Zenon DEF CatchTryBlock
      <3> QED BY <3>2, <3>3, <3>4, Zenon
    <2>2. fr.try # 0
      BY <1>3, <1>5, <1>8, TablesOK
    <2>3. TrysToCheck(p, s) = TryRange(f, fr.ip, s)
      BY <1>1, <1>2, <1>8 DEF TrysToCheck
    <2>4. ASSUME NEW i PROVE i \in TryRange(f, fr.ip, s) <=> i \in TriesUnder(stack, m, p)
      <3>1. i \in TryRange(f, fr.ip, s) <=>
                /\ i \in DOMAIN Tries(f) /\ InTry(Try(f, i), s)
                /\ Try(f, i).low > Try(f, fr.try).high /\ Try(f, i).high <= Try(f, fr.try).catchHigh
        BY <2>1, <2>2 DEF TryRange
      <3>2. i \in TriesUnder(stack, m, p) <=>
                /\ i \in DOMAIN Tries(f) /\ Try(f, i).low \in Around(f)[Under(stack, m, p)]
                /\ Try(f, i).low > Try(f, fr.try).high
        BY <1>1, <1>2, <1>8 DEF TriesUnder
      <3> QED BY <1>6, <1>8, <3>1, <3>2
    <2> QED BY <2>3, <2>4, Zenon
  <1> QED BY <1>1, <1>7, <1>8 DEF Scoped

LEMMA HitIs ==
    ASSUME NEW m, Formed(stack, m), NEW p \in 1 .. m, stack[p].k \in Scoped,
           NEW scope, NEW rec, rec # Foreign, thrown[rec] # "none",
           TrysToCheck(p, SearchState(p, scope)) = TriesUnder(stack, m, p)
    PROVE  /\ HandlerFor(p, scope, rec) = NoHit <=> ~HandlesAt(stack, m, p, thrown[rec])
           /\ HandlerFor(p, scope, rec) # NoHit =>
                  Innermost(stack, m, p, thrown[rec], HandlerFor(p, scope, rec).try)
  <1> DEFINE f == stack[p].f
             t == [i \in DOMAIN Tries(f) |-> Try(f, i)]
             T == thrown[rec]
             cxx == {i \in TriesUnder(stack, m, p) : CxxHandlers(t[i], T) # {}}
  <1>1. f \in DOMAIN Prog
    BY DEF Formed, Own, OwnFn, OwnCatch, Scoped
  <1>2. TriesUnder(stack, m, p) \subseteq DOMAIN Tries(f)
    BY DEF TriesUnder
  <1>3. cxx = TakesAt(stack, m, p, T)
    BY <1>2, Zenon DEF TakesAt
  <1>4. HandlerFor(p, scope, rec) =
            IF cxx = {} THEN NoHit
            ELSE [try |-> Min(cxx), handler |-> Min(CxxHandlers(t[Min(cxx)], T))]
    BY DEF HandlerFor, FirstHit
  <1> HIDE DEF t, cxx
  <1>5. PICK X : X = TakesAt(stack, m, p, T)
    OBVIOUS
  <1>6. X \subseteq DOMAIN Tries(f)
    BY <1>2, <1>5 DEF TakesAt
  <1>7. \A i \in X : i \in Nat /\ i > 0
    BY <1>1, <1>6, TablesOK
  <1>8. X # {} => Min(X) \in X /\ \A i \in X : Min(X) <= i
    BY <1>7, MinIsLeast
  <1>9. HandlerFor(p, scope, rec) = NoHit <=> X = {}
    <2>1. X # {} => Min(X) # 0
      BY <1>7, <1>8
    <2> QED BY <1>3, <1>4, <1>5, <2>1 DEF NoHit
  <1>10. ASSUME X # {} PROVE Innermost(stack, m, p, T, Min(X))
    <2>1. PICK i : i = Min(X)
      OBVIOUS
    <2>2. i \in X /\ \A j \in X : i <= j
      BY <1>8, <1>10, <2>1
    <2>3. Under(stack, m, p) \in StatesOf(f)
      BY <1>5, <1>10, InnermostExists
    <2>4. PICK s : s = Under(stack, m, p)
      OBVIOUS
    <2>5. ASSUME NEW j \in X PROVE InTry(Try(f, j), s)
      <3>1. j \in DOMAIN Tries(f) /\ Try(f, j).low \in Around(f)[s]
        BY <1>5, <2>4 DEF TakesAt, TriesUnder
      <3> QED BY <1>1, <2>3, <2>4, <3>1, TryAround
    <2>6. s \in DOMAIN Prog[f].unwind
      <3>1. InTry(Try(f, i), s) /\ Try(f, i).low \in Nat
        BY <1>1, <1>6, <2>2, <2>5, TryNumbers
      <3> QED BY <1>1, <2>3, <2>4, <3>1, StatesFacts DEF InTry, StatesOf, EH_EMPTY_STATE
    <2>7. ASSUME NEW j \in X PROVE Try(f, i).low >= Try(f, j).low
      <3>1. /\ i \in DOMAIN Tries(f) /\ j \in DOMAIN Tries(f) /\ i <= j
            /\ InTry(Try(f, i), s) /\ InTry(Try(f, j), s)
        BY <1>6, <2>2, <2>5, <2>7
      <3>2. CASE i = j
        BY <1>1, <3>1, <3>2, TryNumbers
      <3>3. CASE i # j
        <4>1. Try(f, j).low <= Try(f, i).low
          BY <1>1, <2>6, <3>1, <3>3, TwoTries
        <4> QED BY <1>1, <3>1, <4>1, TryNumbers
      <3> QED BY <3>2, <3>3
    <2> QED BY <1>5, <2>1, <2>2, <2>7 DEF Innermost
  <1>11. X # {} => HandlerFor(p, scope, rec).try = Min(X)
    BY <1>3, <1>4, <1>5
  <1>12. HandlesAt(stack, m, p, T) <=> X # {}
    BY <1>5 DEF HandlesAt
  <1> QED BY <1>9, <1>10, <1>11, <1>12

-----------------------------------------------------------------------------
(* The inductive invariant: every search still has the end before it that the program
   text selects, every unwind goes there. *)

(* The exception that record rec stands for where c is the current exception. *)
Mean(rec, c) == IF rec = Rethrown THEN c ELSE rec

TypeIn(th, o) == IF IsObject(o) THEN th[o] ELSE "none"

LowAt(st, p, i) == Try(st[p].f, i).low

(* A frame's states, and those it has been unwound to, are outside of catch blocks that
   are not its own. *)
PlainFor(st, p) ==
    /\ st[p].k \in Scoped => PlainState(st[p], st[p].ip)
    /\ st[p].k = "ccb" => PlainState(st[p - 1], LowAt(st, p - 1, st[p].try))
    /\ st[p].k = "raise" /\ st[p].phase = "build" =>
           PlainState(st[st[p].at], LowAt(st, st[p].at, st[p].hit.try))
    /\ st[p].k = "unw" /\ st[p].hit # NoHit =>
           PlainState(st[st[p].target], LowAt(st, st[p].target, st[p].hit.try))
    /\ st[p].k = "unw" /\ st[p].phase # "scan" => PlainState(st[st[p].at], st[p].state)

(* A record that tells which exception it stands for. *)
Known(rec, th) == rec = Foreign \/ rec \in 1 .. Len(th)

RecFor(st, p, th) ==
    /\ st[p].k = "ccb" => Known(st[p].rec, th)
    /\ st[p].k = "unw" /\ st[p].hit # NoHit => Known(st[p].rec, th)
    /\ st[p].k = "raise" => st[p].rec = Rethrown \/ Known(st[p].rec, th)
    /\ st[p].k = "raise" /\ st[p].phase = "build" =>
           \E c : IsCurrent(st, p - 1, c) /\ Known(Mean(st[p].rec, c), th)

SearchFor(st, n, th, o) ==
    /\ o = NoRecord \/ o \in 1 .. Len(th)
    /\ WantOK(st, n - 1, st[n].rec, TypeIn(th, o), st[n].want)
    /\ st[n].phase = "build" => st[n].want = [pos |-> st[n].at, try |-> st[n].hit.try]
    /\ GoneDown(st, n - 1, st[n].at, st[n].rec, TypeIn(th, o))

(* A search for an exception of the program has missed no handler so far. *)
RaiseFor(st, n, th) ==
    st[n].k = "raise" /\ st[n].want # Unspecified =>
        /\ st[n].rec \in Nat /\ st[n].scope = 0 /\ ~st[n].again
        /\ \E c : IsCurrent(st, n - 1, c) /\ SearchFor(st, n, th, Mean(st[n].rec, c))

UnwFor(st, p) ==
    st[p].k = "unw" /\ st[p].want # Unspecified =>
        st[p].want = [pos |-> st[p].target, try |-> st[p].hit.try]

FrameFor(st, p, th) == PlainFor(st, p) /\ RecFor(st, p, th) /\ RaiseFor(st, p, th) /\ UnwFor(st, p)

FramesFor(st, n, th) == \A p \in 1 .. n : FrameFor(st, p, th)

TopFor(st, n, c) ==
    st[n].k = "unw" /\ st[n].phase = "scan" /\ st[st[n].at].k \in Scoped =>
        PlainState(st[st[n].at], From(st, st[n].at, st[n].scope, c))

(* A program that stops in a search had no handler to run. *)
Ended == Run.k = "raise" /\ Run.want # Unspecified => Run.want = Nowhere

(* Every frame is as it should be while the program runs; of a program that has stopped
   only the ends that its searches came to. *)
HandInv ==
    mode.fh = 4 /\ stale = {} =>
        IF Running
        THEN FramesFor(stack, Top, thrown) /\ TopFor(stack, Top, csp)
        ELSE (\A p \in 1 .. Top : UnwFor(stack, p)) /\ Ended

(* Frames alike in all that a search looks at. *)
Still(a, b) ==
    a = b \/ (a.k = "ccb" /\ b.k = "ccb" /\ b.rec = a.rec /\ b.try = a.try /\ b.phase = a.phase)

StillAll(st, st2, n) == \A p \in 1 .. n : Still(st[p], st2[p])

Grown(th, th2) == Len(th2) >= Len(th) /\ \A o \in 1 .. Len(th) : th2[o] = th[o]

LEMMA StillSame ==
    ASSUME NEW st, NEW st2, NEW n, \A p \in 1 .. n : st2[p] = st[p]
    PROVE  StillAll(st, st2, n)
  BY DEF StillAll, Still

LEMMA StillFrame ==
    ASSUME NEW st, NEW st2, NEW n, StillAll(st, st2, n), NEW p \in 1 .. n
    PROVE  /\ st2[p].k = st[p].k
           /\ st[p].k # "ccb" => st2[p] = st[p]
           /\ st[p].k = "ccb" =>
                  st2[p].rec = st[p].rec /\ st2[p].try = st[p].try /\ st2[p].phase = st[p].phase
  BY DEF StillAll, Still

LEMMA StillLess ==
    ASSUME NEW st, NEW st2, NEW n \in Nat, StillAll(st, st2, n), NEW m \in Nat, m <= n
    PROVE  StillAll(st, st2, m)
  BY DEF StillAll

LEMMA StillGone ==
    ASSUME NEW st, NEW st2, NEW m \in Nat, StillAll(st, st2, m), NEW T, NEW rec, NEW q \in 1 .. m
    PROVE  /\ EndsAt(st2, q, rec) <=> EndsAt(st, q, rec)
           /\ BarsAt(st2, q, T) <=> BarsAt(st, q, T)
           /\ HandlesAt(st2, m, q, T) <=> HandlesAt(st, m, q, T)
           /\ \A i : Innermost(st2, m, q, T, i) /\ st[q].k \in Scoped <=> Innermost(st, m, q, T, i) /\ st[q].k \in Scoped
           /\ GoneBy(st2, m, q, rec, T) <=> GoneBy(st, m, q, rec, T)
  <1>1. /\ st2[q].k = st[q].k
        /\ st[q].k # "ccb" => st2[q] = st[q]
        /\ st[q].k = "ccb" => st2[q].phase = st[q].phase
    BY StillFrame
  <1>2. EndsAt(st2, q, rec) <=> EndsAt(st, q, rec)
    BY <1>1 DEF EndsAt
  <1>3. BarsAt(st2, q, T) <=> BarsAt(st, q, T)
    BY <1>1 DEF BarsAt
  <1>4. ASSUME st[q].k \in Scoped PROVE TakesAt(st2, m, q, T) = TakesAt(st, m, q, T)
    <2>1. st2[q] = st[q]
      BY <1>1, <1>4 DEF Scoped
    <2>2. Under(st2, m, q) = Under(st, m, q)
      <3>1. CASE q < m
        <4>1. q + 1 \in 1 .. m
          BY <3>1
        <4>2. st2[q + 1].k = st[q + 1].k /\ (st[q + 1].k = "ccb" => st2[q + 1].try = st[q + 1].try)
          BY <4>1, StillFrame
        <4> QED BY <2>1, <4>2 DEF Under
      <3> QED BY <2>1, <3>1 DEF Under
    <2>3. TriesUnder(st2, m, q) = TriesUnder(st, m, q)
      BY <2>1, <2>2 DEF TriesUnder
    <2> QED BY <2>1, <2>3 DEF TakesAt
  <1>5. HandlesAt(st2, m, q, T) <=> HandlesAt(st, m, q, T)
    BY <1>1, <1>4 DEF HandlesAt
  <1>6. \A i : Innermost(st2, m, q, T, i) /\ st[q].k \in Scoped <=> Innermost(st, m, q, T, i) /\ st[q].k \in Scoped
    BY <1>1, <1>4 DEF Innermost, Scoped
  <1> QED BY <1>2, <1>3, <1>5, <1>6 DEF GoneBy

LEMMA StillWant ==
    ASSUME NEW st, NEW st2, NEW m \in Nat, StillAll(st, st2, m), NEW rec, NEW T, NEW w
    PROVE  /\ WantOK(st, m, rec, T, w) => WantOK(st2, m, rec, T, w)
           /\ \A a \in Nat : GoneDown(st2, m, a, rec, T) <=> GoneDown(st, m, a, rec, T)
  <1>1. ASSUME NEW a \in Nat PROVE GoneDown(st2, m, a, rec, T) <=> GoneDown(st, m, a, rec, T)
    <2>1. \A q \in a + 1 .. m : q \in 1 .. m
      OBVIOUS
    <2>2. \A q \in a + 1 .. m : GoneBy(st2, m, q, rec, T) <=> GoneBy(st, m, q, rec, T)
      BY <2>1, StillGone
    <2> QED BY <2>2 DEF GoneDown
  <1>2. ASSUME WantOK(st, m, rec, T, w), NEW a \in 1 .. m, GoneDown(st2, m, a, rec, T)
        PROVE  /\ EndsAt(st2, a, rec) => w = [pos |-> a, try |-> 0]
               /\ HandlesAt(st2, m, a, T) =>
                      \E i : Innermost(st2, m, a, T, i) /\ w = [pos |-> a, try |-> i]
               /\ BarsAt(st2, a, T) /\ ~HandlesAt(st2, m, a, T) => w = Nowhere
    <2>1. GoneDown(st, m, a, rec, T)
      BY <1>1, <1>2
    <2>2. /\ EndsAt(st, a, rec) => w = [pos |-> a, try |-> 0]
          /\ HandlesAt(st, m, a, T) => \E i : Innermost(st, m, a, T, i) /\ w = [pos |-> a, try |-> i]
          /\ BarsAt(st, a, T) /\ ~HandlesAt(st, m, a, T) => w = Nowhere
      BY <1>2, <2>1 DEF WantOK
    <2>3. /\ EndsAt(st2, a, rec) <=> EndsAt(st, a, rec)
          /\ BarsAt(st2, a, T) <=> BarsAt(st, a, T)
          /\ HandlesAt(st2, m, a, T) <=> HandlesAt(st, m, a, T)
          /\ \A i : Innermost(st2, m, a, T, i) /\ st[a].k \in Scoped <=> Innermost(st, m, a, T, i) /\ st[a].k \in Scoped
      BY StillGone
    <2>4. HandlesAt(st, m, a, T) => st[a].k \in Scoped
      BY DEF HandlesAt
    <2> QED BY <2>2, <2>3, <2>4
  <1>3. ASSUME WantOK(st, m, rec, T, w), GoneDown(st2, m, 0, rec, T) PROVE w = Nowhere
    BY <1>1, <1>3 DEF WantOK
  <1> QED BY <1>1, <1>2, <1>3 DEF WantOK

LEMMA StillCurrent ==
    ASSUME NEW st, NEW st2, NEW m \in Nat, StillAll(st, st2, m), NEW c, IsCurrent(st, m, c)
    PROVE  IsCurrent(st2, m, c)
  <1>1. \A p \in 1 .. m : /\ st2[p].k = st[p].k
                          /\ st[p].k # "ccb" => st2[p] = st[p]
                          /\ st[p].k = "ccb" => st2[p].rec = st[p].rec
    BY StillFrame
  <1>2. ASSUME NEW p PROVE Seen(st2, m, p) <=> Seen(st, m, p)
    <2>1. \A q \in 1 .. m : st[q].k = "unw" => st2[q] = st[q]
      BY <1>1
    <2> QED BY <1>1, <2>1 DEF Seen
  <1>3. HandlersIn(st2, m) = HandlersIn(st, m)
    BY <1>1, <1>2 DEF HandlersIn
  <1>4. \A p \in HandlersIn(st, m) : st2[p].rec = st[p].rec
    BY <1>1 DEF HandlersIn
  <1> QED BY <1>3, <1>4 DEF IsCurrent

LEMMA CurrentOnce ==
    ASSUME NEW st, NEW m, NEW c, NEW d, IsCurrent(st, m, c), IsCurrent(st, m, d)
    PROVE  c = d
  <1>1. CASE HandlersIn(st, m) = {}
    BY <1>1 DEF IsCurrent
  <1>2. CASE HandlersIn(st, m) # {}
    <2>1. PICK x \in HandlersIn(st, m) : (\A q \in HandlersIn(st, m) : q <= x) /\ c = st[x].rec
      BY <1>2 DEF IsCurrent
    <2>2. PICK y \in HandlersIn(st, m) : (\A q \in HandlersIn(st, m) : q <= y) /\ d = st[y].rec
      BY <1>2 DEF IsCurrent
    <2>3. x \in Int /\ y \in Int /\ x <= y /\ y <= x
      BY <2>1, <2>2 DEF HandlersIn
    <2> QED BY <2>1, <2>2, <2>3
  <1> QED BY <1>1, <1>2

(* A frame that does not change needs no proof. *)
LEMMA StillFor ==
    ASSUME NEW st, NEW st2, NEW n, Formed(st, n), StillAll(st, st2, n), NEW p \in 1 .. n,
           NEW th, NEW th2, Len(th) \in Nat, Grown(th, th2), Len(th2) \in Nat, FrameFor(st, p, th)
    PROVE  FrameFor(st2, p, th2)
  <1>1. /\ n \in Nat /\ p \in Nat /\ Own(st[p]) /\ Down(st, p)
    BY DEF Formed
  <1>2. \A q \in 1 .. n : /\ st2[q].k = st[q].k
                          /\ st[q].k # "ccb" => st2[q] = st[q]
                          /\ st[q].k = "ccb" => st2[q].try = st[q].try
    BY StillFrame
  <1>3. /\ st2[p].k = st[p].k
        /\ st[p].k # "ccb" => st2[p] = st[p]
        /\ st[p].k = "ccb" => st2[p].try = st[p].try
    BY <1>2
  <1>4. PlainFor(st2, p)
    <2>1. st[p].k = "ccb" => st2[p - 1] = st[p - 1]
      <3> HAVE st[p].k = "ccb"
      <3>1. p - 1 \in 1 .. n /\ st[p - 1].k \in Scoped
        BY CcbGroup
      <3> QED BY <1>2, <3>1 DEF Scoped
    <2>2. ASSUME NEW a, a \in Nat, a > 0, a < p, st[a].k \in Scoped PROVE st2[a] = st[a]
      <3>1. a \in 1 .. n
        BY <1>1, <2>2
      <3> QED BY <1>2, <2>2, <3>1 DEF Scoped
    <2>3. st[p].k = "raise" /\ st[p].phase = "build" => st2[st[p].at] = st[st[p].at]
      <3> HAVE st[p].k = "raise" /\ st[p].phase = "build"
      <3>1. st[p].at \in Nat /\ st[p].at > 0 /\ st[p].at < p /\ Accepts(st, st[p].at, st[p].hit.try)
        BY <1>1 DEF Own, OwnRaise, Down, DownRaise
      <3> QED BY <2>2, <3>1 DEF Accepts, Scoped
    <2>4. st[p].k = "unw" /\ st[p].hit # NoHit => st2[st[p].target] = st[st[p].target]
      <3> HAVE st[p].k = "unw" /\ st[p].hit # NoHit
      <3>1. /\ st[p].target \in Nat /\ st[p].target > 0 /\ st[p].target < p /\ Lands(st, st[p])
        BY <1>1 DEF Own, OwnUnw, Down, DownUnw
      <3>2. st[st[p].target].k \in Scoped
        BY <3>1 DEF Lands, Accepts, Scoped
      <3> QED BY <2>2, <3>1, <3>2
    <2>5. st[p].k = "unw" /\ st[p].phase # "scan" => st2[st[p].at] = st[st[p].at]
      <3> HAVE st[p].k = "unw" /\ st[p].phase # "scan"
      <3>1. /\ st[p].at \in Nat /\ st[p].at > 0 /\ st[p].at < p /\ Lands(st, st[p])
            /\ st[p].phase = "land" => st[p].at = st[p].target /\ st[p].hit # NoHit
            /\ st[p].phase = "states" => st[st[p].at].k \in {"fn", "catch"}
            /\ st[p].phase \in {"states", "land"}
        BY <1>1 DEF Own, OwnUnw, Down, DownUnw
      <3>2. st[st[p].at].k \in Scoped
        BY <3>1 DEF Lands, Accepts, Scoped
      <3> QED BY <2>2, <3>1, <3>2
    <2>6. PlainFor(st, p)
      BY DEF FrameFor
    <2> QED BY <1>3, <2>1, <2>3, <2>4, <2>5, <2>6 DEF PlainFor, LowAt, Scoped
  <1>5. RaiseFor(st2, p, th2)
    <2> SUFFICES ASSUME st[p].k = "raise", st[p].want # Unspecified, st2[p] = st[p]
                 PROVE  /\ st[p].rec \in Nat /\ st[p].scope = 0 /\ ~st[p].again
                        /\ \E c : IsCurrent(st2, p - 1, c) /\ SearchFor(st2, p, th2, Mean(st[p].rec, c))
      BY <1>3 DEF RaiseFor
    <2>1. /\ st[p].rec \in Nat /\ st[p].scope = 0 /\ ~st[p].again
          /\ \E c : IsCurrent(st, p - 1, c) /\ SearchFor(st, p, th, Mean(st[p].rec, c))
      BY DEF FrameFor, RaiseFor
    <2>2. PICK c : IsCurrent(st, p - 1, c) /\ SearchFor(st, p, th, Mean(st[p].rec, c))
      BY <2>1
    <2>3. p - 1 \in Nat /\ p - 1 <= n /\ st[p].at \in Nat
      BY <1>1 DEF Own, OwnRaise
    <2>4. StillAll(st, st2, p - 1)
      BY <1>1, <2>3, StillLess
    <2>5. IsCurrent(st2, p - 1, c)
      BY <2>2, <2>3, <2>4, StillCurrent
    <2>6. PICK o : o = Mean(st[p].rec, c)
      OBVIOUS
    <2>7. SearchFor(st, p, th, o)
      BY <2>2, <2>6
    <2>8. TypeIn(th2, o) = TypeIn(th, o)
      <3>1. CASE IsObject(o)
        <4>1. o \in 1 .. Len(th)
          BY <2>7, <3>1 DEF SearchFor, IsObject, NoRecord
        <4> QED BY <3>1, <4>1 DEF TypeIn, Grown
      <3> QED BY <3>1 DEF TypeIn
    <2>9. o = NoRecord \/ o \in 1 .. Len(th2)
      BY <2>7 DEF SearchFor, Grown
    <2>10. WantOK(st2, p - 1, st[p].rec, TypeIn(th2, o), st[p].want)
      <3>1. WantOK(st, p - 1, st[p].rec, TypeIn(th, o), st[p].want)
        BY <2>7 DEF SearchFor
      <3> QED BY <2>3, <2>4, <2>8, <3>1, StillWant
    <2>11. GoneDown(st2, p - 1, st[p].at, st[p].rec, TypeIn(th2, o))
      <3>1. GoneDown(st, p - 1, st[p].at, st[p].rec, TypeIn(th, o))
        BY <2>7 DEF SearchFor
      <3> QED BY <2>3, <2>4, <2>8, <3>1, StillWant, Zenon
    <2>12. SearchFor(st2, p, th2, o)
      BY <2>7, <2>9, <2>10, <2>11 DEF SearchFor
    <2> QED BY <2>1, <2>5, <2>6, <2>12
  <1>6. UnwFor(st2, p)
    BY <1>3 DEF FrameFor, UnwFor
  <1>7. RecFor(st2, p, th2)
    <2>1. RecFor(st, p, th)
      BY DEF FrameFor
    <2>2. \A rec : Known(rec, th) => Known(rec, th2)
      BY DEF Known, Grown
    <2>3. st[p].k = "ccb" => st2[p].rec = st[p].rec
      BY StillFrame
    <2>4. ASSUME st[p].k = "raise", st[p].phase = "build"
          PROVE  \E c : IsCurrent(st2, p - 1, c) /\ Known(Mean(st[p].rec, c), th2)
      <3>1. PICK c : IsCurrent(st, p - 1, c) /\ Known(Mean(st[p].rec, c), th)
        BY <2>1, <2>4 DEF RecFor
      <3>2. p - 1 \in Nat /\ p - 1 <= n
        BY <1>1
      <3>3. IsCurrent(st2, p - 1, c)
        BY <1>1, <3>1, <3>2, StillLess, StillCurrent
      <3> QED BY <2>2, <3>1, <3>3
    <2> QED BY <1>3, <2>1, <2>2, <2>3, <2>4 DEF RecFor
  <1> QED BY <1>4, <1>5, <1>6, <1>7 DEF FrameFor

-----------------------------------------------------------------------------
(* Steps, by what they do to the frames *)

LEMMA HandFacts ==
    ASSUME EhInv, StateInv, HandInv, Precise
    PROVE  /\ FramesFor(stack, Top, thrown) /\ TopFor(stack, Top, csp)
           /\ \A p \in 1 .. Top : FrameFor(stack, p, thrown)
           /\ FrameFor(stack, Top, thrown) /\ Len(thrown) \in Nat /\ Grown(thrown, thrown)
           /\ \A o \in 1 .. Len(thrown) : thrown[o] \in DOMAIN Catchable /\ thrown[o] # "none"
           /\ Formed(stack, Top) /\ Top \in Nat /\ Top > 0 /\ Run = stack[Top]
  <1>1. FramesFor(stack, Top, thrown) /\ TopFor(stack, Top, csp)
    BY DEF HandInv, Precise
  <1>2. Formed(stack, Top) /\ Top \in Nat /\ Top > 0 /\ Run = stack[Top]
    BY StateFacts
  <1>3. Len(thrown) \in Nat /\ \A o \in 1 .. Len(thrown) : thrown[o] \in DOMAIN Catchable
    BY DEF EhInv, TypesInv
  <1>4. \A o \in 1 .. Len(thrown) : thrown[o] # "none"
    BY <1>3, EhAssumption
  <1>5. Grown(thrown, thrown)
    BY <1>3 DEF Grown
  <1>6. \A p \in 1 .. Top : FrameFor(stack, p, thrown)
    BY <1>1 DEF FramesFor
  <1>7. FrameFor(stack, Top, thrown)
    BY <1>2, <1>6
  <1> QED BY <1>1, <1>2, <1>3, <1>4, <1>5, <1>6, <1>7

(* What remains to be shown of a step that does not stop the program. *)
LEMMA HandIf ==
    ASSUME Running', Precise' => FramesFor(stack', Top', thrown') /\ TopFor(stack', Top', csp')
    PROVE  HandInv'
  BY DEF HandInv, Precise

LEMMA HandStops ==
    ASSUME ~Running', (mode.fh = 4 /\ stale = {})' => (\A p \in 1 .. Top' : UnwFor(stack', p)) /\ Ended'
    PROVE  HandInv'
  BY DEF HandInv

(* The first n frames stay, m - n others follow. *)
LEMMA FramesOn ==
    ASSUME EhInv, StateInv, HandInv, Precise, NEW n \in Nat, n <= Top,
           NEW st2, StillAll(stack, st2, n), NEW th2, Grown(thrown, th2), Len(th2) \in Nat,
           NEW m \in Nat, n <= m, \A p \in n + 1 .. m : FrameFor(st2, p, th2)
    PROVE  FramesFor(st2, m, th2)
  <1> SUFFICES ASSUME NEW p \in 1 .. m PROVE FrameFor(st2, p, th2)
    BY DEF FramesFor
  <1>1. /\ Formed(stack, n) /\ Len(thrown) \in Nat /\ Top \in Nat
        /\ \A q \in 1 .. n : q \in 1 .. Top /\ FrameFor(stack, q, thrown)
    BY HandFacts, FormedLess
  <1>2. CASE p \in 1 .. n
    BY <1>1, <1>2, StillFor
  <1>3. CASE p \notin 1 .. n
    BY <1>1, <1>3
  <1> QED BY <1>2, <1>3

LEMMA OneOn ==
    ASSUME EhInv, StateInv, HandInv, Precise, NEW n \in Nat, n <= Top,
           NEW st2, StillAll(stack, st2, n), NEW th2, Grown(thrown, th2), Len(th2) \in Nat,
           FrameFor(st2, n + 1, th2)
    PROVE  FramesFor(st2, n + 1, th2)
  <1>1. \A p \in n + 1 .. n + 1 : FrameFor(st2, p, th2)
    <2>1. \A p \in n + 1 .. n + 1 : p = n + 1
      OBVIOUS
    <2> QED BY <2>1
  <1>2. n + 1 \in Nat /\ n <= n + 1
    OBVIOUS
  <1> QED BY <1>1, <1>2, FramesOn

LEMMA TwoOn ==
    ASSUME EhInv, StateInv, HandInv, Precise, NEW n \in Nat, n <= Top,
           NEW st2, StillAll(stack, st2, n), NEW th2, Grown(thrown, th2), Len(th2) \in Nat,
           FrameFor(st2, n + 1, th2), FrameFor(st2, n + 2, th2)
    PROVE  FramesFor(st2, n + 2, th2)
  <1>1. \A p \in n + 1 .. n + 2 : FrameFor(st2, p, th2)
    <2>1. \A p \in n + 1 .. n + 2 : p = n + 1 \/ p = n + 2
      OBVIOUS
    <2> QED BY <2>1
  <1>2. n + 2 \in Nat /\ n <= n + 2
    OBVIOUS
  <1> QED BY <1>1, <1>2, FramesOn

(* Frames of the program. *)
LEMMA UserFor ==
    ASSUME NEW st, NEW p, st[p].k \in User, st[p].k \in Scoped => PlainState(st[p], st[p].ip), NEW th
    PROVE  FrameFor(st, p, th) /\ \A c : TopFor(st, p, c)
  BY DEF FrameFor, PlainFor, RecFor, RaiseFor, UnwFor, TopFor, User

(* A search that starts. *)
LEMMA RaiseStarts ==
    ASSUME NEW st, NEW n \in Nat, st[n].k = "raise", st[n].phase = "scan", st[n].scope = 0, st[n].again = FALSE,
           st[n].at = n - 1, NEW th, st[n].rec = Rethrown \/ Known(st[n].rec, th),
           st[n].want # Unspecified =>
               /\ st[n].rec \in Nat
               /\ \E c : /\ IsCurrent(st, n - 1, c)
                         /\ Mean(st[n].rec, c) = NoRecord \/ Mean(st[n].rec, c) \in 1 .. Len(th)
                         /\ WantOK(st, n - 1, st[n].rec, TypeIn(th, Mean(st[n].rec, c)), st[n].want)
    PROVE  FrameFor(st, n, th) /\ \A c : TopFor(st, n, c)
  <1>1. PlainFor(st, n) /\ RecFor(st, n, th) /\ UnwFor(st, n) /\ \A c : TopFor(st, n, c)
    BY DEF PlainFor, RecFor, UnwFor, TopFor, Scoped
  <1>2. \A T : GoneDown(st, n - 1, n - 1, st[n].rec, T)
    BY DEF GoneDown
  <1>3. RaiseFor(st, n, th)
    <2> SUFFICES ASSUME st[n].want # Unspecified
                 PROVE  \E c : IsCurrent(st, n - 1, c) /\ SearchFor(st, n, th, Mean(st[n].rec, c))
      BY DEF RaiseFor
    <2>1. PICK c : /\ IsCurrent(st, n - 1, c)
                   /\ Mean(st[n].rec, c) = NoRecord \/ Mean(st[n].rec, c) \in 1 .. Len(th)
                   /\ WantOK(st, n - 1, st[n].rec, TypeIn(th, Mean(st[n].rec, c)), st[n].want)
      OBVIOUS
    <2>2. SearchFor(st, n, th, Mean(st[n].rec, c))
      BY <1>2, <2>1 DEF SearchFor
    <2> QED BY <2>1, <2>2
  <1> QED BY <1>1, <1>3 DEF FrameFor

(* What is known of the search that is going on. *)
LEMMA RaiseNow ==
    ASSUME EhInv, StateInv, HandInv, Precise, Run.k = "raise"
    PROVE  /\ IsCurrent(stack, Top - 1, cur) /\ Mean(Run.rec, cur) = Meant(Run.rec)
           /\ Top > 1 /\ Top - 1 \in Nat /\ Top - 1 <= Top /\ (Top - 1) + 1 = Top
           /\ Formed(stack, Top - 1)
           /\ Run.rec = Rethrown \/ Known(Run.rec, thrown)
           /\ Run.want # Unspecified =>
                 /\ Run.rec \in Nat /\ Run.scope = 0 /\ Run.again = FALSE /\ Run.at \in Nat /\ Run.at < Top
                 /\ SearchFor(stack, Top, thrown, Meant(Run.rec))
           /\ Run.phase = "build" =>
                 /\ Known(Meant(Run.rec), thrown)
                 /\ PlainState(stack[Run.at], LowAt(stack, Run.at, Run.hit.try))
                 /\ stack[Run.at].k \in Scoped
  <1>1. /\ FrameFor(stack, Top, thrown) /\ Formed(stack, Top) /\ Top \in Nat /\ Run = stack[Top]
        /\ Formed(stack, Top - 1) /\ Own(Run) /\ Down(stack, Top)
    BY HandFacts, StateFacts
  <1>2. Top > 1 /\ Run.again \in BOOLEAN /\ Run.at \in Nat /\ Run.at < Top
    BY RaiseSees
  <1>3. IsCurrent(stack, Top, cur)
    BY DEF EhInv, FramesInv, CurrentOK, Precise, Running, Top
  <1>4. HandlersIn(stack, Top) = HandlersIn(stack, Top - 1)
    BY <1>1, <1>2, HandlersBelow
  <1>5. IsCurrent(stack, Top - 1, cur)
    BY <1>3, <1>4 DEF IsCurrent
  <1>6. Mean(Run.rec, cur) = Meant(Run.rec)
    BY DEF Mean, Meant
  <1>7. \A c : IsCurrent(stack, Top - 1, c) => c = cur
    BY <1>5, CurrentOnce
  <1>8. ASSUME Run.want # Unspecified
        PROVE  /\ Run.rec \in Nat /\ Run.scope = 0 /\ Run.again = FALSE
               /\ SearchFor(stack, Top, thrown, Meant(Run.rec))
    <2>1. /\ Run.rec \in Nat /\ Run.scope = 0 /\ ~Run.again
          /\ \E c : IsCurrent(stack, Top - 1, c) /\ SearchFor(stack, Top, thrown, Mean(Run.rec, c))
      BY <1>1, <1>8 DEF FrameFor, RaiseFor
    <2> QED BY <1>2, <1>6, <1>7, <2>1
  <1>9. ASSUME Run.phase = "build"
        PROVE  /\ Known(Meant(Run.rec), thrown)
               /\ PlainState(stack[Run.at], LowAt(stack, Run.at, Run.hit.try))
               /\ stack[Run.at].k \in Scoped
    <2>1. \E c : IsCurrent(stack, Top - 1, c) /\ Known(Mean(Run.rec, c), thrown)
      BY <1>1, <1>9 DEF FrameFor, RecFor
    <2>2. PlainState(stack[Run.at], LowAt(stack, Run.at, Run.hit.try))
      BY <1>1, <1>9 DEF FrameFor, PlainFor
    <2>3. stack[Run.at].k \in Scoped
      BY <1>1, <1>9 DEF Down, DownRaise, Accepts, Scoped
    <2> QED BY <1>6, <1>7, <2>1, <2>2, <2>3
  <1>10. Run.rec = Rethrown \/ Known(Run.rec, thrown)
    BY <1>1 DEF FrameFor, RecFor
  <1>11. Top - 1 \in Nat /\ Top - 1 <= Top /\ (Top - 1) + 1 = Top
    BY <1>1, <1>2
  <1> QED BY <1>1, <1>2, <1>5, <1>6, <1>8, <1>9, <1>10, <1>11, Zenon

(* The top frame becomes r. *)
LEMMA TopBecomes ==
    ASSUME EhInv, StateInv, Precise, NEW r, NEW s, s = [stack EXCEPT ![Top] = r]
    PROVE  /\ IsStack(s) /\ Len(s) = Top /\ s[Top] = r /\ StillAll(stack, s, Top - 1)
           /\ \A p \in 1 .. Top - 1 : s[p] = stack[p]
           /\ Top \in Nat /\ Top > 0 /\ Top - 1 \in Nat /\ Top - 1 <= Top /\ (Top - 1) + 1 = Top
  <1>1. Top \in 1 .. Len(stack) /\ Top = Len(stack) /\ IsStack(stack) /\ Top \in Nat /\ Top > 0
    BY StateFacts DEF Top
  <1>2. IsStack(s) /\ Len(s) = Top /\ s[Top] = r /\ \A p \in 1 .. Top : p # Top => s[p] = stack[p]
    <2>1. Changed(stack, s, Top, r)
      BY <1>1, ChangeFrameTo, Zenon
    <2> QED BY <1>1, <2>1 DEF Changed
  <1>3. \A p \in 1 .. Top - 1 : s[p] = stack[p]
    BY <1>1, <1>2
  <1>4. StillAll(stack, s, Top - 1)
    BY <1>3, StillSame, Zenon
  <1>5. Top - 1 \in Nat /\ Top - 1 <= Top /\ (Top - 1) + 1 = Top
    BY <1>1
  <1> QED BY <1>1, <1>2, <1>3, <1>4, <1>5

(* A frame is pushed. *)
LEMMA TopGrows ==
    ASSUME EhInv, StateInv, Precise, NEW s, IsStack(s), Len(s) = Top, NEW fr,
           NEW st2, st2 = Append(s, fr)
    PROVE  /\ Len(st2) = Top + 1 /\ st2[Top + 1] = fr /\ st2[Top] = s[Top]
           /\ \A p \in 1 .. Top : st2[p] = s[p]
           /\ StillAll(stack, s, Top - 1) => StillAll(stack, st2, Top - 1)
           /\ Top \in Nat /\ Top > 0 /\ (Top + 1) - 1 = Top
  <1>1. Top \in Nat /\ Top > 0 /\ Top \in 1 .. Top
    BY StateFacts
  <1>2. Len(st2) = Top + 1 /\ st2[Top + 1] = fr /\ \A p \in 1 .. Top : st2[p] = s[p]
    BY <1>1, PushFrame
  <1>3. st2[Top] = s[Top]
    BY <1>1, <1>2
  <1>4. \A p \in 1 .. Top - 1 : st2[p] = s[p]
    BY <1>1, <1>2
  <1>5. StillAll(stack, s, Top - 1) => StillAll(stack, st2, Top - 1)
    BY <1>4 DEF StillAll
  <1> QED BY <1>1, <1>2, <1>3, <1>5

LEMMA StackStays ==
    ASSUME EhInv, StateInv, Precise
    PROVE  /\ IsStack(stack) /\ Len(stack) = Top /\ StillAll(stack, stack, Top) /\ StillAll(stack, stack, Top - 1)
           /\ Top \in Nat /\ Top <= Top
  <1>1. IsStack(stack) /\ Len(stack) = Top /\ Top \in Nat
    BY StateFacts DEF Top
  <1> QED BY <1>1, StillSame

-----------------------------------------------------------------------------
(* The program *)

(* The running function or catch block goes to another state. *)
LEMMA IpHand ==
    ASSUME EhInv, StateInv, HandInv, Precise, Run.k \in Scoped, NEW s,
           stack' = [stack EXCEPT ![Top].ip = s], thrown' = thrown,
           PlainState(Run, s)
    PROVE  FramesFor(stack', Top', thrown') /\ TopFor(stack', Top', csp')
  <1>1. /\ Top \in Nat /\ Top > 0 /\ Top \in 1 .. Top /\ DOMAIN stack = 1 .. Top /\ Run = stack[Top]
        /\ Own(Run) /\ FramesFor(stack, Top, thrown) /\ Grown(thrown, thrown) /\ Len(thrown) \in Nat
    BY StateFacts, HandFacts
  <1>2. PICK fr : fr = [Run EXCEPT !.ip = s]
    BY Zenon
  <1>3. fr.k = Run.k /\ fr.f = Run.f /\ fr.ip = s /\ (Run.k = "catch" => fr.try = Run.try)
    BY <1>1, <1>2 DEF Own, OwnFn, OwnCatch, Scoped, FnFields, CatchFields
  <1>4. PICK st2 : st2 = stack'
    OBVIOUS
  <1>5. st2 = [stack EXCEPT ![Top] = fr]
    BY <1>1, <1>2, <1>4
  <1>6. /\ Len(st2) = Top /\ st2[Top] = fr /\ StillAll(stack, st2, Top - 1)
        /\ Top - 1 \in Nat /\ Top - 1 <= Top /\ (Top - 1) + 1 = Top
    BY <1>5, TopBecomes, Zenon
  <1>7. PlainState(fr, s)
    BY <1>3 DEF PlainState
  <1>8. FrameFor(st2, Top, thrown) /\ TopFor(st2, Top, csp')
    <2>1. st2[Top].k \in User /\ PlainState(st2[Top], st2[Top].ip)
      BY <1>3, <1>6, <1>7 DEF User, Scoped
    <2> QED BY <2>1, UserFor, Zenon
  <1>9. FramesFor(st2, Top, thrown)
    <2>1. FrameFor(st2, (Top - 1) + 1, thrown)
      BY <1>6, <1>8
    <2>2. FramesFor(st2, (Top - 1) + 1, thrown)
      BY <1>1, <1>6, <2>1, OneOn
    <2> QED BY <1>6, <2>2
  <1>10. Top' = Top
    BY <1>4, <1>6 DEF Top
  <1> QED BY <1>4, <1>8, <1>9, <1>10

LEMMA EnterScopeHand ==
    ASSUME EhInv, StateInv, HandInv, EnterScope
    PROVE  HandInv'
  <1>1. Run.k \in Scoped /\ Running /\ UNCHANGED <<mode, halt, stale, thrown>>
    BY DEF EnterScope, RunIsUser, User, Scoped
  <1>2. PICK s \in DOMAIN Prog[Run.f].unwind :
            /\ UWE_TOSTATE(Run.f, s) = Run.ip
            /\ \A t \in Range(Tries(Run.f)) : s # t.high + 1
            /\ stack' = [stack EXCEPT ![Top].ip = s]
    BY Zenon DEF EnterScope
  <1>3. ASSUME Precise'
        PROVE  FramesFor(stack', Top', thrown') /\ TopFor(stack', Top', csp')
    <2>1. Precise
      BY <1>1, <1>3 DEF Precise, Running
    <2>2. Own(Run) /\ Run = stack[Top] /\ FrameFor(stack, Top, thrown)
      BY <2>1, HandFacts, StateFacts
    <2>3. Run.f \in DOMAIN Prog /\ PlainState(Run, Run.ip)
      BY <1>1, <2>2 DEF Own, OwnFn, OwnCatch, Scoped, FrameFor, PlainFor
    <2>4. \A i \in DOMAIN Tries(Run.f) : s # Try(Run.f, i).high + 1
      BY <1>2 DEF Tries, Try, Range
    <2>5. PlainState(Run, s)
      <3>1. PlainState(Run, UWE_TOSTATE(Run.f, s))
        BY <1>2, <2>3
      <3> QED BY <2>3, <2>4, <3>1, PlainEnters
    <2> QED BY <1>1, <1>2, <2>1, <2>5, IpHand, Zenon
  <1>4. Running'
    BY <1>1 DEF Running
  <1> QED BY <1>3, <1>4, HandIf

LEMMA LeaveScopeHand ==
    ASSUME EhInv, StateInv, HandInv, LeaveScope
    PROVE  HandInv'
  <1>1. /\ Run.k \in Scoped /\ Running /\ UNCHANGED <<mode, halt, stale, thrown>>
        /\ Run.ip # Base(Top) /\ stack' = [stack EXCEPT ![Top].ip = UWE_TOSTATE(Run.f, Run.ip)]
    BY DEF LeaveScope, RunIsUser, User, Scoped
  <1>2. ASSUME Precise'
        PROVE  FramesFor(stack', Top', thrown') /\ TopFor(stack', Top', csp')
    <2>1. Precise
      BY <1>1, <1>2 DEF Precise, Running
    <2>2. Own(Run) /\ Run = stack[Top] /\ FrameFor(stack, Top, thrown)
      BY <2>1, HandFacts, StateFacts
    <2>3. Run.f \in DOMAIN Prog /\ PlainState(Run, Run.ip)
      BY <1>1, <2>2 DEF Own, OwnFn, OwnCatch, Scoped, FrameFor, PlainFor
    <2>4. Run.ip \in DOMAIN Prog[Run.f].unwind
      BY <1>1, <2>2 DEF Own, OwnFn, OwnCatch, Scoped, Base
    <2>5. PlainState(Run, UWE_TOSTATE(Run.f, Run.ip))
      BY <2>3, <2>4, PlainUnwinds
    <2> QED BY <1>1, <2>1, <2>5, IpHand, Zenon
  <1>3. Running'
    BY <1>1 DEF Running
  <1> QED BY <1>2, <1>3, HandIf

LEMMA CallHand ==
    ASSUME EhInv, StateInv, HandInv, Call
    PROVE  HandInv'
  <1>1. Run.k \in User /\ Running /\ UNCHANGED <<mode, halt, stale, thrown>>
    BY DEF Call, RunIsUser, ghost
  <1>2. PICK g \in Prog[Run.f].calls : stack' = Append(stack, Enter(g))
    BY DEF Call
  <1>3. ASSUME Precise'
        PROVE  FramesFor(stack', Top', thrown') /\ TopFor(stack', Top', csp')
    <2>1. Precise
      BY <1>1, <1>3 DEF Precise, Running
    <2>2. Run.f \in DOMAIN Prog
      BY <1>1, StackFacts DEF EhInv, Own, OwnFn, OwnSeh, OwnCatch, User
    <2>3. g \in DOMAIN Prog
      BY <2>2, TablesAssumption
    <2>4. PICK fr, st2 : fr = Enter(g) /\ st2 = stack' /\ st2 = Append(stack, fr)
      BY <1>2
    <2>5. fr.k \in User /\ (fr.k \in Scoped => fr.f = g /\ fr.ip = EH_EMPTY_STATE)
      BY <2>4 DEF Enter, Fn, Seh, User, Scoped
    <2>6. fr.k \in Scoped => PlainState(fr, fr.ip)
      BY <2>3, <2>5, TryNumbers DEF PlainState, InCatch, EH_EMPTY_STATE
    <2>7. Len(st2) = Top + 1 /\ st2[Top + 1] = fr /\ \A p \in 1 .. Top : st2[p] = stack[p]
      BY <2>1, <2>4, StackStays, TopGrows
    <2>8. FrameFor(st2, Top + 1, thrown) /\ TopFor(st2, Top + 1, csp')
      BY <2>5, <2>6, <2>7, UserFor, Zenon
    <2>9. FramesFor(st2, Top + 1, thrown)
      BY <2>1, <2>7, <2>8, StackStays, StillSame, HandFacts, OneOn, Zenon
    <2>10. Top' = Top + 1
      BY <2>4, <2>7 DEF Top
    <2> QED BY <1>1, <2>4, <2>8, <2>9, <2>10
  <1>4. Running'
    BY <1>1 DEF Running
  <1> QED BY <1>3, <1>4, HandIf

LEMMA ReturnHand ==
    ASSUME EhInv, StateInv, HandInv, Return
    PROVE  HandInv'
  <1>1. Top > 1 /\ Running /\ UNCHANGED <<mode, halt, stale, thrown>> /\ stack' = Front(stack)
    BY DEF Return, RunIsUser, ghost
  <1>2. ASSUME Precise'
        PROVE  FramesFor(stack', Top', thrown') /\ TopFor(stack', Top', csp')
    <2>1. Precise
      BY <1>1, <1>2 DEF Precise, Running
    <2>2. /\ Top \in Nat /\ IsStack(stack) /\ Top = Len(stack) /\ Buried(stack, Top - 1)
      BY <2>1, StateFacts DEF Top
    <2>3. PICK m : m = Top - 1
      OBVIOUS
    <2>4. m \in Nat /\ m > 0 /\ m \in 1 .. m /\ m <= Top /\ m <= m /\ m \in 0 .. Len(stack)
      BY <1>1, <2>2, <2>3
    <2>5. PICK st2 : st2 = stack'
      OBVIOUS
    <2>6. Len(st2) = m /\ \A p \in 1 .. m : st2[p] = stack[p]
      <3>1. st2 = SubSeq(stack, 1, m)
        BY <1>1, <2>2, <2>3, <2>5 DEF Front
      <3> QED BY <2>2, <2>4, <3>1, CutFrames
    <2>7. StillAll(stack, st2, m)
      BY <2>6, StillSame
    <2>8. FramesFor(st2, m, thrown)
      <3>1. \A p \in m + 1 .. m : FrameFor(st2, p, thrown)
        BY <2>4
      <3> QED BY <2>1, <2>4, <2>7, <3>1, HandFacts, FramesOn
    <2>9. TopFor(st2, m, csp')
      <3>1. stack[m].k = "unw" => stack[m].phase = "states"
        BY <2>2, <2>3, <2>4 DEF Buried, BuriedOK
      <3> QED BY <2>4, <2>6, <3>1 DEF TopFor
    <2>10. Top' = m
      BY <2>5, <2>6 DEF Top
    <2> QED BY <1>1, <2>5, <2>8, <2>9, <2>10
  <1>3. Running'
    BY <1>1 DEF Running
  <1> QED BY <1>2, <1>3, HandIf

(* The exception being handled is one that has been thrown, or foreign. *)
LEMMA CurrentKnown ==
    ASSUME EhInv, StateInv, HandInv, Precise
    PROVE  /\ IsCurrent(stack, Top, cur)
           /\ cur = NoRecord \/ Known(cur, thrown)
  <1>1. IsCurrent(stack, Top, cur)
    BY DEF EhInv, FramesInv, CurrentOK, Precise, Running, Top
  <1>2. ASSUME NEW m \in HandlersIn(stack, Top) PROVE Known(stack[m].rec, thrown)
    <2>1. m \in 1 .. Top /\ stack[m].k = "ccb"
      BY DEF HandlersIn
    <2> QED BY <2>1, HandFacts DEF FrameFor, RecFor
  <1> QED BY <1>1, <1>2 DEF IsCurrent

(* An exception that is raised has the end before it that the frames select. *)
LEMMA RaiseHand ==
    ASSUME EhInv, StateInv, HandInv, Precise, NEW th, Grown(thrown, th), Len(th) \in Nat,
           NEW rec, rec = Rethrown \/ Known(rec, th), NEW want, stack' = Append(stack, Raise(rec, Top, want)),
           want # Unspecified =>
               /\ rec \in Nat
               /\ Mean(rec, cur) = NoRecord \/ Mean(rec, cur) \in 1 .. Len(th)
               /\ want = Want(stack, rec, TypeIn(th, Mean(rec, cur)))
    PROVE  FramesFor(stack', Top', th) /\ TopFor(stack', Top', csp')
  <1>1. /\ IsStack(stack) /\ Len(stack) = Top /\ StillAll(stack, stack, Top) /\ Top \in Nat /\ Top <= Top
        /\ Formed(stack, Top) /\ Top + 1 \in Nat /\ (Top + 1) - 1 = Top
    BY StackStays, HandFacts
  <1>2. PICK fr, st2 : fr = Raise(rec, Top, want) /\ st2 = stack' /\ st2 = Append(stack, fr)
    OBVIOUS
  <1>3. /\ fr.k = "raise" /\ fr.phase = "scan" /\ fr.scope = 0 /\ fr.again = FALSE
        /\ fr.at = Top /\ fr.rec = rec /\ fr.want = want
    BY <1>2 DEF Raise
  <1>4. Len(st2) = Top + 1 /\ st2[Top + 1] = fr /\ \A p \in 1 .. Top : st2[p] = stack[p]
    BY <1>1, <1>2, TopGrows
  <1>5. StillAll(stack, st2, Top)
    BY <1>4, StillSame
  <1>6. ASSUME want # Unspecified
        PROVE  /\ IsCurrent(st2, Top, cur)
               /\ WantOK(st2, Top, rec, TypeIn(th, Mean(rec, cur)), want)
    <2>1. IsCurrent(st2, Top, cur)
      BY <1>1, <1>5, CurrentKnown, StillCurrent
    <2>2. PICK T : T = TypeIn(th, Mean(rec, cur))
      OBVIOUS
    <2>3. WantOK(stack, Top, rec, T, Want(stack, rec, T))
      BY <1>1, WantIsOK
    <2>4. want = Want(stack, rec, T)
      BY <1>6, <2>2
    <2>5. WantOK(st2, Top, rec, T, want)
      BY <1>1, <1>5, <2>3, <2>4, StillWant
    <2> QED BY <2>1, <2>2, <2>5
  <1>7. FrameFor(st2, Top + 1, th) /\ TopFor(st2, Top + 1, csp')
    BY <1>1, <1>3, <1>4, <1>6, RaiseStarts, Zenon
  <1>8. FramesFor(st2, Top + 1, th)
    BY <1>1, <1>5, <1>7, OneOn
  <1>9. Top' = Top + 1
    BY <1>2, <1>4 DEF Top
  <1> QED BY <1>2, <1>7, <1>8, <1>9

LEMMA ThrowHand ==
    ASSUME EhInv, StateInv, HandInv, Throw
    PROVE  HandInv'
  <1>1. Running /\ UNCHANGED <<mode, halt, stale>>
    BY DEF Throw, MayRaise, RunIsUser, runtime
  <1>2. PICK type \in DOMAIN Catchable : thrown' = Append(thrown, type)
    BY DEF Throw
  <1>3. PICK th : th = thrown'
    OBVIOUS
  <1>4. stack' = Append(stack, Raise(Len(th), Top, Want(stack, Len(th), Last(th))))
    BY <1>3 DEF Throw
  <1>5. ASSUME Precise'
        PROVE  FramesFor(stack', Top', thrown') /\ TopFor(stack', Top', csp')
    <2>1. Precise
      BY <1>1, <1>5 DEF Precise, Running
    <2>2. thrown \in Seq(DOMAIN Catchable)
      BY DEF EhInv, TypesInv
    <2>3. PICK rec : rec = Len(th)
      BY Zenon
    <2>4. /\ Len(th) \in Nat /\ Grown(thrown, th) /\ rec \in 1 .. Len(th) /\ rec \in Nat /\ rec > 0
          /\ th[rec] = Last(th)
      BY <1>2, <1>3, <2>2, <2>3 DEF Grown, Last
    <2>5. Mean(rec, cur) = rec /\ TypeIn(th, rec) = Last(th)
      BY <2>4 DEF Mean, TypeIn, IsObject, Rethrown
    <2>6. Known(rec, th)
      BY <2>4 DEF Known
    <2>7. PICK want : want = Want(stack, rec, Last(th))
      OBVIOUS
    <2>8. stack' = Append(stack, Raise(rec, Top, want))
      BY <1>4, <2>3, <2>7
    <2>9. FramesFor(stack', Top', th) /\ TopFor(stack', Top', csp')
      BY <2>1, <2>4, <2>5, <2>6, <2>7, <2>8, RaiseHand
    <2> QED BY <1>3, <2>9
  <1>6. Running'
    BY <1>1 DEF Running
  <1> QED BY <1>5, <1>6, HandIf

LEMMA ExpectedIs ==
    ASSUME NEW st, NEW rec
    PROVE  Expected(st, rec) = IF Meant(rec) = Foreign THEN Unspecified
                               ELSE Want(st, rec, TypeIn(thrown, Meant(rec)))
  BY DEF Expected, TypeIn

LEMMA RethrowHand ==
    ASSUME EhInv, StateInv, HandInv, Rethrow
    PROVE  HandInv'
  <1>1. /\ Running /\ UNCHANGED <<mode, halt, stale, thrown>>
        /\ stack' = Append(stack, Raise(Rethrown, Top, Expected(stack, Rethrown)))
    BY DEF Rethrow, MayRaise, RunIsUser, runtime, ghost
  <1>2. ASSUME Precise'
        PROVE  FramesFor(stack', Top', thrown') /\ TopFor(stack', Top', csp')
    <2>1. Precise
      BY <1>1, <1>2 DEF Precise, Running
    <2>2. Meant(Rethrown) = cur /\ Mean(Rethrown, cur) = cur
      BY DEF Meant, Mean
    <2>3. cur = NoRecord \/ Known(cur, thrown)
      BY <2>1, CurrentKnown
    <2>4. PICK want : want = Expected(stack, Rethrown)
      OBVIOUS
    <2>5. want # Unspecified => cur # Foreign /\ want = Want(stack, Rethrown, TypeIn(thrown, cur))
      BY <2>2, <2>4, ExpectedIs
    <2>6. Rethrown \in Nat
      BY DEF Rethrown
    <2>7. want # Unspecified => cur = NoRecord \/ cur \in 1 .. Len(thrown)
      BY <2>3, <2>5 DEF Known
    <2>8. stack' = Append(stack, Raise(Rethrown, Top, want))
      BY <1>1, <2>4
    <2>9. FramesFor(stack', Top', thrown) /\ TopFor(stack', Top', csp')
      BY <2>1, <2>2, <2>5, <2>6, <2>7, <2>8, HandFacts, RaiseHand, Zenon
    <2> QED BY <1>1, <2>9
  <1>3. Running'
    BY <1>1 DEF Running
  <1> QED BY <1>2, <1>3, HandIf

LEMMA FaultHand ==
    ASSUME EhInv, StateInv, HandInv, Fault
    PROVE  HandInv'
  <1>1. /\ Running /\ UNCHANGED <<mode, halt, stale, thrown>>
        /\ stack' = Append(stack, Raise(Foreign, Top, Unspecified))
    BY DEF Fault, MayRaise, RunIsUser, runtime, ghost
  <1>2. ASSUME Precise'
        PROVE  FramesFor(stack', Top', thrown') /\ TopFor(stack', Top', csp')
    <2>1. Precise
      BY <1>1, <1>2 DEF Precise, Running
    <2>2. Known(Foreign, thrown)
      BY DEF Known
    <2>3. PICK want : want = Unspecified
      OBVIOUS
    <2>4. stack' = Append(stack, Raise(Foreign, Top, want))
      BY <1>1, <2>3
    <2>5. FramesFor(stack', Top', thrown) /\ TopFor(stack', Top', csp')
      BY <2>1, <2>2, <2>3, <2>4, HandFacts, RaiseHand
    <2> QED BY <1>1, <2>5
  <1>3. Running'
    BY <1>1 DEF Running
  <1> QED BY <1>2, <1>3, HandIf

LEMMA CatchDoneHand ==
    ASSUME EhInv, StateInv, HandInv, CatchDone
    PROVE  HandInv'
  <1>1. Run.k = "catch" /\ Running /\ UNCHANGED <<mode, halt, stale, thrown>>
    BY DEF CatchDone, RunIsUser
  <1>2. ASSUME Precise'
        PROVE  FramesFor(stack', Top', thrown') /\ TopFor(stack', Top', csp')
    <2>1. Precise
      BY <1>1, <1>2 DEF Precise, Running
    <2>2. /\ Top \in Nat /\ Formed(stack, Top) /\ Run = stack[Top] /\ Top \in 1 .. Top
          /\ IsStack(stack) /\ Top = Len(stack) /\ mode.fh = 4
      BY <2>1, StateFacts DEF Top
    <2>3. PICK f, i, n : f = Run.f /\ i = Run.try /\ n = Top - 2
      OBVIOUS
    <2>4. /\ Top > 2 /\ n \in 1 .. Top /\ stack[Top - 1].k = "ccb" /\ stack[Top - 1].try = i
          /\ stack[n].k \in Scoped /\ stack[n].f = f /\ f \in DOMAIN Prog /\ i \in DOMAIN Tries(f)
      BY <1>1, <2>2, <2>3, CatchGroup
    <2>5. /\ n \in Nat /\ n > 0 /\ Top - 1 \in 1 .. Top /\ (Top - 1) - 1 = n /\ n \in 0 .. Len(stack)
          /\ n \in 1 .. n /\ n - 1 \in Nat /\ n - 1 <= Top /\ (n - 1) + 1 = n
      BY <2>2, <2>3, <2>4
    <2>6. PlainState(stack[n], Try(f, i).low)
      <3>1. FrameFor(stack, Top - 1, thrown)
        BY <2>1, <2>5, HandFacts
      <3> QED BY <2>4, <2>5, <3>1 DEF FrameFor, PlainFor, LowAt
    <2>7. PICK o : o = Outside(f, i)
      OBVIOUS
    <2>8. PlainState(stack[n], o)
      BY <2>4, <2>6, <2>7, PlainOutside
    <2>9. PICK cut : cut = SubSeq(stack, 1, n)
      BY Zenon
    <2>10. IsStack(cut) /\ Len(cut) = n /\ \A q \in 1 .. n : cut[q] = stack[q]
      BY <2>2, <2>5, <2>9, CutFrames
    <2>11. PICK fr : fr = [cut[n] EXCEPT !.ip = o]
      BY Zenon
    <2>12. /\ fr.k = stack[n].k /\ fr.f = f /\ fr.ip = o
           /\ stack[n].k = "catch" => fr.try = stack[n].try
      <3>1. Own(cut[n]) /\ cut[n] = stack[n]
        BY <2>2, <2>4, <2>5, <2>10 DEF Formed
      <3> QED BY <2>4, <2>11, <3>1 DEF Own, OwnFn, OwnCatch, FnFields, CatchFields, Scoped
    <2>13. PICK st2 : st2 = stack'
      OBVIOUS
    <2>14. Len(st2) = n /\ st2[n] = fr /\ \A q \in 1 .. n - 1 : st2[q] = stack[q]
      <3>1. n \in 1 .. Len(cut)
        BY <2>5, <2>10
      <3>2. st2 = [cut EXCEPT ![n].ip = o]
        <4>1. st2 = IF mode.fh = 3
                    THEN [[cut EXCEPT ![n].ip = o] EXCEPT ![Run.est].us = INVALID_STATE, ![Run.est].ut = -1]
                    ELSE [cut EXCEPT ![n].ip = o]
          BY <2>3, <2>7, <2>9, <2>13, Zenon DEF CatchDone
        <4> QED BY <2>2, <4>1
      <3>3. st2 = [cut EXCEPT ![n] = fr]
        BY <2>11, <3>2
      <3>4. Changed(cut, st2, n, fr)
        BY <2>10, <3>1, <3>3, ChangeFrameTo, Zenon
      <3>5. Len(st2) = n /\ st2[n] = fr /\ \A q \in 1 .. n : q # n => st2[q] = cut[q]
        BY <2>10, <3>4 DEF Changed
      <3> QED BY <2>5, <2>10, <3>5
    <2>15. FrameFor(st2, n, thrown) /\ TopFor(st2, n, csp')
      <3>1. st2[n].k \in User /\ PlainState(st2[n], st2[n].ip)
        BY <2>4, <2>8, <2>12, <2>14 DEF User, Scoped, PlainState
      <3> QED BY <3>1, UserFor, Zenon
    <2>16. FramesFor(st2, n, thrown)
      <3>1. StillAll(stack, st2, n - 1)
        BY <2>14, StillSame
      <3>2. FrameFor(st2, (n - 1) + 1, thrown)
        BY <2>5, <2>15
      <3>3. FramesFor(st2, (n - 1) + 1, thrown)
        BY <2>1, <2>5, <3>1, <3>2, HandFacts, OneOn
      <3> QED BY <2>5, <3>3
    <2>17. Top' = n
      BY <2>13, <2>14 DEF Top
    <2> QED BY <1>1, <2>13, <2>15, <2>16, <2>17
  <1>3. Running'
    BY <1>1 DEF Running
  <1> QED BY <1>2, <1>3, HandIf

-----------------------------------------------------------------------------
(* The search *)

LEMMA GoneMore ==
    ASSUME NEW st, NEW m \in Nat, NEW a \in Nat, a > 0, NEW rec, NEW T, GoneDown(st, m, a, rec, T),
           GoneBy(st, m, a, rec, T)
    PROVE  GoneDown(st, m, a - 1, rec, T)
  <1> SUFFICES ASSUME NEW q \in (a - 1) + 1 .. m PROVE GoneBy(st, m, q, rec, T)
    BY DEF GoneDown
  <1>1. q = a \/ q \in a + 1 .. m
    OBVIOUS
  <1> QED BY <1>1 DEF GoneDown

Scans(r) == r.k = "raise" /\ r.phase # "build"

SameSearch(r, u) == r.rec = u.rec /\ r.want = u.want

(* The frame of the search that is going on, further down. *)
LEMMA RaiseOn ==
    ASSUME EhInv, StateInv, HandInv, Precise, Run.k = "raise",
           NEW st2, StillAll(stack, st2, Top - 1), NEW r, st2[Top] = r, Scans(r), SameSearch(r, Run),
           r.want # Unspecified =>
               /\ r.scope = 0 /\ r.again = FALSE /\ r.at \in Nat
               /\ GoneDown(stack, Top - 1, r.at, Run.rec, TypeIn(thrown, Meant(Run.rec)))
    PROVE  FrameFor(st2, Top, thrown) /\ \A c : TopFor(st2, Top, c)
  <1>1. /\ IsCurrent(stack, Top - 1, cur) /\ Mean(Run.rec, cur) = Meant(Run.rec)
        /\ Top - 1 \in Nat /\ Run = stack[Top]
        /\ Run.rec = Rethrown \/ Known(Run.rec, thrown)
        /\ Run.want # Unspecified => Run.rec \in Nat /\ SearchFor(stack, Top, thrown, Meant(Run.rec))
    BY RaiseNow, HandFacts, Zenon
  <1>2. r.k = "raise" /\ r.phase # "build" /\ r.rec = Run.rec /\ r.want = Run.want
    BY DEF Scans, SameSearch
  <1>3. PlainFor(st2, Top) /\ RecFor(st2, Top, thrown) /\ UnwFor(st2, Top) /\ \A c : TopFor(st2, Top, c)
    BY <1>1, <1>2 DEF PlainFor, RecFor, UnwFor, TopFor, Scoped
  <1>4. RaiseFor(st2, Top, thrown)
    <2> SUFFICES ASSUME Run.want # Unspecified
                 PROVE  SearchFor(st2, Top, thrown, Mean(Run.rec, cur)) /\ IsCurrent(st2, Top - 1, cur)
      BY <1>1, <1>2 DEF RaiseFor
    <2>1. PICK o, T : o = Meant(Run.rec) /\ T = TypeIn(thrown, o)
      OBVIOUS
    <2>2. o = NoRecord \/ o \in 1 .. Len(thrown)
      BY <1>1, <2>1 DEF SearchFor
    <2>3. WantOK(st2, Top - 1, Run.rec, T, Run.want)
      <3>1. WantOK(stack, Top - 1, Run.rec, T, Run.want)
        BY <1>1, <2>1 DEF SearchFor
      <3> QED BY <1>1, <3>1, StillWant
    <2>4. GoneDown(st2, Top - 1, r.at, Run.rec, T)
      <3>1. r.at \in Nat /\ GoneDown(stack, Top - 1, r.at, Run.rec, T)
        BY <1>2, <2>1
      <3> QED BY <1>1, <3>1, StillWant
    <2>5. IsCurrent(st2, Top - 1, cur)
      BY <1>1, StillCurrent
    <2>6. SearchFor(st2, Top, thrown, o)
      BY <1>2, <2>1, <2>2, <2>3, <2>4 DEF SearchFor
    <2> QED BY <1>1, <2>1, <2>5, <2>6
  <1> QED BY <1>3, <1>4 DEF FrameFor

(* The search goes on. *)
LEMMA SearchHand ==
    ASSUME EhInv, StateInv, HandInv, Precise, Run.k = "raise", thrown' = thrown,
           NEW s, IsStack(s), Len(s) = Top, StillAll(stack, s, Top - 1),
           NEW r, stack' = [s EXCEPT ![Top] = r], Scans(r), SameSearch(r, Run),
           r.want # Unspecified =>
               /\ r.scope = 0 /\ r.again = FALSE /\ r.at \in Nat
               /\ GoneDown(stack, Top - 1, r.at, Run.rec, TypeIn(thrown, Meant(Run.rec)))
    PROVE  FramesFor(stack', Top', thrown') /\ TopFor(stack', Top', csp')
  <1>1. Top - 1 \in Nat /\ Top - 1 <= Top /\ (Top - 1) + 1 = Top /\ Top \in 1 .. Len(s)
    BY RaiseNow
  <1>2. PICK st2 : st2 = stack'
    OBVIOUS
  <1>3. Len(st2) = Top /\ st2[Top] = r /\ \A p \in 1 .. Top : p # Top => st2[p] = s[p]
    <2>1. Changed(s, st2, Top, r)
      BY <1>1, <1>2, ChangeFrameTo, Zenon
    <2> QED BY <2>1 DEF Changed
  <1>4. StillAll(stack, st2, Top - 1)
    <2>1. \A p \in 1 .. Top - 1 : st2[p] = s[p]
      BY <1>1, <1>3
    <2> QED BY <2>1 DEF StillAll
  <1>5. FrameFor(st2, Top, thrown) /\ \A c : TopFor(st2, Top, c)
    BY <1>3, <1>4, RaiseOn, Zenon
  <1>6. FramesFor(st2, Top, thrown)
    <2>1. FrameFor(st2, (Top - 1) + 1, thrown)
      BY <1>1, <1>5
    <2>2. FramesFor(st2, (Top - 1) + 1, thrown)
      BY <1>1, <1>4, <2>1, HandFacts, OneOn
    <2> QED BY <1>1, <2>2
  <1>7. Top' = Top
    BY <1>2, <1>3 DEF Top
  <1> QED BY <1>2, <1>5, <1>6, <1>7, Zenon

(* A frame is put on top of the search. *)
LEMMA OnSearch ==
    ASSUME EhInv, StateInv, HandInv, Precise, Run.k = "raise", thrown' = thrown,
           NEW st2, st2 = stack', Len(st2) = Top + 1, StillAll(stack, st2, Top - 1),
           FrameFor(st2, Top, thrown), FrameFor(st2, Top + 1, thrown), TopFor(st2, Top + 1, csp')
    PROVE  FramesFor(stack', Top', thrown') /\ TopFor(stack', Top', csp')
  <1>1. Top - 1 \in Nat /\ Top - 1 <= Top /\ (Top - 1) + 1 = Top /\ (Top - 1) + 2 = Top + 1
    BY RaiseNow
  <1>2. FramesFor(st2, Top + 1, thrown)
    <2>1. FrameFor(st2, (Top - 1) + 1, thrown) /\ FrameFor(st2, (Top - 1) + 2, thrown)
      BY <1>1
    <2>2. FramesFor(st2, (Top - 1) + 2, thrown)
      BY <1>1, <2>1, HandFacts, TwoOn
    <2> QED BY <1>1, <2>2
  <1>3. Top' = Top + 1
    BY DEF Top
  <1> QED BY <1>2, <1>3

(* An unwind begins. *)
LEMMA UnwindHand ==
    ASSUME EhInv, StateInv, HandInv, Precise, Run.k = "raise", thrown' = thrown, Run.at > 0,
           NEW s, IsStack(s), Len(s) = Top, StillAll(stack, s, Top - 1),
           NEW r, s[Top] = r, Scans(r), SameSearch(r, Run),
           r.want # Unspecified =>
               /\ r.scope = 0 /\ r.again = FALSE /\ r.at \in Nat
               /\ GoneDown(stack, Top - 1, r.at, Run.rec, TypeIn(thrown, Meant(Run.rec))),
           NEW rec, NEW hit, stack' = Append(s, Unw(rec, Top, Run.at, hit, Run.want)),
           hit # NoHit => /\ Known(rec, thrown) /\ stack[Run.at].k \in Scoped
                          /\ PlainState(stack[Run.at], LowAt(stack, Run.at, hit.try)),
           Run.want # Unspecified => Run.want = [pos |-> Run.at, try |-> hit.try]
    PROVE  FramesFor(stack', Top', thrown') /\ TopFor(stack', Top', csp')
  <1>1. /\ Top - 1 \in Nat /\ Top \in Nat /\ Run.at \in 1 .. Top - 1
    BY RaiseNow, RaiseSees
  <1>2. PICK u, st2 : u = Unw(rec, Top, Run.at, hit, Run.want) /\ st2 = stack' /\ st2 = Append(s, u)
    OBVIOUS
  <1>3. /\ u.k = "unw" /\ u.rec = rec /\ u.at = Top /\ u.target = Run.at /\ u.hit = hit
        /\ u.want = Run.want /\ u.phase = "scan"
    BY <1>2 DEF Unw
  <1>4. /\ Len(st2) = Top + 1 /\ st2[Top + 1] = u /\ st2[Top] = r
        /\ StillAll(stack, st2, Top - 1)
    <2>1. st2 = Append(s, u) /\ IsStack(s) /\ Len(s) = Top
      BY <1>2
    <2>2. Len(st2) = Top + 1 /\ st2[Top + 1] = u /\ st2[Top] = s[Top]
      BY <2>1, TopGrows
    <2>3. StillAll(stack, s, Top - 1) => StillAll(stack, st2, Top - 1)
      BY <2>1, TopGrows, Zenon
    <2> QED BY <2>2, <2>3
  <1>5. FrameFor(st2, Top, thrown)
    BY <1>4, RaiseOn, Zenon
  <1>6. hit # NoHit => st2[Run.at] = stack[Run.at]
    <2>1. stack[Run.at].k # "ccb" => st2[Run.at] = stack[Run.at]
      BY <1>1, <1>4, StillFrame
    <2> QED BY <2>1 DEF Scoped
  <1>7. FrameFor(st2, Top + 1, thrown)
    BY <1>3, <1>4, <1>6 DEF FrameFor, PlainFor, RecFor, RaiseFor, UnwFor, LowAt, Scoped
  <1>8. TopFor(st2, Top + 1, csp')
    BY <1>3, <1>4 DEF TopFor, Scans, Scoped
  <1> QED BY <1>2, <1>4, <1>5, <1>7, <1>8, OnSearch, Zenon

LEMMA AuxHand ==
    ASSUME EhInv, StateInv, HandInv, Precise, Run.k = "raise", thrown' = thrown,
           NEW s, IsStack(s), Len(s) = Top, StillAll(stack, s, Top - 1),
           NEW st2, st2 = stack', st2 = Append(s, Fn("aux")), FrameFor(st2, Top, thrown)
    PROVE  FramesFor(stack', Top', thrown') /\ TopFor(stack', Top', csp')
  <1>1. PICK fr : fr = Fn("aux")
    OBVIOUS
  <1>2. fr.k = "fn" /\ fr.f = "aux" /\ fr.ip = EH_EMPTY_STATE /\ "aux" \in DOMAIN Prog
    BY <1>1, EhAssumption DEF Fn
  <1>3. st2 = Append(s, fr) /\ IsStack(s) /\ Len(s) = Top
    BY <1>1
  <1>4. Len(st2) = Top + 1 /\ st2[Top + 1] = fr
    BY <1>3, TopGrows
  <1>5. StillAll(stack, st2, Top - 1)
    <2>1. StillAll(stack, s, Top - 1) => StillAll(stack, st2, Top - 1)
      BY <1>3, TopGrows, Zenon
    <2> QED BY <2>1
  <1>6. PlainState(fr, fr.ip)
    BY <1>2, TryNumbers DEF PlainState, InCatch, EH_EMPTY_STATE
  <1>7. FrameFor(st2, Top + 1, thrown) /\ TopFor(st2, Top + 1, csp')
    <2>1. st2[Top + 1].k \in User /\ PlainState(st2[Top + 1], st2[Top + 1].ip)
      BY <1>2, <1>4, <1>6 DEF User
    <2> QED BY <2>1, UserFor, Zenon
  <1> QED BY <1>4, <1>5, <1>7, OnSearch, Zenon

Builds(r, at, hit) == r.k = "raise" /\ r.phase = "build" /\ r.at = at /\ r.hit = hit

(* The frame of the search that is going on, with a handler found. *)
LEMMA BuildOn ==
    ASSUME EhInv, StateInv, HandInv, Precise, Run.k = "raise", Run.at > 0,
           NEW st2, StillAll(stack, st2, Top - 1), NEW r, st2[Top] = r, NEW hit,
           Builds(r, Run.at, hit), SameSearch(r, Run),
           stack[Run.at].k \in Scoped, PlainState(stack[Run.at], LowAt(stack, Run.at, hit.try)),
           Known(Meant(Run.rec), thrown),
           r.want # Unspecified =>
               /\ r.scope = 0 /\ r.again = FALSE
               /\ Run.want = [pos |-> Run.at, try |-> hit.try]
    PROVE  FrameFor(st2, Top, thrown)
  <1>1. /\ IsCurrent(stack, Top - 1, cur) /\ Mean(Run.rec, cur) = Meant(Run.rec)
        /\ Top - 1 \in Nat /\ Run = stack[Top]
        /\ Run.rec = Rethrown \/ Known(Run.rec, thrown)
        /\ Run.want # Unspecified => Run.rec \in Nat /\ SearchFor(stack, Top, thrown, Meant(Run.rec))
    BY RaiseNow, HandFacts, Zenon
  <1>2. /\ r.k = "raise" /\ r.phase = "build" /\ r.rec = Run.rec /\ r.want = Run.want
        /\ r.at = Run.at /\ r.hit = hit
    BY DEF Builds, SameSearch
  <1>3. Run.at \in 1 .. Top - 1 /\ Run.at \in Nat
    BY RaiseSees
  <1>4. st2[Run.at] = stack[Run.at]
    <2>1. stack[Run.at].k # "ccb" => st2[Run.at] = stack[Run.at]
      BY <1>1, <1>3, StillFrame
    <2> QED BY <2>1 DEF Scoped
  <1>5. IsCurrent(st2, Top - 1, cur)
    BY <1>1, StillCurrent
  <1>6. PlainFor(st2, Top) /\ UnwFor(st2, Top)
    BY <1>2, <1>4 DEF PlainFor, UnwFor, Scoped, LowAt
  <1>7. RecFor(st2, Top, thrown)
    BY <1>1, <1>2, <1>5 DEF RecFor
  <1>8. RaiseFor(st2, Top, thrown)
    <2> SUFFICES ASSUME Run.want # Unspecified
                 PROVE  SearchFor(st2, Top, thrown, Mean(Run.rec, cur))
      BY <1>1, <1>2, <1>5 DEF RaiseFor
    <2>1. PICK o, T : o = Meant(Run.rec) /\ T = TypeIn(thrown, o)
      OBVIOUS
    <2>2. o = NoRecord \/ o \in 1 .. Len(thrown)
      BY <1>1, <2>1 DEF SearchFor
    <2>3. WantOK(st2, Top - 1, Run.rec, T, Run.want)
      <3>1. WantOK(stack, Top - 1, Run.rec, T, Run.want)
        BY <1>1, <2>1 DEF SearchFor
      <3> QED BY <1>1, <3>1, StillWant
    <2>4. GoneDown(st2, Top - 1, Run.at, Run.rec, T)
      <3>1. GoneDown(stack, Top - 1, Run.at, Run.rec, T)
        BY <1>1, <2>1 DEF SearchFor
      <3> QED BY <1>1, <1>3, <3>1, StillWant
    <2>5. SearchFor(st2, Top, thrown, o)
      BY <1>2, <2>1, <2>2, <2>3, <2>4 DEF SearchFor
    <2> QED BY <1>1, <2>1, <2>5
  <1> QED BY <1>6, <1>7, <1>8 DEF FrameFor

(* No state that a frame is in lies in a catch block that is not its own. *)
LEMMA CurPlainState ==
    ASSUME EhInv, StateInv, HandInv, Precise, Run.k = "raise", Run.at > 0, stack[Run.at].k \in Scoped
    PROVE  /\ PlainState(stack[Run.at], Cur(stack, Top, Run.at)) /\ Cur(stack, Top, Run.at) \in Int
           /\ PlainState(stack[Run.at], stack[Run.at].ip)
           /\ stack[Run.at + 1].k = "ccb" => PlainState(stack[Run.at], LowOf(stack, Run.at + 1))
           /\ stack[Run.at].f \in DOMAIN Prog
  <1>1. /\ Top \in Nat /\ Top > 1 /\ Run = stack[Top] /\ IsRaise(stack[Top]) /\ Formed(stack, Top)
        /\ Run.at \in 1 .. Top - 1 /\ Own(stack[Run.at]) /\ Buried(stack, Top - 1)
        /\ \A p \in 1 .. Top : FrameFor(stack, p, thrown)
    BY RaiseSees, HandFacts, StateFacts
  <1>2. PICK p : p = Run.at
    OBVIOUS
  <1>3. p \in 1 .. Top /\ p + 1 \in 1 .. Top /\ (p + 1) - 1 = p /\ p < Top
    BY <1>1, <1>2
  <1>4. stack[p].f \in DOMAIN Prog /\ stack[p].ip \in Int
    BY <1>1, <1>2, StatesFacts DEF Own, OwnFn, OwnCatch, Scoped, StatesOf
  <1>5. PlainState(stack[p], stack[p].ip)
    BY <1>1, <1>2, <1>3 DEF FrameFor, PlainFor
  <1>6. ASSUME stack[p + 1].k = "ccb"
        PROVE  PlainState(stack[p], LowOf(stack, p + 1)) /\ LowOf(stack, p + 1) \in Int
    <2>1. PlainState(stack[p], LowAt(stack, p, stack[p + 1].try))
      BY <1>1, <1>3, <1>6 DEF FrameFor, PlainFor
    <2>2. stack[p + 1].try \in DOMAIN Tries(stack[p].f) /\ LowOf(stack, p + 1) = Try(stack[p].f, stack[p + 1].try).low
      BY <1>1, <1>3, <1>6, CcbGroup
    <2> QED BY <1>4, <2>1, <2>2, TryNumbers DEF LowAt
  <1>7. PlainState(stack[p], Cur(stack, Top, p)) /\ Cur(stack, Top, p) \in Int
    <2>1. CASE Covers(stack, Top, p) # {}
      <3>1. PICK u : u \in Covers(stack, Top, p)
        BY <2>1
      <3>2. u \in 1 .. Top /\ stack[u].k = "unw" /\ stack[u].at = p /\ u # Top
        BY <1>1, <3>1 DEF Covers, IsRaise
      <3>3. u \in 1 .. Top - 1
        BY <1>1, <3>2
      <3>4. ArrivedOK(stack, u, stack[u].state) /\ stack[u].phase = "states"
        BY <1>1, <3>2, <3>3 DEF Buried, BuriedOK
      <3>5. stack[u].state \in Int
        <4>1. stack[stack[u].at].k \in Scoped
          BY <1>2, <3>2
        <4> QED BY <1>1, <3>2, <3>4, <4>1, ArrivedState
      <3>6. PlainState(stack[p], stack[u].state)
        BY <1>1, <3>2, <3>4 DEF FrameFor, PlainFor
      <3> QED BY <1>1, <3>1, <3>5, <3>6, CoversOne
    <2>2. CASE Covers(stack, Top, p) = {} /\ stack[p + 1].k = "ccb"
      BY <1>3, <1>6, <2>2, CoversNone
    <2>3. CASE Covers(stack, Top, p) = {} /\ stack[p + 1].k # "ccb"
      BY <1>3, <1>4, <1>5, <2>3, CoversNone
    <2> QED BY <2>1, <2>2, <2>3
  <1> QED BY <1>2, <1>4, <1>5, <1>6, <1>7

(* What a search that has found a handler knows of it. *)
LEMMA HitFound ==
    ASSUME EhInv, StateInv, HandInv, Precise, Run.k = "raise", Run.phase = "scan", Run.at > 0,
           stack[Run.at].k \in Scoped, ~Skipped(Run.rec), NEW rec,
           NEW hit, hit = HandlerFor(Run.at, Run.scope, rec), hit # NoHit
    PROVE  PlainState(stack[Run.at], LowAt(stack, Run.at, hit.try))
  <1>1. /\ PlainState(stack[Run.at], Cur(stack, Top, Run.at)) /\ Cur(stack, Top, Run.at) \in Int
        /\ stack[Run.at].f \in DOMAIN Prog
    BY CurPlainState
  <1>2. hit.try \in TryRange(stack[Run.at].f, stack[Run.at].ip, SearchState(Run.at, Run.scope))
    BY <1>1, HandlerForOK
  <1>3. /\ hit.try \in DOMAIN Tries(stack[Run.at].f)
        /\ InTry(Try(stack[Run.at].f, hit.try), SearchState(Run.at, Run.scope))
    BY <1>2 DEF TryRange
  <1>4. InTry(Try(stack[Run.at].f, hit.try), Cur(stack, Top, Run.at))
    BY <1>3, SearchedState
  <1> QED BY <1>1, <1>3, <1>4, TryPlain DEF LowAt

(* The frame handler finds a handler in a frame exactly if the program text selects one
   there. *)
LEMMA SearchEnds ==
    ASSUME EhInv, StateInv, HandInv, Precise, Run.k = "raise", Run.phase = "scan", Run.at > 0,
           stack[Run.at].k \in Scoped, Run.want # Unspecified,
           NEW rec, rec = Meant(Run.rec), rec # NoRecord,
           NEW hit, hit = HandlerFor(Run.at, Run.scope, rec)
    PROVE  /\ hit # NoHit => Run.want = [pos |-> Run.at, try |-> hit.try]
           /\ hit = NoHit => ~HandlesAt(stack, Top - 1, Run.at, TypeIn(thrown, rec))
           /\ rec \in 1 .. Len(thrown) /\ Known(rec, thrown)
  <1>1. /\ Run.rec \in Nat /\ Run.scope = 0 /\ Run.again = FALSE
        /\ SearchFor(stack, Top, thrown, rec) /\ Top - 1 \in Nat /\ Formed(stack, Top - 1)
    BY RaiseNow, Zenon
  <1>2. /\ rec \in 1 .. Len(thrown)
        /\ WantOK(stack, Top - 1, stack[Top].rec, TypeIn(thrown, rec), stack[Top].want)
        /\ GoneDown(stack, Top - 1, stack[Top].at, stack[Top].rec, TypeIn(thrown, rec))
    BY <1>1 DEF SearchFor
  <1>3. /\ Run = stack[Top] /\ Top \in Nat /\ IsRaise(stack[Top]) /\ Run.at \in 1 .. Top - 1
        /\ SearchOK /\ mode.fh = 4 /\ Len(thrown) \in Nat
        /\ \A o \in 1 .. Len(thrown) : thrown[o] # "none"
    BY RaiseSees, HandFacts, StateFacts
  <1>4. PICK p, m, T : p = Run.at /\ m = Top - 1 /\ T = TypeIn(thrown, rec)
    OBVIOUS
  <1>5. T = thrown[rec] /\ thrown[rec] # "none" /\ rec # Foreign /\ rec \in Nat
    BY <1>2, <1>3, <1>4 DEF TypeIn, IsObject, Foreign
  <1>6. ~Skipped(Run.rec)
    BY <1>1 DEF Skipped, Foreign
  <1>7. Told(stack, Top, p, csp)
    BY <1>1, <1>3, <1>4, <1>6 DEF SearchOK
  <1>8. SearchState(p, 0) = IF p < m /\ stack[p + 1].k = "ccb"
                            THEN Try(stack[p].f, stack[p + 1].try).catchHigh ELSE stack[p].ip
    <2>1. stack[p + 1].k = "ccb" => p < m
      <3>1. p < m \/ p + 1 = Top
        BY <1>3, <1>4
      <3> QED BY <3>1, <1>3 DEF IsRaise
    <2>2. SearchState(p, 0) = IF csp # INVALID_STATE THEN csp ELSE stack[p].ip
      BY <1>3 DEF SearchState
    <2>3. CASE csp = INVALID_STATE /\ stack[p + 1].k # "ccb"
      BY <2>2, <2>3
    <2>4. CASE /\ csp # INVALID_STATE /\ stack[p + 1].k = "ccb"
               /\ csp = Try(stack[p].f, stack[p + 1].try).catchHigh
      BY <2>1, <2>2, <2>4
    <2> QED BY <1>7, <2>3, <2>4 DEF Told
  <1>9. /\ PlainState(stack[p], stack[p].ip)
        /\ p < m /\ stack[p + 1].k = "ccb" => PlainState(stack[p], LowOf(stack, p + 1))
    BY <1>4, CurPlainState
  <1>10. p \in 1 .. m /\ stack[p].k \in Scoped /\ Formed(stack, m)
    BY <1>1, <1>3, <1>4
  <1>11. TrysToCheck(p, SearchState(p, 0)) = TriesUnder(stack, m, p)
    BY <1>3, <1>8, <1>9, <1>10, TrysAre
  <1>12. hit = HandlerFor(p, 0, rec)
    BY <1>1, <1>4
  <1>13. /\ hit = NoHit <=> ~HandlesAt(stack, m, p, thrown[rec])
         /\ hit # NoHit => Innermost(stack, m, p, thrown[rec], hit.try)
    BY <1>5, <1>10, <1>11, <1>12, HitIs
  <1>14. ASSUME hit # NoHit PROVE Run.want = [pos |-> p, try |-> hit.try]
    <2>1. GoneDown(stack, m, p, Run.rec, T) /\ HandlesAt(stack, m, p, T) /\ Innermost(stack, m, p, T, hit.try)
      BY <1>2, <1>3, <1>4, <1>5, <1>13, <1>14
    <2>2. \E i : Innermost(stack, m, p, T, i) /\ Run.want = [pos |-> p, try |-> i]
      BY <1>2, <1>3, <1>4, <1>10, <2>1, Zenon DEF WantOK
    <2>3. PICK i : Innermost(stack, m, p, T, i) /\ Run.want = [pos |-> p, try |-> i]
      BY <2>2
    <2>4. TakesAt(stack, m, p, T) # {}
      BY <2>3 DEF Innermost
    <2>5. i = hit.try
      BY <1>10, <2>1, <2>3, <2>4, InnermostExists
    <2> QED BY <2>3, <2>5
  <1>15. Known(rec, thrown)
    BY <1>2 DEF Known
  <1> QED BY <1>2, <1>4, <1>5, <1>13, <1>14, <1>15

(* A frame without a handler is passed, unless the program must be stopped there. *)
LEMMA SearchPasses ==
    ASSUME EhInv, StateInv, HandInv, Precise, Run.k = "raise", Run.at > 0,
           stack[Run.at].k \in Scoped, Run.want # Unspecified,
           NEW T, T = TypeIn(thrown, Meant(Run.rec)), ~HandlesAt(stack, Top - 1, Run.at, T)
    PROVE  /\ stack[Run.at].k = "fn" /\ Prog[stack[Run.at].f].noexcept /\ T # "none" => Run.want = Nowhere
           /\ ~(stack[Run.at].k = "fn" /\ Prog[stack[Run.at].f].noexcept /\ T # "none") =>
                  GoneDown(stack, Top - 1, Run.at - 1, Run.rec, T)
  <1>1. /\ SearchFor(stack, Top, thrown, Meant(Run.rec)) /\ Top - 1 \in Nat
        /\ Run = stack[Top] /\ Run.at \in 1 .. Top - 1 /\ Run.at \in Nat
    BY RaiseNow, RaiseSees
  <1>2. PICK p, m : p = Run.at /\ m = Top - 1
    OBVIOUS
  <1>3. WantOK(stack, m, Run.rec, T, Run.want) /\ GoneDown(stack, m, p, Run.rec, T)
    BY <1>1, <1>2 DEF SearchFor
  <1>4. ASSUME stack[p].k = "fn" /\ Prog[stack[p].f].noexcept /\ T # "none" PROVE Run.want = Nowhere
    <2>1. BarsAt(stack, p, T)
      BY <1>4 DEF BarsAt
    <2> QED BY <1>1, <1>2, <1>3, <2>1, Zenon DEF WantOK
  <1>5. ASSUME ~(stack[p].k = "fn" /\ Prog[stack[p].f].noexcept /\ T # "none")
        PROVE  GoneDown(stack, m, p - 1, Run.rec, T)
    <2>1. ~BarsAt(stack, p, T) /\ ~EndsAt(stack, p, Run.rec)
      BY <1>2, <1>5 DEF BarsAt, EndsAt, Scoped
    <2>2. GoneBy(stack, m, p, Run.rec, T)
      BY <1>2, <2>1 DEF GoneBy
    <2> QED BY <1>1, <1>2, <1>3, <2>2, GoneMore
  <1> QED BY <1>2, <1>4, <1>5

LEMMA SearchNext ==
    ASSUME EhInv, StateInv, HandInv, Precise, Run.k = "raise", Run.phase # "build", Run.at > 0,
           NEW r, r = NextFrame(Run)
    PROVE  /\ Scans(r) /\ SameSearch(r, Run)
           /\ Run.want # Unspecified =>
                  r.scope = 0 /\ r.again = FALSE /\ r.at = Run.at - 1 /\ r.at \in Nat
  <1>1. Own(Run) /\ DOMAIN Run = RaiseFields /\ Run.at \in Nat
    BY StateFacts, RaiseSees DEF Own, OwnRaise
  <1>2. /\ Own(r) /\ r.k = "raise" /\ r.phase = Run.phase /\ ~r.again /\ r.scope = 0
        /\ ~Run.again => r.at = Run.at - 1
    BY <1>1, NextFrameOf
  <1>3. r.again = FALSE
    BY <1>2 DEF Own, OwnRaise
  <1>4. r.rec = Run.rec /\ r.want = Run.want
    BY <1>1 DEF NextFrame, RaiseFields
  <1>5. Run.want # Unspecified => Run.again = FALSE
    BY RaiseNow, Zenon
  <1> QED BY <1>1, <1>2, <1>3, <1>4, <1>5 DEF Scans, SameSearch

(* What Run itself fulfils. *)
LEMMA SearchSame ==
    ASSUME EhInv, StateInv, HandInv, Precise, Run.k = "raise"
    PROVE  Run.want # Unspecified =>
               /\ Run.scope = 0 /\ Run.again = FALSE /\ Run.at \in Nat
               /\ GoneDown(stack, Top - 1, Run.at, Run.rec, TypeIn(thrown, Meant(Run.rec)))
  BY RaiseNow, HandFacts, Zenon DEF SearchFor

LEMMA MeantKnown ==
    ASSUME EhInv, StateInv, HandInv, Precise, Run.k = "raise", Meant(Run.rec) # NoRecord
    PROVE  Known(Meant(Run.rec), thrown)
  <1>1. Run.rec = Rethrown \/ Known(Run.rec, thrown)
    BY RaiseNow
  <1>2. cur = NoRecord \/ Known(cur, thrown)
    BY CurrentKnown
  <1> QED BY <1>1, <1>2 DEF Meant

(* A program that is stopped. *)
LEMMA HaltsHand ==
    ASSUME EhInv, StateInv, HandInv, Precise, stack' = stack,
           Run.k = "raise" /\ Run.want # Unspecified => Run.want = Nowhere
    PROVE  (\A p \in 1 .. Top' : UnwFor(stack', p)) /\ Ended'
  <1>1. \A p \in 1 .. Top : UnwFor(stack, p)
    BY HandFacts DEF FrameFor
  <1>2. Top' = Top /\ Run' = Run
    BY DEF Top, Run
  <1> QED BY <1>1, <1>2 DEF Ended

LEMMA SearchCxxHand ==
    ASSUME EhInv, StateInv, HandInv, SearchCxx
    PROVE  HandInv'
  <1>1. /\ Run.k = "raise" /\ Run.phase = "scan" /\ Run.at > 0 /\ stack[Run.at].k \in Scoped
        /\ Running /\ UNCHANGED <<mode, rethr, thrown>>
        /\ stale' = IF RunsAgain THEN stale \cup {Run.rec} ELSE stale
    BY DEF SearchCxx, RunIs, Scoped
  <1>2. PICK p, rec, T : p = Run.at /\ rec = Meant(Run.rec) /\ T = TypeIn(thrown, rec)
    OBVIOUS
  <1>3. PICK hit, r : hit = HandlerFor(p, Run.scope, rec) /\ r = NextFrame(Run)
    OBVIOUS
  <1>4. PICK bar \in BOOLEAN : bar = (IsObject(rec) /\ Prog[stack[p].f].noexcept /\ ~ExecutionInCatch(p))
    BY Zenon
  <1>5. ASSUME Precise
        PROVE  \/ /\ stack' = [stack EXCEPT ![Top] = r] /\ halt' = halt
                  /\ \/ Skipped(Run.rec)
                     \/ Tries(stack[p].f) = <<>> /\ ~Prog[stack[p].f].noexcept
                     \/ rec = NoRecord
                     \/ hit = NoHit /\ rec # NoRecord /\ ~bar
               \/ /\ hit # NoHit /\ rec # NoRecord /\ ~Skipped(Run.rec) /\ halt' = halt
                  /\ \/ stack' = StartUnwind(stack, rec, p, hit)
                     \/ stack' = Append([stack EXCEPT ![Top].phase = "build", ![Top].hit = hit], Fn("aux"))
               \/ halt' = "terminate" /\ stack' = stack /\ bar /\ hit = NoHit /\ rec # NoRecord
    <2>1. Remembered(p) = stack
      BY <1>5 DEF Remembered, Precise
    <2>2. \/ /\ stack' = [stack EXCEPT ![Top] = r] /\ halt' = halt
             /\ Skipped(Run.rec) \/ (Tries(stack[p].f) = <<>> /\ ~Prog[stack[p].f].noexcept)
          \/ FindHandler /\ ~Skipped(Run.rec)
      BY <1>2, <1>3, Zenon DEF SearchCxx
    <2>3. FindHandler =>
            \/ stack' = [stack EXCEPT ![Top] = r] /\ halt' = halt /\ rec = NoRecord
            \/ /\ stack' = [stack EXCEPT ![Top] = r] /\ halt' = halt
               /\ hit = NoHit /\ rec # NoRecord /\ ~bar
            \/ /\ hit # NoHit /\ rec # NoRecord /\ halt' = halt
               /\ \/ stack' = StartUnwind(stack, rec, p, hit)
                  \/ stack' = Append([stack EXCEPT ![Top].phase = "build", ![Top].hit = hit], Fn("aux"))
            \/ halt' = "terminate" /\ stack' = stack /\ bar /\ hit = NoHit /\ rec # NoRecord
      BY <1>2, <1>3, <1>4, <2>1, Zenon DEF FindHandler
    <2> QED BY <2>2, <2>3
  <1>6. ASSUME Precise, Run.want # Unspecified
        PROVE  /\ ~Skipped(Run.rec)
               /\ rec # NoRecord /\ hit = NoHit => ~HandlesAt(stack, Top - 1, p, T)
               /\ rec = NoRecord => ~HandlesAt(stack, Top - 1, p, T) /\ T = "none"
               /\ Tries(stack[p].f) = <<>> => ~HandlesAt(stack, Top - 1, p, T)
               /\ rec # NoRecord => T # "none" /\ IsObject(rec)
    <2>1. ~Skipped(Run.rec)
      BY <1>1, <1>6, RaiseNow DEF Skipped, Foreign
    <2>2. rec # NoRecord =>
              /\ hit = NoHit => ~HandlesAt(stack, Top - 1, p, T)
              /\ rec \in 1 .. Len(thrown)
      BY <1>1, <1>2, <1>3, <1>6, SearchEnds, Zenon
    <2>3. rec \in 1 .. Len(thrown) => T # "none" /\ IsObject(rec)
      BY <1>2, <1>6, HandFacts DEF TypeIn, IsObject
    <2>4. rec = NoRecord => T = "none"
      BY <1>2 DEF TypeIn, IsObject, NoRecord
    <2>5. T = "none" => ~HandlesAt(stack, Top - 1, p, T)
      BY DEF HandlesAt, TakesAt
    <2>6. Tries(stack[p].f) = <<>> => ~HandlesAt(stack, Top - 1, p, T)
      BY DEF HandlesAt, TakesAt, TriesUnder
    <2> QED BY <2>1, <2>2, <2>3, <2>4, <2>5, <2>6
  <1>7. ASSUME Precise'
        PROVE  FramesFor(stack', Top', thrown') /\ TopFor(stack', Top', csp')
    <2>1. Precise /\ halt' # "terminate"
      BY <1>1, <1>7 DEF Precise, Running
    <2>2. Run = stack[Top] /\ Own(Run) /\ DOMAIN Run = RaiseFields /\ stack[Top] = Run /\ Scans(Run) /\ SameSearch(Run, Run)
      BY <1>1, <2>1, StateFacts DEF Own, OwnRaise, Scans, SameSearch
    <2>3. CASE /\ stack' = [stack EXCEPT ![Top] = r]
               /\ \/ Skipped(Run.rec)
                  \/ Tries(stack[p].f) = <<>> /\ ~Prog[stack[p].f].noexcept
                  \/ rec = NoRecord
                  \/ hit = NoHit /\ rec # NoRecord /\ ~bar
      <3>1. Scans(r) /\ SameSearch(r, Run) /\ Run.phase # "build"
        BY <1>1, <1>3, <2>1, SearchNext, Zenon
      <3>2. r.want = Run.want
        BY <3>1 DEF SameSearch
      <3>3. ASSUME Run.want # Unspecified
            PROVE  GoneDown(stack, Top - 1, Run.at - 1, Run.rec, T)
        <4>1. ~HandlesAt(stack, Top - 1, p, T)
          BY <1>6, <2>1, <2>3, <3>3
        <4>2. ~(stack[p].k = "fn" /\ Prog[stack[p].f].noexcept /\ T # "none")
          <5> SUFFICES ASSUME stack[p].k = "fn", Prog[stack[p].f].noexcept, T # "none" PROVE FALSE
            OBVIOUS
          <5>1. ~ExecutionInCatch(p)
            BY DEF ExecutionInCatch
          <5>2. rec # NoRecord /\ ~bar
            BY <1>6, <2>1, <2>3, <3>3
          <5> QED BY <1>4, <1>6, <2>1, <3>3, <5>1, <5>2, Zenon
        <4>3. stack[Run.at].k \in Scoped /\ T = TypeIn(thrown, Meant(Run.rec)) /\ ~HandlesAt(stack, Top - 1, Run.at, T)
          BY <1>1, <1>2, <4>1
        <4> QED BY <1>1, <1>2, <2>1, <3>3, <4>2, <4>3, SearchPasses
      <3>4. r.want # Unspecified =>
               /\ r.scope = 0 /\ r.again = FALSE /\ r.at \in Nat
               /\ GoneDown(stack, Top - 1, r.at, Run.rec, TypeIn(thrown, Meant(Run.rec)))
        BY <1>1, <1>2, <1>3, <2>1, <3>1, <3>2, <3>3, SearchNext, Zenon
      <3> QED BY <1>1, <2>1, <2>3, <3>1, <3>4, StackStays, SearchHand, Zenon
    <2>4. ASSUME hit # NoHit, rec # NoRecord, ~Skipped(Run.rec)
          PROVE  /\ Known(rec, thrown) /\ PlainState(stack[Run.at], LowAt(stack, Run.at, hit.try))
                 /\ Run.want # Unspecified => Run.want = [pos |-> Run.at, try |-> hit.try]
      <3>1. Known(rec, thrown)
        BY <1>1, <1>2, <2>1, <2>4, MeantKnown
      <3>2. hit = HandlerFor(Run.at, Run.scope, rec) /\ rec = Meant(Run.rec)
        BY <1>2, <1>3
      <3>3. PlainState(stack[Run.at], LowAt(stack, Run.at, hit.try))
        BY <1>1, <2>1, <2>4, <3>2, HitFound
      <3>4. Run.want # Unspecified => Run.want = [pos |-> Run.at, try |-> hit.try]
        BY <1>1, <2>1, <2>4, <3>2, SearchEnds
      <3> QED BY <3>1, <3>3, <3>4
    <2>5. CASE /\ hit # NoHit /\ rec # NoRecord /\ ~Skipped(Run.rec)
               /\ stack' = StartUnwind(stack, rec, p, hit)
      <3>1. stack' = Append(stack, Unw(rec, Top, Run.at, hit, Run.want))
        BY <1>2, <2>5 DEF StartUnwind
      <3>2. IsStack(stack) /\ Len(stack) = Top /\ StillAll(stack, stack, Top - 1)
        BY <2>1, StackStays
      <3>3. Run.want # Unspecified =>
               /\ Run.scope = 0 /\ Run.again = FALSE /\ Run.at \in Nat
               /\ GoneDown(stack, Top - 1, Run.at, Run.rec, TypeIn(thrown, Meant(Run.rec)))
        BY <1>1, <2>1, SearchSame, Zenon
      <3> QED BY <1>1, <2>1, <2>2, <2>4, <2>5, <3>1, <3>2, <3>3, UnwindHand, Zenon
    <2>6. CASE /\ hit # NoHit /\ rec # NoRecord /\ ~Skipped(Run.rec)
               /\ stack' = Append([stack EXCEPT ![Top].phase = "build", ![Top].hit = hit], Fn("aux"))
      <3>1. PICK b, s : b = [Run EXCEPT !.phase = "build", !.hit = hit] /\ s = [stack EXCEPT ![Top] = b]
        BY Zenon
      <3>2. /\ b.k = "raise" /\ b.at = Run.at /\ b.hit = hit /\ b.phase = "build"
            /\ b.rec = Run.rec /\ b.want = Run.want /\ b.scope = Run.scope /\ b.again = Run.again
        BY <1>1, <2>2, <3>1 DEF RaiseFields
      <3>3. Builds(b, Run.at, hit) /\ SameSearch(b, Run)
        BY <3>2 DEF Builds, SameSearch
      <3>4. s = [stack EXCEPT ![Top].phase = "build", ![Top].hit = hit]
        BY <2>2, <3>1, Zenon DEF RaiseFields
      <3>5. IsStack(s) /\ Len(s) = Top /\ s[Top] = b /\ StillAll(stack, s, Top - 1)
        BY <2>1, <3>1, TopBecomes, Zenon
      <3>6. PICK st2 : st2 = stack' /\ st2 = Append(s, Fn("aux"))
        BY <2>6, <3>4, Zenon
      <3>7. st2[Top] = b /\ StillAll(stack, st2, Top - 1)
        <4>1. PICK fr : fr = Fn("aux")
          OBVIOUS
        <4>2. IsStack(s) /\ Len(s) = Top /\ st2 = Append(s, fr)
          BY <3>5, <3>6, <4>1
        <4>3. st2[Top] = s[Top]
          BY <2>1, <4>2, TopGrows
        <4>4. StillAll(stack, s, Top - 1) => StillAll(stack, st2, Top - 1)
          BY <2>1, <4>2, TopGrows, Zenon
        <4> QED BY <3>5, <4>3, <4>4
      <3>8. /\ Known(Meant(Run.rec), thrown) /\ PlainState(stack[Run.at], LowAt(stack, Run.at, hit.try))
            /\ b.want # Unspecified =>
                   /\ b.scope = 0 /\ b.again = FALSE
                   /\ Run.want = [pos |-> Run.at, try |-> hit.try]
        BY <1>1, <1>2, <2>1, <2>4, <2>6, <3>2, RaiseNow, Zenon
      <3>9. FrameFor(st2, Top, thrown)
        BY <1>1, <2>1, <3>3, <3>7, <3>8, BuildOn, Zenon
      <3> QED BY <1>1, <2>1, <3>5, <3>6, <3>9, AuxHand, Zenon
    <2> QED BY <1>5, <2>1, <2>3, <2>5, <2>6
  <1>8. ASSUME ~Running', (mode.fh = 4 /\ stale = {})'
        PROVE  (\A q \in 1 .. Top' : UnwFor(stack', q)) /\ Ended'
    <2>1. Precise
      BY <1>1, <1>8 DEF Precise
    <2>2. stack' = stack /\ bar /\ hit = NoHit /\ rec # NoRecord
      BY <1>1, <1>5, <1>8, <2>1 DEF Running
    <2>3. ASSUME Run.want # Unspecified PROVE Run.want = Nowhere
      <3>1. ~HandlesAt(stack, Top - 1, p, T) /\ T # "none"
        BY <1>6, <2>1, <2>2, <2>3
      <3>2. stack[p].k = "fn" /\ Prog[stack[p].f].noexcept
        BY <1>1, <1>2, <1>4, <2>2, Zenon DEF ExecutionInCatch, Scoped
      <3>3. T = TypeIn(thrown, Meant(Run.rec)) /\ ~HandlesAt(stack, Top - 1, Run.at, T)
        BY <1>2, <3>1
      <3> QED BY <1>1, <1>2, <2>1, <2>3, <3>1, <3>2, <3>3, SearchPasses
    <2> QED BY <2>1, <2>2, <2>3, HaltsHand
  <1>9. CASE Running'
    BY <1>7, <1>9, HandIf
  <1>10. CASE ~Running'
    BY <1>8, <1>10, HandStops
  <1> QED BY <1>9, <1>10

(* The search is over, or goes on, at a frame that is not code with C++ handlers. *)
LEMMA SearchOther ==
    ASSUME EhInv, StateInv, HandInv, Precise, Run.k = "raise", stack[Run.at].k \notin Scoped,
           Run.want # Unspecified,
           NEW T, T = TypeIn(thrown, Meant(Run.rec))
    PROVE  /\ Run.at > 0 /\ EndsAt(stack, Run.at, Run.rec) => Run.want = [pos |-> Run.at, try |-> 0]
           /\ Run.at > 0 /\ BarsAt(stack, Run.at, T) => Run.want = Nowhere
           /\ Run.at > 0 /\ ~EndsAt(stack, Run.at, Run.rec) /\ ~BarsAt(stack, Run.at, T) =>
                  GoneDown(stack, Top - 1, Run.at - 1, Run.rec, T)
           /\ Run.at = 0 => Run.want = Nowhere
  <1>1. /\ SearchFor(stack, Top, thrown, Meant(Run.rec)) /\ Top - 1 \in Nat
        /\ Run = stack[Top] /\ (Run.at > 0 => Run.at \in 1 .. Top - 1) /\ Run.at \in Nat
    BY RaiseNow, RaiseSees
  <1>2. PICK m, a : m = Top - 1 /\ a = Run.at
    OBVIOUS
  <1>3. WantOK(stack, m, Run.rec, T, Run.want) /\ GoneDown(stack, m, a, Run.rec, T)
    BY <1>1, <1>2 DEF SearchFor
  <1>4. ~HandlesAt(stack, m, a, T)
    BY <1>2 DEF HandlesAt
  <1>5. ASSUME a > 0, ~EndsAt(stack, a, Run.rec), ~BarsAt(stack, a, T)
        PROVE  GoneDown(stack, m, a - 1, Run.rec, T)
    <2>1. GoneBy(stack, m, a, Run.rec, T)
      BY <1>4, <1>5 DEF GoneBy
    <2> QED BY <1>1, <1>2, <1>3, <1>5, <2>1, GoneMore
  <1>6. ASSUME a > 0
        PROVE  /\ EndsAt(stack, a, Run.rec) => Run.want = [pos |-> a, try |-> 0]
               /\ BarsAt(stack, a, T) => Run.want = Nowhere
    <2>1. a \in 1 .. m
      BY <1>1, <1>2, <1>6
    <2> QED BY <1>3, <1>4, <2>1 DEF WantOK
  <1>7. a = 0 => Run.want = Nowhere
    BY <1>3 DEF WantOK
  <1> QED BY <1>2, <1>5, <1>6, <1>7

LEMMA SearchRephased ==
    ASSUME EhInv, StateInv, HandInv, Precise, Run.k = "raise", NEW ph \in {"scan", "filter"},
           NEW r, r = Rephased(Run, ph)
    PROVE  /\ Scans(r) /\ SameSearch(r, Run) /\ r.at = Run.at
           /\ [stack EXCEPT ![Top].phase = ph] = [stack EXCEPT ![Top] = r]
           /\ r.want # Unspecified =>
                  /\ r.scope = 0 /\ r.again = FALSE /\ r.at \in Nat
                  /\ GoneDown(stack, Top - 1, r.at, Run.rec, TypeIn(thrown, Meant(Run.rec)))
  <1>1. Run = stack[Top] /\ DOMAIN Run = RaiseFields
    BY StateFacts DEF Own, OwnRaise
  <1>2. /\ r.k = "raise" /\ r.phase = ph /\ r.rec = Run.rec /\ r.want = Run.want /\ r.at = Run.at
        /\ r.scope = Run.scope /\ r.again = Run.again
    BY <1>1 DEF Rephased, RaiseFields
  <1>3. [stack EXCEPT ![Top].phase = ph] = [stack EXCEPT ![Top] = r]
    BY <1>1 DEF Rephased
  <1>4. Scans(r) /\ SameSearch(r, Run)
    BY <1>2 DEF Scans, SameSearch
  <1> QED BY <1>2, <1>3, <1>4, SearchSame, Zenon

LEMMA CatchObjectBuiltHand ==
    ASSUME EhInv, StateInv, HandInv, CatchObjectBuilt
    PROVE  HandInv'
  <1>1. Run.k = "raise" /\ Run.phase = "build" /\ Running /\ UNCHANGED <<mode, halt, stale, thrown>>
    BY DEF CatchObjectBuilt, RunIs, ghost
  <1>2. ASSUME Precise'
        PROVE  FramesFor(stack', Top', thrown') /\ TopFor(stack', Top', csp')
    <2>1. Precise
      BY <1>1, <1>2 DEF Precise, Running
    <2>2. PICK r, s : r = Rephased(Run, "scan") /\ s = [stack EXCEPT ![Top] = r]
      BY Zenon
    <2>3. /\ Scans(r) /\ SameSearch(r, Run) /\ s = [stack EXCEPT ![Top].phase = "scan"]
          /\ r.want # Unspecified =>
                 /\ r.scope = 0 /\ r.again = FALSE /\ r.at \in Nat
                 /\ GoneDown(stack, Top - 1, r.at, Run.rec, TypeIn(thrown, Meant(Run.rec)))
      BY <1>1, <2>1, <2>2, SearchRephased, Zenon
    <2>4. IsStack(s) /\ Len(s) = Top /\ s[Top] = r /\ StillAll(stack, s, Top - 1)
      BY <2>1, <2>2, TopBecomes, Zenon
    <2>5. PICK rec, hit : rec = Meant(Run.rec) /\ hit = Run.hit
      OBVIOUS
    <2>6. stack' = Append(s, Unw(rec, Top, Run.at, hit, Run.want))
      BY <2>3, <2>5, Zenon DEF CatchObjectBuilt, StartUnwind
    <2>7. /\ Known(rec, thrown) /\ stack[Run.at].k \in Scoped
          /\ PlainState(stack[Run.at], LowAt(stack, Run.at, hit.try))
      BY <1>1, <2>1, <2>5, RaiseNow
    <2>8. Run.want # Unspecified => Run.want = [pos |-> Run.at, try |-> hit.try]
      BY <1>1, <2>1, <2>5, RaiseNow, HandFacts, Zenon DEF SearchFor
    <2>9. Run.at > 0
      BY <1>1, <2>1, StateFacts DEF Down, DownRaise
    <2> QED BY <1>1, <2>1, <2>3, <2>4, <2>6, <2>7, <2>8, <2>9, UnwindHand, Zenon
  <1>3. Running'
    BY <1>1 DEF Running
  <1> QED BY <1>2, <1>3, HandIf

LEMMA SearchSehHand ==
    ASSUME EhInv, StateInv, HandInv, SearchSeh
    PROVE  HandInv'
  <1>1. /\ Run.k = "raise" /\ Run.at > 0 /\ stack[Run.at].k = "seh" /\ Running
        /\ Run.phase \in {"scan", "filter"} /\ Run.phase # "build"
        /\ UNCHANGED <<mode, halt, stale, thrown>>
    BY DEF SearchSeh, RunIs, ghost, runtime
  <1>2. ASSUME Precise'
        PROVE  FramesFor(stack', Top', thrown') /\ TopFor(stack', Top', csp')
    <2>1. Precise
      BY <1>1, <1>2 DEF Precise, Running
    <2>2. Own(Run) /\ DOMAIN Run = RaiseFields /\ Run = stack[Top]
      BY <1>1, <2>1, StateFacts DEF Own, OwnRaise
    <2>3. PICK n, r, f, T : n = NextFrame(Run) /\ r = Rephased(n, "scan") /\ f = Rephased(Run, "filter")
                            /\ T = TypeIn(thrown, Meant(Run.rec))
      OBVIOUS
    <2>4. Run.want # Unspecified => GoneDown(stack, Top - 1, Run.at - 1, Run.rec, T)
      <3> HAVE Run.want # Unspecified
      <3>1. ~EndsAt(stack, Run.at, Run.rec) /\ ~BarsAt(stack, Run.at, T) /\ stack[Run.at].k \notin Scoped
        BY <1>1 DEF EndsAt, BarsAt, Scoped
      <3> QED BY <1>1, <2>1, <2>3, <3>1, SearchOther
    <2>5. CASE stack' = [stack EXCEPT ![Top] = r]
      <3>1. /\ Scans(n) /\ SameSearch(n, Run)
            /\ Run.want # Unspecified =>
                   n.scope = 0 /\ n.again = FALSE /\ n.at = Run.at - 1 /\ n.at \in Nat
        BY <1>1, <2>1, <2>3, SearchNext, Zenon
      <3>2. Own(n) /\ n.k = "raise"
        BY <1>1, <2>1, <2>2, <2>3, RaiseSees, NextFrameOf
      <3>3. DOMAIN n = RaiseFields
        BY <3>2 DEF Own, OwnRaise
      <3>4. /\ r.k = "raise" /\ r.phase = "scan" /\ r.rec = n.rec /\ r.want = n.want
            /\ r.scope = n.scope /\ r.again = n.again /\ r.at = n.at
        BY <2>3, <3>2, <3>3 DEF Rephased, RaiseFields
      <3>5. /\ Scans(r) /\ SameSearch(r, Run)
            /\ r.want # Unspecified =>
                   /\ r.scope = 0 /\ r.again = FALSE /\ r.at \in Nat
                   /\ GoneDown(stack, Top - 1, r.at, Run.rec, TypeIn(thrown, Meant(Run.rec)))
        BY <2>3, <2>4, <3>1, <3>4 DEF Scans, SameSearch
      <3> QED BY <1>1, <2>1, <2>5, <3>5, StackStays, SearchHand, Zenon
    <2>6. CASE Run.rec = Foreign
               /\ stack' = StartUnwind([stack EXCEPT ![Top].phase = "scan"], Foreign, Run.at, NoHit)
      <3>1. PICK q, s : q = Rephased(Run, "scan") /\ s = [stack EXCEPT ![Top] = q]
        BY Zenon
      <3>2. /\ Scans(q) /\ SameSearch(q, Run) /\ s = [stack EXCEPT ![Top].phase = "scan"]
            /\ q.want # Unspecified =>
                   /\ q.scope = 0 /\ q.again = FALSE /\ q.at \in Nat
                   /\ GoneDown(stack, Top - 1, q.at, Run.rec, TypeIn(thrown, Meant(Run.rec)))
        BY <1>1, <2>1, <3>1, SearchRephased, Zenon
      <3>3. IsStack(s) /\ Len(s) = Top /\ s[Top] = q /\ StillAll(stack, s, Top - 1)
        BY <2>1, <3>1, TopBecomes, Zenon
      <3>4. PICK rec, hit : rec = Foreign /\ hit = NoHit
        OBVIOUS
      <3>5. stack' = Append(s, Unw(rec, Top, Run.at, hit, Run.want))
        BY <2>6, <3>2, <3>4, Zenon DEF StartUnwind
      <3>6. Run.want = Unspecified
        BY <1>1, <2>1, <2>6, RaiseNow DEF Foreign
      <3> QED BY <1>1, <2>1, <3>2, <3>3, <3>4, <3>5, <3>6, UnwindHand, Zenon
    <2>7. CASE stack' = Append([stack EXCEPT ![Top].phase = "filter"], Fn("aux"))
      <3>1. PICK s : s = [stack EXCEPT ![Top] = f]
        BY Zenon
      <3>2. /\ Scans(f) /\ SameSearch(f, Run) /\ s = [stack EXCEPT ![Top].phase = "filter"]
            /\ f.want # Unspecified =>
                   /\ f.scope = 0 /\ f.again = FALSE /\ f.at \in Nat
                   /\ GoneDown(stack, Top - 1, f.at, Run.rec, TypeIn(thrown, Meant(Run.rec)))
        BY <1>1, <2>1, <2>3, <3>1, SearchRephased, Zenon
      <3>3. IsStack(s) /\ Len(s) = Top /\ s[Top] = f /\ StillAll(stack, s, Top - 1)
        BY <2>1, <3>1, TopBecomes, Zenon
      <3>4. PICK st2 : st2 = stack' /\ st2 = Append(s, Fn("aux"))
        BY <2>7, <3>2, Zenon
      <3>5. st2[Top] = f /\ StillAll(stack, st2, Top - 1)
        <4>1. PICK fr : fr = Fn("aux")
          OBVIOUS
        <4>2. IsStack(s) /\ Len(s) = Top /\ st2 = Append(s, fr)
          BY <3>3, <3>4, <4>1
        <4>3. st2[Top] = s[Top]
          BY <2>1, <4>2, TopGrows
        <4>4. StillAll(stack, s, Top - 1) => StillAll(stack, st2, Top - 1)
          BY <2>1, <4>2, TopGrows, Zenon
        <4> QED BY <3>3, <4>3, <4>4
      <3>6. FrameFor(st2, Top, thrown)
        BY <1>1, <2>1, <3>2, <3>5, RaiseOn, Zenon
      <3> QED BY <1>1, <2>1, <3>3, <3>4, <3>6, AuxHand, Zenon
    <2>8. \/ stack' = [stack EXCEPT ![Top] = r]
          \/ Run.rec = Foreign
             /\ stack' = StartUnwind([stack EXCEPT ![Top].phase = "scan"], Foreign, Run.at, NoHit)
          \/ stack' = Append([stack EXCEPT ![Top].phase = "filter"], Fn("aux"))
      BY <2>3, Zenon DEF SearchSeh, Rephased
    <2> QED BY <2>5, <2>6, <2>7, <2>8
  <1>3. Running'
    BY <1>1 DEF Running
  <1> QED BY <1>2, <1>3, HandIf

LEMMA SearchDispatcherHand ==
    ASSUME EhInv, StateInv, HandInv, SearchDispatcher
    PROVE  HandInv'
  <1>1. /\ Run.k = "raise" /\ Run.phase = "scan" /\ Run.at > 0 /\ stack[Run.at].k = "raise" /\ Running
        /\ Run.phase # "build" /\ UNCHANGED <<mode, halt, stale, thrown>>
    BY DEF SearchDispatcher, RunIs, ghost, runtime
  <1>2. ASSUME Precise'
        PROVE  FramesFor(stack', Top', thrown') /\ TopFor(stack', Top', csp')
    <2>1. Precise
      BY <1>1, <1>2 DEF Precise, Running
    <2>2. PICK T, r : T = TypeIn(thrown, Meant(Run.rec)) /\ r = NextFrame(Run)
      OBVIOUS
    <2>3. ~BarsAt(stack, Run.at, T) /\ stack[Run.at].k \notin Scoped
      BY <1>1 DEF BarsAt, Scoped
    <2>4. CASE stack[Run.at].phase = "build" /\ stack' = StartUnwind(stack, Run.rec, Run.at, NoHit)
      <3>1. PICK rec, hit : rec = Run.rec /\ hit = NoHit
        OBVIOUS
      <3>2. stack' = Append(stack, Unw(rec, Top, Run.at, hit, Run.want))
        BY <2>4, <3>1 DEF StartUnwind
      <3>3. Run.want # Unspecified => Run.want = [pos |-> Run.at, try |-> hit.try]
        <4> HAVE Run.want # Unspecified
        <4>1. EndsAt(stack, Run.at, Run.rec)
          BY <1>1, <2>4 DEF EndsAt
        <4>2. Run.want = [pos |-> Run.at, try |-> 0]
          BY <1>1, <2>1, <2>2, <2>3, <4>1, SearchOther
        <4> QED BY <3>1, <4>2 DEF NoHit
      <3>4. Scans(Run) /\ SameSearch(Run, Run) /\ stack[Top] = Run
        BY <1>1, <2>1, StateFacts DEF Scans, SameSearch
      <3>5. Run.want # Unspecified =>
               /\ Run.scope = 0 /\ Run.again = FALSE /\ Run.at \in Nat
               /\ GoneDown(stack, Top - 1, Run.at, Run.rec, TypeIn(thrown, Meant(Run.rec)))
        BY <1>1, <2>1, SearchSame, Zenon
      <3>6. IsStack(stack) /\ Len(stack) = Top /\ StillAll(stack, stack, Top - 1)
        BY <2>1, StackStays
      <3> QED BY <1>1, <2>1, <3>1, <3>2, <3>3, <3>4, <3>5, <3>6, UnwindHand, Zenon
    <2>5. CASE stack[Run.at].phase # "build" /\ stack' = [stack EXCEPT ![Top] = r]
      <3>1. /\ Scans(r) /\ SameSearch(r, Run)
            /\ Run.want # Unspecified =>
                   r.scope = 0 /\ r.again = FALSE /\ r.at = Run.at - 1 /\ r.at \in Nat
        BY <1>1, <2>1, <2>2, SearchNext, Zenon
      <3>2. Run.want # Unspecified => GoneDown(stack, Top - 1, Run.at - 1, Run.rec, T)
        <4> HAVE Run.want # Unspecified
        <4>1. ~EndsAt(stack, Run.at, Run.rec)
          BY <1>1, <2>5 DEF EndsAt
        <4> QED BY <1>1, <2>1, <2>2, <2>3, <4>1, SearchOther
      <3>3. r.want # Unspecified =>
               /\ r.scope = 0 /\ r.again = FALSE /\ r.at \in Nat
               /\ GoneDown(stack, Top - 1, r.at, Run.rec, TypeIn(thrown, Meant(Run.rec)))
        BY <2>2, <3>1, <3>2 DEF SameSearch
      <3> QED BY <1>1, <2>1, <2>5, <3>1, <3>3, StackStays, SearchHand, Zenon
    <2> QED BY <2>2, <2>4, <2>5, Zenon DEF SearchDispatcher
  <1>3. Running'
    BY <1>1 DEF Running
  <1> QED BY <1>2, <1>3, HandIf

LEMMA SearchCatchBlockHand ==
    ASSUME EhInv, StateInv, HandInv, SearchCatchBlock
    PROVE  HandInv'
  <1>1. /\ Run.k = "raise" /\ Run.phase = "scan" /\ Run.at > 0 /\ stack[Run.at].k = "ccb" /\ Running
        /\ Run.phase # "build" /\ UNCHANGED <<mode, halt, thrown>>
        /\ stale' = IF SeesIp THEN stale \cup {Run.rec} ELSE stale
    BY DEF SearchCatchBlock, RunIs
  <1>2. ASSUME Precise'
        PROVE  FramesFor(stack', Top', thrown') /\ TopFor(stack', Top', csp')
    <2>1. Precise
      BY <1>1, <1>2 DEF Precise, Running
    <2>2. PICK T, r, p : T = TypeIn(thrown, Meant(Run.rec)) /\ r = NextFrame(Run) /\ p = Run.at
      OBVIOUS
    <2>3. ~BarsAt(stack, Run.at, T) /\ stack[Run.at].k \notin Scoped
      BY <1>1 DEF BarsAt, Scoped
    <2>4. /\ Own(Run) /\ Run = stack[Top] /\ IsStack(stack) /\ Top = Len(stack) /\ Top \in Nat
          /\ stack[Top] = Run /\ DOMAIN stack = 1 .. Top /\ Top - 1 \in Nat
          /\ p \in 1 .. Top - 1 /\ Own(stack[p])
      BY <1>1, <2>1, <2>2, StateFacts, RaiseSees, RaiseNow DEF Top
    <2>5. /\ Scans(r) /\ SameSearch(r, Run)
          /\ Run.want # Unspecified =>
                 r.scope = 0 /\ r.again = FALSE /\ r.at = Run.at - 1 /\ r.at \in Nat
      BY <1>1, <2>1, <2>2, SearchNext, Zenon
    <2>6. ASSUME NEW s, IsStack(s), Len(s) = Top, StillAll(stack, s, Top - 1),
                 stack' = [s EXCEPT ![Top] = r], ~EndsAt(stack, Run.at, Run.rec)
          PROVE  FramesFor(stack', Top', thrown') /\ TopFor(stack', Top', csp')
      <3>1. Run.want # Unspecified => GoneDown(stack, Top - 1, Run.at - 1, Run.rec, T)
        BY <1>1, <2>1, <2>2, <2>3, <2>6, SearchOther
      <3>2. r.want # Unspecified =>
               /\ r.scope = 0 /\ r.again = FALSE /\ r.at \in Nat
               /\ GoneDown(stack, Top - 1, r.at, Run.rec, TypeIn(thrown, Meant(Run.rec)))
        BY <2>2, <2>5, <3>1 DEF SameSearch
      <3> QED BY <1>1, <2>1, <2>5, <2>6, <3>2, SearchHand, Zenon
    <2>7. CASE stack[p].phase = "except"
      <3>1. stack' = [stack EXCEPT ![Top] = r]
        BY <2>2, <2>7, Zenon DEF SearchCatchBlock
      <3>2. ~EndsAt(stack, Run.at, Run.rec)
        BY <1>1, <2>2, <2>7 DEF EndsAt
      <3> QED BY <2>1, <2>6, <3>1, <3>2, StackStays, Zenon
    <2>8. CASE stack[p].phase # "except"
      <3>1. PICK same \in BOOLEAN :
                /\ same = (Run.rec = Rethrown \/ (Run.rec = stack[p].rec /\ IsObject(stack[p].rec)))
        BY Zenon
      <3>2. PICK c : c = Rethrowing(stack[p], same)
        OBVIOUS
      <3>3. PICK s : s = [stack EXCEPT ![p] = c]
        BY Zenon
      <3>4. s = [stack EXCEPT ![p].rethrow = same]
        BY <2>4, <3>2, <3>3 DEF Rethrowing
      <3>5. c.k = "ccb" /\ c.rec = stack[p].rec /\ c.try = stack[p].try /\ c.phase = stack[p].phase
        <4>1. DOMAIN stack[p] = CcbFields
          BY <1>1, <2>2, <2>4 DEF Own, OwnCcb
        <4> QED BY <1>1, <2>2, <3>2, <4>1 DEF Rethrowing, CcbFields
      <3>6. IsStack(s) /\ Len(s) = Top /\ s[Top] = Run /\ StillAll(stack, s, Top - 1)
        <4>1. p \in 1 .. Len(stack) /\ p # Top
          BY <2>4
        <4>2. /\ IsStack(s) /\ Len(s) = Top /\ s[p] = c
              /\ \A q \in 1 .. Top : q # p => s[q] = stack[q]
          <5>1. Changed(stack, s, p, c)
            BY <2>4, <3>3, <4>1, ChangeFrameTo, Zenon
          <5> QED BY <2>4, <5>1 DEF Changed
        <4>3. \A q \in 1 .. Top - 1 : Still(stack[q], s[q])
          <5>1. \A q \in 1 .. Top - 1 : q # p => s[q] = stack[q]
            BY <2>4, <4>2
          <5> QED BY <1>1, <2>2, <3>5, <4>2, <5>1 DEF Still
        <4>4. s[Top] = Run
          BY <2>4, <4>1, <4>2
        <4> QED BY <4>2, <4>3, <4>4 DEF StillAll
      <3>7. \/ Run.rec = Rethrown /\ stack' = StartUnwind(s, Rethrown, p, NoHit)
            \/ Run.rec # Rethrown /\ stack' = [s EXCEPT ![Top] = r]
        BY <2>2, <2>8, <3>1, <3>4, Zenon DEF SearchCatchBlock
      <3>8. CASE Run.rec = Rethrown /\ stack' = StartUnwind(s, Rethrown, p, NoHit)
        <4>1. PICK rec, hit : rec = Rethrown /\ hit = NoHit
          OBVIOUS
        <4>2. stack' = Append(s, Unw(rec, Top, Run.at, hit, Run.want))
          BY <2>2, <3>8, <4>1 DEF StartUnwind
        <4>3. Run.want # Unspecified => Run.want = [pos |-> Run.at, try |-> hit.try]
          <5> HAVE Run.want # Unspecified
          <5>1. stack[p].phase = "try"
            BY <1>1, <2>2, <2>4, <2>8 DEF Own, OwnCcb
          <5>2. EndsAt(stack, Run.at, Run.rec)
            BY <1>1, <2>2, <3>8, <5>1 DEF EndsAt
          <5>3. Run.want = [pos |-> Run.at, try |-> 0]
            BY <1>1, <2>1, <2>2, <2>3, <5>2, SearchOther
          <5> QED BY <4>1, <5>3 DEF NoHit
        <4>4. Scans(Run) /\ SameSearch(Run, Run)
          BY <1>1 DEF Scans, SameSearch
        <4>5. Run.want # Unspecified =>
                 /\ Run.scope = 0 /\ Run.again = FALSE /\ Run.at \in Nat
                 /\ GoneDown(stack, Top - 1, Run.at, Run.rec, TypeIn(thrown, Meant(Run.rec)))
          BY <1>1, <2>1, SearchSame, Zenon
        <4> QED BY <1>1, <2>1, <3>6, <4>1, <4>2, <4>3, <4>4, <4>5, UnwindHand, Zenon
      <3>9. CASE Run.rec # Rethrown /\ stack' = [s EXCEPT ![Top] = r]
        <4>1. ~EndsAt(stack, Run.at, Run.rec)
          BY <1>1, <3>9 DEF EndsAt
        <4> QED BY <2>6, <3>6, <3>9, <4>1, Zenon
      <3> QED BY <3>7, <3>8, <3>9
    <2> QED BY <2>7, <2>8
  <1>3. Running'
    BY <1>1 DEF Running
  <1> QED BY <1>2, <1>3, HandIf

LEMMA SearchUnwindHand ==
    ASSUME EhInv, StateInv, HandInv, SearchUnwind
    PROVE  HandInv'
  <1>1. /\ Run.k = "raise" /\ Run.phase = "scan" /\ Run.at > 0 /\ stack[Run.at].k = "unw" /\ Running
        /\ UNCHANGED <<mode, stale, thrown>>
    BY DEF SearchUnwind, RunIs, Halted, ghost, runtime
  <1>2. PICK T, u : T = TypeIn(thrown, Meant(Run.rec)) /\ u = stack[Run.at]
    OBVIOUS
  <1>3. ASSUME Precise'
        PROVE  FramesFor(stack', Top', thrown') /\ TopFor(stack', Top', csp')
    <2>1. ~IsCxx(Run.rec) /\ UNCHANGED halt /\ Precise
      BY <1>1, <1>3, Zenon DEF SearchUnwind, Halted, Precise, Running
    <2>2. Own(Run) /\ Run = stack[Top] /\ DOMAIN Run = RaiseFields
      BY <1>1, <2>1, StateFacts DEF Own, OwnRaise
    <2>3. PICK r : r = Collided(Run, u)
      OBVIOUS
    <2>4. r.k = "raise" /\ r.phase = "scan" /\ r.rec = Run.rec /\ r.want = Run.want
      BY <1>1, <2>2, <2>3 DEF Collided, RaiseFields
    <2>5. stack' = [stack EXCEPT ![Top] = r]
      <3>1. stack' = [stack EXCEPT ![Top].at = stack[Run.at].at,
                                  ![Top].scope = stack[Run.at].scope, ![Top].again = TRUE]
        BY <2>1 DEF SearchUnwind
      <3> QED BY <1>2, <2>2, <2>3, <3>1, Zenon DEF Collided
    <2>6. Run.want = Unspecified
      <3>1. Run.want # Unspecified => Run.rec \in Nat
        BY <1>1, <2>1, RaiseNow, Zenon
      <3>2. Run.rec \in Nat => Run.rec >= 0
        OBVIOUS
      <3> QED BY <2>1, <3>1, <3>2 DEF IsCxx
    <2>7. Scans(r) /\ SameSearch(r, Run)
      BY <2>4 DEF Scans, SameSearch
    <2> QED BY <1>1, <2>1, <2>4, <2>5, <2>6, <2>7, StackStays, SearchHand, Zenon
  <1>4. ASSUME ~Running', (mode.fh = 4 /\ stale = {})'
        PROVE  (\A q \in 1 .. Top' : UnwFor(stack', q)) /\ Ended'
    <2>1. Precise
      BY <1>1, <1>4 DEF Precise
    <2>2. stack' = stack
      <3>1. halt' # halt
        BY <1>1, <1>4 DEF Running
      <3> QED BY <3>1, Zenon DEF SearchUnwind
    <2>3. ASSUME Run.want # Unspecified PROVE Run.want = Nowhere
      <3>1. BarsAt(stack, Run.at, T) /\ stack[Run.at].k \notin Scoped
        BY <1>1 DEF BarsAt, Scoped
      <3> QED BY <1>1, <1>2, <2>1, <2>3, <3>1, SearchOther
    <2> QED BY <2>1, <2>2, <2>3, HaltsHand
  <1>5. CASE Running'
    BY <1>3, <1>5, HandIf
  <1>6. CASE ~Running'
    BY <1>4, <1>6, HandStops
  <1> QED BY <1>5, <1>6

LEMMA SearchFailsHand ==
    ASSUME EhInv, StateInv, HandInv, SearchFails
    PROVE  HandInv'
  <1>1. /\ Run.k = "raise" /\ Run.at = 0 /\ Running /\ halt' = "unhandled"
        /\ UNCHANGED <<mode, stale, stack>>
    BY DEF SearchFails, RunIs, Halted, ghost
  <1>2. ~Running'
    BY <1>1 DEF Running
  <1>3. ASSUME (mode.fh = 4 /\ stale = {})'
        PROVE  (\A q \in 1 .. Top' : UnwFor(stack', q)) /\ Ended'
    <2>1. Precise
      BY <1>1, <1>3 DEF Precise
    <2>2. PICK T : T = TypeIn(thrown, Meant(Run.rec))
      OBVIOUS
    <2>3. stack[Run.at].k \notin Scoped \/ Run.at = 0
      BY <1>1
    <2>4. ASSUME Run.want # Unspecified PROVE Run.want = Nowhere
      <3>1. SearchFor(stack, Top, thrown, Meant(Run.rec)) /\ Run = stack[Top]
        BY <1>1, <2>1, <2>4, RaiseNow, HandFacts
      <3> QED BY <1>1, <3>1 DEF SearchFor, WantOK
    <2> QED BY <1>1, <2>1, <2>4, HaltsHand
  <1> QED BY <1>2, <1>3, HandStops

-----------------------------------------------------------------------------
(* The unwind *)

(* The frame that unwind r is at is unwound from, or has been unwound to, a state that
   is not in a catch block. *)
UnwPlain(st, r, c) ==
    /\ r.phase # "scan" => PlainState(st[r.at], r.state)
    /\ r.phase = "scan" /\ st[r.at].k \in Scoped => PlainState(st[r.at], From(st, r.at, r.scope, c))

LEMMA UnwNow ==
    ASSUME EhInv, StateInv, HandInv, Precise, Run.k = "unw"
    PROVE  /\ UnwPlain(stack, Run, csp) /\ UnwFor(stack, Top) /\ RecFor(stack, Top, thrown)
           /\ Run.hit # NoHit => /\ PlainState(stack[Run.target], LowAt(stack, Run.target, Run.hit.try))
                                 /\ Known(Run.rec, thrown)
  <1>1. FrameFor(stack, Top, thrown) /\ TopFor(stack, Top, csp) /\ Run = stack[Top]
    BY HandFacts
  <1>2. PlainFor(stack, Top) /\ UnwFor(stack, Top) /\ RecFor(stack, Top, thrown)
    BY <1>1 DEF FrameFor
  <1>3. UnwPlain(stack, Run, csp)
    BY <1>1, <1>2 DEF PlainFor, TopFor, UnwPlain
  <1> QED BY <1>1, <1>2, <1>3 DEF PlainFor, RecFor

(* The unwind goes on: frame r takes the place of the top one. *)
LEMMA UnwFrame ==
    ASSUME EhInv, StateInv, HandInv, Precise, Run.k = "unw", NEW r, IsUnw(r), SameUnwind(r, Run),
           r.want = Run.want, r.at \in 1 .. Top - 1, UnwPlain(stack, r, csp'),
           NEW s, s[Top] = r, \A p \in 1 .. Top - 1 : s[p] = stack[p]
    PROVE  FrameFor(s, Top, thrown) /\ TopFor(s, Top, csp')
  <1>1. /\ Run.target \in 1 .. Top - 1 /\ Run = stack[Top]
    BY UnwStateFacts
  <1>2. /\ UnwFor(stack, Top) /\ RecFor(stack, Top, thrown)
        /\ Run.hit # NoHit => /\ PlainState(stack[Run.target], LowAt(stack, Run.target, Run.hit.try))
                              /\ Known(Run.rec, thrown)
    BY UnwNow
  <1>3. /\ r.k = "unw" /\ r.target = Run.target /\ r.hit = Run.hit /\ r.rec = Run.rec
        /\ s[r.at] = stack[r.at] /\ s[r.target] = stack[r.target]
    BY <1>1 DEF IsUnw, SameUnwind
  <1>4. PlainFor(s, Top)
    BY <1>2, <1>3 DEF PlainFor, UnwPlain, LowAt, Scoped
  <1>5. RecFor(s, Top, thrown)
    BY <1>2, <1>3 DEF RecFor
  <1>6. RaiseFor(s, Top, thrown)
    BY <1>3 DEF RaiseFor
  <1>7. UnwFor(s, Top)
    BY <1>1, <1>2, <1>3 DEF UnwFor
  <1>8. TopFor(s, Top, csp')
    <2>1. From(s, r.at, r.scope, csp') = From(stack, r.at, r.scope, csp')
      BY <1>3 DEF From
    <2> QED BY <1>3, <2>1 DEF TopFor, UnwPlain
  <1> QED BY <1>4, <1>5, <1>6, <1>7, <1>8 DEF FrameFor

(* A frame below the one that has been passed is in a plain state: its own, or that of the
   try block it has caught in. *)
LEMMA PlainBeneath ==
    ASSUME EhInv, StateInv, HandInv, Precise, NEW a, a \in 2 .. Top, stack[a - 1].k \in Scoped,
           NEW c, c = IF stack[a].k = "ccb" THEN LowOf(stack, a) ELSE INVALID_STATE
    PROVE  PlainState(stack[a - 1], From(stack, a - 1, 0, c))
  <1>1. Top \in Nat /\ \A p \in 1 .. Top : FrameFor(stack, p, thrown)
    BY HandFacts
  <1>2. PlainFor(stack, a) /\ PlainFor(stack, a - 1)
    <2>1. a \in 1 .. Top /\ a - 1 \in 1 .. Top
      BY <1>1
    <2> QED BY <1>1, <2>1 DEF FrameFor
  <1>3. CASE stack[a].k = "ccb"
    <2>1. LowOf(stack, a) = LowAt(stack, a - 1, stack[a].try)
      BY DEF LowOf, LowAt
    <2>2. LowOf(stack, a) # INVALID_STATE
      <3>1. Formed(stack, Top) /\ a \in 1 .. Top
        BY <1>1, HandFacts
      <3>2. LowOf(stack, a) \in DOMAIN Prog[stack[a - 1].f].unwind /\ stack[a - 1].f \in DOMAIN Prog
        BY <1>3, <3>1, CcbGroup
      <3>3. LowOf(stack, a) \in Nat
        BY <3>2, StatesFacts
      <3> QED BY <3>3 DEF INVALID_STATE
    <2> QED BY <1>2, <1>3, <2>1, <2>2 DEF PlainFor, From
  <1>4. CASE stack[a].k # "ccb"
    BY <1>2, <1>4 DEF PlainFor, From
  <1> QED BY <1>3, <1>4

LEMMA UnwGoesOn ==
    ASSUME EhInv, StateInv, HandInv, Precise, Run.k = "unw", NEW r, IsUnw(r), SameUnwind(r, Run),
           r.want = Run.want, r.at \in 1 .. Top - 1, UnwPlain(stack, r, csp'),
           stack' = [stack EXCEPT ![Top] = r], thrown' = thrown
    PROVE  FramesFor(stack', Top', thrown') /\ TopFor(stack', Top', csp')
  <1>1. PICK s : s = stack'
    OBVIOUS
  <1>2. s = [stack EXCEPT ![Top] = r]
    BY <1>1
  <1>3. /\ Len(s) = Top /\ s[Top] = r /\ StillAll(stack, s, Top - 1)
        /\ \A p \in 1 .. Top - 1 : s[p] = stack[p]
        /\ Top \in Nat /\ Top > 0 /\ Top - 1 \in Nat /\ Top - 1 <= Top /\ (Top - 1) + 1 = Top
    <2>1. PICK r2, s2 : r2 = r /\ s2 = s
      OBVIOUS
    <2>2. s2 = [stack EXCEPT ![Top] = r2]
      BY <1>2, <2>1
    <2>3. EhInv /\ StateInv /\ Precise
      OBVIOUS
    <2>4. /\ IsStack(s2) /\ Len(s2) = Top /\ s2[Top] = r2 /\ StillAll(stack, s2, Top - 1)
          /\ \A p \in 1 .. Top - 1 : s2[p] = stack[p]
          /\ Top \in Nat /\ Top > 0 /\ Top - 1 \in Nat /\ Top - 1 <= Top /\ (Top - 1) + 1 = Top
      BY ONLY <2>2, <2>3, TopBecomes, ZenonT(30)
    <2> QED BY ONLY <2>1, <2>4
  <1>4. FrameFor(s, Top, thrown) /\ TopFor(s, Top, csp')
    BY <1>3, UnwFrame
  <1>5. FramesFor(s, Top, thrown)
    <2>1. FrameFor(s, (Top - 1) + 1, thrown)
      BY <1>3, <1>4
    <2>2. FramesFor(s, (Top - 1) + 1, thrown)
      BY <1>3, <2>1, HandFacts, OneOn
    <2> QED BY <1>3, <2>2
  <1>6. Top' = Top
    BY <1>1, <1>3, Zenon DEF Top
  <1> QED BY <1>1, <1>4, <1>5, <1>6

(* The unwind goes on with the frame below. *)
LEMMA UnwNext ==
    ASSUME EhInv, StateInv, HandInv, Precise, Run.k = "unw", Run.at # Run.target,
           stack[Run.at - 1].k \in Scoped =>
               csp' = IF stack[Run.at].k = "ccb" THEN LowOf(stack, Run.at) ELSE INVALID_STATE,
           NEW st, NEW ph, stack' = [stack EXCEPT ![Top] = UnwAs(Run, Run.at - 1, 0, st, ph)], ph = "scan",
           thrown' = thrown
    PROVE  FramesFor(stack', Top', thrown') /\ TopFor(stack', Top', csp')
  <1>1. PICK r : r = UnwAs(Run, Run.at - 1, 0, st, ph)
    OBVIOUS
  <1>2. /\ Top \in Nat /\ Run.at \in 1 .. Top - 1 /\ Run.target \in 1 .. Top - 1 /\ Run.target <= Run.at
        /\ DOMAIN Run = UnwFields /\ IsUnw(Run)
    BY UnwStateFacts
  <1>3. /\ IsUnw(r) /\ SameUnwind(r, Run) /\ r.want = Run.want /\ r.at = Run.at - 1 /\ r.scope = 0
        /\ r.phase = "scan"
    BY <1>1, <1>2 DEF UnwAs, IsUnw, SameUnwind
  <1>4. Run.at \in 2 .. Top /\ Run.at - 1 \in 1 .. Top - 1
    BY <1>2
  <1>5. UnwPlain(stack, r, csp')
    <2> SUFFICES ASSUME stack[Run.at - 1].k \in Scoped
                 PROVE  PlainState(stack[Run.at - 1], From(stack, Run.at - 1, 0, csp'))
      BY <1>3 DEF UnwPlain
    <2> QED BY <1>4, PlainBeneath
  <1> QED BY <1>1, <1>3, <1>4, <1>5, UnwGoesOn, Zenon

LEMMA Next1As ==
    ASSUME EhInv, Run.k = "unw", Run.phase = "scan"
    PROVE  Next1(stack) = [stack EXCEPT ![Top] = UnwAs(Run, Run.at - 1, 0, Run.state, Run.phase)]
  BY Next1Is

LEMMA UnwindCatchBlockHand ==
    ASSUME EhInv, StateInv, HandInv, UnwindCatchBlock
    PROVE  HandInv'
  <1>1. /\ Run.k = "unw" /\ Run.phase = "scan" /\ Run.at # Run.target /\ stack[Run.at].k = "ccb"
        /\ UNCHANGED <<mode, halt, stale, thrown>> /\ stack' = Next1(stack) /\ Running
        /\ csp' = IF mode.fh = 4 THEN Try(stack[Run.at - 1].f, stack[Run.at].try).low ELSE csp
    BY DEF UnwindCatchBlock, RunIs
  <1>2. ASSUME Precise'
        PROVE  FramesFor(stack', Top', thrown') /\ TopFor(stack', Top', csp')
    <2>1. Precise
      BY <1>1, <1>2 DEF Precise, Running
    <2>2. csp' = IF stack[Run.at].k = "ccb" THEN LowOf(stack, Run.at) ELSE INVALID_STATE
      BY <1>1, <2>1 DEF LowOf, Precise
    <2>3. stack' = [stack EXCEPT ![Top] = UnwAs(Run, Run.at - 1, 0, Run.state, Run.phase)]
      BY <1>1, Next1As
    <2> QED BY <1>1, <2>1, <2>2, <2>3, UnwNext, Zenon
  <1>3. Running'
    BY <1>1 DEF Running
  <1> QED BY <1>2, <1>3, HandIf

LEMMA UnwindOtherHand ==
    ASSUME EhInv, StateInv, HandInv, UnwindOther
    PROVE  HandInv'
  <1>1. /\ Run.k = "unw" /\ Run.phase = "scan" /\ Run.at # Run.target
        /\ stack[Run.at].k \in {"seh", "raise"}
        /\ UNCHANGED <<mode, halt, stale, thrown>> /\ stack' = Next1(stack) /\ Running
    BY DEF UnwindOther, RunIs, ghost
  <1>2. ASSUME Precise'
        PROVE  FramesFor(stack', Top', thrown') /\ TopFor(stack', Top', csp')
    <2>1. Precise
      BY <1>1, <1>2 DEF Precise, Running
    <2>2. csp' = INVALID_STATE
      <3>1. csp = INVALID_STATE
        BY <1>1 DEF EhInv, ParentInv
      <3>2. csp' = csp \/ csp' = Invalidated
        BY DEF UnwindOther
      <3> QED BY <3>1, <3>2 DEF Invalidated
    <2>3. csp' = IF stack[Run.at].k = "ccb" THEN LowOf(stack, Run.at) ELSE INVALID_STATE
      BY <1>1, <2>2
    <2>4. stack' = [stack EXCEPT ![Top] = UnwAs(Run, Run.at - 1, 0, Run.state, Run.phase)]
      BY <1>1, Next1As
    <2> QED BY <1>1, <2>1, <2>3, <2>4, UnwNext, Zenon
  <1>3. Running'
    BY <1>1 DEF Running
  <1> QED BY <1>2, <1>3, HandIf

LEMMA UnwindCxxHand ==
    ASSUME EhInv, StateInv, HandInv, UnwindCxx
    PROVE  HandInv'
  <1>1. /\ Run.k = "unw" /\ Run.phase = "scan" /\ stack[Run.at].k \in Scoped
        /\ UNCHANGED <<mode, halt, stale, thrown>> /\ csp' = INVALID_STATE /\ Running
    BY DEF UnwindCxx, RunIs, ghost, Scoped
  <1>2. ASSUME Precise'
        PROVE  FramesFor(stack', Top', thrown') /\ TopFor(stack', Top', csp')
    <2>1. Precise
      BY <1>1, <1>2 DEF Precise, Running
    <2>2. /\ Run.at \in 1 .. Top - 1 /\ DOMAIN Run = UnwFields /\ IsUnw(Run) /\ Run = stack[Top]
      BY <1>1, <2>1, UnwStateFacts
    <2>3. Run.at = Run.target => Run.hit # NoHit /\ Prog[stack[Run.at].f].unwind # <<>>
      BY <1>1, UnwindAtFunction DEF EhInv, Scoped
    <2> DEFINE idle == (Skipped(Run.rec) /\ ~Consolidates(Run)) \/ Prog[stack[Run.at].f].unwind = <<>>
    <2>4. CASE idle
      <3>1. stack' = Next1(stack)
        BY <2>4 DEF UnwindCxx
      <3>2. stack' = [stack EXCEPT ![Top] = UnwAs(Run, Run.at - 1, 0, Run.state, Run.phase)]
        BY <1>1, <3>1, Next1As
      <3>3. Run.at # Run.target
        BY <2>3, <2>4 DEF Consolidates
      <3>4. csp' = IF stack[Run.at].k = "ccb" THEN LowOf(stack, Run.at) ELSE INVALID_STATE
        BY <1>1 DEF Scoped
      <3> QED BY <1>1, <2>1, <3>2, <3>3, <3>4, UnwNext, Zenon
    <2>5. CASE ~idle
      <3>1. PICK s : s = UnwindFrom(Run.at, Run.scope)
        OBVIOUS
      <3>2. s = From(stack, Run.at, Run.scope, csp)
        BY <2>1, <3>1 DEF UnwindFrom, SearchState, From, Precise
      <3>3. PICK r : r = [Run EXCEPT !.phase = "states", !.state = s]
        OBVIOUS
      <3>4. /\ IsUnw(r) /\ SameUnwind(r, Run) /\ r.want = Run.want
            /\ r.phase = "states" /\ r.at = Run.at /\ r.state = s
        BY <2>2, <3>3 DEF UnwFields, IsUnw, SameUnwind
      <3>5. stack' = [stack EXCEPT ![Top] = r]
        <4>1. stack' = [stack EXCEPT ![Top].phase = "states",
                                    ![Top].state = UnwindFrom(Run.at, Run.scope)]
          BY <2>5, Zenon DEF UnwindCxx
        <4> QED BY <2>1, <2>2, <3>1, <3>3, <4>1, StateFacts, Zenon DEF UnwFields
      <3>6. PlainState(stack[Run.at], s)
        <4>1. UnwPlain(stack, Run, csp)
          BY <1>1, <2>1, UnwNow
        <4> QED BY <1>1, <3>2, <4>1 DEF UnwPlain
      <3>7. UnwPlain(stack, r, csp')
        BY <3>4, <3>6 DEF UnwPlain
      <3> QED BY <1>1, <2>1, <2>2, <3>4, <3>5, <3>7, UnwGoesOn, Zenon
    <2> QED BY <2>4, <2>5
  <1>3. Running'
    BY <1>1 DEF Running
  <1> QED BY <1>2, <1>3, HandIf

LEMMA FrameUnwoundHand ==
    ASSUME EhInv, StateInv, HandInv, FrameUnwound
    PROVE  HandInv'
  <1>1. /\ Run.k = "unw" /\ Run.phase = "states" /\ Running
        /\ UNCHANGED <<mode, halt, stale, thrown>> /\ csp' = Invalidated
    BY DEF FrameUnwound, RunIs, ghost
  <1>2. ASSUME Precise'
        PROVE  FramesFor(stack', Top', thrown') /\ TopFor(stack', Top', csp')
    <2>1. Precise /\ csp' = INVALID_STATE /\ mode.fh = 4
      BY <1>1, <1>2 DEF Precise, Running, Invalidated
    <2>2. /\ Run.at \in 1 .. Top - 1 /\ DOMAIN Run = UnwFields /\ IsUnw(Run) /\ Run = stack[Top]
          /\ Top \in DOMAIN stack
      BY <1>1, <2>1, UnwStateFacts, StateFacts
    <2>3. PICK r : r = IF Run.at = Run.target THEN [Run EXCEPT !.phase = "land"]
                       ELSE UnwAs(Run, Run.at - 1, 0, Run.state, "scan")
      BY Zenon
    <2>4. stack' = [stack EXCEPT ![Top] = r]
      <3>1. stack' = IF Run.at = Run.target THEN [stack EXCEPT ![Top].phase = "land"]
                     ELSE [Next1(stack) EXCEPT ![Top].phase = "scan"]
        BY <2>1 DEF FrameUnwound
      <3> QED BY <2>2, <2>3, <3>1, Zenon DEF Next1, UnwFields, UnwAs
    <2>5. CASE Run.at = Run.target
      <3>1. /\ IsUnw(r) /\ SameUnwind(r, Run) /\ r.want = Run.want
            /\ r.phase = "land" /\ r.at = Run.at /\ r.state = Run.state
        BY <2>2, <2>3, <2>5 DEF UnwFields, IsUnw, SameUnwind
      <3>2. UnwPlain(stack, r, csp')
        <4>1. UnwPlain(stack, Run, csp)
          BY <1>1, <2>1, UnwNow
        <4> QED BY <1>1, <3>1, <4>1 DEF UnwPlain
      <3> QED BY <1>1, <2>1, <2>2, <2>4, <3>1, <3>2, UnwGoesOn, Zenon
    <2>6. CASE Run.at # Run.target
      <3>1. PICK ph : ph = "scan"
        OBVIOUS
      <3>2. stack' = [stack EXCEPT ![Top] = UnwAs(Run, Run.at - 1, 0, Run.state, ph)]
        BY <2>3, <2>4, <2>6, <3>1
      <3>3. stack[Run.at].k \in Scoped
        <4>1. /\ Top \in 1 .. Top /\ stack[Top].k = "unw" /\ Formed(stack, Top)
              /\ stack[Top].phase = "states"
          BY <1>1, <2>1, <2>2, UnwStateFacts
        <4> QED BY <2>2, <4>1, UnwPlaces
      <3>4. csp' = IF stack[Run.at].k = "ccb" THEN LowOf(stack, Run.at) ELSE INVALID_STATE
        BY <2>1, <3>3 DEF Scoped
      <3> QED BY <1>1, <2>1, <2>6, <3>1, <3>2, <3>4, UnwNext, Zenon
    <2> QED BY <2>5, <2>6
  <1>3. Running'
    BY <1>1 DEF Running
  <1> QED BY <1>2, <1>3, HandIf

LEMMA UnwindUnwindHand ==
    ASSUME EhInv, StateInv, HandInv, UnwindUnwind
    PROVE  HandInv'
  <1>1. /\ Run.k = "unw" /\ Run.phase = "scan" /\ stack[Run.at].k = "unw" /\ Running
        /\ UNCHANGED <<mode, halt, stale, thrown>> /\ csp' = Invalidated
        /\ stack' = [stack EXCEPT ![Top].at = stack[Run.at].at, ![Top].scope = stack[Run.at].scope]
    BY DEF UnwindUnwind, RunIs, ghost
  <1>2. ASSUME Precise'
        PROVE  FramesFor(stack', Top', thrown') /\ TopFor(stack', Top', csp')
    <2>1. Precise /\ csp' = INVALID_STATE
      BY <1>1, <1>2 DEF Precise, Running, Invalidated
    <2>2. /\ Top \in Nat /\ Top > 1 /\ Formed(stack, Run.at) /\ IsUnw(Run) /\ Run = stack[Top]
          /\ Run.at \in 1 .. Top - 1 /\ DOMAIN Run = UnwFields
      BY <1>1, <2>1, UnwStateFacts
    <2>3. PICK a, u : a = Run.at /\ u = stack[a]
      OBVIOUS
    <2>4. /\ u.k = "unw" /\ u.phase = "states" /\ u.at \in 1 .. a - 1 /\ stack[u.at].k \in Scoped
          /\ a \in Nat /\ a > 0 /\ Formed(stack, a) /\ stack[a].k = "unw" /\ a \in 1 .. a
      BY <1>1, <2>2, <2>3, CoveredUnwind DEF EhInv, Scoped
    <2>5. u.scope = u.state + 2 /\ ArrivedOK(stack, a, u.state)
      BY <1>1, <2>1, <2>2, <2>3, StateFacts DEF Buried, BuriedOK
    <2>6. u.state \in Int /\ u.state + 2 # 0 /\ u.state + 2 \in Nat
      BY <2>3, <2>4, <2>5, ArrivedState
    <2>7. PICK r : r = [Run EXCEPT !.at = u.at, !.scope = u.scope]
      OBVIOUS
    <2>8. /\ IsUnw(r) /\ SameUnwind(r, Run) /\ r.want = Run.want
          /\ r.phase = "scan" /\ r.at = u.at /\ r.scope = u.scope
      BY <1>1, <2>2, <2>7 DEF UnwFields, IsUnw, SameUnwind
    <2>9. stack' = [stack EXCEPT ![Top] = r]
      BY <1>1, <2>1, <2>2, <2>3, <2>7, StateFacts, Zenon
    <2>10. PlainState(stack[u.at], u.state)
      <3>1. FrameFor(stack, a, thrown)
        <4>1. a \in 1 .. Top
          BY <2>2, <2>3
        <4> QED BY <2>1, <4>1, HandFacts
      <3> QED BY <2>3, <2>4, <3>1 DEF FrameFor, PlainFor
    <2>11. UnwPlain(stack, r, csp')
      <3>1. From(stack, r.at, r.scope, csp') = u.state
        BY <2>5, <2>6, <2>8 DEF From
      <3> QED BY <2>8, <2>10, <3>1 DEF UnwPlain
    <2>12. r.at \in 1 .. Top - 1
      BY <2>2, <2>3, <2>4, <2>8
    <2> QED BY <1>1, <2>1, <2>8, <2>9, <2>11, <2>12, UnwGoesOn, Zenon
  <1>3. Running'
    BY <1>1 DEF Running
  <1> QED BY <1>2, <1>3, HandIf

LEMMA UnwindStateHand ==
    ASSUME EhInv, StateInv, HandInv, UnwindState
    PROVE  HandInv'
  <1>1. /\ Run.k = "unw" /\ Run.phase = "states" /\ Run.state # EH_EMPTY_STATE
        /\ Run.state > UnwindTo(Run.at) /\ UNCHANGED <<mode, halt, stale, thrown>> /\ Running
    BY DEF UnwindState, RunIs
  <1>2. ASSUME Precise'
        PROVE  FramesFor(stack', Top', thrown') /\ TopFor(stack', Top', csp')
    <2>1. Precise /\ mode.fh = 4
      BY <1>1, <1>2 DEF Precise, Running
    <2>2. PICK p, f : p = Run.at /\ f = stack[p].f
      OBVIOUS
    <2>3. PICK next, action : next = UWE_TOSTATE(f, Run.state) /\ action = UWE_ACTION(f, Run.state)
      OBVIOUS
    <2>4. /\ stack[p].k \in Scoped /\ f \in DOMAIN Prog /\ Run.state \in DOMAIN Prog[f].unwind
      BY <1>1, <2>1, <2>2, UnwindsTo
    <2>5. /\ Top \in Nat /\ Top > 1 /\ Run = stack[Top] /\ Run.at \in 1 .. Top - 1
          /\ DOMAIN Run = UnwFields /\ IsUnw(Run) /\ IsStack(stack) /\ Top = Len(stack)
      BY <1>1, <2>1, UnwStateFacts, StackStays
    <2>6. PlainState(stack[p], next)
      <3>1. UnwPlain(stack, Run, csp)
        BY <1>1, <2>1, UnwNow
      <3>2. PlainState(stack[p], Run.state)
        BY <1>1, <2>2, <3>1 DEF UnwPlain
      <3> QED BY <2>2, <2>3, <2>4, <3>2, PlainUnwinds
    <2>7. PICK r : r = IF action = "none" THEN [Run EXCEPT !.state = next]
                       ELSE [Run EXCEPT !.state = next, !.scope = next + 2]
      BY Zenon
    <2>8. /\ IsUnw(r) /\ SameUnwind(r, Run) /\ r.want = Run.want
          /\ r.at = p /\ r.phase = "states" /\ r.state = next
      BY <1>1, <2>2, <2>5, <2>7 DEF IsUnw, SameUnwind, UnwFields
    <2>9. UnwPlain(stack, r, csp') /\ r.at \in 1 .. Top - 1
      BY <2>2, <2>5, <2>6, <2>8 DEF UnwPlain
    <2>10. PICK moved : moved = [stack EXCEPT ![Top] = r]
      BY Zenon
    <2>11. stack' = moved \/ stack' = Append(moved, Fn("aux"))
      <3>1. CASE action = "none"
        <4>1. stack' = [stack EXCEPT ![Top].state = next]
          BY <2>2, <2>3, <3>1 DEF UnwindState
        <4> QED BY <2>5, <2>7, <2>10, <3>1, <4>1, Zenon
      <3>2. CASE action # "none"
        <4>1. PICK m2 : m2 = [[stack EXCEPT ![Top].state = next] EXCEPT ![Top].scope = next + 2]
          BY Zenon
        <4>2. stack' = m2 \/ stack' = Append(m2, Fn("aux"))
          <5>1. stack' = CASE action = "none" -> [stack EXCEPT ![Top].state = next]
                           [] action = "plain" -> m2
                           [] OTHER -> Append(m2, Fn("aux"))
            BY <2>1, <2>2, <2>3, <4>1 DEF UnwindState
          <5> QED BY <3>2, <5>1
        <4>3. m2 = moved
          BY <2>5, <2>7, <2>10, <3>2, <4>1, Zenon DEF IsStack
        <4> QED BY <4>2, <4>3
      <3> QED BY <3>1, <3>2
    <2>12. CASE stack' = moved
      BY <1>1, <2>1, <2>8, <2>9, <2>10, <2>12, UnwGoesOn, Zenon
    <2>13. CASE stack' = Append(moved, Fn("aux"))
      <3>1. PICK s : s = moved
        OBVIOUS
      <3>2. IsStack(s) /\ Len(s) = Top /\ s[Top] = r /\ StillAll(stack, s, Top - 1)
            /\ \A q \in 1 .. Top - 1 : s[q] = stack[q]
        <4>1. s = [stack EXCEPT ![Top] = r]
          BY <2>10, <3>1
        <4>2. EhInv /\ StateInv /\ Precise
          BY <2>1
        <4> QED BY ONLY <4>1, <4>2, TopBecomes, ZenonT(30)
      <3>3. PICK fr, st2 : fr = Fn("aux") /\ st2 = stack' /\ st2 = Append(s, fr)
        BY <2>13, <3>1
      <3>4. /\ Len(st2) = Top + 1 /\ st2[Top + 1] = fr /\ st2[Top] = r
            /\ \A q \in 1 .. Top : st2[q] = s[q]
        BY <2>1, <3>2, <3>3, TopGrows
      <3>5. \A q \in 1 .. Top - 1 : st2[q] = stack[q]
        BY <2>5, <3>2, <3>4
      <3>6. FrameFor(st2, Top, thrown)
        BY <1>1, <2>1, <2>8, <2>9, <3>4, <3>5, UnwFrame
      <3>7. FrameFor(st2, Top + 1, thrown) /\ TopFor(st2, Top + 1, csp')
        <4>1. fr.k = "fn" /\ fr.f = "aux" /\ fr.ip = EH_EMPTY_STATE
          BY <3>3 DEF Fn
        <4>2. PlainState(fr, fr.ip)
          BY <4>1, EhAssumption, TryNumbers DEF PlainState, InCatch, EH_EMPTY_STATE
        <4>3. st2[Top + 1].k \in User /\ PlainState(st2[Top + 1], st2[Top + 1].ip)
          BY <3>4, <4>1, <4>2 DEF User
        <4> QED BY <4>3, UserFor, Zenon
      <3>8. FramesFor(st2, Top + 1, thrown)
        <4>1. /\ Top - 1 \in Nat /\ Top - 1 <= Top /\ (Top - 1) + 1 = Top /\ (Top - 1) + 2 = Top + 1
          BY <2>5
        <4>2. StillAll(stack, st2, Top - 1)
          BY <3>5, StillSame
        <4>3. FrameFor(st2, (Top - 1) + 1, thrown) /\ FrameFor(st2, (Top - 1) + 2, thrown)
          BY <3>6, <3>7, <4>1
        <4>4. FramesFor(st2, (Top - 1) + 2, thrown)
          BY <2>1, <4>1, <4>2, <4>3, HandFacts, TwoOn
        <4> QED BY <4>1, <4>4
      <3>9. Top' = Top + 1
        BY <3>3, <3>4 DEF Top
      <3> QED BY <1>1, <3>3, <3>7, <3>8, <3>9
    <2> QED BY <2>11, <2>12, <2>13
  <1>3. Running'
    BY <1>1 DEF Running
  <1> QED BY <1>2, <1>3, HandIf

-----------------------------------------------------------------------------
(* The unwind lands *)

LEMMA LandInHandlerHand ==
    ASSUME EhInv, StateInv, HandInv, LandInHandler
    PROVE  HandInv'
  <1>1. /\ Run.k = "unw" /\ Run.phase = "land" /\ UNCHANGED <<mode, halt, stale, thrown>> /\ Running
    BY DEF LandInHandler, RunIs
  <1>2. ASSUME Precise'
        PROVE  FramesFor(stack', Top', thrown') /\ TopFor(stack', Top', csp')
    <2>1. Precise
      BY <1>1, <1>2 DEF Precise, Running
    <2>2. /\ Top \in Nat /\ Top > 1 /\ Run = stack[Top] /\ Formed(stack, Top) /\ IsStack(stack)
          /\ Top = Len(stack) /\ Run.target \in 1 .. Top - 1
      BY <1>1, <2>1, UnwStateFacts, StackStays
    <2>3. PICK p, i, f : p = Run.target /\ i = Run.hit.try /\ f = stack[p].f
      OBVIOUS
    <2>4. /\ stack[p].k \in Scoped /\ i \in DOMAIN Tries(f) /\ f \in DOMAIN Prog /\ Run.hit # NoHit
      <3>1. Top \in 1 .. Top /\ stack[Top].k = "unw" /\ stack[Top].phase = "land"
        BY <1>1, <2>2
      <3>2. Run.hit # NoHit
        BY <2>2, <3>1 DEF Formed, Down, DownUnw
      <3> QED BY <2>2, <2>3, <3>1, <3>2, UnwPlaces
    <2>5. PlainState(stack[p], LowAt(stack, p, i)) /\ Known(Run.rec, thrown)
      BY <1>1, <2>1, <2>3, <2>4, UnwNow
    <2>6. PICK a, b : a = Ccb(Run.rec, i) /\ b = CatchFn(f, Est(p), i)
      OBVIOUS
    <2>7. a.k = "ccb" /\ a.try = i /\ a.rec = Run.rec
      BY <2>6 DEF Ccb
    <2>8. b.k = "catch" /\ b.f = f /\ b.try = i /\ b.ip = Try(f, i).high + 1
      BY <2>6 DEF CatchFn
    <2>9. PICK st2 : st2 = stack'
      OBVIOUS
    <2>10. st2 = SubSeq(stack, 1, p) \o <<a, b>>
      BY <2>3, <2>6, <2>9, Zenon DEF LandInHandler
    <2>11. p \in 1 .. Len(stack) /\ p \in Nat /\ p > 0 /\ p \in 1 .. p /\ p <= Top /\ (p + 1) - 1 = p
      BY <2>2, <2>3
    <2>12. /\ Len(st2) = p + 2 /\ st2[p + 1] = a /\ st2[p + 2] = b
           /\ \A q \in 1 .. p : st2[q] = stack[q]
      <3>1. IsStack(stack) /\ p \in 1 .. Len(stack) /\ st2 = SubSeq(stack, 1, p) \o <<a, b>>
        BY <2>2, <2>10, <2>11
      <3> QED BY ONLY <3>1, TwoOnTop
    <2>13. FrameFor(st2, p + 1, thrown)
      <3>1. st2[p] = stack[p]
        BY <2>11, <2>12
      <3>2. PlainFor(st2, p + 1)
        BY <2>5, <2>7, <2>11, <2>12, <3>1 DEF PlainFor, LowAt, Scoped
      <3> QED BY <2>5, <2>7, <2>12, <3>2 DEF FrameFor, RecFor, RaiseFor, UnwFor
    <2>14. FrameFor(st2, p + 2, thrown) /\ TopFor(st2, p + 2, csp')
      <3>1. PlainState(b, Try(b.f, b.try).high + 1)
        BY <2>4, <2>8, PlainFunclet
      <3>2. st2[p + 2].k \in User /\ PlainState(st2[p + 2], st2[p + 2].ip)
        BY <2>8, <2>12, <3>1 DEF User
      <3> QED BY <3>2, UserFor, Zenon
    <2>15. FramesFor(st2, p + 2, thrown)
      <3>1. StillAll(stack, st2, p)
        BY <2>12, StillSame
      <3> QED BY <2>1, <2>11, <2>13, <2>14, <3>1, HandFacts, TwoOn
    <2>16. Top' = p + 2
      BY <2>9, <2>12 DEF Top
    <2> QED BY <1>1, <2>9, <2>14, <2>15, <2>16
  <1>3. Running'
    BY <1>1 DEF Running
  <1> QED BY <1>2, <1>3, HandIf

LEMMA FormedSame ==
    ASSUME NEW st, NEW st2, NEW n, Formed(st, n), \A q \in 1 .. n : st2[q] = st[q]
    PROVE  Formed(st2, n)
  <1>1. n \in Nat /\ \A q \in 1 .. n : Own(st[q]) /\ Down(st, q)
    BY DEF Formed
  <1>2. Kept(st, st2, n)
    BY <1>1, LikeItself DEF Kept
  <1>3. \A q \in 1 .. n : Down(st2, q)
    BY <1>1, <1>2, DownKept
  <1> QED BY <1>1, <1>3 DEF Formed

LEMMA LandInCatchBlockHand ==
    ASSUME EhInv, EhInv', StateInv, HandInv, LandInCatchBlock
    PROVE  HandInv'
  <1>1. /\ Run.k = "unw" /\ Run.phase = "scan" /\ Run.at = Run.target /\ stack[Run.at].k = "ccb"
        /\ UNCHANGED <<mode, halt, stale, thrown>> /\ Running
    BY DEF LandInCatchBlock, RunIs
  <1>2. ASSUME Precise'
        PROVE  FramesFor(stack', Top', thrown') /\ TopFor(stack', Top', csp')
    <2>1. Precise
      BY <1>1, <1>2 DEF Precise, Running
    <2>2. /\ Top \in Nat /\ Top > 1 /\ Formed(stack, Top) /\ IsStack(stack) /\ Top = Len(stack)
          /\ Run.at \in 1 .. Top - 1
      BY <1>1, <2>1, UnwStateFacts, StackStays
    <2>3. PICK p \in 1 .. Top - 1 : p = Run.target
      BY <1>1, <2>2
    <2>4. /\ p \in Nat /\ p > 0 /\ p \in 0 .. Len(stack) /\ p \in 1 .. p /\ stack[p].k = "ccb"
          /\ p \in 1 .. Top /\ p - 1 \in Nat /\ p - 1 <= Top /\ (p - 1) + 1 = p /\ (p - 1) + 2 = p + 1
          /\ (p + 1) - 1 = p /\ p + 1 \in Nat
      BY <1>1, <2>2, <2>3
    <2>5. Own(stack[p])
      BY <2>2, <2>4, Zenon DEF Formed
    <2>6. p - 1 \in 1 .. p - 1
      BY <2>2, <2>4, CcbGroup
    <2>7. PICK cut : cut = SubSeq(stack, 1, p)
      BY Zenon
    <2>8. IsStack(cut) /\ Len(cut) = p /\ \A q \in 1 .. p : cut[q] = stack[q]
      BY <2>2, <2>4, <2>7, CutFrames
    <2>9. PICK c : c = Excepting(stack[p])
      OBVIOUS
    <2>10. c.k = "ccb" /\ c.rec = stack[p].rec /\ c.try = stack[p].try
      BY <2>4, <2>5, <2>9, ExceptingOK
    <2>11. PICK s : s = [cut EXCEPT ![p] = c]
      BY Zenon
    <2>12. IsStack(s) /\ Len(s) = p /\ s[p] = c /\ \A q \in 1 .. p : q # p => s[q] = stack[q]
      <3>1. p \in 1 .. Len(cut)
        BY <2>4, <2>8
      <3>2. Changed(cut, [cut EXCEPT ![p] = c], p, c)
        BY <2>8, <3>1, ChangeFrameTo, Zenon
      <3>3. Changed(cut, s, p, c)
        BY <2>11, <3>2
      <3> QED BY <2>4, <2>8, <3>3 DEF Changed
    <2>13. PICK rec, want : rec = stack[p].rec /\ want = Expected(s, stack[p].rec)
      OBVIOUS
    <2>14. PICK r : r = Raise(rec, p, want)
      OBVIOUS
    <2>15. /\ r.k = "raise" /\ r.phase = "scan" /\ r.scope = 0 /\ r.again = FALSE
           /\ r.at = p /\ r.rec = rec /\ r.want = want
      BY <2>14 DEF Raise
    <2>16. PICK st2 : st2 = stack'
      OBVIOUS
    <2>17. st2 = Append(s, r)
      <3>1. PICK s0 : s0 = [SubSeq(stack, 1, p) EXCEPT ![p].phase = "except", ![p].rethrow = TRUE]
        BY Zenon
      <3>2. st2 = Append(s0, Raise(stack[p].rec, p, Expected(s0, stack[p].rec)))
        BY <2>3, <2>16, <3>1, Zenon DEF LandInCatchBlock
      <3>3. s0 = s
        BY <2>4, <2>7, <2>8, <2>9, <2>11, <3>1, Zenon DEF Excepting, IsStack
      <3> QED BY <2>13, <2>14, <3>2, <3>3
    <2>18. Len(st2) = p + 1 /\ st2[p + 1] = r /\ \A q \in 1 .. p : st2[q] = s[q]
      BY <2>12, <2>17, PushFrame
    <2>19. st2[p] = c /\ \A q \in 1 .. p - 1 : st2[q] = stack[q]
      BY <2>4, <2>12, <2>18
    <2>20. StillAll(stack, st2, p - 1) /\ StillAll(s, st2, p)
      BY <2>18, <2>19, StillSame
    <2>21. FrameFor(stack, p, thrown)
      BY <2>1, <2>4, HandFacts
    <2>22. Known(rec, thrown) /\ PlainState(stack[p - 1], LowAt(stack, p - 1, stack[p].try))
      BY <2>4, <2>13, <2>21 DEF FrameFor, RecFor, PlainFor
    <2>23. FrameFor(st2, p, thrown)
      <3>1. st2[p - 1] = stack[p - 1]
        BY <2>6, <2>19
      <3>2. PlainFor(st2, p)
        BY <2>10, <2>19, <2>22, <3>1 DEF PlainFor, LowAt, Scoped
      <3> QED BY <2>10, <2>13, <2>19, <2>22, <3>2 DEF FrameFor, RecFor, RaiseFor, UnwFor
    <2>24. \E d : IsCurrent(st2, p, d)
      <3>1. p \in HandlersIn(st2, p)
        BY <2>4, <2>10, <2>19, SeenItself DEF HandlersIn
      <3>2. \A q \in HandlersIn(st2, p) : q <= p
        BY DEF HandlersIn
      <3> QED BY <3>1, <3>2, Zenon DEF IsCurrent
    <2>25. ASSUME want # Unspecified
           PROVE  /\ rec \in 1 .. Len(thrown) /\ rec \in Nat /\ rec # Rethrown
                  /\ WantOK(st2, p, rec, TypeIn(thrown, rec), want)
      <3>1. rec \in 1 .. Len(thrown) \/ rec = Foreign
        BY <2>22 DEF Known
      <3>2. rec # Rethrown
        <4>1. Len(thrown) \in Nat
          BY <2>1, HandFacts
        <4> QED BY <3>1, <4>1 DEF Rethrown, Foreign
      <3>3. Meant(rec) = rec
        BY <3>2 DEF Meant
      <3>4. PICK T : T = TypeIn(thrown, rec)
        OBVIOUS
      <3>5. rec # Foreign /\ want = Want(s, rec, T)
        BY <2>13, <2>25, <3>3, <3>4, ExpectedIs
      <3>6. Formed(s, p)
        <4>1. Formed(st2, p + 1)
          BY <2>16, <2>18, FormedNext
        <4>2. Formed(st2, p)
          BY <2>4, <4>1, FormedLess
        <4> QED BY <2>18, <4>2, FormedSame
      <3>7. WantOK(s, p, rec, T, Want(s, rec, T))
        BY <2>12, <3>6, WantIsOK
      <3>8. WantOK(st2, p, rec, T, want)
        BY <2>4, <2>20, <3>5, <3>7, StillWant
      <3>9. rec \in Nat
        BY <3>1, <3>5
      <3> QED BY <3>1, <3>2, <3>4, <3>5, <3>8, <3>9
    <2>26. FrameFor(st2, p + 1, thrown) /\ TopFor(st2, p + 1, csp')
      <3>1. ASSUME want # Unspecified
            PROVE  /\ rec \in Nat
                   /\ \E d : /\ IsCurrent(st2, p, d)
                             /\ Mean(rec, d) = NoRecord \/ Mean(rec, d) \in 1 .. Len(thrown)
                             /\ WantOK(st2, p, rec, TypeIn(thrown, Mean(rec, d)), want)
        <4>1. \A d : Mean(rec, d) = rec
          BY <2>25, <3>1 DEF Mean
        <4> QED BY <2>24, <2>25, <3>1, <4>1
      <3>2. rec = Rethrown \/ Known(rec, thrown)
        BY <2>22
      <3> QED BY <2>4, <2>15, <2>18, <3>1, <3>2, RaiseStarts, ZenonT(30)
    <2>27. FramesFor(st2, p + 1, thrown)
      <3>1. FrameFor(st2, (p - 1) + 1, thrown) /\ FrameFor(st2, (p - 1) + 2, thrown)
        BY <2>4, <2>23, <2>26
      <3>2. FramesFor(st2, (p - 1) + 2, thrown)
        BY <2>1, <2>4, <2>20, <3>1, HandFacts, TwoOn
      <3> QED BY <2>4, <3>2
    <2>28. Top' = p + 1
      BY <2>16, <2>18 DEF Top
    <2> QED BY <1>1, <2>16, <2>26, <2>27, <2>28
  <1>3. Running'
    BY <1>1 DEF Running
  <1> QED BY <1>2, <1>3, HandIf

LEMMA LandInSehHand ==
    ASSUME EhInv, StateInv, HandInv, LandInSeh
    PROVE  HandInv'
  <1>1. /\ Run.k = "unw" /\ Run.phase = "scan" /\ Run.at = Run.target /\ stack[Run.at].k = "seh"
        /\ UNCHANGED <<mode, halt, stale, thrown>> /\ Running
    BY DEF LandInSeh, RunIs, runtime
  <1>2. ASSUME Precise'
        PROVE  FramesFor(stack', Top', thrown') /\ TopFor(stack', Top', csp')
    <2>1. Precise
      BY <1>1, <1>2 DEF Precise, Running
    <2>2. /\ Top \in Nat /\ Top > 1 /\ Formed(stack, Top) /\ IsStack(stack) /\ Top = Len(stack)
          /\ Run.at \in 1 .. Top - 1
      BY <1>1, <2>1, UnwStateFacts, StackStays
    <2>3. PICK p \in 1 .. Top - 1 : p = Run.target
      BY <1>1, <2>2
    <2>4. /\ p \in Nat /\ p > 0 /\ p \in 0 .. Len(stack) /\ p \in 1 .. p /\ stack[p].k = "seh"
          /\ p - 1 \in Nat /\ p - 1 <= Top /\ (p - 1) + 1 = p
      BY <1>1, <2>2, <2>3
    <2>5. PICK cut : cut = SubSeq(stack, 1, p)
      BY Zenon
    <2>6. IsStack(cut) /\ Len(cut) = p /\ \A q \in 1 .. p : cut[q] = stack[q]
      BY <2>2, <2>4, <2>5, CutFrames
    <2>7. PICK fr : fr = [cut[p] EXCEPT !.ip = EH_EMPTY_STATE]
      BY Zenon
    <2>8. fr.k = "seh"
      <3>1. Own(cut[p]) /\ cut[p].k = "seh"
        BY <2>2, <2>4, <2>6 DEF Formed
      <3> QED BY <2>7, <3>1 DEF Own, OwnSeh, SehFields
    <2>9. PICK st2 : st2 = stack'
      OBVIOUS
    <2>10. Len(st2) = p /\ st2[p] = fr /\ \A q \in 1 .. p - 1 : st2[q] = stack[q]
      <3>1. p \in 1 .. Len(cut)
        BY <2>4, <2>6
      <3>2. st2 = [cut EXCEPT ![p].ip = EH_EMPTY_STATE]
        BY <2>3, <2>5, <2>9, Zenon DEF LandInSeh
      <3>3. st2 = [cut EXCEPT ![p] = fr]
        BY <2>7, <3>2
      <3>4. Changed(cut, st2, p, fr)
        BY <2>6, <3>1, <3>3, ChangeFrameTo, Zenon
      <3>5. Len(st2) = p /\ st2[p] = fr /\ \A q \in 1 .. p : q # p => st2[q] = cut[q]
        BY <2>6, <3>4 DEF Changed
      <3> QED BY <2>4, <2>6, <3>5
    <2>11. FrameFor(st2, p, thrown) /\ TopFor(st2, p, csp')
      <3>1. st2[p].k \in User /\ (st2[p].k \in Scoped => PlainState(st2[p], st2[p].ip))
        BY <2>8, <2>10 DEF User, Scoped
      <3> QED BY <3>1, UserFor, Zenon
    <2>12. FramesFor(st2, p, thrown)
      <3>1. StillAll(stack, st2, p - 1)
        BY <2>10, StillSame
      <3>2. FrameFor(st2, (p - 1) + 1, thrown)
        BY <2>4, <2>11
      <3>3. FramesFor(st2, (p - 1) + 1, thrown)
        BY <2>1, <2>4, <3>1, <3>2, HandFacts, OneOn
      <3> QED BY <2>4, <3>3
    <2>13. Top' = p
      BY <2>9, <2>10 DEF Top
    <2> QED BY <1>1, <2>9, <2>11, <2>12, <2>13
  <1>3. Running'
    BY <1>1 DEF Running
  <1> QED BY <1>2, <1>3, HandIf

LEMMA LandInBuildHand ==
    ASSUME EhInv, StateInv, HandInv, LandInBuild
    PROVE  HandInv'
  <1>1. /\ Run.k = "unw" /\ Running /\ halt' = "abort" /\ UNCHANGED <<mode, stale, stack>>
    BY DEF LandInBuild, RunIs, Halted, ghost
  <1>2. ~Running'
    BY <1>1 DEF Running
  <1>3. ASSUME (mode.fh = 4 /\ stale = {})'
        PROVE  (\A q \in 1 .. Top' : UnwFor(stack', q)) /\ Ended'
    <2>1. Precise
      BY <1>1, <1>3 DEF Precise
    <2>2. Run.k # "raise"
      BY <1>1
    <2> QED BY <1>1, <2>1, <2>2, HaltsHand
  <1> QED BY <1>2, <1>3, HandStops

LEMMA StoppedHand ==
    ASSUME HandInv, UNCHANGED vars
    PROVE  HandInv'
  <1>1. UNCHANGED <<mode, stack, thrown, halt, csp, stale>>
    BY DEF vars, runtime, ghost
  <1>2. Top' = Top /\ Run' = Run /\ (Running' <=> Running)
    BY <1>1 DEF Run, Top, Running
  <1>3. /\ FramesFor(stack', Top', thrown') = FramesFor(stack, Top, thrown)
        /\ TopFor(stack', Top', csp') = TopFor(stack, Top, csp)
        /\ \A p : UnwFor(stack', p) = UnwFor(stack, p)
        /\ Ended' = Ended
    BY <1>1, <1>2 DEF Ended
  <1> QED BY <1>1, <1>2, <1>3 DEF HandInv

LEMMA NextHand ==
    ASSUME EhInv, EhInv', StateInv, HandInv, [Next]_vars
    PROVE  HandInv'
  <1>1. CASE Program
    BY <1>1, EnterScopeHand, LeaveScopeHand, CallHand, ReturnHand, ThrowHand, RethrowHand,
       FaultHand, CatchDoneHand DEF Program
  <1>2. CASE Search
    BY <1>2, SearchCxxHand, CatchObjectBuiltHand, SearchSehHand, SearchCatchBlockHand,
       SearchDispatcherHand, SearchUnwindHand, SearchFailsHand DEF Search
  <1>3. CASE Unwind
    BY <1>3, UnwindCxxHand, UnwindStateHand, FrameUnwoundHand, UnwindCatchBlockHand,
       UnwindOtherHand, UnwindUnwindHand, LandInHandlerHand, LandInCatchBlockHand,
       LandInSehHand, LandInBuildHand
    DEF Unwind
  <1>4. CASE UNCHANGED vars
    BY <1>4, StoppedHand
  <1> QED BY <1>1, <1>2, <1>3, <1>4 DEF Next, Stopped

(* At the start main is outside of its try blocks. *)
LEMMA FirstHand ==
    ASSUME Init
    PROVE  HandInv
  <1>1. PICK fr : fr = Fn("main")
    OBVIOUS
  <1>2. stack = <<fr>> /\ halt = "no"
    BY <1>1 DEF Init
  <1>3. /\ fr.k = "fn" /\ fr.ip = EH_EMPTY_STATE /\ fr.f = "main"
    BY <1>1 DEF Fn
  <1>4. Top = 1 /\ stack[1] = fr
    BY <1>2 DEF Top
  <1>5. PlainState(fr, fr.ip)
    <2>1. fr.f \in DOMAIN Prog
      BY <1>3, EhAssumption
    <2> QED BY <1>3, <2>1, TryNumbers DEF PlainState, InCatch, EH_EMPTY_STATE
  <1>6. FrameFor(stack, 1, thrown) /\ TopFor(stack, 1, csp)
    <2>1. stack[1].k \in User /\ PlainState(stack[1], stack[1].ip)
      BY <1>3, <1>4, <1>5 DEF User
    <2> QED BY <2>1, UserFor, Zenon
  <1>7. FramesFor(stack, 1, thrown)
    <2>1. \A p \in 1 .. 1 : p = 1
      OBVIOUS
    <2> QED BY <1>6, <2>1 DEF FramesFor
  <1> QED BY <1>2, <1>4, <1>6, <1>7 DEF HandInv, Running

(* In FH4, as long as no search or unwind took the ip of a frame that had been left or
   partly unwound for its state: a search in progress has gone past no frame that it had
   to end at, an unwind leads to the try block the search had to find, and no frame is in
   a catch block that is not its own. *)
THEOREM SearchesAreRight == Spec => []HandInv
  <1>1. Init => EhInv /\ StateInv /\ HandInv
    BY InitHolds, FirstState, FirstHand
  <1>2. EhInv /\ StateInv /\ HandInv /\ [Next]_vars => EhInv' /\ StateInv' /\ HandInv'
    BY NextHolds, NextState, NextHand
  <1> QED BY <1>1, <1>2, PTL DEF Spec

(* In FH4, every exception is handled where the language says: by the innermost try block
   of the innermost function on the stack that has a handler for its type, and by none if
   there is no such try block or a noexcept function stands before it. This as long as no
   search has taken a state that was out of date. *)
THEOREM RightHandlers == Spec => [](mode.fh = 4 => RightHandlerIfTrusted)
  <1>1. HandInv => (mode.fh = 4 => RightHandlerIfTrusted)
    <2> SUFFICES ASSUME HandInv, mode.fh = 4, stale = {}
                 PROVE  RightHandler
      BY DEF RightHandlerIfTrusted, StateTrusted
    <2>1. \A p \in 1 .. Top : UnwFor(stack, p)
      BY DEF HandInv, FramesFor, FrameFor
    <2>2. ~Running => Ended
      BY DEF HandInv
    <2> QED BY <2>1, <2>2 DEF RightHandler, UnwFor, Ended
  <1> QED BY <1>1, SearchesAreRight, PTL

-----------------------------------------------------------------------------
(* The life C++ promises *)

LEMMA ScopeBegins ==
    ASSUME EhInv, StateInv, Precise, EnterScope
    PROVE  UNCHANGED Scopes!vars \/ Scopes!Construct
  <1>1. Run.k \in Scoped /\ Run.k \in User /\ UNCHANGED <<chain, alive, thrown>>
    BY DEF EnterScope, RunIsUser, User, Scoped, runtime
  <1>2. PICK s \in DOMAIN Prog[Run.f].unwind :
            /\ UWE_TOSTATE(Run.f, s) = Run.ip
            /\ live' = IF UWE_ACTION(Run.f, s) = "none" THEN live
                       ELSE Append(live, <<Est(Top), s>>)
    BY Zenon DEF EnterScope
  <1>3. CASE UWE_ACTION(Run.f, s) = "none"
    BY <1>1, <1>2, <1>3 DEF Scopes!vars
  <1>4. CASE UWE_ACTION(Run.f, s) # "none"
    <2>1. PICK x, lv : x = <<Est(Top), s>> /\ lv = live'
      BY Zenon
    <2>2. lv = Append(live, x) /\ live \in Seq(Nat \X Nat)
      BY <1>2, <1>4, <2>1, StateFacts
    <2>3. x \in Nat \X Nat
      <3>1. s \in Nat
        BY <1>1, <1>2, ProgramState, StatesFacts
      <3> QED BY <1>1, <2>1, <3>1, EstNat
    <2>4. \A o \in Range(live) : o # x
      <3> SUFFICES ASSUME x \in Objs(stack, Top, Run.ip) PROVE FALSE
        BY <1>1, ProgramState
      <3>1. /\ Formed(stack, Top) /\ Top > 0 /\ Run = stack[Top] /\ EstOf(stack, Top) = Est(Top)
        BY StateFacts DEF EstOf, Est
      <3>2. /\ GroupOK(stack, Top) /\ Run.ip \in StatesOf(Run.f) /\ Run.f \in DOMAIN Prog
            /\ Run.k = "catch" => InCatch(OwnTry(stack, Top), Run.ip)
        BY <1>1, ProgramState
      <3>3. x[1] < EstOf(stack, Top) \/ (x[1] = EstOf(stack, Top) /\ x[2] \in Nat /\ x[2] <= Run.ip)
        BY <1>1, <3>1, <3>2, ObjsNewest
      <3>4. Run.ip < s /\ s \in Int /\ Run.ip \in Int /\ Est(Top) \in Nat
        BY <1>1, <1>2, <3>2, EstNat, StatesFacts
      <3> QED BY <2>1, <3>1, <3>3, <3>4
    <2>5. /\ Len(live) \in Nat /\ DOMAIN live = 1 .. Len(live)
          /\ \A i \in 1 .. Len(live) : live[i] \in Range(live)
      BY <2>2, LiveFacts
    <2>6. /\ Len(lv) = Len(live) + 1 /\ lv[Len(lv)] = x /\ live = SubSeq(lv, 1, Len(live))
      BY <2>2, <2>3, <2>5
    <2>7. \A i \in DOMAIN live : live[i] # lv[Len(lv)]
      BY <2>4, <2>5, <2>6
    <2> QED BY <1>1, <2>1, <2>6, <2>7 DEF Scopes!Construct
  <1> QED BY <1>3, <1>4

LEMMA ScopeEnds ==
    ASSUME EhInv, StateInv, Precise, LeaveScope
    PROVE  UNCHANGED Scopes!vars \/ Scopes!Destroy
  <1>1. Run.k \in Scoped /\ Run.k \in User /\ UNCHANGED <<chain, alive, thrown>>
    BY DEF LeaveScope, RunIsUser, User, Scoped, runtime
  <1>2. PICK x : x = <<Est(Top), Run.ip>>
    BY Zenon
  <1>3. live' = IF UWE_ACTION(Run.f, Run.ip) = "none" THEN live ELSE Destroyed(x)
    BY <1>2 DEF LeaveScope
  <1>4. /\ Formed(stack, Top) /\ Top > 0 /\ Run = stack[Top] /\ EstOf(stack, Top) = Est(Top)
        /\ Sorted(live) /\ LiveType /\ Own(Run)
    BY StateFacts DEF EstOf, Est
  <1>5. /\ GroupOK(stack, Top) /\ Run.ip \in StatesOf(Run.f) /\ Run.f \in DOMAIN Prog
        /\ Run.k = "catch" => InCatch(OwnTry(stack, Top), Run.ip)
        /\ Range(live) = Objs(stack, Top, Run.ip)
    BY <1>1, ProgramState
  <1>6. Run.ip \in DOMAIN Prog[Run.f].unwind
    <2>1. CASE Run.k = "fn"
      <3>1. Run.ip # EH_EMPTY_STATE
        BY <2>1 DEF LeaveScope, Base, Run
      <3> QED BY <1>5, <3>1 DEF StatesOf
    <2>2. CASE Run.k = "catch"
      BY <1>4, <2>2 DEF Own, OwnCatch
    <2> QED BY <1>1, <2>1, <2>2 DEF Scoped
  <1>7. CASE UWE_ACTION(Run.f, Run.ip) = "none"
    BY <1>1, <1>3, <1>7 DEF Scopes!vars
  <1>8. CASE UWE_ACTION(Run.f, Run.ip) # "none"
    <2>1. Destroyed(x) = SubSeq(live, 1, Len(live) - 1) /\ live # <<>>
      BY <1>1, <1>2, <1>4, <1>5, <1>6, <1>8, ObjsDie
    <2> QED BY <1>1, <1>3, <1>8, <2>1 DEF Scopes!Destroy
  <1> QED BY <1>7, <1>8

LEMMA ScopeUnwinds ==
    ASSUME EhInv, StateInv, Precise, UnwindState
    PROVE  UNCHANGED Scopes!vars \/ Scopes!Destroy
  <1>1. /\ Run.k = "unw" /\ Run.phase = "states" /\ Run.state # EH_EMPTY_STATE
        /\ Run.state > UnwindTo(Run.at) /\ UNCHANGED <<chain, alive, thrown>>
    BY DEF UnwindState, RunIs, runtime
  <1>2. PICK p, x : p = Run.at /\ x = <<Est(p), Run.state>>
    BY Zenon
  <1>3. live' = IF UWE_ACTION(stack[p].f, Run.state) = "none" THEN live ELSE Destroyed(x)
    BY <1>2 DEF UnwindState
  <1>4. CASE UWE_ACTION(stack[p].f, Run.state) = "none"
    BY <1>1, <1>3, <1>4 DEF Scopes!vars
  <1>5. CASE UWE_ACTION(stack[p].f, Run.state) # "none"
    <2>1. /\ stack[p].k \in Scoped /\ Run.state \in DOMAIN Prog[stack[p].f].unwind
          /\ stack[p].k = "catch" => InCatch(OwnTry(stack, p), Run.state)
          /\ EstOf(stack, p) = Est(p) /\ Range(live) = Objs(stack, p, Run.state)
      BY <1>1, <1>2, UnwindsTo
    <2>2. LiveType /\ Sorted(live) /\ Formed(stack, p) /\ p > 0 /\ GroupOK(stack, p)
      BY <1>1, <1>2, UnwStateFacts, StateFacts
    <2>3. Destroyed(x) = SubSeq(live, 1, Len(live) - 1) /\ live # <<>>
      BY <1>2, <1>5, <2>1, <2>2, ObjsDie
    <2> QED BY <1>1, <1>3, <1>5, <2>3 DEF Scopes!Destroy
  <1> QED BY <1>4, <1>5

LEMMA FramesAbandoned ==
    ASSUME EhInv, LiveType, LandInSeh
    PROVE  Scopes!Abandon
  <1>1. PICK t, S : t = Run.target /\ S = {0} \cup {i \in DOMAIN live : live[i][1] <= t}
    BY Zenon
  <1>2. live' = SubSeq(live, 1, Max(S)) /\ UNCHANGED <<chain, alive, thrown>>
    BY <1>1 DEF LandInSeh, runtime
  <1>3. Len(live) \in Nat /\ DOMAIN live = 1 .. Len(live)
    BY LiveFacts DEF LiveType
  <1>4. S \subseteq 0 .. Len(live) /\ S # {}
    BY <1>1, <1>3
  <1>5. Max(S) \in 0 .. Len(live)
    BY <1>3, <1>4, MaxIsGreatest, Zenon
  <1> QED BY <1>2, <1>5 DEF Scopes!Abandon

LEMMA ScopesLikeHandling ==
    ASSUME UNCHANGED live
    PROVE  /\ UNCHANGED Handling!vars => UNCHANGED Scopes!vars
           /\ Handling!Throw => Scopes!Throw
           /\ Handling!Handle(lost) => Scopes!Handle(lost)
           /\ Handling!Leave => Scopes!Leave
  <1>1. UNCHANGED Handling!vars => UNCHANGED Scopes!vars
    BY DEF Handling!vars, Scopes!vars, HandledIn
  <1>2. Handling!Throw => Scopes!Throw
    BY DEF Handling!Throw, Scopes!Throw, HandledIn
  <1>3. Handling!Handle(lost) => Scopes!Handle(lost)
    BY DEF Handling!Handle, Scopes!Handle, HandledIn
  <1>4. Handling!Leave => Scopes!Leave
    BY Zenon DEF Handling!Leave, Scopes!Leave, HandledIn
  <1> QED BY <1>1, <1>2, <1>3, <1>4

(* Where the program goes as C++ says. *)
Promised == Scopes!Next(RunIsUser, Run.k = "unw" /\ stack[Run.target].k = "seh", lost)

LEMMA ScopesStep ==
    ASSUME EhInv, ObjInv, StateInv, mode.fh = 4, stale = {}, [Next]_vars
    PROVE  UNCHANGED Scopes!vars \/ Promised
  <1>1. ASSUME EnterScope PROVE UNCHANGED Scopes!vars \/ Promised
    <2>1. Precise /\ RunIsUser
      BY <1>1 DEF EnterScope, RunIsUser, Precise
    <2> QED BY <1>1, <2>1, ScopeBegins DEF Promised, Scopes!Next
  <1>2. ASSUME LeaveScope PROVE UNCHANGED Scopes!vars \/ Promised
    <2>1. Precise
      BY <1>2 DEF LeaveScope, RunIsUser, Precise
    <2> QED BY <1>2, <2>1, ScopeEnds DEF Promised, Scopes!Next
  <1>3. ASSUME UnwindState PROVE UNCHANGED Scopes!vars \/ Promised
    <2>1. Precise
      BY <1>3 DEF UnwindState, RunIs, Precise
    <2> QED BY <1>3, <2>1, ScopeUnwinds DEF Promised, Scopes!Next
  <1>4. ASSUME LandInSeh PROVE Promised
    <2>1. /\ Precise /\ Run.k = "unw" /\ stack[Run.at].k = "seh" /\ Run.at = Run.target
      BY <1>4 DEF LandInSeh, RunIs, Precise
    <2>2. LiveType
      BY <2>1, StateFacts
    <2> QED BY <1>4, <2>1, <2>2, FramesAbandoned DEF Promised, Scopes!Next
  <1>5. ASSUME ~EnterScope, ~LeaveScope, ~UnwindState, ~LandInSeh PROVE UNCHANGED live
    <2>1. CASE Program
      BY <1>5, <2>1 DEF Program, Call, Return, Throw, Rethrow, Fault, CatchDone, ghost
    <2>2. CASE Search
      BY <2>2 DEF Search, SearchCxx, CatchObjectBuilt, SearchSeh, SearchCatchBlock, SearchDispatcher,
          SearchUnwind, SearchFails, Halted, ghost
    <2>3. CASE Unwind
      BY <1>5, <2>3, Zenon DEF Unwind, UnwindCxx, FrameUnwound, UnwindCatchBlock, UnwindOther, UnwindUnwind,
          LandInHandler, LandInCatchBlock, LandInBuild, Halted, ghost
    <2>4. CASE UNCHANGED vars
      BY <2>4 DEF vars, ghost
    <2> QED BY <2>1, <2>2, <2>3, <2>4 DEF Next, Stopped
  <1>6. ASSUME UNCHANGED live PROVE UNCHANGED Scopes!vars \/ Promised
    <2>1. UNCHANGED Handling!vars \/ Handling!Throw \/ Handling!Handle(lost) \/ Handling!Leave
      <3>1. ~Handling!Destroy
        BY DEF Handling!Destroy
      <3> QED BY <3>1, HandlingStep DEF Handling!Next
    <2> QED BY <1>6, <2>1, ScopesLikeHandling DEF Promised, Scopes!Next
  <1> QED BY <1>1, <1>2, <1>3, <1>4, <1>5, <1>6

LEMMA ScopesInit ==
    ASSUME Init
    PROVE  Scopes!Init
  <1>1. Handling!Init /\ live = <<>>
    BY HandlingInit, Zenon DEF Init
  <1> QED BY <1>1 DEF Handling!Init, Scopes!Init, HandledIn

LEMMA ModeStays ==
    ASSUME [Next]_vars
    PROVE  UNCHANGED mode
  <1>1. CASE Program
    BY <1>1 DEF Program, EnterScope, LeaveScope, Call, Return, Throw, Rethrow, Fault, CatchDone
  <1>2. CASE Search
    BY <1>2 DEF Search, SearchCxx, CatchObjectBuilt, SearchSeh, SearchCatchBlock, SearchDispatcher,
        SearchUnwind, SearchFails, Halted
  <1>3. CASE Unwind
    BY <1>3, Zenon DEF Unwind, UnwindCxx, UnwindState, FrameUnwound, UnwindCatchBlock, UnwindOther,
        UnwindUnwind, LandInHandler, LandInCatchBlock, LandInSeh, LandInBuild, Halted
  <1>4. CASE UNCHANGED vars
    BY <1>4 DEF vars
  <1> QED BY <1>1, <1>2, <1>3, <1>4 DEF Next, Stopped

(* In FH4, the program and its exceptions go through the life that CxxScopes promises, as
   long as no search has taken a state that was out of date: objects are destroyed by the
   scopes, the unwinds and the __excepts in the reverse order of their construction, each
   once, and handlers nest. *)
THEOREM ScopesImplemented == Spec /\ mode.fh = 4 => ImplementsScopes
  <1>1. Init => EhInv /\ ObjInv /\ StateInv
    BY InitHolds, InitObjects, FirstState
  <1>2. Init => Scopes!Init
    BY ScopesInit
  <1>3. mode.fh = 4 /\ [Next]_vars => (mode.fh = 4)'
    BY ModeStays
  <1>4. mode.fh = 4 /\ EhInv /\ ObjInv /\ StateInv /\ [Next]_vars
            => [StateTrusted => Promised]_(Scopes!vars)
    BY ScopesStep DEF StateTrusted
  <1> QED BY <1>1, <1>2, <1>3, <1>4, ObjectsAreRight, StatesAreRight, PTL
      DEF Spec, ImplementsScopes, Promised
=============================================================================
