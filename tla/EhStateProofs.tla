---------------------------- MODULE EhStateProofs ----------------------------
(***************************************************************************)
(* Which state the frame handler of FH4 finds a frame in, and which        *)
(* objects it destroys, for every program, any number of exceptions and    *)
(* any depth of calls, as long as no search has taken a state that was out *)
(* of date (stale).                                                        *)
(*                                                                         *)
(* The invariant StateInv says which state every frame is in: Cur, the one *)
(* an unwind has brought it to, or that of the try block whose handler it  *)
(* waits for, or its ip.  The runtime learns it in three ways (From): from *)
(* the scope index of an unwind that it has met, from csp as a catch block *)
(* leaves it there, or from the ip; StateInv says that each of them is Cur *)
(* where it is used.  The objects that exist (LiveOK) are those of the     *)
(* scopes around these states, and objects are destroyed in the reverse    *)
(* order of their construction because they are sorted by the frame and    *)
(* the state that they belong to.                                          *)
(***************************************************************************)
EXTENDS EhFrameProofs


-----------------------------------------------------------------------------
(* The states around a state. *)

StatesOf(f) == {EH_EMPTY_STATE} \cup DOMAIN Prog[f].unwind

Closed(f, A) == \A s \in A \cap DOMAIN Prog[f].unwind : UWE_TOSTATE(f, s) \in A

(* The smallest set that contains s and where unwinding leads to from it. *)
Ups(f, s) ==
    {t \in DOMAIN Prog[f].unwind : \A A \in SUBSET StatesOf(f) : s \in A /\ Closed(f, A) => t \in A}

LEMMA StatesFacts ==
    ASSUME NEW f \in DOMAIN Prog
    PROVE  /\ EH_EMPTY_STATE \notin DOMAIN Prog[f].unwind
           /\ StatesOf(f) \subseteq Int
           /\ \A s \in StatesOf(f) : s >= EH_EMPTY_STATE
           /\ \A s \in DOMAIN Prog[f].unwind :
                  s \in Nat /\ UWE_TOSTATE(f, s) \in StatesOf(f) /\ UWE_TOSTATE(f, s) < s
  BY TablesAssumption DEF UnwindMapOK, EH_EMPTY_STATE, StatesOf

LEMMA UpsUnfold ==
    ASSUME NEW f \in DOMAIN Prog
    PROVE  /\ Ups(f, EH_EMPTY_STATE) = {}
           /\ \A s \in DOMAIN Prog[f].unwind : Ups(f, s) = {s} \cup Ups(f, UWE_TOSTATE(f, s))
  <1>1. Ups(f, EH_EMPTY_STATE) = {}
    <2>1. Closed(f, {EH_EMPTY_STATE}) /\ {EH_EMPTY_STATE} \in SUBSET StatesOf(f)
      BY StatesFacts DEF Closed, StatesOf
    <2> QED BY <2>1, StatesFacts DEF Ups
  <1>2. ASSUME NEW s \in DOMAIN Prog[f].unwind
        PROVE  Ups(f, s) = {s} \cup Ups(f, UWE_TOSTATE(f, s))
    <2>1. s \in Ups(f, s)
      BY DEF Ups
    <2>2. Ups(f, UWE_TOSTATE(f, s)) \subseteq Ups(f, s)
      BY DEF Ups, Closed
    <2>3. ASSUME NEW t \in Ups(f, s), t # s PROVE t \in Ups(f, UWE_TOSTATE(f, s))
      <3> SUFFICES ASSUME NEW B \in SUBSET StatesOf(f), UWE_TOSTATE(f, s) \in B, Closed(f, B)
                   PROVE  t \in B
        BY DEF Ups
      <3>1. Closed(f, B \cup {s}) /\ B \cup {s} \in SUBSET StatesOf(f)
        BY DEF Closed, StatesOf
      <3> QED BY <3>1, <2>3 DEF Ups
    <2> QED BY <2>1, <2>2, <2>3
  <1> QED BY <1>1, <1>2

(* The function Around(f), by its defining equation and as the smallest closed set. *)
LEMMA AroundUnfold ==
    ASSUME NEW f \in DOMAIN Prog
    PROVE  Around(f) = [s \in StatesOf(f) |-> IF s = EH_EMPTY_STATE THEN {}
                                              ELSE {s} \cup Around(f)[UWE_TOSTATE(f, s)]]
  <1> DEFINE Eq(g) == g = [s \in StatesOf(f) |-> IF s = EH_EMPTY_STATE THEN {}
                                                ELSE {s} \cup g[UWE_TOSTATE(f, s)]]
             h == [s \in StatesOf(f) |-> Ups(f, s)]
  <1>1. Eq(h)
    BY UpsUnfold, StatesFacts DEF StatesOf
  <1>2. Around(f) = CHOOSE g : Eq(g)
    BY Zenon DEF Around, StatesOf
  <1> HIDE DEF Eq, h
  <1>3. Eq(Around(f))
    BY <1>1, <1>2
  <1> QED BY <1>3 DEF Eq

LEMMA AroundIsUps ==
    ASSUME NEW f \in DOMAIN Prog, NEW s \in StatesOf(f)
    PROVE  Around(f)[s] = Ups(f, s)
  <1> DEFINE bad == {x \in DOMAIN Prog[f].unwind : Around(f)[x] # Ups(f, x)}
  <1>1. Around(f)[EH_EMPTY_STATE] = Ups(f, EH_EMPTY_STATE)
    BY AroundUnfold, UpsUnfold, Zenon DEF StatesOf
  <1>2. bad = {}
    <2> SUFFICES ASSUME bad # {} PROVE FALSE
      OBVIOUS
    <2>1. bad \subseteq Nat
      BY StatesFacts
    <2>2. PICK x \in bad : \A y \in bad : x <= y
      BY <2>1, LeastExists, Zenon
    <2>3. UWE_TOSTATE(f, x) \in StatesOf(f) /\ UWE_TOSTATE(f, x) < x
      BY StatesFacts
    <2>4. Around(f)[UWE_TOSTATE(f, x)] = Ups(f, UWE_TOSTATE(f, x))
      BY <1>1, <2>1, <2>2, <2>3, StatesFacts DEF StatesOf
    <2>5. x \in DOMAIN Prog[f].unwind /\ x \in StatesOf(f) /\ x # EH_EMPTY_STATE
      BY StatesFacts DEF StatesOf
    <2>6. Around(f)[x] = {x} \cup Around(f)[UWE_TOSTATE(f, x)]
      BY <2>5, AroundUnfold
    <2> QED BY <2>4, <2>5, <2>6, UpsUnfold, Zenon
  <1> QED BY <1>1, <1>2 DEF StatesOf

LEMMA AroundFacts ==
    ASSUME NEW f \in DOMAIN Prog, NEW s \in StatesOf(f)
    PROVE  /\ Around(f)[EH_EMPTY_STATE] = {}
           /\ s # EH_EMPTY_STATE => Around(f)[s] = {s} \cup Around(f)[UWE_TOSTATE(f, s)]
           /\ \A t \in Around(f)[s] : t \in DOMAIN Prog[f].unwind /\ t \in Nat /\ t <= s
  <1>1. EH_EMPTY_STATE \in StatesOf(f) /\ Around(f)[s] = Ups(f, s)
    BY AroundIsUps DEF StatesOf
  <1>2. ASSUME NEW t \in Ups(f, s) PROVE t \in DOMAIN Prog[f].unwind /\ t \in Nat /\ t <= s
    <2> DEFINE A == {x \in StatesOf(f) : x <= s}
    <2>1. A \in SUBSET StatesOf(f) /\ s \in A
      BY StatesFacts
    <2>2. Closed(f, A)
      BY StatesFacts DEF Closed, StatesOf
    <2>3. t \in A
      BY <2>1, <2>2 DEF Ups
    <2> QED BY <2>3, StatesFacts DEF Ups
  <1> QED BY <1>1, <1>2, AroundUnfold

(* A try block is around a state exactly if the state lies in it. *)
LEMMA TryAround ==
    ASSUME NEW f \in DOMAIN Prog, NEW i \in DOMAIN Tries(f), NEW s \in StatesOf(f)
    PROVE  Try(f, i).low \in Around(f)[s] <=> InTry(Try(f, i), s)
  <1> DEFINE t == Try(f, i)
  <1>1. /\ t.low \in DOMAIN Prog[f].unwind /\ t.low \in Nat /\ t.high \in Nat /\ t.low <= t.high
        /\ \A x \in DOMAIN Prog[f].unwind \ {t.low} : InTry(t, x) <=> InTry(t, UWE_TOSTATE(f, x))
    BY TablesOK DEF TryOK
  <1>2. ASSUME t.low \in Around(f)[s] PROVE InTry(t, s)
    <2> SUFFICES ASSUME ~InTry(t, s) PROVE FALSE
      OBVIOUS
    <2> DEFINE A == {x \in StatesOf(f) : ~InTry(t, x)}
    <2>1. A \in SUBSET StatesOf(f) /\ s \in A
      OBVIOUS
    <2>2. Closed(f, A)
      BY <1>1, StatesFacts DEF Closed, InTry
    <2>3. t.low \in A
      BY <1>2, <2>1, <2>2, AroundIsUps DEF Ups
    <2> QED BY <1>1, <2>3 DEF InTry
  <1>3. ASSUME InTry(t, s) PROVE t.low \in Around(f)[s]
    <2> DEFINE bad == {x \in DOMAIN Prog[f].unwind : InTry(t, x) /\ t.low \notin Around(f)[x]}
    <2> SUFFICES ASSUME bad # {} PROVE FALSE
      BY <1>1, <1>3 DEF InTry, StatesOf, EH_EMPTY_STATE
    <2>1. bad \subseteq Nat
      BY StatesFacts
    <2>2. PICK x \in bad : \A y \in bad : x <= y
      BY <2>1, LeastExists, Zenon
    <2>3. /\ x \in StatesOf(f) /\ x # EH_EMPTY_STATE /\ x \in DOMAIN Prog[f].unwind
          /\ UWE_TOSTATE(f, x) \in StatesOf(f) /\ UWE_TOSTATE(f, x) < x
      BY StatesFacts DEF StatesOf
    <2>4. Around(f)[x] = {x} \cup Around(f)[UWE_TOSTATE(f, x)]
      BY <2>3, AroundFacts
    <2>5. x # t.low /\ InTry(t, UWE_TOSTATE(f, x))
      BY <1>1, <2>3, <2>4
    <2>6. UWE_TOSTATE(f, x) \in DOMAIN Prog[f].unwind
      BY <1>1, <2>3, <2>5 DEF InTry, StatesOf, EH_EMPTY_STATE
    <2>7. UWE_TOSTATE(f, x) \notin bad
      BY <2>1, <2>2, <2>3
    <2> QED BY <2>4, <2>5, <2>6, <2>7
  <1> QED BY <1>2, <1>3

(* What of the try block's own states the unwinding meets. *)
LEMMA TryStates ==
    ASSUME NEW f \in DOMAIN Prog, NEW i \in DOMAIN Tries(f)
    PROVE  LET t == Try(f, i)
           IN  /\ t.low \in DOMAIN Prog[f].unwind /\ t.high + 1 \in DOMAIN Prog[f].unwind
               /\ t.low \in Nat /\ t.high \in Nat /\ t.catchHigh \in Nat
               /\ t.low <= t.high /\ t.high < t.catchHigh
               /\ Outside(f, i) \in StatesOf(f) /\ Outside(f, i) < t.low
               /\ UWE_TOSTATE(f, t.low) = Outside(f, i)
               /\ UWE_TOSTATE(f, t.high + 1) = Outside(f, i)
               /\ UWE_ACTION(f, t.low) = "none" /\ UWE_ACTION(f, t.high + 1) = "none"
  <1>1. /\ Try(f, i).low \in Nat /\ Try(f, i).high \in Nat /\ Try(f, i).catchHigh \in Nat
        /\ Try(f, i).low <= Try(f, i).high /\ Try(f, i).high < Try(f, i).catchHigh
    BY TablesOK DEF TryOK
  <1>2. Try(f, i).low .. Try(f, i).catchHigh \subseteq DOMAIN Prog[f].unwind
    BY TablesOK DEF TryOK
  <1>3. Try(f, i).low \in DOMAIN Prog[f].unwind /\ Try(f, i).high + 1 \in DOMAIN Prog[f].unwind
    BY <1>1, <1>2
  <1>4. /\ UWE_TOSTATE(f, Try(f, i).high + 1) = UWE_TOSTATE(f, Try(f, i).low)
        /\ UWE_ACTION(f, Try(f, i).low) = "none" /\ UWE_ACTION(f, Try(f, i).high + 1) = "none"
    BY TablesOK DEF TryOK
  <1> QED BY <1>1, <1>3, <1>4, StatesFacts DEF Outside

-----------------------------------------------------------------------------
(* The objects of a scope *)

(* Those of the scopes around state s in a frame of f that the objects know as e. *)
Objects(f, e, s) == {<<e, t>> : t \in {t \in Around(f)[s] : UWE_ACTION(f, t) # "none"}}

LEMMA ObjectsAre ==
    ASSUME NEW f, NEW e, NEW s, NEW o
    PROVE  o \in Objects(f, e, s) <=> \E t \in Around(f)[s] : UWE_ACTION(f, t) # "none" /\ o = <<e, t>>
  BY DEF Objects

LEMMA ObjectsUnfold ==
    ASSUME NEW f \in DOMAIN Prog, NEW e, NEW s \in DOMAIN Prog[f].unwind
    PROVE  /\ UWE_ACTION(f, s) = "none" => Objects(f, e, s) = Objects(f, e, UWE_TOSTATE(f, s))
           /\ UWE_ACTION(f, s) # "none" =>
                  Objects(f, e, s) = Objects(f, e, UWE_TOSTATE(f, s)) \cup {<<e, s>>}
  <1>1. Around(f)[s] = {s} \cup Around(f)[UWE_TOSTATE(f, s)]
    BY AroundFacts, StatesFacts DEF StatesOf
  <1> QED BY <1>1 DEF Objects

LEMMA ObjectsEmpty ==
    ASSUME NEW f \in DOMAIN Prog, NEW e
    PROVE  Objects(f, e, EH_EMPTY_STATE) = {}
  <1>1. Around(f)[EH_EMPTY_STATE] = {}
    BY AroundFacts DEF StatesOf
  <1> QED BY <1>1 DEF Objects

LEMMA ObjectsOfTry ==
    ASSUME NEW f \in DOMAIN Prog, NEW e, NEW i \in DOMAIN Tries(f)
    PROVE  /\ Objects(f, e, Try(f, i).low) = Objects(f, e, Outside(f, i))
           /\ Objects(f, e, Try(f, i).high + 1) = Objects(f, e, Outside(f, i))
  BY TryStates, ObjectsUnfold

LEMMA ObjectsBound ==
    ASSUME NEW f \in DOMAIN Prog, NEW e, NEW s \in StatesOf(f), NEW o \in Objects(f, e, s)
    PROVE  /\ o = <<e, o[2]>> /\ o[2] \in Nat /\ o[2] <= s
           /\ o[2] \in Around(f)[s] /\ UWE_ACTION(f, o[2]) # "none"
  BY AroundFacts DEF Objects

-----------------------------------------------------------------------------
(* The states the frames of a stack are in *)

Scoped == {"fn", "catch"}

EstOf(st, p) == IF st[p].k = "catch" THEN st[p].est ELSE p

LowOf(st, q) == Try(st[q - 1].f, st[q].try).low

OwnTry(st, p) == Try(st[p].f, st[p].try)

(* The unwind that is at frame p, if the stack ended with frame n. *)
Covers(st, n, p) == {u \in 1 .. n : st[u].k = "unw" /\ Seen(st, n, u) /\ st[u].at = p}

(* The state frame p is in for what is above it: as far as it is unwound, the try
   block it has caught in, or its ip. *)
Cur(st, n, p) ==
    IF Covers(st, n, p) # {} THEN st[CHOOSE u \in Covers(st, n, p) : TRUE].state
    ELSE IF p < n /\ st[p + 1].k = "ccb" THEN LowOf(st, p + 1)
    ELSE st[p].ip

ScopedIn(st, n) == {p \in 1 .. n : st[p].k \in Scoped /\ Seen(st, n, p)}

(* The objects of the first n frames, frame n being in state x. *)
Objs(st, n, x) ==
    UNION {Objects(st[p].f, EstOf(st, p), IF p = n THEN x ELSE Cur(st, n, p)) : p \in ScopedIn(st, n)}

Formed(st, n) == n \in Nat /\ \A q \in 1 .. n : Own(st[q]) /\ Down(st, q)

LEMMA ObjsAre ==
    ASSUME NEW st, NEW n, NEW x, NEW o
    PROVE  o \in Objs(st, n, x) <=>
               \E p \in ScopedIn(st, n) :
                   o \in Objects(st[p].f, EstOf(st, p), IF p = n THEN x ELSE Cur(st, n, p))
  BY Zenon DEF Objs

LEMMA UnwAt ==
    ASSUME NEW st, NEW n, Formed(st, n), NEW u \in 1 .. n, st[u].k = "unw"
    PROVE  /\ u \in Nat /\ st[u].at \in Nat /\ st[u].at < u /\ st[u].at > 0
           /\ st[u].target \in Nat /\ st[u].target > 0 /\ st[u].target <= st[u].at
           /\ Respects(st, u, st[u].at) /\ Respects(st, u, st[u].target)
  <1>1. Own(st[u]) /\ Down(st, u) /\ n \in Nat
    BY DEF Formed
  <1>2. st[u].at \in Nat /\ st[u].target \in Nat
    BY <1>1 DEF Own, OwnUnw
  <1> QED BY <1>1, <1>2 DEF Down, DownUnw

LEMMA FormedLess ==
    ASSUME NEW st, NEW n, Formed(st, n), NEW m \in Nat, m <= n
    PROVE  Formed(st, m)
  BY DEF Formed

LEMMA CoversOne ==
    ASSUME NEW st, NEW n, Formed(st, n), NEW p, NEW u \in Covers(st, n, p)
    PROVE  Covers(st, n, p) = {u} /\ Cur(st, n, p) = st[u].state
  <1>1. ASSUME NEW a \in Covers(st, n, p), NEW b \in Covers(st, n, p), a < b PROVE FALSE
    <2>1. /\ a \in 1 .. n /\ b \in 1 .. n /\ st[a].k = "unw" /\ st[b].k = "unw"
          /\ Seen(st, n, a) /\ st[a].at = p /\ st[b].at = p
      BY DEF Covers
    <2>2. p < a
      BY <2>1, UnwAt
    <2> QED BY <1>1, <2>1, <2>2 DEF Seen
  <1>2. Covers(st, n, p) \subseteq 1 .. n /\ n \in Nat
    BY DEF Covers, Formed
  <1>3. Covers(st, n, p) = {u}
    <2> SUFFICES ASSUME NEW a \in Covers(st, n, p), a # u PROVE FALSE
      OBVIOUS
    <2>1. a < u \/ u < a
      BY <1>2
    <2> QED BY <1>1, <2>1
  <1>4. (CHOOSE a \in Covers(st, n, p) : TRUE) = u
    BY <1>3
  <1> QED BY <1>3, <1>4 DEF Cur

LEMMA CoversNone ==
    ASSUME NEW st, NEW n, NEW p, Covers(st, n, p) = {}
    PROVE  /\ p < n /\ st[p + 1].k = "ccb" => Cur(st, n, p) = LowOf(st, p + 1)
           /\ ~(p < n /\ st[p + 1].k = "ccb") => Cur(st, n, p) = st[p].ip
  BY DEF Cur

LEMMA CoversTop ==
    ASSUME NEW st, NEW n, Formed(st, n), NEW p, p >= n - 1, p \in Nat, st[n].k # "unw"
    PROVE  Covers(st, n, p) = {}
  <1> SUFFICES ASSUME NEW u \in Covers(st, n, p) PROVE FALSE
    OBVIOUS
  <1>1. u \in 1 .. n /\ st[u].k = "unw" /\ st[u].at = p
    BY DEF Covers
  <1>2. p < u /\ n \in Nat /\ u # n
    BY <1>1, UnwAt, Zenon DEF Formed
  <1> QED BY <1>1, <1>2

(* A frame that is not an unwind covers nothing. *)
LEMMA CoversPlain ==
    ASSUME NEW st, NEW n, Formed(st, n), n > 0, st[n].k # "unw", NEW p
    PROVE  Covers(st, n, p) = Covers(st, n - 1, p)
  <1>1. n \in Nat /\ n - 1 \in Nat
    BY DEF Formed
  <1>2. \A u \in 1 .. n - 1 : Seen(st, n, u) <=> Seen(st, n - 1, u)
    BY <1>1, SeenTop
  <1> QED BY <1>1, <1>2 DEF Covers

LEMMA CurPlain ==
    ASSUME NEW st, NEW n, Formed(st, n), n > 0, st[n].k # "unw", NEW p \in 1 .. n - 2
    PROVE  Cur(st, n, p) = Cur(st, n - 1, p)
  <1>1. Covers(st, n, p) = Covers(st, n - 1, p) /\ n \in Nat
    BY CoversPlain DEF Formed
  <1> QED BY <1>1 DEF Cur

LEMMA CurNext ==
    ASSUME NEW st, NEW n, Formed(st, n), n > 1, st[n].k # "unw"
    PROVE  Cur(st, n, n - 1) = IF st[n].k = "ccb" THEN LowOf(st, n) ELSE st[n - 1].ip
  <1>1. n \in Nat /\ n - 1 < n /\ (n - 1) + 1 = n /\ n - 1 \in Nat
    BY DEF Formed
  <1>2. Covers(st, n, n - 1) = {}
    BY <1>1, CoversTop
  <1> QED BY <1>1, <1>2 DEF Cur

(* An unwind hides the frames down to where it is. *)
LEMMA SeenUnw ==
    ASSUME NEW st, NEW n, Formed(st, n), n > 0, st[n].k = "unw"
    PROVE  /\ \A p \in 1 .. st[n].at : Seen(st, n, p) <=> Seen(st, st[n].at, p)
           /\ \A p \in st[n].at + 1 .. n - 1 : ~Seen(st, n, p)
  <1>1. n \in 1 .. n /\ n \in Nat
    BY DEF Formed
  <1>2. st[n].at \in Nat /\ st[n].at < n /\ Respects(st, n, st[n].at)
    BY <1>1, UnwAt
  <1>3. \A q \in 1 .. n - 1 : Own(st[q])
    BY <1>1 DEF Formed
  <1>4. ASSUME NEW p \in 1 .. st[n].at PROVE Seen(st, n, p) <=> Seen(st, st[n].at, p)
    <2>1. p \in 1 .. n - 1 /\ p <= st[n].at
      BY <1>1, <1>2
    <2>2. Seen(st, n, p) <=> Seen(st, n - 1, p)
      BY <1>1, <1>2, <2>1, SeenTop
    <2>3. Seen(st, n - 1, p) <=> Seen(st, st[n].at, p)
      BY <1>1, <1>2, <1>3, SeenBelow
    <2> QED BY <2>2, <2>3
  <1>5. ASSUME NEW p \in st[n].at + 1 .. n - 1 PROVE ~Seen(st, n, p)
    BY <1>1, <1>2 DEF Seen
  <1> QED BY <1>4, <1>5

LEMMA CoversUnw ==
    ASSUME NEW st, NEW n, Formed(st, n), n > 0, st[n].k = "unw"
    PROVE  /\ \A p \in 1 .. st[n].at - 1 : /\ Covers(st, n, p) = Covers(st, st[n].at, p)
                                          /\ Cur(st, n, p) = Cur(st, st[n].at, p)
           /\ Covers(st, n, st[n].at) = {n} /\ Cur(st, n, st[n].at) = st[n].state
  <1>1. n \in 1 .. n /\ n \in Nat
    BY DEF Formed
  <1>2. st[n].at \in Nat /\ st[n].at < n
    BY <1>1, UnwAt
  <1>3. ASSUME NEW p \in 1 .. st[n].at - 1 PROVE Covers(st, n, p) = Covers(st, st[n].at, p)
    <2>1. ASSUME NEW u \in Covers(st, n, p) PROVE u \in Covers(st, st[n].at, p)
      <3>1. u \in 1 .. n /\ st[u].k = "unw" /\ Seen(st, n, u) /\ st[u].at = p
        BY DEF Covers
      <3>2. u # n /\ ~(u \in st[n].at + 1 .. n - 1)
        BY <1>1, <1>2, <3>1, SeenUnw
      <3>3. u \in 1 .. st[n].at
        BY <1>1, <1>2, <3>1, <3>2
      <3> QED BY <3>1, <3>3, SeenUnw DEF Covers
    <2>2. ASSUME NEW u \in Covers(st, st[n].at, p) PROVE u \in Covers(st, n, p)
      <3>1. u \in 1 .. st[n].at /\ st[u].k = "unw" /\ Seen(st, st[n].at, u) /\ st[u].at = p
        BY DEF Covers
      <3>2. u \in 1 .. n /\ Seen(st, n, u)
        BY <1>1, <1>2, <3>1, SeenUnw
      <3> QED BY <3>1, <3>2 DEF Covers
    <2> QED BY <2>1, <2>2, Zenon
  <1>4. ASSUME NEW p \in 1 .. st[n].at - 1 PROVE Cur(st, n, p) = Cur(st, st[n].at, p)
    <2>1. p < n /\ p < st[n].at
      BY <1>1, <1>2
    <2>2. Covers(st, n, p) = Covers(st, st[n].at, p)
      BY <1>3
    <2> QED BY <2>1, <2>2 DEF Cur
  <1>5. n \in Covers(st, n, st[n].at)
    BY <1>1, SeenItself DEF Covers
  <1> QED BY <1>3, <1>4, <1>5, CoversOne

(* The objects of n frames from those of the frames below: what frame n owns, and
   the frame below in the state frame n leaves it in. *)
LEMMA ObjsDown ==
    ASSUME NEW st, NEW n, Formed(st, n), n > 0, st[n].k # "unw", NEW x
    PROVE  LET below == Objs(st, n - 1, IF st[n].k = "ccb" THEN LowOf(st, n) ELSE st[n - 1].ip)
           IN  /\ st[n].k \in Scoped =>
                      Objs(st, n, x) = Objects(st[n].f, EstOf(st, n), x) \cup below
               /\ st[n].k \notin Scoped => Objs(st, n, x) = below
  <1> DEFINE y == IF st[n].k = "ccb" THEN LowOf(st, n) ELSE st[n - 1].ip
  <1>1. n \in Nat /\ n \in 1 .. n
    BY DEF Formed
  <1>2. \A p \in 1 .. n - 1 : Seen(st, n, p) <=> Seen(st, n - 1, p)
    BY <1>1, SeenTop
  <1>3. \A p \in 1 .. n - 1 : p \in ScopedIn(st, n) <=> p \in ScopedIn(st, n - 1)
    BY <1>1, <1>2 DEF ScopedIn
  <1>4. n \in ScopedIn(st, n) <=> st[n].k \in Scoped
    BY <1>1, SeenItself DEF ScopedIn
  <1>5. ASSUME NEW p \in 1 .. n - 1
        PROVE  Cur(st, n, p) = IF p = n - 1 THEN y ELSE Cur(st, n - 1, p)
    BY <1>1, CurNext, CurPlain
  <1>6. ScopedIn(st, n) \subseteq 1 .. n /\ ScopedIn(st, n - 1) \subseteq 1 .. n - 1
    BY DEF ScopedIn
  <1> HIDE DEF y
  <1>7. ASSUME NEW o
        PROVE  o \in Objs(st, n, x) <=> \/ st[n].k \in Scoped /\ o \in Objects(st[n].f, EstOf(st, n), x)
                                        \/ o \in Objs(st, n - 1, y)
    <2> DEFINE in(p) == o \in Objects(st[p].f, EstOf(st, p), IF p = n - 1 THEN y ELSE Cur(st, n - 1, p))
    <2>1. ASSUME NEW p \in 1 .. n - 1
          PROVE  o \in Objects(st[p].f, EstOf(st, p), IF p = n THEN x ELSE Cur(st, n, p)) <=> in(p)
      <3>1. p # n /\ Cur(st, n, p) = IF p = n - 1 THEN y ELSE Cur(st, n - 1, p)
        BY <1>1, <1>5
      <3> QED BY <3>1
    <2>2. o \in Objs(st, n - 1, y) <=> \E p \in ScopedIn(st, n - 1) : in(p)
      BY ObjsAre
    <2> HIDE DEF in
    <2>3. o \in Objs(st, n, x) <=> \E p \in ScopedIn(st, n) :
                   o \in Objects(st[p].f, EstOf(st, p), IF p = n THEN x ELSE Cur(st, n, p))
      BY ObjsAre
    <2> QED BY <1>1, <1>3, <1>4, <1>6, <2>1, <2>2, <2>3
  <1> QED BY <1>7 DEF y

LEMMA ObjsUnw ==
    ASSUME NEW st, NEW n, Formed(st, n), n > 0, st[n].k = "unw", NEW x
    PROVE  Objs(st, n, x) = Objs(st, st[n].at, st[n].state)
  <1>1. n \in Nat /\ n \in 1 .. n
    BY DEF Formed
  <1>2. st[n].at \in Nat /\ st[n].at < n
    BY <1>1, UnwAt
  <1>3. ASSUME NEW p PROVE p \in ScopedIn(st, n) <=> p \in ScopedIn(st, st[n].at)
    <2>1. ASSUME p \in ScopedIn(st, n) PROVE p \in 1 .. st[n].at /\ p \in ScopedIn(st, st[n].at)
      <3>1. p \in 1 .. n /\ p # n /\ Seen(st, n, p) /\ st[p].k \in Scoped
        BY <1>1, <2>1 DEF ScopedIn, Scoped
      <3>2. p \in 1 .. st[n].at
        BY <1>1, <1>2, <3>1, SeenUnw
      <3> QED BY <3>1, <3>2, SeenUnw DEF ScopedIn
    <2>2. ASSUME p \in ScopedIn(st, st[n].at) PROVE p \in ScopedIn(st, n)
      <3>1. p \in 1 .. st[n].at /\ p \in 1 .. n /\ Seen(st, st[n].at, p) /\ st[p].k \in Scoped
        BY <1>1, <1>2, <2>2 DEF ScopedIn
      <3> QED BY <3>1, SeenUnw DEF ScopedIn
    <2> QED BY <2>1, <2>2
  <1>4. ASSUME NEW p \in ScopedIn(st, n)
        PROVE  (IF p = n THEN x ELSE Cur(st, n, p)) =
                   (IF p = st[n].at THEN st[n].state ELSE Cur(st, st[n].at, p))
    <2>1. p \in 1 .. st[n].at
      BY <1>3 DEF ScopedIn
    <2>2. p # n
      BY <1>1, <1>2, <2>1
    <2>3. CASE p = st[n].at
      BY <2>2, <2>3, CoversUnw
    <2>4. CASE p # st[n].at
      <3>1. p \in 1 .. st[n].at - 1
        BY <1>2, <2>1, <2>4
      <3> QED BY <2>2, <2>4, <3>1, CoversUnw
    <2> QED BY <2>3, <2>4
  <1>5. ASSUME NEW o PROVE o \in Objs(st, n, x) <=> o \in Objs(st, st[n].at, st[n].state)
    <2> DEFINE own(p, s) == o \in Objects(st[p].f, EstOf(st, p), s)
    <2>1. o \in Objs(st, n, x) <=>
              \E p \in ScopedIn(st, n) : own(p, IF p = n THEN x ELSE Cur(st, n, p))
      BY ObjsAre
    <2>2. o \in Objs(st, st[n].at, st[n].state) <=>
              \E p \in ScopedIn(st, st[n].at) :
                  own(p, IF p = st[n].at THEN st[n].state ELSE Cur(st, st[n].at, p))
      BY ObjsAre
    <2> HIDE DEF own
    <2> QED BY <1>3, <1>4, <2>1, <2>2
  <1> QED BY <1>5

(* Two stacks whose first n frames differ in nothing that states depend on. *)
Twin(a, b) == a = b \/ (a.k = "ccb" /\ b.k = "ccb" /\ a.try = b.try)

Twins(st, st2, n) == \A p \in 1 .. n : Twin(st[p], st2[p])

LEMMA TwinFrames ==
    ASSUME NEW st, NEW st2, NEW n \in Nat, Twins(st, st2, n), NEW p \in 1 .. n
    PROVE  /\ st2[p].k = st[p].k
           /\ st[p].k # "ccb" => st2[p] = st[p]
           /\ st[p].k = "ccb" => st2[p].try = st[p].try
  BY DEF Twins, Twin

LEMMA TwinsLess ==
    ASSUME NEW st, NEW st2, NEW n \in Nat, Twins(st, st2, n), NEW m \in Nat, m <= n
    PROVE  Twins(st, st2, m)
  BY DEF Twins

LEMMA TwinsSeen ==
    ASSUME NEW st, NEW st2, NEW n \in Nat, Twins(st, st2, n), NEW p
    PROVE  Seen(st2, n, p) <=> Seen(st, n, p)
  BY TwinFrames DEF Seen

LEMMA TwinsCur ==
    ASSUME NEW st, NEW st2, NEW n \in Nat, Twins(st, st2, n), NEW p
    PROVE  /\ Covers(st2, n, p) = Covers(st, n, p)
           /\ p \in 1 .. n /\ st[p].k \in Scoped => Cur(st2, n, p) = Cur(st, n, p)
  <1>1. \A u \in 1 .. n : Seen(st2, n, u) <=> Seen(st, n, u)
    BY TwinsSeen
  <1>2. \A u \in 1 .. n : st2[u].k = st[u].k /\ (st[u].k # "ccb" => st2[u] = st[u])
    BY TwinFrames
  <1>3. Covers(st2, n, p) = Covers(st, n, p)
    BY <1>1, <1>2 DEF Covers
  <1>4. ASSUME p \in 1 .. n, st[p].k \in Scoped PROVE Cur(st2, n, p) = Cur(st, n, p)
    <2>1. st2[p] = st[p]
      BY <1>2, <1>4 DEF Scoped
    <2>2. CASE Covers(st, n, p) # {}
      <3>1. PICK v : v = CHOOSE u \in Covers(st, n, p) : TRUE
        OBVIOUS
      <3>2. v \in Covers(st, n, p)
        BY <2>2, <3>1
      <3>3. st2[v].state = st[v].state
        BY <1>2, <3>2 DEF Covers
      <3>4. Cur(st, n, p) = st[v].state
        BY <2>2, <3>1, Zenon DEF Cur
      <3>5. Cur(st2, n, p) = st2[v].state
        BY <1>3, <2>2, <3>1, Zenon DEF Cur
      <3> QED BY <3>3, <3>4, <3>5
    <2>3. CASE Covers(st, n, p) = {}
      <3>1. CASE p < n /\ st[p + 1].k = "ccb"
        <4>1. p + 1 \in 1 .. n /\ (p + 1) - 1 = p
          BY <1>4, <3>1
        <4>2. st2[p + 1].k = "ccb" /\ st2[p + 1].try = st[p + 1].try
          BY <3>1, <4>1, TwinFrames
        <4>3. LowOf(st2, p + 1) = LowOf(st, p + 1)
          BY <2>1, <4>1, <4>2 DEF LowOf
        <4> QED BY <1>3, <2>3, <3>1, <4>2, <4>3, CoversNone
      <3>2. CASE ~(p < n /\ st[p + 1].k = "ccb")
        <4>1. ~(p < n /\ st2[p + 1].k = "ccb")
          BY <1>2, <1>4, <3>2
        <4> QED BY <1>3, <2>1, <2>3, <3>2, <4>1, CoversNone
      <3> QED BY <3>1, <3>2
    <2> QED BY <2>2, <2>3
  <1> QED BY <1>3, <1>4

LEMMA TwinsObjs ==
    ASSUME NEW st, NEW st2, NEW n \in Nat, Twins(st, st2, n), NEW x
    PROVE  Objs(st2, n, x) = Objs(st, n, x)
  <1>1. ScopedIn(st2, n) = ScopedIn(st, n)
    BY TwinFrames, TwinsSeen DEF ScopedIn
  <1>2. ASSUME NEW p \in ScopedIn(st, n)
        PROVE  st2[p] = st[p] /\ EstOf(st2, p) = EstOf(st, p) /\ Cur(st2, n, p) = Cur(st, n, p)
    <2>1. p \in 1 .. n /\ st[p].k \in Scoped /\ st[p].k # "ccb"
      BY DEF ScopedIn, Scoped
    <2>2. st2[p] = st[p]
      BY <2>1, TwinFrames
    <2>3. Cur(st2, n, p) = Cur(st, n, p)
      BY <2>1, TwinsCur
    <2> QED BY <2>2, <2>3 DEF EstOf
  <1>3. ASSUME NEW o PROVE o \in Objs(st2, n, x) <=> o \in Objs(st, n, x)
    <2>1. o \in Objs(st2, n, x) <=> \E p \in ScopedIn(st2, n) :
              o \in Objects(st2[p].f, EstOf(st2, p), IF p = n THEN x ELSE Cur(st2, n, p))
      BY ObjsAre
    <2>2. o \in Objs(st, n, x) <=> \E p \in ScopedIn(st, n) :
              o \in Objects(st[p].f, EstOf(st, p), IF p = n THEN x ELSE Cur(st, n, p))
      BY ObjsAre
    <2> QED BY <1>1, <1>2, <2>1, <2>2
  <1> QED BY <1>3

-----------------------------------------------------------------------------
(* Catch blocks and the frame they belong to *)

(* A funclet shares its establisher's objects with the catch blocks below it, each
   entered from a try block of the one before; they lie together on the stack. *)
GroupOK(st, p) ==
    st[p].k = "catch" =>
        /\ st[p].est = EstOf(st, p - 2)
        /\ \A q \in st[p].est + 1 .. p : st[q].k \in {"ccb", "catch"}
        /\ \A q \in st[p].est .. p - 1 : st[q].k \in Scoped =>
            /\ EstOf(st, q) = st[p].est
            /\ st[q + 1].k = "ccb" /\ LowOf(st, q + 1) <= OwnTry(st, p).low

LEMMA CatchGroup ==
    ASSUME NEW st, NEW n, Formed(st, n), NEW p \in 1 .. n, st[p].k = "catch"
    PROVE  /\ p > 2 /\ p - 1 \in 1 .. n /\ p - 2 \in 1 .. n
           /\ st[p - 1].k = "ccb" /\ st[p - 1].try = st[p].try
           /\ st[p - 2].k \in Scoped /\ st[p - 2].f = st[p].f
           /\ st[p].f \in DOMAIN Prog /\ st[p].try \in DOMAIN Tries(st[p].f)
           /\ OwnTry(st, p) = Try(st[p].f, st[p].try)
           /\ InCatch(OwnTry(st, p), st[p].ip) /\ st[p].ip \in DOMAIN Prog[st[p].f].unwind
           /\ st[p].est \in Nat /\ st[p].est > 0 /\ st[p].est <= p - 2 /\ st[st[p].est].k = "fn"
  <1>1. p \in Nat /\ n \in Nat /\ Own(st[p]) /\ Down(st, p)
    BY DEF Formed
  <1> QED BY <1>1 DEF Own, OwnCatch, Down, DownCatch, OwnTry, Scoped

(* A catch block that is being executed belongs to a frame and one of its tries. *)
LEMMA CcbGroup ==
    ASSUME NEW st, NEW n, Formed(st, n), NEW q \in 1 .. n, st[q].k = "ccb"
    PROVE  /\ q > 1 /\ q - 1 \in 1 .. n /\ st[q - 1].k \in Scoped /\ st[q - 1].f \in DOMAIN Prog
           /\ st[q].try \in DOMAIN Tries(st[q - 1].f)
           /\ LowOf(st, q) = Try(st[q - 1].f, st[q].try).low
           /\ LowOf(st, q) \in DOMAIN Prog[st[q - 1].f].unwind
           /\ st[q - 1].k = "catch" => InCatch(OwnTry(st, q - 1), LowOf(st, q))
  <1>1. q \in Nat /\ n \in Nat /\ Down(st, q)
    BY DEF Formed
  <1>2. q > 1 /\ Accepts(st, q - 1, st[q].try) /\ q - 1 \in 1 .. n
    BY <1>1 DEF Down, DownCcb
  <1>3. /\ st[q - 1].k \in {"fn", "catch"} /\ st[q].try \in DOMAIN Tries(st[q - 1].f)
        /\ st[q - 1].k = "catch" =>
               InCatch(Try(st[q - 1].f, st[q - 1].try), Outside(st[q - 1].f, st[q].try))
    BY <1>2 DEF Accepts
  <1>4. Own(st[q - 1])
    BY <1>2 DEF Formed
  <1>5. st[q - 1].f \in DOMAIN Prog
    BY <1>3, <1>4 DEF Own, OwnFn, OwnCatch
  <1> DEFINE f == st[q - 1].f
             low == Try(f, st[q].try).low
  <1>6. low \in DOMAIN Prog[f].unwind /\ UWE_TOSTATE(f, low) = Outside(f, st[q].try)
    BY <1>3, <1>5, TryStates
  <1>7. ASSUME st[q - 1].k = "catch" PROVE InCatch(Try(f, st[q - 1].try), low)
    <2>1. st[q - 1].try \in DOMAIN Tries(f)
      BY <1>4, <1>7 DEF Own, OwnCatch
    <2>2. low # Try(f, st[q - 1].try).high + 1
      BY <1>3, <1>5, <2>1, TablesAssumption DEF TryBlockMapOK
    <2> QED BY <1>3, <1>5, <1>6, <1>7, <2>1, <2>2, CatchClosed
  <1> QED BY <1>2, <1>3, <1>5, <1>6, <1>7 DEF LowOf, OwnTry, Scoped

(* A frame that is not C++ divides the objects by the place of their frame. *)
LEMMA ObjsDivided ==
    ASSUME NEW st, NEW n, Formed(st, n), \A p \in 1 .. n : GroupOK(st, p),
           NEW m \in 1 .. n, st[m].k = "seh", Seen(st, n, m), NEW x, NEW y
    PROVE  {o \in Objs(st, n, x) : o[1] <= m} = Objs(st, m, y)
  <1>1. n \in Nat /\ m \in Nat /\ m <= n
    BY DEF Formed
  <1>2. \A p \in 1 .. m : Seen(st, n, p) <=> Seen(st, m, p)
    <2> SUFFICES ASSUME NEW p \in 1 .. m, Seen(st, m, p), NEW q \in 1 .. n, st[q].k = "unw",
                        st[q].at < p, p < q
                 PROVE  FALSE
      BY <1>1 DEF Seen
    <2>1. q > m
      BY <1>1 DEF Seen
    <2>2. st[q].at < m
      BY <1>1, UnwAt
    <2> QED BY <1>1, <2>1, <2>2 DEF Seen
  <1>3. ASSUME NEW p \in 1 .. m - 1 PROVE Cur(st, n, p) = Cur(st, m, p)
    <2>1. ASSUME NEW u \in Covers(st, n, p) PROVE u \in Covers(st, m, p)
      <3>1. u \in 1 .. n /\ st[u].k = "unw" /\ Seen(st, n, u) /\ st[u].at = p
        BY DEF Covers
      <3>2. ~(m < u)
        BY <1>1, <3>1 DEF Seen
      <3> QED BY <1>1, <1>2, <3>1, <3>2 DEF Covers
    <2>2. ASSUME NEW u \in Covers(st, m, p) PROVE u \in Covers(st, n, p)
      BY <1>1, <1>2 DEF Covers
    <2>3. Covers(st, n, p) = Covers(st, m, p)
      BY <2>1, <2>2, Zenon
    <2>4. p < n /\ p < m
      BY <1>1
    <2> QED BY <2>3, <2>4 DEF Cur
  <1>4. ASSUME NEW p \in m + 1 .. n, st[p].k \in Scoped PROVE EstOf(st, p) > m
    <2>1. CASE st[p].k # "catch"
      BY <1>1, <2>1 DEF EstOf
    <2>2. CASE st[p].k = "catch"
      <3>1. p \in 1 .. n /\ GroupOK(st, p)
        BY <1>1
      <3>2. /\ st[p].est \in Nat /\ st[st[p].est].k = "fn"
            /\ \A q \in st[p].est + 1 .. p : st[q].k \in {"ccb", "catch"}
        BY <2>2, <3>1, CatchGroup DEF GroupOK
      <3>3. st[p].est # m /\ ~(m \in st[p].est + 1 .. p)
        BY <3>2
      <3> QED BY <1>1, <2>2, <3>2, <3>3 DEF EstOf
    <2> QED BY <2>1, <2>2
  <1>5. ASSUME NEW p \in 1 .. m, st[p].k \in Scoped PROVE EstOf(st, p) <= m /\ p # m /\ p # n
    <2>1. p # m /\ p # n
      BY <1>1, <1>5 DEF Scoped
    <2>2. st[p].k = "catch" => st[p].est <= p /\ st[p].est \in Nat
      BY <1>1, CatchGroup
    <2> QED BY <1>1, <2>1, <2>2 DEF EstOf
  <1>6. ASSUME NEW o PROVE o \in Objs(st, n, x) /\ o[1] <= m <=> o \in Objs(st, m, y)
    <2> DEFINE own(p, s) == o \in Objects(st[p].f, EstOf(st, p), s)
    <2>1. o \in Objs(st, n, x) <=>
              \E p \in ScopedIn(st, n) : own(p, IF p = n THEN x ELSE Cur(st, n, p))
      BY ObjsAre
    <2>2. o \in Objs(st, m, y) <=>
              \E p \in ScopedIn(st, m) : own(p, IF p = m THEN y ELSE Cur(st, m, p))
      BY ObjsAre
    <2>3. ASSUME NEW p, NEW s, own(p, s) PROVE o[1] = EstOf(st, p)
      BY <2>3 DEF Objects
    <2> HIDE DEF own
    <2>4. ASSUME NEW p \in ScopedIn(st, m), own(p, IF p = m THEN y ELSE Cur(st, m, p))
          PROVE  o \in Objs(st, n, x) /\ o[1] <= m
      <3>1. p \in 1 .. m /\ p \in 1 .. n /\ st[p].k \in Scoped /\ Seen(st, m, p)
        BY <1>1 DEF ScopedIn
      <3>2. p # m /\ p # n /\ EstOf(st, p) <= m
        BY <1>5, <3>1
      <3>3. p \in 1 .. m - 1 /\ own(p, Cur(st, n, p))
        BY <1>1, <1>3, <2>4, <3>1, <3>2
      <3>4. p \in ScopedIn(st, n)
        BY <1>2, <3>1 DEF ScopedIn
      <3> QED BY <2>1, <2>3, <3>2, <3>3, <3>4
    <2>5. ASSUME NEW p \in ScopedIn(st, n), own(p, IF p = n THEN x ELSE Cur(st, n, p)), o[1] <= m
          PROVE  o \in Objs(st, m, y)
      <3>1. p \in 1 .. n /\ st[p].k \in Scoped /\ Seen(st, n, p)
        BY DEF ScopedIn
      <3>2. o[1] = EstOf(st, p)
        BY <2>3, <2>5
      <3>3. p \in 1 .. m
        <4>1. ASSUME p \in m + 1 .. n PROVE FALSE
          <5>1. EstOf(st, p) > m
            BY <1>4, <3>1, <4>1
          <5>2. EstOf(st, p) \in Nat
            <6>1. st[p].k = "catch" => st[p].est \in Nat
              BY <3>1, CatchGroup
            <6> QED BY <3>1, <6>1 DEF EstOf
          <5> QED BY <1>1, <2>5, <3>2, <5>1, <5>2
        <4> QED BY <1>1, <3>1, <4>1
      <3>4. p # m /\ p # n
        BY <1>5, <3>1, <3>3
      <3>5. p \in 1 .. m - 1 /\ own(p, Cur(st, m, p))
        BY <1>1, <1>3, <2>5, <3>3, <3>4
      <3>6. p \in ScopedIn(st, m)
        BY <1>2, <3>1, <3>3 DEF ScopedIn
      <3> QED BY <2>2, <3>4, <3>5, <3>6
    <2> QED BY <2>1, <2>2, <2>4, <2>5
  <1> QED BY <1>6

Older(a, b) == a[1] < b[1] \/ (a[1] = b[1] /\ a[2] < b[2])

(* The objects of the running frame are the newest ones, in the order of their states. *)
LEMMA ObjsNewest ==
    ASSUME NEW st, NEW n, Formed(st, n), n > 0, st[n].k \in Scoped, GroupOK(st, n),
           NEW x \in StatesOf(st[n].f), st[n].k = "catch" => InCatch(OwnTry(st, n), x),
           NEW o \in Objs(st, n, x)
    PROVE  /\ o = <<o[1], o[2]>> /\ o[1] \in Nat /\ EstOf(st, n) \in Nat
           /\ o[1] < EstOf(st, n) \/ (o[1] = EstOf(st, n) /\ o[2] \in Nat /\ o[2] <= x)
  <1>1. PICK p \in ScopedIn(st, n) :
            o \in Objects(st[p].f, EstOf(st, p), IF p = n THEN x ELSE Cur(st, n, p))
    BY ObjsAre
  <1>2. p \in 1 .. n /\ st[p].k \in Scoped /\ n \in Nat /\ p \in Nat /\ n \in 1 .. n
    BY DEF ScopedIn, Formed
  <1>3. st[p].f \in DOMAIN Prog /\ st[n].f \in DOMAIN Prog
    BY <1>2 DEF Formed, Own, OwnFn, OwnCatch, Scoped
  <1>4. o[1] = EstOf(st, p) /\ o = <<o[1], o[2]>>
    BY <1>1 DEF Objects
  <1>5. /\ EstOf(st, p) \in Nat /\ EstOf(st, p) <= p
        /\ EstOf(st, n) \in Nat /\ EstOf(st, n) <= n
        /\ st[n].k = "fn" => EstOf(st, n) = n
    <2>1. ASSUME NEW r \in 1 .. n, st[r].k = "catch" PROVE st[r].est \in Nat /\ st[r].est <= r
      BY <1>2, <2>1, CatchGroup
    <2> QED BY <1>2, <2>1 DEF EstOf
  <1>6. CASE p = n
    BY <1>1, <1>3, <1>4, <1>5, <1>6, ObjectsBound
  <1>7. CASE p # n /\ p < EstOf(st, n)
    <2>1. EstOf(st, p) < EstOf(st, n)
      BY <1>2, <1>5, <1>7
    <2> QED BY <1>4, <1>5, <2>1
  <1>8. CASE p # n /\ ~(p < EstOf(st, n))
    <2>1. st[n].k = "catch" /\ p \in st[n].est .. n - 1 /\ st[n].est \in Nat
      BY <1>2, <1>5, <1>8 DEF EstOf, Scoped
    <2>2. /\ EstOf(st, p) = st[n].est /\ st[p + 1].k = "ccb"
          /\ LowOf(st, p + 1) <= OwnTry(st, n).low
      BY <1>2, <2>1 DEF GroupOK
    <2>3. Covers(st, n, p) = {}
      <3> SUFFICES ASSUME NEW u \in Covers(st, n, p) PROVE FALSE
        OBVIOUS
      <3>1. u \in 1 .. n /\ st[u].k = "unw" /\ st[u].at = p
        BY DEF Covers
      <3>2. p < u
        BY <1>2, <3>1, UnwAt
      <3>3. u \in st[n].est + 1 .. n
        BY <1>2, <2>1, <3>1, <3>2
      <3> QED BY <2>1, <3>1, <3>3 DEF GroupOK
    <2>4. Cur(st, n, p) = LowOf(st, p + 1)
      BY <1>2, <2>1, <2>2, <2>3, CoversNone
    <2>5. p + 1 \in 1 .. n /\ (p + 1) - 1 = p
      BY <1>2, <2>1
    <2>6. LowOf(st, p + 1) \in StatesOf(st[p].f)
      BY <2>2, <2>5, CcbGroup DEF StatesOf
    <2>7. o \in Objects(st[p].f, EstOf(st, p), LowOf(st, p + 1))
      BY <1>1, <1>8, <2>4
    <2>8. o[2] \in Nat /\ o[2] <= LowOf(st, p + 1)
      BY <1>3, <2>6, <2>7, ObjectsBound
    <2>9. OwnTry(st, n).low < x /\ OwnTry(st, n).low \in Nat /\ x \in Int
      <3>1. /\ st[n].try \in DOMAIN Tries(st[n].f) /\ OwnTry(st, n) = Try(st[n].f, st[n].try)
            /\ InCatch(OwnTry(st, n), x)
        BY <1>2, <2>1, CatchGroup
      <3>2. OwnTry(st, n).low \in Nat /\ OwnTry(st, n).high \in Nat /\ OwnTry(st, n).low <= OwnTry(st, n).high
        BY <1>3, <3>1, TryStates
      <3> QED BY <1>3, <3>1, <3>2, StatesFacts DEF InCatch
    <2>10. LowOf(st, p + 1) \in Int
      BY <1>3, <2>6, StatesFacts
    <2> QED BY <1>4, <1>5, <2>1, <2>2, <2>8, <2>9, <2>10 DEF EstOf
  <1> QED BY <1>6, <1>7, <1>8

-----------------------------------------------------------------------------
(* The inductive invariant of FH4: the state a handler is called with is the one the
   frame is in, and the objects of the program are those of these states. *)

HitIn(st, u, s) == InTry(Try(st[u.target].f, u.hit.try), s)

(* s is a state that frame p can be unwound from, or has been unwound to. *)
StateOK(st, p, s) ==
    /\ s \in StatesOf(st[p].f)
    /\ st[p].k = "catch" => InCatch(OwnTry(st, p), s) \/ s = Outside(st[p].f, st[p].try)

(* An unwind on its way to a handler finds the target inside of the try block, and
   only "throw;" makes one end at a catch block. *)
AwaitOK(st, p) ==
    st[p].k = "unw" =>
        /\ st[p].hit # NoHit /\ st[p].target < st[p].at =>
               HitIn(st, st[p], Cur(st, st[p].at, st[p].target))
        /\ st[st[p].target].k = "ccb" => st[p].rec = Rethrown

ArrivedOK(st, p, s) ==
    /\ StateOK(st, st[p].at, s)
    /\ st[p].hit # NoHit /\ st[p].target = st[p].at => HitIn(st, st[p], s)

(* A dispatcher that has found a handler waits for the catch object to be built. *)
BuildOK(st, p) ==
    st[p].k = "raise" /\ st[p].phase = "build" =>
        InTry(Try(st[st[p].at].f, st[p].hit.try), Cur(st, p, st[p].at))

PlaceOK(st, p) == GroupOK(st, p) /\ BuildOK(st, p) /\ AwaitOK(st, p)

(* A frame of the runtime with other frames above it, such as an unwind that runs a
   destructor: its scope index tells where it is. *)
BuriedOK(st, p) ==
    /\ PlaceOK(st, p)
    /\ st[p].k = "unw" => /\ st[p].phase = "states" /\ st[p].scope = st[p].state + 2
                          /\ ArrivedOK(st, p, st[p].state)

Buried(st, n) == \A p \in 1 .. n : BuriedOK(st, p)

(* The state FH4 takes for frame a, c being CatchStateInParent. *)
From(st, a, scope, c) ==
    IF scope # 0 THEN scope - 2 ELSE IF c # INVALID_STATE THEN c ELSE st[a].ip

(* A handler that is called with scope 0 is told the state of frame a by the catch block
   above the frame, or its ip is right. *)
Told(st, n, a, c) ==
    /\ Covers(st, n, a) = {}
    /\ \/ c = INVALID_STATE /\ st[a + 1].k # "ccb"
       \/ c # INVALID_STATE /\ st[a + 1].k = "ccb" /\ c = Try(st[a].f, st[a + 1].try).catchHigh

(* A search that has passed an unwind has its scope index; before the second call of
   the same handler the state is out of date, if the handler looks at it. *)
SearchOK ==
    Run.k = "raise" /\ Run.phase = "scan" /\ Run.at > 0 =>
        /\ stack[Run.at].k = "ccb" /\ stack[Run.at].phase = "except" /\ Run.at = Top - 1
               => csp = Try(stack[Run.at - 1].f, stack[Run.at].try).catchHigh
        /\ stack[Run.at].k \in Scoped /\ Run.again =>
               /\ Covers(stack, Top, Run.at) # {}
               /\ Run.scope = Cur(stack, Top, Run.at) + 2 /\ Run.scope # 0
        /\ stack[Run.at].k \in Scoped /\ ~Run.again =>
               Told(stack, Top, Run.at, csp) \/ Skipped(Run.rec)

UnwOK(st, n, c) ==
    st[n].k = "unw" =>
        /\ st[n].scope \in Nat
        /\ st[n].phase = "scan" /\ st[st[n].at].k \in Scoped =>
               ArrivedOK(st, n, From(st, st[n].at, st[n].scope, c))
        /\ st[n].phase # "scan" => ArrivedOK(st, n, st[n].state)
        /\ st[n].phase = "land" => st[n].state = Try(st[st[n].target].f, st[n].hit.try).low

FramesOK(st, n, c) == Buried(st, n - 1) /\ PlaceOK(st, n) /\ UnwOK(st, n, c)

(* The frame the runtime is at and the state that frame is in, hence the objects. *)
ViewState(st, n, c) ==
    IF st[n].k # "unw" THEN st[n].ip
    ELSE IF st[n].phase = "scan" THEN From(st, st[n].at, st[n].scope, c)
    ELSE st[n].state

View(st, n, c) ==
    Objs(st, IF st[n].k = "unw" THEN st[n].at ELSE n, ViewState(st, n, c))

(* An exception that the handlers ignore leaves the frames down to its __except with
   their objects. *)
Below(lv, m) == {o \in Range(lv) : o[1] <= m}

LeavesObjects ==
    /\ Run.k = "unw" /\ Run.phase = "scan" /\ Run.hit = NoHit /\ Skipped(Run.rec)
    /\ stack[Run.target].k = "seh" => Below(live, Run.target) = Objs(stack, Run.target, EH_EMPTY_STATE)

LiveOK == Range(live) = View(stack, Top, csp) \/ LeavesObjects

Sorted(lv) == \A i, j \in 1 .. Len(lv) : i < j => Older(lv[i], lv[j])

Precise == mode.fh = 4 /\ Running /\ stale = {}

LiveType == live \in Seq(Nat \X Nat)

StateInv ==
    Precise => LiveType /\ FramesOK(stack, Top, csp) /\ SearchOK /\ LiveOK /\ Sorted(live)

-----------------------------------------------------------------------------
(* What the lower frames satisfy does not depend on those above *)

LEMMA GroupAlike ==
    ASSUME NEW st, NEW n, Formed(st, n), NEW p \in 1 .. n, GroupOK(st, p),
           NEW st2, Twins(st, st2, p - 1), st2[p].k = st[p].k,
           st[p].k = "catch" => /\ st2[p].f = st[p].f /\ st2[p].est = st[p].est
                                /\ st2[p].try = st[p].try
    PROVE  GroupOK(st2, p)
  <1> SUFFICES ASSUME st2[p].k = "catch" PROVE GroupOK(st2, p)
    BY DEF GroupOK
  <1>1. /\ n \in Nat /\ p - 1 \in Nat /\ st[p].k = "catch"
        /\ st2[p].f = st[p].f /\ st2[p].est = st[p].est /\ st2[p].try = st[p].try
    BY DEF Formed
  <1>2. p > 2 /\ p - 1 \in 1 .. n /\ p - 2 \in 1 .. n /\ st[p].est \in Nat /\ st[p].est > 0
    BY <1>1, CatchGroup
  <1>3. ASSUME NEW q \in 1 .. p PROVE st2[q].k = st[q].k /\ EstOf(st2, q) = EstOf(st, q)
    <2>1. q = p \/ q \in 1 .. p - 1
      BY <1>1
    <2>2. CASE q = p
      BY <1>1, <2>2 DEF EstOf
    <2>3. CASE q \in 1 .. p - 1
      BY <1>1, <2>3, TwinFrames DEF EstOf
    <2> QED BY <2>1, <2>2, <2>3
  <1>4. ASSUME NEW q \in 2 .. p, st[q].k = "ccb" PROVE LowOf(st2, q) = LowOf(st, q)
    <2>1. q \in 1 .. n /\ q - 1 \in 1 .. p - 1 /\ q \in 1 .. p - 1
      BY <1>1, <1>4
    <2>2. st[q - 1].k \in Scoped
      BY <1>4, <2>1, CcbGroup
    <2>3. st2[q - 1] = st[q - 1] /\ st2[q].try = st[q].try
      BY <1>1, <1>4, <2>1, <2>2, TwinFrames DEF Scoped
    <2> QED BY <2>3 DEF LowOf
  <1>5. ASSUME NEW q \in st2[p].est .. p - 1, st2[q].k \in Scoped
        PROVE  /\ EstOf(st2, q) = st2[p].est
               /\ st2[q + 1].k = "ccb" /\ LowOf(st2, q + 1) <= OwnTry(st2, p).low
    <2>1. q \in 1 .. p /\ q + 1 \in 2 .. p /\ q + 1 \in 1 .. p
      BY <1>1, <1>2
    <2>2. q \in st[p].est .. p - 1 /\ st[q].k \in Scoped
      BY <1>1, <1>3, <1>5, <2>1
    <2>3. /\ EstOf(st, q) = st[p].est
          /\ st[q + 1].k = "ccb" /\ LowOf(st, q + 1) <= OwnTry(st, p).low
      BY <1>1, <2>2 DEF GroupOK
    <2> QED BY <1>1, <1>3, <1>4, <2>1, <2>3 DEF OwnTry
  <1>6. \A q \in st2[p].est + 1 .. p : st2[q].k \in {"ccb", "catch"}
    BY <1>1, <1>2, <1>3 DEF GroupOK
  <1>7. st2[p].est = EstOf(st2, p - 2)
    <2>1. p - 2 \in 1 .. p
      BY <1>1, <1>2
    <2> QED BY <1>1, <1>3, <2>1 DEF GroupOK
  <1> QED BY <1>5, <1>6, <1>7 DEF GroupOK

LEMMA GroupTwins ==
    ASSUME NEW st, NEW n, Formed(st, n), NEW st2, Twins(st, st2, n), NEW p \in 1 .. n, GroupOK(st, p)
    PROVE  GroupOK(st2, p)
  <1>1. n \in Nat /\ p - 1 \in Nat /\ p - 1 <= n
    BY DEF Formed
  <1>2. Twins(st, st2, p - 1)
    BY <1>1, TwinsLess
  <1>3. st2[p].k = st[p].k /\ (st[p].k = "catch" => st2[p] = st[p])
    BY <1>1, TwinFrames
  <1> QED BY <1>2, <1>3, GroupAlike

LEMMA BuildTwins ==
    ASSUME NEW st, NEW n, Formed(st, n), NEW st2, Twins(st, st2, n), NEW p \in 1 .. n, BuildOK(st, p)
    PROVE  BuildOK(st2, p)
  <1> SUFFICES ASSUME st2[p].k = "raise", st2[p].phase = "build"
               PROVE  InTry(Try(st2[st2[p].at].f, st2[p].hit.try), Cur(st2, p, st2[p].at))
    BY DEF BuildOK
  <1>1. n \in Nat /\ st2[p] = st[p] /\ st[p].k = "raise" /\ st[p].phase = "build"
    BY TwinFrames DEF Formed
  <1>2. /\ Own(st[p]) /\ Down(st, p)
        /\ st[p].at \in Nat /\ st[p].at > 0 /\ st[p].at < p /\ Accepts(st, st[p].at, st[p].hit.try)
    BY <1>1 DEF Formed, Down, DownRaise, Own, OwnRaise
  <1>3. st[p].at \in 1 .. p /\ st[p].at \in 1 .. n /\ st[st[p].at].k \in Scoped
    BY <1>1, <1>2 DEF Accepts, Scoped
  <1>4. st2[st[p].at] = st[st[p].at]
    BY <1>1, <1>3, TwinFrames DEF Scoped
  <1>5. Cur(st2, p, st[p].at) = Cur(st, p, st[p].at)
    BY <1>1, <1>3, TwinsLess, TwinsCur
  <1> QED BY <1>1, <1>4, <1>5 DEF BuildOK

LEMMA StateTwins ==
    ASSUME NEW st, NEW n, Formed(st, n), NEW st2, Twins(st, st2, n), NEW p \in 1 .. n,
           st[p].k \in Scoped, NEW s
    PROVE  StateOK(st2, p, s) <=> StateOK(st, p, s)
  <1>1. st2[p] = st[p]
    BY TwinFrames DEF Formed, Scoped
  <1> QED BY <1>1 DEF StateOK, OwnTry

(* The frames an unwind speaks of. *)
LEMMA UnwPlaces ==
    ASSUME NEW st, NEW n, Formed(st, n), NEW p \in 1 .. n, st[p].k = "unw"
    PROVE  /\ st[p].at \in 1 .. n /\ st[p].at < p /\ st[p].target \in 1 .. n
           /\ st[p].target <= st[p].at
           /\ st[p].hit # NoHit =>
                 /\ Accepts(st, st[p].target, st[p].hit.try) /\ st[st[p].target].k \in Scoped
                 /\ st[st[p].target].f \in DOMAIN Prog
                 /\ st[p].hit.try \in DOMAIN Tries(st[st[p].target].f)
           /\ st[p].phase = "states" => st[st[p].at].k \in Scoped
           /\ st[p].phase = "land" =>
                 st[p].at = st[p].target /\ st[p].hit # NoHit /\ st[st[p].at].k \in Scoped
  <1>1. n \in Nat /\ Own(st[p]) /\ Down(st, p)
    BY DEF Formed
  <1>2. /\ st[p].at \in Nat /\ st[p].at < p /\ st[p].target > 0 /\ st[p].target \in Nat
        /\ st[p].target <= st[p].at
    BY UnwAt
  <1>3. st[p].at \in 1 .. n /\ st[p].target \in 1 .. n
    BY <1>1, <1>2
  <1>4. /\ Lands(st, st[p])
        /\ st[p].phase = "land" => st[p].at = st[p].target /\ st[p].hit # NoHit
        /\ st[p].phase = "states" => st[st[p].at].k \in {"fn", "catch"}
    BY <1>1 DEF Down, DownUnw
  <1>5. ASSUME st[p].hit # NoHit
        PROVE  /\ Accepts(st, st[p].target, st[p].hit.try) /\ st[st[p].target].k \in Scoped
               /\ st[st[p].target].f \in DOMAIN Prog
               /\ st[p].hit.try \in DOMAIN Tries(st[st[p].target].f)
    <2>1. Accepts(st, st[p].target, st[p].hit.try)
      BY <1>4, <1>5 DEF Lands
    <2>2. st[st[p].target].k \in {"fn", "catch"} /\ Own(st[st[p].target])
      BY <1>3, <2>1 DEF Accepts, Formed
    <2>3. st[st[p].target].f \in DOMAIN Prog
      BY <2>2 DEF Own, OwnFn, OwnCatch
    <2> QED BY <2>1, <2>2, <2>3 DEF Accepts, Scoped
  <1> QED BY <1>2, <1>3, <1>4, <1>5 DEF Scoped

LEMMA AwaitTwins ==
    ASSUME NEW st, NEW n, Formed(st, n), NEW st2, Twins(st, st2, n), NEW p \in 1 .. n, AwaitOK(st, p)
    PROVE  AwaitOK(st2, p)
  <1> SUFFICES ASSUME st2[p].k = "unw" PROVE AwaitOK(st2, p)
    BY DEF AwaitOK
  <1>1. n \in Nat /\ st2[p] = st[p] /\ st[p].k = "unw"
    BY TwinFrames DEF Formed
  <1>2. st[p].at \in 1 .. n /\ st[p].target \in 1 .. n
    BY <1>1, UnwPlaces
  <1>3. ASSUME st[p].hit # NoHit, st[p].target < st[p].at
        PROVE  HitIn(st2, st[p], Cur(st2, st[p].at, st[p].target))
    <2>1. st[st[p].target].k \in Scoped
      BY <1>1, <1>3, UnwPlaces
    <2>2. st2[st[p].target] = st[st[p].target]
      BY <1>1, <1>2, <2>1, TwinFrames DEF Scoped
    <2>3. Twins(st, st2, st[p].at) /\ st[p].target \in 1 .. st[p].at /\ st[p].at \in Nat
      BY <1>1, <1>2, <1>3, TwinsLess
    <2>4. Cur(st2, st[p].at, st[p].target) = Cur(st, st[p].at, st[p].target)
      BY <2>1, <2>3, TwinsCur
    <2>5. HitIn(st, st[p], Cur(st, st[p].at, st[p].target))
      BY <1>1, <1>3 DEF AwaitOK
    <2> QED BY <2>2, <2>4, <2>5 DEF HitIn
  <1>4. st2[st[p].target].k = st[st[p].target].k
    BY <1>1, <1>2, TwinFrames
  <1> QED BY <1>1, <1>3, <1>4 DEF AwaitOK

LEMMA ArrivedTwins ==
    ASSUME NEW st, NEW n, Formed(st, n), NEW st2, Twins(st, st2, n), NEW p \in 1 .. n,
           st[p].k = "unw", st[st[p].at].k \in Scoped, NEW s, ArrivedOK(st, p, s)
    PROVE  ArrivedOK(st2, p, s)
  <1>1. n \in Nat /\ st2[p] = st[p]
    BY TwinFrames DEF Formed
  <1>2. st[p].at \in 1 .. n /\ st[p].target \in 1 .. n
    BY UnwPlaces
  <1>3. StateOK(st2, st[p].at, s)
    BY <1>2, StateTwins DEF ArrivedOK
  <1>4. ASSUME st[p].hit # NoHit, st[p].target = st[p].at PROVE HitIn(st2, st[p], s)
    <2>1. st2[st[p].target] = st[st[p].target]
      BY <1>1, <1>2, <1>4, TwinFrames DEF Scoped
    <2> QED BY <1>4, <2>1 DEF HitIn, ArrivedOK
  <1> QED BY <1>1, <1>3, <1>4 DEF ArrivedOK

LEMMA PlaceTwins ==
    ASSUME NEW st, NEW n, Formed(st, n), NEW st2, Twins(st, st2, n), NEW p \in 1 .. n, PlaceOK(st, p)
    PROVE  PlaceOK(st2, p)
  BY GroupTwins, BuildTwins, AwaitTwins DEF PlaceOK

LEMMA BuriedTwins ==
    ASSUME NEW st, NEW n, Formed(st, n), NEW st2, Twins(st, st2, n), Buried(st, n)
    PROVE  Buried(st2, n)
  <1> SUFFICES ASSUME NEW p \in 1 .. n PROVE BuriedOK(st2, p)
    BY DEF Buried
  <1>1. n \in Nat /\ BuriedOK(st, p)
    BY DEF Formed, Buried
  <1>2. PlaceOK(st2, p)
    BY <1>1, PlaceTwins DEF BuriedOK
  <1>3. ASSUME st2[p].k = "unw"
        PROVE  /\ st2[p].phase = "states" /\ st2[p].scope = st2[p].state + 2
               /\ ArrivedOK(st2, p, st2[p].state)
    <2>1. st2[p] = st[p] /\ st[p].k = "unw"
      BY <1>1, <1>3, TwinFrames
    <2>2. st[p].phase = "states" /\ st[p].scope = st[p].state + 2 /\ ArrivedOK(st, p, st[p].state)
      BY <1>1, <2>1 DEF BuriedOK
    <2>3. st[st[p].at].k \in Scoped
      BY <2>1, <2>2, UnwPlaces
    <2> QED BY <2>1, <2>2, <2>3, ArrivedTwins
  <1> QED BY <1>2, <1>3 DEF BuriedOK

LEMMA TwinsItself ==
    ASSUME NEW st, NEW n
    PROVE  Twins(st, st, n)
  BY DEF Twins, Twin

LEMMA StateFacts ==
    ASSUME EhInv, StateInv, Precise
    PROVE  /\ Top \in Nat /\ Top > 0 /\ DOMAIN stack = 1 .. Top /\ IsStack(stack)
           /\ Formed(stack, Top) /\ Formed(stack, Top - 1) /\ Own(Run) /\ Down(stack, Top)
           /\ Run = stack[Top] /\ Top \in 1 .. Top
           /\ Buried(stack, Top - 1) /\ PlaceOK(stack, Top) /\ UnwOK(stack, Top, csp)
           /\ SearchOK /\ LiveOK /\ Sorted(live) /\ LiveType /\ live \in Seq(Nat \X Nat)
           /\ mode.fh = 4 /\ Running /\ stale = {}
           /\ \A p \in 1 .. Top : PlaceOK(stack, p) /\ GroupOK(stack, p)
  <1>1. /\ Top \in Nat /\ Top > 0 /\ DOMAIN stack = 1 .. Top /\ IsStack(stack)
        /\ Own(Run) /\ Down(stack, Top) /\ \A p \in 1 .. Top : Own(stack[p]) /\ Down(stack, p)
    BY StackFacts DEF EhInv
  <1>2. Formed(stack, Top) /\ Formed(stack, Top - 1) /\ Top \in 1 .. Top
    BY <1>1 DEF Formed
  <1>3. Buried(stack, Top - 1) /\ PlaceOK(stack, Top) /\ UnwOK(stack, Top, csp)
    BY DEF StateInv, FramesOK
  <1>4. ASSUME NEW p \in 1 .. Top PROVE PlaceOK(stack, p) /\ GroupOK(stack, p)
    <2>1. p = Top \/ p \in 1 .. Top - 1
      BY <1>1
    <2>2. PlaceOK(stack, p)
      BY <1>3, <2>1 DEF Buried, BuriedOK
    <2> QED BY <2>2 DEF PlaceOK
  <1> QED BY <1>1, <1>2, <1>3, <1>4 DEF StateInv, LiveType, Precise, Run

(* A frame of the program asks for nothing but its group. *)
LEMMA UserPlace ==
    ASSUME NEW st, NEW n, st[n].k \in {"fn", "seh", "ccb"} \/ (st[n].k = "catch" /\ GroupOK(st, n))
    PROVE  PlaceOK(st, n) /\ BuriedOK(st, n) /\ \A c : UnwOK(st, n, c)
  BY DEF PlaceOK, GroupOK, BuildOK, AwaitOK, BuriedOK, UnwOK

LEMMA BuriedMore ==
    ASSUME NEW st, NEW n \in Nat, n > 0, Buried(st, n - 1), BuriedOK(st, n)
    PROVE  Buried(st, n)
  BY DEF Buried

LEMMA PlainTop ==
    ASSUME Run.k # "raise"
    PROVE  SearchOK
  BY DEF SearchOK

LEMMA LiveFacts ==
    ASSUME NEW lv, lv \in Seq(Nat \X Nat)
    PROVE  /\ Len(lv) \in Nat /\ DOMAIN lv = 1 .. Len(lv)
           /\ \A i \in 1 .. Len(lv) : lv[i] \in Nat \X Nat /\ lv[i][1] \in Nat /\ lv[i][2] \in Nat
           /\ \A o : o \in Range(lv) <=> \E i \in 1 .. Len(lv) : o = lv[i]
  BY DEF Range

(* The newest object comes last, and goes first. *)
LEMMA BornLast ==
    ASSUME NEW lv, lv \in Seq(Nat \X Nat), Sorted(lv), NEW x, \A o \in Range(lv) : Older(o, x)
    PROVE  Range(Append(lv, x)) = Range(lv) \cup {x} /\ Sorted(Append(lv, x))
  <1>1. Len(lv) \in Nat /\ \A o : o \in Range(lv) <=> \E i \in 1 .. Len(lv) : o = lv[i]
    BY LiveFacts
  <1>2. /\ Len(Append(lv, x)) = Len(lv) + 1 /\ DOMAIN Append(lv, x) = 1 .. Len(lv) + 1
        /\ Append(lv, x)[Len(lv) + 1] = x
        /\ \A i \in 1 .. Len(lv) : Append(lv, x)[i] = lv[i]
    OBVIOUS
  <1>3. Range(Append(lv, x)) = Range(lv) \cup {x}
    <2>1. ASSUME NEW o
          PROVE  o \in Range(Append(lv, x)) <=> \E i \in 1 .. Len(lv) + 1 : o = Append(lv, x)[i]
      BY <1>2, Zenon DEF Range
    <2>2. ASSUME NEW o
          PROVE  (\E i \in 1 .. Len(lv) + 1 : o = Append(lv, x)[i]) <=> o \in Range(lv) \/ o = x
      BY <1>1, <1>2
    <2> QED BY <2>1, <2>2, Zenon
  <1>4. Sorted(Append(lv, x))
    <2> SUFFICES ASSUME NEW i \in 1 .. Len(lv) + 1, NEW j \in 1 .. Len(lv) + 1, i < j
                 PROVE  Older(Append(lv, x)[i], Append(lv, x)[j])
      BY <1>2, Zenon DEF Sorted
    <2>1. i \in 1 .. Len(lv) /\ Append(lv, x)[i] = lv[i]
      BY <1>1, <1>2
    <2>2. CASE j = Len(lv) + 1
      BY <1>1, <1>2, <2>1, <2>2, Zenon
    <2>3. CASE j \in 1 .. Len(lv)
      BY <1>2, <2>1, <2>3 DEF Sorted
    <2> QED BY <1>1, <2>2, <2>3
  <1> QED BY <1>3, <1>4

LEMMA DiesFirst ==
    ASSUME LiveType, Sorted(live), NEW x \in Range(live),
           \A o \in Range(live) : o = x \/ Older(o, x)
    PROVE  /\ Range(Destroyed(x)) = Range(live) \ {x} /\ Sorted(Destroyed(x))
           /\ Destroyed(x) = SubSeq(live, 1, Len(live) - 1) /\ live # <<>>
  <1>1. /\ Len(live) \in Nat /\ DOMAIN live = 1 .. Len(live)
        /\ \A o : o \in Range(live) <=> \E i \in 1 .. Len(live) : o = live[i]
        /\ \A i \in 1 .. Len(live) : live[i][1] \in Nat /\ live[i][2] \in Nat
    BY LiveFacts, Zenon DEF LiveType
  <1>2. PICK k \in 1 .. Len(live) : x = live[k]
    BY <1>1
  <1>3. \A o \in Range(live) : ~(Older(o, x) /\ Older(x, o))
    BY <1>1 DEF Older
  <1>4. k = Len(live)
    <2> SUFFICES ASSUME k < Len(live) PROVE FALSE
      BY <1>1, <1>2
    <2>1. Len(live) \in 1 .. Len(live) /\ Older(x, live[Len(live)]) /\ live[Len(live)] \in Range(live)
      BY <1>1, <1>2 DEF Sorted
    <2>2. live[Len(live)] = x
      BY <1>3, <2>1
    <2>3. ~Older(x, x)
      BY <1>1, <1>2 DEF Older
    <2> QED BY <2>1, <2>2, <2>3
  <1> DEFINE n == Len(live) - 1
             lv == SubSeq(live, 1, n)
  <1>5. live # <<>> /\ Last(live) = x /\ Front(live) = lv /\ n \in Nat
    BY <1>1, <1>2, <1>4 DEF LiveType, Last, Front
  <1>6. Destroyed(x) = lv
    BY <1>5 DEF Destroyed
  <1>7. Len(lv) = n /\ DOMAIN lv = 1 .. n /\ \A i \in 1 .. n : lv[i] = live[i]
    BY <1>1, <1>5 DEF LiveType
  <1> HIDE DEF lv
  <1>8. \A o : o \in Range(lv) <=> \E i \in 1 .. n : o = live[i]
    BY <1>7, Zenon DEF Range
  <1>9. \A i \in 1 .. n : live[i] # x
    <2> SUFFICES ASSUME NEW i \in 1 .. n, live[i] = x PROVE FALSE
      OBVIOUS
    <2>1. Older(x, x)
      BY <1>1, <1>2, <1>4 DEF Sorted
    <2> QED BY <1>1, <1>2, <2>1 DEF Older
  <1>10. ASSUME NEW o PROVE o \in Range(lv) <=> o \in Range(live) \ {x}
    <2>1. (\E i \in 1 .. Len(live) : o = live[i]) <=> (\E i \in 1 .. n : o = live[i]) \/ o = x
      BY <1>1, <1>2, <1>4
    <2> QED BY <1>1, <1>8, <1>9, <2>1, Zenon
  <1>11. Sorted(lv)
    <2> SUFFICES ASSUME NEW i \in 1 .. n, NEW j \in 1 .. n, i < j PROVE Older(lv[i], lv[j])
      BY <1>7 DEF Sorted
    <2>1. i \in 1 .. Len(live) /\ j \in 1 .. Len(live) /\ lv[i] = live[i] /\ lv[j] = live[j]
      BY <1>1, <1>7
    <2> QED BY <2>1 DEF Sorted
  <1> QED BY <1>5, <1>6, <1>10, <1>11 DEF lv

-----------------------------------------------------------------------------
(* Every action keeps it: the program *)

LEMMA FormedNext ==
    ASSUME EhInv'
    PROVE  /\ Top' \in Nat /\ Top' > 0 /\ Formed(stack', Top') /\ Formed(stack', Top' - 1)
           /\ Run' = stack'[Top'] /\ Top' = Len(stack') /\ IsStack(stack')
  <1>1. IsStack(stack') /\ WellFormed(stack')
    BY DEF EhInv, FramesInv, StackOK
  <1> QED BY <1>1 DEF WellFormed, Formed, Run, Top

LEMMA SameTwins ==
    ASSUME NEW st, NEW st2, NEW n, \A p \in 1 .. n : st2[p] = st[p]
    PROVE  Twins(st, st2, n)
  BY DEF Twins, Twin

LEMMA ObjsZero ==
    ASSUME NEW st, NEW x
    PROVE  Objs(st, 0, x) = {}
  BY DEF Objs, ScopedIn

(* The objects of the frames below the top do not depend on its state. *)
OwnAndBelow(st, st2, n, f, e) ==
    \E B : \A x : /\ Objs(st, n, x) = Objects(f, e, x) \cup B
                  /\ Objs(st2, n, x) = Objects(f, e, x) \cup B

LEMMA ObjsOfTop ==
    ASSUME NEW st, NEW st2, NEW n, Formed(st, n), Formed(st2, n), n > 0,
           \A p \in 1 .. n - 1 : st2[p] = st[p],
           st[n].k \in Scoped, st2[n].k = st[n].k, st2[n].f = st[n].f,
           EstOf(st2, n) = EstOf(st, n)
    PROVE  OwnAndBelow(st, st2, n, st[n].f, EstOf(st, n))
  <1>1. n \in Nat /\ n - 1 \in Nat /\ st[n].k # "unw" /\ st[n].k # "ccb"
    BY DEF Formed, Scoped
  <1>2. Twins(st, st2, n - 1)
    BY SameTwins
  <1> DEFINE B == IF n = 1 THEN {} ELSE Objs(st, n - 1, st[n - 1].ip)
  <1>3. /\ n = 1 => B = {}
        /\ n # 1 => B = Objs(st, n - 1, st[n - 1].ip)
    OBVIOUS
  <1> HIDE DEF B
  <1>4. Objs(st, n - 1, st[n - 1].ip) = B
    <2>1. CASE n = 1
      BY <1>3, <2>1, ObjsZero
    <2> QED BY <1>3, <2>1
  <1>5. Objs(st2, n - 1, st2[n - 1].ip) = B
    <2>1. CASE n = 1
      BY <1>3, <2>1, ObjsZero
    <2>2. CASE n # 1
      <3>1. st2[n - 1] = st[n - 1]
        BY <1>1, <2>2
      <3> QED BY <1>1, <1>2, <1>4, <3>1, TwinsObjs
    <2> QED BY <2>1, <2>2
  <1>6. ASSUME NEW x
        PROVE  /\ Objs(st, n, x) = Objects(st[n].f, EstOf(st, n), x) \cup B
               /\ Objs(st2, n, x) = Objects(st[n].f, EstOf(st, n), x) \cup B
    <2>1. Objs(st, n, x) = Objects(st[n].f, EstOf(st, n), x) \cup Objs(st, n - 1, st[n - 1].ip)
      BY <1>1, ObjsDown
    <2>2. Objs(st2, n, x) = Objects(st2[n].f, EstOf(st2, n), x) \cup Objs(st2, n - 1, st2[n - 1].ip)
      BY <1>1, ObjsDown
    <2> QED BY <1>4, <1>5, <2>1, <2>2
  <1> QED BY <1>6, Zenon DEF OwnAndBelow

(* The state of the running function or catch block. *)
LEMMA ProgramState ==
    ASSUME EhInv, StateInv, Precise, Run.k \in User
    PROVE  /\ Range(live) = Objs(stack, Top, Run.ip)
           /\ Run.k \in Scoped =>
                 /\ Run.f \in DOMAIN Prog /\ Run.ip \in StatesOf(Run.f)
                 /\ GroupOK(stack, Top)
                 /\ Run.k = "catch" => /\ InCatch(OwnTry(stack, Top), Run.ip)
                                       /\ Run.try \in DOMAIN Tries(Run.f)
                                       /\ OwnTry(stack, Top) = Try(Run.f, Run.try)
  <1>1. /\ Run = stack[Top] /\ LiveOK /\ Formed(stack, Top) /\ Top \in 1 .. Top
        /\ GroupOK(stack, Top) /\ Own(Run)
    BY StateFacts
  <1>2. View(stack, Top, csp) = Objs(stack, Top, Run.ip)
    BY <1>1 DEF View, ViewState, User
  <1>3. Range(live) = Objs(stack, Top, Run.ip)
    BY <1>1, <1>2 DEF LiveOK, LeavesObjects, User
  <1>4. Run.k \in Scoped => Run.f \in DOMAIN Prog /\ Run.ip \in StatesOf(Run.f)
    BY <1>1 DEF Own, OwnFn, OwnCatch, Scoped, StatesOf
  <1>5. ASSUME Run.k = "catch"
        PROVE  /\ InCatch(OwnTry(stack, Top), Run.ip) /\ Run.try \in DOMAIN Tries(Run.f)
               /\ OwnTry(stack, Top) = Try(Run.f, Run.try)
    BY <1>1, <1>5, CatchGroup
  <1> QED BY <1>1, <1>3, <1>4, <1>5

(* The running function or catch block goes to another of its states. *)
LEMMA ScopeStep ==
    ASSUME EhInv, EhInv', StateInv, Precise, Run.k \in Scoped, NEW s,
           stack' = [stack EXCEPT ![Top].ip = s], NEW c
    PROVE  /\ Top' = Top /\ FramesOK(stack', Top, c)
           /\ stack'[Top].k = Run.k /\ stack'[Top].ip = s
           /\ Run' = stack'[Top] /\ Formed(stack', Top)
           /\ OwnAndBelow(stack, stack', Top, Run.f, Est(Top))
  <1>1. /\ Top \in Nat /\ Top > 0 /\ Top \in 1 .. Top /\ DOMAIN stack = 1 .. Top /\ IsStack(stack)
        /\ Formed(stack, Top) /\ Formed(stack, Top - 1) /\ Run = stack[Top] /\ Own(Run)
        /\ Buried(stack, Top - 1) /\ GroupOK(stack, Top)
    BY StateFacts
  <1>2. PICK fr : fr = [Run EXCEPT !.ip = s]
    BY Zenon
  <1>3. /\ fr.k = Run.k /\ fr.f = Run.f /\ fr.ip = s
        /\ Run.k = "catch" => fr.est = Run.est /\ fr.try = Run.try
    BY <1>1, <1>2 DEF Own, OwnFn, OwnCatch, Scoped, FnFields, CatchFields
  <1>4. PICK st2 : st2 = stack'
    OBVIOUS
  <1>5. st2 = [stack EXCEPT ![Top] = fr]
    BY <1>1, <1>2, <1>4
  <1>6. Len(st2) = Top /\ st2[Top] = fr /\ \A p \in 1 .. Top - 1 : st2[p] = stack[p]
    BY <1>1, <1>5, ChangeFrame DEF Top
  <1>7. Top' = Top /\ Formed(st2, Top) /\ Run' = st2[Top]
    BY <1>4, <1>6, FormedNext
  <1>8. Twins(stack, st2, Top - 1)
    BY <1>6, SameTwins
  <1>9. Buried(st2, Top - 1)
    BY <1>1, <1>8, BuriedTwins
  <1>10. PlaceOK(st2, Top) /\ UnwOK(st2, Top, c)
    <2>1. GroupOK(st2, Top)
      BY <1>1, <1>3, <1>6, <1>8, GroupAlike
    <2> QED BY <1>3, <1>6, <2>1, UserPlace DEF Scoped
  <1>11. EstOf(st2, Top) = EstOf(stack, Top) /\ EstOf(stack, Top) = Est(Top)
    BY <1>1, <1>3, <1>6 DEF EstOf, Est, Scoped
  <1>12. OwnAndBelow(stack, st2, Top, Run.f, Est(Top))
    <2>1. /\ stack[Top].k \in Scoped /\ st2[Top].k = stack[Top].k /\ st2[Top].f = stack[Top].f
          /\ EstOf(st2, Top) = EstOf(stack, Top)
      BY <1>1, <1>3, <1>6, <1>11
    <2>2. OwnAndBelow(stack, st2, Top, stack[Top].f, EstOf(stack, Top))
      BY <1>1, <1>6, <1>7, <2>1, ObjsOfTop
    <2> QED BY <1>1, <1>11, <2>2
  <1>13. FramesOK(st2, Top, c)
    BY <1>9, <1>10 DEF FramesOK
  <1> QED BY <1>3, <1>4, <1>6, <1>7, <1>12, <1>13, Zenon

LEMMA EstNat ==
    ASSUME EhInv, Run.k \in Scoped
    PROVE  Est(Top) \in Nat
  <1>1. Run.k = "catch" => Run.est \in 1 .. Top - 2
    BY StackFacts DEF EhInv, Down, DownCatch, Run
  <1>2. Top \in Nat
    BY StackFacts DEF EhInv
  <1> QED BY <1>1, <1>2 DEF Est, Run

(* What remains to be shown of a step. *)
LEMMA StateIf ==
    ASSUME Precise' => LiveType', Precise' => FramesOK(stack', Top', csp') /\ SearchOK' /\ LiveOK' /\ Sorted(live')
    PROVE  StateInv'
  BY DEF StateInv

(* In the program the objects are those of the state of the running frame. *)
LEMMA ProgramRuns ==
    ASSUME Run'.k \in User, Run' = stack'[Top'], Range(live') = Objs(stack', Top', Run'.ip)
    PROVE  SearchOK' /\ LiveOK'
  <1>1. Run'.k # "raise" /\ Run'.k # "unw"
    BY DEF User
  <1>2. SearchOK'
    BY <1>1 DEF SearchOK
  <1>3. View(stack', Top', csp') = Objs(stack', Top', Run'.ip)
    BY <1>1 DEF View, ViewState
  <1> QED BY <1>2, <1>3 DEF LiveOK

LEMMA EnterScopeState ==
    ASSUME EhInv, EhInv', StateInv, EnterScope
    PROVE  StateInv'
  <1>1. Run.k \in Scoped /\ Run.k \in User /\ UNCHANGED <<mode, halt, stale>>
    BY DEF EnterScope, RunIsUser, User, Scoped
  <1>2. PICK s \in DOMAIN Prog[Run.f].unwind :
            /\ UWE_TOSTATE(Run.f, s) = Run.ip
            /\ stack' = [stack EXCEPT ![Top].ip = s]
            /\ live' = IF UWE_ACTION(Run.f, s) = "none" THEN live
                       ELSE Append(live, <<Est(Top), s>>)
    BY Zenon DEF EnterScope
  <1>3. Est(Top) \in Nat /\ Own(Run)
    BY <1>1, EstNat, StackFacts DEF EhInv
  <1>4. Run.f \in DOMAIN Prog
    BY <1>1, <1>3 DEF Own, OwnFn, OwnCatch, Scoped
  <1>5. s \in Nat /\ Run.ip < s /\ Run.ip \in Int
    BY <1>2, <1>4, StatesFacts
  <1>6. Precise' => LiveType'
    BY <1>1, <1>2, <1>3, <1>5 DEF StateInv, LiveType, Precise, Running
  <1>7. ASSUME Precise'
        PROVE  FramesOK(stack', Top', csp') /\ SearchOK' /\ LiveOK' /\ Sorted(live')
    <2>1. Precise
      BY <1>1, <1>7 DEF Precise, Running
    <2>2. /\ Top' = Top /\ FramesOK(stack', Top, csp') /\ stack'[Top].k = Run.k /\ stack'[Top].ip = s
          /\ Run' = stack'[Top] /\ OwnAndBelow(stack, stack', Top, Run.f, Est(Top))
      BY <1>1, <1>2, <2>1, ScopeStep, Zenon
    <2>3. PICK B : \A x : /\ Objs(stack, Top, x) = Objects(Run.f, Est(Top), x) \cup B
                          /\ Objs(stack', Top, x) = Objects(Run.f, Est(Top), x) \cup B
      BY <2>2 DEF OwnAndBelow
    <2>4. /\ Range(live) = Objs(stack, Top, Run.ip) /\ GroupOK(stack, Top) /\ Run.ip \in StatesOf(Run.f)
          /\ Run.k = "catch" => InCatch(OwnTry(stack, Top), Run.ip)
      BY <1>1, <2>1, ProgramState
    <2>5. Range(live') = Objs(stack', Top, s) /\ Sorted(live')
      <3>1. CASE UWE_ACTION(Run.f, s) = "none"
        <4>1. Objects(Run.f, Est(Top), s) = Objects(Run.f, Est(Top), Run.ip)
          BY <1>2, <1>4, <3>1, ObjectsUnfold
        <4>2. Objs(stack', Top, s) = Objs(stack, Top, Run.ip)
          BY <2>3, <4>1, Zenon
        <4> QED BY <1>2, <2>1, <2>4, <3>1, <4>2, StateFacts
      <3>2. CASE UWE_ACTION(Run.f, s) # "none"
        <4>1. Objects(Run.f, Est(Top), s) = Objects(Run.f, Est(Top), Run.ip) \cup {<<Est(Top), s>>}
          BY <1>2, <1>4, <3>2, ObjectsUnfold
        <4>2. Objs(stack', Top, s) = Objs(stack, Top, Run.ip) \cup {<<Est(Top), s>>}
          BY <2>3, <4>1
        <4>3. ASSUME NEW o \in Range(live) PROVE Older(o, <<Est(Top), s>>)
          <5>1. /\ Formed(stack, Top) /\ Top > 0 /\ Run = stack[Top]
            BY <2>1, StateFacts
          <5>2. EstOf(stack, Top) = Est(Top)
            BY DEF EstOf, Est
          <5>3. o \in Objs(stack, Top, Run.ip)
            BY <2>4
          <5>4. o[1] < Est(Top) \/ (o[1] = Est(Top) /\ o[2] \in Nat /\ o[2] <= Run.ip)
            BY <1>1, <2>4, <5>1, <5>2, <5>3, ObjsNewest
          <5> QED BY <1>5, <5>4 DEF Older
        <4>4. live' = Append(live, <<Est(Top), s>>) /\ Sorted(live) /\ live \in Seq(Nat \X Nat)
          BY <1>2, <2>1, <3>2, StateFacts
        <4>5. PICK x : x = <<Est(Top), s>>
          BY Zenon
        <4>6. \A o \in Range(live) : Older(o, x)
          BY <4>3, <4>5
        <4>7. Range(Append(live, x)) = Range(live) \cup {x} /\ Sorted(Append(live, x))
          BY <4>4, <4>6, BornLast
        <4> QED BY <2>4, <4>2, <4>4, <4>5, <4>7, Zenon
      <3> QED BY <3>1, <3>2
    <2>6. SearchOK' /\ LiveOK'
      BY <1>1, <2>2, <2>5, ProgramRuns
    <2> QED BY <2>2, <2>5, <2>6
  <1> QED BY <1>6, <1>7, StateIf

(* Destroying an object leaves a sequence of objects. *)
LEMMA DestroyedType ==
    ASSUME LiveType, NEW x \in Nat \X Nat
    PROVE  Destroyed(x) \in Seq(Nat \X Nat)
  <1>1. live # <<>> => Front(live) \in Seq(Nat \X Nat)
    BY DEF LiveType, Front
  <1> QED BY <1>1 DEF Destroyed, LiveType

LEMMA LeaveScopeState ==
    ASSUME EhInv, EhInv', StateInv, LeaveScope
    PROVE  StateInv'
  <1> DEFINE s == UWE_TOSTATE(Run.f, Run.ip)
             x == <<Est(Top), Run.ip>>
  <1>1. Run.k \in Scoped /\ Run.k \in User /\ UNCHANGED <<mode, halt, stale>>
    BY DEF LeaveScope, RunIsUser, User, Scoped
  <1>2. /\ stack' = [stack EXCEPT ![Top].ip = s]
        /\ live' = IF UWE_ACTION(Run.f, Run.ip) = "none" THEN live ELSE Destroyed(x)
    BY DEF LeaveScope
  <1>3. Est(Top) \in Nat /\ Own(Run)
    BY <1>1, EstNat, StackFacts DEF EhInv
  <1>4. Run.f \in DOMAIN Prog /\ Run.ip \in StatesOf(Run.f)
    BY <1>1, <1>3 DEF Own, OwnFn, OwnCatch, Scoped, StatesOf
  <1>5. Run.ip \in DOMAIN Prog[Run.f].unwind
    <2>1. CASE Run.k = "fn"
      <3>1. Run.ip # EH_EMPTY_STATE
        BY <2>1 DEF LeaveScope, Base, Run
      <3> QED BY <1>4, <3>1 DEF StatesOf
    <2>2. CASE Run.k = "catch"
      BY <1>3, <2>2 DEF Own, OwnCatch
    <2> QED BY <1>1, <2>1, <2>2 DEF Scoped
  <1>6. Run.ip \in Nat /\ s \in StatesOf(Run.f) /\ s < Run.ip /\ s \in Int
    BY <1>4, <1>5, StatesFacts
  <1>7. Precise' => LiveType'
    <2> SUFFICES ASSUME LiveType PROVE LiveType'
      BY <1>1 DEF StateInv, Precise, Running
    <2>1. x \in Nat \X Nat
      BY <1>3, <1>6
    <2> HIDE DEF x
    <2>2. CASE UWE_ACTION(Run.f, Run.ip) = "none"
      BY <1>2, <2>2 DEF LiveType
    <2>3. CASE UWE_ACTION(Run.f, Run.ip) # "none"
      <3>1. Destroyed(x) \in Seq(Nat \X Nat)
        BY <2>1, DestroyedType
      <3> QED BY <1>2, <2>3, <3>1 DEF LiveType
    <2> QED BY <2>2, <2>3
  <1> HIDE DEF s, x
  <1>8. ASSUME Precise'
        PROVE  FramesOK(stack', Top', csp') /\ SearchOK' /\ LiveOK' /\ Sorted(live')
    <2>1. Precise
      BY <1>1, <1>8 DEF Precise, Running
    <2>2. /\ Top' = Top /\ FramesOK(stack', Top, csp') /\ stack'[Top].k = Run.k /\ stack'[Top].ip = s
          /\ Run' = stack'[Top] /\ OwnAndBelow(stack, stack', Top, Run.f, Est(Top))
      BY <1>1, <1>2, <2>1, ScopeStep, Zenon
    <2>3. PICK B : \A y : /\ Objs(stack, Top, y) = Objects(Run.f, Est(Top), y) \cup B
                          /\ Objs(stack', Top, y) = Objects(Run.f, Est(Top), y) \cup B
      BY <2>2, Zenon DEF OwnAndBelow
    <2>4. /\ Range(live) = Objs(stack, Top, Run.ip) /\ GroupOK(stack, Top) /\ Run.ip \in StatesOf(Run.f)
          /\ Run.k = "catch" => /\ InCatch(OwnTry(stack, Top), Run.ip)
                                /\ Run.try \in DOMAIN Tries(Run.f)
                                /\ OwnTry(stack, Top) = Try(Run.f, Run.try)
      BY <1>1, <2>1, ProgramState
    <2>5. /\ Formed(stack, Top) /\ Top > 0 /\ Run = stack[Top] /\ EstOf(stack, Top) = Est(Top)
          /\ Sorted(live) /\ LiveType
      BY <2>1, StateFacts DEF EstOf, Est
    <2>6. Range(live') = Objs(stack', Top, s) /\ Sorted(live')
      <3>1. CASE UWE_ACTION(Run.f, Run.ip) = "none"
        <4>1. Objects(Run.f, Est(Top), Run.ip) = Objects(Run.f, Est(Top), s)
          BY <1>4, <1>5, <3>1, ObjectsUnfold DEF s
        <4>2. Objs(stack', Top, s) = Objs(stack, Top, Run.ip)
          BY <2>3, <4>1
        <4> QED BY <1>2, <2>4, <2>5, <3>1, <4>2
      <3>2. CASE UWE_ACTION(Run.f, Run.ip) # "none"
        <4>1. Objects(Run.f, Est(Top), Run.ip) = Objects(Run.f, Est(Top), s) \cup {x}
          BY <1>4, <1>5, <3>2, ObjectsUnfold DEF s, x
        <4>2. Range(live) = Objs(stack', Top, s) \cup {x}
          BY <2>3, <2>4, <4>1
        <4>3. Run.k = "catch" => InCatch(OwnTry(stack, Top), s)
          <5> HAVE Run.k = "catch"
          <5>1. Run.ip # Try(Run.f, Run.try).high + 1
            <6>1. Base(Top) = Try(Run.f, Run.try).high + 1
              BY DEF Base, Run
            <6> QED BY <6>1 DEF LeaveScope
          <5> QED BY <1>4, <1>5, <2>4, <5>1, CatchClosed DEF s
        <4>4. ASSUME NEW o \in Range(live) PROVE o = x \/ Older(o, x)
          <5>1. o \in Objs(stack, Top, Run.ip)
            BY <2>4
          <5>2. /\ o = <<o[1], o[2]>>
                /\ o[1] < Est(Top) \/ (o[1] = Est(Top) /\ o[2] \in Nat /\ o[2] <= Run.ip)
            BY <1>1, <2>4, <2>5, <5>1, ObjsNewest
          <5> QED BY <1>6, <5>2 DEF Older, x
        <4>5. x \notin Objs(stack', Top, s)
          <5> SUFFICES ASSUME x \in Objs(stack, Top, s) PROVE FALSE
            BY <2>3
          <5>1. x[1] < Est(Top) \/ (x[1] = Est(Top) /\ x[2] \in Nat /\ x[2] <= s)
            BY <1>1, <1>6, <2>4, <2>5, <4>3, ObjsNewest
          <5> QED BY <1>3, <1>6, <5>1 DEF x
        <4>6. x \in Range(live) /\ live' = Destroyed(x)
          BY <1>2, <3>2, <4>2
        <4>7. Range(live') = Range(live) \ {x} /\ Sorted(live')
          BY <2>5, <4>4, <4>6, DiesFirst
        <4> QED BY <4>2, <4>5, <4>7
      <3> QED BY <3>1, <3>2
    <2>7. SearchOK' /\ LiveOK'
      BY <1>1, <2>2, <2>6, ProgramRuns
    <2> QED BY <2>2, <2>6, <2>7
  <1> QED BY <1>7, <1>8, StateIf

(* A frame is pushed, when the top one has become r. *)
LEMMA PushOn ==
    ASSUME EhInv, EhInv', StateInv, Precise,
           NEW s, IsStack(s), Len(s) = Top, NEW r, s[Top] = r, Twins(stack, s, Top - 1),
           NEW fr, stack' = Append(s, fr)
    PROVE  /\ Top \in Nat /\ Top > 0 /\ Top' = Top + 1 /\ Run' = fr
           /\ stack'[Top] = r /\ stack'[Top + 1] = fr
           /\ Formed(stack', Top) /\ Formed(stack', Top + 1)
           /\ Buried(stack', Top - 1) /\ Twins(stack, stack', Top - 1)
  <1>1. /\ Top \in Nat /\ Top > 0 /\ Formed(stack, Top - 1) /\ Buried(stack, Top - 1)
        /\ Top \in 1 .. Top
    BY StateFacts
  <1>2. PICK st2 : st2 = stack'
    OBVIOUS
  <1>3. Len(st2) = Top + 1 /\ st2[Top + 1] = fr /\ \A p \in 1 .. Top : st2[p] = s[p]
    BY <1>1, <1>2, PushFrame
  <1>4. st2[Top] = r /\ \A p \in 1 .. Top - 1 : st2[p] = s[p]
    BY <1>1, <1>3
  <1>5. Top' = Top + 1 /\ Run' = st2[Top + 1] /\ Formed(st2, Top + 1)
    BY <1>2, <1>3, FormedNext
  <1>6. Formed(st2, Top)
    BY <1>1, <1>5, FormedLess
  <1>7. Twins(stack, st2, Top - 1)
    BY <1>4 DEF Twins
  <1>8. Buried(st2, Top - 1)
    BY <1>1, <1>7, BuriedTwins
  <1> QED BY <1>1, <1>2, <1>3, <1>4, <1>5, <1>6, <1>7, <1>8

(* The top frame becomes r. *)
LEMMA MoveTop ==
    ASSUME EhInv, EhInv', StateInv, Precise,
           NEW s, IsStack(s), Len(s) = Top, Twins(stack, s, Top - 1),
           NEW r, stack' = [s EXCEPT ![Top] = r]
    PROVE  /\ Top \in Nat /\ Top > 0 /\ Top' = Top /\ Run' = r /\ stack'[Top] = r
           /\ Formed(stack', Top) /\ Buried(stack', Top - 1) /\ Twins(stack, stack', Top - 1)
  <1>1. /\ Top \in Nat /\ Top > 0 /\ Formed(stack, Top - 1) /\ Buried(stack, Top - 1)
        /\ Top \in 1 .. Len(s)
    BY StateFacts
  <1>2. PICK st2 : st2 = stack'
    OBVIOUS
  <1>3. Len(st2) = Top /\ st2[Top] = r /\ \A p \in 1 .. Top - 1 : st2[p] = s[p]
    BY <1>1, <1>2, ChangeFrame
  <1>4. Top' = Top /\ Run' = st2[Top] /\ Formed(st2, Top)
    BY <1>2, <1>3, FormedNext
  <1>5. Twins(stack, st2, Top - 1)
    BY <1>3 DEF Twins
  <1>6. Buried(st2, Top - 1)
    BY <1>1, <1>5, BuriedTwins
  <1> QED BY <1>1, <1>2, <1>3, <1>4, <1>5, <1>6

(* Frame n adds its objects, if it has any, to those in A. *)
AddsTo(st, n, A) ==
    \A x : Objs(st, n, x) = IF st[n].k = "fn" THEN Objects(st[n].f, n, x) \cup A ELSE A

Pushable == {"fn", "seh", "raise"}

LEMMA ProgramPushes ==
    ASSUME EhInv, EhInv', StateInv, Precise, Run.k \in User,
           NEW fr, fr.k \in Pushable, stack' = Append(stack, fr)
    PROVE  /\ Top' = Top + 1 /\ Run' = fr /\ Top \in Nat /\ Top > 0
           /\ stack'[Top + 1] = fr /\ stack'[Top] = Run
           /\ Formed(stack', Top + 1) /\ Buried(stack', Top)
           /\ AddsTo(stack', Top + 1, Range(live))
  <1>1. /\ Top \in Nat /\ Top > 0 /\ Top \in 1 .. Top /\ IsStack(stack) /\ Formed(stack, Top)
        /\ Run = stack[Top] /\ GroupOK(stack, Top)
    BY StateFacts
  <1>2. Top = Len(stack)
    BY DEF Top
  <1>3. PICK st2 : st2 = stack'
    OBVIOUS
  <1>4. /\ Top' = Top + 1 /\ Run' = fr /\ st2[Top] = Run /\ st2[Top + 1] = fr
        /\ Twins(stack, st2, Top - 1)
        /\ Formed(st2, Top) /\ Formed(st2, Top + 1) /\ Buried(st2, Top - 1)
    <2>1. Twins(stack, stack, Top - 1)
      BY TwinsItself
    <2> QED BY <1>1, <1>2, <1>3, <2>1, PushOn
  <1>5. Twins(stack, st2, Top)
    <2>1. \A p \in 1 .. Top : p \in 1 .. Top - 1 \/ p = Top
      BY <1>1
    <2> QED BY <1>1, <1>4, <2>1 DEF Twins, Twin
  <1>6. Buried(st2, Top)
    <2>1. GroupOK(st2, Top)
      BY <1>1, <1>5, GroupTwins
    <2>2. BuriedOK(st2, Top)
      BY <1>4, <2>1, UserPlace DEF User
    <2> QED BY <1>1, <1>4, <2>2, BuriedMore
  <1>7. Objs(st2, Top, st2[Top].ip) = Range(live)
    <2>1. Objs(st2, Top, Run.ip) = Objs(stack, Top, Run.ip)
      BY <1>1, <1>5, TwinsObjs
    <2> QED BY <1>4, <2>1, ProgramState
  <1>8. ASSUME NEW x
        PROVE  Objs(st2, Top + 1, x) =
                   IF fr.k = "fn" THEN Objects(fr.f, Top + 1, x) \cup Range(live) ELSE Range(live)
    <2>1. Top + 1 > 0 /\ (Top + 1) - 1 = Top
      BY <1>1
    <2>2. fr.k = "fn" => EstOf(st2, Top + 1) = Top + 1
      BY <1>4 DEF EstOf
    <2>3. CASE fr.k = "fn"
      <3>1. /\ st2[Top + 1].k \in Scoped /\ st2[Top + 1].k # "unw" /\ st2[Top + 1].k # "ccb"
            /\ st2[Top + 1].f = fr.f
        BY <1>4, <2>3 DEF Scoped
      <3>2. Objs(st2, Top + 1, x) = Objects(fr.f, EstOf(st2, Top + 1), x) \cup Objs(st2, Top, st2[Top].ip)
        <4>1. Formed(st2, Top + 1) /\ st2[Top] = Run
          BY <1>4
        <4> QED BY <2>1, <3>1, <4>1, ObjsDown
      <3> QED BY <1>7, <2>2, <2>3, <3>2
    <2>4. CASE fr.k # "fn"
      <3>1. /\ st2[Top + 1].k \notin Scoped /\ st2[Top + 1].k # "unw" /\ st2[Top + 1].k # "ccb"
            /\ Formed(st2, Top + 1)
        BY <1>4, <2>4 DEF Scoped, Pushable
      <3>2. Objs(st2, Top + 1, x) = Objs(st2, Top, st2[Top].ip)
        BY <2>1, <3>1, ObjsDown
      <3> QED BY <1>7, <2>4, <3>2
    <2> QED BY <2>3, <2>4
  <1>9. AddsTo(st2, Top + 1, Range(live))
    BY <1>4, <1>8, Zenon DEF AddsTo
  <1> QED BY <1>1, <1>3, <1>4, <1>6, <1>9

LEMMA CallState ==
    ASSUME EhInv, EhInv', StateInv, Call
    PROVE  StateInv'
  <1>1. Run.k \in User /\ UNCHANGED <<mode, halt, live, stale>>
    BY DEF Call, RunIsUser, ghost
  <1>2. PICK g \in Prog[Run.f].calls : stack' = Append(stack, Enter(g))
    BY DEF Call
  <1>3. Precise' => LiveType'
    BY <1>1 DEF StateInv, LiveType, Precise, Running
  <1>4. ASSUME Precise'
        PROVE  FramesOK(stack', Top', csp') /\ SearchOK' /\ LiveOK' /\ Sorted(live')
    <2>1. Precise
      BY <1>1, <1>4 DEF Precise, Running
    <2>2. Run.f \in DOMAIN Prog
      BY <1>1, StackFacts DEF EhInv, Own, OwnFn, OwnSeh, OwnCatch, User
    <2>3. g \in DOMAIN Prog
      BY <2>2, TablesAssumption
    <2>4. PICK fr : fr = Enter(g) /\ stack' = Append(stack, fr)
      BY <1>2
    <2>5. /\ fr.k \in {"fn", "seh"} /\ fr.k \in Pushable
          /\ fr.k = "fn" => fr.f = g /\ fr.ip = EH_EMPTY_STATE
      BY <2>4 DEF Enter, Fn, Seh, Pushable
    <2>6. /\ Top' = Top + 1 /\ Run' = fr /\ Top \in Nat /\ stack'[Top + 1] = fr
          /\ Formed(stack', Top + 1) /\ Buried(stack', Top)
          /\ AddsTo(stack', Top + 1, Range(live))
      BY <1>1, <1>2, <2>1, <2>4, <2>5, ProgramPushes, Zenon
    <2>7. PlaceOK(stack', Top + 1) /\ UnwOK(stack', Top + 1, csp')
      BY <2>5, <2>6, UserPlace
    <2>8. FramesOK(stack', Top', csp')
      <3>1. (Top + 1) - 1 = Top
        BY <2>6
      <3> QED BY <2>6, <2>7, <3>1 DEF FramesOK
    <2>9. Objs(stack', Top + 1, fr.ip) = Range(live)
      <3>1. fr.k = "fn" => Objects(fr.f, Top + 1, fr.ip) = {}
        BY <2>3, <2>5, ObjectsEmpty
      <3> QED BY <2>6, <3>1, Zenon DEF AddsTo
    <2>10. SearchOK' /\ LiveOK'
      BY <1>1, <2>5, <2>6, <2>9, ProgramRuns DEF User
    <2> QED BY <1>1, <2>1, <2>8, <2>10, StateFacts
  <1> QED BY <1>3, <1>4, StateIf

(* A raised exception starts its search at the frame that raises it. *)
LEMMA RaiseState ==
    ASSUME EhInv, EhInv', StateInv, Run.k \in User, UNCHANGED <<mode, halt, csp, live, stale>>,
           NEW rec, NEW want, stack' = Append(stack, Raise(rec, Top, want))
    PROVE  StateInv'
  <1>1. Precise' => LiveType'
    BY DEF StateInv, LiveType, Precise, Running
  <1>2. ASSUME Precise'
        PROVE  FramesOK(stack', Top', csp') /\ SearchOK' /\ LiveOK' /\ Sorted(live')
    <2>1. Precise
      BY <1>2 DEF Precise, Running
    <2>2. PICK fr : fr = Raise(rec, Top, want) /\ stack' = Append(stack, fr)
      OBVIOUS
    <2>3. fr.k = "raise" /\ fr.phase = "scan" /\ fr.at = Top /\ ~fr.again /\ fr.k \in Pushable
      BY <2>2 DEF Raise, Pushable
    <2>4. /\ Top' = Top + 1 /\ Run' = fr /\ Top \in Nat /\ Top > 0
          /\ stack'[Top + 1] = fr /\ stack'[Top] = Run
          /\ Formed(stack', Top + 1) /\ Buried(stack', Top)
          /\ AddsTo(stack', Top + 1, Range(live))
      BY <2>1, <2>2, <2>3, ProgramPushes, Zenon
    <2>5. FramesOK(stack', Top', csp')
      <3>1. (Top + 1) - 1 = Top
        BY <2>4
      <3>2. PlaceOK(stack', Top + 1) /\ UnwOK(stack', Top + 1, csp')
        BY <2>3, <2>4 DEF PlaceOK, GroupOK, BuildOK, AwaitOK, UnwOK
      <3> QED BY <2>4, <3>1, <3>2 DEF FramesOK
    <2>6. SearchOK'
      <3>1. csp' = INVALID_STATE
        BY ProgramParent DEF EhInv
      <3>2. Covers(stack', Top + 1, Top) = {}
        <4>1. Top >= (Top + 1) - 1 /\ stack'[Top + 1].k # "unw"
          BY <2>3, <2>4
        <4> QED BY <2>4, <4>1, CoversTop, Zenon
      <3>3. Told(stack', Top', Top, csp')
        BY <2>3, <2>4, <3>1, <3>2 DEF Told
      <3>4. stack'[Top].k # "ccb"
        BY <2>4 DEF User
      <3> QED BY <2>3, <2>4, <3>3, <3>4, Zenon DEF SearchOK
    <2>7. LiveOK'
      <3>1. View(stack', Top', csp') = Range(live)
        BY <2>3, <2>4, Zenon DEF View, AddsTo
      <3> QED BY <3>1 DEF LiveOK
    <2> QED BY <2>1, <2>5, <2>6, <2>7, StateFacts
  <1> QED BY <1>1, <1>2, StateIf

LEMMA ThrowState ==
    ASSUME EhInv, EhInv', StateInv, Throw
    PROVE  StateInv'
  <1>1. Run.k \in User /\ UNCHANGED <<mode, halt, csp, live, stale>>
    BY DEF Throw, MayRaise, RunIsUser, runtime
  <1>2. PICK rec, want : stack' = Append(stack, Raise(rec, Top, want))
    BY DEF Throw
  <1> QED BY <1>1, <1>2, RaiseState

LEMMA RethrowState ==
    ASSUME EhInv, EhInv', StateInv, Rethrow
    PROVE  StateInv'
  <1>1. Run.k \in User /\ UNCHANGED <<mode, halt, csp, live, stale>>
    BY DEF Rethrow, MayRaise, RunIsUser, runtime, ghost
  <1>2. PICK rec, want : stack' = Append(stack, Raise(rec, Top, want))
    BY DEF Rethrow
  <1> QED BY <1>1, <1>2, RaiseState

LEMMA FaultState ==
    ASSUME EhInv, EhInv', StateInv, Fault
    PROVE  StateInv'
  <1>1. Run.k \in User /\ UNCHANGED <<mode, halt, csp, live, stale>>
    BY DEF Fault, MayRaise, RunIsUser, runtime, ghost
  <1>2. PICK rec, want : stack' = Append(stack, Raise(rec, Top, want))
    BY DEF Fault
  <1> QED BY <1>1, <1>2, RaiseState

(* An unwind that has arrived at a frame of code has a scope index for its state. *)
LEMMA ArrivedState ==
    ASSUME NEW st, NEW n, Formed(st, n), NEW p \in 1 .. n, st[p].k = "unw", st[st[p].at].k \in Scoped,
           NEW s, ArrivedOK(st, p, s)
    PROVE  /\ st[st[p].at].f \in DOMAIN Prog /\ s \in StatesOf(st[st[p].at].f)
           /\ s \in Int /\ s >= EH_EMPTY_STATE /\ s + 2 \in Nat /\ s + 2 # 0
  <1>1. st[p].at \in 1 .. n
    BY UnwPlaces
  <1>2. st[st[p].at].f \in DOMAIN Prog
    BY <1>1 DEF Formed, Own, OwnFn, OwnCatch, Scoped
  <1>3. s \in StatesOf(st[st[p].at].f)
    BY DEF ArrivedOK, StateOK
  <1>4. s \in Int /\ s >= EH_EMPTY_STATE
    BY <1>2, <1>3, StatesFacts
  <1> QED BY <1>2, <1>3, <1>4 DEF EH_EMPTY_STATE

LEMMA ReturnState ==
    ASSUME EhInv, EhInv', StateInv, Return
    PROVE  StateInv'
  <1>1. Run.k \in {"fn", "seh"} /\ Run.k \in User /\ Top > 1 /\ UNCHANGED <<mode, halt, live, stale>>
    BY DEF Return, RunIsUser, User, ghost
  <1>2. Precise' => LiveType'
    BY <1>1 DEF StateInv, LiveType, Precise, Running
  <1>3. ASSUME Precise'
        PROVE  FramesOK(stack', Top', csp') /\ SearchOK' /\ LiveOK' /\ Sorted(live')
    <2>1. Precise
      BY <1>1, <1>3 DEF Precise, Running
    <2>2. /\ Top \in Nat /\ IsStack(stack) /\ Formed(stack, Top) /\ Formed(stack, Top - 1)
          /\ Run = stack[Top] /\ Own(Run) /\ Down(stack, Top) /\ Buried(stack, Top - 1)
          /\ Sorted(live) /\ Top = Len(stack)
      BY <2>1, StateFacts DEF Top
    <2> DEFINE m == Top - 1
    <2>3. m \in Nat /\ m > 0 /\ m \in 1 .. m /\ m <= Top /\ m \in 0 .. Len(stack)
      BY <1>1, <2>2
    <2>4. PICK st2 : st2 = stack'
      OBVIOUS
    <2>5. Len(st2) = m /\ \A p \in 1 .. m : st2[p] = stack[p]
      <3>1. st2 = SubSeq(stack, 1, m)
        BY <2>2, <2>4 DEF Return, Front
      <3> QED BY <2>2, <2>3, <3>1, CutFrames
    <2>6. Top' = m /\ Formed(st2, m) /\ Run' = st2[m]
      BY <2>4, <2>5, FormedNext
    <2>7. Twins(stack, st2, m) /\ st2[m] = stack[m] /\ Buried(st2, m)
      <3>1. Twins(stack, st2, m)
        BY <2>5, SameTwins
      <3> QED BY <2>2, <2>3, <2>5, <3>1, BuriedTwins
    <2>8. st2[m].k \in User \/ (st2[m].k = "raise" /\ st2[m].phase \in {"build", "filter"})
            \/ (st2[m].k = "unw" /\ st2[m].phase = "states")
      BY <1>1, <2>2, <2>7 DEF Down, DownFn, DownSeh
    <2> HIDE DEF m
    <2>9. BuriedOK(st2, m) /\ PlaceOK(st2, m)
      BY <2>3, <2>7 DEF Buried, BuriedOK
    <2>10. ASSUME st2[m].k = "unw"
           PROVE  st2[m].scope \in Nat /\ ArrivedOK(st2, m, st2[m].state) /\ st2[m].phase = "states"
      <3>1. /\ st2[m].phase = "states" /\ st2[m].scope = st2[m].state + 2
            /\ ArrivedOK(st2, m, st2[m].state)
        BY <2>9, <2>10 DEF BuriedOK
      <3>2. st2[st2[m].at].k \in Scoped
        BY <2>3, <2>6, <2>10, <3>1, UnwPlaces
      <3>3. st2[m].state + 2 \in Nat
        BY <2>3, <2>6, <2>10, <3>1, <3>2, ArrivedState
      <3> QED BY <3>1, <3>3
    <2>11. UnwOK(st2, m, csp')
      BY <2>10 DEF UnwOK
    <2>12. Buried(st2, m - 1)
      BY <2>3, <2>7 DEF Buried
    <2>13. FramesOK(stack', Top', csp')
      BY <2>4, <2>6, <2>9, <2>11, <2>12 DEF FramesOK
    <2>14. SearchOK'
      BY <2>4, <2>6, <2>8 DEF SearchOK, User
    <2>15. Range(live) = Objs(stack, m, stack[m].ip)
      <3>1. Range(live) = Objs(stack, Top, Run.ip)
        BY <1>1, <2>1, ProgramState
      <3>2. Top > 0 /\ Run.k # "ccb" /\ Run.k # "unw"
        BY <1>1, <2>2
      <3>3. CASE Run.k = "seh"
        <4>1. Objs(stack, Top, Run.ip) = Objs(stack, m, stack[m].ip)
          BY <2>2, <3>2, <3>3, ObjsDown DEF m, Scoped
        <4> QED BY <3>1, <4>1
      <3>4. CASE Run.k = "fn"
        <4>1. Objs(stack, Top, Run.ip) =
                  Objects(Run.f, EstOf(stack, Top), Run.ip) \cup Objs(stack, m, stack[m].ip)
          BY <2>2, <3>2, <3>4, ObjsDown DEF m, Scoped
        <4>2. Run.ip = EH_EMPTY_STATE /\ Run.f \in DOMAIN Prog
          BY <2>2, <3>4 DEF Return, Own, OwnFn
        <4>3. Objects(Run.f, EstOf(stack, Top), Run.ip) = {}
          BY <4>2, ObjectsEmpty
        <4> QED BY <3>1, <4>1, <4>3
      <3> QED BY <1>1, <3>3, <3>4
    <2>16. Range(live) = Objs(st2, m, st2[m].ip)
      <3>1. Objs(st2, m, stack[m].ip) = Objs(stack, m, stack[m].ip)
        BY <2>3, <2>7, TwinsObjs
      <3> QED BY <2>7, <2>15, <3>1
    <2>17. View(st2, m, csp') = Range(live)
      <3>1. CASE st2[m].k # "unw"
        BY <2>16, <3>1 DEF View, ViewState
      <3>2. CASE st2[m].k = "unw"
        <4>1. Objs(st2, m, st2[m].ip) = Objs(st2, st2[m].at, st2[m].state)
          BY <2>3, <2>6, <3>2, ObjsUnw
        <4> QED BY <2>10, <2>16, <3>2, <4>1 DEF View, ViewState
      <3> QED BY <3>1, <3>2
    <2>18. LiveOK'
      BY <1>1, <2>4, <2>6, <2>17 DEF LiveOK
    <2> QED BY <1>1, <2>2, <2>13, <2>14, <2>18
  <1> QED BY <1>2, <1>3, StateIf

-----------------------------------------------------------------------------
(* The search *)

(* A frame without objects of its own. *)
LEMMA ObjsAnyState ==
    ASSUME NEW st, NEW n, st[n].k \notin Scoped, NEW x, NEW y
    PROVE  Objs(st, n, x) = Objs(st, n, y)
  <1>1. \A p \in ScopedIn(st, n) : p # n
    BY DEF ScopedIn
  <1>2. ASSUME NEW o PROVE o \in Objs(st, n, x) <=> o \in Objs(st, n, y)
    <2> DEFINE own(p, s) == o \in Objects(st[p].f, EstOf(st, p), s)
    <2>1. o \in Objs(st, n, x) <=> \E p \in ScopedIn(st, n) : own(p, IF p = n THEN x ELSE Cur(st, n, p))
      BY ObjsAre
    <2>2. o \in Objs(st, n, y) <=> \E p \in ScopedIn(st, n) : own(p, IF p = n THEN y ELSE Cur(st, n, p))
      BY ObjsAre
    <2> HIDE DEF own
    <2> QED BY <1>1, <2>1, <2>2
  <1> QED BY <1>2

(* Another frame without objects, and the same frames below. *)
IsRaise(fr) == fr.k = "raise"

LEMMA RaiseObjs ==
    ASSUME NEW st, NEW st2, NEW n, Formed(st, n), Formed(st2, n), n > 1, Twins(st, st2, n - 1),
           IsRaise(st[n]), IsRaise(st2[n]), NEW x, NEW y
    PROVE  Objs(st2, n, y) = Objs(st, n, x)
  <1>1. /\ n \in Nat /\ n - 1 \in Nat /\ n - 1 \in 1 .. n - 1 /\ n > 0
        /\ st[n].k = "raise" /\ st2[n].k = "raise"
    BY DEF Formed, IsRaise
  <1>2. Objs(st, n, x) = Objs(st, n - 1, st[n - 1].ip)
    BY <1>1, ObjsDown DEF Scoped
  <1>3. Objs(st2, n, y) = Objs(st2, n - 1, st2[n - 1].ip)
    BY <1>1, ObjsDown DEF Scoped
  <1>4. Objs(st2, n - 1, st[n - 1].ip) = Objs(st, n - 1, st[n - 1].ip)
    BY <1>1, TwinsObjs
  <1>5. Objs(st2, n - 1, st2[n - 1].ip) = Objs(st2, n - 1, st[n - 1].ip)
    <2>1. CASE st[n - 1].k = "ccb"
      <3>1. st2[n - 1].k \notin Scoped
        BY <1>1, <2>1, TwinFrames DEF Scoped
      <3> QED BY <3>1, ObjsAnyState
    <2>2. CASE st[n - 1].k # "ccb"
      BY <1>1, <2>2, TwinFrames
    <2> QED BY <2>1, <2>2
  <1> QED BY <1>2, <1>3, <1>4, <1>5

LEMMA RaiseCovers ==
    ASSUME NEW st, NEW st2, NEW n, Formed(st, n), Formed(st2, n), n > 1, Twins(st, st2, n - 1),
           IsRaise(st[n]), IsRaise(st2[n]), NEW p
    PROVE  /\ Covers(st2, n, p) = Covers(st, n, p)
           /\ p \in 1 .. n - 1 /\ st[p].k \in Scoped => Cur(st2, n, p) = Cur(st, n, p)
  <1>1. /\ n \in Nat /\ n - 1 \in Nat /\ n > 0 /\ st[n].k = "raise" /\ st2[n].k = "raise"
    BY DEF Formed, IsRaise
  <1>2. /\ Covers(st, n, p) = Covers(st, n - 1, p)
        /\ Covers(st2, n, p) = Covers(st2, n - 1, p)
        /\ Covers(st2, n - 1, p) = Covers(st, n - 1, p)
    BY <1>1, CoversPlain, TwinsCur
  <1>3. ASSUME p \in 1 .. n - 1, st[p].k \in Scoped
        PROVE  Cur(st2, n, p) = Cur(st, n, p)
    <2>1. st2[p] = st[p]
      BY <1>1, <1>3, TwinFrames DEF Scoped
    <2>2. CASE p = n - 1
      <3>1. Cur(st, n, n - 1) = st[n - 1].ip /\ Cur(st2, n, n - 1) = st2[n - 1].ip
        BY <1>1, CurNext
      <3> QED BY <2>1, <2>2, <3>1
    <2>3. CASE p # n - 1
      <3>1. p \in 1 .. n - 2
        BY <1>1, <1>3, <2>3
      <3>2. Cur(st, n, p) = Cur(st, n - 1, p) /\ Cur(st2, n, p) = Cur(st2, n - 1, p)
        BY <1>1, <3>1, CurPlain
      <3> QED BY <1>1, <1>3, <3>2, TwinsCur
    <2> QED BY <2>2, <2>3
  <1> QED BY <1>2, <1>3

(* The dispatcher and what it knows. *)
LEMMA RaiseSees ==
    ASSUME EhInv, StateInv, Precise, Run.k = "raise"
    PROVE  /\ Top \in Nat /\ Top > 1 /\ Run = stack[Top] /\ IsRaise(stack[Top]) /\ Formed(stack, Top)
           /\ Run.at \in Nat /\ Run.at < Top /\ Respects(stack, Top, Run.at)
           /\ Run.at > 0 => Run.at \in 1 .. Top - 1 /\ Own(stack[Run.at])
           /\ Run.again \in BOOLEAN /\ (~Run.again => Run.scope = 0)
           /\ Run.again => Run.at > 0 /\ stack[Run.at].k \in Scoped
           /\ Range(live) = Objs(stack, Top, 0)
  <1>1. /\ Top \in Nat /\ Run = stack[Top] /\ Formed(stack, Top) /\ LiveOK
    BY StateFacts
  <1>2. /\ Top > 1 /\ Run.at \in 0 .. Top - 1 /\ Respects(stack, Top, Run.at)
        /\ Run.again \in BOOLEAN /\ (~Run.again => Run.scope = 0)
        /\ Run.again => Run.at > 0 /\ stack[Run.at].k \in {"fn", "catch"}
    BY RaiseFacts DEF EhInv
  <1>3. Run.at > 0 => Run.at \in 1 .. Top - 1 /\ Own(stack[Run.at])
    BY <1>1, <1>2 DEF Formed
  <1>4. Range(live) = Objs(stack, Top, 0)
    <2>1. Range(live) = Objs(stack, Top, stack[Top].ip)
      BY <1>1 DEF LiveOK, LeavesObjects, View, ViewState
    <2>2. stack[Top].k \notin Scoped
      BY <1>1 DEF Scoped
    <2> QED BY <2>1, <2>2, ObjsAnyState
  <1> QED BY <1>1, <1>2, <1>3, <1>4 DEF Scoped, IsRaise

(* The frame below one that is not an unwind and that the search has reached. *)
LEMMA NextUncovered ==
    ASSUME NEW st, NEW n, Formed(st, n), n > 0, IsRaise(st[n]), NEW a \in 1 .. n - 1,
           Respects(st, n, a), st[a].k # "unw"
    PROVE  Covers(st, n, a - 1) = {}
  <1> SUFFICES ASSUME NEW u \in Covers(st, n, a - 1) PROVE FALSE
    OBVIOUS
  <1>1. u \in 1 .. n /\ st[u].k = "unw" /\ st[u].at = a - 1 /\ n \in Nat
    BY DEF Covers, Formed
  <1>2. a - 1 < u /\ u # a /\ u # n
    BY <1>1, UnwAt DEF IsRaise
  <1>3. a < u /\ u \in 1 .. n - 1
    BY <1>1, <1>2
  <1> QED BY <1>1, <1>3 DEF Respects

(* The search goes on with the next frame. *)
LEMMA SearchGoesDown ==
    ASSUME EhInv, EhInv', StateInv, Precise, Run.k = "raise", Run.at > 0, stack[Run.at].k # "unw",
           NEW s, IsStack(s), Len(s) = Top, Twins(stack, s, Top - 1),
           NEW r, IsRaise(r), r.phase = "scan", r.again = FALSE, stack' = [s EXCEPT ![Top] = r],
           \/ r.at = Run.at /\ Skipped(r.rec)' /\ stack[Run.at].k # "ccb"
           \/ /\ r.at = Run.at - 1
              /\ \/ csp' = INVALID_STATE /\ stack[Run.at].k # "ccb"
                 \/ /\ csp' # INVALID_STATE /\ stack[Run.at].k = "ccb"
                    /\ csp' = Try(stack[Run.at - 1].f, stack[Run.at].try).catchHigh,
           live' = live
    PROVE  FramesOK(stack', Top', csp') /\ SearchOK' /\ LiveOK' /\ Sorted(live')
  <1>1. /\ Top \in Nat /\ Top > 1 /\ IsRaise(stack[Top]) /\ Formed(stack, Top) /\ Sorted(live)
        /\ Run.at \in 1 .. Top - 1 /\ Respects(stack, Top, Run.at)
        /\ Range(live) = Objs(stack, Top, 0)
    BY RaiseSees, StateFacts
  <1>2. PICK st2 : st2 = stack'
    OBVIOUS
  <1>3. /\ Top' = Top /\ Run' = r /\ st2[Top] = r /\ Formed(st2, Top) /\ Buried(st2, Top - 1)
        /\ Twins(stack, st2, Top - 1)
    BY <1>2, MoveTop, Zenon
  <1>4. r.k = "raise"
    BY DEF IsRaise
  <1>5. FramesOK(st2, Top, csp')
    BY <1>3, <1>4 DEF FramesOK, PlaceOK, GroupOK, BuildOK, AwaitOK, UnwOK
  <1>6. LiveOK'
    <2>1. Objs(st2, Top, r.ip) = Objs(stack, Top, 0)
      BY <1>1, <1>3, RaiseObjs
    <2>2. View(st2, Top, csp') = Objs(st2, Top, r.ip)
      BY <1>3, <1>4 DEF View, ViewState
    <2> QED BY <1>1, <1>2, <1>3, <2>1, <2>2 DEF LiveOK
  <1>7. ASSUME r.at = Run.at - 1, r.at > 0, st2[r.at].k \in Scoped
        PROVE  Told(st2, Top, r.at, csp')
    <2>1. Covers(st2, Top, r.at) = {}
      <3>1. Covers(stack, Top, Run.at - 1) = {}
        BY <1>1, NextUncovered
      <3> QED BY <1>1, <1>3, <1>7, <3>1, RaiseCovers
    <2>2. PICK a : a = r.at
      OBVIOUS
    <2>3. a \in 1 .. Top - 1 /\ a + 1 \in 1 .. Top - 1 /\ a + 1 = Run.at /\ a = Run.at - 1
      BY <1>1, <1>7, <2>2
    <2>4. st2[a] = stack[a]
      <3>1. Top - 1 \in Nat /\ Twins(stack, st2, Top - 1) /\ st2[a].k \in Scoped
        BY <1>1, <1>3, <1>7, <2>2
      <3>2. st2[a].k = stack[a].k /\ (stack[a].k # "ccb" => st2[a] = stack[a])
        BY <2>3, <3>1, TwinFrames
      <3> QED BY <3>1, <3>2 DEF Scoped
    <2>5. st2[a + 1].k = stack[a + 1].k /\ (stack[a + 1].k = "ccb" => st2[a + 1].try = stack[a + 1].try)
      BY <1>1, <1>3, <2>3, TwinFrames
    <2>6. \/ csp' = INVALID_STATE /\ st2[a + 1].k # "ccb"
          \/ /\ csp' # INVALID_STATE /\ st2[a + 1].k = "ccb"
             /\ csp' = Try(st2[a].f, st2[a + 1].try).catchHigh
      BY <1>1, <1>7, <2>3, <2>4, <2>5
    <2> QED BY <2>1, <2>2, <2>6 DEF Told
  <1>8. SearchOK'
    <2>1. ~(r.at > 0 /\ st2[r.at].k = "ccb" /\ r.at = Top - 1)
      <3>1. r.at = Run.at - 1 => r.at # Top - 1
        BY <1>1
      <3>2. r.at = Run.at => st2[r.at].k = stack[Run.at].k
        BY <1>1, <1>3, TwinFrames
      <3> QED BY <3>1, <3>2
    <2>2. r.at > 0 /\ st2[r.at].k \in Scoped => Told(st2, Top, r.at, csp') \/ Skipped(r.rec)'
      BY <1>7
    <2> QED BY <1>2, <1>3, <2>1, <2>2 DEF SearchOK
  <1> QED BY <1>1, <1>2, <1>3, <1>5, <1>6, <1>8

(* The search ends, and the unwind begins at the dispatcher. *)
LEMMA UnwindBegins ==
    ASSUME EhInv, EhInv', StateInv, Precise, Run.k = "raise", Run.at > 0,
           NEW s, IsStack(s), Len(s) = Top, Twins(stack, s, Top - 1),
           NEW r, s[Top] = r, IsRaise(r), r.phase = "scan",
           NEW rec, NEW hit, NEW want, stack' = Append(s, Unw(rec, Top, Run.at, hit, want)),
           hit # NoHit => /\ stack[Run.at].k \in Scoped
                          /\ InTry(Try(stack[Run.at].f, hit.try), Cur(stack, Top, Run.at)),
           stack[Run.at].k = "ccb" => rec = Rethrown,
           live' = live
    PROVE  FramesOK(stack', Top', csp') /\ SearchOK' /\ LiveOK' /\ Sorted(live')
  <1>1. /\ Top \in Nat /\ Top > 1 /\ IsRaise(stack[Top]) /\ Formed(stack, Top) /\ Sorted(live)
        /\ Run.at \in 1 .. Top - 1 /\ Range(live) = Objs(stack, Top, 0) /\ Top - 1 \in Nat
    BY RaiseSees, StateFacts
  <1>2. PICK u : u = Unw(rec, Top, Run.at, hit, want)
    OBVIOUS
  <1>3. /\ u.k = "unw" /\ u.rec = rec /\ u.at = Top /\ u.target = Run.at /\ u.scope = 0
        /\ u.phase = "scan" /\ u.hit = hit
    BY <1>2 DEF Unw
  <1>4. PICK st2 : st2 = stack'
    OBVIOUS
  <1>5. stack' = Append(s, u)
    BY <1>2
  <1>6. /\ Top' = Top + 1 /\ Run' = u /\ st2[Top] = r /\ st2[Top + 1] = u
        /\ Formed(st2, Top) /\ Formed(st2, Top + 1) /\ Buried(st2, Top - 1)
        /\ Twins(stack, st2, Top - 1)
    BY <1>4, <1>5, PushOn
  <1>7. r.k = "raise" /\ IsRaise(st2[Top])
    BY <1>6 DEF IsRaise
  <1>8. /\ Formed(stack, Top) /\ Formed(st2, Top) /\ Twins(stack, st2, Top - 1)
        /\ IsRaise(stack[Top]) /\ IsRaise(st2[Top]) /\ Top > 1
    BY <1>1, <1>6, <1>7
  <1>9. Buried(st2, Top)
    <2>1. BuriedOK(st2, Top)
      BY <1>6, <1>7 DEF BuriedOK, PlaceOK, GroupOK, BuildOK, AwaitOK
    <2> QED BY <1>1, <1>6, <2>1, BuriedMore
  <1>10. AwaitOK(st2, Top + 1)
    <2>1. st2[Run.at].k = stack[Run.at].k
      BY <1>1, <1>6, TwinFrames
    <2>2. ASSUME hit # NoHit PROVE HitIn(st2, u, Cur(st2, Top, Run.at))
      <3>1. stack[Run.at].k \in Scoped /\ stack[Run.at].k # "ccb"
        BY <2>2 DEF Scoped
      <3>2. st2[Run.at] = stack[Run.at]
        BY <1>1, <1>6, <3>1, TwinFrames
      <3>3. Cur(st2, Top, Run.at) = Cur(stack, Top, Run.at)
        <4>1. Run.at \in 1 .. Top - 1
          BY <1>1
        <4> QED BY <1>8, <3>1, <4>1, RaiseCovers
      <3> QED BY <1>3, <2>2, <3>2, <3>3 DEF HitIn
    <2> QED BY <1>3, <1>6, <2>1, <2>2 DEF AwaitOK
  <1>11. UnwOK(st2, Top + 1, csp')
    BY <1>3, <1>6, <1>7 DEF UnwOK, Scoped
  <1>12. FramesOK(st2, Top + 1, csp')
    <2>1. (Top + 1) - 1 = Top
      BY <1>1
    <2>2. PlaceOK(st2, Top + 1)
      BY <1>3, <1>6, <1>10 DEF PlaceOK, GroupOK, BuildOK
    <2> QED BY <1>9, <1>11, <2>1, <2>2 DEF FramesOK
  <1>13. SearchOK'
    BY <1>3, <1>6 DEF SearchOK
  <1>14. LiveOK'
    <2>1. PICK x : View(st2, Top + 1, csp') = Objs(st2, Top, x)
      BY <1>3, <1>6 DEF View
    <2>2. Objs(st2, Top, x) = Objs(stack, Top, 0)
      BY <1>8, RaiseObjs
    <2> QED BY <1>1, <1>4, <1>6, <2>1, <2>2 DEF LiveOK
  <1> QED BY <1>1, <1>4, <1>6, <1>12, <1>13, <1>14

(* The dispatcher, or the handler it has called, calls code of the program. *)
LEMMA AuxBegins ==
    ASSUME EhInv, EhInv', StateInv, Precise, Run.k = "raise",
           NEW s, IsStack(s), Len(s) = Top, Twins(stack, s, Top - 1),
           NEW r, s[Top] = r, IsRaise(r),
           r.phase = "build" => /\ r.at \in 1 .. Top - 1 /\ stack[r.at].k \in Scoped
                                /\ InTry(Try(stack[r.at].f, r.hit.try), Cur(stack, Top, r.at)),
           stack' = Append(s, Fn("aux")), live' = live
    PROVE  FramesOK(stack', Top', csp') /\ SearchOK' /\ LiveOK' /\ Sorted(live')
  <1>1. /\ Top \in Nat /\ Top > 1 /\ IsRaise(stack[Top]) /\ Formed(stack, Top) /\ Sorted(live)
        /\ Range(live) = Objs(stack, Top, 0) /\ Top - 1 \in Nat
    BY RaiseSees, StateFacts
  <1>2. PICK fr : fr = Fn("aux")
    OBVIOUS
  <1>3. fr.k = "fn" /\ fr.f = "aux" /\ fr.ip = EH_EMPTY_STATE
    BY <1>2 DEF Fn
  <1>4. PICK st2 : st2 = stack'
    OBVIOUS
  <1>5. stack' = Append(s, fr)
    BY <1>2
  <1>6. /\ Top' = Top + 1 /\ Run' = fr /\ st2[Top] = r /\ st2[Top + 1] = fr
        /\ Formed(st2, Top) /\ Formed(st2, Top + 1) /\ Buried(st2, Top - 1)
        /\ Twins(stack, st2, Top - 1)
    BY <1>4, <1>5, PushOn
  <1>7. r.k = "raise" /\ IsRaise(st2[Top])
    BY <1>6 DEF IsRaise
  <1>8. /\ Formed(stack, Top) /\ Formed(st2, Top) /\ Twins(stack, st2, Top - 1)
        /\ IsRaise(stack[Top]) /\ IsRaise(st2[Top]) /\ Top > 1
    BY <1>1, <1>6, <1>7
  <1>9. BuildOK(st2, Top)
    <2> SUFFICES ASSUME r.phase = "build"
                 PROVE  InTry(Try(st2[r.at].f, r.hit.try), Cur(st2, Top, r.at))
      BY <1>6 DEF BuildOK
    <2>1. st2[r.at] = stack[r.at]
      BY <1>1, <1>6, TwinFrames DEF Scoped
    <2>2. Cur(st2, Top, r.at) = Cur(stack, Top, r.at)
      BY <1>8, RaiseCovers
    <2> QED BY <2>1, <2>2
  <1>10. Buried(st2, Top)
    <2>1. BuriedOK(st2, Top)
      BY <1>6, <1>7, <1>9 DEF BuriedOK, PlaceOK, GroupOK, AwaitOK
    <2> QED BY <1>1, <1>6, <2>1, BuriedMore
  <1>11. (Top + 1) - 1 = Top
    BY <1>1
  <1>12. FramesOK(st2, Top + 1, csp')
    <2>1. PlaceOK(st2, Top + 1) /\ UnwOK(st2, Top + 1, csp')
      BY <1>3, <1>6, UserPlace
    <2> QED BY <1>10, <1>11, <2>1 DEF FramesOK
  <1>13. Range(live) = Objs(st2, Top + 1, fr.ip)
    <2>1. Objs(st2, Top, st2[Top].ip) = Objs(stack, Top, 0)
      BY <1>8, RaiseObjs
    <2>2. /\ st2[Top + 1].k \in Scoped /\ st2[Top + 1].k # "unw" /\ st2[Top + 1].k # "ccb"
          /\ st2[Top + 1].f = fr.f /\ Formed(st2, Top + 1) /\ Top + 1 > 0
      BY <1>1, <1>3, <1>6 DEF Scoped
    <2>3. Objs(st2, Top + 1, fr.ip) =
              Objects(fr.f, EstOf(st2, Top + 1), fr.ip) \cup Objs(st2, Top, st2[Top].ip)
      BY <1>11, <2>2, ObjsDown
    <2>4. Objects(fr.f, EstOf(st2, Top + 1), fr.ip) = {}
      BY <1>3, EhAssumption, ObjectsEmpty
    <2> QED BY <1>1, <2>1, <2>3, <2>4, Zenon
  <1>14. SearchOK' /\ LiveOK'
    BY <1>3, <1>4, <1>6, <1>13, ProgramRuns DEF User
  <1> QED BY <1>1, <1>4, <1>6, <1>12, <1>14

(* A try block that goes on in the catch block of another one has that one's try block
   inside. *)
LEMMA NestedTries ==
    ASSUME NEW f \in DOMAIN Prog, NEW i \in DOMAIN Tries(f), NEW j \in DOMAIN Tries(f),
           InTry(Try(f, i), Try(f, j).catchHigh)
    PROVE  InTry(Try(f, i), Try(f, j).low)
  <1>1. /\ Try(f, i).low \in Nat /\ Try(f, i).high \in Nat /\ Try(f, i).catchHigh \in Nat
        /\ Try(f, i).low <= Try(f, i).high /\ Try(f, i).high < Try(f, i).catchHigh
    BY TryStates
  <1>2. /\ Try(f, j).low \in Nat /\ Try(f, j).high \in Nat /\ Try(f, j).catchHigh \in Nat
        /\ Try(f, j).low <= Try(f, j).high /\ Try(f, j).high < Try(f, j).catchHigh
    BY TryStates
  <1>3. i # j
    BY <1>1 DEF InTry
  <1>4. Nested(Try(f, i), Try(f, j))
    BY <1>3, TablesAssumption DEF TryBlockMapOK
  <1> QED BY <1>1, <1>2, <1>4 DEF Nested, Inside, InTry

(* The state a search starts from lies in a try block only if the frame does. *)
LEMMA SearchedState ==
    ASSUME EhInv, StateInv, Precise, Run.k = "raise", Run.phase = "scan", Run.at > 0,
           stack[Run.at].k \in Scoped, ~Skipped(Run.rec),
           NEW i \in DOMAIN Tries(stack[Run.at].f),
           InTry(Try(stack[Run.at].f, i), SearchState(Run.at, Run.scope))
    PROVE  InTry(Try(stack[Run.at].f, i), Cur(stack, Top, Run.at))
  <1>1. /\ Top \in Nat /\ Top > 1 /\ Run = stack[Top] /\ IsRaise(stack[Top]) /\ Formed(stack, Top)
        /\ Run.at \in 1 .. Top - 1 /\ Own(stack[Run.at]) /\ Run.again \in BOOLEAN
        /\ ~Run.again => Run.scope = 0
    BY RaiseSees
  <1>2. SearchState(Run.at, Run.scope) = From(stack, Run.at, Run.scope, csp)
    BY DEF SearchState, From, Precise
  <1>3. SearchOK
    BY StateFacts
  <1>4. CASE Run.again
    <2>1. Run.scope = Cur(stack, Top, Run.at) + 2 /\ Run.scope # 0
          /\ Covers(stack, Top, Run.at) # {}
      BY <1>3, <1>4 DEF SearchOK
    <2>2. PICK u : u \in Covers(stack, Top, Run.at)
      BY <2>1
    <2>3. Cur(stack, Top, Run.at) \in Int
      <3>1. u \in 1 .. Top /\ stack[u].k = "unw" /\ stack[u].at = Run.at /\ u # Top
        BY <1>1, <2>2 DEF Covers, IsRaise
      <3>2. u \in 1 .. Top - 1 /\ Buried(stack, Top - 1)
        BY <1>1, <3>1, StateFacts
      <3>3. ArrivedOK(stack, u, stack[u].state)
        BY <3>1, <3>2 DEF Buried, BuriedOK
      <3>4. stack[u].state \in Int
        BY <1>1, <3>1, <3>3, ArrivedState
      <3> QED BY <1>1, <2>2, <3>4, CoversOne
    <2>4. Run.scope - 2 = Cur(stack, Top, Run.at)
      BY <2>1, <2>3
    <2> QED BY <1>2, <2>1, <2>4 DEF From
  <1>5. CASE ~Run.again
    <2>1. Told(stack, Top, Run.at, csp) /\ Run.scope = 0
      BY <1>1, <1>3, <1>5 DEF SearchOK
    <2>2. Covers(stack, Top, Run.at) = {}
      BY <2>1 DEF Told
    <2>3. CASE csp = INVALID_STATE /\ stack[Run.at + 1].k # "ccb"
      <3>1. Cur(stack, Top, Run.at) = stack[Run.at].ip
        BY <2>2, <2>3, CoversNone
      <3> QED BY <1>2, <2>1, <2>3, <3>1 DEF From
    <2>4. CASE /\ csp # INVALID_STATE /\ stack[Run.at + 1].k = "ccb"
               /\ csp = Try(stack[Run.at].f, stack[Run.at + 1].try).catchHigh
      <3>1. Run.at < Top /\ Run.at + 1 \in 1 .. Top /\ (Run.at + 1) - 1 = Run.at
        BY <1>1
      <3>2. Cur(stack, Top, Run.at) = LowOf(stack, Run.at + 1)
        BY <2>2, <2>4, <3>1, CoversNone
      <3>3. /\ stack[Run.at].f \in DOMAIN Prog
            /\ stack[Run.at + 1].try \in DOMAIN Tries(stack[Run.at].f)
            /\ LowOf(stack, Run.at + 1) = Try(stack[Run.at].f, stack[Run.at + 1].try).low
        BY <1>1, <2>4, <3>1, CcbGroup
      <3>4. InTry(Try(stack[Run.at].f, i), Try(stack[Run.at].f, stack[Run.at + 1].try).catchHigh)
        BY <1>2, <2>1, <2>4 DEF From
      <3> QED BY <3>2, <3>3, <3>4, NestedTries
    <2> QED BY <2>1, <2>3, <2>4 DEF Told
  <1> QED BY <1>1, <1>4, <1>5

LEMMA RaiseChange ==
    ASSUME EhInv, StateInv, Precise, NEW r, NEW s, s = [stack EXCEPT ![Top] = r]
    PROVE  IsStack(s) /\ Len(s) = Top /\ s[Top] = r /\ Twins(stack, s, Top - 1)
  <1>1. Top \in 1 .. Len(stack) /\ Top = Len(stack) /\ IsStack(stack) /\ Top \in Nat
    BY StateFacts DEF Top
  <1>2. IsStack(s) /\ Len(s) = Top /\ s[Top] = r /\ \A p \in 1 .. Top : p # Top => s[p] = stack[p]
    <2>1. Changed(stack, s, Top, r)
      BY <1>1, ChangeFrameTo, Zenon
    <2> QED BY <1>1, <2>1 DEF Changed
  <1>3. \A p \in 1 .. Top - 1 : s[p] = stack[p]
    BY <1>1, <1>2
  <1> QED BY <1>2, <1>3, SameTwins, Zenon

LEMMA SearchCxxState ==
    ASSUME EhInv, EhInv', StateInv, SearchCxx
    PROVE  StateInv'
  <1>1. /\ Run.k = "raise" /\ Run.phase = "scan" /\ Run.at > 0 /\ stack[Run.at].k \in Scoped
        /\ Running /\ csp' = INVALID_STATE /\ UNCHANGED <<mode, rethr, live>>
        /\ stale' = IF RunsAgain THEN stale \cup {Run.rec} ELSE stale
    BY DEF SearchCxx, RunIs, Scoped
  <1>2. Precise' => LiveType'
    BY <1>1 DEF StateInv, LiveType, Precise, Running
  <1>3. ASSUME Precise'
        PROVE  FramesOK(stack', Top', csp') /\ SearchOK' /\ LiveOK' /\ Sorted(live')
    <2>1. Precise /\ Running' /\ ~RunsAgain
      BY <1>1, <1>3 DEF Precise
    <2>2. /\ Top \in Nat /\ Top > 1 /\ Run = stack[Top] /\ Run.at \in 1 .. Top - 1 /\ Own(Run)
          /\ Own(stack[Run.at]) /\ IsStack(stack) /\ Run.again \in BOOLEAN /\ DOMAIN stack = 1 .. Top
      BY <1>1, <2>1, RaiseSees, StateFacts
    <2>3. PICK p : p = Run.at
      OBVIOUS
    <2>4. Remembered(p) = stack
      BY <2>1 DEF Remembered, Precise
    <2>5. PICK rec : rec = Meant(Run.rec)
      OBVIOUS
    <2>6. PICK hit : hit = HandlerFor(p, Run.scope, rec)
      OBVIOUS
    <2>7. PICK r : r = NextFrame(Run)
      OBVIOUS
    <2>8. /\ IsRaise(r) /\ r.phase = "scan" /\ r.again = FALSE /\ r.rec = Run.rec
          /\ Run.again => r.at = Run.at
          /\ ~Run.again => r.at = Run.at - 1
      <3>1. /\ r.k = "raise" /\ r.phase = "scan" /\ ~r.again /\ r.again \in BOOLEAN
            /\ Run.again => r.at = Run.at
            /\ ~Run.again => r.at = Run.at - 1
        BY <1>1, <2>2, <2>7, NextFrameOf DEF Own, OwnRaise
      <3>2. r.rec = Run.rec
        BY <1>1, <2>2, <2>7 DEF NextFrame, Own, OwnRaise, RaiseFields
      <3> QED BY <3>1, <3>2 DEF IsRaise
    <2>9. ASSUME stack' = [stack EXCEPT ![Top] = r]
          PROVE  FramesOK(stack', Top', csp') /\ SearchOK' /\ LiveOK' /\ Sorted(live')
      <3>1. Twins(stack, stack, Top - 1) /\ Len(stack) = Top
        BY TwinsItself DEF Top
      <3>2. stack[Run.at].k # "unw" /\ stack[Run.at].k # "ccb"
        BY <1>1 DEF Scoped
      <3>3. Len(stack') = Top
        BY <2>2, <2>9
      <3>4. Run.again => Skipped(Run.rec)
        BY <2>1, <3>3 DEF RunsAgain, Precise
      <3>5. Run.again => Skipped(r.rec)'
        BY <1>1, <2>8, <3>4 DEF Skipped
      <3>6. (r.at = Run.at /\ Skipped(r.rec)') \/ r.at = Run.at - 1
        BY <2>2, <2>8, <3>5
      <3> QED BY <1>1, <2>1, <2>2, <2>8, <2>9, <3>1, <3>2, <3>6, SearchGoesDown, Zenon
    <2>10. ASSUME hit # NoHit, ~Skipped(Run.rec)
           PROVE  InTry(Try(stack[Run.at].f, hit.try), Cur(stack, Top, Run.at))
      <3>1. stack[Run.at].f \in DOMAIN Prog
        BY <1>1, <2>2 DEF Own, OwnFn, OwnCatch, Scoped
      <3>2. hit.try \in TryRange(stack[Run.at].f, stack[Run.at].ip, SearchState(Run.at, Run.scope))
        BY <2>3, <2>6, <2>10, <3>1, HandlerForOK
      <3>3. /\ hit.try \in DOMAIN Tries(stack[Run.at].f)
            /\ InTry(Try(stack[Run.at].f, hit.try), SearchState(Run.at, Run.scope))
        BY <3>2 DEF TryRange
      <3> QED BY <1>1, <2>1, <2>10, <3>3, SearchedState
    <2>11. ASSUME hit # NoHit, ~Skipped(Run.rec), stack' = StartUnwind(stack, rec, p, hit)
           PROVE  FramesOK(stack', Top', csp') /\ SearchOK' /\ LiveOK' /\ Sorted(live')
      <3>1. stack' = Append(stack, Unw(rec, Top, Run.at, hit, Run.want))
        BY <2>3, <2>11 DEF StartUnwind
      <3>2. Twins(stack, stack, Top - 1) /\ Len(stack) = Top /\ IsRaise(Run)
        BY <1>1, TwinsItself DEF Top, IsRaise
      <3>3. stack[Run.at].k # "ccb"
        BY <1>1 DEF Scoped
      <3> QED BY <1>1, <2>1, <2>2, <2>10, <2>11, <3>1, <3>2, <3>3, UnwindBegins
    <2>12. ASSUME hit # NoHit, ~Skipped(Run.rec),
                  stack' = Append([stack EXCEPT ![Top].phase = "build", ![Top].hit = hit], Fn("aux"))
           PROVE  FramesOK(stack', Top', csp') /\ SearchOK' /\ LiveOK' /\ Sorted(live')
      <3>1. PICK b : b = [Run EXCEPT !.phase = "build", !.hit = hit]
        OBVIOUS
      <3>2. DOMAIN Run = RaiseFields
        BY <1>1, <2>2 DEF Own, OwnRaise
      <3>3. b.k = "raise" /\ b.at = Run.at /\ b.hit = hit /\ IsRaise(b)
        BY <1>1, <3>1, <3>2 DEF RaiseFields, IsRaise
      <3>4. PICK s : s = [stack EXCEPT ![Top] = b]
        BY Zenon
      <3>5. s = [stack EXCEPT ![Top].phase = "build", ![Top].hit = hit]
        BY <2>2, <3>1, <3>2, <3>4, Zenon DEF RaiseFields
      <3>6. IsStack(s) /\ Len(s) = Top /\ s[Top] = b /\ Twins(stack, s, Top - 1)
        BY <2>1, <3>4, RaiseChange, Zenon
      <3>7. stack' = Append(s, Fn("aux"))
        BY <2>12, <3>5, Zenon
      <3>8. /\ b.at \in 1 .. Top - 1 /\ stack[b.at].k \in Scoped
            /\ InTry(Try(stack[b.at].f, b.hit.try), Cur(stack, Top, b.at))
        BY <1>1, <2>2, <2>10, <2>12, <3>3
      <3> QED BY <1>1, <2>1, <3>3, <3>6, <3>7, <3>8, AuxBegins
    <2>13. \/ stack' = [stack EXCEPT ![Top] = r]
           \/ FindHandler /\ ~Skipped(Run.rec)
      BY <2>7, Zenon DEF SearchCxx
    <2>14. FindHandler =>
             \/ stack' = [stack EXCEPT ![Top] = r]
             \/ hit # NoHit /\ stack' = StartUnwind(stack, rec, p, hit)
             \/ /\ hit # NoHit
                /\ stack' = Append([stack EXCEPT ![Top].phase = "build", ![Top].hit = hit], Fn("aux"))
             \/ halt' = "terminate"
      BY <2>3, <2>4, <2>5, <2>6, <2>7, Zenon DEF FindHandler
    <2>15. halt' # "terminate"
      BY <2>1 DEF Running
    <2> QED BY <2>9, <2>11, <2>12, <2>13, <2>14, <2>15
  <1> QED BY <1>2, <1>3, StateIf

LEMMA CatchObjectBuiltState ==
    ASSUME EhInv, EhInv', StateInv, CatchObjectBuilt
    PROVE  StateInv'
  <1>1. Run.k = "raise" /\ Run.phase = "build" /\ UNCHANGED <<mode, halt, stale, live>>
    BY DEF CatchObjectBuilt, RunIs, ghost
  <1>2. Precise' => LiveType'
    BY <1>1 DEF StateInv, LiveType, Precise, Running
  <1>3. ASSUME Precise'
        PROVE  FramesOK(stack', Top', csp') /\ SearchOK' /\ LiveOK' /\ Sorted(live')
    <2>1. Precise
      BY <1>1, <1>3 DEF Precise, Running
    <2>2. Own(Run) /\ Run = stack[Top] /\ PlaceOK(stack, Top) /\ DownRaise(stack, Top)
      BY <2>1, StateFacts DEF Down
    <2>3. /\ Run.at > 0 /\ stack[Run.at].k \in Scoped
          /\ InTry(Try(stack[Run.at].f, Run.hit.try), Cur(stack, Top, Run.at))
      BY <1>1, <2>2 DEF PlaceOK, BuildOK, DownRaise, Accepts, Scoped
    <2>4. PICK r : r = Rephased(Run, "scan")
      OBVIOUS
    <2>5. IsRaise(r) /\ r.phase = "scan"
      BY <1>1, <2>2, <2>4, PhaseChange DEF IsRaise
    <2>6. PICK s : s = [stack EXCEPT ![Top] = r]
      BY Zenon
    <2>7. IsStack(s) /\ Len(s) = Top /\ s[Top] = r /\ Twins(stack, s, Top - 1)
      BY <2>1, <2>6, RaiseChange, Zenon
    <2>8. PICK rec : rec = Meant(Run.rec)
      OBVIOUS
    <2>9. stack' = Append(s, Unw(rec, Top, Run.at, Run.hit, Run.want))
      <3>1. s = [stack EXCEPT ![Top].phase = "scan"]
        BY <2>2, <2>4, <2>6 DEF Rephased
      <3> QED BY <2>8, <3>1, Zenon DEF CatchObjectBuilt, StartUnwind
    <2>10. stack[Run.at].k # "ccb"
      BY <2>3 DEF Scoped
    <2> QED BY <1>1, <2>1, <2>3, <2>5, <2>7, <2>9, <2>10, UnwindBegins
  <1> QED BY <1>2, <1>3, StateIf

(* The next frame after one that is no frame of code of the program. *)
LEMMA NextRaise ==
    ASSUME EhInv, StateInv, Precise, Run.k = "raise", Run.at > 0, stack[Run.at].k \notin Scoped,
           NEW r, r = NextFrame(Run)
    PROVE  /\ IsRaise(r) /\ Own(r) /\ r.again = FALSE /\ r.at = Run.at - 1 /\ r.phase = Run.phase
           /\ Run.again = FALSE
  <1>1. ~Run.again /\ Own(Run) /\ Run.again \in BOOLEAN
    BY RaiseSees, StateFacts
  <1>2. /\ Own(r) /\ r.k = "raise" /\ ~r.again /\ r.at = Run.at - 1 /\ r.phase = Run.phase
    BY <1>1, NextFrameOf
  <1>3. r.again \in BOOLEAN
    BY <1>2 DEF Own, OwnRaise
  <1> QED BY <1>1, <1>2, <1>3 DEF IsRaise

LEMMA SearchSehState ==
    ASSUME EhInv, EhInv', StateInv, SearchSeh
    PROVE  StateInv'
  <1>1. /\ Run.k = "raise" /\ Run.at > 0 /\ stack[Run.at].k = "seh"
        /\ Run.phase \in {"scan", "filter"}
        /\ UNCHANGED <<mode, halt, csp, stale, live>>
    BY DEF SearchSeh, RunIs, ghost, runtime
  <1>2. Precise' => LiveType'
    BY <1>1 DEF StateInv, LiveType, Precise, Running
  <1>3. ASSUME Precise'
        PROVE  FramesOK(stack', Top', csp') /\ SearchOK' /\ LiveOK' /\ Sorted(live')
    <2>1. Precise
      BY <1>1, <1>3 DEF Precise, Running
    <2>2. /\ Own(Run) /\ Run = stack[Top] /\ IsStack(stack) /\ Top = Len(stack)
          /\ Twins(stack, stack, Top - 1) /\ stack[Run.at].k \notin Scoped
          /\ stack[Run.at].k # "unw" /\ stack[Run.at].k # "ccb"
      BY <1>1, <2>1, StateFacts, TwinsItself DEF Top, Scoped
    <2>3. csp' = INVALID_STATE
      BY <1>1 DEF EhInv, ParentInv
    <2>4. PICK r : r = Rephased(NextFrame(Run), "scan")
      OBVIOUS
    <2>5. IsRaise(r) /\ r.phase = "scan" /\ r.again = FALSE /\ r.at = Run.at - 1
      <3>1. PICK n : n = NextFrame(Run)
        OBVIOUS
      <3>2. IsRaise(n) /\ Own(n) /\ n.again = FALSE /\ n.at = Run.at - 1
        BY <1>1, <2>1, <2>2, <3>1, NextRaise, Zenon
      <3> QED BY <2>4, <3>1, <3>2, PhaseChange DEF IsRaise
    <2>6. ASSUME stack' = [stack EXCEPT ![Top] = r]
          PROVE  FramesOK(stack', Top', csp') /\ SearchOK' /\ LiveOK' /\ Sorted(live')
      BY <1>1, <2>1, <2>2, <2>3, <2>5, <2>6, SearchGoesDown, Zenon
    <2>7. ASSUME NEW ph \in {"scan", "filter"}
          PROVE  /\ Own(Rephased(Run, ph)) /\ IsRaise(Rephased(Run, ph))
                 /\ Rephased(Run, ph).phase = ph
                 /\ [stack EXCEPT ![Top].phase = ph] = [stack EXCEPT ![Top] = Rephased(Run, ph)]
      <3>1. [stack EXCEPT ![Top].phase = ph] = [stack EXCEPT ![Top] = Rephased(Run, ph)]
        BY <2>2 DEF Rephased
      <3> QED BY <1>1, <2>2, <3>1, PhaseChange DEF IsRaise
    <2>8. ASSUME stack' = StartUnwind([stack EXCEPT ![Top].phase = "scan"], Foreign, Run.at, NoHit)
          PROVE  FramesOK(stack', Top', csp') /\ SearchOK' /\ LiveOK' /\ Sorted(live')
      <3>1. PICK q, s : q = Rephased(Run, "scan") /\ s = [stack EXCEPT ![Top] = q]
        BY Zenon
      <3>2. IsRaise(q) /\ q.phase = "scan"
        BY <2>7, <3>1
      <3>3. IsStack(s) /\ Len(s) = Top /\ s[Top] = q /\ Twins(stack, s, Top - 1)
        BY <2>1, <3>1, RaiseChange, Zenon
      <3>4. stack' = Append(s, Unw(Foreign, Top, Run.at, NoHit, Run.want))
        BY <2>7, <2>8, <3>1 DEF StartUnwind
      <3> QED BY <1>1, <2>1, <2>2, <3>2, <3>3, <3>4, UnwindBegins
    <2>9. ASSUME stack' = Append([stack EXCEPT ![Top].phase = "filter"], Fn("aux"))
          PROVE  FramesOK(stack', Top', csp') /\ SearchOK' /\ LiveOK' /\ Sorted(live')
      <3>1. PICK q, s : q = Rephased(Run, "filter") /\ s = [stack EXCEPT ![Top] = q]
        BY Zenon
      <3>2. IsRaise(q) /\ q.phase # "build"
        BY <2>7, <3>1
      <3>3. IsStack(s) /\ Len(s) = Top /\ s[Top] = q /\ Twins(stack, s, Top - 1)
        BY <2>1, <3>1, RaiseChange, Zenon
      <3>4. stack' = Append(s, Fn("aux"))
        BY <2>7, <2>9, <3>1
      <3> QED BY <1>1, <2>1, <3>2, <3>3, <3>4, AuxBegins
    <2>10. \/ stack' = [stack EXCEPT ![Top] = r]
           \/ stack' = StartUnwind([stack EXCEPT ![Top].phase = "scan"], Foreign, Run.at, NoHit)
           \/ stack' = Append([stack EXCEPT ![Top].phase = "filter"], Fn("aux"))
      BY <2>4, Zenon DEF SearchSeh, Rephased
    <2> QED BY <2>6, <2>8, <2>9, <2>10
  <1> QED BY <1>2, <1>3, StateIf

LEMMA SearchDispatcherState ==
    ASSUME EhInv, EhInv', StateInv, SearchDispatcher
    PROVE  StateInv'
  <1>1. /\ Run.k = "raise" /\ Run.phase = "scan" /\ Run.at > 0 /\ stack[Run.at].k = "raise"
        /\ UNCHANGED <<mode, halt, csp, stale, live>>
    BY DEF SearchDispatcher, RunIs, ghost, runtime
  <1>2. Precise' => LiveType'
    BY <1>1 DEF StateInv, LiveType, Precise, Running
  <1>3. ASSUME Precise'
        PROVE  FramesOK(stack', Top', csp') /\ SearchOK' /\ LiveOK' /\ Sorted(live')
    <2>1. Precise
      BY <1>1, <1>3 DEF Precise, Running
    <2>2. /\ Own(Run) /\ Run = stack[Top] /\ IsStack(stack) /\ Top = Len(stack) /\ stack[Top] = Run
          /\ Twins(stack, stack, Top - 1) /\ stack[Run.at].k \notin Scoped
          /\ stack[Run.at].k # "unw" /\ stack[Run.at].k # "ccb" /\ IsRaise(Run)
      BY <1>1, <2>1, StateFacts, TwinsItself DEF Top, Scoped, IsRaise
    <2>3. csp' = INVALID_STATE
      BY <1>1 DEF EhInv, ParentInv
    <2>4. CASE stack' = StartUnwind(stack, Run.rec, Run.at, NoHit)
      <3>1. stack' = Append(stack, Unw(Run.rec, Top, Run.at, NoHit, Run.want))
        BY <2>4 DEF StartUnwind
      <3> QED BY <1>1, <2>1, <2>2, <3>1, UnwindBegins
    <2>5. CASE stack' = [stack EXCEPT ![Top] = NextFrame(Run)]
      <3>1. PICK r : r = NextFrame(Run)
        OBVIOUS
      <3>2. IsRaise(r) /\ r.phase = "scan" /\ r.again = FALSE /\ r.at = Run.at - 1
        BY <1>1, <2>1, <2>2, <3>1, NextRaise, Zenon
      <3> QED BY <1>1, <2>1, <2>2, <2>3, <2>5, <3>1, <3>2, SearchGoesDown, Zenon
    <2> QED BY <2>4, <2>5 DEF SearchDispatcher
  <1> QED BY <1>2, <1>3, StateIf

LEMMA SearchCatchBlockState ==
    ASSUME EhInv, EhInv', StateInv, SearchCatchBlock
    PROVE  StateInv'
  <1>1. /\ Run.k = "raise" /\ Run.phase = "scan" /\ Run.at > 0 /\ stack[Run.at].k = "ccb"
        /\ UNCHANGED <<mode, halt, live>>
        /\ stale' = IF SeesIp THEN stale \cup {Run.rec} ELSE stale
    BY DEF SearchCatchBlock, RunIs
  <1>2. Precise' => LiveType'
    BY <1>1 DEF StateInv, LiveType, Precise, Running
  <1>3. ASSUME Precise'
        PROVE  FramesOK(stack', Top', csp') /\ SearchOK' /\ LiveOK' /\ Sorted(live')
    <2>1. Precise /\ ~SeesIp
      BY <1>1, <1>3 DEF Precise, Running
    <2>2. /\ Own(Run) /\ Run = stack[Top] /\ IsStack(stack) /\ Top = Len(stack) /\ Top \in Nat
          /\ stack[Top] = Run /\ Top \in 1 .. Len(stack) /\ DOMAIN stack = 1 .. Top
          /\ Twins(stack, stack, Top - 1) /\ stack[Run.at].k \notin Scoped
          /\ stack[Run.at].k # "unw" /\ IsRaise(Run) /\ mode.fh = 4
      BY <1>1, <2>1, StateFacts, TwinsItself DEF Top, Scoped, IsRaise
    <2>3. Run.at \in 1 .. Top - 1 /\ Own(stack[Run.at])
      BY <1>1, <2>1, RaiseSees
    <2>4. Try(stack[Run.at - 1].f, stack[Run.at].try).catchHigh # INVALID_STATE
      BY <1>1, <2>2, <2>3, BelowCatchBlock DEF EhInv
    <2>5. PICK r : r = NextFrame(Run)
      OBVIOUS
    <2>6. IsRaise(r) /\ r.phase = "scan" /\ r.again = FALSE /\ r.at = Run.at - 1
      BY <1>1, <2>1, <2>2, <2>5, NextRaise, Zenon
    <2>7. PICK p : p = Run.at
      OBVIOUS
    <2>8. ASSUME NEW s, IsStack(s), Len(s) = Top, Twins(stack, s, Top - 1),
                 stack' = [s EXCEPT ![Top] = r],
                 csp' = Try(stack[Run.at - 1].f, stack[Run.at].try).catchHigh
          PROVE  FramesOK(stack', Top', csp') /\ SearchOK' /\ LiveOK' /\ Sorted(live')
      BY <1>1, <2>1, <2>2, <2>4, <2>6, <2>8, SearchGoesDown, Zenon
    <2>9. CASE stack[p].phase = "except"
      <3>1. stack' = [stack EXCEPT ![Top] = r] /\ csp' = csp
        BY <2>5, <2>7, <2>9, Zenon DEF SearchCatchBlock
      <3>2. p = Top - 1
        BY <2>1, <2>2, <2>7, <2>9 DEF SeesIp
      <3>3. csp = Try(stack[Run.at - 1].f, stack[Run.at].try).catchHigh
        BY <1>1, <2>1, <2>7, <2>9, <3>2, StateFacts DEF SearchOK
      <3> QED BY <2>2, <2>8, <3>1, <3>3, Zenon
    <2>10. CASE stack[p].phase # "except"
      <3>1. PICK same \in BOOLEAN :
                /\ same = (Run.rec = Rethrown \/ (Run.rec = stack[p].rec /\ IsObject(stack[p].rec)))
        BY Zenon
      <3>2. PICK c : c = Rethrowing(stack[p], same)
        OBVIOUS
      <3>3. PICK s : s = [stack EXCEPT ![p] = c]
        BY Zenon
      <3>4. s = [stack EXCEPT ![p].rethrow = same]
        BY <2>2, <2>3, <2>7, <3>2, <3>3 DEF Rethrowing
      <3>5. c.k = "ccb" /\ c.try = stack[p].try
        <4>1. DOMAIN stack[p] = CcbFields
          BY <1>1, <2>3, <2>7 DEF Own, OwnCcb
        <4> QED BY <1>1, <2>7, <3>2, <4>1 DEF Rethrowing, CcbFields
      <3>6. IsStack(s) /\ Len(s) = Top /\ s[Top] = Run /\ Twins(stack, s, Top - 1)
        <4>1. p \in 1 .. Len(stack) /\ p # Top
          BY <2>2, <2>3, <2>7
        <4>2. /\ IsStack(s) /\ Len(s) = Top /\ s[p] = c
              /\ \A q \in 1 .. Top : q # p => s[q] = stack[q]
          <5>1. Changed(stack, s, p, c)
            BY <2>2, <3>3, <4>1, ChangeFrameTo, Zenon
          <5> QED BY <2>2, <5>1 DEF Changed
        <4>3. \A q \in 1 .. Top - 1 : Twin(stack[q], s[q])
          BY <1>1, <2>2, <2>7, <3>5, <4>2 DEF Twin
        <4>4. s[Top] = Run
          BY <2>2, <4>1, <4>2
        <4> QED BY <4>2, <4>3, <4>4 DEF Twins
      <3>7. \/ Run.rec = Rethrown /\ stack' = StartUnwind(s, Rethrown, p, NoHit)
            \/ /\ stack' = [s EXCEPT ![Top] = r]
               /\ csp' = IF mode.fh = 4 THEN Try(stack[p - 1].f, stack[p].try).catchHigh ELSE csp
        BY <2>5, <2>7, <2>10, <3>1, <3>4, Zenon DEF SearchCatchBlock
      <3>8. CASE stack' = StartUnwind(s, Rethrown, p, NoHit)
        <4>1. stack' = Append(s, Unw(Rethrown, Top, Run.at, NoHit, Run.want))
          BY <2>7, <3>8 DEF StartUnwind
        <4> QED BY <1>1, <2>1, <2>2, <3>6, <4>1, UnwindBegins
      <3>9. CASE /\ stack' = [s EXCEPT ![Top] = r]
                 /\ csp' = IF mode.fh = 4 THEN Try(stack[p - 1].f, stack[p].try).catchHigh ELSE csp
        BY <2>2, <2>7, <2>8, <3>6, <3>9, Zenon
      <3> QED BY <3>7, <3>8, <3>9
    <2> QED BY <2>9, <2>10
  <1> QED BY <1>2, <1>3, StateIf

LEMMA SearchUnwindState ==
    ASSUME EhInv, EhInv', StateInv, SearchUnwind
    PROVE  StateInv'
  <1>1. /\ Run.k = "raise" /\ Run.phase = "scan" /\ Run.at > 0 /\ stack[Run.at].k = "unw"
        /\ Running /\ UNCHANGED <<mode, stale, live>>
    BY DEF SearchUnwind, RunIs, Halted, ghost
  <1>2. Precise' => LiveType'
    BY <1>1 DEF StateInv, LiveType, Precise, Running
  <1>3. ASSUME Precise'
        PROVE  FramesOK(stack', Top', csp') /\ SearchOK' /\ LiveOK' /\ Sorted(live')
    <2>1. ~IsCxx(Run.rec) /\ UNCHANGED <<halt, csp>> /\ Precise
      BY <1>1, <1>3, Zenon DEF SearchUnwind, Halted, Precise, Running, runtime, RunIs
    <2>2. /\ Own(Run) /\ Run = stack[Top] /\ IsStack(stack) /\ Top = Len(stack) /\ Top \in Nat
          /\ Top > 1 /\ Formed(stack, Top) /\ IsRaise(stack[Top]) /\ Buried(stack, Top - 1)
          /\ Twins(stack, stack, Top - 1) /\ DOMAIN Run = RaiseFields /\ Sorted(live)
          /\ Run.at \in 1 .. Top - 1 /\ Respects(stack, Top, Run.at)
          /\ Range(live) = Objs(stack, Top, 0)
      BY <1>1, <2>1, StateFacts, RaiseSees, TwinsItself DEF Top, Own, OwnRaise
    <2>3. PICK a, u : a = Run.at /\ u = stack[a]
      OBVIOUS
    <2>4. PICK r : r = Collided(Run, u)
      OBVIOUS
    <2>5. /\ r.k = "raise" /\ r.phase = "scan" /\ r.at = u.at /\ r.scope = u.scope /\ r.again = TRUE
          /\ IsRaise(r)
      BY <1>1, <2>2, <2>4 DEF Collided, RaiseFields, IsRaise
    <2>6. stack' = [stack EXCEPT ![Top] = r]
      <3>1. stack' = [stack EXCEPT ![Top].at = stack[Run.at].at,
                                  ![Top].scope = stack[Run.at].scope, ![Top].again = TRUE]
        BY <2>1 DEF SearchUnwind
      <3> QED BY <2>2, <2>3, <2>4, <3>1, Zenon DEF Collided
    <2>7. /\ u.k = "unw" /\ u.at \in 1 .. a - 1 /\ stack[u.at].k \in Scoped
          /\ u.scope = u.state + 2 /\ ArrivedOK(stack, a, u.state) /\ a \in 1 .. Top
      <3>1. u.phase = "states" /\ u.at \in 1 .. a - 1 /\ stack[u.at].k \in {"fn", "catch"}
        BY <1>1, <2>2, <2>3, CoveredUnwind DEF EhInv
      <3>2. u.scope = u.state + 2 /\ ArrivedOK(stack, a, u.state)
        BY <1>1, <2>2, <2>3 DEF Buried, BuriedOK
      <3> QED BY <1>1, <2>2, <2>3, <3>1, <3>2, SMTT(30) DEF Scoped
    <2>8. u.state + 2 # 0
      BY <2>2, <2>3, <2>7, ArrivedState, Zenon
    <2>9. Covers(stack, Top, u.at) = {a} /\ Cur(stack, Top, u.at) = u.state
      <3>1. Seen(stack, Top, a)
        <4> SUFFICES ASSUME NEW q \in 1 .. Top, stack[q].k = "unw", stack[q].at < a, a < q
                     PROVE  FALSE
          BY DEF Seen
        <4>1. q \in 1 .. Top - 1
          BY <2>2 DEF IsRaise
        <4>2. stack[q].at \in Nat
          BY <2>2, UnwAt
        <4> QED BY <2>2, <2>3, <4>1, <4>2 DEF Respects
      <3>2. a \in Covers(stack, Top, u.at)
        BY <2>2, <2>3, <2>7, <3>1 DEF Covers
      <3> QED BY <2>2, <2>3, <3>2, CoversOne
    <2>10. PICK st2 : st2 = stack'
      OBVIOUS
    <2>11. /\ Top' = Top /\ Run' = r /\ st2[Top] = r /\ Formed(st2, Top) /\ Buried(st2, Top - 1)
           /\ Twins(stack, st2, Top - 1)
      BY <2>1, <2>2, <2>6, <2>10, MoveTop, Zenon
    <2>12. /\ Formed(stack, Top) /\ Formed(st2, Top) /\ Twins(stack, st2, Top - 1)
           /\ IsRaise(stack[Top]) /\ IsRaise(st2[Top]) /\ Top > 1
      BY <2>2, <2>5, <2>11
    <2>13. u.at \in 1 .. Top - 1
      BY <2>2, <2>3, <2>7
    <2>14. Covers(st2, Top, u.at) # {} /\ Cur(st2, Top, u.at) = u.state
      <3>1. Covers(st2, Top, u.at) = Covers(stack, Top, u.at)
        BY <2>12, RaiseCovers
      <3>2. Cur(st2, Top, u.at) = Cur(stack, Top, u.at)
        BY <2>7, <2>12, <2>13, RaiseCovers
      <3> QED BY <2>9, <3>1, <3>2
    <2>15. st2[u.at].k = stack[u.at].k
      <3>1. Top - 1 \in Nat
        BY <2>2
      <3> QED BY <2>11, <2>13, <3>1, TwinFrames
    <2>16. SearchOK'
      <3>1. st2[r.at].k # "ccb" /\ Covers(st2, Top, r.at) # {}
            /\ r.scope = Cur(st2, Top, r.at) + 2 /\ r.scope # 0
        BY <2>5, <2>7, <2>8, <2>14, <2>15 DEF Scoped
      <3> QED BY <2>5, <2>10, <2>11, <3>1 DEF SearchOK
    <2>17. FramesOK(st2, Top, csp')
      BY <2>5, <2>11 DEF FramesOK, PlaceOK, GroupOK, BuildOK, AwaitOK, UnwOK
    <2>18. LiveOK'
      <3>1. Objs(st2, Top, r.ip) = Objs(stack, Top, 0)
        BY <2>12, RaiseObjs
      <3>2. View(st2, Top, csp') = Objs(st2, Top, r.ip)
        BY <2>5, <2>11 DEF View, ViewState
      <3> QED BY <1>1, <2>2, <2>10, <2>11, <3>1, <3>2 DEF LiveOK
    <2> QED BY <1>1, <2>2, <2>10, <2>11, <2>16, <2>17, <2>18
  <1> QED BY <1>2, <1>3, StateIf

LEMMA SearchFailsState ==
    ASSUME EhInv, EhInv', StateInv, SearchFails
    PROVE  StateInv'
  <1>1. halt' # "no" /\ live' = live
    BY DEF SearchFails, Halted, ghost
  <1> QED BY <1>1, StateIf DEF StateInv, LiveType, Precise, Running

-----------------------------------------------------------------------------
(* The unwind *)

IsUnw(fr) == fr.k = "unw"

(* What the invariant asks of an unwind, said of a frame r that is to be put on stack st. *)
StateAt(st, r, c) == IF r.phase = "scan" THEN From(st, r.at, r.scope, c) ELSE r.state

ArrivesOK(st, r, s) ==
    /\ StateOK(st, r.at, s)
    /\ r.hit # NoHit /\ r.target = r.at => HitIn(st, r, s)

WaitsOK(st, r) ==
    r.hit # NoHit /\ r.target < r.at => HitIn(st, r, Cur(st, r.at, r.target))

Leaves(lv, r) ==
    /\ r.phase = "scan" /\ r.hit = NoHit /\ Skipped(r.rec)
    /\ stack[r.target].k = "seh" => Below(lv, r.target) = Objs(stack, r.target, EH_EMPTY_STATE)

SameUnwind(r, u) == r.rec = u.rec /\ r.target = u.target /\ r.hit = u.hit

LEMMA UnwStateFacts ==
    ASSUME EhInv, StateInv, Precise, Run.k = "unw"
    PROVE  /\ Top \in Nat /\ Top > 1 /\ Run = stack[Top] /\ Formed(stack, Top) /\ IsUnw(Run)
           /\ Run.at \in 1 .. Top - 1 /\ Run.target \in 1 .. Top - 1 /\ Run.target <= Run.at
           /\ Own(Run) /\ DOMAIN Run = UnwFields /\ Own(stack[Run.at]) /\ Formed(stack, Run.at)
           /\ Run.scope \in Nat /\ WaitsOK(stack, Run) /\ GroupOK(stack, Run.at)
           /\ stack[Run.target].k = "ccb" => Run.rec = Rethrown
           /\ Run.phase # "scan" \/ stack[Run.at].k \in Scoped =>
                  ArrivesOK(stack, Run, StateAt(stack, Run, csp))
           /\ \/ Range(live) = Objs(stack, Run.at, StateAt(stack, Run, csp))
              \/ Leaves(live, Run)
  <1>1. /\ Top \in Nat /\ Run = stack[Top] /\ Formed(stack, Top) /\ Own(Run)
        /\ PlaceOK(stack, Top) /\ UnwOK(stack, Top, csp) /\ LiveOK
        /\ \A p \in 1 .. Top : GroupOK(stack, p)
    BY StateFacts, Zenon
  <1>2. Top > 1 /\ Run.at \in 1 .. Top - 1 /\ Run.target \in 1 .. Top - 1 /\ Run.target \in 1 .. Run.at
    BY UnwFacts DEF EhInv
  <1>3. DOMAIN Run = UnwFields /\ Own(stack[Run.at]) /\ Formed(stack, Run.at) /\ Run.target <= Run.at
    BY <1>1, <1>2 DEF Own, OwnUnw, Formed
  <1>4. /\ WaitsOK(stack, Run)
        /\ stack[Run.target].k = "ccb" => Run.rec = Rethrown
    BY <1>1 DEF PlaceOK, AwaitOK, WaitsOK
  <1>5. /\ Run.scope \in Nat
        /\ Run.phase # "scan" \/ stack[Run.at].k \in Scoped =>
               ArrivesOK(stack, Run, StateAt(stack, Run, csp))
    BY <1>1 DEF UnwOK, ArrivedOK, ArrivesOK, StateAt
  <1>6. \/ Range(live) = Objs(stack, Run.at, StateAt(stack, Run, csp))
        \/ Leaves(live, Run)
    BY <1>1 DEF LiveOK, LeavesObjects, Leaves, View, ViewState, StateAt
  <1> QED BY <1>1, <1>2, <1>3, <1>4, <1>5, <1>6 DEF IsUnw

(* The unwind goes on in another place or state. *)
LEMMA UnwMoves ==
    ASSUME EhInv, EhInv', StateInv, Precise, Run.k = "unw",
           NEW r, IsUnw(r), SameUnwind(r, Run), stack' = [stack EXCEPT ![Top] = r],
           r.at \in 1 .. Top - 1, r.scope \in Nat, WaitsOK(stack, r),
           r.phase # "scan" \/ stack[r.at].k \in Scoped =>
               ArrivesOK(stack, r, StateAt(stack, r, csp')),
           r.phase = "land" => r.state = Try(stack[r.target].f, r.hit.try).low,
           \/ Range(live') = Objs(stack, r.at, StateAt(stack, r, csp'))
           \/ Leaves(live', r) /\ UNCHANGED <<mode, rethr>>,
           Sorted(live')
    PROVE  FramesOK(stack', Top', csp') /\ SearchOK' /\ LiveOK' /\ Sorted(live')
  <1>1. /\ Top \in Nat /\ Top > 1 /\ Run = stack[Top] /\ Formed(stack, Top) /\ r.target \in 1 .. Top - 1
        /\ stack[r.target].k = "ccb" => r.rec = Rethrown
    BY UnwStateFacts DEF SameUnwind
  <1>2. IsStack(stack) /\ Len(stack) = Top /\ Top \in 1 .. Len(stack) /\ Twins(stack, stack, Top - 1)
    BY StateFacts, TwinsItself DEF Top
  <1>3. PICK st2 : st2 = stack'
    OBVIOUS
  <1>4. /\ Top' = Top /\ Run' = r /\ st2[Top] = r /\ Formed(st2, Top) /\ Buried(st2, Top - 1)
    BY <1>2, <1>3, MoveTop, Zenon
  <1>5. \A p \in 1 .. Top - 1 : st2[p] = stack[p]
    <2>1. Changed(stack, st2, Top, r)
      BY <1>2, <1>3, ChangeFrameTo, Zenon
    <2> QED BY <1>1, <1>2, <2>1 DEF Changed
  <1>6. ASSUME NEW m \in 1 .. Top - 1
        PROVE  /\ \A x : Objs(st2, m, x) = Objs(stack, m, x)
               /\ \A q \in 1 .. m : stack[q].k \in Scoped => Cur(st2, m, q) = Cur(stack, m, q)
    <2>1. Twins(stack, st2, m) /\ m \in Nat
      BY <1>1, <1>5, SameTwins
    <2> QED BY <2>1, TwinsObjs, TwinsCur
  <1>7. st2[r.at] = stack[r.at] /\ st2[r.target] = stack[r.target]
    BY <1>1, <1>5
  <1>8. r.k = "unw"
    BY DEF IsUnw
  <1>9. AwaitOK(st2, Top)
    <2>1. ASSUME r.hit # NoHit, r.target < r.at PROVE HitIn(st2, r, Cur(st2, r.at, r.target))
      <3>1. stack[r.target].k \in Scoped
        <4>1. Top \in 1 .. Top /\ st2[Top].k = "unw"
          BY <1>1, <1>4, <1>8
        <4>2. st2[r.target].k \in Scoped
          BY <1>4, <2>1, <4>1, UnwPlaces
        <4> QED BY <1>7, <4>2
      <3>2. r.target \in 1 .. r.at
        BY <1>1, <2>1
      <3>3. Cur(st2, r.at, r.target) = Cur(stack, r.at, r.target)
        BY <1>6, <3>1, <3>2
      <3> QED BY <1>7, <2>1, <3>3 DEF WaitsOK, HitIn
    <2> QED BY <1>1, <1>4, <1>7, <2>1 DEF AwaitOK
  <1>10. StateAt(st2, r, csp') = StateAt(stack, r, csp')
    BY <1>7 DEF StateAt, From
  <1>11. UnwOK(st2, Top, csp')
    <2>1. ASSUME NEW s, ArrivesOK(stack, r, s) PROVE ArrivedOK(st2, Top, s)
      BY <1>4, <1>7, <2>1 DEF ArrivesOK, ArrivedOK, StateOK, OwnTry, HitIn
    <2>2. r.phase # "scan" \/ st2[r.at].k \in Scoped => ArrivedOK(st2, Top, StateAt(st2, r, csp'))
      BY <1>7, <1>10, <2>1
    <2> QED BY <1>4, <1>7, <2>2 DEF UnwOK, StateAt
  <1>12. FramesOK(st2, Top, csp')
    BY <1>4, <1>8, <1>9, <1>11 DEF FramesOK, PlaceOK, GroupOK, BuildOK
  <1>13. SearchOK'
    BY <1>4, <1>8 DEF SearchOK
  <1>14. LiveOK'
    <2>1. CASE Range(live') = Objs(stack, r.at, StateAt(stack, r, csp'))
      <3>1. View(st2, Top, csp') = Objs(st2, r.at, StateAt(st2, r, csp'))
        BY <1>4, <1>8 DEF View, ViewState, StateAt
      <3>2. View(st2, Top, csp') = Range(live')
        BY <1>6, <1>10, <2>1, <3>1
      <3> QED BY <1>3, <1>4, <3>2 DEF LiveOK
    <2>2. CASE Leaves(live', r) /\ UNCHANGED <<mode, rethr>>
      <3>1. Skipped(r.rec)'
        BY <2>2 DEF Skipped, Leaves
      <3>2. st2[r.target].k = "seh" =>
                Below(live', r.target) = Objs(st2, r.target, EH_EMPTY_STATE)
        BY <1>1, <1>6, <1>7, <2>2 DEF Leaves
      <3> QED BY <1>3, <1>4, <1>8, <2>2, <3>1, <3>2 DEF LiveOK, LeavesObjects, Leaves
    <2> QED BY <2>1, <2>2
  <1> QED BY <1>3, <1>4, <1>12, <1>13, <1>14

(* The state the next frame down is in. *)
Beneath(st, n) == IF st[n].k = "ccb" THEN LowOf(st, n) ELSE st[n - 1].ip

(* The unwind goes on with the next frame. *)
LEMMA UnwGoesDown ==
    ASSUME EhInv, EhInv', StateInv, Precise, Run.k = "unw", Run.at # Run.target,
           stack[Run.at].k # "unw",
           NEW r, IsUnw(r), SameUnwind(r, Run), stack' = [stack EXCEPT ![Top] = r],
           r.phase = "scan", r.at = Run.at - 1, r.scope = 0,
           csp' = IF stack[Run.at].k = "ccb" THEN LowOf(stack, Run.at) ELSE INVALID_STATE,
           live' = live,
           \/ Range(live) = Objs(stack, Run.at - 1, Beneath(stack, Run.at))
           \/ Leaves(live, r) /\ UNCHANGED <<mode, rethr>>
    PROVE  FramesOK(stack', Top', csp') /\ SearchOK' /\ LiveOK' /\ Sorted(live')
  <1>1. /\ Top \in Nat /\ Top > 1 /\ Formed(stack, Top) /\ Formed(stack, Run.at)
        /\ Run.at \in 1 .. Top - 1 /\ Run.target \in 1 .. Top - 1 /\ Run.target <= Run.at
        /\ WaitsOK(stack, Run) /\ Sorted(live)
    BY UnwStateFacts, StateFacts
  <1>2. PICK a : a = Run.at
    OBVIOUS
  <1>3. /\ a \in Nat /\ a > 1 /\ a - 1 \in 1 .. Top - 1 /\ a \in 1 .. Top /\ a - 1 \in Nat
        /\ Formed(stack, a) /\ stack[a].k # "unw"
    BY <1>1, <1>2
  <1>4. r.at = a - 1 /\ r.target = Run.target /\ r.hit = Run.hit /\ Run.at = a
    BY <1>2 DEF SameUnwind
  <1>5. StateAt(stack, r, csp') = Beneath(stack, a)
    <2>1. stack[a].k = "ccb" => LowOf(stack, a) # INVALID_STATE
      <3> HAVE stack[a].k = "ccb"
      <3>1. LowOf(stack, a) \in DOMAIN Prog[stack[a - 1].f].unwind /\ stack[a - 1].f \in DOMAIN Prog
        BY <1>1, <1>3, CcbGroup
      <3>2. LowOf(stack, a) \in Nat
        BY <3>1, StatesFacts
      <3> QED BY <3>2 DEF INVALID_STATE
    <2> QED BY <1>4, <2>1 DEF StateAt, From, Beneath
  <1>6. Cur(stack, a, a - 1) = Beneath(stack, a)
    BY <1>3, CurNext DEF Beneath
  <1>7. WaitsOK(stack, r)
    <2> SUFFICES ASSUME r.hit # NoHit, r.target < a - 1
                 PROVE  HitIn(stack, r, Cur(stack, a - 1, r.target))
      BY <1>4 DEF WaitsOK
    <2>1. HitIn(stack, Run, Cur(stack, a, r.target))
      BY <1>1, <1>3, <1>4 DEF WaitsOK
    <2>2. r.target \in 1 .. a - 2
      BY <1>1, <1>3, <1>4
    <2>3. Cur(stack, a, r.target) = Cur(stack, a - 1, r.target)
      BY <1>3, <2>2, CurPlain
    <2> QED BY <1>4, <2>1, <2>3 DEF HitIn
  <1>8. ASSUME stack[a - 1].k \in Scoped PROVE ArrivesOK(stack, r, Beneath(stack, a))
    <2>1. StateOK(stack, a - 1, Beneath(stack, a))
      <3>1. CASE stack[a].k = "ccb"
        <4>1. /\ LowOf(stack, a) \in DOMAIN Prog[stack[a - 1].f].unwind
              /\ stack[a - 1].k = "catch" => InCatch(OwnTry(stack, a - 1), LowOf(stack, a))
          BY <1>1, <1>3, <3>1, CcbGroup
        <4> QED BY <3>1, <4>1 DEF StateOK, StatesOf, Beneath
      <3>2. CASE stack[a].k # "ccb"
        <4>1. Own(stack[a - 1])
          BY <1>1, <1>3 DEF Formed
        <4> QED BY <1>8, <3>2, <4>1 DEF StateOK, StatesOf, Beneath, Own, OwnFn, OwnCatch, Scoped, OwnTry
      <3> QED BY <3>1, <3>2
    <2>2. ASSUME r.hit # NoHit, r.target = a - 1 PROVE HitIn(stack, r, Beneath(stack, a))
      <3>1. HitIn(stack, Run, Cur(stack, a, a - 1))
        BY <1>1, <1>3, <1>4, <2>2 DEF WaitsOK
      <3> QED BY <1>4, <1>6, <3>1 DEF HitIn
    <2> QED BY <1>4, <2>1, <2>2 DEF ArrivesOK
  <1>9. \/ Range(live') = Objs(stack, r.at, StateAt(stack, r, csp'))
        \/ Leaves(live', r) /\ UNCHANGED <<mode, rethr>>
    BY <1>4, <1>5
  <1>10. r.phase # "scan" \/ stack[r.at].k \in Scoped =>
             ArrivesOK(stack, r, StateAt(stack, r, csp'))
    BY <1>4, <1>5, <1>8
  <1>11. r.at \in 1 .. Top - 1 /\ r.scope \in Nat
    BY <1>3, <1>4
  <1> QED BY <1>1, <1>7, <1>9, <1>10, <1>11, UnwMoves, Zenon

(* What an unwind that has passed a frame without objects finds below. *)
LEMMA UnwPassed ==
    ASSUME EhInv, StateInv, Precise, Run.k = "unw", Run.phase = "scan", Run.at # Run.target,
           stack[Run.at].k \notin Scoped, stack[Run.at].k # "unw",
           NEW r, SameUnwind(r, Run), r.phase = "scan"
    PROVE  Range(live) = Objs(stack, Run.at - 1, Beneath(stack, Run.at)) \/ Leaves(live, r)
  <1>1. /\ \/ Range(live) = Objs(stack, Run.at, StateAt(stack, Run, csp))
           \/ Leaves(live, Run)
        /\ Formed(stack, Run.at) /\ Run.at \in 1 .. Top - 1 /\ Top \in Nat
    BY UnwStateFacts
  <1>2. CASE Leaves(live, Run)
    BY <1>2 DEF Leaves, SameUnwind
  <1>3. CASE Range(live) = Objs(stack, Run.at, StateAt(stack, Run, csp))
    <2>1. Run.at > 0
      BY <1>1
    <2>2. Objs(stack, Run.at, StateAt(stack, Run, csp)) = Objs(stack, Run.at - 1, Beneath(stack, Run.at))
      BY <1>1, <2>1, ObjsDown DEF Beneath
    <2> QED BY <1>3, <2>2
  <1> QED BY <1>1, <1>2, <1>3

LEMMA Next1Is ==
    ASSUME EhInv, Run.k = "unw", Run.phase = "scan"
    PROVE  /\ Next1(stack) = [stack EXCEPT ![Top] = UnwAs(Run, Run.at - 1, 0, Run.state, "scan")]
           /\ IsUnw(UnwAs(Run, Run.at - 1, 0, Run.state, "scan"))
           /\ SameUnwind(UnwAs(Run, Run.at - 1, 0, Run.state, "scan"), Run)
           /\ UnwAs(Run, Run.at - 1, 0, Run.state, "scan").phase = "scan"
           /\ UnwAs(Run, Run.at - 1, 0, Run.state, "scan").at = Run.at - 1
           /\ UnwAs(Run, Run.at - 1, 0, Run.state, "scan").scope = 0
  <1>1. DOMAIN Run = UnwFields /\ Run = stack[Top] /\ Top \in DOMAIN stack
    BY StackFacts DEF EhInv, Own, OwnUnw, Run
  <1>2. UnwAs(Run, Run.at - 1, 0, Run.state, "scan") = [Run EXCEPT !.at = Run.at - 1, !.scope = 0]
    BY <1>1, Zenon DEF UnwAs, UnwFields
  <1> DEFINE r == [Run EXCEPT !.at = Run.at - 1, !.scope = 0]
  <1>3. /\ r.k = "unw" /\ r.rec = Run.rec /\ r.target = Run.target /\ r.hit = Run.hit
        /\ r.phase = "scan" /\ r.at = Run.at - 1 /\ r.scope = 0
    BY <1>1 DEF UnwFields
  <1>4. Next1(stack) = [stack EXCEPT ![Top] = r]
    BY <1>1, Zenon DEF Next1
  <1> QED BY <1>2, <1>3, <1>4, Zenon DEF IsUnw, SameUnwind

LEMMA UnwindCatchBlockState ==
    ASSUME EhInv, EhInv', StateInv, UnwindCatchBlock
    PROVE  StateInv'
  <1>1. /\ Run.k = "unw" /\ Run.phase = "scan" /\ Run.at # Run.target /\ stack[Run.at].k = "ccb"
        /\ UNCHANGED <<mode, halt, rethr, stale, live>> /\ stack' = Next1(stack)
        /\ csp' = IF mode.fh = 4 THEN Try(stack[Run.at - 1].f, stack[Run.at].try).low ELSE csp
    BY DEF UnwindCatchBlock, RunIs
  <1>2. Precise' => LiveType'
    BY <1>1 DEF StateInv, LiveType, Precise, Running
  <1>3. ASSUME Precise'
        PROVE  FramesOK(stack', Top', csp') /\ SearchOK' /\ LiveOK' /\ Sorted(live')
    <2>1. Precise
      BY <1>1, <1>3 DEF Precise, Running
    <2>2. PICK r : r = UnwAs(Run, Run.at - 1, 0, Run.state, "scan")
      OBVIOUS
    <2>3. /\ stack' = [stack EXCEPT ![Top] = r] /\ IsUnw(r) /\ SameUnwind(r, Run)
          /\ r.phase = "scan" /\ r.at = Run.at - 1 /\ r.scope = 0
      BY <1>1, <2>2, Next1Is
    <2>4. csp' = LowOf(stack, Run.at)
      BY <1>1, <2>1 DEF LowOf, Precise
    <2>5. stack[Run.at].k \notin Scoped
      BY <1>1 DEF Scoped
    <2>6. Range(live) = Objs(stack, Run.at - 1, Beneath(stack, Run.at)) \/ Leaves(live, r)
      BY <1>1, <2>1, <2>3, <2>5, UnwPassed
    <2> QED BY <1>1, <2>1, <2>3, <2>4, <2>6, UnwGoesDown, Zenon
  <1> QED BY <1>2, <1>3, StateIf

LEMMA UnwindOtherState ==
    ASSUME EhInv, EhInv', StateInv, UnwindOther
    PROVE  StateInv'
  <1>1. /\ Run.k = "unw" /\ Run.phase = "scan" /\ Run.at # Run.target
        /\ stack[Run.at].k \in {"seh", "raise"}
        /\ UNCHANGED <<mode, halt, rethr, stale, live>> /\ stack' = Next1(stack)
    BY DEF UnwindOther, RunIs, ghost
  <1>2. Precise' => LiveType'
    BY <1>1 DEF StateInv, LiveType, Precise, Running
  <1>3. ASSUME Precise'
        PROVE  FramesOK(stack', Top', csp') /\ SearchOK' /\ LiveOK' /\ Sorted(live')
    <2>1. Precise
      BY <1>1, <1>3 DEF Precise, Running
    <2>2. PICK r : r = UnwAs(Run, Run.at - 1, 0, Run.state, "scan")
      OBVIOUS
    <2>3. /\ stack' = [stack EXCEPT ![Top] = r] /\ IsUnw(r) /\ SameUnwind(r, Run)
          /\ r.phase = "scan" /\ r.at = Run.at - 1 /\ r.scope = 0
      BY <1>1, <2>2, Next1Is
    <2>4. csp' = INVALID_STATE
      <3>1. csp = INVALID_STATE
        BY <1>1 DEF EhInv, ParentInv
      <3>2. csp' = csp \/ csp' = Invalidated
        BY DEF UnwindOther
      <3> QED BY <3>1, <3>2 DEF Invalidated
    <2>5. stack[Run.at].k \notin Scoped /\ stack[Run.at].k # "unw" /\ stack[Run.at].k # "ccb"
      BY <1>1 DEF Scoped
    <2>6. Range(live) = Objs(stack, Run.at - 1, Beneath(stack, Run.at)) \/ Leaves(live, r)
      BY <1>1, <2>1, <2>3, <2>5, UnwPassed
    <2> QED BY <1>1, <2>1, <2>3, <2>4, <2>5, <2>6, UnwGoesDown, Zenon
  <1> QED BY <1>2, <1>3, StateIf

(* An unwind that passes frames with its handlers silent has, at a __try/__except below,
   the objects of the frames down to it. *)
LEMMA LeavesBelow ==
    ASSUME EhInv, StateInv, Precise, Run.k = "unw", Run.hit = NoHit, Skipped(Run.rec),
           NEW x, Range(live) = Objs(stack, Run.at, x), stack[Run.target].k = "seh"
    PROVE  Below(live, Run.target) = Objs(stack, Run.target, EH_EMPTY_STATE)
  <1>1. /\ Top \in Nat /\ Formed(stack, Run.at) /\ Run.at \in 1 .. Top - 1
        /\ Run.target \in 1 .. Top - 1 /\ Run.target <= Run.at
    BY UnwStateFacts
  <1>2. Respects(stack, Top, Run.target) /\ \A p \in 1 .. Top : GroupOK(stack, p)
    BY UnwFacts, StateFacts DEF EhInv
  <1>3. \A p \in 1 .. Run.at : GroupOK(stack, p)
    BY <1>1, <1>2
  <1>4. Seen(stack, Run.at, Run.target)
    <2> SUFFICES ASSUME NEW q \in 1 .. Run.at, stack[q].k = "unw",
                        stack[q].at < Run.target, Run.target < q
                 PROVE  FALSE
      BY DEF Seen
    <2>1. q \in 1 .. Top - 1 /\ stack[q].at \in Nat
      BY <1>1, UnwAt
    <2> QED BY <1>1, <1>2, <2>1 DEF Respects
  <1>5. Run.target \in 1 .. Run.at
    BY <1>1
  <1>6. {o \in Objs(stack, Run.at, x) : o[1] <= Run.target} = Objs(stack, Run.target, EH_EMPTY_STATE)
    BY <1>1, <1>3, <1>4, <1>5, ObjsDivided
  <1> QED BY <1>6 DEF Below

(* A function or catch block that has been unwound has no objects left that the frames
   below it have not. *)
LEMMA NothingLeft ==
    ASSUME NEW st, NEW n, Formed(st, n), n > 1, st[n].k \in Scoped, GroupOK(st, n),
           NEW s, s = EH_EMPTY_STATE \/ (st[n].k = "catch" /\ s = Outside(st[n].f, st[n].try))
    PROVE  Objs(st, n, s) = Objs(st, n - 1, Beneath(st, n))
  <1>1. /\ n \in Nat /\ n \in 1 .. n /\ st[n].f \in DOMAIN Prog /\ st[n].k # "unw" /\ st[n].k # "ccb"
    BY DEF Formed, Own, OwnFn, OwnCatch, Scoped
  <1>2. Objs(st, n, s) = Objects(st[n].f, EstOf(st, n), s) \cup Objs(st, n - 1, Beneath(st, n))
    BY <1>1, ObjsDown DEF Beneath
  <1>3. CASE s = EH_EMPTY_STATE
    <2>1. Objects(st[n].f, EstOf(st, n), s) = {}
      BY <1>1, <1>3, ObjectsEmpty
    <2> QED BY <1>2, <2>1
  <1>4. CASE st[n].k = "catch" /\ s = Outside(st[n].f, st[n].try)
    <2>1. /\ n > 2 /\ n - 1 \in 1 .. n /\ n - 2 \in 1 .. n
          /\ st[n - 1].k = "ccb" /\ st[n - 1].try = st[n].try
          /\ st[n - 2].k \in Scoped /\ st[n - 2].f = st[n].f
          /\ st[n].try \in DOMAIN Tries(st[n].f)
      BY <1>1, <1>4, CatchGroup
    <2>2. EstOf(st, n - 2) = EstOf(st, n)
      BY <1>4 DEF GroupOK, EstOf
    <2>3. LowOf(st, n - 1) = Try(st[n].f, st[n].try).low
      <3>1. (n - 1) - 1 = n - 2
        BY <1>1
      <3> QED BY <2>1, <3>1 DEF LowOf
    <2>4. Objects(st[n].f, EstOf(st, n), s) = Objects(st[n].f, EstOf(st, n), LowOf(st, n - 1))
      BY <1>1, <1>4, <2>1, <2>3, ObjectsOfTry
    <2>5. Objs(st, n - 1, Beneath(st, n)) = Objs(st, n - 2, LowOf(st, n - 1))
      <3>1. Formed(st, n - 1) /\ n - 1 > 0 /\ (n - 1) - 1 = n - 2
        BY <1>1, <2>1, FormedLess
      <3> QED BY <2>1, <3>1, ObjsDown DEF Scoped
    <2>6. Objects(st[n].f, EstOf(st, n), LowOf(st, n - 1)) \subseteq Objs(st, n - 2, LowOf(st, n - 1))
      <3>1. Formed(st, n - 2) /\ n - 2 > 0 /\ st[n - 2].k # "unw"
        BY <1>1, <2>1, FormedLess DEF Scoped
      <3> QED BY <2>1, <2>2, <3>1, ObjsDown
    <2> QED BY <1>2, <2>4, <2>5, <2>6
  <1> QED BY <1>3, <1>4

LEMMA UnwindCxxState ==
    ASSUME EhInv, EhInv', StateInv, UnwindCxx
    PROVE  StateInv'
  <1>1. /\ Run.k = "unw" /\ Run.phase = "scan" /\ stack[Run.at].k \in Scoped
        /\ UNCHANGED <<mode, halt, rethr, stale, live>> /\ csp' = INVALID_STATE
    BY DEF UnwindCxx, RunIs, ghost, Scoped
  <1>2. Precise' => LiveType'
    BY <1>1 DEF StateInv, LiveType, Precise, Running
  <1>3. ASSUME Precise'
        PROVE  FramesOK(stack', Top', csp') /\ SearchOK' /\ LiveOK' /\ Sorted(live')
    <2>1. Precise
      BY <1>1, <1>3 DEF Precise, Running
    <2>2. /\ Top \in Nat /\ Top > 1 /\ Formed(stack, Run.at) /\ IsUnw(Run) /\ Run = stack[Top]
          /\ Run.at \in 1 .. Top - 1 /\ DOMAIN Run = UnwFields /\ Run.scope \in Nat
          /\ Run.target <= Run.at /\ Run.target \in 1 .. Top - 1
          /\ WaitsOK(stack, Run) /\ GroupOK(stack, Run.at)
          /\ ArrivesOK(stack, Run, StateAt(stack, Run, csp))
          /\ \/ Range(live) = Objs(stack, Run.at, StateAt(stack, Run, csp))
             \/ Leaves(live, Run)
      BY <1>1, <2>1, UnwStateFacts
    <2>3. stack[Run.at].f \in DOMAIN Prog /\ Sorted(live) /\ IsStack(stack) /\ Top \in DOMAIN stack
      BY <1>1, <2>1, StateFacts, UnwindAtFunction DEF EhInv, Scoped
    <2>4. Run.at = Run.target => Run.hit # NoHit /\ Prog[stack[Run.at].f].unwind # <<>>
      BY <1>1, UnwindAtFunction DEF EhInv, Scoped
    <2>5. StateAt(stack, Run, csp) = From(stack, Run.at, Run.scope, csp)
      BY <1>1 DEF StateAt
    <2> DEFINE idle == (Skipped(Run.rec) /\ ~Consolidates(Run)) \/ Prog[stack[Run.at].f].unwind = <<>>
    <2>6. CASE idle
      <3>1. stack' = Next1(stack)
        BY <2>6 DEF UnwindCxx
      <3>2. PICK r : r = UnwAs(Run, Run.at - 1, 0, Run.state, "scan")
        OBVIOUS
      <3>3. /\ stack' = [stack EXCEPT ![Top] = r] /\ IsUnw(r) /\ SameUnwind(r, Run)
            /\ r.phase = "scan" /\ r.at = Run.at - 1 /\ r.scope = 0
        BY <1>1, <3>1, <3>2, Next1Is
      <3>4. Run.at # Run.target
        BY <2>4, <2>6 DEF Consolidates
      <3>5. Range(live) = Objs(stack, Run.at - 1, Beneath(stack, Run.at)) \/ Leaves(live, r)
        <4>1. CASE Leaves(live, Run)
          BY <3>3, <4>1 DEF Leaves, SameUnwind
        <4>2. CASE /\ Skipped(Run.rec) /\ ~Consolidates(Run)
                   /\ Range(live) = Objs(stack, Run.at, StateAt(stack, Run, csp))
          <5>1. stack[Run.target].k = "seh" =>
                    Below(live, Run.target) = Objs(stack, Run.target, EH_EMPTY_STATE)
            BY <1>1, <2>1, <4>2, LeavesBelow DEF Consolidates
          <5> QED BY <3>3, <4>2, <5>1 DEF Leaves, SameUnwind, Consolidates
        <4>3. CASE /\ Prog[stack[Run.at].f].unwind = <<>>
                   /\ Range(live) = Objs(stack, Run.at, StateAt(stack, Run, csp))
          <5>1. StateAt(stack, Run, csp) \in StatesOf(stack[Run.at].f)
            BY <2>2 DEF ArrivesOK, StateOK
          <5>2. StateAt(stack, Run, csp) = EH_EMPTY_STATE
            BY <4>3, <5>1 DEF StatesOf
          <5>3. Run.at > 1
            BY <2>2, <3>4
          <5>4. Objs(stack, Run.at, EH_EMPTY_STATE) = Objs(stack, Run.at - 1, Beneath(stack, Run.at))
            BY <1>1, <2>2, <5>3, NothingLeft
          <5> QED BY <4>3, <5>2, <5>4
        <4> QED BY <2>2, <2>6, <4>1, <4>2, <4>3
      <3>6. stack[Run.at].k # "unw" /\ stack[Run.at].k # "ccb"
        BY <1>1 DEF Scoped
      <3> QED BY <1>1, <2>1, <3>3, <3>4, <3>5, <3>6, UnwGoesDown, Zenon
    <2>7. CASE ~idle
      <3>1. PICK s : s = UnwindFrom(Run.at, Run.scope)
        OBVIOUS
      <3>2. s = StateAt(stack, Run, csp)
        BY <2>1, <2>5, <3>1 DEF UnwindFrom, SearchState, From, Precise
      <3>3. PICK r : r = [Run EXCEPT !.phase = "states", !.state = s]
        OBVIOUS
      <3>4. /\ r.k = "unw" /\ r.rec = Run.rec /\ r.target = Run.target /\ r.hit = Run.hit
            /\ r.phase = "states" /\ r.at = Run.at /\ r.scope = Run.scope /\ r.state = s
        BY <2>2, <3>3 DEF UnwFields, IsUnw
      <3>5. stack' = [stack EXCEPT ![Top] = r]
        <4>1. stack' = [stack EXCEPT ![Top].phase = "states",
                                    ![Top].state = UnwindFrom(Run.at, Run.scope)]
          BY <2>7, Zenon DEF UnwindCxx
        <4> QED BY <2>2, <2>3, <3>1, <3>3, <4>1, Zenon DEF UnwFields
      <3>6. IsUnw(r) /\ SameUnwind(r, Run) /\ StateAt(stack, r, csp') = s
        BY <3>4 DEF IsUnw, SameUnwind, StateAt
      <3>7. WaitsOK(stack, r) /\ ArrivesOK(stack, r, s)
        BY <2>2, <3>2, <3>4 DEF WaitsOK, ArrivesOK, HitIn
      <3>8. Range(live') = Objs(stack, r.at, StateAt(stack, r, csp'))
        <4>1. ~Leaves(live, Run)
          BY <2>7 DEF Leaves, Consolidates
        <4> QED BY <1>1, <2>2, <3>2, <3>4, <3>6, <4>1
      <3>9. r.phase # "land" /\ Sorted(live') /\ r.at \in 1 .. Top - 1 /\ r.scope \in Nat
        BY <1>1, <2>2, <2>3, <3>4
      <3> QED BY <1>1, <2>1, <3>5, <3>6, <3>7, <3>8, <3>9, UnwMoves, Zenon
    <2> QED BY <2>6, <2>7
  <1> QED BY <1>2, <1>3, StateIf

LEMMA FrameUnwoundState ==
    ASSUME EhInv, EhInv', StateInv, FrameUnwound
    PROVE  StateInv'
  <1>1. /\ Run.k = "unw" /\ Run.phase = "states"
        /\ Run.state = EH_EMPTY_STATE \/ Run.state <= UnwindTo(Run.at)
        /\ UNCHANGED <<mode, halt, rethr, stale, live>> /\ csp' = Invalidated
    BY DEF FrameUnwound, RunIs, ghost
  <1>2. Precise' => LiveType'
    BY <1>1 DEF StateInv, LiveType, Precise, Running
  <1>3. ASSUME Precise'
        PROVE  FramesOK(stack', Top', csp') /\ SearchOK' /\ LiveOK' /\ Sorted(live')
    <2>1. Precise /\ csp' = INVALID_STATE /\ mode.fh = 4
      BY <1>1, <1>3 DEF Precise, Running, Invalidated
    <2>2. /\ Top \in Nat /\ Top > 1 /\ Formed(stack, Run.at) /\ IsUnw(Run) /\ Run = stack[Top]
          /\ Run.at \in 1 .. Top - 1 /\ DOMAIN Run = UnwFields /\ Run.scope \in Nat
          /\ Run.target <= Run.at /\ Run.target \in 1 .. Top - 1
          /\ WaitsOK(stack, Run) /\ GroupOK(stack, Run.at)
          /\ ArrivesOK(stack, Run, StateAt(stack, Run, csp))
          /\ \/ Range(live) = Objs(stack, Run.at, StateAt(stack, Run, csp))
             \/ Leaves(live, Run)
      BY <1>1, <2>1, UnwStateFacts
    <2>3. StateAt(stack, Run, csp) = Run.state /\ Range(live) = Objs(stack, Run.at, Run.state)
      BY <1>1, <2>2 DEF StateAt, Leaves
    <2>4. /\ Top \in 1 .. Top /\ stack[Top].k = "unw" /\ Formed(stack, Top) /\ Sorted(live)
          /\ Top \in DOMAIN stack /\ stack[Top].phase = "states"
      BY <1>1, <2>1, <2>2, StateFacts
    <2>5. stack[Run.at].k \in Scoped
      BY <2>2, <2>4, UnwPlaces
    <2>6. stack[Run.at].f \in DOMAIN Prog /\ Run.at \in 1 .. Run.at
      BY <2>2, <2>5 DEF Formed, Own, OwnFn, OwnCatch, Scoped
    <2>7. Run.state \in StatesOf(stack[Run.at].f) /\ Run.state \in Int /\ Run.state >= EH_EMPTY_STATE
      BY <2>2, <2>3, <2>6, StatesFacts DEF ArrivesOK, StateOK
    <2>8. CASE Run.at = Run.target
      <3>1. PICK r : r = [Run EXCEPT !.phase = "land"]
        BY Zenon
      <3>2. /\ r.k = "unw" /\ r.rec = Run.rec /\ r.target = Run.target /\ r.hit = Run.hit
            /\ r.phase = "land" /\ r.at = Run.at /\ r.scope = Run.scope /\ r.state = Run.state
        BY <2>2, <3>1 DEF UnwFields, IsUnw
      <3>3. stack' = [stack EXCEPT ![Top] = r]
        <4>1. stack' = [stack EXCEPT ![Top].phase = "land"]
          BY <2>1, <2>8 DEF FrameUnwound
        <4> QED BY <2>2, <2>4, <3>1, <4>1
      <3>4. Run.hit # NoHit /\ Run.hit.try \in DOMAIN Tries(stack[Run.at].f)
        <4>1. Run.hit # NoHit
          BY <1>1, <2>5, <2>8, UnwindAtFunction DEF EhInv, Scoped
        <4> QED BY <2>2, <2>4, <2>8, <4>1, UnwPlaces
      <3>5. Run.state = Try(stack[Run.at].f, Run.hit.try).low
        <4>1. InTry(Try(stack[Run.at].f, Run.hit.try), Run.state)
          BY <2>2, <2>3, <2>8, <3>4 DEF ArrivesOK, HitIn
        <4>2. Try(stack[Run.at].f, Run.hit.try).low \in Nat
          BY <2>6, <3>4, TryStates
        <4>3. UnwindTo(Run.at) = Try(stack[Run.at].f, Run.hit.try).low
          BY <2>8 DEF UnwindTo
        <4> QED BY <1>1, <2>7, <4>1, <4>2, <4>3 DEF InTry, EH_EMPTY_STATE
      <3>6. IsUnw(r) /\ SameUnwind(r, Run) /\ StateAt(stack, r, csp') = Run.state
        BY <3>2 DEF IsUnw, SameUnwind, StateAt
      <3>7. WaitsOK(stack, r) /\ ArrivesOK(stack, r, Run.state)
        BY <2>2, <2>3, <3>2 DEF WaitsOK, ArrivesOK, HitIn
      <3>8. /\ Range(live') = Objs(stack, r.at, StateAt(stack, r, csp')) /\ Sorted(live')
            /\ r.at \in 1 .. Top - 1 /\ r.scope \in Nat
            /\ r.state = Try(stack[r.target].f, r.hit.try).low
        BY <1>1, <2>2, <2>3, <2>4, <2>8, <3>2, <3>5, <3>6
      <3> QED BY <1>1, <2>1, <3>3, <3>6, <3>7, <3>8, UnwMoves, Zenon
    <2>9. CASE Run.at # Run.target
      <3>1. PICK r : r = [Run EXCEPT !.phase = "scan", !.at = Run.at - 1, !.scope = 0]
        OBVIOUS
      <3>2. /\ r.k = "unw" /\ r.rec = Run.rec /\ r.target = Run.target /\ r.hit = Run.hit
            /\ r.phase = "scan" /\ r.at = Run.at - 1 /\ r.scope = 0
        BY <2>2, <3>1 DEF UnwFields, IsUnw
      <3>3. stack' = [stack EXCEPT ![Top] = r]
        <4>1. stack' = [Next1(stack) EXCEPT ![Top].phase = "scan"]
          BY <2>1, <2>9 DEF FrameUnwound
        <4> QED BY <2>2, <2>4, <3>1, <4>1, Zenon DEF Next1, UnwFields
      <3>4. IsUnw(r) /\ SameUnwind(r, Run)
        BY <3>2 DEF IsUnw, SameUnwind
      <3>5. Run.at > 1
        BY <2>2, <2>9
      <3>6. \/ Run.state = EH_EMPTY_STATE
            \/ stack[Run.at].k = "catch" /\ Run.state = Outside(stack[Run.at].f, stack[Run.at].try)
        <4>1. CASE stack[Run.at].k = "catch"
          <5>1. /\ OwnTry(stack, Run.at) = Try(stack[Run.at].f, stack[Run.at].try)
            BY DEF OwnTry
          <5>2. UnwindTo(Run.at) = OwnTry(stack, Run.at).high
            BY <2>9, <4>1, <5>1 DEF UnwindTo
          <5>3. \/ InCatch(OwnTry(stack, Run.at), Run.state)
                \/ Run.state = Outside(stack[Run.at].f, stack[Run.at].try)
            BY <2>2, <2>3, <4>1 DEF ArrivesOK, StateOK
          <5>4. OwnTry(stack, Run.at).high \in Nat
            <6>1. stack[Run.at].try \in DOMAIN Tries(stack[Run.at].f)
              BY <2>2, <2>6, <4>1, CatchGroup
            <6> QED BY <2>6, <5>1, <6>1, TryStates
          <5> QED BY <1>1, <2>7, <4>1, <5>2, <5>3, <5>4 DEF InCatch
        <4>2. CASE stack[Run.at].k # "catch"
          <5>1. UnwindTo(Run.at) = EH_EMPTY_STATE
            BY <2>9, <4>2 DEF UnwindTo
          <5> QED BY <1>1, <2>7, <5>1 DEF EH_EMPTY_STATE
        <4> QED BY <4>1, <4>2
      <3>7. Range(live) = Objs(stack, Run.at - 1, Beneath(stack, Run.at))
        BY <2>2, <2>3, <2>5, <3>5, <3>6, NothingLeft
      <3>8. stack[Run.at].k # "unw" /\ stack[Run.at].k # "ccb"
        BY <2>5 DEF Scoped
      <3> QED BY <1>1, <2>1, <2>9, <3>2, <3>3, <3>4, <3>7, <3>8, UnwGoesDown, Zenon
    <2> QED BY <2>8, <2>9
  <1> QED BY <1>2, <1>3, StateIf

LEMMA UnwindUnwindState ==
    ASSUME EhInv, EhInv', StateInv, UnwindUnwind
    PROVE  StateInv'
  <1>1. /\ Run.k = "unw" /\ Run.phase = "scan" /\ stack[Run.at].k = "unw"
        /\ UNCHANGED <<mode, halt, rethr, stale, live>> /\ csp' = Invalidated
        /\ stack' = [stack EXCEPT ![Top].at = stack[Run.at].at, ![Top].scope = stack[Run.at].scope]
    BY DEF UnwindUnwind, RunIs, ghost
  <1>2. Precise' => LiveType'
    BY <1>1 DEF StateInv, LiveType, Precise, Running
  <1>3. ASSUME Precise'
        PROVE  FramesOK(stack', Top', csp') /\ SearchOK' /\ LiveOK' /\ Sorted(live')
    <2>1. Precise /\ csp' = INVALID_STATE
      BY <1>1, <1>3 DEF Precise, Running, Invalidated
    <2>2. /\ Top \in Nat /\ Top > 1 /\ Formed(stack, Run.at) /\ IsUnw(Run) /\ Run = stack[Top]
          /\ Run.at \in 1 .. Top - 1 /\ DOMAIN Run = UnwFields
          /\ Run.target <= Run.at /\ Run.target \in 1 .. Top - 1
          /\ WaitsOK(stack, Run)
          /\ \/ Range(live) = Objs(stack, Run.at, StateAt(stack, Run, csp))
             \/ Leaves(live, Run)
      BY <1>1, <2>1, UnwStateFacts
    <2>3. PICK a, u : a = Run.at /\ u = stack[a]
      OBVIOUS
    <2>4. /\ u.k = "unw" /\ u.phase = "states" /\ u.at \in 1 .. a - 1 /\ stack[u.at].k \in Scoped
          /\ a \in Nat /\ a > 0 /\ Formed(stack, a) /\ stack[a].k = "unw" /\ a \in 1 .. a
      BY <1>1, <2>2, <2>3, CoveredUnwind DEF EhInv, Scoped
    <2>5. u.scope = u.state + 2 /\ ArrivedOK(stack, a, u.state)
      BY <1>1, <2>1, <2>2, <2>3, StateFacts DEF Buried, BuriedOK
    <2>6. u.state \in Int /\ u.state + 2 # 0 /\ u.state + 2 \in Nat
      BY <2>3, <2>4, <2>5, ArrivedState
    <2>7. PICK r : r = [Run EXCEPT !.at = u.at, !.scope = u.scope]
      OBVIOUS
    <2>8. /\ r.k = "unw" /\ r.rec = Run.rec /\ r.target = Run.target /\ r.hit = Run.hit
          /\ r.phase = "scan" /\ r.at = u.at /\ r.scope = u.scope
      BY <1>1, <2>2, <2>7 DEF UnwFields, IsUnw
    <2>9. stack' = [stack EXCEPT ![Top] = r]
      BY <1>1, <2>1, <2>2, <2>3, <2>7, StateFacts, Zenon
    <2>10. StateAt(stack, r, csp') = u.state
      BY <2>5, <2>6, <2>8 DEF StateAt, From
    <2>11. ASSUME r.hit # NoHit PROVE r.target # a /\ HitIn(stack, r, Cur(stack, a, r.target))
      <3>1. stack[Run.target].k \in Scoped
        <4>1. Top \in 1 .. Top /\ stack[Top].k = "unw" /\ Formed(stack, Top) /\ stack[Top].hit # NoHit
          BY <1>1, <2>1, <2>2, <2>8, <2>11, StateFacts
        <4> QED BY <2>2, <4>1, UnwPlaces
      <3>2. r.target # a /\ r.target < a
        BY <2>2, <2>3, <2>4, <2>8, <3>1 DEF Scoped
      <3> QED BY <2>2, <2>3, <2>8, <2>11, <3>2 DEF WaitsOK, HitIn
    <2>12. WaitsOK(stack, r)
      <3> SUFFICES ASSUME r.hit # NoHit, r.target < u.at
                   PROVE  HitIn(stack, r, Cur(stack, u.at, r.target))
        BY <2>8 DEF WaitsOK
      <3>1. r.target \in 1 .. u.at - 1
        BY <2>2, <2>4, <2>8
      <3>2. Cur(stack, a, r.target) = Cur(stack, u.at, r.target)
        BY <2>3, <2>4, <3>1, CoversUnw
      <3> QED BY <2>11, <3>2
    <2>13. ArrivesOK(stack, r, u.state)
      <3>1. StateOK(stack, r.at, u.state)
        BY <2>3, <2>5, <2>8 DEF ArrivedOK
      <3>2. ASSUME r.hit # NoHit, r.target = r.at PROVE HitIn(stack, r, u.state)
        <4>1. Cur(stack, a, u.at) = u.state
          BY <2>3, <2>4, CoversUnw
        <4> QED BY <2>8, <2>11, <3>2, <4>1
      <3> QED BY <3>1, <3>2 DEF ArrivesOK
    <2>14. \/ Range(live') = Objs(stack, r.at, StateAt(stack, r, csp'))
           \/ Leaves(live', r) /\ UNCHANGED <<mode, rethr>>
      <3>1. CASE Range(live) = Objs(stack, Run.at, StateAt(stack, Run, csp))
        <4>1. Objs(stack, a, StateAt(stack, Run, csp)) = Objs(stack, u.at, u.state)
          BY <2>3, <2>4, ObjsUnw
        <4> QED BY <1>1, <2>3, <2>8, <2>10, <3>1, <4>1
      <3>2. CASE Leaves(live, Run)
        BY <1>1, <2>8, <3>2 DEF Leaves
      <3> QED BY <2>2, <3>1, <3>2
    <2>15. IsUnw(r) /\ SameUnwind(r, Run) /\ r.phase # "land"
      BY <2>2, <2>7, <2>8 DEF IsUnw, SameUnwind, UnwFields
    <2>16. r.at \in 1 .. Top - 1 /\ r.scope \in Nat
      BY <2>2, <2>3, <2>4, <2>5, <2>6, <2>8
    <2>17. Sorted(live')
      BY <1>1, <2>1, StateFacts
    <2> QED BY <1>1, <2>1, <2>9, <2>10, <2>12, <2>13, <2>14, <2>15, <2>16, <2>17, UnwMoves, Zenon
  <1> QED BY <1>2, <1>3, StateIf

(* The destructor that runs is that of the newest object. *)
LEMMA ObjsDie ==
    ASSUME LiveType, Sorted(live), NEW st, NEW n, Formed(st, n), n > 0, st[n].k \in Scoped,
           GroupOK(st, n), NEW s \in DOMAIN Prog[st[n].f].unwind,
           UWE_ACTION(st[n].f, s) # "none",
           st[n].k = "catch" => InCatch(OwnTry(st, n), s),
           Range(live) = Objs(st, n, s), NEW x, x = <<EstOf(st, n), s>>
    PROVE  /\ Range(Destroyed(x)) = Objs(st, n, UWE_TOSTATE(st[n].f, s)) /\ Sorted(Destroyed(x))
           /\ Destroyed(x) = SubSeq(live, 1, Len(live) - 1) /\ live # <<>>
  <1>1. /\ n \in Nat /\ n \in 1 .. n /\ st[n].f \in DOMAIN Prog /\ st[n].k # "unw" /\ st[n].k # "ccb"
    BY DEF Formed, Own, OwnFn, OwnCatch, Scoped
  <1>2. PICK t : t = UWE_TOSTATE(st[n].f, s)
    OBVIOUS
  <1>3. s \in Nat /\ t \in StatesOf(st[n].f) /\ t < s /\ t \in Int /\ s \in StatesOf(st[n].f)
    BY <1>1, <1>2, StatesFacts DEF StatesOf
  <1>4. PICK B : \A y : Objs(st, n, y) = Objects(st[n].f, EstOf(st, n), y) \cup B
    <2>1. \A y : Objs(st, n, y) =
              Objects(st[n].f, EstOf(st, n), y) \cup Objs(st, n - 1, Beneath(st, n))
      BY <1>1, ObjsDown DEF Beneath
    <2> QED BY <2>1
  <1>5. Objects(st[n].f, EstOf(st, n), s) = Objects(st[n].f, EstOf(st, n), t) \cup {x}
    BY <1>1, <1>2, ObjectsUnfold
  <1>6. Range(live) = Objs(st, n, t) \cup {x}
    BY <1>4, <1>5
  <1>7. st[n].k = "catch" => InCatch(OwnTry(st, n), t)
    <2> HAVE st[n].k = "catch"
    <2>1. /\ st[n].try \in DOMAIN Tries(st[n].f) /\ OwnTry(st, n) = Try(st[n].f, st[n].try)
      BY <1>1, CatchGroup
    <2>2. s # Try(st[n].f, st[n].try).high + 1
      BY <1>1, <2>1, TryStates
    <2> QED BY <1>1, <1>2, <2>1, <2>2, CatchClosed
  <1>8. EstOf(st, n) \in Nat /\ \A o \in Range(live) : o = x \/ Older(o, x)
    <2> SUFFICES ASSUME NEW o \in Objs(st, n, s)
                 PROVE  EstOf(st, n) \in Nat /\ (o = x \/ Older(o, x))
      BY <1>6
    <2>1. /\ o = <<o[1], o[2]>> /\ EstOf(st, n) \in Nat
          /\ o[1] < EstOf(st, n) \/ (o[1] = EstOf(st, n) /\ o[2] \in Nat /\ o[2] <= s)
      BY <1>3, ObjsNewest
    <2> QED BY <1>3, <2>1 DEF Older
  <1>9. x \notin Objs(st, n, t)
    <2> SUFFICES ASSUME x \in Objs(st, n, t) PROVE FALSE
      OBVIOUS
    <2>1. x[1] < EstOf(st, n) \/ (x[1] = EstOf(st, n) /\ x[2] \in Nat /\ x[2] <= t)
      BY <1>3, <1>7, ObjsNewest
    <2> QED BY <1>3, <1>8, <2>1
  <1>10. /\ Range(Destroyed(x)) = Range(live) \ {x} /\ Sorted(Destroyed(x))
         /\ Destroyed(x) = SubSeq(live, 1, Len(live) - 1) /\ live # <<>>
    BY <1>6, <1>8, DiesFirst, Zenon
  <1> QED BY <1>2, <1>6, <1>9, <1>10, Zenon

(* The state that an unwind takes a frame to. *)
LEMMA UnwindsTo ==
    ASSUME EhInv, StateInv, Precise, Run.k = "unw", Run.phase = "states",
           Run.state # EH_EMPTY_STATE, Run.state > UnwindTo(Run.at)
    PROVE  /\ stack[Run.at].k \in Scoped /\ stack[Run.at].f \in DOMAIN Prog
           /\ Run.state \in DOMAIN Prog[stack[Run.at].f].unwind
           /\ stack[Run.at].k = "catch" => InCatch(OwnTry(stack, Run.at), Run.state)
           /\ UWE_TOSTATE(stack[Run.at].f, Run.state) + 2 \in Nat
           /\ ArrivesOK(stack, Run, UWE_TOSTATE(stack[Run.at].f, Run.state))
           /\ EstOf(stack, Run.at) = Est(Run.at)
           /\ Range(live) = Objs(stack, Run.at, Run.state)
  <1> DEFINE p == Run.at
             f == stack[p].f
             next == UWE_TOSTATE(f, Run.state)
  <1>1. /\ Top \in Nat /\ Top > 1 /\ Formed(stack, p) /\ IsUnw(Run) /\ Run = stack[Top]
        /\ p \in 1 .. Top - 1 /\ Run.target <= p /\ Run.target \in 1 .. Top - 1
        /\ ArrivesOK(stack, Run, StateAt(stack, Run, csp))
        /\ \/ Range(live) = Objs(stack, Run.at, StateAt(stack, Run, csp))
           \/ Leaves(live, Run)
    BY UnwStateFacts
  <1>2. StateAt(stack, Run, csp) = Run.state /\ Range(live) = Objs(stack, p, Run.state)
    BY <1>1 DEF StateAt, Leaves
  <1>3. /\ Top \in 1 .. Top /\ stack[Top].k = "unw" /\ Formed(stack, Top)
        /\ stack[Top].phase = "states"
    BY <1>1, StateFacts
  <1>4. stack[p].k \in Scoped
    BY <1>1, <1>3, UnwPlaces
  <1>5. f \in DOMAIN Prog /\ p \in 1 .. p
    BY <1>1, <1>4 DEF Formed, Own, OwnFn, OwnCatch, Scoped
  <1>6. Run.state \in DOMAIN Prog[f].unwind
    BY <1>1, <1>2 DEF ArrivesOK, StateOK, StatesOf
  <1>7. Run.state \in Nat /\ next \in StatesOf(f) /\ next < Run.state /\ next \in Int /\ next >= EH_EMPTY_STATE
    BY <1>5, <1>6, StatesFacts
  <1>8. next + 2 \in Nat
    BY <1>7 DEF EH_EMPTY_STATE
  <1>9. Run.hit # NoHit =>
            /\ Accepts(stack, Run.target, Run.hit.try)
            /\ Run.hit.try \in DOMAIN Tries(stack[Run.target].f)
    BY <1>1, <1>3, UnwPlaces
  <1>10. p = Run.target => Run.hit # NoHit
    BY <1>4, UnwindAtFunction DEF EhInv, Scoped
  <1>11. ASSUME stack[p].k = "catch"
         PROVE  /\ InCatch(OwnTry(stack, p), Run.state)
                /\ InCatch(OwnTry(stack, p), next) \/ next = Outside(f, stack[p].try)
    <2>1. /\ stack[p].try \in DOMAIN Tries(f) /\ OwnTry(stack, p) = Try(f, stack[p].try)
      BY <1>1, <1>5, <1>11, CatchGroup
    <2> DEFINE t == Try(f, stack[p].try)
    <2>2. /\ t.low \in Nat /\ t.high \in Nat /\ t.catchHigh \in Nat /\ t.low <= t.high
          /\ Outside(f, stack[p].try) < t.low /\ Outside(f, stack[p].try) \in StatesOf(f)
          /\ UWE_TOSTATE(f, t.high + 1) = Outside(f, stack[p].try)
      BY <1>5, <2>1, TryStates
    <2>3. Outside(f, stack[p].try) \in Int
      BY <1>5, <2>2, StatesFacts
    <2>4. Run.state # Outside(f, stack[p].try)
      <3>1. CASE p = Run.target
        <4>1. InCatch(t, Outside(f, Run.hit.try)) /\ Run.hit.try \in DOMAIN Tries(f)
          BY <1>9, <1>10, <1>11, <3>1 DEF Accepts
        <4>2. /\ Try(f, Run.hit.try).low \in Nat /\ Outside(f, Run.hit.try) < Try(f, Run.hit.try).low
              /\ Outside(f, Run.hit.try) \in StatesOf(f)
          BY <1>5, <4>1, TryStates
        <4>3. Outside(f, Run.hit.try) \in Int
          BY <1>5, <4>2, StatesFacts
        <4>4. Run.state > Try(f, Run.hit.try).low
          BY <3>1 DEF UnwindTo
        <4> QED BY <1>7, <2>2, <2>3, <4>1, <4>2, <4>3, <4>4 DEF InCatch
      <3>2. CASE p # Run.target
        <4>1. Run.state > t.high
          BY <1>11, <3>2 DEF UnwindTo
        <4> QED BY <1>7, <2>2, <2>3, <4>1
      <3> QED BY <3>1, <3>2
    <2>5. InCatch(t, Run.state)
      BY <1>1, <1>2, <1>11, <2>1, <2>4 DEF ArrivesOK, StateOK
    <2>6. CASE Run.state = t.high + 1
      BY <2>1, <2>2, <2>5, <2>6
    <2>7. CASE Run.state # t.high + 1
      BY <1>5, <1>6, <2>1, <2>5, <2>7, CatchClosed
    <2> QED BY <2>1, <2>5, <2>6, <2>7
  <1>12. StateOK(stack, p, next)
    BY <1>7, <1>11 DEF StateOK
  <1>13. ASSUME Run.hit # NoHit, Run.target = p PROVE HitIn(stack, Run, next)
    <2>1. HitIn(stack, Run, Run.state) /\ Run.hit.try \in DOMAIN Tries(f)
      BY <1>1, <1>2, <1>9, <1>13 DEF ArrivesOK
    <2>2. Run.state > Try(f, Run.hit.try).low
      BY <1>13 DEF UnwindTo
    <2>3. /\ Try(f, Run.hit.try).low \in Nat
          /\ \A y \in DOMAIN Prog[f].unwind \ {Try(f, Run.hit.try).low} :
                 InTry(Try(f, Run.hit.try), y) <=> InTry(Try(f, Run.hit.try), UWE_TOSTATE(f, y))
      BY <1>5, <2>1, TablesOK DEF TryOK
    <2>4. Run.state # Try(f, Run.hit.try).low
      BY <1>7, <2>2, <2>3
    <2>5. InTry(Try(f, Run.hit.try), Run.state)
      BY <1>13, <2>1 DEF HitIn
    <2>6. InTry(Try(f, Run.hit.try), next)
      BY <1>6, <2>3, <2>4, <2>5
    <2> QED BY <1>13, <2>6 DEF HitIn
  <1>14. ArrivesOK(stack, Run, next)
    BY <1>12, <1>13 DEF ArrivesOK
  <1>15. EstOf(stack, p) = Est(p)
    BY DEF EstOf, Est
  <1> QED BY <1>2, <1>4, <1>5, <1>6, <1>8, <1>11, <1>14, <1>15

(* The unwind calls a destructor that runs code of the program. *)
LEMMA DestructorBegins ==
    ASSUME EhInv, EhInv', StateInv, Precise, Run.k = "unw",
           NEW r, IsUnw(r), SameUnwind(r, Run), NEW s, IsStack(s), Len(s) = Top, s[Top] = r,
           Twins(stack, s, Top - 1), stack' = Append(s, Fn("aux")), r.at = Run.at, r.phase = "states",
           stack[r.at].k \in Scoped, r.scope = r.state + 2, ArrivesOK(stack, r, r.state),
           Range(live') = Objs(stack, r.at, r.state), Sorted(live')
    PROVE  FramesOK(stack', Top', csp') /\ SearchOK' /\ LiveOK' /\ Sorted(live')
  <1>1. /\ Top \in Nat /\ Top > 1 /\ Formed(stack, Top) /\ Run.at \in 1 .. Top - 1
        /\ Run.target \in 1 .. Top - 1 /\ Run.target <= Run.at /\ WaitsOK(stack, Run)
        /\ stack[Run.target].k = "ccb" => Run.rec = Rethrown
    BY UnwStateFacts
  <1>2. PICK fr : fr = Fn("aux")
    OBVIOUS
  <1>3. fr.k = "fn" /\ fr.f = "aux" /\ fr.ip = EH_EMPTY_STATE
    BY <1>2 DEF Fn
  <1>4. PICK st2 : st2 = stack'
    OBVIOUS
  <1>6. stack' = Append(s, fr)
    BY <1>2
  <1>7. /\ Top' = Top + 1 /\ Run' = fr /\ st2[Top] = r /\ st2[Top + 1] = fr
        /\ Formed(st2, Top) /\ Formed(st2, Top + 1) /\ Buried(st2, Top - 1)
        /\ Twins(stack, st2, Top - 1)
    BY <1>4, <1>6, PushOn
  <1>8. r.k = "unw" /\ r.target = Run.target /\ r.hit = Run.hit /\ r.rec = Run.rec
    BY DEF IsUnw, SameUnwind
  <1>9. /\ Top \in 1 .. Top /\ st2[Top].k = "unw" /\ st2[Top].phase = "states"
        /\ Top - 1 \in Nat
    BY <1>1, <1>7, <1>8
  <1>10. ASSUME NEW m \in 1 .. Top - 1
         PROVE  /\ \A x : Objs(st2, m, x) = Objs(stack, m, x)
                /\ \A q \in 1 .. m : stack[q].k \in Scoped => Cur(st2, m, q) = Cur(stack, m, q)
    <2>1. Twins(stack, st2, m) /\ m \in Nat
      BY <1>1, <1>7, <1>9, TwinsLess
    <2> QED BY <2>1, TwinsObjs, TwinsCur
  <1>11. ASSUME NEW q \in 1 .. Top - 1
         PROVE  /\ st2[q].k = stack[q].k /\ (stack[q].k # "ccb" => st2[q] = stack[q])
    BY <1>7, <1>9, TwinFrames
  <1>12. AwaitOK(st2, Top)
    <2>1. ASSUME r.hit # NoHit, r.target < r.at PROVE HitIn(st2, r, Cur(st2, r.at, r.target))
      <3>1. st2[r.target].k \in Scoped
        BY <1>7, <1>9, <2>1, UnwPlaces
      <3>2. r.target \in 1 .. r.at /\ r.target \in 1 .. Top - 1 /\ r.at \in 1 .. Top - 1
        BY <1>1, <1>8, <2>1
      <3>3. stack[r.target].k \in Scoped /\ st2[r.target] = stack[r.target]
        BY <1>11, <3>1, <3>2, Zenon DEF Scoped
      <3>4. Cur(st2, r.at, r.target) = Cur(stack, r.at, r.target)
        BY <1>10, <3>2, <3>3
      <3> QED BY <1>1, <1>8, <2>1, <3>3, <3>4 DEF WaitsOK, HitIn
    <2> QED BY <1>1, <1>7, <1>8, <1>11, <2>1 DEF AwaitOK
  <1>13. ArrivedOK(st2, Top, r.state)
    <2>1. st2[r.at] = stack[r.at]
      BY <1>1, <1>11, Zenon DEF Scoped
    <2> QED BY <1>7, <2>1 DEF ArrivesOK, ArrivedOK, StateOK, OwnTry, HitIn
  <1>14. Buried(st2, Top)
    <2>1. BuriedOK(st2, Top)
      BY <1>7, <1>8, <1>12, <1>13 DEF BuriedOK, PlaceOK, GroupOK, BuildOK
    <2> QED BY <1>1, <1>7, <2>1, BuriedMore
  <1>15. (Top + 1) - 1 = Top
    BY <1>1
  <1>16. FramesOK(st2, Top + 1, csp')
    <2>1. PlaceOK(st2, Top + 1) /\ UnwOK(st2, Top + 1, csp')
      BY <1>3, <1>7, UserPlace
    <2> QED BY <1>14, <1>15, <2>1 DEF FramesOK
  <1>17. Range(live') = Objs(st2, Top + 1, fr.ip)
    <2>1. Objs(st2, Top, st2[Top].ip) = Objs(st2, r.at, r.state)
      BY <1>1, <1>7, <1>8, ObjsUnw
    <2>2. Objs(st2, r.at, r.state) = Objs(stack, r.at, r.state)
      BY <1>1, <1>10
    <2>3. /\ st2[Top + 1].k \in Scoped /\ st2[Top + 1].k # "unw" /\ st2[Top + 1].k # "ccb"
          /\ st2[Top + 1].f = fr.f /\ Formed(st2, Top + 1) /\ Top + 1 > 0
      BY <1>1, <1>3, <1>7 DEF Scoped
    <2>4. Objs(st2, Top + 1, fr.ip) =
              Objects(fr.f, EstOf(st2, Top + 1), fr.ip) \cup Objs(st2, Top, st2[Top].ip)
      BY <1>15, <2>3, ObjsDown
    <2>5. Objects(fr.f, EstOf(st2, Top + 1), fr.ip) = {}
      BY <1>3, EhAssumption, ObjectsEmpty
    <2> QED BY <2>1, <2>2, <2>4, <2>5, Zenon
  <1>18. SearchOK' /\ LiveOK'
    BY <1>3, <1>4, <1>7, <1>17, ProgramRuns DEF User
  <1> QED BY <1>4, <1>7, <1>16, <1>18

LEMMA UnwindStateState ==
    ASSUME EhInv, EhInv', StateInv, UnwindState
    PROVE  StateInv'
  <1>1. /\ Run.k = "unw" /\ Run.phase = "states" /\ Run.state # EH_EMPTY_STATE
        /\ Run.state > UnwindTo(Run.at) /\ UNCHANGED <<mode, halt, rethr, csp, stale>>
    BY DEF UnwindState, RunIs, runtime
  <1>2. PICK p, f : p = Run.at /\ f = stack[p].f
    OBVIOUS
  <1>3. PICK next, action, x : /\ next = UWE_TOSTATE(f, Run.state)
                               /\ action = UWE_ACTION(f, Run.state)
                               /\ x = <<Est(p), Run.state>>
    BY Zenon
  <1>4. live' = IF action = "none" THEN live ELSE Destroyed(x)
    BY <1>2, <1>3 DEF UnwindState
  <1>5. ASSUME Precise
        PROVE  /\ stack[p].k \in Scoped /\ f \in DOMAIN Prog /\ Run.state \in DOMAIN Prog[f].unwind
               /\ stack[p].k = "catch" => InCatch(OwnTry(stack, p), Run.state)
               /\ next + 2 \in Nat /\ ArrivesOK(stack, Run, next)
               /\ x = <<EstOf(stack, p), Run.state>>
               /\ Range(live) = Objs(stack, p, Run.state)
    BY <1>1, <1>2, <1>3, <1>5, UnwindsTo
  <1>6. ASSUME Precise PROVE LiveType'
    <2>1. LiveType
      BY <1>6, StateFacts
    <2>2. Run.state \in Nat
      BY <1>5, <1>6, StatesFacts
    <2>3. Est(p) \in Nat
      BY <1>1, <1>2, <1>5, <1>6, EstIsFunction, UnwFacts DEF EhInv, Scoped
    <2>4. x \in Nat \X Nat
      BY <1>3, <2>2, <2>3
    <2>5. Destroyed(x) \in Seq(Nat \X Nat)
      BY <2>1, <2>4, DestroyedType
    <2> QED BY <1>4, <2>1, <2>5 DEF LiveType
  <1>7. ASSUME Precise
        PROVE  FramesOK(stack', Top', csp') /\ SearchOK' /\ LiveOK' /\ Sorted(live')
    <2>1. /\ Top \in Nat /\ Top > 1 /\ Run = stack[Top] /\ Formed(stack, p) /\ Run.at \in 1 .. Top - 1
          /\ DOMAIN Run = UnwFields /\ WaitsOK(stack, Run) /\ GroupOK(stack, p) /\ Run.scope \in Nat
      BY <1>1, <1>2, <1>7, UnwStateFacts
    <2>2. IsStack(stack) /\ Top = Len(stack) /\ mode.fh = 4 /\ LiveType /\ Sorted(live)
      BY <1>7, StateFacts DEF Top
    <2>3. Range(live') = Objs(stack, p, next) /\ Sorted(live')
      <3>1. CASE action = "none"
        <4>1. PICK e : e = EstOf(stack, p)
          OBVIOUS
        <4>2. Objects(f, e, Run.state) = Objects(f, e, next)
          <5>1. f \in DOMAIN Prog /\ Run.state \in DOMAIN Prog[f].unwind
            BY <1>5, <1>7
          <5>2. UWE_ACTION(f, Run.state) = "none" /\ next = UWE_TOSTATE(f, Run.state)
            BY <1>3, <3>1
          <5> QED BY <5>1, <5>2, ObjectsUnfold
        <4>3. stack[p].k # "unw" /\ stack[p].k # "ccb" /\ p > 0
          BY <1>2, <1>5, <1>7, <2>1 DEF Scoped
        <4>4. \A y : Objs(stack, p, y) = Objects(f, e, y) \cup Objs(stack, p - 1, stack[p - 1].ip)
          BY <1>2, <1>5, <1>7, <2>1, <4>1, <4>3, ObjsDown
        <4> QED BY <1>4, <1>5, <1>7, <2>2, <3>1, <4>2, <4>4, Zenon
      <3>2. CASE action # "none"
        <4>1. /\ LiveType /\ Sorted(live) /\ Formed(stack, p) /\ p > 0 /\ stack[p].k \in Scoped
              /\ GroupOK(stack, p) /\ Run.state \in DOMAIN Prog[stack[p].f].unwind
              /\ UWE_ACTION(stack[p].f, Run.state) # "none"
              /\ stack[p].k = "catch" => InCatch(OwnTry(stack, p), Run.state)
              /\ Range(live) = Objs(stack, p, Run.state) /\ x = <<EstOf(stack, p), Run.state>>
          <5>1. Formed(stack, p) /\ p > 0 /\ GroupOK(stack, p)
            BY <1>2, <2>1
          <5>2. /\ stack[p].k \in Scoped /\ Run.state \in DOMAIN Prog[f].unwind
                /\ stack[p].k = "catch" => InCatch(OwnTry(stack, p), Run.state)
                /\ Range(live) = Objs(stack, p, Run.state) /\ x = <<EstOf(stack, p), Run.state>>
            BY <1>5, <1>7, Zenon
          <5>3. UWE_ACTION(f, Run.state) # "none"
            BY <1>3, <3>2, Zenon
          <5> QED BY <1>2, <2>2, <5>1, <5>2, <5>3, Zenon
        <4>2. /\ Range(Destroyed(x)) = Objs(stack, p, UWE_TOSTATE(stack[p].f, Run.state))
              /\ Sorted(Destroyed(x))
          BY <4>1, ObjsDie
        <4> QED BY <1>2, <1>3, <1>4, <3>2, <4>2
      <3> QED BY <3>1, <3>2
    <2>4. PICK r : r = IF action = "none" THEN [Run EXCEPT !.state = next]
                       ELSE [Run EXCEPT !.state = next, !.scope = next + 2]
      BY Zenon
    <2>5. /\ IsUnw(r) /\ SameUnwind(r, Run) /\ r.at = p /\ r.phase = "states" /\ r.state = next
          /\ r.scope = IF action = "none" THEN Run.scope ELSE next + 2
      BY <1>1, <1>2, <2>1, <2>4 DEF IsUnw, SameUnwind, UnwFields
    <2>6. WaitsOK(stack, r) /\ ArrivesOK(stack, r, next) /\ r.scope \in Nat
      BY <1>2, <1>5, <1>7, <2>1, <2>5 DEF WaitsOK, ArrivesOK, SameUnwind, HitIn
    <2>7. PICK moved : moved = [stack EXCEPT ![Top] = r]
      BY Zenon
    <2>8. stack' = moved \/ (stack' = Append(moved, Fn("aux")) /\ action # "none")
      <3>1. CASE action = "none"
        <4>1. stack' = [stack EXCEPT ![Top].state = next]
          BY <1>2, <1>3, <3>1 DEF UnwindState
        <4> QED BY <2>1, <2>4, <2>7, <3>1, <4>1
      <3>2. CASE action # "none"
        <4>1. PICK m2 : m2 = [[stack EXCEPT ![Top].state = next] EXCEPT ![Top].scope = next + 2]
          BY Zenon
        <4>2. stack' = m2 \/ stack' = Append(m2, Fn("aux"))
          <5>1. stack' = CASE action = "none" -> [stack EXCEPT ![Top].state = next]
                           [] action = "plain" -> m2
                           [] OTHER -> Append(m2, Fn("aux"))
            BY <1>2, <1>3, <2>2, <4>1 DEF UnwindState
          <5> QED BY <3>2, <5>1
        <4>3. m2 = moved
          BY <2>1, <2>2, <2>4, <2>7, <3>2, <4>1, Zenon DEF IsStack
        <4> QED BY <3>2, <4>2, <4>3
      <3> QED BY <3>1, <3>2
    <2>9. CASE stack' = moved
      <3>1. StateAt(stack, r, csp') = next
        BY <2>5 DEF StateAt
      <3>2. r.phase # "land"
        BY <2>5
      <3> QED BY <1>1, <1>2, <1>7, <2>1, <2>3, <2>5, <2>6, <2>7, <2>9, <3>1, <3>2, UnwMoves, Zenon
    <2>10. CASE stack' = Append(moved, Fn("aux")) /\ action # "none"
      <3>1. PICK s : s = moved
        OBVIOUS
      <3>2. IsStack(s) /\ Len(s) = Top /\ s[Top] = r /\ Twins(stack, s, Top - 1)
        BY <1>7, <2>7, <3>1, RaiseChange, Zenon
      <3>3. stack' = Append(s, Fn("aux")) /\ r.scope = r.state + 2
        BY <2>5, <2>10, <3>1
      <3> QED BY <1>1, <1>2, <1>5, <1>7, <2>3, <2>5, <2>6, <3>2, <3>3, DestructorBegins
    <2> QED BY <2>8, <2>9, <2>10
  <1>8. Precise' => Precise
    BY <1>1 DEF Precise, Running
  <1> QED BY <1>6, <1>7, <1>8, StateIf

-----------------------------------------------------------------------------
(* The unwind lands *)

LEMMA TwoOnTop ==
    ASSUME NEW st, IsStack(st), NEW p \in 1 .. Len(st), NEW a, NEW b,
           NEW st2, st2 = SubSeq(st, 1, p) \o <<a, b>>
    PROVE  /\ Len(st2) = p + 2 /\ st2[p + 1] = a /\ st2[p + 2] = b
           /\ \A q \in 1 .. p : st2[q] = st[q]
  <1>1. p \in Nat /\ p \in 0 .. Len(st)
    BY StackDomain
  <1>2. PICK cut : cut = SubSeq(st, 1, p)
    BY Zenon
  <1>3. IsStack(cut) /\ Len(cut) = p /\ \A q \in 1 .. p : cut[q] = st[q]
    BY <1>1, <1>2, CutFrames
  <1>4. PICK S : cut \in Seq(S)
    BY <1>3 DEF IsStack
  <1>5. PICK T : T = S \cup {a, b}
    BY Zenon
  <1>6. cut \in Seq(T) /\ a \in T /\ b \in T
    BY <1>4, <1>5
  <1>7. PICK two : two = <<a, b>>
    BY Zenon
  <1>8. two \in Seq(T) /\ Len(two) = 2 /\ two[1] = a /\ two[2] = b
    BY <1>6, <1>7
  <1>9. /\ Len(cut \o two) = p + 2
        /\ \A i \in 1 .. p + 2 : (cut \o two)[i] = IF i <= p THEN cut[i] ELSE two[i - p]
    <2>1. /\ Len(cut \o two) = Len(cut) + Len(two)
          /\ \A i \in 1 .. Len(cut) + Len(two) :
                 (cut \o two)[i] = IF i <= Len(cut) THEN cut[i] ELSE two[i - Len(cut)]
      BY ONLY <1>6, <1>8, ConcatProperties
    <2>2. Len(cut) = p /\ Len(two) = 2
      BY <1>3, <1>8
    <2> QED BY <2>1, <2>2
  <1>10. PICK w : w = cut \o two
    BY Zenon
  <1>11. Len(w) = p + 2 /\ \A i \in 1 .. p + 2 : w[i] = IF i <= p THEN cut[i] ELSE two[i - p]
    BY <1>9, <1>10, Zenon
  <1>12. w[p + 1] = a /\ w[p + 2] = b
    <2>1. /\ (p + 1) - p = 1 /\ (p + 2) - p = 2 /\ ~(p + 1 <= p) /\ ~(p + 2 <= p)
          /\ p + 1 \in 1 .. p + 2 /\ p + 2 \in 1 .. p + 2
      BY ONLY <1>1
    <2>2. w[p + 1] = two[(p + 1) - p] /\ w[p + 2] = two[(p + 2) - p]
      BY ONLY <1>11, <2>1, Zenon
    <2> QED BY <1>8, <2>1, <2>2, Zenon
  <1>13. ASSUME NEW q \in 1 .. p PROVE w[q] = cut[q]
    BY ONLY <1>1, <1>11
  <1>14. st2 = w
    BY <1>2, <1>7, <1>10, Zenon
  <1> QED BY <1>3, <1>11, <1>12, <1>13, <1>14, Zenon

(* The stack when a handler starts: its frame has caught in try block i. *)
Entered(st, st2, p, i) ==
    /\ \A q \in 1 .. p : st2[q] = st[q]
    /\ st2[p + 1].k = "ccb" /\ st2[p + 1].try = i
    /\ st2[p + 2].k = "catch" /\ st2[p + 2].f = st[p].f /\ st2[p + 2].est = EstOf(st, p)
    /\ st2[p + 2].try = i /\ st2[p + 2].ip = Try(st[p].f, i).high + 1

LEMMA HandlerGroup ==
    ASSUME NEW st, NEW st2, NEW p, Formed(st, p), p > 0, Formed(st2, p + 2), st[p].k \in Scoped,
           GroupOK(st, p), NEW i, Accepts(st, p, i), Entered(st, st2, p, i)
    PROVE  GroupOK(st2, p + 2)
  <1>1. /\ p \in Nat /\ p \in 1 .. p /\ (p + 2) - 2 = p /\ p + 1 \in 1 .. p + 2 /\ (p + 1) - 1 = p
        /\ (p + 2) - 1 = p + 1 /\ st[p].f \in DOMAIN Prog /\ i \in DOMAIN Tries(st[p].f)
    BY DEF Formed, Own, OwnFn, OwnCatch, Scoped, Accepts
  <1>2. PICK f, e : f = st[p].f /\ e = EstOf(st, p)
    OBVIOUS
  <1>3. /\ \A q \in 1 .. p : st2[q] = st[q] /\ EstOf(st2, q) = EstOf(st, q)
        /\ st2[p + 1].k = "ccb" /\ st2[p + 1].try = i /\ st2[p + 2].k = "catch" /\ st2[p + 2].f = f
        /\ st2[p + 2].est = e /\ st2[p + 2].try = i
    BY <1>2 DEF Entered, EstOf
  <1>4. /\ e \in Nat /\ e > 0 /\ e <= p
        /\ st[p].k = "fn" => e = p
        /\ st[p].k = "catch" => e = st[p].est
    BY <1>1, <1>2, CatchGroup DEF EstOf, Scoped
  <1>5. ASSUME NEW q \in e + 1 .. p + 2 PROVE st2[q].k \in {"ccb", "catch"}
    <2>1. CASE q \in {p + 1, p + 2}
      BY <1>3, <2>1
    <2>2. CASE q \in e + 1 .. p
      <3>1. st[p].k = "catch" /\ q \in st[p].est + 1 .. p /\ q \in 1 .. p
        BY <1>1, <1>4, <2>2 DEF Scoped
      <3>2. st[q].k \in {"ccb", "catch"}
        BY <3>1 DEF GroupOK
      <3> QED BY <1>3, <3>1, <3>2
    <2> QED BY <1>1, <1>4, <2>1, <2>2
  <1>6. OwnTry(st2, p + 2).low = Try(f, i).low /\ LowOf(st2, p + 1) = Try(f, i).low
        /\ Try(f, i).low \in Nat
    BY <1>1, <1>2, <1>3, TryStates DEF OwnTry, LowOf
  <1>7. ASSUME NEW q \in e .. p + 1, st2[q].k \in Scoped
        PROVE  /\ EstOf(st2, q) = e
               /\ st2[q + 1].k = "ccb" /\ LowOf(st2, q + 1) <= OwnTry(st2, p + 2).low
    <2>1. q # p + 1
      BY <1>3, <1>7 DEF Scoped
    <2>2. CASE q = p
      BY <1>1, <1>2, <1>3, <1>6, <2>2
    <2>3. CASE q \in e .. p - 1
      <3>1. /\ st[p].k = "catch" /\ q \in st[p].est .. p - 1 /\ q \in 1 .. p /\ q + 1 \in 1 .. p
            /\ (q + 1) - 1 = q /\ st[q].k \in Scoped
        BY <1>1, <1>3, <1>4, <1>7, <2>3 DEF Scoped
      <3>2. /\ EstOf(st, q) = e /\ st[q + 1].k = "ccb"
            /\ LowOf(st, q + 1) <= OwnTry(st, p).low
        BY <1>4, <3>1 DEF GroupOK
      <3>3. EstOf(st2, q) = e /\ st2[q + 1].k = "ccb" /\ LowOf(st2, q + 1) = LowOf(st, q + 1)
        BY <1>3, <3>1, <3>2 DEF LowOf
      <3>4. LowOf(st, q + 1) \in Int
        <4>1. LowOf(st, q + 1) \in DOMAIN Prog[st[q].f].unwind /\ st[q].f \in DOMAIN Prog
          BY <3>1, <3>2, CcbGroup
        <4> QED BY <4>1, StatesFacts
      <3>5. OwnTry(st, p).low < Try(f, i).low /\ OwnTry(st, p).low \in Nat
        <4>1. /\ st[p].try \in DOMAIN Tries(f) /\ OwnTry(st, p) = Try(f, st[p].try)
              /\ InCatch(Try(f, st[p].try), Outside(f, i))
          BY <1>1, <1>2, <3>1, CatchGroup DEF Accepts
        <4>2. /\ Outside(f, i) < Try(f, i).low /\ Outside(f, i) \in StatesOf(f)
              /\ Try(f, st[p].try).low \in Nat /\ Try(f, st[p].try).high \in Nat
              /\ Try(f, st[p].try).low <= Try(f, st[p].try).high
          BY <1>1, <1>2, <4>1, TryStates
        <4>3. Outside(f, i) \in Int
          BY <1>1, <1>2, <4>2, StatesFacts
        <4> QED BY <1>6, <4>1, <4>2, <4>3 DEF InCatch
      <3> QED BY <1>6, <3>2, <3>3, <3>4, <3>5
    <2> QED BY <1>1, <1>4, <2>1, <2>2, <2>3
  <1>8. e = EstOf(st2, p)
    BY <1>1, <1>2, <1>3
  <1> QED BY <1>1, <1>3, <1>5, <1>7, <1>8 DEF GroupOK

LEMMA HandlerObjs ==
    ASSUME NEW st, NEW st2, NEW p, Formed(st, p), p > 0, Formed(st2, p + 2), st[p].k \in Scoped,
           NEW i \in DOMAIN Tries(st[p].f), Entered(st, st2, p, i)
    PROVE  Objs(st2, p + 2, Try(st[p].f, i).high + 1) = Objs(st, p, Try(st[p].f, i).low)
  <1>1. PICK f, e : f = st[p].f /\ e = EstOf(st, p)
    OBVIOUS
  <1>2. /\ p \in Nat /\ p \in 1 .. p /\ (p + 2) - 1 = p + 1 /\ (p + 1) - 1 = p /\ f \in DOMAIN Prog
        /\ st[p].k # "unw" /\ st[p].k # "ccb" /\ i \in DOMAIN Tries(f)
    BY <1>1 DEF Formed, Own, OwnFn, OwnCatch, Scoped
  <1>3. PICK low, high : low = Try(f, i).low /\ high = Try(f, i).high
    OBVIOUS
  <1>4. Objects(f, e, high + 1) = Objects(f, e, low)
    BY <1>2, <1>3, ObjectsOfTry
  <1>5. Formed(st2, p + 1) /\ Formed(st2, p)
    BY <1>2, FormedLess
  <1>6. /\ st2[p + 1].k = "ccb" /\ st2[p + 1].try = i /\ st2[p + 2].k = "catch" /\ st2[p + 2].f = f
        /\ EstOf(st2, p + 2) = e /\ st2[p] = st[p]
    BY <1>1, <1>2 DEF Entered, EstOf
  <1>7. LowOf(st2, p + 1) = low
    BY <1>1, <1>2, <1>3, <1>6 DEF LowOf
  <1>8. Objs(st2, p + 1, st2[p + 1].ip) = Objs(st2, p, low)
    <2>1. st2[p + 1].k # "unw" /\ st2[p + 1].k \notin Scoped /\ p + 1 > 0
      BY <1>2, <1>6 DEF Scoped
    <2> QED BY <1>2, <1>5, <1>6, <1>7, <2>1, ObjsDown
  <1>9. Objs(st2, p + 2, high + 1) = Objects(f, e, high + 1) \cup Objs(st2, p + 1, st2[p + 1].ip)
    <2>1. st2[p + 2].k # "unw" /\ st2[p + 2].k # "ccb" /\ st2[p + 2].k \in Scoped /\ p + 2 > 0
      BY <1>2, <1>6 DEF Scoped
    <2> QED BY <1>2, <1>6, <2>1, ObjsDown
  <1>10. Objs(st2, p, low) = Objs(st, p, low)
    <2>1. Twins(st, st2, p)
      BY SameTwins DEF Entered
    <2> QED BY <1>2, <2>1, TwinsObjs
  <1>11. Objs(st, p, low) = Objects(f, e, low) \cup Objs(st, p - 1, st[p - 1].ip)
    BY <1>1, <1>2, ObjsDown
  <1> QED BY <1>1, <1>3, <1>4, <1>8, <1>9, <1>10, <1>11

LEMMA LandInHandlerState ==
    ASSUME EhInv, EhInv', StateInv, LandInHandler
    PROVE  StateInv'
  <1>1. /\ Run.k = "unw" /\ Run.phase = "land" /\ UNCHANGED <<mode, halt, stale, live>>
    BY DEF LandInHandler, RunIs
  <1>2. Precise' => LiveType'
    BY <1>1 DEF StateInv, LiveType, Precise, Running
  <1>3. ASSUME Precise'
        PROVE  FramesOK(stack', Top', csp') /\ SearchOK' /\ LiveOK' /\ Sorted(live')
    <2>1. Precise
      BY <1>1, <1>3 DEF Precise, Running
    <2>2. /\ Top \in Nat /\ Top > 1 /\ Run = stack[Top] /\ Formed(stack, Top) /\ Run.at \in 1 .. Top - 1
          /\ Formed(stack, Run.at) /\ GroupOK(stack, Run.at)
          /\ \/ Range(live) = Objs(stack, Run.at, StateAt(stack, Run, csp))
             \/ Leaves(live, Run)
      BY <1>1, <2>1, UnwStateFacts
    <2>3. /\ IsStack(stack) /\ Top = Len(stack) /\ Sorted(live) /\ UnwOK(stack, Top, csp)
          /\ Buried(stack, Top - 1)
      BY <2>1, StateFacts DEF Top
    <2>4. PICK p, i, f, e : p = Run.target /\ i = Run.hit.try /\ f = stack[p].f /\ e = Est(p)
      OBVIOUS
    <2>5. /\ p = Run.at /\ p \in 1 .. Top - 1 /\ Accepts(stack, p, i) /\ stack[p].k \in Scoped
          /\ i \in DOMAIN Tries(f) /\ f \in DOMAIN Prog
      <3>1. Top \in 1 .. Top /\ stack[Top].k = "unw" /\ stack[Top].phase = "land"
        BY <1>1, <2>2
      <3> QED BY <2>2, <2>4, <3>1, UnwPlaces
    <2>6. Range(live) = Objs(stack, p, Try(f, i).low)
      <3>1. Run.state = Try(f, i).low
        BY <1>1, <2>2, <2>3, <2>4 DEF UnwOK
      <3> QED BY <1>1, <2>2, <2>5, <3>1 DEF StateAt, Leaves
    <2>7. PICK a, b : a = Ccb(Run.rec, i) /\ b = CatchFn(f, e, i)
      OBVIOUS
    <2>8. a.k = "ccb" /\ a.try = i
      BY <2>7 DEF Ccb
    <2>9. b.k = "catch" /\ b.f = f /\ b.est = e /\ b.try = i /\ b.ip = Try(f, i).high + 1
      BY <2>7 DEF CatchFn
    <2>10. PICK st2 : st2 = stack'
      OBVIOUS
    <2>11. st2 = SubSeq(stack, 1, p) \o <<a, b>>
      BY <2>4, <2>7, <2>10, Zenon DEF LandInHandler
    <2>12. p \in 1 .. Len(stack) /\ p \in Nat /\ p > 0 /\ p \in 1 .. p
      BY <2>2, <2>3, <2>5
    <2>13. /\ Len(st2) = p + 2 /\ st2[p + 1] = a /\ st2[p + 2] = b
           /\ \A q \in 1 .. p : st2[q] = stack[q]
      BY <2>3, <2>11, <2>12, TwoOnTop
    <2>14. Entered(stack, st2, p, i)
      <3>1. e = EstOf(stack, p)
        BY <2>4 DEF Est, EstOf
      <3> QED BY <2>4, <2>8, <2>9, <2>13, <3>1 DEF Entered
    <2>15. Top' = p + 2 /\ Run' = b /\ Formed(st2, p + 2)
      BY <2>10, <2>13, FormedNext
    <2>16. GroupOK(st2, p + 2)
      BY <2>2, <2>5, <2>12, <2>14, <2>15, HandlerGroup
    <2>17. Objs(st2, p + 2, Try(f, i).high + 1) = Objs(stack, p, Try(f, i).low)
      BY <2>2, <2>4, <2>5, <2>12, <2>14, <2>15, HandlerObjs, SMTT(30)
    <2>18. Buried(st2, (p + 2) - 1)
      <3>1. Buried(stack, p)
        BY <2>2, <2>3, <2>5 DEF Buried
      <3>2. Twins(stack, st2, p)
        BY <2>13, SameTwins
      <3>3. Buried(st2, p)
        BY <2>2, <2>5, <3>1, <3>2, BuriedTwins
      <3>4. BuriedOK(st2, p + 1) /\ (p + 1) - 1 = p /\ (p + 2) - 1 = p + 1
        BY <2>8, <2>12, <2>13, UserPlace
      <3> QED BY <2>12, <3>3, <3>4, BuriedMore
    <2>19. FramesOK(st2, p + 2, csp')
      <3>1. PlaceOK(st2, p + 2) /\ UnwOK(st2, p + 2, csp')
        BY <2>9, <2>13, <2>16, UserPlace
      <3> QED BY <2>18, <3>1 DEF FramesOK
    <2>20. SearchOK' /\ LiveOK'
      <3>1. Run'.k \in User /\ Run' = stack'[Top'] /\ Run'.ip = Try(f, i).high + 1
        BY <2>9, <2>10, <2>13, <2>15 DEF User
      <3>2. Range(live') = Objs(stack', Top', Run'.ip)
        BY <1>1, <2>6, <2>10, <2>15, <2>17, <3>1
      <3> QED BY <3>1, <3>2, ProgramRuns
    <2> QED BY <1>1, <2>3, <2>10, <2>15, <2>19, <2>20
  <1> QED BY <1>2, <1>3, StateIf

LEMMA LandInBuildState ==
    ASSUME EhInv, EhInv', StateInv, LandInBuild
    PROVE  StateInv'
  <1>1. halt' # "no"
    BY DEF LandInBuild, Halted
  <1> QED BY <1>1, StateIf DEF Precise, Running

LEMMA StoppedState ==
    ASSUME StateInv, UNCHANGED vars
    PROVE  StateInv'
  <1>1. UNCHANGED <<mode, stack, halt, csp, rethr, live, stale>>
    BY DEF vars, runtime, ghost
  <1>2. Top' = Top /\ Run' = Run
    BY <1>1 DEF Run, Top
  <1>3. (Precise' <=> Precise) /\ (LiveType' <=> LiveType) /\ Sorted(live') = Sorted(live)
    BY <1>1 DEF Precise, Running, LiveType
  <1>4. FramesOK(stack', Top', csp') = FramesOK(stack, Top, csp)
    BY <1>1, <1>2
  <1>5. Skipped(Run.rec)' = Skipped(Run.rec)
    BY <1>1, <1>2 DEF Skipped
  <1>6. SearchOK' = SearchOK
    BY <1>1, <1>2, <1>5 DEF SearchOK
  <1>7. LiveOK' = LiveOK
    BY <1>1, <1>2, <1>5 DEF LiveOK, LeavesObjects
  <1> QED BY <1>3, <1>4, <1>6, <1>7 DEF StateInv

(* The __except of a catch block: the exception it has caught is raised again. *)
LEMMA LandInCatchBlockState ==
    ASSUME EhInv, EhInv', StateInv, LandInCatchBlock
    PROVE  StateInv'
  <1>1. /\ Run.k = "unw" /\ Run.phase = "scan" /\ Run.at = Run.target /\ stack[Run.at].k = "ccb"
        /\ UNCHANGED <<mode, halt, stale, live>>
    BY DEF LandInCatchBlock, RunIs
  <1>2. Precise' => LiveType'
    BY <1>1 DEF StateInv, LiveType, Precise, Running
  <1>3. ASSUME Precise'
        PROVE  FramesOK(stack', Top', csp') /\ SearchOK' /\ LiveOK' /\ Sorted(live')
    <2>1. Precise
      BY <1>1, <1>3 DEF Precise, Running
    <2>2. /\ Top \in Nat /\ Top > 1 /\ Run = stack[Top] /\ Formed(stack, Top) /\ Run.at \in 1 .. Top - 1
          /\ Formed(stack, Run.at) /\ Own(stack[Run.at])
          /\ stack[Run.target].k = "ccb" => Run.rec = Rethrown
          /\ \/ Range(live) = Objs(stack, Run.at, StateAt(stack, Run, csp))
             \/ Leaves(live, Run)
      BY <1>1, <2>1, UnwStateFacts
    <2>3. /\ IsStack(stack) /\ Top = Len(stack) /\ Sorted(live) /\ Buried(stack, Top - 1)
          /\ mode.fh = 4
      BY <2>1, StateFacts DEF Top
    <2>4. PICK p \in 1 .. Top - 1 : p = Run.target
      BY <1>1, <2>2
    <2>5. /\ p \in Nat /\ p > 0 /\ p \in 0 .. Len(stack) /\ p \in 1 .. p /\ stack[p].k = "ccb"
          /\ Own(stack[p]) /\ Formed(stack, p) /\ p \in 1 .. Top
      BY <1>1, <2>2, <2>3, <2>4
    <2>6. \A x : Range(live) = Objs(stack, p, x)
      <3>1. ~Leaves(live, Run)
        BY <1>1, <2>2 DEF Leaves, Skipped, Rethrown, Foreign
      <3>2. stack[p].k \notin Scoped
        BY <2>5 DEF Scoped
      <3> QED BY <1>1, <2>2, <2>4, <3>1, <3>2, ObjsAnyState
    <2>7. /\ p > 1 /\ p - 1 \in 1 .. p - 1 /\ stack[p - 1].k \in Scoped
      BY <2>5, CcbGroup
    <2>8. PICK cut : cut = SubSeq(stack, 1, p)
      BY Zenon
    <2>9. IsStack(cut) /\ Len(cut) = p /\ \A q \in 1 .. p : cut[q] = stack[q]
      BY <2>3, <2>5, <2>8, CutFrames
    <2>10. PICK c : c = Excepting(stack[p])
      OBVIOUS
    <2>11. c.k = "ccb" /\ c.phase = "except" /\ c.try = stack[p].try
      BY <2>5, <2>10, ExceptingOK
    <2>12. PICK s : s = [cut EXCEPT ![p] = c]
      BY Zenon
    <2>13. IsStack(s) /\ Len(s) = p /\ s[p] = c /\ \A q \in 1 .. p : q # p => s[q] = stack[q]
      <3>1. p \in 1 .. Len(cut)
        BY <2>5, <2>9
      <3>2. Changed(cut, [cut EXCEPT ![p] = c], p, c)
        BY <2>9, <3>1, ChangeFrameTo, Zenon
      <3>3. Changed(cut, s, p, c)
        BY <2>12, <3>2
      <3> QED BY <2>5, <2>9, <3>3 DEF Changed
    <2>14. PICK rec, want : rec = stack[p].rec /\ want = Expected(s, stack[p].rec)
      OBVIOUS
    <2>15. PICK r : r = Raise(rec, p, want)
      OBVIOUS
    <2>16. r.k = "raise" /\ r.phase = "scan" /\ r.at = p
      BY <2>15 DEF Raise
    <2>17. PICK st2 : st2 = stack'
      OBVIOUS
    <2>18. st2 = Append(s, r) /\ csp' = Try(stack[p - 1].f, stack[p].try).catchHigh
      <3>1. PICK s0 : s0 = [SubSeq(stack, 1, p) EXCEPT ![p].phase = "except", ![p].rethrow = TRUE]
        BY Zenon
      <3>2. /\ st2 = Append(s0, Raise(stack[p].rec, p, Expected(s0, stack[p].rec)))
            /\ csp' = IF mode.fh = 4 THEN Try(stack[p - 1].f, stack[p].try).catchHigh ELSE csp
        BY <2>4, <2>17, <3>1, Zenon DEF LandInCatchBlock
      <3>3. s0 = s
        BY <2>5, <2>8, <2>9, <2>10, <2>12, <3>1, Zenon DEF Excepting, IsStack
      <3> QED BY <2>3, <2>14, <2>15, <3>2, <3>3
    <2>19. Len(st2) = p + 1 /\ st2[p + 1] = r /\ \A q \in 1 .. p : st2[q] = s[q]
      BY <2>13, <2>18, PushFrame
    <2>20. Top' = p + 1 /\ Run' = r /\ Formed(st2, p + 1) /\ (p + 1) - 1 = p
      BY <2>5, <2>17, <2>19, FormedNext
    <2>21. st2[p] = c /\ st2[p - 1] = stack[p - 1]
      BY <2>5, <2>7, <2>13, <2>19
    <2>22. Twins(stack, st2, p)
      <3> SUFFICES ASSUME NEW q \in 1 .. p PROVE Twin(stack[q], st2[q])
        BY DEF Twins
      <3> QED BY <2>5, <2>11, <2>13, <2>19 DEF Twin
    <2>23. Buried(st2, p)
      <3>1. Buried(stack, p)
        BY <2>2, <2>3, <2>4 DEF Buried
      <3> QED BY <2>5, <2>22, <3>1, BuriedTwins
    <2>24. FramesOK(st2, p + 1, csp')
      BY <2>16, <2>19, <2>20, <2>23 DEF FramesOK, PlaceOK, GroupOK, BuildOK, AwaitOK, UnwOK
    <2>25. SearchOK'
      <3>1. csp' = Try(st2[p - 1].f, st2[p].try).catchHigh /\ st2[p].k = "ccb" /\ st2[p].k \notin Scoped
        BY <2>11, <2>18, <2>21 DEF Scoped
      <3> QED BY <2>16, <2>17, <2>20, <3>1 DEF SearchOK
    <2>26. LiveOK'
      <3>1. View(st2, p + 1, csp') = Objs(st2, p + 1, r.ip)
        BY <2>16, <2>19 DEF View, ViewState
      <3>2. st2[p + 1].k # "unw" /\ st2[p + 1].k # "ccb" /\ st2[p + 1].k \notin Scoped /\ p + 1 > 0
        BY <2>5, <2>16, <2>19 DEF Scoped
      <3>3. Objs(st2, p + 1, r.ip) = Objs(st2, p, st2[p].ip)
        BY <2>20, <3>2, ObjsDown
      <3>4. Objs(st2, p, st2[p].ip) = Objs(stack, p, st2[p].ip)
        BY <2>5, <2>22, TwinsObjs
      <3>5. View(st2, p + 1, csp') = Range(live)
        BY <2>6, <3>1, <3>3, <3>4
      <3> QED BY <1>1, <2>17, <2>20, <3>5 DEF LiveOK
    <2> QED BY <1>1, <2>3, <2>17, <2>20, <2>24, <2>25, <2>26
  <1> QED BY <1>2, <1>3, StateIf

LEMMA PrefixType ==
    ASSUME NEW S, NEW s \in Seq(S), NEW n \in 0 .. Len(s)
    PROVE  /\ SubSeq(s, 1, n) \in Seq(S)
           /\ Len(SubSeq(s, 1, n)) = n /\ DOMAIN SubSeq(s, 1, n) = 1 .. n
           /\ \A i \in 1 .. n : SubSeq(s, 1, n)[i] = s[i]
  <1>1. SubSeq(s, 1, n) \in Seq(S) /\ Len(SubSeq(s, 1, n)) = n
    OBVIOUS
  <1>2. DOMAIN SubSeq(s, 1, n) = 1 .. n
    BY <1>1
  <1>3. ASSUME NEW i \in 1 .. n PROVE SubSeq(s, 1, n)[i] = s[i]
    OBVIOUS
  <1> QED BY <1>1, <1>2, <1>3

(* Without the objects of the frames above m. *)
LEMMA LivePrefix ==
    ASSUME NEW lv, lv \in Seq(Nat \X Nat), Sorted(lv), NEW m \in Nat,
           NEW n, n = Max({0} \cup {i \in DOMAIN lv : lv[i][1] <= m})
    PROVE  /\ Range(SubSeq(lv, 1, n)) = Below(lv, m) /\ Sorted(SubSeq(lv, 1, n))
           /\ SubSeq(lv, 1, n) \in Seq(Nat \X Nat)
  <1>1. /\ Len(lv) \in Nat /\ DOMAIN lv = 1 .. Len(lv)
        /\ \A i \in 1 .. Len(lv) : lv[i] \in Nat \X Nat /\ lv[i][1] \in Nat /\ lv[i][2] \in Nat
        /\ \A o : o \in Range(lv) <=> \E i \in 1 .. Len(lv) : o = lv[i]
    BY LiveFacts
  <1>2. PICK S : S = {0} \cup {i \in DOMAIN lv : lv[i][1] <= m}
    BY Zenon
  <1>3. S \subseteq 0 .. Len(lv) /\ S # {}
    BY <1>1, <1>2
  <1>4. n \in S /\ \A i \in S : i <= n
    BY <1>1, <1>2, <1>3, MaxIsGreatest, Zenon
  <1>5. n \in Nat /\ n <= Len(lv)
    BY <1>1, <1>3, <1>4
  <1>6. ASSUME NEW i \in 1 .. Len(lv) PROVE lv[i][1] <= m <=> i <= n
    <2>1. CASE lv[i][1] <= m
      BY <1>1, <1>2, <1>4, <2>1
    <2>2. CASE ~(lv[i][1] <= m) /\ i <= n
      <3>1. n \in 1 .. Len(lv) /\ lv[n][1] <= m
        BY <1>1, <1>2, <1>4, <1>5, <2>2
      <3>2. i # n
        BY <2>2, <3>1
      <3>3. Older(lv[i], lv[n])
        BY <1>5, <2>2, <3>1, <3>2, SMTT(30) DEF Sorted
      <3> QED BY <1>1, <2>2, <3>1, <3>3 DEF Older
    <2> QED BY <2>1, <2>2
  <1>7. PICK lw : lw = SubSeq(lv, 1, n)
    BY Zenon
  <1>8. /\ lw \in Seq(Nat \X Nat) /\ Len(lw) = n /\ DOMAIN lw = 1 .. n
        /\ \A i \in 1 .. n : lw[i] = lv[i]
    <2>1. PICK P : P = Nat \X Nat
      BY Zenon
    <2>2. lv \in Seq(P)
      BY <2>1
    <2>3. n \in 0 .. Len(lv)
      BY <1>1, <1>5
    <2>4. /\ SubSeq(lv, 1, n) \in Seq(P)
          /\ Len(SubSeq(lv, 1, n)) = n /\ DOMAIN SubSeq(lv, 1, n) = 1 .. n
          /\ \A i \in 1 .. n : SubSeq(lv, 1, n)[i] = lv[i]
      BY <2>2, <2>3, PrefixType, Zenon
    <2> QED BY <1>7, <2>1, <2>4, Zenon
  <1>9. ASSUME NEW o PROVE o \in Range(lw) <=> o \in Below(lv, m)
    <2>1. o \in Range(lw) <=> \E i \in 1 .. n : o = lv[i]
      BY <1>8, Zenon DEF Range
    <2>2. o \in Below(lv, m) <=> \E i \in 1 .. Len(lv) : o = lv[i] /\ lv[i][1] <= m
      BY <1>1 DEF Below
    <2>3. ASSUME o \in Range(lw) PROVE o \in Below(lv, m)
      <3>1. PICK i \in 1 .. n : o = lv[i]
        BY <2>1, <2>3
      <3>2. i \in 1 .. Len(lv) /\ i <= n
        BY <1>1, <1>5
      <3>3. lv[i][1] <= m
        BY <1>6, <3>2, Zenon
      <3> QED BY <2>2, <3>1, <3>2, <3>3, Zenon
    <2>4. ASSUME o \in Below(lv, m) PROVE o \in Range(lw)
      <3>1. PICK i \in 1 .. Len(lv) : o = lv[i] /\ lv[i][1] <= m
        BY <2>2, <2>4
      <3>2. i <= n
        BY <1>6, <3>1, Zenon
      <3>3. i \in 1 .. n
        BY <1>1, <1>5, <3>2
      <3> QED BY <2>1, <3>1, <3>3, Zenon
    <2> QED BY <2>3, <2>4
  <1>10. Sorted(lw)
    <2> SUFFICES ASSUME NEW i \in 1 .. n, NEW j \in 1 .. n, i < j PROVE Older(lw[i], lw[j])
      BY <1>8, Zenon DEF Sorted
    <2>1. i \in 1 .. Len(lv) /\ j \in 1 .. Len(lv) /\ lw[i] = lv[i] /\ lw[j] = lv[j]
      <3>1. i \in 1 .. Len(lv) /\ j \in 1 .. Len(lv)
        BY <1>1, <1>5, SMTT(30)
      <3> QED BY <1>8, <3>1, Zenon
    <2> QED BY <2>1, Zenon DEF Sorted
  <1> QED BY <1>7, <1>8, <1>9, <1>10, Zenon

LEMMA ObjsOfSeh ==
    ASSUME NEW st, NEW st2, NEW n, Formed(st, n), Formed(st2, n), n > 0,
           \A q \in 1 .. n - 1 : st2[q] = st[q], st[n].k = "seh", st2[n].k = "seh", NEW x, NEW y
    PROVE  Objs(st2, n, y) = Objs(st, n, x)
  <1>1. n \in Nat
    BY DEF Formed
  <1>2. /\ Objs(st, n, x) = Objs(st, n - 1, st[n - 1].ip)
        /\ Objs(st2, n, y) = Objs(st2, n - 1, st2[n - 1].ip)
    BY <1>1, ObjsDown DEF Scoped
  <1>3. CASE n = 1
    BY <1>2, <1>3, ObjsZero
  <1>4. CASE n # 1
    <2>1. st2[n - 1] = st[n - 1] /\ n - 1 \in Nat
      BY <1>1, <1>4
    <2>2. Twins(st, st2, n - 1)
      BY SameTwins
    <2>3. Objs(st2, n - 1, st[n - 1].ip) = Objs(st, n - 1, st[n - 1].ip)
      BY <2>1, <2>2, TwinsObjs
    <2> QED BY <1>2, <2>1, <2>3
  <1> QED BY <1>3, <1>4

LEMMA LandInSehState ==
    ASSUME EhInv, EhInv', StateInv, LandInSeh
    PROVE  StateInv'
  <1>1. /\ Run.k = "unw" /\ Run.phase = "scan" /\ Run.at = Run.target /\ stack[Run.at].k = "seh"
        /\ UNCHANGED <<mode, halt, stale>>
    BY DEF LandInSeh, RunIs
  <1>2. ASSUME Precise'
        PROVE  /\ FramesOK(stack', Top', csp') /\ SearchOK' /\ LiveOK' /\ Sorted(live')
               /\ live' \in Seq(Nat \X Nat)
    <2>1. Precise
      BY <1>1, <1>2 DEF Precise, Running
    <2>2. /\ Top \in Nat /\ Top > 1 /\ Run = stack[Top] /\ Formed(stack, Top) /\ Run.at \in 1 .. Top - 1
          /\ Formed(stack, Run.at)
          /\ \/ Range(live) = Objs(stack, Run.at, StateAt(stack, Run, csp))
             \/ Leaves(live, Run)
      BY <1>1, <2>1, UnwStateFacts
    <2>3. /\ IsStack(stack) /\ Top = Len(stack) /\ Sorted(live) /\ Buried(stack, Top - 1)
          /\ live \in Seq(Nat \X Nat) /\ \A q \in 1 .. Top : GroupOK(stack, q)
      BY <2>1, StateFacts DEF Top
    <2>4. PICK p \in 1 .. Top - 1 : p = Run.target
      BY <1>1, <2>2
    <2>5. /\ p \in Nat /\ p > 0 /\ p \in 0 .. Len(stack) /\ p \in 1 .. p /\ stack[p].k = "seh"
          /\ Formed(stack, p) /\ p - 1 \in Nat
      BY <1>1, <2>2, <2>3, <2>4
    <2>6. Range(live') = Below(live, p) /\ Sorted(live') /\ live' \in Seq(Nat \X Nat)
      <3>1. PICK n : n = Max({0} \cup {i \in DOMAIN live : live[i][1] <= p})
        BY Zenon
      <3>2. live' = SubSeq(live, 1, n)
        BY <2>4, <3>1 DEF LandInSeh
      <3> QED BY <2>3, <2>5, <3>1, <3>2, LivePrefix, Zenon
    <2>7. Below(live, p) = Objs(stack, p, EH_EMPTY_STATE)
      <3>1. CASE Range(live) = Objs(stack, Run.at, StateAt(stack, Run, csp))
        <4>1. PICK x : x = StateAt(stack, Run, csp)
          OBVIOUS
        <4>2. Seen(stack, p, p) /\ \A q \in 1 .. p : GroupOK(stack, q)
          BY <2>2, <2>3, <2>5, SeenItself
        <4>3. {o \in Objs(stack, p, x) : o[1] <= p} = Objs(stack, p, EH_EMPTY_STATE)
          BY <2>5, <4>2, ObjsDivided
        <4>4. Range(live) = Objs(stack, p, x)
          BY <1>1, <2>4, <3>1, <4>1
        <4> QED BY <4>3, <4>4 DEF Below
      <3>2. CASE Leaves(live, Run)
        BY <2>4, <2>5, <3>2 DEF Leaves
      <3> QED BY <2>2, <3>1, <3>2
    <2>8. PICK cut : cut = SubSeq(stack, 1, p)
      BY Zenon
    <2>9. IsStack(cut) /\ Len(cut) = p /\ \A q \in 1 .. p : cut[q] = stack[q]
      BY <2>3, <2>5, <2>8, CutFrames
    <2>10. PICK fr : fr = [cut[p] EXCEPT !.ip = EH_EMPTY_STATE]
      BY Zenon
    <2>11. fr.k = "seh" /\ fr.ip = EH_EMPTY_STATE
      <3>1. Own(cut[p]) /\ cut[p].k = "seh"
        BY <2>5, <2>9 DEF Formed
      <3> QED BY <2>10, <3>1 DEF Own, OwnSeh, SehFields
    <2>12. PICK st2 : st2 = stack'
      OBVIOUS
    <2>13. Len(st2) = p /\ st2[p] = fr /\ \A q \in 1 .. p - 1 : st2[q] = stack[q]
      <3>1. p \in 1 .. Len(cut)
        BY <2>5, <2>9
      <3>2. st2 = [cut EXCEPT ![p].ip = EH_EMPTY_STATE]
        BY <2>4, <2>8, <2>12, Zenon DEF LandInSeh
      <3>3. st2 = [cut EXCEPT ![p] = fr]
        BY <2>10, <3>2
      <3>4. Changed(cut, st2, p, fr)
        BY <2>9, <3>1, <3>3, ChangeFrameTo, Zenon
      <3>5. Len(st2) = p /\ st2[p] = fr /\ \A q \in 1 .. p : q # p => st2[q] = cut[q]
        BY <2>9, <3>4 DEF Changed
      <3> QED BY <2>5, <2>9, <3>5
    <2>14. Top' = p /\ Run' = fr /\ Formed(st2, p)
      BY <2>12, <2>13, FormedNext
    <2>15. Buried(st2, p - 1)
      <3>1. Buried(stack, p - 1)
        BY <2>2, <2>3, <2>4 DEF Buried
      <3>2. Twins(stack, st2, p - 1) /\ Formed(stack, p - 1)
        BY <2>5, <2>13, SameTwins, FormedLess
      <3> QED BY <2>5, <3>1, <3>2, BuriedTwins
    <2>16. FramesOK(st2, p, csp')
      <3>1. PlaceOK(st2, p) /\ UnwOK(st2, p, csp')
        BY <2>11, <2>13, UserPlace
      <3> QED BY <2>15, <3>1 DEF FramesOK
    <2>17. Objs(st2, p, EH_EMPTY_STATE) = Objs(stack, p, EH_EMPTY_STATE)
      BY <2>5, <2>11, <2>13, <2>14, ObjsOfSeh
    <2>18. SearchOK' /\ LiveOK'
      <3>1. Run'.k \in User /\ Run' = stack'[Top'] /\ Run'.ip = EH_EMPTY_STATE
        BY <2>11, <2>12, <2>13, <2>14 DEF User
      <3>2. Range(live') = Objs(stack', Top', Run'.ip)
        BY <2>6, <2>7, <2>12, <2>14, <2>17, <3>1
      <3> QED BY <3>1, <3>2, ProgramRuns
    <2> QED BY <2>6, <2>12, <2>14, <2>16, <2>18
  <1> QED BY <1>2, StateIf DEF LiveType

(* A handler falls off its end. *)
LEMMA CatchDoneState ==
    ASSUME EhInv, EhInv', StateInv, CatchDone
    PROVE  StateInv'
  <1>1. /\ Run.k = "catch" /\ Run.k \in User /\ Run.k \in Scoped /\ Run.ip = Base(Top)
        /\ UNCHANGED <<mode, halt, stale, live>>
    BY DEF CatchDone, RunIsUser, User, Scoped
  <1>2. Precise' => LiveType'
    BY <1>1 DEF StateInv, LiveType, Precise, Running
  <1>3. ASSUME Precise'
        PROVE  FramesOK(stack', Top', csp') /\ SearchOK' /\ LiveOK' /\ Sorted(live')
    <2>1. Precise
      BY <1>1, <1>3 DEF Precise, Running
    <2>2. /\ Top \in Nat /\ Formed(stack, Top) /\ Run = stack[Top] /\ Top \in 1 .. Top
          /\ IsStack(stack) /\ Top = Len(stack) /\ Sorted(live) /\ Buried(stack, Top - 1)
          /\ mode.fh = 4 /\ \A q \in 1 .. Top : GroupOK(stack, q)
      BY <2>1, StateFacts DEF Top
    <2>3. PICK f, i, n : f = Run.f /\ i = Run.try /\ n = Top - 2
      OBVIOUS
    <2>4. /\ Top > 2 /\ n \in 1 .. Top /\ stack[Top - 1].k = "ccb" /\ stack[Top - 1].try = i
          /\ stack[n].k \in Scoped /\ stack[n].f = f /\ f \in DOMAIN Prog /\ i \in DOMAIN Tries(f)
      BY <1>1, <2>2, <2>3, CatchGroup
    <2>5. /\ n \in Nat /\ n > 0 /\ n + 1 = Top - 1 /\ n + 2 = Top /\ n \in 0 .. Len(stack) /\ n \in 1 .. n
          /\ Formed(stack, n) /\ Formed(stack, n + 2) /\ GroupOK(stack, n) /\ n - 1 \in Nat
      BY <2>2, <2>3, <2>4, FormedLess
    <2>6. Range(live) = Objs(stack, n, Try(f, i).low)
      <3>1. Range(live) = Objs(stack, Top, Run.ip)
        BY <1>1, <2>1, ProgramState
      <3>2. Run.ip = Try(f, i).high + 1
        BY <1>1, <2>2, <2>3 DEF Base
      <3>3. Entered(stack, stack, n, i)
        <4>1. stack[Top].est = EstOf(stack, n)
          BY <1>1, <2>2, <2>3 DEF GroupOK
        <4> QED BY <1>1, <2>2, <2>3, <2>4, <2>5, <3>2, <4>1 DEF Entered
      <3>4. Objs(stack, n + 2, Try(f, i).high + 1) = Objs(stack, n, Try(f, i).low)
        BY <2>4, <2>5, <3>3, HandlerObjs
      <3> QED BY <2>5, <3>1, <3>2, <3>4
    <2>7. PICK o : o = Outside(f, i)
      OBVIOUS
    <2>8. PICK cut : cut = SubSeq(stack, 1, n)
      BY Zenon
    <2>9. IsStack(cut) /\ Len(cut) = n /\ \A q \in 1 .. n : cut[q] = stack[q]
      BY <2>2, <2>5, <2>8, CutFrames, Zenon
    <2>10. PICK fr : fr = [cut[n] EXCEPT !.ip = o]
      BY Zenon
    <2>11. /\ fr.k = stack[n].k /\ fr.f = f /\ fr.ip = o
           /\ stack[n].k = "catch" => fr.est = stack[n].est /\ fr.try = stack[n].try
      <3>1. Own(cut[n]) /\ cut[n] = stack[n]
        BY <2>5, <2>9 DEF Formed
      <3> QED BY <2>4, <2>10, <3>1 DEF Own, OwnFn, OwnCatch, FnFields, CatchFields, Scoped
    <2>12. PICK st2 : st2 = stack'
      OBVIOUS
    <2>13. Len(st2) = n /\ st2[n] = fr /\ \A q \in 1 .. n - 1 : st2[q] = stack[q]
      <3>1. n \in 1 .. Len(cut)
        BY <2>5, <2>9
      <3>2. st2 = [cut EXCEPT ![n].ip = o]
        <4>1. st2 = IF mode.fh = 3
                    THEN [[cut EXCEPT ![n].ip = o] EXCEPT ![Run.est].us = INVALID_STATE, ![Run.est].ut = -1]
                    ELSE [cut EXCEPT ![n].ip = o]
          BY <2>3, <2>7, <2>8, <2>12, Zenon DEF CatchDone
        <4> QED BY <2>2, <4>1
      <3>3. st2 = [cut EXCEPT ![n] = fr]
        BY <2>10, <3>2
      <3>4. Changed(cut, st2, n, fr)
        BY <2>9, <3>1, <3>3, ChangeFrameTo, Zenon
      <3>5. Len(st2) = n /\ st2[n] = fr /\ \A q \in 1 .. n : q # n => st2[q] = cut[q]
        BY <2>9, <3>4 DEF Changed
      <3> QED BY <2>5, <2>9, <3>5
    <2>14. Top' = n /\ Run' = fr /\ Formed(st2, n)
      BY <2>12, <2>13, FormedNext
    <2>15. Twins(stack, st2, n - 1)
      BY <2>13, SameTwins
    <2>16. Buried(st2, n - 1)
      <3>1. Buried(stack, n - 1)
        BY <2>2, <2>3, <2>5 DEF Buried
      <3>2. Formed(stack, n - 1)
        BY <2>5, FormedLess
      <3> QED BY <2>5, <2>15, <3>1, <3>2, BuriedTwins
    <2>17. GroupOK(st2, n)
      BY <2>4, <2>5, <2>11, <2>13, <2>15, GroupAlike
    <2>18. FramesOK(st2, n, csp')
      <3>1. PlaceOK(st2, n) /\ UnwOK(st2, n, csp')
        BY <2>4, <2>11, <2>13, <2>17, UserPlace DEF Scoped
      <3> QED BY <2>16, <3>1 DEF FramesOK
    <2>19. PICK e : e = EstOf(stack, n)
      OBVIOUS
    <2>20. OwnAndBelow(stack, st2, n, f, e)
      <3>1. EstOf(st2, n) = EstOf(stack, n)
        BY <2>4, <2>11, <2>13 DEF EstOf
      <3> QED BY <2>4, <2>5, <2>11, <2>13, <2>14, <2>19, <3>1, ObjsOfTop, Zenon
    <2>21. Range(live) = Objs(st2, n, o)
      <3>1. PICK B : \A x : /\ Objs(stack, n, x) = Objects(f, e, x) \cup B
                            /\ Objs(st2, n, x) = Objects(f, e, x) \cup B
        BY <2>20 DEF OwnAndBelow
      <3>2. Objects(f, e, Try(f, i).low) = Objects(f, e, o)
        BY <2>4, <2>7, ObjectsOfTry
      <3> QED BY <2>6, <3>1, <3>2
    <2>22. SearchOK' /\ LiveOK'
      <3>1. Run'.k \in User /\ Run' = stack'[Top'] /\ Run'.ip = o
        BY <2>4, <2>11, <2>12, <2>13, <2>14 DEF User, Scoped
      <3>2. Range(live') = Objs(stack', Top', Run'.ip)
        BY <1>1, <2>12, <2>14, <2>21, <3>1
      <3> QED BY <3>1, <3>2, ProgramRuns
    <2> QED BY <1>1, <2>2, <2>12, <2>14, <2>18, <2>22
  <1> QED BY <1>2, <1>3, StateIf

LEMMA NextState ==
    ASSUME EhInv, EhInv', StateInv, [Next]_vars
    PROVE  StateInv'
  <1>1. CASE Program
    BY <1>1, EnterScopeState, LeaveScopeState, CallState, ReturnState, ThrowState, RethrowState,
       FaultState, CatchDoneState DEF Program
  <1>2. CASE Search
    BY <1>2, SearchCxxState, CatchObjectBuiltState, SearchSehState, SearchCatchBlockState,
       SearchDispatcherState, SearchUnwindState, SearchFailsState DEF Search
  <1>3. CASE Unwind
    BY <1>3, UnwindCxxState, UnwindStateState, FrameUnwoundState, UnwindCatchBlockState,
       UnwindOtherState, UnwindUnwindState, LandInHandlerState, LandInCatchBlockState,
       LandInSehState, LandInBuildState
    DEF Unwind
  <1>4. CASE UNCHANGED vars
    BY <1>4, StoppedState
  <1> QED BY <1>1, <1>2, <1>3, <1>4 DEF Next, Stopped

(* At the start main is in no scope. *)
LEMMA FirstState ==
    ASSUME Init
    PROVE  StateInv
  <1>1. EhInv
    BY InitHolds
  <1>2. live = <<>>
    BY DEF Init
  <1>3. PICK fr : fr = Fn("main")
    OBVIOUS
  <1>4. stack = <<fr>>
    BY <1>3 DEF Init
  <1>5. /\ fr.k = "fn" /\ fr.ip = EH_EMPTY_STATE
    BY <1>3 DEF Fn
  <1>6. Top = 1 /\ stack[1] = fr /\ Run = fr
    BY <1>4 DEF Top, Run
  <1>7. /\ Formed(stack, 1)
    <2>1. \A q \in 1 .. 1 : q = 1
      OBVIOUS
    <2>2. Own(stack[1]) /\ Down(stack, 1)
      BY <1>1, <1>6, StackFacts DEF EhInv
    <2> QED BY <2>1, <2>2 DEF Formed
  <1>8. fr.f \in DOMAIN Prog
    BY <1>5, <1>6, <1>7 DEF Formed, Own, OwnFn
  <1>9. Objs(stack, 1, EH_EMPTY_STATE) = {}
    <2>1. stack[1].k # "unw" /\ stack[1].k # "ccb" /\ stack[1].k \in Scoped
      BY <1>5, <1>6 DEF Scoped
    <2>2. Objs(stack, 1, EH_EMPTY_STATE) =
              Objects(fr.f, EstOf(stack, 1), EH_EMPTY_STATE) \cup Objs(stack, 0, stack[0].ip)
      BY <1>6, <1>7, <2>1, ObjsDown
    <2> QED BY <1>8, <2>2, ObjsZero, ObjectsEmpty
  <1>10. Range(live) = {} /\ Sorted(live) /\ LiveType
    BY <1>2 DEF Range, Sorted, LiveType
  <1>11. FramesOK(stack, Top, csp)
    BY <1>5, <1>6, UserPlace DEF FramesOK, Buried
  <1>12. SearchOK /\ LiveOK
    <2>1. View(stack, Top, csp) = Objs(stack, 1, EH_EMPTY_STATE)
      BY <1>5, <1>6 DEF View, ViewState
    <2> QED BY <1>5, <1>6, <1>9, <1>10, <2>1 DEF SearchOK, LiveOK
  <1> QED BY <1>10, <1>11, <1>12 DEF StateInv

(* In FH4, as long as no search or unwind took the ip of a frame that had been left
   or partly unwound for its state: the state that every frame handler is called with,
   and the one it has reached when a destructor runs, is the state the frame is in; a
   catch block belongs to the function whose try block it is; an unwind finds the frame
   that catches inside of the try block found by the search. *)
THEOREM StatesAreRight == Spec => []StateInv
  <1>1. Init => EhInv /\ StateInv
    BY InitHolds, FirstState
  <1>2. EhInv /\ StateInv /\ [Next]_vars => EhInv' /\ StateInv'
    BY NextHolds, NextState
  <1> QED BY <1>1, <1>2, PTL DEF Spec

-----------------------------------------------------------------------------
(* The states of the invariant and those read off the stack *)

LEMMA AboveIs ==
    ASSUME NEW st, IsStack(st), NEW n, n = Len(st), NEW p \in 1 .. n, NEW q \in p + 1 .. n + 1,
           q <= n => Seen(st, n, q), \A r \in p + 1 .. q - 1 : ~Seen(st, n, r)
    PROVE  Above(st, p) = q
  <1>1. n \in Nat /\ q \in Nat /\ p \in Nat
    BY StackDomain
  <1>2. PICK S : S = {r \in p + 1 .. Len(st) : Visible(st, r)} \cup {Len(st) + 1}
    BY Zenon
  <1>3. \A r : Visible(st, r) <=> Seen(st, n, r)
    BY VisibleIsSeen
  <1>4. S = {r \in p + 1 .. n : Seen(st, n, r)} \cup {n + 1}
    BY <1>2, <1>3
  <1>5. S \subseteq Nat /\ S # {} /\ q \in S
    BY <1>1, <1>4
  <1>6. \A r \in S : q <= r
    BY <1>1, <1>4
  <1>7. Min(S) \in S /\ \A r \in S : Min(S) <= r
    BY <1>5, MinIsLeast, Zenon
  <1>8. Min(S) = q
    <2>1. PICK t : t = Min(S)
      OBVIOUS
    <2>2. t \in Nat /\ t <= q /\ q <= t
      BY <1>5, <1>6, <1>7, <2>1, Zenon
    <2>3. t = q
      BY <1>1, <2>2
    <2> QED BY <2>1, <2>3
  <1> QED BY <1>2, <1>8 DEF Above

LEMMA AboveCovered ==
    ASSUME NEW st, IsStack(st), NEW n, n = Len(st), Formed(st, n), NEW p \in 1 .. n,
           NEW u \in Covers(st, n, p)
    PROVE  Above(st, p) = u /\ u <= n /\ st[u].k = "unw" /\ Cur(st, n, p) = st[u].state
  <1>1. /\ n \in Nat /\ u \in 1 .. n /\ st[u].k = "unw" /\ Seen(st, n, u) /\ st[u].at = p
        /\ p < u
    BY UnwAt, Zenon DEF Covers, Formed
  <1>2. \A r \in p + 1 .. u - 1 : ~Seen(st, n, r)
    BY <1>1 DEF Seen
  <1>3. u \in p + 1 .. n + 1
    BY <1>1
  <1> QED BY <1>1, <1>2, <1>3, AboveIs, CoversOne

LEMMA AboveUncovered ==
    ASSUME NEW st, IsStack(st), NEW n, n = Len(st), Formed(st, n), NEW p \in 1 .. n,
           Seen(st, n, p), Covers(st, n, p) = {}
    PROVE  Above(st, p) = p + 1 /\ (p < n => st[p + 1].k # "unw")
  <1>1. n \in Nat /\ p \in Nat
    BY DEF Formed
  <1>2. ASSUME NEW w \in 1 .. n, st[w].k = "unw", st[w].at = p PROVE FALSE
    <2>1. PICK W : W = {v \in 1 .. n : st[v].k = "unw" /\ st[v].at = p}
      BY Zenon
    <2>2. PICK v \in W : \A y \in W : y <= v
      <3>1. W # {} /\ W \subseteq 0 .. n
        BY <1>2, <2>1
      <3> QED BY <1>1, <3>1, MaxIsGreatest, Zenon
    <2>3. v \in 1 .. n /\ st[v].k = "unw" /\ st[v].at = p /\ p < v
      BY <2>1, <2>2, UnwAt
    <2>4. PICK w2 \in 1 .. n : st[w2].k = "unw" /\ st[w2].at < v /\ v < w2
      BY <2>3 DEF Covers, Seen
    <2>5. /\ st[w2].at \in Nat /\ st[w2].at < w2 /\ Respects(st, w2, st[w2].at)
      BY <2>4, UnwAt
    <2>6. ~(st[w2].at < p)
      BY <1>1, <2>3, <2>4 DEF Seen
    <2>7. st[w2].at # p
      BY <1>1, <2>1, <2>2, <2>4
    <2>8. p < st[w2].at
      BY <1>1, <2>5, <2>6, <2>7
    <2> QED BY <2>3, <2>4, <2>5, <2>8 DEF Respects
  <1>3. ASSUME NEW w \in 1 .. n, st[w].k = "unw", st[w].at < p + 1, p + 1 <= w PROVE FALSE
    <2>1. st[w].at \in Nat /\ w \in Nat
      BY <1>3, UnwAt
    <2>2. st[w].at < p /\ p < w
      BY <1>1, <1>2, <1>3, <2>1
    <2> QED BY <1>3, <2>2 DEF Seen
  <1>4. p < n => Seen(st, n, p + 1)
    BY <1>1, <1>3 DEF Seen
  <1>5. ASSUME p < n PROVE st[p + 1].k # "unw"
    <2>1. p + 1 \in 1 .. n
      BY <1>1, <1>5
    <2>2. st[p + 1].k = "unw" => st[p + 1].at < p + 1
      BY <2>1, UnwAt
    <2> QED BY <1>1, <1>3, <2>1, <2>2
  <1>6. p + 1 \in p + 1 .. n + 1 /\ (p + 1 <= n => Seen(st, n, p + 1))
        /\ \A r \in p + 1 .. (p + 1) - 1 : ~Seen(st, n, r)
    BY <1>1, <1>4
  <1>7. Above(st, p) = p + 1
    BY <1>6, AboveIs
  <1> QED BY <1>5, <1>7

(* The state a frame is in for what is above it: StateNow and Cur have the same objects. *)
LEMMA SameState ==
    ASSUME EhInv, NEW p \in 1 .. Top, stack[p].k \in Scoped, Seen(stack, Top, p), NEW e
    PROVE  Objects(stack[p].f, e, StateNow(p)) = Objects(stack[p].f, e, Cur(stack, Top, p))
  <1>1. /\ IsStack(stack) /\ Top = Len(stack) /\ Formed(stack, Top) /\ Top \in Nat
    BY StackFacts DEF EhInv, Formed, Top
  <1>2. CASE Covers(stack, Top, p) # {}
    <2>1. PICK u : u \in Covers(stack, Top, p)
      BY <1>2
    <2>2. Above(stack, p) = u /\ u <= Top /\ stack[u].k = "unw" /\ Cur(stack, Top, p) = stack[u].state
      BY <1>1, <2>1, AboveCovered
    <2>3. StateNow(p) = Cur(stack, Top, p)
      BY <2>2, Zenon DEF StateNow
    <2> QED BY <2>3
  <1>3. CASE Covers(stack, Top, p) = {}
    <2>1. Above(stack, p) = p + 1 /\ (p < Top => stack[p + 1].k # "unw")
      BY <1>1, <1>3, AboveUncovered
    <2>2. p + 1 <= Top <=> p < Top
      BY <1>1
    <2>3. StateNow(p) = StateFor(stack, p)
      <3>1. ~(p + 1 <= Top /\ stack[p + 1].k = "unw")
        BY <2>1, <2>2
      <3> QED BY <2>1, <3>1, Zenon DEF StateNow
    <2>4. CASE p < Top /\ stack[p + 1].k = "ccb"
      <3>1. StateFor(stack, p) = Outside(stack[p].f, stack[p + 1].try)
        BY <1>1, <2>1, <2>2, <2>4, Zenon DEF StateFor
      <3>2. p + 1 \in 1 .. Top /\ (p + 1) - 1 = p
        BY <1>1, <2>4
      <3>3. /\ stack[p].f \in DOMAIN Prog /\ stack[p + 1].try \in DOMAIN Tries(stack[p].f)
            /\ LowOf(stack, p + 1) = Try(stack[p].f, stack[p + 1].try).low
        BY <1>1, <2>4, <3>2, CcbGroup
      <3>4. Cur(stack, Top, p) = LowOf(stack, p + 1)
        BY <1>3, <2>4, CoversNone
      <3> QED BY <2>3, <3>1, <3>3, <3>4, ObjectsOfTry
    <2>5. CASE ~(p < Top /\ stack[p + 1].k = "ccb")
      <3>1. StateFor(stack, p) = stack[p].ip
        BY <1>1, <2>1, <2>2, <2>5, Zenon DEF StateFor
      <3>2. Cur(stack, Top, p) = stack[p].ip
        BY <1>3, <2>5, CoversNone
      <3> QED BY <2>3, <3>1, <3>2
    <2> QED BY <2>4, <2>5
  <1> QED BY <1>2, <1>3

LEMMA ActiveIs ==
    ASSUME EhInv
    PROVE  Active = Objs(stack, Top, Cur(stack, Top, Top))
  <1>1. IsStack(stack) /\ Top = Len(stack)
    BY StackFacts DEF EhInv, Top
  <1>2. \A p : p \in 1 .. Top /\ stack[p].k \in {"fn", "catch"} /\ Visible(stack, p)
                  <=> p \in ScopedIn(stack, Top)
    BY <1>1, VisibleIsSeen DEF ScopedIn, Scoped
  <1>3. ASSUME NEW p \in ScopedIn(stack, Top)
        PROVE  /\ Objects(stack[p].f, EstOf(stack, p), IF p = Top THEN Cur(stack, Top, Top) ELSE Cur(stack, Top, p))
                      = Objects(stack[p].f, Est(p), StateNow(p))
    <2>1. p \in 1 .. Top /\ stack[p].k \in Scoped /\ Seen(stack, Top, p)
      BY DEF ScopedIn
    <2>2. Est(p) = EstOf(stack, p)
      BY DEF Est, EstOf
    <2>3. (IF p = Top THEN Cur(stack, Top, Top) ELSE Cur(stack, Top, p)) = Cur(stack, Top, p)
      OBVIOUS
    <2> QED BY <2>1, <2>2, <2>3, SameState
  <1>4. ASSUME NEW o
        PROVE  o \in Active <=> \E p \in ScopedIn(stack, Top) :
                                    o \in Objects(stack[p].f, Est(p), StateNow(p))
    <2>1. o \in Active <=> \E p \in {p \in 1 .. Top : stack[p].k \in {"fn", "catch"} /\ Visible(stack, p)} :
              o \in {<<Est(p), s>> : s \in {s \in Around(stack[p].f)[StateNow(p)] :
                                              UWE_ACTION(stack[p].f, s) # "none"}}
      BY Zenon DEF Active
    <2> QED BY <1>2, <2>1, Zenon DEF Objects
  <1>5. ASSUME NEW o
        PROVE  o \in Objs(stack, Top, Cur(stack, Top, Top)) <=>
                   \E p \in ScopedIn(stack, Top) : o \in Objects(stack[p].f, Est(p), StateNow(p))
    <2>1. o \in Objs(stack, Top, Cur(stack, Top, Top)) <=>
              \E p \in ScopedIn(stack, Top) :
                  o \in Objects(stack[p].f, EstOf(stack, p),
                                IF p = Top THEN Cur(stack, Top, Top) ELSE Cur(stack, Top, p))
      BY ObjsAre
    <2> QED BY <1>3, <2>1
  <1> QED BY <1>4, <1>5

(* In FH4, while the program runs and no search has started from a state that was out of
   date, the objects that exist on the stack are those of the scopes that the program is
   in, less what an unwind in progress has destroyed: FrameUnwindToState, the catch blocks
   and the return of the functions destroy each object when its scope is left, and no
   object of another scope. *)
THEOREM ObjectsOfScopesLive == Spec => [](mode.fh = 4 => LiveIsActive)
  <1>1. EhInv /\ StateInv => (mode.fh = 4 => LiveIsActive)
    <2> SUFFICES ASSUME EhInv, StateInv, mode.fh = 4, RunIsUser, StateTrusted
                 PROVE  Range(live) = Active
      BY DEF LiveIsActive
    <2>1. Precise /\ Run.k \in User
      BY DEF Precise, RunIsUser, StateTrusted
    <2>2. Range(live) = Objs(stack, Top, Run.ip)
      BY <2>1, ProgramState
    <2>3. /\ Formed(stack, Top) /\ Run = stack[Top] /\ Top \in Nat
      BY <2>1, StateFacts
    <2>4. Cur(stack, Top, Top) = Run.ip
      <3>1. Covers(stack, Top, Top) = {}
        BY <2>1, <2>3, CoversTop DEF User
      <3> QED BY <2>3, <3>1, CoversNone
    <2> QED BY <2>2, <2>4, ActiveIs
  <1> QED BY <1>1, FramesAreRight, StatesAreRight, PTL
=============================================================================
