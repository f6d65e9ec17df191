------------------------------ MODULE EhTables ------------------------------
(***************************************************************************)
(* The tables a compiler emits for a function with C++ exception handling  *)
(* (ehdata.h) and what the frame handler reads from them: the try blocks   *)
(* to consider, the catch a state belongs to, the matching handler.        *)
(* States are numbered as the x64 compiler does: a try block covers        *)
(* low..high, its catch blocks high+1..catchHigh, and unwinding from a     *)
(* state leads to the state lexically around it.  The position of the      *)
(* instruction pointer is given by its state, which StateFromIp reads from *)
(* a sorted table.                                                         *)
(***************************************************************************)
EXTENDS Integers, SequencesExt

CONSTANTS
    Prog,       \* the functions of the program, by name
    Catchable   \* for each thrown type, the types it can be caught as

EH_EMPTY_STATE == -1

Tries(f) == Prog[f].tries

Try(f, i) == Prog[f].tries[i]

UWE_TOSTATE(f, s) == Prog[f].unwind[s].to

UWE_ACTION(f, s) == Prog[f].unwind[s].action

InTry(t, s) == t.low <= s /\ s <= t.high

InCatch(t, s) == t.high < s /\ s <= t.catchHigh

(* How the compiler numbers states: unwinding leads to a smaller state of the
   function or out of it; the states of a try block and of its catch blocks are
   states of the function.  The first state of a try block stands for being in it,
   the first state of a catch block is where the funclet starts: they have nothing
   to destroy and lie in the same scope.  Every other state lies in the same try
   and catch blocks as the state around it.  Try blocks with their catch blocks are
   apart or nested; none starts where a funclet does.  The frame handler takes the
   first try block around a state, and the last catch block, for the innermost: of two
   try blocks the earlier entry is inside, of two catch blocks the later one. *)
IsSequence(s) == s \in Seq(Range(s))

UnwindMapOK(f) ==
    LET states == DOMAIN Prog[f].unwind
    IN  /\ states \subseteq Nat
        /\ \A s \in states : /\ UWE_TOSTATE(f, s) \in {EH_EMPTY_STATE} \cup states
                             /\ UWE_TOSTATE(f, s) < s

TryOK(f, t) ==
    /\ t.low \in Nat /\ t.high \in Nat /\ t.catchHigh \in Nat
    /\ t.low <= t.high /\ t.high < t.catchHigh
    /\ t.low .. t.catchHigh \subseteq DOMAIN Prog[f].unwind
    /\ \A s \in DOMAIN Prog[f].unwind \ {t.high + 1} :
        InCatch(t, s) <=> InCatch(t, UWE_TOSTATE(f, s))
    /\ \A s \in DOMAIN Prog[f].unwind \ {t.low} : InTry(t, s) <=> InTry(t, UWE_TOSTATE(f, s))
    /\ UWE_TOSTATE(f, t.high + 1) = UWE_TOSTATE(f, t.low)
    /\ \A s \in {t.low, t.high + 1} : UWE_ACTION(f, s) = "none"
    /\ IsSequence(t.handlers)

CatchInside(f, t, u) ==
    \A s \in DOMAIN Prog[f].unwind :
        InCatch(t, s) /\ InCatch(u, s) => t.high <= u.high /\ u.catchHigh <= t.catchHigh

TryInside(f, t, u) ==
    \A s \in DOMAIN Prog[f].unwind : InTry(t, s) /\ InTry(u, s) => u.low <= t.low

Inside(t, u) ==
    /\ u.low < t.low
    /\ t.catchHigh <= u.high \/ (u.high < t.low /\ t.catchHigh <= u.catchHigh)

Nested(t, u) ==
    t.catchHigh < u.low \/ u.catchHigh < t.low \/ Inside(t, u) \/ Inside(u, t)

TryBlockMapOK(f) ==
    /\ IsSequence(Tries(f))
    /\ \A i \in DOMAIN Tries(f) : TryOK(f, Try(f, i))
    /\ \A i, j \in DOMAIN Tries(f) :
        /\ Try(f, j).low # Try(f, i).high + 1
        /\ i <= j => /\ CatchInside(f, Try(f, i), Try(f, j))
                     /\ TryInside(f, Try(f, i), Try(f, j))
        /\ i # j => Nested(Try(f, i), Try(f, j))

ASSUME TablesAssumption ==
    \A f \in DOMAIN Prog :
        /\ UnwindMapOK(f) /\ TryBlockMapOK(f)
        /\ Prog[f].calls \subseteq DOMAIN Prog

(* The index of the try block whose catch contains state s, 0 if there is none:
   the last entry of the table, which is the innermost catch. *)
CatchTryBlock(f, s) ==
    LET own == {i \in DOMAIN Tries(f) : InCatch(Try(f, i), s)}
    IN  IF own = {} THEN 0 ELSE Max(own)

TryRange_WholeFunction(f, ip, s) ==     \* a slip: the catch block is ignored
    {i \in DOMAIN Tries(f) : InTry(Try(f, i), s)}

(* The try blocks to check in a frame stopped in state ip when the search is for
   state s: those around s, and in a catch block only those inside of it. *)
TryRange(f, ip, s) ==
    LET own == CatchTryBlock(f, ip)
    IN  {i \in DOMAIN Tries(f) :
            /\ InTry(Try(f, i), s)
            /\ own # 0 => /\ Try(f, i).low > Try(f, own).high
                          /\ Try(f, i).high <= Try(f, own).catchHigh}

Ellipsis == "..."

TypeMatch(h, type) == h.type = Ellipsis \/ h.type \in Catchable[type]

(* The handlers of a try block that take a C++ exception of the type, and those
   that take any other exception: only an ellipsis in the last place does. *)
CxxHandlers(t, type) == {h \in DOMAIN t.handlers : TypeMatch(t.handlers[h], type)}

ForeignHandlers(t) ==
    {h \in DOMAIN t.handlers : h = Len(t.handlers) /\ t.handlers[h].type = Ellipsis}

NoHit == [try |-> 0, handler |-> 0]

(* The first try block of the table with a handler, and its first handler. *)
FirstHit(tries, Handlers(_)) ==
    LET hits == {i \in tries : Handlers(i) # {}}
    IN  IF hits = {} THEN NoHit
        ELSE [try |-> Min(hits), handler |-> Min(Handlers(Min(hits)))]

(* The states lexically around s in function f, s included. *)
Around(f) ==
    LET Up[s \in {EH_EMPTY_STATE} \cup DOMAIN Prog[f].unwind] ==
            IF s = EH_EMPTY_STATE THEN {} ELSE {s} \cup Up[UWE_TOSTATE(f, s)]
    IN  Up

Outside(f, i) == UWE_TOSTATE(f, Try(f, i).low)
=============================================================================
