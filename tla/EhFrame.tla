------------------------------ MODULE EhFrame ------------------------------
(***************************************************************************)
(* C++ exceptions on x64: the dispatcher that searches the stack for a     *)
(* handler and then unwinds to it (exdsptch.c, xcptmisc.asm), and the C++  *)
(* frame handler it calls for every frame (frame.cpp, risctrnsctrl.cpp,    *)
(* ehstate.cpp, ehhelpers.cpp), in its FH3 and FH4 versions.               *)
(*                                                                         *)
(* The stack holds the frames of the program and those of the runtime:     *)
(*   fn, seh, catch  a function, a function with __try/__except, a funclet *)
(*   ccb             CxxCallCatchBlock, right above the frame that caught  *)
(*   raise           RtlDispatchException and the handler it has called    *)
(*   unw             RtlUnwindEx and the handler it has called             *)
(* When an unwind reaches a C++ handler, RtlRestoreContext calls           *)
(* CxxCallCatchBlock as if from the target frame, so that the frames in    *)
(* between are gone for every later search: the stack is cut at the target.*)
(***************************************************************************)
EXTENDS EhTables, TLC

CONSTANTS
    MaxRaises,  \* bound: exceptions the program raises
    MaxFrames   \* bound: frames of the program and of catch blocks

ASSUME EhAssumption ==
    /\ MaxRaises \in Nat /\ MaxFrames \in Nat
    /\ {"main", "aux"} \subseteq DOMAIN Prog
    /\ "none" \notin DOMAIN Catchable     \* stands for the type of no C++ exception

VARIABLES
    mode,       \* [fh: frame handler 3 or 4, ehs: compiled /EHs]; constant
    stack,      \* the frames, the running one last
    halt,       \* "no", or how the program was stopped
    cur,        \* _pCurrentException
    chain,      \* the FRAMEINFO list, first element first
    pt,         \* __ProcessingThrow
    csp,        \* CatchStateInParent (FH4)
    rethr,      \* cxxReThrow
    thrown,     \* types of the C++ objects thrown; object o is thrown[o]
    raised,     \* exceptions raised by the program
    live,       \* objects on the stack, <<frame, state>>, oldest first
    alive,      \* exception objects that exist
    lost,       \* exceptions that were replaced by another in flight
    stale       \* exceptions for which FH4 took the ip of a frame for its state

runtime == <<cur, chain, pt, csp, rethr>>
ghost == <<live, alive, lost, stale>>
vars == <<mode, stack, halt, runtime, thrown, raised, ghost>>

(* An exception record names the object thrown, or is one of these. *)
Rethrown == 0       \* the record of "throw;", without ThrowInfo
Foreign == -1       \* not a C++ exception
NoRecord == -2

INVALID_STATE == -2     \* INVALID_CATCH_SPECIFIC_STATE, and -2 in UNWINDHELP

IsCxx(rec) == rec >= 0
IsObject(rec) == rec > 0

-----------------------------------------------------------------------------
(* Frames *)

Fn(f) == [k |-> "fn", f |-> f, ip |-> EH_EMPTY_STATE, us |-> INVALID_STATE, ut |-> -1]
Seh(f) == [k |-> "seh", f |-> f, ip |-> 0]
Enter(f) == IF Prog[f].seh THEN Seh(f) ELSE Fn(f)

CatchFn(f, est, i) ==
    [k |-> "catch", f |-> f, ip |-> Try(f, i).high + 1, est |-> est, try |-> i]

Ccb(rec, i) ==
    [k |-> "ccb", rec |-> rec, saved |-> cur, try |-> i, phase |-> "try", rethrow |-> FALSE]

Raise(rec, at, want) ==
    [k |-> "raise", rec |-> rec, at |-> at, scope |-> 0, again |-> FALSE,
     phase |-> "scan", hit |-> NoHit, want |-> want]

Unw(rec, at, target, hit, want) ==
    [k |-> "unw", rec |-> rec, at |-> at, target |-> target, scope |-> 0,
     state |-> EH_EMPTY_STATE, phase |-> "scan", hit |-> hit, want |-> want]

User == {"fn", "seh", "catch"}

Running == halt = "no"
Top == Len(stack)
Run == stack[Top]
RunIs(k, phase) == Running /\ Run.k = k /\ Run.phase = phase
RunIsUser == Running /\ Run.k \in User

(* The frame whose UNWINDHELP and objects a function or funclet uses. *)
Est(p) == IF stack[p].k = "catch" THEN stack[p].est ELSE p

Consolidates(u) == u.hit # NoHit

-----------------------------------------------------------------------------
(* What the handler must be, read off the program text: the innermost matching
   handler of the innermost frame that is not being unwound already.  Nothing here
   uses what the frame handler records while it searches. *)

Visible(st, p) == \A q \in DOMAIN st :
    st[q].k = "unw" => ~(st[q].at < p /\ p < q)

Above(st, p) == Min({q \in p + 1 .. Len(st) : Visible(st, q)} \cup {Len(st) + 1})

(* The state a frame is in for an exception from the frames above it. *)
StateFor(st, p) ==
    IF Above(st, p) <= Len(st) /\ st[Above(st, p)].k = "ccb"
    THEN Outside(st[p].f, st[Above(st, p)].try)
    ELSE st[p].ip

Enclosing(st, p) ==
    {i \in DOMAIN Tries(st[p].f) :
        /\ Try(st[p].f, i).low \in Around(st[p].f)[StateFor(st, p)]
        /\ st[p].k = "catch" => Try(st[p].f, i).low > Try(st[p].f, st[p].try).high}

(* Where a search must end: at a handler, or at a frame of the runtime that
   takes any C++ exception (try 0), or nowhere. *)
Nowhere == [pos |-> 0, try |-> 0]
Unspecified == [pos |-> -1, try |-> 0]

Want(st, rec, type) ==
    LET Takes(p) ==
            {i \in Enclosing(st, p) :
                type # "none" /\ CxxHandlers(Try(st[p].f, i), type) # {}}
        Ends(p) == \/ st[p].k = "raise" /\ st[p].phase = "build"
                   \/ st[p].k = "ccb" /\ st[p].phase = "try" /\ rec = Rethrown
        Forbids(p) == \/ st[p].k = "unw"
                      \/ st[p].k = "fn" /\ Prog[st[p].f].noexcept /\ type # "none"
        visible == {p \in DOMAIN st : Visible(st, p)}
        handlers == {p \in visible : st[p].k \in {"fn", "catch"} /\ Takes(p) # {}}
        ends == {p \in visible : Ends(p)}
        p == Max(handlers \cup ends \cup {0})
    IN  IF p = 0 \/ \E q \in visible : q > p /\ Forbids(q) THEN Nowhere
        ELSE [pos |-> p,
              try |-> IF p \in ends THEN 0
                      ELSE CHOOSE i \in Takes(p) : \A j \in Takes(p) :
                               Try(st[p].f, i).low >= Try(st[p].f, j).low]

(* The exception a record stands for: a rethrow stands for the current one. *)
Meant(rec) == IF rec = Rethrown THEN cur ELSE rec

Expected(st, rec) ==
    IF Meant(rec) = Foreign THEN Unspecified
    ELSE Want(st, rec, IF IsObject(Meant(rec)) THEN thrown[Meant(rec)] ELSE "none")

-----------------------------------------------------------------------------
(* The program: any path through its scopes. *)

Init ==
    /\ mode \in [fh : {3, 4}, ehs : BOOLEAN]
    /\ stack = <<Fn("main")>>
    /\ halt = "no"
    /\ cur = NoRecord /\ chain = <<>> /\ pt = 0
    /\ csp = INVALID_STATE /\ rethr = FALSE
    /\ thrown = <<>> /\ raised = 0
    /\ live = <<>> /\ alive = {} /\ lost = {} /\ stale = {}

Calls == Cardinality({p \in 1 .. Top : stack[p].k \in User})

Base(p) == IF stack[p].k = "catch" THEN Try(stack[p].f, stack[p].try).high + 1
           ELSE EH_EMPTY_STATE

(* live without its newest object; destroying any other leaves a trace. *)
Destroyed(x) == IF live # <<>> /\ Last(live) = x THEN Front(live) ELSE Append(live, x)

EnterScope ==
    /\ RunIsUser /\ Run.k # "seh"
    /\ \E s \in DOMAIN Prog[Run.f].unwind :
        /\ UWE_TOSTATE(Run.f, s) = Run.ip
        /\ \A t \in Range(Tries(Run.f)) : s # t.high + 1
        /\ stack' = [stack EXCEPT ![Top].ip = s]
        /\ live' = IF UWE_ACTION(Run.f, s) = "none" THEN live
                   ELSE Append(live, <<Est(Top), s>>)
    /\ UNCHANGED <<mode, halt, runtime, thrown, raised, alive, lost, stale>>

LeaveScope ==
    /\ RunIsUser /\ Run.k # "seh" /\ Run.ip # Base(Top)
    /\ stack' = [stack EXCEPT ![Top].ip = UWE_TOSTATE(Run.f, Run.ip)]
    /\ live' = IF UWE_ACTION(Run.f, Run.ip) = "none" THEN live
               ELSE Destroyed(<<Est(Top), Run.ip>>)
    /\ UNCHANGED <<mode, halt, runtime, thrown, raised, alive, lost, stale>>

Call ==
    /\ RunIsUser /\ Calls < MaxFrames
    /\ Run.k = "seh" => Run.ip = 0
    /\ \E g \in Prog[Run.f].calls : stack' = Append(stack, Enter(g))
    /\ UNCHANGED <<mode, halt, runtime, thrown, raised, ghost>>

Return ==
    /\ RunIsUser /\ Run.k # "catch" /\ Top > 1
    /\ Run.k = "fn" => Run.ip = EH_EMPTY_STATE
    /\ stack' = Front(stack)
    /\ UNCHANGED <<mode, halt, runtime, thrown, raised, ghost>>

MayRaise(what) == RunIsUser /\ raised < MaxRaises /\ what \in Prog[Run.f].raises

Throw ==
    /\ MayRaise("throw")
    /\ \E type \in DOMAIN Catchable : thrown' = Append(thrown, type)
    /\ alive' = alive \cup {Len(thrown')}
    /\ stack' = Append(stack, 
                    Raise(Len(thrown'), Top, Want(stack, Len(thrown'), Last(thrown'))))
    /\ raised' = raised + 1
    /\ UNCHANGED <<mode, halt, runtime, live, lost, stale>>

Rethrow ==
    /\ MayRaise("rethrow")
    /\ stack' = Append(stack, Raise(Rethrown, Top, Expected(stack, Rethrown)))
    /\ raised' = raised + 1
    /\ UNCHANGED <<mode, halt, runtime, thrown, ghost>>

Fault ==
    /\ MayRaise("foreign")
    /\ stack' = Append(stack, Raise(Foreign, Top, Unspecified))
    /\ raised' = raised + 1
    /\ UNCHANGED <<mode, halt, runtime, thrown, ghost>>

-----------------------------------------------------------------------------
(* The first pass: RtlDispatchException calls one frame's handler. *)

Halted(how) ==
    /\ halt' = how
    /\ UNCHANGED <<mode, chain, pt, csp, rethr, thrown, raised, ghost>>

NextFrame_Above(r) == [r EXCEPT !.at = @ + 1]     \* a slip: searches upwards

(* The next frame; after a collided unwind, the same frame once more. *)
NextFrame(r) ==
    IF r.again THEN [r EXCEPT !.again = FALSE, !.scope = 0] ELSE [r EXCEPT !.at = @ - 1]

StartUnwind(s, rec, target, hit) ==
    Append(s, Unw(rec, Top, target, hit, Run.want))

(* This frame and exception are none of the handler's business. *)
Skipped(rec) == ~rethr /\ rec = Foreign /\ mode.ehs

(* GetHandlerSearchState: the state to search from.  FH3 remembers the highest
   state searched in UNWINDHELP of the establisher, FH4 is told by CxxCallCatchBlock
   (once) or by the interrupted unwind. *)
SearchState(p, scope) ==
    IF mode.fh = 3 THEN Max({stack[p].ip, stack[Est(p)].ut})
    ELSE IF scope # 0 THEN scope - 2
    ELSE IF csp # INVALID_STATE THEN csp
    ELSE stack[p].ip

Remembered(p) ==
    IF mode.fh = 3 /\ stack[p].ip > stack[Est(p)].ut
    THEN [stack EXCEPT ![Est(p)].us = stack[p].ip, ![Est(p)].ut = stack[p].ip]
    ELSE stack

(* In FH4 a catch funclet has tables of its own. *)
TrysToCheck(p, s) ==
    IF mode.fh = 3 THEN TryRange(stack[p].f, stack[p].ip, s)
    ELSE {i \in TryRange(stack[p].f, stack[p].ip, s) :
            stack[p].k = "fn" => CatchTryBlock(stack[p].f, Try(stack[p].f, i).low) = 0}

HandlerFor(p, scope, rec) ==
    LET s == SearchState(p, scope)
        t == [i \in DOMAIN Tries(stack[p].f) |-> Try(stack[p].f, i)]
    IN  IF rec = Foreign
        THEN FirstHit(TrysToCheck(p, s), LAMBDA i : ForeignHandlers(t[i]))
        ELSE FirstHit(TrysToCheck(p, s), LAMBDA i : CxxHandlers(t[i], thrown[rec]))

(* CatchTryBlock of the state the frame is in; in FH4 a flag of the funclet. *)
ExecutionInCatch(p) == stack[p].k = "catch"

FindHandler ==
    LET p == Run.at
        rec == Meant(Run.rec)
        hit == HandlerFor(p, Run.scope, rec)
        build == /\ IsObject(rec)
                 /\ Try(stack[p].f, hit.try).handlers[hit.handler].copy
        known == Remembered(p)
        search == [known EXCEPT ![Top] = NextFrame(Run)]
        copy == [known EXCEPT ![Top].phase = "build", ![Top].hit = hit]
    IN  IF rec = NoRecord
        THEN stack' = search /\ UNCHANGED <<halt, cur>>
        ELSE IF hit # NoHit
        THEN /\ stack' = IF build THEN Append(copy, Fn("aux"))
                         ELSE StartUnwind(known, rec, p, hit)
             /\ UNCHANGED <<halt, cur>>
        ELSE IF IsObject(rec) /\ Prog[stack[p].f].noexcept /\ ~ExecutionInCatch(p)
        THEN halt' = "terminate" /\ cur' = rec /\ stack' = known
        ELSE stack' = search /\ UNCHANGED <<halt, cur>>

(* After a collided unwind the handler of a frame is called twice; the second call
   starts from scope 0, and in FH4 that means from the ip of the frame. *)
RunsAgain ==
    mode.fh = 4 /\ Run.again /\ ~Skipped(Run.rec) /\ Running' /\ Len(stack') = Top

SearchCxx_KeepsState ==      \* a slip: the state from the catch block is not taken back
    /\ RunIs("raise", "scan") /\ Run.at > 0 /\ stack[Run.at].k \in {"fn", "catch"}
    /\ LET f == stack[Run.at].f
       IN  IF Skipped(Run.rec) \/ (Tries(f) = <<>> /\ ~Prog[f].noexcept)
           THEN stack' = [stack EXCEPT ![Top] = NextFrame(Run)] /\ UNCHANGED <<halt, cur>>
           ELSE FindHandler
    /\ stale' = IF RunsAgain THEN stale \cup {Run.rec} ELSE stale
    /\ UNCHANGED <<mode, chain, pt, csp, rethr, thrown, raised, live, alive, lost>>

SearchCxx ==
    /\ RunIs("raise", "scan") /\ Run.at > 0 /\ stack[Run.at].k \in {"fn", "catch"}
    /\ LET f == stack[Run.at].f
       IN  IF Skipped(Run.rec) \/ (Tries(f) = <<>> /\ ~Prog[f].noexcept)
           THEN stack' = [stack EXCEPT ![Top] = NextFrame(Run)] /\ UNCHANGED <<halt, cur>>
           ELSE FindHandler
    /\ csp' = INVALID_STATE
    /\ stale' = IF RunsAgain THEN stale \cup {Run.rec} ELSE stale
    /\ UNCHANGED <<mode, chain, pt, rethr, thrown, raised, live, alive, lost>>

(* The copy constructor of the catch object has returned. *)
CatchObjectBuilt ==
    /\ RunIs("raise", "build")
    /\ stack' = StartUnwind([stack EXCEPT ![Top].phase = "scan"],
                            Meant(Run.rec), Run.at, Run.hit)
    /\ UNCHANGED <<mode, halt, runtime, thrown, raised, ghost>>

(* The filter of a __try/__except of the program: it may run code, and takes or
   declines an exception that is not C++. *)
SearchSeh ==
    /\ RunIs("raise", "scan") \/ RunIs("raise", "filter")
    /\ Run.at > 0 /\ stack[Run.at].k = "seh"
    /\ \/ stack' = [stack EXCEPT ![Top] = [NextFrame(Run) EXCEPT !.phase = "scan"]]
       \/ /\ Run.rec = Foreign /\ stack[Run.at].ip = 0
          /\ stack' = StartUnwind([stack EXCEPT ![Top].phase = "scan"], Foreign, Run.at, NoHit)
       \/ /\ Run.phase = "scan" /\ stack[Run.at].ip = 0 /\ Calls < MaxFrames
          /\ stack' = Append([stack EXCEPT ![Top].phase = "filter"], Fn("aux"))
    /\ UNCHANGED <<mode, halt, runtime, thrown, raised, ghost>>

(* Once its __except runs, a catch block has no filter that could tell the frame
   below its state; only the exception it raises again finds the state set. *)
SeesIp == mode.fh = 4 /\ stack[Run.at].phase = "except" /\ Run.at # Top - 1

(* ExFilterRethrow and ExFilterRethrowFH4. *)
SearchCatchBlock ==
    /\ RunIs("raise", "scan") /\ Run.at > 0 /\ stack[Run.at].k = "ccb"
    /\ LET p == Run.at
           c == stack[p]
           same == Run.rec = Rethrown \/ (Run.rec = c.rec /\ IsObject(c.rec))
           filtered == [stack EXCEPT ![p].rethrow = same]
       IN  IF c.phase = "except"
           THEN stack' = [stack EXCEPT ![Top] = NextFrame(Run)] /\ UNCHANGED <<csp, rethr>>
           ELSE IF Run.rec = Rethrown
           THEN /\ stack' = StartUnwind(filtered, Rethrown, p, NoHit)
                /\ rethr' = TRUE /\ UNCHANGED csp
           ELSE /\ stack' = [filtered EXCEPT ![Top] = NextFrame(Run)]
                /\ csp' = IF mode.fh = 4 THEN Try(stack[p - 1].f, c.try).catchHigh ELSE csp
                /\ UNCHANGED rethr
    /\ stale' = IF SeesIp THEN stale \cup {Run.rec} ELSE stale
    /\ UNCHANGED <<mode, halt, cur, chain, pt, thrown, raised, live, alive, lost>>

(* Another dispatcher: its filter has raised (a nested exception), or the copy
   constructor it called has, which BuildCatchObject takes to abort. *)
SearchDispatcher ==
    /\ RunIs("raise", "scan") /\ Run.at > 0 /\ stack[Run.at].k = "raise"
    /\ stack' = IF stack[Run.at].phase = "build"
                THEN StartUnwind(stack, Run.rec, Run.at, NoHit)
                ELSE [stack EXCEPT ![Top] = NextFrame(Run)]
    /\ UNCHANGED <<mode, halt, runtime, thrown, raised, ghost>>

(* An unwind whose destructor has raised: __FrameUnwindFilter terminates for a C++
   exception, for any other the search goes on with the frame being unwound. *)
SearchUnwind ==
    /\ RunIs("raise", "scan") /\ Run.at > 0 /\ stack[Run.at].k = "unw"
    /\ IF IsCxx(Run.rec)
       THEN Halted("terminate") /\ cur' = Run.rec /\ UNCHANGED stack
       ELSE /\ stack' = [stack EXCEPT ![Top].at = stack[Run.at].at,
                            ![Top].scope = stack[Run.at].scope, ![Top].again = TRUE]
            /\ UNCHANGED <<mode, halt, runtime, thrown, raised, ghost>>

SearchFails ==
    /\ RunIs("raise", "scan") /\ Run.at = 0
    /\ Halted("unhandled") /\ UNCHANGED <<stack, cur>>

-----------------------------------------------------------------------------
(* The second pass: RtlUnwindEx calls one frame's handler after the other, which
   runs the destructors of the frame, until it reaches its target. *)

Next1(s) == [s EXCEPT ![Top].at = @ - 1, ![Top].scope = 0]

Invalidated == IF mode.fh = 4 THEN INVALID_STATE ELSE csp

UnwindFrom_Ip(p, scope) == stack[p].ip      \* a slip: an interrupted unwind starts over

(* The state to unwind from. *)
UnwindFrom(p, scope) ==
    IF mode.fh = 3
    THEN IF stack[Est(p)].us = INVALID_STATE THEN stack[p].ip ELSE stack[Est(p)].us
    ELSE SearchState(p, scope)

UnwindTo_High(p) ==         \* a slip: stops at the last state of the try block
    IF p = Run.target THEN Try(stack[p].f, Run.hit.try).high
    ELSE IF stack[p].k = "catch" THEN Try(stack[p].f, stack[p].try).high
    ELSE EH_EMPTY_STATE

(* Down to the try block for the target; of a catch block, its own states; of a
   function, all.  (In FH4 a funclet's table holds only its own states.) *)
UnwindTo(p) ==
    IF p = Run.target THEN Try(stack[p].f, Run.hit.try).low
    ELSE IF stack[p].k = "catch" THEN Try(stack[p].f, stack[p].try).high
    ELSE EH_EMPTY_STATE

UnwindCxx ==
    /\ RunIs("unw", "scan") /\ stack[Run.at].k \in {"fn", "catch"}
    /\ LET p == Run.at
           idle == (Skipped(Run.rec) /\ ~Consolidates(Run)) \/ Prog[stack[p].f].unwind = <<>>
       IN  IF idle
           THEN stack' = Next1(stack) /\ pt' = pt
           ELSE /\ stack' = [stack EXCEPT ![Top].phase = "states",
                                         ![Top].state = UnwindFrom(p, Run.scope)]
                /\ pt' = pt + 1
    /\ csp' = INVALID_STATE
    /\ UNCHANGED <<mode, halt, cur, chain, rethr, thrown, raised, ghost>>

(* One turn of FrameUnwindToState's loop.  The frame's state (FH3) or the scope index
   (FH4) is moved past the object before its destructor runs. *)
UnwindState ==
    /\ RunIs("unw", "states")
    /\ LET p == Run.at
           f == stack[p].f
           s == Run.state
           next == UWE_TOSTATE(f, s)
           action == UWE_ACTION(f, s)
           stepped == [stack EXCEPT ![Top].state = next]
           moved == IF mode.fh = 3 THEN [stepped EXCEPT ![Est(p)].us = next]
                    ELSE [stepped EXCEPT ![Top].scope = next + 2]
       IN  /\ s # EH_EMPTY_STATE /\ s > UnwindTo(p)
           /\ stack' = CASE action = "none" -> stepped
                         [] action = "plain" -> moved
                         [] OTHER -> Append(moved, Fn("aux"))
           /\ live' = IF action = "none" THEN live
                      ELSE Destroyed(<<Est(p), s>>)
    /\ UNCHANGED <<mode, halt, runtime, thrown, raised, alive, lost, stale>>

Decrement(n) == IF n > 0 THEN n - 1 ELSE n

FrameUnwound_Stays ==       \* a slip: the unwind does not go on to the next frame
    /\ RunIs("unw", "states")
    /\ Run.state = EH_EMPTY_STATE \/ Run.state <= UnwindTo(Run.at)
    /\ stack' = [stack EXCEPT ![Top].phase = IF Run.at = Run.target THEN "land" ELSE "scan"]
    /\ pt' = Decrement(pt)
    /\ csp' = Invalidated
    /\ UNCHANGED <<mode, halt, cur, chain, rethr, thrown, raised, ghost>>

FrameUnwound ==
    /\ RunIs("unw", "states")
    /\ Run.state = EH_EMPTY_STATE \/ Run.state <= UnwindTo(Run.at)
    /\ LET p == Run.at
           final == IF mode.fh = 3 THEN [stack EXCEPT ![Est(p)].us = Run.state] ELSE stack
       IN  stack' = IF p = Run.target THEN [final EXCEPT ![Top].phase = "land"]
                    ELSE [Next1(final) EXCEPT ![Top].phase = "scan"]
    /\ pt' = Decrement(pt)
    /\ csp' = Invalidated
    /\ UNCHANGED <<mode, halt, cur, chain, rethr, thrown, raised, ghost>>

Unlinked_Forgotten(p) == chain      \* a slip: the frame stays in the list

(* _FindAndUnlinkFrame: cuts the list behind the frame, wherever it is. *)
Unlinked(p) ==
    LET at == {i \in DOMAIN chain : chain[i].pos = p}
    IN  IF at = {} THEN chain ELSE SubSeq(chain, Min(at) + 1, Len(chain))

LeaveCatchBlock_Destroys(p) ==      \* a slip: does not look whether it is in use
    /\ chain' = Unlinked(p)
    /\ alive' = IF IsObject(stack[p].rec) THEN alive \ {stack[p].rec} ELSE alive
    /\ cur' = stack[p].saved

(* The __finally of CxxCallCatchBlock. *)
LeaveCatchBlock(p) ==
    LET c == stack[p]
        used == \E x \in Range(Unlinked(p)) : x.obj = c.rec
    IN  /\ chain' = Unlinked(p)
        /\ alive' = IF ~c.rethrow /\ IsObject(c.rec) /\ ~used THEN alive \ {c.rec} ELSE alive
        /\ cur' = c.saved

UnwindCatchBlock ==
    /\ RunIs("unw", "scan") /\ Run.at # Run.target /\ stack[Run.at].k = "ccb"
    /\ LeaveCatchBlock(Run.at)
    /\ csp' = IF mode.fh = 4 THEN Try(stack[Run.at - 1].f, stack[Run.at].try).low ELSE csp
    /\ stack' = Next1(stack)
    /\ UNCHANGED <<mode, halt, pt, rethr, thrown, raised, live, lost, stale>>

(* A dispatcher or a __try/__except has nothing to unwind; the C++ frame handler a
   dispatcher had called leaves CatchStateInParent invalid. *)
UnwindOther ==
    /\ RunIs("unw", "scan") /\ Run.at # Run.target /\ stack[Run.at].k \in {"seh", "raise"}
    /\ LET fr == stack[Run.at]
           called == fr.k = "raise" /\ fr.at > 0 /\ stack[fr.at].k \in {"fn", "catch"}
       IN  csp' = IF called THEN Invalidated ELSE csp
    /\ stack' = Next1(stack)
    /\ UNCHANGED <<mode, halt, cur, chain, pt, rethr, thrown, raised, ghost>>

UnwindUnwind_Counts ==      \* a slip: the count of the interrupted unwind stays
    /\ RunIs("unw", "scan") /\ stack[Run.at].k = "unw"
    /\ stack' = [stack EXCEPT ![Top].at = stack[Run.at].at, ![Top].scope = stack[Run.at].scope]
    /\ csp' = Invalidated
    /\ UNCHANGED <<mode, halt, cur, chain, pt, rethr, thrown, raised, ghost>>

(* Collided unwind: this one takes over where the other one was. *)
UnwindUnwind ==
    /\ RunIs("unw", "scan") /\ stack[Run.at].k = "unw"
    /\ stack' = [stack EXCEPT ![Top].at = stack[Run.at].at, ![Top].scope = stack[Run.at].scope]
    /\ pt' = Decrement(pt)
    /\ csp' = Invalidated
    /\ UNCHANGED <<mode, halt, cur, chain, rethr, thrown, raised, ghost>>

(* The exceptions in flight in the frames above p that are cut away, other than
   the one that lands there. *)
InFlight(fr) ==
    IF fr.rec # Rethrown THEN fr.rec
    ELSE IF fr.k = "unw" /\ fr.target < Top /\ stack[fr.target].k = "ccb" THEN stack[fr.target].rec
    ELSE Rethrown

Replaced(p) ==
    {InFlight(stack[q]) : q \in {q \in p + 1 .. Top - 2 : stack[q].k \in {"raise", "unw"}}}

(* CxxCallCatchBlock up to the call of the funclet. *)
LandInHandler ==
    /\ RunIs("unw", "land")
    /\ LET p == Run.target
           rest == IF chain # <<>> /\ chain[1].pos < p + 1 THEN chain ELSE <<>>
       IN  /\ stack' = SubSeq(stack, 1, p)
                       \o <<Ccb(Run.rec, Run.hit.try), CatchFn(stack[p].f, Est(p), Run.hit.try)>>
           /\ chain' = <<[pos |-> p + 1, obj |-> Run.rec]>> \o rest
           /\ lost' = lost \cup Replaced(p)
    /\ cur' = Run.rec
    /\ UNCHANGED <<mode, halt, pt, csp, rethr, thrown, raised, live, alive, stale>>

(* The __except of CxxCallCatchBlock: "throw;" left the handler, and the exception
   it handles is raised again. *)
LandInCatchBlock ==
    /\ RunIs("unw", "scan") /\ Run.at = Run.target /\ stack[Run.at].k = "ccb"
    /\ LET p == Run.target
           c == stack[p]
           cut == [SubSeq(stack, 1, p) EXCEPT ![p].phase = "except", ![p].rethrow = TRUE]
       IN  /\ stack' = Append(cut, Raise(c.rec, p, Expected(cut, c.rec)))
           /\ csp' = IF mode.fh = 4 THEN Try(stack[p - 1].f, c.try).catchHigh ELSE csp
           /\ lost' = lost \cup Replaced(p)
    /\ rethr' = FALSE
    /\ UNCHANGED <<mode, halt, cur, chain, pt, thrown, raised, live, alive, stale>>

LandInSeh ==
    /\ RunIs("unw", "scan") /\ Run.at = Run.target /\ stack[Run.at].k = "seh"
    /\ stack' = [SubSeq(stack, 1, Run.target) EXCEPT ![Run.target].ip = EH_EMPTY_STATE]
    /\ lost' = lost \cup Replaced(Run.target)
    /\ live' = SubSeq(live, 1, Max({0} \cup {i \in DOMAIN live : live[i][1] <= Run.target}))
    /\ UNCHANGED <<mode, halt, runtime, thrown, raised, alive, stale>>

LandInBuild ==
    /\ RunIs("unw", "scan") /\ Run.at = Run.target /\ stack[Run.at].k = "raise"
    /\ Halted("abort") /\ UNCHANGED <<stack, cur>>

(* The handler falls off its end: CxxCallCatchBlock returns the continuation, and in
   FH3 forgets the states searched. *)
CatchDone ==
    /\ RunIsUser /\ Run.k = "catch" /\ Run.ip = Base(Top)
    /\ LeaveCatchBlock(Top - 1)
    /\ LET s == [SubSeq(stack, 1, Top - 2) EXCEPT ![Top - 2].ip = Outside(Run.f, Run.try)]
       IN  stack' = IF mode.fh = 3
                    THEN [s EXCEPT ![Run.est].us = INVALID_STATE, ![Run.est].ut = -1]
                    ELSE s
    /\ csp' = Invalidated
    /\ UNCHANGED <<mode, halt, pt, rethr, thrown, raised, live, lost, stale>>

(* A stopped program stays so. *)
Stopped == ~Running /\ UNCHANGED vars

Search ==
    \/ SearchCxx \/ CatchObjectBuilt \/ SearchSeh \/ SearchCatchBlock
    \/ SearchDispatcher \/ SearchUnwind \/ SearchFails

Unwind ==
    \/ UnwindCxx \/ UnwindState \/ FrameUnwound \/ UnwindCatchBlock \/ UnwindOther
    \/ UnwindUnwind \/ LandInHandler \/ LandInCatchBlock \/ LandInSeh \/ LandInBuild

Program ==
    \/ EnterScope \/ LeaveScope \/ Call \/ Return \/ Throw \/ Rethrow \/ Fault \/ CatchDone

Next == Program \/ Search \/ Unwind \/ Stopped

(* Fairness of Search \/ Unwind, spelled out: while a frame of the runtime runs nothing
   else is enabled, so any step is one of them. *)
RuntimeGoesOn == []<>(RunIsUser \/ ~Running) \/ []<><<~RunIsUser>>_vars

Spec == Init /\ [][Next]_vars /\ RuntimeGoesOn

-----------------------------------------------------------------------------
(* Properties *)

Records == {NoRecord, Foreign, Rethrown} \cup 1 .. MaxRaises

Hits == [try : Nat, handler : Nat]

FrameOK(p) ==
    LET fr == stack[p]
    IN  CASE fr.k = "fn" -> fr.ip \in {EH_EMPTY_STATE} \cup DOMAIN Prog[fr.f].unwind
          [] fr.k = "catch" -> /\ fr.ip \in DOMAIN Prog[fr.f].unwind
                               /\ stack[p - 1].k = "ccb" /\ stack[fr.est].k = "fn"
          [] fr.k = "seh" -> fr.ip \in {0, EH_EMPTY_STATE}
          [] fr.k = "ccb" -> /\ fr.rec \in Records /\ fr.saved \in Records
                             /\ fr.phase \in {"try", "except"} /\ fr.rethrow \in BOOLEAN
          [] fr.k = "raise" -> /\ fr.rec \in Records /\ fr.at \in 0 .. p - 1
                               /\ fr.phase \in {"scan", "build", "filter"} /\ fr.hit \in Hits
          [] fr.k = "unw" -> /\ fr.rec \in Records /\ fr.target \in 1 .. fr.at
                             /\ fr.at < p /\ fr.phase \in {"scan", "states", "land"}
                             /\ fr.hit \in Hits

(* Every frame is well formed, and an unwind is never below its target. *)
TypeOK ==
    /\ mode \in [fh : {3, 4}, ehs : BOOLEAN]
    /\ \A p \in 1 .. Top : FrameOK(p)
    /\ halt \in {"no", "terminate", "abort", "unhandled"}
    /\ cur \in Records /\ pt \in Nat
    /\ csp \in Int /\ rethr \in BOOLEAN
    /\ raised \in 0 .. MaxRaises
    /\ alive \subseteq DOMAIN thrown /\ lost \subseteq Records

(* A C++ exception ends up at the handler that its place in the program text
   selects, and stops the program only if there is none. *)
RightHandler ==
    /\ \A p \in 1 .. Top :
        stack[p].k = "unw" /\ stack[p].want # Unspecified
            => stack[p].want = [pos |-> stack[p].target, try |-> stack[p].hit.try]
    /\ ~Running /\ Run.k = "raise" /\ Run.want # Unspecified => Run.want = Nowhere

(* FH3 keeps a state in UNWINDHELP of the frame for as long as an unwind lasts; when
   that unwind is replaced by the one of another exception, it is never forgotten.
   FH4 keeps none, and takes the ip of a frame for its state when nobody tells it. *)
StateTrusted == IF mode.fh = 4 THEN stale = {} ELSE lost = {}

(* RightHandler as long as no search starts from a state that is out of date. *)
RightHandlerIfTrusted == StateTrusted => RightHandler

(* While the program runs, the objects that exist are those of the scopes it is in,
   except those that an unwind in progress has destroyed. *)
StateNow(p) ==
    LET q == Above(stack, p)
    IN  IF q <= Top /\ stack[q].k = "unw" THEN stack[q].state ELSE StateFor(stack, p)

Active ==
    UNION {{<<Est(p), s>> : s \in {s \in Around(stack[p].f)[StateNow(p)] :
                                        UWE_ACTION(stack[p].f, s) # "none"}} :
            p \in {p \in 1 .. Top : stack[p].k \in {"fn", "catch"} /\ Visible(stack, p)}}

LiveIsActive == RunIsUser /\ StateTrusted => Range(live) = Active

(* pFrameInfoChain lists the handlers being executed, innermost first: those that no
   unwind in progress has left; the innermost one handles _pCurrentException. *)
Handlers == {p \in 1 .. Top : stack[p].k = "ccb" /\ Visible(stack, p)}

ChainIsHandlers ==
    /\ {chain[i].pos : i \in DOMAIN chain} = Handlers
    /\ \A i \in DOMAIN chain :
        /\ chain[i].obj = stack[chain[i].pos].rec
        /\ \A j \in DOMAIN chain : i < j => chain[i].pos > chain[j].pos
    /\ Running => cur = IF Handlers = {} THEN NoRecord ELSE stack[Max(Handlers)].rec

(* __ProcessingThrow counts the frames being unwound. *)
CountBalanced ==
    pt = Cardinality({p \in 1 .. Top :
            stack[p].k = "unw" /\ stack[p].phase = "states" /\ Visible(stack, p)})

Flying(frames) == {InFlight(stack[p]) : p \in {p \in frames : stack[p].k \in {"raise", "unw"}}}
Handled == {x.obj : x \in Range(chain)}

(* An exception object exists while it is in flight or handled, and afterwards
   only if its exception was replaced in flight by another.  Another exception that
   was replaced can destroy it too early: the filter of its catch block has cleared
   the rethrow flag that the object's own search had set (frame.cpp:1629). *)
ObjectsExist ==
    LET needed == Flying({p \in 1 .. Top : Visible(stack, p)}) \cup Handled
    IN  /\ \A o \in needed : IsObject(o) /\ lost \subseteq {o} => o \in alive
        /\ alive \subseteq Flying(1 .. Top) \cup Handled \cup lost

(* CatchStateInParent speaks of the frame handled next, or not at all. *)
ParentStateFresh ==
    csp # INVALID_STATE =>
        /\ Run.k \in {"raise", "unw"} /\ Run.scope = 0
        /\ \E p \in {Run.at, Run.at + 1} \ {0} : stack[p].k = "ccb"

(* The objects and handlers of the program go through the life C++ promises, but for
   what StateTrusted and ObjectsExist except; only an __except leaves frames as they
   are. *)
Scopes == INSTANCE CxxScopes
            WITH handled <- [i \in DOMAIN chain |-> chain[i].obj], thrown <- Len(thrown)

ImplementsScopes ==
    Scopes!Init /\ [][StateTrusted =>
        Scopes!Next(RunIsUser, Run.k = "unw" /\ stack[Run.target].k = "seh", lost)]_Scopes!vars

(* The runtime gets back to code of the program, or stops it. *)
ComesBack == ~RunIsUser ~> RunIsUser \/ ~Running
=============================================================================
