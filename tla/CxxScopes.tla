----------------------------- MODULE CxxScopes -----------------------------
(***************************************************************************)
(* What C++ promises about objects when exceptions are thrown: objects go  *)
(* in the reverse order of their construction, each once; handlers nest;   *)
(* an exception object exists from the throw until the last handler that   *)
(* handles it is left, and is destroyed once.                              *)
(***************************************************************************)
EXTENDS Sequences, Integers, FiniteSets

VARIABLES
    live,       \* the objects on the stack, oldest first
    handled,    \* the exceptions being handled, innermost first
    alive,      \* the exception objects that exist
    thrown      \* the exception objects thrown so far

vars == <<live, handled, alive, thrown>>

Init == live = <<>> /\ handled = <<>> /\ alive = {} /\ thrown = 0

Destroy ==
    /\ live # <<>>
    /\ live' = SubSeq(live, 1, Len(live) - 1)
    /\ UNCHANGED <<handled, alive, thrown>>

Construct ==
    /\ Len(live') = Len(live) + 1
    /\ live = SubSeq(live', 1, Len(live))
    /\ \A i \in DOMAIN live : live[i] # live'[Len(live')]
    /\ UNCHANGED <<handled, alive, thrown>>

(* Whatever is not C++ may leave frames without destroying their objects, the
   newest frames first. *)
Abandon ==
    /\ \E n \in 0 .. Len(live) : live' = SubSeq(live, 1, n)
    /\ UNCHANGED <<handled, alive, thrown>>

Throw ==
    /\ thrown' = thrown + 1
    /\ alive' = alive \cup {thrown'}
    /\ UNCHANGED <<live, handled>>

(* A handler is entered for an exception that is not C++, or whose object exists
   unless another exception has been replaced. *)
Handle(replaced) ==
    /\ handled' # <<>> /\ Tail(handled') = handled
    /\ Head(handled') > 0 /\ replaced \subseteq {Head(handled')} => Head(handled') \in alive
    /\ UNCHANGED <<live, alive, thrown>>

(* The innermost handler is left, by its end or by an exception; its object is
   destroyed unless it is still in use. *)
Leave ==
    /\ handled # <<>>
    /\ handled' = Tail(handled)
    /\ \/ alive' = alive
       \/ /\ Head(handled) \notin {handled'[i] : i \in DOMAIN handled'}
          /\ Head(handled) \in alive
          /\ alive' = alive \ {Head(handled)}
    /\ UNCHANGED <<live, thrown>>

(* Only the program constructs objects, only what mayAbandon leaves them alone;
   replaced are the exceptions that another one has replaced in flight. *)
Next(program, mayAbandon, replaced) ==
    \/ program /\ Construct
    \/ Destroy \/ Throw \/ Handle(replaced) \/ Leave
    \/ mayAbandon /\ Abandon
=============================================================================
