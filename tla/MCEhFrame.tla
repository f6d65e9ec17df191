----------------------------- MODULE MCEhFrame -----------------------------
EXTENDS EhFrame

Plain(to) == [to |-> to, action |-> "plain"]
Code(to) == [to |-> to, action |-> "code"]
None(to) == [to |-> to, action |-> "none"]

Catch(type, copy) == [type |-> type, copy |-> copy]

Function(unwind, tries, calls, raises) ==
    [unwind |-> unwind, tries |-> tries, calls |-> calls, raises |-> raises,
     noexcept |-> FALSE, seh |-> FALSE]

(* main: an object, an outer try with an object whose destructor runs code, in it an
   inner try, in whose handler an object and another try. *)
Main == Function(
    0 :> Plain(-1) @@ 1 :> None(0) @@ 2 :> Code(1) @@ 3 :> None(2) @@ 4 :> None(2)
        @@ 5 :> Plain(4) @@ 6 :> None(5) @@ 7 :> None(5) @@ 8 :> None(0),
    << [low |-> 3, high |-> 3, catchHigh |-> 7, handlers |-> <<Catch("base", TRUE)>>],
       [low |-> 6, high |-> 6, catchHigh |-> 7, handlers |-> <<Catch("...", FALSE)>>],
       [low |-> 1, high |-> 7, catchHigh |-> 8,
        handlers |-> <<Catch("base", FALSE), Catch("...", FALSE)>>] >>,
    {"g", "n", "s"}, {"throw", "rethrow"})

MCProg ==
    "main" :> Main
    @@ "g" :> Function(0 :> Code(-1), <<>>, {}, {"throw", "rethrow"})
    @@ "n" :> [Function(<<>>, <<>>, {}, {"throw", "rethrow", "foreign"}) EXCEPT !.noexcept = TRUE]
    @@ "s" :> [Function(<<>>, <<>>, {"g"}, {}) EXCEPT !.seh = TRUE]
    @@ "aux" :> Function(0 :> None(-1) @@ 1 :> None(-1),
                         <<[low |-> 0, high |-> 0, catchHigh |-> 1,
                            handlers |-> <<Catch("...", FALSE)>>]>>,
                         {}, {"throw", "foreign"})

MCCatchable == "derived" :> {"derived", "base"} @@ "other" :> {"other"}
=============================================================================
