------------------------------ MODULE EhArrays ------------------------------
(***************************************************************************)
(* The iterators the compiler calls to construct and destroy arrays        *)
(* (ehvecctr.cpp, ehvccctr.cpp, ehveccvb.cpp, ehvcccvb.cpp and             *)
(* ehvecdtr.cpp), when constructors and destructors throw.                 *)
(* An element is named by its indices, from 0; the element of an array of  *)
(* arrays is an array, which its constructor and destructor run through    *)
(* with the same functions.  An execution is a record:                     *)
(*   throws   what each constructor and destructor of an element throws    *)
(*            ("none", "cxx" or "seh")                                     *)
(*   exc      the exception in flight, or "terminated"                     *)
(*   guards   how many __ArrayUnwind are active                            *)
(*   log      the constructors and destructors called                      *)
(*   live     the elements that exist, in the order of construction        *)
(*   given    for every constructor, its element, source and last argument *)
(***************************************************************************)
EXTENDS Integers, SequencesExt

Start(throws) ==
    [throws |-> throws, exc |-> "none", guards |-> 0, log |-> <<>>, live |-> <<>>,
     given |-> <<>>]

Runs(x) == x.exc = "none"
Throws(x) == x.exc \in {"cxx", "seh"}

(* The search for a handler meets the filters of the active __ArrayUnwind first. *)
ArrayUnwindFilter(x, exc) ==
    [x EXCEPT !.exc = IF exc = "cxx" /\ x.guards > 0 THEN "terminated" ELSE exc]

Called(x, what, e) == [x EXCEPT !.log = Append(@, <<what, e>>)]

RECURSIVE Destroy(_, _, _)

(* The count elements below number at of an array; the body of __except stays empty. *)
ArrayUnwind(x, path, at, count, shape) ==
    LET Turn(y, k) == IF Runs(y) THEN Destroy(y, Append(path, at - k), Tail(shape)) ELSE y
        y == FoldLeft(Turn, [x EXCEPT !.exc = "none", !.guards = @ + 1],
                      [k \in 1 .. count |-> k])
    IN  [y EXCEPT !.guards = x.guards, !.exc = IF Runs(y) THEN x.exc ELSE @]

Rest_Whole(i) == [at |-> i + 1, count |-> i + 1]      \* a slip: the one that threw, too
Rest(i) == [at |-> i, count |-> i]                    \* ptr and count at element i

Finally(x, path, i, shape) ==
    IF Throws(x) THEN ArrayUnwind(x, path, Rest(i).at, Rest(i).count, shape) ELSE x

EhvecDtor(x, path, shape) ==
    LET Turn(y, k) ==
            LET i == Head(shape) - k
            IN  IF Runs(y)
                THEN Finally(Destroy(y, Append(path, i), Tail(shape)), path, i, shape)
                ELSE y
    IN  FoldLeft(Turn, x, [k \in 1 .. Head(shape) |-> k])

DestroyElement(x, e) ==
    LET y == [Called(x, "destructor", e) EXCEPT !.live = Remove(@, e)]
        exc == x.throws["destructor", e]
    IN  IF exc = "none" THEN y ELSE ArrayUnwindFilter(y, exc)

Destroy(x, path, shape) ==
    IF shape = <<>> THEN DestroyElement(x, path) ELSE EhvecDtor(x, path, shape)

(* The four iterators over constructors differ in what they give to a constructor besides
   the element: the source of a copy, and 1 if it is to construct virtual bases. *)
RECURSIVE Construct(_, _, _, _, _)
Construct(x, path, src, shape, args) ==
    LET ConstructElement(y, e, from) ==
            LET exc == y.throws["constructor", e]
                z == [Called(y, "constructor", e) EXCEPT
                        !.given = Append(@, <<e, IF "src" \in args THEN from ELSE <<>>, "vb" \in args>>)]
            IN  IF exc = "none" THEN [z EXCEPT !.live = Append(@, e)]
                ELSE ArrayUnwindFilter(z, exc)
        Constructor(y, e, from) ==
            IF Len(shape) = 1 THEN ConstructElement(y, e, from)
            ELSE Construct(y, e, from, Tail(shape), args)
        Turn(y, k) ==
            IF Runs(y)
            THEN Finally(Constructor(y, Append(path, k - 1), Append(src, k - 1)), path, k - 1, shape)
            ELSE y
    IN  FoldLeft(Turn, x, [k \in 1 .. Head(shape) |-> k])

EhvecCtor(x, shape) == Construct(x, <<>>, <<>>, shape, {})
EhvecCopyCtor(x, shape) == Construct(x, <<>>, <<>>, shape, {"src"})
EhvecCtorVb(x, shape) == Construct(x, <<>>, <<>>, shape, {"vb"})
EhvecCopyCtorVb(x, shape) == Construct(x, <<>>, <<>>, shape, {"src", "vb"})

-----------------------------------------------------------------------------
(* The destructors that run are those of existing elements, youngest first. *)
Orderly(log, live) ==
    LET destroyed == SelectSeq(log, LAMBDA c : c[1] = "destructor")
        Age(k) == SelectInSeq(live, LAMBDA e : e = destroyed[k][2])
    IN  /\ \A k \in DOMAIN destroyed : Age(k) # 0
        /\ \A j, k \in DOMAIN destroyed : j < k => Age(j) > Age(k)

Constructed(log, throws) ==
    LET done == SelectSeq(log, LAMBDA c : c[1] = "constructor" /\ throws[c] = "none")
    IN  [k \in DOMAIN done |-> done[k][2]]

Escapes(x, exc) ==
    \E k \in DOMAIN x.log : x.log[k][1] = "destructor" /\ x.throws[x.log[k]] = exc

(* The construction of an array is all or nothing, and what is destroyed is destroyed
   once and in reverse; a destructor that throws a C++ exception while an array is
   unwound ends the program, and one that raises another exception leaves the rest.  A
   copy is made of the element at the same place. *)
ConstructionRight(shape, throws) ==
    LET Right(x, args) ==
            /\ Orderly(x.log, Constructed(x.log, throws))
            /\ x.exc = "none" <=> \A k \in DOMAIN x.log : throws[x.log[k]] = "none"
            /\ x.exc = "terminated" <=> Escapes(x, "cxx")
            /\ Throws(x) /\ ~Escapes(x, "seh") => x.live = <<>>
            /\ \A k \in DOMAIN x.given : LET g == x.given[k]
                  IN  g = <<g[1], IF "src" \in args THEN g[1] ELSE <<>>, "vb" \in args>>
        start == Start(throws)
    IN  /\ Right(EhvecCtor(start, shape), {}) /\ Right(EhvecCopyCtor(start, shape), {"src"})
        /\ Right(EhvecCtorVb(start, shape), {"vb"})
        /\ Right(EhvecCopyCtorVb(start, shape), {"src", "vb"})

(* The destruction of a whole array calls every destructor once, from the last element to
   the first, even if one of them throws. *)
DestroyedRight(x, whole, throws) ==
    LET thrown == {k \in DOMAIN x.log : throws[x.log[k]] # "none"}
    IN  /\ Orderly(x.log, whole.live)
        /\ Cardinality(thrown) <= 1 => x.live = <<>>
        /\ x.exc = "none" <=> thrown = {}
        /\ x.exc = "terminated" <=> Cardinality(thrown) > 1 /\ throws[Last(x.log)] = "cxx"

DestructionOf(whole, shape, throws) ==
    DestroyedRight(EhvecDtor([whole EXCEPT !.throws = throws, !.log = <<>>], <<>>, shape), whole, throws)

DestructionRight(shape, throws) ==
    DestructionOf(EhvecCtor(Start([c \in DOMAIN throws |-> "none"]), shape), shape, throws)
=============================================================================
