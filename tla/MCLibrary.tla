------------------------------ MODULE MCLibrary ------------------------------
(***************************************************************************)
(* The pure algorithms of the runtime against their references, and the    *)
(* life of exception_ptr.  The variable in is the input of one of the      *)
(* algorithms: a seed is chosen first and completed in the second step; it *)
(* stays "pointers" while the variables of ExceptionPtr change.            *)
(***************************************************************************)
EXTENDS Decoration, Rtti, VectorAlgorithms, HeapFunctions, EhArrays, NumberParsing, MultiPrecision, TLC

CONSTANTS Threads, Pointers, Memory, None, Unborn, Null

VARIABLES in, ptr, uses, rep, call, handled, objects

Strings(chars, n) == {<<>> \o s : s \in UNION {[1 .. k -> chars] : k \in 0 .. n}}

-----------------------------------------------------------------------------
(* Hierarchies of four classes: class c has any of the classes below it as bases. *)

BasesOf(c) ==
    LET orders == UNION {{q \in [1 .. n -> 1 .. c - 1] : \A i, j \in 1 .. n : i < j => q[i] < q[j]} :
                            n \in 0 .. c - 1}
    IN  UNION {{[k \in 1 .. Len(q) |-> [cls |-> q[k], virt |-> v[k], pub |-> p[k]]] :
                    v, p \in [1 .. Len(q) -> BOOLEAN]} : q \in orders}

InitCast == in \in [part : {"cast"}, h : {<< <<>>, b2, b3>> : b2 \in BasesOf(2), b3 \in BasesOf(3)}]

NextCast ==
    /\ in.part = "cast" /\ Len(in.h) = 3
    /\ \E b4 \in BasesOf(4) : in' = [in EXCEPT !.h = Append(@, b4)]

(* dynamic_cast finds the subobject C++ prescribes, in every hierarchy of up to four
   classes and for every subobject the cast may start from (rtti.cpp).  If the compiler
   mistakes instances of a class inherited both virtually and not (rtti.cpp:832-856 and
   897-919), a cast from such an instance may succeed where C++ has it fail, unless the
   instance is inherited non-publicly by the classes directly above it; that is all. *)
CastRight == in.part = "cast" => \A confuses \in BOOLEAN : CastIsRight(in.h, confuses)

-----------------------------------------------------------------------------
(* Ranges for the vectorised algorithms, around the sizes of registers and portions: a
   byte has two bits where values are compared. *)

Sets == {{}, {"sse2"}, {"sse2", "sse42", "x64"}, {"sse2", "sse42", "avx2", "x64"}}
Sizes == {1, 2, 4, 8}

With(n, rest, p, v, q, w) == <<>> \o [i \in 1 .. n |-> IF i = p THEN v ELSE IF i = q THEN w ELSE rest]

InitVector ==
    \/ in \in [part : {"move", "find"}, e : Sizes, isa : Sets]
    \/ in \in {x \in [part : {"minmax"}, e : Sizes, b : {1, 2}, isa : {{}, {"sse42"}}, sign : BOOLEAN] :
                    x.b = 1 => x.e = 4}

(* Elements of e bytes of b bits.  With two bits to a byte a portion is 64, 128 or 1024
   elements of 1, 2 or 4 bytes, and the offsets of the latter wrap after 64; with one bit
   a portion of elements of 4 bytes is 64, and the offsets wrap after 4. *)
MinmaxLengths(e, b) ==
    CASE e = 1 -> {33, 131} [] e = 2 -> {9, 138} [] e = 8 -> {2, 5}
      [] e = 4 /\ b = 2 -> {9, 70}
      [] e = 4 /\ b = 1 -> {70}

Extremes(bits) == {0, 2 ^ (bits - 1) - 1, 2 ^ (bits - 1)}
Places(n) == {p \in {1, 2, 16, 17, 64, 65, 128, 129} : p <= n} \cup {n}

NextMove ==
    /\ in.part = "move"
    /\ \E n \in 0 .. 100 \div in.e :
          in' = [part |-> "moved", e |-> in.e, isa |-> in.isa,
                 mem |-> <<>> \o [i \in 1 .. n * in.e |-> i]]

NextFind ==
    /\ in.part = "find"
    /\ \E n \in {64 \div in.e, 64 \div in.e + 1} \cup 0 .. 5 : \E p, q \in 0 .. n :
          in' = [part |-> "found", e |-> in.e, isa |-> in.isa, mem |-> With(n, 0, p, 1, q, 1)]

NextMinmax ==
    /\ in.part = "minmax"
    /\ \E n \in MinmaxLengths(in.e, in.b) :
       \E p, q \in Places(n), rest, v, w \in Extremes(in.e * in.b) :
          /\ p < q /\ rest # w /\ (in.isa = {} => n < 40)
          /\ in' = [part |-> "compared", e |-> in.e, b |-> in.b, isa |-> in.isa, sign |-> in.sign,
                    data |-> With(n, rest, p, v, q, w)]

Searches == {first \in {(i - 1) * in.e : i \in DOMAIN in.mem} :
                \E i \in DOMAIN in.mem : (i - 1) * in.e >= first /\ in.mem[i] = 1}

(* Whatever the processor has, the vectorised algorithms compute what the scalar loops do
   (vector_algorithms.cpp), with two exceptions, both defects: an extreme element of 4
   bytes that lies 4 GiB or more behind the start is given at a multiple of 4 GiB less
   (line 886, 927); and the search without an end is right only if nothing in front of
   the range shares a register with a match (UnsizedFindsInRange). *)
VectorisedRight ==
    /\ in.part = "moved" => MovesRight(in.mem, in.e, in.isa)
    /\ in.part = "compared" => MinmaxRight(in.data, Traits(in.e, in.b), in.sign, in.isa)
    /\ in.part = "found" =>
          /\ FindRight(in.mem, in.e, 1, in.isa)
          /\ Len(in.mem) * in.e = 64 => \A first \in Searches :
                PadHasNone(in.mem, first, in.e, 1) => UnsizedFindRight(in.mem, first, in.e, 1, in.isa)

(* "From start partial piece we mask out matches that don't belong to the range"
   (vector_algorithms.cpp, above the loop): the search finds a match in the range. *)
UnsizedFindsInRange ==
    in.part = "found" /\ Len(in.mem) * in.e = 64 =>
        \A first \in Searches : UnsizedFindRight(in.mem, first, in.e, 1, in.isa)

-----------------------------------------------------------------------------
(* Aligned blocks: a block, a first reallocation, and any second one. *)

Fresh(size, alignment, offset, at) ==
    [r |-> aligned_offset_malloc({}, size, alignment, offset, at), size |-> size,
     alignment |-> alignment, offset |-> offset]

InitAligned ==
    in \in {[Fresh(size, alignment, offset, at) EXCEPT !.r = Filled(@, size)] @@ [part |-> "aligned"] :
               <<size, alignment, offset, at>> \in
                  {x \in {0, 1, 4, 5} \X {1, 4, 8} \X (0 .. 3) \X {16, 20} : x[3] = 0 \/ x[3] < x[1]}}

Changes(a) ==
    {s \in [zero : BOOLEAN, count : {0, 1, 3}, size : {0, 1, 2, 5, 60}, alignment : {1, 2, 3, 4, 8},
            offset : 0 .. 3, at : {0, 40}, at2 : {0, 72}] :
        s.zero => s.alignment = a.alignment /\ s.offset = a.offset}

NextAligned ==
    /\ in.part = "aligned"
    /\ \E size \in {1, 3, 6}, alignment \in {1, 4, 8}, offset \in 0 .. 2 :
          LET r == aligned_offset_realloc(in.r.heap, in.r.user, size, alignment, offset, 40, 72)
          IN  /\ r.user # 0
              /\ in' = [part |-> "realigned", r |-> Filled(r, size), size |-> size,
                        alignment |-> alignment, offset |-> offset]

(* An aligned block is where it should be in its raw block after a chain of calls of the
   functions of align.cpp, with its data; a refusal leaves it alone. *)
AlignedRight ==
    in.part \in {"aligned", "realigned"} =>
        /\ Inside(in.r.heap, in.r.user, in.size, in.alignment, in.offset)
        /\ \A s \in Changes(in) :
              (s.at # 0 => \A b \in in.r.heap : b.at # s.at) => AlignedBlocks(in.r, in.size, s)

-----------------------------------------------------------------------------
(* The retry loops. *)

InitRetry ==
    in \in [part : {"retry"}, what : {"malloc", "calloc", "new"}, pool : Strings({FALSE}, 4),
            handler : Strings({"yes", "no"}, 3), size : {0, 1, HEAP_MAXREQ + 1, W - 1}, mode : {0, 1}]

Outcome ==
    LET env == [pool |-> in.pool, handler |-> in.handler, events |-> <<>>]
    IN  CASE in.what = "malloc" -> Malloc(env, in.size, in.mode).events
          [] in.what = "calloc" -> Calloc(env, 1, in.size, in.mode).events
          [] in.what = "new" -> New(env, in.size, in.mode).events

Counted(events, what) == Len(SelectSeq(events, LAMBDA e : e = what))

(* A request ends with a block, or it gives up with the handler's no as its last question
   (or without a question, if the handler is not to be asked); every yes is followed by
   another attempt, so that a handler that frees memory often enough is enough; operator
   new ends with a block or an exception (malloc.cpp, calloc.cpp, new_scalar.cpp). *)
RetriesRight ==
    in.part = "retry" =>
        LET events == Outcome
            n == Len(events)
            asked == in.mode = 1 \/ in.what = "new"
            given == events[n] = "block"
        IN  /\ given => Counted(events, "block") = 1 /\ Counted(events, "none") = Len(in.pool)
            /\ \A k \in 1 .. n : events[k] = "yes" => k < n /\ events[k + 1] \in {"none", "block", "refused"}
            /\ in.what = "new" => given \/ events[n] \in {"bad_alloc", "bad_array_new_length"}
            /\ ~given /\ events[n] # "refused" => events[n - 1] = IF asked THEN "no" ELSE "none"
            /\ /\ asked /\ in.size <= HEAP_MAXREQ /\ Len(in.pool) <= Len(in.handler)
               /\ \A k \in DOMAIN in.pool : in.handler[k] = "yes"
               => given

(* What the heap functions give is what was asked for: aligned blocks keep their place and
   their data through any chain of calls, and a request is retried exactly as long as the
   new handler says so. *)
HeapRight == AlignedRight /\ RetriesRight

-----------------------------------------------------------------------------
(* Arrays of which up to three constructors and destructors throw. *)

Leaves(shape) ==
    IF Len(shape) = 1 THEN {<<i>> : i \in 0 .. shape[1] - 1}
    ELSE {<<i, j>> : i \in 0 .. shape[1] - 1, j \in 0 .. shape[2] - 1}

Calls(shape) == {"constructor", "destructor"} \X Leaves(shape)

InitArray == in \in [part : {"array"}, shape : {<<1>>, <<3>>, <<4>>, <<2, 2>>, <<2, 3>>, <<3, 2>>}]

NextArray ==
    /\ in.part = "array"
    /\ \E a, b, c \in Calls(in.shape), x \in {"cxx", "seh"}, y, z \in {"none", "cxx", "seh"} :
          in' = [part |-> "thrown", shape |-> in.shape,
                 throws |-> [p \in Calls(in.shape) |->
                    IF p = a THEN x ELSE IF p = b THEN y ELSE IF p = c THEN z ELSE "none"]]

(* An array is constructed as a whole or not at all, and destroyed in reverse even if a
   destructor throws (the array iterators of the VCRuntime). *)
ArraysRight ==
    in.part = "thrown" =>
        ConstructionRight(in.shape, in.throws) /\ DestructionRight(in.shape, in.throws)

-----------------------------------------------------------------------------
(* Numbers: strings of up to five characters, binary ones of up to eight, fields of up to
   seven digits; integers have four and six bits. *)

InitNumber ==
    \/ in \in [part : {"integer"}, s : Strings({" ", "-", "0", "1", "7", "f", "x"}, 3)]
    \/ in \in [part : {"binary"}, s : Strings({"-", "0", "1"}, 4)]
    \/ in \in [part : {"prefix"}, s : Strings({" ", "-", "n", "a", "i", "f", "(", "0", "x"}, 3)
                  \cup {<<"i", "n", "f", "i", "n", "i", "t">>, <<"n", "a", "n", "(", "_">>}]
    \/ in \in [part : {"field"}, kind : {"stoflt", "wstoflt", "stoxflt"}, ints : Strings({"0", "4", "9"}, 3)]

NextNumber ==
    \/ /\ in.part = "integer" /\ Len(in.s) = 3
       /\ \E t \in Strings({"0", "7", "f", "x", "-"}, 2) : in' = [part |-> "integer2", s |-> in.s \o t]
    \/ /\ in.part = "binary" /\ Len(in.s) = 4
       /\ \E t \in Strings({"0", "1"}, 4) : in' = [part |-> "integer2", s |-> in.s \o t]
    \/ /\ in.part = "prefix" /\ Len(in.s) >= 3
       /\ \E t \in Strings({"n", "f", "y", "(", ")", "7"}, 2) :
             in' = [part |-> "prefix2", s |-> in.s \o t]
    \/ /\ in.part = "field"
       /\ \E t \in Strings({"0", "4", "5"}, 4) \ {<<>>} :
             in' = [part |-> "field2", kind |-> in.kind, ints |-> in.ints, fracs |-> t]

(* The numbers in a string are recognised to their end, and their value is exact, or the
   limit and an error (integers), or rounded as the function does it (fields). *)
NumbersRight ==
    /\ in.part \in {"integer", "integer2", "binary"} =>
          \A base \in {0, 1, 2, 10, 16, 37} : IntegersRight(in.s, base)
    /\ in.part \in {"prefix", "prefix2"} => PrefixRight(in.s)
    /\ in.part = "field2" => \A ndig, words \in 1 .. 2 :
          FieldRight(in.kind, in.ints, in.fracs, ndig, words)

-----------------------------------------------------------------------------
(* Multiples of half words of two bits, all of them, and of three. *)

InitEngine ==
    \/ in \in [part : {"engine"}, shift : {2}, m : 4 .. 15, a : 0 .. 15]
    \/ in \in [part : {"engine"}, shift : {3}, m : {8, 15, 16, 31, 33, 47, 62, 63}, a : {7, 31, 32, 62}]

NextEngine ==
    /\ in.part = "engine"
    /\ \E x \in 0 .. in.m - 1, c \in IF in.shift = 2 THEN 0 .. 15 ELSE {0, 1, 63} :
          in' = [in EXCEPT !.part = "stepped"] @@ [x |-> x, c |-> c]

(* The engine's next value is (a * x + c) modulo m, without loss in the half words. *)
EngineRight == in.part = "stepped" => StepRight(in.a, in.x, in.c, in.m, in.shift)

-----------------------------------------------------------------------------
(* Decorated names: types of up to two levels of indirection in every place a type can
   have, names and types that repeat, and more of them than the tables of ten can hold. *)

Foo == Class(<<"V">>, <<Id("foo")>>)
NsFoo == Class(<<"U">>, <<Id("foo"), Id("ns")>>)
Colour == Class(<<"W", "4">>, <<Id("bar"), Id("foo")>>)
Cls(args) == Class(<<"V">>, <<Instance("cls", args), Id("ns")>>)
IsReference(t) == t.k = "ptr" /\ t.sign # "*"
Const(t) == IF IsReference(t) THEN t ELSE [t EXCEPT !.cv = {"const"}]
Object(t) == IF IsReference(t) THEN t.to ELSE t
PointerTo(t) == Pointer("*", Object(t), {})

Plainest == {IntType, Basic(<<"_", "N">>, <<"bool">>), Foo, NsFoo, Colour,
             Cls(<<TypeArg(IntType), IntArg(-3)>>)}

Indirect(t) ==
    LET o == Object(t)
    IN  {Pointer("*", o, {}), Pointer("*", Const(o), {"const"}), Pointer("&", Const(o), {}),
         Pointer("&&", o, {}), Pointer("*", Array(<<2, 20>>, o), {}), Pointer("*", Array(<<11>>, Const(o)), {}),
         Pointer("*", Member(<<Id("foo")>>, o), {}), Pointer("*", Function(t, <<t, t>>), {}),
         Pointer("*", MemberFunction(<<Id("foo"), Id("ns")>>, {"const"}, Function(VoidType, <<t>>)), {}),
         Cls(<<TypeArg(t), TypeArg(Const(t)), TypeArg(t)>>)}

InitName ==
    \/ \E t \in Plainest : in \in [part : {"name"}, t : {t} \cup Indirect(t)]
    \/ in \in [part : {"names"}, n : 8 .. 12]

OperatorSymbol(code, words, udc) == [k |-> "operator", code |-> code, words |-> words, udc |-> udc]
Free(symbol, scope, ret, args) ==
    [k |-> "function", symbol |-> symbol, scope |-> scope, code |-> <<"Y">>, instance |-> FALSE, this |-> {},
     ret |-> ret, args |-> args, access |-> "", static |-> FALSE, virtual |-> FALSE]
Method(symbol, scope, this, ret, args) ==
    [Free(symbol, scope, ret, args) EXCEPT !.code = <<"U">>, !.instance = TRUE, !.this = this,
        !.access = "public:", !.virtual = TRUE]
Static(symbol, scope, ret, args) ==
    [Free(symbol, scope, ret, args) EXCEPT !.code = <<"C">>, !.access = "private:", !.static = TRUE]
Variable(symbol, scope, type) ==
    [k |-> "variable", symbol |-> symbol, scope |-> scope, code |-> <<"3">>, type |-> type,
     access |-> "", static |-> FALSE, virtual |-> FALSE]
Vftable(scope, for) ==
    [k |-> "vftable", symbol |-> OperatorSymbol(<<"_", "7">>, <<"'vftable'">>, FALSE), scope |-> scope, for |-> for]

Scopings(t) ==
    LET block == [k |-> "block", n |-> 2, of |-> Free(Id("f"), <<Id("ns")>>, t, <<PointerTo(t), t>>)]
    IN  {<<>>, <<Id("foo"), Id("ns"), Id("foo")>>, <<[k |-> "anonymous", id |-> "A1"], Id("foo")>>,
         <<Instance("cls", <<TypeArg(t), TypeArg(Foo)>>), Id("ns")>>, <<block>>, <<Id("bar"), block, Id("foo")>>}

Entities(t) ==
    LET class == <<Id("foo"), Id("ns")>>
        none == [k |-> "none"]
    IN  {Free(Id("f"), scope, t, <<t, PointerTo(t), u, t>>) : scope \in Scopings(t), u \in Plainest}
        \cup {Variable(Id("v"), scope, u) : scope \in Scopings(t), u \in {t} \cup Indirect(t)}
        \cup {Free(Instance("g", <<TypeArg(t), TypeArg(u), IntArg(n), TypeArg(t)>>), <<>>, t, <<u, t>>) :
                 u \in Plainest, n \in {-20, 0, 10}}
        \cup {[Variable(Id("v"), class, t) EXCEPT !.code = <<"2">>, !.access = "public:", !.static = TRUE],
              Static(Id("f"), class, t, <<t, t>>),
              Method(Id("foo"), class, {"volatile"}, t, <<t, Pointer("*", Foo, {}), t>>),
              Method(OperatorSymbol(<<"0">>, <<"foo">>, FALSE), class, {}, none, <<t, t>>),
              Method(OperatorSymbol(<<"1">>, <<"~", "foo">>, FALSE), class, {}, none, <<>>),
              Method(OperatorSymbol(<<"M">>, <<"operator", "<">>, FALSE), class, {"const"}, IntType, <<t, NsFoo>>),
              Method(OperatorSymbol(<<"B">>, <<"operator">>, TRUE), class, {"const"}, t, <<>>),
              Vftable(class, <<>>), Vftable(class, <<class, <<Instance("cls", <<TypeArg(t)>>), Id("ns")>>>>)}

(* Functions of n classes, the last and the first twice. *)
Many(n) ==
    LET ClassNumber(i) == Class(<<"V">>, <<Id(<<"c1", "c2", "c3", "c4", "c5", "c6", "c7", "c8", "c9", "c10", "c11", "c12">>[i])>>)
        all == [i \in 1 .. n |-> i] \o <<n, 1, n>>
    IN  {Free(Id("f"), <<>>, IntType, [i \in DOMAIN all |-> ClassNumber(all[i])]),
         Free(Id("f"), <<>>, IntType, [i \in DOMAIN all |-> Pointer("*", ClassNumber(all[i]), {})]),
         Free(Instance("g", [i \in DOMAIN all |-> TypeArg(ClassNumber(all[i]))]), <<>>, ClassNumber(1), <<ClassNumber(n), ClassNumber(n)>>)}

NextName ==
    \/ in.part = "name" /\ \E e \in Entities(in.t) : in' = [part |-> "named", e |-> e]
    \/ in.part = "names" /\ \E e \in Many(in.n) : in' = [part |-> "named", e |-> e]

(* A decorated name is undecorated to the declaration it was made of, whatever was
   undecorated before it, and to the qualified name alone if that is asked for; a name for
   hybrid code gets its mark once (undname.cxx). *)
NamesRight == [][in'.part = "named" => NameIsRight(in'.e)]_in

-----------------------------------------------------------------------------
(* Two exceptions with a copy constructor, a small and a larger one, one that is copied as
   bytes, and two that are not of C++. *)

Thrown(name, kind, size, copied, dtor) ==
    [name |-> name, kind |-> kind, size |-> size, copied |-> copied, dtor |-> dtor]

Exceptions == {Thrown("small", "cxx", 1, "constructor", TRUE), Thrown("large", "cxx", 2, "constructor", TRUE),
               Thrown("plain", "cxx", 2, "bytes", FALSE),
               Thrown("seh", "seh", 0, "bytes", FALSE), Thrown("managed", "managed", 0, "bytes", FALSE)}

ExPtr == INSTANCE ExceptionPtr WITH Blocks <- Memory

ASSUME PtrAssumptionHolds == ExPtr!PtrAssumption

(* Whatever fails while exceptions are copied, assigned and rethrown, and however the
   threads that share a control block interleave: the counts are exact, no block is lost or
   used after it was freed, and every exception object lives as long as its block is held
   and fits into it (excptptr.cpp). *)
PointersRight == in.part = "pointers" => ExPtr!PointersRight

-----------------------------------------------------------------------------
InitInput == \/ InitCast \/ InitVector \/ InitAligned \/ InitRetry \/ InitArray \/ InitNumber \/ InitEngine
             \/ InitName

NextInput == \/ NextCast \/ NextMove \/ NextFind \/ NextMinmax \/ NextAligned
             \/ NextArray \/ NextNumber \/ NextEngine \/ NextName

Init == (in = [part |-> "pointers"] \/ InitInput) /\ ExPtr!PtrInit

Next == \/ NextInput /\ UNCHANGED <<ptr, uses, rep, call, handled, objects>>
        \/ in.part = "pointers" /\ ExPtr!PtrNext /\ UNCHANGED in
=============================================================================
