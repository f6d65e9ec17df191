-------------------------------- MODULE Rtti --------------------------------
(***************************************************************************)
(* dynamic_cast (rtti.cpp): the walk over the base class array of the      *)
(* complete object for hierarchies without multiple inheritance, without   *)
(* virtual inheritance, and with it, against what C++ prescribes           *)
(* (5.2.7/8), also for a compiler whose visibility flags are wrong in the  *)
(* way the source describes.                                               *)
(* A hierarchy h gives each class 1..n the sequence of its bases, records  *)
(* [cls, virt, pub] of smaller classes.  The address of a subobject is     *)
(* the subobject itself: two of one type never share an address, and       *)
(* addresses are only compared within a type.                              *)
(***************************************************************************)
EXTENDS Integers, SequencesExt

-----------------------------------------------------------------------------
(* What the compiler emits (rttidata.h): the base class array of a class lists it and
   its bases depth-first and left to right; a base is named by the path that leads to
   it, and a virtual base is listed once for each. *)

(* The subobject a path leads to: all paths to a virtual base share it. *)
where(path) ==
    LET virtual == {k \in DOMAIN path : path[k].virt}
        classes == [k \in DOMAIN path |-> path[k].cls]
    IN  IF virtual = {} THEN [virt |-> FALSE, path |-> <<>> \o classes]
        ELSE [virt |-> TRUE, path |-> SubSeq(classes, Max(virtual), Len(path))]

Entry(type, path, below) ==
    [type |-> type, path |-> path, where |-> where(path), numContainedBases |-> below]

Public(path) == \A k \in DOMAIN path : path[k].pub

Instances(array, type) == {array[k].where : k \in {k \in DOMAIN array : array[k].type = type}}

Visible(array, i) ==
    \E k \in DOMAIN array : array[k].where = array[i].where /\ Public(array[k].path)

(* A class that the object has several of, inside of a virtual base and elsewhere. *)
Mixed(array, type) ==
    /\ Cardinality(Instances(array, type)) > 1
    /\ \E w \in Instances(array, type) : w.virt

(* The attribute BCD_NOTVISIBLE as the compiler emits it.  The comments in
   FindVITargetTypeInstance know a compiler that confuses: if one instance of a mixed
   class is visible, it says so of all of them. *)
Attributed(array, confuses) ==
    LET Taken(i) ==
            \/ Visible(array, i)
            \/ /\ confuses /\ Mixed(array, array[i].type)
               /\ \E k \in DOMAIN array : array[k].type = array[i].type /\ Visible(array, k)
    IN  <<>> \o [i \in DOMAIN array |-> [notVisible |-> ~Taken(i)] @@ array[i]]

(* The arrays of all classes of h, in order. *)
Arrays(h, confuses) ==
    LET Under(array, b) ==
            FoldLeft(LAMBDA acc, e : Append(acc, Entry(e.type, <<b>> \o e.path, e.numContainedBases)),
                     <<>>, array)
        Below(arrays, bases) ==
            FoldLeft(LAMBDA acc, b : acc \o Under(arrays[b.cls], b), <<>>, bases)
        Class(arrays, bases) ==
            LET below == Below(arrays, bases)
            IN  <<Entry(Len(arrays) + 1, <<>>, Len(below))>> \o below
        arrays == FoldLeft(LAMBDA acc, bases : Append(acc, Class(acc, bases)), <<>>, h)
    IN  <<>> \o [c \in DOMAIN h |-> Attributed(arrays[c], confuses)]

NOTVISIBLE(array, i) == array[i].notVisible

AMBIGUOUS(array, i) == Cardinality(Instances(array, array[i].type)) > 1

PRIVORPROTBASE(array, i) == array[i].path # <<>> /\ ~Last(array[i].path).pub

MULTINH(h, array) == \E k \in DOMAIN array : Len(h[array[k].type]) > 1

VIRTINH(array) == \E k \in DOMAIN array : \E j \in DOMAIN array[k].path : array[k].path[j].virt

-----------------------------------------------------------------------------
(* The three searches: the index of the result in the array, or 0. *)

FindSITargetTypeInstance(array, src, target) ==
    LET targets == {i \in DOMAIN array : array[i].type = target}
        i == Min(targets)
        sources == {j \in i + 1 .. Len(array) : array[j].type = src}
    IN  IF targets # {} /\ sources # {}
           /\ \A j \in i + 1 .. Min(sources) : ~PRIVORPROTBASE(array, j)
        THEN i ELSE 0

(* Entry k of the base class array of the target at i, seen from the target. *)
InTarget(arrays, array, i, k) == [of |-> arrays[array[i].type], at |-> k - i + 1]

HiddenInTarget(arrays, array, i, k) ==
    LET e == InTarget(arrays, array, i, k) IN NOTVISIBLE(e.of, e.at)

IsSource(array, k, src, srcWhere) == array[k].type = src /\ array[k].where = srcWhere

(* The instances of the target the walk tests: not those inside of another one.  *)
Within(array, i, k) == i < k /\ k - i <= array[i].numContainedBases

Targets(array, target) == {i \in DOMAIN array : array[i].type = target}

Latest(array, target, k) == Max({i \in Targets(array, target) : i < k} \cup {0})

FindMITargetTypeInstance_AnyTarget(arrays, array, src, srcWhere, target) ==  \* a slip: the first
    LET sources == {k \in DOMAIN array : IsSource(array, k, src, srcWhere)}
        s == Min(sources)
        t == Min(Targets(array, target))
    IN  IF sources = {} \/ Targets(array, target) = {} THEN 0
        ELSE IF t < s /\ Within(array, t, s)
        THEN IF HiddenInTarget(arrays, array, t, s) THEN 0 ELSE t
        ELSE IF NOTVISIBLE(array, t) \/ AMBIGUOUS(array, t) \/ NOTVISIBLE(array, s)
        THEN 0 ELSE t

FindMITargetTypeInstance(arrays, array, src, srcWhere, target) ==
    LET sources == {k \in DOMAIN array : IsSource(array, k, src, srcWhere)}
        s == Min(sources)
        before == Latest(array, target, s)
        after == {i \in Targets(array, target) : i > s}
        t == IF before # 0 THEN before ELSE Min(after)
    IN  IF sources = {} \/ (before = 0 /\ after = {}) THEN 0
        ELSE IF before # 0 /\ Within(array, before, s)
        THEN IF HiddenInTarget(arrays, array, before, s) THEN 0 ELSE before
        ELSE IF NOTVISIBLE(array, t) \/ AMBIGUOUS(array, t) \/ NOTVISIBLE(array, s)
        THEN 0 ELSE t

(* Virtual inheritance: the walk goes over the whole array, a source inside of a
   target is a down-cast and any other a candidate for a cross-cast. *)
DirectlyPublic(arrays, array, i, k) ==
    LET e == InTarget(arrays, array, i, k) IN ~PRIVORPROTBASE(e.of, e.at)

FindVITargetTypeInstance(arrays, array, src, srcWhere, target) ==
    LET sources == {k \in DOMAIN array : IsSource(array, k, src, srcWhere)}
        T(k) == Latest(array, target, k)
        downs == {k \in sources : T(k) # 0 /\ Within(array, T(k), k)}
        hidden == {k \in downs : HiddenInTarget(arrays, array, T(k), k)}
        allowed(k) == \A j \in hidden : j > k
        results == {k \in downs : allowed(k) /\ DirectlyPublic(arrays, array, T(k), k)}
        crossSource == {k \in sources \ downs :
                            ~NOTVISIBLE(array, k) /\ ~PRIVORPROTBASE(array, k)}
        crossTarget == {i \in Targets(array, target) :
                            ~NOTVISIBLE(array, i) /\ ~AMBIGUOUS(array, i)}
    IN  IF Cardinality({array[T(k)].where : k \in results}) > 1 THEN 0
        ELSE IF hidden = {} /\ results # {} THEN T(Max(results))
        ELSE IF crossSource # {} /\ crossTarget # {} THEN Max(crossTarget)
        ELSE 0

Nothing == [virt |-> FALSE, path |-> <<0>>]

(* __RTDynamicCast: the subobject of the complete object it returns, or Nothing. *)
RTDynamicCast(h, arrays, complete, src, srcWhere, target) ==
    LET array == arrays[complete]
        i == IF ~MULTINH(h, array) THEN FindSITargetTypeInstance(array, src, target)
             ELSE IF ~VIRTINH(array)
             THEN FindMITargetTypeInstance(arrays, array, src, srcWhere, target)
             ELSE FindVITargetTypeInstance(arrays, array, src, srcWhere, target)
    IN  IF i = 0 THEN Nothing ELSE array[i].where

-----------------------------------------------------------------------------
(* What C++ prescribes: an object of the target type of which the source is a public
   base, if it is the only one derived from the source; otherwise, for a source that
   is public in the complete object, its unambiguous public base of the target type. *)

Prescribed(array, src, srcWhere, target) ==
    LET paths == {array[k].path : k \in {k \in DOMAIN array : array[k].type = target}}
        Below(p) == {array[k].path : k \in {k \in DOMAIN array :
                        /\ IsSource(array, k, src, srcWhere)
                        /\ Len(array[k].path) > Len(p) /\ IsPrefix(p, array[k].path)}}
        derived == {where(p) : p \in {p \in paths : Below(p) # {}}}
        publicly == {where(p) : p \in {p \in paths :
                        \E q \in Below(p) : Public(SubSeq(q, Len(p) + 1, Len(q)))}}
        sourcePublic == \E k \in DOMAIN array :
                            IsSource(array, k, src, srcWhere) /\ Public(array[k].path)
        public == {where(p) : p \in {p \in paths : Public(p)}}
    IN  IF derived # {} /\ Cardinality(derived) = 1 /\ derived = publicly
        THEN CHOOSE t \in derived : TRUE
        ELSE IF sourcePublic /\ Cardinality(Instances(array, target)) = 1 /\ public # {}
        THEN CHOOSE t \in public : TRUE
        ELSE Nothing

(* The compiler needs no cast for a target that is the source's type, or its public and
   unambiguous base. *)
Checked(array, src, target) ==
    /\ src # target
    /\ ~\E i \in DOMAIN array :
            array[i].type = target /\ Visible(array, i) /\ ~AMBIGUOUS(array, i)

(* dynamic_cast gives, for each subobject of an object of the last class and each target
   class, the subobject that C++ prescribes.  With a compiler that confuses instances
   it "will still incorrectly" succeed for some sources of a mixed class; never for one
   that no class inherits publicly, and it never fails, nor gives another subobject,
   where C++ prescribes one. *)
CastIsRight(h, confuses) ==
    LET arrays == Arrays(h, confuses)
        complete == Len(h)
        array == arrays[complete]
        Private(src, s) == \A k \in DOMAIN array :
                                IsSource(array, k, src, s) => PRIVORPROTBASE(array, k)
    IN  \A src \in DOMAIN h, target \in DOMAIN h :
            Checked(arrays[src], src, target) =>
                \A s \in Instances(array, src) :
                    LET result == RTDynamicCast(h, arrays, complete, src, s, target)
                        prescribed == Prescribed(array, src, s, target)
                    IN  \/ result = prescribed
                        \/ /\ confuses /\ Mixed(array, src) /\ ~Private(src, s)
                           /\ prescribed = Nothing
=============================================================================
