---------------------------- MODULE HeapFunctions ----------------------------
(***************************************************************************)
(* The heap functions that are more than a call of the allocator:          *)
(* aligned blocks (heap/align.cpp), which hide a pointer to their raw      *)
(* block in front of the data, and the retry loops of malloc, calloc and   *)
(* operator new around the new handler.  Addresses and sizes are numbers   *)
(* below W, the width of size_t; 0 is the null pointer.                    *)
(***************************************************************************)
EXTENDS Integers, SequencesExt

CONSTANTS PTR_SZ,           \* bytes of a pointer
          W,                \* size_t wraps around here
          HEAP_MAXREQ       \* _HEAP_MAXREQ, the largest request

-----------------------------------------------------------------------------
(* Raw blocks.  Where the next one lies is an input, 0 when there is no memory; the
   allocator fills a block with zeros.  Byte Word(p) is part of a stored pointer p. *)

Word(p) == 1000 + p

std_malloc(size, at) ==
    IF at = 0 THEN {} ELSE {[at |-> at, bytes |-> <<>> \o [i \in 1 .. size |-> 0]]}

malloc(size, at) == IF size > HEAP_MAXREQ THEN {} ELSE std_malloc(size, at)

Read(b, at, n) == SubSeq(b.bytes, at - b.at + 1, at - b.at + n)

Write(b, at, data) ==
    [b EXCEPT !.bytes = SubSeq(@, 1, at - b.at) \o data
                          \o SubSeq(@, at - b.at + Len(data) + 1, Len(@))]

(* realloc moves a block always: allocate, copy, free; a null block or no size is refused. *)
std_realloc(b, size, at) ==
    IF size = 0 THEN {}
    ELSE {Write(new, new.at, Read(b, b.at, Min({Len(b.bytes), size}))) :
              new \in std_malloc(size, at)}

expand(b, size, at) ==
    IF size > HEAP_MAXREQ THEN {} ELSE std_realloc(b, IF size = 0 THEN 1 ELSE size, at)

-----------------------------------------------------------------------------
(* Aligned blocks.  heap is the set of the raw blocks; a result is the pointer for the
   user and the heap there is then. *)

IS_2_POW_N(x) == \E k \in 0 .. 10 : x = 2 ^ k
Mask(alignment) == Max({alignment, PTR_SZ}) - 1
Gap(offset) == (-offset) % PTR_SZ
Nonuser(alignment, offset) == PTR_SZ + Gap(offset) + Mask(alignment)

Accepted(size, alignment, offset) ==
    IS_2_POW_N(alignment) /\ (offset = 0 \/ offset < size)

Place(ptr, alignment, offset) ==
    LET end == ptr + Nonuser(alignment, offset) + offset
    IN  end - (end % (Mask(alignment) + 1)) - offset

Header(user) == user - (user % PTR_SZ) - PTR_SZ

(* The raw block the header of a user's pointer names. *)
Raw(heap, user) ==
    CHOOSE b \in heap :
        /\ Header(user) >= b.at /\ user <= b.at + Len(b.bytes)
        /\ Read(b, Header(user), PTR_SZ) = [i \in 1 .. PTR_SZ |-> Word(b.at)]

Labelled(b, user, offset) ==
    Write(b, user - Gap(offset) - PTR_SZ, [i \in 1 .. PTR_SZ |-> Word(b.at)])

Refused(heap) == [user |-> 0, heap |-> heap]

aligned_free(heap, user) == IF user = 0 THEN heap ELSE heap \ {Raw(heap, user)}

aligned_msize_WholeTail(heap, user, alignment, offset) ==      \* a slip: what is left of the raw block
    LET b == Raw(heap, user)
    IN  (Len(b.bytes) - (user - b.at)) % W

aligned_msize(heap, user, alignment, offset) ==
    LET b == Raw(heap, user)
        header == user - b.at
        footer == Nonuser(alignment, offset) - header
    IN  (Len(b.bytes) - header - footer) % W

aligned_offset_malloc(heap, size, alignment, offset, at) ==
    LET block_size == (Nonuser(alignment, offset) + size) % W
        new == malloc(block_size, at)
        user == Place(at, alignment, offset)
    IN  IF ~Accepted(size, alignment, offset) \/ size > block_size \/ new = {}
        THEN Refused(heap)
        ELSE [user |-> user, heap |-> heap \cup {Labelled(b, user, offset) : b \in new}]

(* The raw block is expanded, which moves it, if the data stay inside; otherwise, or when
   that fails, a new block takes them.  at and at2 are where the two attempts end. *)
aligned_offset_realloc(heap, user, size, alignment, offset, at, at2) ==
    LET old == Raw(heap, user)
        diff == user - old.at
        movsz == Min({Len(old.bytes) - diff, size})
        reqsz == (Nonuser(alignment, offset) + size) % W
        far == old.at + Nonuser(alignment, offset) < user
        expanded == IF far THEN {} ELSE expand(old, reqsz, at)
        new == IF expanded # {} THEN expanded ELSE malloc(reqsz, IF far THEN at ELSE at2)
        Data(b) == IF expanded # {} THEN Read(b, b.at + diff, movsz)
                   ELSE Read(old, user, movsz)
        Moved(b, to) == Labelled(Write(b, to, Data(b)), to, offset)
    IN  IF user = 0 THEN aligned_offset_malloc(heap, size, alignment, offset, at)
        ELSE IF size = 0 THEN Refused(aligned_free(heap, user))
        ELSE IF ~Accepted(size, alignment, offset) \/ size > reqsz \/ new = {}
        THEN Refused(heap)
        ELSE LET b == CHOOSE b \in new : TRUE
                 to == Place(b.at, alignment, offset)
             IN  [user |-> to, heap |-> (heap \ {old}) \cup {Moved(b, to)}]

aligned_offset_recalloc(heap, user, count, size, alignment, offset, at, at2) ==
    LET user_size == (count * size) % W
        start == IF user = 0 THEN 0 ELSE aligned_msize(heap, user, alignment, offset)
        r == aligned_offset_realloc(heap, user, user_size, alignment, offset, at, at2)
        zeros == [i \in 1 .. user_size - start |-> 0]
    IN  IF count > 0 /\ HEAP_MAXREQ \div count < size THEN Refused(heap)
        ELSE IF r.user = 0 \/ start >= user_size THEN r
        ELSE LET b == Raw(r.heap, r.user)
             IN  [r EXCEPT !.heap = (@ \ {b}) \cup {Write(b, r.user + start, zeros)}]

-----------------------------------------------------------------------------
(* The retry loops.  pool and handler hold the coming answers, pool FALSE for no memory,
   handler "yes" if it freed some; events are what happens, in order. *)

Said(env) == IF env.handler = <<>> THEN "no" ELSE Head(env.handler)      \* _callnewh

Asked(env) ==
    [env EXCEPT !.handler = IF @ = <<>> THEN @ ELSE Tail(@),
                !.events = Append(@, Said(env))]

Got(env) == Last(env.events) = "block"

Tried(env) ==
    [env EXCEPT !.pool = IF @ = <<>> THEN @ ELSE Tail(@),
                !.events = Append(@, IF env.pool = <<>> \/ Head(env.pool)
                                     THEN "block" ELSE "none")]

(* A malloc that tries once more after the handler has freed memory, and then gives up. *)
Malloc_TriesTwice(env, size, new_mode) ==
    LET tried == Tried(env)
        again == Tried(Asked(tried))
        null(e) == [e EXCEPT !.events = Append(@, "null")]
    IN  IF size > HEAP_MAXREQ THEN [env EXCEPT !.events = Append(@, "refused")]
        ELSE IF Got(tried) THEN tried
        ELSE IF new_mode = 0 THEN null(tried)
        ELSE IF Said(tried) = "no" THEN null(Asked(tried))
        ELSE IF Got(again) THEN again ELSE null(again)

RECURSIVE Malloc(_, _, _)
Malloc(env, size, new_mode) ==
    LET tried == Tried(env)
    IN  IF size > HEAP_MAXREQ THEN [env EXCEPT !.events = Append(@, "refused")]
        ELSE IF Got(tried) THEN tried
        ELSE IF new_mode = 0 THEN [tried EXCEPT !.events = Append(@, "null")]
        ELSE IF Said(tried) = "no" THEN [Asked(tried) EXCEPT !.events = Append(@, "null")]
        ELSE Malloc(Asked(tried), size, new_mode)

RECURSIVE Calloc(_, _, _, _)
Calloc(env, count, size, new_mode) ==
    LET product == (count * size) % W
        tried == Malloc(env, Max({product, 1}), new_mode)
    IN  IF count # 0 /\ HEAP_MAXREQ \div count < size
        THEN [env EXCEPT !.events = Append(@, "refused")]
        ELSE IF Got(tried) THEN tried
        ELSE IF new_mode = 0 THEN tried
        ELSE IF Said(tried) = "no" THEN [Asked(tried) EXCEPT !.events = Append(@, "null")]
        ELSE Calloc(Asked(tried), count, size, new_mode)

RECURSIVE New(_, _, _)
New(env, size, new_mode) ==
    LET tried == Malloc(env, size, new_mode)
    IN  IF Got(tried) THEN tried
        ELSE IF Said(tried) = "no"
        THEN [Asked(tried) EXCEPT !.events =
                 Append(@, IF size = W - 1 THEN "bad_array_new_length" ELSE "bad_alloc")]
        ELSE New(Asked(tried), size, new_mode)

-----------------------------------------------------------------------------
(* What a user of aligned blocks relies on. *)

Inside(heap, user, size, alignment, offset) ==
    /\ (user + offset) % alignment = 0
    /\ \E b \in heap : /\ b.at <= Header(user) /\ user + size <= b.at + Len(b.bytes)
                       /\ Header(user) + PTR_SZ <= user
                       /\ Read(b, Header(user), PTR_SZ) = [i \in 1 .. PTR_SZ |-> Word(b.at)]
    /\ aligned_msize(heap, user, alignment, offset) = size

Filled(r, size) ==
    LET b == Raw(r.heap, r.user)
    IN  [r EXCEPT !.heap = {Write(b, r.user, [i \in 1 .. size |-> i])}]

DataAt(r, n) == Read(Raw(r.heap, r.user), r.user, n)

FirstBytes(n) == [i \in 1 .. n |-> i]

(* A block is aligned at its offset, inside of its raw block and of the size asked for;
   reallocation keeps the data, recalloc adds zeros, a refusal leaves all as it was. *)
AlignedBlocks(a, size, s) ==
    LET f == Filled(a, size)
        product == IF s.zero THEN s.count * s.size ELSE (s.count * s.size) % W
        r == IF s.zero
             THEN aligned_offset_recalloc(f.heap, f.user, s.count, s.size, s.alignment,
                                          s.offset, s.at, s.at2)
             ELSE aligned_offset_realloc(f.heap, f.user, product, s.alignment,
                                         s.offset, s.at, s.at2)
        kept == Min({size, product})
    IN  IF r.user = 0 THEN r.heap = IF product = 0 THEN {} ELSE f.heap
        ELSE /\ Inside(r.heap, r.user, product, s.alignment, s.offset)
             /\ DataAt(r, kept) = FirstBytes(kept)
             /\ s.zero => \A i \in kept + 1 .. product : DataAt(r, product)[i] = 0
             /\ aligned_free(r.heap, r.user) = {}
=============================================================================
