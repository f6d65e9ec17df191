-------------------------- MODULE VectorAlgorithms --------------------------
(***************************************************************************)
(* The vectorised algorithms behind the STL headers                        *)
(* (vector_algorithms.cpp): swap_ranges, reverse, reverse_copy,            *)
(* min_element, max_element, minmax_element, find and count.  Each picks   *)
(* its path by the instruction sets the processor has, takes the bulk of   *)
(* the range in registers and leaves a tail to a scalar loop; here each    *)
(* path is compared with the scalar definition.  Offsets count from 0.     *)
(***************************************************************************)
EXTENDS Integers, SequencesExt

-----------------------------------------------------------------------------
(* Moving bytes: isa is a set of "avx2", "sse42", "sse2", "x64".  The elements have e
   bytes, and memory is a sequence of bytes. *)

Slice(mem, at, n) == SubSeq(mem, at + 1, at + n)

Store(mem, at, block) == SubSeq(mem, 1, at) \o block
                            \o SubSeq(mem, at + Len(block) + 1, Len(mem))

Permuted(block, perm) == [i \in DOMAIN block |-> block[perm[i] + 1]]

(* As many blocks of w bytes as are left, exchanged between the two ranges. *)
SwapBlocks(s, w) ==
    LET n == ((Len(s.left) - s.at) \div w) * w
    IN  [left  |-> Store(s.left, s.at, Slice(s.right, s.at, n)),
         right |-> Store(s.right, s.at, Slice(s.left, s.at, n)),
         at    |-> s.at + n]

swap_ranges(left, right, isa) ==
    LET widths == (IF "avx2" \in isa THEN <<32>> ELSE <<>>)
                    \o (IF "sse2" \in isa THEN <<16>> ELSE <<>>)
                    \o (IF "x64" \in isa THEN <<8>> ELSE <<4>>) \o <<1>>
    IN  FoldLeft(SwapBlocks, [left |-> left, right |-> right, at |-> 0], widths)

(* What the shuffles of a path do to a register: where each byte comes from.  pieces
   are the 8- or 4-byte pieces moved first, table the bytes of a 16-byte lane moved then. *)
Shuffle(w, unit, pieces, table) ==
    [i \in 1 .. w |->
        LET lane == ((i - 1) \div 16) * 16
            j == lane + table[i - lane]
        IN  pieces[(j \div unit) + 1] * unit + (j % unit)]

Straight == <<0, 1, 2, 3, 4, 5, 6, 7, 8, 9, 10, 11, 12, 13, 14, 15>>
ReverseChars == <<15, 14, 13, 12, 11, 10, 9, 8, 7, 6, 5, 4, 3, 2, 1, 0>>
ReverseShorts == <<14, 15, 12, 13, 10, 11, 8, 9, 6, 7, 4, 5, 2, 3, 0, 1>>

Reversal(w, e) ==
    IF w = 32
    THEN CASE e = 1 -> Shuffle(32, 8, <<2, 3, 0, 1>>, ReverseChars)
           [] e = 2 -> Shuffle(32, 8, <<2, 3, 0, 1>>, ReverseShorts)
           [] e = 4 -> Shuffle(32, 4, <<7, 6, 5, 4, 3, 2, 1, 0>>, Straight)
           [] e = 8 -> Shuffle(32, 8, <<3, 2, 1, 0>>, Straight)
    ELSE CASE e = 1 -> Shuffle(16, 8, <<0, 1>>, ReverseChars)
           [] e = 2 -> Shuffle(16, 8, <<0, 1>>, ReverseShorts)
           [] e = 4 -> Shuffle(16, 4, <<3, 2, 1, 0>>, Straight)
           [] e = 8 -> Shuffle(16, 4, <<2, 3, 0, 1>>, Straight)

(* The register widths a reversal uses, wide ones first. *)
ReverseWidths(e, isa) ==
    (IF "avx2" \in isa THEN <<32>> ELSE <<>>)
        \o (IF (IF e <= 2 THEN "sse42" ELSE "sse2") \in isa THEN <<16>> ELSE <<>>)

(* The bulk from both ends, one register of each at a time. *)
ReverseBlocks(s, w, e) ==
    LET Turn(t, k) ==
            LET last == t.last - w
                left == Permuted(Slice(t.mem, t.first, w), Reversal(w, e))
                right == Permuted(Slice(t.mem, last, w), Reversal(w, e))
            IN  [mem |-> Store(Store(t.mem, t.first, right), last, left),
                 first |-> t.first + w, last |-> last]
        turns == (s.last - s.first) \div (2 * w)
    IN  FoldLeft(Turn, s, [k \in 1 .. turns |-> k])

ReverseTail(s, e) ==
    LET Turn(t, k) ==
            [t EXCEPT !.mem = Store(Store(@, t.first, Slice(@, t.last - e, e)),
                                    t.last - e, Slice(@, t.first, e)),
                      !.first = @ + e, !.last = @ - e]
        turns == ((s.last - s.first) \div e) \div 2
    IN  FoldLeft(Turn, s, [k \in 1 .. turns |-> k]).mem

reverse(mem, e, isa) ==
    LET Blocks(s, w) == ReverseBlocks(s, w, e)
    IN  ReverseTail(FoldLeft(Blocks, [mem |-> mem, first |-> 0, last |-> Len(mem)],
                             ReverseWidths(e, isa)), e)

(* The same from the end of one range to the start of another. *)
CopyBlocks(s, src, w, e) ==
    LET Turn(t, k) ==
            [dest |-> t.dest \o Permuted(Slice(src, t.last - w, w), Reversal(w, e)),
             last |-> t.last - w]
    IN  FoldLeft(Turn, s, [k \in 1 .. s.last \div w |-> k])

reverse_copy(src, e, isa) ==
    LET Blocks(s, w) == CopyBlocks(s, src, w, e)
        s == FoldLeft(Blocks, [dest |-> <<>>, last |-> Len(src)], ReverseWidths(e, isa))
        Tail1(dest, k) == dest \o Slice(src, s.last - k * e, e)
    IN  FoldLeft(Tail1, s.dest, [k \in 1 .. s.last \div e |-> k])

-----------------------------------------------------------------------------
(* Smallest and largest element.  A register of 16 bytes has 16 \div bytes lanes; a byte
   has byteBits bits.  The indices in the lanes wrap around after portion registers
   (0: never). *)

Wrap(n, bits) == n % (2 ^ bits)
Signed(v, bits) == IF v >= 2 ^ (bits - 1) THEN v - 2 ^ bits ELSE v

Traits(bytes, byteBits) ==
    [bytes |-> bytes, lanes |-> 16 \div bytes, bits |-> bytes * byteBits,
     portion |-> IF bytes = 8 THEN 0 ELSE 2 ^ (bytes * byteBits)]

(* What is compared: signed numbers, whichever the elements are. *)
Sign_correction(v, sign, bits) ==
    Signed(IF sign THEN v ELSE Wrap(v - 2 ^ (bits - 1), bits), bits)

(* The best of all lanes, in every lane: halves of the register are exchanged and
   compared, then halves of these. *)
Shuf_epi32_halves == Shuffle(16, 4, <<2, 3, 0, 1>>, Straight)
Shuf_epi32_pairs == Shuffle(16, 4, <<1, 0, 3, 2>>, Straight)
Shuf_words == <<2, 3, 0, 1, 6, 7, 4, 5, 10, 11, 8, 9, 14, 15, 12, 13>>
Shuf_bytes == <<1, 0, 3, 2, 5, 4, 7, 6, 9, 8, 11, 10, 13, 12, 15, 14>>

H_func(cur, bytes, Better(_, _)) ==
    LET shuffles == <<Shuf_epi32_halves>>
                      \o (IF bytes <= 4 THEN <<Shuf_epi32_pairs>> ELSE <<>>)
                      \o (IF bytes <= 2 THEN <<Shuf_words>> ELSE <<>>)
                      \o (IF bytes = 1 THEN <<Shuf_bytes>> ELSE <<>>)
        Other(shuffle, l) == shuffle[(l - 1) * bytes + 1] \div bytes + 1
        Pick(u, v) == IF Better(v, u) THEN v ELSE u
        Turn(reg, shuffle) ==
            <<>> \o [l \in DOMAIN reg |-> Pick(reg[l], reg[Other(shuffle, l)])]
    IN  FoldLeft(Turn, cur, shuffles)

H_min(cur, bytes) == H_func(cur, bytes, <)
H_max(cur, bytes) == H_func(cur, bytes, >)

(* Down one lane of the registers: the value so far and the index of its register. *)
Vertical(column, mode, wrap) ==
    LET Turn(best, k) ==
            LET v == column[k]
                better == CASE mode = "min" -> v < best.val
                            [] mode = "max" -> best.val < v
                            [] mode = "both" -> ~(v < best.val)
            IN  IF better THEN [val |-> v, idx |-> (k - 1) % wrap] ELSE best
    IN  FoldLeft(Turn, [val |-> column[1], idx |-> 0], [k \in 1 .. Len(column) - 1 |-> k + 1])

(* The byte offset of a register within its portion: v * 16 is computed in int, or in the
   unsigned type of the elements where that is wider.  For elements of 4 bytes that is
   uint32_t, and wraps at a sixteenth of the registers of a portion. *)
V_offset(idx, t) == IF t.bytes = 4 THEN Wrap(idx * 16, t.bits) ELSE idx * 16

BestLanes_Any(eq, idx, at) == {l \in DOMAIN idx : idx[l] = at}      \* a slip
BestLanes(eq, idx, at) == {l \in eq : idx[l] = at}

(* Across the lanes: register and lane of the first (for "both" the last) of the best.
   Lanes without it carry the greatest (for "both" the least) index. *)
Horizontal(t, best, h, mode, wrap) ==
    LET eq == {l \in DOMAIN best : best[l].val = h}
        none == IF mode = "both" THEN 0 ELSE wrap - 1
        idx == <<>> \o [l \in DOMAIN best |-> IF l \in eq THEN best[l].idx ELSE none]
        at == (IF mode = "both" THEN H_max(idx, t.bytes) ELSE H_min(idx, t.bytes))[1]
        mask == BestLanes(eq, idx, at)
        lane == IF mode = "both" THEN Max(mask) ELSE Min(mask)
    IN  V_offset(best[lane].idx, t) \div t.bytes + lane - 1

(* One portion of n registers from element first on; s holds the best value so far, at
   the start the worst there is, and where it is. *)
MinmaxPortion(data, t, sign, mode, s) ==
    LET left == (Len(data) - s.first) \div t.lanes
        n == IF t.portion # 0 THEN Min({left, t.portion}) ELSE left
        wrap == IF t.portion # 0 THEN t.portion ELSE Len(data) + 1
        Val(k, l) == Sign_correction(data[s.first + (k - 1) * t.lanes + l], sign, t.bits)
        Column(l) == [k \in 1 .. n |-> Val(k, l)]
        best == <<>> \o [l \in 1 .. t.lanes |-> Vertical(Column(l), mode, wrap)]
        vals == <<>> \o [l \in 1 .. t.lanes |-> best[l].val]
        h == (IF mode = "min" THEN H_min(vals, t.bytes) ELSE H_max(vals, t.bytes))[1]
        better == CASE mode = "min" -> h < s.val
                    [] mode = "max" -> s.val < h
                    [] mode = "both" -> s.val <= h
    IN  [first |-> s.first + n * t.lanes,
         val |-> IF better THEN h ELSE s.val,
         res |-> IF better THEN s.first + Horizontal(t, best, h, mode, wrap) ELSE s.res]

(* The scalar loop over what is left. *)
MinmaxTail(data, t, sign, mode, s) ==
    LET Turn(r, i) ==
            LET v == Sign_correction(data[i], sign, t.bits)
                better == CASE mode = "min" -> v < r.val
                            [] mode = "max" -> r.val < v
                            [] mode = "both" -> r.val <= v
            IN  IF better THEN [val |-> v, res |-> i - 1] ELSE r
    IN  FoldLeft(Turn, [val |-> s.val, res |-> s.res],
                 [i \in 1 .. Len(data) - s.first |-> s.first + i]).res

(* The offset of the element found; in minmax_element "min" gives _Min and "both" _Max. *)
Minmax_element(data, t, sign, mode, isa) ==
    LET start == [first |-> 0, res |-> 0,
                  val |-> IF mode = "min" THEN 2 ^ (t.bits - 1) - 1 ELSE -(2 ^ (t.bits - 1))]
        registers == IF "sse42" \in isa THEN Len(data) \div t.lanes ELSE 0
        portions == IF registers = 0 THEN 0
                    ELSE IF t.portion = 0 THEN 1
                    ELSE (registers + t.portion - 1) \div t.portion
        Turn(s, k) == MinmaxPortion(data, t, sign, mode, s)
    IN  MinmaxTail(data, t, sign, mode, FoldLeft(Turn, start, [k \in 1 .. portions |-> k]))

-----------------------------------------------------------------------------
(* Find and count: mem is a sequence of elements of e bytes.  movemask is the set of the
   bytes, counted from 0, of the elements of a register that are equal to val. *)

Movemask(mem, at, w, e, val) == {b \in 0 .. w - 1 : mem[((at + b) \div e) + 1] = val}

FindTail(mem, at, e, val) ==
    LET found == {i \in DOMAIN mem : (i - 1) * e >= at /\ mem[i] = val}
    IN  IF found = {} THEN Len(mem) * e ELSE (Min(found) - 1) * e

Sse_available(e) == IF e = 8 THEN "sse42" ELSE "sse2"

(* Registers of w bytes from at on, as long as a whole one is left. *)
FindBlocks(mem, s, w, e, val) ==
    LET turns == (Len(mem) * e - s.at) \div w
        found == {k \in 0 .. turns - 1 : Movemask(mem, s.at + k * w, w, e, val) # {}}
        at == s.at + Min(found) * w
    IN  IF s.done THEN s
        ELSE IF found = {} THEN [s EXCEPT !.at = @ + turns * w]
        ELSE [done |-> TRUE, at |-> at + Min(Movemask(mem, at, w, e, val))]

find_trivial(mem, e, val, isa) ==
    LET start == [done |-> FALSE, at |-> 0]
        avx == IF "avx2" \in isa THEN FindBlocks(mem, start, 32, e, val) ELSE start
        sse == IF Sse_available(e) \in isa THEN FindBlocks(mem, avx, 16, e, val) ELSE avx
    IN  IF sse.done THEN sse.at
        ELSE FindTail(mem, sse.at, e, val)

(* The first loaded register reaches back to an aligned address; what it shows of the
   bytes before first is masked out, but the loop begins with the same register again. *)
find_trivial_unsized(mem, first, e, val, isa) ==
    LET w == IF "avx2" \in isa THEN 32 ELSE 16
        aligned == first - (first % w)
        bingo == Movemask(mem, aligned, w, e, val) \ 0 .. (first % w) - 1
        blocks == {k \in 0 .. ((Len(mem) * e) \div w) - 1 :
                        k * w >= aligned /\ Movemask(mem, k * w, w, e, val) # {}}
        at == Min(blocks) * w
    IN  IF "avx2" \notin isa /\ Sse_available(e) \notin isa THEN FindTail(mem, first, e, val)
        ELSE IF bingo # {} THEN aligned + Min(bingo)
        ELSE at + Min(Movemask(mem, at, w, e, val))

(* The bytes that match are counted, and shifted down to elements. *)
CountBlocks(mem, s, w, e, val) ==
    LET turns == (Len(mem) * e - s.at) \div w
        Popcnt(k) == Cardinality(Movemask(mem, s.at + k * w, w, e, val))
    IN  [at |-> s.at + turns * w,
         result |-> FoldLeft(LAMBDA n, k : n + Popcnt(k - 1), s.result, [k \in 1 .. turns |-> k])]

count_trivial(mem, e, val, isa) ==
    LET start == [at |-> 0, result |-> 0]
        avx == IF "avx2" \in isa THEN CountBlocks(mem, start, 32, e, val) ELSE start
        sse == IF "sse42" \in isa THEN CountBlocks(mem, avx, 16, e, val) ELSE avx
        tail == {i \in DOMAIN mem : (i - 1) * e >= sse.at /\ mem[i] = val}
    IN  (sse.result \div e) + Cardinality(tail)

-----------------------------------------------------------------------------
(* What the algorithms promise, whichever instruction sets there are. *)

Elements(mem, e) == [i \in 1 .. Len(mem) \div e |-> Slice(mem, (i - 1) * e, e)]

MovesRight(mem, e, isa) ==
    /\ Elements(reverse(mem, e, isa), e) = Reverse(Elements(mem, e))
    /\ Elements(reverse_copy(mem, e, isa), e) = Reverse(Elements(mem, e))
    /\ LET other == [i \in DOMAIN mem |-> 1000 + i]
           swapped == swap_ranges(mem, other, isa)
       IN  swapped.left = other /\ swapped.right = mem

(* The element found against the one looked for.  Elements of 4 bytes are the exception:
   behind the bytes that t.bits bits count, one is found at a multiple of that less. *)
Agrees(found, element, t) ==
    \/ found = element
    \/ /\ t.bytes = 4 /\ (element - 1) * 4 >= 2 ^ t.bits
       /\ found < element /\ ((element - found) * 4) % 2 ^ t.bits = 0

(* The first smallest, the first greatest and, for minmax_element, the last greatest. *)
MinmaxRight(data, t, sign, isa) ==
    LET Key(i) == IF sign THEN Signed(data[i], t.bits) ELSE data[i]
        keys == {Key(i) : i \in DOMAIN data}
        lowest == Min(keys)
        highest == Max(keys)
        least == {i \in DOMAIN data : Key(i) = lowest}
        most == {i \in DOMAIN data : Key(i) = highest}
        Element(mode) == Minmax_element(data, t, sign, mode, isa) + 1
    IN  /\ Agrees(Element("min"), Min(least), t)
        /\ Agrees(Element("max"), Min(most), t)
        /\ Agrees(Element("both"), Max(most), t)

FindRight(mem, e, val, isa) ==
    LET found == {i \in DOMAIN mem : mem[i] = val}
    IN  /\ find_trivial(mem, e, val, isa) = e * (Min(found \cup {Len(mem) + 1}) - 1)
        /\ count_trivial(mem, e, val, isa) = Cardinality(found)

(* For the search without an end: mem holds val somewhere from first on. *)
UnsizedFindRight(mem, first, e, val, isa) ==
    find_trivial_unsized(mem, first, e, val, isa)
        = e * (Min({i \in DOMAIN mem : (i - 1) * e >= first /\ mem[i] = val}) - 1)

(* No match before first shares a register with it. *)
PadHasNone(mem, first, e, val) ==
    \A i \in DOMAIN mem : (i - 1) * e \in first - (first % 32) .. first - 1 => mem[i] # val
=============================================================================
