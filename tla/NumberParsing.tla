---------------------------- MODULE NumberParsing ----------------------------
(***************************************************************************)
(* The parsers behind stoul, stol, stod and their kin: _Stoulx and         *)
(* _Stoullx (one algorithm in two widths), _Stolx and _Stollx, the prefix  *)
(* of a floating-point field (_Stopfx, _WStopfx) and its digits (_Stoflt,  *)
(* _WStoflt, _Stoxflt, _WStoxflt).                                         *)
(* A string is a sequence of characters, lower case only; positions count  *)
(* from 1, and an end is the position after the last character used.       *)
(***************************************************************************)
EXTENDS Integers, SequencesExt

At(s, i) == IF i <= Len(s) THEN s[i] ELSE "NUL"

Skip(s, i, chars) == Min({j \in i .. Len(s) + 1 : At(s, j) \notin chars})

digits == <<"0", "1", "2", "3", "4", "5", "6", "7", "8", "9",
            "a", "b", "c", "d", "e", "f", "g", "h", "i", "j", "k", "l", "m",
            "n", "o", "p", "q", "r", "s", "t", "u", "v", "w", "x", "y", "z">>

Digits(base) == {digits[k] : k \in 1 .. base}
ValueOf == [c \in Digits(36) |-> SelectInSeq(digits, LAMBDA d : d = c) - 1]

(* The digits s[i] .. s[j - 1] as a number. *)
Number(s, i, j, base) ==
    FoldLeft(LAMBDA n, c : n * base + ValueOf[c], 0, SubSeq(s, i, j - 1))

-----------------------------------------------------------------------------
(* Integers of w bits. *)

Base_max == 36

(* How many digits may overflow: one more than always fit. *)
ndigs(base, w) == 1 + Max({n \in 0 .. w : base ^ n <= 2 ^ w})

Overflow_ByLength(n, x, y, dig, base, w) == n > 0      \* a slip: not for ndigs digits
Overflow(n, x, y, dig, base, w) ==
    LET before == (x - dig) % (2 ^ w)
    IN  n > 0 \/ (n = 0 /\ (x < before \/ before \div base # y))

NoNumber == [x |-> 0, end |-> 1, err |-> FALSE]

Accumulate(s, s1, s2, end, base, negative, w) ==
    LET Turn(r, c) == [x |-> (r.x * base + ValueOf[c]) % (2 ^ w), y |-> r.x, dig |-> ValueOf[c]]
        r == FoldLeft(Turn, [x |-> 0, y |-> 0, dig |-> 0], SubSeq(s, s2, end - 1))
    IN  IF s1 = end THEN NoNumber
        ELSE IF Overflow(end - s2 - ndigs(base, w), r.x, r.y, r.dig, base, w)
        THEN [x |-> 2 ^ w - 1, end |-> end, err |-> TRUE]
        ELSE [x |-> IF negative THEN (-r.x) % (2 ^ w) ELSE r.x, end |-> end, err |-> FALSE]

FromDigits(s, s1, base, negative, w) ==
    LET s2 == Skip(s, s1, {"0"})
    IN  Accumulate(s, s1, s2, Skip(s, s2, Digits(base)), base, negative, w)

FromBase(s, at, base0, negative, w) ==
    LET hex == At(s, at) = "0" /\ At(s, at + 1) = "x"
        base == IF base0 # 0 THEN base0
                ELSE IF At(s, at) # "0" THEN 10 ELSE IF hex THEN 16 ELSE 8
    IN  FromDigits(s, IF hex /\ base = 16 THEN at + 2 ELSE at, base, negative, w)

AfterSign(s, sc) == IF At(s, sc) \in {"+", "-"} THEN sc + 1 ELSE sc

Stoux(s, base, w) ==
    LET sc == Skip(s, 1, {" "})
    IN  IF base < 0 \/ base = 1 \/ Base_max < base THEN NoNumber
        ELSE FromBase(s, AfterSign(s, sc), base, At(s, sc) = "-", w)

(* A long has 4 bits here and a long long 6, for 32 and 64. *)
Stoulx(s, base) == Stoux(s, base, 4)
Stoullx(s, base) == Stoux(s, base, 6)

(* The sign is taken here and the rest given to _Stoulx or _Stoullx. *)
Limited(r, from, negative, w) ==
    LET end == IF r.end = 1 THEN 1 ELSE from + r.end - 1
        lowest == -(2 ^ (w - 1))
        highest == 2 ^ (w - 1) - 1
        Signed(x) == IF x > highest THEN x - 2 ^ w ELSE x
    IN  IF r.x > IF negative THEN -lowest ELSE highest
        THEN [x |-> IF negative THEN lowest ELSE highest, end |-> end, err |-> TRUE]
        ELSE [x |-> Signed(IF negative THEN (-r.x) % (2 ^ w) ELSE r.x), end |-> end,
              err |-> r.err]

Sto_x(s, base, w) ==
    LET sc == Skip(s, 1, {" "})
        from == AfterSign(s, sc)
    IN  Limited(Stoux(SubSeq(s, from, Len(s)), base, w), from, At(s, sc) = "-", w)

Stolx(s, base) == Sto_x(s, base, 4)
Stollx(s, base) == Sto_x(s, base, 6)

-----------------------------------------------------------------------------
(* Floating point: what kind of field it is, and where its digits begin.  An end is
   given for the special values only, 0 otherwise. *)

Spells(s, i, word) == IsPrefix(word, SubSeq(s, i, Len(s)))

Alnum == Digits(36) \cup {"_"}

Stopfx(s) ==
    LET sign == Skip(s, 1, {" "})
        at == IF At(s, sign) \in {"+", "-"} THEN sign + 1 ELSE sign
        Negative(code) == At(s, sign) = "-" /\ code \notin {"nan", "error"}
        Result(code, end) == [code |-> code, neg |-> Negative(code), at |-> at, end |-> end]
        paren == Skip(s, at + 4, Alnum)
        s1 == IF At(s, at + 2) = "." THEN at + 3 ELSE at + 2
    IN  CASE At(s, at) = "n" ->
                IF ~Spells(s, at, <<"n", "a", "n">>) THEN Result("error", 1)
                ELSE IF At(s, at + 3) = "(" /\ At(s, paren) = ")"
                THEN Result("nan", paren + 1)
                ELSE Result("nan", at + 3)
          [] At(s, at) = "i" ->
                IF ~Spells(s, at, <<"i", "n", "f">>) THEN Result("error", 1)
                ELSE IF Spells(s, at + 3, <<"i", "n", "i", "t", "y">>)
                THEN Result("inf", at + 8)
                ELSE Result("inf", at + 3)
          [] At(s, at) = "0" /\ At(s, at + 1) = "x" /\ At(s, s1) \in Digits(16) ->
                [Result("hex", 0) EXCEPT !.at = at + 2]
          [] OTHER -> Result("dec", 0)

(* The digits: at most words * ndig of them are kept, as words of ndig digits; _Stoflt
   keeps a note of what it drops in the last digit, the other three round by one more. *)
IsNonzero(c) == c # "0"

Rounded(buf, lost, scale, maxsig, kind) ==
    LET up == [buf EXCEPT ![maxsig] = @ + 1]
    IN  IF kind.sticky THEN [buf |-> IF lost THEN up ELSE buf, scale |-> scale]
        ELSE IF Len(buf) <= maxsig THEN [buf |-> buf, scale |-> scale]
        ELSE [buf |-> SubSeq(IF buf[maxsig + 1] * 2 >= kind.base THEN up ELSE buf, 1, maxsig),
              scale |-> scale + 1]

Words(buf, base, ndig) ==
    LET Turn(r, d) ==
            IF r.idx % ndig = 0 THEN [words |-> Append(r.words, d), idx |-> r.idx + 1]
            ELSE [words |-> [r.words EXCEPT ![Len(r.words)] = @ * base + d], idx |-> r.idx + 1]
        idx == ndig - (Len(buf) % ndig)
    IN  FoldLeft(Turn, [words |-> IF idx % ndig = 0 THEN <<>> ELSE <<0>>, idx |-> idx],
                 buf).words

Exponent(s, at, letter) ==
    LET sign == IF At(s, at + 1) \in {"+", "-"} THEN 1 ELSE 0
        from == at + 1 + sign
        end == Skip(s, from, Digits(10))
        size == Number(s, from, end, 10)
    IN  IF At(s, at) # letter \/ end = from THEN [value |-> 0, end |-> at]
        ELSE [value |-> IF At(s, at + 1) = "-" THEN -size ELSE size, end |-> end]

(* Where the digits before the point begin and end, without leading zeros, and those
   after it. *)
Fraction(s, from, i1, i2, i3, D) ==
    LET i4 == IF i2 = i1 THEN Skip(s, i3, {"0"}) ELSE i3
        i5 == Skip(s, i4, D)
    IN  [from |-> from, i1 |-> i1, i2 |-> i2, i3 |-> i3, i4 |-> i4, i5 |-> i5]

Positions(s, from, D) ==
    LET i1 == Skip(s, from, {"0"})
        i2 == Skip(s, i1, D)
    IN  Fraction(s, from, i1, i2, IF At(s, i2) = "." THEN i2 + 1 ELSE i2, D)

Significand(s, p, ints, fracs, maxsig, kind) ==
    LET Vals(i, n) == [k \in 1 .. n |-> ValueOf[s[i + k - 1]]]
        dropped == SubSeq(s, p.i1 + ints, p.i2 - 1) \o SubSeq(s, p.i4 + fracs, p.i5 - 1)
    IN  Rounded(Vals(p.i1, ints) \o Vals(p.i4, fracs), \E c \in Range(dropped) : IsNonzero(c),
                (p.i2 - p.i1 - ints) - (p.i4 - p.i3) - fracs, maxsig, kind)

WithoutTrailingZeros(r) ==
    LET last == Max({k \in DOMAIN r.buf : r.buf[k] # 0} \cup {0})
    IN  [buf |-> IF last = 0 THEN <<0>> ELSE SubSeq(r.buf, 1, last), scale |-> r.scale + Len(r.buf) - last]

Field(r, e, base, ndig) ==
    [words |-> Words(r.buf, base, ndig), end |-> e.end,
     scale |-> (IF base = 16 THEN 4 * r.scale ELSE r.scale) + e.value]

ReadField(s, p, kind, ndig, maxsig) ==
    LET keep == IF kind.sticky THEN maxsig ELSE maxsig + 1
        ints == Min({keep, p.i2 - p.i1})
        fracs == Min({keep - ints, p.i5 - p.i4})
    IN  IF p.i2 = p.from /\ p.i5 = p.i3 THEN [words |-> <<>>, scale |-> 0, end |-> 1]
        ELSE Field(WithoutTrailingZeros(Significand(s, p, ints, fracs, maxsig, kind)),
                   Exponent(s, p.i5, kind.exponent), kind.base, ndig)

Sto_flt(s, from, kind, ndig, words) ==
    ReadField(s, Positions(s, from, Digits(kind.base)), kind, ndig, ndig * Min({words, 5}))

Decimal(sticky) == [base |-> 10, sticky |-> sticky, exponent |-> "e"]
Hexadecimal == [base |-> 16, sticky |-> FALSE, exponent |-> "p"]

Stoflt(s, from, ndig, words) == Sto_flt(s, from, Decimal(TRUE), ndig, words)
WStoflt(s, from, ndig, words) == Sto_flt(s, from, Decimal(FALSE), ndig, words)
Stoxflt(s, from, ndig, words) == Sto_flt(s, from, Hexadecimal, ndig, words)     \* and _WStoxflt

-----------------------------------------------------------------------------
(* References: the longest prefix that is a number, and its exact value. *)

(* p is blanks, a sign and digits of the base, with 0x if it is given or chosen. *)
Written(p, base) ==
    \E blanks \in 0 .. Len(p), sign, hex \in {0, 1} :
        LET rest == SubSeq(p, blanks + sign + 2 * hex + 1, Len(p))
            real == IF base # 0 THEN base
                    ELSE IF hex = 1 THEN 16 ELSE IF rest # <<>> /\ rest[1] = "0" THEN 8 ELSE 10
        IN  /\ \A k \in 1 .. blanks : p[k] = " "
            /\ sign = 1 => At(p, blanks + 1) \in {"+", "-"}
            /\ hex = 1 => real = 16 /\ Spells(p, blanks + sign + 1, <<"0", "x">>)
            /\ rest # <<>> /\ Range(rest) \subseteq Digits(real)

Subject(s, base) == Max({0} \cup {n \in 1 .. Len(s) : Written(SubSeq(s, 1, n), base)})

Exact(p, base) ==
    LET from == Skip(p, 1, {" ", "+", "-"})
        hex == Spells(p, from, <<"0", "x">>) /\ base \in {0, 16}
        real == IF base # 0 THEN base
                ELSE IF hex THEN 16 ELSE IF At(p, from) = "0" THEN 8 ELSE 10
        n == Number(p, IF hex THEN from + 2 ELSE from, Len(p) + 1, real)
    IN  IF Contains(p, "-") THEN -n ELSE n

(* A number that fits is exact, one that does not gives the nearest limit and an error,
   and all of it is used.  Not compared are "0x" without a digit, which is no number here,
   and a second sign or blanks after the sign, which _Stolx passes on to _Stoulx. *)
SignedRight(l, end, exact, highest) ==
    /\ l.end = end
    /\ l.err <=> exact \notin -highest - 1 .. highest
    /\ l.x = Max({-highest - 1, Min({highest, exact})})

RightIn(s, base, w, n, exact, u, l) ==
    LET bare == \E k \in 1 .. Len(s) - 1 :
                    Spells(s, k, <<"0", "x">>) /\ At(s, k + 2) \notin Digits(16)
        afterSign == SubSeq(s, Skip(s, 1, {" "}) + 1, Len(s))
        again == afterSign # <<>> /\ Head(afterSign) \in {" ", "+", "-"}
    IN  IF base = 1 \/ Base_max < base THEN u = NoNumber
        ELSE ~bare =>
             /\ u.end = n + 1
             /\ u.err <=> exact \notin -(2 ^ w - 1) .. 2 ^ w - 1
             /\ u.x = IF u.err THEN 2 ^ w - 1 ELSE exact % (2 ^ w)
             /\ ~again => SignedRight(l, n + 1, exact, 2 ^ (w - 1) - 1)

BothRight(s, base, n, exact) ==
    /\ RightIn(s, base, 4, n, exact, Stoulx(s, base), Stolx(s, base))
    /\ RightIn(s, base, 6, n, exact, Stoullx(s, base), Stollx(s, base))

IntegersRight(s, base) ==
    LET n == Subject(s, base)
    IN  BothRight(s, base, n, Exact(SubSeq(s, 1, n), base))

(* The kind of a field and its end are those of its longest special word. *)
PrefixRight(s) ==
    LET r == Stopfx(s)
        word(n) == SubSeq(s, r.at, r.at + n - 1)
        Nan(n) == \/ word(n) = <<"n", "a", "n">>
                  \/ /\ n > 4 /\ Spells(word(n), 1, <<"n", "a", "n", "(">>)
                     /\ word(n)[n] = ")" /\ Range(SubSeq(word(n), 5, n - 1)) \subseteq Alnum
        Inf(n) == word(n) \in {<<"i", "n", "f">>, <<"i", "n", "f", "i", "n", "i", "t", "y">>}
        lengths == 1 .. Len(s) + 1 - r.at
        Longest(Is(_)) == Max({n \in lengths : Is(n)} \cup {0})
    IN  CASE r.code = "nan" -> r.end = r.at + Longest(Nan)
          [] r.code = "inf" -> r.end = r.at + Longest(Inf)
          [] r.code = "error" -> Longest(Nan) = 0 /\ Longest(Inf) = 0
          [] OTHER -> Longest(Nan) = 0 /\ Longest(Inf) = 0 /\ r.end = 0

(* The value of the digits, from all of them as one number n: what exceeds the kept digits
   is rounded away, or for _Stoflt away from zero so that it is seen to be more. *)
RoundedOff(n, cut, kind) ==
    LET b == kind.base
        rest == n % (b ^ cut)
        up == IF kind.sticky THEN rest > 0 ELSE cut > 0 /\ 2 * (rest \div b ^ (cut - 1)) >= b
    IN  (n \div b ^ cut) + IF up THEN 1 ELSE 0

FieldMeans(r, value, scale, kind, ndig) ==
    LET unit == IF kind.base = 16 THEN 4 ELSE 1
        got == FoldLeft(LAMBDA v, x : v * kind.base ^ ndig + x, 0, r.words)
        off == r.scale - scale * unit
    IN  IF value = 0 THEN got = 0
        ELSE off % unit = 0 /\ off >= 0 /\ got * kind.base ^ (off \div unit) = value

DigitsRight(r, n, all, places, kind, ndig, digs) ==
    LET size == IF n = 0 THEN 0 ELSE Max({k \in 0 .. all : k = 0 \/ n >= kind.base ^ (k - 1)})
        cut == Max({0, size - digs})
    IN  r.end = all + 2 /\ FieldMeans(r, RoundedOff(n, cut, kind), cut - places, kind, ndig)

FieldIs(r, all, places, kind, ndig, digs) ==
    DigitsRight(r, Number(all, 1, Len(all) + 1, kind.base), Len(all), places, kind, ndig, digs)

FieldRight(kind, ints, fracs, ndig, words) ==
    LET s == ints \o <<".">> \o fracs
        Is(r, k) == FieldIs(r, ints \o fracs, Len(fracs), k, ndig, ndig * words)
    IN  CASE kind = "stoflt" -> Is(Stoflt(s, 1, ndig, words), Decimal(TRUE))
          [] kind = "wstoflt" -> Is(WStoflt(s, 1, ndig, words), Decimal(FALSE))
          [] kind = "stoxflt" -> Is(Stoxflt(s, 1, ndig, words), Hexadecimal)
=============================================================================
