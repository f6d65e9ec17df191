--------------------------- MODULE MultiPrecision ---------------------------
(***************************************************************************)
(* The arithmetic behind linear_congruential_engine for moduli of more     *)
(* than half a word (multprec.cpp): numbers are sequences of five half     *)
(* words, least significant first, kept in whole words, which wrap around  *)
(* at maxVal ^ 2.                                                          *)
(***************************************************************************)
EXTENDS Integers, SequencesExt

MP_len == 5

(* shift is half of the bits of a word; mask is maxVal - 1. *)
maxVal(shift) == 2 ^ shift
WrapWord(x, shift) == x % (2 ^ (2 * shift))
Low(x, shift) == x % maxVal(shift)
High(x, shift) == x \div maxVal(shift)
Halves(x, shift) == <<Low(x, shift), High(x, shift)>>

MP_Get(u, shift) == WrapWord(u[2] * maxVal(shift) + u[1], shift)

(* v is added to the digits of u from at on, at most n of them. *)
add(u, at, n, v, shift) ==
    LET Turn(r, i) ==
            LET x == r.u[at + i] + (IF i <= Len(v) THEN v[i] ELSE 0) + r.k
            IN  IF i > Len(v) /\ r.k = 0 THEN r
                ELSE [u |-> [r.u EXCEPT ![at + i] = Low(x, shift)], k |-> High(x, shift)]
    IN  FoldLeft(Turn, [u |-> u, k |-> 0], [i \in 1 .. n |-> i]).u

MP_Add(u, v0, shift) == add(u, 0, MP_len, Halves(v0, shift), shift)

mul(u, v0, shift) ==
    LET Turn(r, x) ==
            LET y == WrapWord(x * v0 + r.k, shift)
            IN  [u |-> Append(r.u, Low(y, shift)), k |-> High(y, shift)]
    IN  FoldLeft(Turn, [u |-> <<>>, k |-> 0], u).u

(* Knuth, vol. 2, Algorithm M. *)
MP_Mul(u0, v0, shift) ==
    LET u == Halves(u0, shift)
        v == Halves(v0, shift)
        Add(j, r, i) ==
            LET x == WrapWord(u[i] * v[j] + r.w[i + j - 1] + r.k, shift)
            IN  [w |-> [r.w EXCEPT ![i + j - 1] = Low(x, shift)], k |-> High(x, shift)]
        Line(w, j) ==
            LET r == FoldLeft(LAMBDA r, i : Add(j, r, i), [w |-> w, k |-> 0], <<1, 2>>)
            IN  IF v[j] = 0 THEN [w EXCEPT ![j + 2] = 0] ELSE [r.w EXCEPT ![j + 2] = r.k]
    IN  FoldLeft(Line, <<0, 0, 0, 0, 0>>, <<1, 2>>)

div(u, v0, shift) ==
    LET Turn(r, x) ==
            LET y == WrapWord(r.k * maxVal(shift) + x, shift)
            IN  [u |-> <<y \div v0>> \o r.u, k |-> y % v0]
    IN  FoldLeft(Turn, [u |-> <<>>, k |-> 0], Reverse(u)).u

limit(u) == Max({i \in DOMAIN u : u[i] # 0})

(* Knuth, vol. 2, Algorithm D.  The divisor has two digits. *)

(* D3: the tentative digit, at most two too great, and reduced until it is one at most. *)
Estimate_NotReduced(u, v, j, shift) ==      \* a slip: the test is made once
    LET n == Len(v)
        top == WrapWord(u[j + n + 1] * maxVal(shift) + u[j + n], shift)
    IN  top \div v[n]

Estimate(u, v, j, shift) ==
    LET n == Len(v)
        top == WrapWord(u[j + n + 1] * maxVal(shift) + u[j + n], shift)
        Fits(k) == LET qh == top \div v[n] - k
                       rh == (top % v[n]) + k * v[n]
                   IN  \/ k > 0 /\ maxVal(shift) <= rh
                       \/ /\ qh < maxVal(shift)
                          /\ WrapWord(qh * v[n - 1], shift)
                                 <= WrapWord(rh * maxVal(shift) + u[j + n - 1], shift)
    IN  top \div v[n] - Min({k \in 0 .. top \div v[n] : Fits(k)})

(* D4: u - qh * v from digit j on; k is the borrow. *)
Subtract(u, v, j, qh, shift) ==
    LET Turn(r, i) ==
            LET x == WrapWord(r.u[j + i] - (IF i <= Len(v) THEN qh * v[i] ELSE 0) - r.k, shift)
                up == High(x, shift)
            IN  IF i > Len(v) /\ r.k = 0 THEN r
                ELSE [u |-> [r.u EXCEPT ![j + i] = Low(x, shift)],
                      k |-> IF up = 0 THEN 0 ELSE maxVal(shift) - up]
    IN  FoldLeft(Turn, [u |-> u, k |-> 0], [i \in 1 .. MP_len - j |-> i])

MP_Rem(u0, v0, shift) ==
    LET halves == Halves(v0, shift)
        n == limit(halves)
        m == limit(u0) - n
        d == maxVal(shift) \div (halves[n] + 1)
        v == mul(SubSeq(halves, 1, n), d, shift)
        Digit(u, j) ==
            LET qh == Estimate(u, v, j, shift)
                r == Subtract(u, v, j, qh, shift)
            IN  IF u[j + n + 1] * maxVal(shift) + u[j + n] < v[n] THEN u
                ELSE IF r.k = 0 THEN r.u ELSE add(r.u, j, n + 1, v, shift)
    IN  div(FoldLeft(Digit, mul(u0, d, shift), [k \in 1 .. m + 1 |-> m + 1 - k]), d, shift)

-----------------------------------------------------------------------------
(* One step of the engine: (a * x + c) modulo m, for a modulus of two half words and a
   sum that is not 0, which is what the engine of <random> calls these functions for. *)
StepRight(a, x, c, m, shift) ==
    a * x + c # 0 =>
        MP_Get(MP_Rem(MP_Add(MP_Mul(a, x, shift), c, shift), m, shift), shift)
            = (a * x + c) % m
=============================================================================
