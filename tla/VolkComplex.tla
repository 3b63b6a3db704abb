---------------------------- MODULE VolkComplex ----------------------------
(***************************************************************************)
(* VOLK kernels on vectors of complex floats.  A complex vector is a flat  *)
(* array, real parts at even and imaginary parts at odd positions, as the  *)
(* kernels see it when they cast it to float.  The kernels whose size is   *)
(* given in bytes take the number of points here: num_bytes is 8 * n.      *)
(***************************************************************************)
EXTENDS VolkFloat, VolkFixed

Real(c, i) == c[2 * i]
Imag(c, i) == c[2 * i + 1]

(* Products of complex numbers, as pairs. *)
Times(x, y)     == <<x[1] * y[1] - x[2] * y[2], x[1] * y[2] + x[2] * y[1]>>
lv_conj(x)      == <<x[1], -x[2]>>
At(c, i)        == <<Real(c, i), Imag(c, i)>>

(* The two registers with the points 4q .. 4q + 3, their real and their    *)
(* imaginary parts.                                                        *)
cplxValue1(c, q) == load(c, 8 * q, 4)
cplxValue2(c, q) == load(c, 8 * q + 4, 4)
iValue(c, q) == shuffle_ps(cplxValue1(c, q), cplxValue2(c, q), MM_SHUFFLE(2, 0, 2, 0))
qValue(c, q) == shuffle_ps(cplxValue1(c, q), cplxValue2(c, q), MM_SHUFFLE(3, 1, 3, 1))

-----------------------------------------------------------------------------
(* Taking complex vectors apart and putting them together.                 *)

(* Registers stored in the wrong order. *)
interleave_Swapped(i, q, n) ==
    Loop(n, 4, LAMBDA b : unpackhi_ps(load(i, 4 * b, 4), load(q, 4 * b, 4))
                          \o unpacklo_ps(load(i, 4 * b, 4), load(q, 4 * b, 4)),
               LAMBDA k : <<i[k], q[k]>>)
volk_32f_x2_interleave_32fc_a_sse(i, q, n) ==
    Loop(n, 4, LAMBDA b : unpacklo_ps(load(i, 4 * b, 4), load(q, 4 * b, 4))
                          \o unpackhi_ps(load(i, 4 * b, 4), load(q, 4 * b, 4)),
               LAMBDA k : <<i[k], q[k]>>)
volk_32f_x2_interleave_32fc_a_generic(i, q, n) == Blocks(0, n, LAMBDA k : <<i[k], q[k]>>)

volk_32fc_deinterleave_32f_x2_a_sse(c, n) ==
    <<Loop(n, 4, LAMBDA q : iValue(c, q), LAMBDA i : <<Real(c, i)>>),
      Loop(n, 4, LAMBDA q : qValue(c, q), LAMBDA i : <<Imag(c, i)>>)>>
volk_32fc_deinterleave_32f_x2_a_generic(c, n) ==
    <<Blocks(0, n, LAMBDA i : <<Real(c, i)>>), Blocks(0, n, LAMBDA i : <<Imag(c, i)>>)>>

(* Two points of a block: a half register becomes two doubles. *)
Doubles(c, q, imm) == LET v == load(c, 4 * q, 4) IN cvtps_pd(shuffle_ps(v, v, imm))
volk_32fc_deinterleave_64f_x2_a_sse2(c, n) ==
    <<Loop(n, 2, LAMBDA q : Doubles(c, q, MM_SHUFFLE(2, 0, 2, 0)), LAMBDA i : <<Real(c, i)>>),
      Loop(n, 2, LAMBDA q : Doubles(c, q, MM_SHUFFLE(3, 1, 3, 1)), LAMBDA i : <<Imag(c, i)>>)>>
volk_32fc_deinterleave_64f_x2_a_generic(c, n) == volk_32fc_deinterleave_32f_x2_a_generic(c, n)

volk_32fc_deinterleave_imag_32f_a_sse(c, n) ==
    Loop(n, 4, LAMBDA q : qValue(c, q), LAMBDA i : <<Imag(c, i)>>)
volk_32fc_deinterleave_imag_32f_a_generic(c, n) == Blocks(0, n, LAMBDA i : <<Imag(c, i)>>)
volk_32fc_deinterleave_real_32f_a_sse(c, n) ==
    Loop(n, 4, LAMBDA q : iValue(c, q), LAMBDA i : <<Real(c, i)>>)
volk_32fc_deinterleave_real_32f_a_generic(c, n) == Blocks(0, n, LAMBDA i : <<Real(c, i)>>)
volk_32fc_deinterleave_real_64f_a_sse2(c, n) ==
    Loop(n, 2, LAMBDA q : Doubles(c, q, MM_SHUFFLE(2, 0, 2, 0)), LAMBDA i : <<Real(c, i)>>)
volk_32fc_deinterleave_real_64f_a_generic(c, n) == Blocks(0, n, LAMBDA i : <<Real(c, i)>>)

(* Lanes cast to 16 bits one by one. *)
Truncs16(x) == Reg([l \in DOMAIN x |-> Cast16(x[l])])
volk_32fc_s32f_deinterleave_real_16i_a_sse(c, scalar, n) ==
    Loop(n, 4, LAMBDA q : Truncs16(mul_ps(iValue(c, q), set1_ps(scalar))),
               LAMBDA i : <<Cast16(Real(c, i) * scalar)>>)
volk_32fc_s32f_deinterleave_real_16i_a_generic(c, scalar, n) ==
    Blocks(0, n, LAMBDA i : <<Cast16(Real(c, i) * scalar)>>)

-----------------------------------------------------------------------------
(* Magnitudes and phases.                                                  *)

(* Squares of four points, by a horizontal sum or by parts. *)
SquaresHadd(c, q) ==
    LET v1 == cplxValue1(c, q)
        v2 == cplxValue2(c, q)
    IN  hadd_ps(mul_ps(v1, v1), mul_ps(v2, v2))
SquaresShuffle(c, q) ==
    add_ps(mul_ps(iValue(c, q), iValue(c, q)), mul_ps(qValue(c, q), qValue(c, q)))
SquareAt(c, i) == Real(c, i) * Real(c, i) + Imag(c, i) * Imag(c, i)

volk_32fc_magnitude_32f_a_sse3(c, n) ==
    Loop(n, 4, LAMBDA q : sqrt_ps(SquaresHadd(c, q)), LAMBDA i : <<sqrtf(SquareAt(c, i))>>)
volk_32fc_magnitude_32f_a_sse(c, n) ==
    Loop(n, 4, LAMBDA q : sqrt_ps(SquaresShuffle(c, q)), LAMBDA i : <<sqrtf(SquareAt(c, i))>>)
volk_32fc_magnitude_32f_a_generic(c, n) == Blocks(0, n, LAMBDA i : <<sqrtf(SquareAt(c, i))>>)
volk_32fc_magnitude_32f_u_sse3(c, n)    == volk_32fc_magnitude_32f_a_sse3(c, n)
volk_32fc_magnitude_32f_u_sse(c, n)     == volk_32fc_magnitude_32f_a_sse(c, n)
volk_32fc_magnitude_32f_u_generic(c, n) == volk_32fc_magnitude_32f_a_generic(c, n)

volk_32fc_magnitude_squared_32f_a_sse3(c, n) ==
    Loop(n, 4, LAMBDA q : SquaresHadd(c, q), LAMBDA i : <<SquareAt(c, i)>>)
volk_32fc_magnitude_squared_32f_a_sse(c, n) ==
    Loop(n, 4, LAMBDA q : SquaresShuffle(c, q), LAMBDA i : <<SquareAt(c, i)>>)
volk_32fc_magnitude_squared_32f_a_generic(c, n) == Blocks(0, n, LAMBDA i : <<SquareAt(c, i)>>)
volk_32fc_magnitude_squared_32f_u_sse3(c, n)    == volk_32fc_magnitude_squared_32f_a_sse3(c, n)
volk_32fc_magnitude_squared_32f_u_sse(c, n)     == volk_32fc_magnitude_squared_32f_a_sse(c, n)
volk_32fc_magnitude_squared_32f_u_generic(c, n) == volk_32fc_magnitude_squared_32f_a_generic(c, n)

volk_32fc_s32f_magnitude_16i_a_sse3(c, scalar, n) ==
    Loop(n, 4, LAMBDA q : Truncs16(mul_ps(sqrt_ps(SquaresHadd(c, q)), set1_ps(scalar))),
               LAMBDA i : <<Cast16(sqrtf(SquareAt(c, i)) * scalar)>>)
volk_32fc_s32f_magnitude_16i_a_sse(c, scalar, n) ==
    Loop(n, 4, LAMBDA q : Truncs16(mul_ps(sqrt_ps(SquaresShuffle(c, q)), set1_ps(scalar))),
               LAMBDA i : <<Cast16(sqrtf(SquareAt(c, i)) * scalar)>>)
volk_32fc_s32f_magnitude_16i_a_generic(c, scalar, n) ==
    Blocks(0, n, LAMBDA i : <<Cast16(sqrtf(SquareAt(c, i)) * scalar)>>)

(* A phase is the pair it is computed from, scaled by inv; the blocks are  *)
(* compiled in with LV_HAVE_LIB_SIMDMATH, and no phase is 2 * pi, so the   *)
(* correction of that value keeps every lane.                              *)
Phase(im, re, inv) == <<im, re, inv>>
Phases(c, q, inv)  == LET im == qValue(c, q)
                          re == iValue(c, q)
                      IN  Reg([l \in 1..4 |-> Phase(im[l], re[l], inv)])
volk_32fc_s32f_atan2_32f_a_sse4_1(c, inv, n) ==
    Loop(n, 4, LAMBDA q : Phases(c, q, inv), LAMBDA i : <<Phase(Imag(c, i), Real(c, i), inv)>>)
volk_32fc_s32f_atan2_32f_a_sse(c, inv, n) ==
    Loop(n, 4, LAMBDA q : Phases(c, q, inv), LAMBDA i : <<Phase(Imag(c, i), Real(c, i), inv)>>)
volk_32fc_s32f_atan2_32f_a_generic(c, inv, n) ==
    Blocks(0, n, LAMBDA i : <<Phase(Imag(c, i), Real(c, i), inv)>>)

(* The point of largest magnitude.  xmm8, the indexes of the lanes, is set *)
(* to 3, 2, 1, 0 and then to zero, so every lane counts from zero and the  *)
(* index found is that of the block, not of the point.                     *)
LaneMax(s, squares) ==
    LET xmm3 == max_ps(squares, s.values)
    IN  [values  |-> xmm3,
         current |-> add_ps(s.current, set1_ps(s.step)),
         step    |-> s.step,
         indexes |-> add_ps(and_mask(cmpeq(squares, xmm3), s.current),
                            and_mask(cmplt(squares, xmm3), s.indexes))]
(* Whole blocks of four points, then a pair, then a single point. *)
WideMax(c, n) ==
    LET zero == [values |-> setzero_ps, current |-> setzero_ps, indexes |-> setzero_ps, step |-> 4]
    IN  Accumulate(0, n \div 4, zero, LAMBDA s, q : LaneMax(s, SquaresHadd(c, q)))
PairMax(wide, v, n) ==
    IF (n \div 2) % 2 = 0 THEN wide
    ELSE LaneMax([wide EXCEPT !.current = movelh_ps(@, @), !.step = 2],
                 hadd_ps(mul_ps(v, v), mul_ps(v, v)))
PointMax(pair, sq, n) ==
    LET max == [pair.values EXCEPT ![1] = Larger(@, sq)]
        one == shuffle_epi32(pair.current, 0)
    IN  IF n % 2 = 0 THEN pair
        ELSE [pair EXCEPT !.values = max,
                !.indexes = add_ps(and_mask(cmplt(pair.values, max), one),
                                   and_mask(cmpeq(pair.values, max), @))]
BestLane(s) ==
    Accumulate(1, 4, [max |-> s.values[1], index |-> s.indexes[1]],
               LAMBDA b, l : BestOf(b, s.values[l + 1], s.indexes[l + 1]))
volk_32fc_index_max_16u_a_sse3(c, n) ==
    BestLane(PointMax(PairMax(WideMax(c, n), load(c, 8 * (n \div 4), 4), n),
                      SquareAt(c, n - 1), n)).index
volk_32fc_index_max_16u_a_generic(c, n) ==
    Accumulate(0, n, [max |-> 0, index |-> 0], LAMBDA b, i : BestOf(b, SquareAt(c, i), i)).index
-----------------------------------------------------------------------------
(* Products.                                                               *)

(* The sign of the imaginary lanes flipped by an xor. *)
Conjugated(x) == <<x[1], -x[2], x[3], -x[4]>>

(* Two complex products: x by the duplicated real parts of y, plus or      *)
(* minus x with its parts swapped by the duplicated imaginary parts.       *)
Products(x, y) ==
    addsub_ps(mul_ps(x, moveldup_ps(y)), mul_ps(shuffle_ps(x, x, 177), movehdup_ps(y)))

volk_32fc_32f_multiply_32fc_a_sse(a, b, n) ==
    LET block(q) ==
          LET bVal == load(b, 4 * q, 4)
          IN  mul_ps(cplxValue1(a, q), shuffle_ps(bVal, bVal, MM_SHUFFLE(1, 1, 0, 0)))
              \o mul_ps(cplxValue2(a, q), shuffle_ps(bVal, bVal, MM_SHUFFLE(3, 3, 2, 2)))
    IN  Loop(n, 4, block, LAMBDA i : <<Real(a, i) * b[i], Imag(a, i) * b[i]>>)
volk_32fc_32f_multiply_32fc_a_generic(a, b, n) ==
    Blocks(0, n, LAMBDA i : <<Real(a, i) * b[i], Imag(a, i) * b[i]>>)

volk_32fc_conjugate_32fc_a_sse3(a, n) ==
    Loop(n, 2, LAMBDA q : Conjugated(load(a, 4 * q, 4)), LAMBDA i : lv_conj(At(a, i)))
volk_32fc_conjugate_32fc_a_generic(a, n) == Blocks(0, n, LAMBDA i : lv_conj(At(a, i)))
volk_32fc_conjugate_32fc_u_sse3(a, n)    == volk_32fc_conjugate_32fc_a_sse3(a, n)
volk_32fc_conjugate_32fc_u_generic(a, n) == volk_32fc_conjugate_32fc_a_generic(a, n)

volk_32fc_s32fc_multiply_32fc_a_sse3(a, scalar, n) ==
    LET block(q) ==
          LET x == load(a, 4 * q, 4)
          IN  addsub_ps(mul_ps(x, set1_ps(scalar[1])),
                        mul_ps(shuffle_ps(x, x, 177), set1_ps(scalar[2])))
    IN  Loop(n, 2, block, LAMBDA i : Times(At(a, i), scalar))
volk_32fc_s32fc_multiply_32fc_a_generic(a, scalar, n) ==
    LET eight(q) == Blocks(8 * q, 8 * q + 8, LAMBDA i : Times(At(a, i), scalar))
    IN  Loop(n, 8, eight, LAMBDA i : Times(At(a, i), scalar))
volk_32fc_s32fc_multiply_32fc_u_sse3(a, scalar, n)    == volk_32fc_s32fc_multiply_32fc_a_sse3(a, scalar, n)
volk_32fc_s32fc_multiply_32fc_u_generic(a, scalar, n) == volk_32fc_s32fc_multiply_32fc_a_generic(a, scalar, n)

volk_32fc_x2_multiply_32fc_a_sse3(a, b, n) ==
    Loop(n, 2, LAMBDA q : Products(load(a, 4 * q, 4), load(b, 4 * q, 4)),
               LAMBDA i : Times(At(a, i), At(b, i)))
volk_32fc_x2_multiply_32fc_a_generic(a, b, n) == Blocks(0, n, LAMBDA i : Times(At(a, i), At(b, i)))
volk_32fc_x2_multiply_32fc_u_sse3(a, b, n)    == volk_32fc_x2_multiply_32fc_a_sse3(a, b, n)
volk_32fc_x2_multiply_32fc_u_generic(a, b, n) == volk_32fc_x2_multiply_32fc_a_generic(a, b, n)

volk_32fc_x2_multiply_conjugate_32fc_a_sse3(a, b, n) ==
    Loop(n, 2, LAMBDA q : Products(load(a, 4 * q, 4), Conjugated(load(b, 4 * q, 4))),
               LAMBDA i : Times(At(a, i), lv_conj(At(b, i))))
volk_32fc_x2_multiply_conjugate_32fc_a_generic(a, b, n) ==
    Blocks(0, n, LAMBDA i : Times(At(a, i), lv_conj(At(b, i))))
volk_32fc_x2_multiply_conjugate_32fc_u_sse3(a, b, n)    == volk_32fc_x2_multiply_conjugate_32fc_a_sse3(a, b, n)
volk_32fc_x2_multiply_conjugate_32fc_u_generic(a, b, n) == volk_32fc_x2_multiply_conjugate_32fc_a_generic(a, b, n)

-----------------------------------------------------------------------------
(* Dot products.                                                           *)

(* The generic ones: two sums over the even and the odd points of pairs,   *)
(* and the last point when their number is odd.                            *)
volk_32fc_x2_dot_prod_32fc_a_generic(a, b, n) ==
    LET sum0 == Accumulate(0, n \div 2, <<0, 0>>,
                  LAMBDA s, q : add_ps(s, Times(At(a, 2 * q), At(b, 2 * q))))
        sum1 == Accumulate(0, n \div 2, <<0, 0>>,
                  LAMBDA s, q : add_ps(s, Times(At(a, 2 * q + 1), At(b, 2 * q + 1))))
        res  == add_ps(sum0, sum1)
    IN  IF n % 2 = 0 THEN res ELSE add_ps(res, Times(At(a, n - 1), At(b, n - 1)))
volk_32fc_x2_conjugate_dot_prod_32fc_a_generic(a, b, n) ==
    LET sum0 == Accumulate(0, n \div 2, <<0, 0>>,
                  LAMBDA s, q : add_ps(s, Times(At(a, 2 * q), lv_conj(At(b, 2 * q)))))
        sum1 == Accumulate(0, n \div 2, <<0, 0>>,
                  LAMBDA s, q : add_ps(s, Times(At(a, 2 * q + 1), lv_conj(At(b, 2 * q + 1)))))
        res  == add_ps(sum0, sum1)
    IN  IF n % 2 = 0 THEN res ELSE add_ps(res, Times(At(a, n - 1), lv_conj(At(b, n - 1))))
volk_32fc_x2_dot_prod_32fc_u_generic(a, b, n) == volk_32fc_x2_dot_prod_32fc_a_generic(a, b, n)
volk_32fc_x2_conjugate_dot_prod_32fc_u_generic(a, b, n) ==
    volk_32fc_x2_conjugate_dot_prod_32fc_a_generic(a, b, n)

(* The assembly: blocks of four points add to xmm6 the products of like    *)
(* parts and to xmm7 those of unlike parts, two more points follow when    *)
(* the number of pairs is odd, and pfpnacc turns the two registers into    *)
(* the sum.                                                                *)
DotAccumulated(acc, x, y) ==
    [xmm6 |-> add_ps(acc.xmm6, mul_ps(x, y)),
     xmm7 |-> add_ps(acc.xmm7, mul_ps(shuffle_ps(x, x, 177), y))]
pfpnacc(xmm6, xmm7) ==
    LET negated == Conjugated(xmm6)
        low     == unpacklo_ps(negated, xmm7)
        high    == unpackhi_ps(negated, xmm7)
        sum     == add_ps(shuffle_ps(high, low, 68), shuffle_ps(low, high, 238))
    IN  <<sum[1] + sum[3], sum[2] + sum[4]>>
DotOfPairs(a, b, n, sign) ==
    LET x(p) == load(a, 4 * p, 4)
        y(p) == IF sign THEN Conjugated(load(b, 4 * p, 4)) ELSE load(b, 4 * p, 4)
        zero == [xmm6 |-> setzero_ps, xmm7 |-> setzero_ps]
        four == Accumulate(0, n \div 4, zero,
                  LAMBDA s, q : DotAccumulated(DotAccumulated(s, x(2 * q), y(2 * q)), x(2 * q + 1), y(2 * q + 1)))
        pair == 2 * (n \div 4)
        acc  == IF (n \div 2) % 2 = 0 THEN four ELSE DotAccumulated(four, x(pair), y(pair))
    IN  pfpnacc(acc.xmm6, acc.xmm7)
AddOdd(res, n, x, y) == IF n % 2 = 0 THEN res ELSE add_ps(res, Times(x, y))
volk_32fc_x2_dot_prod_32fc_a_sse_64(a, b, n) ==
    AddOdd(DotOfPairs(a, b, n, FALSE), n, At(a, n - 1), At(b, n - 1))
volk_32fc_x2_conjugate_dot_prod_32fc_a_sse(a, b, n) ==
    AddOdd(DotOfPairs(a, b, n, TRUE), n, At(a, n - 1), lv_conj(At(b, n - 1)))
volk_32fc_x2_conjugate_dot_prod_32fc_a_sse_32(a, b, n) ==
    LET k == 2 * (n \div 2)
    IN  AddOdd(DotOfPairs(a, b, n, TRUE), n, At(a, k), lv_conj(At(b, k)))
volk_32fc_x2_dot_prod_32fc_a_sse_32(a, b, n) == volk_32fc_x2_dot_prod_32fc_a_generic(a, b, n)

(* The SSE3 ones.  The aligned one tests num_bytes >> 2, which is zero     *)
(* only when there are no points, so it adds the product behind the last   *)
(* pair whether or not there is a point left; the unaligned one tests      *)
(* num_points % 1, which is always zero, so it never does.                 *)
DotPairs(a, b, n) ==
    LET val == Accumulate(0, n \div 2, setzero_ps,
                 LAMBDA s, q : add_ps(s, Products(load(a, 4 * q, 4), load(b, 4 * q, 4))))
    IN  <<val[1] + val[3], val[2] + val[4]>>
volk_32fc_x2_dot_prod_32fc_a_sse3(a, b, n) ==
    LET k == 2 * (n \div 2)
    IN  IF (8 * n) \div 4 # 0 THEN add_ps(DotPairs(a, b, n), Times(At(a, k), At(b, k)))
                              ELSE DotPairs(a, b, n)
volk_32fc_x2_dot_prod_32fc_a_sse4_1(a, b, n) == volk_32fc_x2_dot_prod_32fc_a_sse3(a, b, n)
volk_32fc_x2_dot_prod_32fc_u_sse3(a, b, n) ==
    LET k == 2 * (n \div 2)
    IN  IF n % 1 # 0 THEN add_ps(DotPairs(a, b, n), Times(At(a, k), At(b, k)))
                     ELSE DotPairs(a, b, n)

(* Real and imaginary parts of a block are summed apart; the last point is *)
(* the low half of a block with its high half masked.                      *)
ConjBlock(in1, in2, keep) ==
    LET zv   == setzero_ps
        fehg == shuffle_ps(in2, in2, MM_SHUFFLE(2, 3, 0, 1))
        Rv   == and_mask(keep, mul_ps(in1, in2))
        Iv   == and_mask(keep, mul_ps(in1, fehg))
        Rs   == hadd_ps(hadd_ps(Rv, zv), zv)
        Is   == hadd_ps(hadd_ps(<<-Iv[1], Iv[2], -Iv[3], Iv[4]>>, zv), zv)
    IN  <<Rs[1], Is[1]>>
volk_32fc_x2_conjugate_dot_prod_32fc_u_sse3(a, b, n) ==
    LET block(q, keep) == ConjBlock(load(a, 4 * q, 4), load(b, 4 * q, 4), keep)
        sums == Accumulate(0, n \div 2, <<0, 0>>, LAMBDA s, q : add_ps(s, block(q, <<TRUE, TRUE, TRUE, TRUE>>)))
    IN  IF n % 2 = 0 THEN sums ELSE add_ps(sums, block(n \div 2, <<TRUE, TRUE, FALSE, FALSE>>))

-----------------------------------------------------------------------------
(* Squared distances of one point from the points of a vector.  The block  *)
(* after the loop runs whatever bound is, so with less than four points    *)
(* its four results come first.                                            *)
DistAt(src, points, i, scale) ==
    LET dr == src[1] - Real(points, i)
        di == src[2] - Imag(points, i)
    IN  <<scale * (dr * dr + di * di)>>
DistBlock(src, points, q, scale) ==
    LET xmm1 == movelh_ps(src, src)
        xmm4 == sub_ps(xmm1, cplxValue1(points, q))
        xmm5 == sub_ps(xmm1, cplxValue2(points, q))
    IN  mul_ps(hadd_ps(mul_ps(xmm4, xmm4), mul_ps(xmm5, xmm5)), set1_ps(scale))
DistPair(src, points, i, scale) ==
    LET xmm4 == sub_ps(movelh_ps(src, src), load(points, 2 * i, 4))
        xmm6 == mul_ps(xmm4, xmm4)
        dist == mul_ps(hadd_ps(xmm6, xmm6), set1_ps(scale))
    IN  <<dist[3], dist[4]>>
volk_32fc_x2_s32f_square_dist_scalar_mult_32f_a_sse3(src, points, scalar, n) ==
    LET bound == Larger(n \div 4, 1)
        pairs == (n \div 2) % 2
    IN  Blocks(0, bound, LAMBDA q : DistBlock(src, points, q, scalar))
        \o Blocks(0, pairs, LAMBDA i : DistPair(src, points, 4 * bound, scalar))
        \o Blocks(0, n % 2, LAMBDA i : DistAt(src, points, 4 * bound + 2 * pairs, scalar))
volk_32fc_x2_s32f_square_dist_scalar_mult_32f_a_generic(src, points, scalar, n) ==
    Blocks(0, n, LAMBDA i : DistAt(src, points, i, scalar))
volk_32fc_x2_square_dist_32f_a_sse3(src, points, n) ==
    volk_32fc_x2_s32f_square_dist_scalar_mult_32f_a_sse3(src, points, 1, n)
volk_32fc_x2_square_dist_32f_a_generic(src, points, n) ==
    Blocks(0, n, LAMBDA i : DistAt(src, points, i, 1))
=============================================================================
