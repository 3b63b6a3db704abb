------------------------------ MODULE VolkFloat ------------------------------
(***************************************************************************)
(* VOLK kernels on vectors of floats and doubles: every variant of every   *)
(* kernel as an operator with the variant's own name, from its input       *)
(* arrays to what it writes.  The unaligned (_u) variants have the text of *)
(* the aligned ones with loadu and storeu, which move the same lanes.      *)
(***************************************************************************)
EXTENDS Simd

-----------------------------------------------------------------------------
(* Sums of a vector.                                                       *)

volk_32f_accumulator_s32f_a_sse(a, n) ==
    LET quarters == n \div 4
        acc == Accumulate(0, quarters, setzero_ps, LAMBDA s, q : add_ps(s, load(a, 4 * q, 4)))
    IN  Accumulate(4 * quarters, n, SumLanes(acc), LAMBDA s, i : s + a[i])
volk_32f_accumulator_s32f_a_generic(a, n) == Accumulate(0, n, 0, LAMBDA s, i : s + a[i])

volk_32f_x2_dot_prod_32f_a_generic(a, b, n) ==
    Accumulate(0, n, 0, LAMBDA s, i : s + a[i] * b[i])
volk_32f_x2_dot_prod_32f_a_sse(a, b, n) ==
    LET quarters == n \div 4
        acc == Accumulate(0, quarters, setzero_ps,
                 LAMBDA s, q : add_ps(mul_ps(load(a, 4 * q, 4), load(b, 4 * q, 4)), s))
    IN  Accumulate(4 * quarters, n, SumLanes(acc), LAMBDA s, i : s + a[i] * b[i])
volk_32f_x2_dot_prod_32f_a_sse3(a, b, n) ==
    LET quarters == n \div 4
        acc == Accumulate(0, quarters, setzero_ps,
                 LAMBDA s, q : hadd_ps(s, mul_ps(load(a, 4 * q, 4), load(b, 4 * q, 4))))
        sum == hadd_ps(acc, acc)
    IN  Accumulate(4 * quarters, n, sum[1] + sum[2], LAMBDA s, i : s + a[i] * b[i])
(* A tail that starts at the last whole register, not at the last block. *)
dot_prod_ShortTail(a, b, n) ==
    LET sixteenths == n \div 16
        dp(q, k) == dp_ps(load(a, 16 * q + 4 * (k - 1), 4), load(b, 16 * q + 4 * (k - 1), 4), k)
        acc == Accumulate(0, sixteenths, setzero_ps,
                 LAMBDA s, q : add_ps(s, or_ps(or_ps(dp(q, 1), dp(q, 2)), or_ps(dp(q, 3), dp(q, 4)))))
    IN  Accumulate(4 * (n \div 4), n, SumLanes(acc), LAMBDA s, i : s + a[i] * b[i])
volk_32f_x2_dot_prod_32f_a_sse4_1(a, b, n) ==
    LET sixteenths == n \div 16
        dp(q, k) == dp_ps(load(a, 16 * q + 4 * (k - 1), 4), load(b, 16 * q + 4 * (k - 1), 4), k)
        acc == Accumulate(0, sixteenths, setzero_ps,
                 LAMBDA s, q : add_ps(s, or_ps(or_ps(dp(q, 1), dp(q, 2)), or_ps(dp(q, 3), dp(q, 4)))))
    IN  Accumulate(16 * sixteenths, n, SumLanes(acc), LAMBDA s, i : s + a[i] * b[i])
volk_32f_x2_dot_prod_32f_u_generic(a, b, n) == volk_32f_x2_dot_prod_32f_a_generic(a, b, n)
volk_32f_x2_dot_prod_32f_u_sse(a, b, n)     == volk_32f_x2_dot_prod_32f_a_sse(a, b, n)
volk_32f_x2_dot_prod_32f_u_sse3(a, b, n)    == volk_32f_x2_dot_prod_32f_a_sse3(a, b, n)
volk_32f_x2_dot_prod_32f_u_sse4_1(a, b, n)  == volk_32f_x2_dot_prod_32f_a_sse4_1(a, b, n)

(* The standard deviation is a root of squares / num_points - mean ^ 2,    *)
(* which is given as the numerator and the denominator of that quotient.   *)
Deviation(squares, mean, n) == Quotient(squares - mean * mean * n, n)
volk_32f_s32f_stddev_32f_a_sse4_1(a, mean, n) ==
    LET sixteenths == n \div 16
        dp(q, k) == dp_ps(load(a, 16 * q + 4 * (k - 1), 4), load(a, 16 * q + 4 * (k - 1), 4), k)
        acc == Accumulate(0, sixteenths, setzero_ps,
                 LAMBDA s, q : add_ps(s, or_ps(or_ps(dp(q, 1), dp(q, 2)), or_ps(dp(q, 3), dp(q, 4)))))
        squares == Accumulate(16 * sixteenths, n, SumLanes(acc), LAMBDA s, i : s + a[i] * a[i])
    IN  IF n > 0 THEN Deviation(squares, mean, n) ELSE Quotient(0, 1)
volk_32f_s32f_stddev_32f_a_sse(a, mean, n) ==
    LET quarters == n \div 4
        acc == Accumulate(0, quarters, setzero_ps,
                 LAMBDA s, q : add_ps(s, mul_ps(load(a, 4 * q, 4), load(a, 4 * q, 4))))
        squares == Accumulate(4 * quarters, n, SumLanes(acc), LAMBDA s, i : s + a[i] * a[i])
    IN  IF n > 0 THEN Deviation(squares, mean, n) ELSE Quotient(0, 1)
volk_32f_s32f_stddev_32f_a_generic(a, mean, n) ==
    IF n > 0 THEN Deviation(Accumulate(0, n, 0, LAMBDA s, i : s + a[i] * a[i]), mean, n)
             ELSE Quotient(0, 1)

(* Here the mean is the sum / num_points; over the common denominator n^2  *)
(* the root's argument is squares * n - sum ^ 2.                           *)
MeanAndDeviation(sum, squares, n) ==
    IF n > 0 THEN <<Quotient(squares * n - sum * sum, n * n), Quotient(sum, n)>>
             ELSE <<Quotient(0, 1), Quotient(0, 1)>>
volk_32f_stddev_and_mean_32f_x2_a_sse4_1(a, n) ==
    LET sixteenths == n \div 16
        part(q, k) == load(a, 16 * q + 4 * (k - 1), 4)
        dp(q, k) == dp_ps(part(q, k), part(q, k), k)
        acc == Accumulate(0, sixteenths, setzero_ps,
                 LAMBDA s, q : add_ps(add_ps(add_ps(add_ps(s, part(q, 1)), part(q, 2)), part(q, 3)), part(q, 4)))
        square == Accumulate(0, sixteenths, setzero_ps,
                 LAMBDA s, q : add_ps(s, or_ps(or_ps(dp(q, 1), dp(q, 2)), or_ps(dp(q, 3), dp(q, 4)))))
    IN  MeanAndDeviation(Accumulate(16 * sixteenths, n, SumLanes(acc), LAMBDA s, i : s + a[i]),
                         Accumulate(16 * sixteenths, n, SumLanes(square), LAMBDA s, i : s + a[i] * a[i]), n)
volk_32f_stddev_and_mean_32f_x2_a_sse(a, n) ==
    LET quarters == n \div 4
        part(q) == load(a, 4 * q, 4)
        acc == Accumulate(0, quarters, setzero_ps, LAMBDA s, q : add_ps(s, part(q)))
        square == Accumulate(0, quarters, setzero_ps, LAMBDA s, q : add_ps(s, mul_ps(part(q), part(q))))
    IN  MeanAndDeviation(Accumulate(4 * quarters, n, SumLanes(acc), LAMBDA s, i : s + a[i]),
                         Accumulate(4 * quarters, n, SumLanes(square), LAMBDA s, i : s + a[i] * a[i]), n)
volk_32f_stddev_and_mean_32f_x2_a_generic(a, n) ==
    MeanAndDeviation(Accumulate(0, n, 0, LAMBDA s, i : s + a[i]),
                     Accumulate(0, n, 0, LAMBDA s, i : s + a[i] * a[i]), n)

(* The mean of the points that are not above the mean of all points plus   *)
(* the exclusion value; the mean amplitude is kept as amplitude / n.       *)
volk_32f_s32f_calc_spectral_noise_floor_32f_a_sse(a, exclusion, n) ==
    LET quarters == n \div 4
        part(q) == load(a, 4 * q, 4)
        acc == Accumulate(0, quarters, setzero_ps, LAMBDA s, q : add_ps(s, part(q)))
        amplitude == Accumulate(4 * quarters, n, SumLanes(acc), LAMBDA s, i : s + a[i]) + exclusion * n
        mask(q) == cmple(mul_ps(part(q), set1_ps(n)), set1_ps(amplitude))
        below == Accumulate(0, quarters, setzero_ps,
                   LAMBDA s, q : add_ps(s, and_mask(mask(q), part(q))))
        bins == Accumulate(0, quarters, setzero_ps,
                   LAMBDA s, q : add_ps(s, and_mask(mask(q), set1_ps(1))))
        sumMean == Accumulate(4 * quarters, n, SumLanes(below),
                   LAMBDA s, i : IF a[i] * n <= amplitude THEN s + a[i] ELSE s)
        validBinCount == Accumulate(4 * quarters, n, SumLanes(bins),
                   LAMBDA s, i : IF a[i] * n <= amplitude THEN s + 1 ELSE s)
    IN  IF validBinCount > 0 THEN Quotient(sumMean, validBinCount) ELSE Quotient(amplitude, n)
volk_32f_s32f_calc_spectral_noise_floor_32f_a_generic(a, exclusion, n) ==
    LET amplitude == Accumulate(0, n, 0, LAMBDA s, i : s + a[i]) + exclusion * n
        sumMean == Accumulate(0, n, 0, LAMBDA s, i : IF a[i] * n <= amplitude THEN s + a[i] ELSE s)
        newNumDataPoints == Accumulate(0, n, n, LAMBDA s, i : IF a[i] * n <= amplitude THEN s ELSE s - 1)
    IN  IF newNumDataPoints = 0 THEN Quotient(amplitude, n) ELSE Quotient(sumMean, newNumDataPoints)

(* The sum of a polynomial of the fourth degree at every point raised to   *)
(* the cutoff; c holds the five coefficients, num_bytes is 4 * n.          *)
PolyAt(c, x) == c[0] * x + c[1] * (x * x) + c[2] * (x * (x * x)) + c[3] * ((x * x) * (x * x))
volk_32f_x3_sum_of_poly_32f_a_sse3(a, c, cutoff, n) ==
    LET bound == n \div 4
        leftovers == n % 4
        x(q) == max_ps(set1_ps(cutoff), load(a, 4 * q, 4))
        sq(q) == mul_ps(x(q), x(q))
        low == Accumulate(0, bound, setzero_ps, LAMBDA s, q :
                 add_ps(add_ps(mul_ps(x(q), set1_ps(c[0])), mul_ps(sq(q), set1_ps(c[1]))), s))
        high == Accumulate(0, bound, setzero_ps, LAMBDA s, q :
                 add_ps(add_ps(mul_ps(mul_ps(x(q), sq(q)), set1_ps(c[2])),
                               mul_ps(mul_ps(sq(q), sq(q)), set1_ps(c[3]))), s))
        xmm4 == hadd_self(hadd_self(hadd_ps(low, high)))
    IN  Accumulate(0, leftovers, xmm4[1],
                   LAMBDA s, i : s + PolyAt(c, Larger(a[4 * bound + i], cutoff)))
        + (bound * 4 + leftovers) * c[4]
volk_32f_x3_sum_of_poly_32f_a_generic(a, c, cutoff, n) ==
    Accumulate(0, n, 0, LAMBDA s, i : s + PolyAt(c, Larger(a[i], cutoff))) + n * c[4]

-----------------------------------------------------------------------------
(* The index of the largest element.  A lane keeps its candidate only      *)
(* where the candidate is strictly larger, so on a tie inside a lane the   *)
(* later index wins; the scalar loops keep the earlier one.                *)

(* With no points the target is left alone. *)
Unwritten == -1

(* The lanes' candidates, then the points left over, against max. *)
BestOf(best, value, index) ==
    IF value > best.max THEN [max |-> value, index |-> index] ELSE best
LaneSearch(a, n, lanes) ==
    LET quarters == n \div 4
        first == [max |-> a[0], index |-> 0]
        best == Accumulate(0, 4, first,
                  LAMBDA b, l : BestOf(b, lanes.values[l + 1], lanes.indexes[l + 1]))
    IN  Accumulate(4 * quarters, n, best, LAMBDA b, i : BestOf(b, a[i], i)).index
volk_32f_index_max_16u_a_sse4_1(a, n) ==
    LET step(s, q) ==
          LET current == load(a, 4 * q, 4)
              indexes == add_ps(s.current, set1_ps(4))
              keep    == cmpgt(s.values, current)
          IN  [current |-> indexes,
               indexes |-> blendv_ps(indexes, s.indexes, keep),
               values  |-> blendv_ps(current, s.values, keep)]
        start == [current |-> <<-4, -3, -2, -1>>, indexes |-> setzero_ps, values |-> set1_ps(a[0])]
    IN  IF n > 0 THEN LaneSearch(a, n, Accumulate(0, n \div 4, start, step)) ELSE Unwritten
volk_32f_index_max_16u_a_sse(a, n) ==
    LET step(s, q) ==
          LET current == load(a, 4 * q, 4)
              indexes == add_ps(s.current, set1_ps(4))
              keep    == cmpgt(s.values, current)
          IN  [current |-> indexes,
               indexes |-> or_ps(and_mask(keep, s.indexes), andnot_mask(keep, indexes)),
               values  |-> or_ps(and_mask(keep, s.values), andnot_mask(keep, current))]
        start == [current |-> <<-4, -3, -2, -1>>, indexes |-> setzero_ps, values |-> set1_ps(a[0])]
    IN  IF n > 0 THEN LaneSearch(a, n, Accumulate(0, n \div 4, start, step)) ELSE Unwritten
volk_32f_index_max_16u_a_generic(a, n) ==
    IF n > 0 THEN Accumulate(1, n, [max |-> a[0], index |-> 0], LAMBDA b, i : BestOf(b, a[i], i)).index
             ELSE Unwritten
-----------------------------------------------------------------------------
(* Element by element.                                                     *)

(* Two vectors.                                                            *)
volk_32f_x2_add_32f_a_sse(a, b, n) ==
    Loop(n, 4, LAMBDA q : add_ps(load(a, 4 * q, 4), load(b, 4 * q, 4)), LAMBDA i : <<a[i] + b[i]>>)
volk_32f_x2_add_32f_a_generic(a, b, n) == Blocks(0, n, LAMBDA i : <<a[i] + b[i]>>)
volk_32f_x2_add_32f_u_sse(a, b, n)     == volk_32f_x2_add_32f_a_sse(a, b, n)
volk_32f_x2_add_32f_u_generic(a, b, n) == volk_32f_x2_add_32f_a_generic(a, b, n)

volk_32f_x2_subtract_32f_a_sse(a, b, n) ==
    Loop(n, 4, LAMBDA q : sub_ps(load(a, 4 * q, 4), load(b, 4 * q, 4)), LAMBDA i : <<a[i] - b[i]>>)
volk_32f_x2_subtract_32f_a_generic(a, b, n) == Blocks(0, n, LAMBDA i : <<a[i] - b[i]>>)

volk_32f_x2_multiply_32f_a_sse(a, b, n) ==
    Loop(n, 4, LAMBDA q : mul_ps(load(a, 4 * q, 4), load(b, 4 * q, 4)), LAMBDA i : <<a[i] * b[i]>>)
volk_32f_x2_multiply_32f_a_avx(a, b, n) ==
    Loop(n, 8, LAMBDA q : mul_ps(load(a, 8 * q, 8), load(b, 8 * q, 8)), LAMBDA i : <<a[i] * b[i]>>)
volk_32f_x2_multiply_32f_a_generic(a, b, n) == Blocks(0, n, LAMBDA i : <<a[i] * b[i]>>)
volk_32f_x2_multiply_32f_u_sse(a, b, n)     == volk_32f_x2_multiply_32f_a_sse(a, b, n)
volk_32f_x2_multiply_32f_u_avx(a, b, n)     == volk_32f_x2_multiply_32f_a_avx(a, b, n)
volk_32f_x2_multiply_32f_u_generic(a, b, n) == volk_32f_x2_multiply_32f_a_generic(a, b, n)

volk_32f_x2_divide_32f_a_sse(a, b, n) ==
    Loop(n, 4, LAMBDA q : div_ps(load(a, 4 * q, 4), load(b, 4 * q, 4)), LAMBDA i : <<Quotient(a[i], b[i])>>)
volk_32f_x2_divide_32f_a_generic(a, b, n) == Blocks(0, n, LAMBDA i : <<Quotient(a[i], b[i])>>)

volk_32f_x2_max_32f_a_sse(a, b, n) ==
    Loop(n, 4, LAMBDA q : max_ps(load(a, 4 * q, 4), load(b, 4 * q, 4)), LAMBDA i : <<Larger(a[i], b[i])>>)
volk_32f_x2_max_32f_a_generic(a, b, n) == Blocks(0, n, LAMBDA i : <<Larger(a[i], b[i])>>)
volk_32f_x2_min_32f_a_sse(a, b, n) ==
    Loop(n, 4, LAMBDA q : min_ps(load(a, 4 * q, 4), load(b, 4 * q, 4)), LAMBDA i : <<Smaller(a[i], b[i])>>)
volk_32f_x2_min_32f_a_generic(a, b, n) == Blocks(0, n, LAMBDA i : <<Smaller(a[i], b[i])>>)

(* Doubles: two lanes. *)
volk_64f_x2_max_64f_a_sse2(a, b, n) ==
    Loop(n, 2, LAMBDA q : max_ps(load(a, 2 * q, 2), load(b, 2 * q, 2)), LAMBDA i : <<Larger(a[i], b[i])>>)
volk_64f_x2_max_64f_a_generic(a, b, n) == Blocks(0, n, LAMBDA i : <<Larger(a[i], b[i])>>)
volk_64f_x2_min_64f_a_sse2(a, b, n) ==
    Loop(n, 2, LAMBDA q : min_ps(load(a, 2 * q, 2), load(b, 2 * q, 2)), LAMBDA i : <<Smaller(a[i], b[i])>>)
volk_64f_x2_min_64f_a_generic(a, b, n) == Blocks(0, n, LAMBDA i : <<Smaller(a[i], b[i])>>)

(* By a scalar. *)
volk_32f_s32f_multiply_32f_a_sse(a, scalar, n) ==
    Loop(n, 4, LAMBDA q : mul_ps(load(a, 4 * q, 4), set1_ps(scalar)), LAMBDA i : <<a[i] * scalar>>)
volk_32f_s32f_multiply_32f_a_avx(a, scalar, n) ==
    Loop(n, 8, LAMBDA q : mul_ps(load(a, 8 * q, 8), set1(scalar, 8)), LAMBDA i : <<a[i] * scalar>>)
volk_32f_s32f_multiply_32f_a_generic(a, scalar, n) == Blocks(0, n, LAMBDA i : <<a[i] * scalar>>)
volk_32f_s32f_multiply_32f_u_sse(a, scalar, n)     == volk_32f_s32f_multiply_32f_a_sse(a, scalar, n)
volk_32f_s32f_multiply_32f_u_avx(a, scalar, n)     == volk_32f_s32f_multiply_32f_a_avx(a, scalar, n)
volk_32f_s32f_multiply_32f_u_generic(a, scalar, n) == volk_32f_s32f_multiply_32f_a_generic(a, scalar, n)

(* In place, by the reciprocal of the scalar, which is inv. *)
volk_32f_s32f_normalize_a_sse(a, inv, n) ==
    Loop(n, 4, LAMBDA q : mul_ps(load(a, 4 * q, 4), set1_ps(inv)), LAMBDA i : <<a[i] * inv>>)
volk_32f_s32f_normalize_a_generic(a, inv, n) == Blocks(0, n, LAMBDA i : <<a[i] * inv>>)

(* The power of the magnitude, times the power of -1 where the sign mask   *)
(* is set (the blocks are compiled in with LV_HAVE_LIB_SIMDMATH).          *)
powf4(x, power) == Reg([l \in DOMAIN x |-> x[l] ^ power])
volk_32f_s32f_power_32f_a_sse4_1(a, power, n) ==
    LET block(q) ==
          LET aVal == load(a, 4 * q, 4)
              sign == cmplt(aVal, setzero_ps)
              size == blendv_ps(aVal, sub_ps(setzero_ps, aVal), sign)
          IN  mul_ps(blendv_ps(set1_ps(1), set1_ps((-1) ^ power), sign), powf4(size, power))
    IN  Loop(n, 4, block, LAMBDA i : <<a[i] ^ power>>)
volk_32f_s32f_power_32f_a_sse(a, power, n) ==
    LET block(q) ==
          LET aVal == load(a, 4 * q, 4)
              sign == cmplt(aVal, setzero_ps)
              size == or_ps(andnot_mask(sign, aVal), and_mask(sign, sub_ps(setzero_ps, aVal)))
          IN  mul_ps(or_ps(andnot_mask(sign, set1_ps(1)), and_mask(sign, set1_ps((-1) ^ power))),
                     powf4(size, power))
    IN  Loop(n, 4, block, LAMBDA i : <<a[i] ^ power>>)
volk_32f_s32f_power_32f_a_generic(a, power, n) == Blocks(0, n, LAMBDA i : <<a[i] ^ power>>)

volk_32f_sqrt_32f_a_sse(a, n) ==
    Loop(n, 4, LAMBDA q : sqrt_ps(load(a, 4 * q, 4)), LAMBDA i : <<sqrtf(a[i])>>)
volk_32f_sqrt_32f_a_generic(a, n) == Blocks(0, n, LAMBDA i : <<sqrtf(a[i])>>)

(* Differences of consecutive points, brought back by 2 * bound when they  *)
(* leave -bound .. bound; save is the point before the first one and       *)
(* becomes the last one.                                                   *)
Fold2(d, bound) ==
    LET up == IF d > bound THEN d - 2 * bound ELSE d
    IN  IF up < -bound THEN up + 2 * bound ELSE up
FmPoint(a, bound, save, i) == <<Fold2(a[i] - (IF i = 0 THEN save ELSE a[i - 1]), bound)>>
volk_32f_s32f_32f_fm_detect_32f_a_sse(a, bound, save, n) ==
    LET quarterPoints == (n - 1) \div 4
        block(q) ==
          LET d    == sub_ps(load(a, 4 * q, 4), load(a, 4 * q - 1, 4))
              down == and_mask(cmpgt(d, set1_ps(bound)), set1_ps(-2 * bound))
              up   == and_mask(cmplt(d, set1_ps(-bound)), set1_ps(2 * bound))
          IN  add_ps(d, or_ps(up, down))
        point(i) == FmPoint(a, bound, save, i)
    IN  IF n < 1 THEN <<<<>>, save>>
        ELSE <<Blocks(0, Smaller(4, n), point) \o Blocks(1, quarterPoints, block)
                 \o Blocks(Larger(4, 4 * quarterPoints), n, point), a[n - 1]>>
volk_32f_s32f_32f_fm_detect_32f_a_generic(a, bound, save, n) ==
    IF n < 1 THEN <<<<>>, save>>
    ELSE <<Blocks(0, n, LAMBDA i : FmPoint(a, bound, save, i)), a[n - 1]>>

-----------------------------------------------------------------------------
(* Between precisions: cvtps_pd and cvtpd_ps move the values (both are     *)
(* exact on integers) between registers of four and of two lanes.          *)
cvtps_pd(x) == <<x[1], x[2]>>
cvtpd_ps(x) == <<x[1], x[2], 0, 0>>
volk_32f_convert_64f_a_sse2(a, n) ==
    LET block(q) == LET v == load(a, 4 * q, 4) IN cvtps_pd(v) \o cvtps_pd(movehl_ps(v, v))
    IN  Loop(n, 4, block, LAMBDA i : <<a[i]>>)
volk_32f_convert_64f_a_generic(a, n) == Blocks(0, n, LAMBDA i : <<a[i]>>)
volk_32f_convert_64f_u_sse2(a, n)    == volk_32f_convert_64f_a_sse2(a, n)
volk_32f_convert_64f_u_generic(a, n) == volk_32f_convert_64f_a_generic(a, n)
volk_64f_convert_32f_a_sse2(a, n) ==
    LET block(q) == movelh_ps(cvtpd_ps(load(a, 4 * q, 2)), cvtpd_ps(load(a, 4 * q + 2, 2)))
    IN  Loop(n, 4, block, LAMBDA i : <<a[i]>>)
volk_64f_convert_32f_a_generic(a, n) == Blocks(0, n, LAMBDA i : <<a[i]>>)
volk_64f_convert_32f_u_sse2(a, n)    == volk_64f_convert_32f_a_sse2(a, n)
volk_64f_convert_32f_u_generic(a, n) == volk_64f_convert_32f_a_generic(a, n)
=============================================================================
