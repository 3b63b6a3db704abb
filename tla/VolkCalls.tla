----------------------------- MODULE VolkCalls -----------------------------
(***************************************************************************)
(* Calls of the VOLK kernels: for every kernel the variants its header     *)
(* registers, in the order of the header, each with what it computes for   *)
(* the same arguments.  The arguments depend on the number of points n and *)
(* on a seed d only; every array is longer than any kernel is told to      *)
(* read, as the memory behind a vector is.                                 *)
(***************************************************************************)
EXTENDS VolkComplex

CONSTANT Size      \* the length of the arrays

ASSUME SizeIsEnough == Size \in Nat /\ Size > 0

Positions == 0..(Size - 1)

(* Floats on both sides of zero, and floats with a root. *)
Small(d)    == [i \in Positions |-> ((i * 29 + d * 17) % 61) - 30]
Positive(d) == [i \in Positions |-> (i * 29 + d * 17) % 61]

(* Floats in quarters that go beyond the integers they are converted to.   *)
(* Those that reach the 32-bit bound, which is Half32, have no fraction.   *)
Quarters(bound, d) == [i \in Positions |-> (((i * 7919 + d * 1237) % (4 * bound)) - 2 * bound)]
Wide32(d) == [i \in Positions |-> IF (i + d) % 3 = 0 THEN 4 * (((i * 311) % 1401) - 700)
                                  ELSE ((i * 29 + d * 17) % 61) - 30]

(* Signed integers of w bits, without the lowest one, and unsigned ones. *)
Signed(w, d) == [i \in Positions |-> ((i * 7919 + d * 1237) % (2 ^ w - 1)) - (2 ^ (w - 1) - 1)]

Unsigned(d)  == [i \in Positions |-> (i * 7919 + d * 1237) % 65536]

(* Words as sequences of w bytes, and the arguments of single kernels. *)
WordsOf(w, d)  == [i \in Positions |-> [j \in 1..w |-> (i * 53 + j * 97 + d) % 256]]
Count(d, n)    == (n * 104729 + d * 15485863) % 1000000007
Coefficients   == [i \in 0..4 |-> <<3, -2, 1, 2, 5>>[i + 1]]
Permutation(n) == [i \in Positions |-> IF i < n THEN n - 1 - i ELSE i]
Masks(k)       == [i \in Positions |-> IF (i \div k) % 2 = 0 THEN 0 ELSE -1]
Moves(s)       == [b \in 1..16 |-> 2 * (((b - 1) \div 2 + s) % 8) + ((b - 1) % 2)]
Permuters      == <<Moves(0), Moves(1), Moves(3), Moves(6)>>

-----------------------------------------------------------------------------
(* The kernels on floats and doubles. *)
FloatKernels ==
    {"volk_32f_accumulator_s32f_a", "volk_32f_x2_dot_prod_32f_a", "volk_32f_x2_dot_prod_32f_u",
     "volk_32f_s32f_stddev_32f_a", "volk_32f_stddev_and_mean_32f_x2_a",
     "volk_32f_s32f_calc_spectral_noise_floor_32f_a", "volk_32f_x3_sum_of_poly_32f_a",
     "volk_32f_index_max_16u_a", "volk_32f_x2_add_32f_a", "volk_32f_x2_add_32f_u",
     "volk_32f_x2_subtract_32f_a", "volk_32f_x2_multiply_32f_a", "volk_32f_x2_multiply_32f_u",
     "volk_32f_x2_divide_32f_a", "volk_32f_x2_max_32f_a", "volk_32f_x2_min_32f_a",
     "volk_64f_x2_max_64f_a", "volk_64f_x2_min_64f_a", "volk_32f_s32f_multiply_32f_a",
     "volk_32f_s32f_multiply_32f_u", "volk_32f_s32f_normalize_a", "volk_32f_s32f_power_32f_a",
     "volk_32f_sqrt_32f_a", "volk_32f_s32f_32f_fm_detect_32f_a", "volk_32f_convert_64f_a",
     "volk_32f_convert_64f_u", "volk_64f_convert_32f_a", "volk_64f_convert_32f_u"}
FloatArchs(k, n, d) ==
    LET a == Small(d)
        b == Small(d + 1)
        positive == Positive(d)
    IN
    CASE k = "volk_32f_accumulator_s32f_a" ->
        <<<<"sse", volk_32f_accumulator_s32f_a_sse(a, n)>>,
          <<"generic", volk_32f_accumulator_s32f_a_generic(a, n)>>>>
      [] k = "volk_32f_x2_dot_prod_32f_a" ->
        <<<<"generic", volk_32f_x2_dot_prod_32f_a_generic(a, b, n)>>,
          <<"sse", volk_32f_x2_dot_prod_32f_a_sse(a, b, n)>>,
          <<"sse3", volk_32f_x2_dot_prod_32f_a_sse3(a, b, n)>>,
          <<"sse4_1", volk_32f_x2_dot_prod_32f_a_sse4_1(a, b, n)>>>>
      [] k = "volk_32f_x2_dot_prod_32f_u" ->
        <<<<"generic", volk_32f_x2_dot_prod_32f_u_generic(a, b, n)>>,
          <<"sse", volk_32f_x2_dot_prod_32f_u_sse(a, b, n)>>,
          <<"sse3", volk_32f_x2_dot_prod_32f_u_sse3(a, b, n)>>,
          <<"sse4_1", volk_32f_x2_dot_prod_32f_u_sse4_1(a, b, n)>>>>
      [] k = "volk_32f_s32f_stddev_32f_a" ->
        <<<<"sse4_1", volk_32f_s32f_stddev_32f_a_sse4_1(a, 3, n)>>,
          <<"sse", volk_32f_s32f_stddev_32f_a_sse(a, 3, n)>>,
          <<"generic", volk_32f_s32f_stddev_32f_a_generic(a, 3, n)>>>>
      [] k = "volk_32f_stddev_and_mean_32f_x2_a" ->
        <<<<"sse4_1", volk_32f_stddev_and_mean_32f_x2_a_sse4_1(a, n)>>,
          <<"sse", volk_32f_stddev_and_mean_32f_x2_a_sse(a, n)>>,
          <<"generic", volk_32f_stddev_and_mean_32f_x2_a_generic(a, n)>>>>
      [] k = "volk_32f_s32f_calc_spectral_noise_floor_32f_a" ->
        <<<<"sse", volk_32f_s32f_calc_spectral_noise_floor_32f_a_sse(a, 20, n)>>,
          <<"generic", volk_32f_s32f_calc_spectral_noise_floor_32f_a_generic(a, 20, n)>>>>
      [] k = "volk_32f_x3_sum_of_poly_32f_a" ->
        <<<<"sse3", volk_32f_x3_sum_of_poly_32f_a_sse3(a, Coefficients, 2, n)>>,
          <<"generic", volk_32f_x3_sum_of_poly_32f_a_generic(a, Coefficients, 2, n)>>>>
      [] k = "volk_32f_index_max_16u_a" ->
        <<<<"sse4_1", volk_32f_index_max_16u_a_sse4_1(a, n)>>,
          <<"sse", volk_32f_index_max_16u_a_sse(a, n)>>,
          <<"generic", volk_32f_index_max_16u_a_generic(a, n)>>>>
      [] k = "volk_32f_x2_add_32f_a" ->
        <<<<"sse", volk_32f_x2_add_32f_a_sse(a, b, n)>>,
          <<"generic", volk_32f_x2_add_32f_a_generic(a, b, n)>>>>
      [] k = "volk_32f_x2_add_32f_u" ->
        <<<<"sse", volk_32f_x2_add_32f_u_sse(a, b, n)>>,
          <<"generic", volk_32f_x2_add_32f_u_generic(a, b, n)>>>>
      [] k = "volk_32f_x2_subtract_32f_a" ->
        <<<<"sse", volk_32f_x2_subtract_32f_a_sse(a, b, n)>>,
          <<"generic", volk_32f_x2_subtract_32f_a_generic(a, b, n)>>>>
      [] k = "volk_32f_x2_multiply_32f_a" ->
        <<<<"sse", volk_32f_x2_multiply_32f_a_sse(a, b, n)>>,
          <<"avx", volk_32f_x2_multiply_32f_a_avx(a, b, n)>>,
          <<"generic", volk_32f_x2_multiply_32f_a_generic(a, b, n)>>>>
      [] k = "volk_32f_x2_multiply_32f_u" ->
        <<<<"sse", volk_32f_x2_multiply_32f_u_sse(a, b, n)>>,
          <<"avx", volk_32f_x2_multiply_32f_u_avx(a, b, n)>>,
          <<"generic", volk_32f_x2_multiply_32f_u_generic(a, b, n)>>>>
      [] k = "volk_32f_x2_divide_32f_a" ->
        <<<<"sse", volk_32f_x2_divide_32f_a_sse(a, b, n)>>,
          <<"generic", volk_32f_x2_divide_32f_a_generic(a, b, n)>>>>
      [] k = "volk_32f_x2_max_32f_a" ->
        <<<<"sse", volk_32f_x2_max_32f_a_sse(a, b, n)>>,
          <<"generic", volk_32f_x2_max_32f_a_generic(a, b, n)>>>>
      [] k = "volk_32f_x2_min_32f_a" ->
        <<<<"sse", volk_32f_x2_min_32f_a_sse(a, b, n)>>,
          <<"generic", volk_32f_x2_min_32f_a_generic(a, b, n)>>>>
      [] k = "volk_64f_x2_max_64f_a" ->
        <<<<"sse2", volk_64f_x2_max_64f_a_sse2(a, b, n)>>,
          <<"generic", volk_64f_x2_max_64f_a_generic(a, b, n)>>>>
      [] k = "volk_64f_x2_min_64f_a" ->
        <<<<"sse2", volk_64f_x2_min_64f_a_sse2(a, b, n)>>,
          <<"generic", volk_64f_x2_min_64f_a_generic(a, b, n)>>>>
      [] k = "volk_32f_s32f_multiply_32f_a" ->
        <<<<"sse", volk_32f_s32f_multiply_32f_a_sse(a, 3, n)>>,
          <<"avx", volk_32f_s32f_multiply_32f_a_avx(a, 3, n)>>,
          <<"generic", volk_32f_s32f_multiply_32f_a_generic(a, 3, n)>>>>
      [] k = "volk_32f_s32f_multiply_32f_u" ->
        <<<<"sse", volk_32f_s32f_multiply_32f_u_sse(a, 3, n)>>,
          <<"avx", volk_32f_s32f_multiply_32f_u_avx(a, 3, n)>>,
          <<"generic", volk_32f_s32f_multiply_32f_u_generic(a, 3, n)>>>>
      [] k = "volk_32f_s32f_normalize_a" ->
        <<<<"sse", volk_32f_s32f_normalize_a_sse(a, 3, n)>>,
          <<"generic", volk_32f_s32f_normalize_a_generic(a, 3, n)>>>>
      [] k = "volk_32f_s32f_power_32f_a" ->
        <<<<"sse4_1", volk_32f_s32f_power_32f_a_sse4_1(a, 2, n)>>,
          <<"sse", volk_32f_s32f_power_32f_a_sse(a, 2, n)>>,
          <<"generic", volk_32f_s32f_power_32f_a_generic(a, 2, n)>>>>
      [] k = "volk_32f_sqrt_32f_a" ->
        <<<<"sse", volk_32f_sqrt_32f_a_sse(positive, n)>>,
          <<"generic", volk_32f_sqrt_32f_a_generic(positive, n)>>>>
      [] k = "volk_32f_s32f_32f_fm_detect_32f_a" ->
        <<<<"sse", volk_32f_s32f_32f_fm_detect_32f_a_sse(a, 25, 7, n)>>,
          <<"generic", volk_32f_s32f_32f_fm_detect_32f_a_generic(a, 25, 7, n)>>>>
      [] k = "volk_32f_convert_64f_a" ->
        <<<<"sse2", volk_32f_convert_64f_a_sse2(a, n)>>,
          <<"generic", volk_32f_convert_64f_a_generic(a, n)>>>>
      [] k = "volk_32f_convert_64f_u" ->
        <<<<"sse2", volk_32f_convert_64f_u_sse2(a, n)>>,
          <<"generic", volk_32f_convert_64f_u_generic(a, n)>>>>
      [] k = "volk_64f_convert_32f_a" ->
        <<<<"sse2", volk_64f_convert_32f_a_sse2(a, n)>>,
          <<"generic", volk_64f_convert_32f_a_generic(a, n)>>>>
      [] k = "volk_64f_convert_32f_u" ->
        <<<<"sse2", volk_64f_convert_32f_u_sse2(a, n)>>,
          <<"generic", volk_64f_convert_32f_u_generic(a, n)>>>>

-----------------------------------------------------------------------------
(* The kernels with an integer side. *)
FixedKernels ==
    {"volk_32f_s32f_convert_16i_a", "volk_32f_s32f_convert_16i_u", "volk_32f_s32f_convert_32i_a",
     "volk_32f_s32f_convert_32i_u", "volk_32f_s32f_convert_8i_a", "volk_32f_s32f_convert_8i_u",
     "volk_32f_x2_s32f_interleave_16ic_a", "volk_16i_s32f_convert_32f_a",
     "volk_16i_s32f_convert_32f_u", "volk_32i_s32f_convert_32f_a", "volk_32i_s32f_convert_32f_u",
     "volk_8i_s32f_convert_32f_a", "volk_8i_s32f_convert_32f_u", "volk_8i_convert_16i_a",
     "volk_8i_convert_16i_u", "volk_16i_convert_8i_a", "volk_16i_convert_8i_u",
     "volk_16ic_deinterleave_16i_x2_a", "volk_16ic_deinterleave_real_16i_a",
     "volk_16ic_deinterleave_real_8i_a", "volk_16ic_s32f_deinterleave_32f_x2_a",
     "volk_16ic_s32f_deinterleave_real_32f_a", "volk_8ic_deinterleave_16i_x2_a",
     "volk_8ic_deinterleave_real_16i_a", "volk_8ic_deinterleave_real_8i_a",
     "volk_8ic_s32f_deinterleave_32f_x2_a", "volk_8ic_s32f_deinterleave_real_32f_a",
     "volk_8ic_x2_multiply_conjugate_16ic_a", "volk_8ic_x2_s32f_multiply_conjugate_32fc_a",
     "volk_16ic_magnitude_16i_a", "volk_16ic_s32f_magnitude_32f_a", "volk_16i_max_star_16i_a",
     "volk_16i_max_star_horizontal_16i_a", "volk_16i_x4_quad_max_star_16i_a",
     "volk_16i_x5_add_quad_16i_x4_a", "volk_16i_permute_and_scalar_add_a",
     "volk_16i_branch_4_state_8_a", "volk_32i_x2_and_32i_a", "volk_32i_x2_or_32i_a",
     "volk_32u_byteswap_a", "volk_64u_byteswap_a", "volk_16u_byteswap_a", "volk_32u_popcnt_a",
     "volk_64u_popcnt_a"}
FixedArchs(k, n, d) ==
    LET a == Small(d)
        loud == Quarters(40000, d)
        soft == Quarters(8000, d)
        soft1 == Quarters(8000, d + 1)
        low == Quarters(400, d)
        wide == Wide32(d)
        byte0 == Signed(8, d)
        byte1 == Signed(8, d + 1)
        short0 == Signed(16, d)
        short1 == Signed(16, d + 1)
        short2 == Signed(16, d + 2)
        short3 == Signed(16, d + 3)
        short4 == Signed(16, d + 4)
        word32 == WordsOf(4, d)
        word16 == WordsOf(2, d)
    IN
    CASE k = "volk_32f_s32f_convert_16i_a" ->
        <<<<"sse2", volk_32f_s32f_convert_16i_a_sse2(loud, 3, n)>>,
          <<"sse", volk_32f_s32f_convert_16i_a_sse(loud, 3, n)>>,
          <<"generic", volk_32f_s32f_convert_16i_a_generic(loud, 3, n)>>>>
      [] k = "volk_32f_s32f_convert_16i_u" ->
        <<<<"sse2", volk_32f_s32f_convert_16i_u_sse2(loud, 3, n)>>,
          <<"sse", volk_32f_s32f_convert_16i_u_sse(loud, 3, n)>>,
          <<"generic", volk_32f_s32f_convert_16i_u_generic(loud, 3, n)>>>>
      [] k = "volk_32f_s32f_convert_32i_a" ->
        <<<<"avx", volk_32f_s32f_convert_32i_a_avx(wide, 3, n)>>,
          <<"sse2", volk_32f_s32f_convert_32i_a_sse2(wide, 3, n)>>,
          <<"sse", volk_32f_s32f_convert_32i_a_sse(wide, 3, n)>>,
          <<"generic", volk_32f_s32f_convert_32i_a_generic(wide, 3, n)>>>>
      [] k = "volk_32f_s32f_convert_32i_u" ->
        <<<<"sse2", volk_32f_s32f_convert_32i_u_sse2(wide, 3, n)>>,
          <<"sse", volk_32f_s32f_convert_32i_u_sse(wide, 3, n)>>,
          <<"generic", volk_32f_s32f_convert_32i_u_generic(wide, 3, n)>>>>
      [] k = "volk_32f_s32f_convert_8i_a" ->
        <<<<"sse2", volk_32f_s32f_convert_8i_a_sse2(low, 3, n)>>,
          <<"sse", volk_32f_s32f_convert_8i_a_sse(low, 3, n)>>,
          <<"generic", volk_32f_s32f_convert_8i_a_generic(low, 3, n)>>>>
      [] k = "volk_32f_s32f_convert_8i_u" ->
        <<<<"sse2", volk_32f_s32f_convert_8i_u_sse2(low, 3, n)>>,
          <<"sse", volk_32f_s32f_convert_8i_u_sse(low, 3, n)>>,
          <<"generic", volk_32f_s32f_convert_8i_u_generic(low, 3, n)>>>>
      [] k = "volk_32f_x2_s32f_interleave_16ic_a" ->
        <<<<"sse2", volk_32f_x2_s32f_interleave_16ic_a_sse2(soft, soft1, 3, n)>>,
          <<"sse", volk_32f_x2_s32f_interleave_16ic_a_sse(soft, soft1, 3, n)>>,
          <<"generic", volk_32f_x2_s32f_interleave_16ic_a_generic(soft, soft1, 3, n)>>>>
      [] k = "volk_16i_s32f_convert_32f_a" ->
        <<<<"sse4_1", volk_16i_s32f_convert_32f_a_sse4_1(short0, 3, n)>>,
          <<"sse", volk_16i_s32f_convert_32f_a_sse(short0, 3, n)>>,
          <<"generic", volk_16i_s32f_convert_32f_a_generic(short0, 3, n)>>>>
      [] k = "volk_16i_s32f_convert_32f_u" ->
        <<<<"sse4_1", volk_16i_s32f_convert_32f_u_sse4_1(short0, 3, n)>>,
          <<"sse", volk_16i_s32f_convert_32f_u_sse(short0, 3, n)>>,
          <<"generic", volk_16i_s32f_convert_32f_u_generic(short0, 3, n)>>>>
      [] k = "volk_32i_s32f_convert_32f_a" ->
        <<<<"sse2", volk_32i_s32f_convert_32f_a_sse2(short0, 3, n)>>,
          <<"generic", volk_32i_s32f_convert_32f_a_generic(short0, 3, n)>>>>
      [] k = "volk_32i_s32f_convert_32f_u" ->
        <<<<"sse2", volk_32i_s32f_convert_32f_u_sse2(short0, 3, n)>>,
          <<"generic", volk_32i_s32f_convert_32f_u_generic(short0, 3, n)>>>>
      [] k = "volk_8i_s32f_convert_32f_a" ->
        <<<<"sse4_1", volk_8i_s32f_convert_32f_a_sse4_1(byte0, 3, n)>>,
          <<"generic", volk_8i_s32f_convert_32f_a_generic(byte0, 3, n)>>>>
      [] k = "volk_8i_s32f_convert_32f_u" ->
        <<<<"sse4_1", volk_8i_s32f_convert_32f_u_sse4_1(byte0, 3, n)>>,
          <<"generic", volk_8i_s32f_convert_32f_u_generic(byte0, 3, n)>>>>
      [] k = "volk_8i_convert_16i_a" ->
        <<<<"sse4_1", volk_8i_convert_16i_a_sse4_1(byte0, n)>>,
          <<"generic", volk_8i_convert_16i_a_generic(byte0, n)>>>>
      [] k = "volk_8i_convert_16i_u" ->
        <<<<"sse4_1", volk_8i_convert_16i_u_sse4_1(byte0, n)>>,
          <<"generic", volk_8i_convert_16i_u_generic(byte0, n)>>>>
      [] k = "volk_16i_convert_8i_a" ->
        <<<<"sse2", volk_16i_convert_8i_a_sse2(short0, n)>>,
          <<"generic", volk_16i_convert_8i_a_generic(short0, n)>>>>
      [] k = "volk_16i_convert_8i_u" ->
        <<<<"sse2", volk_16i_convert_8i_u_sse2(short0, n)>>,
          <<"generic", volk_16i_convert_8i_u_generic(short0, n)>>>>
      [] k = "volk_16ic_deinterleave_16i_x2_a" ->
        <<<<"ssse3", volk_16ic_deinterleave_16i_x2_a_ssse3(short0, n)>>,
          <<"sse2", volk_16ic_deinterleave_16i_x2_a_sse2(short0, n)>>,
          <<"generic", volk_16ic_deinterleave_16i_x2_a_generic(short0, n)>>>>
      [] k = "volk_16ic_deinterleave_real_16i_a" ->
        <<<<"ssse3", volk_16ic_deinterleave_real_16i_a_ssse3(short0, n)>>,
          <<"sse2", volk_16ic_deinterleave_real_16i_a_sse2(short0, n)>>,
          <<"generic", volk_16ic_deinterleave_real_16i_a_generic(short0, n)>>>>
      [] k = "volk_16ic_deinterleave_real_8i_a" ->
        <<<<"ssse3", volk_16ic_deinterleave_real_8i_a_ssse3(short0, n)>>,
          <<"generic", volk_16ic_deinterleave_real_8i_a_generic(short0, n)>>>>
      [] k = "volk_16ic_s32f_deinterleave_32f_x2_a" ->
        <<<<"sse", volk_16ic_s32f_deinterleave_32f_x2_a_sse(short0, 3, n)>>,
          <<"generic", volk_16ic_s32f_deinterleave_32f_x2_a_generic(short0, 3, n)>>>>
      [] k = "volk_16ic_s32f_deinterleave_real_32f_a" ->
        <<<<"sse4_1", volk_16ic_s32f_deinterleave_real_32f_a_sse4_1(short0, 3, n)>>,
          <<"sse", volk_16ic_s32f_deinterleave_real_32f_a_sse(short0, 3, n)>>,
          <<"generic", volk_16ic_s32f_deinterleave_real_32f_a_generic(short0, 3, n)>>>>
      [] k = "volk_8ic_deinterleave_16i_x2_a" ->
        <<<<"sse4_1", volk_8ic_deinterleave_16i_x2_a_sse4_1(byte0, n)>>,
          <<"generic", volk_8ic_deinterleave_16i_x2_a_generic(byte0, n)>>>>
      [] k = "volk_8ic_deinterleave_real_16i_a" ->
        <<<<"sse4_1", volk_8ic_deinterleave_real_16i_a_sse4_1(byte0, n)>>,
          <<"generic", volk_8ic_deinterleave_real_16i_a_generic(byte0, n)>>>>
      [] k = "volk_8ic_deinterleave_real_8i_a" ->
        <<<<"ssse3", volk_8ic_deinterleave_real_8i_a_ssse3(byte0, n)>>,
          <<"generic", volk_8ic_deinterleave_real_8i_a_generic(byte0, n)>>>>
      [] k = "volk_8ic_s32f_deinterleave_32f_x2_a" ->
        <<<<"sse4_1", volk_8ic_s32f_deinterleave_32f_x2_a_sse4_1(byte0, 3, n)>>,
          <<"sse", volk_8ic_s32f_deinterleave_32f_x2_a_sse(byte0, 3, n)>>,
          <<"generic", volk_8ic_s32f_deinterleave_32f_x2_a_generic(byte0, 3, n)>>>>
      [] k = "volk_8ic_s32f_deinterleave_real_32f_a" ->
        <<<<"sse4_1", volk_8ic_s32f_deinterleave_real_32f_a_sse4_1(byte0, 3, n)>>,
          <<"sse", volk_8ic_s32f_deinterleave_real_32f_a_sse(byte0, 3, n)>>,
          <<"generic", volk_8ic_s32f_deinterleave_real_32f_a_generic(byte0, 3, n)>>>>
      [] k = "volk_8ic_x2_multiply_conjugate_16ic_a" ->
        <<<<"sse4_1", volk_8ic_x2_multiply_conjugate_16ic_a_sse4_1(byte0, byte1, n)>>,
          <<"generic", volk_8ic_x2_multiply_conjugate_16ic_a_generic(byte0, byte1, n)>>>>
      [] k = "volk_8ic_x2_s32f_multiply_conjugate_32fc_a" ->
        <<<<"sse4_1", volk_8ic_x2_s32f_multiply_conjugate_32fc_a_sse4_1(byte0, byte1, 3, n)>>,
          <<"generic", volk_8ic_x2_s32f_multiply_conjugate_32fc_a_generic(byte0, byte1, 3, n)>>>>
      [] k = "volk_16ic_magnitude_16i_a" ->
        <<<<"sse3", volk_16ic_magnitude_16i_a_sse3(a, n)>>,
          <<"sse", volk_16ic_magnitude_16i_a_sse(a, n)>>,
          <<"generic", volk_16ic_magnitude_16i_a_generic(a, n)>>>>
      [] k = "volk_16ic_s32f_magnitude_32f_a" ->
        <<<<"sse3", volk_16ic_s32f_magnitude_32f_a_sse3(a, 3, n)>>,
          <<"sse", volk_16ic_s32f_magnitude_32f_a_sse(a, 3, n)>>,
          <<"generic", volk_16ic_s32f_magnitude_32f_a_generic(a, 3, n)>>>>
      [] k = "volk_16i_max_star_16i_a" ->
        <<<<"ssse3", volk_16i_max_star_16i_a_ssse3(Positive(d), n)>>,
          <<"generic", volk_16i_max_star_16i_a_generic(Positive(d), n)>>>>
      [] k = "volk_16i_max_star_horizontal_16i_a" ->
        <<<<"ssse3", volk_16i_max_star_horizontal_16i_a_ssse3(short0, n)>>,
          <<"generic", volk_16i_max_star_horizontal_16i_a_generic(short0, n)>>>>
      [] k = "volk_16i_x4_quad_max_star_16i_a" ->
        <<<<"sse2", volk_16i_x4_quad_max_star_16i_a_sse2(short0, short1, short2, short3, n)>>,
          <<"generic", volk_16i_x4_quad_max_star_16i_a_generic(short0, short1, short2, short3, n)>>>>
      [] k = "volk_16i_x5_add_quad_16i_x4_a" ->
        <<<<"sse2", volk_16i_x5_add_quad_16i_x4_a_sse2(short0, <<short1, short2, short3, short4>>, n)>>,
          <<"generic", volk_16i_x5_add_quad_16i_x4_a_generic(short0, <<short1, short2, short3, short4>>, n)>>>>
      [] k = "volk_16i_permute_and_scalar_add_a" ->
        <<<<"sse2", volk_16i_permute_and_scalar_add_a_sse2(short0, Permutation(n), <<Masks(1), Masks(2), Masks(3), Masks(4)>>, <<5, -6, 77, -1000>>, n)>>,
          <<"generic", volk_16i_permute_and_scalar_add_a_generic(short0, Permutation(n), <<Masks(1), Masks(2), Masks(3), Masks(4)>>, <<5, -6, 77, -1000>>, n)>>>>
      [] k = "volk_16i_branch_4_state_8_a" ->
        <<<<"ssse3", volk_16i_branch_4_state_8_a_ssse3(short0, Permuters, Masks(2), Masks(3), <<5, -6, 77, -1000>>)>>,
          <<"generic", volk_16i_branch_4_state_8_a_generic(short0, Permuters, Masks(2), Masks(3), <<5, -6, 77, -1000>>)>>>>
      [] k = "volk_32i_x2_and_32i_a" ->
        <<<<"sse", volk_32i_x2_and_32i_a_sse(short0, short1, n)>>,
          <<"generic", volk_32i_x2_and_32i_a_generic(short0, short1, n)>>>>
      [] k = "volk_32i_x2_or_32i_a" ->
        <<<<"sse", volk_32i_x2_or_32i_a_sse(Unsigned(d), Unsigned(d + 1), n)>>,
          <<"generic", volk_32i_x2_or_32i_a_generic(Unsigned(d), Unsigned(d + 1), n)>>>>
      [] k = "volk_32u_byteswap_a" ->
        <<<<"sse2", volk_32u_byteswap_a_sse2(word32, n)>>,
          <<"generic", volk_32u_byteswap_a_generic(word32, n)>>>>
      [] k = "volk_64u_byteswap_a" ->
        <<<<"sse2", volk_64u_byteswap_a_sse2(word32, n)>>,
          <<"generic", volk_64u_byteswap_a_generic(word32, n)>>>>
      [] k = "volk_16u_byteswap_a" ->
        <<<<"sse2", volk_16u_byteswap_a_sse2(word16, n)>>,
          <<"generic", volk_16u_byteswap_a_generic(word16, n)>>>>
      [] k = "volk_32u_popcnt_a" ->
        <<<<"generic", volk_32u_popcnt_a_generic(Count(d, n))>>,
          <<"sse4_2", volk_32u_popcnt_a_sse4_2(Count(d, n))>>>>
      [] k = "volk_64u_popcnt_a" ->
        <<<<"generic", volk_64u_popcnt_a_generic(Count(d, n), Count(d + 1, n))>>,
          <<"sse4_2", volk_64u_popcnt_a_sse4_2(Count(d, n), Count(d + 1, n))>>>>

-----------------------------------------------------------------------------
(* The kernels on complex floats. *)
ComplexKernels ==
    {"volk_32f_x2_interleave_32fc_a", "volk_32fc_deinterleave_32f_x2_a",
     "volk_32fc_deinterleave_64f_x2_a", "volk_32fc_deinterleave_imag_32f_a",
     "volk_32fc_deinterleave_real_32f_a", "volk_32fc_deinterleave_real_64f_a",
     "volk_32fc_s32f_deinterleave_real_16i_a", "volk_32fc_magnitude_32f_a",
     "volk_32fc_magnitude_32f_u", "volk_32fc_magnitude_squared_32f_a",
     "volk_32fc_magnitude_squared_32f_u", "volk_32fc_s32f_magnitude_16i_a",
     "volk_32fc_s32f_atan2_32f_a", "volk_32fc_index_max_16u_a", "volk_32fc_32f_multiply_32fc_a",
     "volk_32fc_conjugate_32fc_a", "volk_32fc_conjugate_32fc_u", "volk_32fc_s32fc_multiply_32fc_a",
     "volk_32fc_s32fc_multiply_32fc_u", "volk_32fc_x2_multiply_32fc_a",
     "volk_32fc_x2_multiply_32fc_u", "volk_32fc_x2_multiply_conjugate_32fc_a",
     "volk_32fc_x2_multiply_conjugate_32fc_u", "volk_32fc_x2_dot_prod_32fc_a",
     "volk_32fc_x2_conjugate_dot_prod_32fc_a", "volk_32fc_x2_dot_prod_32fc_u",
     "volk_32fc_x2_conjugate_dot_prod_32fc_u", "volk_32fc_x2_s32f_square_dist_scalar_mult_32f_a",
     "volk_32fc_x2_square_dist_32f_a"}
ComplexArchs(k, n, d) ==
    LET a == Small(d)
        b == Small(d + 1)
    IN
    CASE k = "volk_32f_x2_interleave_32fc_a" ->
        <<<<"sse", volk_32f_x2_interleave_32fc_a_sse(a, b, n)>>,
          <<"generic", volk_32f_x2_interleave_32fc_a_generic(a, b, n)>>>>
      [] k = "volk_32fc_deinterleave_32f_x2_a" ->
        <<<<"sse", volk_32fc_deinterleave_32f_x2_a_sse(a, n)>>,
          <<"generic", volk_32fc_deinterleave_32f_x2_a_generic(a, n)>>>>
      [] k = "volk_32fc_deinterleave_64f_x2_a" ->
        <<<<"sse2", volk_32fc_deinterleave_64f_x2_a_sse2(a, n)>>,
          <<"generic", volk_32fc_deinterleave_64f_x2_a_generic(a, n)>>>>
      [] k = "volk_32fc_deinterleave_imag_32f_a" ->
        <<<<"sse", volk_32fc_deinterleave_imag_32f_a_sse(a, n)>>,
          <<"generic", volk_32fc_deinterleave_imag_32f_a_generic(a, n)>>>>
      [] k = "volk_32fc_deinterleave_real_32f_a" ->
        <<<<"sse", volk_32fc_deinterleave_real_32f_a_sse(a, n)>>,
          <<"generic", volk_32fc_deinterleave_real_32f_a_generic(a, n)>>>>
      [] k = "volk_32fc_deinterleave_real_64f_a" ->
        <<<<"sse2", volk_32fc_deinterleave_real_64f_a_sse2(a, n)>>,
          <<"generic", volk_32fc_deinterleave_real_64f_a_generic(a, n)>>>>
      [] k = "volk_32fc_s32f_deinterleave_real_16i_a" ->
        <<<<"sse", volk_32fc_s32f_deinterleave_real_16i_a_sse(a, 3, n)>>,
          <<"generic", volk_32fc_s32f_deinterleave_real_16i_a_generic(a, 3, n)>>>>
      [] k = "volk_32fc_magnitude_32f_a" ->
        <<<<"sse3", volk_32fc_magnitude_32f_a_sse3(a, n)>>,
          <<"sse", volk_32fc_magnitude_32f_a_sse(a, n)>>,
          <<"generic", volk_32fc_magnitude_32f_a_generic(a, n)>>>>
      [] k = "volk_32fc_magnitude_32f_u" ->
        <<<<"sse3", volk_32fc_magnitude_32f_u_sse3(a, n)>>,
          <<"sse", volk_32fc_magnitude_32f_u_sse(a, n)>>,
          <<"generic", volk_32fc_magnitude_32f_u_generic(a, n)>>>>
      [] k = "volk_32fc_magnitude_squared_32f_a" ->
        <<<<"sse3", volk_32fc_magnitude_squared_32f_a_sse3(a, n)>>,
          <<"sse", volk_32fc_magnitude_squared_32f_a_sse(a, n)>>,
          <<"generic", volk_32fc_magnitude_squared_32f_a_generic(a, n)>>>>
      [] k = "volk_32fc_magnitude_squared_32f_u" ->
        <<<<"sse3", volk_32fc_magnitude_squared_32f_u_sse3(a, n)>>,
          <<"sse", volk_32fc_magnitude_squared_32f_u_sse(a, n)>>,
          <<"generic", volk_32fc_magnitude_squared_32f_u_generic(a, n)>>>>
      [] k = "volk_32fc_s32f_magnitude_16i_a" ->
        <<<<"sse3", volk_32fc_s32f_magnitude_16i_a_sse3(a, 3, n)>>,
          <<"sse", volk_32fc_s32f_magnitude_16i_a_sse(a, 3, n)>>,
          <<"generic", volk_32fc_s32f_magnitude_16i_a_generic(a, 3, n)>>>>
      [] k = "volk_32fc_s32f_atan2_32f_a" ->
        <<<<"sse4_1", volk_32fc_s32f_atan2_32f_a_sse4_1(a, 3, n)>>,
          <<"sse", volk_32fc_s32f_atan2_32f_a_sse(a, 3, n)>>,
          <<"generic", volk_32fc_s32f_atan2_32f_a_generic(a, 3, n)>>>>
      [] k = "volk_32fc_index_max_16u_a" ->
        <<<<"sse3", volk_32fc_index_max_16u_a_sse3(a, n)>>,
          <<"generic", volk_32fc_index_max_16u_a_generic(a, n)>>>>
      [] k = "volk_32fc_32f_multiply_32fc_a" ->
        <<<<"sse", volk_32fc_32f_multiply_32fc_a_sse(a, b, n)>>,
          <<"generic", volk_32fc_32f_multiply_32fc_a_generic(a, b, n)>>>>
      [] k = "volk_32fc_conjugate_32fc_a" ->
        <<<<"sse3", volk_32fc_conjugate_32fc_a_sse3(a, n)>>,
          <<"generic", volk_32fc_conjugate_32fc_a_generic(a, n)>>>>
      [] k = "volk_32fc_conjugate_32fc_u" ->
        <<<<"sse3", volk_32fc_conjugate_32fc_u_sse3(a, n)>>,
          <<"generic", volk_32fc_conjugate_32fc_u_generic(a, n)>>>>
      [] k = "volk_32fc_s32fc_multiply_32fc_a" ->
        <<<<"sse3", volk_32fc_s32fc_multiply_32fc_a_sse3(a, <<3, -2>>, n)>>,
          <<"generic", volk_32fc_s32fc_multiply_32fc_a_generic(a, <<3, -2>>, n)>>>>
      [] k = "volk_32fc_s32fc_multiply_32fc_u" ->
        <<<<"sse3", volk_32fc_s32fc_multiply_32fc_u_sse3(a, <<3, -2>>, n)>>,
          <<"generic", volk_32fc_s32fc_multiply_32fc_u_generic(a, <<3, -2>>, n)>>>>
      [] k = "volk_32fc_x2_multiply_32fc_a" ->
        <<<<"sse3", volk_32fc_x2_multiply_32fc_a_sse3(a, b, n)>>,
          <<"generic", volk_32fc_x2_multiply_32fc_a_generic(a, b, n)>>>>
      [] k = "volk_32fc_x2_multiply_32fc_u" ->
        <<<<"sse3", volk_32fc_x2_multiply_32fc_u_sse3(a, b, n)>>,
          <<"generic", volk_32fc_x2_multiply_32fc_u_generic(a, b, n)>>>>
      [] k = "volk_32fc_x2_multiply_conjugate_32fc_a" ->
        <<<<"sse3", volk_32fc_x2_multiply_conjugate_32fc_a_sse3(a, b, n)>>,
          <<"generic", volk_32fc_x2_multiply_conjugate_32fc_a_generic(a, b, n)>>>>
      [] k = "volk_32fc_x2_multiply_conjugate_32fc_u" ->
        <<<<"sse3", volk_32fc_x2_multiply_conjugate_32fc_u_sse3(a, b, n)>>,
          <<"generic", volk_32fc_x2_multiply_conjugate_32fc_u_generic(a, b, n)>>>>
      [] k = "volk_32fc_x2_dot_prod_32fc_a" ->
        <<<<"generic", volk_32fc_x2_dot_prod_32fc_a_generic(a, b, n)>>,
          <<"sse_64", volk_32fc_x2_dot_prod_32fc_a_sse_64(a, b, n)>>,
          <<"sse_32", volk_32fc_x2_dot_prod_32fc_a_sse_32(a, b, n)>>,
          <<"sse3", volk_32fc_x2_dot_prod_32fc_a_sse3(a, b, n)>>,
          <<"sse4_1", volk_32fc_x2_dot_prod_32fc_a_sse4_1(a, b, n)>>>>
      [] k = "volk_32fc_x2_conjugate_dot_prod_32fc_a" ->
        <<<<"generic", volk_32fc_x2_conjugate_dot_prod_32fc_a_generic(a, b, n)>>,
          <<"sse", volk_32fc_x2_conjugate_dot_prod_32fc_a_sse(a, b, n)>>,
          <<"sse_32", volk_32fc_x2_conjugate_dot_prod_32fc_a_sse_32(a, b, n)>>>>
      [] k = "volk_32fc_x2_dot_prod_32fc_u" ->
        <<<<"generic", volk_32fc_x2_dot_prod_32fc_u_generic(a, b, n)>>,
          <<"sse3", volk_32fc_x2_dot_prod_32fc_u_sse3(a, b, n)>>>>
      [] k = "volk_32fc_x2_conjugate_dot_prod_32fc_u" ->
        <<<<"generic", volk_32fc_x2_conjugate_dot_prod_32fc_u_generic(a, b, n)>>,
          <<"sse3", volk_32fc_x2_conjugate_dot_prod_32fc_u_sse3(a, b, n)>>>>
      [] k = "volk_32fc_x2_s32f_square_dist_scalar_mult_32f_a" ->
        <<<<"sse3", volk_32fc_x2_s32f_square_dist_scalar_mult_32f_a_sse3(<<4, -7>>, a, 3, n)>>,
          <<"generic", volk_32fc_x2_s32f_square_dist_scalar_mult_32f_a_generic(<<4, -7>>, a, 3, n)>>>>
      [] k = "volk_32fc_x2_square_dist_32f_a" ->
        <<<<"sse3", volk_32fc_x2_square_dist_32f_a_sse3(<<4, -7>>, a, n)>>,
          <<"generic", volk_32fc_x2_square_dist_32f_a_generic(<<4, -7>>, a, n)>>>>

Kernels == FloatKernels \union FixedKernels \union ComplexKernels

(* The variants of kernel k with their results: pairs of a name and what   *)
(* the variant of that name computes.                                      *)
archs(k, n, d) ==
    CASE k \in FloatKernels   -> FloatArchs(k, n, d)
      [] k \in FixedKernels   -> FixedArchs(k, n, d)
      [] k \in ComplexKernels -> ComplexArchs(k, n, d)
=============================================================================
