------------------------------ MODULE VolkFixed ------------------------------
(***************************************************************************)
(* VOLK kernels on vectors of integers, real and complex, and between      *)
(* floats and integers.  A complex vector is flat: the real part of point  *)
(* i at 2 * i, its imaginary part after it.  A 32-bit word of the byte     *)
(* swapping kernels is the sequence of its four bytes, lowest first.       *)
(***************************************************************************)
EXTENDS Simd

-----------------------------------------------------------------------------
(* Floats to integers.  The input is in quarters, clipped in quarters; the *)
(* vector instructions round to the nearest integer, the casts truncate.   *)

(* The block of w points starting at i, scaled and clipped. *)
Scaled(a, scalar, i, lo, hi) ==
    max_ps(min_ps(mul_ps(load(a, i, 4), set1_ps(scalar)), set1_ps(Quarter * hi)), set1_ps(Quarter * lo))
ScaledPoint(a, scalar, i, lo, hi) == Clip(a[i] * scalar, Quarter * lo, Quarter * hi)

volk_32f_s32f_convert_16i_a_sse2(a, scalar, n) ==
    LET val(i) == cvtps_epi32(Scaled(a, scalar, i, -32768, 32767))
    IN  Loop(n, 8, LAMBDA q : packs(val(8 * q), val(8 * q + 4), 16),
             LAMBDA i : <<rintf(ScaledPoint(a, scalar, i, -32768, 32767))>>)
volk_32f_s32f_convert_16i_a_sse(a, scalar, n) ==
    LET block(q) == LET v == Scaled(a, scalar, 4 * q, -32768, 32767)
                    IN  <<rintf(v[1]), rintf(v[2]), rintf(v[3]), rintf(v[4])>>
    IN  Loop(n, 4, block, LAMBDA i : <<rintf(ScaledPoint(a, scalar, i, -32768, 32767))>>)
volk_32f_s32f_convert_16i_a_generic(a, scalar, n) ==
    Blocks(0, n, LAMBDA i : <<rintf(ScaledPoint(a, scalar, i, -32768, 32767))>>)
volk_32f_s32f_convert_16i_u_sse2(a, scalar, n)    == volk_32f_s32f_convert_16i_a_sse2(a, scalar, n)
volk_32f_s32f_convert_16i_u_sse(a, scalar, n)     == volk_32f_s32f_convert_16i_a_sse(a, scalar, n)
volk_32f_s32f_convert_16i_u_generic(a, scalar, n) == volk_32f_s32f_convert_16i_a_generic(a, scalar, n)

(* The limits 2147483647 and -2147483647 are floats, that is 2 ^ 31 and    *)
(* -(2 ^ 31), and a float of 2 ^ 31 converts to the integer -(2 ^ 31).     *)
(* Half32 stands for 2 ^ 31; floats of that size have no fraction.         *)
Half32 == 1024
ToInt32(r) == IF r = Half32 THEN -Half32 ELSE r
volk_32f_s32f_convert_32i_a_avx(a, scalar, n) ==
    LET half(i) == Scaled(a, scalar, i, -Half32, Half32)
        block(q) == LET v == cvtps_epi32(half(8 * q) \o half(8 * q + 4))
                    IN  Reg([l \in 1..8 |-> ToInt32(v[l])])
    IN  Loop(n, 8, block, LAMBDA i : <<ToInt32(Trunc(ScaledPoint(a, scalar, i, -Half32, Half32)))>>)
volk_32f_s32f_convert_32i_a_sse2(a, scalar, n) ==
    LET block(q) == LET v == cvtps_epi32(Scaled(a, scalar, 4 * q, -Half32, Half32))
                    IN  Reg([l \in 1..4 |-> ToInt32(v[l])])
    IN  Loop(n, 4, block, LAMBDA i : <<ToInt32(Trunc(ScaledPoint(a, scalar, i, -Half32, Half32)))>>)
volk_32f_s32f_convert_32i_a_sse(a, scalar, n) ==
    LET block(q) == LET v == Scaled(a, scalar, 4 * q, -Half32, Half32)
                    IN  Reg([l \in 1..4 |-> ToInt32(Trunc(v[l]))])
    IN  Loop(n, 4, block, LAMBDA i : <<ToInt32(Trunc(ScaledPoint(a, scalar, i, -Half32, Half32)))>>)
volk_32f_s32f_convert_32i_a_generic(a, scalar, n) ==
    Blocks(0, n, LAMBDA i : <<ToInt32(Trunc(ScaledPoint(a, scalar, i, -Half32, Half32)))>>)
volk_32f_s32f_convert_32i_u_sse2(a, scalar, n)    == volk_32f_s32f_convert_32i_a_sse2(a, scalar, n)
volk_32f_s32f_convert_32i_u_sse(a, scalar, n)     == volk_32f_s32f_convert_32i_a_sse(a, scalar, n)
volk_32f_s32f_convert_32i_u_generic(a, scalar, n) == volk_32f_s32f_convert_32i_a_generic(a, scalar, n)

volk_32f_s32f_convert_8i_a_sse2(a, scalar, n) ==
    LET val(i) == cvtps_epi32(Scaled(a, scalar, i, -128, 127))
        block(q) == packs(packs(val(16 * q), val(16 * q + 4), 16),
                          packs(val(16 * q + 8), val(16 * q + 12), 16), 8)
    IN  Loop(n, 16, block, LAMBDA i : <<Trunc(ScaledPoint(a, scalar, i, -128, 127))>>)
volk_32f_s32f_convert_8i_a_sse(a, scalar, n) ==
    LET block(q) == LET v == Scaled(a, scalar, 4 * q, -128, 127)
                    IN  <<Trunc(v[1]), Trunc(v[2]), Trunc(v[3]), Trunc(v[4])>>
    IN  Loop(n, 4, block, LAMBDA i : <<Trunc(ScaledPoint(a, scalar, i, -128, 127))>>)
volk_32f_s32f_convert_8i_a_generic(a, scalar, n) ==
    Blocks(0, n, LAMBDA i : <<Trunc(ScaledPoint(a, scalar, i, -128, 127))>>)
volk_32f_s32f_convert_8i_u_sse2(a, scalar, n)    == volk_32f_s32f_convert_8i_a_sse2(a, scalar, n)
volk_32f_s32f_convert_8i_u_sse(a, scalar, n)     == volk_32f_s32f_convert_8i_a_sse(a, scalar, n)
volk_32f_s32f_convert_8i_u_generic(a, scalar, n) == volk_32f_s32f_convert_8i_a_generic(a, scalar, n)

(* Two vectors interleaved into 16-bit complex points.  Only the SSE2      *)
(* blocks saturate; a cast of a float beyond 16 bits wraps.                *)
Cast16(x) == Wrap(Trunc(x), 16)
volk_32f_x2_s32f_interleave_16ic_a_sse2(a, b, scalar, n) ==
    LET block(q) ==
          LET i == load(a, 4 * q, 4)
              k == load(b, 4 * q, 4)
          IN  packs(cvtps_epi32(mul_ps(unpacklo_ps(i, k), set1_ps(scalar))),
                    cvtps_epi32(mul_ps(unpackhi_ps(i, k), set1_ps(scalar))), 16)
    IN  Loop(n, 4, block, LAMBDA i : <<Cast16(a[i] * scalar), Cast16(b[i] * scalar)>>)
volk_32f_x2_s32f_interleave_16ic_a_sse(a, b, scalar, n) ==
    LET block(q) ==
          LET i == load(a, 4 * q, 4)
              k == load(b, 4 * q, 4)
              c == mul_ps(unpacklo_ps(i, k), set1_ps(scalar)) \o mul_ps(unpackhi_ps(i, k), set1_ps(scalar))
          IN  Reg([l \in 1..8 |-> Cast16(c[l])])
    IN  Loop(n, 4, block, LAMBDA i : <<Cast16(a[i] * scalar), Cast16(b[i] * scalar)>>)
volk_32f_x2_s32f_interleave_16ic_a_generic(a, b, scalar, n) ==
    Blocks(0, n, LAMBDA i : <<Cast16(a[i] * scalar), Cast16(b[i] * scalar)>>)

-----------------------------------------------------------------------------
(* Integers to floats and between integer widths; inv is the reciprocal of *)
(* the scalar, and dividing by the scalar is multiplying by inv.           *)

(* The k lanes of x that follow the first s ones (a byte shift right, of   *)
(* which the low lanes are converted).                                     *)
Part(x, s, k) == SubSeq(x, s + 1, s + k)

volk_16i_s32f_convert_32f_a_sse4_1(a, inv, n) ==
    LET block(q) == LET v == load(a, 8 * q, 8)
                    IN  mul_ps(Part(v, 0, 4), set1_ps(inv)) \o mul_ps(Part(v, 4, 4), set1_ps(inv))
    IN  Loop(n, 8, block, LAMBDA i : <<a[i] * inv>>)
volk_16i_s32f_convert_32f_a_sse(a, inv, n) ==
    Loop(n, 4, LAMBDA q : mul_ps(<<a[4*q], a[4*q + 1], a[4*q + 2], a[4*q + 3]>>, set1_ps(inv)),
         LAMBDA i : <<a[i] * inv>>)
volk_16i_s32f_convert_32f_a_generic(a, inv, n) == Blocks(0, n, LAMBDA i : <<a[i] * inv>>)
volk_16i_s32f_convert_32f_u_sse4_1(a, inv, n)  == volk_16i_s32f_convert_32f_a_sse4_1(a, inv, n)
volk_16i_s32f_convert_32f_u_sse(a, inv, n)     == volk_16i_s32f_convert_32f_a_sse(a, inv, n)
volk_16i_s32f_convert_32f_u_generic(a, inv, n) == volk_16i_s32f_convert_32f_a_generic(a, inv, n)

volk_32i_s32f_convert_32f_a_sse2(a, inv, n) ==
    Loop(n, 4, LAMBDA q : mul_ps(load(a, 4 * q, 4), set1_ps(inv)), LAMBDA i : <<a[i] * inv>>)
volk_32i_s32f_convert_32f_a_generic(a, inv, n) == Blocks(0, n, LAMBDA i : <<a[i] * inv>>)
volk_32i_s32f_convert_32f_u_sse2(a, inv, n)    == volk_32i_s32f_convert_32f_a_sse2(a, inv, n)
volk_32i_s32f_convert_32f_u_generic(a, inv, n) == volk_32i_s32f_convert_32f_a_generic(a, inv, n)

volk_8i_s32f_convert_32f_a_sse4_1(a, inv, n) ==
    LET block(q) == LET v == load(a, 16 * q, 16)
                        f(k) == mul_ps(Part(v, k, 4), set1_ps(inv))
                    IN  f(0) \o f(4) \o f(8) \o f(12)
    IN  Loop(n, 16, block, LAMBDA i : <<a[i] * inv>>)
volk_8i_s32f_convert_32f_a_generic(a, inv, n) == Blocks(0, n, LAMBDA i : <<a[i] * inv>>)
volk_8i_s32f_convert_32f_u_sse4_1(a, inv, n)  == volk_8i_s32f_convert_32f_a_sse4_1(a, inv, n)
volk_8i_s32f_convert_32f_u_generic(a, inv, n) == volk_8i_s32f_convert_32f_a_generic(a, inv, n)

(* The low byte of a 16-bit lane is dropped (16i to 8i) or zero (8i to     *)
(* 16i); slli_epi16 shifts the sign-extended byte left.                    *)
slli_epi16(x, k) == Reg([l \in DOMAIN x |-> Wrap(x[l] * 2 ^ k, 16)])
volk_8i_convert_16i_a_sse4_1(a, n) ==
    LET block(q) == LET v == load(a, 16 * q, 16)
                    IN  slli_epi16(Part(v, 0, 8), 8) \o slli_epi16(Part(v, 8, 8), 8)
    IN  Loop(n, 16, block, LAMBDA i : <<a[i] * 256>>)
volk_8i_convert_16i_a_generic(a, n) == Blocks(0, n, LAMBDA i : <<a[i] * 256>>)
volk_8i_convert_16i_u_sse4_1(a, n)  == volk_8i_convert_16i_a_sse4_1(a, n)
volk_8i_convert_16i_u_generic(a, n) == volk_8i_convert_16i_a_generic(a, n)

volk_16i_convert_8i_a_sse2(a, n) ==
    Loop(n, 16, LAMBDA q : packs(srai(load(a, 16 * q, 8), 8), srai(load(a, 16 * q + 8, 8), 8), 8),
         LAMBDA i : <<a[i] \div 256>>)
volk_16i_convert_8i_a_generic(a, n) == Blocks(0, n, LAMBDA i : <<a[i] \div 256>>)
volk_16i_convert_8i_u_sse2(a, n)    == volk_16i_convert_8i_a_sse2(a, n)
volk_16i_convert_8i_u_generic(a, n) == volk_16i_convert_8i_a_generic(a, n)
-----------------------------------------------------------------------------
(* Deinterleaving.  A mask of shuffle_epi8 gathers the bytes of the real   *)
(* or of the imaginary parts in the low or in the high half.               *)

None8 == <<128, 128, 128, 128, 128, 128, 128, 128>>

(* 16-bit complex points: bytes 0 1, 4 5, ... are real parts. *)
iMove16 == <<0, 1, 4, 5, 8, 9, 12, 13>>
qMove16 == <<2, 3, 6, 7, 10, 11, 14, 15>>
Gather16(x, y, move) ==
    Words(or_si128(shuffle_epi8(Bytes(x), move \o None8), shuffle_epi8(Bytes(y), None8 \o move)))

(* shufflelo_epi16 and shufflehi_epi16 permute one half of eight lanes;    *)
(* shuffle_epi32 moves pairs of lanes.                                     *)
shufflelo_epi16(x, imm) == shuffle_ps(Part(x, 0, 4), Part(x, 0, 4), imm) \o Part(x, 4, 4)
shufflehi_epi16(x, imm) == Part(x, 0, 4) \o shuffle_ps(Part(x, 4, 4), Part(x, 4, 4), imm)
shuffle_epi32_w(x, imm) == Reg([l \in 1..8 |-> x[2 * Pick(imm, (l + 1) \div 2) - (l % 2)]])
MM_SHUFFLE(z, y, x, w)  == 64 * z + 16 * y + 4 * x + w

(* The even lanes of x gathered in the low half, or with last = 2, 0, 3, 1 *)
(* in the high half.                                                       *)
Gather2(x, lanes, last) == shuffle_epi32_w(shufflehi_epi16(shufflelo_epi16(x, lanes), lanes), last)
LowThenHigh(x, y) == Part(x, 0, 4) \o Part(y, 4, 4)
Even16 == MM_SHUFFLE(3, 1, 2, 0)
Odd16  == MM_SHUFFLE(2, 0, 3, 1)

volk_16ic_deinterleave_16i_x2_a_ssse3(c, n) ==
    LET x(q) == load(c, 16 * q, 8)
        y(q) == load(c, 16 * q + 8, 8)
    IN  <<Loop(n, 8, LAMBDA q : Gather16(x(q), y(q), iMove16), LAMBDA i : <<c[2 * i]>>),
          Loop(n, 8, LAMBDA q : Gather16(x(q), y(q), qMove16), LAMBDA i : <<c[2 * i + 1]>>)>>
volk_16ic_deinterleave_16i_x2_a_sse2(c, n) ==
    LET both(q, lanes) == LowThenHigh(Gather2(load(c, 16 * q, 8), lanes, Even16),
                                      Gather2(load(c, 16 * q + 8, 8), lanes, Odd16))
    IN  <<Loop(n, 8, LAMBDA q : both(q, Even16), LAMBDA i : <<c[2 * i]>>),
          Loop(n, 8, LAMBDA q : both(q, Odd16), LAMBDA i : <<c[2 * i + 1]>>)>>
volk_16ic_deinterleave_16i_x2_a_generic(c, n) ==
    <<Blocks(0, n, LAMBDA i : <<c[2 * i]>>), Blocks(0, n, LAMBDA i : <<c[2 * i + 1]>>)>>

volk_16ic_deinterleave_real_16i_a_ssse3(c, n) ==
    Loop(n, 8, LAMBDA q : Gather16(load(c, 16 * q, 8), load(c, 16 * q + 8, 8), iMove16),
         LAMBDA i : <<c[2 * i]>>)
volk_16ic_deinterleave_real_16i_a_sse2(c, n) ==
    Loop(n, 8, LAMBDA q : LowThenHigh(Gather2(load(c, 16 * q, 8), Even16, Even16),
                                      Gather2(load(c, 16 * q + 8, 8), Even16, Odd16)),
         LAMBDA i : <<c[2 * i]>>)
volk_16ic_deinterleave_real_16i_a_generic(c, n) == Blocks(0, n, LAMBDA i : <<c[2 * i]>>)

volk_16ic_deinterleave_real_8i_a_ssse3(c, n) ==
    LET real(q, k) == Gather16(load(c, 32 * q + k, 8), load(c, 32 * q + k + 8, 8), iMove16)
    IN  Loop(n, 16, LAMBDA q : packs(srai(real(q, 0), 8), srai(real(q, 16), 8), 8),
             LAMBDA i : <<c[2 * i] \div 256>>)
volk_16ic_deinterleave_real_8i_a_generic(c, n) == Blocks(0, n, LAMBDA i : <<c[2 * i] \div 256>>)

volk_16ic_s32f_deinterleave_32f_x2_a_sse(c, inv, n) ==
    LET lo(q) == mul_ps(load(c, 8 * q, 4), set1_ps(inv))
        hi(q) == mul_ps(load(c, 8 * q + 4, 4), set1_ps(inv))
    IN  <<Loop(n, 4, LAMBDA q : shuffle_ps(lo(q), hi(q), MM_SHUFFLE(2, 0, 2, 0)), LAMBDA i : <<c[2*i] * inv>>),
          Loop(n, 4, LAMBDA q : shuffle_ps(lo(q), hi(q), MM_SHUFFLE(3, 1, 3, 1)), LAMBDA i : <<c[2*i + 1] * inv>>)>>
volk_16ic_s32f_deinterleave_32f_x2_a_generic(c, inv, n) ==
    <<Blocks(0, n, LAMBDA i : <<c[2*i] * inv>>), Blocks(0, n, LAMBDA i : <<c[2*i + 1] * inv>>)>>

volk_16ic_s32f_deinterleave_real_32f_a_sse4_1(c, inv, n) ==
    LET real(q) == Words(shuffle_epi8(Bytes(load(c, 8 * q, 8)), iMove16 \o None8))
    IN  Loop(n, 4, LAMBDA q : mul_ps(Part(real(q), 0, 4), set1_ps(inv)), LAMBDA i : <<c[2*i] * inv>>)
volk_16ic_s32f_deinterleave_real_32f_a_sse(c, inv, n) ==
    Loop(n, 4, LAMBDA q : mul_ps(<<c[8*q], c[8*q + 2], c[8*q + 4], c[8*q + 6]>>, set1_ps(inv)),
         LAMBDA i : <<c[2*i] * inv>>)
volk_16ic_s32f_deinterleave_real_32f_a_generic(c, inv, n) == Blocks(0, n, LAMBDA i : <<c[2*i] * inv>>)

(* 8-bit complex points: bytes 0, 2, ... are real parts. *)
iMove8 == <<0, 2, 4, 6, 8, 10, 12, 14>>
qMove8 == <<1, 3, 5, 7, 9, 11, 13, 15>>
Gather8(x, move) == Part(shuffle_epi8(x, move \o None8), 0, 8)
volk_8ic_deinterleave_16i_x2_a_sse4_1(c, n) ==
    LET block(q, move) == slli_epi16(Gather8(load(c, 16 * q, 16), move), 8)
    IN  <<Loop(n, 8, LAMBDA q : block(q, iMove8), LAMBDA i : <<c[2*i] * 256>>),
          Loop(n, 8, LAMBDA q : block(q, qMove8), LAMBDA i : <<c[2*i + 1] * 256>>)>>
volk_8ic_deinterleave_16i_x2_a_generic(c, n) ==
    <<Blocks(0, n, LAMBDA i : <<c[2*i] * 256>>), Blocks(0, n, LAMBDA i : <<c[2*i + 1] * 256>>)>>
volk_8ic_deinterleave_real_16i_a_sse4_1(c, n) ==
    Loop(n, 8, LAMBDA q : slli_epi16(Gather8(load(c, 16 * q, 16), iMove8), 7), LAMBDA i : <<c[2*i] * 128>>)
volk_8ic_deinterleave_real_16i_a_generic(c, n) == Blocks(0, n, LAMBDA i : <<c[2*i] * 128>>)
volk_8ic_deinterleave_real_8i_a_ssse3(c, n) ==
    LET block(q) == or_ps(shuffle_epi8(load(c, 32 * q, 16), iMove8 \o None8),
                          shuffle_epi8(load(c, 32 * q + 16, 16), None8 \o iMove8))
    IN  Loop(n, 16, block, LAMBDA i : <<c[2*i]>>)
volk_8ic_deinterleave_real_8i_a_generic(c, n) == Blocks(0, n, LAMBDA i : <<c[2*i]>>)
volk_8ic_s32f_deinterleave_32f_x2_a_sse4_1(c, inv, n) ==
    LET block(q, move) == LET v == shuffle_epi8(load(c, 16 * q, 16), move \o None8)
                          IN  mul_ps(Part(v, 0, 4), set1_ps(inv)) \o mul_ps(Part(v, 4, 4), set1_ps(inv))
    IN  <<Loop(n, 8, LAMBDA q : block(q, iMove8), LAMBDA i : <<c[2*i] * inv>>),
          Loop(n, 8, LAMBDA q : block(q, qMove8), LAMBDA i : <<c[2*i + 1] * inv>>)>>
volk_8ic_s32f_deinterleave_32f_x2_a_sse(c, inv, n) ==
    LET lo(q) == mul_ps(load(c, 8 * q, 4), set1_ps(inv))
        hi(q) == mul_ps(load(c, 8 * q + 4, 4), set1_ps(inv))
    IN  <<Loop(n, 4, LAMBDA q : shuffle_ps(lo(q), hi(q), MM_SHUFFLE(2, 0, 2, 0)), LAMBDA i : <<c[2*i] * inv>>),
          Loop(n, 4, LAMBDA q : shuffle_ps(lo(q), hi(q), MM_SHUFFLE(3, 1, 3, 1)), LAMBDA i : <<c[2*i + 1] * inv>>)>>
volk_8ic_s32f_deinterleave_32f_x2_a_generic(c, inv, n) ==
    <<Blocks(0, n, LAMBDA i : <<c[2*i] * inv>>), Blocks(0, n, LAMBDA i : <<c[2*i + 1] * inv>>)>>
volk_8ic_s32f_deinterleave_real_32f_a_sse4_1(c, inv, n) ==
    LET block(q) == LET v == shuffle_epi8(load(c, 16 * q, 16), iMove8 \o None8)
                    IN  mul_ps(Part(v, 0, 4), set1_ps(inv)) \o mul_ps(Part(v, 4, 4), set1_ps(inv))
    IN  Loop(n, 8, block, LAMBDA i : <<c[2*i] * inv>>)
volk_8ic_s32f_deinterleave_real_32f_a_sse(c, inv, n) ==
    Loop(n, 4, LAMBDA q : mul_ps(<<c[8*q], c[8*q + 2], c[8*q + 4], c[8*q + 6]>>, set1_ps(inv)),
         LAMBDA i : <<c[2*i] * inv>>)
volk_8ic_s32f_deinterleave_real_32f_a_generic(c, inv, n) == Blocks(0, n, LAMBDA i : <<c[2*i] * inv>>)
-----------------------------------------------------------------------------
(* Products and magnitudes of integer complex points.                      *)

(* The parts of a * conj(b) at point i. *)
ConjReal(a, b, i) == a[2*i] * b[2*i] + a[2*i + 1] * b[2*i + 1]
ConjImag(a, b, i) == a[2*i + 1] * b[2*i] - a[2*i] * b[2*i + 1]
madd_epi16(x, y)  == Reg([l \in 1..4 |-> x[2*l - 1] * y[2*l - 1] + x[2*l] * y[2*l]])
sign_epi16(x, s)  == Reg([l \in DOMAIN x |-> x[l] * s[l]])

(* Four products at once: the real parts by multiply-add, the imaginary    *)
(* ones after negating the odd lanes of b and swapping the pairs.          *)
ConjProducts(a, b, q) ==
    LET x == load(a, 8 * q, 8)
        y == load(b, 8 * q, 8)
        realz == madd_epi16(x, y)
        z == sign_epi16(y, <<1, -1, 1, -1, 1, -1, 1, -1>>)
        swap == MM_SHUFFLE(2, 3, 0, 1)
        imagz == madd_epi16(x, shufflehi_epi16(shufflelo_epi16(z, swap), swap))
    IN  <<unpacklo_ps(realz, imagz), unpackhi_ps(realz, imagz)>>
volk_8ic_x2_multiply_conjugate_16ic_a_sse4_1(a, b, n) ==
    LET block(q) == LET z == ConjProducts(a, b, q) IN packs(z[1], z[2], 16)
    IN  Loop(n, 4, block, LAMBDA i : <<Wrap(ConjReal(a, b, i), 16), Wrap(ConjImag(a, b, i), 16)>>)
volk_8ic_x2_multiply_conjugate_16ic_a_generic(a, b, n) ==
    Blocks(0, n, LAMBDA i : <<Wrap(ConjReal(a, b, i), 16), Wrap(ConjImag(a, b, i), 16)>>)
volk_8ic_x2_s32f_multiply_conjugate_32fc_a_sse4_1(a, b, inv, n) ==
    LET block(q) == LET z == ConjProducts(a, b, q)
                    IN  mul_ps(z[1], set1_ps(inv)) \o mul_ps(z[2], set1_ps(inv))
    IN  Loop(n, 4, block, LAMBDA i : <<ConjReal(a, b, i) * inv, ConjImag(a, b, i) * inv>>)
volk_8ic_x2_s32f_multiply_conjugate_32fc_a_generic(a, b, inv, n) ==
    Blocks(0, n, LAMBDA i : <<ConjReal(a, b, i) * inv, ConjImag(a, b, i) * inv>>)

(* Magnitudes; the scaling of the 16-bit one by 2 ^ -15 before and 2 ^ 15  *)
(* after the root is exact and cancels.                                    *)
MagnitudeAt(c, scale, i) ==
    sqrtf((c[2*i] * scale) * (c[2*i] * scale) + (c[2*i + 1] * scale) * (c[2*i + 1] * scale))
MagnitudesHadd(c, scale, q) ==
    LET x == mul_ps(load(c, 8 * q, 4), set1_ps(scale))
        y == mul_ps(load(c, 8 * q + 4, 4), set1_ps(scale))
    IN  sqrt_ps(hadd_ps(mul_ps(x, x), mul_ps(y, y)))
MagnitudesShuffle(c, scale, q) ==
    LET x == mul_ps(load(c, 8 * q, 4), set1_ps(scale))
        y == mul_ps(load(c, 8 * q + 4, 4), set1_ps(scale))
        iValue == shuffle_ps(x, y, MM_SHUFFLE(2, 0, 2, 0))
        qValue == shuffle_ps(x, y, MM_SHUFFLE(3, 1, 3, 1))
    IN  sqrt_ps(add_ps(mul_ps(iValue, iValue), mul_ps(qValue, qValue)))
Casts16(x) == Reg([l \in DOMAIN x |-> Wrap(x[l], 16)])
volk_16ic_magnitude_16i_a_sse3(c, n) ==
    Loop(n, 4, LAMBDA q : Casts16(MagnitudesHadd(c, 1, q)), LAMBDA i : <<Wrap(MagnitudeAt(c, 1, i), 16)>>)
volk_16ic_magnitude_16i_a_sse(c, n) ==
    Loop(n, 4, LAMBDA q : Casts16(MagnitudesShuffle(c, 1, q)), LAMBDA i : <<Wrap(MagnitudeAt(c, 1, i), 16)>>)
volk_16ic_magnitude_16i_a_generic(c, n) == Blocks(0, n, LAMBDA i : <<Wrap(MagnitudeAt(c, 1, i), 16)>>)
volk_16ic_s32f_magnitude_32f_a_sse3(c, inv, n) ==
    Loop(n, 4, LAMBDA q : MagnitudesHadd(c, inv, q), LAMBDA i : <<MagnitudeAt(c, inv, i)>>)
volk_16ic_s32f_magnitude_32f_a_sse(c, inv, n) ==
    LET block(q) ==
          LET x  == load(c, 8 * q, 4)
              y  == load(c, 8 * q + 4, 4)
              re == mul_ps(shuffle_ps(x, y, MM_SHUFFLE(2, 0, 2, 0)), set1_ps(inv))
              im == mul_ps(shuffle_ps(x, y, MM_SHUFFLE(3, 1, 3, 1)), set1_ps(inv))
          IN  sqrt_ps(add_ps(mul_ps(re, re), mul_ps(im, im)))
    IN  Loop(n, 4, block, LAMBDA i : <<MagnitudeAt(c, inv, i)>>)
volk_16ic_s32f_magnitude_32f_a_generic(c, inv, n) == Blocks(0, n, LAMBDA i : <<MagnitudeAt(c, inv, i)>>)

-----------------------------------------------------------------------------
(* Path metrics: 16-bit integers compared by the sign of their difference. *)

(* x where x - y is positive as a 16-bit integer, else y. *)
MaxStar(x, y) == IF Wrap(x - y, 16) > 0 THEN x ELSE y

(* The lanes start from zero, not from the first element. *)
volk_16i_max_star_16i_a_ssse3(a, n) ==
    LET bound == n \div 8
        step(s, q) ==
          LET x == load(a, 8 * q, 8)
          IN  add_epi(and_mask(cmpgt(s, x), s), andnot_mask(cmpgt(s, x), x), 16)
        cands == Accumulate(0, bound, set1(0, 8), step)
        best  == Accumulate(0, 8, a[0], LAMBDA c, l : MaxStar(c, cands[l + 1]))
    IN  Accumulate(0, n % 8, best, LAMBDA c, i : MaxStar(c, a[8 * bound + i]))
volk_16i_max_star_16i_a_generic(a, n) == Accumulate(1, n, a[0], LAMBDA c, i : MaxStar(c, a[i]))

(* The larger of each pair: the sign of the pairs' differences moves the   *)
(* gathering shuffle from the first to the second element of a pair.       *)
hsub_epi16(x, y) == Reg([l \in 1..8 |-> LET p == IF l <= 4 THEN x ELSE y
                                            k == 2 * ((l - 1) % 4) + 1
                                        IN  Wrap(p[k] - p[k + 1], 16)])
SecondOf(diff, first) ==
    [b \in 1..8 |-> iMove16[b] + (IF 0 > diff[first + (b + 1) \div 2] THEN 2 ELSE 0)]
volk_16i_max_star_horizontal_16i_a_ssse3(a, n) ==
    LET bound == n \div 16
        intermediate == (n \div 8) % 2
        done == 16 * bound + 8 * intermediate
        block(q) ==
          LET x == load(a, 16 * q, 8)
              y == load(a, 16 * q + 8, 8)
              diff == hsub_epi16(x, y)
          IN  add_epi(Words(shuffle_epi8(Bytes(x), Reg(SecondOf(diff, 0)) \o None8)),
                      Words(shuffle_epi8(Bytes(y), None8 \o Reg(SecondOf(diff, 4)))), 16)
        half(k) ==
          LET x == load(a, 16 * bound, 8)
              diff == hsub_epi16(x, x)
          IN  Part(Words(shuffle_epi8(Bytes(x), Reg(SecondOf(diff, 0)) \o None8)), 0, 4)
        pair(j) == <<MaxStar(a[2 * j], a[2 * j + 1])>>
    IN  Blocks(0, bound, block) \o Blocks(0, intermediate, half)
          \o Blocks(done \div 2, (n + 1) \div 2, pair)
volk_16i_max_star_horizontal_16i_a_generic(a, n) ==
    Blocks(0, (n + 1) \div 2, LAMBDA j : <<MaxStar(a[2 * j], a[2 * j + 1])>>)

(* The largest of four metrics, point by point. *)
QuadMax(w, x, y, z) == MaxStar(MaxStar(w, x), MaxStar(y, z))
volk_16i_x4_quad_max_star_16i_a_sse2(w, x, y, z, n) ==
    LET pick(s, t) == LET m == cmpgt(sub_epi(t, s, 16), set1(0, 8))
                      IN  add_epi(and_mask(m, t), andnot_mask(m, s), 16)
        block(q) == pick(pick(load(w, 8 * q, 8), load(x, 8 * q, 8)),
                         pick(load(y, 8 * q, 8), load(z, 8 * q, 8)))
    IN  Loop(n, 8, block, LAMBDA i : <<QuadMax(w[i], x[i], y[i], z[i])>>)
volk_16i_x4_quad_max_star_16i_a_generic(w, x, y, z, n) ==
    Blocks(0, n, LAMBDA i : <<QuadMax(w[i], x[i], y[i], z[i])>>)

(* One vector added to each of four others. *)
volk_16i_x5_add_quad_16i_x4_a_sse2(a, others, n) ==
    LET sums(b) == Loop(n, 8, LAMBDA q : add_epi(load(a, 8 * q, 8), load(b, 8 * q, 8), 16),
                        LAMBDA i : <<Wrap(a[i] + b[i], 16)>>)
    IN  <<sums(others[1]), sums(others[2]), sums(others[3]), sums(others[4])>>
volk_16i_x5_add_quad_16i_x4_a_generic(a, others, n) ==
    LET sums(b) == Blocks(0, n, LAMBDA i : <<Wrap(a[i] + b[i], 16)>>)
    IN  <<sums(others[1]), sums(others[2]), sums(others[3]), sums(others[4])>>

(* A permuted vector plus four scalars, each under its control mask. *)
volk_16i_permute_and_scalar_add_a_sse2(a, permute, cntl, scalars, n) ==
    LET under(k, q) == and_si128(load(cntl[k], 8 * q, 8), set1(scalars[k], 8), 16)
        block(q) ==
          LET x == Reg([l \in 1..8 |-> a[permute[8 * q + l - 1]]])
          IN  add_epi(add_epi(add_epi(x, under(1, q), 16),
                              add_epi(under(2, q), under(3, q), 16), 16), under(4, q), 16)
        point(i) == <<Wrap(a[permute[i]] + AndBits(cntl[1][i], scalars[1], 16)
                             + AndBits(cntl[2][i], scalars[2], 16) + AndBits(cntl[3][i], scalars[3], 16)
                             + AndBits(cntl[4][i], scalars[4], 16), 16)>>
    IN  Loop(n, 8, block, point)
volk_16i_permute_and_scalar_add_a_generic(a, permute, cntl, scalars, n) ==
    Blocks(0, n, LAMBDA i :
        <<Wrap(a[permute[i]] + AndBits(cntl[1][i], scalars[1], 16)
                 + AndBits(cntl[2][i], scalars[2], 16) + AndBits(cntl[3][i], scalars[3], 16)
                 + AndBits(cntl[4][i], scalars[4], 16), 16)>>)

(* The branch metrics of four branches of an eight-state trellis; a        *)
(* permuter is a mask of shuffle_epi8 that moves 16-bit lanes.             *)
volk_16i_branch_4_state_8_a_ssse3(a, permuters, cntl2, cntl3, scalars) ==
    LET x == load(a, 0, 8)
        moved(k) == Words(shuffle_epi8(Bytes(x), permuters[k]))
        under(k) == add_epi(and_si128(load(cntl2, 8 * k, 8), set1(scalars[3], 8), 16),
                            and_si128(load(cntl3, 8 * k, 8), set1(scalars[4], 8), 16), 16)
        s0 == set1(scalars[1], 8)
        s1 == set1(scalars[2], 8)
    IN  add_epi(add_epi(add_epi(s0, s1, 16), moved(1), 16), under(0), 16)
          \o add_epi(add_epi(s1, moved(2), 16), under(1), 16)
          \o add_epi(add_epi(s0, moved(3), 16), under(2), 16)
          \o add_epi(under(3), moved(4), 16)
volk_16i_branch_4_state_8_a_generic(a, permuters, cntl2, cntl3, scalars) ==
    LET state(k, j) == a[permuters[k + 1][2 * j + 1] \div 2]
                         + ((k + 1) % 2) * scalars[1]
                         + (1 - (k \div 2)) * scalars[2]
                         + AndBits(cntl2[8 * k + j], scalars[3], 16)
                         + AndBits(cntl3[8 * k + j], scalars[4], 16)
    IN  Blocks(0, 32, LAMBDA i : <<Wrap(state(i \div 8, i % 8), 16)>>)
-----------------------------------------------------------------------------
(* Bits and bytes.                                                         *)

volk_32i_x2_and_32i_a_sse(a, b, n) ==
    Loop(n, 4, LAMBDA q : and_si128(load(a, 4 * q, 4), load(b, 4 * q, 4), 30),
         LAMBDA i : <<AndBits(a[i], b[i], 30)>>)
volk_32i_x2_and_32i_a_generic(a, b, n) == Blocks(0, n, LAMBDA i : <<AndBits(a[i], b[i], 30)>>)
volk_32i_x2_or_32i_a_sse(a, b, n) ==
    Loop(n, 4, LAMBDA q : or_si128(load(a, 4 * q, 4), load(b, 4 * q, 4)),
         LAMBDA i : <<OrBits(a[i], b[i])>>)
volk_32i_x2_or_32i_a_generic(a, b, n) == Blocks(0, n, LAMBDA i : <<OrBits(a[i], b[i])>>)

(* Shifts of a word by k bytes, the mask that keeps byte k, and or. *)
ShiftLeft(w, k)  == Reg([b \in DOMAIN w |-> IF b > k THEN w[b - k] ELSE 0])
ShiftRight(w, k) == Reg([b \in DOMAIN w |-> IF b + k <= Len(w) THEN w[b + k] ELSE 0])
Keep(w, k)       == Reg([b \in DOMAIN w |-> IF b = k THEN w[b] ELSE 0])
OrBytes(v, w)    == Reg([b \in DOMAIN w |-> OrBits(v[b], w[b])])

(* Every byte is shifted to its place; the outer ones need no mask. *)
SwapPoint32(w) ==
    OrBytes(OrBytes(Keep(ShiftRight(w, 3), 1), Keep(ShiftRight(w, 1), 2)),
            OrBytes(Keep(ShiftLeft(w, 1), 3), Keep(ShiftLeft(w, 3), 4)))
SwapLane32(w) ==
    OrBytes(OrBytes(OrBytes(ShiftLeft(w, 3), ShiftRight(w, 3)), Keep(ShiftLeft(w, 1), 3)),
            Keep(ShiftRight(w, 1), 2))
Swap32(x) == Reg([l \in DOMAIN x |-> SwapLane32(x[l])])
volk_32u_byteswap_a_sse2(a, n) ==
    Loop(n, 4, LAMBDA q : Swap32(load(a, 4 * q, 4)), LAMBDA i : <<SwapPoint32(a[i])>>)
volk_32u_byteswap_a_generic(a, n) == Blocks(0, n, LAMBDA i : <<SwapPoint32(a[i])>>)

(* A 64-bit point is two words; they change places as well. *)
volk_64u_byteswap_a_sse2(a, n) ==
    Loop(n, 2, LAMBDA q : shuffle_epi32(Swap32(load(a, 4 * q, 4)), MM_SHUFFLE(2, 3, 0, 1)),
         LAMBDA i : <<SwapPoint32(a[2*i + 1]), SwapPoint32(a[2*i])>>)
volk_64u_byteswap_a_generic(a, n) ==
    Blocks(0, n, LAMBDA i : <<SwapPoint32(a[2*i + 1]), SwapPoint32(a[2*i])>>)

(* A 16-bit point is the sequence of its two bytes. *)
volk_16u_byteswap_a_sse2(a, n) ==
    LET swap(w) == OrBytes(ShiftLeft(w, 1), ShiftRight(w, 1))
    IN  Loop(n, 8, LAMBDA q : LET x == load(a, 8 * q, 8) IN Reg([l \in 1..8 |-> swap(x[l])]),
             LAMBDA i : <<OrBytes(Keep(ShiftRight(a[i], 1), 1), Keep(ShiftLeft(a[i], 1), 2))>>)
volk_16u_byteswap_a_generic(a, n) ==
    Blocks(0, n, LAMBDA i : <<OrBytes(Keep(ShiftRight(a[i], 1), 1), Keep(ShiftLeft(a[i], 1), 2))>>)

(* Counting ones, by adding neighbouring fields of growing width (words    *)
(* below 2 ^ 31), and by the instruction.                                  *)
FieldSums(v, shift, mask) == AndMask(v, mask) + AndMask(v \div shift, mask)
Folded(v, shift)          == v + (v \div shift)
FieldCount(v) ==
    LET nibbles == FieldSums(FieldSums(v, 2, 1431655765), 4, 858993459)
    IN  AndMask(Folded(Folded(AndMask(Folded(nibbles, 16), 252645135), 256), 65536), 63)
popcnt_u32(v) == Accumulate(0, 31, 0, LAMBDA s, k : s + ((v \div 2 ^ k) % 2))
volk_32u_popcnt_a_generic(v) == FieldCount(v)
volk_32u_popcnt_a_sse4_2(v)  == popcnt_u32(v)

(* A 64-bit value is its low and its high word.  The generic variant masks *)
(* with the logical and, which is 1 for every value but zero.              *)
volk_64u_popcnt_a_generic(lo, hi) ==
    LET logical == IF lo = 0 /\ hi = 0 THEN 0 ELSE 1
    IN  FieldCount(logical) + FieldCount(logical \div 2 ^ 30)
volk_64u_popcnt_a_sse4_2(lo, hi)  == popcnt_u32(lo) + popcnt_u32(hi)
=============================================================================
