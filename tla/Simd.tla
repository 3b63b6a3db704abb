-------------------------------- MODULE Simd --------------------------------
(***************************************************************************)
(* The vector registers and the x86 intrinsics the VOLK kernels are        *)
(* written with.  An array in memory is a function on 0 .. size - 1, a     *)
(* register is a sequence of lanes (lane 1 is the low one), and a float is *)
(* an integer: sums and products are exact, so two orders of the same sum  *)
(* are equal, and what the kernels do with positions, masks, shuffles,     *)
(* saturation and tails is kept.  The intrinsics keep their names without  *)
(* the _mm_ prefix; the 256-bit ones are the same operators on 8 lanes.    *)
(***************************************************************************)
EXTENDS Integers, Sequences

LOCAL INSTANCE Bitwise

-----------------------------------------------------------------------------
(* Loops.                                                                  *)

(* The lanes of f as an evaluated sequence. *)
Reg(f) == <<>> \o f

(* What the iterations lo .. hi - 1 of a loop append to its output. *)
Blocks(lo, hi, block(_)) ==
    LET out[q \in lo..hi] == IF q = lo THEN <<>> ELSE out[q - 1] \o block(q - 1)
    IN  IF lo < hi THEN out[hi] ELSE <<>>

(* The shape of almost every kernel: num_points / width blocks, then the   *)
(* points left over one by one.                                            *)
Loop(n, width, block(_), point(_)) ==
    Blocks(0, n \div width, block) \o Blocks((n \div width) * width, n, point)

(* The value an accumulator has after the iterations lo .. hi - 1. *)
Accumulate(lo, hi, init, step(_, _)) ==
    LET acc[q \in lo..hi] == IF q = lo THEN init ELSE step(acc[q - 1], q - 1)
    IN  IF lo < hi THEN acc[hi] ELSE init

-----------------------------------------------------------------------------
(* Numbers.                                                                *)

(* Two's complement wrap of x to w bits. *)
Wrap(x, w) == ((x + 2 ^ (w - 1)) % 2 ^ w) - 2 ^ (w - 1)

(* Clipping to an interval. *)
Clip(x, lo, hi) == IF x > hi THEN hi ELSE IF x < lo THEN lo ELSE x

(* Saturation to a signed w-bit integer. *)
Sat(x, w) == Clip(x, -(2 ^ (w - 1)), 2 ^ (w - 1) - 1)

Larger(x, y)  == IF x > y THEN x ELSE y
Smaller(x, y) == IF x < y THEN x ELSE y

(* A float that is about to become an integer is counted in quarters, so   *)
(* that rounding has something to round: halves, and both sides of them.   *)
Quarter == 4

(* rintf, cvtps_epi32: to the nearest integer, ties to even. *)
rintf(x) ==
    LET down == x \div Quarter
        rest == x % Quarter
    IN  IF rest < 2 THEN down ELSE IF rest > 2 THEN down + 1 ELSE down + (down % 2)

(* A C cast from float to an integer type drops the fraction. *)
Trunc(x) == IF x >= 0 THEN x \div Quarter ELSE -((-x) \div Quarter)

(* The square root on integers: the largest integer not above the root. *)
sqrtf(x) == CHOOSE r \in 0..(IF x < 46341 THEN x ELSE 46340) :
                r * r <= x /\ (r = 46340 \/ (r + 1) * (r + 1) > x)

(* The quotient of two floats as the pair it is a function of. *)
Quotient(x, y) == <<x, y>>

-----------------------------------------------------------------------------
(* Loads and constants.                                                    *)

load(a, i, w) == Reg([l \in 1..w |-> a[i + l - 1]])
set1(x, w)    == Reg([l \in 1..w |-> x])
set1_ps(x)    == set1(x, 4)
setzero_ps    == set1(0, 4)

-----------------------------------------------------------------------------
(* Lane by lane.                                                           *)

add_ps(x, y) == Reg([l \in DOMAIN x |-> x[l] + y[l]])
sub_ps(x, y) == Reg([l \in DOMAIN x |-> x[l] - y[l]])
mul_ps(x, y) == Reg([l \in DOMAIN x |-> x[l] * y[l]])
div_ps(x, y) == Reg([l \in DOMAIN x |-> Quotient(x[l], y[l])])
max_ps(x, y) == Reg([l \in DOMAIN x |-> Larger(x[l], y[l])])
min_ps(x, y) == Reg([l \in DOMAIN x |-> Smaller(x[l], y[l])])
sqrt_ps(x)   == Reg([l \in DOMAIN x |-> sqrtf(x[l])])

(* Comparisons give a mask: TRUE is a lane of ones, FALSE a lane of zeros. *)
cmpgt(x, y) == Reg([l \in DOMAIN x |-> x[l] > y[l]])
cmplt(x, y) == Reg([l \in DOMAIN x |-> x[l] < y[l]])
cmple(x, y) == Reg([l \in DOMAIN x |-> x[l] <= y[l]])
cmpeq(x, y) == Reg([l \in DOMAIN x |-> x[l] = y[l]])

(* and, andnot of a mask and a value; or of two values of which one is     *)
(* zero in every lane; blendv takes y where the mask is set.               *)
and_mask(m, x)    == Reg([l \in DOMAIN x |-> IF m[l] THEN x[l] ELSE 0])
andnot_mask(m, x) == Reg([l \in DOMAIN x |-> IF m[l] THEN 0 ELSE x[l]])
or_ps(x, y)       == Reg([l \in DOMAIN x |-> IF x[l] = 0 THEN y[l] ELSE x[l]])
blendv_ps(x, y, m) == Reg([l \in DOMAIN x |-> IF m[l] THEN y[l] ELSE x[l]])

(* Integer lanes of w bits wrap. *)
add_epi(x, y, w) == Reg([l \in DOMAIN x |-> Wrap(x[l] + y[l], w)])
sub_epi(x, y, w) == Reg([l \in DOMAIN x |-> Wrap(x[l] - y[l], w)])

(* Bitwise and, or of two w-bit integers, signed or not. *)
AndBits(x, y, w) == Wrap((x % 2 ^ w) & (y % 2 ^ w), w)
AndMask(x, y)    == x & y
OrBits(x, y)     == x | y
and_si128(x, y, w) == Reg([l \in DOMAIN x |-> AndBits(x[l], y[l], w)])
or_si128(x, y)     == Reg([l \in DOMAIN x |-> OrBits(x[l], y[l])])

-----------------------------------------------------------------------------
(* Across lanes.                                                           *)

(* The immediate of a shuffle holds four two-bit lane numbers, lowest      *)
(* first; shuffle_ps takes the low two lanes from x and the high two       *)
(* from y.                                                                 *)
Pick(imm, l) == ((imm \div 4 ^ (l - 1)) % 4) + 1
shuffle_ps(x, y, imm) ==
    <<x[Pick(imm, 1)], x[Pick(imm, 2)], y[Pick(imm, 3)], y[Pick(imm, 4)]>>
shuffle_epi32(x, imm) == shuffle_ps(x, x, imm)

unpacklo_ps(x, y) == <<x[1], y[1], x[2], y[2]>>
unpackhi_ps(x, y) == <<x[3], y[3], x[4], y[4]>>
movelh_ps(x, y)   == <<x[1], x[2], y[1], y[2]>>
movehl_ps(x, y)   == <<y[3], y[4], x[3], x[4]>>
moveldup_ps(x)    == <<x[1], x[1], x[3], x[3]>>
movehdup_ps(x)    == <<x[2], x[2], x[4], x[4]>>
hadd_ps(x, y)     == <<x[1] + x[2], x[3] + x[4], y[1] + y[2], y[3] + y[4]>>
hadd_self(x)      == hadd_ps(x, x)
addsub_ps(x, y)   == <<x[1] - y[1], x[2] + y[2], x[3] - y[3], x[4] + y[4]>>

(* dp_ps with the immediate 0xF0 + 2 ^ (l - 1): the dot product of all     *)
(* four lanes, put in lane l.                                              *)
dp_ps(x, y, l) ==
    [set1(0, 4) EXCEPT ![l] = x[1]*y[1] + x[2]*y[2] + x[3]*y[3] + x[4]*y[4]]

(* The sum of the lanes of a register that was stored in a buffer. *)
SumLanes(x) == Accumulate(0, Len(x), 0, LAMBDA s, l : s + x[l + 1])

-----------------------------------------------------------------------------
(* Conversions.                                                            *)

cvtps_epi32(x)    == Reg([l \in DOMAIN x |-> rintf(x[l])])
packs(x, y, w)    == Reg([l \in 1..(Len(x) + Len(y)) |->
                           Sat(IF l <= Len(x) THEN x[l] ELSE y[l - Len(x)], w)])
srai(x, k)        == Reg([l \in DOMAIN x |-> x[l] \div 2 ^ k])

(* The bytes of a register of 16-bit lanes, little endian, and back;       *)
(* shuffle_epi8 gives a zero byte where the mask has its top bit set.      *)
Bytes(x) == Reg([b \in 1..(2 * Len(x)) |->
                  LET u == x[(b + 1) \div 2] % 65536
                  IN  IF b % 2 = 1 THEN u % 256 ELSE u \div 256])
Words(b) == Reg([l \in 1..(Len(b) \div 2) |-> Wrap(b[2*l - 1] + 256 * b[2*l], 16)])
shuffle_epi8(b, m) == Reg([l \in DOMAIN b |-> IF m[l] >= 128 THEN 0 ELSE b[(m[l] % 16) + 1]])
=============================================================================
