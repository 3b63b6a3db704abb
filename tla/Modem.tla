------------------------------- MODULE Modem --------------------------------
(***************************************************************************)
(* The mappings between bits and symbols: gen_modulator, gen_hard_demod    *)
(* and the approximate log-likelihoods of gen_soft_demod.  A symbol is a   *)
(* pair of integers: the levels 1/sqrt(10), 3/sqrt(10) ... of the code in  *)
(* units of a QUARTER of the root of its modulation, so that points        *)
(* between the levels, where decisions are taken, can be named too.        *)
(***************************************************************************)
EXTENDS Arrays

LOCAL INSTANCE FiniteSetsExt

Unit == 4
BPSK == 1
QPSK == 2
QAM16 == 4
QAM64 == 6
Modulations == {BPSK, QPSK, QAM16, QAM64}

get_bits_per_symbol(modulation) == IF modulation \in Modulations THEN modulation ELSE 0

\* Bit b of index k of a table of 2^B symbols, the first bit the highest.
IndexBit(k, b, B) == (k \div 2^(B - 1 - b)) % 2
SignOf(bit) == IF bit = 1 THEN -1 ELSE 1

-----------------------------------------------------------------------------
(* gen_modulator: modulator.c                                              *)

set_BPSKtable == [k \in 0 .. 1 |-> <<SignOf(k) * Unit, SignOf(k) * Unit>>]

set_QPSKtable == [k \in 0 .. 3 |-> <<SignOf(IndexBit(k, 0, 2)) * Unit,
                                     SignOf(IndexBit(k, 1, 2)) * Unit>>]

\* Bits 0 and 1 are the signs, bits 2 and 3 choose level 1 or 2.
set_16QAMtable ==
    LET level(bit) == IF bit = 1 THEN 3 * Unit ELSE Unit
    IN  [k \in 0 .. 15 |-> <<SignOf(IndexBit(k, 0, 4)) * level(IndexBit(k, 2, 4)),
                             SignOf(IndexBit(k, 1, 4)) * level(IndexBit(k, 3, 4))>>]

\* Bits 0 and 1 are the signs; bits 2, 4 and 3, 5 choose among four levels.
set_64QAMtable ==
    LET level(hi, lo) == Unit * (CASE hi = 0 /\ lo = 1 -> 1
                                   [] hi = 0 /\ lo = 0 -> 3
                                   [] hi = 1 /\ lo = 0 -> 5
                                   [] OTHER -> 7)
        bit(k, b) == IndexBit(k, b, 6)
    IN  [k \in 0 .. 63 |-> <<SignOf(bit(k, 0)) * level(bit(k, 2), bit(k, 4)),
                             SignOf(bit(k, 1)) * level(bit(k, 3), bit(k, 5))>>]

\* modulate_BPSK, _QPSK, _16QAM, _64QAM: the index of the bits.
modulate_k(bits, from, B) ==
    LET term(b) == bits[from + b] * 2^(B - 1 - b)
    IN  MapThenSumSet(term, 0 .. B - 1)

Table(modulation) == CASE modulation = BPSK -> set_BPSKtable
                       [] modulation = QPSK -> set_QPSKtable
                       [] modulation = QAM16 -> set_16QAMtable
                       [] OTHER -> set_64QAMtable

\* modulate: the whole symbols of the packet; bits left over are not sent.
modulate(bits, modulation) ==
    LET B == get_bits_per_symbol(modulation)
    IN  [s \in 0 .. (Len0(bits) \div B) - 1 |-> Table(modulation)[modulate_k(bits, s * B, B)]]

modulate_BPSK_real(bits) == [i \in 0 .. Len0(bits) - 1 |-> IF bits[i] = 1 THEN 1 ELSE -1]

\* work of gen_modulator.
gen_modulator(bits, modulation, out_real) ==
    IF Len0(bits) = 0 THEN [ret |-> 0, out |-> <<>>]
    ELSE IF modulation \notin Modulations \/ (out_real /\ modulation # BPSK)
         THEN [ret |-> -1, out |-> <<>>]
    ELSE [ret |-> 0, out |-> IF out_real THEN modulate_BPSK_real(bits)
                             ELSE modulate(bits, modulation)]

-----------------------------------------------------------------------------
(* gen_hard_demod: hard_demod_functions.c                                  *)

hard_bpsk_demod(p) ==
    IF p[1] > 0 THEN <<IF p[2] > 0 \/ p[1] > -p[2] THEN 0 ELSE 1>>
    ELSE <<IF p[2] < 0 \/ p[2] < -p[1] THEN 1 ELSE 0>>

hard_qpsk_demod(p) == <<IF p[1] > 0 THEN 0 ELSE 1, IF p[2] > 0 THEN 0 ELSE 1>>

Outside(x, threshold) == x > threshold * Unit \/ x < -threshold * Unit

hard_qam16_demod(p) ==
    <<IF p[1] > 0 THEN 0 ELSE 1, IF p[2] > 0 THEN 0 ELSE 1,
      IF Outside(p[1], 2) THEN 1 ELSE 0, IF Outside(p[2], 2) THEN 1 ELSE 0>>

\* Mutant: the two inner rings of the constellation are taken for one.
hard_qam64_demod_NoInner(p) ==
    LET hi(x) == IF Outside(x, 4) THEN 1 ELSE 0
        lo(x) == IF Outside(x, 6) THEN 1 ELSE 0
    IN  <<IF p[1] > 0 THEN 0 ELSE 1, IF p[2] > 0 THEN 0 ELSE 1,
          hi(p[1]), hi(p[2]), lo(p[1]), lo(p[2])>>

hard_qam64_demod(p) ==
    LET hi(x) == IF Outside(x, 4) THEN 1 ELSE 0
        lo(x) == IF Outside(x, 6) THEN 1 ELSE IF Outside(x, 2) THEN 0 ELSE 1
    IN  <<IF p[1] > 0 THEN 0 ELSE 1, IF p[2] > 0 THEN 0 ELSE 1,
          hi(p[1]), hi(p[2]), lo(p[1]), lo(p[2])>>

hard_demod(p, modulation) == CASE modulation = BPSK -> hard_bpsk_demod(p)
                               [] modulation = QPSK -> hard_qpsk_demod(p)
                               [] modulation = QAM16 -> hard_qam16_demod(p)
                               [] OTHER -> hard_qam64_demod(p)

\* work of gen_hard_demod on a packet of symbols.
gen_hard_demod(in, modulation) ==
    IF Len0(in) = 0 THEN [ret |-> 0, out |-> <<>>]
    ELSE IF modulation \notin Modulations THEN [ret |-> -1, out |-> <<>>]
    ELSE LET B == get_bits_per_symbol(modulation)
         IN  [ret |-> Len0(in) * B,
              out |-> [x \in 0 .. Len0(in) * B - 1 |->
                         hard_demod(in[x \div B], modulation)[(x % B) + 1]]]

-----------------------------------------------------------------------------
(* gen_soft_demod: soft_demod_tables.c and soft_demod_functions.c          *)

\* The demodulator's own copies of the constellations and, for bit b, the
\* sets S[0] and S[1] of the indices of the symbols in which it is 0 and 1:
\* runs of half the size of the ones of the bit before.
soft_set_BPSKtable == [symbols |-> [k \in 0 .. 1 |-> <<Unit - (2 * k * Unit), Unit - (2 * k * Unit)>>],
                       S |-> [v \in 0 .. 1 |-> <<{v}>>]]

soft_set_QPSKtable ==
    [symbols |-> [k \in 0 .. 3 |-> <<IF k < 2 THEN Unit ELSE -Unit,
                                     IF k % 2 = 0 THEN Unit ELSE -Unit>>],
     S |-> [v \in 0 .. 1 |-> <<{2 * v, 2 * v + 1}, {v, v + 2}>>]]

soft_set_16QAMtable ==
    LET amp(k, hi) == IF (k \div hi) % 2 = 1 THEN 3 * Unit ELSE Unit
    IN  [symbols |-> [k \in 0 .. 15 |-> <<IF k < 8 THEN amp(k, 2) ELSE -amp(k, 2),
                                          IF k % 8 < 4 THEN amp(k, 1) ELSE -amp(k, 1)>>],
         S |-> [v \in 0 .. 1 |->
                  <<{i + 8 * v : i \in 0 .. 7},
                    {i + 4 * v + 8 * j : i \in 0 .. 3, j \in 0 .. 1},
                    {i + 2 * v + 4 * j : i \in 0 .. 1, j \in 0 .. 3},
                    {2 * i + v : i \in 0 .. 7}>>]]

soft_set_64QAMtable ==
    LET amp(k, hi, lo) == Unit * <<3, 1, 5, 7>>[2 * ((k \div hi) % 2) + ((k \div lo) % 2) + 1]
    IN  [symbols |-> [k \in 0 .. 63 |->
                        <<IF k < 32 THEN amp(k, 8, 2) ELSE -amp(k, 8, 2),
                          IF k % 32 < 16 THEN amp(k, 4, 1) ELSE -amp(k, 4, 1)>>],
         S |-> [v \in 0 .. 1 |->
                  <<{i + 32 * v : i \in 0 .. 31},
                    {i + 16 * v + 32 * j : i \in 0 .. 15, j \in 0 .. 1},
                    {i + 8 * v + 16 * j : i \in 0 .. 7, j \in 0 .. 3},
                    {i + 4 * v + 8 * j : i \in 0 .. 3, j \in 0 .. 7},
                    {i + 2 * v + 4 * j : i \in 0 .. 1, j \in 0 .. 15},
                    {2 * i + v : i \in 0 .. 31}>>]]

SoftTable(modulation) == CASE modulation = BPSK -> soft_set_BPSKtable
                           [] modulation = QPSK -> soft_set_QPSKtable
                           [] modulation = QAM16 -> soft_set_16QAMtable
                           [] OTHER -> soft_set_64QAMtable

\* llr_approx for one received point, before the division by sigma2 > 0: for
\* each bit how much nearer the nearest symbol with a 1 is than that with a 0.
llr_approx(p, modulation) ==
    LET t == SoftTable(modulation)
        dist(k) == LET i == p[1] - t.symbols[k][1]
                       q == p[2] - t.symbols[k][2]
                   IN  i * i + q * q
        least(v, b) == Min({dist(k) : k \in t.S[v][b]})
    IN  [b \in 1 .. modulation |-> -1 * (least(1, b) - least(0, b))]

\* work of gen_soft_demod on a packet of symbols, with soft = 1.
gen_soft_demod(in, modulation) ==
    IF Len0(in) = 0 THEN [ret |-> 0, out |-> <<>>]
    ELSE IF modulation \notin Modulations THEN [ret |-> -1, out |-> <<>>]
    ELSE LET B == get_bits_per_symbol(modulation)
         IN  [ret |-> Len0(in) * B,
              out |-> [x \in 0 .. Len0(in) * B - 1 |->
                         llr_approx(in[x \div B], modulation)[(x % B) + 1]]]
=============================================================================
