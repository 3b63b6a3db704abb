----------------------------- MODULE Scrambling -----------------------------
(***************************************************************************)
(* The scrambling of modrep_osld/lte_scrambling (scrambling.c).  An array  *)
(* of 32-bit words is the sequence of its bits, lowest first: bit s of     *)
(* word j is at 32 j + s + 1.  The code computes two m-sequences a word at *)
(* a time, from the word before, and the scrambling words are their        *)
(* exclusive or from word Nc/32 on.                                        *)
(***************************************************************************)
EXTENDS Integers, Sequences

BIT_PER_INT == 32
NOF_SUBFRAMES == 10
Nc == 1600

PDSCH == 0
PCFICH == 1
PDCCH == 2
PBCH == 3
PMCH == 4
PUCCH == 5

\* Bit s of word j of an array, and of its last word.
BitOf(words, j, s) == words[32 * j + s + 1]
Last(words, s) == words[Len(words) - 31 + s]

\* compute_x1: bit s of the word behind prev.  Bits 28 .. 31 need low bits
\* of the word being computed.
X1Bit(prev, s) ==
    LET low(d) == (Last(prev, d + 4) + Last(prev, d + 1)) % 2
    IN  IF s < 28 THEN low(s)
        ELSE IF s < 31 THEN (low(s - 28) + Last(prev, s + 1)) % 2
        ELSE (low(3) + low(0)) % 2

X1First == [i \in 1 .. 32 |-> IF i \in {1, 32} THEN 1 ELSE 0]

\* compute_x2: the same with four taps.
X2Bit(prev, s) ==
    LET low(d) == (Last(prev, d + 4) + Last(prev, d + 3)
                   + Last(prev, d + 2) + Last(prev, d + 1)) % 2
        tap(t) == IF t < 32 THEN Last(prev, t) ELSE low(t - 32)
    IN  (tap(s + 4) + tap(s + 3) + tap(s + 2) + tap(s + 1)) % 2

X2First(c_init) ==
    LET w(s) == (c_init \div 2^s) % 2
    IN  [i \in 1 .. 32 |-> IF i < 32 THEN w(i - 1)
                           ELSE (w(3) + w(2) + w(1) + w(0)) % 2]

\* x2init: the first 31 bits of x2 in subframe n.  PBCH sets c_init[0] only,
\* the others stay zero from the memset.
x2init(par, n) ==
    LET N_cell == 3 * par.cell_gr + par.cell_sec
    IN  CASE par.channel = PDSCH  -> par.nrnti * 2^14 + par.q * 2^13
                                     + n * 2^9 + N_cell
          [] par.channel = PCFICH -> (n + 1) * (2 * N_cell + 1) * 2^9 + N_cell
          [] par.channel = PDCCH  -> n * 2^9 + N_cell
          [] par.channel = PBCH   -> IF n = 0 THEN N_cell ELSE 0
          [] par.channel = PMCH   -> n * 2^9 + par.nMBSFN
          [] par.channel = PUCCH  -> (n + 1) * (2 * N_cell + 1) * 2^16
                                     + par.nrnti

\* The arrays x1 and x2[n], so many words behind the Nc bits left out: each
\* word follows from the one in front of it.  grow adds k words, one half
\* behind the other.
x1(many) ==
    LET grow[k \in Nat, x \in Seq({0, 1})] ==
            CASE k = 0 -> x
              [] k = 1 -> x \o [i \in 1 .. 32 |-> X1Bit(x, i - 1)]
              [] k > 1 -> grow[k - k \div 2, grow[k \div 2, x]]
    IN  grow[Nc \div 32 + many - 1, X1First]

x2(par, n, many) ==
    LET grow[k \in Nat, x \in Seq({0, 1})] ==
            CASE k = 0 -> x
              [] k = 1 -> x \o [i \in 1 .. 32 |-> X2Bit(x, i - 1)]
              [] k > 1 -> grow[k - k \div 2, grow[k \div 2, x]]
    IN  grow[Nc \div 32 + many - 1, X2First(x2init(par, n))]

\* sequence_generation: the first words of c in subframe n.
sequence_generation(par, n, many) ==
    LET a == x1(many)
        b == x2(par, n, many)
    IN  <<>> \o [i \in 1 .. 32 * many |-> (a[Nc + i] + b[Nc + i]) % 2]

\* The bit of c that the loops of direct_scrambling and soft_scrambling use
\* for sample i: the word advances every 32 samples, the place in it is
\* counted from the remainder of the first sample (a shift by 32 or more
\* takes the count modulo 32; no channel of the code starts inside a word).
LoopBit(c, sample, i) ==
    BitOf(c, (sample \div 32) + (i \div 32),
          IF i < 32 THEN ((sample % 32) + i) % 32 ELSE i % 32)

direct_scrambling(input, n, c, sample) ==
    [i \in 0 .. n - 1 |-> IF input[i] = LoopBit(c, sample, i) THEN 0 ELSE 1]

\* char2int packs the bits into words, lowest first, and fills the last
\* word with zeros; the words are xored with c and int2char unpacks them.
char2int(input, n) ==
    [i \in 1 .. 32 * (n \div 32 + 1) |-> IF i <= n THEN input[i - 1] ELSE 0]

int2char(words, n) == [i \in 0 .. n - 1 |-> BitOf(words, i \div 32, i % 32)]

int_scrambling(input, n, c) ==
    LET in == char2int(input, n)
    IN  int2char([i \in DOMAIN in |-> (in[i] + c[i]) % 2], n)

scramble(input, n, c, direct, sample) ==
    IF direct THEN direct_scrambling(input, n, c, sample)
    ELSE int_scrambling(input, n, c)

\* A soft bit changes its sign where c is 1.
soft_scrambling(input, n, c, sample) ==
    [i \in 0 .. n - 1 |->
        IF LoopBit(c, sample, i) = 1 THEN -input[i] ELSE input[i]]
=============================================================================
