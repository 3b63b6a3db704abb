---------------------------- MODULE TurboCode -------------------------------
(***************************************************************************)
(* The turbo coder of modrep_osld/lte_turbocode: the UMTS interleaver      *)
(* (permute.c) and the two recursive coders with their tails               *)
(* (turbocoder.c).  Arrays are functions from 0 .. n-1.                    *)
(***************************************************************************)
EXTENDS Arrays

LOCAL INSTANCE FiniteSetsExt
LOCAL INSTANCE SequencesExt

NUMREGS == 3
RATE == 3
TOTALTAIL == 12
MaxCodeBlock == 5114

\* Primes and their primitive roots.
table_p == <<7, 11, 13, 17, 19, 23, 29, 31, 37, 41, 43, 47, 53, 59, 61, 67, 71, 73,
    79, 83, 89, 97, 101, 103, 107, 109, 113, 127, 131, 137, 139, 149, 151, 157,
    163, 167, 173, 179, 181, 191, 193, 197, 199, 211, 223, 227, 229, 233, 239,
    241, 251, 257>>
table_v == <<3, 2, 2, 3, 2, 5, 2, 3, 2, 6, 3, 5, 2, 2, 2, 2, 7, 5, 3, 2, 3, 5, 2,
    5, 2, 6, 3, 3, 2, 3, 2, 2, 6, 5, 2, 5, 2, 2, 2, 19, 5, 2, 3, 2, 3, 2, 6, 3, 7,
    7, 6, 3>>

Row5 == <<4, 3, 2, 1, 0>>
Row10 == <<9, 8, 7, 6, 5, 4, 3, 2, 1, 0>>
Row20 == <<19, 9, 14, 4, 0, 2, 5, 7, 12, 18, 10, 8, 13, 17, 3, 1, 16, 6, 15, 11>>
Row20b == <<19, 9, 14, 4, 0, 2, 5, 7, 12, 18, 16, 13, 17, 15, 3, 1, 6, 11, 8, 10>>

\* T, and through its length M_Rows.
RowOrder(M_long) ==
    IF 40 <= M_long /\ M_long <= 159 THEN Row5
    ELSE IF (160 <= M_long /\ M_long <= 200) \/ (481 <= M_long /\ M_long <= 530)
         THEN Row10
    ELSE IF (2281 <= M_long /\ M_long <= 2480) \/ (3161 <= M_long /\ M_long <= 3210)
         THEN Row20b
    ELSE Row20

\* Index of p and v in the tables.
PrimeIndex(M_long, M_Rows) ==
    IF 481 <= M_long /\ M_long <= 530
    THEN CHOOSE i \in DOMAIN table_p : table_p[i] = 53
    ELSE CHOOSE i \in DOMAIN table_p :
            /\ M_long <= M_Rows * (table_p[i] + 1)
            /\ \A j \in 1 .. i - 1 : M_long > M_Rows * (table_p[j] + 1)

Columns(M_long, M_Rows, p) ==
    IF M_long <= M_Rows * (p - 1) THEN p - 1
    ELSE IF M_long <= M_Rows * p THEN p
    ELSE p + 1

\* mcd: Euclid's algorithm.
mcd[x \in Nat, y \in Nat] == IF x % y = 0 THEN y ELSE mcd[y, x % y]

\* q: 1, then the numbers above 6 that have no divisor in common with m.
Coprimes(m, many) ==
    LET q[done \in Seq(Nat), prim \in Nat] ==
            IF Len(done) = many THEN done
            ELSE q[IF mcd[prim, m] = 1 THEN Append(done, prim) ELSE done, prim + 1]
    IN  q[<<1>>, 7]

\* s: the powers of v modulo p, from v^0 on.
Powers(v, p, many) ==
    LET Step(power, i) == (v * power) % p
    IN  <<1>> \o Scan(0 .. p, Step, 1, many - 1)

\* ComputeUMTSPermutation: PER as a sequence, PER[k+1] the place that the
\* second coder reads its k-th bit from.
PER(M_long) ==
    LET T      == RowOrder(M_long)
        M_Rows == Len(T)
        p      == table_p[PrimeIndex(M_long, M_Rows)]
        v      == table_v[PrimeIndex(M_long, M_Rows)]
        M_Cols == Columns(M_long, M_Rows, p)
        q      == Coprimes(p - 1, M_Rows)
        r      == [row \in 0 .. M_Rows - 1 |->
                      q[CHOOSE i \in 1 .. M_Rows : T[i] = row]]
        s      == Powers(v, p, p - 1)
        plain(i, j) ==
            IF j = p - 1 THEN 0
            ELSE IF j = p THEN p
            ELSE s[((j * r[i]) % (p - 1)) + 1] - (IF M_Cols = p - 1 THEN 1 ELSE 0)
        swap(i, j) ==
            /\ M_Cols = p + 1
            /\ M_long = M_Cols * M_Rows
            /\ i = M_Rows - 1
            /\ j \in {0, p}
        U(i, j) == IF swap(i, j) THEN plain(i, p - j) ELSE plain(i, j)
        turn   == [t \in 1 .. M_Cols * M_Rows |->
                      LET i == (t - 1) % M_Rows
                          j == (t - 1) \div M_Rows
                      IN  T[i + 1] * M_Cols + U(i, j)]
    IN  Keep(turn, LAMBDA kp : kp < M_long)

\* One bit into a constituent coder: its parity bit and its registers after.
CoderIn(bit, reg) == (bit + reg[3] + reg[2]) % 2
CoderOut(bit, reg) == (reg[3] + reg[1] + CoderIn(bit, reg)) % 2
CoderShift(bit, reg) == <<CoderIn(bit, reg), reg[1], reg[2]>>

\* The bit that a tail feeds to empty the registers.
TailBit(reg) == (reg[3] + reg[2]) % 2

\* A coder over the bits, then over NUMREGS tail bits: the records of the
\* bit it was fed, its parity bit and its registers after.
Bit == {0, 1}
CoderStates == [bit : Bit, out : Bit, reg : Bit \X Bit \X Bit]

CodeBits(bits) ==
    LET Step(st, i) ==
            LET bit == IF i <= Len(bits) THEN bits[i] ELSE TailBit(st.reg)
            IN  [bit |-> bit, out |-> CoderOut(bit, st.reg),
                 reg |-> CoderShift(bit, st.reg)]
    IN  Scan(CoderStates, Step, [bit |-> 0, out |-> 0, reg |-> <<0, 0, 0>>],
             Len(bits) + NUMREGS)

turbo_coder(input, long_cb) ==
    LET per  == PER(long_cb)
        one  == CodeBits(<<>> \o [i \in 1 .. long_cb |-> input[i - 1]])
        two  == CodeBits(<<>> \o [i \in 1 .. long_cb |-> input[per[i]]])
        tail == [j \in 0 .. TOTALTAIL - 1 |->
                    LET from == IF j < 2 * NUMREGS THEN one ELSE two
                        step == from[long_cb + 1 + ((j % (2 * NUMREGS)) \div 2)]
                    IN  IF j % 2 = 0 THEN step.bit ELSE step.out]
    IN  [k \in 0 .. RATE * long_cb + TOTALTAIL - 1 |->
            IF k >= RATE * long_cb THEN tail[k - RATE * long_cb]
            ELSE CASE k % 3 = 0 -> input[k \div 3]
                   [] k % 3 = 1 -> one[(k \div 3) + 1].out
                   [] k % 3 = 2 -> two[(k \div 3) + 1].out]

-----------------------------------------------------------------------------
(***************************************************************************)
(* The turbo decoder of modrep_osld/lte_turbocode, turbodecoder.c: two     *)
(* max-log decoders of the constituent code, each working through its      *)
(* trellis in windows, that exchange what they learn about the bits.       *)
(* The metrics are floats; with inputs that are small integers they are    *)
(* integers a float represents exactly.  halt is NULL and the halt method  *)
(* HALT_METHOD_NONE, as work() has them.                                   *)
(***************************************************************************)
TAIL == 3
SW == 150
GW == 10
INF == 90000
LOG18_ESCALA == -166

Larger(a, b) == IF b > a THEN b ELSE a
Metrics == [1 .. 8 -> Int]
Best(m) == FoldLeft(Larger, m[1], m)

\* The globals are zero before they are written; element i of an array.
At(array, i) == IF i < Len(array) THEN array[i + 1] ELSE 0

\* precach_full: systematic and parity value of position i.  Decoder 2 gets
\* in interleaved order what decoder 1 found out.
precach_full(input, W, LLR1, per, dec, i) ==
    <<IF dec = 1 THEN input[RATE * i] + At(W, i)
      ELSE At(LLR1, At(per, i)) - At(W, At(per, i)),
      input[RATE * i + dec]>>

\* precach_end, and the tail as compute_beta_end reads it.
precach_end(input, W, LLR1, per, dec, long_cb, i) ==
    IF i < long_cb THEN precach_full(input, W, LLR1, per, dec, i)
    ELSE LET t == RATE * long_cb + 2 * TAIL * (dec - 1) + 2 * (i - long_cb)
         IN  <<input[t], input[t + 1]>>

\* One position backwards.
BetaStep(old, x, y) ==
    <<Larger(old[1], old[5] + x + y), Larger(old[1] + x + y, old[5]),
      Larger(old[2] + x, old[6] + y), Larger(old[2] + y, old[6] + x),
      Larger(old[3] + y, old[7] + x), Larger(old[3] + x, old[7] + y),
      Larger(old[4] + x + y, old[8]), Larger(old[4], old[8] + x + y)>>

\* beta of the positions 0 .. Len(obs), in reverse, from what the end is
\* known to be.
Beta(obs, last) ==
    LET n == Len(obs)
        Step(old, j) == BetaStep(old, obs[n - j + 1][1], obs[n - j + 1][2])
    IN  <<last>> \o Scan(Metrics, Step, last, n)

\* Any state at the end of the guard, and state 0 at the end of the tail.
compute_beta_full(obs) == Beta(obs, [s \in 1 .. 8 |-> LOG18_ESCALA])
compute_beta_end(obs) == Beta(obs, [s \in 1 .. 8 |-> IF s = 1 THEN 0 ELSE -INF])

\* Mutant: states 2 and 3 are confused.
AlfaStep_Crossed(old, x, y, beta) ==
    LET zero == <<old[1], old[3] + y, old[5] + y, old[8], old[2], old[4] + y, old[6] + y, old[7]>>
        one  == <<old[2] + x + y, old[3] + x, old[6] + x, old[7] + x + y,
                  old[1] + x + y, old[4] + x, old[5] + x, old[8] + x + y>>
    IN  [alfa |-> <<>> \o [s \in 1 .. 8 |-> Larger(one[s], zero[s])],
         out  |-> Best([s \in 1 .. 8 |-> one[s] + beta[s]])
                  - Best([s \in 1 .. 8 |-> zero[s] + beta[s]])]

\* One position forwards: the states by the best way into them, and by how
\* much the best path with a 1 beats the best with a 0.
AlfaStep(old, x, y, beta) ==
    LET zero == <<old[1], old[4] + y, old[5] + y, old[8], old[2], old[3] + y, old[6] + y, old[7]>>
        one  == <<old[2] + x + y, old[3] + x, old[6] + x, old[7] + x + y,
                  old[1] + x + y, old[4] + x, old[5] + x, old[8] + x + y>>
    IN  [alfa |-> <<>> \o [s \in 1 .. 8 |-> Larger(one[s], zero[s])],
         out  |-> Best([s \in 1 .. 8 |-> one[s] + beta[s]])
                  - Best([s \in 1 .. 8 |-> zero[s] + beta[s]])]

\* The first many positions of a window.
Alfa(alfa, obs, beta, many) ==
    LET Step(st, k) == AlfaStep(st.alfa, obs[k][1], obs[k][2], beta[Len(beta) - k])
    IN  Scan([alfa : Metrics, out : Int], Step, [alfa |-> alfa, out |-> 0], many)

compute_alfa_full(alfa, obs, beta) == Alfa(alfa, obs, beta, SW)
compute_alfa_end(alfa, obs, beta) == Alfa(alfa, obs, beta, Len(obs) - TAIL)

\* The windows of a block: start of the next, and the limit of the one after.
NextStart(end, long_cb) == IF end > long_cb /\ end - long_cb < GW THEN end ELSE end - GW
NextEnd(end, long_cb) == Min({end + SW, long_cb + TAIL + 1})

\* DEC_RSC: the likelihoods of the positions the windows reach.
DEC_RSC(input, W, LLR1, per, long_cb, dec) ==
    LET last == long_cb + TAIL
        from[start \in Nat, end \in Nat, alfa \in Metrics] ==
            IF start > last THEN <<>>
            ELSE LET full == start + SW + GW <= last + 1
                     obs  == <<>> \o (IF full
                             THEN [k \in 1 .. SW + GW |->
                                     precach_full(input, W, LLR1, per, dec, start + k - 1)]
                             ELSE [k \in 1 .. last - start |->
                                     precach_end(input, W, LLR1, per, dec, long_cb, start + k - 1)])
                     run  == IF full THEN compute_alfa_full(alfa, obs, compute_beta_full(obs))
                             ELSE compute_alfa_end(alfa, obs, compute_beta_end(obs))
                 IN  <<>> \o [k \in 1 .. Len(run) |-> run[k].out]
                     \o from[NextStart(end, long_cb), NextEnd(end, long_cb), run[Len(run)].alfa]
    IN  from[0, IF SW + GW > long_cb THEN last + 1 ELSE SW + GW,
             [s \in 1 .. 8 |-> IF s = 1 THEN 0 ELSE -INF]]

\* DESPER, the inverse of PER.
DESPER(per) ==
    LET at == [i \in {per[k] : k \in DOMAIN per} |-> CHOOSE k \in DOMAIN per : per[k] = i]
    IN  <<>> \o [i \in DOMAIN per |-> at[i - 1] - 1]

update_W(W, LLR1, LLR2, desper) ==
    <<>> \o [i \in DOMAIN desper |-> W[i] + At(LLR2, desper[i]) - At(LLR1, i - 1)]

decide(LLR2, desper) ==
    [i \in 0 .. Len(desper) - 1 |-> IF At(LLR2, desper[i + 1]) > 0 THEN 1 ELSE 0]

turbo_decoder(input, long_cb, iterations) ==
    LET per    == PER(long_cb)
        desper == DESPER(per)
        go[W \in Seq(Int), n \in Nat] ==
            LET LLR1 == DEC_RSC(input, W, <<>>, per, long_cb, 1)
                LLR2 == DEC_RSC(input, W, LLR1, per, long_cb, 2)
            IN  IF n >= iterations THEN LLR2 ELSE go[update_W(W, LLR1, LLR2, desper), n + 1]
    IN  decide(go[<<>> \o [i \in 1 .. long_cb |-> 0], 1], desper)

-----------------------------------------------------------------------------
(***************************************************************************)
(* The rate matching of modrep_osld/lte_ratematching (ratematching.c): the *)
(* coded block is split into three streams, each is written by rows into a *)
(* matrix of 32 columns and read by permuted columns, the three matrices   *)
(* fill a circular buffer, and out_len bits are read from it, starting at  *)
(* a place that the redundancy version chooses and skipping the padding.   *)
(* Blocks are functions from 0 .. n-1, as the arrays of the code.          *)
(***************************************************************************)
DUMMYBIT == 2
COLS == 32

PERM == <<0, 16, 8, 24, 4, 20, 12, 28, 2, 18, 10, 26, 6, 22, 14, 30,
          1, 17, 9, 25, 5, 21, 13, 29, 3, 19, 11, 27, 7, 23, 15, 31>>

intceil(x, y) == ((x - 1) \div y) + 1

\* Rows of the matrix that holds a stream of inlen bits.
ROWS(inlen) == intceil(inlen, COLS)

\* Where char_interleave and float_deinterleave find the k-th bit they read
\* by columns.
ColumnIndex(k, rows) == PERM[(k \div rows) + 1] + COLS * (k % rows)

\* Stream s (0, 1, 2) of the coded block.
char_unwrap(input, len, s) == [i \in 0 .. (len \div 3) - 1 |-> input[3 * i + s]]

char_interleave(stream, inlen) ==
    LET rows == ROWS(inlen)
    IN  [k \in 0 .. COLS * rows - 1 |->
            LET index == ColumnIndex(k, rows)
            IN  IF index < inlen THEN stream[index] ELSE DUMMYBIT]

\* The circular buffer: the first matrix, then the other two interlaced.
CircularBuffer(sub0, sub1, sub2, size) ==
    [i \in 0 .. 3 * size - 1 |->
        IF i < size THEN sub0[i]
        ELSE IF (i - size) % 2 = 0 THEN sub1[(i - size) \div 2]
        ELSE sub2[(i - size) \div 2]]

\* The first position read for redundancy version rvidx.
FirstRead(size, rvidx) ==
    LET R == size \div COLS
    IN  R * (2 * intceil(3 * size, 8 * R) * rvidx + 2)

\* The positions of the circular buffer that carry data, in the order in
\* which one turn of the reading loop meets them.
DataOrder(circular, size, rvidx) ==
    LET k0   == FirstRead(size, rvidx)
        turn == [i \in 1 .. 3 * size |-> (k0 + i - 1) % (3 * size)]
    IN  Keep(turn, LAMBDA p : circular[p] # DUMMYBIT)

\* char_ratematching reads round and round until it has outlen bits.  It
\* never ends on a buffer of nothing but padding.
char_ratematching(circular, size, outlen, rvidx) ==
    LET order == DataOrder(circular, size, rvidx)
    IN  [k \in 0 .. outlen - 1 |-> circular[order[(k % Len(order)) + 1]]]

char_RM_block(input, in_len, out_len, rvidx) ==
    LET sub  == in_len \div 3
        size == COLS * ROWS(sub)
        int(s) == char_interleave(char_unwrap(input, in_len, s), sub)
    IN  char_ratematching(CircularBuffer(int(0), int(1), int(2), size),
                          size, out_len, rvidx)

\* The circular buffer of a block of zeros: where the receiver expects
\* padding.
getDummyMatrix(sub, size) ==
    LET zeros == char_interleave([i \in 0 .. sub - 1 |-> 0], sub)
    IN  CircularBuffer(zeros, zeros, zeros, size)

\* float_unratematching puts every soft bit back at its place; a place that
\* nothing was received for keeps 0, a place met again is overwritten.
float_unratematching(input, inlen, size, rvidx, dummy) ==
    LET n      == 3 * size
        k0     == FirstRead(size, rvidx)
        IsData(i) == dummy[(k0 + i - 1) % n] # DUMMYBIT
        \* k after i steps of the first turn
        k      == Scan(Nat, LAMBDA seen, i : IF IsData(i) THEN seen + 1 ELSE seen,
                       0, n)
        turn   == k[n]
    IN  [p \in 0 .. n - 1 |->
            LET i == ((p - k0) % n) + 1
            IN  IF IsData(i) /\ k[i] <= inlen
                THEN input[(k[i] - 1) + turn * ((inlen - k[i]) \div turn)]
                ELSE 0]

\* float_deinterleave writes the k-th value to the place that
\* char_interleave read the k-th bit from.
float_deinterleave(column, size) ==
    LET rows == size \div COLS
    IN  [index \in 0 .. size - 1 |->
            column[CHOOSE k \in 0 .. size - 1 : ColumnIndex(k, rows) = index]]

float_UNRM_block(input, inlen, outsize, rvidx) ==
    LET sub   == intceil(outsize, 3)
        size  == COLS * ROWS(sub)
        circ  == float_unratematching(input, inlen, size, rvidx,
                                      getDummyMatrix(sub, size))
        block == <<float_deinterleave([i \in 0 .. size - 1 |-> circ[i]], size),
                   float_deinterleave([i \in 0 .. size - 1 |->
                                          circ[size + 2 * i]], size),
                   float_deinterleave([i \in 0 .. size - 1 |->
                                          circ[size + 2 * i + 1]], size)>>
    IN  [k \in 0 .. outsize - 1 |-> block[(k % 3) + 1][k \div 3]]
=============================================================================
