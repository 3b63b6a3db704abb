---------------------------- MODULE ControlCode ----------------------------
(***************************************************************************)
(* The coding of the control channels of modrep_osld: convolutional coder  *)
(* (gen_convcoder) and Viterbi decoder (gen_viterbi), the rate matching of *)
(* lte_ctrl_ratematching, the masks of lte_crc_scrambling, the format      *)
(* indicator (lte_cfi_coding, lte_cfi_decoding), the downlink assignment   *)
(* (lte_dci_pack), the broadcast block (lte_bch_pack) and the splitting of *)
(* a transport block (lte_segmentation).  A packet is a function from      *)
(* 0 .. n-1; soft bits are integers.                                       *)
(***************************************************************************)
EXTENDS Arrays

LOCAL INSTANCE FiniteSetsExt
LOCAL INSTANCE SequencesExt

Abs(x) == IF x < 0 THEN -x ELSE x
Join(a, b) == [i \in 0 .. Len0(a) + Len0(b) - 1 |->
                IF i < Len0(a) THEN a[i] ELSE b[i - Len0(a)]]
Part(a, from, n) == [i \in 0 .. n - 1 |-> a[from + i]]

pack_bits(value, n) == [i \in 0 .. n - 1 |-> (value \div 2^(n - 1 - i)) % 2]
unpack_bits(bits, from, n) ==
    LET term(i) == bits[from + i] * 2^(n - 1 - i)
    IN  MapThenSumSet(term, 0 .. n - 1)

-----------------------------------------------------------------------------
(* conv_encode.c and viterbi_decoder.c                                     *)

\* Tap k of generator g, the highest bit first.
Tap(g, k, K) == (g \div 2^(K - 1 - k)) % 2

\* conv_encode: bit k of the register behind input i is input i - k; in
\* front of the packet stands its own tail, or zeros.
conv_encode(c, K, g, tail_bit) ==
    LET N == Len0(c)
        s(i, k) == IF i >= k THEN c[i - k] ELSE IF tail_bit THEN c[N + i - k] ELSE 0
        d(i, j) == LET term(k) == s(i, k) * Tap(g[j + 1], k, K)
                   IN  MapThenSumSet(term, 0 .. K - 1) % 2
    IN  [x \in 0 .. Len(g) * N - 1 |-> d(x \div Len(g), x % Len(g))]

\* The two states in front of state j, and the output of the step from one.
Prev(j, k, K) == (2 * j + k) % 2^(K - 1)
vd_st_output(K, g) ==
    LET N == 2^(K - 1)
        reg(i, j, o) == IF o = 0 THEN (IF i < N \div 2 THEN 0 ELSE 1)
                        ELSE (Prev(i, j, K) \div 2^(K - 1 - o)) % 2
        out(i, j, x) == LET term(o) == reg(i, j, o) * Tap(g[x], o, K)
                        IN  MapThenSumSet(term, 0 .. K - 1) % 2
    IN  [i \in 0 .. N - 1 |-> <<<<>> \o [x \in DOMAIN g |-> out(i, 0, x)],
                                <<>> \o [x \in DOMAIN g |-> out(i, 1, x)]>>]

\* The path metric of state j after the soft bits d: the branches are
\* compared by the number of wrong bits, and weighed by all of |d|.
Survivor(metric, table, d, j, K) ==
    LET br(k) == Cardinality({x \in DOMAIN d : table[j][k + 1][x] # (IF d[x] > 0 THEN 1 ELSE 0)})
        mag(x) == Abs(d[x])
        w     == MapThenSumSet(mag, DOMAIN d)
        k     == IF br(0) + metric[Prev(j, 0, K)] > br(1) + metric[Prev(j, 1, K)] THEN 1 ELSE 0
    IN  metric[Prev(j, k, K)] + w * br(k)

\* viterbi_decode: the metrics forward from all states, then back from the
\* first state with the least one, at each step to the predecessor with the
\* smaller metric; a bit is 0 where the state's number falls.
viterbi_decode(soft, K, g) ==
    LET N     == 2^(K - 1)
        rate  == Len(g)
        T     == Len0(soft) \div rate
        table == vd_st_output(K, g)
        d(i)  == <<>> \o [x \in 1 .. rate |-> soft[(i - 1) * rate + x - 1]]
        Step(m, i) == <<>> \o [j \in 1 .. N |->
                        Survivor([s \in 0 .. N - 1 |-> m[s + 1]], table, d(i), j - 1, K)]
        start == [j \in 1 .. N |-> 0]
        mets  == Scan(Seq(Nat), Step, start, T)
        metric(i) == IF i = 0 THEN start ELSE mets[i]
        best  == CHOOSE j \in 0 .. N - 1 :
                    /\ \A s \in 0 .. N - 1 : metric(T)[j + 1] <= metric(T)[s + 1]
                    /\ \A s \in 0 .. j - 1 : metric(T)[j + 1] < metric(T)[s + 1]
        Back(s, i) == LET p0 == Prev(s, 0, K)
                          p1 == Prev(s, 1, K)
                      IN  IF metric(T - i)[p0 + 1] > metric(T - i)[p1 + 1] THEN p1 ELSE p0
        tb    == <<best>> \o Scan(Nat, Back, best, T)
        bit(a, b) == IF a < b THEN 0 ELSE IF a > b THEN 1 ELSE IF a = 0 THEN 0 ELSE 1
    IN  [i \in 0 .. T - 1 |-> bit(tb[T - i], tb[T - i + 1])]

-----------------------------------------------------------------------------
(* lte_ctrl_ratematching: ctrl_ratematching_tx.c, ctrl_ratematching_rx.c   *)

COLS == 32
DUMMYBIT == 2
PERM == <<1, 17, 9, 25, 5, 21, 13, 29, 3, 19, 11, 27, 7, 23, 15, 31,
          0, 16, 8, 24, 4, 20, 12, 28, 2, 18, 10, 26, 6, 22, 14, 30>>
Pd == <<16, 0, 24, 8, 20, 4, 28, 12, 18, 2, 26, 10, 22, 6, 30, 14,
        17, 1, 25, 9, 21, 5, 29, 13, 19, 3, 27, 11, 23, 7, 31, 15>>
intceil(x, y) == ((x - 1) \div y) + 1

char_unwrap(in, j) == [i \in 0 .. (Len0(in) \div 3) - 1 |-> in[3 * i + j]]

\* Row-wise behind the dummies into 32 columns, out by permuted column.
subblock_interleaver(v) ==
    LET rows    == intceil(Len0(v), COLS)
        dummies == rows * COLS - Len0(v)
        m(i, c) == IF i * COLS + c < dummies THEN DUMMYBIT ELSE v[i * COLS + c - dummies]
    IN  [x \in 0 .. rows * COLS - 1 |-> m(x % rows, PERM[(x \div rows) + 1])]

\* bit_selection: round and round the buffer, over the dummies.
bit_selection(w, E) ==
    LET NotDummy(x) == x # DUMMYBIT
        real == Keep([i \in 1 .. Len0(w) |-> w[i - 1]], NotDummy)
    IN  [k \in 0 .. E - 1 |-> real[(k % Len(real)) + 1]]

rate_matching(in, E) ==
    LET v(j) == subblock_interleaver(char_unwrap(in, j))
    IN  bit_selection(Join(Join(v(0), v(1)), v(2)), E)

\* Puts the dummies back where Pd says they were, and undoes the permutation.
subblock_deinterleaver(v) ==
    LET rows    == intceil(Len0(v), COLS)
        Kp      == rows * COLS
        dummies == Kp - Len0(v)
        isDummy == {Pd[i] * rows : i \in 1 .. dummies}
        vv(x)   == v[x - Cardinality({y \in isDummy : y < x})]
        column(c) == (CHOOSE j \in 1 .. COLS : PERM[j] = c) - 1
    IN  [y \in 0 .. Len0(v) - 1 |->
           LET f == y + dummies
           IN  vv(column(f % COLS) * rows + (f \div COLS))]

float_wrap(v0, v1, v2) ==
    [x \in 0 .. 3 * Len0(v0) - 1 |-> <<v0, v1, v2>>[(x % 3) + 1][x \div 3]]

\* Soft bits past S, the repetitions, are dropped; missing ones are 0.
rate_unmatching(in, S) ==
    LET Kw   == S \div 3
        w(x) == IF x < Len0(in) THEN in[x] ELSE 0
        v(i) == <<subblock_deinterleaver([x \in 0 .. Kw - 1 |-> w(i * Kw + x)])>>[1]
    IN  float_wrap(v(0), v(1), v(2))

-----------------------------------------------------------------------------
(* lte_crc_scrambling                                                      *)

pbch_sequence_gen(nof_ports) ==
    [i \in 0 .. 15 |-> CASE nof_ports = 2 -> 1
                         [] nof_ports = 4 -> i % 2
                         [] OTHER -> 0]

\* srambling on the last 16 bits of the packet, the rest copied.
srambling(in, c) ==
    [i \in 0 .. Len0(in) - 1 |->
        IF i < Len0(in) - 16 THEN in[i]
        ELSE IF in[i] = c[i - Len0(in) + 16] THEN 0 ELSE 1]

-----------------------------------------------------------------------------
(* lte_cfi_coding, lte_cfi_decoding, cfi_coding_table.c                    *)

NOF_BITS == 32
coding_table == [i \in 0 .. 3 |-> [j \in 0 .. NOF_BITS - 1 |->
                   IF i < 3 /\ j % 3 # i THEN 1 ELSE 0]]

\* The indicator's code word, or no packet for -1.
lte_cfi_coding(cfi) ==
    CASE cfi = -1 -> [ret |-> 0, out |-> <<>>]
      [] cfi \in 1 .. 4 -> [ret |-> NOF_BITS, out |-> coding_table[cfi - 1]]
      [] OTHER -> [ret |-> -1, out |-> <<>>]

\* cfi_decoding: the nearest word, the first of equals.
cfi_decoding(in) ==
    LET errors(i) == Cardinality({j \in 0 .. NOF_BITS - 1 : in[j] # coding_table[i][j]})
        index == CHOOSE i \in 0 .. 3 : /\ \A k \in 0 .. 3 : errors(i) <= errors(k)
                                      /\ \A k \in 0 .. i - 1 : errors(i) < errors(k)
    IN  [index |-> index, nof_errors |-> errors(index)]

\* work of lte_cfi_decoding: the cfi_rx message to ctrl, or none.
lte_cfi_decoding(in, threshold) ==
    LET d == cfi_decoding(in)
    IN  CASE Len0(in) = 0 -> [ret |-> 0, msg |-> {}]
          [] Len0(in) # 0 /\ Len0(in) # NOF_BITS -> [ret |-> -1, msg |-> {}]
          [] OTHER -> [ret |-> 0,
                       msg |-> IF d.nof_errors < threshold THEN {d.index + 1} ELSE {}]

-----------------------------------------------------------------------------
(* lte_dci_pack: dci_formats.c and lte_dci_pack.c                          *)

NA == 0
TYPE0 == 1
TYPE1 == 2
MAX_RBG_SET == 32
ambiguous_sizes == {12, 14, 16, 20, 24, 26, 32, 40, 44, 56}

\* An ambiguous length is made one longer, with a 0.
check_ambiguous_size(packet) ==
    IF Len0(packet) \in ambiguous_sizes THEN Join(packet, [i \in {0} |-> 0]) ELSE packet

\* The lengths the two functions refuse.
BadLens(data) == data.carrier_indicator_len \notin 0 .. 3 \/ data.harq_pnum_len \notin {3, 4}

\* Mutant: the fields of the format in another order than they are read.
dci_format1_pack_Swapped(data) ==
    LET mask == [i \in 0 .. data.nof_rbg - 1 |-> data.rbg_mask[i]]
        ra   == IF data.ra_type = NA THEN <<>> ELSE pack_bits(data.ra_type - TYPE0, 1)
        body == FoldLeft(Join, pack_bits(data.carrier_indicator, data.carrier_indicator_len),
                  <<ra, pack_bits(data.mcs, 5), mask,
                    pack_bits(data.harq_pnum, data.harq_pnum_len), pack_bits(data.new_data, 1),
                    pack_bits(data.redundancy_version, 2), pack_bits(data.tpc_command, 2)>>)
    IN  IF BadLens(data) \/ data.ra_type \notin {NA, TYPE0} THEN [ret |-> -1, out |-> <<>>]
        ELSE [ret |-> Len0(check_ambiguous_size(body)), out |-> check_ambiguous_size(body)]

\* dci_format1_pack: the fields in order; type 1 allocation is refused.
dci_format1_pack(data) ==
    LET mask == [i \in 0 .. data.nof_rbg - 1 |-> data.rbg_mask[i]]
        ra   == IF data.ra_type = NA THEN <<>> ELSE pack_bits(data.ra_type - TYPE0, 1)
        body == FoldLeft(Join, pack_bits(data.carrier_indicator, data.carrier_indicator_len),
                  <<ra, mask, pack_bits(data.mcs, 5),
                    pack_bits(data.harq_pnum, data.harq_pnum_len), pack_bits(data.new_data, 1),
                    pack_bits(data.redundancy_version, 2), pack_bits(data.tpc_command, 2)>>)
    IN  IF BadLens(data) \/ data.ra_type \notin {NA, TYPE0} THEN [ret |-> -1, out |-> <<>>]
        ELSE [ret |-> Len0(check_ambiguous_size(body)), out |-> check_ambiguous_size(body)]

\* The length left over, or run over by: the function takes the absolute value.
dci_packet_space(at, packet_len) == Abs(at - packet_len)

\* dci_format1_unpack: data brings the lengths and the allocation type.
dci_format1_unpack(packet, data) ==
    LET len  == Len0(packet)
        at0  == data.carrier_indicator_len
        ra   == IF data.ra_type = NA THEN NA ELSE IF packet[at0] = 1 THEN TYPE1 ELSE TYPE0
        at1  == IF data.ra_type = NA THEN at0 ELSE at0 + 1
        at2  == at1 + data.nof_rbg
        at3  == at2 + 5
        at4  == at3 + data.harq_pnum_len
        short == \/ dci_packet_space(0, len) < at0
                 \/ dci_packet_space(at0, len) < 1
                 \/ dci_packet_space(at1, len) < data.nof_rbg
                 \/ dci_packet_space(at2, len) < 5
                 \/ dci_packet_space(at3, len) < data.harq_pnum_len
                 \/ dci_packet_space(at4, len) < 5
    IN  IF BadLens(data) \/ short \/ ra = TYPE1 THEN [ret |-> -1, data |-> data]
        ELSE [ret  |-> IF at4 + 5 \in ambiguous_sizes THEN at4 + 6 ELSE at4 + 5,
              data |-> [data EXCEPT
                          !.carrier_indicator = unpack_bits(packet, 0, at0),
                          !.ra_type = ra,
                          !.rbg_mask = [i \in 0 .. MAX_RBG_SET - 1 |->
                                          IF i < data.nof_rbg THEN packet[at1 + i] ELSE 0],
                          !.mcs = unpack_bits(packet, at2, 5),
                          !.harq_pnum = unpack_bits(packet, at3, data.harq_pnum_len),
                          !.new_data = packet[at4],
                          !.redundancy_version = unpack_bits(packet, at4 + 1, 2),
                          !.tpc_command = unpack_bits(packet, at4 + 3, 2)]]

NoDci == [carrier_indicator_len |-> 2, carrier_indicator |-> 0, ra_type |-> NA,
          nof_rbg |-> 0, rbg_mask |-> [i \in 0 .. MAX_RBG_SET - 1 |-> 0], mcs |-> 0,
          harq_pnum_len |-> 3, harq_pnum |-> 0, new_data |-> 0,
          redundancy_version |-> 0, tpc_command |-> 0]

\* send_dci: mask is the set of the bits of the parameter rbg_mask.
send_dci(enable, mcs, nof_rbg, mask) ==
    IF ~enable THEN [ret |-> 0, out |-> <<>>]
    ELSE dci_format1_pack([NoDci EXCEPT !.mcs = mcs, !.nof_rbg = nof_rbg,
             !.rbg_mask = [i \in 0 .. MAX_RBG_SET - 1 |-> IF i \in mask THEN 1 ELSE 0]])

\* recv_dci: the three parameters it sends to ctrl.
recv_dci(in, nof_rbg) ==
    LET u == dci_format1_unpack(in, [NoDci EXCEPT !.nof_rbg = nof_rbg])
    IN  IF Len0(in) = 0 \/ u.ret < 0 THEN {}
        ELSE {[mcs |-> u.data.mcs, nof_rbg |-> nof_rbg,
               rbg_mask |-> {i \in 0 .. MAX_RBG_SET - 1 : u.data.rbg_mask[i] = 1}]}

-----------------------------------------------------------------------------
(* lte_bch_pack                                                            *)

Bandwidths == <<6, 15, 25, 50, 75, 100>>

\* The bits of the smallest bandwidth that holds nof_prb; above 100 PRBs the
\* three bits are whatever the buffer held.
set_bw(nof_prb, stale) ==
    LET fits == {i \in DOMAIN Bandwidths : nof_prb <= Bandwidths[i]}
    IN  IF fits = {} THEN stale ELSE pack_bits(Min(fits) - 1, 3)

get_bw(in) ==
    LET i == unpack_bits(in, 0, 3) + 1
    IN  IF i \in DOMAIN Bandwidths THEN Bandwidths[i] ELSE -1

send_bch(enable, nof_prb, sfn, stale) ==
    IF ~enable THEN [ret |-> 0, out |-> <<>>]
    ELSE [ret |-> 24,
          out |-> FoldLeft(Join, set_bw(nof_prb, stale),
                    <<pack_bits(0, 3), pack_bits(sfn, 8), pack_bits(0, 10)>>)]

recv_bch(in) ==
    IF Len0(in) < 24 THEN {}
    ELSE {[nof_prb |-> get_bw(in), sfn |-> unpack_bits(in, 6, 8)]}

-----------------------------------------------------------------------------
(* lte_segmentation                                                        *)

Z == 6144
Bmin == 40
L == 24
Table5133(i) == CASE i = 0 -> 0
                  [] i \in 1 .. 60 -> 40 + (i - 1) * 8
                  [] i \in 61 .. 92 -> 512 + (i - 60) * 16
                  [] i \in 93 .. 124 -> 1024 + (i - 92) * 32
                  [] OTHER -> 2048 + (i - 124) * 64

\* Mutant: the check bits of the blocks are not counted.
get_nof_cb_NoCrc(B) ==
    LET num  == intceil(B, Z - L)
        i    == Min({x \in 1 .. 188 : Table5133(x) * num >= B} \cup {188})
        Kl   == Table5133(i)
        Ks   == Table5133(i - 1)
        nS   == (num * Kl - B) \div (Kl - Ks)
    IN  IF B <= Z
        THEN [nof_cb |-> 1, nof_short_cb |-> 0, len_short_cb |-> 0,
              len_long_cb |-> Max({B, Bmin}), nof_filler_bits |-> Max({B, Bmin}) - B]
        ELSE [nof_cb |-> num, nof_short_cb |-> nS, len_short_cb |-> Ks - L,
              len_long_cb |-> Kl - L, nof_filler_bits |-> (num - nS) * Kl + nS * Ks - B]

\* get_nof_cb: how B bits are split into blocks of two lengths of the table.
get_nof_cb(B) ==
    LET num  == intceil(B, Z - L)
        Bp   == B + num * L
        i    == Min({x \in 1 .. 188 : Table5133(x) * num >= Bp} \cup {188})
        Kl   == Table5133(i)
        Ks   == Table5133(i - 1)
        nS   == (num * Kl - Bp) \div (Kl - Ks)
    IN  IF B <= Z
        THEN [nof_cb |-> 1, nof_short_cb |-> 0, len_short_cb |-> 0,
              len_long_cb |-> Max({B, Bmin}), nof_filler_bits |-> Max({B, Bmin}) - B]
        ELSE [nof_cb |-> num, nof_short_cb |-> nS, len_short_cb |-> Ks - L,
              len_long_cb |-> Kl - L, nof_filler_bits |-> (num - nS) * Kl + nS * Ks - Bp]

\* work of lte_segmentation: for block i of B input bits its length, its
\* filler bits and the input bit its data starts with.
lte_segmentation(B) ==
    LET c == get_nof_cb(B)
        len(i)  == IF i < c.nof_short_cb THEN c.len_short_cb ELSE c.len_long_cb
        fill(i) == IF i = 0 THEN c.nof_filler_bits ELSE 0
        data(i) == len(i) - fill(i)
    IN  [i \in 0 .. c.nof_cb - 1 |->
            [len |-> len(i), filler |-> fill(i), from |-> MapThenSumSet(data, 0 .. i - 1)]]
=============================================================================
