---------------------------- MODULE Framing ---------------------------------
(***************************************************************************)
(* The modules of modrep_osld that cut, join and shift packets of samples: *)
(* gen_cyclic, gen_remcyclic, gen_padding, gen_mux, gen_demux, the sample  *)
(* order around the transform of gen_dft (gen_libs/dft/dft.c) and the      *)
(* channel estimate of lte_equalizer.  The work operators return what      *)
(* work() returns in ret (-1 stops the waveform) and the packets in out.   *)
(***************************************************************************)
EXTENDS Grid, Arrays

LOCAL INSTANCE FiniteSetsExt
LOCAL INSTANCE SequencesExt

Refused == [ret |-> -1, out |-> <<>>]
Sent(out) == [ret |-> 0, out |-> out]

\* The cyclic prefix of symbol j: the first of each slot has its own.
Prefix(j, cp, first) == IF j % (IF first = cp THEN 6 ELSE 7) = 0 THEN first ELSE cp
\* The start of symbol j in a packet of symbols with their prefixes.
StartOf(j, dft, cp, first) ==
    LET len(x) == dft + Prefix(x, cp, first) IN MapThenSumSet(len, 0 .. j - 1)

\* work of gen_cyclic: the tail of every symbol again in front of it.
gen_cyclic(in, dft, cp, first) ==
    LET n == Len0(in) \div dft
        at(x, j) == (x - StartOf(j, dft, cp, first)) - Prefix(j, cp, first)
        pick(x)  == LET j == Max({y \in 0 .. n - 1 : StartOf(y, dft, cp, first) <= x})
                    IN  in[j * dft + (IF at(x, j) < 0 THEN dft + at(x, j) ELSE at(x, j))]
    IN  IF dft = 0 THEN Sent(<<>>)
        ELSE IF first > dft \/ cp > dft \/ Len0(in) % dft # 0 THEN Refused
        ELSE Sent([x \in 0 .. StartOf(n, dft, cp, first) - 1 |-> pick(x)])

\* work of gen_remcyclic: symbols are taken until the packet is used up, and
\* it must be used up exactly.
gen_remcyclic(in, dft, cp, first) ==
    LET n == Min({j \in 0 .. Len0(in) : StartOf(j, dft, cp, first) >= Len0(in)})
    IN  IF dft <= 0 THEN Sent(<<>>)
        ELSE IF first > dft \/ cp > dft THEN Refused
        ELSE IF StartOf(n, dft, cp, first) # Len0(in) THEN Refused
        ELSE Sent([x \in 0 .. n * dft - 1 |->
                     LET j == x \div dft
                     IN  in[StartOf(j, dft, cp, first) + Prefix(j, cp, first) + (x % dft)]])

\* work of gen_padding: zeros around each of the packets, or off again.
gen_padding(in, pre, post, packets, direction) ==
    LET in_len  == Len0(in) \div packets
        out_len == IF direction = 1 THEN in_len - pre - post ELSE in_len + pre + post
        pick(j, a) == IF direction = 1 THEN in[j * in_len + pre + a]
                      ELSE IF a < pre \/ a >= pre + in_len THEN Zero
                      ELSE in[j * in_len + a - pre]
    IN  IF Len0(in) = 0 THEN Sent(<<>>)
        ELSE IF Len0(in) % packets # 0 THEN Refused
        ELSE Sent([x \in 0 .. out_len * packets - 1 |-> pick(x \div out_len, x % out_len)])

-----------------------------------------------------------------------------
(* gen_mux and gen_demux, gen_libs/utils/mux.c                             *)

\* The sum of the first i members of a sequence of lengths.
sum_i(lens, i) == FoldLeft(LAMBDA a, b : a + b, 0, SubSeq(lens, 1, i))

\* mux: inputs one behind the other.
mux(ins) ==
    LET lens == [i \in DOMAIN ins |-> Len0(ins[i])]
        of(x) == Min({i \in DOMAIN ins : x < sum_i(lens, i)})
    IN  [x \in 0 .. sum_i(lens, Len(ins)) - 1 |-> ins[of(x)][x - sum_i(lens, of(x) - 1)]]

\* work of gen_mux: every input counts as active, also an empty one, so that
\* check_all never fails and exclusive always does with two inputs.
gen_mux(ins, exclusive) ==
    IF exclusive /\ Len(ins) > 1 THEN Refused ELSE Sent(mux(ins))

demux(in, lens) ==
    [i \in DOMAIN lens |-> [x \in 0 .. lens[i] - 1 |-> in[sum_i(lens, i - 1) + x]]]

\* work of gen_demux: special lengths (0: none) first, the rest in equal
\* parts; a packet that does not divide is dropped with a message.
gen_demux(in, special) ==
    LET outs  == Len(special)
        plain == Cardinality({i \in DOMAIN special : special[i] = 0})
        rest  == Len0(in) - sum_i(special, outs)
    IN  IF Len0(in) = 0 \/ rest % plain # 0 THEN Sent([i \in DOMAIN special |-> <<>>])
        ELSE Sent(demux(in, [i \in DOMAIN special |->
                               IF special[i] # 0 THEN special[i] ELSE rest \div plain]))

-----------------------------------------------------------------------------
(* gen_dft: the order of the samples around the transform                  *)

Plain == 0
DFT_MIRROR_PRE == 1
DFT_MIRROR_POS == 8

\* copy of dft.c: with MIRROR_PRE the upper half in front, its first place
\* left to the zero of the DC carrier; with MIRROR_POS back again.
copy(src, mirror, dc_offset) ==
    LET len  == Len0(src)
        hlen == ((len - 1) \div 2) + 1
        off  == IF dc_offset THEN 1 ELSE 0
    IN  [x \in 0 .. len - 1 |->
           CASE mirror = DFT_MIRROR_PRE ->
                  IF x < off THEN Zero
                  ELSE IF x < hlen THEN src[hlen + x - off] ELSE src[x - hlen]
             [] mirror = DFT_MIRROR_POS ->
                  IF x < hlen THEN src[hlen + x] ELSE src[x - hlen + off]
             [] OTHER -> src[x]]

\* dft_run_c2c with the transform itself left out: an inverse transform on
\* the transmitter's side and a transform on the receiver's cancel.
dft_run_c2c(in, mirror, dc_offset) ==
    LET pre == <<copy(in, IF mirror = DFT_MIRROR_PRE THEN mirror ELSE Plain, dc_offset)>>[1]
    IN  copy(pre, IF mirror = DFT_MIRROR_POS THEN mirror ELSE Plain, dc_offset)

\* work of gen_dft on a packet of several transforms.
gen_dft(in, size, mirror, dc_offset) ==
    LET one(j) == <<dft_run_c2c([k \in 0 .. size - 1 |-> in[j * size + k]], mirror, dc_offset)>>[1]
    IN  IF size = 0 \/ Len0(in) = 0 THEN Sent(<<>>)
        ELSE IF Len0(in) % size # 0 THEN Refused
        ELSE Sent([x \in 0 .. Len0(in) - 1 |-> one(x \div size)[x % size]])

-----------------------------------------------------------------------------
(* lte_equalizer: equalizer.c, for a channel that only scales: every       *)
(* pilot's estimate is 1 and a weight counts 2 * ceil(nfreq / 2) to the 1. *)

\* filter2d_init: the weight of column j.
filter2d_init(j, nfreq) ==
    LET up == (nfreq + 1) \div 2
    IN  CASE j < nfreq \div 2 -> j + 1
          [] j = nfreq \div 2 -> up
          [] OTHER -> nfreq - j

\* filter2d_reset: the rows that reached past the subframe become its first.
filter2d_reset(channel, ntime, g) ==
    LET nof == g.nof_osymb_x_subf
    IN  [l \in 0 .. ntime + nof - 1 |->
            IF l < ntime THEN channel[nof + l] ELSE [k \in DOMAIN channel[0] |-> 0]]

\* Mutant: the rows in front of the pilot's are weighted, not the ones behind.
filter2d_add_Before(k, l, kp, lp, ntime, nfreq) ==
    LET j == k - kp + (nfreq \div 2)
    IN  IF lp - l \in 0 .. ntime - 1 /\ j \in 0 .. nfreq - 1 THEN filter2d_init(j, nfreq) ELSE 0

\* filter2d_add: what the pilot (kp, lp) adds to carrier k of row l.
filter2d_add(k, l, kp, lp, ntime, nfreq) ==
    LET j == k - kp + (nfreq \div 2)
    IN  IF l - lp \in 0 .. ntime - 1 /\ j \in 0 .. nfreq - 1 THEN filter2d_init(j, nfreq) ELSE 0

\* equalizer: the filter after subframe sf.
equalizer(channel, sf, ntime, nfreq, g) ==
    LET reset  == filter2d_reset(channel, ntime, g)
        pilots == [lp \in lte_refsig_symbolmask(0, g) |-> DOMAIN lte_refsig_put(0, sf, lp, g)]
        near(l, k) == UNION {{<<lp, kp>> : kp \in pilots[lp] \cap (k - nfreq .. k + nfreq)} :
                                lp \in DOMAIN pilots \cap (l - ntime + 1 .. l)}
        sum(l, k) == LET one(p) == filter2d_add(k, l, p[2], p[1], ntime, nfreq)
                     IN  MapThenSumSet(one, near(l, k))
    IN  [l \in DOMAIN reset |-> [k \in DOMAIN reset[l] |-> reset[l][k] + sum(l, k)]]

-----------------------------------------------------------------------------
(***************************************************************************)
(* The secondary synchronisation signal: its generation for a cell         *)
(* (lte_lib/grid/sync.c) and its detection (lte_sss_synch), and the cut of *)
(* the received stream into subframes at the primary one (lte_pss_synch).  *)
(* The signals are +1 and -1; a carrier that noise turned over is negated. *)
(***************************************************************************)
N_SSS == 31

-----------------------------------------------------------------------------
(* sync.c                                                                  *)

\* generate_zsc_tilde: the sequence of one feedback, where a bit is the sum
\* of the ones at the given places in front of it.
Tilde(taps) ==
    LET grow(x, i) ==
            LET bit(d) == x[Len(x) - 4 + d] IN Append(x, MapThenSumSet(bit, taps) % 2)
        x_tilde == FoldLeft(grow, <<0, 0, 0, 0, 1>>, [i \in 1 .. N_SSS - 5 |-> i])
    IN  <<>> \o [i \in 1 .. N_SSS |-> 1 - 2 * x_tilde[i]]
s_tilde == Tilde({2, 0})
c_tilde == Tilde({3, 0})
z_tilde == Tilde({4, 2, 1, 0})

generate_m0m1(N_id_1) ==
    LET q_prime == N_id_1 \div (N_SSS - 1)
        q       == (N_id_1 + ((q_prime * (q_prime + 1)) \div 2)) \div (N_SSS - 1)
        m_prime == N_id_1 + ((q * (q + 1)) \div 2)
        m0      == m_prime % N_SSS
    IN  [m0 |-> m0, m1 |-> (m0 + (m_prime \div N_SSS) + 1) % N_SSS]

generate_s(m, i) == s_tilde[((i + m) % N_SSS) + 1]
generate_c(N_id_2, is_c0, i) == c_tilde[((i + N_id_2 + (IF is_c0 > 0 THEN 3 ELSE 0)) % N_SSS) + 1]
generate_z(m, i) == z_tilde[((i + (m % 8)) % N_SSS) + 1]

\* Mutant: the second signal of the frame is scrambled like the first.
generate_sss_SameZ(cell_id, sf) ==
    LET m   == generate_m0m1(cell_id \div 3)
        id2 == cell_id % 3
        a   == IF sf = 0 THEN m.m0 ELSE m.m1
        b   == IF sf = 0 THEN m.m1 ELSE m.m0
    IN  [k \in 0 .. 2 * N_SSS - 1 |->
           LET i == k \div 2
           IN  IF k % 2 = 0 THEN generate_s(a, i) * generate_c(id2, 0, i)
               ELSE generate_s(b, i) * generate_c(id2, 1, i) * generate_z(m.m0, i)]

\* generate_sss: the halves of the array for subframe 0 and subframe 5.
generate_sss(cell_id, sf) ==
    LET m   == generate_m0m1(cell_id \div 3)
        id2 == cell_id % 3
        a   == IF sf = 0 THEN m.m0 ELSE m.m1
        b   == IF sf = 0 THEN m.m1 ELSE m.m0
    IN  [k \in 0 .. 2 * N_SSS - 1 |->
           LET i == k \div 2
           IN  IF k % 2 = 0 THEN generate_s(a, i) * generate_c(id2, 0, i)
               ELSE generate_s(b, i) * generate_c(id2, 1, i) * generate_z(a, i)]

-----------------------------------------------------------------------------
(* find_sss.c                                                              *)

\* The differential form of the s sequences, convert_tables.
convert_tables == [m \in 0 .. N_SSS - 1 |-> <<>> \o [j \in 1 .. N_SSS - 1 |->
                     generate_s(m, j) * generate_s(m, j - 1)]]

\* The real correlation of a differential signal with every s.
corr_all_zs(zprod) ==
    <<>> \o [m \in 1 .. N_SSS |->
        LET term(j) == zprod[j] * convert_tables[m - 1][j]
            sum == MapThenSumSet(term, 1 .. N_SSS - 1)
        IN  IF sum < 0 THEN -sum ELSE sum]

\* vec_max: the place, from 0, of the first of the largest.
vec_max(v) == (CHOOSE m \in DOMAIN v : /\ \A k \in DOMAIN v : v[k] <= v[m]
                                       /\ \A k \in 1 .. m - 1 : v[k] < v[m]) - 1

\* get_m0m1: m0 from the even carriers, then m1 from the odd ones with the
\* scrambling of m0 taken off; found only above the threshold.
Differential(z) == [j \in 1 .. N_SSS - 1 |-> z[j + 1] * z[j]]
Peak(corr) == [m |-> vec_max(corr), height |-> corr[vec_max(corr) + 1]]
Found(p0, p1, threshold) ==
    [found |-> p0.height >= threshold /\ p1.height >= threshold, m0 |-> p0.m, m1 |-> p1.m]
get_m1(input, N_id_2, threshold, p0) ==
    LET z1 == [i \in 1 .. N_SSS |->
                 input[2 * i - 1] * generate_c(N_id_2, 1, i - 1) * generate_z(p0.m, i - 1)]
    IN  Found(p0, Peak(corr_all_zs(Differential(<<>> \o z1))), threshold)
get_m0m1(input, N_id_2, threshold) ==
    LET z0 == [i \in 1 .. N_SSS |-> input[2 * i - 2] * generate_c(N_id_2, 0, i - 1)]
    IN  get_m1(input, N_id_2, threshold, Peak(corr_all_zs(Differential(<<>> \o z0))))

decide_subframe(m0, m1) == IF m1 > m0 THEN 0 ELSE 5

\* work of lte_sss_synch on one subframe: the subframe_rx message to ctrl, and
\* the new value of first; the first message must announce subframe 0.
Announce(d, first) ==
    LET sf == decide_subframe(d.m0, d.m1)
    IN  IF d.found /\ ~(sf # 0 /\ first) THEN [msg |-> {sf}, first |-> FALSE]
        ELSE [msg |-> {}, first |-> first]
lte_sss_synch(input, N_id_2, threshold, first) ==
    Announce(get_m0m1(input, N_id_2, threshold), first)

-----------------------------------------------------------------------------
(* lte_pss_synch                                                           *)

NOT_SYNC == -252645136      \* 0xF0F0F0F0 as an int

\* Mutant: the tail of a packet is not kept for the frame that starts in it.
frame_cut_NoTail(input, start, buf, wp) ==
    LET n == Len0(input)
    IN  IF start = NOT_SYNC \/ start > 0 THEN [out |-> <<>>, buf |-> input, wp |-> wp]
        ELSE [out |-> [p \in 0 .. n - 1 |-> IF p < -start THEN buf[n + start + p] ELSE input[p + start]],
              buf |-> buf, wp |-> wp]

\* The cut of lte_pss_synch's work: start is frame_start_idx, buf the
\* frame_buffer, wp fb_wp.  Nothing goes out while the start is unknown, and
\* with a positive one while the buffer has no front part.
frame_cut(input, start, buf, wp) ==
    LET n == Len0(input)
        Fill(at, from, many) == [p \in 0 .. n - 1 |->
                    IF p \in at .. at + many - 1 THEN input[from + p - at] ELSE buf[p]]
    IN  IF start = NOT_SYNC THEN [out |-> <<>>, buf |-> input, wp |-> wp]
        ELSE IF start > 0
             THEN [out |-> IF wp THEN Fill(n - start, 0, start) ELSE <<>>,
                   buf |-> [p \in 0 .. n - 1 |->
                              IF p < n - start THEN input[start + p]
                              ELSE IF wp THEN input[p - n + start] ELSE buf[p]],
                   wp  |-> TRUE]
        ELSE [out |-> [p \in 0 .. n - 1 |->
                         IF p < -start THEN buf[n + start + p] ELSE input[p + start]],
              buf |-> Fill(n + start, n + start, -start),
              wp  |-> wp]

\* work of lte_pss_synch: peak is where find_pss saw the signal, -1 for a
\* miss.  A peak sets the start of the frames; after ten times unsync misses
\* in all, and from then on at every miss, the start is unknown.
lte_pss_synch(st, input, peak, unsync) ==
    LET nosync == IF peak = -1 /\ unsync > 0 THEN st.nosync + 1 ELSE st.nosync
        start  == IF peak # -1 THEN peak - (Len0(input) \div 2)
                  ELSE IF unsync > 0 /\ nosync >= unsync * 10 THEN NOT_SYNC
                  ELSE st.start
        cut    == frame_cut(input, start, st.buf, st.wp)
    IN  [nosync |-> nosync, start |-> start, buf |-> cut.buf, wp |-> cut.wp, out |-> cut.out]
=============================================================================
