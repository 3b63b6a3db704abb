-------------------------------- MODULE Phy ---------------------------------
(***************************************************************************)
(* The signal chains of app_dl, module by module: a message through the    *)
(* modules of pcfich_tx, pdcch_tx or pbch_tx and back through pcfich_rx,   *)
(* pdcch_rx or pbch_rx; a whole subframe through the resource mapper,      *)
(* symb_tx, symb_rx and the demappers; and the modules that stand alone.   *)
(* An action is one module as app_dl configures it: the parameters that    *)
(* its initialize() reads, and its work() on the packet at its input.  A   *)
(* job is one packet's journey: its kind names the chain, its other fields *)
(* the message, the parameters and what the air does to the symbols.       *)
(***************************************************************************)
EXTENDS ControlCode, Modem, Framing, GenCrc, Scrambling

CONSTANTS JobsOf(_),   \* the jobs of a kind
          Subframes     \* the subframes of their scrambling

VARIABLES
    job,        \* the journey
    at,         \* the place in the chain of the module to run next
    pkt,        \* the packet at that module's input
    got,        \* what the modules at the end of the chain delivered
    failed      \* a work() returned -1, which stops the waveform

vars == <<job, at, pkt, got, failed>>

Kinds == {"pcfich", "pdcch", "pbch", "subframe", "symbols", "sss", "pilots", "block",
          "frames", "padding"}

\* The interfaces of the applications, in the order of the modules.
Chain(kind) ==
    CASE kind = "pcfich" -> <<"cfi", "scrambling", "modulator", "air", "hard_demod",
                              "descrambling", "decoder_cfi">>
      [] kind = "pdcch"  -> <<"dci", "crc", "coder", "ratematching", "scrambling",
                              "modulator", "air", "soft_demod", "descrambling",
                              "unratematching", "decoder", "crc_check", "unpack_dci">>
      [] kind = "pbch"   -> <<"bch", "crc", "crc_scramble", "coder", "ratematching",
                              "bch_demux", "scrambling", "modulator", "air", "soft_demod",
                              "descrambling", "unratematching", "decoder",
                              "crc_descramble", "crc_check", "unpack_bch">>
      [] kind = "subframe" -> <<"resmapp", "demux_tx", "ifft", "cyclic", "mux_tx", "demux",
                                "remcyclic", "fft", "mux_rx", "resdemapp_pbch", "resdemapp_pcfich",
                                "resdemapp_pdcch", "resdemapp_pdsch">>
      [] kind = "symbols" -> <<"modulator", "air", "both_demod">>
      [] kind = "sss"     -> <<"sss", "air", "sss_synch">>
      [] kind = "pilots"  -> <<"equalizer", "equalizer">>
      [] kind = "block"   -> <<"segmentation">>
      [] kind = "padding" -> <<"padding", "unpadding">>
      [] kind = "frames"  -> [k \in 1 .. 12 |-> "pss_synch"]

Done == failed \/ at > Len(Chain(job.kind))
Here(m) == ~Done /\ Chain(job.kind)[at] = m

\* A module hands its packet on, delivers a result, or fails.
Forward(out) == /\ pkt' = out
                /\ at' = at + 1
                /\ UNCHANGED <<job, got, failed>>
Deliver(result) == /\ got' = result
                   /\ at' = at + 1
                   /\ UNCHANGED <<job, pkt, failed>>
Returned(r) == /\ failed' = (r.ret < 0)
               /\ pkt' = r.out
               /\ at' = at + 1
               /\ UNCHANGED <<job, got>>

Init ==
    /\ \E kind \in Kinds : job \in JobsOf(kind)
    /\ at = 1 /\ pkt = <<>> /\ got = <<>> /\ failed = FALSE

-----------------------------------------------------------------------------
(* The control channels                                                    *)

\* The parameters of the .app files: the generators, the CRC, E and S.
K == 7
g3 == <<91, 127, 117>>
LONG_CRC == 16
POLY == 32773
EOf(kind) == IF kind = "pdcch" THEN 144 ELSE 1920
SOf(kind) == IF kind = "pdcch" THEN 111 ELSE 120

par(kind) == [channel |-> CASE kind = "pcfich" -> PCFICH [] kind = "pdcch" -> PDCCH [] OTHER -> PBCH,
              cell_gr |-> IF kind = "pcfich" THEN 101 ELSE 2,
              cell_sec |-> IF kind = "pcfich" THEN 2 ELSE 0,
              nrnti |-> 0, q |-> 0, nMBSFN |-> 0]
\* c[subframe]: the scrambling words that initialize() prepares.
c_pcfich == [n \in Subframes |-> sequence_generation(par("pcfich"), n, 2)]
c_pdcch == [n \in Subframes |-> sequence_generation(par("pdcch"), n, 6)]
c_pbch == sequence_generation(par("pbch"), 0, 15)
c == CASE job.kind = "pcfich" -> c_pcfich[job.sf]
       [] job.kind = "pdcch"  -> c_pdcch[job.sf]
       [] OTHER               -> c_pbch

CfiCoding == Here("cfi") /\ Returned(lte_cfi_coding(job.cfi))
DciPack == Here("dci") /\ Returned(send_dci(TRUE, job.mcs, job.nof_rbg, job.mask))
BchPack == Here("bch") /\ Returned(send_bch(TRUE, job.nof_prb, job.sfn, <<0, 0, 0>>))

Crc == Here("crc") /\ Forward(PasteCrc(pkt, LONG_CRC, POLY))

CrcScramble == Here("crc_scramble") /\ Forward(srambling(pkt, pbch_sequence_gen(job.nof_ports)))

Coder == Here("coder") /\ Forward(conv_encode(pkt, K, g3, TRUE))

Ratematching == Here("ratematching") /\ Forward(rate_matching(pkt, EOf(job.kind)))

\* lte_bch_demux in the frame of the four that the job is about.
BchDemux == Here("bch_demux") /\ Forward(Part(pkt, job.frame * (Len0(pkt) \div 4), Len0(pkt) \div 4))

ScramblingWork ==
    /\ Here("scrambling")
    /\ Forward(scramble(pkt, Len0(pkt), c, job.kind = "pbch", 0))

Modulator ==
    /\ Here("modulator")
    /\ IF job.kind = "symbols"
       THEN Returned(gen_modulator(pack_bits(job.value, job.modulation), job.modulation, FALSE))
       ELSE Returned(gen_modulator(pkt, QPSK, FALSE))

\* External: the channel erases some symbols of the packet, turns some over
\* and moves them all by the job's displacement.
Air ==
    /\ Here("air")
    /\ IF job.kind = "sss"
       THEN Forward([i \in DOMAIN pkt |-> IF i \in job.turned THEN -pkt[i] ELSE pkt[i]])
       ELSE Forward([i \in DOMAIN pkt |->
                        IF i \in job.erased THEN <<0, 0>>
                        ELSE IF i \in job.turned THEN <<-pkt[i][1], -pkt[i][2]>>
                        ELSE <<pkt[i][1] + job.moved[1], pkt[i][2] + job.moved[2]>>])

HardDemod == Here("hard_demod") /\ Returned(gen_hard_demod(pkt, QPSK))
SoftDemod == Here("soft_demod") /\ Returned(gen_soft_demod(pkt, QPSK))

\* The receivers of the control channels set hard to 1 for the format
\* indicator and to 0 for the soft bits of the others.
Descrambling ==
    /\ Here("descrambling")
    /\ Forward(IF job.kind = "pcfich" THEN scramble(pkt, Len0(pkt), c, TRUE, 0)
               ELSE soft_scrambling(pkt, Len0(pkt), c, 0))

Unratematching == Here("unratematching") /\ Forward(rate_unmatching(pkt, SOf(job.kind)))

Decoder == Here("decoder") /\ Forward(viterbi_decode(pkt, K, g3))

CrcDescramble == Here("crc_descramble") /\ Forward(srambling(pkt, pbch_sequence_gen(job.nof_ports)))

\* The receiving gen_crc; a bad packet goes on where forward_on_error is set.
CrcCheck ==
    /\ Here("crc_check")
    /\ Forward(IF icrc(0, pkt, LONG_CRC, POLY) # 0 /\ job.kind # "pdcch" THEN <<>>
               ELSE Part(pkt, 0, Len0(pkt) - LONG_CRC))

CfiDecoding == Here("decoder_cfi") /\ Deliver(lte_cfi_decoding(pkt, NOF_BITS).msg)
DciUnpack == Here("unpack_dci") /\ Deliver(recv_dci(pkt, job.nof_rbg))
BchUnpack == Here("unpack_bch") /\ Deliver(recv_bch(pkt))

-----------------------------------------------------------------------------
(* A subframe                                                              *)

\* symb_tx.app and symb_rx.app: 14 symbols of 128 carriers; symbols 0 and 7
\* go through the instances cyclic_first, with a longer prefix.
DFT_SIZE == 128
PrefixOf(l) == IF l \in {1, 8} THEN 10 ELSE 9

g == [nof_prb |-> 6, nof_ports |-> 1, nof_osymb_x_subf |-> 14, cfi |-> job.cfi,
      cell_id |-> job.cell_id, nof_cce |-> 2, rbg_mask |-> job.mask]
\* The grid of a receiver that has not yet heard the format indicator.
g_rx == IF job.heard THEN g ELSE [g EXCEPT !.cfi = -1]

\* The symbols of the channels, told apart by channel and number.
Input(ch) == [i \in 0 .. lte_ch_get_re(ch, job.sf, g) - 1 |-> <<ch, 1, i>>]
Inputs == [ch \in {CH_PBCH, CH_PCFICH, CH_PDCCH, CH_PDSCH} |-> Input(ch)]

\* The symbols' packets p, each through the same module.
Each(p) == [ret |-> IF \A l \in DOMAIN p : p[l].ret >= 0 THEN 0 ELSE -1,
            out |-> [l \in DOMAIN p |-> p[l].out]]

Resmapp == Here("resmapp") /\ Returned(lte_resource_mapper(Inputs, job.sf, g))

DemuxTx == Here("demux_tx") /\ Returned(gen_demux(pkt, [l \in 1 .. 14 |-> 0]))

Ifft ==
    /\ Here("ifft")
    /\ Returned(Each([l \in 1 .. 14 |-> gen_dft(pkt[l], DFT_SIZE, DFT_MIRROR_PRE, TRUE)]))

Cyclic ==
    /\ Here("cyclic")
    /\ Returned(Each([l \in 1 .. 14 |-> gen_cyclic(pkt[l], DFT_SIZE, PrefixOf(l), PrefixOf(l))]))

MuxTx == Here("mux_tx") /\ Returned(gen_mux(pkt, FALSE))

Demux ==
    /\ Here("demux")
    /\ Returned(gen_demux(pkt, [l \in 1 .. 14 |-> IF l \in {1, 8} THEN DFT_SIZE + 10 ELSE 0]))

Remcyclic ==
    /\ Here("remcyclic")
    /\ Returned(Each([l \in 1 .. 14 |-> gen_remcyclic(pkt[l], DFT_SIZE, PrefixOf(l), PrefixOf(l))]))

Fft ==
    /\ Here("fft")
    /\ Returned(Each([l \in 1 .. 14 |-> gen_dft(pkt[l], DFT_SIZE, DFT_MIRROR_POS, TRUE)]))

MuxRx == Here("mux_rx") /\ Returned(gen_mux(pkt, FALSE))

\* The demappers in a row: each takes its channel and passes the subframe on.
\* Those of the broadcast and the format indicator run before cfi is known.
Demappers == [resdemapp_pbch |-> CH_PBCH, resdemapp_pcfich |-> CH_PCFICH,
              resdemapp_pdcch |-> CH_PDCCH, resdemapp_pdsch |-> CH_PDSCH]
Resdemapp(m) ==
    /\ Here(m)
    /\ \E r \in {lte_resource_demapper(pkt, Demappers[m], job.sf, Zero,
                   IF m \in {"resdemapp_pbch", "resdemapp_pcfich"} THEN g_rx ELSE g)} :
         /\ failed' = (r.ret < 0)
         /\ got' = Append(got, r.out)
         /\ pkt' = r.copy
    /\ at' = at + 1
    /\ UNCHANGED job

-----------------------------------------------------------------------------
(* Modules on their own                                                    *)

BothDemod ==
    /\ Here("both_demod")
    /\ Deliver([hard |-> gen_hard_demod(pkt, job.modulation).out,
                soft |-> gen_soft_demod(pkt, job.modulation).out])

Sss == Here("sss") /\ Forward(generate_sss(job.cell_id, job.sf))
SssSynch == Here("sss_synch") /\ Deliver(lte_sss_synch(pkt, job.cell_id % 3, job.threshold, job.first))

\* The filter starts cleared, and keeps its rows from one subframe to the next.
ntime == 4
nfreq == 10
g_pilots == [nof_prb |-> 6, nof_ports |-> 1, nof_osymb_x_subf |-> 14, cfi |-> 1,
             cell_id |-> job.cell_id, nof_cce |-> 0, rbg_mask |-> {}]
Equalizer ==
    /\ Here("equalizer")
    /\ Forward(equalizer(IF at = 1 THEN [l \in 0 .. 17 |-> [k \in 0 .. 127 |-> 0]] ELSE pkt,
                         (job.sf + at - 1) % 10, ntime, nfreq, g_pilots))

Segmentation == Here("segmentation") /\ Deliver(lte_segmentation(job.tbs))

\* gen_padding in its two directions, on job.packets packets of five samples.
Padding ==
    /\ Here("padding")
    /\ Returned(gen_padding([i \in 0 .. 5 * job.packets - 1 |-> i], job.pre, job.post, job.packets, 0))
Unpadding ==
    /\ Here("unpadding")
    /\ Deliver(gen_padding(pkt, job.pre, job.post, job.packets, 1).out)

\* The stream arrives in packets of PktLen samples, numbered from the start;
\* pkt holds the variables of lte_pss_synch, got its last two starts and what
\* it sent.  The frame buffer is cleared before the first packet.
PktLen == 8
PssSynch ==
    LET st == IF at > 1 THEN pkt
              ELSE [nosync |-> 0, start |-> NOT_SYNC, wp |-> FALSE, out |-> <<>>,
                    buf |-> [p \in 0 .. PktLen - 1 |-> -1]]
    IN  /\ Here("pss_synch")
        /\ pkt' = lte_pss_synch(st, [p \in 0 .. PktLen - 1 |-> (at - 1) * PktLen + p],
                                job.peaks[at], job.unsync)
        /\ got' = [before |-> st.start, start |-> pkt'.start, out |-> pkt'.out]
        /\ at' = at + 1
        /\ UNCHANGED <<job, failed>>

Next ==
    \/ CfiCoding \/ DciPack \/ BchPack \/ Crc \/ CrcScramble \/ Coder \/ Ratematching
    \/ BchDemux \/ ScramblingWork \/ Modulator \/ Air \/ HardDemod \/ SoftDemod
    \/ Descrambling \/ Unratematching \/ Decoder \/ CrcDescramble \/ CrcCheck
    \/ CfiDecoding \/ DciUnpack \/ BchUnpack
    \/ Resmapp \/ DemuxTx \/ Ifft \/ Cyclic \/ MuxTx \/ Demux \/ Remcyclic \/ Fft \/ MuxRx
    \/ \E m \in DOMAIN Demappers : Resdemapp(m)
    \/ BothDemod \/ Sss \/ SssSynch \/ Equalizer \/ Segmentation
    \/ Padding \/ Unpadding \/ PssSynch

Spec == Init /\ [][Next]_vars

-----------------------------------------------------------------------------
(* Properties                                                              *)

\* What ctrl is told at the end of a control channel is what ctrl said at
\* its start: the format indicator although up to five of its symbols are
\* turned over (ten of 32 bits, less than half the distance of the words),
\* the assignment and the broadcast block over a channel that loses nothing,
\* whatever the frame of the four, the ports in the CRC mask and the subframe
\* of the scrambling.
MessageArrives ==
    Done =>
      /\ job.kind = "pcfich" => got = {job.cfi}
      /\ job.kind = "pdcch" => got = {[mcs |-> job.mcs, nof_rbg |-> job.nof_rbg,
                                       rbg_mask |-> job.mask]}
      /\ job.kind = "pbch" => got = {[nof_prb |-> job.nof_prb, sfn |-> job.sfn]}

\* The PDCCH inputs that the mapper reads at all.
PdcchRead == {FirstOf(i) + d : i \in 1 .. NOF_REGS_X_CCE * 2, d \in 0 .. 3}

\* No channel's symbols overwrite another's, and mapper and demapper, cyclic
\* prefixes and transforms, multiplexers on both sides take the same walk:
\* every demapper gets its channel's symbols in the order they were sent,
\* for every cell, format indicator, subframe and allocation.  Of the PDCCH
\* this is asked of the inputs the mapper reads.  And gen_padding takes off
\* again what it puts on.
SubframeArrives ==
    /\ job.kind = "subframe" /\ Done =>
         /\ ~failed
         /\ got[1] = Input(CH_PBCH)
         /\ got[2] = Input(CH_PCFICH)
         /\ \A i \in PdcchRead : got[3][i] = Input(CH_PDCCH)[i]
         /\ got[4] = Input(CH_PDSCH)
    /\ job.kind = "padding" /\ Done => got = [i \in 0 .. 5 * job.packets - 1 |-> i]

\* The three descriptions of a constellation agree: a symbol moved by less
\* than half the distance to its neighbour is taken by gen_hard_demod for
\* the bits gen_modulator was given, and gen_soft_demod's likelihoods have
\* the sign of those bits.
DemodulatorsAgree ==
    job.kind = "symbols" /\ Done =>
        LET bits == pack_bits(job.value, job.modulation)
        IN  \A b \in DOMAIN bits : /\ got.hard[b] = bits[b]
                                   /\ IF bits[b] = 1 THEN got.soft[b] > 0 ELSE got.soft[b] < 0

\* A cell's synchronisation signal announces the subframe it was sent in,
\* with up to three carriers turned over, and never before the first
\* announcement of subframe 0.
SubframeIsFound ==
    job.kind = "sss" /\ Done =>
        got = IF job.sf = 5 /\ job.first THEN [msg |-> {}, first |-> TRUE]
              ELSE [msg |-> {job.sf}, first |-> FALSE]

\* The frames that lte_pss_synch cuts out of the stream: where a packet leaves
\* the start of the frames as it was, what goes out is one whole frame, all
\* its samples in a row, though it lies across two packets and whatever
\* misses, losses of the start and other starts came before.
FramesAreWhole ==
    job.kind = "frames" /\ at > 1 /\ got.start = got.before /\ got.start # NOT_SYNC =>
        LET first == (at - 2) * PktLen + got.start - (IF got.start > 0 THEN PktLen ELSE 0)
        IN  got.out = [p \in 0 .. PktLen - 1 |-> first + p]

\* Every row of a subframe is equalised with an estimate that pilots went
\* into, from the second subframe on in all its carriers but the last.
PilotsReachEveryCarrier ==
    job.kind = "pilots" /\ at > 2 =>
        \A l \in 0 .. 13, k \in pre_guard(g_pilots) .. pre_guard(g_pilots) + 70 : pkt[l][k] > 0

\* The code blocks of a transport block: each has a length of the turbo
\* interleaver's table once its check bits are counted, and their data tile
\* the input without gap or overlap.
BlocksTile ==
    job.kind = "block" /\ Done =>
        LET n    == Len0(got)
            data(i) == got[i].len - got[i].filler
            crc  == IF n > 1 THEN L ELSE 0
        IN  /\ \A i \in 0 .. n - 1 :
                  /\ data(i) > 0
                  /\ got[i].from + data(i) = IF i = n - 1 THEN job.tbs ELSE got[i + 1].from
            /\ n > 1 => \A i \in 0 .. n - 1 : \E x \in 1 .. 188 : got[i].len + crc = Table5133(x)
=============================================================================
