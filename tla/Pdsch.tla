-------------------------------- MODULE Pdsch --------------------------------
(***************************************************************************)
(* The bit chain of the shared channel, app_dl/pdsch_tx.app against        *)
(* app_dl/pdsch_rx.app:                                                    *)
(*   gen_crc add -> turbo coder -> rate matching -> scrambling -> air      *)
(*   -> soft descrambling -> unrate matching -> turbo decoder              *)
(*   -> gen_crc check.                                                     *)
(* A slot carries at most one block through all of it, one module's work() *)
(* per step; the modules keep state from slot to slot (the scramblers      *)
(* their subframe counter, the checker its two totals).  Nothing is known  *)
(* of the radio but whether the block arrives.                             *)
(*                                                                         *)
(* Noise is not modelled in the soft values: what a decoder makes of it is *)
(* any pattern of errs added to the block it decides.                      *)
(***************************************************************************)
EXTENDS GenCrc, TurboCode, Scrambling

CONSTANT Configurations   \* sequence of records: the parameters of the modules
ASSUME ConfigurationsAssumption ==
    \A k \in DOMAIN Configurations :
        LET cf == Configurations[k]
        IN  /\ {"payload", "long_crc", "poly", "out_len", "rvidx", "par",
                "sample", "direct", "ext", "forward", "errs", "slots", "silent",
                "losses", "iterations"} = DOMAIN cf
            /\ cf.slots \in Nat \ {0} /\ cf.losses \in Nat /\ cf.iterations \in Nat \ {0}
            /\ cf.long_crc \in {8, 16, 24}
            /\ Len0(cf.payload) + cf.long_crc \in 40 .. MaxCodeBlock
            /\ cf.sample % BIT_PER_INT = 0

VARIABLES
    conf,           \* which parameters both waveforms were started with
    stage,          \* the module whose work() is next
    buf,            \* the packet in front of it
    sent,           \* what each stage of the transmitter made of the block
    txsf, rxsf,     \* the static subframe of the two scrambling modules
    total_pkts, total_errors,   \* the counters of the checking gen_crc
    out,            \* what it forwarded for this block
    slot,           \* slots begun
    lost,           \* blocks lost on the air
    damaged         \* blocks that the decoder gave back with an error

vars == <<conf, stage, buf, sent, txsf, rxsf, total_pkts, total_errors, out,
          slot, lost, damaged>>

None == <<>>

Conf == Configurations[conf]

CodeBlock == Len0(Conf.payload) + Conf.long_crc      \* bits into the coder
CodedLen == RATE * CodeBlock + TOTALTAIL

\* The scrambling words of a subframe, enough for one packet.
NofWords == (Conf.sample + Conf.out_len) \div 32 + 1
c(subframe) == sequence_generation(Conf.par, subframe, NofWords)

\* verify_params forces the bit-by-bit loop on the broadcast channel.
Direct == Conf.direct \/ Conf.par.channel = PBCH

\* Mutant: the counter wraps to 1.
NextSubframe_ToOne(subframe) ==
    IF Conf.par.channel = PBCH THEN 0
    ELSE IF Conf.ext THEN (slot - 1) % NOF_SUBFRAMES
    ELSE IF subframe = 9 THEN 1 ELSE subframe + 1

\* The subframe that work() of lte_scrambling uses: 0 on the broadcast
\* channel, the parameter where the application sets one, else the module's
\* own count of the packets it has seen.
NextSubframe(subframe) ==
    IF Conf.par.channel = PBCH THEN 0
    ELSE IF Conf.ext THEN (slot - 1) % NOF_SUBFRAMES
    ELSE IF subframe = 9 THEN 0 ELSE subframe + 1

\* The first sample of c: a parameter of the broadcast channel only.
Sample == IF Conf.par.channel = PBCH THEN Conf.sample ELSE 0

Init ==
    /\ conf \in DOMAIN Configurations
    /\ stage = "idle"
    /\ buf = None
    /\ sent = [crc |-> None, coded |-> None, matched |-> None, air |-> None]
    /\ txsf = -1 /\ rxsf = -1
    /\ total_pkts = 0 /\ total_errors = 0
    /\ out = None
    /\ slot = 0 /\ lost = 0 /\ damaged = 0

\* The transmitter's gen_crc: a block arrives and gets its check bits.
AddCrc ==
    /\ stage = "idle" /\ slot < Conf.slots
    /\ slot' = slot + 1
    /\ buf' = PasteCrc(Conf.payload, Conf.long_crc, Conf.poly)
    /\ sent' = [sent EXCEPT !.crc = buf']
    /\ out' = None
    /\ stage' = "coder"
    /\ UNCHANGED <<conf, txsf, rxsf, total_pkts, total_errors, lost, damaged>>

\* A slot without data: every work() returns at once.
NoData ==
    /\ stage = "idle" /\ slot < Conf.slots /\ Conf.silent
    /\ slot' = slot + 1
    /\ out' = None
    /\ UNCHANGED <<conf, stage, buf, sent, txsf, rxsf, total_pkts, total_errors,
                   lost, damaged>>

Encode ==
    /\ stage = "coder"
    /\ buf' = turbo_coder(buf, CodeBlock)
    /\ sent' = [sent EXCEPT !.coded = buf']
    /\ stage' = "ratematching"
    /\ UNCHANGED <<conf, txsf, rxsf, total_pkts, total_errors, out, slot, lost,
                   damaged>>

Match ==
    /\ stage = "ratematching"
    /\ buf' = char_RM_block(buf, CodedLen, Conf.out_len, Conf.rvidx)
    /\ sent' = [sent EXCEPT !.matched = buf']
    /\ stage' = "scrambling"
    /\ UNCHANGED <<conf, txsf, rxsf, total_pkts, total_errors, out, slot, lost,
                   damaged>>

Scramble ==
    /\ stage = "scrambling"
    /\ txsf' = NextSubframe(txsf)
    /\ \E words \in {c(NextSubframe(txsf))} :
           buf' = scramble(buf, Conf.out_len, words, Direct, Sample)
    /\ sent' = [sent EXCEPT !.air = buf']
    /\ stage' = "air"
    /\ UNCHANGED <<conf, rxsf, total_pkts, total_errors, out, slot, lost, damaged>>

\* The symbols arrive: the demapper gives a positive value for a 1 and a
\* negative one for a 0.
Arrive ==
    /\ stage = "air"
    /\ buf' = [i \in 0 .. Conf.out_len - 1 |-> 2 * buf[i] - 1]
    /\ stage' = "descrambling"
    /\ UNCHANGED <<conf, sent, txsf, rxsf, total_pkts, total_errors, out, slot,
                   lost, damaged>>

\* The receiver has no input in this slot.
Lose ==
    /\ stage = "air" /\ lost < Conf.losses
    /\ lost' = lost + 1
    /\ buf' = None
    /\ stage' = "idle"
    /\ UNCHANGED <<conf, sent, txsf, rxsf, total_pkts, total_errors, out, slot,
                   damaged>>

Descramble ==
    /\ stage = "descrambling"
    /\ rxsf' = NextSubframe(rxsf)
    /\ \E words \in {c(NextSubframe(rxsf))} :
           buf' = soft_scrambling(buf, Conf.out_len, words, Sample)
    /\ stage' = "unratematching"
    /\ UNCHANGED <<conf, sent, txsf, total_pkts, total_errors, out, slot, lost,
                   damaged>>

Unmatch ==
    /\ stage = "unratematching"
    /\ buf' = float_UNRM_block(buf, Conf.out_len, CodedLen, Conf.rvidx)
    /\ stage' = "decoder"
    /\ UNCHANGED <<conf, sent, txsf, rxsf, total_pkts, total_errors, out, slot,
                   lost, damaged>>

\* lte_turbocode as decoder, an error pattern added.
Decode ==
    /\ stage = "decoder"
    /\ \E block \in {turbo_decoder(buf, (Len0(buf) - TOTALTAIL) \div RATE, Conf.iterations)} :
       \E err \in {{}} \cup Conf.errs :
        /\ buf' = [i \in DOMAIN block |-> IF i \in err THEN 1 - block[i] ELSE block[i]]
        /\ damaged' = IF buf' # sent.crc THEN damaged + 1 ELSE damaged
    /\ stage' = "uncrc"
    /\ UNCHANGED <<conf, sent, txsf, rxsf, total_pkts, total_errors, out, slot,
                   lost>>

\* The receiver's gen_crc: count, and forward unless the check failed and
\* forward_on_error is off.
CheckCrc ==
    LET n == icrc(0, buf, Conf.long_crc, Conf.poly)
    IN  /\ stage = "uncrc"
        /\ total_errors' = IF n # 0 THEN total_errors + 1 ELSE total_errors
        /\ total_pkts' = total_pkts + 1
        /\ out' = IF ~(~Conf.forward /\ n # 0)
                  THEN [i \in 0 .. CodeBlock - Conf.long_crc - 1 |-> buf[i]]
                  ELSE None
        /\ buf' = None
        /\ stage' = "idle"
        /\ UNCHANGED <<conf, sent, txsf, rxsf, slot, lost, damaged>>

Next ==
    \/ AddCrc \/ NoData \/ Encode \/ Match \/ Scramble \/ Arrive \/ Lose
    \/ Descramble \/ Unmatch \/ Decode \/ CheckCrc

Spec == Init /\ [][Next]_vars
-----------------------------------------------------------------------------
\* The scramblers use the same sequence.
InStep == txsf = rxsf

\* A scrambler that counts by itself counts packets, not slots: after a loss
\* the two ends stay apart by the number of blocks lost, and are in step
\* whenever that is a multiple of ten.  A subframe set by the application
\* keeps them in step whatever is lost.
ApartByLosses ==
    stage \in {"unratematching", "decoder", "uncrc"} =>
        IF Conf.ext \/ Conf.par.channel = PBCH THEN txsf = rxsf
        ELSE (txsf - rxsf) % 10 = lost % 10

\* The decoder recovers the block from what was sent of it, at every length
\* of block: the windows of DEC_RSC, the exchange between its two passes and
\* the interleaver fit the coder.  Redundancy version 0 starts with the block
\* itself and a third more is enough; the others need twice as much as the
\* block.  No error pattern, and scramblers in step.
DecoderRecovers ==
    stage = "uncrc" /\ InStep /\ Conf.errs = {}
        /\ 3 * Conf.out_len >= (IF Conf.rvidx = 0 THEN 4 ELSE 6) * CodeBlock
        => buf = sent.crc

\* The error total of gen_crc is the number of damaged blocks: a clean block
\* is never counted, a damaged one always.  So, with forward_on_error off,
\* what leaves the receiver is what entered the transmitter.
DamageIsCaught ==
    /\ stage = "idle" => total_errors = damaged
    /\ out # None /\ ~Conf.forward => out = Conf.payload
=============================================================================
