------------------------------- MODULE MCPdsch -------------------------------
(* The parameters with which the bit chain of the shared channel is checked. *)
EXTENDS Pdsch

\* An irregular payload of n bits.
Payload(n) == [i \in 0 .. n - 1 |-> ((7 * i * i + 3 * i + (i \div 3)) \div 4) % 2]

Cell == [channel |-> PDSCH, nrnti |-> 4660, q |-> 1, cell_gr |-> 2,
         cell_sec |-> 1, nMBSFN |-> 77]

\* Twelve packets, so that the subframe counter wraps; some are lost, some
\* slots are silent.  40 code bits, punctured from 132 to 90.
Counting ==
    [payload |-> Payload(24), long_crc |-> 16, poly |-> 32773, out_len |-> 90,
     rvidx |-> 0, par |-> Cell, sample |-> 0, direct |-> FALSE, ext |-> FALSE,
     forward |-> FALSE, errs |-> {}, slots |-> 12, silent |-> FALSE, losses |-> 2,
     iterations |-> 1]

\* Subframe set by the application; every coded bit sent at least once.
Driven ==
    [Counting EXCEPT !.ext = TRUE, !.rvidx = 1, !.out_len = 200, !.slots = 4,
                     !.silent = TRUE, !.forward = TRUE]

\* Every burst of up to 16 bits that is solid, or wrong at its ends only.
Solid == {b \in {<<s, l>> : s \in 0 .. 39, l \in 1 .. 16} : b[1] + b[2] <= 40}
BurstSet == {b[1] .. b[1] + b[2] - 1 : b \in Solid}
            \cup {{b[1], b[1] + b[2] - 1} : b \in Solid}
Noisy == [Counting EXCEPT !.slots = 1, !.losses = 0, !.errs = BurstSet, !.rvidx = 2]

\* Other block sizes: all shapes of the interleaver (5, 10 and 20 rows; one
\* column less than the prime, as many, one more).
Sized(k, outlen, rv) ==
    [Counting EXCEPT !.payload = Payload(k - 16), !.out_len = outlen, !.rvidx = rv,
                     !.slots = 1, !.losses = 0, !.direct = TRUE]

\* The other channels' sequences.
Channel(ch) == [Counting EXCEPT !.par.channel = ch, !.rvidx = 3, !.slots = 2,
                                !.losses = 1, !.silent = TRUE]

Settings ==
    <<Counting, Driven, Noisy, Sized(50, 162, 0), Sized(53, 120, 1),
      Sized(160, 330, 2), Sized(210, 430, 3), Sized(483, 1000, 1), Sized(2300, 3000, 0),
      Sized(5114, 9000, 0),
      Channel(PCFICH), Channel(PDCCH), [Channel(PBCH) EXCEPT !.sample = 480],
      Channel(PMCH), Channel(PUCCH)>>

\* A block of the transport size 440 and its 16 check bits, all of its coded
\* bits sent: 456 = 3 * 150 + 6 bits, which DEC_RSC takes in windows of 150.
Window == <<Sized(456, 1380, 0)>>
=============================================================================
