------------------------------- MODULE GenCrc -------------------------------
(***************************************************************************)
(* The cyclic redundancy check of modrep_osld/gen_crc (crc.c).  A packet   *)
(* is a function from 0 .. n-1 to bits, as the char arrays of the code.    *)
(*                                                                         *)
(* cword is a 32-bit unsigned word in the code.  The values here are the   *)
(* same numbers: icrc1 shifts at most long_crc \div 2 times a word below   *)
(* 2^long_crc, so for long_crc <= 16 nothing reaches bit 31, and for       *)
(* long_crc = 24 the polynomial (bit 24 set) takes the outgoing bit away.  *)
(***************************************************************************)
EXTENDS Arrays, Bitwise

LOCAL INSTANCE FiniteSetsExt

\* Mutant: the polynomial is never subtracted.
icrc1_NoPoly(crc, onech, long_crc, left_shift, poly) ==
    (crc ^^ (onech * 2^(long_crc \div 2))) * 2^left_shift

\* left_shift times a bit of tmp leaves and the polynomial is subtracted.
icrc1(crc, onech, long_crc, left_shift, poly) ==
    LET Step(tmp, i) == IF (tmp \div 2^(long_crc - 1)) % 2 = 1
                        THEN (2 * tmp) ^^ poly ELSE 2 * tmp
        tmps == Scan(Nat, Step, crc ^^ (onech * 2^(long_crc \div 2)), left_shift)
    IN  tmps[left_shift]

\* (cword << long_crc) >> long_crc on a 32-bit word keeps its low
\* 32 - long_crc bits.
KeepWord(cword, long_crc) == cword % 2^(32 - long_crc)

\* The i bits of the packet from k on, left aligned in long_crc/2 bits.
ChunkOf(buf, k, i, long_crc) ==
    LET half == long_crc \div 2
    IN  SumSet({buf[k + t] * 2^(half - 1 - t) : t \in 0 .. i - 1})

\* icrc: the packet long_crc/2 bits at a time, the last chunk shorter.
icrc(crc, buf, long_crc, poly) ==
    LET len  == Len0(buf)
        half == long_crc \div 2
        Size(c) == IF c * half <= len THEN half ELSE len - (c - 1) * half
        Step(cword, c) ==
            KeepWord(icrc1(KeepWord(cword, long_crc),
                           ChunkOf(buf, (c - 1) * half, Size(c), long_crc),
                           long_crc, Size(c), poly), long_crc)
        cwords == Scan(Nat, Step, crc, (len + half - 1) \div half)
    IN  cwords[Len(cwords)]

\* icrc with paste_word: the remainder's bits, the highest first, behind the
\* packet.
PasteCrc(buf, long_crc, poly) ==
    LET len == Len0(buf)
        ret == icrc(0, buf, long_crc, poly)
    IN  [i \in 0 .. len + long_crc - 1 |->
            IF i < len THEN buf[i]
            ELSE (ret \div 2^(long_crc - 1 - (i - len))) % 2]
=============================================================================
