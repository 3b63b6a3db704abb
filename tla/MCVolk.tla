------------------------------- MODULE MCVolk -------------------------------
(***************************************************************************)
(* The VOLK library with three processors (none of the x86 sets, up to     *)
(* SSE3, everything) and sizes around the widths of the blocks.            *)
(***************************************************************************)
EXTENDS Volk

Plain  == {"generic"}
Sse3   == Sse2 \union {"64", "sse3"}
AllOf  == Avx \union {"64"}
MCCpus == {Plain, Sse3, AllOf}
=============================================================================
