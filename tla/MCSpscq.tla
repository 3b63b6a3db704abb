------------------------------ MODULE MCSpscq ------------------------------
(* Values of itf->parent.delay: one slot, and the two that best effort      *)
(* gives to forward interfaces (-1) and to interfaces to an earlier module  *)
(* (-2), man_waveform.c.                                                    *)
EXTENDS Spscq

AllDelays == {1, -1, -2}
=============================================================================
