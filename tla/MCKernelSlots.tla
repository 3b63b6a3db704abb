--------------------------- MODULE MCKernelSlots ---------------------------
(* The option settings that are checked: with and without the barrier, with *)
(* the corrections and kills of rt_control all on or all off.               *)
EXTENDS KernelSlots

Uniform ==
  {o \in Options :
    /\ o.exec_correct = o.miss_correct /\ o.exec_kill = o.miss_kill
    /\ o.exec_correct = o.exec_kill}
=============================================================================
