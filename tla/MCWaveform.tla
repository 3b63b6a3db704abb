----------------------------- MODULE MCWaveform -----------------------------
(* The scenarios in which the life of a waveform is checked.                *)
EXTENDS Waveform

Any == Statuses \ {"PARSED"}

\* Every command, typed at any time, with failures of load and Init.
Impatient ==
  [max_cmds |-> 5, commands |-> Any, failures |-> {"init", "again", "load"},
   prompt |-> TRUE, patient |-> FALSE, precach |-> FALSE]

\* Every command, typed when the modules have settled.
Stepping ==
  [max_cmds |-> 5, commands |-> Any, failures |-> {},
   prompt |-> TRUE, patient |-> TRUE, precach |-> FALSE]

\* Run fails, in one module or in both at once, and perhaps Stop too.
Faulty ==
  [max_cmds |-> 3, commands |-> {"LOADED", "INIT", "RUN"}, failures |-> {"run", "stop"},
   prompt |-> TRUE, patient |-> FALSE, precach |-> FALSE]

\* Tasks outlast the polls, cycles outlast the sleeps, and precaching.
Slow ==
  [max_cmds |-> 3, commands |-> {"LOADED", "INIT", "STOP"}, failures |-> {"stop", "timeout"},
   prompt |-> FALSE, patient |-> FALSE, precach |-> TRUE]

All4 == {Impatient, Stepping, Faulty, Slow}

\* Nothing fails and the operator is patient.
Calm ==
  {[max_cmds |-> 3, commands |-> {"LOADED", "INIT", "RUN"}, failures |-> {},
    prompt |-> TRUE, patient |-> TRUE, precach |-> FALSE]}
=============================================================================
