----------------------------- MODULE MultiTimer -----------------------------
(***************************************************************************)
(* The MULTI_TIMER clock of the kernel: there is no kernel thread, every   *)
(* pipeline has a timer of its own and the first pipeline of each period   *)
(* advances the time slot (pipeline.c, rtdal_timer.c, rtdal_kernel.c).     *)
(* The pipelines share, without a lock, the first-in-cycle counter, the    *)
(* slot counter and the flag that tells the first period.                  *)
(*                                                                         *)
(* do_rtcontrol is off here; its steps are in KernelSlots.                 *)
(***************************************************************************)
EXTENDS Integers, FiniteSets, Bitwise

CONSTANTS
  NP,          \* machine.nof_cores
  MaxCycles,   \* bound: periods of each timer
  BootInTime,  \* every thread is in futex_wait after the usleep(100000) of main
  InStep       \* every callback returns before the next period begins

ASSUME MultiTimerConstants ==
  /\ NP \in Nat \ {0} /\ MaxCycles \in Nat
  /\ BootInTime \in BOOLEAN /\ InStep \in BOOLEAN

Pipes == 1 .. NP

VARIABLES
  clocks_started,          \* main has done futex_wake(&multi_timer_futex)
  pc,
  cycle,                   \* history: callbacks begun by each pipeline
  timer_first_cycle,
  is_first_in_cycle_count,
  ts_counter,              \* context->ts_counter of rtdal_time.c
  reg                       \* the value a pipeline has loaded to increment it

vars == <<clocks_started, pc, cycle, timer_first_cycle, is_first_in_cycle_count,
          ts_counter, reg>>

Init ==
  /\ clocks_started = FALSE
  /\ pc = [p \in Pipes |-> "boot"]
  /\ cycle = [p \in Pipes |-> 0]
  /\ timer_first_cycle = FALSE
  /\ is_first_in_cycle_count = 0
  /\ ts_counter = 0
  /\ reg = [p \in Pipes |-> 0]

Goto(p, l) == pc' = [pc EXCEPT ![p] = l]

\* nanoclock_timer_run_thread: futex_wait on a word that never changes.
Wait(p) ==
  /\ pc[p] = "boot"
  /\ Goto(p, "futex")
  /\ UNCHANGED <<clocks_started, cycle, timer_first_cycle, is_first_in_cycle_count,
                 ts_counter, reg>>

\* kernel_initialize_setup_clock: only the threads already in futex_wait wake.
StartClocks ==
  /\ ~clocks_started
  /\ BootInTime => \A p \in Pipes : pc[p] = "futex"
  /\ clocks_started' = TRUE
  /\ pc' = [p \in Pipes |-> IF pc[p] = "futex" THEN "idle" ELSE pc[p]]
  /\ UNCHANGED <<cycle, timer_first_cycle, is_first_in_cycle_count, ts_counter, reg>>

\* All the timers sleep until the same absolute instants.
PeriodReached(p) ==
  InStep => \A q \in Pipes : \/ cycle[q] = cycle[p] + 1
                             \/ cycle[q] = cycle[p] /\ pc[q] = "idle"

Fire(p) ==
  /\ pc[p] = "idle" /\ cycle[p] < MaxCycles
  /\ PeriodReached(p)
  /\ cycle' = [cycle EXCEPT ![p] = @ + 1]
  /\ Goto(p, IF timer_first_cycle THEN "fetch" ELSE "reset")
  /\ UNCHANGED <<clocks_started, timer_first_cycle, is_first_in_cycle_count,
                 ts_counter, reg>>

\* rtdal_time_reset_realtime
Reset(p) ==
  /\ pc[p] = "reset"
  /\ ts_counter' = 0
  /\ Goto(p, "mark")
  /\ UNCHANGED <<clocks_started, cycle, timer_first_cycle, is_first_in_cycle_count,
                 reg>>

Mark(p) ==
  /\ pc[p] = "mark"
  /\ timer_first_cycle' = TRUE
  /\ Goto(p, "fetch")
  /\ UNCHANGED <<clocks_started, cycle, is_first_in_cycle_count, ts_counter, reg>>

\* Fault: the mask has one bit too many.
is_first_in_cycle_wide(count) == count & NP

\* What is_first_in_cycle returns when it fetches count.
is_first_in_cycle(count) == count & (NP - 1)

\* The atomic fetch-and-add and the test of its result.
Fetch(p) ==
  /\ pc[p] = "fetch"
  /\ is_first_in_cycle_count' = is_first_in_cycle_count + 1
  /\ Goto(p, IF is_first_in_cycle(is_first_in_cycle_count) = 0 THEN "load" ELSE "run")
  /\ UNCHANGED <<clocks_started, cycle, timer_first_cycle, ts_counter, reg>>

\* rtdal_time_ts_inc of kernel_tslot_run, a plain ++: a load and a store.
Load(p) ==
  /\ pc[p] = "load"
  /\ reg' = [reg EXCEPT ![p] = ts_counter]
  /\ Goto(p, "store")
  /\ UNCHANGED <<clocks_started, cycle, timer_first_cycle, is_first_in_cycle_count,
                 ts_counter>>

Store(p) ==
  /\ pc[p] = "store"
  /\ ts_counter' = reg[p] + 1
  /\ Goto(p, "run")
  /\ UNCHANGED <<clocks_started, cycle, timer_first_cycle, is_first_in_cycle_count,
                 reg>>

\* pipeline_run_time_slot, whose inside is in Pipeline.
Run(p) ==
  /\ pc[p] = "run"
  /\ Goto(p, "idle")
  /\ UNCHANGED <<clocks_started, cycle, timer_first_cycle, is_first_in_cycle_count,
                 ts_counter, reg>>

Timer(p) ==
  \/ Wait(p) \/ Fire(p) \/ Reset(p) \/ Mark(p) \/ Fetch(p) \/ Load(p) \/ Store(p)
  \/ Run(p)

Next == StartClocks \/ \E p \in Pipes : Timer(p)

Spec == Init /\ [][Next]_vars

-----------------------------------------------------------------------------

\* When all the callbacks of a period have returned the slot counter is the
\* number of periods, or one less: a pipeline that has read timer_first_cycle
\* before another one sets it may reset the counter after the first increment,
\* but only in the first period, and no increment is ever lost or made twice.
SlotsFollowTimer ==
  \A k \in 1 .. MaxCycles :
    (\A p \in Pipes : cycle[p] = k /\ pc[p] = "idle") => ts_counter \in {k - 1, k}
=============================================================================
