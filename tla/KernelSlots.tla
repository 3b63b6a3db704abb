---------------------------- MODULE KernelSlots ----------------------------
(***************************************************************************)
(* The time slots of SINGLE_TIMER mode: the kernel thread advances the slot *)
(* counter, checks the pipelines (rt_control), wakes them through a counter *)
(* and a condition variable, and, with thread_sync_on_finish, meets them at *)
(* the start barrier.  Every pipeline thread runs its modules once per      *)
(* wake-up.  finished, ts_counter and enable are shared without a lock.     *)
(* Sources: rtdal_kernel_thread.c, pipeline.c (run), pipeline_sync.c.       *)
(***************************************************************************)
EXTENDS Barrier

CONSTANTS
  NP,           \* rtdal.machine.nof_cores
  NM,           \* modules in each pipeline
  Configurations, \* settings of the options that are considered
  MaxSlot       \* bound: time slots

\* thread_sync_on_finish, and the fields of rt_cfg: do_rtcontrol is set if any
\* of the others is, or if the timing logs are wanted.
Options ==
  {o \in [{"sync_on_finish", "do_rtcontrol", "exec_correct", "miss_correct",
           "exec_kill", "miss_kill"} -> BOOLEAN] :
     o.exec_correct \/ o.miss_correct \/ o.exec_kill \/ o.miss_kill
       => o.do_rtcontrol}

ASSUME KernelAssumption ==
  /\ NP \in Nat \ {0} /\ NM \in Nat \ {0} /\ MaxSlot \in Nat
  /\ Threads = 0 .. NP /\ MaxRounds = MaxSlot
  /\ Configurations \subseteq Options

VARIABLES
  opt,        \* the configuration read from the machine and runtime files
  slot,       \* rtdal_time_slot()
  timeslot,   \* pipeline_sync.c: wake-ups given
  timeslot_p, \* pipeline_sync.c: the wake-up each pipeline has answered
  finished, ts_counter, enable,  \* fields of pipeline_t
  running,    \* pipeline_t.running_process, 0 for NULL
  rtfault,    \* modules whose finish_code the kernel has set to RTFAULT
  alive,      \* FALSE once a finish callback has stopped the waveform
  kpc, ki,    \* kernel thread: program counter, loop index
  has_exec,   \* rt_control: 1 executed, 2 late, 0 missed
  ppc, pidx,  \* pipeline threads: program counter, next module
  runs         \* history: time slots each pipeline has executed

kvars == <<slot, kpc, ki, has_exec>>
walk == <<pidx, runs, running, alive>>
pvars == <<ppc, walk>>
shared == <<finished, ts_counter, enable, rtfault>>
sync == <<timeslot, timeslot_p>>
vars == <<opt, kvars, pvars, shared, sync, bvars>>

Pipes == 0 .. NP - 1
Kernel == NP

\* The pipelines are zeroed memory; their threads wait before the clock starts.
Init ==
  /\ opt \in Configurations
  /\ slot = 0 /\ timeslot = 0
  /\ timeslot_p = [p \in Pipes |-> 0]
  /\ finished = [p \in Pipes |-> 0]
  /\ ts_counter = [p \in Pipes |-> 0]
  /\ enable = [p \in Pipes |-> 0]
  /\ running = [p \in Pipes |-> 0]
  /\ rtfault = {} /\ alive = TRUE
  /\ kpc = "timer" /\ ki = 0
  /\ has_exec = [p \in Pipes |-> 1]
  /\ ppc = [p \in Pipes |-> "wait"]
  /\ pidx = [p \in Pipes |-> 1]
  /\ runs = [p \in Pipes |-> 0]
  /\ BInit

-----------------------------------------------------------------------------
(* The kernel thread: kernel_cycle.                                        *)

\* The timer expires: kernel_tslot_run counts the slot.
TslotInc ==
  /\ kpc = "timer"
  /\ slot < MaxSlot
  /\ slot' = slot + 1
  /\ ki' = 0
  /\ has_exec' = [p \in Pipes |-> 1]
  /\ kpc' = IF opt.do_rtcontrol THEN "read" ELSE "enable"
  /\ UNCHANGED <<opt, pvars, shared, sync, bvars>>

\* A process of pipeline ki gets the error code RTFAULT.
Kill(flag) ==
  rtfault' = IF flag /\ running[ki] # 0 /\ alive
             THEN rtfault \union {<<ki, running[ki]>>} ELSE rtfault

\* rt_control, one pipeline: enable it and look whether it has finished.
RtRead ==
  /\ kpc = "read"
  /\ ki < NP
  /\ enable' = [enable EXCEPT ![ki] = 1]
  /\ kpc' = IF finished[ki] = 0 THEN "late" ELSE "age"
  /\ UNCHANGED <<opt, slot, ki, has_exec, pvars, finished,
                 ts_counter, rtfault, sync, bvars>>

\* rt_control: the pipeline did not run in the last slot.
TooOld == ts_counter[ki] < slot - 1

\* rt_control, a finished pipeline: did it run in the last slot?
RtAge ==
  /\ kpc = "age"
  /\ \/ /\ TooOld
        /\ has_exec' = [has_exec EXCEPT ![ki] = 0]
        /\ Kill(opt.miss_kill)
     \/ /\ ~TooOld
        /\ UNCHANGED <<opt, has_exec, rtfault>>
  /\ ki' = ki + 1
  /\ kpc' = "read"
  /\ UNCHANGED <<opt, slot, pvars, finished, ts_counter, enable, sync, bvars>>

\* rt_control, a pipeline found unfinished is marked finished and late.
RtLate ==
  /\ kpc = "late"
  /\ finished' = [finished EXCEPT ![ki] = 1]
  /\ has_exec' = [has_exec EXCEPT ![ki] = 2]
  /\ Kill(opt.exec_kill)
  /\ ki' = ki + 1
  /\ kpc' = "read"
  /\ UNCHANGED <<opt, slot, pvars, ts_counter, enable, sync, bvars>>

Late == {p \in Pipes : has_exec[p] = 2}
Missed == {p \in Pipes : has_exec[p] = 0}

\* Faulty: late pipelines are counted instead of the others.
SomeNotLateInverted == Late # {}

\* exec_correct: some pipelines are late and some are not.
SomeNotLate == Late # Pipes

AfterCycle == IF opt.sync_on_finish THEN "barrier" ELSE "timer"

\* rt_control, the corrections.  With exec_correct, when only some pipelines
\* are late, nobody is woken in this slot.
RtCorrect ==
  /\ kpc = "read"
  /\ ki = NP
  /\ enable' = IF opt.miss_correct /\ Missed # {}
               THEN [p \in Pipes |-> IF p \in Missed THEN enable[p] ELSE 0]
               ELSE enable
  /\ \/ /\ opt.exec_correct /\ Late # {}
        /\ ts_counter' = [p \in Pipes |-> slot]
        /\ kpc' = IF SomeNotLate THEN AfterCycle ELSE "enable"
     \/ /\ ~(opt.exec_correct /\ Late # {})
        /\ kpc' = "enable"
        /\ UNCHANGED ts_counter
  /\ UNCHANGED <<opt, slot, ki, has_exec, pvars, finished, rtfault, sync, bvars>>

\* kernel_tslot_run enables every pipeline.
Enable ==
  /\ kpc = "enable"
  /\ enable' = [p \in Pipes |-> 1]
  /\ kpc' = "wake"
  /\ UNCHANGED <<opt, slot, ki, has_exec, pvars, finished,
                 ts_counter, rtfault, sync, bvars>>

\* pipeline_sync_threads: count and broadcast, under the mutex.
Wake ==
  /\ kpc = "wake"
  /\ timeslot' = timeslot + 1
  /\ kpc' = AfterCycle
  /\ UNCHANGED <<opt, slot, ki, has_exec, pvars, shared, timeslot_p, bvars>>

KernelEnter ==
  /\ kpc = "barrier"
  /\ Enter(Kernel)
  /\ kpc' = IF Kernel \in inside' THEN "asleep" ELSE "timer"
  /\ UNCHANGED <<opt, slot, ki, has_exec, pvars, shared, sync>>

KernelLeave ==
  /\ kpc = "asleep"
  /\ Leave(Kernel)
  /\ kpc' = "timer"
  /\ UNCHANGED <<opt, slot, ki, has_exec, pvars, shared, sync>>

KernelThread ==
  \/ TslotInc \/ RtRead \/ RtAge \/ RtLate \/ RtCorrect \/ Enable \/ Wake
  \/ KernelEnter \/ KernelLeave

-----------------------------------------------------------------------------
(* A pipeline thread: pipeline_run_thread and pipeline_run_time_slot.      *)

At(p, from, to) == ppc[p] = from /\ ppc' = [ppc EXCEPT ![p] = to]

\* Faulty: off by one, only the second wake-up is answered.
WaitDoneLate(p) ==
  /\ At(p, "wait", "woken")
  /\ timeslot > timeslot_p[p] + 1
  /\ UNCHANGED <<opt, kvars, walk, shared, sync, bvars>>

\* pipeline_sync_thread_waits: the condition holds under the mutex.
WaitDone(p) ==
  /\ At(p, "wait", "woken")
  /\ timeslot > timeslot_p[p]
  /\ UNCHANGED <<opt, kvars, walk, shared, sync, bvars>>

\* Faulty: the wake-up is not recorded as answered.
AnswerWakeForgets(p) ==
  /\ At(p, "woken", "start")
  /\ UNCHANGED <<opt, kvars, pidx, runs, running, alive, shared, sync, bvars>>

\* timeslot_p[idx] = timeslot, after the mutex has been released.
AnswerWake(p) ==
  /\ At(p, "woken", "start")
  /\ timeslot_p' = [timeslot_p EXCEPT ![p] = timeslot]
  /\ UNCHANGED <<opt, kvars, pidx, runs, running, alive, shared, timeslot, bvars>>

\* finished = 0, and the walk starts if the pipeline is enabled.
SlotStart(p) ==
  /\ ppc[p] = "start"
  /\ finished' = [finished EXCEPT ![p] = 0]
  /\ pidx' = [pidx EXCEPT ![p] = 1]
  /\ ppc' = [ppc EXCEPT ![p] = "test"]
  /\ UNCHANGED <<opt, kvars, runs, running, alive, ts_counter, enable,
                 rtfault, sync, bvars>>

TestEnable(p) ==
  /\ ppc[p] = "test"
  /\ ppc' = [ppc EXCEPT ![p] = IF enable[p] = 1 THEN "run" ELSE "stamp"]
  /\ UNCHANGED <<opt, kvars, pidx, runs, running, alive, shared, sync, bvars>>

\* run_proc->next is NULL.
LastModule(p) == pidx[p] = NM

\* One module: check_status calls the finish callback of a faulty one, which
\* stops the waveform; run_module runs it if it is still runnable.
RunModule(p) ==
  LET faulty == alive /\ <<p, pidx[p]>> \in rtfault
      last == LastModule(p)
  IN
  /\ ppc[p] = "run"
  /\ alive' = (alive /\ ~faulty)
  /\ running' = [running EXCEPT ![p] = IF alive' THEN pidx[p] ELSE @]
  /\ pidx' = [pidx EXCEPT ![p] = @ + 1]
  /\ ppc' = [ppc EXCEPT ![p] = IF last THEN "stamp" ELSE "run"]
  /\ runs' = [runs EXCEPT ![p] = IF last THEN @ + 1 ELSE @]
  /\ UNCHANGED <<opt, kvars, shared, sync, bvars>>

\* ts_counter = rtdal_time_slot()
Stamp(p) ==
  /\ At(p, "stamp", "finish")
  /\ ts_counter' = [ts_counter EXCEPT ![p] = slot]
  /\ UNCHANGED <<opt, kvars, walk, finished, enable, rtfault, sync, bvars>>

Finish(p) ==
  /\ At(p, "finish", IF opt.sync_on_finish THEN "barrier" ELSE "wait")
  /\ finished' = [finished EXCEPT ![p] = 1]
  /\ UNCHANGED <<opt, kvars, walk, ts_counter, enable, rtfault, sync, bvars>>

PipeEnter(p) ==
  /\ ppc[p] = "barrier"
  /\ Enter(p)
  /\ ppc' = [ppc EXCEPT ![p] = IF p \in inside' THEN "asleep" ELSE "wait"]
  /\ UNCHANGED <<opt, kvars, walk, shared, sync>>

PipeLeave(p) ==
  /\ At(p, "asleep", "wait")
  /\ Leave(p)
  /\ UNCHANGED <<opt, kvars, walk, shared, sync>>

PipeThread(p) ==
  \/ WaitDone(p) \/ AnswerWake(p) \/ SlotStart(p) \/ TestEnable(p) \/ RunModule(p)
  \/ Stamp(p) \/ Finish(p) \/ PipeEnter(p) \/ PipeLeave(p)

Next == KernelThread \/ \E p \in Pipes : PipeThread(p)

Spec == Init /\ [][Next]_vars

\* The threads run at real-time priority on their own cores.
FairSpec ==
  Spec /\ WF_vars(KernelThread) /\ \A p \in Pipes : WF_vars(PipeThread(p))

-----------------------------------------------------------------------------

\* With thread_sync_on_finish the pipelines move in lock step: whenever the
\* kernel waits for the timer, every pipeline has executed every slot exactly
\* once.  Neither the unlocked timeslot_p = timeslot nor a correction of
\* rt_control ever swallows a slot.
Lockstep ==
  opt.sync_on_finish /\ kpc = "timer" => \A p \in Pipes : runs[p] = slot

\* Waiting for the barrier never blocks the slots: if exec_correct ever kept the
\* pipelines asleep (kernel_cycle goes to the barrier all the same) the kernel
\* would wait for them for ever.
SlotsGoOn == <>(slot = MaxSlot /\ kpc = "timer")

\* No wake-up is lost between the test of timeslot and the condition wait: a
\* pipeline that is behind answers the latest wake-up in the end.
PipelinesCatchUp ==
  \A p \in Pipes : timeslot_p[p] < timeslot ~> timeslot_p[p] = timeslot
=============================================================================
