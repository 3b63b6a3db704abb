------------------------------ MODULE Waveform ------------------------------
(***************************************************************************)
(* The life of a waveform: the operator's commands, the status the manager  *)
(* keeps, the node that executes the commands on the main thread, the       *)
(* pipeline threads that run one module each (_run_cycle), the low-priority *)
(* tasks that call Init and Stop, and the finish callback by which a        *)
(* pipeline thread tears the waveform down when Run has failed.  Nothing in *)
(* this state is protected by a lock.                                       *)
(* Sources: run_test_suite_waveform.c, man_waveform.c, nod_dispatcher.c,    *)
(* nod_waveform.c, nod_module.c, oesr_static.c, pipeline.c (check_status,   *)
(* run_module), rtdal_process.c.                                            *)
(***************************************************************************)
EXTENDS Integers, FiniteSets

CONSTANTS
  NMod,      \* nof_modules; module m runs on pipeline m
  Scenarios  \* the scenarios considered

Fails == {"load", "init", "again", "run", "stop", "timeout"}
Statuses == {"PARSED", "LOADED", "INIT", "RUN", "STEP", "PAUSE", "STOP"}

\* A scenario bounds the number of commands typed, and gives the commands the
\* operator uses, what may go wrong, whether a cycle of a module takes less than
\* DEFAULT_SLEEP_US (prompt), whether the operator waits until the modules have
\* settled (patient), and waveform->precach_pipeline.
Scenario ==
  [max_cmds : Nat, commands : SUBSET (Statuses \ {"PARSED"}),
   failures : SUBSET Fails, prompt : BOOLEAN, patient : BOOLEAN,
   precach : BOOLEAN]

ASSUME WaveformAssumption ==
  NMod \in Nat \ {0} /\ Scenarios \subseteq Scenario

VARIABLES
  sc,        \* the scenario
  mstat,     \* manager: waveform->status.cur_status
  wstat,     \* node: cur_status of the waveform slot
  loaded,    \* node: the slot has an id and its module array
  status, changing,          \* of each module: parent.status, changing_status
  inpipe, runnable, errcode, \* of each process: in its pipeline, runnable, finish_code # FINISH_OK
  notified,  \* pgroup_notified_failure of the waveform's group
  ppc,       \* pipeline threads: program counter
  mpc, cmd,  \* main thread: program counter, command in progress
  td, busy,  \* per thread: step of nod_waveform_status_stop, cycles to outlast
  stask,     \* per thread: its stop task
  itask,     \* the init task
  ncmd, refused  \* history: commands, and that the last one was refused or failed

mgr == <<mstat, mpc, cmd, ncmd, refused>>
mods == <<status, changing>>
procs == <<inpipe, runnable, errcode, notified>>
tear == <<td, busy, stask>>
vars == <<sc, mgr, wstat, loaded, mods, procs, ppc, tear, itask>>

MaxCmds == sc.max_cmds
Commands == sc.commands
Failures == sc.failures
Prompt == sc.prompt
Patient == sc.patient
Precach == sc.precach

Mods == 1 .. NMod
Main == 0
Executors == {Main} \union Mods

All(v) == [m \in Mods |-> v]
NoTask == [i |-> 1, in |-> FALSE, ret |-> "none", pass |-> 0, n |-> 0]

\* Modules whose _run_cycle is being executed.
InCycle == {m \in Mods : ppc[m] \in {"cycle", "run", "park"}}

Init ==
  /\ sc \in Scenarios
  /\ mstat = "PARSED" /\ wstat = "STOP" /\ loaded = FALSE
  /\ status = All("PARSED") /\ changing = All(FALSE)
  /\ inpipe = All(FALSE) /\ runnable = All(FALSE) /\ errcode = All(FALSE)
  /\ notified = FALSE
  /\ ppc = All("idle")
  /\ mpc = "idle" /\ cmd = "LOADED"
  /\ td = [e \in Executors |-> "no"]
  /\ busy = [e \in Executors |-> {}]
  /\ stask = [e \in Executors |-> NoTask]
  /\ itask = NoTask
  /\ ncmd = 0 /\ refused = FALSE

-----------------------------------------------------------------------------
(* Steps shared by the threads.                                            *)

\* nod_waveform_run: no effect on a waveform without modules.
SetRunnable(b) == runnable' = IF loaded THEN All(b) ELSE runnable

\* nod_waveform_remove: every process leaves its pipeline, the memory is freed
\* and the slot becomes free.
Remove ==
  /\ inpipe' = All(FALSE)
  /\ loaded' = FALSE
  /\ wstat' = "STOP"
  /\ status' = All("PARSED")
  /\ changing' = All(FALSE)

\* The manager gets the answer of the node (waveform_status_set, waveform_load).
Answer(ok) ==
  /\ mpc' = "idle"
  /\ refused' = ~ok
  /\ mstat' = CASE ~ok -> mstat [] cmd = "STOP" -> "PARSED" [] OTHER -> cmd
  /\ UNCHANGED <<sc, cmd, ncmd>>

-----------------------------------------------------------------------------
(* The operator and the manager.                                           *)

\* waveform_status_is_valid
Valid(c) ==
  \/ c = "STOP"
  \/ c = "INIT" /\ mstat = "LOADED"
  \/ c = "RUN" /\ mstat \in {"PAUSE", "INIT", "STEP"}
  \/ c = "STEP" /\ mstat \in {"RUN", "INIT", "PAUSE", "STEP"}
  \/ c = "PAUSE" /\ mstat \in {"RUN", "STEP"}

Settled ==
  /\ InCycle = {}
  /\ \A m \in Mods : inpipe[m] /\ runnable[m] => wstat = "RUN" /\ status[m] = "RUN"

Typed(c) ==
  /\ mpc = "idle" /\ ncmd < MaxCmds /\ c \in Commands
  /\ Patient => Settled
  /\ ncmd' = ncmd + 1 /\ cmd' = c

\* 'l': waveform_load and nod_dispatcher_load find a slot in status STOP.
TypeLoad ==
  /\ Typed("LOADED")
  /\ mstat' = "PARSED"
  /\ mpc' = IF wstat = "STOP" THEN "load" ELSE "idle"
  /\ refused' = (wstat # "STOP")
  /\ UNCHANGED <<sc, wstat, loaded, mods, procs, ppc, tear, itask>>

\* The step of nod_waveform_status_new a command starts with.
FirstStep(c) ==
  CASE c = "INIT" -> "init" [] c = "STOP" -> "stop" [] OTHER -> "step"

\* The other commands: waveform_status_set stores the status and then sends it;
\* nod_dispatcher_set looks for the waveform id.
TypeStatus(c) ==
  /\ c # "LOADED"
  /\ Typed(c)
  /\ c = "INIT" => itask.ret # "run"
  /\ c = "STOP" => stask[Main].ret # "run"
  /\ mstat' = IF Valid(c) THEN c ELSE mstat
  /\ mpc' = IF Valid(c) /\ loaded THEN FirstStep(c) ELSE "idle"
  /\ refused' = ~(Valid(c) /\ loaded)
  /\ UNCHANGED <<sc, wstat, loaded, mods, procs, ppc, tear, itask>>

-----------------------------------------------------------------------------
(* nod_dispatcher_load, nod_waveform_load.                                  *)

\* The modules are allocated, their processes created and set runnable.
LoadModules ==
  /\ mpc = "load"
  /\ mpc' = "loading"
  /\ wstat' = "LOADED" /\ loaded' = TRUE
  /\ status' = All("PARSED") /\ changing' = All(FALSE)
  /\ inpipe' = All(TRUE) /\ runnable' = All(TRUE) /\ errcode' = All(FALSE)
  /\ notified' = FALSE
  /\ UNCHANGED <<sc, mstat, cmd, ncmd, refused, ppc, tear, itask>>

\* A binary cannot be loaded: what has been loaded is removed.
LoadFails ==
  /\ mpc = "load"
  /\ "load" \in Failures
  /\ Remove
  /\ notified' = FALSE
  /\ Answer(FALSE)
  /\ UNCHANGED <<sc, runnable, errcode, ppc, tear, itask>>

\* Every module has acknowledged.
LoadDone ==
  /\ mpc = "loading"
  /\ \A m \in Mods : status[m] = "LOADED"
  /\ Answer(TRUE)
  /\ UNCHANGED <<sc, wstat, loaded, mods, procs, ppc, tear, itask>>

\* Some module has not after DEFAULT_TIMEOUT polls.
LoadTimeout ==
  /\ mpc = "loading"
  /\ "timeout" \in Failures
  /\ \E m \in Mods : status[m] # "LOADED"
  /\ Remove
  /\ Answer(FALSE)
  /\ UNCHANGED <<sc, runnable, errcode, notified, ppc, tear, itask>>

-----------------------------------------------------------------------------
(* nod_waveform_status_new, INIT.                                          *)

\* nod_waveform_status_init starts the task that calls Init of every module.
InitStart ==
  /\ mpc = "init"
  /\ wstat' = "INIT"
  /\ itask' = [NoTask EXCEPT !.ret = "run"]
  /\ mpc' = "initing"
  /\ UNCHANGED <<sc, mstat, cmd, ncmd, refused, loaded, mods, procs, ppc, tear>>

\* The task is at its module i, or has seen them all; three passes at most.
TaskAdvance(t) ==
  IF t.i < NMod THEN [t EXCEPT !.i = @ + 1]
  ELSE [t EXCEPT !.i = 1, !.pass = @ + 1, !.ret = IF t.pass = 2 THEN "null" ELSE @]

\* nod_waveform_status_init_thread, up to the call of Init.
InitTask ==
  /\ itask.ret = "run" /\ ~itask.in
  /\ \/ /\ itask.n >= NMod \/ ~loaded
        /\ itask' = [itask EXCEPT !.ret = "ok"]
        /\ UNCHANGED changing
     \/ /\ itask.n < NMod /\ loaded /\ status[itask.i] = "INIT"
        /\ itask' = TaskAdvance(itask)
        /\ UNCHANGED changing
     \/ /\ itask.n < NMod /\ loaded /\ status[itask.i] # "INIT"
        /\ itask' = [itask EXCEPT !.in = TRUE]
        /\ changing' = [changing EXCEPT ![itask.i] = TRUE]
  /\ UNCHANGED <<sc, mgr, wstat, loaded, status, procs, ppc, tear>>

\* Init returns 1: _call_init sets the status.
InitOk ==
  /\ itask.in
  /\ status' = IF loaded THEN [status EXCEPT ![itask.i] = "INIT"] ELSE status
  /\ changing' = [changing EXCEPT ![itask.i] = FALSE]
  /\ itask' = [TaskAdvance(itask) EXCEPT !.in = FALSE, !.n = @ + 1]
  /\ UNCHANGED <<sc, mgr, wstat, loaded, procs, ppc, tear>>

\* Init returns 0: the module sleeps and is tried again in the next pass.
InitAgain ==
  /\ itask.in
  /\ "again" \in Failures
  /\ itask' = [TaskAdvance(itask) EXCEPT !.in = FALSE]
  /\ UNCHANGED <<sc, mgr, wstat, loaded, mods, procs, ppc, tear>>

InitError ==
  /\ itask.in
  /\ "init" \in Failures
  /\ itask' = [itask EXCEPT !.in = FALSE, !.ret = "null"]
  /\ UNCHANGED <<sc, mgr, wstat, loaded, mods, procs, ppc, tear>>

\* The task has ended well, or is still running after DEFAULT_TIMEOUT polls, which
\* is reported and not an error.  Precaching sets the status to RUN for a while.
InitDone ==
  /\ mpc = "initing"
  /\ \/ itask.ret = "ok"
     \/ itask.ret = "run" /\ "timeout" \in Failures
  /\ \/ /\ ~Precach
        /\ Answer(TRUE)
        /\ UNCHANGED wstat
     \/ /\ Precach
        /\ wstat' = "RUN"
        /\ mpc' = "precach"
        /\ UNCHANGED <<sc, mstat, cmd, ncmd, refused>>
  /\ UNCHANGED <<sc, loaded, mods, procs, ppc, tear, itask>>

\* nod_waveform_precach_pipeline, after the sleeps.
PrecachDone ==
  /\ mpc = "precach"
  /\ wstat' = "PAUSE"
  /\ Answer(TRUE)
  /\ UNCHANGED <<sc, loaded, mods, procs, ppc, tear, itask>>

\* The task has failed: the waveform is removed, and nod_waveform_unserializeTo
\* stops it again.
InitFailed ==
  /\ mpc = "initing"
  /\ itask.ret = "null"
  /\ Remove
  /\ mpc' = "failed"
  /\ UNCHANGED <<sc, mstat, cmd, ncmd, refused, runnable, errcode, notified, ppc, tear, itask>>

-----------------------------------------------------------------------------
(* nod_waveform_status_new, the default: RUN, STEP and PAUSE.               *)

\* After a STEP the modules are put back to PAUSE.
StatusStep ==
  /\ mpc = "step"
  /\ mpc' = "run1"
  /\ status' = IF wstat = "STEP" /\ loaded THEN All("PAUSE") ELSE status
  /\ changing' = IF wstat = "STEP" /\ loaded THEN All(FALSE) ELSE changing
  /\ UNCHANGED <<sc, mstat, cmd, ncmd, refused, wstat, loaded, procs, ppc, tear, itask>>

\* nod_waveform_run(waveform,1), "let modules run in pipeline".
StatusRun ==
  /\ mpc = "run1"
  /\ mpc' = "copy"
  /\ SetRunnable(TRUE)
  /\ UNCHANGED <<sc, mstat, cmd, ncmd, refused, wstat, loaded, mods, inpipe, errcode, notified,
                 ppc, tear, itask>>

\* Faulty: the status is not copied.
StatusCopyForgotten ==
  /\ mpc = "copy"
  /\ changing' = All(FALSE)
  /\ Answer(TRUE)
  /\ UNCHANGED <<sc, wstat, loaded, status, procs, ppc, tear, itask>>

\* changing_status is cleared and the new status copied.
StatusCopy ==
  /\ mpc = "copy"
  /\ changing' = All(FALSE)
  /\ wstat' = cmd
  /\ Answer(TRUE)
  /\ UNCHANGED <<sc, loaded, status, procs, ppc, tear, itask>>

-----------------------------------------------------------------------------
(* nod_waveform_status_stop, on the main thread (STOP, or a failed status)  *)
(* or on a pipeline thread (finish callback).                               *)

\* Thread e enters nod_waveform_status_stop.
Stopping(e) == IF e = Main THEN mpc \in {"stop", "failed"} ELSE ppc[e] = "callback"

\* nod_waveform_run(waveform,0)
StopRun0(e) ==
  /\ Stopping(e) /\ td[e] = "no"
  /\ SetRunnable(FALSE)
  /\ busy' = [busy EXCEPT ![e] = InCycle]
  /\ td' = [td EXCEPT ![e] = "sleep"]
  /\ UNCHANGED <<sc, mgr, wstat, loaded, mods, inpipe, errcode, notified, ppc, stask, itask>>

\* Faulty: the cycles in progress are not slept out.
StopSleptNotAtAll(e) ==
  /\ td[e] = "sleep"
  /\ wstat' = "STOP"
  /\ stask' = [stask EXCEPT ![e] = [NoTask EXCEPT !.ret = "run"]]
  /\ td' = [td EXCEPT ![e] = "join"]
  /\ UNCHANGED <<sc, mgr, loaded, mods, procs, ppc, busy, itask>>

\* After DEFAULT_SLEEP_US the slot is marked STOP and the stop task started.
StopSlept(e) ==
  /\ td[e] = "sleep"
  /\ Prompt => busy[e] = {}
  /\ wstat' = "STOP"
  /\ stask' = [stask EXCEPT ![e] = [NoTask EXCEPT !.ret = "run"]]
  /\ td' = [td EXCEPT ![e] = "join"]
  /\ UNCHANGED <<sc, mgr, loaded, mods, procs, ppc, busy, itask>>

\* nod_waveform_status_stop_thread, up to the call of Stop: a module that has
\* never run a cycle has not registered its stop function.
StopTask(e) ==
  LET t == stask[e] IN
  /\ t.ret = "run" /\ ~t.in
  /\ \/ /\ t.i > NMod \/ ~loaded
        /\ stask' = [stask EXCEPT ![e].ret = "ok"]
        /\ UNCHANGED changing
     \/ /\ t.i <= NMod /\ loaded /\ status[t.i] = "STOP"
        /\ stask' = [stask EXCEPT ![e].i = @ + 1]
        /\ UNCHANGED changing
     \/ /\ t.i <= NMod /\ loaded /\ status[t.i] = "PARSED"
        /\ stask' = [stask EXCEPT ![e].ret = "null"]
        /\ UNCHANGED changing
     \/ /\ t.i <= NMod /\ loaded /\ status[t.i] \notin {"STOP", "PARSED"}
        /\ stask' = [stask EXCEPT ![e].in = TRUE]
        /\ changing' = [changing EXCEPT ![t.i] = TRUE]
  /\ UNCHANGED <<sc, mgr, wstat, loaded, status, procs, ppc, td, busy, itask>>

\* Stop returns 0: _call_stop sets the status.
StopOk(e) ==
  LET t == stask[e] IN
  /\ t.in
  /\ status' = IF loaded THEN [status EXCEPT ![t.i] = "STOP"] ELSE status
  /\ changing' = [changing EXCEPT ![t.i] = FALSE]
  /\ stask' = [stask EXCEPT ![e].in = FALSE, ![e].i = @ + 1]
  /\ UNCHANGED <<sc, mgr, wstat, loaded, procs, ppc, td, busy, itask>>

StopError(e) ==
  /\ stask[e].in
  /\ "stop" \in Failures
  /\ stask' = [stask EXCEPT ![e].in = FALSE, ![e].ret = "null"]
  /\ UNCHANGED <<sc, mgr, wstat, loaded, mods, procs, ppc, td, busy, itask>>

\* Faulty: only a task that ends well ends the wait.
StopJoinUntilOk(e) ==
  /\ td[e] = "join"
  /\ stask[e].ret = "ok"
  /\ td' = [td EXCEPT ![e] = "remove"]
  /\ UNCHANGED <<sc, mgr, wstat, loaded, mods, procs, ppc, busy, stask, itask>>

\* The task has ended, well or not, or DEFAULT_TIMEOUT polls have passed.
StopJoin(e) ==
  /\ td[e] = "join"
  /\ stask[e].ret # "run" \/ "timeout" \in Failures
  /\ td' = [td EXCEPT ![e] = "remove"]
  /\ UNCHANGED <<sc, mgr, wstat, loaded, mods, procs, ppc, busy, stask, itask>>

StopRemove(e) ==
  /\ td[e] = "remove"
  /\ Remove
  /\ td' = [td EXCEPT ![e] = "no"]
  /\ \/ /\ e = Main
        /\ Answer(mpc = "stop")
        /\ UNCHANGED ppc
     \/ /\ e # Main
        /\ ppc' = [ppc EXCEPT ![e] = "acknowledge"]
        /\ UNCHANGED mgr
  /\ UNCHANGED <<sc, runnable, errcode, notified, busy, stask, itask>>

-----------------------------------------------------------------------------
(* A pipeline thread, once per time slot for its module's process.          *)

Goto(m, l) == ppc' = [ppc EXCEPT ![m] = l]

\* Faulty: the error code is not looked at.
CheckStatusBlind(m) ==
  /\ ppc[m] = "idle" /\ inpipe[m] /\ runnable[m]
  /\ Goto(m, "cycle")
  /\ UNCHANGED <<sc, mgr, wstat, loaded, mods, procs, tear, itask>>

\* pipeline_run_thread_check_status reads the flag of the group ...
CheckStatus(m) ==
  /\ ppc[m] = "idle" /\ inpipe[m] /\ runnable[m]
  /\ Goto(m, IF errcode[m] /\ ~notified THEN "notify" ELSE "cycle")
  /\ UNCHANGED <<sc, mgr, wstat, loaded, mods, procs, tear, itask>>

\* ... then sets it and calls nod_module_finish_callback on this thread, which
\* makes the modules not runnable and clears the error code.
Notify(m) ==
  /\ ppc[m] = "notify"
  /\ notified' = TRUE
  /\ SetRunnable(FALSE)
  /\ errcode' = [errcode EXCEPT ![m] = FALSE]
  /\ Goto(m, "callback")
  /\ UNCHANGED <<sc, mgr, wstat, loaded, mods, inpipe, tear, itask>>

\* rtdal_process_group_notified(module->process), read from the module that has
\* been freed: the flag is reset if the memory is still as it was.
Acknowledge(m) ==
  /\ ppc[m] = "acknowledge"
  /\ notified' \in {FALSE, notified}
  /\ Goto(m, IF runnable[m] THEN "cycle" ELSE "idle")
  /\ UNCHANGED <<sc, mgr, wstat, loaded, mods, inpipe, runnable, errcode, tear, itask>>

\* _run_cycle: the status the module takes from the waveform's.
NewStatus(m) ==
  CASE wstat = "LOADED" /\ status[m] = "PARSED" -> "LOADED"
    [] changing[m] -> status[m]
    [] wstat = "STEP" /\ status[m] = "RUN" -> "STEP"
    [] wstat = "STEP" /\ status[m] \notin {"RUN", "STEP"} -> "RUN"
    [] wstat \in {"RUN", "PAUSE"} -> wstat
    [] OTHER -> status[m]

\* _run_cycle, up to the call of Run or of rtdal_process_stop.  The context of a
\* removed module is gone: it is taken to park.
Cycle(m) ==
  /\ ppc[m] = "cycle"
  /\ \/ /\ loaded
        /\ status' = [status EXCEPT ![m] = NewStatus(m)]
        /\ Goto(m, IF ~changing[m] /\ NewStatus(m) = "RUN" THEN "run" ELSE "park")
     \/ /\ ~loaded
        /\ Goto(m, "park")
        /\ UNCHANGED status
  /\ UNCHANGED <<sc, mgr, wstat, loaded, changing, procs, tear, itask>>

\* The cycle is over: sleepers that waited for it need not wait any longer.
Over(m) ==
  /\ Goto(m, "idle")
  /\ busy' = [e \in Executors |-> busy[e] \ {m}]

\* Run returns, perhaps with an error; the time stamp is incremented.
Run(m) ==
  /\ ppc[m] = "run"
  /\ errcode' \in {errcode} \union
       (IF "run" \in Failures THEN {[errcode EXCEPT ![m] = TRUE]} ELSE {})
  /\ Over(m)
  /\ UNCHANGED <<sc, mgr, wstat, loaded, mods, inpipe, runnable, notified, td, stask, itask>>

\* rtdal_process_stop
Park(m) ==
  /\ ppc[m] = "park"
  /\ runnable' = [runnable EXCEPT ![m] = FALSE]
  /\ Over(m)
  /\ UNCHANGED <<sc, mgr, wstat, loaded, mods, inpipe, errcode, notified, td, stask, itask>>

-----------------------------------------------------------------------------
MainThread ==
  \/ LoadModules \/ LoadFails \/ LoadDone \/ LoadTimeout
  \/ InitStart \/ InitDone \/ PrecachDone \/ InitFailed
  \/ StatusStep \/ StatusRun \/ StatusCopy

InitThread == InitTask \/ InitOk \/ InitAgain \/ InitError

StopThread(e) == StopTask(e) \/ StopOk(e) \/ StopError(e)

StopCaller(e) == StopRun0(e) \/ StopSlept(e) \/ StopJoin(e) \/ StopRemove(e)

PipeThread(m) ==
  CheckStatus(m) \/ Notify(m) \/ Acknowledge(m) \/ Cycle(m) \/ Run(m) \/ Park(m)

Operator == TypeLoad \/ \E c \in Commands : TypeStatus(c)

Next ==
  \/ Operator \/ MainThread \/ InitThread
  \/ \E e \in Executors : StopThread(e) \/ StopCaller(e)
  \/ \E m \in Mods : PipeThread(m)

Spec == Init /\ [][Next]_vars

\* Every thread and task runs; Run, Init and Stop return; the operator may stop typing.
FairSpec ==
  /\ Spec
  /\ WF_vars(MainThread) /\ WF_vars(InitThread)
  /\ \A e \in Executors : WF_vars(StopThread(e)) /\ WF_vars(StopCaller(e))
  /\ \A m \in Mods : WF_vars(PipeThread(m))

-----------------------------------------------------------------------------

\* Stop is never called on a module while a pipeline thread is inside its Run, and
\* a module is not freed there either: switching the modules off and sleeping
\* DEFAULT_SLEEP_US (nod_waveform_status_stop) keeps the two apart.
StopApartFromRun ==
  Prompt => \A m \in Mods : ppc[m] = "run" =>
    /\ loaded
    /\ \A e \in Executors : ~(stask[e].in /\ stask[e].i = m)

\* When the node has accepted the manager's last command, the two statuses agree:
\* PARSED means nothing is loaded and no module is in a pipeline, even after
\* commands that were refused or failed half-way.  (A failing Run ends the waveform
\* behind the manager's back, and precaching leaves it in PAUSE.)
ManagerAgrees ==
  /\ mpc = "idle" /\ ~refused /\ ncmd > 0
  /\ Failures \intersect {"run", "timeout"} = {} /\ ~Precach
  => IF mstat = "PARSED" THEN ~loaded /\ inpipe = All(FALSE)
                         ELSE loaded /\ wstat = mstat

\* nod_waveform.c: "it sets the module's process as runnable after setting the
\* waveform status": so after RUN every module gets to run.
RunIsObeyed ==
  (mpc = "idle" /\ mstat = "RUN") ~>
    (mpc # "idle" \/ \A m \in Mods : status[m] = "RUN" /\ runnable[m])

\* Every command is answered: the main thread never waits for ever for a module's
\* acknowledgement, an init task or a stop task.
CommandsEnd == mpc # "idle" ~> mpc = "idle"

\* A module whose Run has failed takes the whole waveform out of the pipelines, also
\* if several modules fail at once or Stop fails (finish callback).
FaultEndsWaveform == \A m \in Mods : errcode[m] /\ inpipe[m] ~> ~inpipe[m]
=============================================================================
