--------------------------- MODULE WaveformProofs ---------------------------
(***************************************************************************)
(* StopApartFromRun and ManagerAgrees for any number of modules.  As long   *)
(* as no Run fails and every task is in time, the main thread is the only   *)
(* one that stops the modules, and it goes on when its tasks have ended,    *)
(* whatever is typed.  When Runs fail, any number of pipeline threads stop  *)
(* them at once; this is proved apart from Run if nothing is typed then.    *)
(***************************************************************************)
EXTENDS Waveform, TLAPS

\* Only the main thread stops modules, and it does not give up on its tasks.
Serial == Failures \intersect {"run", "timeout"} = {}

\* Acknowledgements and tasks are in time.
InTime == "timeout" \notin Failures

\* Run may fail, but nothing is typed once the modules run: the first Run needs three
\* commands.  Cycles are shorter than the sleep of nod_waveform_status_stop.
NothingAfterRun == MaxCmds <= 3 /\ ~Precach /\ Prompt /\ InTime

MainPcs == {"idle", "load", "loading", "init", "initing", "precach", "failed",
            "step", "run1", "copy", "stop"}
Returns == {"none", "run", "ok", "null"}
Tasks == [i : Int, in : BOOLEAN, ret : Returns, pass : Int, n : Int]

Types ==
  /\ sc \in Scenario
  /\ mpc \in MainPcs /\ cmd \in Statuses /\ mstat \in Statuses /\ wstat \in Statuses
  /\ loaded \in BOOLEAN /\ refused \in BOOLEAN
  /\ status \in [Mods -> Statuses]
  /\ inpipe \in [Mods -> BOOLEAN] /\ runnable \in [Mods -> BOOLEAN]
  /\ ppc \in [Mods -> {"idle", "cycle", "run", "park"}]
  /\ td \in [Executors -> {"no", "sleep", "join", "remove"}]
  /\ busy \in [Executors -> SUBSET Mods]
  /\ stask \in [Executors -> Tasks] /\ itask \in Tasks

\* No finish callback: the pipeline threads only run cycles.
NoFaults ==
  /\ errcode = All(FALSE)
  /\ \A m \in Mods : td[m] = "no" /\ stask[m] = NoTask

\* What the main thread is at, and the tasks it waits for.
MainAt ==
  /\ td[Main] # "no" => mpc \in {"stop", "failed"}
  /\ stask[Main].in => stask[Main].ret = "run"
  /\ stask[Main].ret = "run" => td[Main] = "join"
  /\ itask.in => itask.ret = "run"
  /\ itask.ret = "run" => mpc = "initing"
  /\ mpc \in {"load", "loading"} => cmd = "LOADED"
  /\ mpc \in {"init", "initing", "precach", "failed"} => cmd = "INIT"
  /\ mpc \in {"step", "run1", "copy"} => cmd \in {"RUN", "STEP", "PAUSE"}
  /\ mpc = "stop" => cmd = "STOP"
  /\ mpc = "precach" => Precach

\* What is loaded, and the status of the slot.
SlotAt ==
  /\ inpipe = All(loaded)
  /\ ~loaded => wstat = "STOP"
  /\ loaded /\ wstat = "STOP" => td[Main] \in {"join", "remove"}
  /\ td[Main] \in {"join", "remove"} => wstat = "STOP"
  /\ mpc \in {"load", "failed"} => ~loaded
  /\ mpc \in {"loading", "init", "initing", "precach", "step", "run1", "copy", "stop"} => loaded
  /\ mpc \in {"loading", "init"} => wstat = "LOADED"
  /\ mpc = "initing" => wstat = "INIT"
  /\ mstat = "LOADED" => mpc = "idle" /\ loaded /\ wstat = "LOADED"
  /\ mpc = "idle" /\ ~refused /\ ncmd > 0 /\ ~Precach =>
       IF mstat = "PARSED" THEN ~loaded ELSE loaded /\ wstat = mstat

\* Where Run may be when every cycle is shorter than the sleep: not before the first RUN,
\* not in a waveform that is not there and not when the modules are stopped.
RunsAt ==
  /\ Prompt /\ (~loaded \/ wstat \in {"LOADED", "INIT"}) => \A m \in Mods : ppc[m] # "run"
  /\ wstat \in {"LOADED", "INIT"} =>
       \A m \in Mods : status[m] \in {"PARSED", "LOADED", "INIT"}
  /\ td[Main] # "no" => \A m \in Mods : ~(inpipe[m] /\ runnable[m])
  /\ td[Main] = "sleep" => InCycle \subseteq busy[Main]
  /\ Prompt /\ td[Main] \in {"join", "remove"} => InCycle = {}

\* As long as no Run has failed.
Quiet == Types /\ NoFaults /\ MainAt /\ SlotAt /\ RunsAt

SerialInv == Serial => Quiet

\* Three commands have been typed when a module runs, and the third has been answered.
AllTyped == mpc = "idle" /\ ncmd >= 3

\* How many commands it takes to get so far.
Counts ==
  /\ ncmd \in Nat
  /\ mpc # "idle" \/ mstat = "LOADED" => ncmd >= 1
  /\ mpc \in {"init", "initing", "precach"} \/ mstat = "INIT" => ncmd >= 2
  /\ mpc \in {"step", "run1", "copy"} \/ mstat \in {"RUN", "STEP", "PAUSE"} => ncmd >= 3
  /\ wstat \in {"RUN", "STEP"} => AllTyped
  /\ \A m \in Mods : ppc[m] = "run" \/ status[m] = "RUN" => AllTyped

PipePcs == {"idle", "cycle", "run", "park", "notify", "callback", "acknowledge"}

\* Some Run has failed: the main thread and the init task rest, and pipeline threads
\* switch the modules off before they go on to stop and remove them.  The types:
EndTypes ==
  /\ sc \in Scenario /\ ncmd \in Nat
  /\ ppc \in [Mods -> PipePcs] /\ runnable \in [Mods -> BOOLEAN]
  /\ td \in [Executors -> {"no", "sleep", "join", "remove"}]
  /\ busy \in [Executors -> SUBSET Mods] /\ stask \in [Executors -> Tasks]

\* A thread is stopping inside its callback only, and does not go on before its task.
EndThreads ==
  /\ AllTyped /\ td[Main] = "no" /\ itask.ret # "run" /\ ~itask.in
  /\ \A m \in Mods : td[m] # "no" => ppc[m] = "callback"
  /\ \A e \in Executors : /\ stask[e].in => stask[e].ret = "run"
                          /\ stask[e].ret = "run" => td[e] = "join"

\* What is being stopped is switched off, and its cycles have been slept out.
EndOff ==
  /\ ~loaded \/ (\E m \in Mods : ppc[m] \in {"callback", "acknowledge"}) => runnable = All(FALSE)
  /\ \A m \in Mods : td[m] = "sleep" => InCycle \subseteq busy[m]
  /\ ~loaded \/ (\E m \in Mods : td[m] \in {"join", "remove"}) => InCycle = {}

Ending == EndTypes /\ EndThreads /\ EndOff

EndInv == NothingAfterRun => (Quiet /\ Counts) \/ Ending

-----------------------------------------------------------------------------

\* The steps as long as no Run has failed.
QuietNext ==
  \/ TypeLoad \/ \E c \in Commands : TypeStatus(c)
  \/ LoadModules \/ LoadFails \/ LoadDone
  \/ InitStart \/ InitDone \/ PrecachDone \/ InitFailed
  \/ StatusStep \/ StatusRun \/ StatusCopy
  \/ InitTask \/ InitOk \/ InitAgain \/ InitError
  \/ StopTask(Main) \/ StopOk(Main) \/ StopError(Main)
  \/ StopRun0(Main) \/ StopSlept(Main) \/ StopJoin(Main) \/ StopRemove(Main)
  \/ \E m \in Mods : CheckStatus(m) \/ Cycle(m) \/ (Run(m) /\ UNCHANGED errcode) \/ Park(m)

\* Numbers and records of Waveform's small data types.
LEMMA Data ==
  /\ Main \in Executors /\ Mods \subseteq Executors /\ Main \notin Mods /\ Mods \subseteq Int
  /\ \A e \in Executors : e = Main \/ e \in Mods
  /\ NoTask \in Tasks /\ NoTask.ret = "none" /\ ~NoTask.in
BY WaveformAssumption DEF Main, Executors, Mods, NoTask, Tasks, Returns

\* What the steps of a task make of it.
LEMMA TaskSteps ==
  ASSUME NEW t \in Tasks
  PROVE  /\ [t EXCEPT !.ret = "ok"] \in Tasks /\ [t EXCEPT !.ret = "null"] \in Tasks
         /\ [t EXCEPT !.in = TRUE] \in Tasks /\ [t EXCEPT !.in = FALSE] \in Tasks
         /\ [t EXCEPT !.i = @ + 1] \in Tasks
         /\ [t EXCEPT !.in = FALSE, !.i = @ + 1] \in Tasks
         /\ [t EXCEPT !.in = FALSE, !.n = @ + 1] \in Tasks
         /\ [t EXCEPT !.in = FALSE, !.ret = "null"] \in Tasks
<1>1. t.i + 1 \in Int /\ t.n + 1 \in Int
  BY DEF Tasks
<1>2. [t EXCEPT !.in = FALSE, !.i = @ + 1] \in Tasks
  <2>1. PICK j \in Int : j = t.i + 1
    BY <1>1
  <2>2. [t EXCEPT !.in = FALSE, !.i = j] \in Tasks
    BY Zenon DEF Tasks
  <2> QED
    BY <2>1, <2>2
<1>3. [t EXCEPT !.in = FALSE, !.n = @ + 1] \in Tasks
  <2>1. PICK j \in Int : j = t.n + 1
    BY <1>1
  <2>2. [t EXCEPT !.in = FALSE, !.n = j] \in Tasks
    BY Zenon DEF Tasks
  <2> QED
    BY <2>1, <2>2
<1>4. /\ [t EXCEPT !.ret = "ok"] \in Tasks /\ [t EXCEPT !.ret = "null"] \in Tasks
      /\ [t EXCEPT !.in = TRUE] \in Tasks /\ [t EXCEPT !.in = FALSE] \in Tasks
      /\ [t EXCEPT !.i = @ + 1] \in Tasks
  BY <1>1, Zenon DEF Tasks, Returns
<1>5. [t EXCEPT !.in = FALSE, !.ret = "null"] \in Tasks
  BY Zenon DEF Tasks, Returns
<1> QED
  BY <1>2, <1>3, <1>4, <1>5

\* The init task goes on to its next module, or to the next pass.
LEMMA TaskAdvances ==
  ASSUME NEW t \in Tasks
  PROVE  /\ TaskAdvance(t) \in Tasks
         /\ TaskAdvance(t).in = t.in /\ TaskAdvance(t).ret \in {t.ret, "null"}
<1>1. \A j, k \in Int : \A r \in Returns : [t EXCEPT !.i = j, !.pass = k, !.ret = r] \in Tasks
  BY Zenon DEF Tasks
<1>2. t.i + 1 \in Int /\ t.pass + 1 \in Int /\ t.ret \in Returns /\ "null" \in Returns /\ 1 \in Int
  BY DEF Tasks, Returns
<1>3. [t EXCEPT !.i = 1, !.pass = @ + 1, !.ret = IF t.pass = 2 THEN "null" ELSE @] \in Tasks
  BY <1>1, <1>2, Zenon
<1>4. TaskAdvance(t) \in Tasks
  BY <1>3, TaskSteps, Zenon DEF TaskAdvance
<1>5. TaskAdvance(t).in = t.in
  BY DEF Tasks, TaskAdvance
<1>6. TaskAdvance(t).ret \in {t.ret, "null"}
  BY DEF Tasks, TaskAdvance
<1> QED
  BY <1>4, <1>5, <1>6

\* No pipeline thread takes part in stopping the waveform.
LEMMA QuietSteps ==
  ASSUME InTime, Types, NoFaults, Next
  PROVE  QuietNext \/ \E m \in Mods : Run(m) /\ "run" \in Failures
<1>1. ASSUME NEW e \in Executors, StopThread(e)
      PROVE  e = Main
  BY <1>1, Data DEF StopThread, StopTask, StopOk, StopError, NoFaults
<1>2. ASSUME NEW e \in Executors, StopCaller(e)
      PROVE  e = Main
  BY <1>2, Data, Zenon DEF StopCaller, StopRun0, Stopping, StopSlept, StopJoin, StopRemove,
     NoFaults, Types
<1>3. ASSUME NEW m \in Mods, PipeThread(m)
      PROVE  CheckStatus(m) \/ Cycle(m) \/ Run(m) \/ Park(m)
  BY <1>3, Zenon DEF PipeThread, Notify, Acknowledge, Types
<1>4. ~LoadTimeout
  BY Zenon DEF LoadTimeout, InTime
<1>5. ASSUME NEW m \in Mods, Run(m), "run" \notin Failures
      PROVE  UNCHANGED errcode
  BY <1>5 DEF Run
<1> QED
  BY <1>1, <1>2, <1>3, <1>4, <1>5 DEF Next, QuietNext, Operator, MainThread, InitThread,
     StopThread, StopCaller

\* Every variable keeps its type.
LEMMA TypesKept ==
  ASSUME InTime, Types, NoFaults, QuietNext
  PROVE  Types'
<1>1. ASSUME TypeLoad PROVE Types'
  BY <1>1 DEF TypeLoad, Typed, mods, procs, tear, Types, MainPcs, Statuses
<1>2. ASSUME NEW c \in Commands, TypeStatus(c) PROVE Types'
  <2>1. c \in Statuses
    BY DEF Types, Scenario, Commands
  <2> QED
    BY <1>2, <2>1 DEF TypeStatus, Typed, FirstStep, MainPcs, Types, mgr, mods, procs, tear
<1>3. ASSUME LoadModules PROVE Types'
  BY <1>3 DEF LoadModules, tear, Types, MainPcs, Statuses, All
<1>4. ASSUME LoadFails PROVE Types'
  BY <1>4, Zenon DEF LoadFails, Remove, Answer, tear, Types, MainPcs, Statuses, All
<1>5. ASSUME LoadDone PROVE Types'
  BY <1>5 DEF LoadDone, Answer, mods, procs, tear, Types, MainPcs, Statuses
<1>6. ASSUME InitStart PROVE Types'
  <2>1. itask' \in Tasks
    BY <1>6, Data DEF InitStart, Tasks, Returns
  <2> QED
    BY <1>6, <2>1 DEF InitStart, MainPcs, Statuses, Types, mgr, mods, procs, tear
<1>7. ASSUME InitTask PROVE Types'
  <2>1. itask' \in Tasks
    BY <1>7, TaskSteps, TaskAdvances, Zenon DEF InitTask, Types
  <2> QED
    BY <1>7, <2>1 DEF InitTask, Types, mgr, mods, procs, tear
<1>8. ASSUME InitOk PROVE Types'
  <2>1. itask' \in Tasks
    BY <1>8, TaskSteps, TaskAdvances, Zenon DEF InitOk, Types
  <2>2. status' \in [Mods -> Statuses]
    BY <1>8, Zenon DEF InitOk, Types, Statuses
  <2> QED
    BY <1>8, <2>1, <2>2 DEF InitOk, Types, mgr, mods, procs, tear
<1>9. ASSUME InitAgain PROVE Types'
  <2>1. itask' \in Tasks
    BY <1>9, TaskSteps, TaskAdvances, Zenon DEF InitAgain, Types
  <2> QED
    BY <1>9, <2>1 DEF InitAgain, Types, mgr, mods, procs, tear
<1>10. ASSUME InitError PROVE Types'
  <2>1. itask' \in Tasks
    BY <1>10, TaskSteps, TaskAdvances, Zenon DEF InitError, Types
  <2> QED
    BY <1>10, <2>1 DEF InitError, Types, mgr, mods, procs, tear
<1>11. ASSUME InitDone PROVE Types'
  BY <1>11, Zenon DEF InitDone, Answer, mods, procs, tear, Types, MainPcs, Statuses
<1>12. ASSUME PrecachDone PROVE Types'
  BY <1>12 DEF PrecachDone, Answer, mods, procs, tear, Types, MainPcs, Statuses
<1>13. ASSUME InitFailed PROVE Types'
  BY <1>13, Zenon DEF InitFailed, Remove, tear, Types, MainPcs, Statuses, All
<1>14. ASSUME StatusStep PROVE Types'
  BY <1>14 DEF StatusStep, procs, tear, Types, MainPcs, Statuses, All
<1>15. ASSUME StatusRun PROVE Types'
  BY <1>15 DEF StatusRun, SetRunnable, mods, tear, Types, MainPcs, All
<1>16. ASSUME StatusCopy PROVE Types'
  BY <1>16 DEF StatusCopy, Answer, procs, tear, Types, MainPcs, Statuses, All
<1>17. ASSUME StopRun0(Main) PROVE Types'
  BY <1>17, Data DEF StopRun0, SetRunnable, Stopping, mgr, mods, Types, All, InCycle
<1>18. ASSUME StopSlept(Main) PROVE Types'
  <2>1. stask' \in [Executors -> Tasks]
    BY <1>18, TaskSteps, Data, Zenon DEF StopSlept, Types, NoTask, Tasks, Returns
  <2> QED
    BY <1>18, <2>1, Data DEF StopSlept, Statuses, Types, mgr, mods, procs, tear
<1>19. ASSUME StopTask(Main) PROVE Types'
  <2>1. /\ [stask EXCEPT ![Main].ret = "ok"] \in [Executors -> Tasks]
        /\ [stask EXCEPT ![Main].ret = "null"] \in [Executors -> Tasks]
        /\ [stask EXCEPT ![Main].in = TRUE] \in [Executors -> Tasks]
    BY Data, Zenon DEF Types, Tasks, Returns
  <2>2. [stask EXCEPT ![Main].i = @ + 1] \in [Executors -> Tasks]
    BY Data DEF Types, Tasks
  <2>3. stask' \in [Executors -> Tasks]
    BY <1>19, <2>1, <2>2, Zenon DEF StopTask
  <2> QED
    BY <1>19, <2>3 DEF StopTask, Types, mgr, mods, procs, tear
<1>20. ASSUME StopOk(Main) PROVE Types'
  <2>1. stask' \in [Executors -> Tasks]
    BY <1>20, TaskSteps, Data, Zenon DEF StopOk, Types
  <2>2. status' \in [Mods -> Statuses]
    BY <1>20, Zenon DEF StopOk, Types, Statuses
  <2> QED
    BY <1>20, <2>1, <2>2 DEF StopOk, Types, mgr, mods, procs, tear
<1>21. ASSUME StopError(Main) PROVE Types'
  <2>1. stask' \in [Executors -> Tasks]
    BY <1>21, TaskSteps, Data, Zenon DEF StopError, Types
  <2> QED
    BY <1>21, <2>1, Data DEF StopError, Types, mgr, mods, procs, tear
<1>22. ASSUME StopJoin(Main) PROVE Types'
  BY <1>22, Data DEF StopJoin, mgr, mods, procs, Types
<1>23. ASSUME StopRemove(Main) PROVE Types'
  BY <1>23, Data, Zenon DEF StopRemove, Remove, Answer, mgr, Types, MainPcs, Statuses, All
<1>24. ASSUME NEW m \in Mods, CheckStatus(m) PROVE Types'
  BY <1>24 DEF CheckStatus, Goto, NoFaults, All, Types, mgr, mods, procs, tear
<1>25. ASSUME NEW m \in Mods, Cycle(m) PROVE Types'
  <2>1. NewStatus(m) \in Statuses
    BY DEF NewStatus, Types, Statuses
  <2> QED
    BY <1>25, <2>1 DEF Cycle, Goto, Types, mgr, mods, procs, tear
<1>26. ASSUME NEW m \in Mods, Run(m) PROVE Types'
  BY <1>26, Data DEF Run, Over, Goto, mgr, mods, Types
<1>27. ASSUME NEW m \in Mods, Park(m) PROVE Types'
  BY <1>27, Data DEF Park, Over, Goto, mgr, mods, Types
<1> QED
  BY <1>1, <1>2, <1>3, <1>4, <1>5, <1>6, <1>7, <1>8, <1>9, <1>10, <1>11, <1>12, <1>13, <1>14,
         <1>15, <1>16, <1>17, <1>18, <1>19, <1>20, <1>21, <1>22, <1>23, <1>24, <1>25, <1>26,
         <1>27 DEF QuietNext

\* No pipeline thread sees a fault or stops the waveform.
LEMMA NoFaultsKept ==
  ASSUME InTime, Types, NoFaults, QuietNext
  PROVE  NoFaults'
<1>1. ASSUME TypeLoad \/ LoadFails \/ LoadDone \/ InitStart \/ InitDone \/ PrecachDone \/
           InitFailed \/ StatusStep \/ StatusRun \/ StatusCopy \/ InitTask \/ InitOk \/
           InitAgain \/ InitError
      PROVE  NoFaults'
  <2>1. UNCHANGED <<errcode, td, stask>>
    BY <1>1, Zenon DEF TypeLoad, Typed, mods, procs, tear, LoadFails, Answer, LoadDone, InitStart,
           NoTask, InitDone, PrecachDone, InitFailed, StatusStep, StatusRun, StatusCopy, InitTask,
           mgr, InitOk, InitAgain, InitError
  <2> QED
    BY <2>1 DEF NoFaults
<1>2. ASSUME NEW c \in Commands, TypeStatus(c)
      PROVE  NoFaults'
  <2>1. UNCHANGED <<errcode, td, stask>>
    BY <1>2 DEF TypeStatus, Typed, mods, procs, tear
  <2> QED
    BY <2>1 DEF NoFaults
<1>3. ASSUME NEW m \in Mods, CheckStatus(m) \/ Cycle(m) \/ Park(m)
      PROVE  NoFaults'
  <2>1. UNCHANGED <<errcode, td, stask>>
    BY <1>3 DEF CheckStatus, Goto, mgr, mods, procs, tear, Cycle, Park, Over
  <2> QED
    BY <2>1 DEF NoFaults
<1>4. ASSUME LoadModules PROVE NoFaults'
  BY <1>4 DEF LoadModules, tear, NoFaults, Types, All
<1>5. ASSUME StopRun0(Main) PROVE NoFaults'
  BY <1>5, Data DEF StopRun0, SetRunnable, Stopping, mgr, mods, NoFaults, Types, All
<1>6. ASSUME StopSlept(Main) PROVE NoFaults'
  BY <1>6, Data DEF StopSlept, NoTask, mgr, mods, procs, NoFaults, Types
<1>7. ASSUME StopTask(Main) PROVE NoFaults'
  BY <1>7, Data DEF StopTask, mgr, procs, NoFaults, Types
<1>8. ASSUME StopOk(Main) PROVE NoFaults'
  BY <1>8, Data DEF StopOk, mgr, procs, NoFaults, Types
<1>9. ASSUME StopError(Main) PROVE NoFaults'
  BY <1>9, Data DEF StopError, mgr, mods, procs, NoFaults, Types
<1>10. ASSUME StopJoin(Main) PROVE NoFaults'
  BY <1>10, Data DEF StopJoin, mgr, mods, procs, NoFaults, Types
<1>11. ASSUME StopRemove(Main) PROVE NoFaults'
  BY <1>11, Data DEF StopRemove, Remove, Answer, mgr, NoFaults, Types, All
<1>12. ASSUME NEW m \in Mods, Run(m), UNCHANGED errcode PROVE NoFaults'
  BY <1>12, Data DEF Run, Over, Goto, mgr, mods, NoFaults, Types
<1> QED
  BY <1>1, <1>2, <1>3, <1>4, <1>5, <1>6, <1>7, <1>8, <1>9, <1>10, <1>11, <1>12 DEF QuietNext

\* The tasks end before the main thread goes on.
LEMMA MainAtKept ==
  ASSUME InTime, Types, MainAt, SlotAt, QuietNext
  PROVE  MainAt'
<1>1. ASSUME NEW m \in Mods, CheckStatus(m) \/ Cycle(m) \/ Run(m) \/ Park(m)
      PROVE  MainAt'
  <2>1. UNCHANGED <<sc, mpc, cmd, td, stask, itask>>
    BY <1>1 DEF CheckStatus, Goto, mgr, mods, procs, tear, Cycle, Run, Over, Park
  <2> QED
    BY <2>1 DEF MainAt, Precach
<1>2. ASSUME TypeLoad PROVE MainAt'
  BY <1>2 DEF TypeLoad, Typed, mods, procs, tear, MainAt, Precach
<1>3. ASSUME NEW c \in Commands, TypeStatus(c) PROVE MainAt'
  BY <1>3 DEF TypeStatus, Typed, Valid, FirstStep, mods, procs, tear, MainAt, Precach
<1>4. ASSUME LoadModules PROVE MainAt'
  BY <1>4 DEF LoadModules, tear, MainAt, Precach
<1>5. ASSUME LoadFails PROVE MainAt'
  BY <1>5 DEF LoadFails, Remove, Answer, tear, MainAt, Precach
<1>6. ASSUME LoadDone PROVE MainAt'
  BY <1>6 DEF LoadDone, Answer, mods, procs, tear, MainAt, Precach
<1>7. ASSUME InitStart PROVE MainAt'
  BY <1>7 DEF InitStart, NoTask, mods, procs, tear, MainAt, Precach, Types, Tasks
<1>8. ASSUME InitTask PROVE MainAt'
  <2>1. /\ itask'.in => itask'.ret = "run"
        /\ itask'.ret = "run" => itask.ret = "run"
    BY <1>8, TaskAdvances DEF InitTask, Types, Tasks
  <2> QED
    BY <1>8, <2>1 DEF InitTask, MainAt, Precach, mgr, tear
<1>9. ASSUME InitOk PROVE MainAt'
  BY <1>9 DEF InitOk, TaskAdvance, mgr, procs, tear, MainAt, Precach, Types, Tasks
<1>10. ASSUME InitAgain PROVE MainAt'
  BY <1>10 DEF InitAgain, TaskAdvance, mgr, mods, procs, tear, MainAt, Precach, Types, Tasks
<1>11. ASSUME InitError PROVE MainAt'
  BY <1>11 DEF InitError, mgr, mods, procs, tear, MainAt, Precach, Types, Tasks
<1>12. ASSUME InitDone PROVE MainAt'
  BY <1>12 DEF InitDone, Answer, mods, procs, tear, MainAt, Precach, InTime
<1>13. ASSUME PrecachDone PROVE MainAt'
  BY <1>13 DEF PrecachDone, Answer, mods, procs, tear, MainAt, Precach
<1>14. ASSUME InitFailed PROVE MainAt'
  BY <1>14 DEF InitFailed, Remove, tear, MainAt, Precach
<1>15. ASSUME StatusStep PROVE MainAt'
  BY <1>15 DEF StatusStep, procs, tear, MainAt, Precach
<1>16. ASSUME StatusRun PROVE MainAt'
  BY <1>16 DEF StatusRun, SetRunnable, mods, tear, MainAt, Precach
<1>17. ASSUME StatusCopy PROVE MainAt'
  BY <1>17 DEF StatusCopy, Answer, procs, tear, MainAt, Precach
<1>18. ASSUME StopRun0(Main) PROVE MainAt'
  BY <1>18, Data DEF StopRun0, SetRunnable, Stopping, mgr, mods, MainAt, Precach, Types
<1>19. ASSUME StopSlept(Main) PROVE MainAt'
  BY <1>19, Data DEF StopSlept, NoTask, mgr, mods, procs, MainAt, Precach, Types, Tasks
<1>20. ASSUME StopTask(Main) PROVE MainAt'
  BY <1>20, Data DEF StopTask, mgr, procs, MainAt, Precach, Types, Tasks
<1>21. ASSUME StopOk(Main) PROVE MainAt'
  BY <1>21, Data DEF StopOk, mgr, procs, MainAt, Precach, Types, Tasks
<1>22. ASSUME StopError(Main) PROVE MainAt'
  BY <1>22, Data DEF StopError, mgr, mods, procs, MainAt, Precach, Types, Tasks
<1>23. ASSUME StopJoin(Main) PROVE MainAt'
  BY <1>23, Data DEF StopJoin, mgr, mods, procs, MainAt, Precach, Types, InTime
<1>24. ASSUME StopRemove(Main) PROVE MainAt'
  BY <1>24, Data DEF StopRemove, Remove, Answer, mgr, MainAt, Precach, Types
<1> QED
  BY <1>1, <1>2, <1>3, <1>4, <1>5, <1>6, <1>7, <1>8, <1>9, <1>10, <1>11, <1>12, <1>13, <1>14,
         <1>15, <1>16, <1>17, <1>18, <1>19, <1>20, <1>21, <1>22, <1>23, <1>24 DEF QuietNext

\* The slot is loaded when the command in progress needs it.
LEMMA SlotAtKept ==
  ASSUME InTime, Types, MainAt, SlotAt, QuietNext
  PROVE  SlotAt'
<1>1. ASSUME InitTask \/ InitOk \/ InitAgain \/ InitError \/ StopTask(Main) \/ StopOk(Main) \/
           StopError(Main)
      PROVE  SlotAt'
  <2>1. UNCHANGED <<sc, mstat, mpc, ncmd, refused, wstat, loaded, inpipe, td>>
    BY <1>1 DEF InitTask, mgr, procs, tear, InitOk, InitAgain, mods, InitError, StopTask,
           StopOk, StopError
  <2> QED
    BY <2>1 DEF SlotAt, Precach
<1>2. ASSUME NEW m \in Mods, CheckStatus(m) \/ Cycle(m) \/ Run(m) \/ Park(m)
      PROVE  SlotAt'
  <2>1. UNCHANGED <<sc, mstat, mpc, ncmd, refused, wstat, loaded, inpipe, td>>
    BY <1>2 DEF CheckStatus, Goto, mgr, mods, procs, tear, Cycle, Run, Over, Park
  <2> QED
    BY <2>1 DEF SlotAt, Precach
<1>3. ASSUME TypeLoad PROVE SlotAt'
  BY <1>3 DEF TypeLoad, Typed, mods, procs, tear, SlotAt, MainAt, Precach, Types
<1>4. ASSUME NEW c \in Commands, TypeStatus(c) PROVE SlotAt'
  BY <1>4, Zenon DEF TypeStatus, Typed, Valid, FirstStep, mods, procs, tear, SlotAt, MainAt,
     Precach,
         Types
<1>5. ASSUME LoadModules PROVE SlotAt'
  BY <1>5 DEF LoadModules, tear, SlotAt, MainAt, Precach, Types, All
<1>6. ASSUME LoadFails PROVE SlotAt'
  BY <1>6, Zenon DEF LoadFails, Remove, Answer, tear, SlotAt, MainAt, Precach, Types, All
<1>7. ASSUME LoadDone PROVE SlotAt'
  BY <1>7 DEF LoadDone, Answer, mods, procs, tear, SlotAt, MainAt, Precach, Types
<1>8. ASSUME InitStart PROVE SlotAt'
  BY <1>8 DEF InitStart, NoTask, mods, procs, tear, SlotAt, MainAt, Precach, Types
<1>9. ASSUME InitDone PROVE SlotAt'
  BY <1>9 DEF InitDone, Answer, mods, procs, tear, SlotAt, MainAt, Precach, Types
<1>10. ASSUME PrecachDone PROVE SlotAt'
  BY <1>10 DEF PrecachDone, Answer, mods, procs, tear, SlotAt, MainAt, Precach, Types
<1>11. ASSUME InitFailed PROVE SlotAt'
  BY <1>11, Zenon DEF InitFailed, Remove, tear, SlotAt, MainAt, Precach, Types, All
<1>12. ASSUME StatusStep PROVE SlotAt'
  BY <1>12 DEF StatusStep, procs, tear, SlotAt, MainAt, Precach, Types, All
<1>13. ASSUME StatusRun PROVE SlotAt'
  BY <1>13 DEF StatusRun, SetRunnable, mods, tear, SlotAt, MainAt, Precach, Types, All
<1>14. ASSUME StatusCopy PROVE SlotAt'
  BY <1>14 DEF StatusCopy, Answer, procs, tear, SlotAt, MainAt, Precach, Types, All
<1>15. ASSUME StopRun0(Main) PROVE SlotAt'
  BY <1>15, Data DEF StopRun0, SetRunnable, Stopping, mgr, mods, SlotAt, MainAt, Precach, Types,
         All
<1>16. ASSUME StopSlept(Main) PROVE SlotAt'
  BY <1>16, Data DEF StopSlept, NoTask, mgr, mods, procs, SlotAt, MainAt, Precach, Types
<1>17. ASSUME StopJoin(Main) PROVE SlotAt'
  BY <1>17, Data DEF StopJoin, mgr, mods, procs, SlotAt, MainAt, Precach, Types
<1>18. ASSUME StopRemove(Main) PROVE SlotAt'
  BY <1>18, Data, Zenon DEF StopRemove, Remove, Answer, mgr, SlotAt, MainAt, Precach, Types, All
<1> QED
  BY <1>1, <1>2, <1>3, <1>4, <1>5, <1>6, <1>7, <1>8, <1>9, <1>10, <1>11, <1>12, <1>13, <1>14,
         <1>15, <1>16, <1>17, <1>18 DEF QuietNext

\* Run stays apart from the steps that stop and free the modules.
LEMMA RunsAtKept ==
  ASSUME InTime, Types, NoFaults, MainAt, SlotAt, RunsAt, QuietNext
  PROVE  RunsAt'
<1>1. ASSUME TypeLoad \/ LoadDone \/ InitTask \/ InitAgain \/ InitError \/ StopTask(Main) \/
           StopError(Main)
      PROVE  RunsAt'
  <2>1. UNCHANGED <<sc, wstat, loaded, status, inpipe, runnable, ppc, td, busy>>
    BY <1>1 DEF TypeLoad, Typed, mods, procs, tear, LoadDone, Answer, InitTask, mgr, InitAgain,
           InitError, StopTask, StopError
  <2> QED
    BY <2>1 DEF RunsAt, InCycle, Prompt
<1>2. ASSUME NEW c \in Commands, TypeStatus(c)
      PROVE  RunsAt'
  <2>1. UNCHANGED <<sc, wstat, loaded, status, inpipe, runnable, ppc, td, busy>>
    BY <1>2 DEF TypeStatus, Typed, mods, procs, tear
  <2> QED
    BY <2>1 DEF RunsAt, InCycle, Prompt
<1>3. ASSUME LoadModules PROVE RunsAt'
  BY <1>3 DEF LoadModules, tear, RunsAt, InCycle, Prompt, Types, All, SlotAt, MainAt
<1>4. ASSUME LoadFails PROVE RunsAt'
  BY <1>4 DEF LoadFails, Remove, Answer, tear, RunsAt, InCycle, Prompt, Types, All, SlotAt,
         MainAt
<1>5. ASSUME InitStart PROVE RunsAt'
  BY <1>5, Zenon DEF InitStart, NoTask, mods, procs, tear, RunsAt, InCycle, Prompt, Types, SlotAt,
         MainAt
<1>6. ASSUME InitOk PROVE RunsAt'
  BY <1>6 DEF InitOk, TaskAdvance, mgr, procs, tear, RunsAt, InCycle, Prompt, Types, SlotAt,
         MainAt
<1>7. ASSUME InitDone PROVE RunsAt'
  BY <1>7, Zenon DEF InitDone, Answer, mods, procs, tear, RunsAt, InCycle, Prompt, Types, SlotAt,
         MainAt
<1>8. ASSUME PrecachDone PROVE RunsAt'
  BY <1>8, Zenon DEF PrecachDone, Answer, mods, procs, tear, RunsAt, InCycle, Prompt, Types,
     SlotAt,
         MainAt
<1>9. ASSUME InitFailed PROVE RunsAt'
  BY <1>9 DEF InitFailed, Remove, tear, RunsAt, InCycle, Prompt, Types, All, SlotAt, MainAt
<1>10. ASSUME StatusStep PROVE RunsAt'
  BY <1>10 DEF StatusStep, procs, tear, RunsAt, InCycle, Prompt, Types, All, SlotAt, MainAt
<1>11. ASSUME StatusRun PROVE RunsAt'
  BY <1>11 DEF StatusRun, SetRunnable, mods, tear, RunsAt, InCycle, Prompt, Types, All, SlotAt,
         MainAt
<1>12. ASSUME StatusCopy PROVE RunsAt'
  BY <1>12 DEF StatusCopy, Answer, procs, tear, RunsAt, InCycle, Prompt, Types, All, SlotAt,
         MainAt
<1>13. ASSUME StopRun0(Main) PROVE RunsAt'
  BY <1>13, Data DEF StopRun0, SetRunnable, Stopping, mgr, mods, RunsAt, InCycle, Prompt, Types,
         All, SlotAt, MainAt
<1>14. ASSUME StopSlept(Main) PROVE RunsAt'
  BY <1>14, Data DEF StopSlept, NoTask, mgr, mods, procs, RunsAt, InCycle, Prompt, Types,
         SlotAt, MainAt
<1>15. ASSUME StopOk(Main) PROVE RunsAt'
  BY <1>15, Data DEF StopOk, mgr, procs, RunsAt, InCycle, Prompt, Types, SlotAt, MainAt
<1>16. ASSUME StopJoin(Main) PROVE RunsAt'
  BY <1>16, Data DEF StopJoin, mgr, mods, procs, RunsAt, InCycle, Prompt, Types, SlotAt, MainAt
<1>17. ASSUME StopRemove(Main) PROVE RunsAt'
  BY <1>17, Data DEF StopRemove, Remove, Answer, mgr, RunsAt, InCycle, Prompt, Types, All,
         SlotAt, MainAt
<1>18. ASSUME NEW m \in Mods, CheckStatus(m) PROVE RunsAt'
  BY <1>18, Data DEF CheckStatus, Goto, mgr, mods, procs, tear, RunsAt, InCycle, Prompt, Types,
         SlotAt, MainAt
<1>19. ASSUME NEW m \in Mods, Cycle(m) PROVE RunsAt'
  BY <1>19, Data DEF Cycle, Goto, NewStatus, mgr, procs, tear, RunsAt, InCycle, Prompt, Types,
         SlotAt, MainAt
<1>20. ASSUME NEW m \in Mods, Run(m) PROVE RunsAt'
  BY <1>20, Data DEF Run, Over, Goto, mgr, mods, RunsAt, InCycle, Prompt, Types, SlotAt, MainAt
<1>21. ASSUME NEW m \in Mods, Park(m) PROVE RunsAt'
  BY <1>21, Data DEF Park, Over, Goto, mgr, mods, RunsAt, InCycle, Prompt, Types, SlotAt, MainAt
<1> QED
  BY <1>1, <1>2, <1>3, <1>4, <1>5, <1>6, <1>7, <1>8, <1>9, <1>10, <1>11, <1>12, <1>13, <1>14,
         <1>15, <1>16, <1>17, <1>18, <1>19, <1>20, <1>21 DEF QuietNext

\* The scenario is given once and for all.
LEMMA ScenarioFixed == [Next]_vars => sc' = sc
<1>1. CASE UNCHANGED vars
  BY <1>1 DEF vars
<1>2. CASE Next
  BY <1>2, Zenon DEF Next, Operator, MainThread, InitThread, StopThread, StopCaller, PipeThread,
          TypeLoad, TypeStatus, LoadModules, LoadFails, LoadDone, LoadTimeout, InitStart, InitTask,
          InitOk, InitAgain, InitError, InitDone, PrecachDone, InitFailed, StatusStep, StatusRun,
          StatusCopy, StopRun0, StopSlept, StopTask, StopOk, StopError, StopJoin, StopRemove,
          CheckStatus, Notify, Acknowledge, Cycle, Run, Park, Typed, Answer
<1> QED
  BY <1>1, <1>2

\* The quiet part of a behaviour.
LEMMA QuietInit == Init => Quiet
<1> SUFFICES ASSUME Init PROVE Quiet
  OBVIOUS
<1>1. Types
  BY Data, WaveformAssumption, Zenon DEF Init, Types, MainPcs, Statuses, All
<1>2. NoFaults
  BY Data DEF Init, NoFaults, All
<1>3. MainAt
  BY Data DEF Init, MainAt
<1>4. SlotAt
  BY Data, Zenon DEF Init, SlotAt, All
<1>5. RunsAt
  BY Data DEF Init, RunsAt, All, InCycle
<1> QED
  BY <1>1, <1>2, <1>3, <1>4, <1>5 DEF Quiet

\* Every step of a quiet state but a failing Run leads to a quiet state.
LEMMA QuietKept ==
  ASSUME InTime, Quiet, QuietNext
  PROVE  Quiet'
BY TypesKept, NoFaultsKept, MainAtKept, SlotAtKept, RunsAtKept DEF Quiet

\* Stuttering.
LEMMA QuietSame ==
  ASSUME Quiet, UNCHANGED vars
  PROVE  Quiet'
<1> USE DEF vars, mgr, mods, procs, tear, Quiet
<1>1. Types' /\ NoFaults'
  BY DEF Types, NoFaults
<1>2. MainAt'
  BY DEF MainAt, Precach
<1>3. SlotAt'
  BY DEF SlotAt, Precach
<1>4. RunsAt'
  BY DEF RunsAt, InCycle, Prompt
<1> QED
  BY <1>1, <1>2, <1>3, <1>4

\* Serial scenarios stay quiet for ever.
THEOREM WaveformInvariance == Spec => []SerialInv
<1>1. Init => SerialInv
  BY QuietInit DEF SerialInv
<1>2. SerialInv /\ [Next]_vars => SerialInv'
  <2> SUFFICES ASSUME SerialInv, [Next]_vars, Serial'
               PROVE  Quiet'
    BY DEF SerialInv
  <2>1. Serial /\ Quiet
    BY ScenarioFixed DEF SerialInv, Serial, Failures
  <2>2. InTime /\ "run" \notin Failures
    BY <2>1 DEF Serial, InTime
  <2>3. CASE Next
    BY <2>1, <2>2, <2>3, QuietSteps, QuietKept DEF Quiet
  <2> QED
    BY <2>1, <2>3, QuietSame
<1> QED
  BY <1>1, <1>2, PTL DEF Spec

\* In a quiet state Stop is apart from Run.
LEMMA QuietIsApart == Quiet => StopApartFromRun
BY Data DEF Quiet, StopApartFromRun, Types, NoFaults, MainAt, RunsAt, InCycle

-----------------------------------------------------------------------------
\* The first Run comes after the third command has been answered.
LEMMA CountsKept ==
  ASSUME NothingAfterRun, Quiet, Counts, QuietNext
  PROVE  Counts'
<1> DEFINE Seen == <<ncmd, mpc, mstat, wstat, ppc, status>>
<1>0. UNCHANGED Seen => Counts'
  BY DEF Counts, AllTyped
<1>1. ASSUME InitTask \/ InitAgain \/ InitError \/ StopRun0(Main) \/ StopTask(Main)
             \/ StopError(Main) \/ StopJoin(Main)
      PROVE  UNCHANGED Seen
  BY <1>1, Zenon DEF InitTask, InitAgain, InitError, StopRun0, StopTask, StopError, StopJoin,
     mgr, mods
<1>2. ASSUME TypeLoad PROVE Counts'
  BY <1>2 DEF TypeLoad, Typed, Counts, AllTyped, NothingAfterRun, Quiet, Types, Scenario,
     MaxCmds, mods
<1>3. ASSUME NEW c \in Commands, TypeStatus(c) PROVE Counts'
  BY <1>3 DEF TypeStatus, Typed, Valid, FirstStep, Counts, AllTyped, NothingAfterRun, Quiet, Types,
              Scenario, MaxCmds, mods
<1>4. ASSUME LoadModules PROVE Counts'
  BY <1>4 DEF LoadModules, Counts, AllTyped, All
<1>5. ASSUME LoadFails PROVE Counts'
  BY <1>5 DEF LoadFails, Remove, Answer, Counts, AllTyped, All
<1>6. ASSUME LoadDone PROVE Counts'
  BY <1>6 DEF LoadDone, Answer, Counts, AllTyped, Quiet, MainAt, mods
<1>7. ASSUME InitStart PROVE Counts'
  BY <1>7 DEF InitStart, Counts, AllTyped, mods
<1>8. ASSUME InitOk PROVE Counts'
  BY <1>8 DEF InitOk, Counts, AllTyped, Quiet, Types, mgr
<1>9. ASSUME InitDone PROVE Counts'
  BY <1>9 DEF InitDone, Answer, Counts, AllTyped, NothingAfterRun, Quiet, MainAt, mods
<1>10. ASSUME PrecachDone PROVE Counts'
  BY <1>10 DEF PrecachDone, NothingAfterRun, Quiet, MainAt
<1>11. ASSUME InitFailed PROVE Counts'
  BY <1>11 DEF InitFailed, Remove, Counts, AllTyped, All
<1>12. ASSUME StatusStep PROVE Counts'
  BY <1>12 DEF StatusStep, Counts, AllTyped, All
<1>13. ASSUME StatusRun PROVE Counts'
  BY <1>13 DEF StatusRun, Counts, AllTyped, mods
<1>14. ASSUME StatusCopy PROVE Counts'
  BY <1>14 DEF StatusCopy, Answer, Counts, AllTyped, Quiet, MainAt
<1>15. ASSUME StopSlept(Main) PROVE Counts'
  BY <1>15 DEF StopSlept, Counts, AllTyped, mgr, mods
<1>16. ASSUME StopOk(Main) PROVE Counts'
  BY <1>16 DEF StopOk, Counts, AllTyped, Quiet, Types, mgr
<1>17. ASSUME StopRemove(Main) PROVE Counts'
  BY <1>17, Data DEF StopRemove, Remove, Answer, Counts, AllTyped, Quiet, MainAt, All
<1>18. ASSUME NEW m \in Mods, CheckStatus(m) PROVE Counts'
  BY <1>18 DEF CheckStatus, Goto, Counts, AllTyped, Quiet, Types, NoFaults, All, mgr, mods
<1>19. ASSUME NEW m \in Mods, Cycle(m) PROVE Counts'
  <2>1. NewStatus(m) = "RUN" => AllTyped
    BY DEF NewStatus, Counts
  <2> QED
    BY <1>19, <2>1 DEF Cycle, Goto, Counts, AllTyped, Quiet, Types, mgr
<1>20. ASSUME NEW m \in Mods, Run(m) \/ Park(m) PROVE Counts'
  BY <1>20 DEF Run, Park, Over, Goto, Counts, AllTyped, Quiet, Types, mgr, mods
<1> QED
  BY <1>0, <1>1, <1>2, <1>3, <1>4, <1>5, <1>6, <1>7, <1>8, <1>9, <1>10, <1>11, <1>12, <1>13, <1>14,
     <1>15, <1>16, <1>17, <1>18, <1>19, <1>20 DEF QuietNext

\* The first Run that fails finds everything switched on.
LEMMA FirstFault ==
  ASSUME NothingAfterRun, Quiet, Counts, NEW m \in Mods, Run(m)
  PROVE  Ending'
<1>1. AllTyped /\ loaded /\ td[Main] = "no" /\ itask.ret # "run" /\ ~itask.in
  BY DEF Run, Counts, AllTyped, Quiet, MainAt, RunsAt, NothingAfterRun
<1>2. \A p \in Mods : td[p] = "no" /\ stask[p].ret # "run" /\ ~stask[p].in
  BY Data DEF Quiet, NoFaults
<1>3. stask[Main].ret # "run" /\ ~stask[Main].in
  BY <1>1 DEF Quiet, MainAt
<1>4. /\ ppc' \in [Mods -> PipePcs] /\ \A p \in Mods : ppc'[p] \notin {"callback", "acknowledge"}
      /\ busy' \in [Executors -> SUBSET Mods]
  BY DEF Run, Over, Goto, Quiet, Types, PipePcs
<1>5. EndTypes'
  BY <1>4 DEF Run, EndTypes, Quiet, Types, Counts, mgr
<1>6. EndThreads'
  BY <1>1, <1>2, <1>3, Data DEF Run, EndThreads, AllTyped, mgr
<1>7. EndOff'
  BY <1>1, <1>2, <1>4, Zenon DEF Run, EndOff, mgr
<1> QED
  BY <1>5, <1>6, <1>7 DEF Ending

\* What can happen after a Run has failed.
LEMMA EndingSteps ==
  ASSUME NothingAfterRun, Ending, Next
  PROVE  \E m \in Mods : StopThread(m) \/ StopCaller(m) \/ PipeThread(m)
<1>1. ~Operator
  BY DEF Operator, TypeLoad, TypeStatus, Typed, Ending, EndTypes, EndThreads, AllTyped,
     NothingAfterRun,
         Scenario, MaxCmds
<1>2. ~MainThread
  BY DEF MainThread, LoadModules, LoadFails, LoadDone, LoadTimeout, InitStart, InitDone,
     PrecachDone,
         InitFailed, StatusStep, StatusRun, StatusCopy, Ending, EndThreads, AllTyped
<1>3. ~InitThread
  BY DEF InitThread, InitTask, InitOk, InitAgain, InitError, Ending, EndThreads
<1>4. ~StopThread(Main)
  BY Data DEF StopThread, StopTask, StopOk, StopError, Ending, EndThreads
<1>5. ~StopCaller(Main)
  BY DEF StopCaller, StopRun0, Stopping, StopSlept, StopJoin, StopRemove, Ending, EndThreads,
     AllTyped
<1> QED
  BY <1>1, <1>2, <1>3, <1>4, <1>5, Data DEF Next

\* The modules stay switched off while they are stopped, also by several threads at once.
LEMMA EndingKept ==
  ASSUME NothingAfterRun, Ending, Next
  PROVE  Ending'
<1>1. PICK m \in Mods : StopThread(m) \/ StopCaller(m) \/ PipeThread(m)
  BY EndingSteps
<1>2. m \in Executors /\ m # Main
  BY Data
<1>3. Ending' <=> EndTypes' /\ EndThreads' /\ EndOff'
  BY DEF Ending
<1>4. EndTypes /\ EndThreads /\ EndOff
  BY DEF Ending
<1>5. CASE StopThread(m)
  <2>1. /\ UNCHANGED <<sc, mgr, loaded, procs, ppc, td, busy, itask>>
        /\ \A e \in Executors : e # m => stask'[e] = stask[e]
    BY <1>2, <1>4, <1>5 DEF StopThread, StopTask, StopOk, StopError, EndTypes
  <2>2. /\ stask' \in [Executors -> Tasks]
        /\ stask'[m].in => stask'[m].ret = "run"
        /\ stask'[m].ret = "run" => stask[m].ret = "run"
    <3> USE <1>2, <1>4 DEF EndTypes, EndThreads
    <3>1. CASE StopTask(m)
      <4> DEFINE t == stask[m]
      <4>1. /\ [t EXCEPT !.ret = "ok"] \in Tasks /\ [t EXCEPT !.ret = "null"] \in Tasks
            /\ [t EXCEPT !.in = TRUE] \in Tasks /\ [t EXCEPT !.i = @ + 1] \in Tasks
        BY TaskSteps, Zenon
      <4>2. t.ret = "run" /\ ~t.in /\ t \in Tasks
        BY <3>1 DEF StopTask
      <4>3. \E u \in {[t EXCEPT !.ret = "ok"], [t EXCEPT !.ret = "null"], [t EXCEPT !.in = TRUE],
                      [t EXCEPT !.i = @ + 1]} : stask' = [stask EXCEPT ![m] = u]
        BY <3>1 DEF StopTask
      <4>4. /\ ~[t EXCEPT !.ret = "ok"].in /\ ~[t EXCEPT !.ret = "null"].in
            /\ ~[t EXCEPT !.i = @ + 1].in /\ [t EXCEPT !.in = TRUE].ret = "run"
        BY <4>2 DEF Tasks
      <4>5. \A u \in {[t EXCEPT !.ret = "ok"], [t EXCEPT !.ret = "null"], [t EXCEPT !.in = TRUE],
                      [t EXCEPT !.i = @ + 1]} : u \in Tasks /\ (u.in => u.ret = "run")
        BY <4>1, <4>4, Zenon
      <4>6. PICK u \in Tasks : stask' = [stask EXCEPT ![m] = u] /\ (u.in => u.ret = "run")
        BY <4>3, <4>5, Zenon
      <4> QED
        BY <4>2, <4>6
    <3>2. CASE StopOk(m)
      BY <3>2 DEF StopOk, Tasks
    <3>3. CASE StopError(m)
      BY <3>3 DEF StopError, Tasks, Returns
    <3> QED
      BY <1>5, <3>1, <3>2, <3>3 DEF StopThread
  <2>3. EndTypes'
    BY <1>4, <2>1, <2>2 DEF EndTypes, mgr, procs
  <2>4. EndThreads'
    BY <1>2, <1>4, <2>1, <2>2 DEF EndThreads, AllTyped, mgr
  <2>5. EndOff'
    BY <1>4, <2>1, Zenon DEF EndOff, InCycle, procs
  <2> QED
    BY <1>3, <2>3, <2>4, <2>5
<1>6. CASE StopRun0(m)
  <2>1. EndTypes'
    BY <1>4, <1>6, Zenon DEF StopRun0, SetRunnable, EndTypes, InCycle, All, mgr
  <2>2. EndThreads'
    BY <1>2, <1>4, <1>6 DEF StopRun0, Stopping, EndTypes, EndThreads, AllTyped, mgr
  <2>3. EndOff'
    BY <1>2, <1>4, <1>6, Data, Zenon DEF StopRun0, Stopping, SetRunnable, EndTypes, EndOff, InCycle
  <2> QED
    BY <1>3, <2>1, <2>2, <2>3
<1>7. CASE StopSlept(m)
  <2>1. /\ stask' \in [Executors -> Tasks]
        /\ \A e \in Executors : e # m => stask'[e] = stask[e]
        /\ stask'[m].ret = "run"
    BY <1>2, <1>4, <1>7, Data DEF StopSlept, EndTypes, Tasks, Returns
  <2>2. InCycle = {} /\ InCycle' = {}
    BY <1>2, <1>4, <1>7 DEF StopSlept, EndOff, NothingAfterRun, InCycle
  <2>3. EndTypes'
    BY <1>4, <1>7, <2>1 DEF StopSlept, EndTypes, mgr, procs
  <2>4. EndThreads'
    BY <1>2, <1>4, <1>7, <2>1 DEF StopSlept, EndTypes, EndThreads, AllTyped, mgr
  <2>5. EndOff'
    BY <1>2, <1>4, <1>7, <2>2, Zenon DEF StopSlept, EndTypes, EndOff, procs
  <2> QED
    BY <1>3, <2>3, <2>4, <2>5
<1>8. CASE StopJoin(m)
  <2>1. EndTypes'
    BY <1>4, <1>8, Zenon DEF StopJoin, EndTypes, mgr, procs
  <2>2. EndThreads'
    BY <1>2, <1>4, <1>8 DEF StopJoin, EndTypes, EndThreads, AllTyped, NothingAfterRun, InTime, mgr
  <2>3. EndOff'
    BY <1>2, <1>4, <1>8, Zenon DEF StopJoin, EndTypes, EndOff, InCycle, procs
  <2> QED
    BY <1>3, <2>1, <2>2, <2>3
<1>9. CASE StopRemove(m)
  <2>1. InCycle' = {}
    <3>1. InCycle = {} /\ ppc' = [ppc EXCEPT ![m] = "acknowledge"]
      BY <1>2, <1>4, <1>9 DEF StopRemove, EndOff
    <3> QED
      BY <1>4, <3>1 DEF EndTypes, InCycle
  <2>2. runnable' = All(FALSE)
    BY <1>4, <1>9, Zenon DEF StopRemove, EndThreads, EndOff
  <2>3. EndTypes'
    BY <1>2, <1>4, <1>9 DEF StopRemove, EndTypes, PipePcs, mgr
  <2>4. EndThreads'
    BY <1>2, <1>4, <1>9 DEF StopRemove, EndTypes, EndThreads, AllTyped, mgr
  <2>5. EndOff'
    BY <2>1, <2>2 DEF EndOff
  <2> QED
    BY <1>3, <2>3, <2>4, <2>5
<1>10. CASE CheckStatus(m)
  <2>1. runnable # All(FALSE) /\ td[m] = "no"
    BY <1>4, <1>10 DEF CheckStatus, EndThreads, All
  <2>2. EndTypes' /\ EndThreads'
    BY <1>4, <1>10, <2>1 DEF CheckStatus, Goto, EndTypes, EndThreads, AllTyped, PipePcs, mgr,
       procs, tear
  <2>3. EndOff'
    BY <1>4, <1>10, <2>1, Zenon DEF CheckStatus, Goto, EndTypes, EndThreads, EndOff, procs, tear
  <2> QED
    BY <1>3, <2>2, <2>3
<1>11. CASE Notify(m)
  <2>1. runnable' = All(FALSE) /\ InCycle' = InCycle
    BY <1>4, <1>11, Zenon DEF Notify, SetRunnable, Goto, EndTypes, EndOff, InCycle
  <2>2. EndTypes' /\ EndThreads'
    BY <1>4, <1>11, <2>1 DEF Notify, Goto, EndTypes, EndThreads, AllTyped, PipePcs, All, mgr, tear
  <2>3. EndOff'
    BY <1>4, <1>11, <2>1 DEF Notify, EndOff, tear
  <2> QED
    BY <1>3, <2>2, <2>3
<1>12. CASE Acknowledge(m)
  <2>1. runnable = All(FALSE) /\ ~runnable[m]
    BY <1>4, <1>12 DEF Acknowledge, EndOff, All
  <2>2. InCycle' = InCycle
    BY <1>4, <1>12, <2>1 DEF Acknowledge, Goto, EndTypes, InCycle
  <2>3. EndTypes' /\ EndThreads'
    BY <1>4, <1>12, <2>1, Zenon DEF Acknowledge, Goto, EndTypes, EndThreads, AllTyped, PipePcs,
       mgr, tear
  <2>4. EndOff'
    BY <1>4, <1>12, <2>1, <2>2, Zenon DEF Acknowledge, EndOff, tear
  <2> QED
    BY <1>3, <2>3, <2>4
<1>13. CASE Cycle(m)
  <2>1. /\ InCycle' = InCycle
        /\ \A p \in Mods : ppc'[p] \in {"callback", "acknowledge"} => ppc'[p] = ppc[p]
    BY <1>4, <1>13 DEF Cycle, Goto, EndTypes, InCycle
  <2>2. EndTypes' /\ EndThreads'
    BY <1>4, <1>13 DEF Cycle, Goto, EndTypes, EndThreads, AllTyped, PipePcs, mgr, procs, tear
  <2>3. EndOff'
    BY <1>4, <1>13, <2>1, Zenon DEF Cycle, EndOff, procs, tear
  <2> QED
    BY <1>3, <2>2, <2>3
<1>14. CASE Run(m) \/ Park(m)
  <2>1. /\ UNCHANGED <<sc, mgr, loaded, td, stask, itask>>
        /\ ppc[m] \in {"run", "park"} /\ ppc' = [ppc EXCEPT ![m] = "idle"]
        /\ busy' = [e \in Executors |-> busy[e] \ {m}]
        /\ runnable' \in [Mods -> BOOLEAN] /\ \A p \in Mods : ~runnable[p] => ~runnable'[p]
    BY <1>4, <1>14, Zenon DEF Run, Park, Over, Goto, EndTypes
  <2>2. InCycle' = InCycle \ {m}
    BY <1>4, <2>1 DEF EndTypes, InCycle
  <2>3. EndTypes' /\ EndThreads'
    BY <1>4, <2>1 DEF EndTypes, EndThreads, AllTyped, PipePcs, mgr
  <2>4. runnable = All(FALSE) => runnable' = All(FALSE)
    BY <1>4, <2>1 DEF EndTypes, All
  <2>5. EndOff'
    <3>1. \A p \in Mods : ppc'[p] \in {"callback", "acknowledge"} => ppc[p] = ppc'[p]
      BY <1>4, <2>1 DEF EndTypes
    <3>2. \A p \in Mods : td'[p] = "sleep" => InCycle' \subseteq busy'[p]
      BY <1>4, <2>1, <2>2, Data DEF EndOff
    <3> QED
      BY <1>4, <2>1, <2>2, <2>4, <3>1, <3>2, Zenon DEF EndOff
  <2> QED
    BY <1>3, <2>3, <2>5
<1> QED
  BY <1>1, <1>5, <1>6, <1>7, <1>8, <1>9, <1>10, <1>11, <1>12, <1>13, <1>14 DEF StopCaller,
     PipeThread

\* Scenarios in which Run may fail are quiet until it does, and then end.
LEMMA EndInvariance == Spec => []EndInv
<1>1. Init => EndInv
  BY QuietInit DEF EndInv, Init, Counts, AllTyped, All
<1>2. EndInv /\ [Next]_vars => EndInv'
  <2> SUFFICES ASSUME EndInv, [Next]_vars, NothingAfterRun'
               PROVE  (Quiet /\ Counts)' \/ Ending'
    BY DEF EndInv
  <2>1. NothingAfterRun /\ InTime /\ ((Quiet /\ Counts) \/ Ending)
    BY ScenarioFixed DEF EndInv, NothingAfterRun, InTime, MaxCmds, Precach, Prompt, Failures
  <2>2. CASE UNCHANGED vars
    <3>1. Quiet /\ Counts => Quiet' /\ Counts'
      BY <2>2, QuietSame DEF Counts, AllTyped, vars, mgr, mods
    <3>2. Ending => Ending'
      BY <2>2, Zenon DEF Ending, EndTypes, EndThreads, EndOff, AllTyped, InCycle, vars, mgr,
         mods, procs, tear
    <3> QED
      BY <2>1, <3>1, <3>2
  <2>3. CASE Next /\ Quiet /\ Counts
    BY <2>1, <2>3, QuietSteps, QuietKept, CountsKept, FirstFault DEF Quiet
  <2>4. CASE Next /\ Ending
    BY <2>1, <2>4, EndingKept
  <2> QED
    BY <2>1, <2>2, <2>3, <2>4
<1> QED
  BY <1>1, <1>2, PTL DEF Spec

\* Stop is never called on a module while a pipeline thread is inside its Run, nor is the
\* module freed there, for any number of modules: whatever is typed if no Run fails, and
\* whatever fails, in however many modules at once, if nothing is typed once they run
\* (nod_waveform_status_stop, nod_module_finish_callback).
THEOREM StopIsApartFromRun == Spec => [](Serial \/ NothingAfterRun => StopApartFromRun)
<1>1. Ending => StopApartFromRun
  BY Data DEF Ending, EndThreads, EndOff, StopApartFromRun, InCycle
<1>2. SerialInv /\ EndInv => (Serial \/ NothingAfterRun => StopApartFromRun)
  BY <1>1, QuietIsApart DEF SerialInv, EndInv
<1> QED
  BY <1>2, WaveformInvariance, EndInvariance, PTL

\* The manager's status and the node's agree after every command the node has accepted
\* (waveform_status_set, nod_dispatcher_set).
THEOREM ManagerAndNodeAgree == Spec => []ManagerAgrees
<1>1. SerialInv => ManagerAgrees
  BY DEF SerialInv, Quiet, ManagerAgrees, Serial, SlotAt, Types, All
<1> QED
  BY <1>1, WaveformInvariance, PTL
=============================================================================
