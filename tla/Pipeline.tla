------------------------------ MODULE Pipeline ------------------------------
(***************************************************************************)
(* The list of processes of a pipeline: pipeline_add and pipeline_remove    *)
(* change its pointers and its count on a control thread while the pipeline *)
(* thread walks it in pipeline_run_time_slot.  There is no lock.            *)
(* Sources: pipeline.c, rtdal_base.c (rtdal_process_new), rtdal_process.c.  *)
(***************************************************************************)
EXTENDS Integers, FiniteSets

CONSTANTS
  MaxProcs,   \* MAX(rtdal_process), the size of the process table
  Positions,  \* exec_position values in use
  MaxOps,     \* bound: processes created or removed
  MaxSlots    \* bound: time slots

ASSUME PipelineAssumption ==
  MaxProcs \in Nat \ {0} /\ Positions \subseteq Nat /\ MaxOps \in Nat /\ MaxSlots \in Nat

VARIABLES
  used,             \* processes whose pid is not 0
  pos,              \* attributes.exec_position
  first, next, nof, \* first_process, next, nof_processes
  cpc, proc,        \* control thread: step, its process
  wpc, cur, idx,    \* pipeline thread: step, run_proc, idx
  ran, must, cut,   \* history of the slot: processes run, processes to run, a removal happened
  ops, slots        \* history: counters

ctl == <<used, pos, first, next, nof, cpc, proc, ops>>
walk == <<wpc, cur, idx, ran, slots>>
vars == <<ctl, walk, must, cut>>

Procs == 1 .. MaxProcs
Null == 0

\* The k-th process of the list, Null beyond its end.
Nth == LET f[k \in 0 .. MaxProcs] ==
             IF k = 0 THEN first ELSE IF f[k - 1] = Null THEN Null ELSE next[f[k - 1]]
       IN f

Linked == {Nth[k] : k \in 0 .. MaxProcs} \ {Null}

Init ==
  /\ used = {} /\ pos = [p \in Procs |-> 0]
  /\ first = Null /\ next = [p \in Procs |-> Null] /\ nof = 0
  /\ cpc = "idle" /\ proc = Null
  /\ wpc = "wait" /\ cur = Null /\ idx = 0
  /\ ran = {} /\ must = {} /\ cut = FALSE
  /\ ops = 0 /\ slots = 0

-----------------------------------------------------------------------------
(* Control thread.                                                         *)

\* Faulty: a process goes before those with its own position or later.
BehindReversed(e) == {k \in 0 .. MaxProcs : Nth[k] # Null /\ pos[Nth[k]] > e}

\* The places in the list that a process with position e is inserted behind.
Behind(e) == {k \in 0 .. MaxProcs : Nth[k] # Null /\ pos[Nth[k]] <= e}

\* rtdal_process_new takes a free entry of the table; pipeline_add links it behind
\* the last process with the same or a lower position.  The
\* position it returns is only tested for an error.
Add(p, e) ==
  LET k == Cardinality(Behind(e)) IN
  /\ cpc = "idle" /\ ops < MaxOps
  /\ p \notin used /\ \A q \in 1 .. p - 1 : q \in used
  /\ used' = used \union {p}
  /\ pos' = [pos EXCEPT ![p] = e]
  /\ first' = IF k = 0 THEN p ELSE first
  /\ next' = IF k = 0 THEN [next EXCEPT ![p] = first]
             ELSE [next EXCEPT ![p] = next[Nth[k - 1]], ![Nth[k - 1]] = p]
  /\ proc' = p /\ cpc' = "count"
  /\ ops' = ops + 1
  /\ UNCHANGED <<nof, walk, must, cut>>

\* nof_processes++
AddCount ==
  /\ cpc = "count"
  /\ nof' = nof + 1
  /\ cpc' = "idle"
  /\ UNCHANGED <<used, pos, first, next, proc, ops, walk, must, cut>>

\* prev->next = cur->next
Unlink(p) ==
  [q \in Procs |-> IF next[q] = p THEN next[p] ELSE next[q]]

\* pipeline_remove takes the process out of the list ...
Remove(p) ==
  /\ cpc = "idle" /\ ops < MaxOps
  /\ p \in Linked
  /\ first' = IF first = p THEN next[p] ELSE first
  /\ next' = Unlink(p)
  /\ proc' = p /\ cpc' = "uncount"
  /\ must' = must \ {p} /\ cut' = TRUE
  /\ ops' = ops + 1
  /\ UNCHANGED <<used, pos, nof, walk>>

\* ... then counts ...
RemoveCount ==
  /\ cpc = "uncount"
  /\ nof' = nof - 1
  /\ cpc' = "clear"
  /\ UNCHANGED <<used, pos, first, next, proc, ops, walk, must, cut>>

\* ... and clears its next pointer; rtdal_process_remove frees the table entry.
RemoveClear ==
  /\ cpc = "clear"
  /\ next' = [next EXCEPT ![proc] = Null]
  /\ used' = used \ {proc}
  /\ cpc' = "idle"
  /\ UNCHANGED <<pos, first, nof, proc, ops, walk, must, cut>>

Control ==
  \/ \E p \in Procs, e \in Positions : Add(p, e)
  \/ AddCount
  \/ \E p \in Procs : Remove(p)
  \/ RemoveCount \/ RemoveClear

-----------------------------------------------------------------------------
(* Pipeline thread: pipeline_run_time_slot.                                 *)

SlotStart ==
  /\ wpc = "wait" /\ slots < MaxSlots
  /\ cur' = first /\ idx' = 0
  /\ wpc' = IF first = Null THEN "wait" ELSE "visit"
  /\ ran' = {} /\ must' = Linked /\ cut' = FALSE
  /\ slots' = slots + 1
  /\ UNCHANGED ctl

\* The check for a corrupted list.
TooFar == idx > nof

\* The check, and the process runs.
Visit ==
  /\ wpc = "visit"
  /\ \/ TooFar /\ wpc' = "fatal" /\ UNCHANGED ran
     \/ ~TooFar /\ wpc' = "next" /\ ran' = ran \union {cur}
  /\ UNCHANGED <<ctl, cur, idx, slots, must, cut>>

\* Faulty: the walk stops one process early.
FollowEarly ==
  /\ wpc = "next"
  /\ cur' = next[cur] /\ idx' = idx + 1
  /\ wpc' = IF cur' = Null \/ next[cur'] = Null THEN "wait" ELSE "visit"
  /\ UNCHANGED <<ctl, ran, slots, must, cut>>

\* run_proc = run_proc->next
Follow ==
  /\ wpc = "next"
  /\ cur' = next[cur] /\ idx' = idx + 1
  /\ wpc' = IF next[cur] = Null THEN "wait" ELSE "visit"
  /\ UNCHANGED <<ctl, ran, slots, must, cut>>

\* After "fatal" SIGTERM has been sent and the thread is gone.
Walker == SlotStart \/ Visit \/ Follow

Next == Control \/ Walker

Spec == Init /\ [][Next]_vars

-----------------------------------------------------------------------------

\* At every moment, also between the pointer writes of pipeline_add and
\* pipeline_remove, the list ends, holds exactly the processes that are in use and
\* not being removed, in the order of exec_position, and nof_processes is off by no
\* more than the operation in progress.
ListIntegrity ==
  /\ Nth[MaxProcs] = Null
  /\ Linked = used \ (IF cpc \in {"uncount", "clear"} THEN {proc} ELSE {})
  /\ \A p \in Linked : next[p] # Null => pos[p] <= pos[next[p]]
  /\ Cardinality(Linked) = nof + (CASE cpc = "count" -> 1 [] cpc = "uncount" -> -1 [] OTHER -> 0)

\* A slot in which nothing is removed runs every process that was in the list when
\* it began, while others are being added.
NobodySkipped == wpc = "wait" /\ ~cut => must \subseteq ran
=============================================================================
