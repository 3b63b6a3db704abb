------------------------------ MODULE Services ------------------------------
(***************************************************************************)
(* Logs, faults of threads and the end of the program: rtdal_log.c,        *)
(* rtdal_kernel_signals.c and kernel_exit of rtdal_kernel.c.  The main      *)
(* thread waits for signals; the pipelines, the timer and a low-priority    *)
(* task log, and may fault.  A log is a ring of bytes.  An exclusive log    *)
(* has a mutex; main leaves it locked when it flushes the log.              *)
(***************************************************************************)
EXTENDS Integers, Sequences, FiniteSets

CONSTANTS NP,           \* pipelines, 0 .. NP - 1
          Settings,     \* options of the logs: [size, excl]
          Loggers,      \* threads that log, but for main
          Lengths,      \* bytes of a record
          MaxRecords,   \* records ever logged but by main
          MaxFaults     \* threads that ever fault

ASSUME ServicesAssumption ==
  /\ NP \in Nat \ {0} /\ MaxRecords \in Nat /\ MaxFaults \in Nat
  /\ Settings \subseteq [size : Nat \ {0}, excl : BOOLEAN]
  /\ Lengths \subseteq Nat

Pipes == 0 .. NP - 1
Main == NP
Task == NP + 1
Timer == -1
Threads == Pipes \cup {Main, Timer, Task}

\* The kernel's log is exclusive, that of the modules if the option says so.
LogNames == <<"kernel", "modules">>
Logs == {"kernel", "modules"}
Nobody == -2
NoFile == <<<<Nobody, -1>>>>

VARIABLES set,          \* the options
          pc,           \* of each thread
          rec,          \* the record a thread is logging
          mem, wpm, wrapped, owner, id,   \* the fields of log_t
          mutex,        \* the mutex of the log table
          file,         \* what a flush wrote
          flushed,      \* logs flushed so far, by index
          sigs,         \* signals queued for sigwait_loop
          cur,          \* the one it has taken
          thread,       \* pipelines[i].thread # 0
          waiting,      \* pipelines[i].waiting
          stop,         \* the stop flags
          killed,       \* threads sent TASK_TERMINATION_SIGNAL
          calls,        \* records begun, for the bound
          written,      \* history: bytes added to each log
          faulted,      \* history: threads that faulted
          reported      \* history: what sigwait_loop said

logvars == <<rec, mem, wpm, wrapped, owner, id, mutex, file, flushed, written>>
sigvars == <<sigs, cur, thread, waiting, stop, killed, faulted, reported>>
vars == <<set, pc, calls, logvars, sigvars>>

Excl(l) == l = "kernel" \/ set.excl
NoRecord == [log |-> "kernel", len |-> 0]

ThreadSignal(value) == [sig |-> "thread", value |-> value]
ExitSignal == [sig |-> "exit", value |-> 0]

Goto(t, label) == pc' = [pc EXCEPT ![t] = label]

Init ==
    /\ set \in Settings
    /\ pc = [t \in Threads |-> IF t = Main THEN "sigwait" ELSE "loop"]
    /\ rec = [t \in Threads |-> NoRecord]
    /\ mem = [l \in Logs |-> [i \in 0 .. set.size - 1 |-> <<Nobody, 0>>]]
    /\ wpm = [l \in Logs |-> 0]
    /\ wrapped = [l \in Logs |-> 0]
    /\ owner = [l \in Logs |-> Nobody]
    /\ id = [l \in Logs |-> IF l = "kernel" THEN 1 ELSE 0]
    /\ mutex = Nobody
    /\ file = [l \in Logs |-> NoFile]
    /\ flushed = 0
    /\ sigs = <<>>
    /\ cur = ExitSignal
    /\ thread = [p \in Pipes |-> TRUE]
    /\ waiting = [p \in Pipes |-> FALSE]
    /\ stop = FALSE
    /\ killed = {}
    /\ calls = 0
    /\ written = [l \in Logs |-> <<>>]
    /\ faulted = {}
    /\ reported = {}

-----------------------------------------------------------------------------
(* Logging: rtdal_log_vprintf and rtdal_log_add, and rtdal_log_add_ below   *)
(* them.                                                                    *)

\* rtdal_log_new_opts: the second log, created with a waveform.
NewLog ==
    /\ pc[Task] = "loop" /\ mutex = Nobody /\ id["modules"] = 0
    /\ id' = [id EXCEPT !["modules"] = 2]
    /\ UNCHANGED <<set, calls, pc, rec, mem, wpm, wrapped, owner, mutex, file, flushed, written, sigvars>>

\* A thread has n bytes for log l.  Only one thread writes a log that is
\* not exclusive.
StartLog(t, l, n) ==
    /\ pc[t] = "loop" /\ id[l] # 0 /\ (Excl(l) \/ t = 0)
    /\ calls < MaxRecords /\ calls' = calls + 1
    /\ rec' = [rec EXCEPT ![t] = [log |-> l, len |-> n]]
    /\ Goto(t, "lock")
    /\ UNCHANGED <<set, mem, wpm, wrapped, owner, id, mutex, file, flushed, written, sigvars>>

LogLock(t) ==
    LET l == rec[t].log
    IN  /\ pc[t] = "lock"
        /\ IF Excl(l) THEN owner[l] = Nobody /\ owner' = [owner EXCEPT ![l] = t]
                      ELSE owner' = owner
        /\ Goto(t, "add")
        /\ UNCHANGED <<set, calls, rec, mem, wpm, wrapped, id, mutex, file, flushed, written, sigvars>>

\* Where byte k of a record goes: up to the end of the ring, then from 0.
RingPlace(l, k) ==
    IF wpm[l] + k - 1 < set.size THEN wpm[l] + k - 1 ELSE wpm[l] + k - 1 - set.size

\* A record longer than the ring is dropped.  Otherwise it is copied, and the
\* index wraps when it is beyond the end, not when it is at the end.
LogAdd(t) ==
    LET l == rec[t].log
        len == rec[t].len
        byte(k) == <<t, Len(written[l]) + k>>
        next == wpm[l] + len
    IN  /\ pc[t] = "add"
        /\ Goto(t, "unlock")
        /\ IF len > set.size
           THEN UNCHANGED <<mem, wpm, wrapped, written>>
           ELSE /\ mem' = [mem EXCEPT ![l] = [i \in DOMAIN @ |->
                              IF \E k \in 1 .. len : RingPlace(l, k) = i
                              THEN byte(CHOOSE k \in 1 .. len : RingPlace(l, k) = i)
                              ELSE @[i]]]
                /\ wpm' = [wpm EXCEPT ![l] = IF next > set.size THEN next - set.size ELSE next]
                /\ wrapped' = [wrapped EXCEPT ![l] = IF next > set.size THEN 1 ELSE @]
                /\ written' = [written EXCEPT ![l] = @ \o [k \in 1 .. len |-> byte(k)]]
        /\ UNCHANGED <<set, calls, rec, owner, id, mutex, file, flushed, sigvars>>

LogUnlock(t) ==
    /\ pc[t] = "unlock"
    /\ owner' = [owner EXCEPT ![rec[t].log] = IF Excl(rec[t].log) THEN Nobody ELSE @]
    /\ rec' = [rec EXCEPT ![t] = NoRecord]
    /\ Goto(t, IF t = Main THEN "process" ELSE "loop")
    /\ UNCHANGED <<set, calls, mem, wpm, wrapped, id, mutex, file, flushed, written, sigvars>>

Logging(t) ==
    \/ t \in Loggers /\ \E l \in Logs, n \in Lengths : StartLog(t, l, n)
    \/ LogLock(t) \/ LogAdd(t) \/ LogUnlock(t)

-----------------------------------------------------------------------------
(* Faults: thread_signal_handler, and the waiting that follows.             *)

SIGSEGV == 0

\* Mutant: the halves overlap.
Encode_Narrow(thread_id, signum) == thread_id * 32768 + signum

\* The value queued with the signal: the thread in the upper half, the
\* signal below it (thread_id << 16 | i).
Encode(thread_id, signum) == thread_id * 65536 + signum

\* A module faults: its pipeline thread enters the handler, which first
\* forgets the thread.
Fault(p) ==
    /\ pc[p] = "loop" /\ thread[p]
    /\ Cardinality(faulted) < MaxFaults
    /\ faulted' = faulted \cup {p}
    /\ thread' = [thread EXCEPT ![p] = FALSE]
    /\ Goto(p, "queue")
    /\ UNCHANGED <<set, calls, logvars, sigs, cur, waiting, stop, killed, reported>>

\* Mutant: the thread waits without a word.
QueueSignal_Silent(p) ==
    /\ pc[p] = "queue"
    /\ Goto(p, "park")
    /\ UNCHANGED <<set, calls, logvars, sigvars>>

QueueSignal(p) ==
    /\ pc[p] = "queue"
    /\ sigs' = Append(sigs, ThreadSignal(Encode(p, SIGSEGV)))
    /\ Goto(p, "park")
    /\ UNCHANGED <<set, calls, logvars, cur, thread, waiting, stop, killed, faulted, reported>>

Park(p) ==
    /\ pc[p] = "park"
    /\ waiting' = [waiting EXCEPT ![p] = TRUE]
    /\ Goto(p, "parked")
    /\ UNCHANGED <<set, calls, logvars, sigs, cur, thread, stop, killed, faulted, reported>>

\* check_threads lets it go: the instruction faults again, and now the
\* thread is not known any more, so the handler ends it.
Unpark(p) ==
    /\ pc[p] = "parked" /\ ~waiting[p]
    /\ Goto(p, "gone")
    /\ UNCHANGED <<set, calls, logvars, sigvars>>

\* The timer thread reports itself as -1, any other thread not at all; both
\* end.
FaultOther(t) ==
    /\ t \in {Timer, Task} /\ pc[t] = "loop"
    /\ Cardinality(faulted) < MaxFaults
    /\ faulted' = faulted \cup {t}
    /\ sigs' = IF t = Timer THEN Append(sigs, ThreadSignal(Encode(-1, SIGSEGV)))
                            ELSE sigs
    /\ Goto(t, "gone")
    /\ UNCHANGED <<set, calls, logvars, cur, thread, waiting, stop, killed, reported>>

\* A thread sees its stop flag at the top of its loop.
SeeStop(t) ==
    /\ t \in Pipes \cup {Timer} /\ pc[t] = "loop" /\ stop
    /\ Goto(t, "gone")
    /\ UNCHANGED <<set, calls, logvars, sigvars>>

\* The termination signal ends a thread wherever it is, a mutex it waits for
\* or holds notwithstanding.
Killed(t) ==
    /\ t \in killed /\ pc[t] # "gone"
    /\ Goto(t, "gone")
    /\ UNCHANGED <<set, calls, logvars, sigvars>>

\* The lower number is taken first: SIGINT before the real-time signals.
Interrupted == sigs # <<>> /\ Head(sigs) = ExitSignal

\* The operator, or a pipeline that finds its list corrupted.
Interrupt ==
    /\ pc[Main] = "sigwait" /\ ~Interrupted
    /\ sigs' = <<ExitSignal>> \o sigs
    /\ UNCHANGED <<set, calls, pc, logvars, cur, thread, waiting, stop, killed, faulted, reported>>

-----------------------------------------------------------------------------
(* The main thread: sigwait_loop and kernel_exit.                           *)

TakeSignal ==
    /\ pc[Main] = "sigwait" /\ sigs # <<>>
    /\ cur' = Head(sigs) /\ sigs' = Tail(sigs)
    /\ rec' = [rec EXCEPT ![Main] = [log |-> "kernel", len |-> 1]]
    /\ Goto(Main, "lock")
    /\ UNCHANGED <<set, calls, mem, wpm, wrapped, owner, id, mutex, file, flushed, written, thread, waiting, stop, killed, faulted, reported>>

\* sigwait_loop_process_thread_signal: whom it names.
Named(value) ==
    IF value \div 65536 > -1 THEN value \div 65536
    ELSE IF value = -1 THEN Timer ELSE Nobody

ProcessSignal ==
    /\ pc[Main] = "process"
    /\ IF cur = ExitSignal
       THEN Goto(Main, "flush") /\ UNCHANGED reported
       ELSE Goto(Main, "sigwait") /\ reported' = reported \cup {Named(cur.value)}
    /\ UNCHANGED <<set, calls, logvars, sigs, cur, thread, waiting, stop, killed, faulted>>

\* rtdal_log_flushall, one log after the other.
FlushNext ==
    /\ pc[Main] = "flush"
    /\ IF flushed = Len(LogNames) THEN Goto(Main, "stops") /\ UNCHANGED <<mutex, flushed>>
       ELSE IF id[LogNames[flushed + 1]] = 0
            THEN flushed' = flushed + 1 /\ UNCHANGED <<pc, mutex>>
       ELSE mutex = Nobody /\ mutex' = Main /\ Goto(Main, "flushlock") /\ UNCHANGED flushed
    /\ UNCHANGED <<set, calls, rec, mem, wpm, wrapped, owner, id, file, written, sigvars>>

FlushLock ==
    LET l == LogNames[flushed + 1]
    IN  /\ pc[Main] = "flushlock"
        /\ IF Excl(l) THEN owner[l] = Nobody /\ owner' = [owner EXCEPT ![l] = Main]
                      ELSE UNCHANGED owner
        /\ Goto(Main, "write")
        /\ UNCHANGED <<set, calls, rec, mem, wpm, wrapped, id, mutex, file, flushed, written, sigvars>>

\* Mutant: the new part first.
Content_Swapped(l) ==
    LET old == IF wrapped[l] > 0 THEN set.size - wpm[l] ELSE 0
    IN  [i \in 1 .. old + wpm[l] |-> mem[l][i - 1]]

\* The old part of the ring, if there is one, and then the new one.
Content(l) ==
    LET old == IF wrapped[l] > 0 THEN set.size - wpm[l] ELSE 0
    IN  [i \in 1 .. old + wpm[l] |-> IF i <= old THEN mem[l][wpm[l] + i - 1]
                                     ELSE mem[l][i - old - 1]]

\* Mutant: a file that cannot be opened keeps the table locked.
FlushWrite_Held ==
    LET l == LogNames[flushed + 1]
    IN  /\ pc[Main] = "write"
        /\ \/ file' = [file EXCEPT ![l] = Content(l)] /\ mutex' = Nobody /\ UNCHANGED owner
           \/ owner' = [owner EXCEPT ![l] = IF Excl(l) THEN Nobody ELSE @] /\ UNCHANGED <<file, mutex>>
        /\ flushed' = flushed + 1
        /\ Goto(Main, "flush")
        /\ UNCHANGED <<set, calls, rec, mem, wpm, wrapped, id, written, sigvars>>

\* Only a file that cannot be opened gives the mutex of the log back.
FlushWrite ==
    LET l == LogNames[flushed + 1]
    IN  /\ pc[Main] = "write"
        /\ \/ file' = [file EXCEPT ![l] = Content(l)] /\ UNCHANGED owner
           \/ owner' = [owner EXCEPT ![l] = IF Excl(l) THEN Nobody ELSE @] /\ UNCHANGED file
        /\ mutex' = Nobody
        /\ flushed' = flushed + 1
        /\ Goto(Main, "flush")
        /\ UNCHANGED <<set, calls, rec, mem, wpm, wrapped, id, written, sigvars>>

SetStops ==
    /\ pc[Main] = "stops"
    /\ stop' = TRUE
    /\ Goto(Main, "check")
    /\ UNCHANGED <<set, calls, logvars, sigs, cur, thread, waiting, killed, faulted, reported>>

\* check_threads, after 100 ms: threads that are known are ended, those that
\* wait in the handler are let go.
CheckThreads ==
    /\ pc[Main] = "check"
    /\ killed' = {Timer} \cup {p \in Pipes : thread[p]}
    /\ waiting' = [p \in Pipes |-> thread[p] /\ waiting[p]]
    /\ Goto(Main, "left")
    /\ UNCHANGED <<set, calls, logvars, sigs, cur, thread, stop, faulted, reported>>

\* exit, after the threads have had their time.
Leave ==
    /\ pc[Main] = "left"
    /\ Goto(Main, "exit")
    /\ UNCHANGED <<set, calls, logvars, sigvars>>

Exited == pc[Main] = "exit"

\* Nothing runs once main has left.
Next ==
    /\ ~Exited
    /\ \/ \E t \in Threads : Logging(t) \/ FaultOther(t) \/ SeeStop(t) \/ Killed(t)
       \/ \E p \in Pipes : Fault(p) \/ QueueSignal(p) \/ Park(p) \/ Unpark(p)
       \/ NewLog \/ Interrupt \/ TakeSignal \/ ProcessSignal \/ FlushNext \/ FlushLock
       \/ FlushWrite \/ SetStops \/ CheckThreads \/ Leave

\* A thread in a log call or in the handler is run by the system, and so is
\* the main thread; its log call is one it does make.
Fairness ==
    /\ \A t \in Threads : WF_vars(~Exited /\ (LogLock(t) \/ LogAdd(t) \/ LogUnlock(t)))
    /\ \A p \in Pipes : WF_vars(~Exited /\ (QueueSignal(p) \/ Park(p)))
    /\ WF_vars(TakeSignal \/ ProcessSignal \/ FlushNext
               \/ FlushLock \/ FlushWrite \/ SetStops \/ CheckThreads \/ Leave)

Spec == Init /\ [][Next]_vars /\ Fairness
-----------------------------------------------------------------------------
\* The last n elements of a sequence.
LastOf(s, n) == SubSeq(s, Len(s) - n + 1, Len(s))

\* A log that one thread at a time writes keeps its latest bytes in order: at
\* any time a flush would write exactly the last bytes logged, as many as the
\* ring has room for; and the file of an exclusive log, once it is written,
\* misses nothing that is logged later, however long the threads go on.
LogKeepsTail ==
    \A l \in Logs :
        LET tail == LastOf(written[l], IF Len(written[l]) < set.size THEN Len(written[l]) ELSE set.size)
        IN  /\ Content(l) = tail
            /\ Excl(l) /\ file[l] # NoFile => file[l] = tail

\* What sigwait_loop prints of a fault is true: a pipeline it names is one
\* that faulted.
ReportsAreTrue == reported \cap Pipes \subseteq faulted

\* Main is on its way out.
Flushing == pc[Main] \in {"flush", "flushlock", "write", "stops", "check", "left", "exit"}

\* A fault in a pipeline is announced, unless the program ends first.
FaultIsReported ==
    \A p \in Pipes : p \in faulted ~> p \in reported \/ Interrupted \/ Flushing

\* The program ends when it is told to: no thread that logs, faults, waits in
\* the handler or has been parked keeps main in the flush.
ShutdownEnds == Interrupted ~> Exited
=============================================================================
