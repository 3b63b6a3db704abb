--------------------------- MODULE ServicesProofs ---------------------------
(***************************************************************************)
(* What is reported of a fault is true, and a log keeps its latest bytes,   *)
(* for any number of threads and records and every size of the ring.        *)
(***************************************************************************)
EXTENDS Services, SequenceTheorems, TLAPS

\* The labels of the main thread, and of all.
MainLabels == {"sigwait", "lock", "add", "unlock", "process",
               "flush", "flushlock", "write", "stops", "check", "left", "exit"}

Labels == MainLabels \cup {"loop", "queue", "park", "parked", "gone"}

-----------------------------------------------------------------------------
(* The reports                                                              *)

\* A signal in the queue that says what happened.
Truthful(s) ==
  \/ s = ExitSignal
  \/ s = ThreadSignal(Encode(-1, SIGSEGV))
  \/ \E p \in Pipes : p \in faulted /\ s = ThreadSignal(Encode(p, SIGSEGV))

SignalInv ==
  /\ pc \in [Threads -> Labels]
  /\ sigs \in Seq([sig : {"thread", "exit"}, value : Int])
  /\ \A i \in 1 .. Len(sigs) : Truthful(sigs[i])
  /\ Truthful(cur)
  /\ \A p \in Pipes : pc[p] = "queue" => p \in faulted
  /\ ReportsAreTrue

\* The thread in the upper half of a signal's value is the one that is named.
LEMMA NamedIs ==
  /\ \A p \in Pipes : Named(Encode(p, SIGSEGV)) = p
  /\ Named(Encode(-1, SIGSEGV)) \notin Pipes
<1>1. \A p \in Nat : (p * 65536 + 0) \div 65536 = p
  OBVIOUS
<1>2. (-1 * 65536 + 0) \div 65536 = -1
  OBVIOUS
<1> QED BY <1>1, <1>2, ServicesAssumption, SMTT(30) DEF Named, Encode, SIGSEGV, Pipes, Nobody, Timer

\* What stays true when the queue, the signal at hand, the faults and the reports do not
\* change and no thread enters the handler.
LEMMA SignalsKept ==
  ASSUME SignalInv, UNCHANGED <<sigs, cur, faulted, reported>>, pc' \in [Threads -> Labels],
         \A p \in Pipes : pc'[p] = "queue" => pc[p] = "queue"
  PROVE  SignalInv'
BY DEF SignalInv, Truthful, ReportsAreTrue

\* A step of a thread that calls the log, or ends.
LEMMA SignalsOfThreads ==
  ASSUME SignalInv, NEW t \in Threads, Logging(t) \/ SeeStop(t) \/ Killed(t)
  PROVE  SignalInv'
<1>1. \E label \in Labels \ {"queue"} : pc' = [pc EXCEPT ![t] = label]
  BY Zenon DEF Logging, StartLog, LogLock, LogAdd, LogUnlock, SeeStop, Killed, Goto, Labels, MainLabels
<1>2. UNCHANGED <<sigs, cur, faulted, reported>>
  BY Zenon DEF Logging, StartLog, LogLock, LogAdd, LogUnlock, SeeStop, Killed, sigvars
<1>3. pc' \in [Threads -> Labels] /\ \A p \in Pipes : pc'[p] = "queue" => pc[p] = "queue"
  BY <1>1 DEF SignalInv, Threads
<1> QED BY <1>2, <1>3, SignalsKept

\* The steps of the main thread between two signals.
LEMMA SignalsOfMain ==
  ASSUME SignalInv,
         NewLog \/ FlushNext \/ FlushLock \/ FlushWrite \/ SetStops \/ CheckThreads \/ Leave
  PROVE  SignalInv'
<1>1. Main \in Threads /\ Main \notin Pipes
  BY ServicesAssumption DEF Threads, Main, Pipes
<1>0. pc' = pc \/ \E label \in Labels \ {"queue"} : pc' = [pc EXCEPT ![Main] = label]
  BY DEF NewLog, FlushNext, FlushLock, FlushWrite, SetStops, CheckThreads, Leave, Goto, Labels, MainLabels
<1>2. pc' \in [Threads -> Labels] /\ \A p \in Pipes : pc'[p] = "queue" => pc[p] = "queue"
  BY <1>0, <1>1 DEF SignalInv, Threads
<1>3. UNCHANGED <<sigs, cur, faulted, reported>>
  BY DEF NewLog, FlushNext, FlushLock, FlushWrite, SetStops, CheckThreads, Leave, sigvars
<1> QED BY <1>2, <1>3, SignalsKept

\* The steps that queue, take and report a signal.
LEMMA SignalsOfFaults ==
  ASSUME SignalInv,
         \/ \E t \in Threads : FaultOther(t)
         \/ \E p \in Pipes : Fault(p) \/ QueueSignal(p) \/ Park(p) \/ Unpark(p)
         \/ Interrupt \/ TakeSignal \/ ProcessSignal
  PROVE  SignalInv'
<1> USE DEF SignalInv, Labels, MainLabels
<1>0. Main \in Threads /\ Main \notin Pipes /\ Pipes \subseteq Threads /\ Pipes \subseteq Nat
  BY ServicesAssumption DEF Threads, Main, Pipes
<1>1. ASSUME NEW t \in Threads, FaultOther(t) PROVE SignalInv'
  <2>1. t \in {Timer, Task} /\ pc' = [pc EXCEPT ![t] = "gone"] /\ UNCHANGED <<cur, reported>>
        /\ faulted \subseteq faulted'
    BY <1>1 DEF FaultOther, Goto
  <2>2. ThreadSignal(Encode(-1, SIGSEGV)) \in [sig : {"thread", "exit"}, value : Int]
    BY DEF ThreadSignal, Encode, SIGSEGV
  <2>3. sigs' = sigs \/ sigs' = Append(sigs, ThreadSignal(Encode(-1, SIGSEGV)))
    BY <1>1 DEF FaultOther
  <2>4. \A s : Truthful(s) => Truthful(s)'
    BY <2>1 DEF Truthful
  <2>5. Truthful(ThreadSignal(Encode(-1, SIGSEGV)))'
    BY DEF Truthful
  <2>6. sigs' \in Seq([sig : {"thread", "exit"}, value : Int])
    <3>1. CASE sigs' = sigs
      BY <3>1
    <3>2. CASE sigs' = Append(sigs, ThreadSignal(Encode(-1, SIGSEGV)))
      BY <2>2, <3>2
    <3> QED BY <2>3, <3>1, <3>2
  <2>7. \A i \in 1 .. Len(sigs') : (Truthful(sigs[i]))'
    <3> SUFFICES ASSUME NEW i \in 1 .. Len(sigs') PROVE (Truthful(sigs[i]))'
      OBVIOUS
    <3>1. sigs'[i] = ThreadSignal(Encode(-1, SIGSEGV)) \/ (i \in 1 .. Len(sigs) /\ sigs'[i] = sigs[i])
      BY <2>2, <2>3
    <3> QED BY <3>1, <2>4, <2>5, Zenon DEF Truthful
  <2>8. (Truthful(cur))'
    BY <2>1, <2>4 DEF Truthful
  <2> QED BY <1>0, <2>1, <2>6, <2>7, <2>8 DEF ReportsAreTrue
<1>2. ASSUME NEW p \in Pipes, Fault(p) PROVE SignalInv'
  <2>1. faulted' = faulted \cup {p} /\ pc' = [pc EXCEPT ![p] = "queue"]
        /\ UNCHANGED <<sigs, cur, reported>>
    BY <1>2 DEF Fault, Goto
  <2>2. \A i \in 1 .. Len(sigs') : (Truthful(sigs[i]))'
    BY <2>1 DEF Truthful
  <2>3. (Truthful(cur))'
    BY <2>1 DEF Truthful
  <2> QED BY <1>0, <2>1, <2>2, <2>3 DEF ReportsAreTrue
<1>3. ASSUME NEW p \in Pipes, QueueSignal(p) PROVE SignalInv'
  <2>1. /\ pc[p] = "queue" /\ pc' = [pc EXCEPT ![p] = "park"]
        /\ sigs' = Append(sigs, ThreadSignal(Encode(p, SIGSEGV)))
        /\ UNCHANGED <<cur, faulted, reported>>
    BY <1>3 DEF QueueSignal, Goto
  <2>2. ThreadSignal(Encode(p, SIGSEGV)) \in [sig : {"thread", "exit"}, value : Int]
    BY <1>0 DEF ThreadSignal, Encode, SIGSEGV
  <2>3. (Truthful(ThreadSignal(Encode(p, SIGSEGV))))'
    BY <2>1 DEF Truthful
  <2>4. sigs' \in Seq([sig : {"thread", "exit"}, value : Int])
    BY <2>1, <2>2
  <2>5. \A i \in 1 .. Len(sigs') : (Truthful(sigs[i]))'
    <3> SUFFICES ASSUME NEW i \in 1 .. Len(sigs') PROVE (Truthful(sigs[i]))'
      OBVIOUS
    <3>1. sigs'[i] = ThreadSignal(Encode(p, SIGSEGV)) \/ (i \in 1 .. Len(sigs) /\ sigs'[i] = sigs[i])
      BY <2>1, <2>2
    <3> QED BY <3>1, <2>1, <2>3 DEF Truthful
  <2>6. (Truthful(cur))'
    BY <2>1 DEF Truthful
  <2> QED BY <1>0, <2>1, <2>4, <2>5, <2>6 DEF ReportsAreTrue
<1>4. ASSUME NEW p \in Pipes, Park(p) \/ Unpark(p) PROVE SignalInv'
  <2>1. pc' \in [Threads -> Labels] /\ \A q \in Pipes : pc'[q] = "queue" => pc[q] = "queue"
    BY <1>0, <1>4 DEF Park, Unpark, Goto
  <2>2. UNCHANGED <<sigs, cur, faulted, reported>>
    BY <1>4 DEF Park, Unpark, sigvars
  <2> QED BY <2>1, <2>2, SignalsKept
<1>5. CASE Interrupt
  <2>1. sigs' = <<ExitSignal>> \o sigs /\ UNCHANGED <<pc, cur, faulted, reported>>
    BY <1>5 DEF Interrupt
  <2>2. ExitSignal \in [sig : {"thread", "exit"}, value : Int]
    BY DEF ExitSignal
  <2>3. sigs' \in Seq([sig : {"thread", "exit"}, value : Int])
    BY <2>1, <2>2
  <2>4. \A i \in 1 .. Len(sigs') : (Truthful(sigs[i]))'
    <3> SUFFICES ASSUME NEW i \in 1 .. Len(sigs') PROVE (Truthful(sigs[i]))'
      OBVIOUS
    <3>1. sigs'[i] = ExitSignal \/ (i - 1 \in 1 .. Len(sigs) /\ sigs'[i] = sigs[i - 1])
      BY <2>1, <2>2
    <3> QED BY <3>1, <2>1, Zenon DEF Truthful
  <2>5. (Truthful(cur))'
    BY <2>1 DEF Truthful
  <2> QED BY <2>1, <2>3, <2>4, <2>5, SMTT(30) DEF ReportsAreTrue
<1>6. CASE TakeSignal
  <2>1. /\ sigs # <<>> /\ cur' = Head(sigs) /\ sigs' = Tail(sigs)
        /\ pc' = [pc EXCEPT ![Main] = "lock"] /\ UNCHANGED <<faulted, reported>>
    BY <1>6 DEF TakeSignal, Goto
  <2>2. cur' = sigs[1] /\ Truthful(sigs[1])
    BY <2>1
  <2>3. (Truthful(cur))'
    BY <2>1, <2>2 DEF Truthful
  <2>4. sigs' \in Seq([sig : {"thread", "exit"}, value : Int])
    BY <2>1
  <2>5. \A i \in 1 .. Len(sigs') : (Truthful(sigs[i]))'
    <3> SUFFICES ASSUME NEW i \in 1 .. Len(sigs') PROVE (Truthful(sigs[i]))'
      OBVIOUS
    <3>1. i + 1 \in 1 .. Len(sigs) /\ sigs'[i] = sigs[i + 1]
      BY <2>1
    <3> QED BY <3>1, <2>1 DEF Truthful
  <2> QED BY <1>0, <2>1, <2>3, <2>4, <2>5 DEF ReportsAreTrue
<1>7. CASE ProcessSignal
  <2>1. /\ UNCHANGED <<sigs, cur, faulted>> /\ pc' \in [Threads -> Labels]
        /\ \A p \in Pipes : pc'[p] = pc[p]
        /\ reported' = reported \/ (cur # ExitSignal /\ reported' = reported \cup {Named(cur.value)})
    BY <1>0, <1>7 DEF ProcessSignal, Goto
  <2>2. cur # ExitSignal /\ Named(cur.value) \in Pipes => Named(cur.value) \in faulted
    BY NamedIs, SMTT(30) DEF Truthful, ThreadSignal
  <2>3. ReportsAreTrue'
    BY <2>1, <2>2 DEF ReportsAreTrue
  <2> QED BY <2>1, <2>3, Zenon DEF Truthful
<1> QED BY <1>1, <1>2, <1>3, <1>4, <1>5, <1>6, <1>7

\* Only pipelines that faulted are reported, however late the main thread takes their
\* signals: a value in the queue carries the number of a thread that has faulted.
THEOREM FaultsAreRead == Spec => []ReportsAreTrue
<1>1. Init => SignalInv
  BY ServicesAssumption DEF Init, SignalInv, Truthful, ReportsAreTrue, Threads, Pipes, Main, Labels, MainLabels
<1>2. SignalInv /\ [Next]_vars => SignalInv'
  <2> SUFFICES ASSUME SignalInv, [Next]_vars PROVE SignalInv'
    OBVIOUS
  <2>1. CASE UNCHANGED vars
    <3>1. UNCHANGED <<pc, sigs, cur, faulted, reported>>
      BY <2>1 DEF vars, sigvars
    <3> QED BY <3>1, SignalsKept DEF SignalInv
  <2>2. CASE Next
    BY <2>2, SignalsOfThreads, SignalsOfMain, SignalsOfFaults DEF Next
  <2> QED BY <2>1, <2>2
<1>3. SignalInv => ReportsAreTrue
  BY DEF SignalInv
<1> QED BY <1>1, <1>2, <1>3, PTL DEF Spec

-----------------------------------------------------------------------------
(* The logs                                                                 *)

Bytes == Int \X Int

LTypeOK ==
  /\ set \in [size : Nat \ {0}, excl : BOOLEAN]
  /\ pc \in [Threads -> Labels] /\ pc[Main] \in MainLabels
  /\ Main \notin killed
  /\ rec \in [Threads -> [log : Logs, len : Nat]]
  /\ mem \in [Logs -> [0 .. set.size - 1 -> Bytes]]
  /\ wpm \in [Logs -> 0 .. set.size]
  /\ wrapped \in [Logs -> {0, 1}]
  /\ owner \in [Logs -> Threads \cup {Nobody}]
  /\ file \in [Logs -> Seq(Bytes)]
  /\ written \in [Logs -> Seq(Bytes)]
  /\ flushed \in 0 .. 2
  /\ pc[Main] \in {"flushlock", "write"} => flushed < 2

\* What a ring of size s holds when n bytes have been written: in front of the next place
\* w the latest bytes, behind it, once the ring has wrapped, the ones before these.
RingHas(n, s, w, wr, ring, text) ==
  /\ wr = 0 => n = w
  /\ wr = 1 => n > s
  /\ \A i \in 0 .. w - 1 : ring[i] = text[n - w + i + 1]
  /\ wr = 1 => \A i \in w .. s - 1 : ring[i] = text[n - w - s + i + 1]

RingInv(l) ==
  RingHas(Len(written[l]), set.size, wpm[l], wrapped[l], mem[l], written[l])

\* The latest bytes of log l, as many as fit.
TailOf(l) ==
  LastOf(written[l], IF Len(written[l]) < set.size THEN Len(written[l]) ELSE set.size)

\* A thread that adds to an exclusive log owns it.
OwnerInv ==
  /\ \A t \in Threads :
       pc[t] \in {"add", "unlock"} /\ Excl(rec[t].log) => owner[rec[t].log] = t
  /\ pc[Main] = "write" /\ Excl(LogNames[flushed + 1]) => owner[LogNames[flushed + 1]] = Main

\* An exclusive log that has been written to its file stays with main, which does not
\* log any more.
FileInv ==
  \A l \in Logs :
    Excl(l) /\ file[l] # NoFile =>
      /\ owner[l] = Main /\ Flushing
      /\ \E j \in 1 .. flushed : LogNames[j] = l
      /\ file[l] = TailOf(l)

LogInv == LTypeOK /\ (\A l \in Logs : RingInv(l)) /\ OwnerInv /\ FileInv

\* What is in the ring is the latest bytes: a flush writes them in order.
LEMMA ContentIsTail ==
  ASSUME LTypeOK, NEW l \in Logs, RingInv(l)
  PROVE  Content(l) = TailOf(l)
<1> DEFINE n == Len(written[l])
           s == set.size
           m == IF n < s THEN n ELSE s
<1>1. n \in Nat /\ s \in Nat \ {0} /\ wpm[l] \in 0 .. s /\ written[l] \in Seq(Bytes)
  BY DEF LTypeOK
<1>2. wrapped[l] = 0 \/ wrapped[l] = 1
  BY DEF LTypeOK
<1>3. TailOf(l) = SubSeq(written[l], n - m + 1, n)
  BY DEF TailOf, LastOf
<1>4. m \in 0 .. n /\ n - m + 1 \in 1 .. n + 1 /\ n \in n - m .. n
  BY <1>1, SMTT(30)
<1>5. /\ SubSeq(written[l], n - m + 1, n) \in Seq(Bytes)
      /\ Len(SubSeq(written[l], n - m + 1, n)) = m
      /\ \A i \in 1 .. m : SubSeq(written[l], n - m + 1, n)[i] = written[l][n - m + i]
  <2> DEFINE a == n - m + 1
             w == written[l]
  <2>1. a \in Int /\ n \in Int /\ \A i \in a .. n : w[i] \in Bytes
    BY <1>1, <1>4
  <2>2. \A i \in 1 .. m : a + i - 1 = n - m + i
    BY <1>1, <1>4, SMTT(30)
  <2>3. (IF a <= n THEN n - a + 1 ELSE 0) = m /\ n - a + 1 = m
    BY <1>1, <1>4, SMTT(30)
  <2> HIDE DEF a, w
  <2>4. /\ SubSeq(w, a, n) \in Seq(Bytes)
        /\ Len(SubSeq(w, a, n)) = IF a <= n THEN n - a + 1 ELSE 0
        /\ \A i \in 1 .. n - a + 1 : SubSeq(w, a, n)[i] = w[a + i - 1]
    BY <2>1, SubSeqProperties
  <2> HIDE DEF n, m
  <2>5. Len(SubSeq(w, a, n)) = m /\ \A i \in 1 .. m : SubSeq(w, a, n)[i] = w[n - m + i]
    BY <2>2, <2>3, <2>4
  <2> QED BY <2>4, <2>5 DEF a, w
<1>6. TailOf(l) = [i \in 1 .. m |-> written[l][n - m + i]]
  <2> DEFINE q == SubSeq(written[l], n - m + 1, n)
  <2>1. q \in Seq(Bytes) /\ Len(q) = m /\ \A i \in 1 .. m : q[i] = written[l][n - m + i]
    BY <1>5, Zenon
  <2> HIDE DEF q, m, n
  <2>2. q = [i \in 1 .. m |-> written[l][n - m + i]]
    BY <2>1
  <2> QED BY <1>3, <2>2 DEF q
<1>7. CASE wrapped[l] = 0
  <2>1. n = wpm[l] /\ m = n
    BY <1>1, <1>7 DEF RingInv, RingHas
  <2>2. Content(l) = [i \in 1 .. n |-> mem[l][i - 1]]
    BY <1>1, <1>7, <2>1 DEF Content
  <2>3. \A i \in 1 .. n : mem[l][i - 1] = written[l][i]
    <3> SUFFICES ASSUME NEW i \in 1 .. n PROVE mem[l][i - 1] = written[l][i]
      OBVIOUS
    <3>1. i - 1 \in 0 .. wpm[l] - 1 /\ n - wpm[l] + (i - 1) + 1 = i
      BY <1>1, <2>1
    <3> QED BY <3>1 DEF RingInv, RingHas
  <2> HIDE DEF n, m
  <2> QED BY <1>1, <1>6, <2>1, <2>2, <2>3
<1>8. CASE wrapped[l] = 1
  <2>1. n > s /\ m = s
    BY <1>1, <1>8 DEF RingInv, RingHas
  <2>2. Content(l) = [i \in 1 .. s |-> IF i <= s - wpm[l] THEN mem[l][wpm[l] + i - 1]
                                       ELSE mem[l][i - (s - wpm[l]) - 1]]
    BY <1>1, <1>8 DEF Content
  <2>3. \A i \in 1 .. s : i <= s - wpm[l] => mem[l][wpm[l] + i - 1] = written[l][n - s + i]
    <3> SUFFICES ASSUME NEW i \in 1 .. s, i <= s - wpm[l]
                 PROVE  mem[l][wpm[l] + i - 1] = written[l][n - s + i]
      OBVIOUS
    <3>1. wpm[l] + i - 1 \in wpm[l] .. s - 1
      BY <1>1
    <3>2. n - wpm[l] - s + (wpm[l] + i - 1) + 1 = n - s + i
      BY <1>1
    <3> QED BY <1>1, <1>8, <3>1, <3>2, Zenon DEF RingInv, RingHas
  <2>4. \A i \in 1 .. s : ~(i <= s - wpm[l]) =>
                            mem[l][i - (s - wpm[l]) - 1] = written[l][n - s + i]
    <3> SUFFICES ASSUME NEW i \in 1 .. s, ~(i <= s - wpm[l])
                 PROVE  mem[l][i - (s - wpm[l]) - 1] = written[l][n - s + i]
      OBVIOUS
    <3>1. i - (s - wpm[l]) - 1 \in 0 .. wpm[l] - 1
      BY <1>1
    <3>2. n - wpm[l] + (i - (s - wpm[l]) - 1) + 1 = n - s + i
      BY <1>1, SMTT(30)
    <3> QED BY <1>1, <3>1, <3>2, Zenon DEF RingInv, RingHas
  <2> HIDE DEF n, m
  <2> QED BY <1>1, <1>6, <2>1, <2>2, <2>3, <2>4, SMTT(30)
<1> QED BY <1>2, <1>7, <1>8

\* The place of byte k of a record in a ring of size s that is written at w.
RingAt(w, s, k) == IF w + k - 1 < s THEN w + k - 1 ELSE w + k - 1 - s
\* No two bytes of a record share a place.
LEMMA RingPlaces ==
  ASSUME NEW s \in Nat, NEW w \in Nat, NEW len \in Nat, w <= s, len <= s
  PROVE  /\ \A k \in 1 .. len : RingAt(w, s, k) \in 0 .. s - 1
         /\ \A k1, k2 \in 1 .. len : RingAt(w, s, k1) = RingAt(w, s, k2) => k1 = k2
BY DEF RingAt

\* A record of len bytes goes into the ring old that is written at w: text and more are
\* the bytes written before and after.
Adds(n, s, w, len, old, text, new, more) ==
  /\ \A j \in 1 .. n : more[j] = text[j]
  /\ \A k \in 1 .. len : new[RingAt(w, s, k)] = more[n + k]
  /\ \A i \in 0 .. s - 1 : (\A k \in 1 .. len : RingAt(w, s, k) # i) => new[i] = old[i]

NextAt(w, s, len) == IF w + len > s THEN w + len - s ELSE w + len
NextWrapped(w, s, len, wr) == IF w + len > s THEN 1 ELSE wr

\* The bytes of a record are a text.
LEMMA TextOf == \A k \in Nat : \A f \in [1 .. k -> Bytes] : f \in Seq(Bytes) /\ Len(f) = k
OBVIOUS

\* An empty ring holds nothing.
LEMMA EmptyRing == \A s, ring, text : RingHas(0, s, 0, 0, ring, text)
BY DEF RingHas

\* The ring holds the latest bytes again.
LEMMA RingStep ==
  ASSUME NEW n \in Nat, NEW s \in Nat, NEW w \in Nat, NEW len \in Nat, w <= s, len <= s,
         NEW wr \in {0, 1}, NEW old, NEW text, NEW new, NEW more,
         RingHas(n, s, w, wr, old, text), Adds(n, s, w, len, old, text, new, more)
  PROVE  /\ NextAt(w, s, len) \in 0 .. s
         /\ RingHas(n + len, s, NextAt(w, s, len), NextWrapped(w, s, len, wr), new, more)
<1>0. PICK v \in Nat : /\ v = NextAt(w, s, len)
                       /\ v = IF w + len > s THEN w + len - s ELSE w + len
  <2>1. (IF w + len > s THEN w + len - s ELSE w + len) \in Nat
    OBVIOUS
  <2> QED BY <2>1, Zenon DEF NextAt
<1> USE <1>0 DEF RingHas, Adds
<1>1. v <= s /\ w <= n
  OBVIOUS
<1>2. ASSUME NEW i \in 0 .. v - 1 PROVE new[i] = more[n + len - v + i + 1]
  <2>1. CASE w + len <= s /\ i < w
    <3>1. \A k \in 1 .. len : RingAt(w, s, k) # i
      BY <2>1 DEF RingAt
    <3>2. n - w + i + 1 \in 1 .. n /\ n + len - v + i + 1 = n - w + i + 1 /\ i \in 0 .. w - 1
          /\ i \in 0 .. s - 1
      BY <1>1, <2>1
    <3>3. new[i] = old[i]
      BY <3>1, <3>2
    <3> QED BY <3>2, <3>3
  <2>2. CASE w + len <= s /\ i >= w
    <3>1. i - w + 1 \in 1 .. len /\ RingAt(w, s, i - w + 1) = i
      BY <2>2 DEF RingAt
    <3>2. n + len - v + i + 1 = n + (i - w + 1)
      BY <2>2
    <3> QED BY <3>1, <3>2
  <2>3. CASE w + len > s
    <3>1. i + s - w + 1 \in 1 .. len /\ RingAt(w, s, i + s - w + 1) = i
      BY <2>3 DEF RingAt
    <3>2. n + len - v + i + 1 = n + (i + s - w + 1)
      BY <2>3
    <3> QED BY <3>1, <3>2
  <2> QED BY <2>1, <2>2, <2>3
<1>3. ASSUME wr = 1 \/ w + len > s, NEW i \in v .. s - 1
      PROVE  new[i] = more[n + len - v - s + i + 1]
  <2>1. CASE w + len <= s
    <3>1. \A k \in 1 .. len : RingAt(w, s, k) # i
      BY <2>1 DEF RingAt
    <3>2. i \in w .. s - 1 /\ wr = 1 /\ i \in 0 .. s - 1
      BY <1>3, <2>1
    <3>3. /\ n + len - v - s + i + 1 = n - w - s + i + 1
          /\ n - w - s + i + 1 \in 1 .. n
      BY <2>1, <3>2
    <3>4. new[i] = old[i]
      BY <3>1, <3>2
    <3> QED BY <3>2, <3>3, <3>4, Zenon
  <2>2. CASE w + len > s /\ i < w
    <3>1. \A k \in 1 .. len : RingAt(w, s, k) # i
      BY <2>2 DEF RingAt
    <3>2. /\ n + len - v - s + i + 1 = n - w + i + 1 /\ i \in 0 .. s - 1
          /\ n - w + i + 1 \in 1 .. n /\ i \in 0 .. w - 1
      BY <1>1, <2>2
    <3>3. new[i] = old[i]
      BY <3>1, <3>2
    <3> QED BY <3>2, <3>3
  <2>3. CASE w + len > s /\ i >= w
    <3>1. i - w + 1 \in 1 .. len /\ RingAt(w, s, i - w + 1) = i
      BY <2>3 DEF RingAt
    <3>2. n + len - v - s + i + 1 = n + (i - w + 1)
      BY <2>3
    <3> QED BY <3>1, <3>2, Zenon
  <2> QED BY <2>1, <2>2, <2>3
<1>4. wr = 1 \/ w + len > s => n + len > s
  BY <1>1
<1>5. wr = 0 /\ w + len <= s => n + len = v
  OBVIOUS
<1>6. wr = 1 \/ w + len > s => \A i \in v .. s - 1 : new[i] = more[n + len - v - s + i + 1]
  BY <1>3
<1>7. \A i \in 0 .. v - 1 : new[i] = more[n + len - v + i + 1]
  BY <1>2, Zenon
<1>8. PICK nwr : /\ nwr = NextWrapped(w, s, len, wr)
                 /\ nwr = 0 => wr = 0 /\ w + len <= s
                 /\ nwr = 1 => wr = 1 \/ w + len > s
  BY DEF NextWrapped
<1> HIDE <1>0 DEF RingHas, Adds
<1>9. /\ nwr = 0 => n + len = v
      /\ nwr = 1 => n + len > s
      /\ nwr = 1 => \A i \in v .. s - 1 : new[i] = more[n + len - v - s + i + 1]
  <2>1. nwr = 0 => n + len = v
    BY <1>5, <1>8, Zenon
  <2>2. nwr = 1 => n + len > s
    BY <1>4, <1>8, Zenon
  <2>3. nwr = 1 => \A i \in v .. s - 1 : new[i] = more[n + len - v - s + i + 1]
    BY <1>6, <1>8, Zenon
  <2> QED BY <2>1, <2>2, <2>3, Zenon
<1>10. RingHas(n + len, s, v, nwr, new, more)
  <2>1. PICK m \in Nat : m = n + len
    OBVIOUS
  <2>2. (nwr = 0 => m = v) /\ (nwr = 1 => m > s)
    BY <1>9, <2>1
  <2>3. nwr = 1 => \A i \in v .. s - 1 : new[i] = more[m - v - s + i + 1]
    BY <1>9, <2>1
  <2>4. \A i \in 0 .. v - 1 : new[i] = more[m - v + i + 1]
    BY <1>7, <2>1
  <2>5. RingHas(m, s, v, nwr, new, more)
    BY <2>2, <2>3, <2>4, Zenon DEF RingHas
  <2> QED BY <2>1, <2>5, Zenon
<1> QED BY <1>0, <1>1, <1>8, <1>10

\* rtdal_log_add_ puts the bytes of a record behind the ones before, across the end of
\* the ring where need be, and overwrites only the oldest.
LEMMA AddKeepsRing ==
  ASSUME LTypeOK, NEW t \in Threads, NEW l \in Logs, NEW len \in Nat,
         rec[t].log = l, rec[t].len = len, len <= set.size, RingInv(l), LogAdd(t)
  PROVE  /\ RingInv(l)'
         /\ mem'[l] \in [0 .. set.size - 1 -> Bytes] /\ wpm'[l] \in 0 .. set.size
         /\ wrapped'[l] \in {0, 1} /\ written'[l] \in Seq(Bytes)
<1>1. PICK n, s, w, wr, old, text :
         /\ n = Len(written[l]) /\ s = set.size /\ w = wpm[l] /\ wr = wrapped[l]
         /\ old = mem[l] /\ text = written[l]
  BY Zenon
<1>2. /\ n \in Nat /\ s \in Nat /\ w \in Nat /\ w <= s /\ len <= s /\ wr \in {0, 1}
      /\ old \in [0 .. s - 1 -> Bytes] /\ text \in Seq(Bytes) /\ n = Len(text)
  BY <1>1, SMTT(30) DEF LTypeOK
<1>3. RingHas(n, s, w, wr, old, text)
  BY <1>1, Zenon DEF RingInv
<1>0. \A k : RingPlace(l, k) = RingAt(w, s, k)
  BY <1>1 DEF RingPlace, RingAt
<1> DEFINE add == [k \in 1 .. len |-> <<t, n + k>>]
           new == [i \in 0 .. s - 1 |->
                     IF \E k \in 1 .. len : RingPlace(l, k) = i
                     THEN <<t, n + (CHOOSE k \in 1 .. len : RingPlace(l, k) = i)>> ELSE old[i]]
           more == text \o add
<1>4. /\ set' = set /\ mem'[l] = new /\ written'[l] = more
      /\ wpm'[l] = NextAt(w, s, len) /\ wrapped'[l] = NextWrapped(w, s, len, wr)
  <2>1. DOMAIN mem[l] = 0 .. s - 1
    BY <1>1, <1>2, Zenon
  <2>3. ~(len > set.size)
    BY <1>1, <1>2
  <2>4. set' = set
    BY Zenon DEF LogAdd
  <2>5. mem'[l] = new
    <3>1. mem' = [mem EXCEPT ![l] = [i \in DOMAIN mem[l] |->
                    IF \E k \in 1 .. len : RingPlace(l, k) = i
                    THEN <<t, Len(written[l]) + (CHOOSE k \in 1 .. len : RingPlace(l, k) = i)>>
                    ELSE mem[l][i]]]
      BY <2>3 DEF LogAdd
    <3>2. mem'[l] = [i \in DOMAIN mem[l] |->
                    IF \E k \in 1 .. len : RingPlace(l, k) = i
                    THEN <<t, Len(written[l]) + (CHOOSE k \in 1 .. len : RingPlace(l, k) = i)>>
                    ELSE mem[l][i]]
      BY <3>1 DEF LTypeOK
    <3> QED BY <1>1, <2>1, <3>2, Zenon
  <2>6. wpm'[l] = NextAt(w, s, len)
    BY <1>1, <2>3, SMTT(30) DEF LogAdd, LTypeOK, NextAt
  <2>7. wrapped'[l] = NextWrapped(w, s, len, wr)
    BY <1>1, <2>3, Zenon DEF LogAdd, LTypeOK, NextWrapped
  <2>8. written'[l] = more
    <3>1. written' = [written EXCEPT ![l] = written[l] \o [k \in 1 .. len |-> <<t, Len(written[l]) + k>>]]
      BY <2>3, Zenon DEF LogAdd
    <3>2. written'[l] = written[l] \o [k \in 1 .. len |-> <<t, Len(written[l]) + k>>]
      BY <3>1, Zenon DEF LTypeOK
    <3> QED BY <1>1, <3>2
  <2> QED BY <2>4, <2>5, <2>6, <2>7, <2>8, Zenon
<1>5. t \in Int
  BY ServicesAssumption DEF Threads, Pipes, Main, Timer, Task
<1> HIDE <1>1
<1>6. add \in Seq(Bytes) /\ Len(add) = len /\ \A k \in 1 .. len : add[k] = <<t, n + k>>
  <2>1. \A k \in 1 .. len : <<t, n + k>> \in Bytes
    BY <1>2, <1>5 DEF Bytes
  <2>2. add \in [1 .. len -> Bytes] /\ \A k \in 1 .. len : add[k] = <<t, n + k>>
    BY <2>1, Zenon
  <2>3. len \in Nat
    BY <1>2
  <2> QED BY <2>2, <2>3, TextOf, Zenon
<1>7. /\ more \in Seq(Bytes) /\ Len(more) = n + len
      /\ \A j \in 1 .. n : more[j] = text[j]
      /\ \A k \in 1 .. len : more[n + k] = <<t, n + k>>
  <2> HIDE DEF add
  <2>1. /\ more \in Seq(Bytes) /\ Len(more) = n + len
        /\ \A i \in 1 .. n + len : more[i] = IF i <= n THEN text[i] ELSE add[i - n]
    <3>1. text \in Seq(Bytes) /\ add \in Seq(Bytes)
      BY <1>2, <1>6
    <3>2. /\ text \o add \in Seq(Bytes) /\ Len(text \o add) = Len(text) + Len(add)
          /\ \A i \in 1 .. Len(text) + Len(add) :
               (text \o add)[i] = IF i <= Len(text) THEN text[i] ELSE add[i - Len(text)]
      BY <3>1, ConcatProperties
    <3>3. Len(text) = n /\ Len(add) = len
      BY <1>2, <1>6
    <3> QED BY <3>2, <3>3
  <2> HIDE DEF more
  <2>2. \A k \in 1 .. len : n + k \in 1 .. n + len /\ ~(n + k <= n) /\ n + k - n = k
    BY <1>2
  <2>3. \A j \in 1 .. n : j \in 1 .. n + len /\ j <= n
    BY <1>2
  <2>4. \A j \in 1 .. n : more[j] = text[j]
    BY <2>1, <2>3
  <2>5. \A k \in 1 .. len : more[n + k] = <<t, n + k>>
    <3> TAKE k \in 1 .. len
    <3> DEFINE j == n + k
    <3>1. j \in 1 .. n + len /\ ~(j <= n) /\ j - n = k
      BY <1>2
    <3> HIDE DEF j
    <3>2. more[j] = IF j <= n THEN text[j] ELSE add[j - n]
      BY <2>1, <3>1
    <3>3. more[j] = add[k]
      BY <3>1, <3>2
    <3> QED BY <1>6, <3>3 DEF j
  <2> QED BY <2>1, <2>4, <2>5
<1> HIDE DEF more, add
<1>8. /\ \A k \in 1 .. len : RingAt(w, s, k) \in 0 .. s - 1
      /\ \A k1, k2 \in 1 .. len : RingAt(w, s, k1) = RingAt(w, s, k2) => k1 = k2
  <2>1. s \in Nat /\ w \in Nat /\ w <= s /\ len <= s
    BY <1>2
  <2> QED BY <2>1, RingPlaces
<1>9. \A k \in 1 .. len : new[RingAt(w, s, k)] = <<t, n + k>>
  <2> TAKE k \in 1 .. len
  <2>1. \A j \in 1 .. len : RingPlace(l, j) = RingAt(w, s, k) <=> j = k
    BY <1>0, <1>8, Zenon
  <2>2. (CHOOSE j \in 1 .. len : RingPlace(l, j) = RingAt(w, s, k)) = k
    BY <2>1
  <2> QED BY <1>8, <2>1, <2>2, Zenon
<1>10. \A i \in 0 .. s - 1 : (\A k \in 1 .. len : RingAt(w, s, k) # i) => new[i] = old[i]
  BY <1>0
<1>11. new \in [0 .. s - 1 -> Bytes]
  <2>1. \A i \in 0 .. s - 1 : new[i] \in Bytes
    <3> TAKE i \in 0 .. s - 1
    <3>1. CASE \E k \in 1 .. len : RingAt(w, s, k) = i
      <4>1. PICK k \in 1 .. len : RingAt(w, s, k) = i
        BY <3>1
      <4>2. new[i] = <<t, n + k>>
        BY <1>9, <4>1, Zenon
      <4>3. n + k \in Int
        BY <1>2
      <4> HIDE DEF new
      <4> QED BY <1>5, <4>2, <4>3 DEF Bytes
    <3>2. CASE \A k \in 1 .. len : RingAt(w, s, k) # i
      <4>1. new[i] = old[i]
        BY <1>10, <3>2
      <4> HIDE DEF new
      <4> QED BY <1>2, <4>1
    <3> QED BY <3>1, <3>2, Zenon
  <2> QED BY <2>1
<1> HIDE DEF new
<1>12. Adds(n, s, w, len, old, text, new, more)
  BY <1>7, <1>9, <1>10, Zenon DEF Adds
<1>13. /\ NextAt(w, s, len) \in 0 .. s
       /\ RingHas(n + len, s, NextAt(w, s, len), NextWrapped(w, s, len, wr), new, more)
  BY <1>2, <1>3, <1>12, RingStep, SMTT(30)
<1>14. NextWrapped(w, s, len, wr) \in {0, 1}
  BY <1>2, Zenon DEF NextWrapped
<1>15. set'.size = s /\ Len(written'[l]) = n + len
  BY <1>1, <1>4, <1>7, Zenon
<1>16. RingInv(l)'
  BY <1>4, <1>13, <1>15, Zenon DEF RingInv
<1> QED BY <1>1, <1>4, <1>7, <1>11, <1>13, <1>14, <1>16, Zenon

-----------------------------------------------------------------------------

\* The threads are different from one another, and nobody is not one of them.
LEMMA Everybody ==
  /\ Main \in Threads /\ Nobody \notin Threads /\ Pipes \subseteq Threads /\ Main \notin Pipes
  /\ Timer # Main /\ Task # Main /\ {Timer, Task} \subseteq Threads
BY ServicesAssumption DEF Threads, Main, Nobody, Pipes, Timer, Task

\* The two logs and their order.
LEMMA TheLogs ==
  /\ Len(LogNames) = 2 /\ LogNames[1] = "kernel" /\ LogNames[2] = "modules"
  /\ \A i \in 0 .. 1 : LogNames[i + 1] \in Logs
  /\ \A i, k \in 1 .. 2 : LogNames[i] = LogNames[k] => i = k
<1>1. Len(LogNames) = 2 /\ LogNames[1] = "kernel" /\ LogNames[2] = "modules"
  BY DEF LogNames
<1>2. \A i \in 0 .. 1 : i + 1 = 1 \/ i + 1 = 2
  OBVIOUS
<1>3. \A i \in 1 .. 2 : i = 1 \/ i = 2
  OBVIOUS
<1> QED BY <1>1, <1>2, <1>3 DEF Logs

\* The tail of a log is bytes.
LEMMA TailIsBytes ==
  ASSUME LTypeOK, NEW l \in Logs
  PROVE  TailOf(l) \in Seq(Bytes)
<1> DEFINE n == Len(written[l])
<1>1. PICK k \in Nat : k = (IF n < set.size THEN n ELSE set.size) /\ k <= n
  BY DEF LTypeOK
<1>2. written[l] \in Seq(Bytes) /\ n \in Nat
  BY DEF LTypeOK
<1>3. \A i \in n - k + 1 .. n : written[l][i] \in Bytes
  BY <1>1, <1>2
<1>4. SubSeq(written[l], n - k + 1, n) \in Seq(Bytes)
  BY <1>1, <1>2, <1>3, SubSeqProperties
<1> QED BY <1>1, <1>4 DEF TailOf, LastOf

\* The log that main is about to write.
LEMMA FlushedLog ==
  ASSUME LTypeOK, pc[Main] \in {"flushlock", "write"}
  PROVE  flushed \in 0 .. 1 /\ LogNames[flushed + 1] \in Logs
<1>1. flushed \in 0 .. 1
  BY DEF LTypeOK
<1> QED BY <1>1, TheLogs

\* A step that does not touch the rings keeps them.
LEMMA RingsKept ==
  ASSUME \A l \in Logs : RingInv(l), UNCHANGED <<set, mem, wpm, wrapped, written>>
  PROVE  \A l \in Logs : RingInv(l)'
BY DEF RingInv

\* A step that does not touch the files, the rings and their owners keeps the files.
LEMMA FilesKept ==
  ASSUME FileInv, UNCHANGED <<set, file, written, owner, flushed>>, Flushing => Flushing'
  PROVE  FileInv'
BY DEF FileInv, Excl, TailOf

\* A step that does not touch a log and after which no thread but those that were
\* logging before logs.
LEMMA LogsKept ==
  ASSUME LogInv, UNCHANGED <<set, rec, mem, wpm, wrapped, owner, file, flushed, written>>,
         Main \notin killed', pc' \in [Threads -> Labels], pc'[Main] = pc[Main],
         \A t \in Threads : pc'[t] \in {"add", "unlock"} => pc[t] = pc'[t]
  PROVE  LogInv'
<1>1. LTypeOK'
  BY Zenon DEF LogInv, LTypeOK
<1>2. OwnerInv'
  BY Zenon DEF LogInv, OwnerInv, Excl
<1>3. FileInv'
  BY FilesKept DEF LogInv, Flushing
<1>4. \A l \in Logs : RingInv(l)'
  BY RingsKept DEF LogInv
<1> QED BY <1>1, <1>2, <1>3, <1>4 DEF LogInv

\* The steps of the pipelines, the timer and the task outside of a log call.
LEMMA LogsOfOthers ==
  ASSUME LogInv,
         \/ \E t \in Threads : FaultOther(t) \/ SeeStop(t) \/ Killed(t)
         \/ \E p \in Pipes : Fault(p) \/ QueueSignal(p) \/ Park(p) \/ Unpark(p)
         \/ NewLog \/ Interrupt
  PROVE  LogInv'
<1> USE Everybody
<1>1. UNCHANGED <<set, rec, mem, wpm, wrapped, owner, file, flushed, written, killed>>
  BY Zenon DEF FaultOther, SeeStop, Killed, Fault, QueueSignal, Park, Unpark, NewLog, Interrupt,
     logvars, sigvars
<1>2. pc' = pc \/ \E t \in Threads, label \in {"gone", "queue", "park", "parked"} :
                    t # Main /\ pc' = [pc EXCEPT ![t] = label]
  <2>1. ASSUME NEW t \in Threads, FaultOther(t) \/ SeeStop(t) \/ Killed(t)
        PROVE  t # Main /\ pc' = [pc EXCEPT ![t] = "gone"]
    BY <2>1, Zenon DEF FaultOther, SeeStop, Killed, Goto, LogInv, LTypeOK
  <2>2. ASSUME NEW p \in Pipes, Fault(p) \/ QueueSignal(p) \/ Park(p) \/ Unpark(p)
        PROVE  \E label \in {"gone", "queue", "park", "parked"} :
                 p # Main /\ pc' = [pc EXCEPT ![p] = label]
    BY <2>2, Zenon DEF Fault, QueueSignal, Park, Unpark, Goto
  <2>3. CASE NewLog \/ Interrupt
    BY <2>3, Zenon DEF NewLog, Interrupt
  <2> QED BY <2>1, <2>2, <2>3
<1>3. /\ pc' \in [Threads -> Labels] /\ pc'[Main] = pc[Main]
      /\ \A t \in Threads : pc'[t] \in {"add", "unlock"} => pc[t] = pc'[t]
  <2>1. CASE pc' = pc
    BY <2>1 DEF LogInv, LTypeOK
  <2>2. ASSUME NEW t \in Threads, NEW label \in {"gone", "queue", "park", "parked"},
               t # Main, pc' = [pc EXCEPT ![t] = label]
        PROVE  /\ pc' \in [Threads -> Labels] /\ pc'[Main] = pc[Main]
               /\ \A u \in Threads : pc'[u] \in {"add", "unlock"} => pc[u] = pc'[u]
    <3>1. pc \in [Threads -> Labels] /\ label \in Labels /\ label \notin {"add", "unlock"}
      BY Zenon DEF LogInv, LTypeOK, Labels
    <3> QED BY <2>2, <3>1
  <2> QED BY <1>2, <2>1, <2>2
<1>4. Main \notin killed'
  BY <1>1, Zenon DEF LogInv, LTypeOK
<1> QED BY <1>1, <1>3, <1>4, LogsKept, SMTT(30)

\* A log call: the beginning, the mutex, and its end.
LEMMA LogsOfCalls ==
  ASSUME LogInv, NEW t \in Threads,
         \/ t \in Loggers /\ \E l \in Logs, n \in Lengths : StartLog(t, l, n)
         \/ LogLock(t) \/ LogUnlock(t)
  PROVE  LogInv'
<1> USE Everybody DEF LogInv
<1>1. UNCHANGED <<set, mem, wpm, wrapped, file, flushed, written, killed>>
  BY Zenon DEF StartLog, LogLock, LogUnlock, sigvars
<1>2. \A l \in Logs : RingInv(l)'
  BY <1>1, RingsKept
<1>3. ASSUME NEW l \in Logs, NEW n \in Lengths, StartLog(t, l, n) PROVE LogInv'
  <2>1. /\ pc[t] = "loop" /\ pc' = [pc EXCEPT ![t] = "lock"] /\ owner' = owner
        /\ rec' = [rec EXCEPT ![t] = [log |-> l, len |-> n]]
    BY <1>3, Zenon DEF StartLog, Goto
  <2>2. t # Main
    BY <2>1, Zenon DEF LTypeOK, MainLabels
  <2>3. LTypeOK'
    BY <1>1, <2>1, <2>2, ServicesAssumption, Zenon DEF LTypeOK, Labels, MainLabels
  <2>4. OwnerInv'
    BY <1>1, <2>1, <2>2, Zenon DEF OwnerInv, Excl, LTypeOK
  <2>5. FileInv'
    BY <1>1, <2>1, <2>2, FilesKept, Zenon DEF Flushing, LTypeOK
  <2> QED BY <1>2, <2>3, <2>4, <2>5
<1>4. CASE LogLock(t)
  <2>1. PICK l \in Logs : l = rec[t].log
    BY Zenon DEF LTypeOK
  <2>2. /\ pc[t] = "lock" /\ pc' = [pc EXCEPT ![t] = "add"] /\ rec' = rec
        /\ IF Excl(l) THEN owner[l] = Nobody /\ owner' = [owner EXCEPT ![l] = t]
                      ELSE owner' = owner
    BY <1>4, <2>1, Zenon DEF LogLock, Goto
  <2>3. LTypeOK'
    <3>1. owner' \in [Logs -> Threads \cup {Nobody}]
      BY <2>2, Zenon DEF LTypeOK
    <3>2. /\ pc' \in [Threads -> Labels] /\ pc'[Main] \in MainLabels
          /\ pc'[Main] \in {"flushlock", "write"} => pc[Main] \in {"flushlock", "write"}
      BY <2>2, Zenon DEF LTypeOK, Labels, MainLabels
    <3> QED BY <1>1, <2>2, <3>1, <3>2, Zenon DEF LTypeOK
  <2>4. OwnerInv'
    <3>1. ASSUME NEW u \in Threads, pc'[u] \in {"add", "unlock"}, Excl(rec[u].log)
          PROVE  owner'[rec[u].log] = u
      <4>1. CASE u = t
        BY <2>1, <2>2, <3>1, <4>1, Zenon DEF LTypeOK
      <4>2. CASE u # t
        <5>1. owner[rec[u].log] = u /\ rec[u].log \in Logs
          BY <2>2, <3>1, <4>2, Zenon DEF OwnerInv, LTypeOK
        <5> QED BY <2>2, <5>1, Zenon DEF LTypeOK
      <4> QED BY <4>1, <4>2, Zenon
    <3>2. pc'[Main] = "write" => pc[Main] = "write" /\ flushed < 2
      BY <2>2, Zenon DEF LTypeOK
    <3>3. ASSUME pc'[Main] = "write", Excl(LogNames[flushed + 1])
          PROVE  owner'[LogNames[flushed + 1]] = Main
      <4>1. owner[LogNames[flushed + 1]] = Main
        BY <3>2, <3>3, Zenon DEF OwnerInv
      <4>2. LogNames[flushed + 1] \in Logs
        BY <3>2, <3>3, FlushedLog, Zenon
      <4> QED BY <2>2, <4>1, <4>2, Zenon DEF LTypeOK
    <3> QED BY <1>1, <2>2, <3>1, <3>3, Zenon DEF OwnerInv, Excl
  <2>5. FileInv'
    <3>1. Flushing => Flushing'
      BY <2>2, Zenon DEF Flushing, LTypeOK
    <3>2. \A k \in Logs : owner[k] = Main => owner'[k] = Main
      BY <2>2, Zenon DEF LTypeOK
    <3> QED BY <1>1, <3>1, <3>2, Zenon DEF FileInv, Excl, TailOf
  <2> QED BY <1>2, <2>3, <2>4, <2>5
<1>5. CASE LogUnlock(t)
  <2>1. PICK l \in Logs : l = rec[t].log
    BY Zenon DEF LTypeOK
  <2>2. /\ pc[t] = "unlock" /\ pc' = [pc EXCEPT ![t] = IF t = Main THEN "process" ELSE "loop"]
        /\ owner' = [owner EXCEPT ![l] = IF Excl(l) THEN Nobody ELSE owner[l]]
        /\ rec' = [rec EXCEPT ![t] = NoRecord]
    BY <1>5, <2>1, Zenon DEF LogUnlock, Goto
  <2>3. Excl(l) => owner[l] = t
    BY <2>1, <2>2, Zenon DEF OwnerInv
  <2>4. LTypeOK'
    <3>1. owner' \in [Logs -> Threads \cup {Nobody}]
      BY <2>2, Zenon DEF LTypeOK
    <3>2. /\ pc' \in [Threads -> Labels] /\ pc'[Main] \in MainLabels
          /\ pc'[Main] \in {"flushlock", "write"} => pc[Main] \in {"flushlock", "write"}
      BY <2>2, Zenon DEF LTypeOK, Labels, MainLabels
    <3>3. rec' \in [Threads -> [log : Logs, len : Nat]]
      BY <2>2, Zenon DEF LTypeOK, NoRecord, Logs
    <3> QED BY <1>1, <3>1, <3>2, <3>3, Zenon DEF LTypeOK
  <2>5. OwnerInv'
    <3>1. ASSUME NEW u \in Threads, pc'[u] \in {"add", "unlock"}, Excl(rec'[u].log)
          PROVE  owner'[rec'[u].log] = u
      <4>1. u # t /\ pc[u] \in {"add", "unlock"} /\ rec'[u] = rec[u] /\ rec[u].log \in Logs
        BY <2>2, <3>1, Zenon DEF LTypeOK
      <4>2. owner[rec[u].log] = u
        BY <3>1, <4>1, Zenon DEF OwnerInv
      <4>3. rec[u].log = l => ~Excl(l)
        BY <2>3, <4>1, <4>2, Zenon
      <4> QED BY <2>2, <3>1, <4>1, <4>2, <4>3, Zenon DEF LTypeOK
    <3>2. ASSUME pc'[Main] = "write", Excl(LogNames[flushed + 1])
          PROVE  owner'[LogNames[flushed + 1]] = Main
      <4>1. pc[Main] = "write" /\ t # Main
        BY <2>2, <3>2, Zenon DEF LTypeOK
      <4>2. owner[LogNames[flushed + 1]] = Main
        BY <3>2, <4>1, Zenon DEF OwnerInv
      <4>3. LogNames[flushed + 1] \in Logs
        BY <4>1, FlushedLog
      <4> QED BY <2>2, <2>3, <4>1, <4>2, <4>3, Zenon DEF LTypeOK
    <3> QED BY <1>1, <3>1, <3>2, Zenon DEF OwnerInv, Excl
  <2>6. FileInv'
    <3>1. Flushing => Flushing' /\ t # Main
      BY <2>2, Zenon DEF Flushing, LTypeOK
    <3>2. ASSUME NEW k \in Logs, Excl(k), file[k] # NoFile
          PROVE  owner'[k] = Main /\ Flushing'
      <4>1. owner[k] = Main /\ Flushing
        BY <3>2, Zenon DEF FileInv
      <4> QED BY <2>2, <2>3, <3>1, <4>1, Zenon DEF LTypeOK
    <3> QED BY <1>1, <3>2, Zenon DEF FileInv, Excl, TailOf
  <2> QED BY <1>2, <2>4, <2>5, <2>6
<1> QED BY <1>3, <1>4, <1>5

\* The record is added: an exclusive log is not in its file yet.
LEMMA LogsOfAdd ==
  ASSUME LogInv, NEW t \in Threads, LogAdd(t)
  PROVE  LogInv'
<1> USE Everybody DEF LogInv
<1>1. PICK l \in Logs, len \in Nat : l = rec[t].log /\ len = rec[t].len
  BY Zenon DEF LTypeOK
<1>2. /\ pc[t] = "add" /\ pc' = [pc EXCEPT ![t] = "unlock"]
      /\ UNCHANGED <<set, rec, owner, file, flushed, killed>>
  BY Zenon DEF LogAdd, Goto, sigvars
<1>3. OwnerInv'
  BY <1>2, Zenon DEF OwnerInv, Excl, LTypeOK
<1>4. /\ pc' \in [Threads -> Labels] /\ pc'[Main] \in MainLabels
      /\ pc'[Main] \in {"flushlock", "write"} => pc[Main] \in {"flushlock", "write"}
  BY <1>2, Zenon DEF LTypeOK, Labels, MainLabels
<1>5. Flushing => Flushing' /\ t # Main
  BY <1>2, Zenon DEF Flushing, LTypeOK
<1>6. Excl(l) => file[l] = NoFile
  <2> SUFFICES ASSUME Excl(l), file[l] # NoFile PROVE FALSE
    OBVIOUS
  <2>1. owner[l] = Main /\ Flushing
    BY Zenon DEF FileInv
  <2>2. owner[l] = t
    BY <1>1, <1>2, Zenon DEF OwnerInv
  <2> QED BY <1>5, <2>1, <2>2, Zenon
<1>7. CASE len > set.size
  <2>1. UNCHANGED <<mem, wpm, wrapped, written>>
    BY <1>1, <1>7, Zenon DEF LogAdd
  <2>2. LTypeOK'
    BY <1>2, <1>4, <2>1, Zenon DEF LTypeOK
  <2>3. FileInv'
    BY <1>2, <1>5, <2>1, FilesKept
  <2>4. \A k \in Logs : RingInv(k)'
    BY <1>2, <2>1, RingsKept
  <2> QED BY <1>3, <2>2, <2>3, <2>4
<1>8. CASE len <= set.size
  <2>1. /\ RingInv(l)'
        /\ mem'[l] \in [0 .. set.size - 1 -> Bytes] /\ wpm'[l] \in 0 .. set.size
        /\ wrapped'[l] \in {0, 1} /\ written'[l] \in Seq(Bytes)
    BY <1>1, <1>8, AddKeepsRing, Zenon
  <2>2. ~(len > set.size)
    BY <1>8 DEF LTypeOK
  <2>3. /\ \E m : mem' = [mem EXCEPT ![l] = m]
        /\ \E w : wpm' = [wpm EXCEPT ![l] = w]
        /\ \E w : wrapped' = [wrapped EXCEPT ![l] = w]
        /\ \E text : written' = [written EXCEPT ![l] = text]
    BY <1>1, <2>2, Zenon DEF LogAdd
  <2>4. \A k \in Logs : k # l => /\ mem'[k] = mem[k] /\ wpm'[k] = wpm[k]
                                 /\ wrapped'[k] = wrapped[k] /\ written'[k] = written[k]
    BY <2>3, SMTT(30) DEF LTypeOK
  <2>5. \A k \in Logs : RingInv(k)'
    BY <1>2, <2>1, <2>4, Zenon DEF RingInv
  <2>6. /\ mem' \in [Logs -> [0 .. set.size - 1 -> Bytes]] /\ wpm' \in [Logs -> 0 .. set.size]
        /\ wrapped' \in [Logs -> {0, 1}] /\ written' \in [Logs -> Seq(Bytes)]
    BY <2>1, <2>3, Zenon DEF LTypeOK
  <2>7. LTypeOK'
    BY <1>2, <1>4, <2>6, Zenon DEF LTypeOK
  <2>8. FileInv'
    BY <1>2, <1>5, <1>6, <2>4, SMTT(30) DEF FileInv, Excl, TailOf
  <2> QED BY <1>3, <2>5, <2>7, <2>8
<1>9. set.size \in Nat
  BY DEF LTypeOK
<1>10. len > set.size \/ len <= set.size
  BY <1>9
<1> QED BY <1>7, <1>8, <1>10

\* The main thread between two logs.
LEMMA LogsOfMain ==
  ASSUME LogInv,
         TakeSignal \/ ProcessSignal \/ FlushNext \/ SetStops \/ CheckThreads \/ Leave
  PROVE  LogInv'
<1> USE Everybody DEF LogInv
<1>1. UNCHANGED <<set, mem, wpm, wrapped, owner, file, written>>
  BY Zenon DEF TakeSignal, ProcessSignal, FlushNext, SetStops, CheckThreads, Leave, logvars
<1>2. \A l \in Logs : RingInv(l)'
  BY <1>1, RingsKept
<1>3. Main \notin killed'
  BY Zenon DEF TakeSignal, ProcessSignal, FlushNext, SetStops, CheckThreads, Leave, sigvars, LTypeOK
<1>4. rec' \in [Threads -> [log : Logs, len : Nat]] /\ \A t \in Threads : t # Main => rec'[t] = rec[t]
  <2>1. rec' = rec \/ rec' = [rec EXCEPT ![Main] = [log |-> "kernel", len |-> 1]]
    BY Zenon DEF TakeSignal, ProcessSignal, FlushNext, SetStops, CheckThreads, Leave, logvars
  <2>2. [log |-> "kernel", len |-> 1] \in [log : Logs, len : Nat]
    BY DEF Logs
  <2>3. CASE rec' = rec
    BY <2>3, Zenon DEF LTypeOK
  <2>4. CASE rec' = [rec EXCEPT ![Main] = [log |-> "kernel", len |-> 1]]
    BY <2>2, <2>4, Zenon DEF LTypeOK
  <2> QED BY <2>1, <2>3, <2>4, Zenon
<1>5. /\ flushed' \in 0 .. 2 /\ flushed <= flushed'
      /\ \E label \in MainLabels : /\ pc' = [pc EXCEPT ![Main] = label]
                                   /\ label \notin {"add", "unlock", "write"}
                                   /\ label = "flushlock" => flushed' < 2
                                   /\ Flushing => label \notin {"sigwait", "lock", "process"}
  <2>1. CASE FlushNext
    <3>1. CASE flushed = Len(LogNames)
      BY <2>1, <3>1, TheLogs, SMTT(30) DEF FlushNext, Goto, LTypeOK, MainLabels
    <3>2. CASE flushed # Len(LogNames) /\ id[LogNames[flushed + 1]] = 0
      <4>1. flushed' = flushed + 1 /\ pc' = pc /\ pc[Main] = "flush"
        BY <2>1, <3>2, Zenon DEF FlushNext
      <4>2. pc' = [pc EXCEPT ![Main] = "flush"]
        BY <4>1, Zenon DEF LTypeOK
      <4>3. flushed' \in 0 .. 2 /\ flushed <= flushed'
        BY <3>2, <4>1, TheLogs DEF LTypeOK
      <4> QED BY <4>2, <4>3 DEF MainLabels
    <3>3. CASE flushed # Len(LogNames) /\ id[LogNames[flushed + 1]] # 0
      <4>1. flushed' = flushed /\ pc' = [pc EXCEPT ![Main] = "flushlock"]
        BY <2>1, <3>3, Zenon DEF FlushNext, Goto
      <4>2. flushed' \in 0 .. 2 /\ flushed <= flushed' /\ flushed' < 2
        BY <3>3, <4>1, TheLogs DEF LTypeOK
      <4> QED BY <4>1, <4>2 DEF MainLabels
    <3> QED BY <3>1, <3>2, <3>3, Zenon
  <2>2. CASE ~FlushNext
    <3>1. flushed' = flushed
      BY <2>2, Zenon DEF TakeSignal, ProcessSignal, SetStops, CheckThreads, Leave, logvars
    <3>2. flushed' \in 0 .. 2 /\ flushed <= flushed'
      BY <3>1, SMTT(30) DEF LTypeOK
    <3>3. \E label \in {"lock", "flush", "sigwait", "check", "left", "exit"} :
              /\ pc' = [pc EXCEPT ![Main] = label]
              /\ Flushing => label \notin {"sigwait", "lock"}
      BY <2>2, Zenon DEF TakeSignal, ProcessSignal, SetStops, CheckThreads, Leave, Goto, Flushing
    <3> QED BY <3>2, <3>3, Zenon DEF MainLabels
  <2> QED BY <2>1, <2>2, Zenon
<1>6. PICK label \in MainLabels : /\ pc' = [pc EXCEPT ![Main] = label]
                                  /\ label \notin {"add", "unlock", "write"}
                                  /\ label = "flushlock" => flushed' < 2
                                  /\ Flushing => label \notin {"sigwait", "lock", "process"}
  BY <1>5, Zenon
<1>7. /\ pc' \in [Threads -> Labels] /\ pc'[Main] = label
      /\ \A t \in Threads : t # Main => pc'[t] = pc[t]
  BY <1>6, Zenon DEF LTypeOK, Labels
<1>8. LTypeOK'
  BY <1>1, <1>3, <1>4, <1>5, <1>6, <1>7, Zenon DEF LTypeOK
<1>9. OwnerInv'
  BY <1>1, <1>4, <1>6, <1>7, Zenon DEF OwnerInv, Excl
<1>10. Flushing => Flushing'
  BY <1>6, <1>7, Zenon DEF Flushing, MainLabels
<1>11. \A j \in 1 .. flushed : j \in 1 .. flushed'
  <2>1. flushed \in Nat /\ flushed' \in Nat /\ flushed <= flushed'
    <3>1. flushed \in 0 .. 2 /\ flushed' \in 0 .. 2
      BY <1>5, Zenon DEF LTypeOK
    <3>2. flushed <= flushed'
      BY <1>5, Zenon
    <3>3. \A n \in 0 .. 2 : n \in Nat
      OBVIOUS
    <3> QED BY <3>1, <3>2, <3>3, Zenon
  <2>2. \A a, b \in Nat : a <= b => \A j \in 1 .. a : j \in 1 .. b
    BY SMT
  <2> QED BY <2>1, <2>2, Zenon
<1>12. FileInv'
  <2> SUFFICES ASSUME NEW l \in Logs, Excl(l)', file'[l] # NoFile
               PROVE  /\ owner'[l] = Main /\ Flushing' /\ file'[l] = TailOf(l)'
                      /\ \E j \in 1 .. flushed' : LogNames[j] = l
    BY Zenon DEF FileInv
  <2>1. Excl(l) /\ file[l] # NoFile
    BY <1>1, Zenon DEF Excl
  <2>2. /\ owner[l] = Main /\ Flushing /\ file[l] = TailOf(l)
        /\ \E j \in 1 .. flushed : LogNames[j] = l
    BY <2>1, Zenon DEF FileInv
  <2>3. TailOf(l)' = TailOf(l)
    BY <1>1, Zenon DEF TailOf
  <2> QED BY <1>1, <1>10, <1>11, <2>2, <2>3, Zenon
<1> QED BY <1>2, <1>8, <1>9, <1>12

\* The main thread at one log: what it writes is the ring's content.
LEMMA LogsOfFlush ==
  ASSUME LogInv, FlushLock \/ FlushWrite
  PROVE  LogInv'
<1> USE Everybody DEF LogInv
<1>1. PICK l \in Logs : l = LogNames[flushed + 1]
  BY FlushedLog, Zenon DEF FlushLock, FlushWrite
<1>2. flushed \in 0 .. 1 /\ Flushing
  BY FlushedLog, Zenon DEF FlushLock, FlushWrite, Flushing
<1>3. UNCHANGED <<set, rec, mem, wpm, wrapped, written, killed>>
  BY Zenon DEF FlushLock, FlushWrite, sigvars
<1>4. \A k \in Logs : RingInv(k)'
  BY <1>3, RingsKept
<1>5. \A k \in Logs : k # l \/ file[l] = NoFile \/ ~Excl(l)
  <2> SUFFICES ASSUME Excl(l), file[l] # NoFile PROVE FALSE
    BY SMTT(30)
  <2>1. PICK j \in 1 .. flushed : LogNames[j] = l
    BY Zenon DEF FileInv
  <2>2. j \in 1 .. 2 /\ flushed + 1 \in 1 .. 2 /\ j # flushed + 1
    BY <1>2
  <2> QED BY <1>1, <2>1, <2>2, TheLogs
<1>6. CASE FlushLock
  <2>1. /\ pc[Main] = "flushlock" /\ pc' = [pc EXCEPT ![Main] = "write"]
        /\ UNCHANGED <<file, flushed>>
    BY <1>6, Zenon DEF FlushLock, Goto
  <2>2. /\ pc' \in [Threads -> Labels] /\ pc'[Main] = "write"
        /\ \A t \in Threads : t # Main => pc'[t] = pc[t]
    BY <2>1, Zenon DEF LTypeOK, Labels, MainLabels
  <2>3. CASE Excl(l)
    <3>1. owner[l] = Nobody /\ owner' = [owner EXCEPT ![l] = Main]
      BY <1>1, <1>6, <2>3, Zenon DEF FlushLock
    <3>2. owner' \in [Logs -> Threads \cup {Nobody}] /\ owner'[l] = Main
          /\ \A k \in Logs : k # l => owner'[k] = owner[k]
      BY <3>1, Zenon DEF LTypeOK
    <3>3. LTypeOK'
      BY <1>2, <1>3, <2>1, <2>2, <3>2, Zenon DEF LTypeOK, MainLabels
    <3>4. OwnerInv'
      <4>1. \A t \in Threads : (pc[t] \in {"add", "unlock"} /\ Excl(rec[t].log)) => rec[t].log # l
        BY <3>1, Zenon DEF OwnerInv
      <4>2. \A t \in Threads : rec[t].log \in Logs
        BY Zenon DEF LTypeOK
      <4> QED BY <1>1, <1>3, <2>1, <2>2, <3>2, <4>1, <4>2, ZenonT(30) DEF OwnerInv, Excl
    <3>5. FileInv'
      BY <1>3, <1>5, <2>1, <2>2, <3>2, Zenon DEF FileInv, Excl, TailOf, Flushing
    <3> QED BY <1>4, <3>3, <3>4, <3>5
  <2>4. CASE ~Excl(l)
    <3>1. owner' = owner
      BY <1>1, <1>6, <2>4, Zenon DEF FlushLock
    <3>2. LTypeOK'
      BY <1>2, <1>3, <2>1, <2>2, <3>1, Zenon DEF LTypeOK, MainLabels
    <3>3. OwnerInv'
      BY <1>1, <1>3, <2>1, <2>2, <2>4, <3>1, Zenon DEF OwnerInv, Excl
    <3>4. FileInv'
      BY <1>3, <2>1, <2>2, <3>1, Zenon DEF FileInv, Excl, TailOf, Flushing
    <3> QED BY <1>4, <3>2, <3>3, <3>4
  <2> QED BY <2>3, <2>4
<1>7. CASE FlushWrite
  <2>1. /\ pc[Main] = "write" /\ pc' = [pc EXCEPT ![Main] = "flush"] /\ flushed' = flushed + 1
    BY <1>7, Zenon DEF FlushWrite, Goto
  <2>2. /\ pc' \in [Threads -> Labels] /\ pc'[Main] = "flush"
        /\ \A t \in Threads : t # Main => pc'[t] = pc[t]
    BY <2>1, Zenon DEF LTypeOK, Labels, MainLabels
  <2>3. /\ flushed' \in 0 .. 2 /\ flushed + 1 \in 1 .. flushed'
        /\ \A j \in 1 .. flushed : j \in 1 .. flushed'
    BY <1>2, <2>1
  <2>4. CASE file' = [file EXCEPT ![l] = Content(l)] /\ owner' = owner
    <3>1. Content(l) = TailOf(l)
      BY ContentIsTail
    <3>2. TailOf(l) \in Seq(Bytes)
      BY TailIsBytes
    <3>3. /\ file' \in [Logs -> Seq(Bytes)] /\ file'[l] = TailOf(l)
          /\ \A k \in Logs : k # l => file'[k] = file[k]
      BY <2>4, <3>1, <3>2, Zenon DEF LTypeOK
    <3>4. LTypeOK'
      BY <1>3, <2>2, <2>3, <2>4, <3>3, Zenon DEF LTypeOK, MainLabels
    <3>5. OwnerInv'
      BY <1>3, <2>2, <2>4, Zenon DEF OwnerInv, Excl
    <3>6. Excl(l) => owner[l] = Main
      BY <1>1, <2>1, Zenon DEF OwnerInv
    <3>7. FileInv'
      BY <1>1, <1>3, <2>2, <2>3, <2>4, <3>3, <3>6, ZenonT(30) DEF FileInv, Excl, TailOf, Flushing
    <3> QED BY <1>4, <3>4, <3>5, <3>7
  <2>5. CASE owner' = [owner EXCEPT ![l] = IF Excl(l) THEN Nobody ELSE @] /\ file' = file
    <3>1. /\ owner' \in [Logs -> Threads \cup {Nobody}]
          /\ ~Excl(l) => owner'[l] = owner[l]
          /\ \A k \in Logs : k # l => owner'[k] = owner[k]
      BY <2>5, Zenon DEF LTypeOK
    <3>2. LTypeOK'
      BY <1>3, <2>2, <2>3, <2>5, <3>1, Zenon DEF LTypeOK, MainLabels
    <3>3. OwnerInv'
      <4>1. Excl(l) => owner[l] = Main
        BY <1>1, <2>1 DEF OwnerInv
      <4>2. \A t \in Threads : rec[t].log \in Logs
        BY DEF LTypeOK
      <4>3. pc'[Main] \notin {"add", "unlock", "write"}
        BY <2>2
      <4>4. ASSUME NEW t \in Threads, pc'[t] \in {"add", "unlock"}, Excl(rec[t].log)
            PROVE  owner'[rec[t].log] = t
        <5>1. t # Main /\ pc[t] \in {"add", "unlock"}
          BY <2>2, <4>3, <4>4, Zenon
        <5>2. owner[rec[t].log] = t
          BY <4>4, <5>1, Zenon DEF OwnerInv
        <5>3. CASE rec[t].log = l
          BY <4>1, <4>4, <5>1, <5>2, <5>3, Zenon
        <5>4. CASE rec[t].log # l
          BY <3>1, <4>2, <5>2, <5>4, Zenon
        <5> QED BY <5>3, <5>4, Zenon
      <4>5. \A k : Excl(k)' = Excl(k)
        BY <1>3, Zenon DEF Excl
      <4> QED BY <1>3, <4>3, <4>4, <4>5, Zenon DEF OwnerInv
    <3>4. FileInv'
      BY <1>3, <1>5, <2>2, <2>3, <2>5, <3>1 DEF FileInv, Excl, TailOf, Flushing
    <3> QED BY <1>4, <3>2, <3>3, <3>4
  <2> QED BY <1>1, <1>7, <2>4, <2>5, Zenon DEF FlushWrite
<1> QED BY <1>6, <1>7

\* All the logs are empty at the start.
LEMMA LogInit ==
  Init => LogInv
<1> SUFFICES ASSUME Init PROVE LogInv
  OBVIOUS
<1> USE Everybody
<1>1. LTypeOK
  <2>1. set \in [size : Nat \ {0}, excl : BOOLEAN]
    BY ServicesAssumption, Zenon DEF Init
  <2>2. pc \in [Threads -> Labels] /\ pc[Main] = "sigwait" /\ killed = {} /\ flushed = 0
    BY Zenon DEF Init, Labels, MainLabels
  <2>3. rec \in [Threads -> [log : Logs, len : Nat]]
    BY Zenon DEF Init, NoRecord, Logs
  <2>4. <<Nobody, 0>> \in Bytes /\ <<Nobody, -1>> \in Bytes
    BY DEF Bytes, Nobody
  <2>5. NoFile \in Seq(Bytes) /\ <<>> \in Seq(Bytes)
    BY <2>4 DEF NoFile
  <2>6. mem \in [Logs -> [0 .. set.size - 1 -> Bytes]]
    BY <2>4, Zenon DEF Init
  <2>7. wpm \in [Logs -> 0 .. set.size]
    <3>1. 0 \in 0 .. set.size
      BY <2>1
    <3> QED BY <3>1, Zenon DEF Init
  <2>8. /\ wrapped \in [Logs -> {0, 1}] /\ owner \in [Logs -> Threads \cup {Nobody}]
        /\ file \in [Logs -> Seq(Bytes)] /\ written \in [Logs -> Seq(Bytes)]
    BY <2>5, Zenon DEF Init
  <2>9. /\ pc[Main] \in MainLabels /\ Main \notin killed /\ flushed \in 0 .. 2
        /\ pc[Main] \notin {"flushlock", "write"}
    BY <2>2 DEF MainLabels
  <2> QED BY <2>1, <2>2, <2>3, <2>6, <2>7, <2>8, <2>9, Zenon DEF LTypeOK
<1>2. \A l \in Logs : RingInv(l)
  <2> TAKE l \in Logs
  <2>1. written[l] = <<>> /\ wpm[l] = 0 /\ wrapped[l] = 0
    BY Zenon DEF Init
  <2>2. Len(written[l]) = 0
    BY <2>1, Zenon
  <2> QED BY <2>1, <2>2, EmptyRing, Zenon DEF RingInv
<1>3. OwnerInv
  <2>1. \A t \in Threads : pc[t] \in {"sigwait", "loop"}
    BY Zenon DEF Init
  <2> QED BY <2>1, Zenon DEF OwnerInv
<1>4. FileInv
  BY Zenon DEF Init, FileInv
<1> QED BY <1>1, <1>2, <1>3, <1>4 DEF LogInv

\* Every step keeps the logs' invariant.
LEMMA LogNext ==
  LogInv /\ [Next]_vars => LogInv'
<1> SUFFICES ASSUME LogInv, [Next]_vars PROVE LogInv'
  OBVIOUS
<1>1. CASE UNCHANGED vars
  <2>1. /\ UNCHANGED <<set, rec, mem, wpm, wrapped, owner, file, flushed, written, killed, pc>>
    BY <1>1, Zenon DEF vars, logvars, sigvars
  <2> QED BY <2>1, LogsKept, Zenon DEF LogInv, LTypeOK
<1>2. CASE \E t \in Threads : Logging(t)
  <2>1. PICK t \in Threads : Logging(t)
    BY <1>2
  <2>2. CASE LogAdd(t)
    BY <2>2, LogsOfAdd
  <2>3. CASE ~LogAdd(t)
    BY <2>1, <2>3, LogsOfCalls DEF Logging
  <2> QED BY <2>2, <2>3
<1>3. CASE \/ \E t \in Threads : FaultOther(t) \/ SeeStop(t) \/ Killed(t)
           \/ \E p \in Pipes : Fault(p) \/ QueueSignal(p) \/ Park(p) \/ Unpark(p)
           \/ NewLog \/ Interrupt
  BY <1>3, LogsOfOthers
<1>4. CASE TakeSignal \/ ProcessSignal \/ FlushNext \/ SetStops \/ CheckThreads \/ Leave
  BY <1>4, LogsOfMain
<1>5. CASE FlushLock \/ FlushWrite
  BY <1>5, LogsOfFlush
<1> QED BY <1>1, <1>2, <1>3, <1>4, <1>5, Zenon DEF Next

\* Whatever the threads log and in whatever order they get at the ring, a log's ring
\* holds exactly the latest bytes logged, in order, and the file main leaves of an
\* exclusive log at its exit is that tail (rtdal_log.c).
THEOREM LogsAreComplete ==
  Spec => []LogKeepsTail
<1>1. LogInv => LogKeepsTail
  <2> SUFFICES ASSUME LogInv PROVE LogKeepsTail
    OBVIOUS
  <2>1. \A l \in Logs : Content(l) = TailOf(l)
    BY ContentIsTail DEF LogInv
  <2>2. \A l \in Logs : Excl(l) /\ file[l] # NoFile => file[l] = TailOf(l)
    BY Zenon DEF LogInv, FileInv
  <2> QED BY <2>1, <2>2, Zenon DEF LogKeepsTail, TailOf
<1> QED BY <1>1, LogInit, LogNext, PTL DEF Spec
=============================================================================
