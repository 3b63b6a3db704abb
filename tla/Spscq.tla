------------------------------- MODULE Spscq -------------------------------
(***************************************************************************)
(* The single-producer single-consumer queue behind every internal         *)
(* interface (rtdal_lnx/src/rtdal_itfspscq.c).  One module thread requests, *)
(* fills and pushes packets, another pops, reads and releases them; no     *)
(* lock protects the ring, only the order of the loads and stores.  Every   *)
(* shared load or store that the other side can tell apart is a step of its *)
(* own.                                                                     *)
(*                                                                         *)
(* A packet is identified by its sequence number: the n-th packet pushed    *)
(* has contents n and length n, so a lost, repeated, reordered or torn      *)
(* packet shows in the number the consumer reads.  Contents 0 is the zeroed *)
(* memory of a ring that was never written.                                 *)
(***************************************************************************)
EXTENDS Integers

CONSTANTS
  N,        \* itf->max_msg, slots of the ring
  Delays,   \* the delays interfaces are created with
  MaxSent,  \* bound: packets pushed, and packets released
  MaxTime   \* bound: time slots

ASSUME SpscqAssumption ==
  /\ N \in Nat \ {0}
  /\ Delays \subseteq Int /\ \A d \in Delays : d >= -2
  /\ MaxSent \in Nat /\ MaxTime \in Nat

VARIABLES
  delay,                     \* itf->parent.delay: >= 0 slots, -1 blocking,
                             \* -2 blocking request
  read, write,               \* itf->read, itf->write
  valid, tstamp, len, data,  \* fields of itf->packets[i]
  sem_r, sem_w,              \* flags of the two binary semaphores
  time,                      \* rtdal_time_slot()
  pp, cp,                    \* program counters of producer and consumer
  cval,                      \* what the consumer read from the packet it holds
  nsent, nrcv,               \* history: packets pushed, packets released
  born                       \* history: the slot in which a packet was stamped

ring == <<valid, tstamp, len, data>>
sems == <<sem_r, sem_w>>
tally == <<nsent, nrcv, born>>
vars == <<delay, read, write, ring, sems, time, pp, cp, cval, tally>>

Slots == 0 .. N - 1

\* itf->write += (itf->write+1 >= itf->max_msg) ? (1-itf->max_msg) : 1
Inc(i) == i + (IF i + 1 >= N THEN 1 - N ELSE 1)

NoVal == [len |-> 0, data |-> 0]

PPcs == {"idle", "waitw", "granted", "filled", "stamped", "measured",
         "adv", "give"}
CPcs == {"idle", "waitr", "got", "read", "adv", "give"}

-----------------------------------------------------------------------------
(* rtdal_itfspscq_new: malloc, zeroed packets, both semaphores up.         *)
Init ==
  /\ delay \in Delays
  /\ read = 0 /\ write = 0
  /\ valid = [i \in Slots |-> 0]
  /\ tstamp = [i \in Slots |-> 0]
  /\ len = [i \in Slots |-> 0]
  /\ data = [i \in Slots |-> 0]
  /\ sem_r = 1 /\ sem_w = 1
  /\ time = 0
  /\ pp = "idle" /\ cp = "idle"
  /\ cval = NoVal
  /\ nsent = 0 /\ nrcv = 0
  /\ born = [n \in 1 .. MaxSent |-> 0]

-----------------------------------------------------------------------------
(* The producer: rtdal_itfspscq_request, the module's work(), and          *)
(* rtdal_itfspscq_push.  A request refused with NOSPACE changes nothing     *)
(* and is a stuttering step.                                                *)

\* Faulty: the queue is never tested for room.
RequestUnchecked ==
  /\ pp = "idle"
  /\ pp' = "granted"
  /\ UNCHANGED <<delay, read, write, ring, sems, time, cp, cval, tally>>

\* spscq_is_full returned 0: the caller gets packets[write].data.
Request ==
  /\ pp = "idle"
  /\ valid[write] = 0
  /\ pp' = "granted"
  /\ UNCHANGED <<delay, read, write, ring, sems, time, cp, cval, tally>>

\* A negative delay makes a full queue block the caller in sem_take(sem_w).
RequestBlocks ==
  /\ pp = "idle"
  /\ delay < 0
  /\ valid[write] # 0
  /\ pp' = "waitw"
  /\ UNCHANGED <<delay, read, write, ring, sems, time, cp, cval, tally>>

\* sem_take(sem_w) returns and the loop of spscq_is_full tests valid again.
TakeW ==
  /\ pp = "waitw"
  /\ sem_w = 1
  /\ sem_w' = 0
  /\ pp' = "idle"
  /\ UNCHANGED <<delay, read, write, ring, sem_r, time, cp, cval, tally>>

\* work() writes the samples through the pointer (memcpy in _send).
Fill ==
  /\ pp = "granted"
  /\ data' = [data EXCEPT ![write] = nsent + 1]
  /\ pp' = "filled"
  /\ UNCHANGED <<delay, read, write, valid, tstamp, len, sems, time, cp, cval, tally>>

\* work() fails, or pushes with len 0: nothing is sent, the slot stays free.
PushNothing ==
  /\ pp \in {"granted", "filled"}
  /\ pp' = "idle"
  /\ UNCHANGED <<delay, read, write, ring, sems, time, cp, cval, tally>>

\* packets[write].tstamp = rtdal_time_slot() + delay
PushStamp ==
  /\ pp = "filled"
  /\ nsent < MaxSent
  /\ time + delay <= MaxTime
  /\ tstamp' = [tstamp EXCEPT ![write] = time + delay]
  /\ born' = [born EXCEPT ![nsent + 1] = time]
  /\ pp' = "stamped"
  /\ UNCHANGED <<delay, read, write, valid, len, data, sems, time, cp, cval,
                 nsent, nrcv>>

\* packets[write].len = len
PushLen ==
  /\ pp = "stamped"
  /\ len' = [len EXCEPT ![write] = nsent + 1]
  /\ pp' = "measured"
  /\ UNCHANGED <<delay, read, write, valid, tstamp, data, sems, time, cp, cval, tally>>

\* packets[write].valid = 1 hands the slot to the consumer.
PushValid ==
  /\ pp = "measured"
  /\ valid' = [valid EXCEPT ![write] = 1]
  /\ nsent' = nsent + 1
  /\ pp' = "adv"
  /\ UNCHANGED <<delay, read, write, tstamp, len, data, sems, time, cp, cval,
                 nrcv, born>>

PushAdvance ==
  /\ pp = "adv"
  /\ write' = Inc(write)
  /\ pp' = IF delay < 0 THEN "give" ELSE "idle"
  /\ UNCHANGED <<delay, read, ring, sems, time, cp, cval, tally>>

\* ring_buff_binary_sem_give(sem_r)
PushGive ==
  /\ pp = "give"
  /\ sem_r' = 1
  /\ pp' = "idle"
  /\ UNCHANGED <<delay, read, write, ring, sem_w, time, cp, cval, tally>>

Producer ==
  \/ Request \/ RequestBlocks \/ TakeW \/ Fill \/ PushNothing
  \/ PushStamp \/ PushLen \/ PushValid \/ PushAdvance \/ PushGive

-----------------------------------------------------------------------------
(* The consumer: rtdal_itfspscq_pop, the module's work(), and              *)
(* rtdal_itfspscq_release.  A pop that returns 0 is a stuttering step.      *)

\* spscq_is_empty(itf, ts) for the caller's time stamp ts; with delay -1 it
\* blocks instead, and never returns true.
IsEmpty(ts) ==
  /\ valid[read] = 0
  /\ \/ delay >= 0 \/ delay = -2
     \/ tstamp[read] > ts

\* The packet is not due: packets[read].tstamp > rtdal_time_slot().
NotDue == delay >= 0 /\ tstamp[read] > time

\* pop returns 1.  Only the consumer clears valid and time only grows, so the
\* two tests hold together at the moment of the second.
Pop(ts) ==
  /\ cp = "idle"
  /\ ~IsEmpty(ts)
  /\ ~NotDue
  /\ cval' = [len |-> len[read], data |-> 0]
  /\ cp' = "got"
  /\ UNCHANGED <<delay, read, write, ring, sems, time, pp, tally>>

\* With delay -1 an empty queue blocks the caller in sem_take(sem_r).
PopBlocks(ts) ==
  /\ cp = "idle"
  /\ delay = -1
  /\ IsEmpty(ts)
  /\ cp' = "waitr"
  /\ UNCHANGED <<delay, read, write, ring, sems, time, pp, cval, tally>>

TakeR ==
  /\ cp = "waitr"
  /\ sem_r = 1
  /\ sem_r' = 0
  /\ cp' = "idle"
  /\ UNCHANGED <<delay, read, write, ring, sem_w, time, pp, cval, tally>>

\* work() (memcpy in _recv) reads the samples in place.
Read ==
  /\ cp = "got"
  /\ cval' = [cval EXCEPT !.data = data[read]]
  /\ cp' = "read"
  /\ UNCHANGED <<delay, read, write, ring, sems, time, pp, tally>>

\* Run() returns before oesr_itf_ptr_release: the packet stays in the queue.
Abandon ==
  /\ cp \in {"got", "read"}
  /\ cp' = "idle"
  /\ cval' = NoVal
  /\ UNCHANGED <<delay, read, write, ring, sems, time, pp, tally>>

\* packets[read].valid = 0 returns the slot to the producer.
ReleaseValid ==
  /\ cp = "read"
  /\ nrcv < MaxSent
  /\ valid' = [valid EXCEPT ![read] = 0]
  /\ nrcv' = nrcv + 1
  /\ cval' = NoVal
  /\ cp' = "adv"
  /\ UNCHANGED <<delay, read, write, tstamp, len, data, sems, time, pp, nsent,
                 born>>

ReleaseAdvance ==
  /\ cp = "adv"
  /\ read' = Inc(read)
  /\ cp' = IF delay < 0 THEN "give" ELSE "idle"
  /\ UNCHANGED <<delay, write, ring, sems, time, pp, cval, tally>>

\* ring_buff_binary_sem_give(sem_w)
ReleaseGive ==
  /\ cp = "give"
  /\ sem_w' = 1
  /\ cp' = "idle"
  /\ UNCHANGED <<delay, read, write, ring, sem_r, time, pp, cval, tally>>

\* The time stamp a module passes is its own run counter.
Consumer ==
  \/ \E ts \in 0 .. MaxTime : Pop(ts) \/ PopBlocks(ts)
  \/ TakeR \/ Read \/ Abandon \/ ReleaseValid \/ ReleaseAdvance \/ ReleaseGive

-----------------------------------------------------------------------------
\* kernel_tslot_run: the slot counter advances whatever the modules do.
Tick ==
  /\ time < MaxTime
  /\ time' = time + 1
  /\ UNCHANGED <<delay, read, write, ring, sems, pp, cp, cval, tally>>

\* Faulty: the write index survives.
ResetKeepsWrite ==
  /\ pp = "idle" /\ cp = "idle"
  /\ read' = 0
  /\ valid' = [i \in Slots |-> 0]
  /\ nrcv' = nsent
  /\ UNCHANGED <<delay, write, tstamp, len, data, sems, time, pp, cp, cval, nsent,
                 born>>

\* rtdal_itfspscq_reset, called with both modules stopped.  Time stamps and
\* semaphores keep their values.
Reset ==
  /\ pp = "idle" /\ cp = "idle"
  /\ read' = 0 /\ write' = 0
  /\ valid' = [i \in Slots |-> 0]
  /\ nrcv' = nsent
  /\ UNCHANGED <<delay, tstamp, len, data, sems, time, pp, cp, cval, nsent,
                 born>>

Next == Producer \/ Consumer \/ Tick \/ Reset

Spec == Init /\ [][Next]_vars

\* Every module is called once per time slot and the kernel keeps counting.  A
\* module whose Run() fails is removed by the node, so one that keeps being
\* called does not fail for ever: strong fairness for the two steps that a
\* failure pre-empts.
FairSpec ==
  /\ Spec
  /\ WF_vars(Tick)
  /\ WF_vars(\E ts \in 0 .. MaxTime : Pop(ts))
  /\ SF_vars(Read) /\ SF_vars(ReleaseValid)
  /\ WF_vars(ReleaseAdvance) /\ WF_vars(ReleaseGive)
  /\ WF_vars(TakeW) /\ WF_vars(Request) /\ WF_vars(RequestBlocks)
  /\ WF_vars(PushLen) /\ WF_vars(PushValid)
  /\ WF_vars(PushAdvance) /\ WF_vars(PushGive)

-----------------------------------------------------------------------------
TypeOK ==
  /\ delay \in Delays
  /\ read \in Slots /\ write \in Slots
  /\ valid \in [Slots -> {0, 1}]
  /\ tstamp \in [Slots -> Int]
  /\ len \in [Slots -> Nat]
  /\ data \in [Slots -> Nat]
  /\ sem_r \in {0, 1} /\ sem_w \in {0, 1}
  /\ time \in 0 .. MaxTime
  /\ pp \in PPcs /\ cp \in CPcs
  /\ cval \in [len : Nat, data : Nat]
  /\ nsent \in 0 .. MaxSent /\ nrcv \in Nat
  /\ pp \in {"stamped", "measured"} => nsent < MaxSent
  /\ born \in [1 .. MaxSent -> 0 .. MaxTime]

\* The producer may store into packets[write], the consumer may load from
\* packets[read].
ProducerHolds == pp \in {"granted", "filled", "stamped", "measured"}
ConsumerHolds == cp \in {"got", "read"}

\* Zero-copy is race free: between request and push the producer writes a
\* slot, between pop and release the consumer reads one, and these are never
\* the same slot, although read and write are plain integers that each side
\* advances after it has handed the slot over.
SlotExclusive == delay # -1 /\ ProducerHolds /\ ConsumerHolds => read # write

\* Packets arrive once each, in order and whole: the length that pop returns
\* and the samples that work() reads both belong to the packet after the last
\* one released.
FifoOrder == delay # -1 =>
  /\ cp = "got" => cval.len = nrcv + 1
  /\ cp = "read" => cval = [len |-> nrcv + 1, data |-> nrcv + 1]

\* rtdal.h: "a packet generated at time slot n is not received until timeslot
\* n+delay", even when the clock ticks between the stores of push and the
\* tests of pop.
NotBeforeDue ==
  delay >= 0 /\ ConsumerHolds => born[nrcv + 1] + delay <= time

\* Where the oldest packet is and where the next one goes, allowing for an
\* index that its owner has still to advance.
Head == IF cp = "adv" THEN Inc(read) ELSE read
Tail == IF pp = "adv" THEN Inc(write) ELSE write
Count == nsent - nrcv
\* How many places slot i lies after slot h going round the ring.
Dist(h, i) == IF i >= h THEN i - h ELSE i - h + N
Wrap(k) == IF k >= N THEN k - N ELSE k

\* Why the queue works although nothing is locked: the valid flags are the
\* only shared state, and at every step of either side they mark exactly the
\* Count slots from Head on, which hold the packets nrcv+1 .. nsent in order
\* with their lengths and due times; the index of the other side is never
\* consulted.
RingCore ==
  /\ Count \in 0 .. N
  /\ Tail = Wrap(Head + Count)
  /\ \A i \in Slots : valid[i] = 1 <=> Dist(Head, i) < Count
  /\ \A i \in Slots : valid[i] = 1 =>
       /\ data[i] = nrcv + 1 + Dist(Head, i)
       /\ len[i] = nrcv + 1 + Dist(Head, i)
       /\ tstamp[i] = born[nrcv + 1 + Dist(Head, i)] + delay
  /\ ProducerHolds => valid[write] = 0
  /\ pp \in {"filled", "stamped", "measured"} => data[write] = nsent + 1
  /\ pp \in {"stamped", "measured"} =>
       tstamp[write] = born[nsent + 1] + delay
  /\ pp = "measured" => len[write] = nsent + 1
  /\ ConsumerHolds => valid[read] = 1 /\ cval.len = nrcv + 1
  /\ ConsumerHolds /\ delay >= 0 => tstamp[read] <= time
  /\ cval.data = IF cp = "read" THEN nrcv + 1 ELSE 0

\* RingCore holds for every delay but -1, where pop does not test valid.
RingInv == delay # -1 => RingCore

\* The ring implements the bounded FIFO channel with N places.
Fifo == INSTANCE PacketFifo WITH
  Capacity <- N, sent <- nsent, rcvd <- nrcv, busy <- ConsumerHolds,
  seen <- cval.data, ordered <- (delay # -1)
ImplementsFifo == Fifo!FSpec

\* Every packet pushed is released some day: no packet is stranded in the
\* ring by the wrap-around of read and write or by a time stamp never due.
EveryPacketArrives == \A k \in 1 .. MaxSent :
  delay # -1 /\ nsent >= k ~> nrcv >= k
=============================================================================
