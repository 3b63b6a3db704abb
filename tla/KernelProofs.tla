---------------------------- MODULE KernelProofs ----------------------------
(***************************************************************************)
(* The start barrier separates rounds for any finite set of threads and any *)
(* number of rounds.  The inductive invariant is BTypeOK /\ RoundInv.  The  *)
(* second part is about the slots: Lockstep and NobodyPassesEarly for any   *)
(* number of pipelines and modules, from the invariant KInv.                *)
(***************************************************************************)
EXTENDS KernelSlots, FiniteSetTheorems, TLAPS

\* The sleepers of the current round are a finite set, so they can be counted.
LEMMA FillingFinite ==
  ASSUME BTypeOK
  PROVE  /\ Filling \subseteq Threads /\ IsFiniteSet(Filling)
         /\ Cardinality(Filling) \in Nat /\ threshold \in Nat
<1>1. Filling \subseteq Threads
  BY DEF Filling, BTypeOK
<1>2. QED
  BY <1>1, BarrierAssumption, FS_Subset, FS_CardinalityType DEF threshold

\* The first round starts with nobody in it.
LEMMA BarrierInit == BInit => BTypeOK /\ RoundInv
<1> SUFFICES ASSUME BInit PROVE BTypeOK /\ RoundInv
  OBVIOUS
<1>1. threshold \in Nat /\ threshold # 0
  BY BarrierAssumption, FS_CardinalityType, FS_EmptySet DEF threshold
<1>2. BTypeOK
  BY <1>1 DEF BInit, BTypeOK
<1>3. Filling = {} /\ Cardinality(Filling) = 0
  BY FS_EmptySet DEF BInit, Filling
<1>4. QED BY <1>1, <1>2, <1>3 DEF BInit, RoundInv

\* Going to sleep adds one sleeper to the current round.
LEMMA EnterWaitsKeeps ==
  ASSUME BTypeOK, RoundInv, NEW t \in Threads, EnterWaits(t)
  PROVE  BTypeOK' /\ RoundInv'
<1> USE DEF EnterWaits
<1>1. t \notin Filling /\ Filling' = Filling \union {t}
  BY DEF Filling, BTypeOK
<1>2. Cardinality(Filling') = Cardinality(Filling) + 1
  BY <1>1, FillingFinite, FS_AddElement, Zenon
<1>3. BTypeOK'
  BY FillingFinite DEF BTypeOK
<1>4. counter' = threshold - Cardinality(Filling')
  BY <1>2, FillingFinite DEF RoundInv
<1>5. QED BY <1>1, <1>3, <1>4 DEF RoundInv, BTypeOK

\* When only one member is missing all the others sleep in the current round,
\* so opening ends the round for everybody.
LEMMA EnterOpensKeeps ==
  ASSUME BTypeOK, RoundInv, NEW t \in Threads, EnterOpens(t)
  PROVE  BTypeOK' /\ RoundInv'
<1> USE DEF EnterOpens
<1>1. Filling = Threads \ {t}
  <2>1. Filling \subseteq Threads \ {t}
    BY FillingFinite DEF Filling
  <2>2. IsFiniteSet(Threads \ {t}) /\ Cardinality(Threads \ {t}) = threshold - 1
    BY BarrierAssumption, FS_RemoveElement, Zenon DEF threshold
  <2>3. Cardinality(Filling) = threshold - 1
    BY FillingFinite DEF RoundInv
  <2>4. QED BY <2>1, <2>2, <2>3, FS_Subset
<1>2. Filling' = {}
  BY <1>1 DEF Filling, BTypeOK
<1>3. Cardinality(Filling') = 0
  BY <1>2, FS_EmptySet
<1>4. threshold \in Nat /\ threshold # 0
  BY BarrierAssumption, FS_CardinalityType, FS_EmptySet DEF threshold
<1>5. BTypeOK'
  BY <1>4 DEF BTypeOK
<1>6. \A u \in Threads :
        u # t => entered[u] = rounds + 1 /\ passed[u] = rounds /\ u \in inside
  BY <1>1 DEF RoundInv, Filling
<1>7. entered[t] = rounds /\ passed[t] = rounds
  BY DEF RoundInv, Filling
<1>8. QED BY <1>2, <1>3, <1>4, <1>5, <1>6, <1>7 DEF RoundInv, BTypeOK

\* Leaving does not concern the round that is filling.
LEMMA LeaveKeeps ==
  ASSUME BTypeOK, RoundInv, NEW t \in Threads, Leave(t)
  PROVE  BTypeOK' /\ RoundInv'
<1> USE DEF Leave
<1>1. Filling' = Filling /\ t \in inside \ Filling
  BY DEF Filling, BTypeOK
<1>2. entered[t] = rounds /\ passed[t] = rounds - 1
  BY <1>1 DEF RoundInv
<1>3. BTypeOK'
  BY DEF BTypeOK
<1>4. QED BY <1>1, <1>2, <1>3 DEF RoundInv, BTypeOK

\* Every step keeps the rounds' invariant.
LEMMA BarrierNext == BTypeOK /\ RoundInv /\ [BNext]_bvars => BTypeOK' /\ RoundInv'
<1> SUFFICES ASSUME BTypeOK, RoundInv, [BNext]_bvars PROVE BTypeOK' /\ RoundInv'
  OBVIOUS
<1>1. CASE UNCHANGED bvars
  BY <1>1 DEF bvars, BTypeOK, RoundInv, Filling
<1>2. CASE BNext
  BY <1>2, EnterWaitsKeeps, EnterOpensKeeps, LeaveKeeps DEF BNext, Enter
<1>3. QED BY <1>1, <1>2

\* The counter and the one-bit cycle of barrier_wait describe the round exactly.
THEOREM RoundsAreExact == BSpec => []RoundInv
<1>1. BSpec => [](BTypeOK /\ RoundInv)
  BY BarrierInit, BarrierNext, PTL DEF BSpec
<1>2. QED BY <1>1, PTL

\* Nobody returns from barrier_wait before everybody has called it.
THEOREM BarrierSeparates == BSpec => []NobodyPassesEarly
<1>1. BSpec => [](BTypeOK /\ RoundInv)
  BY BarrierInit, BarrierNext, PTL DEF BSpec
<1>2. BTypeOK /\ RoundInv => NobodyPassesEarly
  BY DEF BTypeOK, RoundInv, NobodyPassesEarly
<1>3. QED BY <1>1, <1>2, PTL

-----------------------------------------------------------------------------
(***************************************************************************)
(* With thread_sync_on_finish the pipelines keep step with the kernel, for  *)
(* any number of pipelines, modules and slots and every configuration of    *)
(* the real-time control.                                                   *)
(***************************************************************************)
\* The slot's wake-up has been given and its barrier has not opened yet.
Awake == kpc = "barrier" \/ Kernel \in Filling

KTypeOK ==
  /\ opt \in Options
  /\ slot \in Nat /\ timeslot \in Nat
  /\ timeslot_p \in [Pipes -> Nat] /\ runs \in [Pipes -> Nat]
  /\ finished \in [Pipes -> {0, 1}] /\ enable \in [Pipes -> {0, 1}]
  /\ has_exec \in [Pipes -> {0, 1, 2}] /\ ki \in 0 .. NP
  /\ kpc \in {"timer", "read", "age", "late", "enable", "wake", "barrier", "asleep"}
  /\ kpc \in {"age", "late"} => ki < NP
  /\ ppc \in [Pipes -> {"wait", "woken", "start", "test", "run", "stamp", "finish",
                        "barrier", "asleep"}]

\* A thread is asleep where the barrier has it inside.
AsleepInv ==
  /\ kpc = "asleep" <=> Kernel \in inside
  /\ \A p \in Pipes : ppc[p] = "asleep" <=> p \in inside

\* The kernel thread counts one slot, and then one wake-up, for a round.
CountInv ==
  /\ slot = rounds + (IF kpc = "timer" \/ Kernel \in inside \ Filling THEN 0 ELSE 1)
  /\ timeslot = rounds + (IF Awake THEN 1 ELSE 0)

\* Where a pipeline is in the round, and the slots it has answered and executed.
PipeInv(p) ==
  \/ /\ ppc[p] = "wait" \/ p \in inside \ Filling
     /\ timeslot_p[p] = rounds /\ runs[p] = rounds
  \/ ppc[p] = "woken" /\ Awake /\ timeslot_p[p] = rounds /\ runs[p] = rounds
  \/ /\ ppc[p] \in {"start", "test", "run"} /\ Awake
     /\ timeslot_p[p] = rounds + 1 /\ runs[p] = rounds
  \/ /\ ppc[p] \in {"stamp", "finish", "barrier"} \/ p \in Filling
     /\ Awake /\ timeslot_p[p] = rounds + 1 /\ runs[p] = rounds + 1

\* From Enable until the barrier opens every pipeline is enabled.
EnableInv == kpc = "wake" \/ Awake => \A p \in Pipes : enable[p] = 1

\* rt_control finds all pipelines late in the first slot and none in a later one, so it
\* never holds back the wake-up.
ControlInv ==
  /\ \A p \in Pipes :
       ppc[p] \in {"barrier", "asleep"} \/ (ppc[p] = "wait" /\ rounds > 0) => finished[p] = 1
  /\ rounds = 0 =>
       /\ kpc # "age"
       /\ kpc = "timer" => \A p \in Pipes : finished[p] = 0
       /\ kpc \in {"read", "late"} =>
            \A p \in Pipes : IF p < ki THEN has_exec[p] = 2 ELSE finished[p] = 0
  /\ rounds > 0 =>
       /\ kpc # "late"
       /\ kpc \in {"read", "age"} => \A p \in Pipes : has_exec[p] # 2

SyncInv == AsleepInv /\ CountInv /\ (\A p \in Pipes : PipeInv(p)) /\ EnableInv /\ ControlInv

KInv ==
  /\ KTypeOK /\ BTypeOK /\ RoundInv
  /\ opt.sync_on_finish => SyncInv

-----------------------------------------------------------------------------

\* The threads of the barrier are the pipelines and the kernel thread.
LEMMA Everybody == Threads = Pipes \union {Kernel} /\ Kernel \notin Pipes /\ Kernel = NP /\ NP \in Nat
BY KernelAssumption DEF Pipes, Kernel

\* What barrier_wait does to the sleepers.
LEMMA WaitsEffect ==
  ASSUME BTypeOK, NEW t \in Threads, EnterWaits(t)
  PROVE  inside' = inside \union {t} /\ Filling' = Filling \union {t} /\ rounds' = rounds
BY DEF EnterWaits, BTypeOK, Filling

\* The last one in opens the barrier.
LEMMA OpensEffect ==
  ASSUME BTypeOK, RoundInv, NEW t \in Threads, EnterOpens(t)
  PROVE  /\ Filling = Threads \ {t} /\ inside = Threads \ {t} /\ inside' = inside
         /\ Filling' = {} /\ rounds' = rounds + 1
<1> USE DEF EnterOpens
<1>1. Filling \subseteq Threads \ {t}
  BY FillingFinite DEF Filling
<1>2. IsFiniteSet(Threads \ {t}) /\ Cardinality(Threads \ {t}) = threshold - 1
  BY BarrierAssumption, FS_RemoveElement, SMTT(30) DEF threshold
<1>3. Cardinality(Filling) = threshold - 1
  BY FillingFinite DEF RoundInv
<1>4. Filling = Threads \ {t}
  BY <1>1, <1>2, <1>3, FS_Subset
<1>5. inside = Threads \ {t}
  BY <1>4 DEF Filling, BTypeOK
<1>6. Filling' = {}
  BY <1>4, <1>5 DEF Filling, BTypeOK
<1> QED BY <1>4, <1>5, <1>6

\* A waiter that sees the new round goes on.
LEMMA LeaveEffect ==
  ASSUME BTypeOK, NEW t \in Threads, Leave(t)
  PROVE  /\ inside' = inside \ {t} /\ Filling' = Filling /\ rounds' = rounds
         /\ t \in inside \ Filling
BY DEF Leave, BTypeOK, Filling

\* A step that is not one of barrier_wait leaves all of it alone.
LEMMA SameBarrier ==
  ASSUME UNCHANGED bvars
  PROVE  inside' = inside /\ Filling' = Filling /\ rounds' = rounds
BY DEF bvars, Filling

\* Every step is a step of the barrier or leaves it alone.
LEMMA BarrierStep == Next => [BNext]_bvars
<1>1. ASSUME KernelThread PROVE [BNext]_bvars
  BY <1>1, Everybody, Zenon DEF KernelThread, TslotInc, RtRead, RtAge, RtLate, RtCorrect, Enable, Wake,
     KernelEnter, KernelLeave, BNext
<1>2. ASSUME NEW p \in Pipes, PipeThread(p) PROVE [BNext]_bvars
  BY <1>2, Everybody DEF PipeThread, WaitDone, AnswerWake, SlotStart, TestEnable, RunModule, Stamp,
     Finish, PipeEnter, PipeLeave, BNext
<1> QED BY <1>1, <1>2 DEF Next

-----------------------------------------------------------------------------

\* Types, for the steps of the kernel thread ...
LEMMA KernelTypes ==
  ASSUME KTypeOK, BTypeOK, KernelThread
  PROVE  KTypeOK'
<1> USE KernelAssumption DEF KTypeOK, Pipes, pvars, walk, shared, sync
<1>1. CASE TslotInc
  BY <1>1 DEF TslotInc
<1>2. CASE RtRead
  BY <1>2 DEF RtRead
<1>3. CASE RtAge
  <2>1. has_exec' \in [Pipes -> {0, 1, 2}]
    BY <1>3, Zenon DEF RtAge
  <2> QED BY <1>3, <2>1 DEF RtAge
<1>4. CASE RtLate
  BY <1>4 DEF RtLate
<1>5. CASE RtCorrect
  <2>1. enable' \in [Pipes -> {0, 1}]
    BY <1>5 DEF RtCorrect
  <2>2. kpc' \in {"timer", "barrier", "enable"}
    BY <1>5 DEF RtCorrect, AfterCycle
  <2> QED BY <1>5, <2>1, <2>2, Zenon DEF RtCorrect
<1>6. CASE Enable
  BY <1>6 DEF Enable
<1>7. CASE Wake
  BY <1>7 DEF Wake, AfterCycle
<1>8. CASE KernelEnter
  BY <1>8 DEF KernelEnter
<1>9. CASE KernelLeave
  BY <1>9 DEF KernelLeave
<1> QED BY <1>1, <1>2, <1>3, <1>4, <1>5, <1>6, <1>7, <1>8, <1>9, Zenon DEF KernelThread

\* ... and of a pipeline thread.
LEMMA PipeTypes ==
  ASSUME KTypeOK, BTypeOK, NEW p \in Pipes, PipeThread(p)
  PROVE  KTypeOK'
<1> USE DEF KTypeOK, kvars, walk, shared, sync, At
<1>1. CASE WaitDone(p)
  BY <1>1 DEF WaitDone
<1>2. CASE AnswerWake(p)
  BY <1>2 DEF AnswerWake
<1>3. CASE SlotStart(p)
  BY <1>3 DEF SlotStart
<1>4. CASE TestEnable(p)
  BY <1>4 DEF TestEnable
<1>5. CASE RunModule(p)
  BY <1>5 DEF RunModule
<1>6. CASE Stamp(p)
  BY <1>6 DEF Stamp
<1>7. CASE Finish(p)
  BY <1>7 DEF Finish
<1>8. CASE PipeEnter(p)
  BY <1>8 DEF PipeEnter
<1>9. CASE PipeLeave(p)
  BY <1>9 DEF PipeLeave
<1> QED BY <1>1, <1>2, <1>3, <1>4, <1>5, <1>6, <1>7, <1>8, <1>9, Zenon DEF PipeThread

-----------------------------------------------------------------------------

\* The steps of the kernel thread that do not touch the barrier keep SyncInv.
LEMMA KernelWorkKeeps ==
  ASSUME KTypeOK, BTypeOK, SyncInv, opt.sync_on_finish,
         TslotInc \/ RtRead \/ RtAge \/ RtLate \/ RtCorrect \/ Enable \/ Wake
  PROVE  SyncInv'
<1> USE Everybody DEF SyncInv, AsleepInv, CountInv, EnableInv, ControlInv, PipeInv, Awake, KTypeOK,
        BTypeOK, AfterCycle, kvars, walk, pvars, shared, sync, Pipes
<1>1. CASE TslotInc
  <2>1. opt' = opt /\ inside' = inside /\ Filling' = Filling /\ rounds' = rounds
    BY <1>1, SameBarrier, Zenon DEF TslotInc
  <2>2. (AsleepInv)'
    BY <1>1, <2>1, Zenon DEF TslotInc
  <2>3. (CountInv)'
    BY <1>1, <2>1 DEF TslotInc
  <2>4. (\A q \in Pipes : PipeInv(q))'
    BY <1>1, <2>1, Zenon DEF TslotInc
  <2>5. (EnableInv)'
    BY <1>1, <2>1, Zenon DEF TslotInc
  <2>6. (ControlInv)'
    BY <1>1, <2>1 DEF TslotInc
  <2> QED BY <2>2, <2>3, <2>4, <2>5, <2>6, Zenon DEF SyncInv
<1>2. CASE RtRead
  <2>1. opt' = opt /\ inside' = inside /\ Filling' = Filling /\ rounds' = rounds
    BY <1>2, SameBarrier, Zenon DEF RtRead
  <2>2. (AsleepInv)'
    BY <1>2, <2>1, Zenon DEF RtRead
  <2>3. (CountInv)'
    BY <1>2, <2>1, Zenon DEF RtRead
  <2>4. (\A q \in Pipes : PipeInv(q))'
    BY <1>2, <2>1, Zenon DEF RtRead
  <2>5. (EnableInv)'
    BY <1>2, <2>1 DEF RtRead
  <2>6. (ControlInv)'
    <3>1. ki \in Pipes /\ rounds \in Nat /\ ~Awake
      BY <1>2 DEF RtRead, Filling
    <3>2. rounds > 0 => finished[ki] = 1
      BY <3>1, Zenon
    <3>3. rounds = 0 => finished[ki] = 0
      BY <1>2, <3>1 DEF RtRead
    <3>4. kpc' = IF finished[ki] = 0 THEN "late" ELSE "age"
      BY <1>2, Zenon DEF RtRead
    <3>5. UNCHANGED <<ki, has_exec, finished, ppc>>
      BY <1>2, Zenon DEF RtRead
    <3> HIDE DEF Awake
    <3> QED BY <1>2, <2>1, <3>1, <3>2, <3>3, <3>4, <3>5, SMTT(30) DEF RtRead
  <2> QED BY <2>2, <2>3, <2>4, <2>5, <2>6, Zenon DEF SyncInv
<1>3. CASE RtAge
  <2>1. opt' = opt /\ inside' = inside /\ Filling' = Filling /\ rounds' = rounds
    BY <1>3, SameBarrier, Zenon DEF RtAge
  <2>2. (AsleepInv)'
    BY <1>3, <2>1, Zenon DEF RtAge
  <2>3. (CountInv)'
    BY <1>3, <2>1, Zenon DEF RtAge
  <2>4. (\A q \in Pipes : PipeInv(q))'
    BY <1>3, <2>1, Zenon DEF RtAge
  <2>5. (EnableInv)'
    BY <1>3, <2>1, Zenon DEF RtAge
  <2>6. (ControlInv)'
    BY <1>3, <2>1, SMTT(30) DEF RtAge
  <2> QED BY <2>2, <2>3, <2>4, <2>5, <2>6, Zenon DEF SyncInv
<1>4. CASE RtLate
  <2>1. opt' = opt /\ inside' = inside /\ Filling' = Filling /\ rounds' = rounds
    BY <1>4, SameBarrier, Zenon DEF RtLate
  <2>2. (AsleepInv)'
    BY <1>4, <2>1, Zenon DEF RtLate
  <2>3. (CountInv)'
    BY <1>4, <2>1, Zenon DEF RtLate
  <2>4. (\A q \in Pipes : PipeInv(q))'
    BY <1>4, <2>1, Zenon DEF RtLate
  <2>5. (EnableInv)'
    BY <1>4, <2>1, Zenon DEF RtLate
  <2>6. (ControlInv)'
    <3>1. rounds = 0 /\ ki \in Pipes
      BY <1>4 DEF RtLate
    <3>2. \A p \in Pipes : p < ki' => has_exec'[p] = 2
      BY <1>4, <3>1 DEF RtLate
    <3>3. \A p \in Pipes : ~(p < ki') => finished'[p] = 0
      BY <1>4, <3>1, SMTT(30) DEF RtLate
    <3>4. \A p \in Pipes : finished[p] = 1 => finished'[p] = 1
      BY <1>4, <3>1, Zenon DEF RtLate
    <3>5. kpc' = "read" /\ ppc' = ppc
      BY <1>4, Zenon DEF RtLate
    <3>6. (kpc' # "age") /\ (kpc' # "timer") /\ rounds' = 0
      BY <2>1, <3>1, <3>5, Zenon
    <3>7. \A p \in Pipes : ppc'[p] \in {"barrier", "asleep"} => finished'[p] = 1
      BY <3>4, <3>5, Zenon
    <3> QED BY <3>2, <3>3, <3>6, <3>7, SMTT(30)
  <2> QED BY <2>2, <2>3, <2>4, <2>5, <2>6, Zenon DEF SyncInv
<1>5. CASE RtCorrect
  <2>1. opt' = opt /\ inside' = inside /\ Filling' = Filling /\ rounds' = rounds
    BY <1>5, SameBarrier, Zenon DEF RtCorrect
  <2>0. kpc' = "enable" /\ kpc = "read" /\ UNCHANGED <<slot, timeslot>>
    <3>1. rounds = 0 => Late = Pipes
      BY <1>5 DEF RtCorrect, Late
    <3>2. rounds > 0 => Late = {}
      BY <1>5, Zenon DEF RtCorrect, Late
    <3> QED BY <1>5, <3>1, <3>2 DEF RtCorrect, SomeNotLate
  <2>2. (AsleepInv)'
    BY <1>5, <2>0, <2>1, Zenon DEF RtCorrect
  <2>3. (CountInv)'
    BY <1>5, <2>0, <2>1, Zenon DEF RtCorrect
  <2>4. (\A q \in Pipes : PipeInv(q))'
    BY <1>5, <2>0, <2>1, Zenon DEF RtCorrect
  <2>5. (EnableInv)'
    BY <1>5, <2>0, <2>1, Zenon DEF RtCorrect, Filling
  <2>6. (ControlInv)'
    BY <1>5, <2>0, <2>1, Zenon DEF RtCorrect
  <2> QED BY <2>2, <2>3, <2>4, <2>5, <2>6, Zenon DEF SyncInv
<1>6. CASE Enable
  <2>1. opt' = opt /\ inside' = inside /\ Filling' = Filling /\ rounds' = rounds
    BY <1>6, SameBarrier, Zenon DEF Enable
  <2>2. (AsleepInv)'
    BY <1>6, <2>1, Zenon DEF Enable
  <2>3. (CountInv)'
    BY <1>6, <2>1, Zenon DEF Enable
  <2>4. (\A q \in Pipes : PipeInv(q))'
    BY <1>6, <2>1, Zenon DEF Enable
  <2>5. (EnableInv)'
    BY <1>6, <2>1, Zenon DEF Enable
  <2>6. (ControlInv)'
    BY <1>6, <2>1, Zenon DEF Enable
  <2> QED BY <2>2, <2>3, <2>4, <2>5, <2>6, Zenon DEF SyncInv
<1>7. CASE Wake
  <2>1. opt' = opt /\ inside' = inside /\ Filling' = Filling /\ rounds' = rounds
    BY <1>7, SameBarrier, Zenon DEF Wake
  <2>2. (AsleepInv)'
    BY <1>7, <2>1, Zenon DEF Wake
  <2>3. (CountInv)'
    <3>1. kpc' = "barrier" /\ kpc = "wake" /\ slot' = slot /\ timeslot' = timeslot + 1
      BY <1>7, Zenon DEF Wake
    <3>2. Kernel \notin inside /\ Kernel \notin Filling
      BY <3>1, Zenon DEF Filling
    <3> QED BY <2>1, <3>1, <3>2
  <2>4. (\A q \in Pipes : PipeInv(q))'
    BY <1>7, <2>1, Zenon DEF Wake
  <2>5. (EnableInv)'
    BY <1>7, <2>1, Zenon DEF Wake
  <2>6. (ControlInv)'
    BY <1>7, <2>1, Zenon DEF Wake
  <2> QED BY <2>2, <2>3, <2>4, <2>5, <2>6, Zenon DEF SyncInv
<1> QED BY <1>1, <1>2, <1>3, <1>4, <1>5, <1>6, <1>7, Zenon

\* So do those of a pipeline thread.
LEMMA PipeWorkKeeps ==
  ASSUME KTypeOK, BTypeOK, SyncInv, opt.sync_on_finish, NEW p \in Pipes,
         \/ WaitDone(p) \/ AnswerWake(p) \/ SlotStart(p) \/ TestEnable(p) \/ RunModule(p)
         \/ Stamp(p) \/ Finish(p)
  PROVE  SyncInv'
<1> USE DEF SyncInv, AsleepInv, CountInv, EnableInv, ControlInv, PipeInv, Awake, KTypeOK,
        BTypeOK, At, kvars, walk, shared, sync
<1>1. CASE WaitDone(p)
  <2>1. opt' = opt /\ inside' = inside /\ Filling' = Filling /\ rounds' = rounds
    BY <1>1, SameBarrier, Zenon DEF WaitDone
  <2>2. (AsleepInv)'
    BY <1>1, <2>1, Zenon DEF WaitDone
  <2>3. (CountInv)'
    BY <1>1, <2>1, Zenon DEF WaitDone
  <2>4. (\A q \in Pipes : PipeInv(q))'
    BY <1>1, <2>1, SMTT(30) DEF WaitDone
  <2>5. (EnableInv)'
    BY <1>1, <2>1, Zenon DEF WaitDone
  <2>6. (ControlInv)'
    BY <1>1, <2>1, SMTT(30) DEF WaitDone
  <2> QED BY <2>2, <2>3, <2>4, <2>5, <2>6, Zenon DEF SyncInv
<1>2. CASE AnswerWake(p)
  <2>1. opt' = opt /\ inside' = inside /\ Filling' = Filling /\ rounds' = rounds
    BY <1>2, SameBarrier, Zenon DEF AnswerWake
  <2>2. (AsleepInv)'
    BY <1>2, <2>1, Zenon DEF AnswerWake
  <2>3. (CountInv)'
    BY <1>2, <2>1, Zenon DEF AnswerWake
  <2>4. (\A q \in Pipes : PipeInv(q))'
    BY <1>2, <2>1, SMTT(30) DEF AnswerWake
  <2>5. (EnableInv)'
    BY <1>2, <2>1, Zenon DEF AnswerWake
  <2>6. (ControlInv)'
    BY <1>2, <2>1, Zenon DEF AnswerWake
  <2> QED BY <2>2, <2>3, <2>4, <2>5, <2>6 DEF SyncInv
<1>3. CASE SlotStart(p)
  <2>1. opt' = opt /\ inside' = inside /\ Filling' = Filling /\ rounds' = rounds
    BY <1>3, SameBarrier, Zenon DEF SlotStart
  <2>2. (AsleepInv)'
    BY <1>3, <2>1, Zenon DEF SlotStart
  <2>3. (CountInv)'
    BY <1>3, <2>1, Zenon DEF SlotStart
  <2>4. (\A q \in Pipes : PipeInv(q))'
    BY <1>3, <2>1, SMTT(30) DEF SlotStart
  <2>5. (EnableInv)'
    BY <1>3, <2>1, Zenon DEF SlotStart
  <2>6. (ControlInv)'
    BY <1>3, <2>1, SMTT(30) DEF SlotStart
  <2> QED BY <2>2, <2>3, <2>4, <2>5, <2>6 DEF SyncInv
<1>4. CASE TestEnable(p)
  <2>1. opt' = opt /\ inside' = inside /\ Filling' = Filling /\ rounds' = rounds
    BY <1>4, SameBarrier, Zenon DEF TestEnable
  <2>2. (AsleepInv)'
    BY <1>4, <2>1, Zenon DEF TestEnable
  <2>3. (CountInv)'
    BY <1>4, <2>1, Zenon DEF TestEnable
  <2>4. (\A q \in Pipes : PipeInv(q))'
    BY <1>4, <2>1, SMTT(30) DEF TestEnable
  <2>5. (EnableInv)'
    BY <1>4, <2>1, Zenon DEF TestEnable
  <2>6. (ControlInv)'
    BY <1>4, <2>1, Zenon DEF TestEnable
  <2> QED BY <2>2, <2>3, <2>4, <2>5, <2>6 DEF SyncInv
<1>5. CASE RunModule(p)
  <2>1. opt' = opt /\ inside' = inside /\ Filling' = Filling /\ rounds' = rounds
    BY <1>5, SameBarrier, Zenon DEF RunModule
  <2>2. (AsleepInv)'
    BY <1>5, <2>1, Zenon DEF RunModule
  <2>3. (CountInv)'
    BY <1>5, <2>1, Zenon DEF RunModule
  <2>4. (\A q \in Pipes : PipeInv(q))'
    <3>1. ppc[p] = "run" /\ UNCHANGED <<kpc, timeslot_p>>
      BY <1>5, Zenon DEF RunModule
    <3>2. \/ ppc'[p] = "stamp" /\ runs'[p] = runs[p] + 1
          \/ ppc'[p] = "run" /\ runs'[p] = runs[p]
      BY <1>5, Zenon DEF RunModule
    <3>3. \A q \in Pipes : q # p => ppc'[q] = ppc[q] /\ runs'[q] = runs[q]
      BY <1>5, Zenon DEF RunModule
    <3>4. /\ Awake /\ timeslot_p[p] = rounds + 1 /\ runs[p] = rounds
          /\ Awake' /\ timeslot_p'[p] = rounds' + 1
      BY <2>1, <3>1, Zenon DEF Filling
    <3>5. PipeInv(p)'
      BY <2>1, <3>2, <3>4, Zenon
    <3>6. \A q \in Pipes : q # p => PipeInv(q)'
      BY <2>1, <3>1, <3>3
    <3> QED BY <3>5, <3>6, SMTT(30)
  <2>5. (EnableInv)'
    BY <1>5, <2>1, Zenon DEF RunModule
  <2>6. (ControlInv)'
    BY <1>5, <2>1, Zenon DEF RunModule
  <2> QED BY <2>2, <2>3, <2>4, <2>5, <2>6 DEF SyncInv
<1>6. CASE Stamp(p)
  <2>1. opt' = opt /\ inside' = inside /\ Filling' = Filling /\ rounds' = rounds
    BY <1>6, SameBarrier, Zenon DEF Stamp
  <2>2. (AsleepInv)'
    BY <1>6, <2>1, Zenon DEF Stamp
  <2>3. (CountInv)'
    BY <1>6, <2>1, Zenon DEF Stamp
  <2>4. (\A q \in Pipes : PipeInv(q))'
    BY <1>6, <2>1, SMTT(30) DEF Stamp
  <2>5. (EnableInv)'
    BY <1>6, <2>1, Zenon DEF Stamp
  <2>6. (ControlInv)'
    BY <1>6, <2>1, Zenon DEF Stamp
  <2> QED BY <2>2, <2>3, <2>4, <2>5, <2>6 DEF SyncInv
<1>7. CASE Finish(p)
  <2>1. opt' = opt /\ inside' = inside /\ Filling' = Filling /\ rounds' = rounds
    BY <1>7, SameBarrier, Zenon DEF Finish
  <2>2. (AsleepInv)'
    BY <1>7, <2>1, SMTT(30) DEF Finish
  <2>3. (CountInv)'
    BY <1>7, <2>1, Zenon DEF Finish
  <2>4. (\A q \in Pipes : PipeInv(q))'
    BY <1>7, <2>1, SMTT(30) DEF Finish
  <2>5. (EnableInv)'
    BY <1>7, <2>1, Zenon DEF Finish
  <2>6. (ControlInv)'
    <3>1. UNCHANGED <<kpc, ki, has_exec>> /\ Awake
      BY <1>7, Zenon DEF Finish
    <3>2. \A q \in Pipes : q # p => ppc'[q] = ppc[q] /\ finished'[q] = finished[q]
      BY <1>7, Zenon DEF Finish
    <3>3. finished'[p] = 1 /\ ppc'[p] = "barrier"
      BY <1>7, Zenon DEF Finish
    <3>4. kpc \in {"barrier", "asleep"}
      BY <3>1, Zenon DEF Filling
    <3> QED BY <2>1, <3>1, <3>2, <3>3, <3>4, SMTT(30)
  <2> QED BY <2>2, <2>3, <2>4, <2>5, <2>6 DEF SyncInv
<1> QED BY <1>1, <1>2, <1>3, <1>4, <1>5, <1>6, <1>7, Zenon

\* Entering the barrier to wait: the round goes on.
LEMMA EnterWaitsSync ==
  ASSUME KTypeOK, BTypeOK, SyncInv, opt.sync_on_finish,
         \/ KernelEnter /\ EnterWaits(Kernel)
         \/ \E p \in Pipes : PipeEnter(p) /\ EnterWaits(p)
  PROVE  SyncInv'
<1> USE Everybody DEF SyncInv, AsleepInv, CountInv, EnableInv, ControlInv, PipeInv, Awake, KTypeOK,
        BTypeOK, kvars, walk, pvars, shared, sync
<1>1. CASE KernelEnter /\ EnterWaits(Kernel)
  <2>1. /\ inside' = inside \union {Kernel} /\ Filling' = Filling \union {Kernel}
        /\ rounds' = rounds
    BY <1>1, WaitsEffect, Zenon
  <2>2. /\ kpc = "barrier" /\ kpc' = "asleep"
        /\ UNCHANGED <<slot, timeslot, timeslot_p, runs, ppc, finished, enable, ki, has_exec>>
    BY <1>1, <2>1, Zenon DEF KernelEnter
  <2>3. Kernel \notin inside
    BY <2>2, Zenon
  <2>4. AsleepInv'
    BY <2>1, <2>2, Zenon
  <2>5. CountInv'
    BY <2>1, <2>2, <2>3, Zenon
  <2>6. (\A q \in Pipes : PipeInv(q))'
    BY <2>1, <2>2, <2>3, SMTT(30)
  <2>7. EnableInv' /\ ControlInv'
    BY <2>1, <2>2, Zenon
  <2> QED BY <2>4, <2>5, <2>6, <2>7, Zenon
<1>2. ASSUME NEW p \in Pipes, PipeEnter(p), EnterWaits(p) PROVE SyncInv'
  <2>1. inside' = inside \union {p} /\ Filling' = Filling \union {p} /\ rounds' = rounds
    BY <1>2, WaitsEffect, Zenon
  <2>2. /\ ppc[p] = "barrier" /\ ppc' = [ppc EXCEPT ![p] = "asleep"]
        /\ UNCHANGED <<slot, timeslot, timeslot_p, runs, kpc, finished, enable, ki, has_exec>>
    BY <1>2, <2>1, Zenon DEF PipeEnter
  <2>3. p \notin inside /\ p # Kernel /\ Awake
    BY <2>2, Zenon
  <2>4. AsleepInv'
    BY <2>1, <2>2, <2>3, SMTT(30)
  <2>5. CountInv'
    BY <2>1, <2>2, <2>3, Zenon
  <2>6. (\A q \in Pipes : PipeInv(q))'
    BY <2>1, <2>2, <2>3, SMTT(30)
  <2>7. EnableInv'
    BY <2>1, <2>2, <2>3, Zenon
  <2>8. ControlInv'
    BY <2>1, <2>2, <2>3, SMTT(30)
  <2> QED BY <2>4, <2>5, <2>6, <2>7, <2>8, Zenon
<1> QED BY <1>1, <1>2, Zenon

\* The last one to enter: everybody else sleeps in this round, so all have executed the
\* slot, and the next round begins.
LEMMA EnterOpensSync ==
  ASSUME KTypeOK, BTypeOK, RoundInv, SyncInv, opt.sync_on_finish,
         \/ KernelEnter /\ EnterOpens(Kernel)
         \/ \E p \in Pipes : PipeEnter(p) /\ EnterOpens(p)
  PROVE  SyncInv'
<1> USE Everybody DEF SyncInv, AsleepInv, CountInv, EnableInv, ControlInv, PipeInv, Awake, KTypeOK,
        BTypeOK, kvars, walk, pvars, shared, sync
<1>1. CASE KernelEnter /\ EnterOpens(Kernel)
  <2>1. /\ Filling = Threads \ {Kernel} /\ inside = Threads \ {Kernel} /\ inside' = inside
        /\ Filling' = {} /\ rounds' = rounds + 1
    BY <1>1, OpensEffect, Zenon
  <2>2. /\ kpc = "barrier" /\ kpc' = "timer"
        /\ UNCHANGED <<slot, timeslot, timeslot_p, runs, ppc, finished, enable, ki, has_exec>>
    BY <1>1, <2>1, Zenon DEF KernelEnter
  <2>3. \A q \in Pipes : /\ q \in Filling /\ ppc[q] = "asleep" /\ finished[q] = 1
                         /\ timeslot_p[q] = rounds + 1 /\ runs[q] = rounds + 1
    BY <2>1, SMTT(30)
  <2>4. AsleepInv'
    BY <2>1, <2>2, Zenon
  <2>5. CountInv'
    <3>1. CountInv /\ rounds \in Nat
      BY Zenon
    <3>2. Kernel \notin inside /\ Kernel \notin inside' /\ Kernel \notin Filling'
      BY <2>1, Zenon
    <3> HIDE DEF SyncInv, AsleepInv, EnableInv, ControlInv, PipeInv, KTypeOK, BTypeOK
    <3> QED BY <2>1, <2>2, <3>1, <3>2
  <2>6. (\A q \in Pipes : PipeInv(q))'
    BY <2>1, <2>2, <2>3, Zenon
  <2>7. rounds' # 0 /\ kpc' = "timer" /\ \A q \in Pipes : finished'[q] = 1
    <3>1. rounds \in Nat
      BY Zenon
    <3> HIDE DEF SyncInv, AsleepInv, CountInv, EnableInv, ControlInv, PipeInv, KTypeOK, BTypeOK
    <3> QED BY <2>1, <2>2, <2>3, <3>1
  <2>8. ControlInv'
    <3> HIDE DEF SyncInv, AsleepInv, CountInv, EnableInv, PipeInv, KTypeOK, BTypeOK
    <3> QED BY <2>7, Zenon
  <2>9. EnableInv'
    BY <2>1, <2>2, Zenon
  <2> QED BY <2>4, <2>5, <2>6, <2>8, <2>9, Zenon
<1>2. ASSUME NEW p \in Pipes, PipeEnter(p), EnterOpens(p) PROVE SyncInv'
  <2>1. /\ Filling = Threads \ {p} /\ inside = Threads \ {p} /\ inside' = inside
        /\ Filling' = {} /\ rounds' = rounds + 1
    BY <1>2, OpensEffect, Zenon
  <2>2. /\ ppc[p] = "barrier" /\ ppc' = [ppc EXCEPT ![p] = "wait"]
        /\ UNCHANGED <<slot, timeslot, timeslot_p, runs, kpc, finished, enable, ki, has_exec>>
    BY <1>2, <2>1, Zenon DEF PipeEnter
  <2>3. kpc = "asleep" /\ Kernel \in Filling /\ Kernel \in inside' \ Filling'
    BY <2>1, SMTT(30)
  <2>4. \A q \in Pipes : /\ finished[q] = 1
                         /\ timeslot_p[q] = rounds + 1 /\ runs[q] = rounds + 1
    BY <2>1, <2>2, Zenon
  <2>5. AsleepInv'
    BY <2>1, <2>2, SMTT(30)
  <2>6. CountInv'
    BY <2>1, <2>2, <2>3, SMTT(30)
  <2>7. \A q \in Pipes : ppc'[q] = "wait" \/ q \in inside' \ Filling'
    BY <2>1, <2>2, SMTT(30)
  <2>8. (\A q \in Pipes : PipeInv(q))'
    BY <2>1, <2>2, <2>4, <2>7, Zenon
  <2>9. rounds' # 0 /\ kpc' = "asleep" /\ \A q \in Pipes : finished'[q] = 1
    BY <2>1, <2>2, <2>3, <2>4, SMTT(30)
  <2>10. ControlInv'
    <3> HIDE DEF SyncInv, AsleepInv, CountInv, EnableInv, PipeInv, KTypeOK, BTypeOK
    <3> QED BY <2>9, Zenon
  <2>11. EnableInv'
    BY <2>1, <2>2, <2>3, <2>4, Zenon
  <2> QED BY <2>5, <2>6, <2>8, <2>10, <2>11, Zenon
<1> QED BY <1>1, <1>2, Zenon

\* A sleeper of the round that has opened leaves.
LEMMA LeaveSync ==
  ASSUME KTypeOK, BTypeOK, RoundInv, SyncInv, opt.sync_on_finish,
         KernelLeave \/ \E p \in Pipes : PipeLeave(p)
  PROVE  SyncInv'
<1> USE Everybody DEF SyncInv, AsleepInv, CountInv, EnableInv, ControlInv, PipeInv, Awake, KTypeOK,
        BTypeOK, At, kvars, walk, pvars, shared, sync
<1>1. CASE KernelLeave
  <2>1. /\ inside' = inside \ {Kernel} /\ Filling' = Filling /\ rounds' = rounds
        /\ Kernel \in inside \ Filling
    BY <1>1, LeaveEffect, Zenon DEF KernelLeave
  <2>2. /\ kpc = "asleep" /\ kpc' = "timer"
        /\ UNCHANGED <<slot, timeslot, timeslot_p, runs, ppc, finished, enable, ki, has_exec>>
    BY <1>1, Zenon DEF KernelLeave
  <2>3. AsleepInv'
    BY <2>1, <2>2, Zenon
  <2>4. CountInv'
    BY <2>1, <2>2, Zenon
  <2>5. (\A q \in Pipes : PipeInv(q))'
    BY <2>1, <2>2, Zenon
  <2>6. EnableInv'
    BY <2>1, <2>2, Zenon
  <2>7. rounds # 0 /\ rounds > 0
    <3>1. rounds \in Nat /\ passed[Kernel] \in Nat
      BY Zenon
    <3> HIDE DEF SyncInv, AsleepInv, CountInv, EnableInv, ControlInv, PipeInv, KTypeOK, BTypeOK
    <3> QED BY <2>1, <3>1, SMTT(30) DEF RoundInv
  <2>8. ControlInv'
    <3>1. ControlInv /\ rounds' = rounds /\ rounds' # 0 /\ rounds' > 0
      BY <2>1, <2>7, Zenon
    <3> HIDE DEF SyncInv, AsleepInv, CountInv, EnableInv, PipeInv, KTypeOK, BTypeOK
    <3> QED BY <2>2, <2>7, <3>1, Zenon
  <2> QED BY <2>3, <2>4, <2>5, <2>6, <2>8, Zenon
<1>2. ASSUME NEW p \in Pipes, PipeLeave(p) PROVE SyncInv'
  <2>1. /\ inside' = inside \ {p} /\ Filling' = Filling /\ rounds' = rounds
        /\ p \in inside \ Filling
    BY <1>2, LeaveEffect, Zenon DEF PipeLeave
  <2>2. /\ ppc[p] = "asleep" /\ ppc' = [ppc EXCEPT ![p] = "wait"]
        /\ UNCHANGED <<slot, timeslot, timeslot_p, runs, kpc, finished, enable, ki, has_exec>>
    BY <1>2, Zenon DEF PipeLeave
  <2>3. AsleepInv'
    BY <2>1, <2>2, SMTT(30)
  <2>4. CountInv'
    BY <2>1, <2>2, Zenon
  <2>5. (\A q \in Pipes : PipeInv(q))'
    BY <2>1, <2>2, SMTT(30)
  <2>6. EnableInv' /\ ControlInv'
    BY <2>1, <2>2, SMTT(30)
  <2> QED BY <2>3, <2>4, <2>5, <2>6, Zenon
<1> QED BY <1>1, <1>2, Zenon

-----------------------------------------------------------------------------

\* The invariant holds when the threads have been created.
LEMMA KInit == Init => KInv
<1> SUFFICES ASSUME Init PROVE KInv
  OBVIOUS
<1>1. BTypeOK /\ RoundInv
  BY BarrierInit DEF Init
<1>2. KTypeOK
  BY KernelAssumption DEF Init, KTypeOK, Pipes
<1>3. inside = {} /\ Filling = {} /\ rounds = 0
  BY Zenon DEF Init, BInit, Filling
<1>4. SyncInv
  BY <1>3, SMTT(30) DEF Init, SyncInv, AsleepInv, CountInv, EnableInv, ControlInv, PipeInv, Awake
<1> QED BY <1>1, <1>2, <1>4 DEF KInv

\* Every step keeps the invariant.
LEMMA KNext == KInv /\ [Next]_vars => KInv'
<1> SUFFICES ASSUME KInv, [Next]_vars PROVE KInv'
  OBVIOUS
<1>1. CASE UNCHANGED vars
  <2>1. UNCHANGED <<opt, slot, kpc, ki, has_exec, ppc, runs, finished, enable, timeslot, timeslot_p>>
    BY <1>1 DEF vars, kvars, pvars, walk, shared, sync
  <2>2. UNCHANGED bvars
    BY <1>1 DEF vars
  <2>3. inside' = inside /\ Filling' = Filling /\ rounds' = rounds
    BY <2>2, SameBarrier
  <2>4. BTypeOK' /\ RoundInv'
    BY <2>2, BarrierNext DEF KInv
  <2>5. KTypeOK'
    BY <2>1, Zenon DEF KInv, KTypeOK
  <2>6. SyncInv => SyncInv'
    BY <2>1, <2>3, Zenon DEF SyncInv, AsleepInv, CountInv, EnableInv, ControlInv, PipeInv, Awake
  <2> QED BY <2>1, <2>4, <2>5, <2>6 DEF KInv
<1>2. CASE Next
  <2>1. BTypeOK' /\ RoundInv'
    BY <1>2, BarrierStep, BarrierNext DEF KInv
  <2>2. KTypeOK'
    BY <1>2, KernelTypes, PipeTypes DEF KInv, Next
  <2>3. opt' = opt
    <3>1. CASE KernelThread
      BY <3>1, Zenon DEF KernelThread, TslotInc, RtRead, RtAge, RtLate, RtCorrect, Enable, Wake,
         KernelEnter, KernelLeave
    <3>2. CASE \E p \in Pipes : PipeThread(p)
      BY <3>2, Zenon DEF PipeThread, WaitDone, AnswerWake, SlotStart, TestEnable, RunModule, Stamp,
         Finish, PipeEnter, PipeLeave
    <3> QED BY <1>2, <3>1, <3>2, SMTT(30) DEF Next
  <2>4. ASSUME opt.sync_on_finish, SyncInv PROVE SyncInv'
    <3>1. CASE KernelThread
      <4>1. CASE KernelEnter
        BY <2>4, <4>1, EnterWaitsSync, EnterOpensSync, Zenon DEF KInv, KernelEnter, Enter
      <4> QED BY <2>4, <3>1, <4>1, KernelWorkKeeps, LeaveSync DEF KInv, KernelThread
    <3>2. ASSUME NEW p \in Pipes, PipeThread(p) PROVE SyncInv'
      <4>1. CASE PipeEnter(p)
        BY <2>4, <4>1, EnterWaitsSync, EnterOpensSync, Zenon DEF KInv, PipeEnter, Enter
      <4> QED BY <2>4, <3>2, <4>1, PipeWorkKeeps, LeaveSync, Zenon DEF KInv, PipeThread
    <3> QED BY <1>2, <3>1, <3>2 DEF Next
  <2> QED BY <2>1, <2>2, <2>3, <2>4 DEF KInv
<1> QED BY <1>1, <1>2

\* The pipelines and the kernel keep step as KInv says.
THEOREM KernelInvariance == Spec => []KInv
BY KInit, KNext, PTL DEF Spec

\* With thread_sync_on_finish every pipeline has executed every slot exactly once
\* whenever the kernel thread waits for its timer, whatever rt_control is told to
\* correct and to kill: the corrections that skip the wake-up of a slot are never taken.
THEOREM SlotsAreExecutedOnce == Spec => []Lockstep
<1>1. KInv => Lockstep
  <2> SUFFICES ASSUME KInv, opt.sync_on_finish, kpc = "timer", NEW p \in Pipes
               PROVE  runs[p] = slot
    BY DEF Lockstep
  <2>1. Kernel \notin inside /\ Kernel \notin Filling
    BY Zenon DEF KInv, SyncInv, AsleepInv, Filling
  <2>2. ~Awake
    BY <2>1 DEF Awake
  <2> QED BY <2>1, <2>2 DEF KInv, SyncInv, CountInv, PipeInv, KTypeOK, BTypeOK
<1> QED BY <1>1, KernelInvariance, PTL

\* The kernel and the pipelines use the start barrier as barrier_wait expects, so what
\* BarrierSeparates says of the barrier holds of them: nobody leaves a slot's barrier
\* before everybody has reached it.
THEOREM SlotsAreSeparated == Spec => []NobodyPassesEarly
<1>1. Init => BInit
  BY DEF Init
<1>2. [Next]_vars => [BNext]_bvars
  BY BarrierStep DEF vars
<1>3. Spec => BSpec
  BY <1>1, <1>2, PTL DEF Spec, BSpec
<1> QED BY <1>3, BarrierSeparates, PTL
=============================================================================
