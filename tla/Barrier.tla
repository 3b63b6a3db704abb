------------------------------ MODULE Barrier ------------------------------
(***************************************************************************)
(* The start barrier (rtdal_lnx/src/barrier.c) at which the kernel thread   *)
(* and the pipeline threads meet at the end of every time slot when         *)
(* thread_sync_on_finish is set.  barrier_wait holds the mutex except while *)
(* it sleeps on the condition variable, so it is two steps: entering, and,  *)
(* for all but the last thread, leaving after the wake-up.  The same        *)
(* barrier is used again at once, with only one bit (cycle) to tell a       *)
(* sleeper of the old round from one of the new.                            *)
(***************************************************************************)
EXTENDS Integers, FiniteSets

CONSTANTS
  Threads,    \* the threads that meet
  MaxRounds   \* bound: how often a thread enters

ASSUME BarrierAssumption ==
  /\ IsFiniteSet(Threads) /\ Threads # {}
  /\ MaxRounds \in Nat

VARIABLES
  counter,   \* barrier->counter: members still missing
  cycle,     \* barrier->cycle
  mycycle,   \* the cycle a thread remembered when it entered
  inside,    \* threads asleep on the condition variable, or about to wake
  entered,   \* history: barrier_wait calls begun by each thread
  passed,    \* history: barrier_wait calls each thread has returned from
  rounds     \* history: times the barrier has opened

bvars == <<counter, cycle, mycycle, inside, entered, passed, rounds>>

threshold == Cardinality(Threads)

(* barrier_init *)
BInit ==
  /\ counter = threshold
  /\ cycle = 0
  /\ mycycle = [t \in Threads |-> 0]
  /\ inside = {}
  /\ entered = [t \in Threads |-> 0]
  /\ passed = [t \in Threads |-> 0]
  /\ rounds = 0

\* A member that is not the last one goes to sleep.
EnterWaits(t) ==
  /\ t \notin inside
  /\ entered[t] < MaxRounds
  /\ counter > 1
  /\ counter' = counter - 1
  /\ mycycle' = [mycycle EXCEPT ![t] = cycle]
  /\ inside' = inside \union {t}
  /\ entered' = [entered EXCEPT ![t] = @ + 1]
  /\ UNCHANGED <<cycle, passed, rounds>>

\* The last member opens the barrier, rearms it and returns at once.
EnterOpens(t) ==
  /\ t \notin inside
  /\ entered[t] < MaxRounds
  /\ counter = 1
  /\ cycle' = 1 - cycle
  /\ counter' = threshold
  /\ entered' = [entered EXCEPT ![t] = @ + 1]
  /\ passed' = [passed EXCEPT ![t] = @ + 1]
  /\ rounds' = rounds + 1
  /\ UNCHANGED <<mycycle, inside>>

\* Faulty: a wake-up is believed without testing the cycle.
LeaveUnchecked(t) ==
  /\ t \in inside
  /\ inside' = inside \ {t}
  /\ passed' = [passed EXCEPT ![t] = @ + 1]
  /\ UNCHANGED <<counter, cycle, mycycle, entered, rounds>>

\* A woken member sees that the cycle has changed and returns.
Leave(t) ==
  /\ t \in inside
  /\ mycycle[t] # cycle
  /\ inside' = inside \ {t}
  /\ passed' = [passed EXCEPT ![t] = @ + 1]
  /\ UNCHANGED <<counter, cycle, mycycle, entered, rounds>>

Enter(t) == EnterWaits(t) \/ EnterOpens(t)

BNext == \E t \in Threads : Enter(t) \/ Leave(t)

BSpec == BInit /\ [][BNext]_bvars

-----------------------------------------------------------------------------
BTypeOK ==
  /\ counter \in 1 .. threshold
  /\ cycle \in {0, 1}
  /\ mycycle \in [Threads -> {0, 1}]
  /\ inside \subseteq Threads
  /\ entered \in [Threads -> Nat]
  /\ passed \in [Threads -> Nat]
  /\ rounds \in Nat

\* Nobody returns from its k-th barrier_wait before everybody has made its
\* k-th call, however late a woken sleeper is scheduled and although the next
\* round may start filling while the last one is still draining.
NobodyPassesEarly == \A t, u \in Threads : passed[t] <= entered[u]

\* Sleepers of the round that is filling; the other threads inside have been
\* woken but have not run yet.
Filling == {t \in inside : mycycle[t] = cycle}

\* Why one bit is enough: a thread inside with the old bit belongs to the round
\* just opened and to no earlier one, since without it no later round could
\* have opened; and the counter counts the sleepers of the current round only.
RoundInv ==
  /\ counter = threshold - Cardinality(Filling)
  /\ \A t \in Threads :
       \/ t \notin inside /\ entered[t] = rounds /\ passed[t] = rounds
       \/ t \in Filling /\ entered[t] = rounds + 1 /\ passed[t] = rounds
       \/ t \in inside \ Filling /\ entered[t] = rounds /\ passed[t] = rounds - 1
=============================================================================
