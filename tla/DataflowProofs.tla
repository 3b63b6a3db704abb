-------------------------- MODULE DataflowProofs ---------------------------
(***************************************************************************)
(* Punctual and OneModePerPacket for every waveform and every placement:    *)
(* the runs of two modules, counted without the one of the slot at hand,    *)
(* drift apart by at most one for each command inside a slot; if there is   *)
(* no such command, the slot of a run is known, and with it the mode.  For  *)
(* a link, k is the part of the drift that its reader has been ahead.       *)
(***************************************************************************)
EXTENDS Dataflow, TLAPS

Fresh == {"parsed", "refused", "loaded", "init", "failed", "ready"}

\* Runs of module m before this slot.
Base(m) == tstamp[m] - (IF phase \in {"run", "error"} /\ m \in ran THEN 1 ELSE 0)

Unread(l) == l.ctrl /\ l.to \notin ctrl_in

\* The drift between the two ends of a link, and the packets in it.
Drift(l, k) ==
    /\ Base(l.to) - Base(l.from) <= k
    /\ Base(l.from) - Base(l.to) <= skew - k
    /\ Ordered(l) => \A t \in queue[l] : Unread(l) \/ tstamp[l.to] < t + Delay(l) + k

Typed ==
    /\ \E x \in Loads : wf = x.wf /\ plat = x.plat
    /\ place \in Placement(wf) \cup {Refused}
    /\ phase \notin {"parsed", "refused"} => place \in Placement(wf)
    /\ phase = "parsed" => place = Refused
    /\ ran \subseteq Mods /\ tstamp \in [Mods -> Nat]
    /\ queue \in [Links -> SUBSET Nat] /\ got \in [Links -> Nat]
    /\ skew \in Nat

Quiet ==
    phase \in Fresh =>
        /\ ran = {} /\ skew = 0 /\ tstamp = [m \in Mods |-> 0]
        /\ \A l \in Links : queue[l] = {} /\ got[l] = 0

Flow ==
    phase \notin {"parsed", "refused"} =>
        /\ Closed(ran)
        /\ \A l \in Links :
              /\ \E k \in 0 .. skew : Drift(l, k)
              /\ \A t \in queue[l] : t <= tstamp[l.from]
              /\ (Ordered(l) /\ got[l] # 0) =>
                    tstamp[l.to] \in got[l] + Delay(l) .. got[l] + Delay(l) + skew

Inv == Typed /\ Quiet /\ Flow

\* Run k of any module is in slot s + k.
InStep(s) == \A m \in Mods : Base(m) = slot - 1 - s

\* The modes of the runs, and of the next one, if those of the slots from at on are new.
Switched(s, at) ==
    \A m \in Mods :
        /\ \A k \in 1 .. tstamp[m] : used[m][k] = IF s + k >= at + place.stage[m] THEN 1 ELSE 0
        /\ \/ mode[m] = [cur |-> 0, next |-> 1, at |-> at + place.stage[m]]
              /\ s + tstamp[m] < at + place.stage[m]
           \/ mode[m] = [cur |-> 1, next |-> 1, at |-> 0]
              /\ s + tstamp[m] >= at + place.stage[m]

\* With one mode command, if the modules started together and were not paused since.
OneSwitch ==
    \E s \in Int : InStep(s) /\ (modes = 1 => \E at \in Nat \ {0} : Switched(s, at))

ModeTypes ==
    /\ turns \in Nat /\ modes \in Nat /\ slot \in Nat \ {0}
    /\ used \in [Mods -> Seq(Nat)] /\ \A m \in Mods : Len(used[m]) = tstamp[m]
    /\ mode \in [Mods -> [cur : Nat, next : Nat, at : Nat]]
    /\ \A l \in Links : got[l] <= tstamp[l.from]

ModeInv ==
    /\ ModeTypes
    /\ phase \in Fresh => turns = 0 /\ modes = 0
    /\ phase \notin Fresh => turns > 0
    /\ phase = "paused" => turns > 1
    /\ modes = 0 => \A m \in Mods : /\ mode[m] = [cur |-> 0, next |-> 0, at |-> 0]
                                    /\ \A k \in 1 .. tstamp[m] : used[m][k] = 0
    /\ skew = 0 /\ turns = 1 => OneSwitch

-----------------------------------------------------------------------------
\* What the assumptions on the constants say of the waveform at hand.
LEMMA LinkTypes ==
    ASSUME Typed
    PROVE  /\ wf.n \in Nat
           /\ \A l \in Links : l.from \in Mods /\ l.to \in Mods /\ l.delay \in Nat \cup {-1}
<1>1. /\ wf.n \in Nat /\ wf.ctrl \in 0 .. wf.n
      /\ \A l \in wf.links : l.from \in Mods /\ l.to \in Mods /\ l.delay \in Nat \cup {-1}
  BY LoadsAssumption DEF Typed, Mods
<1>2. Mods = 1 .. wf.n  BY DEF Mods, Modules
<1>3. ASSUME NEW l \in Links, l \notin wf.links
      PROVE  l.from \in Mods /\ l.to \in Mods /\ l.delay \in Nat \cup {-1}
  <2>1. PICK m \in wf.ctrl + 1 .. wf.n :
           wf.ctrl # 0 /\ l = [from |-> wf.ctrl, to |-> m, delay |-> 1, ctrl |-> TRUE]
    BY <1>3 DEF Links, AllLinks
  <2>2. wf.ctrl \in Mods /\ m \in Mods  BY <1>1, <1>2, <2>1
  <2>. QED  BY <2>1, <2>2
<1>. QED  BY <1>1, <1>3

\* The delay of a link is a number of slots.
LEMMA DelayType ==
    ASSUME Typed, place \in Placement(wf), NEW l \in Links
    PROVE  Delay(l) \in Nat
<1>1. l.from \in Mods /\ l.to \in Mods /\ l.delay \in Nat \cup {-1}  BY LinkTypes
<1>2. place.stage[l.from] \in Nat /\ place.stage[l.to] \in Nat
  BY <1>1 DEF Placement, Mods
<1>. QED  BY <1>1, <1>2 DEF Delay

\* Initially nothing has run.
LEMMA InitInv == Init => Inv
<1>. SUFFICES ASSUME NEW x \in Loads, Loading(x) PROVE Inv  BY DEF Init
<1>1. Typed  BY DEF Loading, Typed, Refused
<1>2. Quiet  BY DEF Loading, Quiet
<1>3. Flow   BY DEF Loading, Flow
<1>. QED  BY <1>1, <1>2, <1>3 DEF Inv

\* Before the first RUN there is no drift and no packet.
LEMMA QuietFlow == Typed /\ Quiet /\ phase \in Fresh => Flow
<1>. SUFFICES ASSUME Typed, Quiet, phase \in Fresh PROVE Flow  OBVIOUS
<1>1. Closed(ran)  BY DEF Quiet, Closed
<1>2. ASSUME NEW l \in Links
      PROVE  /\ \E k \in 0 .. skew : Drift(l, k)
             /\ \A t \in queue[l] : t <= tstamp[l.from]
             /\ got[l] = 0
  <2>1. l.from \in Mods /\ l.to \in Mods  BY LinkTypes
  <2>2. Base(l.to) = 0 /\ Base(l.from) = 0 /\ skew = 0 /\ queue[l] = {} /\ got[l] = 0
    BY <2>1 DEF Quiet, Base, Fresh
  <2>3. Drift(l, 0)  BY <2>2 DEF Drift
  <2>. QED  BY <2>2, <2>3
<1>. QED  BY <1>1, <1>2 DEF Flow

\* Loading, and every step of the init thread, leaves the modules at rest.
LEMMA LoadInv == Inv /\ (Load \/ StartInit \/ InitStep) => Inv'
<1>. SUFFICES ASSUME Inv, Load \/ StartInit \/ InitStep PROVE Inv'  OBVIOUS
<1>. USE DEF Inv
<1>1. /\ phase \in Fresh /\ phase' \in Fresh
      /\ UNCHANGED <<wf, plat, ran, tstamp, queue, got, skew>>
  BY SMTT(30) DEF Load, StartInit, InitStep, Fresh, load, flow
<1>2. Typed'
  <2>1. CASE Load
    <3>1. place' \in Placement(wf) \cup {Refused}
      BY <2>1, MapperAssumption DEF Load, Typed
    <3>2. phase' # "refused" => place' \in Placement(wf)
      BY <2>1, <3>1 DEF Load, Refused
    <3>3. phase' # "parsed"  BY <2>1 DEF Load
    <3>. QED  BY <1>1, <3>1, <3>2, <3>3 DEF Typed, Mods, Links
  <2>2. CASE StartInit \/ InitStep
    BY <1>1, <2>2, SMTT(30) DEF StartInit, InitStep, load, Typed, Mods, Links
  <2>. QED  BY <2>1, <2>2
<1>3. Quiet'  BY <1>1 DEF Quiet, Mods, Links
<1>4. (phase \in Fresh)'  BY <1>1, SMTT(30) DEF Fresh
<1>5. Flow'  BY <1>2, <1>3, <1>4, QuietFlow, PTL
<1>. QED  BY <1>2, <1>3, <1>5

\* A command that falls inside the slot moves two modules apart by at most one
\* run, and counts as one more; at a slot boundary it moves nobody.
LEMMA CommandInv ==
    Inv /\ ((\E R \in SUBSET Mods : Run(R)) \/ Pause \/ EndSlot) => Inv'
<1>. SUFFICES ASSUME Inv, (\E R \in SUBSET Mods : Run(R)) \/ Pause \/ EndSlot
              PROVE  Inv'
  OBVIOUS
<1>. USE DEF Inv
<1>1. /\ UNCHANGED <<wf, plat, place, ctrl_in, tstamp, queue, got>>
      /\ ran' \subseteq Mods /\ skew' \in Nat /\ skew' >= skew
      /\ phase \in {"ready", "run", "paused"} /\ phase' \in {"run", "paused"}
  BY SMTT(30) DEF Run, Pause, EndSlot, load, init, flow, Split, Typed
<1>2. Typed'  BY <1>1 DEF Typed, Mods, Links
<1>3. Quiet'  BY <1>1 DEF Quiet, Fresh
<1>4. Closed(ran)'
  <2>1. Closed(ran)  BY <1>1, SMTT(30) DEF Flow
  <2>. QED  BY <1>1, <2>1, SMTT(30) DEF Run, Pause, EndSlot, flow, Closed, Before, Mods
<1>5. ASSUME NEW l \in Links
      PROVE  /\ (\E k \in 0 .. skew : Drift(l, k))'
             /\ \A t \in queue[l] : t <= tstamp[l.from]
             /\ (Ordered(l) /\ got[l] # 0) =>
                   tstamp[l.to] \in got[l] + Delay(l) .. got[l] + Delay(l) + skew'
  <2>1. l.from \in Mods /\ l.to \in Mods  BY LinkTypes, SMTT(30)
  <2>2. Delay(l) \in Nat  BY <1>1, DelayType, SMTT(30) DEF Typed
  <2>3. PICK k \in 0 .. skew : Drift(l, k)  BY <1>1 DEF Flow
  <2>4. Ordered(l)' = Ordered(l) /\ Delay(l)' = Delay(l) /\ Unread(l)' = Unread(l)
    BY <1>1, SMTT(30) DEF Ordered, Delay, Before, Unread
  <2>5. tstamp[l.to] \in Nat /\ tstamp[l.from] \in Nat  BY <2>1 DEF Typed
  <2>6. ASSUME NEW j \in 0 .. skew', j >= k,
               (Base(l.to) - Base(l.from))' <= j, (Base(l.from) - Base(l.to))' <= skew' - j
        PROVE  (\E i \in 0 .. skew : Drift(l, i))'
    <3>1. ASSUME Ordered(l), NEW t \in queue[l], ~Unread(l)
          PROVE  tstamp[l.to] < t + Delay(l) + j
      <4>1. tstamp[l.to] < t + Delay(l) + k  BY <2>3, <3>1 DEF Drift
      <4>2. t \in Nat  BY DEF Typed
      <4>. QED  BY <2>2, <2>5, <2>6, <4>1, <4>2, <1>1 DEF Typed
    <3>2. Drift(l, j)'  BY <1>1, <2>4, <2>6, <3>1 DEF Drift
    <3>. QED  BY <3>2, <2>6
  <2>7. \E j \in 0 .. skew' :
            /\ j >= k
            /\ (Base(l.to) - Base(l.from))' <= j
            /\ (Base(l.from) - Base(l.to))' <= skew' - j
    <3>0. skew \in Nat /\ k \in Nat /\ k <= skew  BY <2>3 DEF Typed
    <3>1. CASE skew' = skew
      <4>1. (Base(l.to) - Base(l.from))' = Base(l.to) - Base(l.from)
        BY <1>1, <2>1, <2>5, <3>1, <3>0, SMTT(30) DEF Base, Run, Pause, EndSlot, Split, flow
      <4>2. (Base(l.from) - Base(l.to))' = Base(l.from) - Base(l.to)
        BY <1>1, <2>1, <2>5, <3>1, <3>0, SMTT(30) DEF Base, Run, Pause, EndSlot, Split, flow
      <4>. QED  BY <2>3, <3>1, <3>0, <4>1, <4>2, SMTT(30) DEF Drift
    <3>2. CASE skew' # skew
      <4>1. skew' = skew + 1  BY <3>2, <3>0 DEF Run, Pause, EndSlot, Split
      <4>2. /\ Base(l.to) \in Int /\ Base(l.from) \in Int
            /\ Base(l.to)' \in Int /\ Base(l.from)' \in Int
        BY <1>1, <2>5, SMTT(30) DEF Base
      <4>3. \/ (Base(l.to) - Base(l.from))' = Base(l.to) - Base(l.from)
            \/ (Base(l.to) - Base(l.from))' = Base(l.to) - Base(l.from) + 1
            \/ (Base(l.to) - Base(l.from))' = Base(l.to) - Base(l.from) - 1
        BY <1>1, <2>1, <2>5, <3>2, SMTT(30) DEF Base, Run, Pause, EndSlot, flow
      <4>4. Base(l.to) - Base(l.from) <= k /\ Base(l.from) - Base(l.to) <= skew - k
        BY <2>3 DEF Drift
      <4>5. k \in 0 .. skew' /\ k + 1 \in 0 .. skew'  BY <3>0, <4>1
      <4>. QED  BY <3>0, <4>1, <4>2, <4>3, <4>4, <4>5, SMTT(30)
    <3>. QED  BY <3>1, <3>2
  <2>8. (\E i \in 0 .. skew : Drift(l, i))'  BY <2>6, <2>7
  <2>9. \A t \in queue[l] : t <= tstamp[l.from]  BY <1>1 DEF Flow
  <2>10. (Ordered(l) /\ got[l] # 0) =>
            tstamp[l.to] \in got[l] + Delay(l) .. got[l] + Delay(l) + skew'
    <3>1. (Ordered(l) /\ got[l] # 0) =>
            tstamp[l.to] \in got[l] + Delay(l) .. got[l] + Delay(l) + skew
      BY <1>1, Zenon DEF Flow
    <3>2. got[l] \in Nat  BY SMTT(30) DEF Typed
    <3>. QED  BY <1>1, <2>2, <3>1, <3>2 DEF Typed
  <2>. QED  BY <2>8, <2>9, <2>10, SMTT(30)
<1>6. Flow'
  <2>1. Links' = Links /\ \A l : Ordered(l)' = Ordered(l) /\ Delay(l)' = Delay(l)
    BY <1>1, Zenon DEF Links, Ordered, Delay, Before
  <2>2. tstamp' = tstamp /\ queue' = queue /\ got' = got
    BY <1>1, Zenon
  <2>. QED  BY <1>4, <1>5, <2>1, <2>2, Zenon DEF Flow
<1>. QED  BY <1>2, <1>3, <1>6

\* Steps that leave the runs and the links alone.
LEMMA SameInv ==
    ASSUME Inv, phase' = phase \/ (phase = "run" /\ phase' = "error"),
           UNCHANGED <<wf, plat, place, ctrl_in, ran, tstamp, queue, got, skew>>
    PROVE  Inv'
<1>1. Typed'  BY DEF Inv, Typed, Mods, Links
<1>2. Quiet'  BY SMTT(30) DEF Inv, Quiet, Mods, Links, Fresh
<1>3. \A m : Base(m)' = Base(m)  BY DEF Base
<1>4. Closed(ran)' = Closed(ran)  BY DEF Closed, Mods, Before
<1>5. \A l : Ordered(l)' = Ordered(l) /\ Delay(l)' = Delay(l) /\ Unread(l)' = Unread(l)
  BY SMTT(30) DEF Ordered, Delay, Before, Unread
<1>6. \A l, k : Drift(l, k)' = Drift(l, k)  BY <1>3, <1>5, SMTT(30) DEF Drift
<1>7. Links' = Links  BY SMTT(30) DEF Links
<1>8. Flow'  BY <1>4, <1>5, <1>6, <1>7, Zenon DEF Inv, Flow
<1>. QED  BY <1>1, <1>2, <1>8 DEF Inv

\* Commands to change the mode and failing modules are such steps.
LEMMA OtherInv == Inv /\ (SetMode \/ (\E m \in Mods : Fault(m))) => Inv'
<1>. SUFFICES ASSUME Inv, SetMode \/ (\E m \in Mods : Fault(m)) PROVE Inv'  OBVIOUS
<1>1. /\ UNCHANGED <<wf, plat, place, ctrl_in, ran, tstamp, queue, got, skew>>
      /\ phase = "run" /\ phase' \in {"run", "error"}
  BY DEF SetMode, Fault, MayRun, load, init, flow
<1>. QED  BY <1>1, SameInv

\* A run reads the packet that is latest, and sends one the reader cannot
\* have missed yet.
LEMMA WorkInv == Inv /\ (\E m \in Mods, sends \in BOOLEAN : Work(m, sends)) => Inv'
<1>. SUFFICES ASSUME Inv, NEW m \in Mods, NEW sends \in BOOLEAN, Work(m, sends)
              PROVE  Inv'
  OBVIOUS
<1>. USE DEF Inv
<1>1. /\ UNCHANGED <<wf, plat, place, ctrl_in, phase, skew>>
      /\ phase = "run" /\ m \notin ran /\ ran' = ran \cup {m}
      /\ \A a \in Mods : Before(a, m) => a \in ran
      /\ tstamp' = [tstamp EXCEPT ![m] = @ + 1]
  BY Zenon DEF Work, MayRun, load, init
<1>2. /\ tstamp \in [Mods -> Nat] /\ tstamp' \in [Mods -> Nat]
      /\ tstamp'[m] = tstamp[m] + 1 /\ \A a \in Mods \ {m} : tstamp'[a] = tstamp[a]
      /\ Links' = Links /\ Mods' = Mods
  BY <1>1 DEF Typed, Links, Mods
<1>3. \A l \in Links :
        /\ Taken(l) \subseteq Due(l)
        /\ Due(l) \subseteq queue[l]
        /\ queue[l] \in SUBSET Nat
        /\ \A t \in Due(l) : t + Delay(l) <= tstamp[l.to] + 1
  BY DEF Taken, Due, Typed
<1>4. \A l \in Links :
        /\ queue'[l] = (IF l.to = m THEN queue[l] \ Taken(l) ELSE queue[l])
                       \cup (IF l.from = m /\ sends THEN {tstamp'[m]} ELSE {})
        /\ l.to # m => got'[l] = got[l]
        /\ l.to = m => got'[l] = 0 \/ got'[l] \in Taken(l)
  BY Zenon DEF Work
<1>5. Typed'
  <2>1. queue' \in [Links -> SUBSET Nat]
    <3>1. \A l \in Links : queue'[l] \in SUBSET Nat  BY <1>2, <1>3, <1>4
    <3>2. queue' = [l \in Links |-> queue'[l]]  BY Zenon DEF Work
    <3>. QED  BY <3>1, <3>2, Zenon
  <2>2. got' \in [Links -> Nat]
    <3>1. got \in [Links -> Nat]  BY DEF Typed
    <3>2. \A l \in Links : got'[l] \in Nat  BY <1>3, <1>4, <3>1
    <3>3. got' = [l \in Links |-> got'[l]]  BY DEF Work
    <3>. QED  BY <3>2, <3>3, Zenon
  <2>. QED  BY <1>1, <1>2, <2>1, <2>2, SMTT(30) DEF Typed
<1>6. Quiet'  BY <1>1, Zenon DEF Quiet, Fresh
<1>7. Closed(ran)'
  <2>1. Closed(ran)  BY <1>1, Zenon DEF Flow
  <2>. QED  BY <1>1, <1>2, <2>1, Zenon DEF Closed, Before
<1>8. \A a \in Mods : Base(a)' = Base(a)  BY <1>1, <1>2 DEF Base
<1>9. ASSUME NEW l \in Links
      PROVE  (/\ \E k \in 0 .. skew : Drift(l, k)
              /\ \A t \in queue[l] : t <= tstamp[l.from]
              /\ (Ordered(l) /\ got[l] # 0) =>
                    tstamp[l.to] \in got[l] + Delay(l) .. got[l] + Delay(l) + skew)'
  <2>1. l.from \in Mods /\ l.to \in Mods  BY LinkTypes
  <2>2. Delay(l) \in Nat  BY <1>1, DelayType DEF Typed
  <2>3. PICK k \in 0 .. skew : Drift(l, k)  BY <1>1, Zenon DEF Flow
  <2>4. Ordered(l)' = Ordered(l) /\ Delay(l)' = Delay(l) /\ Unread(l)' = Unread(l)
    BY <1>1, Zenon DEF Ordered, Delay, Before, Unread
  <2>5. skew \in Nat /\ k \in Nat /\ k <= skew  BY <2>3 DEF Typed
  <2>6. ASSUME Ordered(l), l.to = m, NEW t \in queue[l] \ Taken(l), ~Unread(l)
        PROVE  tstamp[m] + 1 < t + Delay(l) + k
    <3>1. \A u \in queue[l] : u \in Nat /\ tstamp[m] < u + Delay(l) + k
      BY <2>3, <2>6, <1>3, SMTT(30) DEF Drift
    <3>2. CASE t \notin Due(l)
      BY <3>1, <3>2, <2>2, <2>5, <2>6, <1>2, SMTT(30) DEF Due
    <3>3. CASE t \in Due(l)
      <4>1. PICK u \in Due(l) : ~(t <= u)  BY <3>3, <2>6 DEF Taken, Unread
      <4>2. u \in queue[l] /\ t \in queue[l]  BY <4>1, <1>3, <2>6
      <4>. QED  BY <3>1, <4>1, <4>2, <2>2, <2>5, <1>2
    <3>. QED  BY <3>2, <3>3
  <2>7. ASSUME Ordered(l), l.from = m
        PROVE  tstamp'[l.to] < tstamp'[m] + Delay(l) + k
    <3>1. Base(m) = tstamp[m]  BY <1>1 DEF Base, Typed
    <3>2. Base(l.to) - Base(m) <= k  BY <2>3, <2>7 DEF Drift
    <3>3. CASE l.to = m
      <4>0. m \in Nat  BY LinkTypes DEF Mods, Modules
      <4>1. Delay(l) >= 1  BY <2>7, <3>3, <4>0 DEF Ordered, Before
      <4>. QED  BY <4>1, <3>3, <1>2, <2>2, <2>5
    <3>4. CASE l.to # m /\ Delay(l) >= 1
      <4>1. tstamp[l.to] \in Nat /\ tstamp[m] \in Nat  BY <1>2, <2>1
      <4>2. tstamp[l.to] <= Base(l.to) + 1 /\ Base(l.to) \in Int  BY <4>1 DEF Base
      <4>. QED  BY <4>1, <4>2, <3>1, <3>2, <3>4, <1>2, <2>1, <2>2, <2>5
    <3>5. CASE l.to # m /\ Before(m, l.to)
      <4>1. l.to \notin ran  BY <1>1, <2>1, <3>5, Zenon DEF Flow, Closed
      <4>2. Base(l.to) = tstamp[l.to]  BY <4>1, <2>1, <1>2, SMTT(30) DEF Base
      <4>. QED  BY <4>2, <3>1, <3>2, <3>5, <1>2, <2>1, <2>2, <2>5
    <3>. QED  BY <3>3, <3>4, <3>5, <2>7 DEF Ordered
  <2>8. ASSUME Ordered(l), NEW t \in queue'[l], ~Unread(l)
        PROVE  tstamp'[l.to] < t + Delay(l) + k
    <3>1. CASE l.from = m /\ t = tstamp'[m]  BY <3>1, <2>7, <2>8
    <3>2. CASE l.to = m /\ t \in queue[l] \ Taken(l)  BY <3>2, <2>6, <2>8, <1>2, Zenon
    <3>3. CASE l.to # m /\ t \in queue[l]
      BY <3>3, <2>3, <2>8, <1>2, <2>1, Zenon DEF Drift
    <3>. QED  BY <3>1, <3>2, <3>3, <2>8, <1>4, Zenon
  <2>9. Drift(l, k)'  BY <2>1, <2>3, <2>4, <2>8, <1>1, <1>8, Zenon DEF Drift
  <2>10. \A t \in queue'[l] : t <= tstamp'[l.from]
    <3>1. \A t \in queue[l] : t \in Nat /\ t <= tstamp[l.from]  BY <1>1, <1>3, Zenon DEF Flow
    <3>. QED  BY <3>1, <1>2, <1>4, <2>1
  <2>11. ASSUME Ordered(l), got'[l] # 0
         PROVE  tstamp'[l.to] \in got'[l] + Delay(l) .. got'[l] + Delay(l) + skew
    <3>1. CASE l.to # m
      BY <3>1, <2>11, <1>1, <1>2, <1>4, <2>1, Zenon DEF Flow
    <3>2. CASE l.to = m
      <4>1. got'[l] \in Taken(l)  BY <3>2, <2>11, <1>4
      <4>2. got'[l] \in Due(l) /\ got'[l] \in queue[l] /\ got'[l] \in Nat  BY <4>1, <1>3, SMTT(30)
      <4>3. ~Unread(l)  BY <4>1 DEF Taken, Unread
      <4>4. tstamp[m] < got'[l] + Delay(l) + k  BY <2>3, <2>11, <3>2, <4>2, <4>3, Zenon DEF Drift
      <4>5. got'[l] + Delay(l) <= tstamp[m] + 1  BY <3>2, <4>2, <1>3, SMTT(30)
      <4>. QED  BY <3>2, <4>2, <4>4, <4>5, <1>2, <2>2, <2>5
    <3>. QED  BY <3>1, <3>2, Zenon
  <2>. QED  BY <2>3, <2>4, <2>9, <2>10, <2>11, <1>1, Zenon
<1>10. Flow'  BY <1>2, <1>7, <1>9, Zenon DEF Flow
<1>. QED  BY <1>5, <1>6, <1>10

\* Every step keeps the invariant.
LEMMA NextInv == Inv /\ [Next]_vars => Inv'
<1>. SUFFICES ASSUME Inv, [Next]_vars PROVE Inv'  OBVIOUS
<1>1. CASE UNCHANGED vars
  <2>1. UNCHANGED <<wf, plat, place, phase, ctrl_in, ran, tstamp, queue, got, skew>>
    BY <1>1 DEF vars, load, init, flow
  <2>. QED  BY <2>1, SameInv
<1>. QED  BY <1>1, LoadInv, CommandInv, OtherInv, WorkInv DEF Next

\* The invariant holds in every state of the system: the rings between the modules hold
\* what their reader has still to read, and nobody runs before the load has ended.
THEOREM Invariance == Spec => []Inv
BY InitInv, NextInv, PTL DEF Spec

\* Whatever the order in which the processors run the modules of a slot, a
\* packet is read the delay of its link after it was sent, and later only by
\* one run for each RUN or PAUSE command inside a slot (rtdal_itfspscq_pop,
\* _run_cycle, generate_model_stages).
THEOREM PacketsArePunctual == Spec => []Punctual
<1>1. Inv => Punctual
  <2>. SUFFICES ASSUME Inv, place.ok, NEW l \in Links, Ordered(l)
                PROVE  /\ \A t \in queue[l] : Unread(l) \/ tstamp[l.to] < t + Delay(l) + skew
                       /\ got[l] # 0 => tstamp[l.to] \in got[l] + Delay(l)
                                                         .. got[l] + Delay(l) + skew
    BY SMTT(30) DEF Punctual, Unread
  <2>1. place \in Placement(wf)  BY DEF Inv, Typed, Refused
  <2>2. CASE phase \in Fresh  BY <2>2 DEF Inv, Quiet
  <2>3. CASE phase \notin Fresh
    <3>1. PICK k \in 0 .. skew : Drift(l, k)  BY <2>3 DEF Inv, Flow, Fresh
    <3>2. Delay(l) \in Nat  BY <2>1, DelayType DEF Inv
    <3>3. l.to \in Mods  BY LinkTypes DEF Inv
    <3>4. queue[l] \in SUBSET Nat /\ skew \in Nat /\ tstamp[l.to] \in Nat
      BY <3>3 DEF Inv, Typed
    <3>5. \A t \in queue[l] : Unread(l) \/ tstamp[l.to] < t + Delay(l) + skew
      BY <3>1, <3>2, <3>4 DEF Drift
    <3>. QED  BY <2>3, <3>5, Zenon DEF Inv, Flow, Fresh
  <2>. QED  BY <2>2, <2>3, Zenon
<1>. QED  BY <1>1, Invariance, PTL

-----------------------------------------------------------------------------
\* The stages of the modules are numbers.
LEMMA StageType ==
    ASSUME Typed, phase \notin {"parsed", "refused"}
    PROVE  \A m \in Mods : place.stage[m] \in Nat
BY DEF Typed, Placement, Mods

\* A run, at module m: its number is the next one, and the mode it uses joins the others.
LEMMA RunFacts ==
    ASSUME Inv, ModeTypes, NEW m \in Mods, NEW sends \in BOOLEAN, Work(m, sends)
    PROVE  /\ UNCHANGED <<wf, place, phase, slot, turns, skew, modes>> /\ phase = "run"
           /\ Mods' = Mods /\ Links' = Links
           /\ tstamp[m] \in Nat /\ Base(m) = tstamp[m]
           /\ tstamp'[m] = tstamp[m] + 1 /\ \A a \in Mods \ {m} : tstamp'[a] = tstamp[a]
           /\ mode'[m] = ModeOf(m) /\ \A a \in Mods \ {m} : mode'[a] = mode[a]
           /\ used'[m] = Append(used[m], ModeOf(m).cur) /\ \A a \in Mods \ {m} : used'[a] = used[a]
           /\ \A a \in Mods : Base(a)' = Base(a)
           /\ ModeOf(m) \in [cur : Nat, next : Nat, at : Nat]
<1>1. /\ UNCHANGED <<wf, place, phase, slot, turns, skew, modes>> /\ phase = "run"
      /\ m \notin ran /\ ran' = ran \cup {m} /\ Mods' = Mods /\ Links' = Links
  BY Zenon DEF Work, MayRun, load, Mods, Links
<1>2. /\ tstamp \in [Mods -> Nat] /\ tstamp' = [tstamp EXCEPT ![m] = @ + 1]
      /\ mode \in [Mods -> [cur : Nat, next : Nat, at : Nat]]
      /\ mode' = [mode EXCEPT ![m] = ModeOf(m)]
      /\ used \in [Mods -> Seq(Nat)] /\ used' = [used EXCEPT ![m] = Append(@, mode'[m].cur)]
  BY Zenon DEF Work, Inv, Typed, ModeTypes
<1>3. ModeOf(m) \in [cur : Nat, next : Nat, at : Nat]
  <2>1. mode[m] \in [cur : Nat, next : Nat, at : Nat]  BY <1>2
  <2>. QED  BY <2>1 DEF ModeOf
<1>4. mode'[m] = ModeOf(m) /\ \A a \in Mods \ {m} : mode'[a] = mode[a]  BY <1>2
<1>5. used'[m] = Append(used[m], ModeOf(m).cur) /\ \A a \in Mods \ {m} : used'[a] = used[a]
  BY <1>2, <1>4
<1>6. /\ tstamp[m] \in Nat /\ tstamp'[m] = tstamp[m] + 1
      /\ \A a \in Mods \ {m} : tstamp'[a] = tstamp[a] /\ tstamp[a] \in Nat
  BY <1>2
<1>7. Base(m) = tstamp[m] /\ \A a \in Mods : Base(a)' = Base(a)
  BY <1>1, <1>6 DEF Base
<1>. QED  BY <1>1, <1>3, <1>4, <1>5, <1>6, <1>7, Zenon

\* The types after a run.
LEMMA RunTypes ==
    ASSUME Inv, ModeTypes, NEW m \in Mods, NEW sends \in BOOLEAN, Work(m, sends)
    PROVE  /\ ModeTypes'
           /\ \A k \in 1 .. tstamp[m] : used'[m][k] = used[m][k]
           /\ used'[m][tstamp'[m]] = ModeOf(m).cur
<1>1. /\ used[m] \in Seq(Nat) /\ Len(used[m]) = tstamp[m] /\ ModeOf(m).cur \in Nat
      /\ tstamp[m] \in Nat
  BY RunFacts, Zenon DEF ModeTypes
<1>2. /\ used'[m] \in Seq(Nat) /\ Len(used'[m]) = tstamp[m] + 1
      /\ \A k \in 1 .. tstamp[m] : used'[m][k] = used[m][k]
      /\ used'[m][tstamp[m] + 1] = ModeOf(m).cur
  <2>1. used'[m] = Append(used[m], ModeOf(m).cur)  BY RunFacts, Zenon
  <2>2. \A f \in Seq(Nat), c \in Nat :
           /\ Append(f, c) \in Seq(Nat) /\ Len(Append(f, c)) = Len(f) + 1
           /\ \A k \in 1 .. Len(f) : Append(f, c)[k] = f[k]
           /\ Append(f, c)[Len(f) + 1] = c
    OBVIOUS
  <2>. QED  BY <1>1, <2>1, <2>2, SMTT(30)
<1>3. used' \in [Mods -> Seq(Nat)] /\ \A a \in Mods : Len(used'[a]) = tstamp'[a]
  <2>1. used' = [used EXCEPT ![m] = used'[m]]  BY RunFacts, Zenon DEF Work, ModeTypes
  <2>2. ASSUME NEW a \in Mods PROVE used'[a] \in Seq(Nat) /\ Len(used'[a]) = tstamp'[a]
    <3>1. CASE a = m
      <4>1. tstamp'[m] = tstamp[m] + 1  BY RunFacts, Zenon
      <4>. QED  BY <1>2, <3>1, <4>1, Zenon
    <3>2. CASE a # m
      <4>1. used'[a] = used[a] /\ tstamp'[a] = tstamp[a]  BY <3>2, RunFacts, Zenon
      <4>. QED  BY <4>1, Zenon DEF ModeTypes
    <3>. QED  BY <3>1, <3>2
  <2>3. used \in [Mods -> Seq(Nat)]  BY Zenon DEF ModeTypes
  <2>4. used' \in [Mods -> Seq(Nat)]  BY <2>1, <2>2, <2>3
  <2>. QED  BY <2>2, <2>4, Zenon
<1>4. mode' \in [Mods -> [cur : Nat, next : Nat, at : Nat]]
  <2>1. mode' = [mode EXCEPT ![m] = ModeOf(m)]  BY Zenon DEF Work
  <2>2. mode \in [Mods -> [cur : Nat, next : Nat, at : Nat]]  BY Zenon DEF ModeTypes
  <2>3. ModeOf(m) \in [cur : Nat, next : Nat, at : Nat]  BY RunFacts, Zenon
  <2>. QED  BY <2>1, <2>2, <2>3
<1>5. ASSUME NEW l \in Links PROVE got'[l] <= tstamp'[l.from]
  <2>1. l.from \in Mods /\ tstamp[l.from] \in Nat /\ got[l] \in Nat /\ queue[l] \in SUBSET Nat
    BY LinkTypes, Zenon DEF Inv, Typed
  <2>2. tstamp'[l.from] \in Nat /\ tstamp[l.from] <= tstamp'[l.from]
    <3>1. tstamp'[l.from] = tstamp[l.from] \/ tstamp'[l.from] = tstamp[l.from] + 1
      BY <2>1, RunFacts, Zenon
    <3>. QED  BY <2>1, <3>1
  <2>3. got'[l] = got[l] \/ got'[l] = 0 \/ got'[l] \in Taken(l)
    BY Zenon DEF Work
  <2>4. Taken(l) \subseteq queue[l]  BY DEF Taken, Due
  <2>5. \A t \in queue[l] : t <= tstamp[l.from]  BY RunFacts, Zenon DEF Inv, Flow
  <2>6. got[l] <= tstamp[l.from]  BY Zenon DEF ModeTypes
  <2>. QED  BY <2>1, <2>2, <2>3, <2>4, <2>5, <2>6, SMTT(30)
<1>. QED  BY <1>2, <1>3, <1>4, <1>5, RunFacts, Zenon DEF ModeTypes

\* A module takes up the new mode in the first run of its slot at + stage or later.
LEMMA RunSwitches ==
    ASSUME Inv, ModeTypes, NEW m \in Mods, NEW sends \in BOOLEAN, Work(m, sends),
           NEW s \in Int, InStep(s), NEW at \in Nat \ {0}, Switched(s, at)
    PROVE  Switched(s, at)'
<1>1. place.stage[m] \in Nat /\ slot \in Nat /\ tstamp[m] \in Nat
  BY RunFacts, StageType, Zenon DEF Inv, ModeTypes
<1>. DEFINE go == at + place.stage[m]
<1>2. go \in Nat /\ go # 0  BY <1>1
<1>3. s + tstamp[m] + 1 = slot
  <2>1. Base(m) = tstamp[m]  BY RunFacts, Zenon
  <2>2. Base(m) = slot - 1 - s  BY Zenon DEF InStep
  <2>. QED  BY <1>1, <2>1, <2>2
<1>4. /\ \A k \in 1 .. tstamp[m] : used[m][k] = IF s + k >= go THEN 1 ELSE 0
      /\ \/ mode[m] = [cur |-> 0, next |-> 1, at |-> go] /\ s + tstamp[m] < go
         \/ mode[m] = [cur |-> 1, next |-> 1, at |-> 0] /\ s + tstamp[m] >= go
  BY Zenon DEF Switched
<1>. HIDE DEF go
<1>5. \/ ModeOf(m) = [cur |-> 0, next |-> 1, at |-> go] /\ s + tstamp'[m] < go
      \/ ModeOf(m) = [cur |-> 1, next |-> 1, at |-> 0] /\ s + tstamp'[m] >= go
  <2>1. tstamp'[m] = tstamp[m] + 1  BY RunFacts, Zenon
  <2>2. CASE mode[m] = [cur |-> 0, next |-> 1, at |-> go]
    BY <1>1, <1>2, <1>3, <2>1, <2>2 DEF ModeOf
  <2>3. CASE mode[m] = [cur |-> 1, next |-> 1, at |-> 0] /\ s + tstamp[m] >= go
    BY <1>1, <1>2, <1>3, <2>1, <2>3 DEF ModeOf
  <2>. QED  BY <1>4, <2>2, <2>3, Zenon
<1>6. ASSUME NEW k \in 1 .. tstamp'[m] PROVE used'[m][k] = IF s + k >= go THEN 1 ELSE 0
  <2>1. tstamp'[m] = tstamp[m] + 1  BY RunFacts, Zenon
  <2>2. CASE k \in 1 .. tstamp[m]  BY <1>4, <2>2, RunTypes, Zenon
  <2>3. CASE k = tstamp'[m]
    <3>1. used'[m][k] = ModeOf(m).cur  BY <2>3, RunTypes
    <3>2. ModeOf(m).cur = IF s + k >= go THEN 1 ELSE 0  BY <1>1, <1>2, <1>5, <2>1, <2>3
    <3>. QED  BY <3>1, <3>2
  <2>. QED  BY <1>1, <1>6, <2>1, <2>2, <2>3
<1>7. ASSUME NEW a \in Mods
      PROVE  /\ \A k \in 1 .. tstamp'[a] : used'[a][k] = IF s + k >= at + place.stage[a] THEN 1 ELSE 0
             /\ \/ mode'[a] = [cur |-> 0, next |-> 1, at |-> at + place.stage[a]]
                   /\ s + tstamp'[a] < at + place.stage[a]
                \/ mode'[a] = [cur |-> 1, next |-> 1, at |-> 0]
                   /\ s + tstamp'[a] >= at + place.stage[a]
  <2>1. CASE a = m  BY <1>5, <1>6, <2>1, RunFacts, Zenon DEF go
  <2>2. CASE a # m
    <3>1. tstamp'[a] = tstamp[a] /\ mode'[a] = mode[a] /\ used'[a] = used[a]  BY <2>2, RunFacts, Zenon
    <3>2. /\ \A k \in 1 .. tstamp[a] : used[a][k] = IF s + k >= at + place.stage[a] THEN 1 ELSE 0
          /\ \/ mode[a] = [cur |-> 0, next |-> 1, at |-> at + place.stage[a]]
                /\ s + tstamp[a] < at + place.stage[a]
             \/ mode[a] = [cur |-> 1, next |-> 1, at |-> 0]
                /\ s + tstamp[a] >= at + place.stage[a]
      BY Zenon DEF Switched
    <3>. QED  BY <3>1, <3>2, Zenon
  <2>. QED  BY <2>1, <2>2, Zenon
<1>8. place' = place /\ Mods' = Mods  BY RunFacts, Zenon
<1>. QED  BY <1>7, <1>8, ZenonT(30) DEF Switched

\* The turn of a module keeps the modes in order.
LEMMA WorkMode ==
    ASSUME Inv, ModeInv, NEW m \in Mods, NEW sends \in BOOLEAN, Work(m, sends)
    PROVE  ModeInv'
<1>1. ModeTypes /\ ModeTypes'  BY RunTypes, Zenon DEF ModeInv
<1>2. phase = "run" /\ UNCHANGED <<phase, turns, skew, modes, slot>> /\ Mods' = Mods
  BY <1>1, RunFacts, Zenon
<1>3. ASSUME modes = 0, NEW a \in Mods
      PROVE  /\ mode'[a] = [cur |-> 0, next |-> 0, at |-> 0]
             /\ \A k \in 1 .. tstamp'[a] : used'[a][k] = 0
  <2>1. CASE a # m
    <3>1. mode'[a] = mode[a] /\ tstamp'[a] = tstamp[a] /\ used'[a] = used[a]
      BY <1>1, <2>1, RunFacts, Zenon
    <3>2. mode[a] = [cur |-> 0, next |-> 0, at |-> 0] /\ \A k \in 1 .. tstamp[a] : used[a][k] = 0
      BY <1>3, Zenon DEF ModeInv
    <3>. QED  BY <3>1, <3>2, Zenon
  <2>2. CASE a = m
    <3>1. mode[m] = [cur |-> 0, next |-> 0, at |-> 0] /\ \A k \in 1 .. tstamp[m] : used[m][k] = 0
      BY <1>3 DEF ModeInv
    <3>2. ModeOf(m) = mode[m]  BY <3>1 DEF ModeOf
    <3>3. mode'[m] = ModeOf(m) /\ tstamp[m] \in Nat /\ tstamp'[m] = tstamp[m] + 1  BY <1>1, RunFacts, Zenon
    <3>4. /\ \A k \in 1 .. tstamp[m] : used'[m][k] = used[m][k]
          /\ used'[m][tstamp'[m]] = ModeOf(m).cur
      BY <1>1, RunTypes, Zenon
    <3>5. \A k \in 1 .. tstamp'[m] : k \in 1 .. tstamp[m] \/ k = tstamp'[m]  BY <3>3
    <3>6. ModeOf(m).cur = 0  BY <3>1, <3>2
    <3>. QED  BY <2>2, <3>1, <3>2, <3>3, <3>4, <3>5, <3>6, Zenon
  <2>. QED  BY <2>1, <2>2, Zenon
<1>4. ASSUME OneSwitch PROVE OneSwitch'
  <2>1. PICK s \in Int : InStep(s) /\ (modes = 1 => \E at \in Nat \ {0} : Switched(s, at))
    BY <1>4 DEF OneSwitch
  <2>2. InStep(s)'
    <3>1. \A a \in Mods : Base(a)' = Base(a)  BY <1>1, RunFacts, Zenon
    <3>. QED  BY <1>2, <2>1, <3>1 DEF InStep
  <2>3. modes = 1 => (\E at \in Nat \ {0} : Switched(s, at))'
    <3>. SUFFICES ASSUME modes = 1 PROVE \E at \in Nat \ {0} : Switched(s, at)'  OBVIOUS
    <3>1. PICK at \in Nat \ {0} : Switched(s, at)  BY <2>1
    <3>2. Switched(s, at)'  BY <1>1, <2>1, <3>1, RunSwitches
    <3>. QED  BY <3>2
  <2>. QED  BY <1>2, <2>2, <2>3 DEF OneSwitch
<1>. QED  BY <1>1, <1>2, <1>3, <1>4, Zenon DEF ModeInv, Fresh

\* A mode command: every module switches as many slots after the first as its stage says,
\* and none has run in those slots yet.
LEMMA SetModeMode ==
    ASSUME Inv, ModeInv, SetMode
    PROVE  ModeInv'
<1>1. /\ UNCHANGED <<wf, place, phase, slot, ran, tstamp, got, used, turns, skew>> /\ phase = "run"
      /\ modes' = modes + 1 /\ Mods' = Mods /\ Links' = Links
      /\ mode' = [m \in Mods |-> [cur |-> mode[m].cur, next |-> modes',
                                  at |-> slot + Lead + place.stage[m]]]
  BY Zenon DEF SetMode, load, Mods, Links
<1>2. /\ modes \in Nat /\ slot \in Nat /\ slot > 0 /\ Lead \in Nat /\ Lead > 0
      /\ \A m \in Mods : place.stage[m] \in Nat /\ mode[m].cur \in Nat /\ tstamp[m] \in Nat
  <2>1. modes \in Nat /\ slot \in Nat \ {0} /\ mode \in [Mods -> [cur : Nat, next : Nat, at : Nat]]
    BY Zenon DEF ModeInv, ModeTypes
  <2>2. Typed /\ tstamp \in [Mods -> Nat]  BY Zenon DEF Inv, Typed
  <2>3. \A m \in Mods : place.stage[m] \in Nat  BY <1>1, <2>2, StageType
  <2>. QED  BY <2>1, <2>2, <2>3, LeadAssumption
<1>3. ModeTypes'
  <2>1. mode' \in [Mods -> [cur : Nat, next : Nat, at : Nat]]
    <3>1. \A m \in Mods : slot + Lead + place.stage[m] \in Nat  BY <1>2, SMTT(30)
    <3>2. \A a, b, c \in Nat : [cur |-> a, next |-> b, at |-> c] \in [cur : Nat, next : Nat, at : Nat]
      OBVIOUS
    <3>3. modes' \in Nat  BY <1>1, <1>2
    <3>4. \A m \in Mods : [cur |-> mode[m].cur, next |-> modes', at |-> slot + Lead + place.stage[m]]
                              \in [cur : Nat, next : Nat, at : Nat]
      BY <1>2, <3>1, <3>2, <3>3, Zenon
    <3>. QED  BY <1>1, <3>4, Zenon
  <2>2. modes' \in Nat  BY <1>1, <1>2
  <2>3. ModeTypes  BY Zenon DEF ModeInv
  <2>. QED  BY <1>1, <2>1, <2>2, <2>3, Zenon DEF ModeTypes
<1>4. ASSUME OneSwitch PROVE OneSwitch'
  <2>1. PICK s \in Int : InStep(s)  BY <1>4 DEF OneSwitch
  <2>2. InStep(s)'  BY <1>1, <2>1, Zenon DEF InStep, Base
  <2>3. ASSUME modes' = 1 PROVE Switched(s, slot + Lead)'
    <3>0. modes = 0  BY <1>1, <1>2, <2>3, SMTT(30)
    <3>1. ASSUME NEW m \in Mods
          PROVE  /\ \A k \in 1 .. tstamp[m] : used[m][k] = IF s + k >= slot + Lead + place.stage[m] THEN 1 ELSE 0
                 /\ mode'[m] = [cur |-> 0, next |-> 1, at |-> slot + Lead + place.stage[m]]
                 /\ s + tstamp[m] < slot + Lead + place.stage[m]
      <4>1. mode[m].cur = 0 /\ \A k \in 1 .. tstamp[m] : used[m][k] = 0
        BY <3>0, SMTT(30) DEF ModeInv
      <4>2. mode'[m] = [cur |-> 0, next |-> 1, at |-> slot + Lead + place.stage[m]]
        BY <1>1, <2>3, <4>1, Zenon
      <4>3. s + tstamp[m] <= slot
        <5>1. Base(m) = slot - 1 - s  BY <2>1 DEF InStep
        <5>2. tstamp[m] <= Base(m) + 1 /\ Base(m) \in Int  BY <1>2 DEF Base
        <5>. QED  BY <1>2, <5>1, <5>2
      <4>4. place.stage[m] \in Nat /\ tstamp[m] \in Nat  BY <1>2
      <4>5. \A k \in 1 .. tstamp[m] : ~(s + k >= slot + Lead + place.stage[m])
        BY <1>2, <4>3, <4>4
      <4>6. s + tstamp[m] < slot + Lead + place.stage[m]
        BY <1>2, <4>3, <4>4
      <4>. QED  BY <4>1, <4>2, <4>5, <4>6, Zenon
    <3>2. (slot + Lead)' = slot + Lead  BY <1>1, Zenon
    <3>. QED  BY <1>1, <3>1, <3>2, Zenon DEF Switched
  <2>4. slot + Lead \in Nat \ {0} /\ (slot + Lead)' = slot + Lead  BY <1>1, <1>2
  <2>. QED  BY <2>2, <2>3, <2>4 DEF OneSwitch
<1>5. modes' # 0  BY <1>1, <1>2
<1>. QED  BY <1>1, <1>3, <1>4, <1>5, Zenon DEF ModeInv, Fresh

\* The first RUN starts the modules together, before their turn or after it; the end of a
\* slot moves all of them by one run.
LEMMA OtherMode ==
    ASSUME Inv, Inv', ModeInv, [Next]_vars, ~SetMode,
           ~(\E m \in Mods, sends \in BOOLEAN : Work(m, sends))
    PROVE  ModeInv'
<1>1. UNCHANGED <<wf, tstamp, used, mode, got, modes>> /\ Mods' = Mods /\ Links' = Links
  BY Zenon DEF Next, vars, load, flow, Load, StartInit, InitStep, Run, Pause, Fault, EndSlot, Mods, Links
<1>2. turns \in Nat /\ modes \in Nat /\ slot \in Nat \ {0} /\ skew \in Nat /\ skew' \in Nat
  BY Zenon DEF ModeInv, ModeTypes, Inv, Typed
<1>3. turns' = turns \/ turns' = turns + 1
  BY Zenon DEF Next, vars, Load, StartInit, InitStep, Run, Pause, Fault, EndSlot
<1>4. slot' = slot \/ slot' = slot + 1
  BY Zenon DEF Next, vars, Load, StartInit, InitStep, Run, Pause, Fault, EndSlot
<1>5. ModeTypes'
  <2>1. turns' \in Nat /\ slot' \in Nat \ {0}  BY <1>2, <1>3, <1>4
  <2>2. ModeTypes  BY Zenon DEF ModeInv
  <2>. QED  BY <1>1, <2>1, <2>2, Zenon DEF ModeTypes
<1>6. modes' = 0 => \A m \in Mods : /\ mode'[m] = [cur |-> 0, next |-> 0, at |-> 0]
                                    /\ \A k \in 1 .. tstamp'[m] : used'[m][k] = 0
  BY <1>1, Zenon DEF ModeInv
<1>7. CASE Load \/ StartInit \/ InitStep
  <2>1. phase \in Fresh /\ phase' \in Fresh /\ turns' = turns
    BY <1>7, SMTT(30) DEF Load, StartInit, InitStep, Fresh
  <2>2. turns' = 0 /\ modes' = 0 /\ phase' # "paused"  BY <1>1, <2>1, Zenon DEF ModeInv, Fresh
  <2>3. turns' # 1  BY <2>2
  <2>. QED  BY <1>1, <1>5, <1>6, <2>1, <2>2, <2>3, Zenon DEF ModeInv
<1>8. ASSUME NEW R \in SUBSET Mods, Run(R) PROVE ModeInv'
  <2>1. phase' = "run" /\ turns' = turns + 1 /\ ran' = R /\ skew' = skew + Split(R)
    BY <1>8 DEF Run
  <2>2. CASE phase = "paused"
    <3>1. turns > 1  BY <2>2, Zenon DEF ModeInv
    <3>2. turns' > 0 /\ turns' # 1  BY <1>2, <2>1, <3>1
    <3>. QED  BY <1>1, <1>5, <1>6, <2>1, <3>2, Zenon DEF ModeInv, Fresh
  <2>3. CASE phase = "ready"
    <3>1. turns = 0 /\ modes = 0 /\ skew = 0 /\ tstamp = [m \in Mods |-> 0] /\ slot' = slot
      BY <1>8, <2>3, Zenon DEF ModeInv, Fresh, Inv, Quiet, Run
    <3>2. ASSUME skew' = 0 PROVE OneSwitch'
      <4>1. R = {} \/ R = Mods  BY <2>1, <3>1, <3>2 DEF Split
      <4>2. ASSUME NEW m \in Mods PROVE Base(m)' = 0 - (IF R = {} THEN 0 ELSE 1)
        BY <1>1, <2>1, <3>1, <4>1, <4>2 DEF Base
      <4>. DEFINE s == slot - 1 + (IF R = {} THEN 0 ELSE 1)
      <4>3. s \in Int /\ slot' - 1 - s = 0 - (IF R = {} THEN 0 ELSE 1)  BY <1>2, <3>1
      <4>. HIDE DEF s
      <4>4. \A m \in Mods' : Base(m)' = slot' - 1 - s  BY <1>1, <4>2, <4>3
      <4>5. modes' # 1  BY <1>1, <3>1
      <4>. QED  BY <4>3, <4>4, <4>5 DEF OneSwitch, InStep
    <3>3. turns' > 0  BY <2>1, <3>1
    <3>. QED  BY <1>1, <1>5, <1>6, <2>1, <3>2, <3>3, Zenon DEF ModeInv, Fresh
  <2>. QED  BY <1>8, <2>2, <2>3 DEF Run
<1>9. CASE Pause
  <2>1. phase = "run" /\ phase' = "paused" /\ turns' = turns + 1  BY <1>9 DEF Pause
  <2>2. turns > 0  BY <2>1, Zenon DEF ModeInv, Fresh
  <2>3. turns' > 1 /\ turns' # 1 /\ turns' > 0  BY <1>2, <2>1, <2>2
  <2>. QED  BY <1>1, <1>5, <1>6, <2>1, <2>3, Zenon DEF ModeInv, Fresh
<1>10. ASSUME place' = place, turns' = turns, skew' = skew, phase' = phase \/ (phase = "run" /\ phase' = "error"),
              \A m \in Mods : Base(m)' - slot' = Base(m) - slot
       PROVE  ModeInv'
  <2>1. ASSUME OneSwitch PROVE OneSwitch'
    <3>1. PICK s \in Int : InStep(s) /\ (modes = 1 => \E at \in Nat \ {0} : Switched(s, at))
      BY <2>1 DEF OneSwitch
    <3>2. InStep(s)'
      <4>1. ASSUME NEW m \in Mods PROVE Base(m)' = slot' - 1 - s
        <5>1. Base(m) = slot - 1 - s  BY <3>1 DEF InStep
        <5>2. Base(m)' \in Int
          <6>1. tstamp'[m] \in Int  BY <1>1, SMTT(30) DEF Inv, Typed
          <6>. QED  BY <6>1 DEF Base
        <5>3. Base(m)' - slot' = Base(m) - slot  BY <1>10
        <5>. QED  BY <1>2, <1>4, <5>1, <5>2, <5>3
      <4>. QED  BY <1>1, <4>1 DEF InStep
    <3>3. \A at : Switched(s, at) => Switched(s, at)'
      <4>1. place' = place /\ tstamp' = tstamp /\ used' = used /\ mode' = mode /\ Mods' = Mods
        BY <1>1, <1>10, Zenon
      <4>. QED  BY <4>1, Zenon DEF Switched
    <3>. QED  BY <1>1, <3>1, <3>2, <3>3 DEF OneSwitch
  <2>. QED  BY <1>1, <1>5, <1>6, <1>10, <2>1, Zenon DEF ModeInv, Fresh
<1>11. CASE EndSlot
  <2>1. /\ phase = "run" /\ ran = Mods /\ ran' = {} /\ slot' = slot + 1
        /\ UNCHANGED <<place, phase, turns, skew>>
    BY <1>11 DEF EndSlot, load
  <2>2. ASSUME NEW m \in Mods PROVE Base(m)' - slot' = Base(m) - slot
    <3>1. tstamp[m] \in Nat  BY DEF Inv, Typed
    <3>. QED  BY <1>1, <1>2, <2>1, <3>1 DEF Base
  <2>. QED  BY <1>10, <2>1, <2>2
<1>12. CASE UNCHANGED vars \/ \E m \in Mods : Fault(m)
  <2>1. /\ UNCHANGED <<place, turns, skew, slot, ran>>
        /\ phase' = phase \/ (phase = "run" /\ phase' = "error")
    BY <1>12, Zenon DEF vars, load, flow, Fault, MayRun
  <2>2. ASSUME NEW m \in Mods PROVE Base(m)' - slot' = Base(m) - slot
    BY <1>1, <2>1 DEF Base
  <2>. QED  BY <1>10, <2>1, <2>2
<1>. QED  BY <1>7, <1>8, <1>9, <1>11, <1>12 DEF Next

\* Wherever the modules are placed, a packet that was sent in the old mode is processed in
\* the old mode by its reader, and one that was sent in the new mode in the new one, if
\* the modules run together and the mode is set once (waveform_mode_set,
\* oesr_var_param_get_value).
THEOREM OneModeForEachPacket == Spec => []OneModePerPacket
<1>1. Init => ModeInv
  <2>. SUFFICES ASSUME NEW x \in Loads, Loading(x) PROVE ModeInv  BY DEF Init
  <2>1. /\ turns = 0 /\ modes = 0 /\ slot = 1 /\ phase = "parsed"
        /\ tstamp = [m \in Mods |-> 0] /\ used = [m \in Mods |-> <<>>] /\ got = [l \in Links |-> 0]
        /\ mode = [m \in Mods |-> [cur |-> 0, next |-> 0, at |-> 0]]
    BY DEF Loading
  <2>2. \A l \in Links : l.from \in Mods
    <3>1. Typed  BY InitInv DEF Init, Inv
    <3>. QED  BY <3>1, LinkTypes
  <2>. QED  BY <2>1, <2>2 DEF ModeInv, ModeTypes, Fresh
<1>2. Inv /\ Inv' /\ ModeInv /\ [Next]_vars => ModeInv'
  BY WorkMode, SetModeMode, OtherMode
<1>3. Inv /\ ModeInv => OneModePerPacket
  <2>0. SUFFICES ASSUME Inv, ModeInv, skew = 0, turns = 1, modes = 1, NEW l \in Links,
                        got[l] # 0, Ordered(l), l.delay = -1,
                        place.stage[l.from] <= place.stage[l.to]
                 PROVE  used[l.from][got[l]] = used[l.to][tstamp[l.to]]
    BY Zenon DEF OneModePerPacket
  <2>1. phase \notin Fresh  BY <2>0 DEF ModeInv
  <2>2. /\ l.from \in Mods /\ l.to \in Mods /\ got[l] \in Nat
        /\ tstamp[l.to] \in Nat /\ tstamp[l.from] \in Nat
    BY <2>0, LinkTypes, Zenon DEF Inv, Typed
  <2>3. place.stage[l.from] \in Nat /\ place.stage[l.to] \in Nat
    BY <2>0, <2>1, <2>2, StageType, Zenon DEF Inv, Fresh
  <2>4. Delay(l) = place.stage[l.to] - place.stage[l.from]  BY <2>0, <2>3 DEF Delay
  <2>5. tstamp[l.to] \in got[l] + Delay(l) .. got[l] + Delay(l) + skew
    BY <2>0, <2>1, Zenon DEF Inv, Flow, Fresh
  <2>6. tstamp[l.to] = got[l] + place.stage[l.to] - place.stage[l.from]
    <3>1. tstamp[l.to] \in got[l] + Delay(l) .. got[l] + Delay(l) + 0
      BY <2>0, <2>5, Zenon
    <3>. QED  BY <2>2, <2>3, <2>4, <3>1
  <2>7. got[l] <= tstamp[l.from]  BY <2>0, Zenon DEF ModeInv, ModeTypes
  <2>8. got[l] \in 1 .. tstamp[l.from] /\ tstamp[l.to] \in 1 .. tstamp[l.to]
    <3>1. got[l] # 0 /\ place.stage[l.from] <= place.stage[l.to]  BY <2>0, Zenon
    <3>. QED  BY <2>2, <2>3, <2>6, <2>7, <3>1
  <2>9. PICK s \in Int : \E at \in Nat \ {0} : Switched(s, at)  BY <2>0, Zenon DEF ModeInv, OneSwitch
  <2>10. PICK at \in Nat \ {0} : Switched(s, at)  BY <2>9
  <2>. DEFINE U(m, k) == used[m][k] = IF s + k >= at + place.stage[m] THEN 1 ELSE 0
  <2>14. \A m \in Mods : \A k \in 1 .. tstamp[m] : U(m, k)
    BY <2>10, Zenon DEF Switched
  <2>15. U(l.from, got[l]) /\ U(l.to, tstamp[l.to])
    <3>. HIDE DEF U
    <3>. QED  BY <2>2, <2>8, <2>14, Zenon
  <2>11. used[l.from][got[l]] = IF s + got[l] >= at + place.stage[l.from] THEN 1 ELSE 0
    BY <2>15, Zenon
  <2>12. used[l.to][tstamp[l.to]] = IF s + tstamp[l.to] >= at + place.stage[l.to] THEN 1 ELSE 0
    BY <2>15, Zenon
  <2>13. s + got[l] >= at + place.stage[l.from] <=> s + tstamp[l.to] >= at + place.stage[l.to]
    BY <2>2, <2>3, <2>6, <2>9, <2>10
  <2>. QED  BY <2>11, <2>12, <2>13, Zenon
<1>. QED  BY <1>1, <1>2, <1>3, Invariance, PTL DEF Spec

=============================================================================
