---------------------------- MODULE ControlProofs ----------------------------
(***************************************************************************)
(* InitCompletes, ControlInForce and RingSuffices for every waveform and    *)
(* every placement: the passes of the init thread, the packets of the       *)
(* control module, and the packets that a link holds at once.               *)
(***************************************************************************)
EXTENDS DataflowProofs, Induction, FiniteSetTheorems

\* No module behind the control module writes to it.
NoneBehind == \A l \in Links : l.to = wf.ctrl => l.from <= wf.ctrl

\* The modules the init thread has visited at least once.
Visited == {m \in Mods : trial > 0 \/ m < next}

\* In the first pass all outputs come up, but perhaps those of the control module;
\* in the second all of it, but perhaps modules before the control module that it
\* writes to; these come up in the third, before the last module is reached.
Passes ==
    /\ trial \in 0 .. 2 /\ next \in Mods /\ inited # Mods
    /\ inited \subseteq made /\ inited \subseteq Visited
    /\ \A m \in Visited : m # wf.ctrl => m \in made
    /\ trial = 1 => \A m \in Mods : m < next => m \in inited \/ m < wf.ctrl
    /\ trial = 2 => Mods \subseteq made /\ \A m \in Mods : m < next \/ m >= wf.ctrl => m \in inited
    /\ wf.ctrl # 0 /\ NoneBehind =>
          /\ ctrl_in = {m \in Visited : m > wf.ctrl}
          /\ wf.ctrl \in Visited => wf.ctrl \in made

InitsInv ==
    /\ made \subseteq Mods /\ ctrl_in \subseteq {m \in Mods : m > wf.ctrl}
    /\ wf.ctrl = 0 => ctrl_in = {}
    /\ phase \in {"parsed", "refused", "loaded"} =>
          trial = 0 /\ next = 1 /\ made = {} /\ inited = {} /\ ctrl_in = {}
    /\ phase = "init" => Passes
    /\ phase = "ready" /\ wf.ctrl # 0 /\ NoneBehind => ctrl_in = wf.ctrl + 1 .. wf.n
    /\ phase # "failed"

\* The control port of module m.
Port(m) == [from |-> wf.ctrl, to |-> m, delay |-> 1, ctrl |-> TRUE]

\* Every control packet has been applied, or a later one has, or it waits.
ControlInv ==
    /\ control \in [Mods -> Nat]
    /\ phase \in Fresh => control = [m \in Mods |-> 0]
    /\ \A m \in ctrl_in :
          /\ tstamp[m] = 0 => control[m] = 0
          /\ tstamp[m] > 0 => tstamp[m] - 1 - skew <= control[m] /\ control[m] <= tstamp[m] - 1
          /\ \A t \in 1 .. tstamp[wf.ctrl] : t \in queue[Port(m)] \/ t <= control[m]

-----------------------------------------------------------------------------
\* The waveform at hand: its control module and its links.
LEMMA WaveformFacts ==
    ASSUME Typed
    PROVE  /\ wf.n \in Nat \ {0} /\ wf.ctrl \in 0 .. wf.n /\ Mods = 1 .. wf.n
           /\ \A l \in Links : /\ l.from \in Mods /\ l.to \in Mods
                               /\ ~l.ctrl => l.from # wf.ctrl \/ l.to # wf.ctrl
                               /\ l.ctrl => l = Port(l.to) /\ l.to > wf.ctrl
           /\ wf.ctrl # 0 => \A m \in Mods : m > wf.ctrl => Port(m) \in Links
<1>1. PICK x \in Loads : wf = x.wf  BY DEF Typed
<1>2. /\ wf.n \in Nat \ {0} /\ wf.ctrl \in 0 .. wf.n
      /\ \A l \in wf.links : /\ l.from \in Mods /\ l.to \in Mods /\ ~l.ctrl
                             /\ l.from = l.to => l.from # wf.ctrl
  BY <1>1, LoadsAssumption DEF Mods
<1>3. Mods = 1 .. wf.n  BY DEF Mods, Modules
<1>4. Links = wf.links \cup (IF wf.ctrl = 0 THEN {} ELSE {Port(m) : m \in wf.ctrl + 1 .. wf.n})
  BY DEF Links, AllLinks, Port
<1>5. \A m : /\ Port(m).from = wf.ctrl /\ Port(m).to = m /\ Port(m).ctrl  BY DEF Port
<1>6. ASSUME NEW l \in Links
      PROVE  /\ l.from \in Mods /\ l.to \in Mods
             /\ ~l.ctrl => l.from # wf.ctrl \/ l.to # wf.ctrl
             /\ l.ctrl => l = Port(l.to) /\ l.to > wf.ctrl
  <2>1. CASE l \in wf.links  BY <1>2, <2>1
  <2>2. CASE wf.ctrl # 0 /\ \E m \in wf.ctrl + 1 .. wf.n : l = Port(m)
    <3>1. PICK m \in wf.ctrl + 1 .. wf.n : l = Port(m)  BY <2>2
    <3>2. m > wf.ctrl /\ m \in Mods /\ wf.ctrl \in Mods  BY <1>2, <1>3, <2>2
    <3>. QED  BY <1>5, <3>1, <3>2
  <2>. QED  BY <1>4, <2>1, <2>2
<1>7. ASSUME wf.ctrl # 0, NEW m \in Mods, m > wf.ctrl PROVE Port(m) \in Links
  <2>1. m \in wf.ctrl + 1 .. wf.n  BY <1>2, <1>3, <1>7
  <2>. QED  BY <1>4, <1>7, <2>1
<1>. QED  BY <1>2, <1>3, <1>6, <1>7

\* A step of the init thread at module next.
LEMMA StepFacts ==
    ASSUME Typed, InitsInv, InitStep
    PROVE  /\ made \subseteq made' /\ made' \subseteq Mods
           /\ inited \subseteq inited' /\ inited' \subseteq inited \cup {next} /\ inited' \subseteq made'
           /\ \A m \in Visited \cup {next} : m # wf.ctrl => m \in made'
           /\ ctrl_in' = ctrl_in \/ (ctrl_in' = ctrl_in \cup {next} /\ next > wf.ctrl /\ wf.ctrl # 0)
<1>1. phase = "init" /\ Passes /\ InitModule(next) /\ wf' = wf /\ next \in Mods
  BY DEF InitStep, InitsInv, Passes, load
<1>2. made \subseteq Mods /\ 0 \notin Mods  BY WaveformFacts DEF InitsInv
<1>3. CASE next \in inited
  BY <1>1, <1>2, <1>3 DEF InitModule, Passes
<1>4. CASE next \notin inited /\ next = wf.ctrl
  BY <1>1, <1>2, <1>4 DEF InitModule, InitCtrl, InitRemote, Passes
<1>5. CASE next \notin inited /\ next # wf.ctrl
  BY <1>1, <1>2, <1>5 DEF InitModule, InitInterfaces, Passes
<1>. QED  BY <1>3, <1>4, <1>5

\* In the second pass a module is left out only if it waits for the control module
\* behind it.
LEMMA SecondPass ==
    ASSUME Typed, InitsInv, InitStep, trial > 0
    PROVE  next \in inited' \/ (trial = 1 /\ next < wf.ctrl)
<1>1. phase = "init" /\ Passes /\ InitModule(next) /\ wf' = wf /\ next \in Mods /\ Links' = Links
  BY DEF InitStep, InitsInv, Passes, load, Links
<1>2. Visited = Mods  BY DEF Visited
<1>3. \A m \in Mods : m # wf.ctrl => m \in made  BY <1>1, <1>2 DEF Passes
<1>4. CASE next \in inited
  BY <1>4, StepFacts
<1>5. CASE next \notin inited /\ next = wf.ctrl
  <2>1. Ready(next, made)  BY <1>3, <1>5, WaveformFacts DEF Ready
  <2>. QED  BY <1>1, <1>5, <2>1 DEF InitModule, InitCtrl
<1>6. CASE next \notin inited /\ next # wf.ctrl
  <2>1. wf.ctrl \in made => Ready(next, made')
    <3>. SUFFICES ASSUME wf.ctrl \in made PROVE Ready(next, made')  OBVIOUS
    <3>1. Mods \subseteq made'  BY <1>3, StepFacts
    <3>. QED  BY <3>1, WaveformFacts DEF Ready
  <2>2. wf.ctrl \in made => next \in inited'
    BY <1>1, <1>6, <2>1 DEF InitModule, InitInterfaces
  <2>3. CASE trial = 2
    <3>1. wf.ctrl \in Mods => wf.ctrl \in made  BY <1>1, <2>3 DEF Passes
    <3>2. CASE wf.ctrl \in Mods  BY <2>2, <3>1, <3>2
    <3>3. CASE wf.ctrl \notin Mods
      <4>1. \A l \in Links : l.from \in made'  BY <1>3, <3>3, WaveformFacts, StepFacts
      <4>2. Ready(next, made')  BY <4>1 DEF Ready
      <4>. QED  BY <1>1, <1>6, <4>2 DEF InitModule, InitInterfaces
    <3>. QED  BY <3>2, <3>3
  <2>4. CASE trial = 1
    <3>1. CASE wf.ctrl \in Mods /\ wf.ctrl < next
      <4>1. wf.ctrl \in made  BY <1>1, <2>4, <3>1, WaveformFacts DEF Passes
      <4>. QED  BY <2>2, <4>1
    <3>2. CASE wf.ctrl \notin Mods
      <4>1. \A l \in Links : l.from \in made'  BY <1>3, <3>2, WaveformFacts, StepFacts
      <4>2. Ready(next, made')  BY <4>1 DEF Ready
      <4>. QED  BY <1>1, <1>6, <4>2 DEF InitModule, InitInterfaces
    <3>3. CASE wf.ctrl \in Mods /\ ~(wf.ctrl < next)
      BY <1>1, <1>6, <2>4, <3>3, WaveformFacts
    <3>. QED  BY <3>1, <3>2, <3>3
  <2>. QED  BY <1>1, <2>3, <2>4 DEF Passes
<1>. QED  BY <1>4, <1>5, <1>6

\* The control ports: a module behind the control module finds its writer ready.
LEMMA PortsComeUp ==
    ASSUME Typed, InitsInv, InitStep, wf.ctrl # 0, NoneBehind
    PROVE  /\ ctrl_in' = {m \in Visited \cup {next} : m > wf.ctrl}
           /\ wf.ctrl \in Visited \cup {next} => wf.ctrl \in made'
<1>1. /\ phase = "init" /\ Passes /\ InitModule(next) /\ wf' = wf /\ next \in Mods
      /\ ctrl_in = {m \in Visited : m > wf.ctrl} /\ (wf.ctrl \in Visited => wf.ctrl \in made)
  BY DEF InitStep, InitsInv, Passes, load
<1>2. made \subseteq made'  BY StepFacts
<1>3. CASE next \in inited
  <2>1. next \in Visited /\ ctrl_in' = ctrl_in  BY <1>1, <1>3 DEF Passes, InitModule
  <2>. QED  BY <1>1, <1>2, <2>1
<1>4. CASE next \notin inited /\ next = wf.ctrl
  <2>1. ASSUME NEW l \in Links, l.to = wf.ctrl, ~l.ctrl PROVE l.from \in made
    <3>1. l.from < next /\ l.from \in Mods /\ l.from # wf.ctrl
      BY <1>4, <2>1, WaveformFacts DEF NoneBehind
    <3>2. l.from \in Visited  BY <3>1 DEF Visited
    <3>. QED  BY <1>1, <3>1, <3>2 DEF Passes
  <2>2. Ready(next, made)  BY <1>4, <2>1 DEF Ready
  <2>3. made' = made \cup {next} /\ ctrl_in' = ctrl_in
    BY <1>1, <1>4, <2>2 DEF InitModule, InitCtrl, InitRemote
  <2>4. ~(next > wf.ctrl)  BY <1>4, WaveformFacts
  <2>. QED  BY <1>1, <1>4, <2>3, <2>4
<1>5. CASE next \notin inited /\ next # wf.ctrl
  <2>1. ctrl_in' = IF wf.ctrl \in made /\ wf.ctrl < next THEN ctrl_in \cup {next} ELSE ctrl_in
    BY <1>1, <1>5 DEF InitModule, InitInterfaces
  <2>2. wf.ctrl < next <=> next > wf.ctrl  BY <1>1, WaveformFacts
  <2>3. wf.ctrl < next => wf.ctrl \in made
    <3>1. wf.ctrl \in Mods  BY WaveformFacts
    <3>. QED  BY <1>1, <3>1 DEF Visited
  <2>. QED  BY <1>1, <1>2, <1>5, <2>1, <2>2, <2>3
<1>. QED  BY <1>3, <1>4, <1>5

\* The modules visited after the step.
LEMMA VisitedNext ==
    ASSUME Typed, InitsInv, InitStep
    PROVE  /\ Visited' = Visited \cup {next} /\ next' \in Mods
           /\ \/ next < wf.n /\ next' = next + 1 /\ trial' = trial
              \/ next = wf.n /\ next' = 1 /\ trial' = trial + 1
<1>1. /\ phase = "init" /\ trial \in 0 .. 2 /\ next \in 1 .. wf.n /\ wf' = wf /\ Mods' = Mods
  BY WaveformFacts DEF InitStep, InitsInv, Passes, load, Mods
<1>2. CASE next = wf.n
  <2>1. next' = 1 /\ trial' = trial + 1  BY <1>2 DEF InitStep
  <2>2. Visited \cup {next} = Mods  BY <1>1, <1>2, WaveformFacts DEF Visited
  <2>3. Visited' = Mods  BY <1>1, <2>1 DEF Visited
  <2>. QED  BY <1>2, <2>1, <2>2, <2>3, WaveformFacts
<1>3. CASE next # wf.n
  <2>1. next' = next + 1 /\ trial' = trial  BY <1>3 DEF InitStep
  <2>2. Visited' = Visited \cup {next}  BY <1>1, <2>1, WaveformFacts DEF Visited
  <2>. QED  BY <1>1, <1>3, <2>1, <2>2, WaveformFacts
<1>. QED  BY <1>2, <1>3

\* The third pass does not get to its end.
LEMMA ThirdPass ==
    ASSUME Typed, Passes, trial = 2
    PROVE  next < wf.n
<1>1. next \in 1 .. wf.n /\ wf.n \in Nat /\ wf.ctrl \in 0 .. wf.n  BY WaveformFacts DEF Passes
<1>2. ASSUME next = wf.n PROVE FALSE
  <2>1. \A m \in Mods : m \in inited  BY <1>1, <1>2, WaveformFacts DEF Passes
  <2>2. inited \subseteq Mods  BY DEF Passes, Visited
  <2>. QED  BY <2>1, <2>2 DEF Passes
<1>. QED  BY <1>1, <1>2

\* Every step of the init thread keeps the invariant of its passes.
LEMMA StepInits ==
    ASSUME Typed, InitsInv, InitStep
    PROVE  InitsInv'
<1>1. /\ phase = "init" /\ Passes /\ wf' = wf /\ Mods' = Mods /\ Links' = Links
      /\ next \in Mods /\ trial \in 0 .. 2
  BY DEF InitStep, InitsInv, Passes, load, Mods, Links
<1>2. NoneBehind' = NoneBehind  BY <1>1 DEF NoneBehind
<1>3. made' \subseteq Mods /\ ctrl_in' \subseteq {m \in Mods : m > wf.ctrl} /\ (wf.ctrl = 0 => ctrl_in' = {})
  BY <1>1, StepFacts DEF InitsInv
<1>4. ~(next = wf.n /\ trial' = 3)
  <2>1. trial = 2 => next < wf.n  BY <1>1, ThirdPass
  <2>. QED  BY <1>1, <2>1, VisitedNext, WaveformFacts
<1>5. phase' = IF inited' = Mods THEN "ready" ELSE "init"
  BY <1>1, <1>4 DEF InitStep
<1>6. CASE inited' = Mods
  <2>1. Visited \cup {next} = Mods
    BY <1>1, <1>6, StepFacts DEF Passes, Visited
  <2>2. wf.ctrl # 0 /\ NoneBehind => ctrl_in' = {m \in Mods : m > wf.ctrl}
    BY <2>1, PortsComeUp
  <2>3. {m \in Mods : m > wf.ctrl} = wf.ctrl + 1 .. wf.n  BY WaveformFacts
  <2>. QED  BY <1>1, <1>2, <1>3, <1>5, <1>6, <2>2, <2>3, Zenon DEF InitsInv
<1>7. CASE inited' # Mods
  <2>1. trial' \in 0 .. 2 /\ next' \in Mods
    BY <1>1, <1>4, VisitedNext, WaveformFacts
  <2>2. /\ inited' \subseteq made' /\ inited' \subseteq Visited'
        /\ \A m \in Visited' : m # wf.ctrl => m \in made'
    BY <1>1, VisitedNext, StepFacts DEF Passes
  <2>3. ASSUME trial' = 1, NEW m \in Mods, m < next' PROVE m \in inited' \/ m < wf.ctrl
    <3>1. trial = 1 /\ next' = next + 1
      BY <1>1, <2>3, VisitedNext, WaveformFacts
    <3>2. CASE m < next  BY <1>1, <3>1, <3>2, StepFacts DEF Passes
    <3>3. CASE m = next  BY <3>1, <3>3, SecondPass
    <3>. QED  BY <1>1, <2>3, <3>1, <3>2, <3>3, WaveformFacts
  <2>4. ASSUME trial' = 2 PROVE Mods \subseteq made' /\ \A m \in Mods : m < next' \/ m >= wf.ctrl => m \in inited'
    <3>1. CASE trial = 1 /\ next = wf.n /\ next' = 1
      <4>1. ASSUME NEW m \in Mods, m >= wf.ctrl PROVE m \in inited'
        <5>1. CASE m = next  BY <1>1, <3>1, <4>1, <5>1, SecondPass, WaveformFacts
        <5>2. CASE m < next  BY <1>1, <3>1, <4>1, <5>2, StepFacts, WaveformFacts DEF Passes
        <5>. QED  BY <3>1, <5>1, <5>2, WaveformFacts
      <4>2. \A m \in Mods : ~(m < next')  BY <3>1, WaveformFacts
      <4>3. ASSUME NEW m \in Mods PROVE m \in made'
        <5>1. CASE m = wf.ctrl
          <6>1. m >= wf.ctrl  BY <5>1, WaveformFacts
          <6>. QED  BY <4>1, <6>1, StepFacts
        <5>2. CASE m # wf.ctrl  BY <3>1, <5>2, StepFacts DEF Visited
        <5>. QED  BY <5>1, <5>2
      <4>. QED  BY <4>1, <4>2, <4>3
    <3>2. CASE trial = 2 /\ next' = next + 1
      <4>1. next \in inited'  BY <3>2, SecondPass
      <4>2. \A m \in Mods : m < next' => m < next \/ m = next  BY <1>1, <3>2, WaveformFacts
      <4>. QED  BY <1>1, <3>2, <4>1, <4>2, StepFacts DEF Passes
    <3>. QED  BY <1>1, <2>4, <3>1, <3>2, VisitedNext
  <2>5. wf.ctrl # 0 /\ NoneBehind =>
          /\ ctrl_in' = {m \in Visited' : m > wf.ctrl}
          /\ wf.ctrl \in Visited' => wf.ctrl \in made'
    BY PortsComeUp, VisitedNext
  <2>6. Passes'
    BY <1>1, <1>2, <1>7, <2>1, <2>2, <2>3, <2>4, <2>5 DEF Passes
  <2>. QED  BY <1>1, <1>3, <1>5, <1>7, <2>6 DEF InitsInv
<1>. QED  BY <1>6, <1>7

\* The other steps leave the init thread alone, or start it.
LEMMA OtherInits ==
    ASSUME Typed, InitsInv, [Next]_vars, ~InitStep
    PROVE  InitsInv'
<1>1. wf' = wf /\ Mods' = Mods /\ Links' = Links /\ UNCHANGED <<made, inited, ctrl_in, trial, next>>
  BY Zenon DEF Next, vars, load, init, Load, StartInit, Run, Pause, SetMode, Work, Fault, EndSlot, Mods, Links
<1>2. NoneBehind' = NoneBehind /\ Visited' = Visited  BY <1>1 DEF NoneBehind, Visited
<1>3. CASE StartInit
  <2>1. phase = "loaded" /\ phase' = "init"  BY <1>3 DEF StartInit
  <2>2. Passes'
    <3>1. trial = 0 /\ next = 1 /\ made = {} /\ inited = {} /\ ctrl_in = {}  BY <2>1 DEF InitsInv
    <3>2. 1 \in Mods  BY WaveformFacts
    <3>3. Visited = {}  BY <3>1, WaveformFacts DEF Visited
    <3>. QED  BY <1>1, <1>2, <3>1, <3>2, <3>3 DEF Passes
  <2>. QED  BY <1>1, <2>1, <2>2 DEF InitsInv
<1>4. CASE Load
  BY <1>1, <1>4 DEF Load, InitsInv
<1>5. CASE UNCHANGED vars
  <2>1. phase' = phase  BY <1>5 DEF vars
  <2>2. Passes' = Passes  BY <1>1, <1>2 DEF Passes
  <2>. QED  BY <1>1, <1>2, <2>1, <2>2 DEF InitsInv
<1>6. CASE \/ \E R \in SUBSET Mods : Run(R)
           \/ Pause \/ SetMode
           \/ \E m \in Mods, sends \in BOOLEAN : Work(m, sends)
           \/ \E m \in Mods : Fault(m)
           \/ EndSlot
  <2>1. phase' \in {"run", "paused", "error"}
    BY <1>6, Zenon DEF Run, Pause, SetMode, Work, Fault, EndSlot, MayRun
  <2>. QED  BY <1>1, <2>1 DEF InitsInv
<1>. QED  BY <1>3, <1>4, <1>5, <1>6 DEF Next

\* The init thread is as far as InitsInv says.
LEMMA InitsInvariance == Spec => []InitsInv
<1>1. Init => InitsInv
  BY Zenon DEF Init, Loading, InitsInv
<1>2. Typed /\ InitsInv /\ [Next]_vars => InitsInv'
  BY StepInits, OtherInits
<1>3. Inv => Typed  BY DEF Inv
<1>. QED  BY <1>1, <1>2, <1>3, Invariance, PTL DEF Spec

\* The three passes of nod_waveform_status_init_thread bring up every waveform, whatever
\* its links, and with it every control port whose writer does not wait for a module
\* behind it.
THEOREM InitsComplete == Spec => []InitCompletes
<1>1. Typed /\ InitsInv => InitCompletes
  <2>. SUFFICES ASSUME Typed, InitsInv PROVE InitCompletes  OBVIOUS
  <2>1. ~NoneBehind => \E l \in Links : l.to = wf.ctrl /\ l.from > wf.ctrl
    BY WaveformFacts DEF NoneBehind
  <2>. QED  BY <2>1 DEF InitsInv, InitCompletes
<1>2. Inv => Typed  BY DEF Inv
<1>. QED  BY <1>1, <1>2, Invariance, InitsInvariance, PTL

-----------------------------------------------------------------------------
\* A set of naturals that has a bound has a greatest element.
LEMMA Greatest ==
    ASSUME NEW S \in SUBSET Nat, S # {}, NEW b \in Nat, \A x \in S : x <= b
    PROVE  Max(S) \in S /\ \A x \in S : x <= Max(S)
<1>. DEFINE T == {n \in Nat : \A x \in S : x <= n}
<1>1. T \in SUBSET Nat /\ T # {}  OBVIOUS
<1>2. PICK n \in T : \A y \in T : n <= y
  <2>. HIDE DEF T
  <2>. QED  BY <1>1, LeastElement
<1>3. n \in S
  <2>. SUFFICES ASSUME n \notin S PROVE FALSE  OBVIOUS
  <2>1. PICK x \in S : TRUE  BY Zenon
  <2>2. n \in Nat /\ n > 0  BY <1>2, <2>1
  <2>3. n - 1 \in T  BY <1>2, <2>2
  <2>. QED  BY <1>2, <2>2, <2>3
<1>4. \E x \in S : \A y \in S : x >= y  BY <1>2, <1>3
<1>. QED  BY <1>4, Zenon DEF Max

\* A module reads its control port to the last packet that is due.
LEMMA AppliedIs ==
    ASSUME Inv, InitsInv, ControlInv, phase = "run", NEW m \in ctrl_in
    PROVE  LET due == {t \in queue[Port(m)] : t <= tstamp[m]}
           IN  /\ Taken(Port(m)) = due
               /\ Applied(m) \in {control[m]} \cup due
               /\ \A t \in {control[m]} \cup due : t <= Applied(m)
<1>. DEFINE due == {t \in queue[Port(m)] : t <= tstamp[m]}
<1>. DEFINE p == Port(m)
<1>1. m \in Mods /\ m > wf.ctrl /\ wf.ctrl # 0 /\ m # wf.ctrl
  BY WaveformFacts DEF Inv, InitsInv
<1>2. p \in Links /\ p.to = m /\ p.ctrl /\ p.delay = 1
  BY <1>1, WaveformFacts DEF Inv, Port
<1>3. tstamp[m] \in Nat /\ queue[p] \in SUBSET Nat /\ control[m] \in Nat
  BY <1>1, <1>2 DEF Inv, Typed, ControlInv
<1>4. Delay(p) = 1  BY <1>2 DEF Delay
<1>. HIDE DEF p
<1>5. Due(p) = {t \in queue[p] : t <= tstamp[m]}  BY <1>2, <1>3, <1>4 DEF Due
<1>6. Taken(p) = Due(p)  BY <1>2 DEF Taken, Drained
<1>7. {l \in Links : l.to = m /\ Drained(l)} = {p}
  <2>1. Drained(p)  BY <1>2 DEF Drained
  <2>2. ASSUME NEW l \in Links, l.to = m, Drained(l) PROVE l = p
    BY <1>1, <2>2, WaveformFacts DEF Drained, Inv, p
  <2>. QED  BY <1>2, <2>1, <2>2
<1>8. Taken(p) = due  BY <1>5, <1>6 DEF p
<1>. HIDE DEF due
<1>9. Applied(m) = Max({control[m]} \cup due)
  <2>1. UNION {Taken(l) : l \in {p}} = Taken(p)  OBVIOUS
  <2>. QED  BY <1>7, <1>8, <2>1, Zenon DEF Applied
<1>. DEFINE S == {control[m]} \cup due
<1>10. S \in SUBSET Nat /\ S # {} /\ control[m] + tstamp[m] \in Nat
       /\ \A x \in S : x <= control[m] + tstamp[m]
  BY <1>3 DEF due, p
<1>11. Max(S) \in S /\ \A x \in S : x <= Max(S)
  <2>. HIDE DEF S
  <2>. QED  BY <1>10, Greatest, Zenon
<1>. QED  BY <1>8, <1>9, <1>11 DEF p, due

\* The turn of a module that reads control packets.
LEMMA ReaderControl ==
    ASSUME Inv, InitsInv, ControlInv, NEW m \in ctrl_in, NEW sends \in BOOLEAN, Work(m, sends)
    PROVE  /\ control'[m] \in Nat
           /\ tstamp'[m] - 1 - skew <= control'[m] /\ control'[m] <= tstamp'[m] - 1
           /\ \A t \in 1 .. tstamp[wf.ctrl] : t \in queue'[Port(m)] \/ t <= control'[m]
<1>. DEFINE p == Port(m)
<1>. DEFINE due == {t \in queue[p] : t <= tstamp[m]}
<1>1. m \in Mods /\ m > wf.ctrl /\ wf.ctrl # 0 /\ m # wf.ctrl /\ wf.ctrl \in Mods
  BY WaveformFacts DEF Inv, InitsInv
<1>2. p \in Links /\ p.to = m /\ p.from = wf.ctrl
  BY <1>1, WaveformFacts DEF Inv, Port
<1>3. /\ tstamp[m] \in Nat /\ queue[p] \in SUBSET Nat /\ control[m] \in Nat
      /\ tstamp[wf.ctrl] \in Nat /\ skew \in Nat
  BY <1>1, <1>2, Zenon DEF Inv, Typed, ControlInv
<1>4. /\ phase = "run" /\ m \notin ran /\ tstamp'[m] = tstamp[m] + 1
      /\ control'[m] = Applied(m)
      /\ queue'[p] = queue[p] \ Taken(p)
  <2>1. phase = "run" /\ m \notin ran  BY DEF Work, MayRun
  <2>2. tstamp'[m] = tstamp[m] + 1  BY <1>1, Zenon DEF Work, Inv, Typed
  <2>3. control'[m] = Applied(m)  BY <1>1, Zenon DEF Work, ControlInv
  <2>4. queue'[p] = queue[p] \ Taken(p)
    <3>. HIDE DEF p
    <3>. QED  BY <1>1, <1>2, Zenon DEF Work
  <2>. QED  BY <2>1, <2>2, <2>3, <2>4, Zenon
<1>5. /\ Taken(p) = due
      /\ control'[m] \in {control[m]} \cup due
      /\ \A t \in {control[m]} \cup due : t <= control'[m]
  BY <1>4, AppliedIs
<1>. DEFINE M == control'[m]
<1>6. /\ M \in Nat /\ control[m] <= M
      /\ \A t \in queue[p] : t <= tstamp[m] => t <= M
      /\ \A t \in queue[p] : t > tstamp[m] => t \in queue'[p]
  BY <1>3, <1>4, <1>5
<1>7. control[m] <= tstamp[m]  BY <1>3 DEF ControlInv
<1>8. M <= tstamp[m]  BY <1>3, <1>5, <1>7, Zenon
<1>9. \A t \in 1 .. tstamp[wf.ctrl] : t \in queue[p] \/ t <= control[m]  BY DEF ControlInv
<1>10. tstamp[m] - skew <= tstamp[wf.ctrl]
  <2>1. PICK k \in 0 .. skew : Drift(p, k)  BY <1>2, <1>4, Zenon DEF Inv, Flow
  <2>2. Base(m) - Base(wf.ctrl) <= k  BY <1>2, <2>1, Zenon DEF Drift
  <2>3. Base(m) = tstamp[m]  BY <1>3, <1>4 DEF Base
  <2>4. Base(wf.ctrl) \in Int /\ Base(wf.ctrl) <= tstamp[wf.ctrl]  BY <1>3 DEF Base
  <2>. QED  BY <1>3, <2>1, <2>2, <2>3, <2>4
<1>. HIDE DEF p, due, M
<1>11. tstamp[m] - skew <= M
  <2>1. CASE tstamp[m] - skew <= 0  BY <1>3, <1>6, <2>1
  <2>2. CASE tstamp[m] - skew > 0
    <3>. DEFINE u == tstamp[m] - skew
    <3>1. u \in 1 .. tstamp[wf.ctrl] /\ u <= tstamp[m]  BY <1>3, <1>10, <2>2
    <3>. HIDE DEF u
    <3>2. u <= M  BY <1>3, <1>6, <1>9, <3>1
    <3>. QED  BY <3>2 DEF u
  <2>. QED  BY <1>3, <2>1, <2>2
<1>12. \A t \in 1 .. tstamp[wf.ctrl] : t \in queue'[p] \/ t <= M
  BY <1>3, <1>6, <1>9
<1>. QED  BY <1>3, <1>4, <1>6, <1>8, <1>11, <1>12 DEF M, p

\* What a module applies is the number of a run.
LEMMA AppliedType ==
    ASSUME Inv, InitsInv, ControlInv, phase = "run", NEW m \in Mods
    PROVE  Applied(m) \in Nat
<1>. DEFINE In == {l \in Links : l.to = m /\ Drained(l)}
<1>. DEFINE S == {control[m]} \cup UNION {Taken(l) : l \in In}
<1>1. control[m] \in Nat /\ tstamp[m] \in Nat  BY DEF ControlInv, Inv, Typed
<1>2. ASSUME NEW l \in In, NEW t \in Taken(l) PROVE t \in Nat /\ t <= tstamp[m] + 1
  <2>1. t \in Due(l)  BY <1>2 DEF Taken
  <2>2. t \in Nat /\ t + Delay(l) <= tstamp[m] + 1  BY <1>2, <2>1 DEF Due, Inv, Typed
  <2>3. Delay(l) \in Nat  BY <1>2, DelayType DEF Inv, Typed
  <2>. QED  BY <1>1, <2>2, <2>3
<1>3. S \in SUBSET Nat /\ S # {} /\ control[m] + tstamp[m] + 1 \in Nat
  <2>1. ASSUME NEW x \in S PROVE x \in Nat
    <3>1. CASE x = control[m]  BY <1>1, <3>1
    <3>2. CASE x # control[m]
      <4>1. PICK l \in In : x \in Taken(l)  BY <2>1, <3>2
      <4>. QED  BY <1>2, <4>1
    <3>. QED  BY <3>1, <3>2
  <2>2. control[m] \in S  OBVIOUS
  <2>3. control[m] + tstamp[m] + 1 \in Nat  BY <1>1
  <2>. QED  BY <2>1, <2>2, <2>3
<1>4. ASSUME NEW x \in S PROVE x <= control[m] + tstamp[m] + 1
  <2>1. CASE x = control[m]  BY <1>1, <2>1
  <2>2. CASE x # control[m]
    <3>1. x \in Nat /\ x <= tstamp[m] + 1  BY <1>2, <1>4, <2>2
    <3>. QED  BY <1>1, <3>1
  <2>. QED  BY <2>1, <2>2
<1>. HIDE DEF S
<1>5. Max(S) \in S  BY <1>3, <1>4, Greatest, Zenon
<1>. QED  BY <1>3, <1>5 DEF Applied, S

\* The turn of any module: the control module sends to every port.
LEMMA WorkControl ==
    ASSUME Inv, InitsInv, ControlInv, NEW m \in Mods, NEW sends \in BOOLEAN, Work(m, sends)
    PROVE  ControlInv'
<1>1. /\ UNCHANGED <<wf, ctrl_in, phase, skew>> /\ phase \notin Fresh
      /\ Mods' = Mods /\ Links' = Links
      /\ ctrl_in \subseteq {q \in Mods : q > wf.ctrl} /\ (wf.ctrl = 0 => ctrl_in = {})
  BY Zenon DEF Work, MayRun, load, init, Fresh, Mods, Links, InitsInv
<1>2. /\ tstamp \in [Mods -> Nat] /\ tstamp' = [tstamp EXCEPT ![m] = @ + 1]
      /\ control \in [Mods -> Nat] /\ control' = [control EXCEPT ![m] = Applied(m)]
  BY Zenon DEF Work, Inv, Typed, ControlInv
<1>3. \A a \in Mods \ {m} : tstamp'[a] = tstamp[a] /\ control'[a] = control[a]
  BY <1>2
<1>4. tstamp'[m] = tstamp[m] + 1 /\ tstamp[m] \in Nat  BY <1>2
<1>5. \A q : Port(q)' = Port(q)  BY <1>1 DEF Port
<1>6. wf.ctrl # 0 => wf.ctrl \in Mods  BY WaveformFacts DEF Inv
<1>7. ASSUME NEW q \in ctrl_in
      PROVE  /\ tstamp'[q] = 0 => control'[q] = 0
             /\ tstamp'[q] > 0 => tstamp'[q] - 1 - skew <= control'[q] /\ control'[q] <= tstamp'[q] - 1
             /\ \A t \in 1 .. tstamp'[wf.ctrl] : t \in queue'[Port(q)] \/ t <= control'[q]
  <2>1. q \in Mods /\ q > wf.ctrl /\ q # wf.ctrl /\ wf.ctrl # 0 /\ wf.ctrl \in Mods
    BY <1>1, <1>6, <1>7, WaveformFacts DEF Inv
  <2>2. CASE q = m
    <3>1. tstamp'[wf.ctrl] = tstamp[wf.ctrl]  BY <1>3, <2>1, <2>2
    <3>. QED  BY <1>4, <2>2, <3>1, ReaderControl
  <2>3. CASE q # m
    <3>1. tstamp'[q] = tstamp[q] /\ control'[q] = control[q]  BY <1>3, <2>1, <2>3
    <3>. DEFINE p == Port(q)
    <3>2. p \in Links /\ p.to = q /\ p.from = wf.ctrl
      BY <2>1, WaveformFacts DEF Inv, Port
    <3>. HIDE DEF p
    <3>3. queue'[p] = queue[p] \cup (IF wf.ctrl = m /\ sends THEN {tstamp'[m]} ELSE {})
      BY <2>3, <3>2, Zenon DEF Work
    <3>4. wf.ctrl = m => sends  BY Zenon DEF Work, Sends
    <3>5. ASSUME NEW t \in 1 .. tstamp'[wf.ctrl] PROVE t \in queue'[p] \/ t <= control[q]
      <4>1. CASE t \in 1 .. tstamp[wf.ctrl]  BY <3>3, <4>1, Zenon DEF ControlInv, p
      <4>2. CASE t \notin 1 .. tstamp[wf.ctrl]
        <5>1. wf.ctrl = m  BY <1>3, <2>1, <3>5, <4>2
        <5>2. t = tstamp'[m]  BY <1>4, <3>5, <4>2, <5>1
        <5>. QED  BY <3>3, <3>4, <5>1, <5>2
      <4>. QED  BY <4>1, <4>2
    <3>6. /\ tstamp[q] = 0 => control[q] = 0
          /\ tstamp[q] > 0 => tstamp[q] - 1 - skew <= control[q] /\ control[q] <= tstamp[q] - 1
      BY DEF ControlInv
    <3>. QED  BY <3>1, <3>5, <3>6, Zenon DEF p
  <2>. QED  BY <2>2, <2>3, Zenon
<1>8. control' \in [Mods -> Nat]
  <2>1. phase = "run"  BY Zenon DEF Work, MayRun
  <2>2. Applied(m) \in Nat  BY <2>1, AppliedType
  <2>. QED  BY <1>2, <2>2
<1>. QED  BY <1>1, <1>5, <1>7, <1>8, Zenon DEF ControlInv

\* The commands of the user leave the control packets alone; before the first run there
\* are none.
LEMMA OtherControl ==
    ASSUME Inv, Inv', InitsInv, InitsInv', ControlInv, [Next]_vars,
           ~(\E m \in Mods, sends \in BOOLEAN : Work(m, sends))
    PROVE  ControlInv'
<1>1. UNCHANGED <<wf, tstamp, queue, control>> /\ Mods' = Mods
  BY Zenon DEF Next, vars, load, flow, Load, StartInit, InitStep, Run, Pause, SetMode, Fault, EndSlot, Mods
<1>2. \A q : Port(q)' = Port(q)  BY <1>1 DEF Port
<1>3. CASE phase' \in Fresh
  <2>1. phase \in Fresh
    BY <1>3, Zenon DEF Next, vars, Load, StartInit, InitStep, Run, Pause, SetMode, Fault, EndSlot, Fresh, MayRun
  <2>2. control = [m \in Mods |-> 0] /\ tstamp = [m \in Mods |-> 0]
    BY <2>1, Zenon DEF ControlInv, Inv, Quiet
  <2>3. ctrl_in' \subseteq Mods /\ (ctrl_in' # {} => wf.ctrl \in Mods)
    BY <1>1, WaveformFacts DEF InitsInv, Inv
  <2>. QED  BY <1>1, <1>2, <2>2, <2>3 DEF ControlInv
<1>4. CASE phase' \notin Fresh
  <2>1. ctrl_in' = ctrl_in
    BY <1>4, Zenon DEF Next, vars, init, Load, StartInit, InitStep, Run, Pause, SetMode, Fault, EndSlot, Fresh
  <2>2. skew' \in Nat /\ skew \in Nat /\ skew <= skew'
    <3>1. skew \in Nat /\ skew' \in Nat  BY Zenon DEF Inv, Typed
    <3>2. skew' = skew \/ \E R : skew' = skew + Split(R)
      BY Zenon DEF Next, vars, Load, StartInit, InitStep, Run, Pause, SetMode, Fault, EndSlot
    <3>3. \A R : Split(R) \in {0, 1}  BY DEF Split
    <3>. QED  BY <3>1, <3>2, <3>3
  <2>3. \A q \in ctrl_in : tstamp[q] \in Nat /\ control[q] \in Nat
    BY Zenon DEF InitsInv, Inv, Typed, ControlInv
  <2>4. ASSUME NEW q \in ctrl_in, tstamp[q] > 0
        PROVE  tstamp[q] - 1 - skew' <= control[q] /\ control[q] <= tstamp[q] - 1
    <3>1. tstamp[q] - 1 - skew <= control[q] /\ control[q] <= tstamp[q] - 1
      BY <2>4, Zenon DEF ControlInv
    <3>2. tstamp[q] \in Nat /\ control[q] \in Nat  BY <2>3, Zenon
    <3>. QED  BY <2>2, <3>1, <3>2
  <2>. QED  BY <1>1, <1>2, <1>4, <2>1, <2>4, Zenon DEF ControlInv
<1>. QED  BY <1>3, <1>4

\* Whatever the order in which the processors run the modules of a slot, the parameters of
\* a run are those the control module sent one run before, and older only by one run for
\* each command inside a slot (remote_parameters_sendall, process_ctrl_packet).
THEOREM ControlIsInForce == Spec => []ControlInForce
<1>1. Init => ControlInv
  <2>. SUFFICES ASSUME NEW x \in Loads, Loading(x) PROVE ControlInv  BY DEF Init
  <2>1. ctrl_in = {} /\ control = [m \in Mods |-> 0]  BY DEF Loading
  <2>. QED  BY <2>1 DEF ControlInv
<1>2. Inv /\ Inv' /\ InitsInv /\ InitsInv' /\ ControlInv /\ [Next]_vars => ControlInv'
  BY WorkControl, OtherControl
<1>3. ControlInv => ControlInForce
  <2>. SUFFICES ASSUME ControlInv PROVE ControlInForce  OBVIOUS
  <2>. QED  BY DEF ControlInv, ControlInForce
<1>. QED  BY <1>1, <1>2, <1>3, Invariance, InitsInvariance, PTL DEF Spec

-----------------------------------------------------------------------------
\* A set of numbers has no more members than the interval it lies in.
LEMMA Within ==
    ASSUME NEW S, NEW a \in Int, NEW b \in Int, S \subseteq a .. b,
           NEW n \in Nat, b - a + 1 <= n
    PROVE  Cardinality(S) \in Nat /\ Cardinality(S) <= n
<1>1. IsFiniteSet(a .. b)  BY FS_Interval
<1>2. Cardinality(a .. b) = IF a > b THEN 0 ELSE b - a + 1  BY FS_Interval
<1>3. IsFiniteSet(S) /\ Cardinality(S) <= Cardinality(a .. b)  BY <1>1, FS_Subset, Zenon
<1>4. Cardinality(S) \in Nat  BY <1>3, FS_CardinalityType
<1>. QED  BY <1>2, <1>3, <1>4

\* A module about to run finds at most skew + Delay packets in an output.
LEMMA RoomLeft ==
    ASSUME Inv, NEW l \in Links, phase = "run", l.from \notin ran, Ordered(l), ~Unread(l)
    PROVE  Cardinality(queue[l]) \in Nat /\ Cardinality(queue[l]) <= skew + Delay(l)
<1>1. l.from \in Mods /\ l.to \in Mods  BY LinkTypes DEF Inv
<1>2. Delay(l) \in Nat  BY DelayType, SMTT(30) DEF Inv, Typed
<1>3. PICK k \in 0 .. skew : Drift(l, k)  BY Zenon DEF Inv, Flow
<1>4. /\ tstamp[l.to] \in Nat /\ tstamp[l.from] \in Nat /\ skew \in Nat /\ k \in Nat
      /\ queue[l] \in SUBSET Nat
  BY <1>1, <1>3 DEF Inv, Typed
<1>5. tstamp[l.from] - tstamp[l.to] <= skew - k
  <2>1. Base(l.from) = tstamp[l.from]  BY <1>4 DEF Base
  <2>2. Base(l.to) <= tstamp[l.to] /\ Base(l.to) \in Int  BY <1>4 DEF Base
  <2>. QED  BY <1>3, <1>4, <2>1, <2>2 DEF Drift
<1>. DEFINE lo == tstamp[l.to] - Delay(l) - k + 1
<1>6. lo \in Int /\ lo = tstamp[l.to] - Delay(l) - k + 1  BY <1>2, <1>4
<1>7. queue[l] \subseteq lo .. tstamp[l.from]
  <2>1. ASSUME NEW t \in queue[l] PROVE t \in lo .. tstamp[l.from]
    <3>1. tstamp[l.to] < t + Delay(l) + k  BY <1>3, SMTT(30) DEF Drift
    <3>2. t <= tstamp[l.from]  BY DEF Inv, Flow
    <3>. QED  BY <3>1, <3>2, <1>2, <1>4, <1>6
  <2>. QED  BY <2>1
<1>8. tstamp[l.from] - lo + 1 <= skew + Delay(l)  BY <1>2, <1>4, <1>5, <1>6
<1>9. skew + Delay(l) \in Nat  BY <1>2, <1>4
<1>. HIDE DEF lo
<1>. QED  BY <1>4, <1>6, <1>7, <1>8, <1>9, Within, SMTT(30)

\* A link takes more messages than that while fewer commands fell inside a
\* slot than OESR_ITF_DEFAULT_MSG.
LEMMA RingSize ==
    ASSUME Inv, NEW l \in Links, phase = "run", skew < DEFAULT_MSG
    PROVE  skew + Delay(l) < nof_msg(l)
<1>1. Delay(l) \in Nat /\ skew \in Nat  BY DelayType DEF Inv, Typed
<1>2. DEFAULT_MSG \in Nat /\ DEFAULT_MSG >= 1 /\ CtrlRing \in Nat  BY RingAssumption
<1>3. \A a, b \in Nat : a >= 1 => a * (b + 1) >= a + b /\ a * (b + 1) \in Nat  BY SMT
<1>. QED  BY <1>1, <1>2, <1>3 DEF nof_msg

\* No module of a waveform whose links are ordered, and whose control ports
\* are all there, finds an output without room before DEFAULT_MSG commands
\* fell inside a slot (oesr_itf_create, Run of skeleton.c).
THEOREM RingsSuffice == Spec => []RingSuffices
<1>1. Init => RingSuffices  BY SMTT(30) DEF Init, Loading, RingSuffices
<1>2. Inv /\ RingSuffices /\ [Next]_vars => RingSuffices'
  <2>. SUFFICES ASSUME Inv, RingSuffices, [Next]_vars, phase' = "error"
                PROVE  RingSuffices'
    BY SMTT(30) DEF RingSuffices
  <2>1. CASE UNCHANGED vars
    BY <2>1, Zenon DEF RingSuffices, vars, load, init, flow, Ordered, Delay, Before, Links
  <2>2. ASSUME NEW m \in Mods, Fault(m) PROVE RingSuffices'
    <3>1. /\ UNCHANGED <<wf, place, ctrl_in, skew>> /\ phase = "run" /\ m \notin ran
      BY <2>2 DEF Fault, MayRun, load, init
    <3>2. PICK l \in Links : l.from = m /\ Cardinality(queue[l]) >= nof_msg(l)
      BY <2>2 DEF Fault, Full
    <3>3. \/ skew >= DEFAULT_MSG
          \/ \E x \in Links : ~Ordered(x) \/ (x.ctrl /\ x.to \notin ctrl_in)
      <4>. SUFFICES ASSUME skew < DEFAULT_MSG, Ordered(l), ~Unread(l) PROVE FALSE
        BY RingAssumption DEF Unread, Inv, Typed
      <4>1. Cardinality(queue[l]) \in Nat /\ Cardinality(queue[l]) <= skew + Delay(l)
        BY <3>1, <3>2, RoomLeft, SMTT(30)
      <4>2. skew + Delay(l) < nof_msg(l)  BY <3>1, RingSize
      <4>3. skew + Delay(l) \in Nat  BY <3>1, DelayType DEF Inv, Typed
      <4>4. nof_msg(l) \in Int  BY <3>1, DelayType, RingAssumption DEF Inv, Typed, nof_msg
      <4>. QED  BY <3>2, <4>1, <4>2, <4>3, <4>4
    <3>. QED  BY <3>1, <3>3, Zenon DEF RingSuffices, Ordered, Delay, Before, Links
  <2>3. ASSUME Next PROVE phase = "run" /\ \E m \in Mods : Fault(m)
    <3>1. ~(Load \/ StartInit \/ InitStep)  BY Zenon DEF Load, StartInit, InitStep
    <3>2. ~((\E R \in SUBSET Mods : Run(R)) \/ Pause \/ SetMode \/ EndSlot)
      BY Zenon DEF Run, Pause, SetMode, EndSlot
    <3>3. ~(\E m \in Mods, sends \in BOOLEAN : Work(m, sends))  BY Zenon DEF Work, MayRun
    <3>4. \E m \in Mods : Fault(m)  BY <2>3, <3>1, <3>2, <3>3 DEF Next
    <3>. QED  BY <3>4 DEF Fault, MayRun
  <2>. QED  BY <2>1, <2>2, <2>3
<1>. QED  BY <1>1, <1>2, Invariance, PTL DEF Spec

=============================================================================
