------------------------------ MODULE Dataflow ------------------------------
(***************************************************************************)
(* A waveform from the manager to its packets: mapping_map places it, the   *)
(* init thread of its node initialises the modules (skeleton.c,            *)
(* ctrl_skeleton.c, oesr_itf.c), and then every module runs once a slot, in *)
(* the order of the waveform on each processor and in any order across      *)
(* them.  RUN and PAUSE reach a module when its turn comes, so that within  *)
(* the slot of the command some modules follow it and some do not.          *)
(*                                                                         *)
(* A packet is the number of the run that sent it, which is also its time   *)
(* stamp without the delay of the link.  A module may have nothing to send. *)
(* Every run reads a parameter, and so looks at the mode.                   *)
(***************************************************************************)
EXTENDS Mapping

CONSTANTS
    Loads,          \* [wf, plat, user]: waveforms of more tasks than the
                    \* window, and whether the user loads, starts or also pauses them
    Lead,           \* slots from a mode command to the switch, 10
    DEFAULT_MSG,    \* OESR_ITF_DEFAULT_MSG, 4
    CtrlRing,       \* messages a control link takes more than others, 128
    MaxSlots, MaxTurns, MaxIdle, MaxModes   \* bounds of the instance

Placement(w) == [ok : {TRUE}, proc : [Modules(w) -> Nat], stage : [Modules(w) -> Nat]]

ASSUME LoadsAssumption ==
    \A x \in Loads :
        /\ x.wf.n \in Nat \ {0} /\ x.wf.ctrl \in 0 .. x.wf.n
        /\ \A l \in x.wf.links :
              /\ l.from \in Modules(x.wf) /\ l.to \in Modules(x.wf)
              /\ l.delay \in Nat \cup {-1} /\ ~l.ctrl
              /\ l.from = l.to => l.from # x.wf.ctrl   \* the control module does not feed itself

ASSUME MapperAssumption ==
    \A x \in Loads : mapping_map(x.wf, x.plat) \in Placement(x.wf) \cup {Refused}

ASSUME RingAssumption == DEFAULT_MSG \in Nat \ {0} /\ CtrlRing \in Nat

ASSUME LeadAssumption == Lead \in Nat \ {0}

VARIABLES
    wf, plat, user, \* the waveform, the platform it is loaded on, what the user does
    place,          \* processor and stage of each module, from mapping_map
    phase,          \* parsed, refused, loaded, init, failed, ready, run, paused, error
    trial, next,    \* the init thread: passes made, module at hand
    made,           \* modules whose output interfaces exist
    inited,         \* modules with status INIT
    ctrl_in,        \* modules with a control port
    slot,           \* rtdal_time_slot
    ran,            \* modules whose turn of the slot has passed
    tstamp,         \* runs of each module
    queue,          \* packets waiting in each link
    got,            \* packet each link gave to the last run of its reader, or 0
    control,        \* latest control packet each module applied
    mode,           \* cur_mode, next_mode and next_tslot of each module
    used,           \* mode of each run of each module
    turns, skew,    \* RUN and PAUSE commands; those that fell inside a slot
    idle, modes     \* runs that sent nothing; mode commands

load == <<wf, plat, user, place>>
init == <<trial, next, made, inited, ctrl_in>>
flow == <<ran, tstamp, queue, got, control, mode, used>>
vars == <<load, phase, init, slot, flow, turns, skew, idle, modes>>

Links == AllLinks(wf)
Mods  == Modules(wf)

\* delay of an interface: given, or the stages between its ends.
Delay(l) ==
    LET d == place.stage[l.from] - place.stage[l.to]
    IN  IF l.delay # -1 THEN l.delay ELSE IF d < 0 THEN -d ELSE d

\* Mutant: no message more than the delay needs.
nof_msg_NoSpare(l) == DEFAULT_MSG * Delay(l) + (IF l.ctrl THEN CtrlRing ELSE 0)

\* oesr_itf_create: messages of an output.
nof_msg(l) == DEFAULT_MSG * (Delay(l) + 1) + (IF l.ctrl THEN CtrlRing ELSE 0)

Before(a, b) == place.proc[a] = place.proc[b] /\ a < b

\* Waveform x is parsed and not yet loaded.
Loading(x) ==
    /\ wf = x.wf /\ plat = x.plat /\ user = x.user
    /\ place = Refused /\ phase = "parsed"
    /\ trial = 0 /\ next = 1 /\ made = {} /\ inited = {} /\ ctrl_in = {}
    /\ slot = 1 /\ ran = {}
    /\ tstamp = [m \in Mods |-> 0] /\ control = [m \in Mods |-> 0]
    /\ queue = [l \in Links |-> {}] /\ got = [l \in Links |-> 0]
    /\ mode = [m \in Mods |-> [cur |-> 0, next |-> 0, at |-> 0]]
    /\ used = [m \in Mods |-> <<>>]
    /\ turns = 0 /\ skew = 0 /\ idle = 0 /\ modes = 0

Init == \E x \in Loads : Loading(x)

-----------------------------------------------------------------------------
\* waveform_load
Load ==
    /\ phase = "parsed"
    /\ place' = mapping_map(wf, plat)
    /\ phase' = IF place'.ok THEN "loaded" ELSE "refused"
    /\ UNCHANGED <<wf, plat, user, init, slot, flow, turns, skew, idle, modes>>

\* nod_waveform_status_init
StartInit ==
    /\ phase = "loaded" /\ user # "load"
    /\ phase' = "init"
    /\ UNCHANGED <<load, init, slot, flow, turns, skew, idle, modes>>

\* An input interface is ready once its writer has made it.
Ready(m, outs) == \A l \in Links : (l.to = m /\ ~l.ctrl) => l.from \in outs

\* Mutant: the inputs come first.
InitInterfaces_InputsFirst(m) ==
    LET ok == Ready(m, made)
    IN  /\ made' = IF ok THEN made \cup {m} ELSE made
        /\ ctrl_in' = IF ok /\ wf.ctrl \in made /\ wf.ctrl < m THEN ctrl_in \cup {m} ELSE ctrl_in
        /\ inited' = IF ok THEN inited \cup {m} ELSE inited

\* init_interfaces of skeleton.c: the outputs, then the control port, which
\* is done without if its writer is not ready, then the inputs.
InitInterfaces(m) ==
    /\ made' = made \cup {m}
    /\ ctrl_in' = IF wf.ctrl \in made /\ wf.ctrl < m THEN ctrl_in \cup {m} ELSE ctrl_in
    /\ inited' = IF Ready(m, made') THEN inited \cup {m} ELSE inited

\* init_remote_variables, scan_remote_itf and init_remote_itf: an output to
\* every module after it in the chain whose parameters it sets.
InitRemote(m) == made' = made \cup {m}

\* Init of ctrl_skeleton.c: its input, then the outputs.
InitCtrl(m) ==
    /\ IF Ready(m, made) THEN InitRemote(m) /\ inited' = inited \cup {m}
       ELSE UNCHANGED <<made, inited>>
    /\ UNCHANGED ctrl_in

\* Init of the module's skeleton, unless it has come up before.
InitModule(m) ==
    IF m \in inited THEN UNCHANGED <<made, inited, ctrl_in>>
    ELSE IF m = wf.ctrl THEN InitCtrl(m) ELSE InitInterfaces(m)

\* One step of nod_waveform_status_init_thread.  The third pass is the last,
\* and its end is a failure even if the last module has just come up.
InitStep ==
    /\ phase = "init"
    /\ InitModule(next)
    /\ next' = IF next = wf.n THEN 1 ELSE next + 1
    /\ trial' = IF next = wf.n THEN trial + 1 ELSE trial
    /\ phase' = IF next = wf.n /\ trial' = 3 THEN "failed"
                ELSE IF inited' = Mods THEN "ready" ELSE "init"
    /\ UNCHANGED <<load, slot, flow, turns, skew, idle, modes>>

-----------------------------------------------------------------------------
\* Sets of modules whose turn can have passed: first ones on each processor.
Closed(R) == \A a, b \in Mods : Before(a, b) /\ b \in R => a \in R

Split(R) == IF R = {} \/ R = Mods THEN 0 ELSE 1

\* nod_waveform_status_new with RUN, at any point of the slot at hand or, if
\* the waveform was paused, of the next: the modules of R have had their turn.
Run(R) ==
    /\ phase \in {"ready", "paused"} /\ turns < MaxTurns
    /\ Closed(R)
    /\ \/ ran \subseteq R /\ slot' = slot
       \/ phase = "paused" /\ slot < MaxSlots /\ slot' = slot + 1
    /\ phase' = "run" /\ ran' = R
    /\ turns' = turns + 1 /\ skew' = skew + Split(R)
    /\ UNCHANGED <<load, init, tstamp, queue, got, control, mode, used, idle, modes>>

\* ... and with PAUSE.
Pause ==
    /\ phase = "run" /\ turns < MaxTurns /\ user = "pause"
    /\ phase' = "paused"
    /\ turns' = turns + 1 /\ skew' = skew + Split(ran)
    /\ UNCHANGED <<load, init, slot, flow, idle, modes>>

\* Mutant: all modules switch in the same slot.
SetMode_SameSlot ==
    /\ phase = "run" /\ modes < MaxModes
    /\ modes' = modes + 1
    /\ mode' = [m \in Mods |-> [cur |-> mode[m].cur, next |-> modes', at |-> slot + Lead]]
    /\ UNCHANGED <<load, init, phase, slot, ran, tstamp, queue, got, control, used,
                   turns, skew, idle>>

\* waveform_mode_set, and what the node makes of it.
SetMode ==
    /\ phase = "run" /\ modes < MaxModes
    /\ modes' = modes + 1
    /\ mode' = [m \in Mods |-> [cur |-> mode[m].cur, next |-> modes',
                                at |-> slot + Lead + place.stage[m]]]
    /\ UNCHANGED <<load, init, phase, slot, ran, tstamp, queue, got, control, used,
                   turns, skew, idle>>

\* Control ports are read until they are empty, inputs once.
Drained(l) == l.ctrl \/ l.to = wf.ctrl

\* Mutant: a packet of data may be read in the slot before it is due.
Due_Early(l) == {t \in queue[l] : t + Delay(l) <= tstamp[l.to] + (IF l.ctrl THEN 1 ELSE 2)}

\* rtdal_itfspscq_pop: the packets that the next run of the reader may have.
Due(l) == {t \in queue[l] : t + Delay(l) <= tstamp[l.to] + 1}

Taken(l) ==
    IF l.ctrl /\ l.to \notin ctrl_in THEN {}
    ELSE IF Drained(l) \/ Due(l) = {} THEN Due(l)
    ELSE {t \in Due(l) : \A u \in Due(l) : t <= u}

\* oesr_var_param_get_value: the mode in force.
ModeOf(m) ==
    IF mode[m].at # 0 /\ mode[m].at <= slot
    THEN [cur |-> mode[m].next, next |-> mode[m].next, at |-> 0]
    ELSE mode[m]

\* _run_cycle: module m is next on its processor.
MayRun(m) ==
    /\ phase = "run" /\ m \in Mods \ ran
    /\ \A a \in Mods : Before(a, m) => a \in ran

\* oesr_itf_ptr_request, or the write of a control packet, finds no room.
Full(m) == \E l \in Links : l.from = m /\ Cardinality(queue[l]) >= nof_msg(l)

\* remote_parameters_sendall sends every time; a work() may send nothing.
Sends(m, sends) ==
    /\ sends \/ (m # wf.ctrl /\ idle < MaxIdle)
    /\ idle' = IF sends THEN idle ELSE idle + 1

\* process_ctrl_packet: the parameters the packets set.
Applied(m) ==
    Max({control[m]} \cup UNION {Taken(l) : l \in {l \in Links : l.to = m /\ Drained(l)}})

\* Its turn: Run of skeleton.c, or of ctrl_skeleton.c.
Work(m, sends) ==
    /\ MayRun(m) /\ ~Full(m)
    /\ Sends(m, sends)
    /\ ran' = ran \cup {m}
    /\ tstamp' = [tstamp EXCEPT ![m] = @ + 1]
    /\ queue' = [l \in Links |->
                    (IF l.to = m THEN queue[l] \ Taken(l) ELSE queue[l])
                    \cup (IF l.from = m /\ sends THEN {tstamp'[m]} ELSE {})]
    /\ got' = [l \in Links |->
                 IF l.to # m THEN got[l]
                 ELSE IF Drained(l) \/ Taken(l) = {} THEN 0
                 ELSE CHOOSE t \in Taken(l) : TRUE]
    /\ control' = [control EXCEPT ![m] = Applied(m)]
    /\ mode' = [mode EXCEPT ![m] = ModeOf(m)]
    /\ used' = [used EXCEPT ![m] = Append(@, mode'[m].cur)]
    /\ UNCHANGED <<load, phase, init, slot, turns, skew, modes>>

\* An output without room: Run fails, and the waveform with it.
Fault(m) ==
    /\ MayRun(m) /\ Full(m)
    /\ phase' = "error"
    /\ UNCHANGED <<load, init, slot, flow, turns, skew, idle, modes>>

EndSlot ==
    /\ phase = "run" /\ ran = Mods /\ slot < MaxSlots
    /\ slot' = slot + 1 /\ ran' = {}
    /\ UNCHANGED <<load, phase, init, tstamp, queue, got, control, mode, used,
                   turns, skew, idle, modes>>

Next ==
    \/ Load \/ StartInit \/ InitStep
    \/ \E R \in SUBSET Mods : Run(R)
    \/ Pause \/ SetMode
    \/ \E m \in Mods, sends \in BOOLEAN : Work(m, sends)
    \/ \E m \in Mods : Fault(m)
    \/ EndSlot

Spec == Init /\ [][Next]_vars
-----------------------------------------------------------------------------
\* Every variable keeps its type; nobody runs ahead of what it has read.
TypeOK ==
    /\ phase \in {"parsed", "refused", "loaded", "init", "failed", "ready", "run", "paused", "error"}
    /\ trial \in 0 .. 3 /\ next \in Mods
    /\ made \subseteq Mods /\ inited \subseteq made /\ ctrl_in \subseteq made
    /\ ran \subseteq Mods /\ slot \in 1 .. MaxSlots
    /\ tstamp \in [Mods -> Nat] /\ control \in [Mods -> Nat]
    /\ queue \in [Links -> SUBSET Nat] /\ got \in [Links -> Nat]
    /\ turns \in 0 .. MaxTurns /\ skew \in 0 .. turns
    /\ idle \in 0 .. MaxIdle /\ modes \in 0 .. MaxModes

\* No processor is given more than its share of the slot (cost_compU).
MappingFits ==
    place.ok =>
        \A p \in 0 .. plat.N - 1 :
            MapThenSumSet(LAMBDA m : wf.c[m], {m \in Mods : place.proc[m] = p})
                <= generate_model_platform(plat).C[p]

\* A waveform that one processor could hold is never refused for want of
\* resources, whatever the trellis prunes.
MappingFound ==
    phase = "refused" =>
        \/ wf.granularity # 0
        \/ \A p \in 0 .. plat.N - 1 :
              MapThenSumSet(LAMBDA m : wf.c[m], Mods) > generate_model_platform(plat).C[p]

\* A link the slots of the pipeline order: its packets cross a slot boundary,
\* or its ends share a processor that runs the writer first.
Ordered(l) == Delay(l) >= 1 \/ Before(l.from, l.to)

\* Wherever the trellis puts the tasks, every data link to a later module of
\* the waveform is ordered, if both its ends need computation.
LinksAreOrdered ==
    place.ok => \A l \in Links :
        (~l.ctrl /\ l.from < l.to /\ wf.c[l.from] > 0 /\ wf.c[l.to] > 0) => Ordered(l)

\* The three passes of the init thread are enough for every waveform, links
\* back in the chain included, and no module is left without the control
\* port it should have, unless the control module itself waits for a later one.
InitCompletes ==
    /\ phase # "failed"
    /\ phase = "ready" /\ wf.ctrl # 0 =>
          \/ ctrl_in = wf.ctrl + 1 .. wf.n
          \/ \E l \in Links : l.to = wf.ctrl /\ l.from > wf.ctrl

\* A packet is read exactly Delay runs after the one that sent it, or later by
\* at most one run for each RUN or PAUSE command that fell inside a slot.
\* Nothing the processors do between two slot boundaries changes that.
Punctual ==
    place.ok => \A l \in Links : Ordered(l) =>
        /\ \A t \in queue[l] :
              (l.ctrl /\ l.to \notin ctrl_in) \/ tstamp[l.to] < t + Delay(l) + skew
        /\ got[l] # 0 =>
              tstamp[l.to] \in got[l] + Delay(l) .. got[l] + Delay(l) + skew

\* The parameters of a run are those the control module sent one run before,
\* or as many runs earlier as commands fell inside a slot.
ControlInForce ==
    \A m \in ctrl_in : tstamp[m] > 0 =>
        /\ control[m] <= tstamp[m] - 1
        /\ control[m] >= tstamp[m] - 1 - skew

\* A packet is processed in one mode from end to end: the switch travels down
\* the pipeline with it, if the modules started together, were not paused
\* since, and one mode command was given.
OneModePerPacket ==
    skew = 0 /\ turns = 1 /\ modes = 1 =>
        \A l \in Links :
            (got[l] # 0 /\ Ordered(l) /\ l.delay = -1 /\ place.stage[l.from] <= place.stage[l.to])
            => used[l.from][got[l]] = used[l.to][tstamp[l.to]]

\* The messages oesr_itf_create gives a link are enough: no module finds an
\* output without room before as many commands fell inside a slot as a link
\* without delay takes messages, if every control port is there to be read
\* and every link is ordered.
RingSuffices ==
    phase = "error" =>
        \/ skew >= DEFAULT_MSG
        \/ \E l \in Links : ~Ordered(l) \/ (l.ctrl /\ l.to \notin ctrl_in)
=============================================================================
