---------------------------- MODULE WaveformLoad ----------------------------
(***************************************************************************)
(* waveform_load of man_waveform.c: the manager reads the file of a         *)
(* waveform (Parser), maps it (Mapping) and sends it to the node           *)
(* (Messages), where it comes up and runs (Dataflow).                      *)
(***************************************************************************)
EXTENDS Dataflow, Messages

VARIABLES
    file,           \* the file that says what wf is
    node,           \* the modules the node was sent
    step            \* file, unparsed, warned, parsed, refused, unsent, sent

loaded == <<file, node, step>>

LoadInit ==
    /\ \E x \in Loads : Loading(x) /\ file = x.file
    /\ node = <<>> /\ step = "file"

\* The manager reads the file.  What becomes of a waveform it has complained
\* of is left out.
Parse ==
    /\ step = "file"
    /\ step' = LET w == waveform_parse(file)
               IN  IF ~w.ok THEN "unparsed" ELSE IF w.warned THEN "warned" ELSE "parsed"
    /\ UNCHANGED <<vars, file, node>>

\* The rest of waveform_load: no node is told of a waveform that does not fit.
Send ==
    /\ step = "parsed" /\ Load
    /\ LET sent == waveform_send(waveform_parse(file).mods, file, place')
       IN  IF ~place'.ok THEN step' = "refused" /\ node' = <<>>
           ELSE node' = sent.node /\ step' = IF sent.ok THEN "sent" ELSE "unsent"
    /\ UNCHANGED file

\* The waveform on its node, whose tables are those of wf (FileIsHeld) and stay
\* so: they are not kept a second time.
OnNode == step = "sent" /\ Next /\ file' = <<>> /\ node' = <<>> /\ UNCHANGED step

LoadNext == Parse \/ Send \/ OnNode

LoadSpec == LoadInit /\ [][LoadNext]_<<vars, loaded>>
-----------------------------------------------------------------------------
\* The node holds what the file says: its wires, both ends of each, with the
\* slots they take, the control links behind them, every value of every
\* variable, and the modules that share a task.
Held(f) ==
    LET W == Wires(f)
        outs(m) == Cardinality({w \in W : w.from = m})
        ins(m)  == Cardinality({w \in W : w.to = m})
        ctrls == IF wf.ctrl = 0 THEN {}
                   ELSE {[from |-> wf.ctrl, sport |-> outs(wf.ctrl) + m - wf.ctrl - 1,
                          to |-> m, dport |-> ins(m), delay |-> 1] : m \in wf.ctrl + 1 .. wf.n}
        Wire(m, p) == [from |-> m, sport |-> p, to |-> node[m].outs[p].id,
                       dport |-> node[m].outs[p].port, delay |-> node[m].outs[p].delay]
        Table == UNION {{Wire(m, p) : p \in DOMAIN node[m].outs} : m \in DOMAIN node}
    IN  /\ DOMAIN node = Mods /\ waveform_parse(f).joins = wf.joins
        /\ Table = {[w EXCEPT !.delay = Delay(w)] : w \in W} \cup ctrls
        /\ \A m \in Mods :
              /\ node[m].processor_idx = place.proc[m]
              /\ DOMAIN node[m].ins = {w.dport : w \in {w \in Table : w.to = m}}
              /\ \A w \in Table : w.to = m =>
                    node[m].ins[w.dport].id = w.from /\ node[m].ins[w.dport].port = w.sport
              /\ LET given == ModulesOf(f)[m].vars
                 IN  /\ Len(node[m].vars) = Len(given)
                     /\ \A i \in 1 .. Len(given), k \in 1 .. Len(f.modes) :
                           node[m].vars[i].init_value[k] = ValueIn(f, given[i], k)

\* Bytes of a waveform in a packet: its modes, its modules with the values of
\* their variables, and two interfaces for every link.
Bytes(f) ==
    LET given(m) == ModulesOf(f)[m].vars
        values(m) == MapThenSumSet(LAMBDA i : 76 + Len(f.modes) * given(m)[i].values[1].size,
                                   1 .. Len(given(m)))
        links == Cardinality(Wires(f)) + (IF wf.ctrl = 0 THEN 0 ELSE wf.n - wf.ctrl)
    IN  96 + 192 * Len(f.modes) + MapThenSumSet(LAMBDA m : 244 + values(m), Mods) + 80 * links

\* What a file says reaches the node: a file in order is read without a
\* complaint, and one that is not in order is refused or complained of, or at
\* the latest not sent.  Not so if a port of a sub-model is left open, if the
\* name of a sub-model begins the name of another, or if an output of a
\* sub-model comes from a module with fewer inputs.
FileIsHeld ==
    /\ step \in {"unparsed", "warned"} => ~WellFormed(file) \/ ~Told(file)
    /\ step = "unsent" => ~WellFormed(file) \/ Bytes(file) > PacketSize
    /\ step = "sent" /\ phase = "loaded" => (WellFormed(file) /\ Held(file)) \/ Open(file) \/ ~Told(file)
=============================================================================
