------------------------------- MODULE Parser -------------------------------
(***************************************************************************)
(* waveform_parse of oesr/src/manager/man_waveform_parser.c: the tables of  *)
(* the modules from a waveform file (module WaveformFile).  An interface    *)
(* holds the id and the port of the other end; id 0 says that it is not    *)
(* connected, a negative one that it is port -id - 1 of its sub-model.     *)
(*                                                                         *)
(* The state w: mods, the modules read so far [name, vars, c, ins, outs,    *)
(* nin, nout]; prefix, the name of the sub-model being read; ok; warned,    *)
(* whether it has complained; joins, the modules that share a task.  The    *)
(* control module is only looked up after the interfaces, so what          *)
(* read_interface does for it never happens.                               *)
(* Sub-models include no further ones, and the last entry is a module.     *)
(***************************************************************************)
EXTENDS WaveformFile

ITF_PREALLOC == 100

Unset == [id |-> 0, port |-> 0, delay |-> 0]
Entry(tab, p) == IF p \in DOMAIN tab THEN tab[p] ELSE Unset
Update(tab, p, e) == [q \in DOMAIN tab \cup {p} |-> IF q = p THEN e ELSE tab[q]]

\* find_mode: its number, or 0.
find_mode(f, name) == Max({0} \cup {k \in 1 .. Len(f.modes) : f.modes[k] = name})

\* read_variable_value: the types it knows, all of one size.
read_variable_value(v, values) == values[v].type # "other" /\ values[v].size = values[1].size

\* read_variable: a value for every mode.  A mode that is given twice leaves
\* another one without a value.
read_variable(f, v) ==
    LET n     == Len(v.values)
        of(k) == {i \in 1 .. n : n = 1 \/ v.values[i].mode = f.modes[k]}
    IN  [ok |-> /\ \A i \in 1 .. n : read_variable_value(i, v.values)
                /\ n = 1 \/ n = Len(f.modes)
                /\ n # 1 => \A i \in 1 .. n : find_mode(f, v.values[i].mode) # 0,
         name |-> v.name, size |-> v.values[1].size,
         init_value |-> [k \in 1 .. Len(f.modes) |->
                            [set |-> of(k) # {},
                             val |-> v.values[IF of(k) = {} THEN 1 ELSE Max(of(k))].val]]]

\* read_variables: one that cannot be read costs the module all of them.
read_variables(f, vars) ==
    LET read == [i \in 1 .. Len(vars) |-> read_variable(f, vars[i])]
    IN  IF \A i \in 1 .. Len(vars) : read[i].ok THEN read ELSE <<>>

\* read_module, for each instance of an entry.
read_module(w, f, e) ==
    LET vars == read_variables(f, e.vars)
        mod(k) == [name |-> w.prefix \o e.name \o (IF e.count = 1 THEN <<>> ELSE <<Number[k]>>),
                   vars |-> vars, c |-> e.c, ins |-> <<>>, outs |-> <<>>, nin |-> 0, nout |-> 0]
    IN  [w EXCEPT !.mods = @ \o [k \in 1 .. e.count |-> mod(k)],
                  !.warned = @ \/ Len(vars) # Len(e.vars)]

\* waveform_find_module_name: the first of that name, or 0.
waveform_find_module_name(w, name) ==
    LET S == {m \in 1 .. Len(w.mods) : w.mods[m].name = name}
    IN  IF S = {} THEN 0 ELSE Min(S)

\* waveform_find_module_name_inputport and ..._outputport: the module of the
\* sub-model and its port that are port p outside.  Both try as many ports as
\* the module has inputs.
Missing == [ok |-> FALSE, mod |-> 0, port |-> 0]
FindPort(w, name, p, isinput) ==
    LET tab(m) == IF isinput THEN w.mods[m].outs ELSE w.mods[m].ins
        S == {x \in (1 .. Len(w.mods)) \X (0 .. ITF_PREALLOC) :
                /\ IsPrefix(name, w.mods[x[1]].name)
                /\ x[2] < w.mods[x[1]].nin /\ Entry(tab(x[1]), x[2]).id = -(p + 1)}
        first == CHOOSE x \in S : \A y \in S : x[1] < y[1] \/ (x[1] = y[1] /\ x[2] <= y[2])
    IN  IF S = {} THEN Missing ELSE [ok |-> TRUE, mod |-> first[1], port |-> first[2]]

\* read_interface_mod_itf: one end of a line.
read_interface_mod_itf(w, name, port, isinput) ==
    LET m == waveform_find_module_name(w, w.prefix \o name)
    IN  IF port < 0 THEN Missing
        ELSE IF name \in {INPUT, OUTPUT} THEN [ok |-> TRUE, mod |-> 0, port |-> port]
        ELSE IF m # 0 THEN [ok |-> TRUE, mod |-> m, port |-> port]
        ELSE FindPort(w, name, port, isinput)

\* Mutant: a port that is in use is connected once more.
Connect_Twice(w, l, s, d) ==
    IF ~s.ok \/ ~d.ok THEN [w EXCEPT !.ok = FALSE]
    ELSE [w EXCEPT !.mods = <<>> \o [m \in 1 .. Len(w.mods) |->
            [w.mods[m] EXCEPT
                !.ins = IF m # d.mod THEN @ ELSE
                    Update(@, d.port, [id |-> IF s.mod # 0 THEN s.mod ELSE -(s.port + 1),
                                       port |-> s.port, delay |-> l.delay]),
                !.nin = IF m = d.mod /\ Entry(w.mods[m].ins, d.port).id = 0 THEN @ + 1 ELSE @,
                !.outs = IF m # s.mod THEN @ ELSE
                    Update(@, s.port, [id |-> IF d.mod # 0 THEN d.mod ELSE -(d.port + 1),
                                       port |-> d.port, delay |-> l.delay]),
                !.nout = IF m = s.mod /\ Entry(w.mods[m].outs, s.port).id = 0 THEN @ + 1 ELSE @]]]

\* read_interface with the ends s and d it found: they point at each other, and
\* the module has one port more, unless it had it from its sub-model.  An
\* output that is connected again counts again.
Connect(w, l, s, d) ==
    LET src == IF s.mod = 0 THEN Unset ELSE Entry(w.mods[s.mod].outs, s.port)
        dst == IF d.mod = 0 THEN Unset ELSE Entry(w.mods[d.mod].ins, d.port)
        used == d.mod # 0 /\ dst.id > 0
        delay == IF s.mod # 0 THEN l.delay ELSE dst.delay
    IN  IF ~s.ok \/ ~d.ok \/ s.port > ITF_PREALLOC \/ d.port > ITF_PREALLOC \/ used
        THEN [w EXCEPT !.ok = FALSE]
        ELSE [w EXCEPT !.mods = <<>> \o [m \in 1 .. Len(w.mods) |->
                [w.mods[m] EXCEPT
                    !.ins = IF m # d.mod THEN @ ELSE
                        Update(@, d.port, [id |-> IF s.mod # 0 THEN s.mod ELSE -(s.port + 1),
                                           port |-> s.port, delay |-> delay]),
                    !.nin = IF m = d.mod /\ dst.id >= 0 THEN @ + 1 ELSE @,
                    !.outs = IF m # s.mod THEN @ ELSE
                        Update(@, s.port, [id |-> IF d.mod # 0 THEN d.mod ELSE -(d.port + 1),
                                           port |-> d.port, delay |-> delay]),
                    !.nout = IF m = s.mod /\ src.id >= 0 THEN @ + 1 ELSE @]]]
read_interface(w, l) ==
    Connect(w, l, read_interface_mod_itf(w, l.src, l.sport, TRUE),
                  read_interface_mod_itf(w, l.dst, l.dport, FALSE))

\* waveform_main_config: an output of the control module for every module
\* after it, at the input behind those the module has.
AddControls(w, c) ==
    LET n == w.mods[c].nout
    IN  [w EXCEPT !.mods = <<>> \o [m \in 1 .. Len(w.mods) |->
                IF m < c THEN w.mods[m]
                ELSE IF m = c
                THEN [w.mods[c] EXCEPT
                        !.outs = [p \in 0 .. n + Len(w.mods) - c - 1 |->
                                    IF p < n THEN Entry(w.mods[c].outs, p)
                                    ELSE [id |-> c + 1 + p - n, port |-> w.mods[c + 1 + p - n].nin,
                                          delay |-> 1]],
                        !.nout = @ + Len(w.mods) - c]
                ELSE [w.mods[m] EXCEPT
                        !.ins = Update(@, w.mods[m].nin,
                                       [id |-> c, port |-> n + m - c - 1,
                                        delay |-> Entry(@, w.mods[m].nin).delay]),
                        !.nin = @ + 1]]]
waveform_main_config(w, f) ==
    IF f.ctrl = <<>> THEN w ELSE AddControls(w, waveform_find_module_name(w, f.ctrl))

\* check_interfaces complains of the ports nobody connected, and
\* realloc_interfaces cuts the tables to the ports that were counted.
check_interfaces(mod) ==
    \/ \E p \in 0 .. mod.nin - 1 : Entry(mod.ins, p).id = 0
    \/ \E p \in 0 .. mod.nout - 1 : Entry(mod.outs, p).id = 0
realloc_interfaces(mod) ==
    [mod EXCEPT !.ins = [p \in 0 .. mod.nin - 1 |-> Entry(@, p)],
                !.outs = [p \in 0 .. mod.nout - 1 |-> Entry(@, p)]]

\* join_stages: the modules of each group.
join_stages(w, f) ==
    [k \in 1 .. Len(f.joins) |->
        [x \in 1 .. Len(f.joins[k]) |-> waveform_find_module_name(w, f.joins[k][x])]]

\* The order in which waveform_parse goes through a file: entry by entry, a
\* sub-model with its lines where it is included, then the lines.
Steps(f) ==
    LET mods(g) == [i \in 1 .. Len(g.entries) |-> [do |-> "module", arg |-> g.entries[i]]]
        lines(g) == [i \in 1 .. Len(g.lines) |-> [do |-> "line", arg |-> g.lines[i]]]
        prefix(x) == <<[do |-> "prefix", arg |-> x]>>
    IN  FlattenSeq([i \in 1 .. Len(f.entries) |->
            LET e == f.entries[i]
            IN  IF e.sub = <<>> THEN <<mods(f)[i]>>
                ELSE prefix(e.name) \o mods(e.sub[1]) \o lines(e.sub[1]) \o prefix(<<>>)])
        \o lines(f)

Step(w, f, s) ==
    IF ~w.ok THEN w
    ELSE CASE s.do = "module" -> read_module(w, f, s.arg)
           [] s.do = "line"   -> read_interface(w, s.arg)
           [] s.do = "prefix" -> [w EXCEPT !.prefix = s.arg]

\* What is done with the modules once all of the file is read.
Checked(w, f) ==
    [w EXCEPT !.joins = join_stages(w, f),
              !.warned = @ \/ \E m \in 1 .. Len(w.mods) : check_interfaces(w.mods[m]),
              !.mods = <<>> \o [m \in 1 .. Len(@) |-> realloc_interfaces(@[m])]]
Complete(w, f) ==
    IF ~w.ok THEN [w EXCEPT !.mods = <<>>] ELSE Checked(waveform_main_config(w, f), f)

\* waveform_parse
waveform_parse(f) ==
    Complete(FoldLeft(LAMBDA w, s : Step(w, f, s),
                      [mods |-> <<>>, prefix |-> <<>>, ok |-> Len(f.lines) > 0,
                       warned |-> FALSE, joins |-> <<>>],
                      Steps(f)), f)
=============================================================================
