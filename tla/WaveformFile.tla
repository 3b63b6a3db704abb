---------------------------- MODULE WaveformFile ----------------------------
(***************************************************************************)
(* What a waveform file says (the .app files of app_dl, app_ul): modules,   *)
(* each once or in several instances, sub-models that are files themselves, *)
(* and lines from an output to an input.  A line of a sub-model may start   *)
(* at _input or end at _output; the file that includes it continues it     *)
(* from there.  A name is a sequence of words, the underscores left out.   *)
(*                                                                         *)
(* File: modes, names of modes; entries [name, count, c, vars, sub] with   *)
(* sub <<>> or <<a file>>; lines [src, sport, dst, dport, delay]; joins;    *)
(* ctrl, the name of the control module or <<>>; granularity.  Variable:   *)
(* [name, values], values of [mode, type, size, val], one or one per mode. *)
(***************************************************************************)
EXTENDS Integers, Sequences, FiniteSets, FiniteSetsExt, SequencesExt

INPUT == <<"_input">>
OUTPUT == <<"_output">>
Number == <<"0", "1", "2", "3">>

\* The modules an entry stands for, with the prefix of the entry above it.
Instances(e, prefix) ==
    [k \in 1 .. e.count |->
        [name |-> prefix \o e.name \o (IF e.count = 1 THEN <<>> ELSE <<Number[k]>>),
         c |-> e.c, vars |-> e.vars]]

ModulesOf(f) ==
    FlattenSeq([i \in 1 .. Len(f.entries) |->
        LET e == f.entries[i]
        IN  IF e.sub = <<>> THEN Instances(e, <<>>)
            ELSE FlattenSeq([k \in 1 .. Len(e.sub[1].entries) |->
                                Instances(e.sub[1].entries[k], e.name)])])

\* The module of that name, or 0.
Named(f, name) ==
    Max({0} \cup {m \in 1 .. Len(ModulesOf(f)) : ModulesOf(f)[m].name = name})
Included(f, name) ==
    \E i \in 1 .. Len(f.entries) : f.entries[i].sub # <<>> /\ f.entries[i].name = name

\* An end of a line: a port of a module, or one of a sub-model.
ModEnd(m, port) == [of |-> m, sub |-> <<>>, port |-> port]
SubEnd(name, side, port) == [of |-> 0, sub |-> name \o side, port |-> port]

\* The lines of the file and, with their prefix, those of its sub-models.
LinesOf(f) ==
    FlattenSeq([i \in 1 .. Len(f.entries) |->
        LET e == f.entries[i]
        IN  IF e.sub = <<>> THEN <<>>
            ELSE [k \in 1 .. Len(e.sub[1].lines) |->
                    LET l == e.sub[1].lines[k]
                    IN  [from |-> IF l.src = INPUT THEN SubEnd(e.name, INPUT, l.sport)
                                  ELSE ModEnd(Named(f, e.name \o l.src), l.sport),
                         to |-> IF l.dst = OUTPUT THEN SubEnd(e.name, OUTPUT, l.dport)
                                ELSE ModEnd(Named(f, e.name \o l.dst), l.dport),
                         delay |-> l.delay]]])
    \o [k \in 1 .. Len(f.lines) |->
            LET l == f.lines[k]
            IN  [from |-> IF Included(f, l.src) THEN SubEnd(l.src, OUTPUT, l.sport)
                          ELSE ModEnd(Named(f, l.src), l.sport),
                 to |-> IF Included(f, l.dst) THEN SubEnd(l.dst, INPUT, l.dport)
                        ELSE ModEnd(Named(f, l.dst), l.dport),
                 delay |-> l.delay]]

\* The values of a variable: one for all modes, or one for each.
Given(f, v, k) ==
    {i \in 1 .. Len(v.values) : Len(v.values) = 1 \/ v.values[i].mode = f.modes[k]}
GoodVariable(f, v) ==
    /\ \A k \in 1 .. Len(f.modes) : Cardinality(Given(f, v, k)) = 1
    /\ Len(v.values) \in {1, Len(f.modes)}
    /\ \A i, j \in 1 .. Len(v.values) :
          v.values[i].type # "other" /\ v.values[i].size = v.values[j].size
ValueIn(f, v, k) == v.values[CHOOSE i \in Given(f, v, k) : TRUE].val

\* A file in order: every name is known, every port of a module is used once,
\* from 0 on without a gap, every port of a sub-model on both of its sides.
WellFormedLines(f, L) ==
    LET from(e) == {i \in 1 .. Len(L) : L[i].from = e}
        to(e)   == {i \in 1 .. Len(L) : L[i].to = e}
        Ends    == {L[i].from : i \in 1 .. Len(L)} \cup {L[i].to : i \in 1 .. Len(L)}
        Ports(S) == \E n \in 0 .. Cardinality(S) : S = 0 .. n - 1
    IN  /\ Len(f.lines) > 0
        /\ \A e \in Ends :
              /\ e.sub = <<>> => e.of # 0 /\ Cardinality(from(e)) <= 1 /\ Cardinality(to(e)) <= 1
              /\ e.sub # <<>> => Cardinality(from(e)) = 1 /\ Cardinality(to(e)) = 1
        /\ \A m \in 1 .. Len(ModulesOf(f)) :
              /\ Ports({p \in 0 .. Len(L) : from(ModEnd(m, p)) # {}})
              /\ Ports({p \in 0 .. Len(L) : to(ModEnd(m, p)) # {}})
              /\ \A e \in Ends : e.of = m => e.port \in 0 .. Len(L)
              /\ \A i \in 1 .. Len(ModulesOf(f)[m].vars) : GoodVariable(f, ModulesOf(f)[m].vars[i])
WellFormed(f) == WellFormedLines(f, LinesOf(f))

\* A port of a sub-model that is not used once on each of its sides.
OpenLines(L) ==
    \E e \in {L[i].from : i \in 1 .. Len(L)} \cup {L[i].to : i \in 1 .. Len(L)} :
        e.sub # <<>> /\ ~( /\ Cardinality({i \in 1 .. Len(L) : L[i].from = e}) = 1
                          /\ Cardinality({i \in 1 .. Len(L) : L[i].to = e}) = 1 )
Open(f) == OpenLines(LinesOf(f))

\* Files whose sub-models are told apart by the beginning of a name, and whose
\* modules have an input for every output that leaves their sub-model.
ToldLines(f, L) ==
    LET subs == {f.entries[i].name : i \in {i \in 1 .. Len(f.entries) : f.entries[i].sub # <<>>}}
        within == 1 .. Len(L) - Len(f.lines)
        ins(m) == Cardinality({i \in within : L[i].to.of = m})
    IN  /\ \A a, b \in subs : IsPrefix(a, b) => a = b
        /\ \A i \in within : L[i].to.sub # <<>> /\ L[i].from.sub = <<>>
                => L[i].from.port < ins(L[i].from.of)
Told(f) == ToldLines(f, LinesOf(f))

\* The wires of a file in order, through its sub-models; the delay is the one
\* of the line in the file itself.
WiresOf(f, L) ==
    LET Source(e) == IF e.sub = <<>> THEN e
                     ELSE L[CHOOSE i \in 1 .. Len(L) : L[i].to = e].from
        Target(e) == IF e.sub = <<>> THEN e
                     ELSE L[CHOOSE i \in 1 .. Len(L) : L[i].from = e].to
        Whole == {i \in 1 .. Len(L) :
                    \/ i > Len(L) - Len(f.lines)
                    \/ L[i].from.sub = <<>> /\ L[i].to.sub = <<>>}
    IN  {[from |-> Source(L[i].from).of, sport |-> Source(L[i].from).port,
          to |-> Target(L[i].to).of, dport |-> Target(L[i].to).port,
          delay |-> L[i].delay] : i \in Whole}
Wires(f) == WiresOf(f, LinesOf(f))

\* The waveform of a file.
Meaning(f) ==
    [n |-> Len(ModulesOf(f)), c |-> [m \in 1 .. Len(ModulesOf(f)) |-> ModulesOf(f)[m].c],
     joins |-> [k \in 1 .. Len(f.joins) |->
                  [x \in 1 .. Len(f.joins[k]) |-> Named(f, f.joins[k][x])]],
     ctrl |-> IF f.ctrl = <<>> THEN 0 ELSE Named(f, f.ctrl),
     granularity |-> f.granularity,
     links |-> IF WellFormed(f)
               THEN {[from |-> w.from, to |-> w.to, delay |-> w.delay, ctrl |-> FALSE] : w \in Wires(f)}
               ELSE {}]
=============================================================================
