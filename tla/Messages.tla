------------------------------ MODULE Messages ------------------------------
(***************************************************************************)
(* How a parsed waveform reaches the node: waveform_serialize writes it     *)
(* into a packet field by field, packet_sendto hands the packet to the     *)
(* node, and nod_waveform_unserializeTo reads it back (serializable.c,      *)
(* packet.c, common/waveform.c, nod_waveform.c, man_waveform.c).           *)
(*                                                                         *)
(* A packet is a sequence of fields [len, val].  A field that is read with  *)
(* another length than it was written with gives Garbage.                  *)
(***************************************************************************)
EXTENDS Parser

CONSTANT PacketSize     \* bytes of a packet, 512 * 1024

INT == 4
STR_LEN == 64
MODE_LEN == 3 * STR_LEN     \* waveform_mode_t
ITF_LEN == 40               \* interface_t
EXEC_LEN == 80              \* execinfo_t

NOF_USER_VARIABLES == 10

Garbage == -1000
NULL == -1                  \* the length of a field without data
Field(len, val) == [len |-> len, val |-> val]
Ints(s) == [i \in 1 .. Len(s) |-> Field(INT, s[i])]

\* packet_add_data, for all the fields of a packet: the data is there and the
\* packet takes them.
packet_add_data(fields) ==
    /\ \A i \in 1 .. Len(fields) : fields[i].len # NULL
    /\ LET bytes(len) == len * Cardinality({i \in 1 .. Len(fields) : fields[i].len = len})
       IN  MapThenSumSet(bytes, {fields[i].len : i \in 1 .. Len(fields)}) <= PacketSize

\* packet_get_data of a field, by its place in the packet.
packet_get_data(p, k, len) ==
    IF k \notin 1 .. Len(p) \/ p[k].len # len THEN Garbage ELSE p[k].val

\* variable_serialize with CP_INIT
variable_serialize(v) ==
    Ints(<<v.id, v.size, 0>>) \o <<Field(STR_LEN, v.name)>>
    \o [k \in 1 .. Len(v.init_value) |->
            Field(IF v.init_value[k].set THEN v.size ELSE NULL, v.init_value[k].val)]

\* interface_serialize, of a table.
interface_serialize(tab, n) == [p \in 1 .. n |-> Field(ITF_LEN, tab[p - 1])]

\* module_serialize with CP_INIT: id, processor, position, modes, mode, log,
\* names, execinfo, how many variables, inputs and outputs, and these.
module_serialize(mod, nof_modes) ==
    Ints(<<mod.id, mod.processor_idx, mod.exec_position, nof_modes, 0, 0>>)
    \o <<Field(STR_LEN, mod.name), Field(STR_LEN, mod.name), Field(EXEC_LEN, 0)>>
    \o Ints(<<Len(mod.vars), mod.nin, mod.nout>>)
    \o FlattenSeq([i \in 1 .. Len(mod.vars) |-> variable_serialize(mod.vars[i] @@ [id |-> i])])
    \o interface_serialize(mod.ins, mod.nin) \o interface_serialize(mod.outs, mod.nout)

\* waveform_serialize with WAVEFORM_LOAD and CP_INIT: 0 each.
waveform_serialize(mods, f) ==
    Ints(<<0, 0, 1, f.granularity, 0>>) \o <<Field(STR_LEN, "name")>> \o Ints(<<Len(f.modes)>>)
    \o [k \in 1 .. Len(f.modes) |-> Field(MODE_LEN, f.modes[k])]
    \o Ints(<<Len(mods)>>)
    \o FlattenSeq([m \in 1 .. Len(mods) |-> module_serialize(mods[m], Len(f.modes))])

\* variable_unserializeTo with variable_alloc: the values of every mode.
variable_unserializeTo(p, k, nof_modes) ==
    LET size == packet_get_data(p, k + 1, INT)
    IN  [id |-> packet_get_data(p, k, INT), size |-> size,
         name |-> packet_get_data(p, k + 3, STR_LEN),
         init_value |-> [i \in 1 .. nof_modes |-> packet_get_data(p, k + 3 + i, size)]]

\* interface_unserializeTo, of a table.
interface_unserializeTo(p, k, n) == [j \in 0 .. n - 1 |-> packet_get_data(p, k + j, ITF_LEN)]

\* module_unserializeTo, from field k on; next is the field behind it.
\* module_alloc leaves room for variables of the node's own.
module_unserializeTo(p, k) ==
    LET get(i) == packet_get_data(p, k + i, INT)
        modes  == get(3)
        nvars  == get(9)
        ins    == k + 12 + nvars * (4 + modes)
        outs   == ins + get(10)
    IN  [id |-> get(0), processor_idx |-> get(1), exec_position |-> get(2),
         name |-> packet_get_data(p, k + 6, STR_LEN),
         nof_variables |-> nvars + NOF_USER_VARIABLES,
         vars |-> [i \in 1 .. nvars |-> variable_unserializeTo(p, k + 12 + (i - 1) * (4 + modes), modes)],
         ins |-> interface_unserializeTo(p, ins, get(10)),
         outs |-> interface_unserializeTo(p, outs, get(11)),
         next |-> outs + get(11)]

\* nod_waveform_unserializeTo with WAVEFORM_LOAD: the modules of the node.
nod_waveform_unserializeTo(p) ==
    LET modes == packet_get_data(p, 7, INT)
        nof_modules == packet_get_data(p, 8 + modes, INT)
        at[m \in 0 .. nof_modules] ==
            IF m = 0 THEN 9 + modes ELSE module_unserializeTo(p, at[m - 1]).next
    IN  <<>> \o [m \in 1 .. nof_modules |-> module_unserializeTo(p, at[m - 1])]

\* mapping_map, as far as it writes into the modules: processor, position, and
\* the delay of the outputs that have none, delay(a, b) between two modules.
Mapped(mods, place) ==
    LET abs(x) == IF x < 0 THEN -x ELSE x
        slots(m, e) == IF e.delay = -1 /\ e.id > 0
                       THEN abs(place.stage[m] - place.stage[e.id]) ELSE e.delay
    IN  [m \in 1 .. Len(mods) |->
            [mods[m] EXCEPT !.outs = [p \in DOMAIN @ |-> [@[p] EXCEPT !.delay = slots(m, mods[m].outs[p])]]]
            @@ [id |-> m, processor_idx |-> place.proc[m], exec_position |-> m - 1]]

\* nod_anode_dispatch of CMD_LOAD: nod_dispatcher_load reads the packet into
\* a free waveform of the node.
nod_anode_dispatch(p) == nod_waveform_unserializeTo(p)

\* packet_sendto: the packet of the node takes the bytes of the manager's, and
\* is dispatched at once.
packet_sendto(p) ==
    IF packet_add_data(p) THEN [ok |-> TRUE, node |-> nod_anode_dispatch(p)]
    ELSE [ok |-> FALSE, node |-> <<>>]

\* waveform_send with CMD_LOAD: what the node has afterwards.
waveform_send(mods, f, place) == packet_sendto(waveform_serialize(Mapped(mods, place), f))
=============================================================================
