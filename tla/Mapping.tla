---------------------------- MODULE Mapping ---------------------------------
(***************************************************************************)
(* The t_w-mapping of oesr/src/crm: the tasks of a waveform, in order, onto *)
(* processors.  A column of the trellis has one surviving path per         *)
(* processor; a survivor is chosen by the cheapest way to go on for w - 1   *)
(* more tasks.  Platform: C, the capacity of each processor, and B, the    *)
(* bandwidth from one to another.  Waveform: c, what each task needs, and  *)
(* b, what flows from one to another.  A cost q * x / y is a whole number  *)
(* of 1 / (2 * Scale), exact as long as the remaining resource y divides   *)
(* Scale * x.  setup_algorithm chooses full-duplex links, one hop, the     *)
(* order of the tasks as it is and q = 1 - q = 0.5, generate_model_c_vector *)
(* forces no task to a processor: the other choices are left out.          *)
(***************************************************************************)
EXTENDS Integers, Sequences, FiniteSets, FiniteSetsExt

Scale == 27720
infinite == 1000000000

\* A path: the processors of its tasks, what it leaves of the resources.
NoPath == [at |-> <<>>, P |-> <<>>, B |-> <<>>, cost |-> infinite]
\* resource_trans for full-duplex links: each ordered pair has its own.
resource_trans(plat) == [at |-> <<>>, P |-> plat.C, B |-> plat.B, cost |-> 0]

\* Mutants: a task may not fill a processor; any task fits.
cost_compU_Strict(mx, rem) == IF mx >= rem THEN infinite ELSE (Scale * mx) \div rem
cost_compU_Any(mx, rem) == (Scale * mx) \div (IF rem <= 0 THEN 1 ELSE rem)

\* cost_compU: task of weight mx on a processor that has rem left.
cost_compU(mx, rem) == IF mx > rem THEN infinite ELSE (Scale * mx) \div rem

\* cost_commU: of two tasks on different processors p and q that exchange
\* data both ways only the flow towards the later one is counted.
cost_commU(bx1, bx2, B, p, q) ==
    LET over(bx, link) ==
            IF bx > B[link] THEN [cost |-> infinite, B |-> B]
            ELSE [cost |-> (Scale * bx) \div B[link], B |-> [B EXCEPT ![link] = @ - bx]]
    IN  IF bx1 > 0 THEN over(bx1, <<p, q>>)
        ELSE IF bx2 > 0 THEN over(bx2, <<q, p>>)
        ELSE [cost |-> 0, B |-> B]

\* The next task of the path onto processor p, with the flows between it and
\* the tasks before it: one body of the loops over k1, k2, ...
Put(path, p, wave) ==
    LET i    == Len(path.at) + 1
        comp == cost_compU(wave.c[i], path.P[p])
        flow(acc, s) ==
            IF acc.cost = infinite \/ path.at[s] = p THEN acc
            ELSE LET r == cost_commU(wave.b[s][i], wave.b[i][s], acc.B, path.at[s], p)
                 IN  [cost |-> IF r.cost = infinite THEN infinite ELSE acc.cost + r.cost,
                      B |-> r.B]
        flows[s \in 0 .. i - 1] ==
            IF s = 0 THEN [cost |-> 0, B |-> path.B] ELSE flow(flows[s - 1], s)
        comm == flows[i - 1]
    IN  IF path.cost = infinite \/ comp = infinite THEN NoPath
        ELSE IF comm.cost = infinite THEN NoPath
        ELSE [at |-> Append(path.at, p), P |-> [path.P EXCEPT ![p] = @ - wave.c[i]],
              B |-> comm.B, cost |-> path.cost + comp + comm.cost]

\* The first of the cheapest paths of a sequence.
Cheapest(paths) ==
    CHOOSE k \in 1 .. Len(paths) :
        /\ \A x \in 1 .. Len(paths) : paths[k].cost <= paths[x].cost
        /\ \A x \in 1 .. k - 1 : paths[k].cost < paths[x].cost

Best(paths) == paths[Cheapest(paths)]

\* Every path of the sequence, onto every processor with its next task.
Fork(paths, wave, N) ==
    <<>> \o [x \in 1 .. N * Len(paths) |->
                Put(paths[((x - 1) \div N) + 1], (x - 1) % N, wave)]

\* The nested loops over k2 .. kw: the cheapest way to go on for n tasks.
Ahead(path, n, wave, N) ==
    LET all[d \in 0 .. n] == IF d = 0 THEN <<path>> ELSE Fork(all[d - 1], wave, N)
    IN  IF path.cost = infinite THEN NoPath ELSE Best(all[n])

\* One column: the survivor of each processor j, and its way on.  A survivor
\* none of whose ways on is possible comes from processor 0.
Column(before, w, wave, N) ==
    LET Step(p) == [path |-> p, ahead |-> Ahead(p, w - 1, wave, N)]
        Survivor(steps) ==
            steps[Cheapest(<<>> \o [k \in 1 .. N |-> steps[k].ahead])]
    IN  <<>> \o [j \in 1 .. N |->
            Survivor(<<>> \o [k \in 1 .. N |-> Step(Put(before[k].path, j - 1, wave))])]

\* tw_mapping of a waveform of more than w tasks; with fewer the code chooses
\* among values nobody wrote.
tw_mapping(plat, wave, w) ==
    LET N     == Cardinality(DOMAIN plat.C)
        column[i \in 0 .. Len(wave.c) - w] ==
            IF i = 0 THEN <<>> \o [j \in 1 .. N |->
                            LET p == Put(resource_trans(plat), j - 1, wave)
                            IN  [path |-> p, ahead |-> p]]
            ELSE Column(column[i - 1], w, wave, N)
        Ways(final) == <<>> \o [j \in 1 .. N |-> final[j].ahead]
    IN  Best(Ways(column[Len(wave.c) - w]))

\* mapper: the cost, and the processor of each task.
Result(path) == [cost |-> path.cost, P_m |-> path.at]
mapper(plat, wave, w) == Result(tw_mapping(plat, wave, w))

-----------------------------------------------------------------------------
(***************************************************************************)
(* What the manager makes of a parsed waveform before it is sent to a node  *)
(* (oesr/src/manager/man_mapping.c): the modules a waveform joins become   *)
(* one task, the tasks get a pipeline stage and a processor, and the       *)
(* interfaces the number of slots between their two ends.                  *)
(*                                                                         *)
(* A waveform: n modules in the order of the file, c what each needs, links *)
(* between them [from, to, delay, ctrl] (delay -1: not given), joins the    *)
(* groups of the file, ctrl the automatic control module or 0, granularity *)
(* in us or 0.  A platform: N processors, the slot ts in us, core0 the     *)
(* share of the slot of processor 0 in twelfths, bandwidth of a link.      *)
(***************************************************************************)
\* setup_algorithm
window == 4

Modules(w) == 1 .. w.n

\* Mutant: control reaches a module in the slot it is sent.
AllLinks_NoDelay(w) ==
    w.links \cup
    (IF w.ctrl = 0 THEN {}
     ELSE {[from |-> w.ctrl, to |-> m, delay |-> 0, ctrl |-> TRUE] : m \in w.ctrl + 1 .. w.n})

\* The links of the file and those parse_waveform adds from the automatic
\* control module to every module after it.
AllLinks(w) ==
    w.links \cup
    (IF w.ctrl = 0 THEN {}
     ELSE {[from |-> w.ctrl, to |-> m, delay |-> 1, ctrl |-> TRUE] : m \in w.ctrl + 1 .. w.n})

\* generate_model_join_function: a module stands for itself, or for the first
\* module its group lists; the last group that lists it wins.
join_function(w) ==
    [m \in Modules(w) |->
        LET groups == {k \in 1 .. Len(w.joins) : \E x \in 1 .. Len(w.joins[k]) : w.joins[k][x] = m}
        IN  IF groups = {} THEN m ELSE w.joins[Max(groups)][1]]

\* generate_model_platform
generate_model_platform(plat) ==
    [C |-> [p \in 0 .. plat.N - 1 |->
                IF p = 0 THEN (plat.core0 * plat.ts) \div 12 ELSE plat.ts],
     B |-> [l \in (0 .. plat.N - 1) \X (0 .. plat.N - 1) |-> plat.bandwidth]]

\* generate_model_c_vector: what the modules that stand for others need
\* together; the ones that need nothing are no tasks.
tmp_c(w, mult) ==
    [m \in Modules(w) |->
        MapThenSumSet(LAMBDA k : w.c[k] * mult,
                      {k \in Modules(w) : join_function(w)[k] = m})]
joined_function(w, mult) ==
    SelectSeq([m \in Modules(w) |-> m], LAMBDA m : tmp_c(w, mult)[m] # 0)
\* The task of a module; one that is no task goes with the first.
joined_function_inv(w, mult) ==
    LET tasks == joined_function(w, mult)
        join  == join_function(w)
    IN  [m \in Modules(w) |->
            IF \E k \in 1 .. Len(tasks) : tasks[k] = join[m]
            THEN CHOOSE k \in 1 .. Len(tasks) : tasks[k] = join[m]
            ELSE 1]

\* generate_model_b_matrix: the links from task i to task j.
b_matrix(w, mult) ==
    LET tasks == joined_function(w, mult)
        join  == join_function(w)
    IN  <<>> \o [i \in 1 .. Len(tasks) |-> <<>> \o [j \in 1 .. Len(tasks) |->
            mult * Cardinality({l \in AllLinks(w) :
                join[l.from] = tasks[i] /\ join[l.to] = tasks[j]})]]

\* Mutant: a task starts with the one that feeds it.
generate_model_stages_Same(w, mult) ==
    LET b == b_matrix(w, mult)
        tmp_stages[j \in 1 .. Len(b)] ==
            Max({1} \cup {tmp_stages[i] : i \in {i \in 1 .. j - 1 : b[i][j] > 0}})
    IN  [m \in Modules(w) |-> tmp_stages[joined_function_inv(w, mult)[m]]]

\* generate_model_stages: a task comes one stage after every earlier task
\* that feeds it; links to earlier tasks do not count.
generate_model_stages(w, mult) ==
    LET b == b_matrix(w, mult)
        tmp_stages[j \in 1 .. Len(b)] ==
            Max({1} \cup {tmp_stages[i] + 1 : i \in {i \in 1 .. j - 1 : b[i][j] > 0}})
    IN  [m \in Modules(w) |-> tmp_stages[joined_function_inv(w, mult)[m]]]

\* generate_model: how many granules a slot has, and the model of the waveform.
multiplicity(w, plat) == IF w.granularity = 0 THEN 1 ELSE plat.ts \div w.granularity
generate_model(w, plat) ==
    LET mult == multiplicity(w, plat)
    IN  [c |-> <<>> \o [k \in 1 .. Len(joined_function(w, mult)) |->
                            tmp_c(w, mult)[joined_function(w, mult)[k]]],
         b |-> b_matrix(w, mult)]

\* call_algorithm, for slots of more than one us.
call_algorithm(w, plat) == mapper(generate_model_platform(plat), generate_model(w, plat), window)

Refused == [ok |-> FALSE, proc |-> <<>>, stage |-> <<>>]

\* mapping_map: refused because of the granularity, because no mapping was
\* found, or because of a processor the platform has not.
Answer(w, plat, inv, res) ==
    IF res.cost = infinite THEN Refused
    ELSE IF \E m \in Modules(w) : res.P_m[inv[m]] >= plat.N THEN Refused
    ELSE [ok |-> TRUE, proc |-> [m \in Modules(w) |-> res.P_m[inv[m]]],
          stage |-> generate_model_stages(w, multiplicity(w, plat))]
mapping_map(w, plat) ==
    IF w.granularity # 0 /\ plat.ts % w.granularity # 0 THEN Refused
    ELSE Answer(w, plat, joined_function_inv(w, multiplicity(w, plat)), call_algorithm(w, plat))
=============================================================================
