---------------------------- MODULE Grid ------------------------------------
(***************************************************************************)
(* The resource grid of the LTE downlink, modrep_osld/lte_lib/grid: which  *)
(* element (symbol l, carrier k) of a subframe each physical channel uses. *)
(* g is the part of lte_grid_config that the parameters set:               *)
(*   nof_prb, nof_ports, nof_osymb_x_subf, cfi, cell_id, nof_cce (of the   *)
(*   one PDCCH, 0 for none) and rbg_mask (of the one PDSCH, a set of bits) *)
(* and the derived fields are operators of g.  A subframe is an array of   *)
(* nof_osymb_x_subf * fft_size samples; what a put writes is a partial     *)
(* function from its positions to samples.                                 *)
(***************************************************************************)
EXTENDS Arrays

LOCAL INSTANCE Functions
LOCAL INSTANCE FiniteSetsExt
LOCAL INSTANCE SequencesExt

NOF_RE_X_OSYMB == 12
NOF_RE_X_REG == 4
NOF_REGS_X_CCE == 9
MAX_CTRL_SYMB == 4
MAX_NPRB == 110
PCFICH_REG == 4
PBCH_RE == 4 * 6 * 12 - 8 * 6
PSS_LEN == 62
SSS_LEN == 62

\* The samples of the grid are triples of integers; this one is 0.
Zero == <<0, 0, 0>>
None == <<>>

\* What the writes w leave of an array, and one set of writes over another.
Write(array, w) == [p \in DOMAIN array |-> IF p \in DOMAIN w THEN w[p] ELSE array[p]]
Over(w, v) == [p \in DOMAIN w \cup DOMAIN v |-> IF p \in DOMAIN w THEN w[p] ELSE v[p]]
Shift(w, d) == [p \in {q + d : q \in DOMAIN w} |-> w[p - d]]
Nothing == [p \in {} |-> Zero]

-----------------------------------------------------------------------------
(* base.c: the parameters.                                                 *)

fft_size(nof_prb) ==
    IF nof_prb <= 0 \/ nof_prb > 100 THEN -1
    ELSE CHOOSE s \in {128, 256, 512, 1024, 1536, 2048} :
            \E fit \in {<<1, 6, 128>>, <<7, 15, 256>>, <<16, 25, 512>>,
                        <<26, 50, 1024>>, <<51, 75, 1536>>, <<76, 100, 2048>>} :
                nof_prb \in fit[1] .. fit[2] /\ s = fit[3]

\* lte_grid_init_params: -1 out of range, 0 when there is no transform for
\* nof_prb, which its caller takes for success.
lte_grid_init_params(g) ==
    IF fft_size(g.nof_prb) = -1 THEN 0 ELSE IF g.nof_prb < 6 THEN -1 ELSE 1

Half(g) == g.nof_osymb_x_subf \div 2
pre_guard(g) == (fft_size(g.nof_prb) - g.nof_prb * NOF_RE_X_OSYMB) \div 2
nof_control_symbols(g) ==
    IF g.cfi = -1 THEN 0 ELSE IF g.nof_prb <= 10 THEN g.cfi + 1 ELSE g.cfi

lte_get_ns(sf, l, g) == 2 * sf + (IF l < Half(g) THEN 0 ELSE 1)

RBG_SZ(n) == IF n < 10 THEN 1 ELSE IF n < 26 THEN 2 ELSE IF n < 63 THEN 3 ELSE 4

-----------------------------------------------------------------------------
(* refsig.c: the reference signals of a port, and what a symbol reserves.  *)

\* Port -1 stands for all of them.
lte_refsig_symbolmask(port_id, g) ==
    LET first == IF g.nof_ports = 4 /\ port_id >= 2 THEN {1} ELSE {0, Half(g) - 3}
        all   == IF g.nof_ports = 4 /\ port_id = -1 THEN first \cup {1} ELSE first
    IN  all \cup {l + Half(g) : l \in all}

lte_refsig_or_resv_voffset(l, g) ==
    IF g.nof_ports = 1 /\ l % Half(g) # 0 THEN (g.cell_id + 3) % 6 ELSE g.cell_id % 6

\* How many elements of a block the symbol keeps for reference signals.
lte_symbol_has_refsig_or_resv(sf, l, g) ==
    IF sf = 0 /\ l \in {Half(g), Half(g) + 1} THEN 4
    ELSE IF l \notin lte_refsig_symbolmask(-1, g) THEN 0
    ELSE IF g.nof_ports = 1 /\ l > 0 /\ ~(g.nof_osymb_x_subf = 12 /\ l = Half(g) - 3)
         THEN 2 ELSE 4

lte_refsig_l(l, g) ==
    IF l \in {0, Half(g)} THEN 0
    ELSE IF l \in {Half(g) - 3, g.nof_osymb_x_subf - 3} THEN 1 ELSE 2

lte_refsig_v(port_id, ns, l, g) ==
    CASE port_id = 0 -> IF l \in {0, Half(g)} THEN 0 ELSE 3
      [] port_id = 1 -> IF l \in {0, Half(g)} THEN 3 ELSE 0
      [] port_id = 2 -> 3 * (ns % 2)
      [] port_id = 3 -> 3 + 3 * (ns % 2)

lte_refsig_k(m, v, g) == 6 * m + ((v + (g.cell_id % 6)) % 6)
lte_refsig_mp(m, g) == m + MAX_NPRB - g.nof_prb

\* generate_cref_k: the carrier of pilot mp in row l of slot ns.
generate_cref_k(port_id, l, ns, g) ==
    LET lp == <<0, Half(g) - 3, 1>>
        v  == lte_refsig_v(port_id, ns, lp[l + 1], g)
    IN  [mp \in {lte_refsig_mp(m, g) : m \in 0 .. 2 * g.nof_prb - 1} |->
            lte_refsig_k(mp - MAX_NPRB + g.nof_prb, v, g) + pre_guard(g)]

\* c_init of a row of pilots, which with mp tells a pilot from the others.
generate_cref_signal(l, ns, g) ==
    LET lp == <<0, Half(g) - 3, 1>>
    IN  1024 * (7 * (ns + 1) + lp[l + 1] + 1) * (2 * g.cell_id + 1) + 2 * g.cell_id
        + (IF g.nof_osymb_x_subf = 14 THEN 1 ELSE 0)

\* The pilots of port_id in symbol l.
lte_refsig_put(port_id, sf, l, g) ==
    LET row == lte_refsig_l(l, g)
        ns  == lte_get_ns(sf, l, g)
        k   == generate_cref_k(port_id, row, ns, g)
        c   == generate_cref_signal(row, ns, g)
    IN  IF l \notin lte_refsig_symbolmask(port_id, g) THEN Nothing
        ELSE [p \in {k[mp] : mp \in DOMAIN k} |->
                <<8, c, CHOOSE mp \in DOMAIN k : k[mp] = p>>]

-----------------------------------------------------------------------------
(* base.c: a run of data around the reference elements of nof_prb blocks.  *)

Blocks(nof_prb, interval) == (NOF_RE_X_OSYMB \div interval) * nof_prb - 1

\* lte_ch_put_ref and lte_ch_put_ref_one: the elements written, each with
\* the index of its input, or -1 for the 0 at a reference element.
lte_ch_put_ref(nof_prb, offset, interval) ==
    LET last == Blocks(nof_prb, interval)
        full == offset + interval * last
        tail == IF interval - offset - 1 > 0 THEN interval - offset ELSE 0
    IN  [p \in 0 .. full + tail - 1 |->
            IF p < offset THEN p
            ELSE LET q == p - offset
                 IN  IF q % interval = 0 THEN -1
                     ELSE offset + (q \div interval) * (interval - 1) + (q % interval) - 1]

\* lte_ch_get_ref and lte_ch_get_ref_one: for each output, the element read.
lte_ch_get_ref(nof_prb, offset, interval) ==
    LET last == Blocks(nof_prb, interval)
        full == offset + (interval - 1) * last
        tail == IF interval - offset - 1 > 0 THEN interval - offset - 1 ELSE 0
    IN  [w \in 0 .. full + tail - 1 |->
            IF w < offset THEN w
            ELSE LET q == w - offset
                 IN  offset + interval * (q \div (interval - 1)) + 1 + (q % (interval - 1))]

lte_ch_cp_noref(nof_prb) == [p \in 0 .. NOF_RE_X_OSYMB * nof_prb - 1 |-> p]

\* The samples of input, from rp on, that a put with the index map writes.
Placed(map, input, rp) ==
    [p \in {q \in DOMAIN map : map[q] = -1 \/ rp + map[q] \in DOMAIN input} |->
        IF map[p] = -1 THEN Zero ELSE input[rp + map[p]]]

-----------------------------------------------------------------------------
(* regs.c: the resource element groups of the control symbols.  A group is *)
(* known by its block p, its symbol l and its number j.                    *)

lte_reg_num(l, g) == IF lte_symbol_has_refsig_or_resv(0, l, g) # 0 THEN 2 ELSE 3

\* lte_reg_indices: the elements of a group, and the carriers it spans.
lte_reg_indices(p, l, j, g) ==
    LET kp == p * NOF_RE_X_OSYMB
        vo == g.cell_id % 3
        k0 == kp + j * 6
        k4 == kp + j * 4
    IN  IF lte_reg_num(l, g) = 2
        THEN [k |-> <<>> \o [i \in 1 .. 4 |->
                        IF i <= vo THEN k0 + i - 1
                        ELSE IF i <= vo + 2 THEN k0 + i ELSE k0 + i + 1],
              k_ref |-> {k0 + vo, k0 + vo + 3}, k0 |-> k0, k3 |-> k0 + 6]
        ELSE [k |-> <<k4, k4 + 1, k4 + 2, k4 + 3>>,
              k_ref |-> {}, k0 |-> k4, k3 |-> k4 + 4]

\* lte_grid_init_reg: the groups of so many control symbols, all of them
\* available.
lte_grid_init_reg(many, g) ==
    {<<p, l, j>> \in (0 .. g.nof_prb - 1) \X (0 .. many - 1) \X (0 .. 2) :
        j < lte_reg_num(l, g)}

\* lte_reg_get_k: the group that spans carrier k of symbol l, None without.
lte_reg_get_k(k, l, regs, g) ==
    LET hit == {r \in regs : /\ r[1] = k \div NOF_RE_X_OSYMB /\ r[2] = l
                             /\ LET reg == lte_reg_indices(r[1], r[2], r[3], g)
                                IN  reg.k0 <= k /\ k < reg.k3}
    IN  IF hit = {} THEN None ELSE CHOOSE r \in hit : TRUE

lte_reg_put_sf_pos(k, l, g) == l * fft_size(g.nof_prb) + pre_guard(g) + k

\* lte_reg_put: four inputs, from rp on, and 0 at the reference elements.
lte_reg_put(input, rp, r, g) ==
    LET reg == lte_reg_indices(r[1], r[2], r[3], g)
        pos(k) == lte_reg_put_sf_pos(k, r[2], g)
    IN  Over([p \in {pos(k) : k \in reg.k_ref} |-> Zero],
             [p \in {pos(reg.k[i]) : i \in 1 .. 4} |->
                input[rp + (CHOOSE i \in 1 .. 4 : pos(reg.k[i]) = p) - 1]])

lte_reg_get(signal, r, g) ==
    LET reg == lte_reg_indices(r[1], r[2], r[3], g)
    IN  [i \in 0 .. 3 |-> signal[lte_reg_put_sf_pos(reg.k[i + 1], r[2], g)]]

\* Writes to different places, as one.
Together(all) ==
    [p \in UNION {DOMAIN all[i] : i \in DOMAIN all} |->
        all[CHOOSE i \in DOMAIN all : p \in DOMAIN all[i]][p]]

\* The groups regs[1], regs[2] .. of a channel, four inputs each.
PutRegs(input, regs, g) ==
    Together(<<>> \o [i \in DOMAIN regs |-> lte_reg_put(input, 4 * (i - 1), regs[i], g)])

GetRegs(signal, regs, g) ==
    LET part == <<>> \o [i \in DOMAIN regs |-> lte_reg_get(signal, regs[i], g)]
    IN  [i \in 0 .. 4 * Len(regs) - 1 |-> part[i \div 4 + 1][i % 4]]

-----------------------------------------------------------------------------
(* pcfich.c, phich.c, pdcch.c: the channels take their groups in this      *)
(* order.  The result of each is the sequence of its groups, None when one *)
(* cannot be had; free is the set of groups still available.               *)

lte_grid_init_reg_pcfich(regs, g) ==
    LET kh   == (NOF_RE_X_OSYMB \div 2) * (g.cell_id % (2 * g.nof_prb))
        k(i) == (kh + ((i * g.nof_prb) \div 2) * (NOF_RE_X_OSYMB \div 2))
                    % (g.nof_prb * NOF_RE_X_OSYMB)
        take == <<>> \o [i \in 1 .. PCFICH_REG |-> lte_reg_get_k(k(i - 1), 0, regs, g)]
    IN  IF None \in ToSet(take) \/ Cardinality(ToSet(take)) < PCFICH_REG
        THEN None ELSE take

phich_ngroups(g) == IF nof_control_symbols(g) = 0 THEN 0 ELSE (g.nof_prb - 1) \div 8 + 1

lte_grid_init_reg_phich_countfree(l, free) == Cardinality({r \in free : r[2] = l})

\* The ni-th available group of symbol l, blocks first.
lte_grid_init_reg_phich_ni(l, ni, free) ==
    LET before(r) == Cardinality({s \in free : /\ s[2] = l
                                               /\ \/ s[1] < r[1]
                                                  \/ s[1] = r[1] /\ s[3] < r[3]})
        hit == {r \in free : r[2] = l /\ before(r) = ni}
    IN  IF hit = {} THEN None ELSE CHOOSE r \in hit : TRUE

\* lte_grid_init_reg_phich with phich_duration 1: three groups of symbol 0
\* for each group of PHICHs, all of them chosen before any is assigned.
lte_grid_init_reg_phich(free, g) ==
    LET n == lte_grid_init_reg_phich_countfree(0, free)
        ni(mi, i) == (g.cell_id + mi + (i * n) \div 3) % n
    IN  <<>> \o [x \in 1 .. 3 * phich_ngroups(g) |->
            lte_grid_init_reg_phich_ni(0, ni((x - 1) \div 3, (x - 1) % 3), free)]

\* lte_grid_init_reg_pdcch: carriers upwards and, within one, symbol after
\* symbol, so that a group is met at its first carrier, until the elements
\* have all their groups.
lte_grid_init_reg_pdcch(free, g) ==
    LET reg(x)  == lte_reg_get_k(x \div MAX_CTRL_SYMB, x % MAX_CTRL_SYMB, free, g)
        first   == {MAX_CTRL_SYMB * lte_reg_indices(r[1], r[2], r[3], g).k0 + r[2] :
                        r \in {s \in free : s[2] < nof_control_symbols(g)}}
        steps   == [x \in 1 .. g.nof_prb * NOF_RE_X_OSYMB * MAX_CTRL_SYMB |-> x - 1]
        met     == Keep(steps, LAMBDA x : x \in first)
        need    == NOF_REGS_X_CCE * g.nof_cce
    IN  IF Len(met) < need THEN None ELSE <<>> \o [i \in 1 .. need |-> reg(met[i])]

pdcch_nof_re(g) == NOF_RE_X_REG * NOF_REGS_X_CCE * g.nof_cce

\* lte_grid_init: all the groups of the control region, ok if every channel
\* got its own of those the ones before it left.  Without a known cfi one
\* control symbol is laid out.
InitChannels(pcfich, phich, pdcch, g) ==
    [ok |-> /\ pcfich # None /\ None \notin ToSet(phich)
            /\ (g.nof_cce > 0 => pdcch # None),
     pcfich |-> pcfich, phich |-> phich, pdcch |-> pdcch]
InitPdcch(pcfich, phich, free, g) ==
    InitChannels(pcfich, phich, lte_grid_init_reg_pdcch(free \ ToSet(phich), g), g)
InitPhich(pcfich, free, g) == InitPdcch(pcfich, lte_grid_init_reg_phich(free, g), free, g)
InitPcfich(pcfich, regs, g) == InitPhich(pcfich, regs \ ToSet(pcfich), g)
lte_grid_init(g) ==
    LET regs == lte_grid_init_reg(IF g.cfi = -1 THEN 1 ELSE nof_control_symbols(g), g)
    IN  InitPcfich(lte_grid_init_reg_pcfich(regs, g), regs, g)

lte_pcfich_put(input, grid, g) == PutRegs(input, grid.pcfich, g)
lte_pcfich_get(signal, grid, g) == GetRegs(signal, grid.pcfich, g)
lte_phich_put(input, grid, g) == PutRegs(input, grid.phich, g)
lte_phich_get(signal, grid, g) == GetRegs(signal, grid.phich, g)

\* The first input of the i-th group: the code multiplies the number of the
\* channel element by NOF_REGS_X_CCE and not by the inputs of an element.
FirstOf(i) == ((i - 1) \div NOF_REGS_X_CCE) * NOF_REGS_X_CCE
              + 4 * ((i - 1) % NOF_REGS_X_CCE)

lte_pdcch_put(input, grid, g) ==
    Together(<<>> \o [i \in DOMAIN grid.pdcch |->
                        lte_reg_put(input, FirstOf(i), grid.pdcch[i], g)])

\* Later groups overwrite the outputs of earlier ones; an output that no
\* group writes keeps what the buffer held, stale.
lte_pdcch_get(signal, grid, stale, g) ==
    [w \in 0 .. pdcch_nof_re(g) - 1 |->
        LET from == {i \in DOMAIN grid.pdcch : w - FirstOf(i) \in 0 .. 3}
        IN  IF from = {} THEN stale
            ELSE lte_reg_get(signal, grid.pdcch[Max(from)], g)[w - FirstOf(Max(from))]]

-----------------------------------------------------------------------------
(* sync.c, pbch.c, pdsch.c: the channels that are placed symbol by symbol. *)
(* The writes below count their carriers from pre_guard.                   *)

Mid(g) == (g.nof_prb * NOF_RE_X_OSYMB) \div 2

\* symbol_mask of the channels, a set of symbols.
PssSymbols(sf, g) == IF sf \in {0, 5} THEN {Half(g) - 1} ELSE {}
SssSymbols(sf, g) == IF sf \in {0, 5} THEN {Half(g) - 2} ELSE {}
PbchSymbols(sf, g) == IF sf = 0 THEN Half(g) .. Half(g) + 3 ELSE {}

\* Mutant: the symbols of the broadcast channel are left to the PDSCH.
lte_pdsch_init_sf_NoPbch(sf, g) ==
    (nof_control_symbols(g) .. g.nof_osymb_x_subf)
        \ (IF sf \in {0, 5} THEN {Half(g) - 1, Half(g) - 2} ELSE {})

\* lte_pdsch_init_sf: what the control region and, at 6 blocks, the
\* broadcast and synchronisation symbols leave.
lte_pdsch_init_sf(sf, g) ==
    LET bch  == IF g.nof_prb = 6 /\ sf = 0 THEN Half(g) .. Half(g) + 3 ELSE {}
        sync == IF g.nof_prb = 6 /\ sf \in {0, 5} THEN {Half(g) - 1, Half(g) - 2} ELSE {}
    IN  (nof_control_symbols(g) .. g.nof_osymb_x_subf) \ (bch \cup sync)

\* The elements of a block that a PDSCH has in subframe sf, for 1, 2 or 4
\* ports.
lte_pdsch_re_x_prb(sf, g) ==
    LET i    == CASE g.nof_ports = 1 -> 1 [] g.nof_ports = 2 -> 2 [] g.nof_ports = 4 -> 3
        ref  == <<<<4, 6>>, <<8, 12>>, <<4, 8>>>>[i][IF sf = 0 THEN 1 ELSE 2]
        used == IF sf = 0 THEN 6 ELSE IF sf = 5 THEN 2 ELSE 0
    IN  NOF_RE_X_OSYMB * (g.nof_osymb_x_subf - nof_control_symbols(g) - used) - ref

\* lte_pdsch_setup_rbgmask: nof_rbg grows with every block of a group, so
\* that with more than one block to the group entry n has only one of its
\* blocks set.  The sequence lists prb_idx[0], prb_idx[1] .. of all entries.
lte_pdsch_setup_rbgmask(g) ==
    LET sz   == RBG_SZ(g.nof_prb)
        bits == Keep([n \in 1 .. g.nof_prb \div sz |-> n - 1], LAMBDA b : b \in g.rbg_mask)
        prb(n, j) == IF n % sz = j THEN sz * bits[(n \div sz) + 1] + j ELSE 0
    IN  <<>> \o [x \in 1 .. sz * sz * Len(bits) |-> prb((x - 1) \div sz, (x - 1) % sz)]
nof_rb(g) == Len(lte_pdsch_setup_rbgmask(g))
pdsch_nof_re(sf, g) == nof_rb(g) * lte_pdsch_re_x_prb(sf, g)

lte_pss_put(input, sf, l, g) ==
    LET k == Mid(g) - 31
    IN  IF l \notin PssSymbols(sf, g) THEN Nothing
        ELSE [p \in k - 5 .. k + PSS_LEN + 4 |->
                IF p - k \in 0 .. PSS_LEN - 1 THEN input[p - k] ELSE Zero]

lte_sss_put(input, sf, l, g) ==
    LET k == Mid(g) - 31
    IN  IF l \notin SssSymbols(sf, g) THEN Nothing
        ELSE [p \in k - 5 .. k + SSS_LEN + 4 |->
                IF p - k \in 0 .. SSS_LEN - 1 THEN input[p - k] ELSE Zero]

\* lte_pbch_put, from input rp on, and how many inputs the symbol is said
\* to take.
lte_pbch_len(sf, l, g) ==
    IF l \notin PbchSymbols(sf, g) THEN 0
    ELSE 6 * NOF_RE_X_OSYMB - 6 * lte_symbol_has_refsig_or_resv(sf, l, g)

lte_pbch_put(input, rp, sf, l, g) ==
    LET k == Mid(g) - 36
        n == lte_symbol_has_refsig_or_resv(sf, l, g)
    IN  IF l \notin PbchSymbols(sf, g) THEN Nothing
        ELSE Shift(Placed(IF n = 0 THEN lte_ch_cp_noref(6)
                          ELSE lte_ch_put_ref(6, lte_refsig_or_resv_voffset(l, g),
                                              NOF_RE_X_OSYMB \div n),
                          input, rp), k)

lte_pbch_get(symbol, sf, l, g) ==
    LET k == Mid(g) - 36
        n == lte_symbol_has_refsig_or_resv(sf, l, g)
        m == IF n = 0 THEN lte_ch_cp_noref(6)
             ELSE lte_ch_get_ref(6, lte_refsig_or_resv_voffset(l, g), NOF_RE_X_OSYMB \div n)
    IN  IF l \notin PbchSymbols(sf, g) THEN Nothing
        ELSE [w \in DOMAIN m |-> symbol[k + m[w]]]

\* The inputs that one block takes in symbol l, and the whole symbol.
PerBlock(sf, l, g) ==
    NOF_RE_X_OSYMB - lte_symbol_has_refsig_or_resv(sf, l, g) * g.nof_ports
lte_pdsch_len(sf, l, g) ==
    IF l \notin lte_pdsch_init_sf(sf, g) THEN 0 ELSE nof_rb(g) * PerBlock(sf, l, g)

lte_pdsch_put(input, rp, sf, l, g) ==
    LET n    == lte_symbol_has_refsig_or_resv(sf, l, g)
        prbs == lte_pdsch_setup_rbgmask(g)
        map  == IF n = 0 THEN lte_ch_cp_noref(1)
                ELSE lte_ch_put_ref(1, lte_refsig_or_resv_voffset(l, g), NOF_RE_X_OSYMB \div n)
        w    == <<>> \o [i \in DOMAIN prbs |->
                    Shift(Placed(map, input, rp + (i - 1) * PerBlock(sf, l, g)),
                          NOF_RE_X_OSYMB * prbs[i])]
    IN  IF l \notin lte_pdsch_init_sf(sf, g) THEN Nothing
        ELSE [p \in UNION {DOMAIN w[i] : i \in DOMAIN w} |->
                w[Max({i \in DOMAIN w : p \in DOMAIN w[i]})][p]]

lte_pdsch_get(symbol, sf, l, g) ==
    LET n    == lte_symbol_has_refsig_or_resv(sf, l, g)
        prbs == lte_pdsch_setup_rbgmask(g)
        map  == IF n = 0 THEN lte_ch_cp_noref(1)
                ELSE lte_ch_get_ref(1, lte_refsig_or_resv_voffset(l, g), NOF_RE_X_OSYMB \div n)
        per  == PerBlock(sf, l, g)
    IN  IF l \notin lte_pdsch_init_sf(sf, g) THEN Nothing
        ELSE [x \in 0 .. per * Len(prbs) - 1 |->
                symbol[NOF_RE_X_OSYMB * prbs[(x \div per) + 1] + map[x % per]]]

\* lte_set_guard_symbol, counted from the start of the symbol.
lte_set_guard_symbol(g) ==
    LET n == fft_size(g.nof_prb)
    IN  [p \in (0 .. pre_guard(g) - 1) \cup (n - pre_guard(g) .. n - 1) |-> Zero]

-----------------------------------------------------------------------------
(***************************************************************************)
(* The resource mapper and demapper, modrep_osld/lte_resource_mapper and   *)
(* lte_resource_demapper: one subframe of the physical channels into the   *)
(* samples of its symbols, and a channel out of them.  The channels are    *)
(* the ones channel_setup.h connects.                                      *)
(***************************************************************************)
CH_PBCH == 0
CH_PSS == 1
CH_SSS == 2
CH_PCFICH == 3
CH_PHICH == 4
CH_PDCCH == 5
CH_PDSCH == 6

\* The channels of the mapper's table in the order of allocate_all_channels.
MapperChannels == <<CH_PDSCH, CH_PDCCH, CH_PCFICH, CH_PBCH>>

\* lte_ch_get_re: the elements a channel has in subframe sf.
lte_ch_get_re(ch, sf, g) ==
    CASE ch = CH_PDSCH  -> pdsch_nof_re(sf, g)
      [] ch = CH_PDCCH  -> pdcch_nof_re(g)
      [] ch = CH_PCFICH -> PCFICH_REG * NOF_RE_X_REG
      [] ch = CH_PBCH   -> IF sf = 0 THEN PBCH_RE ELSE 0

\* The inputs in front of symbol l.
ReadBefore(ch, sf, l, g) ==
    LET len(m) == IF ch = CH_PDSCH THEN lte_pdsch_len(sf, m, g) ELSE lte_pbch_len(sf, m, g)
    IN  MapThenSumSet(len, 0 .. l - 1)

\* lte_ch_put_symbol: the control channels are laid out over the subframe,
\* the others symbol by symbol.
lte_ch_put_symbol(ch, input, rp, sf, l, grid, g) ==
    CASE ch = CH_PDSCH  -> Shift(lte_pdsch_put(input, rp, sf, l, g), pre_guard(g))
      [] ch = CH_PDCCH  -> lte_pdcch_put(input, grid, g)
      [] ch = CH_PCFICH -> lte_pcfich_put(input, grid, g)
      [] ch = CH_PHICH  -> lte_phich_put(input, grid, g)
      [] ch = CH_PBCH   -> Shift(lte_pbch_put(input, rp, sf, l, g), pre_guard(g))

\* What the writes of the symbols, one after the other, leave.
Latest(all) ==
    [p \in UNION {DOMAIN all[l] : l \in DOMAIN all} |->
        all[Max({l \in DOMAIN all : p \in DOMAIN all[l]})][p]]

Outputs(a, n) == [w \in 0 .. n - 1 |-> a[w]]

\* lte_ch_put_sf: a channel into a subframe.
lte_ch_put_sf(array, ch, input, sf, grid, g) ==
    LET n == fft_size(g.nof_prb)
        all == [l \in 0 .. g.nof_osymb_x_subf - 1 |->
                    Shift(lte_ch_put_symbol(ch, input, ReadBefore(ch, sf, l, g), sf, l, grid, g),
                          l * n)]
    IN  IF ch \in {CH_PDSCH, CH_PBCH} THEN Write(array, Latest(all))
        ELSE Write(array, lte_ch_put_symbol(ch, input, 0, sf, 0, grid, g))

\* lte_ch_get_symbol, with what the output held.
lte_ch_get_symbol(symbol, ch, sf, l, grid, stale, g) ==
    CASE ch = CH_PDSCH  -> lte_pdsch_get(symbol, sf, l, g)
      [] ch = CH_PDCCH  -> lte_pdcch_get(symbol, grid, stale, g)
      [] ch = CH_PCFICH -> lte_pcfich_get(symbol, grid, g)
      [] ch = CH_PHICH  -> lte_phich_get(symbol, grid, g)
      [] ch = CH_PBCH   -> lte_pbch_get(symbol, sf, l, g)

\* lte_ch_get_sf.  The outputs of a symbol start where the ones said to be
\* taken before it end, and may reach into those of the next, which
\* overwrites them.
lte_ch_get_sf(array, ch, sf, grid, stale, g) ==
    LET n == fft_size(g.nof_prb)
        symbol(l) == [k \in -pre_guard(g) .. n - pre_guard(g) - 1 |->
                        array[l * n + pre_guard(g) + k]]
        all == [l \in 0 .. g.nof_osymb_x_subf - 1 |->
                    Shift(lte_ch_get_symbol(symbol(l), ch, sf, l, grid, stale, g),
                          ReadBefore(ch, sf, l, g))]
    IN  IF ch \notin {CH_PDSCH, CH_PBCH} THEN lte_ch_get_symbol(array, ch, sf, 0, grid, stale, g)
        ELSE Outputs(Latest(all), ReadBefore(ch, sf, g.nof_osymb_x_subf, g))

\* check_received_samples_mapper: -1 if a channel brought a wrong number of
\* samples, else how many came.
check_received_samples_mapper(inp, sf, g) ==
    LET len(ch) == Cardinality(DOMAIN inp[ch])
        re(ch)  == IF len(ch) = 0 THEN 0
                   ELSE IF len(ch) = lte_ch_get_re(ch, sf, g) THEN len(ch) ELSE -1
    IN  IF \E ch \in DOMAIN inp : re(ch) = -1 THEN -1
        ELSE MapThenSumSet(re, DOMAIN inp)

\* insert_signals: pss, sss and pilots of port 0 into every symbol.  The
\* second SSS is the one of subframe 5.
insert_signals(array, sf, g) ==
    LET n      == fft_size(g.nof_prb)
        pss    == [i \in 0 .. PSS_LEN - 1 |-> <<CH_PSS, g.cell_id % 3, i>>]
        sss    == [i \in 0 .. SSS_LEN - 1 |-> <<CH_SSS, sf, i>>]
        sync(l) == Shift(Over(lte_sss_put(sss, sf, l, g), lte_pss_put(pss, sf, l, g)),
                         l * n + pre_guard(g))
        ref(l)  == Shift(lte_refsig_put(0, sf, l, g), l * n)
        all    == [l \in 0 .. g.nof_osymb_x_subf - 1 |-> Over(ref(l), sync(l))]
    IN  [p \in DOMAIN array |->
            LET w == all[p \div n]
            IN  IF p \in DOMAIN w THEN w[p] ELSE array[p]]

lte_set_guard_sf(array, g) ==
    [p \in DOMAIN array |->
        IF p % fft_size(g.nof_prb) \in DOMAIN lte_set_guard_symbol(g)
        THEN Zero ELSE array[p]]

\* allocate_all_channels: a cleared subframe, the channels that brought
\* samples, the signals, and the guard carriers at last.
allocate_all_channels(inp, sf, grid, g) ==
    LET zero == [p \in 0 .. g.nof_osymb_x_subf * fft_size(g.nof_prb) - 1 |-> Zero]
        put[i \in 0 .. Len(MapperChannels)] ==
            IF i = 0 THEN zero
            ELSE LET ch == MapperChannels[i]
                 IN  IF DOMAIN inp[ch] = {} THEN put[i - 1]
                     ELSE lte_ch_put_sf(put[i - 1], ch, inp[ch], sf, grid, g)
    IN  lte_set_guard_sf(insert_signals(put[Len(MapperChannels)], sf, g), g)

\* work of lte_resource_mapper: ret is what it returns, out the subframe.
lte_resource_mapper(inp, sf, g) ==
    LET n == check_received_samples_mapper(inp, sf, g)
    IN  IF n < 1 THEN [ret |-> n, out |-> None]
        ELSE [ret |-> 0, out |-> allocate_all_channels(inp, sf, lte_grid_init(g), g)]

\* channels_init_grid with init_pdsch, init_pdcch and init_other: the part of
\* the grid that channel ch needs can be laid out.
channels_init_grid(ch, grid, g) ==
    CASE ch = CH_PDSCH  -> lte_grid_init_params(g) # -1 /\ g.cfi >= 1
      [] ch = CH_PDCCH  -> grid.ok
      [] OTHER          -> lte_grid_init_params(g) # -1

\* work of lte_resource_demapper with channel ch enabled: the subframe goes on
\* to the next demapper on the copy port, but not while sf is still unknown.
Demap(signal, ch, sf, stale, grid, g) ==
    LET n == g.nof_osymb_x_subf * fft_size(g.nof_prb)
    IN  IF sf = -1 \/ DOMAIN signal = {} THEN [ret |-> 0, out |-> None, copy |-> None]
        ELSE IF Cardinality(DOMAIN signal) # n \/ ~channels_init_grid(ch, grid, g)
             THEN [ret |-> -1, out |-> None, copy |-> None]
        ELSE [ret |-> 0, out |-> lte_ch_get_sf(signal, ch, sf, grid, stale, g), copy |-> signal]
lte_resource_demapper(signal, ch, sf, stale, g) ==
    Demap(signal, ch, sf, stale, lte_grid_init(g), g)
=============================================================================
