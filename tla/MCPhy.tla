------------------------------- MODULE MCPhy --------------------------------
EXTENDS Phy

\* Up to five of the sixteen symbols turned over.
CfiHarm == {{}, {0}, {15}, 0 .. 4, 11 .. 15, {0, 3, 6, 9, 12}, {1, 4, 7, 10, 13}, {2, 5, 8, 11, 14}}

\* Twelve packets of four kinds: the first, five, five and the last.  Ten
\* misses in between are enough to lose the start where unsync is 1.
Stretched(q) == [k \in 1 .. 12 |-> q[IF k = 1 THEN 1 ELSE IF k < 7 THEN 2 ELSE IF k < 12 THEN 3 ELSE 4]]

MCJobsOf(kind) ==
    CASE kind = "pcfich" ->
           {[kind |-> kind, cfi |-> i, sf |-> n, erased |-> {}, turned |-> t, moved |-> <<0, 0>>] :
                i \in 1 .. 3, n \in {0, 4, 9}, t \in CfiHarm}
      [] kind = "pdcch" ->
           {[kind |-> kind, mcs |-> x[1], mask |-> x[2], nof_rbg |-> 6, sf |-> x[3],
             erased |-> x[4], turned |-> {}, moved |-> <<0, 0>>] :
                x \in {<<0, {}, 0, {}>>, <<4, {0}, 4, {}>>, <<28, 0 .. 5, 9, {}>>, <<31, {5}, 4, {}>>,
                       <<10, {1, 3}, 0, {17}>>, <<21, {0, 2, 4}, 9, {71}>>}}
      [] kind = "pbch" ->
           {[kind |-> kind, nof_prb |-> x[1], sfn |-> x[2], nof_ports |-> x[3], frame |-> x[4],
             erased |-> {}, turned |-> {}, moved |-> <<0, 0>>] :
                x \in {<<6, 0, 1, 0>>, <<100, 255, 1, 3>>, <<25, 90, 2, 1>>, <<50, 131, 4, 2>>}}
      [] kind = "subframe" ->
           {[kind |-> kind, cell_id |-> x[1], cfi |-> x[2], sf |-> x[3], mask |-> x[4], heard |-> x[5]] :
                x \in {<<0, 1, 0, 0 .. 5, FALSE>>, <<1, 2, 0, {0, 2}, TRUE>>, <<2, 3, 0, {5}, FALSE>>,
                       <<3, 1, 0, {1, 2, 3}, TRUE>>, <<4, 2, 0, 0 .. 5, FALSE>>, <<5, 3, 0, 0 .. 5, TRUE>>,
                       <<6, 3, 5, 0 .. 5, TRUE>>, <<150, 2, 5, {2, 3}, FALSE>>, <<305, 1, 5, {4}, TRUE>>,
                       <<7, 1, 1, 0 .. 5, FALSE>>, <<8, 2, 9, {0, 1}, TRUE>>, <<503, 3, 2, {3, 5}, FALSE>>}}
      [] kind = "symbols" ->
           UNION {{[kind |-> kind, modulation |-> m, value |-> v, erased |-> {}, turned |-> {}, moved |-> d] :
                     v \in 0 .. 2^m - 1, d \in {<<0, 0>>, <<3, 3>>, <<-3, 3>>, <<3, -3>>, <<-3, -3>>}} :
                  m \in Modulations}
      [] kind = "sss" ->
           {[kind |-> kind, cell_id |-> 3 * n + (n % 3), sf |-> s, first |-> f, threshold |-> 15,
             turned |-> {(n * 7) % 62, (n * 11 + 1) % 62, (n * 13 + 5) % 62}] :
                n \in {4 * i : i \in 0 .. 41} \cup {29, 59, 87, 114, 167}, s \in {0, 5}, f \in BOOLEAN}
      [] kind = "pilots" ->
           {[kind |-> kind, cell_id |-> i, sf |-> 0] : i \in 0 .. 5}
      [] kind = "block" ->
           {[kind |-> kind, tbs |-> b] : b \in {16, 40, 6144, 6145, 12216, 12217, 24457, 30577, 36696}}
      [] kind = "padding" ->
           {[kind |-> kind, packets |-> n, pre |-> i, post |-> j] : n \in 1 .. 3, i \in {0, 2}, j \in {0, 3}}
      [] kind = "frames" ->
           {[kind |-> kind, unsync |-> u, peaks |-> Stretched(q)] :
                u \in {0, 1}, q \in [1 .. 4 -> {-1, 1, 4, 6}]}
=============================================================================
