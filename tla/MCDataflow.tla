----------------------------- MODULE MCDataflow -----------------------------
(***************************************************************************)
(* Waveforms of five or six modules and tasks: a fork that joins again,     *)
(* with a control module; links back in the chain; modules joined into one *)
(* task; one that needs no computation.  Files with a sub-model, with      *)
(* modes, and with a line, a value or a name that is wrong.                *)
(***************************************************************************)
EXTENDS WaveformLoad

Names == <<"a", "b", "c", "d", "e", "f">>

\* The k-th line from a module starts at its k-th output, and so for inputs.
Lines(pairs) ==
    [i \in 1 .. Len(pairs) |->
        [src |-> <<Names[pairs[i][1]]>>, dst |-> <<Names[pairs[i][2]]>>, delay |-> -1,
         sport |-> Cardinality({j \in 1 .. i - 1 : pairs[j][1] = pairs[i][1]}),
         dport |-> Cardinality({j \in 1 .. i - 1 : pairs[j][2] = pairs[i][2]})]]
Plain(c, pairs) ==
    [modes |-> <<"default">>, joins |-> <<>>, ctrl |-> <<>>, granularity |-> 0, lines |-> Lines(pairs),
     entries |-> [i \in 1 .. Len(c) |->
                    [name |-> <<Names[i]>>, count |-> 1, c |-> c[i], vars |-> <<>>, sub |-> <<>>]]]

Diamond == <<<<1, 3>>, <<3, 4>>, <<4, 6>>, <<1, 5>>, <<5, 6>>>>
Forked == [Plain(<<2, 1, 2, 1, 2, 2>>, Diamond) EXCEPT !.joins = <<<<<<"c">>, <<"d">>>>>>, !.ctrl = <<"b">>]
Short == [Plain(<<2, 1, 2, 1, 2>>, <<<<1, 3>>, <<3, 4>>, <<4, 5>>, <<1, 5>>>>) EXCEPT !.ctrl = <<"b">>]
Asked == [Forked EXCEPT !.joins = <<>>, !.lines = Lines(Diamond \o <<<<1, 2>>, <<6, 1>>>>)]
Silent == [Forked EXCEPT !.joins = <<>>, !.lines = Lines(Diamond \o <<<<6, 2>>>>)]
Ring == <<<<1, 2>>, <<2, 3>>, <<3, 4>>, <<4, 5>>, <<5, 1>>>>
Chain(c) == Plain(c, Ring)
Free == Plain(<<1, 1, 2, 2, 1, 0>>, SubSeq(Ring, 1, 4) \o <<<<5, 6>>>>)
Coarse == [Chain(<<1, 2, 2, 1, 1>>) EXCEPT !.granularity = 5]
Heavy == {Chain(<<a, b, a, b, a>>) : a \in 1 .. 4, b \in 1 .. 4}

\* Two modes, a sub-model of three modules with two ports on each side.
Value(in, size, val) == [mode |-> in, type |-> "int", size |-> size, val |-> val]
Variable(values) == [name |-> "gain", values |-> values]
Entry1(name, count, given) == [name |-> <<name>>, count |-> count, c |-> 1, vars |-> given, sub |-> <<>>]
Line(s, p, d, q) == [src |-> s, sport |-> p, dst |-> d, dport |-> q, delay |-> -1]
Inner == [entries |-> <<Entry1("x", 2, <<>>), Entry1("y", 1, <<Variable(<<Value("low", 4, 7)>>)>>)>>,
          lines |-> <<Line(INPUT, 0, <<"x", "0">>, 0), Line(INPUT, 1, <<"x", "1">>, 0),
                      Line(<<"x", "0">>, 0, <<"y">>, 0), Line(<<"x", "1">>, 0, <<"y">>, 1),
                      Line(<<"y">>, 0, OUTPUT, 0), Line(<<"y">>, 1, OUTPUT, 1)>>]
Composed ==
    [modes |-> <<"low", "high">>, joins |-> <<>>, ctrl |-> <<"a">>, granularity |-> 0,
     entries |-> <<Entry1("a", 1, <<>>),
                   [name |-> <<"tx">>, count |-> 1, c |-> 0, vars |-> <<>>, sub |-> <<Inner>>],
                   Entry1("b", 1, <<Variable(<<Value("high", 4, 2), Value("low", 4, 1)>>)>>)>>,
     lines |-> <<Line(<<"a">>, 0, <<"tx">>, 0), [Line(<<"a">>, 1, <<"tx">>, 1) EXCEPT !.delay = 2],
                 Line(<<"tx">>, 0, <<"b">>, 1), Line(<<"tx">>, 1, <<"b">>, 0)>>]

\* One line, or one line of the sub-model, is another; a value is; two
\* sub-models of one name begin alike; the output comes from the first module.
Rewired == {[Composed EXCEPT !.lines[k] = Line(s, p, d, q)] :
                k \in 2 .. 3, s \in {<<"a">>, <<"tx">>}, d \in {<<"tx">>, <<"b">>},
                p \in 0 .. 2, q \in 0 .. 1}
Inside == {[Composed EXCEPT !.entries[2].sub[1].lines[k] = Line(s, p, d, q)] :
                k \in {2, 3, 5}, s \in {INPUT, <<"x", "0">>, <<"y">>}, p \in 0 .. 1,
                d \in {OUTPUT, <<"y">>, <<"x", "1">>}, q \in 0 .. 1}
Valued == {[Composed EXCEPT !.entries[3].vars[1].values = v] :
                v \in {<<Value("low", 4, 1), Value("low", 4, 2)>>, <<Value("low", 4, 1), Value("high", 8, 2)>>,
                       <<Value("low", 4, 1), Value("top", 4, 2)>>, <<Value("low", 800, 1)>>,
                       <<[Value("low", 4, 1) EXCEPT !.type = "other"]>>}}
Longer == [Composed EXCEPT !.lines = Append(@, Line(<<"b">>, 0, <<"a">>, 0))]
Files == {Composed, Longer, [Composed EXCEPT !.lines = <<>>]} \cup Rewired \cup Inside \cup Valued

One  == [N |-> 1, ts |-> 12, core0 |-> 12, bandwidth |-> 12]
Two  == [N |-> 2, ts |-> 6, core0 |-> 12, bandwidth |-> 12]
Half == [N |-> 2, ts |-> 12, core0 |-> 6, bandwidth |-> 12]

On(f, p, u) == [wf |-> Meaning(f), plat |-> p, file |-> f, user |-> u]

MCLoads ==
    {On(Short, One, "pause"), On(Forked, Two, "start"), On(Silent, Two, "start"),
     On(Free, Half, "start"), On(Asked, One, "start")}
    \cup {On(f, p, "load") : f \in Heavy \cup {Coarse, Asked}, p \in {One, Two, Half}}
    \cup {On(f, One, "load") : f \in Files}
=============================================================================
