--------------------------- MODULE PipelineProofs ---------------------------
(***************************************************************************)
(* The list of a pipeline is well formed at every moment, and a slot        *)
(* without a removal runs all of it, for every size of the process table.   *)
(***************************************************************************)
EXTENDS Pipeline, Induction, FiniteSetTheorems

\* The list holds the n processes s[0], ..., s[n - 1], in this order.
Chain(n, s) ==
  /\ s \in [0 .. n - 1 -> Procs]
  /\ \A i, j \in 0 .. n - 1 : s[i] = s[j] => i = j
  /\ first = IF n = 0 THEN Null ELSE s[0]
  /\ \A i \in 0 .. n - 1 : next[s[i]] = IF i = n - 1 THEN Null ELSE s[i + 1]

Elements(n, s) == {s[i] : i \in 0 .. n - 1}

Sorted(n, s) == \A i, j \in 0 .. n - 1 : i <= j => pos[s[i]] <= pos[s[j]]

\* The processes in use and not being removed, and what nof_processes still lacks.
Members == used \ (IF cpc \in {"uncount", "clear"} THEN {proc} ELSE {})

Pending == CASE cpc = "count" -> 1 [] cpc = "uncount" -> -1 [] OTHER -> 0

\* While nothing has been removed the walk stands at a process of the list, and what
\* it has not run yet of the slot's processes is from there on.
WalkInv(n, s) ==
  /\ wpc = "wait" /\ ~cut => must \subseteq ran
  /\ wpc = "visit" /\ ~cut =>
       \E i \in 0 .. n - 1 : s[i] = cur /\ must \subseteq ran \union {s[j] : j \in i .. n - 1}
  /\ wpc = "next" /\ ~cut =>
       \E i \in 0 .. n - 1 : s[i] = cur /\ must \subseteq ran \union {s[j] : j \in i + 1 .. n - 1}

ListInv(n, s) ==
  /\ Chain(n, s) /\ Elements(n, s) = Members /\ Sorted(n, s)
  /\ n = nof + Pending
  /\ WalkInv(n, s)

TypeInv ==
  /\ used \subseteq Procs /\ pos \in [Procs -> Nat]
  /\ next \in [Procs -> Procs \union {Null}] /\ nof \in Int
  /\ cpc \in {"idle", "count", "uncount", "clear"}
  /\ cpc \in {"uncount", "clear"} => proc \in used
  /\ wpc \in {"wait", "visit", "next", "fatal"} /\ cut \in BOOLEAN

\* The inductive invariant: some sequence of processes is the list.
IInv == TypeInv /\ \E n \in 0 .. MaxProcs : \E s \in [0 .. n - 1 -> Procs] : ListInv(n, s)

-----------------------------------------------------------------------------

\* What the recursive function Nth computes on a list.
LEMMA NthIs ==
  ASSUME PipelineAssumption, NEW n \in 0 .. MaxProcs, NEW s, Chain(n, s)
  PROVE  Nth = [k \in 0 .. MaxProcs |-> IF k < n THEN s[k] ELSE Null]
<1> DEFINE D == 0 .. MaxProcs
           g == [k \in D |-> IF k < n THEN s[k] ELSE Null]
           Eq(h) == h = [k \in D |-> IF k = 0 THEN first
                                     ELSE IF h[k - 1] = Null THEN Null ELSE next[h[k - 1]]]
<1>1. Eq(g)
  <2>1. SUFFICES ASSUME NEW k \in D
                 PROVE  g[k] = IF k = 0 THEN first
                               ELSE IF g[k - 1] = Null THEN Null ELSE next[g[k - 1]]
    OBVIOUS
  <2>2. CASE k = 0
    BY <2>2, PipelineAssumption DEF Chain
  <2>3. CASE k # 0
    <3>1. k - 1 \in D
      BY <2>3, PipelineAssumption
    <3>2. CASE k - 1 < n
      <4>1. k - 1 \in 0 .. n - 1 /\ g[k - 1] = s[k - 1] /\ s[k - 1] # Null
        BY <2>3, <3>1, <3>2 DEF Chain, Procs, Null
      <4> QED BY <2>3, <4>1, <3>1, <3>2 DEF Chain
    <3>3. CASE ~(k - 1 < n)
      BY <2>3, <3>1, <3>3
    <3> QED BY <3>2, <3>3
  <2> QED BY <2>2, <2>3
<1>2. ASSUME NEW h, Eq(h)
      PROVE  h = g
  <2> DEFINE S == {k \in D : h[k] = g[k]}
  <2>1. 0 \in S
    <3>1. 0 \in D
      BY PipelineAssumption
    <3>2. h[0] = first
      BY <1>2, <3>1
    <3>3. g[0] = first
      <4> HIDE DEF g
      <4> QED BY <1>1, <3>1
    <3> QED BY <3>1, <3>2, <3>3
  <2>2. \A i \in 0 .. MaxProcs - 1 : i \in S => i + 1 \in S
    <3>1. SUFFICES ASSUME NEW i \in 0 .. MaxProcs - 1, h[i] = g[i] PROVE h[i + 1] = g[i + 1]
      BY PipelineAssumption, SMTT(30)
    <3>2. i + 1 \in D /\ i + 1 # 0 /\ (i + 1) - 1 = i
      BY PipelineAssumption
    <3>3. h[i + 1] = IF h[i] = Null THEN Null ELSE next[h[i]]
      BY <1>2, <3>2, SMTT(30)
    <3>4. g[i + 1] = IF g[i] = Null THEN Null ELSE next[g[i]]
      <4> HIDE DEF g
      <4> QED BY <1>1, <3>2
    <3> QED BY <3>1, <3>3, <3>4
  <2> HIDE DEF S
  <2>3. D \subseteq S
    BY <2>1, <2>2, UpTo, PipelineAssumption
  <2> QED BY <1>1, <1>2, <2>3, Zenon DEF S
<1>3. Nth = CHOOSE h : Eq(h)
  BY DEF Nth
<1> HIDE DEF Eq, g
<1>4. Eq(Nth)
  BY <1>1, <1>3
<1>5. Nth = g
  BY <1>4, <1>2
<1> QED BY <1>5, SMTT(30) DEF g

\* Different processes at n places: no more of them than entries of the table.
LEMMA ElementsCount ==
  ASSUME PipelineAssumption, NEW n \in Nat, NEW s \in [0 .. n - 1 -> Procs],
         \A i, j \in 0 .. n - 1 : s[i] = s[j] => i = j
  PROVE  n <= MaxProcs /\ Cardinality(Elements(n, s)) = n
<1> DEFINE D == 0 .. n - 1
<1>1. IsFiniteSet(D) /\ Cardinality(D) = n
  BY FS_Interval
<1>2. IsFiniteSet(Procs) /\ Cardinality(Procs) = MaxProcs
  BY FS_Interval, PipelineAssumption DEF Procs
<1>3. s \in Injection(D, Procs)
  BY DEF Injection, IsInjective
<1>4. n <= MaxProcs
  BY <1>1, <1>2, <1>3, FS_Injection
<1>5. s \in Injection(D, Elements(n, s)) /\ s \in Surjection(D, Elements(n, s))
  BY DEF Injection, IsInjective, Surjection, Elements
<1>6. Cardinality(Elements(n, s)) = n
  BY <1>1, <1>5, FS_Surjection
<1> QED BY <1>4, <1>6

\* pipeline_add stops behind the last process with the same or a lower position.
LEMMA BehindIs ==
  ASSUME PipelineAssumption, TypeInv, NEW n \in 0 .. MaxProcs, NEW s, Chain(n, s), Sorted(n, s),
         NEW e \in Nat
  PROVE  LET k == Cardinality(Behind(e)) IN
         /\ k \in 0 .. n
         /\ \A i \in 0 .. n - 1 : pos[s[i]] <= e <=> i < k
<1>1. Behind(e) = {i \in 0 .. n - 1 : pos[s[i]] <= e}
  <2>1. \A i \in 0 .. MaxProcs : Nth[i] = IF i < n THEN s[i] ELSE Null
    BY NthIs
  <2>2. \A i \in 0 .. n - 1 : i \in 0 .. MaxProcs /\ s[i] # Null
    BY DEF Chain, Procs, Null
  <2> QED BY <2>1, <2>2 DEF Behind
<1> DEFINE Later == {i \in 0 .. n : i = n \/ pos[s[i]] > e}
<1>2. PICK k \in Later : \A i \in Later : k <= i
  <2>1. n \in Later /\ Later \subseteq Nat
    OBVIOUS
  <2> HIDE DEF Later
  <2> QED BY <2>1, LeastElement
<1>3. \A i \in 0 .. n - 1 : s[i] \in Procs /\ pos[s[i]] \in Nat
  BY DEF Chain, TypeInv
<1>4. \A i \in 0 .. n - 1 : pos[s[i]] <= e <=> i < k
  <2>1. SUFFICES ASSUME NEW i \in 0 .. n - 1 PROVE pos[s[i]] <= e <=> i < k
    OBVIOUS
  <2>2. CASE i < k
    BY <1>2, <1>3, <2>2
  <2>3. CASE k <= i
    <3>1. k \in 0 .. n - 1 /\ pos[s[k]] > e
      BY <1>2, <2>3
    <3>2. pos[s[k]] <= pos[s[i]]
      BY <3>1, <2>3 DEF Sorted
    <3> QED BY <1>3, <3>1, <3>2, <2>3
  <2> QED BY <2>2, <2>3
<1>5. Behind(e) = 0 .. k - 1
  BY <1>1, <1>4
<1>6. Cardinality(0 .. k - 1) = k
  BY FS_Interval
<1> QED BY <1>4, <1>5, <1>6

-----------------------------------------------------------------------------

\* A step of the walk, which does not touch the list.
LEMMA WalkerKeeps ==
  ASSUME PipelineAssumption, TypeInv, NEW n \in 0 .. MaxProcs, NEW s \in [0 .. n - 1 -> Procs],
         ListInv(n, s), Walker
  PROVE  TypeInv' /\ ListInv(n, s)'
<1>1. /\ UNCHANGED ctl
      /\ wpc' \in {"wait", "visit", "next", "fatal"} /\ cut' \in BOOLEAN
  BY Zenon DEF Walker, SlotStart, Visit, Follow, TypeInv
<1>2. TypeInv'
  BY <1>1 DEF TypeInv, ctl
<1>3. (Chain(n, s) /\ Elements(n, s) = Members /\ Sorted(n, s) /\ n = nof + Pending)'
  BY <1>1, Zenon DEF ListInv, Chain, Elements, Members, Sorted, Pending, ctl
<1>4. WalkInv(n, s)'
  <2>1. CASE SlotStart
    <3>1. Linked = Elements(n, s)
      <4>1. \A i \in 0 .. MaxProcs : Nth[i] = IF i < n THEN s[i] ELSE Null
        BY NthIs DEF ListInv
      <4>2. \A i \in 0 .. n - 1 : i \in 0 .. MaxProcs /\ s[i] # Null
        BY DEF Procs, Null
      <4> QED BY <4>1, <4>2 DEF Linked, Elements
    <3>2. CASE n = 0
      BY <2>1, <3>1, <3>2 DEF SlotStart, WalkInv, ListInv, Chain, Elements, Null
    <3>3. CASE n # 0
      <4>1. 0 \in 0 .. n - 1 /\ first = s[0] /\ s[0] # Null
        BY <3>3 DEF ListInv, Chain, Procs, Null
      <4>2. cur' = s[0] /\ wpc' = "visit" /\ must' \subseteq {s[j] : j \in 0 .. n - 1}
        BY <2>1, <3>1, <4>1 DEF SlotStart, Elements
      <4> QED BY <4>1, <4>2 DEF WalkInv
    <3> QED BY <3>2, <3>3
  <2>2. CASE Visit
    <3>1. SUFFICES ASSUME wpc' = "next", ~cut
                   PROVE  \E i \in 0 .. n - 1 :
                            s[i] = cur /\ must \subseteq ran' \union {s[j] : j \in i + 1 .. n - 1}
      BY <2>2 DEF Visit, WalkInv
    <3>2. PICK i \in 0 .. n - 1 :
            s[i] = cur /\ must \subseteq ran \union {s[j] : j \in i .. n - 1}
      BY <2>2, <3>1 DEF Visit, ListInv, WalkInv
    <3>3. ran' = ran \union {s[i]}
      BY <2>2, <3>1, <3>2 DEF Visit
    <3> QED BY <3>2, <3>3
  <2>3. CASE Follow
    <3>1. SUFFICES ASSUME ~cut
                   PROVE  \/ wpc' = "wait" /\ must \subseteq ran
                          \/ /\ wpc' = "visit"
                             /\ \E i \in 0 .. n - 1 :
                                  s[i] = cur' /\ must \subseteq ran \union {s[j] : j \in i .. n - 1}
      BY <2>3 DEF Follow, WalkInv
    <3>2. PICK i \in 0 .. n - 1 :
            s[i] = cur /\ must \subseteq ran \union {s[j] : j \in i + 1 .. n - 1}
      BY <2>3, <3>1 DEF Follow, ListInv, WalkInv
    <3>3. CASE i = n - 1
      <4>1. next[cur] = Null
        BY <3>2, <3>3 DEF ListInv, Chain
      <4> QED BY <2>3, <3>2, <3>3, <4>1 DEF Follow
    <3>4. CASE i # n - 1
      <4>1. i + 1 \in 0 .. n - 1 /\ next[cur] = s[i + 1] /\ s[i + 1] # Null
        BY <3>2, <3>4 DEF ListInv, Chain, Procs, Null
      <4> QED BY <2>3, <3>2, <4>1 DEF Follow
    <3> QED BY <3>3, <3>4
  <2> QED BY <2>1, <2>2, <2>3 DEF Walker
<1> QED BY <1>2, <1>3, <1>4 DEF ListInv

\* The steps of the control thread that leave the pointers of the list as they are.
LEMMA CountingKeeps ==
  ASSUME PipelineAssumption, TypeInv, NEW n \in 0 .. MaxProcs, NEW s \in [0 .. n - 1 -> Procs],
         ListInv(n, s), AddCount \/ RemoveCount \/ RemoveClear
  PROVE  TypeInv' /\ ListInv(n, s)'
<1>1. CASE AddCount
  BY <1>1, SMTT(30) DEF AddCount, TypeInv, ListInv, Chain, Elements, Members, Sorted, Pending, WalkInv, walk
<1>2. CASE RemoveCount
  BY <1>2, SMTT(30) DEF RemoveCount, TypeInv, ListInv, Chain, Elements, Members, Sorted, Pending, WalkInv, walk
<1>3. CASE RemoveClear
  <2>1. \A i \in 0 .. n - 1 : s[i] # proc /\ next'[s[i]] = next[s[i]]
    BY <1>3 DEF RemoveClear, TypeInv, ListInv, Elements, Members
  <2>2. TypeInv'
    BY <1>3 DEF RemoveClear, TypeInv, walk
  <2>3. Chain(n, s)'
    BY <1>3, <2>1 DEF RemoveClear, ListInv, Chain
  <2>4. (Elements(n, s) = Members)' /\ (n = nof + Pending)'
    BY <1>3 DEF RemoveClear, ListInv, Elements, Members, Pending
  <2>5. Sorted(n, s)' /\ WalkInv(n, s)'
    BY <1>3 DEF RemoveClear, ListInv, Sorted, WalkInv, walk
  <2> QED BY <2>2, <2>3, <2>4, <2>5 DEF ListInv
<1> QED BY <1>1, <1>2, <1>3

\* pipeline_add puts the process at place k of the list.
LEMMA AddKeeps ==
  ASSUME PipelineAssumption, TypeInv, NEW n \in 0 .. MaxProcs, NEW s \in [0 .. n - 1 -> Procs],
         ListInv(n, s), NEW p \in Procs, NEW e \in Positions, Add(p, e)
  PROVE  IInv'
<1>1. e \in Nat
  BY PipelineAssumption
<1>2. PICK k \in 0 .. n : /\ k = Cardinality(Behind(e))
                         /\ \A i \in 0 .. n - 1 : pos[s[i]] <= e <=> i < k
  BY <1>1, BehindIs, Zenon DEF ListInv
<1> DEFINE m == n + 1
           t == [i \in 0 .. m - 1 |-> IF i < k THEN s[i] ELSE IF i = k THEN p ELSE s[i - 1]]
<1>3. k # 0 => Nth[k - 1] = s[k - 1]
  <2>1. \A i \in 0 .. MaxProcs : Nth[i] = IF i < n THEN s[i] ELSE Null
    BY NthIs DEF ListInv
  <2> QED BY <1>2, <2>1
<1>4. /\ cpc = "idle" /\ p \notin used /\ used' = used \union {p}
      /\ pos' = [pos EXCEPT ![p] = e]
      /\ first' = IF k = 0 THEN p ELSE first
      /\ next' = IF k = 0 THEN [next EXCEPT ![p] = first]
                 ELSE [next EXCEPT ![p] = next[s[k - 1]], ![s[k - 1]] = p]
      /\ proc' = p /\ cpc' = "count" /\ UNCHANGED <<nof, walk, must, cut>>
  BY <1>2, <1>3, Zenon DEF Add
<1>5. \A i \in 0 .. n - 1 : s[i] # p /\ s[i] \in Procs
  BY <1>4 DEF ListInv, Elements, Members
<1>6. t \in [0 .. m - 1 -> Procs]
  BY <1>2
<1>7. \A i, j \in 0 .. m - 1 : t[i] = t[j] => i = j
  <2>1. \A i, j \in 0 .. n - 1 : s[i] = s[j] => i = j
    BY DEF ListInv, Chain
  <2> QED BY <1>2, <1>5, <2>1
<1>8. m \in 0 .. MaxProcs
  <2>1. m \in Nat
    OBVIOUS
  <2> HIDE DEF t, m
  <2>2. m <= MaxProcs
    BY <1>6, <1>7, <2>1, ElementsCount, Zenon
  <2> QED BY <2>1, <2>2, PipelineAssumption
<1>9. TypeInv'
  <2>1. first \in Procs \union {Null}
    BY SMTT(30) DEF ListInv, Chain
  <2>2. next' \in [Procs -> Procs \union {Null}]
    <3>1. CASE k = 0
      BY <1>4, <2>1, <3>1 DEF TypeInv
    <3>2. CASE k # 0
      <4>1. next[s[k - 1]] \in Procs \union {Null}
        BY <1>2, <1>5, <3>2, SMTT(30) DEF TypeInv
      <4> QED BY <1>4, <3>2, <4>1, Zenon DEF TypeInv
    <3> QED BY <3>1, <3>2
  <2> QED BY <1>1, <1>4, <2>2, SMTT(30) DEF TypeInv, walk
<1>10. Chain(m, t)'
  <2>1. first' = IF m = 0 THEN Null ELSE t[0]
    BY <1>2, <1>4, SMTT(30) DEF ListInv, Chain
  <2>2. ASSUME NEW i \in 0 .. m - 1
        PROVE  next'[t[i]] = IF i = m - 1 THEN Null ELSE t[i + 1]
    <3>1. CASE i = k
      <4>1. t[i] = p /\ (i # m - 1 => t[i + 1] = s[i])
        BY <1>2, <3>1
      <4>2. CASE k = 0
        BY <1>4, <3>1, <4>1, <4>2 DEF ListInv, Chain, TypeInv
      <4>3. CASE k # 0
        <5>1. next'[p] = next[s[k - 1]] /\ k - 1 \in 0 .. n - 1
          BY <1>2, <1>4, <1>5, <4>3 DEF TypeInv
        <5> QED BY <1>2, <3>1, <4>1, <5>1, SMTT(30) DEF ListInv, Chain
      <4> QED BY <4>2, <4>3, SMTT(30)
    <3>2. CASE i = k - 1
      BY <1>2, <1>4, <1>5, <3>2, SMTT(30) DEF TypeInv
    <3>3. CASE i < k - 1
      <4>1. i \in 0 .. n - 1 /\ t[i] = s[i] /\ t[i + 1] = s[i + 1] /\ s[i] # s[k - 1] /\ i # n - 1
        BY <1>2, <3>3, SMTT(30) DEF ListInv, Chain
      <4>2. next'[s[i]] = next[s[i]]
        BY <1>2, <1>4, <1>5, <4>1, Zenon DEF TypeInv
      <4> QED BY <1>2, <3>3, <4>1, <4>2, SMTT(30) DEF ListInv, Chain
    <3>4. CASE i > k
      <4>1. i - 1 \in 0 .. n - 1 /\ t[i] = s[i - 1] /\ (k # 0 => s[i - 1] # s[k - 1])
        BY <1>2, <3>4, SMTT(30) DEF ListInv, Chain
      <4>2. next'[s[i - 1]] = next[s[i - 1]]
        BY <1>2, <1>4, <1>5, <4>1, Zenon DEF TypeInv
      <4>3. i # m - 1 => t[i + 1] = s[i]
        BY <1>2, <3>4
      <4> QED BY <3>4, <4>1, <4>2, <4>3, SMTT(30) DEF ListInv, Chain
    <3> QED BY <1>2, <3>1, <3>2, <3>3, <3>4, SMTT(30)
  <2> HIDE DEF t
  <2> QED BY <1>6, <1>7, <2>1, <2>2 DEF Chain
<1>11. (Elements(m, t) = Members)'
  <2>1. Elements(m, t) = Elements(n, s) \union {p}
    <3>1. t[k] = p /\ k \in 0 .. m - 1
      BY <1>2
    <3>2. \A i \in 0 .. n - 1 : \E j \in 0 .. m - 1 : t[j] = s[i]
      <4>1. TAKE i \in 0 .. n - 1
      <4>2. CASE i < k
        BY <1>2, <4>2
      <4>3. CASE i >= k
        <5>1. i + 1 \in 0 .. m - 1 /\ t[i + 1] = s[i]
          BY <1>2, <4>3
        <5> QED BY <5>1, Zenon
      <4> QED BY <1>2, <4>2, <4>3
    <3>3. \A j \in 0 .. m - 1 : t[j] = p \/ \E i \in 0 .. n - 1 : t[j] = s[i]
      BY <1>2
    <3> HIDE DEF t
    <3> QED BY <3>1, <3>2, <3>3, SMTT(30) DEF Elements
  <2>2. Members = used /\ Members' = used'
    BY <1>4 DEF Members
  <2> QED BY <1>4, <2>1, <2>2, Zenon DEF ListInv, Elements
<1>12. Sorted(m, t)'
  <2>1. \A i \in 0 .. m - 1 : pos'[t[i]] = IF i < k THEN pos[s[i]] ELSE IF i = k THEN e ELSE pos[s[i - 1]]
    BY <1>2, <1>4, <1>5 DEF TypeInv
  <2>2. \A i \in 0 .. n - 1 : pos[s[i]] \in Nat
    BY <1>5 DEF TypeInv
  <2>3. \A i, j \in 0 .. n - 1 : i <= j => pos[s[i]] <= pos[s[j]]
    BY DEF ListInv, Sorted
  <2>4. ASSUME NEW i \in 0 .. m - 1, NEW j \in 0 .. m - 1, i <= j
        PROVE  pos'[t[i]] <= pos'[t[j]]
    <3> HIDE DEF t
    <3>1. CASE j < k
      BY <1>2, <2>1, <2>3, <2>4, <3>1
    <3>2. CASE j = k
      BY <1>1, <1>2, <2>1, <2>2, <2>4, <3>2
    <3>3. CASE j > k /\ i > k
      BY <1>2, <2>1, <2>3, <2>4, <3>3, SMTT(30)
    <3>4. CASE j > k /\ i = k
      BY <1>1, <1>2, <2>1, <2>2, <3>4, SMTT(30)
    <3>5. CASE j > k /\ i < k
      BY <1>2, <2>1, <2>3, <2>4, <3>5
    <3> QED BY <1>2, <3>1, <3>2, <3>3, <3>4, <3>5
  <2> HIDE DEF t
  <2> QED BY <2>4 DEF Sorted
<1>13. (m = nof + Pending)'
  BY <1>4 DEF ListInv, Pending, TypeInv
<1>14. WalkInv(m, t)'
  <2> DEFINE Up(i) == IF i < k THEN i ELSE i + 1
  <2>1. \A i \in 0 .. n - 1 : Up(i) \in 0 .. m - 1 /\ t[Up(i)] = s[i]
    BY <1>2
  <2>2. \A i, j \in 0 .. n - 1 : i <= j => Up(i) <= Up(j)
    BY <1>2
  <2>3. \A i, j \in 0 .. n - 1 : i + 1 <= j => Up(i) + 1 <= Up(j)
    BY <1>2
  <2> HIDE DEF t, Up
  <2>4. ASSUME wpc' = "visit", ~cut'
        PROVE  \E i \in 0 .. m - 1 :
                 t[i] = cur' /\ must' \subseteq ran' \union {t[j] : j \in i .. m - 1}
    <3>1. PICK i \in 0 .. n - 1 :
            s[i] = cur /\ must \subseteq ran \union {s[j] : j \in i .. n - 1}
      BY <1>4, <2>4 DEF ListInv, WalkInv, walk
    <3>2. \A j \in i .. n - 1 : Up(j) \in Up(i) .. m - 1 /\ t[Up(j)] = s[j]
      BY <2>1, <2>2
    <3>3. must \subseteq ran \union {t[j] : j \in Up(i) .. m - 1}
      BY <3>1, <3>2
    <3> QED BY <1>4, <2>1, <3>1, <3>3, Zenon DEF walk
  <2>5. ASSUME wpc' = "next", ~cut'
        PROVE  \E i \in 0 .. m - 1 :
                 t[i] = cur' /\ must' \subseteq ran' \union {t[j] : j \in i + 1 .. m - 1}
    <3>1. PICK i \in 0 .. n - 1 :
            s[i] = cur /\ must \subseteq ran \union {s[j] : j \in i + 1 .. n - 1}
      BY <1>4, <2>5 DEF ListInv, WalkInv, walk
    <3>2. \A j \in i + 1 .. n - 1 : Up(j) \in Up(i) + 1 .. m - 1 /\ t[Up(j)] = s[j]
      BY <2>1, <2>3
    <3>3. must \subseteq ran \union {t[j] : j \in Up(i) + 1 .. m - 1}
      BY <3>1, <3>2, Zenon
    <3> QED BY <1>4, <2>1, <3>1, <3>3, Zenon DEF walk
  <2>6. wpc' = "wait" /\ ~cut' => must' \subseteq ran'
    BY <1>4 DEF ListInv, WalkInv, walk
  <2> QED BY <2>4, <2>5, <2>6, Zenon DEF WalkInv
<1> HIDE DEF t, m
<1> QED BY <1>6, <1>8, <1>9, <1>10, <1>11, <1>12, <1>13, <1>14, Zenon DEF IInv, ListInv

\* pipeline_remove takes the process at place r out of the list.
LEMMA RemoveKeeps ==
  ASSUME PipelineAssumption, TypeInv, NEW n \in 0 .. MaxProcs, NEW s \in [0 .. n - 1 -> Procs],
         ListInv(n, s), NEW p \in Procs, Remove(p)
  PROVE  IInv'
<1>1. p \in Elements(n, s)
  <2>1. \A i \in 0 .. MaxProcs : Nth[i] = IF i < n THEN s[i] ELSE Null
    BY NthIs DEF ListInv
  <2>2. p \in Linked
    BY Zenon DEF Remove
  <2> QED BY <2>1, <2>2 DEF Linked, Elements
<1>2. PICK r \in 0 .. n - 1 : s[r] = p
  BY <1>1 DEF Elements
<1> DEFINE m == n - 1
           t == [i \in 0 .. m - 1 |-> IF i < r THEN s[i] ELSE s[i + 1]]
<1>3. /\ cpc = "idle" /\ first' = (IF first = p THEN next[p] ELSE first)
      /\ next' = [q \in Procs |-> IF next[q] = p THEN next[p] ELSE next[q]]
      /\ proc' = p /\ cpc' = "uncount" /\ cut' = TRUE /\ UNCHANGED <<used, pos, nof, walk>>
  BY DEF Remove, Unlink
<1>4. \A i, j \in 0 .. n - 1 : s[i] = s[j] => i = j
  BY Zenon DEF ListInv, Chain
<1>5. /\ \A i \in 0 .. n - 1 : next[s[i]] = IF i = n - 1 THEN Null ELSE s[i + 1]
      /\ \A i \in 0 .. n - 1 : s[i] \in Procs /\ s[i] # Null
      /\ first = s[0] /\ p # Null
  BY <1>2, SMTT(30) DEF ListInv, Chain, Procs, Null
<1>6. m \in 0 .. MaxProcs /\ t \in [0 .. m - 1 -> Procs]
  BY <1>2
<1>7. \A i, j \in 0 .. m - 1 : t[i] = t[j] => i = j
  BY <1>2, <1>4
<1>8. TypeInv'
  <2>1. p \in used
    BY <1>1, <1>3 DEF ListInv, Members
  <2>2. next' \in [Procs -> Procs \union {Null}]
    BY <1>3 DEF TypeInv
  <2> QED BY <1>3, <2>1, <2>2 DEF TypeInv, walk
<1>9. Chain(m, t)'
  <2>1. first' = IF m = 0 THEN Null ELSE t[0]
    <3>1. CASE r = 0
      BY <1>2, <1>3, <1>5, <3>1, SMTT(30)
    <3>2. CASE r # 0
      <4>1. first # p
        BY <1>2, <1>4, <1>5, <3>2
      <4> QED BY <1>2, <1>3, <1>5, <3>2, <4>1
    <3> QED BY <3>1, <3>2
  <2>2. ASSUME NEW i \in 0 .. m - 1
        PROVE  next'[t[i]] = IF i = m - 1 THEN Null ELSE t[i + 1]
    <3>1. CASE i < r - 1
      <4>1. i \in 0 .. n - 1 /\ i + 1 \in 0 .. n - 1 /\ s[i + 1] # p /\ next[s[i]] = s[i + 1]
        BY <1>2, <1>4, <1>5, <3>1
      <4>2. t[i] = s[i] /\ t[i + 1] = s[i + 1] /\ i # m - 1
        BY <1>2, <3>1
      <4> QED BY <1>3, <1>5, <4>1, <4>2, Zenon
    <3>2. CASE i = r - 1
      <4>1. i \in 0 .. n - 1 /\ next[s[i]] = p /\ next[p] = IF r = n - 1 THEN Null ELSE s[r + 1]
        BY <1>2, <1>5, <3>2, SMTT(30)
      <4>2. t[i] = s[i] /\ (i # m - 1 => t[i + 1] = s[r + 1])
        BY <1>2, <3>2
      <4> QED BY <1>2, <1>3, <1>5, <3>2, <4>1, <4>2
    <3>3. CASE i >= r
      <4>1. /\ i + 1 \in 0 .. n - 1 /\ next[s[i + 1]] # p
            /\ next[s[i + 1]] = IF i + 1 = n - 1 THEN Null ELSE s[(i + 1) + 1]
        <5>1. i + 1 \in 0 .. n - 1
          BY <1>2, <3>3
        <5>2. next[s[i + 1]] = IF i + 1 = n - 1 THEN Null ELSE s[(i + 1) + 1]
          BY <1>5, <5>1
        <5>3. i + 1 # n - 1 => (i + 1) + 1 \in 0 .. n - 1 /\ (i + 1) + 1 # r
          BY <1>2, <3>3, <5>1
        <5>4. i + 1 # n - 1 => s[(i + 1) + 1] # p
          BY <1>2, <1>4, <5>3
        <5> QED BY <1>5, <5>1, <5>2, <5>4, Zenon
      <4>2. t[i] = s[i + 1] /\ (i # m - 1 => t[i + 1] = s[(i + 1) + 1])
        BY <1>2, <3>3
      <4> QED BY <1>3, <1>5, <4>1, <4>2, SMTT(30)
    <3> QED BY <1>2, <3>1, <3>2, <3>3, SMTT(30)
  <2> HIDE DEF t
  <2> QED BY <1>6, <1>7, <2>1, <2>2, Zenon DEF Chain
<1>10. (Elements(m, t) = Members)'
  <2>1. Elements(m, t) = Elements(n, s) \ {p}
    <3>1. \A i \in 0 .. n - 1 : i # r => \E j \in 0 .. m - 1 : t[j] = s[i]
      <4>1. TAKE i \in 0 .. n - 1
      <4>2. CASE i < r
        BY <1>2, <4>2
      <4>3. CASE i > r
        <5>1. i - 1 \in 0 .. m - 1 /\ t[i - 1] = s[i]
          BY <1>2, <4>3
        <5> QED BY <5>1, Zenon
      <4> QED BY <1>2, <4>2, <4>3
    <3>2. \A j \in 0 .. m - 1 : t[j] # p /\ \E i \in 0 .. n - 1 : t[j] = s[i]
      BY <1>2, <1>4
    <3> HIDE DEF t
    <3> QED BY <1>2, <3>1, <3>2 DEF Elements
  <2>2. Members = used /\ Members' = used \ {p}
    BY <1>3, Zenon DEF Members
  <2> QED BY <1>3, <2>1, <2>2, Zenon DEF ListInv, Elements
<1>11. Sorted(m, t)'
  <2>1. ASSUME NEW i \in 0 .. m - 1, NEW j \in 0 .. m - 1, i <= j
        PROVE  pos'[t[i]] <= pos'[t[j]]
    <3> DEFINE Up(x) == IF x < r THEN x ELSE x + 1
    <3>1. \A x \in 0 .. m - 1 : Up(x) \in 0 .. n - 1 /\ t[x] = s[Up(x)]
      BY <1>2
    <3>2. Up(i) <= Up(j)
      BY <1>2, <2>1
    <3> HIDE DEF t, Up
    <3> QED BY <1>3, <3>1, <3>2, Zenon DEF ListInv, Sorted
  <2> HIDE DEF t
  <2> QED BY <2>1 DEF Sorted
<1>12. (m = nof + Pending)'
  BY <1>3 DEF ListInv, Pending, TypeInv
<1>13. WalkInv(m, t)'
  BY <1>3, Zenon DEF WalkInv
<1> HIDE DEF t, m
<1> QED BY <1>6, <1>8, <1>9, <1>10, <1>11, <1>12, <1>13, Zenon DEF IInv, ListInv

-----------------------------------------------------------------------------

\* The empty pipeline of pipeline_initialize is a list.
LEMMA InitIInv ==
  ASSUME PipelineAssumption, Init
  PROVE  IInv
<1> DEFINE s == [i \in 0 .. 0 - 1 |-> 1]
<1>1. 0 \in 0 .. MaxProcs /\ s \in [0 .. 0 - 1 -> Procs]
  BY PipelineAssumption DEF Procs
<1>2. ListInv(0, s)
  BY DEF Init, ListInv, Chain, Elements, Members, Sorted, Pending, WalkInv
<1>3. TypeInv
  <2>1. cut \in BOOLEAN
    BY Zenon DEF Init
  <2> QED BY <2>1 DEF Init, TypeInv, Null
<1> HIDE DEF s
<1> QED BY <1>1, <1>2, <1>3, Zenon DEF IInv

\* No step of either thread breaks it.
LEMMA NextIInv ==
  ASSUME PipelineAssumption, IInv, [Next]_vars
  PROVE  IInv'
<1>1. PICK n \in 0 .. MaxProcs : \E s \in [0 .. n - 1 -> Procs] : ListInv(n, s)
  BY DEF IInv
<1>2. PICK s \in [0 .. n - 1 -> Procs] : ListInv(n, s)
  BY <1>1
<1>3. TypeInv
  BY DEF IInv
<1>4. ASSUME NEW p \in Procs, NEW e \in Positions, Add(p, e)
      PROVE  IInv'
  BY <1>2, <1>3, <1>4, AddKeeps
<1>5. CASE AddCount \/ RemoveCount \/ RemoveClear
  BY <1>2, <1>3, <1>5, CountingKeeps DEF IInv
<1>6. ASSUME NEW p \in Procs, Remove(p)
      PROVE  IInv'
  BY <1>2, <1>3, <1>6, RemoveKeeps
<1>7. CASE Walker
  BY <1>2, <1>3, <1>7, WalkerKeeps DEF IInv
<1>8. CASE UNCHANGED vars
  <2>1. TypeInv'
    BY <1>3, <1>8 DEF TypeInv, vars, ctl, walk
  <2>2. ListInv(n, s)'
    BY <1>2, <1>8, SMTT(30) DEF ListInv, Chain, Elements, Members, Sorted, Pending, WalkInv, vars, ctl, walk
  <2> QED BY <2>1, <2>2 DEF IInv
<1> QED BY <1>4, <1>5, <1>6, <1>7, <1>8 DEF Next, Control

\* Whatever pipeline_add and pipeline_remove do while the pipeline thread walks the
\* list, it is the list of some sequence of processes.
THEOREM ListIsAList == Spec => []IInv
BY InitIInv, NextIInv, PipelineAssumption, PTL DEF Spec

\* ListIntegrity at every moment, for any number of processes, positions and operations
\* (pipeline_add, pipeline_remove).
THEOREM ListIsIntact == Spec => []ListIntegrity
<1>1. ASSUME IInv PROVE ListIntegrity
  <2>1. PICK n \in 0 .. MaxProcs : \E s \in [0 .. n - 1 -> Procs] : ListInv(n, s)
    BY <1>1 DEF IInv
  <2>2. PICK s \in [0 .. n - 1 -> Procs] : ListInv(n, s)
    BY <2>1
  <2>3. \A i \in 0 .. MaxProcs : Nth[i] = IF i < n THEN s[i] ELSE Null
    BY <2>2, NthIs, PipelineAssumption DEF ListInv
  <2>4. Nth[MaxProcs] = Null
    BY <2>3, PipelineAssumption
  <2>5. Linked = Elements(n, s)
    <3>1. \A i \in 0 .. n - 1 : i \in 0 .. MaxProcs /\ s[i] # Null
      BY <2>2, PipelineAssumption DEF Procs, Null
    <3> QED BY <2>3, <3>1 DEF Linked, Elements
  <2>6. \A p \in Linked : next[p] # Null => pos[p] <= pos[next[p]]
    <3>1. \A i \in 0 .. n - 1 : next[s[i]] # Null => pos[s[i]] <= pos[next[s[i]]]
      BY <2>2 DEF ListInv, Chain, Sorted
    <3> QED BY <2>5, <3>1 DEF Elements
  <2>7. Cardinality(Linked) = n
    <3>1. n \in Nat /\ \A i, j \in 0 .. n - 1 : s[i] = s[j] => i = j
      BY <2>2 DEF ListInv, Chain
    <3> QED BY <2>5, <3>1, ElementsCount, PipelineAssumption
  <2> QED BY <2>2, <2>4, <2>5, <2>6, <2>7 DEF ListIntegrity, ListInv, Members, Pending
<1> QED BY <1>1, ListIsAList, PTL

\* NobodySkipped: pipeline_run_time_slot runs every process that was in the list when
\* the slot began, for any number of processes that are added meanwhile.
THEOREM SlotsAreComplete == Spec => []NobodySkipped
<1>1. ASSUME IInv PROVE NobodySkipped
  BY <1>1 DEF IInv, ListInv, WalkInv, NobodySkipped
<1> QED BY <1>1, ListIsAList, PTL
=============================================================================
