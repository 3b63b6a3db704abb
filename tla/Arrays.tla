------------------------------- MODULE Arrays -------------------------------
(***************************************************************************)
(* Loops over arrays.  Both operators work on halves of the range, so that *)
(* their evaluation nests as deep as the logarithm of its length.          *)
(***************************************************************************)
EXTENDS Integers, Sequences, FiniteSets

\* Number of elements of an array, a function from 0 .. n-1.
Len0(buf) == Cardinality(DOMAIN buf)

\* for (i = 1; i <= n; i++) state = Step(state, i): the n states it goes
\* through, all of them members of S.
Scan(S, Step(_, _), start, n) ==
    LET go[lo \in 0 .. n, hi \in 0 .. n, state \in S] ==
            IF hi = lo THEN <<>>
            ELSE IF hi = lo + 1 THEN <<Step(state, hi)>>
            ELSE LET mid  == (lo + hi) \div 2
                     left == go[lo, mid, state]
                 IN  left \o go[mid, hi, left[Len(left)]]
    IN  go[0, n, start]

\* The elements of seq that pass the test, in order.
Keep(seq, Test(_)) ==
    LET go[lo \in Nat, hi \in Nat] ==
            IF hi < lo THEN <<>>
            ELSE IF hi = lo THEN IF Test(seq[lo]) THEN <<seq[lo]>> ELSE <<>>
            ELSE LET mid == (lo + hi) \div 2
                 IN  go[lo, mid] \o go[mid + 1, hi]
    IN  go[1, Len(seq)]
=============================================================================
