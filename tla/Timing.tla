-------------------------------- MODULE Timing --------------------------------
(***************************************************************************)
(* Operators on times that the modules about speech and subtitles share.   *)
(***************************************************************************)
EXTENDS Integers, FiniteSets, Sequences

LowerOf(a, b) == IF a <= b THEN a ELSE b
UpperOf(a, b) == IF a >= b THEN a ELSE b

\* round() goes to the even neighbour.
RoundDiv(n, d) ==
    LET q == n \div d
        r == 2 * (n % d)
    IN  IF r < d \/ (r = d /\ q % 2 = 0) THEN q ELSE q + 1

\* Whole milliseconds of a time in half milliseconds.
Ms(t) == RoundDiv(t, 2)

\* sorted, of pairs of numbers: each at its rank.
Before(i, k) == i[1] < k[1] \/ (i[1] = k[1] /\ i[2] <= k[2])
Rank(S, i) == Cardinality({k \in S : Before(k, i)})
InOrder(S) == [n \in 1 .. Cardinality(S) |-> CHOOSE i \in S : Rank(S, i) = n]

\* sorted, by start: those that start together stay as they are.
ByStart(seq) ==
    LET order == InOrder({<<seq[k].start, k>> : k \in DOMAIN seq})
    IN  [n \in DOMAIN seq |-> seq[order[n][2]]]
===============================================================================
