----------------------------- MODULE SortedSets -----------------------------
(***************************************************************************)
(* Ranks in a Redis sorted set.  Members are numbers, in order of their    *)
(* score; two members with one score are in the order of their text.       *)
(***************************************************************************)
EXTENDS Integers, FiniteSets

Rank(S, x) == Cardinality({y \in S : y < x})

\* A negative rank counts from the last member.
FromEnd(S, i) == IF i < 0 THEN Cardinality(S) + i ELSE i

\* What ZRANGE shows and ZREMRANGEBYRANK removes: both ends are included.
ZRange(S, start, stop) ==
  {x \in S : FromEnd(S, start) <= Rank(S, x) /\ Rank(S, x) <= FromEnd(S, stop)}
=============================================================================
