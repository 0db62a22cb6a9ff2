------------------------------ MODULE Tallies ------------------------------
(***************************************************************************)
(* What the counts kept in a table add up to.  The sum is taken as the     *)
(* number of units counted, each told apart from the others by its entry   *)
(* and its place there.                                                    *)
(***************************************************************************)
EXTENDS Integers, FiniteSets

Units(counts) == UNION {{k} \X (1 .. counts[k]) : k \in DOMAIN counts}
Total(counts) == Cardinality(Units(counts))

\* What each rule of a table has counted.
PktCounts(rules) == [k \in DOMAIN rules |-> rules[k].pktCount]
=============================================================================
