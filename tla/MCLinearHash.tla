---------------------------- MODULE MCLinearHash ----------------------------
(* Instances of LinearHash: keys are numbers, and their signatures spread  *)
(* over two buckets of a table that a few insertions double.               *)
EXTENDS LinearHash, TLC

MCKey == 0 .. 4
MCHash == [k \in MCKey |-> <<0, 2, 4, 1, 0>>[k + 1]]

\* Records named <<key, version>>, so that one key has two records.
MCRecord == {<<k, 1>> : k \in MCKey} \cup {<<0, 2>>}
MCKeyOf == [r \in MCRecord |-> r[1]]

MCTwo == {<<k, 1>> : k \in 0 .. 1}
MCFour == {<<k, 1>> : k \in 0 .. 3}

\* Six keys, of which two are in the bucket that a table of five splits next.
MCSixKeys == 0 .. 5
MCSixHash == [k \in MCSixKeys |-> <<0, 2, 4, 1, 0, 5>>[k + 1]]
MCSixRecords == {<<k, 1>> : k \in MCSixKeys}
MCSixKeyOf == [r \in MCSixRecords |-> r[1]]
MCFive == {<<k, 1>> : k \in 0 .. 4}

Symmetry == Permutations(Thread)
=============================================================================
