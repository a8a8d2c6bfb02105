----------------------- MODULE MCConfluentConsumer -----------------------
(* The consume loop on small instances. *)
EXTENDS ConfluentConsumer, TLC

CONSTANTS p1, p2

MCPartitions == {p1, p2}
Symmetry == Permutations(MCPartitions)
==========================================================================
