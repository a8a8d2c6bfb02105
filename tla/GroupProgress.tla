--------------------------- MODULE GroupProgress ---------------------------
(***************************************************************************)
(* What an at-least-once consumer group promises, whatever its members do: *)
(* handlers finish records, and the committed offset of a partition only   *)
(* ever covers finished records.                                           *)
(***************************************************************************)
EXTENDS Naturals

CONSTANTS Partitions, LogEnd

VARIABLES
    handled,    \* per partition, the offsets a handler finished
    committed   \* per partition, the offset the group resumes from

Init ==
    /\ handled = [p \in Partitions |-> {}]
    /\ committed = [p \in Partitions |-> 0]

(* A run of consecutive records of one partition is finished.              *)
Finish(p, first, last) ==
    /\ first <= last /\ last < LogEnd
    /\ handled' = [handled EXCEPT ![p] = @ \cup (first .. last)]

(* Offsets are committed, covering finished records only.                  *)
CommitFinished ==
    /\ committed' \in [Partitions -> 0 .. LogEnd]
    /\ \A p \in Partitions :
          \/ committed'[p] = committed[p]
          \/ \A o \in 0 .. committed'[p] - 1 : o \in handled'[p]

(* A step finishes records, or commits, or does both at once.              *)
Next ==
    /\ \/ \E p \in Partitions : \E first, last \in 0 .. LogEnd : Finish(p, first, last)
       \/ UNCHANGED handled
    /\ CommitFinished

Spec == Init /\ [][Next]_<<handled, committed>>
============================================================================
