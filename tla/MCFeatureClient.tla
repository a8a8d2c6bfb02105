-------------------------- MODULE MCFeatureClient --------------------------
(* The feature client with one key, two contexts and one WaitReady call.   *)
EXTENDS FeatureClient, TLC

CONSTANTS a1, a2, k1, w1

MCAttributes == {a1, a2}
MCKeys == {k1}
MCWaiters == {w1}
MCEdgeStates == {[id |-> 1, version |-> 1], [id |-> 1, version |-> 2],
                 [id |-> 2, version |-> 1], [id |-> 0, version |-> 0]}
MCOneState == {[id |-> 1, version |-> 1]}
============================================================================
