-------------------------- MODULE MCIORedisClient --------------------------
(* The client on three small instances, QUIT in each: two ordinary commands,*)
(* of which one is written while the other waits for its reply; an ordinary *)
(* and a blocking command; and a pipeline of two.  The two ordinary         *)
(* commands are alike, so one of them comes first.                          *)
EXTENDS IORedisClient

CONSTANTS d1, d2, p1, x1, q

VARIABLES callers       \* the requests that callers make in this behaviour

MCDirect == {d1, d2}
MCPipelines == {p1}
MCExclusive == {x1}

MCInit == Init /\ callers \in {{d1, d2}, {d1, x1}, {p1}}
MCNext ==
    /\ Next
    /\ \A r \in Submitted \ callers : state'[r] = "new"
    /\ state'[d2] # "new" => state[d1] # "new"
    /\ UNCHANGED callers

MCSpec == MCInit /\ [][MCNext]_<<vars, callers>> /\ Fairness
============================================================================
