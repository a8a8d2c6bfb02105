------------------------ MODULE MCConfluentProducer ------------------------
(* The producer on a small instance: two calls and two Close calls that run *)
(* beside each other, through one driver.                                   *)
EXTENDS ConfluentProducer

CONSTANTS c1, c2, k1, k2, all

MCCalls == {c1, c2}
MCClosers == {k1, k2}
MCOneAck == {all}
============================================================================
