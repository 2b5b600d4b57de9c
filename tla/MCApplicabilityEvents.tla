------------------------ MODULE MCApplicabilityEvents ------------------------
(* Model-checking instance of ApplicabilityEvents: one host bound to one     *)
(* repository, and one other key in the table.                              *)
EXTENDS ApplicabilityEvents, TLC

CONSTANTS r1

MCBound == [h \in Hosts |-> {r1}]
MCOn == [t \in Tasks |-> r1]
=============================================================================
