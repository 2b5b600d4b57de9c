--------------------------- MODULE MCApplicability ---------------------------
(* Model-checking instances of Applicability: one repository, one host bound *)
(* to it and any number that are bound to nothing; tasks on the repository.  *)
EXTENDS Applicability, TLC

CONSTANTS r1, h1

MCBound == [h \in Hosts |-> IF h = h1 THEN {r1} ELSE {}]
MCOn == [t \in Tasks |-> r1]
MCSymmetry == Permutations(Tasks) \cup Permutations(Workers)
=============================================================================
