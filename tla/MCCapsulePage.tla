--------------------------- MODULE MCCapsulePage ---------------------------
(* Model-checking instance of CapsulePage.                                  *)
EXTENDS CapsulePage
=============================================================================
