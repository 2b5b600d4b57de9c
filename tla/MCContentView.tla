---------------------------- MODULE MCContentView ----------------------------
(* Model-checking instance of ContentView: the path Library -> Dev.          *)
EXTENDS ContentView, TLC

CONSTANTS Dev, r1, r2

MCPrior == Library :> NoEnv @@ Dev :> Library

MCSymmetry == Permutations({r1, r2})
=============================================================================
