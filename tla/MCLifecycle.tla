---------------------------- MODULE MCLifecycle ----------------------------
(* Instances of Lifecycle for TLC.  Connections are interchangeable; in the *)
(* runs without liveness properties TLC uses that.                          *)
EXTENDS Lifecycle, TLC

ConnSymmetry == Permutations(Conns)
=============================================================================
