-------------------------- MODULE MCTrafficWriter --------------------------
(* TrafficWriter for TLC: callers and controllers are interchangeable.     *)
EXTENDS TrafficWriter, FiniteSets, TLC

Symmetry == Permutations(Callers) \cup Permutations(Controllers)
============================================================================
