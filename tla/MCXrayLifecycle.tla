-------------------------- MODULE MCXrayLifecycle --------------------------
(* XrayLifecycle for TLC: callers of one kind are interchangeable.         *)
EXTENDS XrayLifecycle, FiniteSets, TLC

Symmetry == Permutations(Admins) \cup Permutations(Watchers) \cup Permutations(Jobs)
============================================================================
