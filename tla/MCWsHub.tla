------------------------------ MODULE MCWsHub ------------------------------
(* WsHub for TLC: connections and messages are interchangeable. *)
EXTENDS WsHub, FiniteSets, TLC

Symmetry == Permutations(Conns) \cup Permutations(Messages)
============================================================================
