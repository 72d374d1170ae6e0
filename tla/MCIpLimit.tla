----------------------------- MODULE MCIpLimit -----------------------------
(* IpLimit for TLC: IPs are interchangeable. *)
EXTENDS IpLimit, TLC

Symmetry == Permutations(IPs)
============================================================================
