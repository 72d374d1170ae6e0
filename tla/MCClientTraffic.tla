---------------------------- MODULE MCClientTraffic ----------------------------
(* Two clients that expire on the second day: one has a quota of one unit,  *)
(* the other is renewed every day.                                          *)
EXTENDS ClientTraffic
CONSTANTS quota, daily
MCTotal == [c \in Clients |-> IF c = quota THEN 1 ELSE 0]
MCPeriod == [c \in Clients |-> IF c = daily THEN 1 ELSE 0]
MCStart == [c \in Clients |-> 2]
(* The renewed client needs no traffic to expire. *)
MCMaxTraffic == [c \in Clients |-> IF c = quota THEN 2 ELSE 0]
=============================================================================
