---------------------------- MODULE MCClientsPage ----------------------------
(* Two clients, one to a page, and a third name. *)
EXTENDS ClientsPage
==============================================================================
