---------------------------- MODULE OnceWrites ----------------------------
(***************************************************************************)
(* What a caller of submitTrafficWrite may rely on, with no queue, writer  *)
(* goroutine or mutex in sight: a write is applied at most once, the       *)
(* answer the caller gets is the outcome of that one application, and a    *)
(* write that was refused ("traffic writer queue full") was never applied. *)
(***************************************************************************)

CONSTANTS Callers,   (* goroutines that submit writes                      *)
          Outcomes,  (* what applying a write can come to                  *)
          None,      (* no answer yet                                      *)
          Full       (* the answer of a refused write                      *)

VARIABLES phase,     (* phase[c]: where c's current write is               *)
          outcome,   (* outcome[c]: what its application came to           *)
          answer     (* answer[c]: what c's last call returned             *)

vars == <<phase, outcome, answer>>

Init ==
  /\ phase   = [c \in Callers |-> "idle"]
  /\ outcome = [c \in Callers |-> None]
  /\ answer  = [c \in Callers |-> None]

(* A caller hands in a new write. *)
Call(c) ==
  /\ phase[c] = "idle"
  /\ phase'   = [phase EXCEPT ![c] = "pending"]
  /\ outcome' = [outcome EXCEPT ![c] = None]
  /\ answer'  = [answer EXCEPT ![c] = None]

(* The write takes effect, once. *)
Apply(c, o) ==
  /\ phase[c] = "pending"
  /\ phase'   = [phase EXCEPT ![c] = "applied"]
  /\ outcome' = [outcome EXCEPT ![c] = o]
  /\ UNCHANGED answer

(* The write takes effect and the call returns in the same step. *)
ApplyAndReturn(c, o) ==
  /\ phase[c] = "pending"
  /\ phase'   = [phase EXCEPT ![c] = "idle"]
  /\ outcome' = [outcome EXCEPT ![c] = o]
  /\ answer'  = [answer EXCEPT ![c] = o]

(* The call returns the outcome of its own write. *)
Return(c) ==
  /\ phase[c] = "applied"
  /\ phase'  = [phase EXCEPT ![c] = "idle"]
  /\ answer' = [answer EXCEPT ![c] = outcome[c]]
  /\ UNCHANGED outcome

(* The call is refused; the write never takes effect. *)
Refuse(c) ==
  /\ phase[c] = "pending"
  /\ phase'  = [phase EXCEPT ![c] = "idle"]
  /\ answer' = [answer EXCEPT ![c] = Full]
  /\ UNCHANGED outcome

Next == \E c \in Callers :
          \/ Call(c)
          \/ \E o \in Outcomes : Apply(c, o) \/ ApplyAndReturn(c, o)
          \/ Return(c)
          \/ Refuse(c)

Spec == Init /\ [][Next]_vars
============================================================================
