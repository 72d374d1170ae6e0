--------------------------- MODULE TrafficWriter ---------------------------
(***************************************************************************)
(* web/service/traffic_writer.go: the goroutine that applies all traffic   *)
(* writes one after the other, its start/stop cycle, and                   *)
(* submitTrafficWrite, which every traffic update and reset goes through.  *)
(*                                                                         *)
(* Each StartTrafficWriter makes a fresh queue, context and done channel:  *)
(* a generation.  The package variables twQueue/twCtx/twCancel/twDone are  *)
(* set and cleared together, so they are one variable, twGen, the          *)
(* generation they point at (NoGen when they are nil).  A caller or a      *)
(* stopper that has read them keeps the generation it read.                *)
(***************************************************************************)
EXTENDS Naturals, Sequences

CONSTANTS Callers,      (* goroutines that call submitTrafficWrite         *)
          Controllers,  (* goroutines that call Start/StopTrafficWriter    *)
          Cap,          (* trafficWriterQueueSize                          *)
          MaxGen,       (* bound: how many generations are ever started    *)
          Free          (* twMu is not held across a step                  *)

ASSUME CapAssumption  == Cap \in Nat \ {0}
ASSUME GenAssumption  == MaxGen \in Nat
ASSUME FreeAssumption == Free \notin Callers

NoGen == 0
Gens  == 1 .. MaxGen

None     == "none"
Full     == "queue full"
Stopped  == "stopped before write completed"
Outcomes == {"ok", "error"}

VARIABLES
  twMu,     (* the caller holding twMu while it waits for queue space, or Free *)
  twGen,    (* the generation the package variables point at, or NoGen     *)
  started,  (* how many generations have been started                      *)
  queue,    (* queue[g]: the callers whose requests wait in g's channel    *)
  ctxDone,  (* ctxDone[g]: g's context has been cancelled                  *)
  writer,   (* writer[g]: where g's goroutine is; "closed": done is closed *)
  cur,      (* cur[g]: the caller whose write g's goroutine is applying    *)
  pc,       (* pc[c]: where caller c is in submitTrafficWrite              *)
  my,       (* my[c]: the generation c read under twMu                     *)
  reply,    (* reply[c]: what is in the request's done channel             *)
  answer,   (* answer[c]: what c's last call returned                      *)
  applied,  (* history: how often c's current write has been applied       *)
  ctl,      (* ctl[k]: where controller k is in Start/StopTrafficWriter    *)
  ctlGen    (* ctlGen[k]: the generation k is stopping                     *)

callVars == <<pc, my, reply, answer, applied>>
ctlVars  == <<ctl, ctlGen>>
genVars  == <<queue, ctxDone, writer, cur>>
vars     == <<twMu, twGen, started, genVars, callVars, ctlVars>>

Init ==
  /\ twMu    = Free
  /\ twGen   = NoGen
  /\ started = 0
  /\ queue   = [g \in Gens |-> << >>]
  /\ ctxDone = [g \in Gens |-> FALSE]
  /\ writer  = [g \in Gens |-> "none"]
  /\ cur     = [g \in Gens |-> Free]
  /\ pc      = [c \in Callers |-> "idle"]
  /\ my      = [c \in Callers |-> NoGen]
  /\ reply   = [c \in Callers |-> None]
  /\ answer  = [c \in Callers |-> None]
  /\ applied = [c \in Callers |-> 0]
  /\ ctl     = [k \in Controllers |-> "idle"]
  /\ ctlGen  = [k \in Controllers |-> NoGen]

----------------------------------------------------------------------------
(* StartTrafficWriter and StopTrafficWriter *)

(* A controller calls one of the two functions and blocks on twMu. *)
ControlCall(k) ==
  /\ ctl[k] = "idle"
  /\ ctl' \in {[ctl EXCEPT ![k] = "start"], [ctl EXCEPT ![k] = "stop"]}
  /\ UNCHANGED <<twMu, twGen, started, genVars, callVars, ctlGen>>

(* The package variables point at a goroutine that has not ended. *)
WriterRuns == twGen # NoGen /\ writer[twGen] # "closed"

(* A running writer makes Start return; a finished or absent one is        *)
(* replaced by a fresh generation.                                         *)
StartTrafficWriter(k) ==
  /\ ctl[k] = "start"
  /\ twMu = Free
  /\ ctl' = [ctl EXCEPT ![k] = "idle"]
  /\ \/ /\ WriterRuns
        /\ UNCHANGED <<twGen, started, writer>>
     \/ /\ ~WriterRuns
        /\ started < MaxGen
        /\ started' = started + 1
        /\ twGen' = started + 1
        /\ writer' = [writer EXCEPT ![started + 1] = "select"]
  /\ UNCHANGED <<twMu, queue, ctxDone, cur, callVars, ctlGen>>

(* Faulty variant: Stop waits for done without cancelling the context. *)
StopWithoutCancel(k) ==
  /\ ctl[k] = "stop"
  /\ twMu = Free
  /\ ctlGen' = [ctlGen EXCEPT ![k] = twGen]
  /\ ctl' = [ctl EXCEPT ![k] = IF twGen = NoGen THEN "idle" ELSE "await"]
  /\ UNCHANGED <<twMu, twGen, started, genVars, callVars>>

(* Stop, first critical section: return if there is nothing to stop, else  *)
(* cancel the context while twMu is held.                                  *)
StopTrafficWriter(k) ==
  /\ ctl[k] = "stop"
  /\ twMu = Free
  /\ \/ /\ twGen = NoGen
        /\ ctl' = [ctl EXCEPT ![k] = "idle"]
        /\ UNCHANGED <<ctxDone, ctlGen>>
     \/ /\ twGen # NoGen
        /\ ctxDone' = [ctxDone EXCEPT ![twGen] = TRUE]
        /\ ctlGen' = [ctlGen EXCEPT ![k] = twGen]
        /\ ctl' = [ctl EXCEPT ![k] = "await"]
  /\ UNCHANGED <<twMu, twGen, started, queue, writer, cur, callVars>>

(* <-done, without twMu. *)
StopAwaitDone(k) ==
  /\ ctl[k] = "await"
  /\ writer[ctlGen[k]] = "closed"
  /\ ctl' = [ctl EXCEPT ![k] = "clear"]
  /\ UNCHANGED <<twMu, twGen, started, genVars, callVars, ctlGen>>

(* Second critical section: clear the state unless a later Start replaced it. *)
StopClear(k) ==
  /\ ctl[k] = "clear"
  /\ twMu = Free
  /\ twGen' = IF twGen = ctlGen[k] THEN NoGen ELSE twGen
  /\ ctl' = [ctl EXCEPT ![k] = "idle"]
  /\ ctlGen' = [ctlGen EXCEPT ![k] = NoGen]
  /\ UNCHANGED <<twMu, started, genVars, callVars>>

----------------------------------------------------------------------------
(* runTrafficWriter *)

(* Faulty variant: the request stays in the channel. *)
WriterPeek(g) ==
  /\ writer[g] \in {"select", "drain"}
  /\ queue[g] # << >>
  /\ cur' = [cur EXCEPT ![g] = Head(queue[g])]
  /\ writer' = [writer EXCEPT ![g] = IF @ = "select" THEN "apply" ELSE "drainApply"]
  /\ UNCHANGED <<twMu, twGen, started, queue, ctxDone, callVars, ctlVars>>

(* Receive from the queue, in the outer select or while draining. *)
WriterReceive(g) ==
  /\ writer[g] \in {"select", "drain"}
  /\ queue[g] # << >>
  /\ cur' = [cur EXCEPT ![g] = Head(queue[g])]
  /\ queue' = [queue EXCEPT ![g] = Tail(@)]
  /\ writer' = [writer EXCEPT ![g] = IF @ = "select" THEN "apply" ELSE "drainApply"]
  /\ UNCHANGED <<twMu, twGen, started, ctxDone, callVars, ctlVars>>

(* safeApply returns (a panic becomes an error) and the result goes into   *)
(* the request's buffered done channel.                                    *)
WriterApplied(g) ==
  /\ writer[g] \in {"apply", "drainApply"}
  /\ \E o \in Outcomes : reply' = [reply EXCEPT ![cur[g]] = o]
  /\ applied' = [applied EXCEPT ![cur[g]] = @ + 1]
  /\ cur' = [cur EXCEPT ![g] = Free]
  /\ writer' = [writer EXCEPT ![g] = IF @ = "apply" THEN "select" ELSE "drain"]
  /\ UNCHANGED <<twMu, twGen, started, queue, ctxDone, pc, my, answer, ctlVars>>

(* The outer select takes ctx.Done; with a request ready too it may take   *)
(* either.                                                                 *)
WriterCancelled(g) ==
  /\ writer[g] = "select"
  /\ ctxDone[g]
  /\ writer' = [writer EXCEPT ![g] = "drain"]
  /\ UNCHANGED <<twMu, twGen, started, queue, ctxDone, cur, callVars, ctlVars>>

(* Faulty variant: the goroutine ends on cancellation without draining. *)
WriterExitUndrained(g) ==
  /\ writer[g] = "drain"
  /\ writer' = [writer EXCEPT ![g] = "closed"]
  /\ UNCHANGED <<twMu, twGen, started, queue, ctxDone, cur, callVars, ctlVars>>

(* The drain finds the queue empty, returns, and the deferred close(done)  *)
(* runs.                                                                   *)
WriterExit(g) ==
  /\ writer[g] = "drain"
  /\ queue[g] = << >>
  /\ writer' = [writer EXCEPT ![g] = "closed"]
  /\ UNCHANGED <<twMu, twGen, started, queue, ctxDone, cur, callVars, ctlVars>>

----------------------------------------------------------------------------
(* submitTrafficWrite *)

(* A caller makes a request and blocks on twMu. *)
SubmitCall(c) ==
  /\ pc[c] = "idle"
  /\ pc' = [pc EXCEPT ![c] = "lock"]
  /\ reply' = [reply EXCEPT ![c] = None]
  /\ answer' = [answer EXCEPT ![c] = None]
  /\ applied' = [applied EXCEPT ![c] = 0]
  /\ UNCHANGED <<twMu, twGen, started, genVars, my, ctlVars>>

(* Faulty variant: the context is not looked at under twMu. *)
AcceptingAnyState == twGen # NoGen

(* The writer the package variables point at, if any, takes requests. *)
Accepting == twGen # NoGen /\ ~ctxDone[twGen]

(* No writer, or its context is cancelled: unlock and apply in the caller. *)
SubmitInline(c) ==
  /\ pc[c] = "lock"
  /\ twMu = Free
  /\ ~Accepting
  /\ pc' = [pc EXCEPT ![c] = "inline"]
  /\ UNCHANGED <<twMu, twGen, started, genVars, my, reply, answer, applied, ctlVars>>

(* Otherwise keep twMu and go and send on the queue. *)
SubmitLock(c) ==
  /\ pc[c] = "lock"
  /\ twMu = Free
  /\ Accepting
  /\ twMu' = c
  /\ my' = [my EXCEPT ![c] = twGen]
  /\ pc' = [pc EXCEPT ![c] = "enqueue"]
  /\ UNCHANGED <<twGen, started, genVars, reply, answer, applied, ctlVars>>

(* There is room in the channel: send, then unlock. *)
SubmitEnqueue(c) ==
  /\ pc[c] = "enqueue"
  /\ Len(queue[my[c]]) < Cap
  /\ queue' = [queue EXCEPT ![my[c]] = Append(@, c)]
  /\ twMu' = Free
  /\ pc' = [pc EXCEPT ![c] = "wait"]
  /\ UNCHANGED <<twGen, started, ctxDone, writer, cur, my, reply, answer, applied, ctlVars>>

(* Faulty variant: the timeout branch returns without twMu.Unlock(). *)
TimeoutKeepsMutex(c) ==
  /\ pc[c] = "enqueue"
  /\ Len(queue[my[c]]) = Cap
  /\ answer' = [answer EXCEPT ![c] = Full]
  /\ my' = [my EXCEPT ![c] = NoGen]
  /\ pc' = [pc EXCEPT ![c] = "idle"]
  /\ UNCHANGED <<twMu, twGen, started, genVars, reply, applied, ctlVars>>

(* The five second timer fires while the channel is full. *)
SubmitTimeout(c) ==
  /\ pc[c] = "enqueue"
  /\ Len(queue[my[c]]) = Cap
  /\ twMu' = Free
  /\ answer' = [answer EXCEPT ![c] = Full]
  /\ my' = [my EXCEPT ![c] = NoGen]
  /\ pc' = [pc EXCEPT ![c] = "idle"]
  /\ UNCHANGED <<twGen, started, genVars, reply, applied, ctlVars>>

(* The result arrives on req.done. *)
SubmitReply(c) ==
  /\ pc[c] = "wait"
  /\ reply[c] # None
  /\ answer' = [answer EXCEPT ![c] = reply[c]]
  /\ my' = [my EXCEPT ![c] = NoGen]
  /\ pc' = [pc EXCEPT ![c] = "idle"]
  /\ UNCHANGED <<twMu, twGen, started, genVars, reply, applied, ctlVars>>

(* The writer's done channel is closed; a result that is there still wins. *)
SubmitWriterDone(c) ==
  /\ pc[c] = "wait"
  /\ writer[my[c]] = "closed"
  /\ answer' = [answer EXCEPT ![c] = IF reply[c] # None THEN reply[c] ELSE Stopped]
  /\ my' = [my EXCEPT ![c] = NoGen]
  /\ pc' = [pc EXCEPT ![c] = "idle"]
  /\ UNCHANGED <<twMu, twGen, started, genVars, reply, applied, ctlVars>>

(* safeApply in the caller's own goroutine returns, and so does the call. *)
SubmitInlineApplied(c) ==
  /\ pc[c] = "inline"
  /\ \E o \in Outcomes : /\ reply' = [reply EXCEPT ![c] = o]
                         /\ answer' = [answer EXCEPT ![c] = o]
  /\ applied' = [applied EXCEPT ![c] = @ + 1]
  /\ pc' = [pc EXCEPT ![c] = "idle"]
  /\ UNCHANGED <<twMu, twGen, started, genVars, my, ctlVars>>

----------------------------------------------------------------------------
Control(k) == StartTrafficWriter(k) \/ StopTrafficWriter(k) \/ StopAwaitDone(k) \/ StopClear(k)

Writer(g) == WriterReceive(g) \/ WriterApplied(g) \/ WriterCancelled(g) \/ WriterExit(g)

Submit(c) == \/ SubmitInline(c) \/ SubmitLock(c) \/ SubmitEnqueue(c) \/ SubmitTimeout(c)
             \/ SubmitReply(c) \/ SubmitWriterDone(c) \/ SubmitInlineApplied(c)

Next == \/ \E k \in Controllers : ControlCall(k) \/ Control(k)
        \/ \E g \in Gens : Writer(g)
        \/ \E c \in Callers : SubmitCall(c) \/ Submit(c)

Spec == Init /\ [][Next]_vars

(* The Go scheduler runs every runnable goroutine, and a sync.Mutex hands  *)
(* itself to a waiter of more than 1 ms, so a goroutine blocked on twMu    *)
(* gets it if it is free again and again: strong fairness.  Making a call  *)
(* is the environment's choice and has no fairness.  A write returns.      *)
Fairness ==
  /\ \A g \in Gens : WF_vars(Writer(g))
  /\ \A c \in Callers : SF_vars(Submit(c))
  /\ \A k \in Controllers : SF_vars(Control(k))

FairSpec == Spec /\ Fairness

----------------------------------------------------------------------------
TypeOK ==
  /\ twMu \in Callers \cup {Free}
  /\ twGen \in Gens \cup {NoGen}
  /\ started \in 0 .. MaxGen
  /\ queue \in [Gens -> Seq(Callers)]
  /\ ctxDone \in [Gens -> BOOLEAN]
  /\ writer \in [Gens -> {"none", "select", "apply", "drain", "drainApply", "closed"}]
  /\ cur \in [Gens -> Callers \cup {Free}]
  /\ pc \in [Callers -> {"idle", "lock", "inline", "enqueue", "wait"}]
  /\ my \in [Callers -> Gens \cup {NoGen}]
  /\ reply \in [Callers -> Outcomes \cup {None}]
  /\ answer \in [Callers -> Outcomes \cup {None, Full, Stopped}]
  /\ applied \in [Callers -> Nat]
  /\ ctl \in [Controllers -> {"idle", "start", "stop", "await", "clear"}]
  /\ ctlGen \in [Controllers -> Gens \cup {NoGen}]

(* No write is left behind: once a writer goroutine has ended its channel  *)
(* is empty for good, and every caller that waits on that writer already   *)
(* has its result.  A send after the drain's last look would break this.   *)
NoStrandedWrite ==
  \A g \in Gens : writer[g] = "closed" =>
    /\ queue[g] = << >>
    /\ \A c \in Callers : pc[c] = "wait" /\ my[c] = g => reply[c] # None

(* The last branch of submitTrafficWrite, "traffic writer stopped before   *)
(* write completed", is never taken, whatever Start and Stop do meanwhile. *)
NeverStoppedShort == \A c \in Callers : answer[c] # Stopped

(* Restarting never leaves two writer goroutines alive: the writes of two  *)
(* generations cannot interleave.                                          *)
OneLiveWriter ==
  \A g, h \in Gens : writer[g] \notin {"none", "closed"} /\ writer[h] \notin {"none", "closed"} => g = h

(* The inductive invariant.  Its heart is CallerInv: a caller that holds    *)
(* twMu sends to the current generation, which is not cancelled because    *)
(* cancelling needs twMu, so the drain's last look at the channel cannot   *)
(* miss a request; and a waiting caller without a result is in the channel *)
(* of the generation it read or being served by it.                        *)
Holds(g, c) == cur[g] = c \/ \E i \in 1 .. Len(queue[g]) : queue[g][i] = c

MutexInv == twMu # Free => pc[twMu] = "enqueue"

WriterInv(g) ==
  /\ writer[g] = "none" <=> g > started
  /\ writer[g] \in {"none", "closed"} => queue[g] = << >>
  /\ writer[g] \in {"drain", "drainApply"} => ctxDone[g]
  /\ writer[g] \in {"apply", "drainApply"} <=> cur[g] # Free
  /\ g # twGen => writer[g] \in {"none", "closed"}
  /\ writer[g] = "closed" => ctxDone[g]

ControlInv(k) ==
  /\ ctl[k] \in {"await", "clear"} => ctlGen[k] \in Gens /\ ctlGen[k] <= started
  /\ ctl[k] = "clear" => writer[ctlGen[k]] = "closed"

Unapplied(c) == reply[c] = None /\ applied[c] = 0 /\ answer[c] = None

CallerInv(c) ==
  /\ pc[c] = "enqueue" => twMu = c /\ Accepting /\ my[c] = twGen
  /\ pc[c] \in {"lock", "inline", "enqueue"} => Unapplied(c)
  /\ pc[c] = "wait" =>
       /\ my[c] \in Gens /\ my[c] <= started
       /\ \/ Unapplied(c) /\ Holds(my[c], c)
          \/ reply[c] # None /\ applied[c] = 1 /\ answer[c] = None
  /\ answer[c] # Stopped

HoldsInv(g, c) == Holds(g, c) => pc[c] = "wait" /\ my[c] = g /\ reply[c] = None

QueueInv(g) ==
  /\ \A i, j \in 1 .. Len(queue[g]) : queue[g][i] = queue[g][j] => i = j
  /\ \A i \in 1 .. Len(queue[g]) : queue[g][i] # cur[g]

IInv ==
  /\ TypeOK
  /\ twGen \in {NoGen, started}
  /\ MutexInv
  /\ \A g \in Gens : WriterInv(g) /\ QueueInv(g)
  /\ \A k \in Controllers : ControlInv(k)
  /\ \A c \in Callers : CallerInv(c)
  /\ \A g \in Gens, c \in Callers : HoldsInv(g, c)

(* Every call returns: no submitter hangs on a stopped, restarted or full  *)
(* writer (the deadlock the comment on StartTrafficWriter tells of).       *)
EverySubmitReturns == \A c \in Callers : pc[c] # "idle" ~> pc[c] = "idle"

(* StopTrafficWriter returns even while callers keep submitting. *)
EveryStopReturns == \A k \in Controllers : ctl[k] \in {"stop", "await", "clear"} ~> ctl[k] = "idle"

(* Refinement: each caller sees its write applied once and its own answer. *)
Phase(c) == IF pc[c] = "idle" THEN "idle"
            ELSE IF applied[c] = 0 THEN "pending"
            ELSE IF applied[c] = 1 THEN "applied" ELSE "repeated"

Once == INSTANCE OnceWrites WITH phase <- [c \in Callers |-> Phase(c)], outcome <- reply

ImplementsOnceWrites == Once!Spec
============================================================================
