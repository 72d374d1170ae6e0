--------------------------- MODULE ClientTraffic ---------------------------
(***************************************************************************)
(* Accounting, exhaustion and renewal of the clients of one local inbound: *)
(* AddTraffic of web/service/inbound.go as the traffic job (web/job/       *)
(* xray_traffic_job.go), a restart and a look at the configuration call    *)
(* it; the switch and the resets of web/service/client.go; and what        *)
(* GetXrayConfig and RestartXray of web/service/xray.go make of it.        *)
(*                                                                         *)
(* Whether a client is on is stored three times: in its client_traffics    *)
(* row, in the settings JSON of the inbound and in its ClientRecord. Xray  *)
(* serves the clients it was started with, give or take those that were    *)
(* added and removed through its API since.                                *)
(*                                                                         *)
(* A database transaction is one step, because SQLite is opened with       *)
(* _txlock=immediate (database/db.go:388). What is read before it begins   *)
(* is a step of its own.                                                   *)
(***************************************************************************)
EXTENDS Integers

CONSTANTS Clients,
          Ticks,        (* goroutines of the traffic job                   *)
          Admins,       (* handlers of the web panel and the bot           *)
          Cron,         (* the need-restart function                       *)
          None,         (* nobody                                          *)
          Total,        (* Total[c]: quota of c, 0 for none                *)
          Period,       (* Period[c]: days of a renewal, 0 for none        *)
          Start,        (* Start[c]: expiry of c, 0 for never; negative:   *)
                        (* so long after its first traffic                 *)
          Ops,          (* what the handlers are asked to do               *)
          RestartOnDisable,  (* the setting restartXrayOnClientDisable     *)
          MaxTime,      (* bound: days                                     *)
          MaxTraffic,   (* bound: MaxTraffic[c] units of traffic of c      *)
          MaxEvents     (* bound: requests, and failures of API calls,     *)
                        (* transactions and restarts                       *)

Callers == Ticks \cup Admins \cup {Cron}

ASSUME KindsAssumption ==
  /\ Ticks \cap Admins = {} /\ Cron \notin Ticks \cup Admins
  /\ None \notin Callers
  /\ Ops \subseteq {"on", "off", "reset", "botReset", "resetAll", "view"}
  /\ RestartOnDisable \in BOOLEAN

ASSUME NumbersAssumption ==
  /\ Total \in [Clients -> Nat] /\ Period \in [Clients -> Nat] /\ Start \in [Clients -> Int]
  /\ MaxTraffic \in [Clients -> Nat]
  /\ MaxTime \in Nat /\ MaxEvents \in Nat

VARIABLES
  now,
  usage, expiry, rowOn,   (* client_traffics: up + down, expiry_time, enable *)
  setOn, setExpiry,       (* settings.clients: enable, expiryTime            *)
  recOn,                  (* ClientRecord.enable                             *)
  alive,                  (* Xray runs                                       *)
  served,                 (* the users of its inbound                        *)
  config,                 (* the clients it was started with                 *)
  counter,                (* its traffic statistics, 0 before the first byte *)
  last,                   (* the job's StatsLastValues, 0 for not seen       *)
  need,                   (* isNeedXrayRestart                               *)
  holder, rstep, snap,    (* the service lock, where its holder is, and the  *)
                          (* clients of the configuration it generates       *)
  writer,                 (* who occupies the traffic writer between steps   *)
  pc, task,               (* where a caller is; what an admin is asked to do *)
  seen,                   (* seen[a]: what a has read of its client          *)
  view,                   (* view[a]: the settings a has read                *)
  batch,                  (* batch[t]: deltas on their way into AddTraffic   *)
  flags,                  (* flags[t]: t has to call SetToNeedRestart        *)
  events,                 (* how much of MaxEvents is used up                *)
  used, billed,           (* history: traffic carried, traffic accounted for *)
  told,                   (* history: an admin got an error, and no restart  *)
                          (* began since                                     *)
  off,                    (* history: clients reported switched off, which   *)
                          (* nobody has asked to switch on or reset since    *)
  unasked                 (* history: clients that are off, or still served, *)
                          (* by a step that asks for no restart, when none   *)
                          (* began since (see CutOff)                        *)

dbVars == <<usage, expiry, rowOn, setOn, setExpiry, recOn>>
restartVars == <<holder, rstep, snap>>
localVars == <<task, seen, view, batch, flags>>
vars == <<now, dbVars, alive, served, config, counter, last, need, restartVars, writer, pc,
          localVars, events, used, billed, told, off, unasked>>

Exhausted(c, u, e) == (Total[c] > 0 /\ u >= Total[c]) \/ (e > 0 /\ e <= now)
Off(c) == ~ (c \in rowOn /\ c \in recOn)   (* GetXrayConfig leaves c out *)
NoTraffic == [c \in {} |-> 0]
NothingSeen == [on |-> FALSE, expiry |-> 0]
NoView == [on |-> {}, expiry |-> Start]

(* Every client is on, and the panel has started Xray with all of them. *)
Init ==
  /\ now = 1
  /\ usage = [c \in Clients |-> 0] /\ expiry = Start /\ rowOn = Clients
  /\ setOn = Clients /\ setExpiry = Start
  /\ recOn = Clients
  /\ alive = TRUE /\ served = Clients /\ config = Clients
  /\ counter = [c \in Clients |-> 0] /\ last = [c \in Clients |-> 0]
  /\ need = FALSE
  /\ holder = None /\ rstep = "free" /\ snap = {}
  /\ writer = None
  /\ pc = [x \in Callers |-> "idle"]
  /\ task = [a \in Admins |-> [op |-> "none", c |-> None, sole |-> FALSE]]
  /\ seen = [a \in Admins |-> NothingSeen]
  /\ view = [a \in Admins |-> NoView]
  /\ batch = [t \in Ticks |-> NoTraffic]
  /\ flags = [t \in Ticks |-> FALSE]
  /\ events = 0
  /\ used = [c \in Clients |-> 0] /\ billed = [c \in Clients |-> 0]
  /\ told = FALSE /\ off = {} /\ unasked = {}

----------------------------------------------------------------------------
(* The database and Xray's API *)

Become(x, at) == pc' = [pc EXCEPT ![x] = at]

(* An API call works or fails: always without a process, else as a fault. *)
ApiCall(ok) ==
  /\ ok => alive
  /\ ~ ok /\ alive => events < MaxEvents
  /\ events' = IF ~ ok /\ alive THEN events + 1 ELSE events

Event == events < MaxEvents /\ events' = events + 1

(* autoRenewClients adds periods while the expiry is before now. *)
Renewed(e, days) == IF e >= now THEN e ELSE e + days * ((now - e + days - 1) \div days)

Plus(f, del) == [c \in Clients |-> IF c \in DOMAIN del THEN f[c] + del[c] ELSE f[c]]

(* addTrafficLocked for the deltas in del: addClientTraffic with           *)
(* adjustTraffics, autoRenewClients, disableInvalidClients. All API calls  *)
(* of one transaction succeed or all fail.                                 *)
AddTraffic(del, ok) ==
  LET begun   == {c \in DOMAIN del : expiry[c] < 0}
      begins(e) == [c \in Clients |-> IF c \in begun THEN now - setExpiry[c] ELSE e[c]]
      rowEnd  == begins(expiry)
      renewed == {c \in Clients : Period[c] > 0 /\ 0 < rowEnd[c] /\ rowEnd[c] <= now}
      renews(e) == [c \in Clients |-> IF c \in renewed THEN Renewed(rowEnd[c], Period[c]) ELSE e[c]]
      left    == [c \in Clients |-> IF c \in renewed THEN 0 ELSE Plus(usage, del)[c]]
      revived == renewed \ rowOn
      rows    == rowOn \cup renewed
      sets    == setOn \cup revived
      recs    == IF begun \cup renewed # {} THEN sets ELSE recOn      (* SyncInbound *)
      spent   == {c \in rows : Exhausted(c, left[c], renews(rowEnd)[c])}
  IN [usage |-> left, expiry |-> renews(rowEnd), setExpiry |-> renews(begins(setExpiry)),
      rowOn |-> rows \ spent, setOn |-> sets \ spent, recOn |-> recs \ spent,
      served |-> IF ok THEN (served \cup revived) \ spent ELSE served,
      need |-> (~ ok /\ revived \cup spent # {}) \/ revived \cap served # {},
      disabled |-> spent # {}]

(* The clients that r switches off, and those whose record alone goes off: *)
(* it follows the settings.                                                *)
SwitchedOff(r) == (rowOn \ r.rowOn) \cup (recOn \ r.recOn)
Unsynced(r) == (recOn \ r.recOn) \cap r.rowOn

Commit(r) ==
  /\ usage' = r.usage /\ expiry' = r.expiry /\ rowOn' = r.rowOn
  /\ setOn' = r.setOn /\ setExpiry' = r.setExpiry /\ recOn' = r.recOn

(* A client that Xray serves sends or receives. *)
Traffic(c) ==
  /\ alive /\ c \in served /\ used[c] < MaxTraffic[c]
  /\ counter' = [counter EXCEPT ![c] = @ + 1]
  /\ used' = [used EXCEPT ![c] = @ + 1]
  /\ UNCHANGED <<now, dbVars, alive, served, config, last, need, restartVars, writer, pc,
                 localVars, events, billed, told, off, unasked>>

NextDay ==
  /\ now < MaxTime
  /\ now' = now + 1
  /\ UNCHANGED <<dbVars, alive, served, config, counter, last, need, restartVars, writer, pc,
                 localVars, events, used, billed, told, off, unasked>>

----------------------------------------------------------------------------
(* The traffic job *)

(* GetTraffic: a statistic seen for the first time, or smaller than last   *)
(* time, is only remembered.                                               *)
Counted == {c \in Clients : counter[c] > 0}
Delta == [c \in {d \in Counted : last[d] > 0 /\ counter[d] >= last[d]} |-> counter[c] - last[c]]
(* Faulty variant: a value once seen is never brought up to date.          *)
FirstRemembered == [c \in Clients |-> IF c \in Counted /\ last[c] = 0 THEN counter[c] ELSE last[c]]
Remembered == [c \in Clients |-> IF c \in Counted THEN counter[c] ELSE last[c]]

TickRead(t) ==
  /\ pc[t] = "idle"
  /\ alive
  /\ batch' = [batch EXCEPT ![t] = Delta]
  /\ last' = Remembered
  /\ Become(t, "add")
  /\ UNCHANGED <<now, dbVars, alive, served, config, counter, need, restartVars, writer, task,
                 seen, view, flags, events, used, billed, told, off, unasked>>

(* Faulty variant: the job ignores the outcome. *)
AfterAddNothing(t, r) ==
  /\ flags' = [flags EXCEPT ![t] = FALSE]
  /\ batch' = [batch EXCEPT ![t] = NoTraffic]
  /\ Become(t, "idle")

(* What the job does about the outcome r of AddTraffic. *)
AfterAdd(t, r) ==
  /\ flags' = [flags EXCEPT ![t] = r.need]
  /\ batch' = [batch EXCEPT ![t] = NoTraffic]
  /\ Become(t, IF r.disabled /\ RestartOnDisable THEN "restart"
               ELSE IF r.need THEN "flag" ELSE "idle")

TickAdd(t) ==
  /\ pc[t] = "add"
  /\ writer = None
  /\ \E ok \in BOOLEAN :
       /\ ApiCall(ok)
       /\ LET r == AddTraffic(batch[t], ok)
          IN /\ Commit(r) /\ served' = r.served /\ AfterAdd(t, r)
             /\ unasked' = unasked \cup Unsynced(r)
  /\ billed' = Plus(billed, batch[t])
  /\ UNCHANGED <<now, alive, config, counter, last, need, restartVars, writer, task, seen, view,
                 used, told, off>>

(* The transaction fails. Its first statements: the job learns nothing. The *)
(* last one or the commit: the job is told what would have been done, the   *)
(* database has none of it and Xray keeps what it was told.                 *)
TickRollback(t) ==
  /\ pc[t] = "add"
  /\ writer = None
  /\ Event
  /\ LET r == AddTraffic(batch[t], alive)
     IN \/ served' = served /\ unasked' = unasked
           /\ AfterAdd(t, [need |-> FALSE, disabled |-> FALSE])
        \/ served' = r.served /\ unasked' = unasked \cup (r.served \ served)
           /\ AfterAdd(t, r)
  /\ UNCHANGED <<now, dbVars, alive, config, counter, last, need, restartVars, writer, task, seen,
                 view, used, billed, told, off>>

(* SetToNeedRestart, after a failed restart or a failed API call. *)
TickFlag(t) ==
  /\ pc[t] = "flag"
  /\ need' = TRUE
  /\ flags' = [flags EXCEPT ![t] = FALSE]
  /\ Become(t, "idle")
  /\ UNCHANGED <<now, dbVars, alive, served, config, counter, last, restartVars, writer, task,
                 seen, view, batch, events, used, billed, told, off, unasked>>

CronRun ==
  /\ pc[Cron] = "idle"
  /\ need
  /\ Become(Cron, "restart")
  /\ UNCHANGED <<now, dbVars, alive, served, config, counter, last, need, restartVars, writer,
                 localVars, events, used, billed, told, off, unasked>>

----------------------------------------------------------------------------
(* RestartXray *)

(* Only the cron's restart is not forced, and another one may have seen to *)
(* what the cron saw: it may be skipped, and nobody repeats it if it fails. *)
Unneeded(x) == x = Cron /\ ~ need

(* Takes the lock; GetXrayConfig calls AddTraffic(nil, nil) and drops what *)
(* it returns.                                                             *)
RestartBegin(x) ==
  /\ pc[x] = "restart"
  /\ holder = None
  /\ writer = None
  /\ holder' = x /\ rstep' = "rows"
  /\ told' = (told /\ Unneeded(x))
  /\ \E ok \in BOOLEAN :
       /\ ApiCall(ok)
       /\ LET r == AddTraffic(NoTraffic, ok)
          IN /\ Commit(r) /\ served' = r.served
             /\ unasked' = IF Unneeded(x) THEN unasked \cup SwitchedOff(r) ELSE {}
  /\ UNCHANGED <<now, alive, config, counter, last, need, snap, writer, pc, localVars, used,
                 billed, off>>

(* GetAllInbounds reads the rows, ListForInbound then the records. *)
RestartRows(x) ==
  /\ holder = x /\ rstep = "rows"
  /\ snap' = rowOn
  /\ rstep' = "records"
  /\ UNCHANGED <<now, dbVars, alive, served, config, counter, last, need, holder, writer, pc,
                 localVars, events, used, billed, told, off, unasked>>

(* Faulty variant: a record that is off does not count. *)
RestartRowsOnly(x) ==
  /\ holder = x /\ rstep = "records"
  /\ snap' = snap
  /\ rstep' = "stop"
  /\ UNCHANGED <<now, dbVars, alive, served, config, counter, last, need, holder, writer, pc,
                 localVars, events, used, billed, told, off, unasked>>

RestartRecords(x) ==
  /\ holder = x /\ rstep = "records"
  /\ snap' = snap \cap recOn
  /\ rstep' = "stop"
  /\ UNCHANGED <<now, dbVars, alive, served, config, counter, last, need, holder, writer, pc,
                 localVars, events, used, billed, told, off, unasked>>

Skips(x) == Unneeded(x) /\ snap = config

RestartStop(x) ==
  /\ holder = x /\ rstep = "stop"
  /\ ~ Skips(x)
  /\ alive' = FALSE
  /\ served' = {}
  /\ counter' = [c \in Clients |-> 0]
  /\ rstep' = "start"
  /\ UNCHANGED <<now, dbVars, config, last, need, holder, snap, writer, pc, localVars, events,
                 used, billed, told, off, unasked>>

Unlock == holder' = None /\ rstep' = "free" /\ snap' = {}

RestartSkipped(x) ==
  /\ holder = x /\ rstep = "stop"
  /\ Skips(x)
  /\ Unlock
  /\ Become(x, "idle")
  /\ UNCHANGED <<now, dbVars, alive, served, config, counter, last, need, writer, localVars,
                 events, used, billed, told, off, unasked>>

(* Faulty variant: the process is started with the previous configuration. *)
RestartWithOld(x) ==
  /\ holder = x /\ rstep = "start"
  /\ alive' = TRUE /\ served' = config /\ config' = snap
  /\ need' = FALSE
  /\ last' = IF x \in Ticks THEN [c \in Clients |-> 0] ELSE last
  /\ Become(x, IF x \in Ticks /\ flags[x] THEN "flag" ELSE "idle")
  /\ off' = off
  /\ Unlock
  /\ UNCHANGED <<now, dbVars, counter, writer, localVars, events, used, billed, told, unasked>>

(* The restart has succeeded: the handler answers, the job goes on. *)
RestartStart(x) ==
  /\ holder = x /\ rstep = "start"
  /\ alive' = TRUE /\ served' = snap /\ config' = snap
  /\ need' = FALSE
  /\ last' = IF x \in Ticks THEN [c \in Clients |-> 0] ELSE last
  /\ Become(x, IF x \in Ticks /\ flags[x] THEN "flag" ELSE "idle")
  /\ off' = IF x \in Admins /\ task[x].op = "off" /\ task[x].sole THEN off \cup {task[x].c} ELSE off
  /\ Unlock
  /\ UNCHANGED <<now, dbVars, counter, writer, localVars, events, used, billed, told, unasked>>

(* Faulty variant: the job does not ask for another restart. *)
FailedSilently(x) ==
  /\ Become(x, "idle")
  /\ told' = (told \/ x \in Admins)

(* What a failed restart leaves to do, and to say. *)
Failed(x) ==
  /\ Become(x, IF x \in Ticks THEN "flag" ELSE "idle")
  /\ told' = (told \/ x \in Admins)

(* The configuration does not pass its test or cannot be written. *)
RestartRefused(x) ==
  /\ holder = x /\ rstep = "stop"
  /\ ~ Skips(x)
  /\ Event
  /\ Failed(x)
  /\ Unlock
  /\ UNCHANGED <<now, dbVars, alive, served, config, counter, last, need, writer, localVars, used,
                 billed, off, unasked>>

(* Xray does not start: the previous process object is started again.      *)
RestartRollback(x) ==
  /\ holder = x /\ rstep = "start"
  /\ Event
  /\ alive' = TRUE /\ served' = config
  /\ last' = IF x \in Ticks THEN [c \in Clients |-> 0] ELSE last
  /\ Failed(x)
  /\ Unlock
  /\ UNCHANGED <<now, dbVars, config, counter, need, writer, localVars, used, billed, off, unasked>>

----------------------------------------------------------------------------
(* Requests *)

(* A request comes in; task names what is asked of which client, and sole  *)
(* that nobody asks the contrary at the same time: to switch it on or to   *)
(* reset it, or, of a client that is to be on, to switch it off.           *)
Favours(o, d, c) == o \notin {"off", "view"} /\ (d = c \/ o = "resetAll")
Contests(mine, o, d, c) == Favours(o, d, c) \/ (mine = "on" /\ o = "off" /\ d = c)
Contested(o, c) == \E a \in Admins : pc[a] # "idle" /\ Contests(o, task[a].op, task[a].c, c)

Call(a, o, c) ==
  /\ pc[a] = "idle"
  /\ Event
  /\ task' = [b \in Admins |->
                IF b = a THEN [op |-> o, c |-> c, sole |-> ~ Contested(o, c)]
                ELSE [task[b] EXCEPT !.sole = @ /\ ~ Contests(task[b].op, o, c, task[b].c)]]
  /\ Become(a, IF o \in {"on", "off"} THEN "switch" ELSE o)
  /\ off' = IF o \in {"on", "reset", "botReset"} THEN off \ {c} ELSE off
  /\ UNCHANGED <<now, dbVars, alive, served, config, counter, last, need, restartVars, writer,
                 seen, view, batch, flags, used, billed, told, unasked>>

(* A handler's local variables are gone when it has used them. *)
Forget(a) == seen' = [seen EXCEPT ![a] = NothingSeen] /\ view' = [view EXCEPT ![a] = NoView]

Wanted(a) == task[a].op = "on"
With(S, c, on) == IF on THEN S \cup {c} ELSE S \ {c}

(* SetClientEnableByEmail reads the client's settings. *)
SwitchRead(a) ==
  LET c == task[a].c
  IN /\ pc[a] = "switch"
     /\ (c \in setOn) # Wanted(a)
     /\ seen' = [seen EXCEPT ![a].expiry = setExpiry[c]]
     /\ Become(a, "lock")
     /\ UNCHANGED <<now, dbVars, alive, served, config, counter, last, need, restartVars, writer,
                    task, view, batch, flags, events, used, billed, told, off, unasked>>

(* The settings already say so: only the record may have to change. (A     *)
(* save of what was read before may undo that, so off leaves it out.)      *)
SwitchRecord(a) ==
  LET c == task[a].c
  IN /\ pc[a] = "switch"
     /\ (c \in setOn) = Wanted(a)
     /\ recOn' = With(recOn, c, Wanted(a))
     /\ task' = [task EXCEPT ![a].sole = @ /\ Wanted(a)]
     /\ Become(a, IF (c \in recOn) # Wanted(a) THEN "restart" ELSE "idle")
     /\ UNCHANGED <<now, usage, expiry, rowOn, setOn, setExpiry, alive, served, config, counter,
                    last, need, restartVars, writer, seen, view, batch, flags, events, used, billed,
                    told, off, unasked>>

(* UpdateInboundClient takes lockInbound and reads the inbound. *)
SwitchLock(a) ==
  /\ pc[a] = "lock"
  /\ \A b \in Admins : pc[b] # "update"
  /\ view' = [view EXCEPT ![a] = [on |-> setOn, expiry |-> setExpiry]]
  /\ Become(a, "update")
  /\ UNCHANGED <<now, dbVars, alive, served, config, counter, last, need, restartVars, writer,
                 task, seen, batch, flags, events, used, billed, told, off, unasked>>

(* Its transaction, API calls included: RemoveUser if the client was on,   *)
(* AddUser if it is to be on. An API failure asks for the restart that the *)
(* handler makes anyway.                                                   *)
Edited(a, ok) ==
  LET c == task[a].c IN
  IF ~ ok THEN served
  ELSE IF Wanted(a) THEN served \cup {c} ELSE IF c \in view[a].on THEN served \ {c} ELSE served

SwitchUpdate(a) ==
  LET c == task[a].c
  IN /\ pc[a] = "update"
     /\ rowOn' = With(rowOn, c, Wanted(a))
     /\ expiry' = [expiry EXCEPT ![c] = seen[a].expiry]
     /\ setOn' = With(view[a].on, c, Wanted(a))
     /\ setExpiry' = [view[a].expiry EXCEPT ![c] = seen[a].expiry]
     /\ recOn' = With(view[a].on, c, Wanted(a))      (* SyncInbound *)
     /\ \E ok \in BOOLEAN : ApiCall(ok) /\ served' = Edited(a, ok)
     /\ Forget(a)
     /\ Become(a, "record")
     /\ UNCHANGED <<now, usage, alive, config, counter, last, need, restartVars, writer, task,
                    batch, flags, used, billed, told, off, unasked>>

(* The transaction fails after the API calls, or the last write of the     *)
(* record after it; the handler answers so.                                *)
SwitchFails(a) ==
  /\ pc[a] \in {"update", "record"}
  /\ Event
  /\ served' = IF pc[a] = "update" THEN Edited(a, alive) ELSE served
  /\ told' = TRUE
  /\ Forget(a)
  /\ Become(a, "idle")
  /\ UNCHANGED <<now, dbVars, alive, config, counter, last, need, restartVars, writer, task,
                 batch, flags, used, billed, off, unasked>>

(* SetClientEnableByEmail writes the record once more; the handler calls   *)
(* ApplyConfigChange.                                                      *)
SwitchDone(a) ==
  /\ pc[a] = "record"
  /\ recOn' = With(recOn, task[a].c, Wanted(a))
  /\ Become(a, "restart")
  /\ UNCHANGED <<now, usage, expiry, rowOn, setOn, setExpiry, alive, served, config, counter,
                 last, need, restartVars, writer, localVars, events, used, billed, told, off,
                 unasked>>

(* resetClientTrafficLocked reads the row and, when it is off, adds a user *)
(* whose settings are on.                                                  *)
ResetRead(a) ==
  LET c == task[a].c
      adds == c \notin rowOn /\ c \in setOn
  IN /\ pc[a] = "reset"
     /\ writer = None
     /\ writer' = a
     /\ \E ok \in BOOLEAN :
          /\ ApiCall(ok)
          /\ served' = IF adds /\ ok THEN served \cup {c} ELSE served
          /\ seen' = [seen EXCEPT ![a] = [on |-> adds /\ (~ ok \/ c \in served), expiry |-> expiry[c]]]
     /\ Become(a, "save")
     /\ UNCHANGED <<now, dbVars, alive, config, counter, last, need, restartVars, task, view,
                    batch, flags, used, billed, told, off, unasked>>

(* It saves the row it has read. seen.on: the handler is to restart. *)
ResetSave(a) ==
  LET c == task[a].c
  IN /\ pc[a] = "save"
     /\ writer' = None
     /\ usage' = [usage EXCEPT ![c] = 0]
     /\ rowOn' = rowOn \cup {c}
     /\ expiry' = [expiry EXCEPT ![c] = seen[a].expiry]
     /\ Forget(a)
     /\ Become(a, IF seen[a].on THEN "restart" ELSE "idle")
     /\ unasked' = IF c \in recOn THEN unasked ELSE unasked \cup {c}
     /\ UNCHANGED <<now, setOn, setExpiry, recOn, alive, served, config, counter, last, need,
                    restartVars, task, batch, flags, events, used, billed, told, off>>

(* The save fails after the API call; the handler answers so. *)
ResetFails(a) ==
  /\ pc[a] = "save"
  /\ Event
  /\ writer' = None
  /\ told' = TRUE
  /\ Forget(a)
  /\ Become(a, "idle")
  /\ UNCHANGED <<now, dbVars, alive, served, config, counter, last, need, restartVars, task,
                 batch, flags, used, billed, off, unasked>>

(* The bot's reset of one client, the periodic reset of all. *)
ResetRows(a) ==
  LET S == IF task[a].op = "resetAll" THEN Clients ELSE {task[a].c}
  IN /\ pc[a] \in {"botReset", "resetAll"}
     /\ writer = None
     /\ usage' = [c \in Clients |-> IF c \in S THEN 0 ELSE usage[c]]
     /\ rowOn' = rowOn \cup S
     /\ Become(a, "idle")
     /\ UNCHANGED <<now, expiry, setOn, setExpiry, recOn, alive, served, config, counter, last,
                    need, restartVars, writer, localVars, events, used, billed, told, off,
                    unasked>>

(* GetConfigJson generates the configuration only to show it. *)
View(a) ==
  /\ pc[a] = "view"
  /\ writer = None
  /\ \E ok \in BOOLEAN :
       /\ ApiCall(ok)
       /\ LET r == AddTraffic(NoTraffic, ok)
          IN /\ Commit(r) /\ served' = r.served
             /\ unasked' = unasked \cup SwitchedOff(r)
  /\ Become(a, "idle")
  /\ UNCHANGED <<now, alive, config, counter, last, need, restartVars, writer, localVars, used,
                 billed, told, off>>

----------------------------------------------------------------------------

TickStep(t) == TickRead(t) \/ TickAdd(t) \/ TickFlag(t)
RestartStep(x) ==
  \/ RestartBegin(x) \/ RestartRows(x) \/ RestartRecords(x) \/ RestartStop(x) \/ RestartStart(x)
  \/ RestartSkipped(x)
RequestStep(a) ==
  \/ SwitchRead(a) \/ SwitchRecord(a) \/ SwitchLock(a) \/ SwitchUpdate(a) \/ SwitchDone(a)
  \/ ResetRead(a) \/ ResetSave(a) \/ ResetRows(a) \/ View(a)

Next ==
  \/ \E c \in Clients : Traffic(c)
  \/ NextDay
  \/ \E t \in Ticks : TickStep(t) \/ TickRollback(t)
  \/ CronRun
  \/ \E x \in Callers : RestartStep(x) \/ RestartRefused(x) \/ RestartRollback(x)
  \/ \E a \in Admins :
       \/ \E o \in Ops, c \in Clients : Call(a, o, c)
       \/ RequestStep(a) \/ SwitchFails(a) \/ ResetFails(a)

Spec == Init /\ [][Next]_vars

(* The cron runs its jobs for ever, goroutines go on, and a lock is given  *)
(* to a waiting goroutine; faults and requests are few.                    *)
FairSpec ==
  /\ Spec
  /\ \A t \in Ticks : WF_vars(TickStep(t))
  /\ WF_vars(CronRun)
  /\ \A x \in Callers : WF_vars(RestartStep(x))
  /\ \A a \in Admins : WF_vars(RequestStep(a))

----------------------------------------------------------------------------
(* Typing *)

States == {"idle", "add", "flag", "restart", "switch", "lock", "update", "record", "reset",
           "save", "botReset", "resetAll", "view"}
Tasks == [op : Ops \cup {"none"}, c : Clients \cup {None}, sole : BOOLEAN]
Views == [on : SUBSET Clients, expiry : [Clients -> Int]]

DbOK ==
  /\ usage \in [Clients -> Nat] /\ expiry \in [Clients -> Int] /\ setExpiry \in [Clients -> Int]
  /\ rowOn \subseteq Clients /\ setOn \subseteq Clients /\ recOn \subseteq Clients

XrayOK ==
  /\ alive \in BOOLEAN /\ served \subseteq Clients /\ config \subseteq Clients
  /\ counter \in [Clients -> Nat] /\ last \in [Clients -> Nat]

LockOK ==
  /\ need \in BOOLEAN
  /\ holder \in Callers \cup {None} /\ writer \in Admins \cup {None}
  /\ rstep \in {"free", "rows", "records", "stop", "start"}
  /\ snap \subseteq Clients

LocalOK ==
  /\ pc \in [Callers -> States]
  /\ task \in [Admins -> Tasks]
  /\ \A a \in Admins : pc[a] # "idle" => task[a].c \in Clients
  /\ \A a \in Admins : pc[a] \in {"reset", "save"} => task[a].op = "reset"
  /\ seen \in [Admins -> [on : BOOLEAN, expiry : Int]] /\ view \in [Admins -> Views]
  /\ batch = [t \in Ticks |-> batch[t]] /\ flags \in [Ticks -> BOOLEAN]
  /\ \A t \in Ticks :
       DOMAIN batch[t] \subseteq Clients /\ batch[t] \in [DOMAIN batch[t] -> Nat]

HistoryOK ==
  /\ now \in Nat /\ events \in Nat
  /\ used \in [Clients -> Nat] /\ billed \in [Clients -> Nat]
  /\ told \in BOOLEAN /\ off \subseteq Clients /\ unasked \subseteq Clients

TypeOK == DbOK /\ XrayOK /\ LockOK /\ LocalOK /\ HistoryOK

(* Who holds a lock is where it says, and each lock has one holder. *)
LockInv ==
  /\ holder = None <=> rstep = "free"
  /\ holder # None => pc[holder] = "restart"
  /\ \A a \in Admins : pc[a] = "save" <=> writer = a
  /\ \A a, b \in Admins : pc[a] = "update" /\ pc[b] = "update" => a = b

(* A handler is switching a client off, and nobody favours it meanwhile.   *)
Asks(a) == pc[a] # "idle" /\ task[a].op = "off" /\ task[a].sole
NoWish(c) == \A b \in Admins : pc[b] # "idle" /\ task[b].c = c => task[b].op # "on"

(* c is off wherever an AddTraffic, a save or a restart would look.        *)
Down(c) ==
  /\ c \notin setOn /\ c \notin recOn
  /\ \A b \in Admins : pc[b] = "update" => c \notin view[b].on

Snapped == rstep \in {"stop", "start"}

(* What keeps a client without renewal off: from the update on its         *)
(* settings and record are off, no handler has read them on, the restart   *)
(* that the handler makes generates a configuration without it, and once   *)
(* that runs every later one is without it too.                            *)
AskInv(a) ==
  /\ NoWish(task[a].c)
  /\ Period[task[a].c] = 0 /\ pc[a] \in {"record", "restart"} => Down(task[a].c)
  /\ Period[task[a].c] = 0 /\ holder = a /\ Snapped => task[a].c \notin snap

OffInv(c) ==
  Period[c] = 0 =>
    /\ NoWish(c) /\ Down(c)
    /\ c \notin served /\ c \notin config
    /\ Snapped => c \notin snap

IInv ==
  /\ TypeOK /\ LockInv
  /\ \A a \in Admins : Asks(a) => AskInv(a)
  /\ \A c \in off : OffInv(c)

----------------------------------------------------------------------------
(* Properties *)

(* No byte is accounted for twice, however resets, restarts of Xray,       *)
(* rollbacks and the counters' own resets fall between two readings.       *)
NotOverbilled == \A c \in Clients : billed[c] <= used[c]

(* Somebody is about to restart Xray from what the database says now. *)
RestartComing ==
  \/ need
  \/ \E x \in Callers : pc[x] \in {"flag", "restart", "record"} /\ holder # x
  \/ \E a \in Admins : pc[a] = "save" /\ seen[a].on

(* A client that is off but still served, by the configuration of another  *)
(* restart, a failed API call or a rollback, is not left so: a restart is  *)
(* coming or under way, or the administrator has been told.  Five steps do *)
(* not see to it (unasked): a look at the configuration, or a restart that *)
(* nobody needs any more, disables the client; its record is switched off  *)
(* after its settings; a reset adds one whose record is off; a transaction *)
(* rolled back has renewed it in Xray.  (Without the setting the job does  *)
(* not restart Xray after a restart that was under way when it disabled    *)
(* the client.)                                                            *)
CutOff ==
  RestartOnDisable =>
    \A c \in served \ unasked : Off(c) =>
      \/ RestartComing \/ holder # None \/ told
      \/ \E a \in Admins : pc[a] = "save" /\ task[a].c = c

(* A client whose switching off the panel has reported is not served again *)
(* by a later restart, rollback or periodic reset. (Renewal switches a     *)
(* client on whoever has switched it off.)                                 *)
OffLasts == \A c \in off \cap served : Period[c] > 0

(* When the panel reports a client switched on, Xray serves it, unless it  *)
(* has been disabled meanwhile.  (sole leaves out two overlapping requests *)
(* for one client: a reset does not tell Xray, and the record that an off  *)
(* switches off may go on again with SyncInbound while the last of the two *)
(* restarts runs.)                                                         *)
ReportedOnIsServed ==
  [][\A a \in Admins :
       pc[a] = "restart" /\ pc'[a] = "idle" /\ task[a].op = "on" /\ task[a].sole /\ ~ told' =>
         LET c == task[a].c IN c \in served' \/ Off(c)' \/ Period[c] > 0]_vars

(* With the setting on, a client over its quota or past its expiry is cut  *)
(* off in the end.                                                         *)
ExhaustedIsCut ==
  \A c \in Clients :
    RestartOnDisable /\ c \in served /\ Exhausted(c, usage[c], expiry[c]) ~>
      c \notin served \/ c \in unasked \/ ~ Exhausted(c, usage[c], expiry[c]) \/ told

(* "When a client is automatically disabled ..., restart Xray": with the   *)
(* setting on, a client AddTraffic has disabled does not go on being       *)
(* served with no restart to come (translation/en-US.json:786).  Not what  *)
(* the code does when it is disabled by a look at the configuration.       *)
DisabledIsRestarted ==
  RestartOnDisable =>
    \A c \in served : c \notin rowOn /\ Exhausted(c, usage[c], expiry[c]) =>
      RestartComing \/ holder # None \/ told
=============================================================================
