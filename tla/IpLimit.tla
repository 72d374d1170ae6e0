------------------------------ MODULE IpLimit ------------------------------
(***************************************************************************)
(* The limit on the number of IPs of one client: the scan of               *)
(* web/job/check_client_ip_job.go, the bans of web/service/iplimit_*.go    *)
(* and inbound.go, and the buttons of the Telegram bot.                    *)
(*                                                                         *)
(* What is banned is known from two places that the code keeps apart: the  *)
(* firewall's rules, and three log files that are replayed.  A scan reads  *)
(* the client's row, decides, changes the firewall and saves the row,      *)
(* without a lock; administrators act in between.  Setting or lifting a    *)
(* ban changes the firewall first and appends its line to the log          *)
(* afterwards, and no lock keeps another caller from coming between.       *)
(*                                                                         *)
(* A replay reads its files in one step, a scan decides about all IPs in   *)
(* one step, and a change of the limit reads the bans to lift as it        *)
(* commits.  Scans do not overlap.                                         *)
(*                                                                         *)
(* One client on one inbound.  Time is counted in scan periods; what       *)
(* happens in one period carries the same second.  A timestamp of 0 means  *)
(* that there is no entry.  Emails, ports and IPs are well formed, and     *)
(* notifications are left out.                                             *)
(***************************************************************************)
EXTENDS Naturals, FiniteSets

CONSTANTS IPs,
          Limits,       (* values of the client's limitIp, 0 for none     *)
          StaleAfter,   (* ipStaleAfterSeconds                            *)
          SampleWindow, (* ipTakeoverSampleWindow                         *)
          UnbanFor,     (* durations of the temporary unban buttons       *)
          None,
          MaxTime,      (* bound: the clock                               *)
          MaxConfig,    (* bound: changes of the limit and the switch     *)
          MaxButtons,   (* bound: presses of the bot's buttons            *)
          MaxRotations, (* bound: daily rotations of the logs             *)
          MaxFaults,    (* bound: iptables and counter failures           *)
          MaxRestarts,  (* bound: restarts of the panel                   *)
          MaxEvents     (* bound: all of these together, buttons twice    *)

ASSUME LimitAssumption ==
  /\ Limits \subseteq Nat /\ UnbanFor \subseteq Nat \ {0}
  /\ StaleAfter \in Nat /\ SampleWindow \in Nat \ {0} /\ MaxTime \in Nat \ {0}
  /\ MaxConfig \in Nat /\ MaxButtons \in Nat /\ MaxRotations \in Nat
  /\ MaxFaults \in Nat /\ MaxRestarts \in Nat /\ MaxEvents \in Nat
  /\ IsFiniteSet(IPs) /\ None \notin IPs

VARIABLES
  now,
  limit, on, (* limitIp; client and inbound enabled and the node online    *)
  access,    (* access[ip]: its last line in the access log                *)
  row, kept, (* the client's InboundClientIps row: it exists; its ips      *)
  rules,     (* the REJECT rules of the chain f2b-3x-ipl                   *)
  logs,      (* what a replay of the ban logs can see, see below           *)
  orphans,   (* history: rules whose line is lost or may be overtaken      *)
  calls,     (* bans and liftings under way or waiting for their turn      *)
  after,     (* what their callers do when they are done                   *)
  rotation,  (* the step ClearLogsJob is at                                *)
  marks,     (* ipLimitTemporaryUnbans: until when                         *)
  timers,    (* AfterFunc callbacks of temporary unbans to come            *)
  probe,     (* the takeover probe, or None                                *)
  job,       (* the running scan                                           *)
  left       (* what the bounds leave                                      *)

config == <<limit, on>>
store == <<row, kept>>
firewall == <<rules, logs, orphans, rotation>>
callers == <<calls, after>>
buttons == <<marks, timers>>
vars == <<now, config, access, store, firewall, callers, buttons, probe, job, left>>

Absent == [ip \in IPs |-> 0]
Present(f) == {ip \in IPs : f[ip] > 0}
Keep(f, S) == [ip \in IPs |-> IF ip \in S THEN f[ip] ELSE 0]
Bounds == {"config", "buttons", "rotations", "faults", "restarts", "events"}
Bound(b) == CASE b = "config" -> MaxConfig [] b = "buttons" -> MaxButtons
              [] b = "rotations" -> MaxRotations [] b = "faults" -> MaxFaults
              [] b = "restarts" -> MaxRestarts [] b = "events" -> MaxEvents
Cost(bound) == IF bound = "buttons" THEN 2 ELSE 1
Use(bound) == /\ left[bound] > 0 /\ left["events"] >= Cost(bound)
              /\ left' = [left EXCEPT ![bound] = @ - 1, !["events"] = @ - Cost(bound)]

Event(action, at) == [action |-> action, at |-> at]
NoEvents == [ip \in IPs |-> Event("UNBAN", 0)]
Due == [step |-> "due"]
Done == [step |-> "done"]

Init ==
  /\ now = 1
  /\ limit \in Limits /\ on \in BOOLEAN
  /\ access = Absent /\ row = FALSE /\ kept = Absent
  /\ rules = {}
  /\ logs = [limit |-> Absent, banned |-> NoEvents, prev |-> NoEvents]
  /\ orphans = {} /\ calls = {} /\ after = {} /\ rotation = "idle"
  /\ marks = Absent /\ timers = {}
  /\ probe = None /\ job = Due
  /\ left = [b \in Bounds |-> Bound(b)]

----------------------------------------------------------------------------
(* The ban logs.  [LIMIT_IP] lines all ban; of the two ban logs the last   *)
(* line about an IP decides, and the replay orders the files by time and   *)
(* then prev, limit, banned (currentIPLimitBanStatesForEmail).             *)

(* Faulty variant: the older ban log is read last. *)
NewestPrevLast(l, ip) ==
  CHOOSE e \in {Event("BAN", l.limit[ip]), l.banned[ip], l.prev[ip]} :
    /\ \A t \in {l.limit[ip], l.banned[ip].at, l.prev[ip].at} : t <= e.at
    /\ e.at = l.prev[ip].at => e = l.prev[ip]
    /\ e.at = l.limit[ip] /\ e.at > l.prev[ip].at => e.action = "BAN"

Newest(l, ip) ==
  CHOOSE e \in {Event("BAN", l.limit[ip]), l.banned[ip], l.prev[ip]} :
    /\ \A t \in {l.limit[ip], l.banned[ip].at, l.prev[ip].at} : t <= e.at
    /\ e.at = l.banned[ip].at => e = l.banned[ip]
    /\ e.at = l.limit[ip] /\ e.at > l.banned[ip].at => e.action = "BAN"

Banned(l) == {ip \in IPs : Newest(l, ip).action = "BAN"}

(* AppendIPLimitBanLog *)
WithBanLog(l, ip, action) == [l EXCEPT !.banned[ip] = Event(action, now)]

Later(s, t) == IF s < t THEN t ELSE s

(* A [LIMIT_IP] line has a timestamp of its own. *)
WithLimitLog(l, ip, at) == [l EXCEPT !.limit[ip] = Later(@, at)]

(* The n first of f by time; equal times are ordered anyhow. *)
Oldest(f, n) ==
  {S \in SUBSET Present(f) : /\ Cardinality(S) = n \/ (S = Present(f) /\ Cardinality(S) < n)
                             /\ \A a \in S, b \in Present(f) \ S : f[a] <= f[b]}

(* allowedIPLimitIPs: bans compete for the slots when some slot is free. *)
Allowed(n, tracked, l) ==
  Oldest(IF Cardinality(Present(tracked)) >= n THEN tracked
         ELSE [ip \in IPs |-> IF tracked[ip] > 0 THEN tracked[ip]
                              ELSE IF ip \in Banned(l) THEN Newest(l, ip).at ELSE 0], n)

(* SyncClientIPLimitBansForInbound: the bans it may release. *)
Released(n, tracked, l) ==
  IF n = 0 THEN {Banned(l)} ELSE {A \cap Banned(l) : A \in Allowed(n, tracked, l)}

----------------------------------------------------------------------------
(* Setting and lifting bans.  A caller's loop makes its calls one after    *)
(* the other, in any order; the calls of different callers interleave.     *)

Scan == <<"job", 0>>
Whos == {Scan} \cup ({"config"} \X (1 .. MaxConfig)) \cup ({"buttons", "timer"} \X (1 .. MaxButtons))
Of(who) == {c \in calls : c.who = who}

(* unbanClientIPLimitByEmailAndIP of each of S: the rule, then the line. *)
Liftings(who, S) == {[who |-> who, ip |-> ip, action |-> "UNBAN", step |-> "rule", at |-> 0] : ip \in S}

(* A ban: its [LIMIT_IP] line, its rule, its line.  A scan's line is dated *)
(* at the IP's last connection, a manual one (at 0) when it is written.    *)
Banning(who, ip, at) == [who |-> who, ip |-> ip, action |-> "BAN", step |-> "limit", at |-> at]

LineDue(c) == c.step = "line"
Unsaid == {c.ip : c \in {d \in calls : LineDue(d)}}
Started(c) == LineDue(c) \/ (c.action = "BAN" /\ c.step = "rule")
InTurn(c) == c \in calls /\ (Started(c) \/ ~\E d \in Of(c.who) : Started(d))
Advance(c, step) == calls' = (calls \ {c}) \cup {[c EXCEPT !.step = step]}

CallLimit(c) ==
  /\ InTurn(c) /\ c.step = "limit"
  /\ logs' = WithLimitLog(logs, c.ip, IF c.at = 0 THEN now ELSE c.at)
  /\ Advance(c, "rule")
  /\ UNCHANGED <<rules, orphans, left>>

(* UnbanIPLimitPort removes the rule, however often it is there. *)
CallUnban(c) ==
  /\ InTurn(c) /\ c.step = "rule" /\ c.action = "UNBAN"
  /\ rules' = rules \ {c.ip} /\ orphans' = orphans \ {c.ip}
  /\ Advance(c, "line")
  /\ UNCHANGED <<logs, left>>

(* BanIPLimitPort inserts the rule.  If the line of an earlier lifting is  *)
(* still to come, it will follow the rule that it does not speak of.       *)
CallBan(c) ==
  /\ InTurn(c) /\ c.step = "rule" /\ c.action = "BAN"
  /\ rules' = rules \cup {c.ip}
  /\ orphans' = IF \E d \in calls : LineDue(d) /\ d.action = "UNBAN" /\ d.ip = c.ip
                THEN orphans \cup {c.ip} ELSE orphans \ {c.ip}
  /\ Advance(c, "line")
  /\ UNCHANGED <<logs, left>>

(* iptables refuses the rule: no line either. *)
CallRefused(c) ==
  /\ InTurn(c) /\ c.step = "rule" /\ c.action = "BAN"
  /\ Use("faults")
  /\ calls' = calls \ {c}
  /\ UNCHANGED <<rules, logs, orphans>>

(* AppendIPLimitBanLog ends the call. *)
CallLine(c) ==
  /\ InTurn(c) /\ LineDue(c)
  /\ logs' = WithBanLog(logs, c.ip, c.action)
  /\ calls' = calls \ {c}
  /\ UNCHANGED <<rules, orphans, left>>

Call(who) ==
  /\ \E c \in Of(who) : CallLimit(c) \/ CallUnban(c) \/ CallBan(c) \/ CallRefused(c) \/ CallLine(c)
  /\ UNCHANGED <<now, config, access, store, after, rotation, buttons, probe, job>>

EffectiveLimit == IF on THEN limit ELSE 0

(* Faulty variant: a client without a limit needs no synchronisation. *)
SyncLimitedOnly(who) ==
  IF EffectiveLimit = 0 THEN UNCHANGED calls
  ELSE \E S \in Released(EffectiveLimit, kept, logs) : calls' = calls \cup Liftings(who, S)

(* SyncClientIPLimitBansByEmail *)
SyncByEmail(who) ==
  \E S \in Released(EffectiveLimit, kept, logs) : calls' = calls \cup Liftings(who, S)

----------------------------------------------------------------------------
(* The job *)

(* cleanupExpiredIPTakeoverProbes *)
CleanupProbes ==
  probe' = IF probe # None /\ now > probe.at + 2 * SampleWindow THEN None ELSE probe

(* A scan goes on when the calls it has made have ended. *)
JobAt(step) == job.step = step /\ Of(Scan) = {}

(* Run up to syncStoredIPLimitBans. *)
JobSync ==
  /\ JobAt("due")
  /\ CleanupProbes
  /\ IF row THEN SyncByEmail(Scan) ELSE UNCHANGED calls
  /\ job' = [step |-> "scan"]
  /\ UNCHANGED <<now, config, access, store, firewall, after, buttons, left>>

(* Nothing about the client in the log, or no client has a limit. *)
JobNothing ==
  /\ JobAt("scan")
  /\ access = Absent \/ limit = 0
  /\ job' = Done
  /\ UNCHANGED <<now, config, access, store, firewall, callers, buttons, probe, left>>

(* addInboundClientIps *)
JobFirst ==
  /\ JobAt("scan")
  /\ access # Absent /\ ~row
  /\ row' = TRUE /\ kept' = access
  /\ job' = Done
  /\ UNCHANGED <<now, config, access, firewall, callers, buttons, probe, left>>

ToSave(ips, clear) == [step |-> "save", ips |-> ips, clear |-> clear]

(* updateInboundClientIps without a limit to enforce. *)
JobUnlimited ==
  /\ JobAt("scan")
  /\ access # Absent /\ row /\ EffectiveLimit = 0
  /\ calls' = calls \cup Liftings(Scan, Banned(logs))
  /\ probe' = None
  /\ job' = ToSave(access, FALSE)
  /\ UNCHANGED <<now, config, access, store, firewall, after, buttons, left>>

(* mergeClientIps *)
Merged ==
  LET fresh(t) == IF t + StaleAfter < now THEN 0 ELSE t
  IN [ip \in IPs |-> Later(fresh(kept[ip]), fresh(access[ip]))]

(* singleIPTakeoverPair *)
Pairs ==
  {p \in [incumbent : IPs, candidate : IPs] :
     /\ p.incumbent # p.candidate
     /\ Present(Merged) = {p.incumbent, p.candidate}
     /\ Present(kept) \cap Present(Merged) = {p.incumbent}
     /\ access[p.candidate] > 0}

Matches(p) == probe # None /\ probe.pair = p

(* evaluateSingleIPTakeover: a new probe, or one whose time is not over. *)
Sampling ==
  \E p \in Pairs :
    /\ IF Matches(p) THEN now < probe.at + SampleWindow /\ UNCHANGED probe
                     ELSE probe' = [pair |-> p, at |-> now]
    /\ UNCHANGED left

(* The newcomer waits while the incumbent's traffic is sampled. *)
JobPending ==
  /\ JobAt("scan")
  /\ row /\ EffectiveLimit = 1
  /\ Sampling
  /\ job' = Done
  /\ UNCHANGED <<now, config, access, store, firewall, callers, buttons>>

SampleOver(p) == Matches(p) /\ now >= probe.at + SampleWindow

(* The incumbent used little: the candidate takes its place. *)
JobTakeover ==
  /\ JobAt("scan")
  /\ row /\ EffectiveLimit = 1
  /\ \E p \in Pairs :
       /\ SampleOver(p)
       /\ calls' = calls \cup Liftings(Scan, {p.candidate} \cap Banned(logs))
       /\ job' = ToSave(Keep(Merged, {p.candidate}), TRUE)
  /\ probe' = None
  /\ UNCHANGED <<now, config, access, store, firewall, after, buttons, left>>

(* Faulty variant: one IP more than the limit is protected. *)
SelectOneMore(winner) ==
  \E protected \in Oldest(Merged, limit + 1) :
    job' = [step |-> "enforce", limit |-> limit, ips |-> Merged, winner |-> winner,
            live |-> Present(access) \cap Present(Merged), protected |-> protected]

(* selectIPLimitExcess *)
Select(winner) ==
  \E protected \in Oldest(Merged, limit) :
    job' = [step |-> "enforce", limit |-> limit, ips |-> Merged, winner |-> winner,
            live |-> Present(access) \cap Present(Merged), protected |-> protected]

(* No pair to compare, the sample fails, or the incumbent was busy: the    *)
(* strict path.                                                            *)
JobStrict ==
  /\ JobAt("scan")
  /\ access # Absent /\ row /\ EffectiveLimit > 0
  /\ \/ /\ limit > 1 \/ Pairs = {}
        /\ Select(None) /\ UNCHANGED left
     \/ /\ limit = 1 /\ Pairs # {} /\ Use("faults")
        /\ \A p \in Pairs : ~Matches(p) \/ SampleOver(p)
        /\ Select(None)
     \/ /\ limit = 1
        /\ \E p \in Pairs : SampleOver(p) /\ Select(p.incumbent)
        /\ UNCHANGED left
  /\ probe' = None
  /\ UNCHANGED <<now, config, access, store, firewall, callers, buttons>>

Marked(ip) == marks[ip] > now

(* SyncClientIPLimitBansForInbound, with the limit the scan read. *)
JobEnforce ==
  /\ JobAt("enforce")
  /\ \E S \in Released(job.limit, job.ips, logs) : calls' = calls \cup Liftings(Scan, S)
  /\ job' = [job EXCEPT !.step = "choose"]
  /\ UNCHANGED <<now, config, access, store, firewall, after, buttons, probe, left>>

(* The excess is banned, but for IPs that are let through for a while or   *)
(* that the logs already call banned.                                      *)
JobChoose ==
  /\ JobAt("choose")
  /\ LET excess == job.live \ job.protected
         spared == {ip \in excess : Marked(ip)}
         new == excess \ (spared \cup Banned(logs))
     IN /\ calls' = calls \cup {Banning(Scan, ip, job.ips[ip]) : ip \in new}
        /\ job' = ToSave(Keep(job.ips, (Present(job.ips) \ excess) \cup spared), new # {})
  /\ UNCHANGED <<now, config, access, store, firewall, after, buttons, probe, left>>

(* The row is saved, and the log is truncated after a ban or a takeover:   *)
(* lines written since it was read go with it.                             *)
JobSave ==
  /\ JobAt("save")
  /\ kept' = job.ips
  /\ access' = IF job.clear THEN Absent ELSE access
  /\ job' = Done
  /\ UNCHANGED <<now, config, row, firewall, callers, buttons, probe, left>>

(* clearAccessLog, once an hour. *)
ClearAccessLog ==
  /\ job = Done
  /\ access # Absent
  /\ access' = Absent
  /\ UNCHANGED <<now, config, store, firewall, callers, buttons, probe, job, left>>

----------------------------------------------------------------------------
(* Administrators, the bot and the clock *)

Me(bound) == <<bound, left[bound]>>

(* UpdateInboundClient, followed by its synchronisation. *)
SetLimit(n) ==
  /\ Use("config")
  /\ n # limit /\ limit' = n
  /\ \E S \in Released(IF on THEN n ELSE 0, kept, logs) : calls' = calls \cup Liftings(Me("config"), S)
  /\ UNCHANGED <<now, on, access, store, firewall, after, buttons, probe, job>>

(* SetInboundEnable, or the heartbeat of an offline node: all bans go. *)
SwitchOff ==
  /\ Use("config")
  /\ on /\ on' = FALSE
  /\ calls' = calls \cup Liftings(Me("config"), Banned(logs))
  /\ UNCHANGED <<now, limit, access, store, firewall, after, buttons, probe, job>>

SwitchOn ==
  /\ Use("config")
  /\ ~on /\ on' = TRUE
  /\ UNCHANGED <<now, limit, access, store, firewall, callers, buttons, probe, job>>

(* ClearClientIps: the bans, then the row (ClearRow). *)
ClearClientIps ==
  /\ Use("config")
  /\ row
  /\ calls' = calls \cup Liftings(Me("config"), Banned(logs))
  /\ after' = after \cup {[who |-> Me("config"), ip |-> None, hours |-> 0]}
  /\ UNCHANGED <<now, config, access, store, firewall, buttons, probe, job>>

ClearRow(a) ==
  /\ a \in after /\ a.ip = None /\ Of(a.who) = {}
  /\ kept' = Absent
  /\ after' = after \ {a}
  /\ UNCHANGED <<now, config, access, row, firewall, calls, buttons, probe, job, left>>

(* handleIPLimitUnbanCallback for some hours: the ban is lifted, then the  *)
(* IP is marked (Grant).  The button came with a notification of a ban.    *)
TemporaryUnban(ip, hours) ==
  /\ Use("buttons")
  /\ row
  /\ calls' = calls \cup Liftings(Me("buttons"), {ip})
  /\ after' = after \cup {[who |-> Me("buttons"), ip |-> ip, hours |-> hours]}
  /\ UNCHANGED <<now, config, access, store, firewall, buttons, probe, job>>

(* MarkClientIPLimitTemporaryUnban and AfterFunc. *)
Grant(a) ==
  /\ a \in after /\ a.ip # None /\ Of(a.who) = {}
  /\ marks' = [marks EXCEPT ![a.ip] = now + a.hours]
  /\ timers' = timers \cup {[press |-> a.who[2], ip |-> a.ip, at |-> now + a.hours]}
  /\ after' = after \ {a}
  /\ UNCHANGED <<now, config, access, store, firewall, calls, probe, job, left>>

(* The same callback with 0 hours, by which the limit grows instead. *)
IncrementLimit(ip) ==
  /\ Use("buttons")
  /\ row /\ limit + 1 \in Limits
  /\ limit' = limit + 1
  /\ marks' = [marks EXCEPT ![ip] = 0]
  /\ calls' = calls \cup Liftings(Me("buttons"), {ip})
  /\ UNCHANGED <<now, on, access, store, firewall, after, timers, probe, job>>

(* The callback of AfterFunc. *)
TimerFires(t) ==
  /\ t \in timers /\ t.at <= now
  /\ timers' = timers \ {t}
  /\ marks' = [marks EXCEPT ![t.ip] = 0]
  /\ calls' = calls \cup {Banning(<<"timer", t.press>>, t.ip, 0)}
  /\ UNCHANGED <<now, config, access, store, firewall, after, probe, job, left>>

(* handleIPLimitBanCallback *)
ManualBan(ip) ==
  /\ Use("buttons")
  /\ row
  /\ marks' = [marks EXCEPT ![ip] = 0]
  /\ calls' = calls \cup {Banning(Me("buttons"), ip, 0)}
  /\ UNCHANGED <<now, config, access, store, firewall, after, timers, probe, job>>

(* ClearLogsJob.Run truncates the limit log, copies the ban log to the     *)
(* older one, whose lines go, and truncates it; a line written in between  *)
(* goes too.                                                               *)
RotateLimit ==
  /\ rotation = "idle" /\ rotation' = "copy"
  /\ Use("rotations")
  /\ logs' = [logs EXCEPT !.limit = Absent]
  /\ UNCHANGED <<now, config, access, store, rules, orphans, callers, buttons, probe, job>>

RotateCopy ==
  /\ rotation = "copy" /\ rotation' = "truncate"
  /\ logs' = [logs EXCEPT !.prev = logs.banned]
  /\ orphans' = orphans \cup {ip \in rules \ Unsaid : logs.banned[ip].at = 0}
  /\ UNCHANGED <<now, config, access, store, rules, callers, buttons, probe, job, left>>

RotateTruncate ==
  /\ rotation = "truncate" /\ rotation' = "idle"
  /\ logs' = [logs EXCEPT !.banned = NoEvents]
  /\ orphans' = orphans \cup {ip \in rules \ Unsaid : logs.banned[ip] # logs.prev[ip]}
  /\ UNCHANGED <<now, config, access, store, rules, callers, buttons, probe, job, left>>

(* Xray accepts a connection.  A rule does not keep an IP from it: rules   *)
(* are for TCP only.                                                       *)
Connect(ip) ==
  /\ access[ip] # now
  /\ access' = [access EXCEPT ![ip] = now]
  /\ UNCHANGED <<now, config, store, firewall, callers, buttons, probe, job, left>>

(* The next period: timers are not late by one, and each has its scan.     *)
(* (From MaxTime on the periods go on and the clock does not.)             *)
Tick ==
  /\ job = Done
  /\ \A t \in timers : t.at > now
  /\ now' = IF now < MaxTime THEN now + 1 ELSE now
  /\ job' = Due
  /\ UNCHANGED <<config, access, store, firewall, callers, buttons, probe, left>>

(* The panel stops, wherever its scan, its calls and its rotation are, and *)
(* starts again: rules stay whose line was still to come.                  *)
Restart ==
  /\ Use("restarts")
  /\ marks' = Absent /\ timers' = {}
  /\ probe' = None /\ job' = Due
  /\ calls' = {} /\ after' = {} /\ rotation' = "idle"
  /\ orphans' = orphans \cup (rules \cap Unsaid)
  /\ UNCHANGED <<now, config, access, store, rules, logs>>

----------------------------------------------------------------------------
Job == JobSync \/ JobNothing \/ JobFirst \/ JobUnlimited \/ JobPending
       \/ JobTakeover \/ JobStrict \/ JobEnforce \/ JobChoose \/ JobSave
Rotate == RotateCopy \/ RotateTruncate
Then(who) == \E a \in after : a.who = who /\ (ClearRow(a) \/ Grant(a))
Timer(press) == \E t \in timers : t.press = press /\ TimerFires(t)

Next == \/ JobSync \/ JobNothing \/ JobFirst \/ JobUnlimited \/ JobPending
        \/ JobTakeover \/ JobStrict \/ JobEnforce \/ JobChoose \/ JobSave
        \/ \E who \in Whos : Call(who)
        \/ ClearAccessLog
        \/ \E n \in Limits : SetLimit(n)
        \/ SwitchOff \/ SwitchOn \/ ClearClientIps
        \/ \E ip \in IPs, h \in UnbanFor : TemporaryUnban(ip, h)
        \/ \E a \in after : ClearRow(a) \/ Grant(a)
        \/ \E t \in timers : TimerFires(t)
        \/ \E ip \in IPs : ManualBan(ip) \/ IncrementLimit(ip)
        \/ RotateLimit \/ RotateCopy \/ RotateTruncate
        \/ \E ip \in IPs : Connect(ip)
        \/ Tick \/ Restart

Spec == Init /\ [][Next]_vars
(* Scans run every 10 s; goroutines that have begun go on. *)
FairSpec == /\ Spec /\ WF_vars(Job) /\ WF_vars(Tick) /\ WF_vars(Rotate)
            /\ \A who \in Whos : WF_vars(Call(who)) /\ WF_vars(Then(who))
            /\ \A press \in 1 .. MaxButtons : WF_vars(Timer(press))

----------------------------------------------------------------------------
Times == 0 .. MaxTime
Tracks == [IPs -> Times]
Lines == [IPs -> [action : {"BAN", "UNBAN"}, at : Times]]
Calls == [who : Whos, ip : IPs, action : {"BAN", "UNBAN"}, step : {"limit", "rule", "line"}, at : Times]
Afters == [who : {"config"} \X (1 .. MaxConfig), ip : {None}, hours : {0}]
          \cup [who : {"buttons"} \X (1 .. MaxButtons), ip : IPs, hours : UnbanFor]
Jobs == [step : {"due", "scan", "done"}]
        \cup [step : {"enforce", "choose"}, limit : Limits \ {0}, ips : Tracks, winner : IPs \cup {None},
              live : SUBSET IPs, protected : SUBSET IPs]
        \cup [step : {"save"}, ips : Tracks, clear : BOOLEAN]

TypeOK ==
  /\ now \in 1 .. MaxTime /\ limit \in Limits /\ on \in BOOLEAN
  /\ access \in Tracks /\ row \in BOOLEAN /\ kept \in Tracks
  /\ rules \subseteq IPs /\ orphans \subseteq IPs
  /\ logs \in [limit : Tracks, banned : Lines, prev : Lines]
  /\ calls \subseteq Calls /\ after \subseteq Afters
  /\ rotation \in {"idle", "copy", "truncate"}
  /\ marks \in [IPs -> Nat] /\ timers \subseteq [press : 1 .. MaxButtons, ip : IPs, at : Nat]
  /\ probe = None \/ probe \in [pair : [incumbent : IPs, candidate : IPs], at : Times]
  /\ left \in [Bounds -> Nat] /\ \A b \in Bounds : left[b] <= Bound(b)
  /\ job \in Jobs

(* The last lines about an IP: a log without one does not ban, and lines   *)
(* that were copied to the older log are not younger.                      *)
LineInv(ip) ==
  /\ logs.banned[ip].at <= now /\ logs.prev[ip].at <= now
  /\ logs.banned[ip].at = 0 => logs.banned[ip].action = "UNBAN"
  /\ logs.prev[ip].at = 0 => logs.prev[ip].action = "UNBAN"
  /\ logs.banned[ip].at > 0 => logs.prev[ip].at <= logs.banned[ip].at

(* The last line about a rule that is no orphan is a ban, or will be; no   *)
(* line of a lifting is still to come.                                     *)
RuleInv(ip) ==
  /\ \A c \in calls : LineDue(c) /\ c.ip = ip => c.action = "BAN"
  /\ \/ \E c \in calls : LineDue(c) /\ c.ip = ip
     \/ logs.banned[ip].action = "BAN"
     \/ logs.banned[ip].at = 0 /\ logs.prev[ip].action = "BAN"

LogInv == /\ \A ip \in IPs : LineInv(ip)
          /\ \A ip \in rules \ orphans : RuleInv(ip)

IInv == TypeOK /\ LogInv

(* A rule in the firewall is a ban in the replay of the logs, so whoever   *)
(* lifts the bans finds it, whichever scan, button, timer or rotation of   *)
(* the logs came when; but for a rule whose line is just to be written,    *)
(* and for the orphans: rules inserted while the line of an earlier        *)
(* lifting was still to come, and rules whose line was lost in a rotation  *)
(* or at a restart.                                                        *)
RuleIsLogged == rules \subseteq Banned(logs) \cup Unsaid \cup orphans

(* When a scan has chosen whom to ban, no more of the IPs it saw are left  *)
(* alone than the limit it read, but for those let through for a while and *)
(* those that the logs call banned.                                        *)
AtMostLimit ==
  [][JobChoose =>
       Cardinality({ip \in job.live : /\ ~Marked(ip) /\ ip \notin Banned(logs)
                                      /\ \A c \in calls' : c.who = Scan => c.ip # ip}) <= job.limit]_vars

(* Once there is no limit to enforce any more, every ban goes, those too   *)
(* that a scan with the old limit in hand or a late timer still sets, but  *)
(* for the orphans, which no replay knows.                                 *)
BansEnd == <>[](EffectiveLimit = 0 /\ row) => <>[](rules \subseteq orphans)

(* README.md:163: a limit of 0 lifts the client's bans at once.  Not what  *)
(* the code does: an orphan stays, and so does a ban still being set.      *)
ReleasedAtZero == [][SetLimit(0) => \A ip \in rules : \E c \in calls' : c.ip = ip /\ c.action = "UNBAN"]_vars

(* README.md:166: with a limit of 1 the newcomer is cut off, and not the   *)
(* IP whose traffic has just kept it its place.  Not what the code does:   *)
(* the incumbent may be the newest of the two.                             *)
WinnerIsKept ==
  [][JobChoose /\ job.winner # None => \A c \in calls' \ calls : c.ip # job.winner]_vars
============================================================================
