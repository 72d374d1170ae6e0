--------------------------- MODULE IpLimitProofs ---------------------------
(***************************************************************************)
(* What holds of IpLimit for any IPs, limits, periods and bounds.  LogInv  *)
(* says why a replay of the logs finds a rule: its IP's newest line is a   *)
(* BAN, or will be, because no line of a lifting is still to come (a rule  *)
(* inserted while one is becomes an orphan), and the lines that rotation   *)
(* copied to the other log are never younger.                              *)
(* AtMostLimit needs of a scan only that it protects no more IPs than its  *)
(* limit when it chooses whom to ban.                                      *)
(***************************************************************************)
EXTENDS IpLimit, FiniteSetTheorems, TLAPS

(* The parts of the invariant. *)
LogsTyped == logs \in [limit : Tracks, banned : Lines, prev : Lines]
FirewallOK == rules \subseteq IPs /\ orphans \subseteq IPs /\ LogsTyped /\ LogInv
CallsTyped == calls \subseteq Calls
ProbeTyped == probe = None \/ probe \in [pair : [incumbent : IPs, candidate : IPs], at : Times]
LeftTyped == left \in [Bounds -> Nat] /\ \A b \in Bounds : left[b] <= Bound(b)
ButtonsTyped == /\ marks \in [IPs -> Nat] /\ timers \subseteq [press : 1 .. MaxButtons, ip : IPs, at : Nat]
                /\ after \subseteq Afters
ClientTyped == /\ now \in 1 .. MaxTime /\ limit \in Limits /\ on \in BOOLEAN
               /\ access \in Tracks /\ row \in BOOLEAN /\ kept \in Tracks
               /\ rotation \in {"idle", "copy", "truncate"}

LEMMA Parts ==
  ASSUME FirewallOK', CallsTyped', ProbeTyped', LeftTyped', ButtonsTyped', ClientTyped', (job \in Jobs)'
  PROVE  IInv'
  BY DEF IInv, TypeOK, FirewallOK, LogsTyped, CallsTyped, ProbeTyped, LeftTyped, ButtonsTyped, ClientTyped

LEMMA Unfold ==
  ASSUME IInv
  PROVE  /\ FirewallOK /\ CallsTyped /\ ProbeTyped /\ LeftTyped /\ ButtonsTyped /\ ClientTyped /\ job \in Jobs
         /\ now \in Times /\ now \in Nat /\ now > 0 /\ 0 \in Times /\ Absent \in Tracks
  BY LimitAssumption DEF IInv, TypeOK, FirewallOK, LogsTyped, CallsTyped, ProbeTyped, LeftTyped,
     ButtonsTyped, ClientTyped, Times, Absent, Tracks

LEMMA LaterTimes ==
  ASSUME NEW s \in Times, NEW t \in Times
  PROVE  Later(s, t) \in Times
  BY DEF Later

----------------------------------------------------------------------------
(* The firewall and its logs. *)

(* A step that changes neither rules nor logs and begins or ends no call   *)
(* whose line is due.                                                      *)
LEMMA SameFirewall ==
  ASSUME IInv, UNCHANGED <<rules, logs, orphans>>, now' \in Nat, now' >= now,
         \A c : c \in calls' /\ LineDue(c) <=> c \in calls /\ LineDue(c)
  PROVE  FirewallOK'
<1>1. FirewallOK /\ now \in Nat
  BY Unfold
<1>2. \A ip \in IPs : LineInv(ip)'
  <2> SUFFICES ASSUME NEW ip \in IPs PROVE LineInv(ip)'
    OBVIOUS
  <2>1. logs.banned[ip].at \in Nat /\ logs.prev[ip].at \in Nat /\ LineInv(ip)
    BY <1>1 DEF FirewallOK, LogInv, LogsTyped, Lines, Times
  <2> QED BY <1>1, <2>1 DEF LineInv
<1>3. ASSUME NEW ip \in rules' \ orphans' PROVE RuleInv(ip)'
  <2>1. RuleInv(ip) /\ logs' = logs
    BY <1>1 DEF FirewallOK, LogInv
  <2>2. \A c \in calls' : LineDue(c) => c \in calls
    OBVIOUS
  <2>3. \A c \in calls : LineDue(c) => c \in calls'
    OBVIOUS
  <2> QED BY <2>1, <2>2, <2>3 DEF RuleInv, LineDue
<1> QED BY <1>1, <1>2, <1>3 DEF FirewallOK, LogInv, LogsTyped

(* Calls that a caller adds are at their first step. *)
LEMMA CallsAdded ==
  ASSUME IInv, UNCHANGED <<now, rules, logs, orphans>>,
         NEW X \in SUBSET Calls, calls' = calls \cup X, \A c \in X : c.step # "line"
  PROVE  FirewallOK' /\ CallsTyped'
<1>1. \A c : c \in calls' /\ LineDue(c) <=> c \in calls /\ LineDue(c)
  BY DEF LineDue
<1>2. now' \in Nat /\ now' >= now /\ calls \subseteq Calls
  BY Unfold DEF CallsTyped
<1>3. FirewallOK'
  BY <1>1, <1>2, SameFirewall
<1> QED BY <1>2, <1>3 DEF CallsTyped

LEMMA NoneAdded ==
  ASSUME IInv, UNCHANGED <<now, rules, logs, orphans, calls>>
  PROVE  FirewallOK' /\ CallsTyped'
<1>1. {} \in SUBSET Calls /\ calls' = calls \cup {}
  OBVIOUS
<1> QED BY <1>1, CallsAdded

LEMMA LiftingsTyped ==
  ASSUME NEW who \in Whos, NEW S \in SUBSET IPs
  PROVE  Liftings(who, S) \in SUBSET Calls /\ \A c \in Liftings(who, S) : c.step # "line"
  BY LimitAssumption DEF Liftings, Calls, Times

LEMMA BanningTyped ==
  ASSUME NEW who \in Whos, NEW ip \in IPs, NEW at \in Times
  PROVE  Banning(who, ip, at) \in Calls /\ Banning(who, ip, at).step # "line"
  BY DEF Banning, Calls

LEMMA BannedTyped == Banned(logs) \in SUBSET IPs
  BY DEF Banned

LEMMA ReleasedTyped ==
  ASSUME NEW n, NEW t, NEW S \in Released(n, t, logs)
  PROVE  S \in SUBSET IPs
  BY BannedTyped DEF Released

LEMMA ScanIsWho == Scan \in Whos
  BY DEF Whos

LEMMA MeIsWho ==
  ASSUME IInv, NEW b \in {"config", "buttons"}, Use(b)
  PROVE  /\ Me(b) \in Whos /\ left[b] \in 1 .. Bound(b)
         /\ b = "config" => Me(b) \in {"config"} \X (1 .. MaxConfig)
         /\ b = "buttons" => Me(b) \in {"buttons"} \X (1 .. MaxButtons)
<1>1. left[b] \in Nat /\ left[b] <= Bound(b) /\ left[b] > 0
  BY Unfold DEF LeftTyped, Bounds, Use
<1>2. b = "config" => Bound(b) = MaxConfig
  BY DEF Bound
<1>3. b = "buttons" => Bound(b) = MaxButtons
  BY DEF Bound
<1>4. left[b] \in 1 .. Bound(b)
  BY <1>1, <1>2, <1>3, LimitAssumption
<1> QED BY <1>2, <1>3, <1>4 DEF Me, Whos

(* Someone's liftings of some bans. *)
LEMMA LiftingsKeep ==
  ASSUME IInv, UNCHANGED <<now, rules, logs, orphans>>, NEW who \in Whos, NEW S \in SUBSET IPs,
         calls' = calls \cup Liftings(who, S)
  PROVE  FirewallOK' /\ CallsTyped'
<1>1. Liftings(who, S) \in SUBSET Calls /\ \A c \in Liftings(who, S) : c.step # "line"
  BY LiftingsTyped
<1> QED BY <1>1, CallsAdded

(* A line of the ban log dated now. *)
LEMMA BanLogTyped ==
  ASSUME LogsTyped, NEW ip \in IPs, NEW action \in {"BAN", "UNBAN"}, now \in Times
  PROVE  LET l == WithBanLog(logs, ip, action)
         IN /\ l \in [limit : Tracks, banned : Lines, prev : Lines]
            /\ l.prev = logs.prev
            /\ l.banned = [logs.banned EXCEPT ![ip] = Event(action, now)]
<1>1. [logs.banned EXCEPT ![ip] = Event(action, now)] \in Lines
  BY DEF LogsTyped, Lines, Event
<1> QED BY <1>1 DEF WithBanLog, LogsTyped

LEMMA LimitLogTyped ==
  ASSUME LogsTyped, NEW ip \in IPs, NEW at \in Times
  PROVE  LET l == WithLimitLog(logs, ip, at)
         IN /\ l \in [limit : Tracks, banned : Lines, prev : Lines]
            /\ l.prev = logs.prev /\ l.banned = logs.banned
<1>1. logs.limit \in Tracks
  BY DEF LogsTyped
<1>2. [logs.limit EXCEPT ![ip] = Later(@, at)] \in Tracks
  BY <1>1, LaterTimes DEF Tracks
<1> QED BY <1>2 DEF WithLimitLog, LogsTyped

LEMMA AdvanceTyped ==
  ASSUME IInv, NEW c \in calls, NEW step \in {"limit", "rule", "line"}, Advance(c, step)
  PROVE  /\ CallsTyped'
         /\ \A d : d \in calls' /\ LineDue(d) =>
              d \in calls \/ (step = "line" /\ d.ip = c.ip /\ d.action = c.action)
         /\ \A d \in calls : d # c => d \in calls'
         /\ step = "line" => \E d \in calls' : LineDue(d) /\ d.ip = c.ip
<1> DEFINE e == [c EXCEPT !.step = step]
<1>1. c \in Calls /\ calls \subseteq Calls
  BY Unfold DEF CallsTyped
<1>2. e \in Calls /\ e.ip = c.ip /\ e.action = c.action /\ e.step = step
  BY <1>1 DEF Calls
<1>3. calls' = (calls \ {c}) \cup {e}
  BY DEF Advance
<1> HIDE DEF e
<1> QED BY <1>1, <1>2, <1>3 DEF CallsTyped, LineDue

(* The line written first. *)
LEMMA LimitKeeps ==
  ASSUME IInv, NEW c \in calls, CallLimit(c), now' = now
  PROVE  FirewallOK' /\ CallsTyped'
<1>1. /\ FirewallOK /\ LogsTyped /\ now \in Nat /\ now \in Times /\ c \in Calls
      /\ c.ip \in IPs /\ c.at \in Times /\ c.step = "limit"
  BY Unfold DEF FirewallOK, CallsTyped, Calls, CallLimit
<1>2. logs' = WithLimitLog(logs, c.ip, IF c.at = 0 THEN now ELSE c.at) /\ Advance(c, "rule")
  BY DEF CallLimit
<1>3. LogsTyped' /\ logs'.prev = logs.prev /\ logs'.banned = logs.banned
  BY <1>1, <1>2, LimitLogTyped DEF LogsTyped
<1>4. CallsTyped' /\ \A d : d \in calls' /\ LineDue(d) <=> d \in calls /\ LineDue(d)
  <2>1. /\ CallsTyped' /\ \A d : d \in calls' /\ LineDue(d) => d \in calls
        /\ \A d \in calls : d # c => d \in calls'
    BY <1>2, AdvanceTyped
  <2>2. ~LineDue(c)
    BY <1>1 DEF LineDue
  <2> QED BY <2>1, <2>2
<1>5. \A ip \in IPs : LineInv(ip)'
  BY <1>1, <1>3 DEF FirewallOK, LogInv, LineInv
<1>6. ASSUME NEW ip \in rules' \ orphans' PROVE RuleInv(ip)'
  <2>1. RuleInv(ip)
    BY <1>1 DEF CallLimit, FirewallOK, LogInv
  <2> QED BY <1>3, <1>4, <2>1 DEF RuleInv, LineDue
<1> QED BY <1>1, <1>3, <1>4, <1>5, <1>6 DEF FirewallOK, LogInv, CallLimit

(* Removing a rule, or inserting one: its line is due. *)
LEMMA RuleChangeKeeps ==
  ASSUME IInv, NEW c \in calls, CallUnban(c) \/ CallBan(c), now' = now
  PROVE  FirewallOK' /\ CallsTyped'
<1>1. FirewallOK /\ c \in Calls /\ c.ip \in IPs /\ logs' = logs /\ Advance(c, "line") /\ c.step = "rule"
  BY Unfold DEF CallsTyped, Calls, CallUnban, CallBan
<1>2. /\ CallsTyped'
      /\ \A d : d \in calls' /\ LineDue(d) => d \in calls \/ (d.ip = c.ip /\ d.action = c.action)
      /\ \A d \in calls : d # c => d \in calls'
      /\ \E d \in calls' : LineDue(d) /\ d.ip = c.ip
  BY <1>1, AdvanceTyped
<1>3. ~LineDue(c)
  BY <1>1 DEF LineDue
<1>4. rules' \subseteq IPs /\ orphans' \subseteq IPs
  BY <1>1 DEF FirewallOK, CallUnban, CallBan
<1>5. \A ip \in IPs : LineInv(ip)'
  BY <1>1 DEF FirewallOK, LogInv, LineInv
<1>6. ASSUME NEW ip \in rules' \ orphans' PROVE RuleInv(ip)'
  <2>1. CASE ip # c.ip
    <3>1. ip \in rules \ orphans
      BY <1>6, <2>1 DEF CallUnban, CallBan
    <3>2. RuleInv(ip)
      BY <1>1, <3>1 DEF FirewallOK, LogInv
    <3> QED BY <1>1, <1>2, <1>3, <2>1, <3>2 DEF RuleInv, LineDue
  <2>2. CASE ip = c.ip
    <3>1. CallBan(c) /\ c.action = "BAN"
      BY <1>6, <2>2 DEF CallUnban, CallBan
    <3>2. ~\E d \in calls : LineDue(d) /\ d.action = "UNBAN" /\ d.ip = c.ip
      BY <1>6, <2>2, <3>1 DEF CallBan
    <3>3. \A d \in calls : d.action \in {"BAN", "UNBAN"}
      BY Unfold DEF CallsTyped, Calls
    <3>4. \A d \in calls' : LineDue(d) /\ d.ip = ip => d.action = "BAN"
      BY <1>2, <2>2, <3>1, <3>2, <3>3
    <3> QED BY <1>2, <2>2, <3>4 DEF RuleInv, LineDue
  <2> QED BY <2>1, <2>2
<1> QED BY <1>1, <1>2, <1>4, <1>5, <1>6 DEF FirewallOK, LogInv, LogsTyped

(* The line that ends a call. *)
LEMMA LineKeeps ==
  ASSUME IInv, NEW c \in calls, CallLine(c), now' = now
  PROVE  FirewallOK' /\ CallsTyped'
<1>1. /\ FirewallOK /\ LogsTyped /\ now \in Nat /\ now > 0 /\ now \in Times /\ c \in Calls
      /\ c.ip \in IPs /\ c.action \in {"BAN", "UNBAN"} /\ LineDue(c) /\ calls \subseteq Calls
  BY Unfold DEF FirewallOK, CallsTyped, Calls, CallLine
<1>2. logs' = WithBanLog(logs, c.ip, c.action) /\ calls' = calls \ {c} /\ rules' = rules /\ orphans' = orphans
  BY DEF CallLine
<1>3. LogsTyped' /\ logs'.prev = logs.prev /\ logs'.banned = [logs.banned EXCEPT ![c.ip] = Event(c.action, now)]
  BY <1>1, <1>2, BanLogTyped DEF LogsTyped
<1>4. /\ logs'.banned[c.ip].at = now /\ logs'.banned[c.ip].action = c.action
      /\ \A ip \in IPs : ip # c.ip => logs'.banned[ip] = logs.banned[ip]
  BY <1>1, <1>3 DEF LogsTyped, Lines, Event
<1>5. \A ip \in IPs : LineInv(ip)'
  BY <1>1, <1>3, <1>4 DEF FirewallOK, LogInv, LineInv, LogsTyped, Lines, Times
<1>6. ASSUME NEW ip \in rules' \ orphans' PROVE RuleInv(ip)'
  <2>1. RuleInv(ip) /\ ip \in IPs
    BY <1>1, <1>2 DEF FirewallOK, LogInv
  <2>2. CASE ip # c.ip
    BY <1>2, <1>3, <1>4, <2>1, <2>2 DEF RuleInv, LineDue
  <2>3. CASE ip = c.ip
    <3>1. c.action = "BAN"
      BY <1>1, <2>1, <2>3 DEF RuleInv
    <3> QED BY <1>2, <1>4, <2>1, <2>3, <3>1 DEF RuleInv, LineDue
  <2> QED BY <2>2, <2>3
<1> QED BY <1>1, <1>2, <1>3, <1>5, <1>6 DEF FirewallOK, LogInv, CallsTyped

(* The IPs whose line is still to come. *)
LEMMA IsUnsaid == \A ip : ip \in Unsaid <=> \E c \in calls : LineDue(c) /\ c.ip = ip
BY DEF Unsaid

(* Rotation copies the lines of the ban log to the other one and then      *)
(* drops them; a rule whose line is in neither, and is not to come,        *)
(* becomes an orphan.                                                      *)
LEMMA RotateKeeps ==
  ASSUME IInv, RotateLimit \/ RotateCopy \/ RotateTruncate
  PROVE  FirewallOK'
<1>1. FirewallOK /\ LogsTyped /\ now' = now /\ rules' = rules /\ calls' = calls /\ orphans \subseteq orphans'
  BY Unfold DEF FirewallOK, RotateLimit, RotateCopy, RotateTruncate, callers
<1>2. Absent \in Tracks /\ NoEvents \in Lines /\ \A ip \in IPs : NoEvents[ip] = Event("UNBAN", 0)
  BY LimitAssumption DEF Absent, NoEvents, Event, Tracks, Lines, Times
<1>3. LogsTyped'
  BY <1>1, <1>2 DEF LogsTyped, RotateLimit, RotateCopy, RotateTruncate
<1>4. \A ip \in IPs : LineInv(ip) /\ logs.banned[ip].at \in Nat /\ logs.prev[ip].at \in Nat /\ now \in Nat
  BY <1>1, Unfold DEF FirewallOK, LogInv, LogsTyped, Lines, Times
<1>5. CASE RotateLimit
  <2>1. logs'.banned = logs.banned /\ logs'.prev = logs.prev /\ orphans' = orphans
    BY <1>1, <1>5 DEF RotateLimit, LogsTyped
  <2>2. \A ip \in IPs : LineInv(ip)'
    BY <1>1, <1>4, <2>1 DEF LineInv
  <2>3. \A ip \in rules' \ orphans' : RuleInv(ip)'
    BY <1>1, <2>1 DEF FirewallOK, LogInv, RuleInv, LineDue
  <2> QED BY <1>1, <1>3, <2>1, <2>2, <2>3 DEF FirewallOK, LogInv
<1>6. CASE RotateCopy
  <2>1. /\ logs'.banned = logs.banned /\ logs'.prev = logs.banned
        /\ orphans' = orphans \cup {ip \in rules \ Unsaid : logs.banned[ip].at = 0}
    BY <1>1, <1>6 DEF RotateCopy, LogsTyped
  <2>2. \A ip \in IPs : LineInv(ip)'
    BY <1>1, <1>4, <2>1 DEF LineInv
  <2>3. \A ip \in rules' \ orphans' : RuleInv(ip)'
    BY <1>1, <2>1, IsUnsaid DEF FirewallOK, LogInv, RuleInv, LineDue
  <2> QED BY <1>1, <1>3, <2>1, <2>2, <2>3 DEF FirewallOK, LogInv
<1>7. CASE RotateTruncate
  <2>1. /\ logs'.banned = NoEvents /\ logs'.prev = logs.prev
        /\ orphans' = orphans \cup {ip \in rules \ Unsaid : logs.banned[ip] # logs.prev[ip]}
    BY <1>1, <1>7 DEF RotateTruncate, LogsTyped
  <2>2. \A ip \in IPs : LineInv(ip)'
    BY <1>1, <1>2, <1>4, <2>1 DEF LineInv, Event
  <2>3. ASSUME NEW ip \in rules' \ orphans' PROVE RuleInv(ip)'
    <3>1. RuleInv(ip) /\ ip \in IPs /\ (ip \in Unsaid \/ logs.banned[ip] = logs.prev[ip])
      BY <1>1, <2>1 DEF FirewallOK, LogInv
    <3>2. logs'.banned[ip].at = 0 /\ logs'.prev[ip] = logs.prev[ip]
      BY <1>2, <2>1, <3>1 DEF Event
    <3>3. CASE ip \in Unsaid
      BY <1>1, <3>1, <3>3, IsUnsaid DEF RuleInv, LineDue
    <3>4. CASE logs.banned[ip] = logs.prev[ip]
      BY <1>1, <3>1, <3>2, <3>4 DEF RuleInv, LineDue
    <3> QED BY <3>1, <3>3, <3>4
  <2> QED BY <1>1, <1>3, <2>1, <2>2, <2>3 DEF FirewallOK, LogInv
<1> QED BY <1>5, <1>6, <1>7

(* A restart drops the lines that were due. *)
LEMMA RestartKeeps ==
  ASSUME IInv, Restart
  PROVE  FirewallOK' /\ CallsTyped'
<1>1. /\ FirewallOK /\ now' = now /\ rules' = rules /\ logs' = logs /\ calls' = {}
      /\ orphans' = orphans \cup (rules \cap Unsaid)
  BY Unfold DEF Restart
<1>2. \A ip \in IPs : LineInv(ip)'
  BY <1>1 DEF FirewallOK, LogInv, LineInv
<1>3. ASSUME NEW ip \in rules' \ orphans' PROVE RuleInv(ip)'
  <2>1. RuleInv(ip) /\ ~\E c \in calls : LineDue(c) /\ c.ip = ip
    BY <1>1, IsUnsaid DEF FirewallOK, LogInv
  <2> QED BY <1>1, <2>1 DEF RuleInv
<1> QED BY <1>1, <1>2, <1>3 DEF FirewallOK, LogInv, LogsTyped, CallsTyped

----------------------------------------------------------------------------
(* Typing. *)

LEMMA BoundTyped == \A b \in Bounds : Bound(b) \in Nat
<1>1. /\ Bound("config") = MaxConfig /\ Bound("buttons") = MaxButtons /\ Bound("rotations") = MaxRotations
      /\ Bound("faults") = MaxFaults /\ Bound("restarts") = MaxRestarts /\ Bound("events") = MaxEvents
  BY DEF Bound
<1> QED BY <1>1, LimitAssumption DEF Bounds

LEMMA UseTyped ==
  ASSUME IInv, NEW b \in {"config", "buttons", "rotations", "faults", "restarts"}, Use(b)
  PROVE  LeftTyped'
<1>1. LeftTyped /\ Cost(b) \in {1, 2} /\ b \in Bounds /\ "events" \in Bounds /\ b # "events"
  BY Unfold DEF Cost, Bounds
<1>2. left[b] \in Nat /\ left["events"] \in Nat /\ left[b] > 0 /\ left["events"] >= Cost(b)
  BY <1>1 DEF LeftTyped, Use
<1>3. left' = [left EXCEPT ![b] = @ - 1, !["events"] = @ - Cost(b)]
  BY DEF Use
<1>4. left' \in [Bounds -> Nat] /\ \A a \in Bounds : left'[a] <= left[a]
  BY <1>1, <1>2, <1>3 DEF LeftTyped
<1>5. \A a \in Bounds : left'[a] <= Bound(a)
  BY <1>1, <1>4, BoundTyped DEF LeftTyped
<1> QED BY <1>4, <1>5 DEF LeftTyped

LEMMA SameLeft ==
  ASSUME IInv, UNCHANGED left
  PROVE  LeftTyped'
  BY Unfold DEF LeftTyped

LEMMA SameButtons ==
  ASSUME IInv, UNCHANGED <<marks, timers, after>>
  PROVE  ButtonsTyped'
  BY Unfold DEF ButtonsTyped

LEMMA SameProbe ==
  ASSUME IInv, probe' \in {None, probe}
  PROVE  ProbeTyped'
  BY Unfold DEF ProbeTyped

LEMMA SameJob ==
  ASSUME IInv, UNCHANGED job
  PROVE  (job \in Jobs)'
  BY Unfold

LEMMA JobDone ==
  ASSUME job' \in {Done, Due, [step |-> "scan"]}
  PROVE  (job \in Jobs)'
  BY DEF Jobs, Done, Due, Tracks, Times

LEMMA SavedTyped ==
  ASSUME NEW ips \in Tracks, NEW clear \in BOOLEAN
  PROVE  ToSave(ips, clear) \in Jobs
  BY DEF ToSave, Jobs

LEMMA KeepTyped ==
  ASSUME NEW f \in Tracks, NEW S
  PROVE  Keep(f, S) \in Tracks
  BY LimitAssumption DEF Keep, Tracks, Times

LEMMA MergedTyped ==
  ASSUME IInv
  PROVE  Merged \in Tracks
<1> DEFINE fresh(t) == IF t + StaleAfter < now THEN 0 ELSE t
<1>1. \A t \in Times : fresh(t) \in Times
  BY LimitAssumption DEF Times
<1>2. \A ip \in IPs : fresh(kept[ip]) \in Times /\ fresh(access[ip]) \in Times
  BY <1>1 DEF IInv, TypeOK, Tracks
<1> HIDE DEF fresh
<1>3. [ip \in IPs |-> Later(fresh(kept[ip]), fresh(access[ip]))] \in Tracks
  BY <1>2, LaterTimes DEF Tracks
<1>4. Merged = [ip \in IPs |-> Later(fresh(kept[ip]), fresh(access[ip]))]
  BY Zenon DEF Merged, fresh
<1> QED BY <1>3, <1>4

(* What the scan found is typed, whichever way it ends. *)
LEMMA SelectTyped ==
  ASSUME IInv, NEW winner \in IPs \cup {None}, Select(winner), limit # 0
  PROVE  (job \in Jobs)'
<1>1. PICK protected \in Oldest(Merged, limit) :
        job' = [step |-> "enforce", limit |-> limit, ips |-> Merged, winner |-> winner,
                live |-> Present(access) \cap Present(Merged), protected |-> protected]
  BY DEF Select
<1>2. protected \subseteq IPs /\ Present(access) \cap Present(Merged) \subseteq IPs
  BY DEF Oldest, Present
<1>3. limit \in Limits \ {0} /\ Merged \in Tracks
  BY MergedTyped DEF IInv, TypeOK
<1> QED BY <1>1, <1>2, <1>3 DEF Jobs

(* A scan that has chosen whom to protect. *)
LEMMA Enforcing ==
  ASSUME IInv, job.step \in {"enforce", "choose"}
  PROVE  job \in [step : {"enforce", "choose"}, limit : Limits \ {0}, ips : Tracks,
                  winner : IPs \cup {None}, live : SUBSET IPs, protected : SUBSET IPs]
  BY Unfold DEF Jobs

----------------------------------------------------------------------------
(* The scan. *)

(* What a step of a scan keeps if it changes neither the firewall nor the  *)
(* buttons nor time.                                                       *)
LEMMA ScanParts ==
  ASSUME IInv, UNCHANGED <<now, config, firewall, after, buttons>>
  PROVE  ButtonsTyped' /\ UNCHANGED <<now, limit, on, rules, logs, orphans, rotation>>
  BY SameButtons DEF config, firewall, buttons

LEMMA JobSyncPreserves ==
  ASSUME IInv, JobSync
  PROVE  IInv'
<1>1. ButtonsTyped' /\ UNCHANGED <<now, limit, on, rules, logs, orphans, rotation>>
  BY ScanParts DEF JobSync
<1>2. FirewallOK' /\ CallsTyped'
  <2>1. CASE UNCHANGED calls
    BY <1>1, <2>1, NoneAdded
  <2>2. CASE SyncByEmail(Scan)
    BY <1>1, <2>2, LiftingsKeep, ReleasedTyped, ScanIsWho DEF SyncByEmail
  <2> QED BY <2>1, <2>2 DEF JobSync
<1>3. (job \in Jobs)' /\ ProbeTyped' /\ LeftTyped'
  BY JobDone, SameProbe, SameLeft DEF JobSync, CleanupProbes
<1>4. ClientTyped'
  BY <1>1, Unfold DEF ClientTyped, JobSync, store
<1> QED BY <1>1, <1>2, <1>3, <1>4, Parts

LEMMA JobFirstPreserves ==
  ASSUME IInv, JobNothing \/ JobFirst
  PROVE  IInv'
<1>1. ButtonsTyped' /\ UNCHANGED <<now, limit, on, rules, logs, orphans, rotation>>
  BY ScanParts DEF JobNothing, JobFirst, callers
<1>2. FirewallOK' /\ CallsTyped'
  BY <1>1, NoneAdded DEF JobNothing, JobFirst, callers
<1>3. (job \in Jobs)' /\ ProbeTyped' /\ LeftTyped'
  BY JobDone, SameProbe, SameLeft DEF JobNothing, JobFirst
<1>4. ClientTyped'
  BY <1>1, Unfold DEF ClientTyped, JobNothing, JobFirst, store
<1> QED BY <1>1, <1>2, <1>3, <1>4, Parts

LEMMA JobUnlimitedPreserves ==
  ASSUME IInv, JobUnlimited
  PROVE  IInv'
<1>1. ButtonsTyped' /\ UNCHANGED <<now, limit, on, rules, logs, orphans, rotation>>
  BY ScanParts DEF JobUnlimited
<1>2. FirewallOK' /\ CallsTyped'
  BY <1>1, LiftingsKeep, BannedTyped, ScanIsWho DEF JobUnlimited
<1>3. ProbeTyped' /\ LeftTyped'
  BY SameProbe, SameLeft DEF JobUnlimited
<1>4. (job \in Jobs)'
  BY Unfold, SavedTyped DEF JobUnlimited, ClientTyped
<1>5. ClientTyped'
  BY <1>1, Unfold DEF ClientTyped, JobUnlimited, store
<1> QED BY <1>1, <1>2, <1>3, <1>4, <1>5, Parts

LEMMA JobPendingPreserves ==
  ASSUME IInv, JobPending
  PROVE  IInv'
<1>1. ButtonsTyped' /\ UNCHANGED <<now, limit, on, rules, logs, orphans, rotation>>
  BY ScanParts DEF JobPending, callers
<1>2. FirewallOK' /\ CallsTyped'
  BY <1>1, NoneAdded DEF JobPending, callers
<1>3. (job \in Jobs)' /\ LeftTyped'
  BY JobDone, SameLeft DEF JobPending, Sampling
<1>4. ProbeTyped'
  <2>1. PICK p \in Pairs : UNCHANGED probe \/ probe' = [pair |-> p, at |-> now]
    BY DEF JobPending, Sampling
  <2>2. p \in [incumbent : IPs, candidate : IPs] /\ now \in Times
    BY Unfold DEF Pairs
  <2> QED BY <2>1, <2>2, SameProbe DEF ProbeTyped
<1>5. ClientTyped'
  BY <1>1, Unfold DEF ClientTyped, JobPending, store
<1> QED BY <1>1, <1>2, <1>3, <1>4, <1>5, Parts

LEMMA JobTakeoverPreserves ==
  ASSUME IInv, JobTakeover
  PROVE  IInv'
<1>1. ButtonsTyped' /\ UNCHANGED <<now, limit, on, rules, logs, orphans, rotation>>
  BY ScanParts DEF JobTakeover
<1>2. PICK p \in Pairs : /\ calls' = calls \cup Liftings(Scan, {p.candidate} \cap Banned(logs))
                         /\ job' = ToSave(Keep(Merged, {p.candidate}), TRUE)
  BY DEF JobTakeover
<1>3. FirewallOK' /\ CallsTyped'
  <2>1. {p.candidate} \cap Banned(logs) \in SUBSET IPs
    BY BannedTyped
  <2> QED BY <1>1, <1>2, <2>1, LiftingsKeep, ScanIsWho
<1>4. (job \in Jobs)'
  BY <1>2, SavedTyped, KeepTyped, MergedTyped
<1>5. ProbeTyped' /\ LeftTyped'
  BY SameProbe, SameLeft DEF JobTakeover
<1>6. ClientTyped'
  BY <1>1, Unfold DEF ClientTyped, JobTakeover, store
<1> QED BY <1>1, <1>3, <1>4, <1>5, <1>6, Parts

LEMMA JobStrictPreserves ==
  ASSUME IInv, JobStrict
  PROVE  IInv'
<1>1. ButtonsTyped' /\ UNCHANGED <<now, limit, on, rules, logs, orphans, rotation>>
  BY ScanParts DEF JobStrict, callers
<1>2. FirewallOK' /\ CallsTyped'
  BY <1>1, NoneAdded DEF JobStrict, callers
<1>3. (job \in Jobs)'
  <2>1. limit # 0
    BY DEF JobStrict, EffectiveLimit
  <2>2. \E winner \in IPs \cup {None} : Select(winner)
    BY DEF JobStrict, Pairs
  <2> QED BY <2>1, <2>2, SelectTyped
<1>4. ProbeTyped' /\ LeftTyped'
  BY SameProbe, SameLeft, UseTyped DEF JobStrict
<1>5. ClientTyped'
  BY <1>1, Unfold DEF ClientTyped, JobStrict, store
<1> QED BY <1>1, <1>2, <1>3, <1>4, <1>5, Parts

LEMMA JobEnforcePreserves ==
  ASSUME IInv, JobEnforce
  PROVE  IInv'
<1>1. ButtonsTyped' /\ UNCHANGED <<now, limit, on, rules, logs, orphans, rotation>>
  BY ScanParts DEF JobEnforce
<1>2. FirewallOK' /\ CallsTyped'
  BY <1>1, LiftingsKeep, ReleasedTyped, ScanIsWho DEF JobEnforce
<1>3. (job \in Jobs)'
  <2>1. job \in [step : {"enforce", "choose"}, limit : Limits \ {0}, ips : Tracks,
                 winner : IPs \cup {None}, live : SUBSET IPs, protected : SUBSET IPs]
    BY Enforcing DEF JobEnforce, JobAt
  <2>2. job' = [job EXCEPT !.step = "choose"]
    BY DEF JobEnforce
  <2> QED BY <2>1, <2>2 DEF Jobs
<1>4. ProbeTyped' /\ LeftTyped'
  BY SameProbe, SameLeft DEF JobEnforce
<1>5. ClientTyped'
  BY <1>1, Unfold DEF ClientTyped, JobEnforce, store
<1> QED BY <1>1, <1>2, <1>3, <1>4, <1>5, Parts

LEMMA JobChoosePreserves ==
  ASSUME IInv, JobChoose
  PROVE  IInv'
<1>1. ButtonsTyped' /\ UNCHANGED <<now, limit, on, rules, logs, orphans, rotation>>
  BY ScanParts DEF JobChoose
<1>2. job.ips \in Tracks /\ job.live \subseteq IPs
  BY Enforcing DEF JobChoose, JobAt
<1> DEFINE excess == job.live \ job.protected
           spared == {ip \in excess : Marked(ip)}
           new == excess \ (spared \cup Banned(logs))
           bans == {Banning(Scan, ip, job.ips[ip]) : ip \in new}
<1>3. calls' = calls \cup bans
  BY DEF JobChoose
<1>4. job' = ToSave(Keep(job.ips, (Present(job.ips) \ excess) \cup spared), new # {})
  BY DEF JobChoose
<1>5. \A ip \in new : ip \in IPs /\ job.ips[ip] \in Times
  BY <1>2 DEF Tracks
<1>6. FirewallOK' /\ CallsTyped'
  <2>1. bans \in SUBSET Calls /\ \A c \in bans : c.step # "line"
    BY <1>5, BanningTyped, ScanIsWho
  <2> HIDE DEF bans
  <2> QED BY <1>1, <1>3, <2>1, CallsAdded
<1>7. (job \in Jobs)'
  <2> HIDE DEF new, excess, spared
  <2>1. Keep(job.ips, (Present(job.ips) \ excess) \cup spared) \in Tracks /\ (new # {}) \in BOOLEAN
    BY <1>2, KeepTyped
  <2> QED BY <1>4, <2>1, SavedTyped
<1>8. ProbeTyped' /\ LeftTyped'
  BY SameProbe, SameLeft DEF JobChoose
<1>9. ClientTyped'
  BY <1>1, Unfold DEF ClientTyped, JobChoose, store
<1> QED BY <1>1, <1>6, <1>7, <1>8, <1>9, Parts

LEMMA JobSavePreserves ==
  ASSUME IInv, JobSave
  PROVE  IInv'
<1>1. ButtonsTyped' /\ UNCHANGED <<now, limit, on, rules, logs, orphans, rotation>>
  BY ScanParts DEF JobSave, callers
<1>2. FirewallOK' /\ CallsTyped'
  BY <1>1, NoneAdded DEF JobSave, callers
<1>3. (job \in Jobs)' /\ ProbeTyped' /\ LeftTyped'
  BY JobDone, SameProbe, SameLeft DEF JobSave
<1>4. kept' \in Tracks /\ access' \in Tracks
  <2>1. job.ips \in Tracks
    BY Unfold DEF Jobs, JobSave, JobAt
  <2> QED BY <2>1, Unfold DEF JobSave, ClientTyped
<1>5. ClientTyped'
  BY <1>1, <1>4, Unfold DEF ClientTyped, JobSave
<1> QED BY <1>1, <1>2, <1>3, <1>5, Parts

LEMMA ClearAccessLogPreserves ==
  ASSUME IInv, ClearAccessLog
  PROVE  IInv'
<1>1. ButtonsTyped' /\ UNCHANGED <<now, limit, on, rules, logs, orphans, rotation>>
  BY ScanParts DEF ClearAccessLog, callers
<1>2. FirewallOK' /\ CallsTyped'
  BY <1>1, NoneAdded DEF ClearAccessLog, callers
<1>3. (job \in Jobs)' /\ ProbeTyped' /\ LeftTyped'
  BY SameJob, SameProbe, SameLeft DEF ClearAccessLog
<1>4. ClientTyped'
  BY <1>1, Unfold DEF ClientTyped, ClearAccessLog, store
<1> QED BY <1>1, <1>2, <1>3, <1>4, Parts

LEMMA CallPreserves ==
  ASSUME IInv, NEW who \in Whos, Call(who)
  PROVE  IInv'
<1>1. PICK c \in calls : CallLimit(c) \/ CallUnban(c) \/ CallBan(c) \/ CallRefused(c) \/ CallLine(c)
  BY DEF Call, Of
<1>2. now' = now /\ ButtonsTyped' /\ ProbeTyped' /\ (job \in Jobs)' /\ ClientTyped'
  <2>1. now' = now /\ ButtonsTyped' /\ ProbeTyped' /\ (job \in Jobs)'
    BY SameButtons, SameProbe, SameJob DEF Call, buttons
  <2> QED BY <2>1, Unfold DEF ClientTyped, Call, config, store
<1>3. LeftTyped'
  BY <1>1, SameLeft, UseTyped DEF CallLimit, CallUnban, CallBan, CallRefused, CallLine
<1>4. FirewallOK' /\ CallsTyped'
  <2>1. CASE CallRefused(c)
    <3>1. \A d : d \in calls' /\ LineDue(d) <=> d \in calls /\ LineDue(d)
      BY <2>1 DEF CallRefused, LineDue
    <3>2. now' \in Nat /\ now' >= now /\ UNCHANGED <<rules, logs, orphans>> /\ calls' \subseteq calls
      BY <1>2, <2>1, Unfold DEF CallRefused
    <3>3. FirewallOK'
      BY <3>1, <3>2, SameFirewall
    <3> QED BY <3>2, <3>3, Unfold DEF CallsTyped
  <2> QED BY <1>1, <1>2, <2>1, LimitKeeps, RuleChangeKeeps, LineKeeps
<1> QED BY <1>2, <1>3, <1>4, Parts

----------------------------------------------------------------------------
(* Administrators, the bot and the clock. *)

LEMMA ConfigPreserves ==
  ASSUME IInv, (\E n \in Limits : SetLimit(n)) \/ SwitchOff \/ SwitchOn
  PROVE  IInv'
<1>1. ButtonsTyped' /\ UNCHANGED <<now, rules, logs, orphans, rotation>>
  BY SameButtons DEF SetLimit, SwitchOff, SwitchOn, firewall, buttons, callers
<1>2. FirewallOK' /\ CallsTyped'
  <2>1. ASSUME NEW n \in Limits, SetLimit(n) PROVE FirewallOK' /\ CallsTyped'
    <3>1. PICK S \in Released(IF on THEN n ELSE 0, kept, logs) : calls' = calls \cup Liftings(Me("config"), S)
      BY <2>1 DEF SetLimit
    <3>2. S \in SUBSET IPs /\ Me("config") \in Whos
      BY <2>1, ReleasedTyped, MeIsWho DEF SetLimit
    <3> QED BY <1>1, <3>1, <3>2, LiftingsKeep
  <2>2. CASE SwitchOff
    <3>1. Me("config") \in Whos
      BY <2>2, MeIsWho DEF SwitchOff
    <3> QED BY <1>1, <2>2, <3>1, LiftingsKeep, BannedTyped DEF SwitchOff
  <2>3. CASE SwitchOn
    BY <1>1, <2>3, NoneAdded DEF SwitchOn, callers
  <2> QED BY <2>1, <2>2, <2>3
<1>3. (job \in Jobs)' /\ ProbeTyped' /\ LeftTyped'
  BY SameJob, SameProbe, UseTyped DEF SetLimit, SwitchOff, SwitchOn
<1>4. ClientTyped'
  BY <1>1, Unfold DEF ClientTyped, SetLimit, SwitchOff, SwitchOn, store
<1> QED BY <1>1, <1>2, <1>3, <1>4, Parts

LEMMA ClearClientIpsPreserves ==
  ASSUME IInv, ClearClientIps
  PROVE  IInv'
<1>1. UNCHANGED <<now, rules, logs, orphans, rotation>>
  BY DEF ClearClientIps, firewall
<1>2. Me("config") \in Whos /\ Me("config") \in {"config"} \X (1 .. MaxConfig)
  BY MeIsWho DEF ClearClientIps
<1>3. FirewallOK' /\ CallsTyped'
  BY <1>1, <1>2, LiftingsKeep, BannedTyped DEF ClearClientIps
<1>4. ButtonsTyped'
  <2>1. [who |-> Me("config"), ip |-> None, hours |-> 0] \in Afters
    BY <1>2 DEF Afters
  <2> QED BY <2>1, Unfold DEF ClearClientIps, ButtonsTyped, buttons
<1>5. (job \in Jobs)' /\ ProbeTyped' /\ LeftTyped'
  BY SameJob, SameProbe, UseTyped DEF ClearClientIps
<1>6. ClientTyped'
  BY <1>1, Unfold DEF ClientTyped, ClearClientIps, config, store
<1> QED BY <1>3, <1>4, <1>5, <1>6, Parts

LEMMA ClearRowPreserves ==
  ASSUME IInv, NEW a \in after, ClearRow(a)
  PROVE  IInv'
<1>1. UNCHANGED <<now, rules, logs, orphans, rotation, calls>>
  BY DEF ClearRow, firewall
<1>2. FirewallOK' /\ CallsTyped'
  BY <1>1, NoneAdded
<1>3. ButtonsTyped'
  BY Unfold DEF ClearRow, ButtonsTyped, buttons
<1>4. (job \in Jobs)' /\ ProbeTyped' /\ LeftTyped'
  BY SameJob, SameProbe, SameLeft DEF ClearRow
<1>5. ClientTyped'
  BY <1>1, Unfold DEF ClientTyped, ClearRow, config
<1> QED BY <1>2, <1>3, <1>4, <1>5, Parts

LEMMA MarkTyped ==
  ASSUME IInv, NEW ip \in IPs, NEW t \in Nat
  PROVE  [marks EXCEPT ![ip] = t] \in [IPs -> Nat]
  BY Unfold DEF ButtonsTyped

LEMMA TemporaryUnbanPreserves ==
  ASSUME IInv, NEW ip \in IPs, NEW h \in UnbanFor, TemporaryUnban(ip, h)
  PROVE  IInv'
<1>1. UNCHANGED <<now, rules, logs, orphans, rotation>>
  BY DEF TemporaryUnban, firewall
<1>2. Me("buttons") \in Whos /\ Me("buttons") \in {"buttons"} \X (1 .. MaxButtons)
  BY MeIsWho DEF TemporaryUnban
<1>3. FirewallOK' /\ CallsTyped'
  BY <1>1, <1>2, LiftingsKeep DEF TemporaryUnban
<1>4. ButtonsTyped'
  <2>1. [who |-> Me("buttons"), ip |-> ip, hours |-> h] \in Afters
    BY <1>2 DEF Afters
  <2> QED BY <2>1, Unfold DEF TemporaryUnban, ButtonsTyped, buttons
<1>5. (job \in Jobs)' /\ ProbeTyped' /\ LeftTyped'
  BY SameJob, SameProbe, UseTyped DEF TemporaryUnban
<1>6. ClientTyped'
  BY <1>1, Unfold DEF ClientTyped, TemporaryUnban, config, store
<1> QED BY <1>3, <1>4, <1>5, <1>6, Parts

LEMMA GrantPreserves ==
  ASSUME IInv, NEW a \in after, Grant(a)
  PROVE  IInv'
<1>1. UNCHANGED <<now, rules, logs, orphans, rotation, calls>>
  BY DEF Grant, firewall
<1>2. FirewallOK' /\ CallsTyped'
  BY <1>1, NoneAdded
<1>3. a \in [who : {"buttons"} \X (1 .. MaxButtons), ip : IPs, hours : UnbanFor]
  BY Unfold DEF ButtonsTyped, Afters, Grant
<1>4. a.ip \in IPs /\ a.who[2] \in 1 .. MaxButtons /\ a.hours \in Nat /\ now + a.hours \in Nat
  <2>1. a.ip \in IPs /\ a.hours \in UnbanFor /\ a.who \in {"buttons"} \X (1 .. MaxButtons)
    BY <1>3
  <2>2. a.who[2] \in 1 .. MaxButtons
    BY <2>1
  <2>3. a.hours \in Nat /\ now \in Nat
    BY <2>1, LimitAssumption, Unfold
  <2> QED BY <2>1, <2>2, <2>3
<1>5. [press |-> a.who[2], ip |-> a.ip, at |-> now + a.hours] \in [press : 1 .. MaxButtons, ip : IPs, at : Nat]
  BY <1>4
<1>6. ButtonsTyped'
  BY <1>4, <1>5, MarkTyped, Unfold DEF Grant, ButtonsTyped
<1>7. (job \in Jobs)' /\ ProbeTyped' /\ LeftTyped'
  BY SameJob, SameProbe, SameLeft DEF Grant
<1>8. ClientTyped'
  BY <1>1, Unfold DEF ClientTyped, Grant, config, store
<1> QED BY <1>2, <1>6, <1>7, <1>8, Parts

LEMMA IncrementLimitPreserves ==
  ASSUME IInv, NEW ip \in IPs, IncrementLimit(ip)
  PROVE  IInv'
<1>1. UNCHANGED <<now, rules, logs, orphans, rotation>>
  BY DEF IncrementLimit, firewall
<1>2. Me("buttons") \in Whos
  BY MeIsWho DEF IncrementLimit
<1>3. FirewallOK' /\ CallsTyped'
  BY <1>1, <1>2, LiftingsKeep DEF IncrementLimit
<1>4. ButtonsTyped'
  BY MarkTyped, Unfold DEF IncrementLimit, ButtonsTyped
<1>5. (job \in Jobs)' /\ ProbeTyped' /\ LeftTyped'
  BY SameJob, SameProbe, UseTyped DEF IncrementLimit
<1>6. ClientTyped'
  BY <1>1, Unfold DEF ClientTyped, IncrementLimit, store
<1> QED BY <1>3, <1>4, <1>5, <1>6, Parts

LEMMA TimerFiresPreserves ==
  ASSUME IInv, NEW t \in timers, TimerFires(t)
  PROVE  IInv'
<1>1. UNCHANGED <<now, rules, logs, orphans, rotation>>
  BY DEF TimerFires, firewall
<1>2. t.ip \in IPs /\ t.press \in 1 .. MaxButtons
  BY Unfold DEF ButtonsTyped
<1>3. FirewallOK' /\ CallsTyped'
  <2> DEFINE ban == Banning(<<"timer", t.press>>, t.ip, 0)
  <2>1. ban \in Calls /\ ban.step # "line"
    BY <1>2, BanningTyped, Unfold DEF Whos
  <2>2. calls' = calls \cup {ban}
    BY DEF TimerFires
  <2> HIDE DEF ban
  <2>3. {ban} \in SUBSET Calls /\ \A c \in {ban} : c.step # "line"
    BY <2>1
  <2> QED BY <1>1, <2>2, <2>3, CallsAdded
<1>4. ButtonsTyped'
  BY <1>2, MarkTyped, Unfold DEF TimerFires, ButtonsTyped
<1>5. (job \in Jobs)' /\ ProbeTyped' /\ LeftTyped'
  BY SameJob, SameProbe, SameLeft DEF TimerFires
<1>6. ClientTyped'
  BY <1>1, Unfold DEF ClientTyped, TimerFires, config, store
<1> QED BY <1>3, <1>4, <1>5, <1>6, Parts

LEMMA ManualBanPreserves ==
  ASSUME IInv, NEW ip \in IPs, ManualBan(ip)
  PROVE  IInv'
<1>1. UNCHANGED <<now, rules, logs, orphans, rotation>>
  BY DEF ManualBan, firewall
<1>2. FirewallOK' /\ CallsTyped'
  <2> DEFINE ban == Banning(Me("buttons"), ip, 0)
  <2>1. ban \in Calls /\ ban.step # "line"
    BY MeIsWho, BanningTyped, Unfold DEF ManualBan
  <2>2. calls' = calls \cup {ban}
    BY DEF ManualBan
  <2> HIDE DEF ban
  <2>3. {ban} \in SUBSET Calls /\ \A c \in {ban} : c.step # "line"
    BY <2>1
  <2> QED BY <1>1, <2>2, <2>3, CallsAdded
<1>3. ButtonsTyped'
  BY MarkTyped, Unfold DEF ManualBan, ButtonsTyped
<1>4. (job \in Jobs)' /\ ProbeTyped' /\ LeftTyped'
  BY SameJob, SameProbe, UseTyped DEF ManualBan
<1>5. ClientTyped'
  BY <1>1, Unfold DEF ClientTyped, ManualBan, config, store
<1> QED BY <1>2, <1>3, <1>4, <1>5, Parts

LEMMA RotatePreserves ==
  ASSUME IInv, RotateLimit \/ RotateCopy \/ RotateTruncate
  PROVE  IInv'
<1>1. FirewallOK'
  BY RotateKeeps
<1>2. CallsTyped' /\ ButtonsTyped'
  BY Unfold, SameButtons DEF CallsTyped, RotateLimit, RotateCopy, RotateTruncate, callers, buttons
<1>3. (job \in Jobs)' /\ ProbeTyped' /\ LeftTyped'
  BY SameJob, SameProbe, SameLeft, UseTyped DEF RotateLimit, RotateCopy, RotateTruncate
<1>4. ClientTyped'
  BY Unfold DEF ClientTyped, RotateLimit, RotateCopy, RotateTruncate, config, store
<1> QED BY <1>1, <1>2, <1>3, <1>4, Parts

LEMMA ConnectPreserves ==
  ASSUME IInv, NEW ip \in IPs, Connect(ip)
  PROVE  IInv'
<1>1. ButtonsTyped' /\ UNCHANGED <<now, limit, on, rules, logs, orphans, rotation>>
  BY ScanParts DEF Connect, callers
<1>2. FirewallOK' /\ CallsTyped'
  BY <1>1, NoneAdded DEF Connect, callers
<1>3. (job \in Jobs)' /\ ProbeTyped' /\ LeftTyped'
  BY SameJob, SameProbe, SameLeft DEF Connect
<1>4. access' \in Tracks
  BY Unfold DEF ClientTyped, Connect, Tracks
<1>5. ClientTyped'
  BY <1>1, <1>4, Unfold DEF ClientTyped, Connect, store
<1> QED BY <1>1, <1>2, <1>3, <1>5, Parts

LEMMA TickPreserves ==
  ASSUME IInv, Tick
  PROVE  IInv'
<1>1. now' \in 1 .. MaxTime /\ now' \in Nat /\ now' >= now
  BY LimitAssumption, Unfold DEF ClientTyped, Tick, Times
<1>2. FirewallOK'
  BY <1>1, SameFirewall DEF Tick, firewall, callers
<1>3. CallsTyped' /\ ButtonsTyped'
  BY Unfold, SameButtons DEF CallsTyped, Tick, callers, buttons
<1>4. (job \in Jobs)' /\ ProbeTyped' /\ LeftTyped'
  BY JobDone, SameProbe, SameLeft DEF Tick
<1>5. ClientTyped'
  BY <1>1, Unfold DEF ClientTyped, Tick, config, store, firewall
<1> QED BY <1>2, <1>3, <1>4, <1>5, Parts

LEMMA RestartPreserves ==
  ASSUME IInv, Restart
  PROVE  IInv'
<1>1. FirewallOK' /\ CallsTyped'
  BY RestartKeeps
<1>2. ButtonsTyped'
  BY LimitAssumption DEF Restart, ButtonsTyped, Absent
<1>3. (job \in Jobs)' /\ ProbeTyped' /\ LeftTyped'
  BY JobDone, SameProbe, UseTyped DEF Restart
<1>4. ClientTyped'
  BY Unfold DEF ClientTyped, Restart, config, store
<1> QED BY <1>1, <1>2, <1>3, <1>4, Parts

----------------------------------------------------------------------------
LEMMA InitIInv == Init => IInv
<1> SUFFICES ASSUME Init PROVE IInv
  OBVIOUS
<1>1. Absent \in Tracks /\ NoEvents \in Lines /\ \A ip \in IPs : NoEvents[ip] = Event("UNBAN", 0)
  BY LimitAssumption DEF Absent, NoEvents, Event, Tracks, Lines, Times
<1>2. LeftTyped
  BY BoundTyped DEF Init, LeftTyped
<1>3. on \in BOOLEAN /\ row \in BOOLEAN
  BY Zenon DEF Init
<1>4. ClientTyped /\ ButtonsTyped /\ CallsTyped /\ ProbeTyped
  BY <1>1, <1>3, LimitAssumption DEF Init, ClientTyped, ButtonsTyped, CallsTyped, ProbeTyped, Absent
<1>5. job \in Jobs
  BY DEF Init, Due, Jobs
<1>6. FirewallOK
  BY <1>1 DEF Init, FirewallOK, LogsTyped, LogInv, LineInv, Event
<1> QED BY <1>2, <1>4, <1>5, <1>6
        DEF IInv, TypeOK, FirewallOK, LogsTyped, CallsTyped, ProbeTyped, LeftTyped, ButtonsTyped, ClientTyped

LEMMA StutterIInv ==
  ASSUME IInv, UNCHANGED vars
  PROVE  IInv'
<1>1. ButtonsTyped' /\ UNCHANGED <<now, limit, on, rules, logs, orphans, rotation>>
  BY ScanParts DEF vars, callers
<1>2. FirewallOK' /\ CallsTyped'
  BY <1>1, NoneAdded DEF vars, callers
<1>3. (job \in Jobs)' /\ ProbeTyped' /\ LeftTyped'
  BY SameJob, SameProbe, SameLeft DEF vars
<1>4. ClientTyped'
  BY <1>1, Unfold DEF ClientTyped, vars, store
<1> QED BY <1>1, <1>2, <1>3, <1>4, Parts

(* The inductive invariant, for any IPs, limits and bounds. *)
THEOREM Inductive == Spec => []IInv
<1>1. ASSUME IInv, Next PROVE IInv'
  <2>1. CASE JobSync \/ JobNothing \/ JobFirst \/ JobUnlimited \/ JobPending
    BY <1>1, <2>1, JobSyncPreserves, JobFirstPreserves, JobUnlimitedPreserves, JobPendingPreserves
  <2>2. CASE JobTakeover \/ JobStrict \/ JobEnforce \/ JobChoose \/ JobSave
    BY <1>1, <2>2, JobTakeoverPreserves, JobStrictPreserves, JobEnforcePreserves,
       JobChoosePreserves, JobSavePreserves
  <2>3. CASE \E who \in Whos : Call(who)
    BY <1>1, <2>3, CallPreserves
  <2>4. CASE ClearAccessLog
    BY <1>1, <2>4, ClearAccessLogPreserves
  <2>5. CASE (\E n \in Limits : SetLimit(n)) \/ SwitchOff \/ SwitchOn
    BY <1>1, <2>5, ConfigPreserves
  <2>6. CASE ClearClientIps
    BY <1>1, <2>6, ClearClientIpsPreserves
  <2>7. CASE \E ip \in IPs, h \in UnbanFor : TemporaryUnban(ip, h)
    BY <1>1, <2>7, TemporaryUnbanPreserves
  <2>8. CASE \E a \in after : ClearRow(a) \/ Grant(a)
    BY <1>1, <2>8, ClearRowPreserves, GrantPreserves
  <2>9. CASE \E t \in timers : TimerFires(t)
    BY <1>1, <2>9, TimerFiresPreserves
  <2>10. CASE \E ip \in IPs : ManualBan(ip) \/ IncrementLimit(ip)
    BY <1>1, <2>10, ManualBanPreserves, IncrementLimitPreserves
  <2>11. CASE RotateLimit \/ RotateCopy \/ RotateTruncate
    BY <1>1, <2>11, RotatePreserves
  <2>12. CASE \E ip \in IPs : Connect(ip)
    BY <1>1, <2>12, ConnectPreserves
  <2>13. CASE Tick
    BY <1>1, <2>13, TickPreserves
  <2>14. CASE Restart
    BY <1>1, <2>14, RestartPreserves
  <2> QED BY <1>1, <2>1, <2>2, <2>3, <2>4, <2>5, <2>6, <2>7, <2>8, <2>9, <2>10, <2>11, <2>12,
             <2>13, <2>14 DEF Next
<1>2. ASSUME IInv, UNCHANGED vars PROVE IInv'
  BY <1>2, StutterIInv
<1> QED BY <1>1, <1>2, InitIInv, PTL DEF Spec

(* The replay finds the newest line about an IP; that of a rule which is   *)
(* no orphan is a ban when no line about it is due.                        *)
LEMMA RuleFound ==
  ASSUME IInv, NEW ip \in rules \ orphans, ~\E c \in calls : LineDue(c) /\ c.ip = ip
  PROVE  Newest(logs, ip).action = "BAN"
<1>1. /\ ip \in IPs /\ LineInv(ip) /\ RuleInv(ip)
      /\ logs.limit[ip] \in Nat /\ logs.banned[ip].at \in Nat /\ logs.prev[ip].at \in Nat
  BY DEF IInv, TypeOK, LogInv, Tracks, Lines, Times
<1> DEFINE l == logs.limit[ip]
           b == logs.banned[ip]
           p == logs.prev[ip]
           newest(e) == /\ \A t \in {l, b.at, p.at} : t <= e.at
                        /\ e.at = b.at => e = b
                        /\ e.at = l /\ e.at > b.at => e.action = "BAN"
<1>2. Newest(logs, ip) = CHOOSE e \in {Event("BAN", l), b, p} : newest(e)
  BY DEF Newest
<1>3. ASSUME NEW e \in {Event("BAN", l), b, p}, newest(e) PROVE e.action = "BAN"
  BY <1>1, <1>3 DEF LineInv, RuleInv, Event
<1>4. \E e \in {Event("BAN", l), b, p} : newest(e)
  <2>1. CASE b.at >= l /\ b.at >= p.at
    BY <1>1, <2>1
  <2>2. CASE l > b.at /\ l >= p.at
    BY <1>1, <2>2 DEF Event
  <2>3. CASE p.at > b.at /\ p.at > l
    BY <1>1, <2>3
  <2> QED BY <1>1, <2>1, <2>2, <2>3
<1> HIDE DEF newest
<1> QED BY <1>2, <1>3, <1>4

(* Every rule in the firewall is a ban in the replay of the logs, or its   *)
(* line is due, or it is an orphan; for any IPs, scans, buttons, timers,   *)
(* rotations and restarts.                                                 *)
THEOREM RulesAreLogged == Spec => []RuleIsLogged
<1>1. ASSUME IInv PROVE RuleIsLogged
  <2> SUFFICES ASSUME NEW ip \in rules \ orphans, ~\E c \in calls : LineDue(c) /\ c.ip = ip
               PROVE  ip \in Banned(logs)
    BY IsUnsaid DEF RuleIsLogged
  <2>1. ip \in IPs /\ Newest(logs, ip).action = "BAN"
    BY <1>1, RuleFound DEF IInv, TypeOK
  <2> QED BY <2>1 DEF Banned
<1> QED BY <1>1, Inductive, PTL

----------------------------------------------------------------------------
(* Between the choice and the bans administrators may change the limit;    *)
(* the scan keeps the one it read and what it chose.                       *)
ChosenInv == job.step \in {"enforce", "choose"} => Cardinality(job.protected) <= job.limit

LEMMA FewAreChosen ==
  ASSUME IInv, NEW winner, Select(winner)
  PROVE  ChosenInv'
<1>1. PICK protected \in Oldest(Merged, limit) :
        job' = [step |-> "enforce", limit |-> limit, ips |-> Merged, winner |-> winner,
                live |-> Present(access) \cap Present(Merged), protected |-> protected]
  BY DEF Select
<1>2. protected \subseteq IPs /\ (Cardinality(protected) = limit \/ Cardinality(protected) < limit)
  BY DEF Oldest, Present
<1>3. limit \in Nat /\ Cardinality(protected) \in Nat
  BY <1>2, LimitAssumption, FS_Subset, FS_CardinalityType DEF IInv, TypeOK
<1>4. job'.limit = limit /\ job'.protected = protected
  BY <1>1
<1> QED BY <1>2, <1>3, <1>4 DEF ChosenInv

LEMMA ChosenStep ==
  ASSUME IInv, ChosenInv, [Next]_vars
  PROVE  ChosenInv'
<1>1. CASE JobStrict
  BY <1>1, FewAreChosen DEF JobStrict
<1>2. CASE JobEnforce
  <2>1. job \in [step : {"enforce", "choose"}, limit : Limits \ {0}, ips : Tracks,
                 winner : IPs \cup {None}, live : SUBSET IPs, protected : SUBSET IPs]
    BY <1>2, Enforcing DEF JobEnforce, JobAt
  <2>2. job' = [job EXCEPT !.step = "choose"] /\ job.step = "enforce"
    BY <1>2 DEF JobEnforce, JobAt
  <2>3. job'.limit = job.limit /\ job'.protected = job.protected
    BY <2>1, <2>2
  <2> QED BY <2>2, <2>3 DEF ChosenInv
<1>3. CASE JobUnlimited \/ JobTakeover \/ JobChoose
  <2>1. \E ips, clear : job' = ToSave(ips, clear)
    BY <1>3 DEF JobUnlimited, JobTakeover, JobChoose
  <2>2. job'.step = "save"
    BY <2>1 DEF ToSave
  <2> QED BY <2>2 DEF ChosenInv
<1>4. CASE JobSync \/ JobNothing \/ JobFirst \/ JobPending \/ JobSave \/ Tick \/ Restart
  <2>1. job' \in {Done, Due, [step |-> "scan"]}
    BY <1>4 DEF JobSync, JobNothing, JobFirst, JobPending, JobSave, Tick, Restart
  <2> QED BY <2>1 DEF ChosenInv, Done, Due
<1>5. CASE \/ ClearAccessLog \/ (\E who \in Whos : Call(who)) \/ (\E n \in Limits : SetLimit(n))
           \/ SwitchOff \/ SwitchOn \/ ClearClientIps \/ (\E a \in after : ClearRow(a) \/ Grant(a))
           \/ (\E ip \in IPs, h \in UnbanFor : TemporaryUnban(ip, h)) \/ (\E t \in timers : TimerFires(t))
           \/ (\E ip \in IPs : ManualBan(ip) \/ IncrementLimit(ip))
           \/ RotateLimit \/ RotateCopy \/ RotateTruncate \/ (\E ip \in IPs : Connect(ip))
  <2>1. UNCHANGED job
    BY <1>5 DEF ClearAccessLog, Call, SetLimit, SwitchOff, SwitchOn, ClearClientIps, ClearRow, Grant,
                TemporaryUnban, TimerFires, ManualBan, IncrementLimit, RotateLimit, RotateCopy,
                RotateTruncate, Connect
  <2> QED BY <2>1 DEF ChosenInv
<1>6. CASE UNCHANGED vars
  BY <1>6 DEF vars, ChosenInv
<1> QED BY <1>1, <1>2, <1>3, <1>4, <1>5, <1>6 DEF Next

(* When a scan has chosen, no more of its IPs are left alone than the      *)
(* limit, for any IPs, limits and marks, and whatever was banned or        *)
(* changed since the scan began.                                           *)
THEOREM LimitIsEnforced == Spec => AtMostLimit
<1> DEFINE alone == {ip \in job.live : /\ ~Marked(ip) /\ ip \notin Banned(logs)
                                       /\ \A c \in calls' : c.who = Scan => c.ip # ip}
<1>1. ASSUME IInv, ChosenInv, JobChoose
      PROVE  Cardinality(alone) <= job.limit
  <2>1. alone \subseteq job.protected
    <3> SUFFICES ASSUME NEW ip \in alone, ip \notin job.protected PROVE FALSE
      OBVIOUS
    <3> DEFINE excess == job.live \ job.protected
               spared == {i \in excess : Marked(i)}
               new == excess \ (spared \cup Banned(logs))
    <3>1. ip \in new
      OBVIOUS
    <3>2. calls' = calls \cup {Banning(Scan, i, job.ips[i]) : i \in new}
      BY <1>1 DEF JobChoose
    <3>3. Banning(Scan, ip, job.ips[ip]) \in calls'
      BY <3>1, <3>2
    <3>4. Banning(Scan, ip, job.ips[ip]).who = Scan /\ Banning(Scan, ip, job.ips[ip]).ip = ip
      BY DEF Banning
    <3> QED BY <3>3, <3>4
  <2>2. job.protected \subseteq IPs /\ Cardinality(job.protected) <= job.limit /\ job.limit \in Nat
    BY <1>1, Enforcing, LimitAssumption DEF ChosenInv, JobChoose, JobAt
  <2>3. IsFiniteSet(job.protected) /\ Cardinality(job.protected) \in Nat
    BY <2>2, LimitAssumption, FS_Subset, FS_CardinalityType
  <2> HIDE DEF alone
  <2>4. Cardinality(alone) <= Cardinality(job.protected) /\ Cardinality(alone) \in Nat
    BY <2>1, <2>3, FS_Subset, FS_CardinalityType
  <2> QED BY <2>2, <2>3, <2>4
<1>2. Init => ChosenInv
  BY DEF Init, ChosenInv, Due
<1>3. IInv /\ ChosenInv /\ [Next]_vars => ChosenInv'
  BY ChosenStep
<1>4. IInv /\ ChosenInv /\ [Next]_vars => [JobChoose => Cardinality(alone) <= job.limit]_vars
  BY <1>1
<1> QED BY <1>2, <1>3, <1>4, Inductive, PTL DEF Spec, AtMostLimit
============================================================================
