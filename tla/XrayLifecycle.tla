--------------------------- MODULE XrayLifecycle ---------------------------
(***************************************************************************)
(* The life of the local Xray process: RestartXray, ApplyConfigChange and  *)
(* StopXray of web/service/xray.go on top of Process.Start and             *)
(* Process.Stop of xray/process.go, the watchdog of                        *)
(* web/job/check_xray_running_job.go, the need-restart cron function of    *)
(* web/web.go, and jobs that commit a change and call SetToNeedRestart.    *)
(*                                                                         *)
(* A configuration is the number of database commits it was built from.    *)
(* The package variable p is cur, one of two process objects: RestartXray  *)
(* builds the next object in the place that is not p, and the one before   *)
(* is garbage once a restart has succeeded.                                *)
(***************************************************************************)
EXTENDS Naturals

CONSTANTS Admins,      (* callers of ApplyConfigChange and StopXray        *)
          Watchers,    (* goroutines the cron runs the watchdog job in: a  *)
                       (* tick does not wait for the previous one          *)
          Jobs,        (* jobs that commit and then SetToNeedRestart       *)
          CronRuns,    (* goroutines of the 30 s need-restart function     *)
          None,        (* nobody holds the service lock                    *)
          MaxDb,       (* bound: database commits                          *)
          MaxFaults,   (* bound: failed config builds, writes, starts, ... *)
          MaxCrashes   (* bound: deaths of a running Xray                  *)

ASSUME BoundsAssumption == MaxDb \in Nat /\ MaxFaults \in Nat /\ MaxCrashes \in Nat

ASSUME ActorsAssumption ==
  /\ Admins \cap (Watchers \cup CronRuns \cup Jobs) = {}
  /\ (Watchers \cup CronRuns) \cap Jobs = {}
  /\ Watchers \cap CronRuns = {}
  /\ None \notin Admins \cup Watchers \cup CronRuns

Callers == Admins \cup Watchers \cup CronRuns
Objects == {1, 2}
Other(o) == 3 - o

VARIABLES
  db,        (* commits so far                                             *)
  need,      (* isNeedXrayRestart                                          *)
  manual,    (* isManuallyStopped                                          *)
  file,      (* the configuration in config.json                           *)
  cur,       (* the object p points at                                     *)
  ver,       (* ver[o]: the configuration object o was built with          *)
  alive,     (* alive[o]: object o's operating system process is running   *)
  pc,        (* pc[x]: what caller x is doing                              *)
  holder,    (* who holds the service lock                                 *)
  step,      (* where the holder is in RestartXray or StopXray             *)
  snap,      (* the configuration the holder generated                     *)
  oldRunning,(* the holder's local variable                                *)
  checks,    (* the watchdog's checkTime, 2 standing for more than 1       *)
  committed, (* committed[x]: the commit x's call is to bring into effect  *)
  faults, crashes,   (* how much of the fault bounds is used up            *)
  requested, (* history: newest commit SetToNeedRestart was called for     *)
  safeReq,   (* history: the same, calls during a restart left out         *)
  reported,  (* history: newest commit ApplyConfigChange reported applied  *)
  stuck      (* history: Process.Stop has timed out since the last start   *)

procVars == <<file, cur, ver, alive, stuck>>
lockVars == <<holder, step, snap, oldRunning>>
vars == <<db, need, manual, procVars, pc, lockVars, checks, committed, faults, crashes,
          requested, safeReq, reported>>

Running == alive[cur]   (* IsXrayRunning *)
Max2(a, b) == IF a > b THEN a ELSE b

(* The panel has started Xray with the configuration of the empty history. *)
Init ==
  /\ db = 0 /\ need = FALSE /\ manual = FALSE
  /\ file = 0 /\ cur = 1
  /\ ver = [o \in Objects |-> 0]
  /\ alive = [o \in Objects |-> o = 1]
  /\ pc = [x \in Callers \cup Jobs |-> "idle"]
  /\ holder = None /\ step = "free" /\ snap = 0 /\ oldRunning = FALSE
  /\ checks = 0
  /\ committed = [x \in Admins \cup Jobs |-> 0]
  /\ faults = 0 /\ crashes = 0
  /\ requested = 0 /\ safeReq = 0 /\ reported = 0 /\ stuck = FALSE

----------------------------------------------------------------------------
(* Who calls what *)

(* An administrator saves a change; the handler then calls                 *)
(* ApplyConfigChange, that is RestartXray(true), and waits for it.         *)
AdminSave(a) ==
  /\ pc[a] = "idle"
  /\ db < MaxDb
  /\ db' = db + 1
  /\ committed' = [committed EXCEPT ![a] = db + 1]
  /\ pc' = [pc EXCEPT ![a] = "restart"]
  /\ UNCHANGED <<need, manual, procVars, lockVars, checks, faults, crashes, requested, safeReq, reported>>

(* An administrator presses restart: RestartXray(true) with nothing saved. *)
AdminRestart(a) ==
  /\ pc[a] = "idle"
  /\ pc' = [pc EXCEPT ![a] = "restart"]
  /\ UNCHANGED <<db, need, manual, procVars, lockVars, checks, committed, faults, crashes,
                 requested, safeReq, reported>>

(* An administrator presses stop. *)
AdminStop(a) ==
  /\ pc[a] = "idle"
  /\ pc' = [pc EXCEPT ![a] = "stop"]
  /\ UNCHANGED <<db, need, manual, procVars, lockVars, checks, committed, faults, crashes,
                 requested, safeReq, reported>>

(* A job commits a change that it could not bring to the live Xray. *)
JobCommit(j) ==
  /\ pc[j] = "idle"
  /\ db < MaxDb
  /\ db' = db + 1
  /\ committed' = [committed EXCEPT ![j] = db + 1]
  /\ pc' = [pc EXCEPT ![j] = "flag"]
  /\ UNCHANGED <<need, manual, procVars, lockVars, checks, faults, crashes, requested, safeReq, reported>>

(* A restart is past its reading of the database. *)
SnapshotTaken == step \in {"decide", "write", "stop", "start", "rollback", "flags"}

SetToNeedRestart(j) ==
  /\ pc[j] = "flag"
  /\ need' = TRUE
  /\ requested' = Max2(requested, committed[j])
  /\ safeReq' = IF SnapshotTaken THEN safeReq ELSE Max2(safeReq, committed[j])
  /\ pc' = [pc EXCEPT ![j] = "idle"]
  /\ UNCHANGED <<db, manual, procVars, lockVars, checks, committed, faults, crashes, reported>>

(* Faulty variant: the flag is cleared when it is read. *)
CronTickClears(k) ==
  /\ pc[k] = "idle"
  /\ need
  /\ need' = FALSE
  /\ pc' = [pc EXCEPT ![k] = "restart"]
  /\ UNCHANGED <<db, manual, procVars, lockVars, checks, committed, faults, crashes,
                 requested, safeReq, reported>>

(* Every 30 s: IsNeedRestart, and RestartXray(false) if so. *)
CronTick(k) ==
  /\ pc[k] = "idle"
  /\ need
  /\ pc' = [pc EXCEPT ![k] = "restart"]
  /\ UNCHANGED <<db, need, manual, procVars, lockVars, checks, committed, faults, crashes,
                 requested, safeReq, reported>>

(* DidXrayCrash, read without the service lock. *)
DidXrayCrash == ~Running /\ ~manual

(* Every second: CheckXrayRunningJob.Run.  All ticks share checkTime, and  *)
(* the second one in a row that finds Xray down calls RestartXray(false).  *)
WatchTick(w) ==
  /\ pc[w] = "idle"
  /\ \/ /\ ~DidXrayCrash
        /\ checks' = 0
        /\ UNCHANGED pc
     \/ /\ DidXrayCrash
        /\ checks' = IF checks = 0 THEN 1 ELSE 2
        /\ pc' = IF checks = 0 THEN pc ELSE [pc EXCEPT ![w] = "restart"]
  /\ UNCHANGED <<db, need, manual, procVars, lockVars, committed, faults, crashes,
                 requested, safeReq, reported>>

----------------------------------------------------------------------------
(* RestartXray *)

(* The call returns and the lock is released.  The watchdog then resets    *)
(* checkTime, whatever the result.                                         *)
Return ==
  /\ holder' = None
  /\ step' = "free"
  /\ pc' = [pc EXCEPT ![holder] = "idle"]
  /\ checks' = IF holder \in Watchers THEN 0 ELSE checks
  /\ snap' = 0
  /\ oldRunning' = FALSE

(* RestartXray returns nil: ApplyConfigChange reports the change applied.  *)
Succeed ==
  /\ reported' = IF holder \in Admins THEN Max2(reported, committed[holder]) ELSE reported
  /\ Return

Goto(s) == step' = s /\ UNCHANGED <<holder, pc, checks>>

(* One of the bounded failures happens. *)
Fault == faults < MaxFaults /\ faults' = faults + 1

RestartLock(x) ==
  /\ pc[x] = "restart"
  /\ holder = None
  /\ holder' = x
  /\ step' = "config"
  /\ manual' = FALSE
  /\ UNCHANGED <<db, need, procVars, pc, snap, oldRunning, checks, committed, faults, crashes,
                 requested, safeReq, reported>>

(* Faulty variant: the error path returns without unlocking. *)
ConfigErrorKeepsLock ==
  /\ step = "config"
  /\ \/ Fault /\ pc' = [pc EXCEPT ![holder] = "idle"] /\ step' = "leaked"
        /\ UNCHANGED <<holder, checks, snap, oldRunning>>
     \/ Goto("decide") /\ snap' = db /\ UNCHANGED <<oldRunning, faults>>
  /\ UNCHANGED <<db, need, manual, procVars, committed, crashes, requested, safeReq, reported>>

(* GetXrayConfig and marshal: read the database, or fail. *)
RestartConfig ==
  /\ step = "config"
  /\ \/ Fault /\ Return
     \/ Goto("decide") /\ snap' = db /\ UNCHANGED <<oldRunning, faults>>
  /\ UNCHANGED <<db, need, manual, procVars, committed, crashes, requested, safeReq, reported>>

Forced == holder \in Admins

(* Faulty variant: the comparison forgets that nothing may be running.     *)
DecideWithoutRunning ==
  /\ step = "decide"
  /\ IF ~Forced /\ ver[cur] = snap /\ ~need
     THEN Succeed
     ELSE Goto("write") /\ oldRunning' = Running /\ UNCHANGED <<snap, reported>>
  /\ UNCHANGED <<db, need, manual, procVars, committed, faults, crashes, requested, safeReq>>

(* Is there an old process to stop, and is a restart needed at all? *)
RestartDecide ==
  /\ step = "decide"
  /\ IF Running /\ ~Forced /\ ver[cur] = snap /\ ~need
     THEN Succeed
     ELSE Goto("write") /\ oldRunning' = Running /\ UNCHANGED <<snap, reported>>
  /\ UNCHANGED <<db, need, manual, procVars, committed, faults, crashes, requested, safeReq>>

(* Test the configuration and write config.json. *)
RestartWrite ==
  /\ step = "write"
  /\ \/ Fault /\ Return /\ UNCHANGED file
     \/ /\ file' = snap
        /\ Goto(IF oldRunning THEN "stop" ELSE "start")
        /\ UNCHANGED <<snap, oldRunning, faults>>
  /\ UNCHANGED <<db, need, manual, cur, ver, alive, stuck, committed, crashes,
                 requested, safeReq, reported>>

(* Faulty variant: a stop that timed out is only logged. *)
StopErrorIgnored ==
  /\ step = "stop"
  /\ \/ Running /\ alive' = [alive EXCEPT ![cur] = FALSE] /\ UNCHANGED <<stuck, faults>>
     \/ Fault /\ stuck' = TRUE /\ UNCHANGED alive
  /\ Goto("start")
  /\ UNCHANGED <<db, need, manual, snap, oldRunning, file, cur, ver, committed, crashes,
                 requested, safeReq, reported>>

(* Process.Stop on the old process: it may have died since it was seen     *)
(* running ("xray is not running"), it stops, or it survives SIGTERM and   *)
(* SIGKILL for seven seconds.  An error ends the restart.                  *)
RestartStop ==
  /\ step = "stop"
  /\ \/ ~Running /\ Return /\ UNCHANGED <<alive, stuck, faults>>
     \/ /\ Running
        /\ alive' = [alive EXCEPT ![cur] = FALSE]
        /\ Goto("start")
        /\ UNCHANGED <<snap, oldRunning, stuck, faults>>
     \/ Running /\ Fault /\ stuck' = TRUE /\ Return /\ UNCHANGED alive
  /\ UNCHANGED <<db, need, manual, file, cur, ver, committed, crashes, requested, safeReq, reported>>

(* p becomes the next object; Process.Start writes its configuration and   *)
(* launches it.                                                            *)
RestartStart ==
  /\ step = "start"
  /\ cur' = Other(cur)
  /\ ver' = [ver EXCEPT ![Other(cur)] = snap]
  /\ file' = snap
  /\ \/ /\ alive' = [alive EXCEPT ![Other(cur)] = TRUE]
        /\ stuck' = FALSE
        /\ Goto("flags")
        /\ UNCHANGED <<snap, oldRunning, faults>>
     \/ /\ Fault
        /\ UNCHANGED <<alive, stuck>>
        /\ IF oldRunning THEN Goto("rollback") /\ UNCHANGED <<snap, oldRunning>> ELSE Return
  /\ UNCHANGED <<db, need, manual, committed, crashes, requested, safeReq, reported>>

(* Faulty variant: a rollback that worked is reported as a success. *)
RollbackSucceeds ==
  /\ step = "rollback"
  /\ cur' = Other(cur)
  /\ file' = ver[Other(cur)]
  /\ alive' = [alive EXCEPT ![Other(cur)] = TRUE]
  /\ Succeed
  /\ UNCHANGED <<db, need, manual, ver, stuck, committed, faults, crashes, requested, safeReq>>

(* Faulty variant: the old process is launched on the file that is there. *)
RollbackKeepsFile ==
  /\ step = "rollback"
  /\ cur' = Other(cur)
  /\ alive' = [alive EXCEPT ![Other(cur)] = TRUE]
  /\ Return
  /\ UNCHANGED <<db, need, manual, file, ver, stuck, committed, faults, crashes, requested,
                 safeReq, reported>>

(* The next process did not start: p is the old object again, and          *)
(* Process.Start puts its configuration back.  The restart has failed.     *)
RestartRollback ==
  /\ step = "rollback"
  /\ cur' = Other(cur)
  /\ \/ /\ file' = ver[Other(cur)]
        /\ alive' = [alive EXCEPT ![Other(cur)] = TRUE]
        /\ UNCHANGED faults
     \/ file' \in {file, ver[Other(cur)]} /\ Fault /\ UNCHANGED alive
  /\ Return
  /\ UNCHANGED <<db, need, manual, ver, stuck, committed, crashes, requested, safeReq, reported>>

(* Success: clear both flags and return nil. *)
RestartDone ==
  /\ step = "flags"
  /\ manual' = FALSE
  /\ need' = FALSE
  /\ Succeed
  /\ UNCHANGED <<db, procVars, committed, faults, crashes, requested, safeReq>>

----------------------------------------------------------------------------
(* StopXray *)

StopLock(a) ==
  /\ pc[a] = "stop"
  /\ holder = None
  /\ holder' = a
  /\ step' = "stopping"
  /\ manual' = TRUE
  /\ UNCHANGED <<db, need, procVars, pc, snap, oldRunning, checks, committed, faults, crashes,
                 requested, safeReq, reported>>

StopDone ==
  /\ step = "stopping"
  /\ \/ ~Running /\ UNCHANGED <<alive, stuck, faults>>
     \/ Running /\ alive' = [alive EXCEPT ![cur] = FALSE] /\ UNCHANGED <<stuck, faults>>
     \/ Running /\ Fault /\ stuck' = TRUE /\ UNCHANGED alive
  /\ Return
  /\ UNCHANGED <<db, need, manual, file, cur, ver, committed, crashes, requested, safeReq, reported>>

(* A running Xray dies of itself. *)
Crash ==
  /\ Running
  /\ crashes < MaxCrashes
  /\ crashes' = crashes + 1
  /\ alive' = [alive EXCEPT ![cur] = FALSE]
  /\ UNCHANGED <<db, need, manual, file, cur, ver, stuck, pc, lockVars, checks, committed, faults,
                 requested, safeReq, reported>>

----------------------------------------------------------------------------
Holder == RestartConfig \/ RestartDecide \/ RestartWrite \/ RestartStop \/ RestartStart
          \/ RestartRollback \/ RestartDone \/ StopDone

Next == \/ \E a \in Admins : AdminSave(a) \/ AdminRestart(a) \/ AdminStop(a) \/ StopLock(a)
        \/ \E j \in Jobs : JobCommit(j) \/ SetToNeedRestart(j)
        \/ \E k \in CronRuns : CronTick(k)
        \/ \E w \in Watchers : WatchTick(w)
        \/ \E x \in Callers : RestartLock(x)
        \/ Holder
        \/ Crash

Spec == Init /\ [][Next]_vars

(* The cron keeps ticking, the lock holder's goroutine runs (Process.Stop  *)
(* and the config test have timeouts), and sync.Mutex serves every waiter. *)
Fairness ==
  /\ \A w \in Watchers : WF_vars(WatchTick(w))
  /\ \A k \in CronRuns : WF_vars(CronTick(k))
  /\ WF_vars(Holder)
  /\ \A j \in Jobs : WF_vars(SetToNeedRestart(j))
  /\ \A x \in Callers : SF_vars(RestartLock(x))
  /\ \A a \in Admins : SF_vars(StopLock(a))

FairSpec == Spec /\ Fairness

----------------------------------------------------------------------------
TypeOK ==
  /\ db \in 0 .. MaxDb /\ need \in BOOLEAN /\ manual \in BOOLEAN
  /\ file \in 0 .. MaxDb /\ cur \in Objects
  /\ ver \in [Objects -> 0 .. MaxDb] /\ alive \in [Objects -> BOOLEAN]
  /\ pc \in [Callers \cup Jobs -> {"idle", "restart", "stop", "flag"}]
  /\ holder \in Callers \cup {None}
  /\ step \in {"free", "config", "decide", "write", "stop", "start", "rollback", "flags", "stopping"}
  /\ snap \in 0 .. MaxDb /\ oldRunning \in BOOLEAN
  /\ checks \in 0 .. 2
  /\ committed \in [Admins \cup Jobs -> 0 .. MaxDb]
  /\ faults \in 0 .. MaxFaults /\ crashes \in 0 .. MaxCrashes
  /\ requested \in 0 .. MaxDb /\ safeReq \in 0 .. MaxDb /\ reported \in 0 .. MaxDb
  /\ stuck \in BOOLEAN

(* The steps of RestartXray, each but the first behind a read of the       *)
(* database.                                                               *)
LockInv ==
  /\ (step = "free") = (holder = None)
  /\ step \notin {"free", "stopping"} => pc[holder] = "restart"
  /\ step = "stopping" => pc[holder] = "stop" /\ holder \in Admins
  /\ \A x \in Admins \cup Jobs : committed[x] <= db
  /\ \A x \in Callers : pc[x] # "flag"
  /\ requested <= db /\ safeReq <= db /\ reported <= db

(* What the holder read is new enough for its own call, for every earlier  *)
(* report and for every request that came before the read.                 *)
SnapInv ==
  SnapshotTaken => /\ snap >= reported
                   /\ snap >= safeReq
                   /\ holder \in Admins => snap >= committed[holder]

(* Which process may be alive at which step. *)
ProcessInv ==
  /\ ~alive[Other(cur)]
  /\ step \in {"start", "rollback"} => ~alive[cur]
  /\ step = "write" /\ ~oldRunning => ~alive[cur]
  /\ step = "rollback" => ver[cur] = snap
  /\ step = "flags" => ver[cur] = snap

(* Which configuration is behind each object. *)
VersionInv ==
  /\ ver[cur] >= reported
  /\ need \/ ver[cur] >= safeReq
  /\ step = "rollback" => /\ ver[Other(cur)] >= reported
                          /\ need \/ ver[Other(cur)] >= safeReq

FileInv ==
  /\ step = "stop" => file = snap
  /\ Running /\ ~stuck /\ step # "stop" => file = ver[cur]

IInv == TypeOK /\ LockInv /\ SnapInv /\ ProcessInv /\ VersionInv /\ FileInv

(* Two Xray processes never run at once: the next one starts only after    *)
(* the old one has ended, in every error and rollback path.                *)
AtMostOneXray == ~(alive[1] /\ alive[2])

(* Once ApplyConfigChange has reported a change applied, the process the   *)
(* panel keeps is never again one with an older configuration, whatever    *)
(* restarts, failures and rollbacks follow (comment at xray.go:344).       *)
ReportedStaysApplied == holder = None => ver[cur] >= reported

(* Outside a restart config.json is what the running Xray was started      *)
(* with (the log jobs read the log paths from that file), except after a   *)
(* stop that timed out.                                                    *)
FileIsRunningConfig == holder = None /\ Running /\ ~stuck => file = ver[cur]

(* A deferred restart that was requested while no restart had already read *)
(* the database is not forgotten: the flag stays up until Xray was started *)
(* with that change, through any number of failed restarts.                *)
DeferredRestartKept == need \/ ver[cur] >= safeReq

(* The same of every request.  IsNeedRestart's comment (xray.go:460) says  *)
(* the flag reports whether a deferred restart is pending and is cleared   *)
(* only when a restart succeeds.  Not what the code does: a request that   *)
(* arrives after the restart has read the database is cleared with it.     *)
NoDeferredRestartLost == holder = None => need \/ ver[cur] >= requested

(* A crashed Xray comes back, or an administrator stops it: the watchdog   *)
(* gives up on no sequence of failed restarts.                             *)
CrashRecovered == ~Running ~> Running \/ manual

(* Whoever calls RestartXray or StopXray gets the lock and an answer. *)
EveryCallReturns == \A x \in Callers : pc[x] \in {"restart", "stop"} ~> pc[x] = "idle"
============================================================================
