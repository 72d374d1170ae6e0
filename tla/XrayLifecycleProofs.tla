------------------------ MODULE XrayLifecycleProofs ------------------------
(***************************************************************************)
(* What holds of XrayLifecycle for any numbers of administrators, watchdog *)
(* ticks, cron runs and jobs and any bounds.  IInv has one part per        *)
(* question: who holds the lock and may write to his own entries           *)
(* (LockInv), how new the configuration in the holder's hands is           *)
(* (SnapInv), which process can be alive at which line (ProcessInv), what  *)
(* each object was built from, the old one included while a rollback may   *)
(* bring it back (VersionInv), and what the file holds (FileInv).          *)
(***************************************************************************)
EXTENDS XrayLifecycle, TLAPS

(* The part of TypeOK that RestartXray's way out and its steps share. *)
CallTyped ==
  /\ holder \in Callers \cup {None}
  /\ step \in {"free", "config", "decide", "write", "stop", "start", "rollback", "flags", "stopping"}
  /\ pc \in [Callers \cup Jobs -> {"idle", "restart", "stop", "flag"}]
  /\ checks \in 0 .. 2
  /\ snap \in 0 .. MaxDb
  /\ oldRunning \in BOOLEAN

(* Releasing the lock leaves the callers' variables well typed. *)
LEMMA ReturnTyped ==
  ASSUME IInv, holder \in Callers, Return
  PROVE  CallTyped'
<1>1. oldRunning' \in BOOLEAN
  BY Zenon DEF Return
<1>2. pc' \in [Callers \cup Jobs -> {"idle", "restart", "stop", "flag"}]
  BY DEF IInv, TypeOK, Return
<1>3. /\ holder' \in Callers \cup {None}
      /\ step' = "free"
      /\ checks' \in 0 .. 2
      /\ snap' \in 0 .. MaxDb
  BY BoundsAssumption DEF IInv, TypeOK, Return
<1> QED BY <1>1, <1>2, <1>3 DEF CallTyped

(* A new commit is newer than every snapshot and belongs to no holder. *)
LEMMA AdminSavePreserves ==
  ASSUME IInv, NEW a \in Admins, AdminSave(a)
  PROVE  IInv'
<1>1. TypeOK'
    BY BoundsAssumption DEF IInv, TypeOK, AdminSave, Callers, procVars, lockVars
<1>2. LockInv'
    BY DEF IInv, LockInv, TypeOK, AdminSave, lockVars
<1>3. SnapInv'
    BY DEF IInv, SnapInv, LockInv, SnapshotTaken, AdminSave, lockVars
<1>4. ProcessInv'
    BY DEF IInv, ProcessInv, AdminSave, procVars, lockVars
<1>5. VersionInv'
    BY DEF IInv, VersionInv, AdminSave, procVars, lockVars
<1>6. FileInv'
    BY DEF IInv, FileInv, Running, AdminSave, procVars, lockVars
<1> QED BY <1>1, <1>2, <1>3, <1>4, <1>5, <1>6 DEF IInv

(* Waiting for the lock changes nothing a part speaks of. *)
LEMMA AdminRestartPreserves ==
  ASSUME IInv, NEW a \in Admins, AdminRestart(a)
  PROVE  IInv'
<1>1. TypeOK'
    BY DEF IInv, TypeOK, AdminRestart, procVars, lockVars
<1>2. LockInv'
    BY DEF IInv, LockInv, AdminRestart, lockVars
<1>3. SnapInv'
    BY DEF IInv, SnapInv, SnapshotTaken, AdminRestart, lockVars
<1>4. ProcessInv'
    BY DEF IInv, ProcessInv, AdminRestart, procVars, lockVars
<1>5. VersionInv'
    BY DEF IInv, VersionInv, AdminRestart, procVars, lockVars
<1>6. FileInv'
    BY DEF IInv, FileInv, Running, AdminRestart, procVars, lockVars
<1> QED BY <1>1, <1>2, <1>3, <1>4, <1>5, <1>6 DEF IInv

(* Waiting for the lock changes nothing a part speaks of. *)
LEMMA AdminStopPreserves ==
  ASSUME IInv, NEW a \in Admins, AdminStop(a)
  PROVE  IInv'
<1>1. TypeOK'
    BY DEF IInv, TypeOK, AdminStop, Callers, procVars, lockVars
<1>2. LockInv'
    BY DEF IInv, LockInv, AdminStop, lockVars
<1>3. SnapInv'
    BY DEF IInv, SnapInv, SnapshotTaken, AdminStop, lockVars
<1>4. ProcessInv'
    BY DEF IInv, ProcessInv, AdminStop, procVars, lockVars
<1>5. VersionInv'
    BY DEF IInv, VersionInv, AdminStop, procVars, lockVars
<1>6. FileInv'
    BY DEF IInv, FileInv, Running, AdminStop, procVars, lockVars
<1> QED BY <1>1, <1>2, <1>3, <1>4, <1>5, <1>6 DEF IInv

(* The lock is taken by an administrator's stop. *)
LEMMA StopLockPreserves ==
  ASSUME IInv, NEW a \in Admins, StopLock(a)
  PROVE  IInv'
<1>1. TypeOK'
    BY DEF IInv, TypeOK, StopLock, Callers, procVars
<1>2. LockInv'
    BY ActorsAssumption DEF IInv, LockInv, StopLock
<1>3. SnapInv'
    BY DEF IInv, SnapInv, SnapshotTaken, StopLock
<1>4. ProcessInv'
    BY DEF IInv, ProcessInv, StopLock, procVars
<1>5. VersionInv'
    BY DEF IInv, VersionInv, StopLock, procVars
<1>6. FileInv'
    BY DEF IInv, FileInv, Running, StopLock, procVars, LockInv
<1> QED BY <1>1, <1>2, <1>3, <1>4, <1>5, <1>6 DEF IInv

(* Jobs are no callers, so a job's commit is no holder's commit. *)
LEMMA JobCommitPreserves ==
  ASSUME IInv, NEW j \in Jobs, JobCommit(j)
  PROVE  IInv'
<1>1. TypeOK'
    BY BoundsAssumption DEF IInv, TypeOK, JobCommit, procVars, lockVars
<1>2. LockInv'
    BY ActorsAssumption DEF IInv, LockInv, TypeOK, JobCommit, Callers, lockVars
<1>3. SnapInv'
    BY DEF IInv, SnapInv, LockInv, SnapshotTaken, JobCommit, lockVars
<1>4. ProcessInv'
    BY DEF IInv, ProcessInv, Other, JobCommit, procVars, lockVars
<1>5. VersionInv'
    BY DEF IInv, VersionInv, JobCommit, procVars, lockVars
<1>6. FileInv'
    BY DEF IInv, FileInv, Running, JobCommit, procVars, lockVars
<1> QED BY <1>1, <1>2, <1>3, <1>4, <1>5, <1>6 DEF IInv

(* The flag goes up; safeReq moves only while no snapshot is taken. *)
LEMMA SetToNeedRestartPreserves ==
  ASSUME IInv, NEW j \in Jobs, SetToNeedRestart(j)
  PROVE  IInv'
<1>1. TypeOK'
    BY DEF IInv, TypeOK, Max2, SetToNeedRestart, procVars, lockVars
<1>2. LockInv'
    BY DEF IInv, LockInv, Max2, SetToNeedRestart, lockVars
<1>3. SnapInv'
    BY DEF IInv, SnapInv, SnapshotTaken, SetToNeedRestart, lockVars
<1>4. ProcessInv'
    BY DEF IInv, ProcessInv, SetToNeedRestart, procVars, lockVars
<1>5. VersionInv'
    BY DEF IInv, VersionInv, SetToNeedRestart, procVars, lockVars
<1>6. FileInv'
    BY DEF IInv, FileInv, Running, SetToNeedRestart, procVars, lockVars
<1> QED BY <1>1, <1>2, <1>3, <1>4, <1>5, <1>6 DEF IInv

(* Waiting for the lock changes nothing a part speaks of. *)
LEMMA CronTickPreserves ==
  ASSUME IInv, NEW k \in CronRuns, CronTick(k)
  PROVE  IInv'
<1>1. TypeOK'
    BY DEF IInv, TypeOK, CronTick, procVars, lockVars
<1>2. LockInv'
    BY DEF IInv, LockInv, CronTick, lockVars
<1>3. SnapInv'
    BY DEF IInv, SnapInv, SnapshotTaken, CronTick, lockVars
<1>4. ProcessInv'
    BY DEF IInv, ProcessInv, CronTick, procVars, lockVars
<1>5. VersionInv'
    BY DEF IInv, VersionInv, CronTick, procVars, lockVars
<1>6. FileInv'
    BY DEF IInv, FileInv, Running, CronTick, procVars, lockVars
<1> QED BY <1>1, <1>2, <1>3, <1>4, <1>5, <1>6 DEF IInv

(* A tick counts, and at most waits for the lock. *)
LEMMA WatchTickPreserves ==
  ASSUME IInv, NEW w \in Watchers, WatchTick(w)
  PROVE  IInv'
<1>1. TypeOK'
    BY DEF IInv, TypeOK, WatchTick, procVars, lockVars
<1>2. LockInv'
    BY DEF IInv, LockInv, TypeOK, WatchTick, lockVars
<1>3. SnapInv'
    BY DEF IInv, SnapInv, SnapshotTaken, WatchTick, lockVars
<1>4. ProcessInv'
    BY DEF IInv, ProcessInv, WatchTick, procVars, lockVars
<1>5. VersionInv'
    BY DEF IInv, VersionInv, WatchTick, procVars, lockVars
<1>6. FileInv'
    BY DEF IInv, FileInv, Running, WatchTick, procVars, lockVars
<1> QED BY <1>1, <1>2, <1>3, <1>4, <1>5, <1>6 DEF IInv

(* The lock is free, so no step was under way. *)
LEMMA RestartLockPreserves ==
  ASSUME IInv, NEW x \in Callers, RestartLock(x)
  PROVE  IInv'
<1>1. TypeOK'
    BY DEF IInv, TypeOK, RestartLock, procVars
<1>2. LockInv'
    BY ActorsAssumption DEF IInv, LockInv, RestartLock, Callers
<1>3. SnapInv'
    BY DEF IInv, SnapInv, SnapshotTaken, RestartLock
<1>4. ProcessInv'
    BY DEF IInv, ProcessInv, RestartLock, procVars
<1>5. VersionInv'
    BY DEF IInv, VersionInv, RestartLock, procVars
<1>6. FileInv'
    BY DEF IInv, FileInv, Running, RestartLock, procVars, LockInv
<1> QED BY <1>1, <1>2, <1>3, <1>4, <1>5, <1>6 DEF IInv

(* The snapshot is everything committed so far. *)
LEMMA RestartConfigPreserves ==
  ASSUME IInv, RestartConfig
  PROVE  IInv'
<1>1. holder \in Callers
  BY DEF IInv, TypeOK, LockInv, RestartConfig
<1>2. CallTyped'
  BY <1>1, ReturnTyped DEF IInv, TypeOK, CallTyped, Goto, RestartConfig
<1>3. TypeOK'
    BY <1>1, <1>2, BoundsAssumption DEF IInv, TypeOK, Fault, RestartConfig, procVars, CallTyped
<1>4. LockInv'
    BY <1>1 DEF IInv, LockInv, TypeOK, Return, Goto, RestartConfig
<1>5. SnapInv'
    BY DEF IInv, SnapInv, LockInv, SnapshotTaken, Return, RestartConfig
<1>6. ProcessInv'
    BY DEF IInv, ProcessInv, Return, Goto, RestartConfig, procVars
<1>7. VersionInv'
    BY DEF IInv, VersionInv, Return, Goto, RestartConfig, procVars
<1>8. FileInv'
    BY DEF IInv, FileInv, Running, Return, Goto, RestartConfig, procVars
<1> QED BY <1>3, <1>4, <1>5, <1>6, <1>7, <1>8 DEF IInv

(* Returning nil is possible only to a caller that is no administrator. *)
LEMMA RestartDecidePreserves ==
  ASSUME IInv, RestartDecide
  PROVE  IInv'
<1>1. holder \in Callers
  BY DEF IInv, TypeOK, LockInv, RestartDecide
<1>2. CallTyped'
  <2>1. CASE Succeed
    BY <1>1, <2>1, ReturnTyped DEF Succeed
  <2>2. CASE Goto("write") /\ oldRunning' = Running /\ UNCHANGED snap
    <3>1. Running \in BOOLEAN
      BY DEF IInv, TypeOK, Running
    <3>2. oldRunning' \in BOOLEAN
      BY <2>2, <3>1, Zenon
    <3> QED BY <2>2, <3>2 DEF IInv, TypeOK, CallTyped, Goto
  <2> QED BY <2>1, <2>2 DEF RestartDecide
<1>3. TypeOK'
    BY <1>1, <1>2 DEF IInv, TypeOK, Succeed, Max2, RestartDecide, procVars, CallTyped
<1>4. LockInv'
    BY <1>1 DEF IInv, LockInv, TypeOK, Return, Goto, Succeed, Max2, RestartDecide
<1>5. SnapInv'
    BY DEF IInv, SnapInv, SnapshotTaken, Return, Goto, Succeed, RestartDecide
<1>6. ProcessInv'
    BY DEF IInv, ProcessInv, Running, Return, Goto, Succeed, RestartDecide, procVars
<1>7. VersionInv'
    BY DEF IInv, TypeOK, VersionInv, SnapInv, LockInv, ProcessInv, SnapshotTaken, Objects, Other,
     Return, Goto, Forced, Succeed, Max2, RestartDecide, Callers, procVars, lockVars
<1>8. FileInv'
    BY DEF IInv, FileInv, Running, Other, Return, Goto, Succeed, RestartDecide, procVars
<1> QED BY <1>3, <1>4, <1>5, <1>6, <1>7, <1>8 DEF IInv

(* The file becomes the snapshot; a start without a stop finds no process. *)
LEMMA RestartWritePreserves ==
  ASSUME IInv, RestartWrite
  PROVE  IInv'
<1>1. holder \in Callers
  BY DEF IInv, TypeOK, LockInv, RestartWrite
<1>2. CallTyped'
  BY <1>1, ReturnTyped DEF IInv, TypeOK, CallTyped, Goto, RestartWrite
<1>3. TypeOK'
    BY <1>1, <1>2, BoundsAssumption DEF IInv, TypeOK, Fault, RestartWrite, CallTyped
<1>4. LockInv'
    BY <1>1 DEF IInv, LockInv, TypeOK, Return, Goto, RestartWrite
<1>5. SnapInv'
    BY DEF IInv, SnapInv, SnapshotTaken, Return, Goto, RestartWrite
<1>6. ProcessInv'
    BY DEF IInv, ProcessInv, Return, Goto, RestartWrite
<1>7. VersionInv'
    BY DEF IInv, VersionInv, Return, Goto, RestartWrite
<1>8. FileInv'
    BY DEF IInv, FileInv, ProcessInv, Running, Return, Goto, RestartWrite
<1> QED BY <1>3, <1>4, <1>5, <1>6, <1>7, <1>8 DEF IInv

(* Only a process that has ended lets the restart go on. *)
LEMMA RestartStopPreserves ==
  ASSUME IInv, RestartStop
  PROVE  IInv'
<1>1. holder \in Callers
  BY DEF IInv, TypeOK, LockInv, RestartStop
<1>2. CallTyped'
  BY <1>1, ReturnTyped DEF IInv, TypeOK, CallTyped, Goto, RestartStop
<1>3. /\ cur' \in Objects /\ file' \in 0 .. MaxDb
  BY DEF RestartStop, IInv, TypeOK
<1>4. /\ alive' \in [Objects -> BOOLEAN] /\ ver' \in [Objects -> 0 .. MaxDb]
  BY DEF RestartStop, IInv, TypeOK
<1>5. stuck' \in BOOLEAN
  BY Zenon DEF RestartStop, IInv, TypeOK
<1>6. faults' \in 0 .. MaxFaults
  BY BoundsAssumption DEF RestartStop, IInv, TypeOK, Fault
<1>7. UNCHANGED <<db, need, manual, committed, crashes, requested, safeReq, reported>>
  BY DEF RestartStop
<1>8. TypeOK'
  BY <1>2, <1>3, <1>4, <1>5, <1>6, <1>7 DEF IInv, TypeOK, CallTyped
<1>9. LockInv'
    BY <1>1 DEF IInv, LockInv, TypeOK, Return, Goto, RestartStop
<1>10. SnapInv'
    BY DEF IInv, SnapInv, TypeOK, SnapshotTaken, Return, Goto, RestartStop
<1>11. ProcessInv'
    BY DEF IInv, ProcessInv, TypeOK, Objects, Other, Return, Goto, RestartStop
<1>12. VersionInv'
    BY DEF IInv, VersionInv, Return, Goto, RestartStop
<1>13. FileInv'
    BY DEF IInv, FileInv, TypeOK, ProcessInv, Running, Return, RestartStop
<1> QED BY <1>8, <1>9, <1>10, <1>11, <1>12, <1>13 DEF IInv

(* The object that takes over is as new as the snapshot. *)
LEMMA RestartStartPreserves ==
  ASSUME IInv, RestartStart
  PROVE  IInv'
<1>1. holder \in Callers
  BY DEF IInv, TypeOK, LockInv, RestartStart
<1>2. CallTyped'
  BY <1>1, ReturnTyped DEF IInv, TypeOK, CallTyped, Goto, RestartStart
<1>3. /\ cur' \in Objects /\ file' \in 0 .. MaxDb
  BY DEF RestartStart, IInv, TypeOK, Objects, Other
<1>4. /\ alive' \in [Objects -> BOOLEAN] /\ ver' \in [Objects -> 0 .. MaxDb]
  BY DEF RestartStart, IInv, TypeOK, Objects
<1>5. stuck' \in BOOLEAN
  BY Zenon DEF RestartStart, IInv, TypeOK
<1>6. faults' \in 0 .. MaxFaults
  BY BoundsAssumption DEF RestartStart, IInv, TypeOK, Fault
<1>7. UNCHANGED <<db, need, manual, committed, crashes, requested, safeReq, reported>>
  BY DEF RestartStart
<1>8. TypeOK'
  BY <1>2, <1>3, <1>4, <1>5, <1>6, <1>7 DEF IInv, TypeOK, CallTyped
<1>9. LockInv'
    BY <1>1 DEF IInv, LockInv, TypeOK, Return, Goto, Fault, RestartStart, lockVars
<1>10. SnapInv'
    BY DEF IInv, SnapInv, SnapshotTaken, Return, Goto, RestartStart, procVars
<1>11. ProcessInv'
    BY DEF IInv, ProcessInv, TypeOK, Objects, Other, Return, Goto, RestartStart, lockVars
<1>12. VersionInv'
    BY DEF IInv, VersionInv, TypeOK, SnapInv, SnapshotTaken, Objects, Other, Goto, Fault,
       RestartStart, Callers, procVars
<1>13. FileInv'
    BY DEF IInv, FileInv, TypeOK, Objects, Other, Return, RestartStart, lockVars
<1> QED BY <1>8, <1>9, <1>10, <1>11, <1>12, <1>13 DEF IInv

(* The object that comes back is as new as every report before it. *)
LEMMA RestartRollbackPreserves ==
  ASSUME IInv, RestartRollback
  PROVE  IInv'
<1>1. holder \in Callers
  BY DEF IInv, TypeOK, LockInv, RestartRollback
<1>2. CallTyped'
  BY <1>1, ReturnTyped DEF IInv, CallTyped, RestartRollback
<1>3. /\ cur' \in Objects /\ file' \in 0 .. MaxDb
  BY DEF RestartRollback, IInv, TypeOK, Objects, Other
<1>4. /\ alive' \in [Objects -> BOOLEAN] /\ ver' \in [Objects -> 0 .. MaxDb]
  BY DEF RestartRollback, IInv, TypeOK
<1>5. stuck' \in BOOLEAN
  BY Zenon DEF RestartRollback, IInv, TypeOK
<1>6. faults' \in 0 .. MaxFaults
  BY BoundsAssumption DEF RestartRollback, IInv, TypeOK, Fault
<1>7. UNCHANGED <<db, need, manual, committed, crashes, requested, safeReq, reported>>
  BY DEF RestartRollback
<1>8. TypeOK'
  BY <1>2, <1>3, <1>4, <1>5, <1>6, <1>7 DEF IInv, TypeOK, CallTyped
<1>9. LockInv'
    BY <1>1 DEF IInv, LockInv, Return, RestartRollback
<1>10. SnapInv'
    BY DEF IInv, SnapInv, SnapshotTaken, Return, RestartRollback
<1>11. ProcessInv'
    BY DEF IInv, ProcessInv, TypeOK, Objects, Other, Return, RestartRollback
<1>12. VersionInv'
    BY DEF IInv, VersionInv, Return, RestartRollback
<1>13. FileInv'
    BY DEF IInv, FileInv, ProcessInv, Running, Return, RestartRollback
<1> QED BY <1>8, <1>9, <1>10, <1>11, <1>12, <1>13 DEF IInv

(* The flags are cleared for a process as new as the snapshot. *)
LEMMA RestartDonePreserves ==
  ASSUME IInv, RestartDone
  PROVE  IInv'
<1>1. holder \in Callers
  BY DEF IInv, TypeOK, LockInv, RestartDone
<1>2. CallTyped'
  BY <1>1, ReturnTyped DEF IInv, CallTyped, Succeed, RestartDone
<1>3. TypeOK'
    BY <1>1, <1>2 DEF IInv, TypeOK, Succeed, Max2, RestartDone, procVars, CallTyped
<1>4. LockInv'
    BY <1>1 DEF IInv, LockInv, Succeed, Max2, Return, RestartDone
<1>5. SnapInv'
    BY DEF IInv, SnapInv, SnapshotTaken, Succeed, Return, RestartDone
<1>6. ProcessInv'
    BY DEF IInv, ProcessInv, Succeed, Return, RestartDone, procVars
<1>7. VersionInv'
    BY DEF IInv, VersionInv, SnapInv, ProcessInv, SnapshotTaken, Succeed, Max2, Return,
       RestartDone, procVars
<1>8. FileInv'
    BY DEF IInv, FileInv, Running, Succeed, Return, RestartDone, procVars
<1> QED BY <1>3, <1>4, <1>5, <1>6, <1>7, <1>8 DEF IInv

(* A stop starts nothing. *)
LEMMA StopDonePreserves ==
  ASSUME IInv, StopDone
  PROVE  IInv'
<1>1. holder \in Callers
  BY DEF IInv, TypeOK, LockInv, StopDone
<1>2. CallTyped'
  BY <1>1, ReturnTyped DEF IInv, CallTyped, StopDone
<1>3. /\ cur' \in Objects /\ file' \in 0 .. MaxDb
  BY DEF StopDone, IInv, TypeOK
<1>4. /\ alive' \in [Objects -> BOOLEAN] /\ ver' \in [Objects -> 0 .. MaxDb]
  BY DEF StopDone, IInv, TypeOK
<1>5. stuck' \in BOOLEAN
  BY Zenon DEF StopDone, IInv, TypeOK
<1>6. faults' \in 0 .. MaxFaults
  BY BoundsAssumption DEF StopDone, IInv, TypeOK, Fault
<1>7. UNCHANGED <<db, need, manual, committed, crashes, requested, safeReq, reported>>
  BY DEF StopDone
<1>8. TypeOK'
  BY <1>2, <1>3, <1>4, <1>5, <1>6, <1>7 DEF IInv, TypeOK, CallTyped
<1>9. LockInv'
    BY <1>1 DEF IInv, LockInv, Return, StopDone
<1>10. SnapInv'
    BY DEF IInv, SnapInv, SnapshotTaken, Return, StopDone
<1>11. ProcessInv'
    BY DEF IInv, ProcessInv, TypeOK, Objects, Other, Return, StopDone
<1>12. VersionInv'
    BY DEF IInv, VersionInv, Return, StopDone
<1>13. FileInv'
    BY DEF IInv, FileInv, Running, Return, StopDone
<1> QED BY <1>8, <1>9, <1>10, <1>11, <1>12, <1>13 DEF IInv

(* A dead process breaks no part. *)
LEMMA CrashPreserves ==
  ASSUME IInv, Crash
  PROVE  IInv'
<1>1. TypeOK'
    BY BoundsAssumption DEF IInv, TypeOK, Crash, lockVars
<1>2. LockInv'
    BY DEF IInv, LockInv, Crash, lockVars
<1>3. SnapInv'
    BY DEF IInv, SnapInv, SnapshotTaken, Crash, lockVars
<1>4. ProcessInv'
    BY DEF IInv, ProcessInv, Crash, lockVars
<1>5. VersionInv'
    BY DEF IInv, VersionInv, Crash, lockVars
<1>6. FileInv'
    BY DEF IInv, FileInv, Crash, lockVars
<1> QED BY <1>1, <1>2, <1>3, <1>4, <1>5, <1>6 DEF IInv

(* The initial state. *)
LEMMA InitEstablishes == Init => IInv
<1> SUFFICES ASSUME Init PROVE IInv
  OBVIOUS
<1>1. TypeOK
  <2>1. need \in BOOLEAN /\ manual \in BOOLEAN /\ oldRunning \in BOOLEAN /\ stuck \in BOOLEAN
    BY Zenon DEF Init
  <2>2. pc \in [Callers \cup Jobs -> {"idle", "restart", "stop", "flag"}]
    BY DEF Init
  <2>3. ver \in [Objects -> 0 .. MaxDb] /\ committed \in [Admins \cup Jobs -> 0 .. MaxDb]
    BY BoundsAssumption DEF Init
  <2>4. alive \in [Objects -> BOOLEAN]
    BY DEF Init
  <2>5. /\ db = 0 /\ file = 0 /\ cur = 1 /\ snap = 0 /\ checks = 0 /\ faults = 0 /\ crashes = 0
        /\ requested = 0 /\ safeReq = 0 /\ reported = 0 /\ holder = None /\ step = "free"
    BY DEF Init
  <2> QED BY <2>1, <2>2, <2>3, <2>4, <2>5, BoundsAssumption DEF TypeOK, Objects
<1>2. LockInv
  BY DEF Init, LockInv
<1>3. SnapInv
  BY DEF Init, SnapInv
<1>4. /\ cur = 1 /\ ver[1] = 0 /\ step = "free"
      /\ file = 0 /\ reported = 0 /\ safeReq = 0
  BY DEF Init, Objects
<1>5. ~alive[2]
  <2>1. alive = [o \in Objects |-> o = 1]
    BY DEF Init
  <2>2. 2 \in Objects
    BY DEF Objects
  <2>3. alive[2] = (2 = 1)
    BY <2>1, <2>2, Zenon
  <2>4. 2 # 1
    OBVIOUS
  <2> QED BY <2>3, <2>4, Zenon
<1>6. ProcessInv /\ VersionInv /\ FileInv
  BY <1>4, <1>5 DEF ProcessInv, VersionInv, FileInv, Other
<1> QED BY <1>1, <1>2, <1>3, <1>6 DEF IInv

(* IInv holds in every state: the lemmas above, action by action. *)
THEOREM Inductive == Spec => []IInv
<1>1. ASSUME IInv, [Next]_vars PROVE IInv'
  <2>1. CASE UNCHANGED vars
    BY <1>1, <2>1 DEF IInv, TypeOK, LockInv, SnapInv, ProcessInv, VersionInv, FileInv, Running,
       SnapshotTaken, vars, procVars, lockVars, Objects, Other
  <2>2. CASE \E a \in Admins : AdminSave(a) \/ AdminRestart(a) \/ AdminStop(a) \/ StopLock(a)
    BY <1>1, <2>2, AdminSavePreserves, AdminRestartPreserves, AdminStopPreserves,
       StopLockPreserves
  <2>3. CASE \E j \in Jobs : JobCommit(j) \/ SetToNeedRestart(j)
    BY <1>1, <2>3, JobCommitPreserves, SetToNeedRestartPreserves
  <2>4. CASE \E k \in CronRuns : CronTick(k)
    BY <1>1, <2>4, CronTickPreserves
  <2>5. CASE \E w \in Watchers : WatchTick(w)
    BY <1>1, <2>5, WatchTickPreserves
  <2>6. CASE \E x \in Callers : RestartLock(x)
    BY <1>1, <2>6, RestartLockPreserves
  <2>7. CASE Holder
    BY <1>1, <2>7, RestartConfigPreserves, RestartDecidePreserves, RestartWritePreserves,
       RestartStopPreserves, RestartStartPreserves, RestartRollbackPreserves, RestartDonePreserves,
       StopDonePreserves DEF Holder
  <2>8. CASE Crash
    BY <1>1, <2>8, CrashPreserves
  <2> QED BY <1>1, <2>1, <2>2, <2>3, <2>4, <2>5, <2>6, <2>7, <2>8 DEF Next
<1> QED BY <1>1, InitEstablishes, PTL DEF Spec

(* Process.Stop's errors end a restart before the next process is started, *)
(* and a rollback starts the old object only when the next one did not     *)
(* start: two Xray processes never run at once.                            *)
THEOREM OneXray == Spec => []AtMostOneXray
<1>1. IInv => AtMostOneXray
  BY DEF IInv, TypeOK, ProcessInv, AtMostOneXray, Objects, Other
<1> QED BY <1>1, Inductive, PTL

(* What ApplyConfigChange has reported applied stays applied. *)
THEOREM ReportedHolds == Spec => []ReportedStaysApplied
<1>1. IInv => ReportedStaysApplied
  BY DEF IInv, VersionInv, ReportedStaysApplied
<1> QED BY <1>1, Inductive, PTL

(* config.json is what the running Xray was started with. *)
THEOREM FileMatches == Spec => []FileIsRunningConfig
<1>1. IInv => FileIsRunningConfig
  BY DEF IInv, LockInv, FileInv, FileIsRunningConfig
<1> QED BY <1>1, Inductive, PTL

(* A restart that was asked for before the database was read is not lost,  *)
(* however many restarts fail before one succeeds.                         *)
THEOREM DeferredKept == Spec => []DeferredRestartKept
<1>1. IInv => DeferredRestartKept
  BY DEF IInv, VersionInv, DeferredRestartKept
<1> QED BY <1>1, Inductive, PTL
============================================================================
