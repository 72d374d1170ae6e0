------------------------- MODULE ClientTrafficProofs -------------------------
(***************************************************************************)
(* What holds of ClientTraffic for any clients, handlers, ticks and        *)
(* bounds:                                                                 *)
(*   OffStaysOff  - a client without renewal that the panel has reported   *)
(*     switched off is not served again;                                   *)
(*   BilledOnce   - no traffic is accounted for twice;                     *)
(*   OffIsCut     - a client that is off does not go on being served with  *)
(*     nobody about to restart Xray;                                       *)
(*   OnIsServed   - a client reported switched on is served.               *)
(* Each has a section, which begins with the invariant it needs beyond     *)
(* IInv, the inductive invariant of the first.  There, from the update on  *)
(* the settings and the record of the client are off and no handler has    *)
(* read them on (Down), the restart of the handler generates a             *)
(* configuration without it (AskInv), and what later restarts and          *)
(* AddTraffic read is without it too (OffInv).                             *)
(***************************************************************************)
EXTENDS ClientTraffic, FiniteSetTheorems, TLAPS

(* Helpers of the model return what they should. *)
LEMMA WithTyped ==
  ASSUME NEW S \in SUBSET Clients, NEW c \in Clients, NEW on
  PROVE  With(S, c, on) \in SUBSET Clients
  BY DEF With

(* Of a task only sole changes while it runs. *)
LEMMA SoleTyped ==
  ASSUME NEW r \in Tasks, NEW s \in BOOLEAN
  PROVE  [r EXCEPT !.sole = s] \in Tasks
  BY DEF Tasks

(* What AddTraffic returns: typed; without a renewal nothing is switched   *)
(* on; nothing is switched off unnoticed; and Xray is told only of clients *)
(* that are on.                                                            *)
Returned(r) ==
  /\ r.usage \in [Clients -> Nat] /\ r.expiry \in [Clients -> Int] /\ r.setExpiry \in [Clients -> Int]
  /\ r.rowOn \subseteq Clients /\ r.setOn \subseteq Clients /\ r.recOn \subseteq Clients
  /\ r.served \subseteq Clients
  /\ r.disabled \/ rowOn \subseteq r.rowOn
  /\ r.served \subseteq served \cup (r.rowOn \cap r.recOn)
  /\ \A c \in Clients : Period[c] = 0 =>
       /\ c \in r.rowOn => c \in rowOn
       /\ c \in r.rowOn /\ c \in setOn => c \in r.setOn
       /\ c \in r.rowOn /\ c \in setOn /\ c \in recOn => c \in r.recOn
       /\ c \in r.setOn => c \in setOn
       /\ c \in r.recOn => c \in setOn \/ c \in recOn
       /\ c \in r.served => c \in served

(* Usages with deltas added, and a renewed expiry, are numbers. *)
LEMMA PlusTyped ==
  ASSUME NEW f \in [Clients -> Nat], NEW del, DOMAIN del \subseteq Clients, del \in [DOMAIN del -> Nat]
  PROVE  Plus(f, del) \in [Clients -> Nat]
<1> SUFFICES ASSUME NEW c \in Clients PROVE (IF c \in DOMAIN del THEN f[c] + del[c] ELSE f[c]) \in Nat
  BY DEF Plus
<1>1. CASE c \in DOMAIN del
  BY <1>1
<1> QED BY <1>1

LEMMA RenewedTyped ==
  ASSUME now \in Nat, NEW e \in Int, NEW days \in Nat, days > 0
  PROVE  Renewed(e, days) \in Int
<1>1. (now - e + days - 1) \div days \in Int
  OBVIOUS
<1> QED BY <1>1 DEF Renewed

(* What AddTraffic returns, whatever deltas it is given. *)
LEMMA AddTrafficReturns ==
  ASSUME DbOK, served \subseteq Clients, now \in Nat, NEW ok \in BOOLEAN,
         NEW del, DOMAIN del \subseteq Clients, del \in [DOMAIN del -> Nat]
  PROVE  Returned(AddTraffic(del, ok))
<1> DEFINE begun   == {c \in DOMAIN del : expiry[c] < 0}
           begins(e) == [c \in Clients |-> IF c \in begun THEN now - setExpiry[c] ELSE e[c]]
           rowEnd  == begins(expiry)
           renewed == {c \in Clients : Period[c] > 0 /\ 0 < rowEnd[c] /\ rowEnd[c] <= now}
           renews(e) == [c \in Clients |-> IF c \in renewed THEN Renewed(rowEnd[c], Period[c]) ELSE e[c]]
           left    == [c \in Clients |-> IF c \in renewed THEN 0 ELSE Plus(usage, del)[c]]
           revived == renewed \ rowOn
           rows    == rowOn \cup renewed
           sets    == setOn \cup revived
           recs    == IF begun \cup renewed # {} THEN sets ELSE recOn
           spent   == {c \in rows : Exhausted(c, left[c], renews(rowEnd)[c])}
           r == AddTraffic(del, ok)
<1>1. renewed \subseteq Clients /\ \A c \in renewed : Period[c] > 0
  BY NumbersAssumption
<1>2. \A e \in [Clients -> Int] : begins(e) \in [Clients -> Int]
  BY DEF DbOK
<1>3. rowEnd \in [Clients -> Int] /\ begins(setExpiry) \in [Clients -> Int]
  BY <1>2 DEF DbOK
<1> HIDE DEF begins, begun
<1>4. \A e \in [Clients -> Int] : renews(e) \in [Clients -> Int]
  <2> SUFFICES ASSUME NEW e \in [Clients -> Int], NEW c \in Clients
               PROVE (IF c \in renewed THEN Renewed(rowEnd[c], Period[c]) ELSE e[c]) \in Int
    BY NumbersAssumption
  <2>1. CASE c \in renewed
    <3>1. rowEnd[c] \in Int /\ Period[c] \in Nat /\ Period[c] > 0
      BY NumbersAssumption, <1>1, <1>3, <2>1
    <3>2. Renewed(rowEnd[c], Period[c]) \in Int
      BY <3>1, RenewedTyped
    <3> QED BY <2>1, <3>2
  <2>2. CASE c \notin renewed
    BY <2>2
  <2> QED BY <2>1, <2>2
<1>5. left \in [Clients -> Nat]
  BY PlusTyped DEF DbOK
<1> HIDE DEF renewed, rowEnd
<1>6. /\ r.usage = left /\ r.expiry = renews(rowEnd) /\ r.setExpiry = renews(begins(setExpiry))
      /\ r.rowOn = rows \ spent /\ r.setOn = sets \ spent /\ r.recOn = recs \ spent
      /\ r.served = IF ok THEN (served \cup revived) \ spent ELSE served
      /\ r.disabled = (spent # {})
  BY DEF AddTraffic, begun, begins, rowEnd, renewed
<1> HIDE DEF spent, renews, left, r
<1>7. r.usage \in [Clients -> Nat] /\ r.expiry \in [Clients -> Int] /\ r.setExpiry \in [Clients -> Int]
  BY <1>3, <1>4, <1>5, <1>6
<1>8. /\ r.rowOn \subseteq Clients /\ r.setOn \subseteq Clients /\ r.recOn \subseteq Clients
      /\ r.served \subseteq Clients
  BY <1>1, <1>6 DEF DbOK
<1>9. ASSUME NEW c \in Clients, Period[c] = 0
      PROVE  /\ c \in r.rowOn => c \in rowOn
             /\ c \in r.rowOn /\ c \in setOn => c \in r.setOn
             /\ c \in r.rowOn /\ c \in setOn /\ c \in recOn => c \in r.recOn
             /\ c \in r.setOn => c \in setOn
             /\ c \in r.recOn => c \in setOn \/ c \in recOn
             /\ c \in r.served => c \in served
  <2>1. c \notin renewed
    BY <1>1, <1>9
  <2> QED BY <1>6, <2>1
<1>10. r.disabled \/ rowOn \subseteq r.rowOn
  BY <1>6
<1>11. r.served \subseteq served \cup (r.rowOn \cap r.recOn)
  <2>1. \A c \in revived \ spent : c \in r.rowOn /\ c \in r.recOn
    BY <1>6
  <2>2. r.served \subseteq served \cup (revived \ spent)
    BY <1>6
  <2> QED BY <2>1, <2>2
<1> QED BY <1>7, <1>8, <1>9, <1>10, <1>11 DEF Returned, r

(* A step that commits what AddTraffic returns, or rolls it back, keeps    *)
(* off who is off.                                                         *)
LEMMA AddTrafficKeepsOff ==
  ASSUME IInv, NEW r, Returned(r), Commit(r) \/ UNCHANGED dbVars, served' = r.served \/ served' = served,
         UNCHANGED <<task, view, snap, config, off>>, \A a \in Admins : pc'[a] = pc[a] \/ pc'[a] = "idle",
         Snapped' => Snapped /\ holder' = holder
  PROVE  /\ \A a \in Admins : Asks(a)' => AskInv(a)'
         /\ \A c \in off' : OffInv(c)'
<1>1. ASSUME NEW c \in Clients, Period[c] = 0, Down(c) PROVE Down(c)'
  BY <1>1 DEF Returned, Commit, dbVars, Down
<1>2. \A c \in Clients : NoWish(c) => NoWish(c)'
  BY DEF NoWish
<1>3. ASSUME NEW a \in Admins, Asks(a)' PROVE AskInv(a)'
  <2>1. Asks(a) /\ AskInv(a) /\ task[a].c \in Clients
    BY <1>3 DEF IInv, TypeOK, LocalOK, Asks
  <2> QED BY <1>1, <1>2, <2>1 DEF AskInv
<1>4. ASSUME NEW c \in off' PROVE OffInv(c)'
  <2>1. c \in Clients /\ OffInv(c)
    BY <1>4 DEF IInv, TypeOK, HistoryOK
  <2> QED BY <1>1, <1>2, <2>1 DEF OffInv, Returned
<1> QED BY <1>3, <1>4

(* One lemma for each action: it preserves the invariant. *)
LEMMA TrafficKeeps ==
  ASSUME IInv, NEW c \in Clients, Traffic(c)
  PROVE  IInv'
<1>1. DbOK' /\ XrayOK' /\ LockOK' /\ HistoryOK'
  BY DEF IInv, TypeOK, DbOK, dbVars, Traffic, XrayOK, LockOK, restartVars, HistoryOK
<1>2. LocalOK'
  BY DEF IInv, TypeOK, LocalOK, localVars, Traffic
<1>3. LockInv'
  BY DEF IInv, TypeOK, LockInv, restartVars, Traffic
<1>4. \A b \in Admins : Asks(b)' => AskInv(b)'
  BY DEF IInv, TypeOK, Asks, AskInv, Down, NoWish, Snapped, dbVars, localVars, restartVars,
     Traffic
<1>5. \A d \in off' : OffInv(d)'
  BY DEF IInv, TypeOK, OffInv, Down, NoWish, Snapped, dbVars, localVars, restartVars, Traffic
<1> QED BY <1>1, <1>2, <1>3, <1>4, <1>5 DEF IInv, TypeOK

LEMMA NextDayKeeps ==
  ASSUME IInv, NextDay
  PROVE  IInv'
<1>1. DbOK' /\ XrayOK' /\ LockOK' /\ HistoryOK'
  BY DEF IInv, TypeOK, DbOK, dbVars, NextDay, XrayOK, LockOK, restartVars, HistoryOK
<1>2. LocalOK'
  BY DEF IInv, TypeOK, LocalOK, localVars, NextDay
<1>3. LockInv'
  BY DEF IInv, TypeOK, LockInv, restartVars, NextDay
<1>4. \A b \in Admins : Asks(b)' => AskInv(b)'
  BY DEF IInv, TypeOK, Asks, AskInv, Down, NoWish, Snapped, dbVars, localVars, restartVars,
     NextDay
<1>5. \A d \in off' : OffInv(d)'
  BY DEF IInv, TypeOK, OffInv, Down, NoWish, Snapped, dbVars, localVars, restartVars, NextDay
<1> QED BY <1>1, <1>2, <1>3, <1>4, <1>5 DEF IInv, TypeOK

LEMMA TickReadKeeps ==
  ASSUME IInv, NEW t \in Ticks, TickRead(t)
  PROVE  IInv'
<1>1. DbOK' /\ XrayOK' /\ LockOK' /\ HistoryOK'
  BY DEF IInv, TypeOK, DbOK, dbVars, TickRead, Remembered, XrayOK, LockOK, restartVars, HistoryOK
<1>2. LocalOK'
  <2>1. pc' \in [Callers -> States]
    BY DEF IInv, TypeOK, LocalOK, States, TickRead, Become
  <2>2. task' \in [Admins -> Tasks]
    BY DEF IInv, TypeOK, LocalOK, TickRead
  <2>3. \A b \in Admins : pc'[b] # "idle" => task'[b].c \in Clients
    BY KindsAssumption DEF IInv, TypeOK, LocalOK, TickRead, Become
  <2>4. \A b \in Admins : pc'[b] \in {"reset", "save"} => task'[b].op = "reset"
    BY DEF IInv, TypeOK, LocalOK, TickRead, Become
  <2>5. seen' \in [Admins -> [on : BOOLEAN, expiry : Int]]
    BY DEF IInv, TypeOK, LocalOK, TickRead
  <2>6. view' \in [Admins -> Views]
    BY DEF IInv, TypeOK, LocalOK, TickRead
  <2>7. batch' = [u \in Ticks |-> batch'[u]] /\ flags' \in [Ticks -> BOOLEAN]
    BY DEF IInv, TypeOK, LocalOK, TickRead
  <2>8. \A u \in Ticks : DOMAIN batch'[u] \subseteq Clients /\ batch'[u] \in [DOMAIN batch'[u] -> Nat]
    BY DEF IInv, TypeOK, LocalOK, XrayOK, TickRead, Delta, Counted
  <2> QED BY <2>1, <2>2, <2>3, <2>5, <2>6, <2>7, <2>8, <2>4 DEF LocalOK
<1>3. LockInv'
  BY DEF IInv, TypeOK, LockInv, restartVars, TickRead, Become
<1>4. \A b \in Admins : Asks(b)' => AskInv(b)'
  BY KindsAssumption DEF IInv, TypeOK, Asks, AskInv, Down, NoWish, Snapped, dbVars, restartVars,
     TickRead, Become
<1>5. \A d \in off' : OffInv(d)'
  BY KindsAssumption DEF IInv, TypeOK, OffInv, Down, NoWish, Snapped, dbVars, restartVars,
     TickRead, Become
<1> QED BY <1>1, <1>2, <1>3, <1>4, <1>5 DEF IInv, TypeOK

LEMMA TickAddKeeps ==
  ASSUME IInv, NEW t \in Ticks, TickAdd(t)
  PROVE  IInv'
<1>1. DOMAIN batch[t] \subseteq Clients /\ batch[t] \in [DOMAIN batch[t] -> Nat]
  BY DEF IInv, TypeOK, LocalOK
<1>2. \A ok \in BOOLEAN : Returned(AddTraffic(batch[t], ok))
  BY <1>1, AddTrafficReturns DEF IInv, TypeOK, XrayOK, HistoryOK
<1>3. PICK ok \in BOOLEAN : LET r == AddTraffic(batch[t], ok)
                             IN /\ ApiCall(ok) /\ Commit(r) /\ served' = r.served /\ AfterAdd(t, r)
                                /\ unasked' = unasked \cup Unsynced(r)
  BY DEF TickAdd
<1> DEFINE r == AddTraffic(batch[t], ok)
<1>4. /\ Returned(r) /\ ApiCall(ok) /\ Commit(r) /\ served' = r.served /\ AfterAdd(t, r)
      /\ unasked' = unasked \cup Unsynced(r)
  BY <1>2, <1>3
<1>5. r.need \in BOOLEAN
  BY DEF AddTraffic
<1>6. \A a \in Admins : t # a /\ pc'[a] = pc[a]
  <2>1. AfterAdd(t, [need |-> FALSE, disabled |-> FALSE]) \/ AfterAdd(t, r)
    BY <1>4
  <2>2. \E at : pc' = [pc EXCEPT ![t] = at]
    BY <2>1, Zenon DEF AfterAdd, Become
  <2> QED BY <2>2, KindsAssumption DEF IInv, TypeOK
<1> HIDE DEF r
<1>7. DbOK'
  BY <1>4 DEF IInv, TypeOK, DbOK, Returned, Commit, TickAdd
<1>8. XrayOK'
  BY <1>4 DEF IInv, TypeOK, XrayOK, Returned, TickAdd
<1>9. LockOK'
  BY DEF IInv, TypeOK, LockOK, restartVars, TickAdd
<1>10. LocalOK'
  <2>1. AfterAdd(t, [need |-> FALSE, disabled |-> FALSE]) \/ AfterAdd(t, r)
    BY <1>4
  <2>2. pc' \in [Callers -> States]
    BY <2>1 DEF IInv, TypeOK, LocalOK, AfterAdd, Become, States
  <2>3. flags' \in [Ticks -> BOOLEAN]
    BY <1>5, <2>1 DEF IInv, TypeOK, LocalOK, AfterAdd
  <2>4. batch' = [batch EXCEPT ![t] = NoTraffic]
    BY <2>1 DEF AfterAdd
  <2>5. batch' = [u \in Ticks |-> batch'[u]]
    BY <2>4 DEF IInv, TypeOK, LocalOK
  <2>6. \A u \in Ticks : DOMAIN batch'[u] \subseteq Clients /\ batch'[u] \in [DOMAIN batch'[u] -> Nat]
    BY <2>4 DEF IInv, TypeOK, LocalOK, NoTraffic
  <2> QED BY <1>6, <2>2, <2>3, <2>5, <2>6 DEF IInv, TypeOK, LocalOK, TickAdd
<1>11. HistoryOK'
  <2>1. billed' \in [Clients -> Nat]
    BY <1>1, PlusTyped DEF IInv, TypeOK, HistoryOK, TickAdd
  <2>2. events' \in Nat
    BY <1>4 DEF IInv, TypeOK, HistoryOK, ApiCall
  <2>3. unasked' \subseteq Clients
    BY <1>4 DEF IInv, TypeOK, HistoryOK, DbOK, Unsynced
  <2> QED BY <2>1, <2>2, <2>3 DEF IInv, TypeOK, HistoryOK, TickAdd
<1>12. LockInv'
  BY DEF IInv, TypeOK, LockOK, LockInv, restartVars, TickAdd, Become, AfterAdd
<1>13. /\ \A b \in Admins : Asks(b)' => AskInv(b)'
      /\ \A d \in off' : OffInv(d)'
  <2>1. \A b \in Admins : pc'[b] = pc[b] \/ pc'[b] = "idle"
    BY <1>6 DEF IInv, TypeOK, TickAdd
  <2>2. UNCHANGED <<task, view, snap, config, off>> /\ (Snapped' => Snapped /\ holder' = holder)
    BY DEF Snapped, restartVars, TickAdd
  <2> QED BY <1>4, <2>1, <2>2, AddTrafficKeepsOff
<1> QED BY <1>7, <1>8, <1>9, <1>10, <1>11, <1>12, <1>13 DEF IInv, TypeOK

LEMMA TickRollbackKeeps ==
  ASSUME IInv, NEW t \in Ticks, TickRollback(t)
  PROVE  IInv'
<1>1. DOMAIN batch[t] \subseteq Clients /\ batch[t] \in [DOMAIN batch[t] -> Nat]
  BY DEF IInv, TypeOK, LocalOK
<1>2. \A ok \in BOOLEAN : Returned(AddTraffic(batch[t], ok))
  BY <1>1, AddTrafficReturns DEF IInv, TypeOK, XrayOK, HistoryOK
<1>3. alive \in BOOLEAN
  BY DEF IInv, TypeOK, XrayOK
<1> DEFINE r == AddTraffic(batch[t], alive)
<1>4. /\ Returned(r) /\ UNCHANGED dbVars
      /\ \/ served' = served /\ unasked' = unasked /\ AfterAdd(t, [need |-> FALSE, disabled |-> FALSE])
         \/ served' = r.served /\ unasked' = unasked \cup (r.served \ served) /\ AfterAdd(t, r)
  BY <1>2, <1>3 DEF TickRollback
<1>5. r.need \in BOOLEAN
  BY DEF AddTraffic
<1>6. \A a \in Admins : t # a /\ pc'[a] = pc[a]
  <2>1. AfterAdd(t, [need |-> FALSE, disabled |-> FALSE]) \/ AfterAdd(t, r)
    BY <1>4
  <2>2. \E at : pc' = [pc EXCEPT ![t] = at]
    BY <2>1, Zenon DEF AfterAdd, Become
  <2> QED BY <2>2, KindsAssumption DEF IInv, TypeOK
<1> HIDE DEF r
<1>7. DbOK'
  BY <1>4 DEF IInv, TypeOK, DbOK, dbVars, TickRollback
<1>8. XrayOK'
  BY <1>4 DEF IInv, TypeOK, XrayOK, Returned, TickRollback
<1>9. LockOK' /\ HistoryOK'
  BY <1>4 DEF Returned, IInv, TypeOK, LockOK, restartVars, TickRollback, Event, HistoryOK
<1>10. LocalOK'
  <2>1. AfterAdd(t, [need |-> FALSE, disabled |-> FALSE]) \/ AfterAdd(t, r)
    BY <1>4
  <2>2. pc' \in [Callers -> States]
    BY <2>1 DEF IInv, TypeOK, LocalOK, AfterAdd, Become, States
  <2>3. flags' \in [Ticks -> BOOLEAN]
    BY <1>5, <2>1 DEF IInv, TypeOK, LocalOK, AfterAdd
  <2>4. batch' = [batch EXCEPT ![t] = NoTraffic]
    BY <2>1 DEF AfterAdd
  <2>5. batch' = [u \in Ticks |-> batch'[u]]
    BY <2>4 DEF IInv, TypeOK, LocalOK
  <2>6. \A u \in Ticks : DOMAIN batch'[u] \subseteq Clients /\ batch'[u] \in [DOMAIN batch'[u] -> Nat]
    BY <2>4 DEF IInv, TypeOK, LocalOK, NoTraffic
  <2> QED BY <1>6, <2>2, <2>3, <2>5, <2>6 DEF IInv, TypeOK, LocalOK, TickRollback
<1>11. LockInv'
  <2>1. \A x \in Callers \ {t} : pc'[x] = pc[x]
    <3>1. AfterAdd(t, [need |-> FALSE, disabled |-> FALSE]) \/ AfterAdd(t, r)
      BY <1>4
    <3>2. \E at : pc' = [pc EXCEPT ![t] = at]
      BY <3>1, Zenon DEF AfterAdd, Become
    <3> QED BY <3>2 DEF IInv, TypeOK
  <2>2. pc[t] = "add" /\ UNCHANGED <<holder, rstep, writer>>
    BY DEF TickRollback, restartVars
  <2>3. \A a \in Admins : a \in Callers \ {t}
    BY <1>6 DEF Callers
  <2> QED BY <2>1, <2>2, <2>3 DEF IInv, TypeOK, LockOK, LockInv
<1>12. /\ \A b \in Admins : Asks(b)' => AskInv(b)'
      /\ \A d \in off' : OffInv(d)'
  <2>1. \A b \in Admins : pc'[b] = pc[b] \/ pc'[b] = "idle"
    BY <1>6 DEF IInv, TypeOK, TickRollback
  <2>2. UNCHANGED <<task, view, snap, config, off>> /\ (Snapped' => Snapped /\ holder' = holder)
    BY DEF Snapped, restartVars, TickRollback
  <2> QED BY <1>4, <2>1, <2>2, AddTrafficKeepsOff
<1> QED BY <1>7, <1>8, <1>9, <1>10, <1>11, <1>12 DEF IInv, TypeOK

LEMMA TickFlagKeeps ==
  ASSUME IInv, NEW t \in Ticks, TickFlag(t)
  PROVE  IInv'
<1>1. DbOK' /\ XrayOK' /\ LockOK' /\ HistoryOK'
  BY DEF IInv, TypeOK, DbOK, dbVars, TickFlag, XrayOK, LockOK, restartVars, HistoryOK
<1>2. LocalOK'
  BY DEF IInv, TypeOK, LocalOK, Callers, States, TickFlag, Become
<1>3. LockInv'
  BY DEF IInv, TypeOK, LocalOK, LockInv, restartVars, TickFlag, Become
<1>4. \A b \in Admins : Asks(b)' => AskInv(b)'
  BY DEF IInv, TypeOK, LockOK, Asks, AskInv, Down, NoWish, Snapped, dbVars, restartVars, TickFlag,
     Become
<1>5. \A d \in off' : OffInv(d)'
  BY DEF IInv, TypeOK, LockInv, DbOK, OffInv, Down, NoWish, Snapped, dbVars, restartVars,
     TickFlag, Become
<1> QED BY <1>1, <1>2, <1>3, <1>4, <1>5 DEF IInv, TypeOK

LEMMA CronRunKeeps ==
  ASSUME IInv, CronRun
  PROVE  IInv'
<1>1. DbOK' /\ XrayOK' /\ LockOK' /\ HistoryOK'
  BY DEF IInv, TypeOK, DbOK, dbVars, CronRun, XrayOK, LockOK, restartVars, HistoryOK
<1>2. LocalOK'
  BY KindsAssumption, NumbersAssumption DEF IInv, TypeOK, LocalOK, localVars, Callers, States,
     CronRun, Become
<1>3. LockInv'
  BY DEF IInv, TypeOK, LockInv, restartVars, CronRun, Become
<1>4. \A b \in Admins : Asks(b)' => AskInv(b)'
  BY KindsAssumption DEF IInv, TypeOK, Asks, AskInv, Down, NoWish, Snapped, dbVars, localVars,
     restartVars, CronRun, Become
<1>5. \A d \in off' : OffInv(d)'
  BY KindsAssumption DEF IInv, TypeOK, XrayOK, OffInv, Down, NoWish, Snapped, dbVars, localVars,
     restartVars, CronRun, Become
<1> QED BY <1>1, <1>2, <1>3, <1>4, <1>5 DEF IInv, TypeOK

LEMMA RestartBeginKeeps ==
  ASSUME IInv, NEW x \in Callers, RestartBegin(x)
  PROVE  IInv'
<1>1. DOMAIN NoTraffic \subseteq Clients /\ NoTraffic \in [DOMAIN NoTraffic -> Nat]
  BY DEF IInv, TypeOK, NoTraffic
<1>2. \A ok \in BOOLEAN : Returned(AddTraffic(NoTraffic, ok))
  BY <1>1, AddTrafficReturns DEF IInv, TypeOK, XrayOK, HistoryOK
<1>3. PICK ok \in BOOLEAN :
        /\ ApiCall(ok)
        /\ LET r == AddTraffic(NoTraffic, ok)
           IN /\ Commit(r) /\ served' = r.served
              /\ unasked' = IF Unneeded(x) THEN unasked \cup SwitchedOff(r) ELSE {}
  BY DEF RestartBegin
<1> DEFINE r == AddTraffic(NoTraffic, ok)
<1>4. /\ Returned(r) /\ ApiCall(ok) /\ Commit(r) /\ served' = r.served
      /\ unasked' = IF Unneeded(x) THEN unasked \cup SwitchedOff(r) ELSE {}
  BY <1>2, <1>3
<1> HIDE DEF r
<1>5. DbOK'
  BY <1>4 DEF IInv, TypeOK, DbOK, Returned, Commit, RestartBegin
<1>6. XrayOK'
  BY <1>4 DEF IInv, TypeOK, XrayOK, Returned, RestartBegin
<1>7. LockOK' /\ HistoryOK'
  <2>1. unasked' \subseteq Clients
    BY <1>4 DEF IInv, TypeOK, DbOK, HistoryOK, SwitchedOff
  <2>2. events' \in Nat
    BY <1>4 DEF IInv, TypeOK, HistoryOK, ApiCall
  <2>3. told' \in BOOLEAN
    BY DEF IInv, TypeOK, HistoryOK, RestartBegin
  <2> QED BY <2>1, <2>2, <2>3 DEF IInv, TypeOK, LockOK, RestartBegin, HistoryOK
<1>8. LocalOK'
  BY DEF IInv, TypeOK, LocalOK, localVars, RestartBegin
<1>9. LockInv'
  BY KindsAssumption DEF IInv, TypeOK, LockInv, RestartBegin
<1>10. /\ \A b \in Admins : Asks(b)' => AskInv(b)'
      /\ \A d \in off' : OffInv(d)'
  <2>1. \A b \in Admins : pc'[b] = pc[b] \/ pc'[b] = "idle"
    BY DEF IInv, TypeOK, RestartBegin
  <2>2. UNCHANGED <<task, view, snap, config, off>> /\ (Snapped' => Snapped /\ holder' = holder)
    BY DEF Snapped, localVars, RestartBegin
  <2> QED BY <1>4, <2>1, <2>2, AddTrafficKeepsOff
<1> QED BY <1>5, <1>6, <1>7, <1>8, <1>9, <1>10 DEF IInv, TypeOK

LEMMA RestartRowsKeeps ==
  ASSUME IInv, NEW x \in Callers, RestartRows(x)
  PROVE  IInv'
<1>1. DbOK' /\ XrayOK' /\ LockOK' /\ HistoryOK'
  BY DEF IInv, TypeOK, DbOK, dbVars, RestartRows, XrayOK, LockOK, HistoryOK
<1>2. LocalOK'
  BY DEF IInv, TypeOK, LocalOK, localVars, RestartRows
<1>3. LockInv'
  BY DEF IInv, TypeOK, LockInv, RestartRows
<1>4. \A b \in Admins : Asks(b)' => AskInv(b)'
  BY DEF IInv, TypeOK, Asks, AskInv, Down, NoWish, Snapped, dbVars, localVars, RestartRows
<1>5. \A d \in off' : OffInv(d)'
  BY DEF IInv, TypeOK, OffInv, Down, NoWish, Snapped, dbVars, localVars, RestartRows
<1> QED BY <1>1, <1>2, <1>3, <1>4, <1>5 DEF IInv, TypeOK

LEMMA RestartRecordsKeeps ==
  ASSUME IInv, NEW x \in Callers, RestartRecords(x)
  PROVE  IInv'
<1>1. DbOK' /\ XrayOK' /\ LockOK' /\ HistoryOK'
  BY DEF IInv, TypeOK, DbOK, dbVars, RestartRecords, XrayOK, LockOK, HistoryOK
<1>2. LocalOK'
  BY DEF IInv, TypeOK, LocalOK, localVars, RestartRecords
<1>3. LockInv'
  BY DEF IInv, TypeOK, LockInv, RestartRecords
<1>4. \A b \in Admins : Asks(b)' => AskInv(b)'
  BY DEF IInv, TypeOK, LockInv, Asks, AskInv, Down, NoWish, dbVars, localVars, RestartRecords
<1>5. \A d \in off' : OffInv(d)'
  BY DEF IInv, TypeOK, OffInv, Down, NoWish, dbVars, localVars, RestartRecords
<1> QED BY <1>1, <1>2, <1>3, <1>4, <1>5 DEF IInv, TypeOK

LEMMA RestartStopKeeps ==
  ASSUME IInv, NEW x \in Callers, RestartStop(x)
  PROVE  IInv'
<1>1. DbOK' /\ XrayOK' /\ LockOK' /\ HistoryOK'
  BY DEF IInv, TypeOK, DbOK, dbVars, RestartStop, XrayOK, LockOK, HistoryOK
<1>2. LocalOK'
  BY DEF IInv, TypeOK, LocalOK, localVars, RestartStop
<1>3. LockInv'
  BY DEF IInv, TypeOK, LockInv, RestartStop
<1>4. \A b \in Admins : Asks(b)' => AskInv(b)'
  BY DEF IInv, TypeOK, Asks, AskInv, Down, NoWish, Snapped, dbVars, localVars, RestartStop
<1>5. \A d \in off' : OffInv(d)'
  BY DEF IInv, TypeOK, OffInv, Down, NoWish, Snapped, dbVars, localVars, RestartStop
<1> QED BY <1>1, <1>2, <1>3, <1>4, <1>5 DEF IInv, TypeOK

LEMMA RestartStartKeeps ==
  ASSUME IInv, NEW x \in Callers, RestartStart(x)
  PROVE  IInv'
<1>1. DbOK' /\ LockOK'
  BY DEF IInv, TypeOK, DbOK, dbVars, RestartStart, Unlock, LockOK
<1>2. XrayOK'
  <2>1. alive' = TRUE /\ served' \subseteq Clients /\ config' \subseteq Clients /\ counter' = counter
    BY DEF IInv, TypeOK, LockOK, RestartStart
  <2>2. last' \in [Clients -> Nat]
    BY DEF IInv, TypeOK, XrayOK, RestartStart
  <2> QED BY <2>1, <2>2 DEF XrayOK, IInv, TypeOK
<1>3. LocalOK'
  BY KindsAssumption DEF IInv, TypeOK, LocalOK, localVars, States, RestartStart, Become
<1>4. HistoryOK'
  <2>1. off' \subseteq Clients
    BY DEF IInv, TypeOK, HistoryOK, LocalOK, LockInv, RestartStart
  <2> QED BY <2>1 DEF IInv, TypeOK, HistoryOK, RestartStart
<1>5. LockInv'
  BY DEF IInv, TypeOK, LockInv, RestartStart, Become, Unlock
<1>6. \A b \in Admins : Asks(b)' => AskInv(b)'
  BY KindsAssumption DEF IInv, TypeOK, Asks, AskInv, Down, NoWish, dbVars, localVars,
     RestartStart, Become, Unlock
<1>7. \A d \in off' : OffInv(d)'
  BY DEF IInv, TypeOK, LockInv, Asks, AskInv, OffInv, Down, NoWish, Snapped, dbVars, localVars,
     RestartStart, Become, Unlock
<1> QED BY <1>1, <1>2, <1>3, <1>4, <1>5, <1>6, <1>7 DEF IInv, TypeOK

LEMMA RestartSkippedKeeps ==
  ASSUME IInv, NEW x \in Callers, RestartSkipped(x)
  PROVE  IInv'
<1>1. DbOK' /\ XrayOK' /\ LockOK' /\ HistoryOK'
  BY DEF IInv, TypeOK, DbOK, dbVars, RestartSkipped, Unlock, XrayOK, LockOK, HistoryOK
<1>2. LocalOK'
  BY DEF IInv, TypeOK, LocalOK, localVars, States, RestartSkipped, Become
<1>3. LockInv'
  BY DEF IInv, TypeOK, LockInv, RestartSkipped, Become, Unlock
<1>4. \A b \in Admins : Asks(b)' => AskInv(b)'
  BY DEF IInv, TypeOK, Asks, AskInv, Down, NoWish, dbVars, localVars, RestartSkipped, Become,
     Unlock
<1>5. \A d \in off' : OffInv(d)'
  BY DEF IInv, TypeOK, OffInv, Down, NoWish, dbVars, localVars, RestartSkipped, Become, Unlock
<1> QED BY <1>1, <1>2, <1>3, <1>4, <1>5 DEF IInv, TypeOK

LEMMA RestartRefusedKeeps ==
  ASSUME IInv, NEW x \in Callers, RestartRefused(x)
  PROVE  IInv'
<1>1. DbOK' /\ XrayOK' /\ LockOK' /\ HistoryOK'
  BY DEF IInv, TypeOK, DbOK, dbVars, RestartRefused, Failed, Unlock, Event, XrayOK, LockOK,
     HistoryOK
<1>2. LocalOK'
  BY KindsAssumption DEF IInv, TypeOK, LocalOK, localVars, States, RestartRefused, Failed, Become
<1>3. LockInv'
  BY DEF IInv, TypeOK, LockInv, RestartRefused, Failed, Become, Unlock
<1>4. \A b \in Admins : Asks(b)' => AskInv(b)'
  BY KindsAssumption DEF IInv, TypeOK, Asks, AskInv, Down, NoWish, dbVars, localVars,
     RestartRefused, Failed, Become, Unlock
<1>5. \A d \in off' : OffInv(d)'
  BY KindsAssumption DEF IInv, TypeOK, OffInv, Down, NoWish, dbVars, localVars, RestartRefused,
     Failed, Become, Unlock
<1> QED BY <1>1, <1>2, <1>3, <1>4, <1>5 DEF IInv, TypeOK

LEMMA RestartRollbackKeeps ==
  ASSUME IInv, NEW x \in Callers, RestartRollback(x)
  PROVE  IInv'
<1>1. DbOK' /\ XrayOK' /\ LockOK' /\ HistoryOK'
  BY DEF IInv, TypeOK, DbOK, dbVars, RestartRollback, Failed, Unlock, Event, XrayOK, LockOK,
     HistoryOK
<1>2. LocalOK'
  BY KindsAssumption DEF IInv, TypeOK, LocalOK, localVars, States, RestartRollback, Failed, Become
<1>3. LockInv'
  BY DEF IInv, TypeOK, LockInv, RestartRollback, Failed, Become, Unlock
<1>4. \A b \in Admins : Asks(b)' => AskInv(b)'
  BY KindsAssumption DEF IInv, TypeOK, Asks, AskInv, Down, NoWish, dbVars, localVars,
     RestartRollback, Failed, Become, Unlock
<1>5. \A d \in off' : OffInv(d)'
  BY KindsAssumption DEF IInv, TypeOK, OffInv, Down, NoWish, dbVars, localVars, RestartRollback,
     Failed, Become, Unlock
<1> QED BY <1>1, <1>2, <1>3, <1>4, <1>5 DEF IInv, TypeOK

LEMMA SwitchReadKeeps ==
  ASSUME IInv, NEW a \in Admins, SwitchRead(a)
  PROVE  IInv'
<1>1. DbOK' /\ XrayOK' /\ LockOK' /\ HistoryOK'
  BY DEF IInv, TypeOK, DbOK, dbVars, SwitchRead, XrayOK, LockOK, restartVars, HistoryOK
<1>2. LocalOK'
  <2>1. pc' \in [Callers -> States]
    BY DEF IInv, TypeOK, LocalOK, States, SwitchRead, Become
  <2>2. task' \in [Admins -> Tasks]
    BY DEF IInv, TypeOK, LocalOK, SwitchRead
  <2>3. \A b \in Admins : pc'[b] # "idle" => task'[b].c \in Clients
    BY DEF IInv, TypeOK, LocalOK, SwitchRead, Become
  <2>4. \A b \in Admins : pc'[b] \in {"reset", "save"} => task'[b].op = "reset"
    BY DEF IInv, TypeOK, LocalOK, SwitchRead, Become
  <2>5. seen' \in [Admins -> [on : BOOLEAN, expiry : Int]]
    BY DEF IInv, TypeOK, LocalOK, DbOK, SwitchRead
  <2>6. view' \in [Admins -> Views]
    BY DEF IInv, TypeOK, LocalOK, SwitchRead
  <2>7. batch' = [t \in Ticks |-> batch'[t]] /\ flags' \in [Ticks -> BOOLEAN]
    BY DEF IInv, TypeOK, LocalOK, SwitchRead
  <2>8. \A t \in Ticks : DOMAIN batch'[t] \subseteq Clients /\ batch'[t] \in [DOMAIN batch'[t] -> Nat]
    BY DEF IInv, TypeOK, LocalOK, SwitchRead
  <2> QED BY <2>1, <2>2, <2>3, <2>5, <2>6, <2>7, <2>8, <2>4 DEF LocalOK
<1>3. LockInv'
  BY DEF IInv, TypeOK, LockInv, restartVars, SwitchRead, Become
<1>4. \A b \in Admins : Asks(b)' => AskInv(b)'
  BY DEF IInv, TypeOK, Asks, AskInv, Down, NoWish, Snapped, dbVars, restartVars, SwitchRead,
     Become
<1>5. \A d \in off' : OffInv(d)'
  BY DEF IInv, TypeOK, OffInv, Down, NoWish, Snapped, dbVars, restartVars, SwitchRead, Become
<1> QED BY <1>1, <1>2, <1>3, <1>4, <1>5 DEF IInv, TypeOK

LEMMA SwitchRecordKeeps ==
  ASSUME IInv, NEW a \in Admins, SwitchRecord(a)
  PROVE  IInv'
<1>1. DbOK' /\ XrayOK' /\ LockOK' /\ HistoryOK'
  BY DEF IInv, TypeOK, DbOK, SwitchRecord, With, XrayOK, LockOK, restartVars, HistoryOK
<1>2. LocalOK'
  <2>1. pc' \in [Callers -> States]
    BY DEF IInv, TypeOK, LocalOK, States, SwitchRecord, Become
  <2>2. task' \in [Admins -> Tasks]
    <3>1. (task[a].sole /\ Wanted(a)) \in BOOLEAN
      BY Zenon
    <3>2. task[a] \in Tasks /\ task \in [Admins -> Tasks]
      BY DEF IInv, TypeOK, LocalOK
    <3>3. task' = [task EXCEPT ![a].sole = task[a].sole /\ Wanted(a)]
      BY DEF SwitchRecord
    <3> QED BY <3>1, <3>2, <3>3, SoleTyped
  <2>3. \A b \in Admins : pc'[b] # "idle" => task'[b].c \in Clients
    BY DEF IInv, TypeOK, LocalOK, SwitchRecord, Become
  <2>4. \A b \in Admins : pc'[b] \in {"reset", "save"} => task'[b].op = "reset"
    BY DEF IInv, TypeOK, LocalOK, SwitchRecord, Become
  <2>5. seen' \in [Admins -> [on : BOOLEAN, expiry : Int]]
    BY DEF IInv, TypeOK, LocalOK, SwitchRecord
  <2>6. view' \in [Admins -> Views]
    BY DEF IInv, TypeOK, LocalOK, SwitchRecord
  <2>7. batch' = [t \in Ticks |-> batch'[t]] /\ flags' \in [Ticks -> BOOLEAN]
    BY DEF IInv, TypeOK, LocalOK, SwitchRecord
  <2>8. \A t \in Ticks : DOMAIN batch'[t] \subseteq Clients /\ batch'[t] \in [DOMAIN batch'[t] -> Nat]
    BY DEF IInv, TypeOK, LocalOK, SwitchRecord
  <2> QED BY <2>1, <2>2, <2>3, <2>5, <2>6, <2>7, <2>8, <2>4 DEF LocalOK
<1>3. LockInv'
  BY DEF IInv, TypeOK, LockInv, restartVars, SwitchRecord, Become
<1>4. \A b \in Admins : Asks(b)' => AskInv(b)'
  <2> SUFFICES ASSUME NEW b \in Admins, Asks(b)' PROVE AskInv(b)'
    BY NumbersAssumption
  <2>1. task \in [Admins -> Tasks] /\ pc \in [Callers -> States] /\ a \in Callers
    BY DEF IInv, TypeOK, LocalOK, Callers
  <2>2. b # a
    BY <2>1 DEF Asks, SwitchRecord, Wanted, Tasks
  <2>3. Asks(b) /\ AskInv(b) /\ task'[b] = task[b] /\ pc'[b] = pc[b]
    BY <2>1, <2>2 DEF IInv, Asks, SwitchRecord, Become
  <2>4. NoWish(task[b].c) => NoWish(task[b].c)'
    BY <2>1 DEF NoWish, SwitchRecord, Become
  <2>5. NoWish(task[b].c) /\ Down(task[b].c) => Down(task[b].c)'
    BY <2>1 DEF Down, SwitchRecord, Become, Wanted, With
  <2> QED BY <2>3, <2>4, <2>5 DEF AskInv, Snapped, SwitchRecord, restartVars
<1>5. \A d \in off' : OffInv(d)'
  BY DEF IInv, TypeOK, OffInv, Down, NoWish, Snapped, restartVars, SwitchRecord, Become, Wanted,
     With
<1> QED BY <1>1, <1>2, <1>3, <1>4, <1>5 DEF IInv, TypeOK

LEMMA SwitchLockKeeps ==
  ASSUME IInv, NEW a \in Admins, SwitchLock(a)
  PROVE  IInv'
<1>1. DbOK' /\ XrayOK' /\ LockOK' /\ HistoryOK'
  BY DEF IInv, TypeOK, DbOK, dbVars, SwitchLock, XrayOK, LockOK, restartVars, HistoryOK
<1>2. LocalOK'
  <2>1. pc' \in [Callers -> States]
    BY DEF IInv, TypeOK, LocalOK, States, SwitchLock, Become
  <2>2. task' \in [Admins -> Tasks]
    BY DEF IInv, TypeOK, LocalOK, SwitchLock
  <2>3. \A b \in Admins : pc'[b] # "idle" => task'[b].c \in Clients
    BY DEF IInv, TypeOK, LocalOK, SwitchLock, Become
  <2>4. \A b \in Admins : pc'[b] \in {"reset", "save"} => task'[b].op = "reset"
    BY DEF IInv, TypeOK, LocalOK, SwitchLock, Become
  <2>5. seen' \in [Admins -> [on : BOOLEAN, expiry : Int]]
    BY DEF IInv, TypeOK, LocalOK, SwitchLock
  <2>6. view' \in [Admins -> Views]
    BY DEF IInv, TypeOK, LocalOK, DbOK, Views, SwitchLock
  <2>7. batch' = [t \in Ticks |-> batch'[t]] /\ flags' \in [Ticks -> BOOLEAN]
    BY DEF IInv, TypeOK, LocalOK, SwitchLock
  <2>8. \A t \in Ticks : DOMAIN batch'[t] \subseteq Clients /\ batch'[t] \in [DOMAIN batch'[t] -> Nat]
    BY DEF IInv, TypeOK, LocalOK, SwitchLock
  <2> QED BY <2>1, <2>2, <2>3, <2>5, <2>6, <2>7, <2>8, <2>4 DEF LocalOK
<1>3. LockInv'
  BY DEF IInv, TypeOK, LockInv, restartVars, SwitchLock, Become
<1>4. \A b \in Admins : Asks(b)' => AskInv(b)'
  BY DEF IInv, TypeOK, LocalOK, Asks, AskInv, Down, NoWish, Snapped, dbVars, restartVars,
     SwitchLock, Become
<1>5. \A d \in off' : OffInv(d)'
  BY DEF IInv, TypeOK, LocalOK, OffInv, Down, NoWish, Snapped, dbVars, restartVars, SwitchLock,
     Become
<1> QED BY <1>1, <1>2, <1>3, <1>4, <1>5 DEF IInv, TypeOK

LEMMA SwitchUpdateKeeps ==
  ASSUME IInv, NEW a \in Admins, SwitchUpdate(a)
  PROVE  IInv'
<1>1. task[a].c \in Clients
  BY DEF IInv, TypeOK, LocalOK, SwitchUpdate
<1>2. DbOK'
  <2>1. usage' \in [Clients -> Nat]
    BY <1>1 DEF IInv, TypeOK, DbOK, SwitchUpdate
  <2>2. expiry' \in [Clients -> Int]
    BY <1>1 DEF IInv, TypeOK, DbOK, LocalOK, SwitchUpdate
  <2>3. setExpiry' \in [Clients -> Int]
    BY <1>1 DEF IInv, TypeOK, LocalOK, Views, SwitchUpdate
  <2>4. rowOn' \subseteq Clients
    BY <1>1, WithTyped DEF IInv, TypeOK, DbOK, SwitchUpdate
  <2>5. setOn' \subseteq Clients
    BY <1>1, WithTyped DEF IInv, TypeOK, LocalOK, Views, SwitchUpdate
  <2>6. recOn' \subseteq Clients
    BY <1>1, WithTyped DEF IInv, TypeOK, LocalOK, Views, SwitchUpdate
  <2> QED BY <2>1, <2>2, <2>3, <2>4, <2>5, <2>6 DEF DbOK
<1>3. task[a].c \in Clients
  BY DEF IInv, TypeOK, LocalOK, SwitchUpdate
<1>4. XrayOK'
  <2>1. served' \subseteq Clients
    BY <1>3 DEF IInv, TypeOK, XrayOK, SwitchUpdate, Edited
  <2>2. alive' \in BOOLEAN /\ config' \subseteq Clients /\ counter' \in [Clients -> Nat] /\ last' \in [Clients -> Nat]
    BY DEF IInv, TypeOK, XrayOK, SwitchUpdate
  <2> QED BY <2>1, <2>2 DEF XrayOK
<1>5. LockOK' /\ HistoryOK'
  BY DEF IInv, TypeOK, LockOK, restartVars, SwitchUpdate, ApiCall, HistoryOK
<1>6. LocalOK'
  BY NumbersAssumption DEF IInv, TypeOK, LocalOK, Callers, States, Views, SwitchUpdate, Become,
     Forget, NothingSeen, NoView
<1>7. LockInv'
  BY DEF IInv, TypeOK, LockInv, restartVars, SwitchUpdate, Become
<1>8. \A b \in Admins : Asks(b)' => AskInv(b)'
  BY DEF IInv, TypeOK, LockInv, Asks, AskInv, Down, NoWish, Snapped, restartVars, SwitchUpdate,
     Become, Wanted, With, Forget, NoView
<1>9. \A d \in off' : OffInv(d)'
  BY DEF IInv, TypeOK, OffInv, Down, NoWish, Snapped, restartVars, SwitchUpdate, Become, Wanted,
     With, Edited, Forget, NoView
<1> QED BY <1>2, <1>4, <1>5, <1>6, <1>7, <1>8, <1>9 DEF IInv, TypeOK

LEMMA SwitchDoneKeeps ==
  ASSUME IInv, NEW a \in Admins, SwitchDone(a)
  PROVE  IInv'
<1>1. task[a].c \in Clients
  BY DEF IInv, TypeOK, LocalOK, SwitchDone
<1>2. DbOK'
  <2>1. usage' \in [Clients -> Nat]
    BY <1>1 DEF IInv, TypeOK, DbOK, SwitchDone
  <2>2. expiry' \in [Clients -> Int]
    BY <1>1 DEF IInv, TypeOK, DbOK, SwitchDone
  <2>3. setExpiry' \in [Clients -> Int]
    BY <1>1 DEF IInv, TypeOK, DbOK, SwitchDone
  <2>4. rowOn' \subseteq Clients
    BY <1>1 DEF IInv, TypeOK, DbOK, SwitchDone
  <2>5. setOn' \subseteq Clients
    BY <1>1 DEF IInv, TypeOK, DbOK, SwitchDone
  <2>6. recOn' \subseteq Clients
    BY <1>1, WithTyped DEF IInv, TypeOK, DbOK, SwitchDone
  <2> QED BY <2>1, <2>2, <2>3, <2>4, <2>5, <2>6 DEF DbOK
<1>3. XrayOK' /\ LockOK' /\ HistoryOK'
  BY DEF IInv, TypeOK, XrayOK, SwitchDone, LockOK, restartVars, HistoryOK
<1>4. LocalOK'
  BY DEF IInv, TypeOK, LocalOK, localVars, Callers, States, SwitchDone, Become
<1>5. LockInv'
  BY DEF IInv, TypeOK, LockInv, restartVars, SwitchDone, Become
<1>6. \A b \in Admins : Asks(b)' => AskInv(b)'
  <2> SUFFICES ASSUME NEW b \in Admins, Asks(b)' PROVE AskInv(b)'
    BY NumbersAssumption
  <2>1. task \in [Admins -> Tasks] /\ pc \in [Callers -> States] /\ a \in Callers
    BY DEF IInv, TypeOK, LocalOK, Callers
  <2>2. Asks(b) /\ AskInv(b) /\ task'[b] = task[b] /\ holder # a
    BY KindsAssumption, <2>1 DEF IInv, LockInv, Asks, SwitchDone, Become, localVars
  <2>3. NoWish(task[b].c)'
    BY <2>1, <2>2 DEF AskInv, NoWish, SwitchDone, Become, localVars
  <2>4. NoWish(task[b].c) /\ Down(task[b].c) => Down(task[b].c)'
    BY <2>1 DEF NoWish, Down, SwitchDone, Become, Wanted, With, localVars
  <2>5. pc'[b] \in {"record", "restart"} => pc[b] \in {"record", "restart"}
    BY <2>1 DEF SwitchDone, Become
  <2>6. UNCHANGED <<holder, snap>> /\ (Snapped' => Snapped)
    BY DEF SwitchDone, restartVars, Snapped
  <2> QED BY <2>2, <2>3, <2>4, <2>5, <2>6 DEF AskInv
<1>7. \A d \in off' : OffInv(d)'
  BY DEF IInv, TypeOK, OffInv, Down, NoWish, Snapped, localVars, restartVars, SwitchDone, Become,
     Wanted, With
<1> QED BY <1>2, <1>3, <1>4, <1>5, <1>6, <1>7 DEF IInv, TypeOK

LEMMA SwitchFailsKeeps ==
  ASSUME IInv, NEW a \in Admins, SwitchFails(a)
  PROVE  IInv'
<1>1. DbOK' /\ LockOK' /\ HistoryOK'
  BY DEF IInv, TypeOK, DbOK, dbVars, SwitchFails, Event, LockOK, restartVars, HistoryOK
<1>2. task[a].c \in Clients
  BY DEF IInv, TypeOK, LocalOK, SwitchFails
<1>3. XrayOK'
  <2>1. served' \subseteq Clients
    BY <1>2 DEF IInv, TypeOK, XrayOK, SwitchFails, Edited
  <2>2. alive' \in BOOLEAN /\ config' \subseteq Clients /\ counter' \in [Clients -> Nat] /\ last' \in [Clients -> Nat]
    BY DEF IInv, TypeOK, XrayOK, SwitchFails
  <2> QED BY <2>1, <2>2 DEF XrayOK
<1>4. LocalOK'
  BY NumbersAssumption DEF IInv, TypeOK, LocalOK, Callers, States, Views, SwitchFails, Become,
     Forget, NothingSeen, NoView
<1>5. LockInv'
  BY DEF IInv, TypeOK, LockInv, restartVars, SwitchFails, Become
<1>6. \A b \in Admins : Asks(b)' => AskInv(b)'
  BY DEF IInv, TypeOK, Asks, AskInv, Down, NoWish, Snapped, dbVars, restartVars, SwitchFails,
     Become, Forget, NoView
<1>7. \A d \in off' : OffInv(d)'
  BY DEF IInv, TypeOK, OffInv, Down, NoWish, Snapped, dbVars, restartVars, SwitchFails, Become,
     Wanted, Edited, Forget, NoView
<1> QED BY <1>1, <1>3, <1>4, <1>5, <1>6, <1>7 DEF IInv, TypeOK

LEMMA ResetReadKeeps ==
  ASSUME IInv, NEW a \in Admins, ResetRead(a)
  PROVE  IInv'
<1>1. DbOK' /\ LockOK' /\ HistoryOK'
  BY DEF IInv, TypeOK, DbOK, dbVars, ResetRead, ApiCall, LockOK, restartVars, HistoryOK
<1>2. task[a].c \in Clients
  BY DEF IInv, TypeOK, LocalOK, ResetRead
<1>3. XrayOK'
  <2>1. served' \subseteq Clients
    BY <1>2 DEF IInv, TypeOK, XrayOK, ResetRead
  <2>2. alive' \in BOOLEAN /\ config' \subseteq Clients /\ counter' \in [Clients -> Nat] /\ last' \in [Clients -> Nat]
    BY DEF IInv, TypeOK, XrayOK, ResetRead
  <2> QED BY <2>1, <2>2 DEF XrayOK
<1>4. LocalOK'
  <2>1. pc' \in [Callers -> States]
    BY DEF IInv, TypeOK, LocalOK, States, ResetRead, Become
  <2>2. task' \in [Admins -> Tasks]
    BY DEF IInv, TypeOK, LocalOK, ResetRead
  <2>3. \A b \in Admins : pc'[b] # "idle" => task'[b].c \in Clients
    BY DEF IInv, TypeOK, LocalOK, ResetRead, Become
  <2>4. \A b \in Admins : pc'[b] \in {"reset", "save"} => task'[b].op = "reset"
    BY DEF IInv, TypeOK, LocalOK, ResetRead, Become
  <2>5. seen' \in [Admins -> [on : BOOLEAN, expiry : Int]]
    BY DEF IInv, TypeOK, LocalOK, DbOK, ResetRead
  <2>6. view' \in [Admins -> Views]
    BY DEF IInv, TypeOK, LocalOK, ResetRead
  <2>7. batch' = [t \in Ticks |-> batch'[t]] /\ flags' \in [Ticks -> BOOLEAN]
    BY DEF IInv, TypeOK, LocalOK, ResetRead
  <2>8. \A t \in Ticks : DOMAIN batch'[t] \subseteq Clients /\ batch'[t] \in [DOMAIN batch'[t] -> Nat]
    BY DEF IInv, TypeOK, LocalOK, ResetRead
  <2> QED BY <2>1, <2>2, <2>3, <2>5, <2>6, <2>7, <2>8, <2>4 DEF LocalOK
<1>5. LockInv'
  BY KindsAssumption DEF IInv, TypeOK, LocalOK, LockInv, restartVars, Callers, ResetRead, Become
<1>6. \A b \in Admins : Asks(b)' => AskInv(b)'
  BY DEF IInv, TypeOK, Asks, AskInv, Down, NoWish, Snapped, dbVars, restartVars, ResetRead, Become
<1>7. \A d \in off' : OffInv(d)'
  BY DEF IInv, TypeOK, OffInv, Down, NoWish, Snapped, dbVars, restartVars, ResetRead, Become
<1> QED BY <1>1, <1>3, <1>4, <1>5, <1>6, <1>7 DEF IInv, TypeOK

LEMMA ResetSaveKeeps ==
  ASSUME IInv, NEW a \in Admins, ResetSave(a)
  PROVE  IInv'
<1>1. task[a].c \in Clients
  BY DEF IInv, TypeOK, LocalOK, ResetSave
<1>2. DbOK'
  <2>1. usage' \in [Clients -> Nat]
    BY <1>1 DEF IInv, TypeOK, DbOK, ResetSave
  <2>2. expiry' \in [Clients -> Int]
    BY <1>1 DEF IInv, TypeOK, DbOK, LocalOK, ResetSave
  <2>3. setExpiry' \in [Clients -> Int]
    BY <1>1 DEF IInv, TypeOK, DbOK, ResetSave
  <2>4. rowOn' \subseteq Clients
    BY <1>1 DEF IInv, TypeOK, DbOK, ResetSave
  <2>5. setOn' \subseteq Clients
    BY <1>1 DEF IInv, TypeOK, DbOK, ResetSave
  <2>6. recOn' \subseteq Clients
    BY <1>1 DEF IInv, TypeOK, DbOK, ResetSave
  <2> QED BY <2>1, <2>2, <2>3, <2>4, <2>5, <2>6 DEF DbOK
<1>3. XrayOK' /\ LockOK' /\ HistoryOK'
  BY <1>1 DEF IInv, TypeOK, XrayOK, ResetSave, LockOK, restartVars, HistoryOK
<1>4. LocalOK'
  BY NumbersAssumption DEF IInv, TypeOK, LocalOK, Callers, States, Views, ResetSave, Become,
     Forget, NothingSeen, NoView
<1>5. LockInv'
  BY KindsAssumption DEF IInv, TypeOK, LocalOK, LockInv, restartVars, Callers, ResetSave, Become
<1>6. \A b \in Admins : Asks(b)' => AskInv(b)'
  <2> SUFFICES ASSUME NEW b \in Admins, Asks(b)' PROVE AskInv(b)'
    BY NumbersAssumption
  <2>1. task \in [Admins -> Tasks] /\ pc \in [Callers -> States] /\ a \in Callers
    BY DEF IInv, TypeOK, LocalOK, Callers
  <2>2. Asks(b) /\ AskInv(b) /\ task'[b] = task[b]
    BY <2>1 DEF IInv, Asks, ResetSave, Become
  <2>3. NoWish(task[b].c) => NoWish(task[b].c)'
    BY <2>1 DEF NoWish, ResetSave, Become
  <2>4. b # a
    BY DEF IInv, TypeOK, LocalOK, Asks, ResetSave
  <2>5. pc'[b] = pc[b]
    BY <2>1, <2>4 DEF ResetSave, Become
  <2>6. Down(task[b].c) => Down(task[b].c)'
    BY <2>1 DEF Down, ResetSave, Become, Forget
  <2> QED BY <2>2, <2>3, <2>5, <2>6 DEF AskInv, Snapped, ResetSave, restartVars
<1>7. \A d \in off' : OffInv(d)'
  BY DEF IInv, TypeOK, OffInv, Down, NoWish, Snapped, restartVars, ResetSave, Become, Forget
<1> QED BY <1>2, <1>3, <1>4, <1>5, <1>6, <1>7 DEF IInv, TypeOK

LEMMA ResetFailsKeeps ==
  ASSUME IInv, NEW a \in Admins, ResetFails(a)
  PROVE  IInv'
<1>1. DbOK' /\ XrayOK' /\ LockOK' /\ HistoryOK'
  BY DEF IInv, TypeOK, DbOK, dbVars, ResetFails, Event, XrayOK, LockOK, restartVars, HistoryOK
<1>2. LocalOK'
  BY NumbersAssumption DEF IInv, TypeOK, LocalOK, Callers, States, Views, ResetFails, Become,
     Forget, NothingSeen, NoView
<1>3. LockInv'
  BY KindsAssumption DEF IInv, TypeOK, LocalOK, LockInv, restartVars, Callers, ResetFails, Become
<1>4. \A b \in Admins : Asks(b)' => AskInv(b)'
  BY DEF IInv, TypeOK, Asks, AskInv, Down, NoWish, Snapped, dbVars, restartVars, ResetFails,
     Become, Forget
<1>5. \A d \in off' : OffInv(d)'
  BY DEF IInv, TypeOK, OffInv, Down, NoWish, Snapped, dbVars, restartVars, ResetFails, Become,
     Forget
<1> QED BY <1>1, <1>2, <1>3, <1>4, <1>5 DEF IInv, TypeOK

LEMMA ResetRowsKeeps ==
  ASSUME IInv, NEW a \in Admins, ResetRows(a)
  PROVE  IInv'
<1>1. task[a].c \in Clients
  BY DEF IInv, TypeOK, LocalOK, ResetRows
<1>2. DbOK'
  <2>1. usage' \in [Clients -> Nat]
    BY <1>1 DEF IInv, TypeOK, DbOK, ResetRows
  <2>2. expiry' \in [Clients -> Int]
    BY <1>1 DEF IInv, TypeOK, DbOK, ResetRows
  <2>3. setExpiry' \in [Clients -> Int]
    BY <1>1 DEF IInv, TypeOK, DbOK, ResetRows
  <2>4. rowOn' \subseteq Clients
    BY <1>1 DEF IInv, TypeOK, DbOK, ResetRows
  <2>5. setOn' \subseteq Clients
    BY <1>1 DEF IInv, TypeOK, DbOK, ResetRows
  <2>6. recOn' \subseteq Clients
    BY <1>1 DEF IInv, TypeOK, DbOK, ResetRows
  <2> QED BY <2>1, <2>2, <2>3, <2>4, <2>5, <2>6 DEF DbOK
<1>3. XrayOK' /\ LockOK' /\ HistoryOK'
  BY DEF IInv, TypeOK, XrayOK, ResetRows, LockOK, restartVars, HistoryOK
<1>4. LocalOK'
  BY DEF IInv, TypeOK, LocalOK, localVars, Callers, States, ResetRows, Become
<1>5. LockInv'
  BY DEF IInv, TypeOK, LockInv, restartVars, ResetRows, Become
<1>6. \A b \in Admins : Asks(b)' => AskInv(b)'
  BY DEF IInv, TypeOK, Asks, AskInv, Down, NoWish, Snapped, localVars, restartVars, ResetRows,
     Become
<1>7. \A d \in off' : OffInv(d)'
  BY DEF IInv, TypeOK, OffInv, Down, NoWish, Snapped, localVars, restartVars, ResetRows, Become
<1> QED BY <1>2, <1>3, <1>4, <1>5, <1>6, <1>7 DEF IInv, TypeOK

LEMMA ViewKeeps ==
  ASSUME IInv, NEW a \in Admins, View(a)
  PROVE  IInv'
<1>1. DOMAIN NoTraffic \subseteq Clients /\ NoTraffic \in [DOMAIN NoTraffic -> Nat]
  BY DEF IInv, TypeOK, NoTraffic
<1>2. \A ok \in BOOLEAN : Returned(AddTraffic(NoTraffic, ok))
  BY <1>1, AddTrafficReturns DEF IInv, TypeOK, XrayOK, HistoryOK
<1>3. PICK ok \in BOOLEAN :
        /\ ApiCall(ok)
        /\ LET r == AddTraffic(NoTraffic, ok)
           IN /\ Commit(r) /\ served' = r.served
              /\ unasked' = unasked \cup SwitchedOff(r)
  BY DEF View
<1> DEFINE r == AddTraffic(NoTraffic, ok)
<1>4. /\ Returned(r) /\ ApiCall(ok) /\ Commit(r) /\ served' = r.served
      /\ unasked' = unasked \cup SwitchedOff(r)
  BY <1>2, <1>3
<1> HIDE DEF r
<1>5. DbOK'
  BY <1>4 DEF IInv, TypeOK, DbOK, Returned, Commit, View
<1>6. XrayOK'
  BY <1>4 DEF IInv, TypeOK, XrayOK, Returned, View
<1>7. LockOK'
  BY DEF IInv, TypeOK, LockOK, restartVars, View
<1>8. LocalOK'
  BY DEF IInv, TypeOK, LocalOK, localVars, Callers, States, View, Become
<1>9. HistoryOK'
  <2>1. events' \in Nat
    BY <1>4 DEF IInv, TypeOK, HistoryOK, ApiCall
  <2>2. unasked' \subseteq Clients
    BY <1>4 DEF IInv, TypeOK, HistoryOK, DbOK, SwitchedOff
  <2> QED BY <2>1, <2>2 DEF IInv, TypeOK, HistoryOK, View
<1>10. LockInv'
  BY DEF IInv, TypeOK, LockInv, restartVars, View, Become
<1>11. /\ \A b \in Admins : Asks(b)' => AskInv(b)'
      /\ \A d \in off' : OffInv(d)'
  <2>1. \A b \in Admins : pc'[b] = pc[b] \/ pc'[b] = "idle"
    BY DEF IInv, TypeOK, View, Become
  <2>2. UNCHANGED <<task, view, snap, config, off>> /\ (Snapped' => Snapped /\ holder' = holder)
    BY DEF Snapped, restartVars, localVars, View
  <2> QED BY <1>4, <2>1, <2>2, AddTrafficKeepsOff
<1> QED BY <1>5, <1>6, <1>7, <1>8, <1>9, <1>10, <1>11 DEF IInv, TypeOK

LEMMA CallKeeps ==
  ASSUME IInv, NEW a \in Admins, NEW o \in Ops, NEW c \in Clients, Call(a, o, c)
  PROVE  IInv'
<1>1. DbOK' /\ XrayOK' /\ LockOK' /\ HistoryOK'
  BY DEF IInv, TypeOK, DbOK, dbVars, Call, Event, XrayOK, LockOK, restartVars, HistoryOK
<1>2. LocalOK'
  <2>1. pc' \in [Callers -> States]
    BY KindsAssumption DEF IInv, TypeOK, LocalOK, States, Call, Become
  <2>2. task' \in [Admins -> Tasks]
    <3>1. (~ Contested(o, c)) \in BOOLEAN
      BY Zenon
    <3>2. ASSUME NEW b \in Admins PROVE (task[b].sole /\ ~ Contests(task[b].op, o, c, task[b].c)) \in BOOLEAN
      BY Zenon
    <3>3. [op |-> o, c |-> c, sole |-> ~ Contested(o, c)] \in Tasks
      BY <3>1 DEF Tasks
    <3>4. task \in [Admins -> Tasks]
      BY DEF IInv, TypeOK, LocalOK
    <3>5. ASSUME NEW b \in Admins PROVE task'[b] \in Tasks
      BY <3>2, <3>3, <3>4, SoleTyped DEF Call
    <3>6. task' = [b \in Admins |-> task'[b]]
      BY DEF Call
    <3> QED BY <3>5, <3>6
  <2>3. \A b \in Admins : pc'[b] # "idle" => task'[b].c \in Clients
    BY DEF IInv, TypeOK, LocalOK, Call, Become
  <2>4. \A b \in Admins : pc'[b] \in {"reset", "save"} => task'[b].op = "reset"
    BY KindsAssumption DEF IInv, TypeOK, LocalOK, localVars, Callers, Call, Event, Become
  <2>5. seen' \in [Admins -> [on : BOOLEAN, expiry : Int]]
    BY DEF IInv, TypeOK, LocalOK, Call
  <2>6. view' \in [Admins -> Views]
    BY DEF IInv, TypeOK, LocalOK, Call
  <2>7. batch' = [t \in Ticks |-> batch'[t]] /\ flags' \in [Ticks -> BOOLEAN]
    BY DEF IInv, TypeOK, LocalOK, Call
  <2>8. \A t \in Ticks : DOMAIN batch'[t] \subseteq Clients /\ batch'[t] \in [DOMAIN batch'[t] -> Nat]
    BY DEF IInv, TypeOK, LocalOK, Call
  <2> QED BY <2>1, <2>2, <2>3, <2>5, <2>6, <2>7, <2>8, <2>4 DEF LocalOK
<1>3. LockInv'
  BY KindsAssumption DEF IInv, TypeOK, LockInv, restartVars, Call, Become
<1>4. \A b \in Admins : Asks(b)' => AskInv(b)'
  <2> SUFFICES ASSUME NEW b \in Admins, Asks(b)' PROVE AskInv(b)'
    BY NumbersAssumption
  <2>1. holder # a /\ task \in [Admins -> Tasks] /\ pc \in [Callers -> States] /\ a \in Callers
    BY KindsAssumption DEF IInv, TypeOK, LocalOK, LockInv, Call, Callers
  <2>2. CASE b = a
    <3>1. task'[a] = [op |-> "off", c |-> c, sole |-> ~ Contested("off", c)] /\ ~ Contested("off", c) /\ pc'[a] = "switch"
      BY <2>1, <2>2 DEF Asks, Call, Become
    <3>2. ASSUME NEW d \in Admins, pc'[d] # "idle", task'[d].c = c PROVE task'[d].op # "on"
      BY <2>1, <3>1, <3>2 DEF Contested, Contests, Favours, Call, Become
    <3>3. holder' # a
      BY <2>1 DEF Call, restartVars
    <3> QED BY <2>2, <3>1, <3>2, <3>3 DEF AskInv, NoWish
  <2>3. CASE b # a
    <3>1. Asks(b) /\ task'[b].c = task[b].c /\ ~ Contests(task[b].op, o, c, task[b].c)
      <4>1. task[b] \in Tasks /\ task'[b] = [task[b] EXCEPT !.sole = @ /\ ~ Contests(task[b].op, o, c, task[b].c)]
        BY <2>1, <2>3 DEF Call
      <4>2. task'[b].sole = (task[b].sole /\ ~ Contests(task[b].op, o, c, task[b].c))
        BY <4>1
      <4>3. task'[b].op = task[b].op /\ task'[b].c = task[b].c /\ pc'[b] = pc[b]
        BY <2>1, <2>3, <4>1 DEF Tasks, Call, Become
      <4>4. task[b].sole /\ ~ Contests(task[b].op, o, c, task[b].c)
        BY <4>2, Zenon DEF Asks
      <4> QED BY <4>3, <4>4 DEF Asks
    <3>2. AskInv(b) /\ pc'[b] = pc[b]
      BY <2>1, <2>3, <3>1 DEF IInv, Call, Become
    <3>3. ASSUME NEW d \in Admins, pc'[d] # "idle", task'[d].c = task[b].c PROVE task'[d].op # "on"
      <4>1. CASE d = a
        BY <2>1, <3>1, <3>3, <4>1 DEF Contests, Favours, Call
      <4>2. CASE d # a
        BY <2>1, <3>2, <3>3, <4>2 DEF AskInv, NoWish, Call, Become, Tasks
      <4> QED BY <4>1, <4>2
    <3>4. Down(task[b].c) => Down(task[b].c)'
      <4>1. ASSUME NEW d \in Admins, pc'[d] = "update" PROVE pc[d] = "update"
        BY KindsAssumption, <2>1, <4>1 DEF Call, Become
      <4>2. UNCHANGED <<setOn, recOn, view>>
        BY DEF Call, dbVars
      <4> QED BY <3>1, <4>1, <4>2 DEF Down
    <3> QED BY <3>1, <3>2, <3>3, <3>4 DEF AskInv, NoWish, Snapped, Call, restartVars
  <2> QED BY <2>2, <2>3
<1>5. \A d \in off' : OffInv(d)'
  BY KindsAssumption DEF IInv, TypeOK, OffInv, Down, NoWish, Snapped, dbVars, restartVars, Call,
     Become
<1> QED BY <1>1, <1>2, <1>3, <1>4, <1>5 DEF IInv, TypeOK

(* The invariant holds at first. *)
LEMMA InitIInv == Init => IInv
<1> SUFFICES ASSUME Init PROVE IInv
  OBVIOUS
<1> USE KindsAssumption, NumbersAssumption DEF Init
<1>1. DbOK
  BY DEF DbOK
<1>2. XrayOK
  BY DEF XrayOK
<1>3. LockOK
  BY DEF LockOK
<1>4. LocalOK
  <2>1. pc \in [Callers -> States] /\ \A a \in Admins : pc[a] = "idle"
    BY DEF States, Callers
  <2>2. task \in [Admins -> Tasks] /\ seen \in [Admins -> [on : BOOLEAN, expiry : Int]]
    BY DEF Tasks, NothingSeen
  <2>3. view \in [Admins -> Views]
    BY DEF Views, NoView
  <2>4. \A t \in Ticks : DOMAIN batch[t] = {} /\ batch[t] \in [{} -> Nat]
    BY DEF NoTraffic
  <2>5. batch = [t \in Ticks |-> batch[t]] /\ flags \in [Ticks -> BOOLEAN]
    OBVIOUS
  <2> QED BY <2>1, <2>2, <2>3, <2>4, <2>5 DEF LocalOK
<1>5. HistoryOK
  BY DEF HistoryOK
<1>6. LockInv
  BY DEF LockInv, Callers
<1>7. \A a \in Admins : ~ Asks(a)
  BY DEF Asks
<1> QED BY <1>1, <1>2, <1>3, <1>4, <1>5, <1>6, <1>7 DEF IInv, TypeOK

(* Every step preserves the invariant. *)
LEMMA NextKeeps == IInv /\ [Next]_vars => IInv'
<1> SUFFICES ASSUME IInv, [Next]_vars PROVE IInv'
  OBVIOUS
<1>1. ASSUME NEW c \in Clients, Traffic(c) PROVE IInv'
  BY <1>1, TrafficKeeps
<1>2. CASE NextDay
  BY <1>2, NextDayKeeps
<1>3. ASSUME NEW t \in Ticks, TickStep(t) \/ TickRollback(t) PROVE IInv'
  BY <1>3, TickReadKeeps, TickAddKeeps, TickFlagKeeps, TickRollbackKeeps DEF TickStep
<1>4. CASE CronRun
  BY <1>4, CronRunKeeps
<1>5. ASSUME NEW x \in Callers, RestartStep(x) \/ RestartRefused(x) \/ RestartRollback(x)
      PROVE  IInv'
  BY <1>5, RestartBeginKeeps, RestartRowsKeeps, RestartRecordsKeeps, RestartStopKeeps,
     RestartStartKeeps, RestartSkippedKeeps, RestartRefusedKeeps, RestartRollbackKeeps DEF
     RestartStep
<1>6. ASSUME NEW a \in Admins, NEW o \in Ops, NEW c \in Clients, Call(a, o, c) PROVE IInv'
  BY <1>6, CallKeeps
<1>7. ASSUME NEW a \in Admins, RequestStep(a) \/ SwitchFails(a) \/ ResetFails(a) PROVE IInv'
  BY <1>7, SwitchReadKeeps, SwitchRecordKeeps, SwitchLockKeeps, SwitchUpdateKeeps,
     SwitchDoneKeeps, SwitchFailsKeeps, ResetReadKeeps, ResetSaveKeeps, ResetFailsKeeps,
     ResetRowsKeeps, ViewKeeps DEF RequestStep
<1>8. CASE UNCHANGED vars
  BY <1>8 DEF vars, dbVars, restartVars, localVars, IInv, TypeOK, DbOK, XrayOK, LockOK, LocalOK,
     HistoryOK, LockInv, Asks, AskInv, OffInv, NoWish, Down, Snapped
<1> QED BY <1>1, <1>2, <1>3, <1>4, <1>5, <1>6, <1>7, <1>8 DEF Next

(* Typing, the locks, and what keeps a client off: always. *)
THEOREM Inductive == Spec => []IInv
BY InitIInv, NextKeeps, PTL DEF Spec

(* A client without renewal whose switching off the panel has reported is  *)
(* not served again (SetClientEnableByEmail of web/service/client.go).     *)
THEOREM OffStays == Spec => []OffLasts
<1>1. IInv => OffLasts
  <2> SUFFICES ASSUME IInv, NEW c \in off, c \in served PROVE Period[c] > 0
    BY DEF OffLasts
  <2>1. c \in Clients /\ OffInv(c)
    BY DEF IInv, TypeOK, HistoryOK
  <2>2. Period[c] # 0 /\ Period[c] \in Nat
    BY <2>1, NumbersAssumption DEF OffInv
  <2> QED BY <2>2
<1> QED BY <1>1, Inductive, PTL

----------------------------------------------------------------------------
(* Every unit of traffic is accounted for, on its way there in the hands   *)
(* of one traffic job, or nobody's: the units of c are numbered as they    *)
(* come, and Fresh are those the next reading hands out.                   *)
Holders == Ticks \cup {None}
Units(c) == 1 .. used[c]
Fresh(c) == IF last[c] > 0 /\ counter[c] >= last[c] THEN used[c] - (counter[c] - last[c]) + 1 .. used[c] ELSE {}
Amount(h, c) == IF h = None THEN billed[c] ELSE IF c \in DOMAIN batch[h] THEN batch[h][c] ELSE 0
Owned(c, own) ==
  /\ own \in [Holders -> SUBSET Units(c)]
  /\ \A h \in Holders : Cardinality(own[h]) = Amount(h, c) /\ own[h] \cap Fresh(c) = {}
  /\ \A g, h \in Holders : g # h => own[g] \cap own[h] = {}
UnitsOf(c) == counter[c] <= used[c] /\ \E own \in [Holders -> SUBSET Units(c)] : Owned(c, own)
UnitInv == \A c \in Clients : UnitsOf(c)

(* Steps that carry no traffic, and hand none on, may start the counters   *)
(* or their memory anew.                                                   *)
LEMMA ResetsKeepUnits ==
  ASSUME IInv, UnitInv, UNCHANGED <<used, billed, batch>>,
         \A c \in Clients : \/ UNCHANGED <<counter, last>>
                            \/ counter' = counter /\ last'[c] = 0
                            \/ counter'[c] = 0 /\ last' = last
  PROVE  UnitInv'
<1> SUFFICES ASSUME NEW c \in Clients PROVE UnitsOf(c)'
  BY DEF UnitInv
<1>1. PICK own \in [Holders -> SUBSET Units(c)] : Owned(c, own)
  BY DEF UnitInv, UnitsOf
<1>2. used[c] \in Nat /\ counter[c] \in Nat /\ last[c] \in Nat /\ counter[c] <= used[c]
  BY DEF UnitInv, UnitsOf, IInv, TypeOK, XrayOK, HistoryOK
<1>3. Fresh(c)' \subseteq Fresh(c) /\ counter'[c] <= used'[c]
  BY <1>2 DEF Fresh
<1>4. \A h : Amount(h, c)' = Amount(h, c)
  BY DEF Amount
<1>5. Units(c)' = Units(c)
  BY DEF Units
<1>6. Owned(c, own)'
  BY <1>1, <1>3, <1>4, <1>5 DEF Owned
<1> QED BY <1>1, <1>3, <1>5, <1>6 DEF UnitsOf

LEMMA TrafficKeepsUnits ==
  ASSUME IInv, UnitInv, NEW d \in Clients, Traffic(d)
  PROVE  UnitInv'
<1> SUFFICES ASSUME NEW c \in Clients PROVE UnitsOf(c)'
  BY DEF UnitInv
<1>1. PICK own \in [Holders -> SUBSET Units(c)] : Owned(c, own)
  BY DEF UnitInv, UnitsOf
<1>2. used[c] \in Nat /\ counter[c] \in Nat /\ last[c] \in Nat /\ counter[c] <= used[c]
  BY DEF UnitInv, UnitsOf, IInv, TypeOK, XrayOK, HistoryOK
<1>3. /\ last' = last
      /\ \/ used'[c] = used[c] + 1 /\ counter'[c] = counter[c] + 1
         \/ used'[c] = used[c] /\ counter'[c] = counter[c]
  BY DEF Traffic, IInv, TypeOK, XrayOK, HistoryOK
<1>4. Units(c) \subseteq Units(c)' /\ Fresh(c)' \cap Units(c) \subseteq Fresh(c) /\ counter'[c] <= used'[c]
  BY <1>2, <1>3 DEF Fresh, Units
<1>5. \A h : Amount(h, c)' = Amount(h, c)
  BY DEF Amount, Traffic, localVars
<1>6. own \in [Holders -> SUBSET Units(c)']
  BY <1>4
<1>7. Owned(c, own)'
  BY <1>1, <1>4, <1>5, <1>6 DEF Owned
<1> QED BY <1>4, <1>6, <1>7 DEF UnitsOf

LEMMA TickReadKeepsUnits ==
  ASSUME IInv, UnitInv, NEW t \in Ticks, TickRead(t)
  PROVE  UnitInv'
<1> SUFFICES ASSUME NEW c \in Clients PROVE UnitsOf(c)'
  BY DEF UnitInv
<1>1. PICK own \in [Holders -> SUBSET Units(c)] : Owned(c, own)
  BY DEF UnitInv, UnitsOf
<1>2. used[c] \in Nat /\ counter[c] \in Nat /\ last[c] \in Nat /\ counter[c] <= used[c]
  BY DEF UnitInv, UnitsOf, IInv, TypeOK, XrayOK, HistoryOK
<1>3. UNCHANGED <<used, billed, counter>> /\ batch' = [batch EXCEPT ![t] = Delta] /\ last' = Remembered
  BY DEF TickRead
<1>4. last'[c] = IF counter[c] > 0 THEN counter[c] ELSE last[c]
  BY <1>3 DEF Remembered, Counted
<1>5. Fresh(c)' = {}
  BY <1>2, <1>3, <1>4 DEF Fresh
<1>0. PICK new : new = [own EXCEPT ![t] = Fresh(c)]
  OBVIOUS
<1>6. Fresh(c) \subseteq Units(c)
  BY <1>2 DEF Fresh, Units
<1>7. new \in [Holders -> SUBSET Units(c)] /\ Units(c)' = Units(c)
  BY <1>0, <1>3, <1>6 DEF Units
<1>8. batch'[t] = Delta
  BY <1>3 DEF IInv, TypeOK, LocalOK
<1>9. Amount(t, c)' = Cardinality(Fresh(c))
  <2>1. t # None
    BY KindsAssumption DEF Callers
  <2>2. Amount(t, c)' = IF c \in DOMAIN Delta THEN Delta[c] ELSE 0
    BY <1>8, <2>1 DEF Amount
  <2>3. Amount(t, c)' = IF last[c] > 0 /\ counter[c] >= last[c] THEN counter[c] - last[c] ELSE 0
    BY <1>2, <2>2 DEF Delta, Counted
  <2>4. CASE last[c] > 0 /\ counter[c] >= last[c]
    <3>1. /\ Fresh(c) = used[c] - (counter[c] - last[c]) + 1 .. used[c]
          /\ used[c] - (counter[c] - last[c]) + 1 \in Int
      BY <1>2, <2>4 DEF Fresh
    <3> DEFINE lo == used[c] - (counter[c] - last[c]) + 1
    <3>2. lo \in Int /\ used[c] \in Int /\ Fresh(c) = lo .. used[c]
      BY <1>2, <3>1
    <3>3. Cardinality(Fresh(c)) = IF lo > used[c] THEN 0 ELSE used[c] - lo + 1
      <4> HIDE DEF lo
      <4> QED BY <3>2, FS_Interval
    <3>4. Cardinality(Fresh(c)) = counter[c] - last[c]
      BY <1>2, <2>4, <3>3
    <3> QED BY <2>3, <2>4, <3>4
  <2>5. CASE ~ (last[c] > 0 /\ counter[c] >= last[c])
    BY <2>3, <2>5, FS_EmptySet DEF Fresh
  <2> QED BY <2>4, <2>5
<1>10. \A h \in Holders : h # t => Amount(h, c)' = Amount(h, c)
  BY <1>3 DEF IInv, TypeOK, LocalOK, Amount, Holders
<1>11. t \in Holders /\ new[t] = Fresh(c) /\ \A h \in Holders : h # t => new[h] = own[h]
  BY <1>0 DEF Holders
<1>12. \A h \in Holders : Cardinality(new[h]) = Amount(h, c)'
  BY <1>1, <1>9, <1>10, <1>11 DEF Owned
<1>13. \A g, h \in Holders : g # h => new[g] \cap new[h] = {}
  BY <1>1, <1>11 DEF Owned
<1>14. \A h \in Holders : new[h] \cap Fresh(c)' = {}
  BY <1>5
<1>15. Owned(c, new)'
  BY <1>7, <1>12, <1>13, <1>14 DEF Owned
<1> QED BY <1>2, <1>3, <1>7, <1>15 DEF UnitsOf

(* What a job has in hand is accounted for, or lost with its transaction. *)
LEMMA TickAddKeepsUnits ==
  ASSUME IInv, UnitInv, NEW t \in Ticks, TickAdd(t) \/ TickRollback(t)
  PROVE  UnitInv'
<1> SUFFICES ASSUME NEW c \in Clients PROVE UnitsOf(c)'
  BY DEF UnitInv
<1>1. PICK own \in [Holders -> SUBSET Units(c)] : Owned(c, own)
  BY DEF UnitInv, UnitsOf
<1>2. used[c] \in Nat /\ counter[c] <= used[c] /\ UNCHANGED <<used, counter, last>>
  BY DEF UnitInv, UnitsOf, IInv, TypeOK, HistoryOK, TickAdd, TickRollback
<1>3. batch' = [batch EXCEPT ![t] = NoTraffic]
  <2>1. CASE TickAdd(t)
    <3>1. \E ok \in BOOLEAN : AfterAdd(t, AddTraffic(batch[t], ok))
      BY <2>1, Zenon DEF TickAdd
    <3> QED BY <3>1, Zenon DEF AfterAdd
  <2>2. CASE TickRollback(t)
    <3>1. \E r : AfterAdd(t, r)
      BY <2>2, Zenon DEF TickRollback
    <3> QED BY <3>1, Zenon DEF AfterAdd
  <2> QED BY <2>1, <2>2
<1>4. Units(c)' = Units(c) /\ Fresh(c)' = Fresh(c)
  BY <1>2 DEF Units, Fresh
<1>5. t # None /\ t \in Holders /\ None \in Holders /\ batch'[t] = NoTraffic
  BY <1>3, KindsAssumption DEF Holders, Callers, IInv, TypeOK, LocalOK
<1>6. Amount(t, c)' = 0
  BY <1>5 DEF Amount, NoTraffic
<1>7. \A h \in Holders : h # t /\ h # None => Amount(h, c)' = Amount(h, c)
  BY <1>3 DEF IInv, TypeOK, LocalOK, Amount, Holders
<1>8. /\ Cardinality(own[t]) = Amount(t, c) /\ Cardinality(own[None]) = billed[c]
      /\ own[t] \cap own[None] = {} /\ own[t] \subseteq Units(c) /\ own[None] \subseteq Units(c)
  BY <1>1, <1>5 DEF Owned, Amount
<1>9. CASE billed' = Plus(billed, batch[t])
  <2> DEFINE new == [h \in Holders |-> IF h = t THEN {} ELSE IF h = None THEN own[None] \cup own[t] ELSE own[h]]
  <2>1. new \in [Holders -> SUBSET Units(c)]
    BY <1>8
  <2>2. billed'[c] = billed[c] + Amount(t, c)
    <3>1. billed[c] \in Nat
      BY DEF IInv, TypeOK, HistoryOK
    <3> QED BY <1>5, <1>9, <3>1 DEF Plus, Amount
  <2>3. IsFiniteSet(own[t]) /\ IsFiniteSet(own[None])
    <3>1. IsFiniteSet(Units(c))
      BY <1>2, FS_Interval DEF Units
    <3> QED BY <1>8, <3>1, FS_Subset
  <2>4. Cardinality(own[None] \cup own[t]) = billed[c] + Amount(t, c)
    <3>1. own[None] \cap own[t] = {} /\ Cardinality({}) = 0
      BY <1>8, FS_EmptySet
    <3>2. Cardinality(own[None] \cup own[t]) = Cardinality(own[None]) + Cardinality(own[t]) - 0
      BY <2>3, <3>1, FS_Union
    <3>3. Cardinality(own[None]) \in Nat /\ Cardinality(own[t]) \in Nat
      BY <2>3, FS_CardinalityType
    <3> QED BY <1>8, <3>2, <3>3
  <2>5. Amount(None, c)' = billed'[c]
    BY DEF Amount
  <2>6. \A h \in Holders : Cardinality(new[h]) = Amount(h, c)'
    BY <1>1, <1>6, <1>7, <2>2, <2>4, <2>5, FS_EmptySet DEF Owned
  <2>7. \A h \in Holders : new[h] \cap Fresh(c) = {}
    BY <1>1, <1>5 DEF Owned
  <2>8. \A g, h \in Holders : g # h => new[g] \cap new[h] = {}
    BY <1>1, <1>5 DEF Owned
  <2>9. Owned(c, new)'
    BY <1>4, <2>1, <2>6, <2>7, <2>8 DEF Owned
  <2> QED BY <1>2, <1>4, <2>1, <2>9 DEF UnitsOf
<1>10. CASE billed' = billed
  <2> DEFINE new == [own EXCEPT ![t] = {}]
  <2>1. new \in [Holders -> SUBSET Units(c)]
    OBVIOUS
  <2>2. Amount(None, c)' = Amount(None, c)
    BY <1>10 DEF Amount
  <2>3. \A h \in Holders : Cardinality(new[h]) = Amount(h, c)'
    BY <1>1, <1>5, <1>6, <1>7, <2>2, FS_EmptySet DEF Owned
  <2>4. \A h \in Holders : new[h] \cap Fresh(c) = {}
    BY <1>1 DEF Owned
  <2>5. \A g, h \in Holders : g # h => new[g] \cap new[h] = {}
    BY <1>1 DEF Owned
  <2>6. Owned(c, new)'
    BY <1>4, <2>1, <2>3, <2>4, <2>5 DEF Owned
  <2> QED BY <1>2, <1>4, <2>1, <2>6 DEF UnitsOf
<1> QED BY <1>9, <1>10 DEF TickAdd, TickRollback

LEMMA InitUnits == Init => UnitInv
<1> SUFFICES ASSUME Init, NEW c \in Clients PROVE UnitsOf(c)
  BY DEF UnitInv
<1> DEFINE own == [h \in Holders |-> {}]
<1>1. used[c] = 0 /\ counter[c] = 0 /\ last[c] = 0 /\ billed[c] = 0
  BY DEF Init
<1>2. \A h \in Holders : Amount(h, c) = 0
  BY <1>1 DEF Init, Amount, NoTraffic, Holders
<1>3. own \in [Holders -> SUBSET Units(c)] /\ Fresh(c) = {}
  BY <1>1 DEF Fresh
<1>4. Owned(c, own)
  BY <1>2, <1>3, FS_EmptySet DEF Owned
<1> QED BY <1>1, <1>3, <1>4 DEF UnitsOf

LEMMA NextKeepsUnits == IInv /\ UnitInv /\ [Next]_vars => UnitInv'
<1> SUFFICES ASSUME IInv, UnitInv, [Next]_vars PROVE UnitInv'
  OBVIOUS
<1> DEFINE Same == UNCHANGED <<used, billed, batch, counter, last>>
<1>1. ASSUME NEW c \in Clients, Traffic(c) PROVE UnitInv'
  BY <1>1, TrafficKeepsUnits
<1>2. ASSUME NEW t \in Ticks, TickRead(t) \/ TickAdd(t) \/ TickRollback(t) PROVE UnitInv'
  BY <1>2, TickReadKeepsUnits, TickAddKeepsUnits
<1>3. CASE NextDay \/ CronRun \/ UNCHANGED vars
  <2>1. Same
    BY <1>3 DEF NextDay, CronRun, vars, localVars
  <2> QED BY <2>1, ResetsKeepUnits
<1>4. ASSUME NEW t \in Ticks, TickFlag(t) PROVE UnitInv'
  <2>1. Same
    BY <1>4 DEF TickFlag
  <2> QED BY <2>1, ResetsKeepUnits
<1>5. ASSUME NEW x \in Callers, RestartStep(x) \/ RestartRefused(x) \/ RestartRollback(x)
      PROVE  UnitInv'
  <2>1. CASE RestartBegin(x) \/ RestartRows(x) \/ RestartRecords(x) \/ RestartSkipped(x) \/ RestartRefused(x)
    <3>1. Same
      BY <2>1 DEF RestartBegin, RestartRows, RestartRecords, RestartSkipped, RestartRefused, localVars
    <3> QED BY <3>1, ResetsKeepUnits
  <2>2. CASE RestartStop(x)
    <3>1. UNCHANGED <<used, billed, batch, last>> /\ \A c \in Clients : counter'[c] = 0
      BY <2>2 DEF RestartStop, localVars
    <3> QED BY <3>1, ResetsKeepUnits
  <2>3. CASE RestartStart(x) \/ RestartRollback(x)
    <3>1. UNCHANGED <<used, billed, batch, counter>> /\ last' = IF x \in Ticks THEN [c \in Clients |-> 0] ELSE last
      BY <2>3 DEF RestartStart, RestartRollback, localVars
    <3>2. \A c \in Clients : last' = last \/ last'[c] = 0
      BY <3>1
    <3> QED BY <3>1, <3>2, ResetsKeepUnits
  <2> QED BY <1>5, <2>1, <2>2, <2>3 DEF RestartStep
<1>6. ASSUME NEW a \in Admins, NEW o \in Ops, NEW c \in Clients, Call(a, o, c) PROVE UnitInv'
  <2>1. Same
    BY <1>6 DEF Call
  <2> QED BY <2>1, ResetsKeepUnits
<1>7. ASSUME NEW a \in Admins, RequestStep(a) \/ SwitchFails(a) \/ ResetFails(a) PROVE UnitInv'
  <2>1. Same
    BY <1>7 DEF RequestStep, SwitchRead, SwitchRecord, SwitchLock, SwitchUpdate, SwitchDone, SwitchFails,
       ResetRead, ResetSave, ResetFails, ResetRows, View, localVars
  <2> QED BY <2>1, ResetsKeepUnits
<1> QED BY <1>1, <1>2, <1>3, <1>4, <1>5, <1>6, <1>7 DEF Next, TickStep

(* No unit of traffic is accounted for twice, for any clients and any      *)
(* number of traffic jobs that overlap (AddTraffic of                      *)
(* web/service/inbound.go, GetTraffic of xray/api.go).                     *)
THEOREM BilledOnce == Spec => []NotOverbilled
<1>1. IInv /\ UnitInv => NotOverbilled
  <2> SUFFICES ASSUME IInv, UnitInv, NEW c \in Clients PROVE billed[c] <= used[c]
    BY DEF NotOverbilled
  <2>1. PICK own \in [Holders -> SUBSET Units(c)] : Owned(c, own)
    BY DEF UnitInv, UnitsOf
  <2>2. own[None] \subseteq 1 .. used[c] /\ Cardinality(own[None]) = billed[c] /\ used[c] \in Nat
    BY <2>1 DEF Owned, Holders, Amount, Units, IInv, TypeOK, HistoryOK
  <2>3. IsFiniteSet(1 .. used[c]) /\ Cardinality(1 .. used[c]) = used[c]
    <3>1. 1 \in Int /\ used[c] \in Int
      BY <2>2
    <3>2. /\ IsFiniteSet(1 .. used[c])
          /\ Cardinality(1 .. used[c]) = IF 1 > used[c] THEN 0 ELSE used[c] - 1 + 1
      BY <3>1, FS_Interval
    <3> QED BY <2>2, <3>2
  <2> QED BY <2>2, <2>3, FS_Subset
<1> QED BY <1>1, InitUnits, NextKeepsUnits, Inductive, PTL DEF Spec

----------------------------------------------------------------------------

(* Who restarts Xray, whatever a restart that is under way comes to.  The  *)
(* cron does not count: what it has seen may be seen to by another.        *)
Resolved(x) == x # holder /\ pc[x] \in {"restart", "record"}
Promised == told \/ \E x \in Ticks \cup Admins : Resolved(x)
Coming ==
  \/ need \/ Promised
  \/ \E t \in Ticks : pc[t] = "flag"
  \/ \E a \in Admins : pc[a] = "save" /\ seen[a].on
Saves(c) == \E a \in Admins : pc[a] = "save" /\ task[a].c = c

(* No restart is under way, or one that may come to nothing: whoever is    *)
(* off is known to Xray only with a reason.                                *)
LeftInv ==
  holder = None \/ Unneeded(holder) =>
    \/ Coming
    \/ \A c \in served \cup config : Off(c) => c \in unasked \/ Saves(c)

(* Whom a restart is about to serve is on, unless another comes after it.  *)
SnapInv ==
  \/ Promised
  \/ /\ rstep = "records" => snap \subseteq rowOn \cup unasked
     /\ Snapped => \A c \in snap : Off(c) => c \in unasked

CutInv == RestartOnDisable => LeftInv /\ SnapInv

(* Steps of others than the holder of the lock keep it, when they ask for  *)
(* a restart or switch nobody off unnoticed.                               *)
LEMMA OthersKeepCut ==
  ASSUME IInv, RestartOnDisable, CutInv, UNCHANGED restartVars, need => need',
         Promised => Promised', Coming => Coming', unasked \subseteq unasked',
         Coming' \/ \A c \in served' \cup config' : Off(c)' =>
           c \in unasked' \/ Saves(c)' \/ (c \in served \cup config /\ Off(c) /\ ~ Saves(c)),
         Promised' \/ (rowOn \subseteq rowOn' \cup unasked' /\ \A c : Off(c)' => Off(c) \/ c \in unasked')
  PROVE  CutInv'
<1>1. LeftInv'
  <2>1. holder' = holder /\ (Unneeded(holder)' => Unneeded(holder))
    BY DEF restartVars, Unneeded
  <2> QED BY <2>1 DEF CutInv, LeftInv
<1>2. SnapInv'
  BY DEF CutInv, SnapInv, restartVars, Snapped
<1> QED BY <1>1, <1>2 DEF CutInv

(* Who acts without restarting Xray leaves the promises of the others. *)
LEMMA PromisesKept ==
  ASSUME IInv, told => told', holder' = holder, NEW x \in Callers, NEW at, pc' = [pc EXCEPT ![x] = at],
         pc[x] \in {"restart", "record"} => x = Cron \/ at \in {"restart", "record"} \/ told'
  PROVE  Promised => Promised'
<1> SUFFICES ASSUME NEW y \in Ticks \cup Admins, Resolved(y), ~ told' PROVE Resolved(y)'
  BY DEF Promised
<1>1. y \in Callers /\ y # Cron /\ pc \in [Callers -> States]
  BY KindsAssumption DEF Callers, IInv, TypeOK, LocalOK
<1> QED BY <1>1 DEF Resolved

LEMMA ComingKept ==
  ASSUME IInv, Promised => Promised', need => need', NEW x \in Callers, NEW at, pc' = [pc EXCEPT ![x] = at],
         pc[x] # "flag", pc[x] # "save", \A a \in Admins : a # x => seen'[a] = seen[a]
  PROVE  Coming => Coming'
<1>1. Ticks \subseteq Callers /\ Admins \subseteq Callers /\ pc \in [Callers -> States]
  BY DEF Callers, IInv, TypeOK, LocalOK
<1> QED BY <1>1 DEF Coming

LEMMA SavesKept ==
  ASSUME IInv, NEW x \in Callers, NEW at, pc' = [pc EXCEPT ![x] = at], pc[x] # "save", NEW c,
         \A a \in Admins : a # x => task'[a].c = task[a].c, Saves(c)
  PROVE  Saves(c)'
<1>1. Admins \subseteq Callers /\ pc \in [Callers -> States]
  BY DEF Callers, IInv, TypeOK, LocalOK
<1> QED BY <1>1 DEF Saves

(* Steps that only move on in a request or a job. *)
LEMMA MovesKeepCut ==
  ASSUME IInv, RestartOnDisable, CutInv, UNCHANGED <<rowOn, served, config, restartVars, unasked>>,
         told => told', need => need', NEW x \in Callers, NEW at, pc' = [pc EXCEPT ![x] = at],
         pc[x] # "save", pc[x] = "flag" => need',
         pc[x] \in {"restart", "record"} => x = Cron \/ at \in {"restart", "record"} \/ told',
         \A a \in Admins : a # x => seen'[a] = seen[a] /\ task'[a].c = task[a].c,
         recOn \subseteq recOn' \/ Promised'
  PROVE  CutInv'
<1>1. Promised => Promised'
  BY PromisesKept DEF restartVars
<1>2. Coming => Coming'
  <2>1. CASE pc[x] = "flag"
    BY <2>1 DEF Coming
  <2>2. CASE pc[x] # "flag"
    BY <1>1, <2>2, ComingKept
  <2> QED BY <2>1, <2>2
<1>3. \A c : Saves(c) => Saves(c)'
  BY SavesKept
<1>4. Coming' \/ \A c \in served' \cup config' : Off(c)' =>
        c \in unasked' \/ Saves(c)' \/ (c \in served \cup config /\ Off(c) /\ ~ Saves(c))
  BY <1>3 DEF Coming, Off
<1>5. Promised' \/ (rowOn \subseteq rowOn' \cup unasked' /\ \A c : Off(c)' => Off(c) \/ c \in unasked')
  BY DEF Off
<1> QED BY <1>1, <1>2, <1>4, <1>5, OthersKeepCut

(* A transaction of AddTraffic keeps it when it asks for a restart or      *)
(* switches nobody off unnoticed, and tells Xray only of clients that are  *)
(* on or were to be.                                                       *)
LEMMA CommitKeepsCut ==
  ASSUME IInv, RestartOnDisable, CutInv, UNCHANGED restartVars, need => need',
         Promised => Promised', Coming => Coming', unasked \subseteq unasked', writer = None, config' = config,
         \A c \in served' : c \in served \cup unasked' \/ ~ Off(c)',
         Promised' \/ (rowOn \subseteq rowOn' \cup unasked' /\ (recOn \ recOn') \cap rowOn' \subseteq unasked')
  PROVE  CutInv'
<1>1. \A c : ~ Saves(c)
  BY KindsAssumption DEF Saves, IInv, LockInv, TypeOK, LockOK, Callers
<1>2. CASE Promised'
  BY <1>2, OthersKeepCut DEF Coming
<1>3. CASE rowOn \subseteq rowOn' \cup unasked' /\ (recOn \ recOn') \cap rowOn' \subseteq unasked'
  <2>1. \A c : Off(c)' => Off(c) \/ c \in unasked'
    BY <1>3 DEF Off
  <2> QED BY <1>1, <1>3, <2>1, OthersKeepCut
<1> QED BY <1>2, <1>3

LEMMA TicksKeepCut ==
  ASSUME IInv, RestartOnDisable, CutInv, NEW t \in Ticks, TickAdd(t) \/ TickRollback(t)
  PROVE  CutInv'
<1>1. DOMAIN batch[t] \subseteq Clients /\ batch[t] \in [DOMAIN batch[t] -> Nat]
  BY DEF IInv, TypeOK, LocalOK
<1>2. \A ok \in BOOLEAN : Returned(AddTraffic(batch[t], ok))
  BY <1>1, AddTrafficReturns DEF IInv, TypeOK, XrayOK, HistoryOK
<1>3. alive \in BOOLEAN
  BY DEF IInv, TypeOK, XrayOK
<1>4. PICK ok \in BOOLEAN : LET r == AddTraffic(batch[t], ok) IN
        \/ /\ Commit(r) /\ served' = r.served /\ AfterAdd(t, r)
           /\ unasked' = unasked \cup Unsynced(r)
        \/ /\ UNCHANGED dbVars
           /\ \/ served' = served /\ unasked' = unasked /\ AfterAdd(t, [need |-> FALSE, disabled |-> FALSE])
              \/ served' = r.served /\ unasked' = unasked \cup (r.served \ served) /\ AfterAdd(t, r)
  <2>1. CASE TickAdd(t)
    BY <2>1 DEF TickAdd
  <2>2. CASE TickRollback(t)
    BY <1>3, <2>2 DEF TickRollback
  <2> QED BY <2>1, <2>2
<1> DEFINE r == AddTraffic(batch[t], ok)
<1>5. /\ Returned(r)
      /\ \/ /\ Commit(r) /\ served' = r.served /\ AfterAdd(t, r)
            /\ unasked' = unasked \cup Unsynced(r)
         \/ /\ UNCHANGED dbVars
            /\ \/ served' = served /\ unasked' = unasked /\ AfterAdd(t, [need |-> FALSE, disabled |-> FALSE])
               \/ served' = r.served /\ unasked' = unasked \cup (r.served \ served) /\ AfterAdd(t, r)
  BY <1>2, <1>4
<1> HIDE DEF r
<1>6. UNCHANGED <<restartVars, need, told, config, task, seen>> /\ writer = None /\ pc[t] = "add" /\ t \in Callers
  BY DEF TickAdd, TickRollback, Callers
<1>7. \E at : pc' = [pc EXCEPT ![t] = at]
  BY <1>5, Zenon DEF AfterAdd, Become
<1>8. Promised => Promised'
  BY <1>6, <1>7, PromisesKept DEF restartVars
<1>9. Coming => Coming'
  BY <1>6, <1>7, <1>8, ComingKept
<1>10. AfterAdd(t, r) /\ r.disabled => Promised'
  <2> SUFFICES ASSUME AfterAdd(t, r), r.disabled PROVE Resolved(t)'
    BY DEF Promised
  <2>1. pc' = [pc EXCEPT ![t] = "restart"]
    BY Zenon DEF AfterAdd, Become
  <2>2. t # holder /\ pc'[t] = "restart"
    BY <1>6, <2>1, KindsAssumption DEF IInv, LockInv, TypeOK, LocalOK, Callers
  <2> QED BY <1>6, <2>2 DEF Resolved, restartVars
<1>11. \A c \in served' : c \in served \cup unasked' \/ ~ Off(c)'
  <2>1. CASE Commit(r) /\ served' = r.served
    BY <1>5, <2>1 DEF Returned, Commit, Off
  <2>2. CASE served' = served \/ (served' = r.served /\ unasked' = unasked \cup (r.served \ served))
    BY <2>2
  <2> QED BY <1>5, <2>1, <2>2
<1>12. Promised' \/ (rowOn \subseteq rowOn' \cup unasked' /\ (recOn \ recOn') \cap rowOn' \subseteq unasked')
  <2>1. CASE UNCHANGED dbVars
    BY <2>1 DEF dbVars
  <2>2. CASE Commit(r) /\ AfterAdd(t, r) /\ unasked' = unasked \cup Unsynced(r)
    BY <1>5, <1>10, <2>2 DEF Commit, Returned, Unsynced
  <2> QED BY <1>5, <2>1, <2>2
<1>13. unasked \subseteq unasked'
  BY <1>5
<1> QED BY <1>6, <1>8, <1>9, <1>11, <1>12, <1>13, CommitKeepsCut

LEMMA ViewKeepsCut ==
  ASSUME IInv, RestartOnDisable, CutInv, NEW a \in Admins, View(a)
  PROVE  CutInv'
<1>1. DOMAIN NoTraffic \subseteq Clients /\ NoTraffic \in [DOMAIN NoTraffic -> Nat]
  BY DEF NoTraffic
<1>2. \A ok \in BOOLEAN : Returned(AddTraffic(NoTraffic, ok))
  BY <1>1, AddTrafficReturns DEF IInv, TypeOK, XrayOK, HistoryOK
<1>3. PICK r : Returned(r) /\ Commit(r) /\ served' = r.served /\ unasked' = unasked \cup SwitchedOff(r)
  BY <1>2 DEF View
<1>4. /\ UNCHANGED <<restartVars, need, told, config, task, seen>> /\ writer = None /\ pc[a] = "view"
      /\ a \in Callers /\ pc' = [pc EXCEPT ![a] = "idle"]
  BY DEF View, Callers, Become, localVars
<1>5. Promised => Promised'
  BY <1>4, PromisesKept DEF restartVars
<1>6. Coming => Coming'
  BY <1>4, <1>5, ComingKept
<1>7. \A c \in served' : c \in served \cup unasked' \/ ~ Off(c)'
  BY <1>3 DEF Returned, Commit, Off
<1>8. rowOn \subseteq rowOn' \cup unasked' /\ (recOn \ recOn') \cap rowOn' \subseteq unasked'
  BY <1>3 DEF Commit, SwitchedOff
<1> QED BY <1>3, <1>4, <1>5, <1>6, <1>7, <1>8, CommitKeepsCut

(* Requests: whoever switches a client off goes on to restart Xray or      *)
(* reports a failure.                                                      *)
LEMMA SwitchKeepsCut ==
  ASSUME IInv, RestartOnDisable, CutInv, NEW a \in Admins,
         SwitchRead(a) \/ SwitchRecord(a) \/ SwitchLock(a) \/ SwitchDone(a)
  PROVE  CutInv'
<1>1. a \in Callers /\ a # Cron /\ pc \in [Callers -> States]
  BY KindsAssumption DEF Callers, IInv, TypeOK, LocalOK
<1>2. \A b \in Admins : b # a => seen'[b] = seen[b] /\ task'[b].c = task[b].c
  <2>1. seen' = seen \/ seen' = [seen EXCEPT ![a].expiry = setExpiry[task[a].c]]
    BY DEF SwitchRead, SwitchRecord, SwitchLock, SwitchDone, localVars
  <2>2. task' = task \/ \E s : task' = [task EXCEPT ![a].sole = s]
    BY Zenon DEF SwitchRead, SwitchRecord, SwitchLock, SwitchDone, localVars
  <2> QED BY <2>1, <2>2 DEF IInv, TypeOK, LocalOK
<1>3. UNCHANGED <<rowOn, served, config, restartVars, unasked, told, need>>
  BY DEF SwitchRead, SwitchRecord, SwitchLock, SwitchDone, dbVars
<1>4. pc[a] \in {"switch", "lock", "record"} /\ (pc[a] = "record" => pc' = [pc EXCEPT ![a] = "restart"])
  BY DEF SwitchRead, SwitchRecord, SwitchLock, SwitchDone, Become
<1>5. \E at : pc' = [pc EXCEPT ![a] = at]
  BY Zenon DEF SwitchRead, SwitchRecord, SwitchLock, SwitchDone, Become
<1>6. recOn \subseteq recOn' \/ pc' = [pc EXCEPT ![a] = "restart"]
  <2>1. CASE SwitchRead(a) \/ SwitchLock(a)
    BY <2>1 DEF SwitchRead, SwitchLock, dbVars
  <2>2. CASE SwitchRecord(a)
    BY <2>2 DEF SwitchRecord, Become, With
  <2>3. CASE SwitchDone(a)
    BY <2>3 DEF SwitchDone, Become
  <2> QED BY <2>1, <2>2, <2>3
<1>7. pc' = [pc EXCEPT ![a] = "restart"] => Promised'
  <2> SUFFICES ASSUME pc' = [pc EXCEPT ![a] = "restart"] PROVE Resolved(a)'
    BY DEF Promised
  <2>1. a # holder
    BY <1>1, <1>4, KindsAssumption DEF IInv, LockInv, TypeOK, LockOK
  <2> QED BY <1>1, <1>3, <2>1 DEF Resolved, restartVars
<1>8. CASE pc[a] = "record"
  <2>1. pc' = [pc EXCEPT ![a] = "restart"]
    BY <1>4, <1>8
  <2> QED BY <1>1, <1>2, <1>3, <1>6, <1>7, <1>8, <2>1, MovesKeepCut
<1>9. CASE pc[a] # "record"
  BY <1>1, <1>2, <1>3, <1>4, <1>5, <1>6, <1>7, <1>9, MovesKeepCut
<1> QED BY <1>8, <1>9

LEMMA UpdateKeepsCut ==
  ASSUME IInv, RestartOnDisable, CutInv, NEW a \in Admins, SwitchUpdate(a)
  PROVE  CutInv'
<1>1. a \in Callers /\ pc \in [Callers -> States] /\ pc[a] = "update"
  BY DEF Callers, IInv, TypeOK, LocalOK, SwitchUpdate
<1>2. UNCHANGED <<restartVars, need, unasked>> /\ pc' = [pc EXCEPT ![a] = "record"]
  BY DEF SwitchUpdate, Become
<1>3. Resolved(a)'
  BY <1>1, <1>2, KindsAssumption DEF IInv, LockInv, TypeOK, LockOK, Resolved, restartVars
<1>4. Promised' /\ Coming'
  BY <1>3 DEF Promised, Coming
<1> QED BY <1>2, <1>4, OthersKeepCut

LEMMA FailsKeepCut ==
  ASSUME IInv, RestartOnDisable, CutInv, NEW a \in Admins, SwitchFails(a) \/ ResetFails(a)
  PROVE  CutInv'
<1>1. UNCHANGED <<restartVars, need, unasked>> /\ told'
  BY DEF SwitchFails, ResetFails
<1>2. Promised' /\ Coming'
  BY <1>1 DEF Promised, Coming
<1> QED BY <1>1, <1>2, OthersKeepCut

(* A reset adds a client to Xray before it switches its row on. *)
LEMMA ResetReadKeepsCut ==
  ASSUME IInv, RestartOnDisable, CutInv, NEW a \in Admins, ResetRead(a)
  PROVE  CutInv'
<1>1. a \in Callers /\ pc \in [Callers -> States] /\ pc[a] = "reset"
  BY DEF Callers, IInv, TypeOK, LocalOK, ResetRead
<1>2. /\ UNCHANGED <<restartVars, need, unasked, told, config, dbVars, task>>
      /\ pc' = [pc EXCEPT ![a] = "save"] /\ served' \subseteq served \cup {task[a].c}
  BY DEF ResetRead, Become
<1>3. \A b \in Admins : b # a => seen'[b] = seen[b]
  <2>1. \E s : seen' = [seen EXCEPT ![a] = s]
    BY Zenon DEF ResetRead
  <2> QED BY <2>1 DEF IInv, TypeOK, LocalOK
<1>4. Promised => Promised'
  BY <1>1, <1>2, PromisesKept DEF restartVars
<1>5. Coming => Coming'
  BY <1>1, <1>2, <1>3, <1>4, ComingKept
<1>6. Saves(task[a].c)' /\ \A c : ~ Saves(c)
  <2>1. writer = None
    BY DEF ResetRead
  <2>2. \A b \in Admins : pc[b] # "save"
    BY <2>1, KindsAssumption DEF IInv, LockInv, Callers
  <2> QED BY <1>1, <1>2, <2>2 DEF Saves
<1>7. \A c : Off(c)' <=> Off(c)
  BY <1>2 DEF Off, dbVars
<1>8. \A c \in served' \cup config' : Off(c)' =>
        c \in unasked' \/ Saves(c)' \/ (c \in served \cup config /\ Off(c) /\ ~ Saves(c))
  BY <1>2, <1>6, <1>7
<1>9. rowOn' = rowOn
  BY <1>2 DEF dbVars
<1> QED BY <1>2, <1>4, <1>5, <1>7, <1>8, <1>9, OthersKeepCut

LEMMA ResetSaveKeepsCut ==
  ASSUME IInv, RestartOnDisable, CutInv, NEW a \in Admins, ResetSave(a)
  PROVE  CutInv'
<1>1. a \in Callers /\ pc \in [Callers -> States] /\ pc[a] = "save" /\ a # holder
  BY KindsAssumption DEF Callers, IInv, TypeOK, LocalOK, LockInv, LockOK, ResetSave
<1>2. /\ UNCHANGED <<restartVars, need, told, config, served, task, recOn>>
      /\ pc' = [pc EXCEPT ![a] = IF seen[a].on THEN "restart" ELSE "idle"]
      /\ rowOn' = rowOn \cup {task[a].c}
      /\ unasked' = IF task[a].c \in recOn THEN unasked ELSE unasked \cup {task[a].c}
  BY DEF ResetSave, Become
<1>3. \A b \in Admins : b # a => pc[b] # "save"
  BY <1>1 DEF IInv, LockInv
<1>4. Promised => Promised'
  BY <1>1, <1>2, PromisesKept DEF restartVars
<1>5. seen[a].on => Resolved(a)'
  BY <1>1, <1>2 DEF Resolved, restartVars
<1>6. (\E t \in Ticks : pc[t] = "flag") => (\E t \in Ticks : pc'[t] = "flag")
  BY <1>1, <1>2 DEF Callers
<1>7. Coming => Coming'
  BY <1>2, <1>3, <1>4, <1>5, <1>6 DEF Coming, Promised
<1>8. \A c \in served' \cup config' : Off(c)' =>
        c \in unasked' \/ Saves(c)' \/ (c \in served \cup config /\ Off(c) /\ ~ Saves(c))
  BY <1>2, <1>3 DEF Off, Saves
<1>9. rowOn \subseteq rowOn' /\ \A c : Off(c)' => Off(c)
  BY <1>2 DEF Off
<1>10. unasked \subseteq unasked'
  BY <1>2
<1> QED BY <1>2, <1>4, <1>7, <1>8, <1>9, <1>10, OthersKeepCut

LEMMA ResetRowsKeepsCut ==
  ASSUME IInv, RestartOnDisable, CutInv, NEW a \in Admins, ResetRows(a)
  PROVE  CutInv'
<1>1. a \in Callers /\ pc[a] \in {"botReset", "resetAll"} /\ pc' = [pc EXCEPT ![a] = "idle"]
  BY DEF ResetRows, Callers, Become
<1>2. UNCHANGED <<restartVars, need, told, config, served, recOn, unasked, localVars>> /\ rowOn \subseteq rowOn'
  BY DEF ResetRows
<1>3. Promised => Promised'
  BY <1>1, <1>2, PromisesKept DEF restartVars
<1>4. Coming => Coming'
  BY <1>1, <1>2, <1>3, ComingKept DEF localVars
<1>5. \A c : Saves(c) => Saves(c)'
  BY <1>1, <1>2, SavesKept DEF localVars
<1>6. \A c : Off(c)' => Off(c)
  BY <1>2 DEF Off
<1> QED BY <1>2, <1>3, <1>4, <1>5, <1>6, OthersKeepCut

(* The restart itself: it begins with another AddTraffic, *)
LEMMA RestartBeginKeepsCut ==
  ASSUME IInv, RestartOnDisable, CutInv, NEW x \in Callers, RestartBegin(x)
  PROVE  CutInv'
<1>1. holder = None /\ writer = None /\ holder' = x /\ rstep' = "rows" /\ UNCHANGED <<need, pc, seen, task, config>>
  BY DEF RestartBegin, localVars
<1>2. SnapInv'
  BY <1>1 DEF SnapInv, Snapped
<1>3. LeftInv'
  <2> SUFFICES ASSUME Unneeded(x), ~ Coming' PROVE \A c \in served' \cup config' : Off(c)' => c \in unasked'
    BY <1>1, KindsAssumption DEF LeftInv, Unneeded
  <2>1. DOMAIN NoTraffic \subseteq Clients /\ NoTraffic \in [DOMAIN NoTraffic -> Nat]
    BY DEF NoTraffic
  <2>2. \A ok \in BOOLEAN : Returned(AddTraffic(NoTraffic, ok))
    BY <2>1, AddTrafficReturns DEF IInv, TypeOK, XrayOK, HistoryOK
  <2>3. PICK r : Returned(r) /\ Commit(r) /\ served' = r.served /\ unasked' = unasked \cup SwitchedOff(r)
    BY <2>2 DEF RestartBegin
  <2>4. told' = told
    BY DEF RestartBegin, IInv, TypeOK, HistoryOK
  <2>5. \A y \in Ticks \cup Admins : Resolved(y) => Resolved(y)'
    BY <1>1, KindsAssumption DEF Resolved, Unneeded
  <2>6. ~ Coming
    BY <1>1, <2>4, <2>5 DEF Coming, Promised
  <2>7. \A c : ~ Saves(c)
    BY <1>1, KindsAssumption DEF Saves, IInv, LockInv, Callers
  <2>8. \A c \in served \cup config : Off(c) => c \in unasked
    BY <1>1, <2>6, <2>7 DEF CutInv, LeftInv
  <2>9. \A c : Off(c)' => Off(c) \/ c \in unasked'
    BY <2>3 DEF Off, Commit, SwitchedOff
  <2>10. \A c \in served' \cup config' : Off(c)' => c \in served \cup config
    BY <1>1, <2>3 DEF Returned, Commit, Off
  <2> QED BY <2>3, <2>8, <2>9, <2>10
<1> QED BY <1>2, <1>3 DEF CutInv

(* reads rows and records, *)
LEMMA RestartReadsKeepCut ==
  ASSUME IInv, RestartOnDisable, CutInv, NEW x \in Callers, RestartRows(x) \/ RestartRecords(x) \/ RestartStop(x)
  PROVE  CutInv'
<1>1. /\ UNCHANGED <<holder, need, told, pc, seen, task, config, dbVars, unasked>>
      /\ served' \subseteq served
  BY DEF RestartRows, RestartRecords, RestartStop, localVars
<1>2. Promised' = Promised /\ (Coming => Coming') /\ \A c : (Off(c)' <=> Off(c)) /\ (Saves(c)' <=> Saves(c))
  BY <1>1 DEF Promised, Resolved, Coming, Off, Saves, dbVars
<1>3. LeftInv'
  <2>1. Unneeded(holder)' = Unneeded(holder)
    BY <1>1 DEF Unneeded
  <2>2. \A c \in served' \cup config' : c \in served \cup config
    BY <1>1
  <2> QED BY <1>1, <1>2, <2>1, <2>2 DEF CutInv, LeftInv
<1>4. SnapInv'
  <2>1. CASE RestartRows(x)
    BY <2>1 DEF RestartRows, SnapInv, Snapped, dbVars
  <2>2. CASE RestartRecords(x)
    <3>1. snap' = snap \cap recOn /\ rstep = "records" /\ rstep' = "stop"
      BY <2>2 DEF RestartRecords
    <3> QED BY <1>1, <1>2, <3>1 DEF CutInv, SnapInv, Off
  <2>3. CASE RestartStop(x)
    <3>1. snap' = snap /\ rstep = "stop" /\ rstep' = "start"
      BY <2>3 DEF RestartStop
    <3> QED BY <1>1, <1>2, <3>1 DEF CutInv, SnapInv, Snapped
  <2> QED BY <2>1, <2>2, <2>3
<1> QED BY <1>3, <1>4 DEF CutInv

(* starts the process with what it has read, *)
LEMMA RestartStartKeepsCut ==
  ASSUME IInv, RestartOnDisable, CutInv, NEW x \in Callers, RestartStart(x)
  PROVE  CutInv'
<1>1. /\ holder = x /\ holder' = None /\ rstep = "start" /\ rstep' = "free"
      /\ served' = snap /\ config' = snap /\ UNCHANGED <<told, unasked, dbVars, seen, task>>
      /\ \E at : pc' = [pc EXCEPT ![x] = at]
  BY Zenon DEF RestartStart, Unlock, localVars, Become
<1>2. Promised => Promised'
  <2>1. \A y \in Ticks \cup Admins : Resolved(y) => Resolved(y)'
    BY <1>1, KindsAssumption DEF Resolved, Callers, IInv, TypeOK, LocalOK
  <2> QED BY <1>1, <2>1 DEF Promised
<1>3. SnapInv'
  BY <1>1 DEF SnapInv, Snapped
<1>4. LeftInv'
  <2>1. \A c : Off(c)' <=> Off(c)
    BY <1>1 DEF Off, dbVars
  <2>2. Promised \/ \A c \in snap : Off(c) => c \in unasked
    BY <1>1 DEF CutInv, SnapInv, Snapped
  <2> QED BY <1>1, <1>2, <2>1, <2>2 DEF LeftInv, Coming
<1> QED BY <1>3, <1>4 DEF CutInv

(* or comes to nothing: then it is repeated or reported, but for one that  *)
(* nobody needed.                                                          *)
LEMMA RestartEndsKeepCut ==
  ASSUME IInv, RestartOnDisable, CutInv, NEW x \in Callers,
         RestartSkipped(x) \/ RestartRefused(x) \/ RestartRollback(x)
  PROVE  CutInv'
<1>1. /\ holder = x /\ holder' = None /\ rstep' = "free"
      /\ served' \subseteq served \cup config /\ UNCHANGED <<need, config, unasked, dbVars, seen, task>>
      /\ told => told'
  <2>1. CASE RestartSkipped(x)
    BY <2>1 DEF RestartSkipped, Unlock, localVars
  <2>2. CASE RestartRefused(x)
    BY <2>2 DEF RestartRefused, Unlock, localVars, Failed
  <2>3. CASE RestartRollback(x)
    BY <2>3 DEF RestartRollback, Unlock, localVars, Failed
  <2> QED BY <2>1, <2>2, <2>3
<1>2. pc' = [pc EXCEPT ![x] = "idle"] \/ (x \in Ticks /\ pc' = [pc EXCEPT ![x] = "flag"])
  BY DEF RestartSkipped, RestartRefused, RestartRollback, Failed, Become
<1>3. pc \in [Callers -> States] /\ Ticks \cup Admins \subseteq Callers /\ pc[x] = "restart"
  BY <1>1, KindsAssumption DEF Callers, IInv, TypeOK, LocalOK, LockInv
<1>4. Promised => Promised'
  <2>1. \A y \in Ticks \cup Admins : Resolved(y) => Resolved(y)'
    BY <1>1, <1>2, <1>3, KindsAssumption DEF Resolved, Callers
  <2> QED BY <1>1, <2>1 DEF Promised
<1>5. SnapInv'
  BY <1>1 DEF SnapInv, Snapped
<1>6. CASE Unneeded(x)
  <2>1. Coming => Coming'
    BY <1>1, <1>2, <1>3, <1>4 DEF Coming
  <2>2. \A c : (Off(c)' <=> Off(c)) /\ (Saves(c) => Saves(c)')
    BY <1>1, <1>2, <1>3 DEF Off, dbVars, Saves
  <2>3. LeftInv'
    BY <1>1, <1>6, <2>1, <2>2 DEF CutInv, LeftInv
  <2> QED BY <1>5, <2>3 DEF CutInv
<1>7. CASE ~ Unneeded(x)
  <2>1. CASE x = Cron
    <3>1. need'
      BY <1>1, <1>7, <2>1 DEF Unneeded, IInv, TypeOK, LockOK
    <3> QED BY <1>5, <3>1 DEF CutInv, LeftInv, Coming
  <2>2. CASE x # Cron
    <3>1. RestartRefused(x) \/ RestartRollback(x)
      BY <1>7 DEF RestartSkipped, Skips
    <3>2. Failed(x)
      BY <3>1 DEF RestartRefused, RestartRollback
    <3>3. CASE x \in Ticks
      <4>1. pc'[x] = "flag"
        BY <1>3, <3>2, <3>3 DEF Failed, Become
      <4> QED BY <1>5, <3>3, <4>1 DEF CutInv, LeftInv, Coming
    <3>4. CASE x \in Admins
      <4>1. told'
        BY <3>2, <3>4 DEF Failed
      <4> QED BY <1>5, <4>1 DEF CutInv, LeftInv, Coming, Promised
    <3> QED BY <2>2, <3>3, <3>4 DEF Callers
  <2> QED BY <2>1, <2>2
<1> QED BY <1>6, <1>7

LEMMA NextKeepsCut == IInv /\ CutInv /\ [Next]_vars => CutInv'
<1> SUFFICES ASSUME IInv, RestartOnDisable, CutInv, [Next]_vars PROVE CutInv'
  BY DEF CutInv
<1>1. CASE (\E c \in Clients : Traffic(c)) \/ NextDay \/ UNCHANGED vars
  <2>1. /\ UNCHANGED <<dbVars, served, config, restartVars, need, told, unasked, pc, seen, task>>
    BY <1>1 DEF Traffic, NextDay, vars, localVars
  <2>2. /\ Promised' = Promised /\ (Coming => Coming') /\ need' = need
        /\ \A c : (Off(c)' <=> Off(c)) /\ (Saves(c)' <=> Saves(c))
    BY <2>1 DEF Promised, Resolved, Coming, Off, Saves, dbVars, restartVars
  <2>3. rowOn' = rowOn
    BY <2>1 DEF dbVars
  <2> QED BY <2>1, <2>2, <2>3, OthersKeepCut
<1>2. ASSUME NEW t \in Ticks, TickStep(t) \/ TickRollback(t) PROVE CutInv'
  <2>1. CASE TickRead(t) \/ TickFlag(t)
    <3>1. t \in Callers /\ pc[t] \in {"idle", "flag"} /\ \E at : pc' = [pc EXCEPT ![t] = at]
      BY <2>1, Zenon DEF TickRead, TickFlag, Become, Callers
    <3>2. /\ UNCHANGED <<dbVars, served, config, restartVars, told, unasked, seen, task>>
          /\ need => need'
          /\ pc[t] = "flag" => need'
      BY <2>1 DEF TickRead, TickFlag
    <3>3. recOn' = recOn /\ rowOn' = rowOn
      BY <3>2 DEF dbVars
    <3> QED BY <3>1, <3>2, <3>3, MovesKeepCut
  <2> QED BY <1>2, <2>1, TicksKeepCut DEF TickStep
<1>3. CASE CronRun
  <2>1. /\ Cron \in Callers /\ pc[Cron] = "idle" /\ pc' = [pc EXCEPT ![Cron] = "restart"]
        /\ UNCHANGED <<dbVars, served, config, restartVars, told, need, unasked, localVars>>
    BY <1>3 DEF CronRun, Become, Callers
  <2>2. recOn' = recOn /\ rowOn' = rowOn /\ UNCHANGED <<seen, task>>
    BY <2>1 DEF dbVars, localVars
  <2> QED BY <2>1, <2>2, MovesKeepCut
<1>4. ASSUME NEW x \in Callers, RestartStep(x) \/ RestartRefused(x) \/ RestartRollback(x)
      PROVE  CutInv'
  BY <1>4, RestartBeginKeepsCut, RestartReadsKeepCut, RestartStartKeepsCut, RestartEndsKeepCut DEF RestartStep
<1>5. ASSUME NEW a \in Admins, NEW o \in Ops, NEW c \in Clients, Call(a, o, c) PROVE CutInv'
  <2>1. /\ a \in Callers /\ pc[a] = "idle" /\ \E at : pc' = [pc EXCEPT ![a] = at]
        /\ UNCHANGED <<dbVars, served, config, restartVars, told, need, unasked, seen>>
    BY <1>5, Zenon DEF Call, Become, Callers
  <2>2. \A b \in Admins : b # a => task'[b].c = task[b].c
    BY <1>5 DEF Call, IInv, TypeOK, LocalOK, Tasks
  <2>3. recOn' = recOn /\ rowOn' = rowOn
    BY <2>1 DEF dbVars
  <2> QED BY <2>1, <2>2, <2>3, MovesKeepCut
<1>6. ASSUME NEW a \in Admins, RequestStep(a) \/ SwitchFails(a) \/ ResetFails(a) PROVE CutInv'
  BY <1>6, SwitchKeepsCut, UpdateKeepsCut, FailsKeepCut, ResetReadKeepsCut, ResetSaveKeepsCut,
     ResetRowsKeepsCut, ViewKeepsCut DEF RequestStep
<1> QED BY <1>1, <1>2, <1>3, <1>4, <1>5, <1>6 DEF Next

(* With the setting on, a client that has been switched off and is still   *)
(* served will be cut off by a restart, for any clients, jobs, handlers    *)
(* and faults, unless the administrator has been told or the step asks for *)
(* no restart (xray_traffic_job.go:68, RestartXray of                      *)
(* web/service/xray.go).                                                   *)
THEOREM OffIsCut == Spec => []CutOff
<1>1. Init => CutInv
  BY DEF Init, CutInv, LeftInv, SnapInv, Snapped, Off
<1>2. CutInv => CutOff
  <2> SUFFICES ASSUME CutInv, RestartOnDisable, holder = None, ~ RestartComing, ~ told,
                      NEW c \in served \ unasked, Off(c)
               PROVE  \E a \in Admins : pc[a] = "save" /\ task[a].c = c
    BY DEF CutOff
  <2>1. ~ Coming
    BY KindsAssumption DEF Coming, Promised, Resolved, RestartComing, Callers
  <2> QED BY <2>1 DEF CutInv, LeftInv, Saves
<1> QED BY <1>1, <1>2, NextKeepsCut, Inductive, PTL DEF Spec

----------------------------------------------------------------------------

(* A handler about to report a client switched on: what it has written     *)
(* stays written, unless the client is disabled, because nobody asks the   *)
(* contrary (NoRival) and who saves the settings of another client has     *)
(* read this one on (ViewInv, by lockInbound).  So the restart of the      *)
(* handler reads it on.                                                    *)
NoRival(a) ==
  pc[a] # "idle" /\ task[a].sole =>
    \A b \in Admins : b # a /\ pc[b] # "idle" => ~ Contests(task[a].op, task[b].op, task[b].c, task[a].c)
ViewInv ==
  \A b \in Admins, c \in Clients : Period[c] = 0 /\ pc[b] = "update" /\ c \in setOn => c \in view[b].on
SwitchesOn(a) ==
  pc[a] \in {"record", "restart"} /\ task[a].op = "on" /\ task[a].sole /\ Period[task[a].c] = 0
Reads(a) == holder = a /\ rstep \in {"records", "stop", "start"}
OnInv(a) ==
  SwitchesOn(a) /\ task[a].c \in rowOn =>
    task[a].c \in setOn /\ task[a].c \in recOn /\ (Reads(a) => task[a].c \in snap)
ReportInv == ViewInv /\ \A a \in Admins : NoRival(a) /\ OnInv(a)

(* Steps that write nothing of such a client but to disable it keep it. *)
LEMMA StepsKeepReports ==
  ASSUME IInv, ReportInv, task' = task,
         \A b \in Admins : pc'[b] # "idle" => pc[b] # "idle",
         \A b \in Admins : pc'[b] = "update" => pc[b] = "update" /\ view'[b] = view[b],
         \A c \in Clients : Period[c] = 0 /\ c \in setOn' => c \in setOn,
         \A a \in Admins : SwitchesOn(a)' =>
           LET c == task[a].c IN
           /\ SwitchesOn(a)
           /\ c \in rowOn' => c \in rowOn
           /\ c \in rowOn' /\ c \in setOn => c \in setOn'
           /\ c \in rowOn' /\ c \in setOn /\ c \in recOn => c \in recOn'
           /\ Reads(a)' => Reads(a) /\ snap' = snap
  PROVE  ReportInv'
<1>1. ViewInv'
  BY DEF ReportInv, ViewInv
<1>2. ASSUME NEW a \in Admins PROVE NoRival(a)'
  BY DEF ReportInv, NoRival
<1>3. ASSUME NEW a \in Admins PROVE OnInv(a)'
  BY DEF ReportInv, OnInv
<1> QED BY <1>1, <1>2, <1>3 DEF ReportInv

(* AddTraffic only disables, but for renewals. *)
LEMMA AddTrafficKeepsReports ==
  ASSUME IInv, ReportInv, UNCHANGED <<task, view>>, NEW r, Returned(r), Commit(r) \/ UNCHANGED dbVars,
         \A b \in Admins : pc'[b] = pc[b] \/ pc'[b] = "idle",
         \A a \in Admins : Reads(a)' => Reads(a) /\ snap' = snap
  PROVE  ReportInv'
<1>1. \A c \in Clients : Period[c] = 0 =>
        /\ c \in setOn' => c \in setOn
        /\ c \in rowOn' => c \in rowOn
        /\ c \in rowOn' /\ c \in setOn => c \in setOn'
        /\ c \in rowOn' /\ c \in setOn /\ c \in recOn => c \in recOn'
  BY DEF Commit, Returned, dbVars
<1>2. ASSUME NEW a \in Admins, SwitchesOn(a)'
      PROVE  SwitchesOn(a) /\ task[a].c \in Clients /\ Period[task[a].c] = 0
  BY <1>2 DEF SwitchesOn, IInv, TypeOK, LocalOK
<1> QED BY <1>1, <1>2, StepsKeepReports

(* So do the steps that do not write to the database. *)
LEMMA IdleKeepsReports ==
  ASSUME IInv, ReportInv, UNCHANGED <<task, view, setOn, recOn, rowOn>>,
         \A b \in Admins : pc'[b] = pc[b] \/ pc'[b] \notin {"update", "record", "restart"},
         \A b \in Admins : pc'[b] # "idle" => pc[b] # "idle",
         \A a \in Admins : Reads(a)' => Reads(a) /\ snap' = snap
  PROVE  ReportInv'
<1>1. \A a \in Admins : SwitchesOn(a)' => SwitchesOn(a)
  BY DEF SwitchesOn
<1> QED BY <1>1, StepsKeepReports

LEMMA TicksKeepReports ==
  ASSUME IInv, ReportInv, NEW t \in Ticks, TickAdd(t) \/ TickRollback(t)
  PROVE  ReportInv'
<1>1. DOMAIN batch[t] \subseteq Clients /\ batch[t] \in [DOMAIN batch[t] -> Nat]
  BY DEF IInv, TypeOK, LocalOK
<1>2. \A ok \in BOOLEAN : Returned(AddTraffic(batch[t], ok))
  BY <1>1, AddTrafficReturns DEF IInv, TypeOK, XrayOK, HistoryOK
<1>3. \E r : Returned(r) /\ (Commit(r) \/ UNCHANGED dbVars)
  <2>1. CASE TickAdd(t)
    BY <1>2, <2>1 DEF TickAdd
  <2>2. CASE TickRollback(t)
    BY <1>2, <2>2 DEF TickRollback
  <2> QED BY <2>1, <2>2
<1>4. UNCHANGED <<task, view, restartVars>>
  BY DEF TickAdd, TickRollback
<1>5. \E at : pc' = [pc EXCEPT ![t] = at]
  <2>1. \E r : AfterAdd(t, r)
    BY Zenon DEF TickAdd, TickRollback
  <2> QED BY <2>1, Zenon DEF AfterAdd, Become
<1>6. \A b \in Admins : pc'[b] = pc[b]
  BY <1>5, KindsAssumption DEF IInv, TypeOK, LocalOK, Callers
<1> QED BY <1>3, <1>4, <1>6, AddTrafficKeepsReports DEF Reads, restartVars

LEMMA ViewKeepsReports ==
  ASSUME IInv, ReportInv, NEW a \in Admins, View(a)
  PROVE  ReportInv'
<1>1. DOMAIN NoTraffic \subseteq Clients /\ NoTraffic \in [DOMAIN NoTraffic -> Nat]
  BY DEF NoTraffic
<1>2. \A ok \in BOOLEAN : Returned(AddTraffic(NoTraffic, ok))
  BY <1>1, AddTrafficReturns DEF IInv, TypeOK, XrayOK, HistoryOK
<1>3. \E r : Returned(r) /\ Commit(r)
  BY <1>2 DEF View
<1>4. UNCHANGED <<task, view, restartVars>> /\ pc' = [pc EXCEPT ![a] = "idle"]
  BY DEF View, localVars, Become
<1>5. \A b \in Admins : pc'[b] = pc[b] \/ pc'[b] = "idle"
  BY <1>4 DEF IInv, TypeOK, LocalOK
<1> QED BY <1>3, <1>4, <1>5, AddTrafficKeepsReports DEF Reads, restartVars

(* The restart reads a client that is on, row and record. *)
LEMMA RestartKeepsReports ==
  ASSUME IInv, ReportInv, NEW x \in Callers, RestartStep(x) \/ RestartRefused(x) \/ RestartRollback(x)
  PROVE  ReportInv'
<1>1. CASE RestartBegin(x)
  <2>1. DOMAIN NoTraffic \subseteq Clients /\ NoTraffic \in [DOMAIN NoTraffic -> Nat]
    BY DEF NoTraffic
  <2>2. \A ok \in BOOLEAN : Returned(AddTraffic(NoTraffic, ok))
    BY <2>1, AddTrafficReturns DEF IInv, TypeOK, XrayOK, HistoryOK
  <2>3. \E r : Returned(r) /\ Commit(r)
    BY <1>1, <2>2 DEF RestartBegin
  <2>4. UNCHANGED <<task, view, pc>> /\ rstep' = "rows"
    BY <1>1 DEF RestartBegin, localVars
  <2> QED BY <2>3, <2>4, AddTrafficKeepsReports DEF Reads
<1>2. CASE RestartRows(x) \/ RestartRecords(x)
  <2>1. UNCHANGED <<task, view, pc, setOn, recOn, rowOn, holder>>
    BY <1>2 DEF RestartRows, RestartRecords, localVars, dbVars
  <2>2. ViewInv' /\ \A a \in Admins : NoRival(a)'
    BY <2>1 DEF ReportInv, ViewInv, NoRival
  <2>3. ASSUME NEW a \in Admins, SwitchesOn(a)', task[a].c \in rowOn, Reads(a)' PROVE task[a].c \in snap'
    <3>1. SwitchesOn(a) /\ OnInv(a)
      BY <2>1, <2>3 DEF SwitchesOn, ReportInv
    <3>2. CASE RestartRows(x)
      BY <2>3, <3>2 DEF RestartRows
    <3>3. CASE RestartRecords(x)
      <4>1. Reads(a)
        BY <2>1, <2>3, <3>3 DEF RestartRecords, Reads
      <4> QED BY <2>3, <3>1, <3>3, <4>1 DEF RestartRecords, OnInv
    <3> QED BY <1>2, <3>2, <3>3
  <2>4. ASSUME NEW a \in Admins PROVE OnInv(a)'
    BY <2>1, <2>3 DEF ReportInv, OnInv, SwitchesOn
  <2> QED BY <2>2, <2>4 DEF ReportInv
<1>3. CASE RestartStop(x)
  <2>1. UNCHANGED <<task, view, pc, setOn, recOn, rowOn, holder, snap>> /\ rstep = "stop"
    BY <1>3 DEF RestartStop, localVars, dbVars
  <2> QED BY <2>1, IdleKeepsReports DEF Reads
<1>4. CASE RestartStart(x) \/ RestartSkipped(x) \/ RestartRefused(x) \/ RestartRollback(x)
  <2>1. UNCHANGED <<task, view, setOn, recOn, rowOn>> /\ holder' = None /\ pc[x] = "restart"
    BY <1>4, KindsAssumption DEF RestartStart, RestartSkipped, RestartRefused, RestartRollback, Unlock, localVars, dbVars,
       IInv, LockInv, Callers
  <2>2. \E at \in {"idle", "flag"} : pc' = [pc EXCEPT ![x] = at]
    BY <1>4 DEF RestartStart, RestartSkipped, RestartRefused, RestartRollback, Failed, Become
  <2>3. \A b \in Admins : /\ pc'[b] = pc[b] \/ pc'[b] \notin {"update", "record", "restart"}
                          /\ pc'[b] # "idle" => pc[b] # "idle"
    BY <2>1, <2>2 DEF IInv, TypeOK, LocalOK
  <2>4. \A a \in Admins : ~ Reads(a)'
    BY <2>1, KindsAssumption DEF Reads, Callers
  <2> QED BY <2>1, <2>3, <2>4, IdleKeepsReports
<1> QED BY <1>1, <1>2, <1>3, <1>4 DEF RestartStep

(* Where a handler is tells what it has been asked. *)
OpInv ==
  \A a \in Admins :
    /\ pc[a] \in {"switch", "lock", "update", "record"} => task[a].op \in {"on", "off"}
    /\ pc[a] \in {"botReset", "resetAll"} => task[a].op = pc[a]

LEMMA OpStep == IInv /\ OpInv /\ [Next]_vars => OpInv'
<1> SUFFICES ASSUME IInv, OpInv, [Next]_vars PROVE OpInv'
  OBVIOUS
<1>1. pc \in [Callers -> States] /\ task \in [Admins -> Tasks]
  BY DEF IInv, TypeOK, LocalOK
<1>2. CASE (\E c \in Clients : Traffic(c)) \/ NextDay \/ UNCHANGED vars
  BY <1>2 DEF OpInv, Traffic, NextDay, vars, localVars
<1>3. ASSUME NEW t \in Ticks, TickStep(t) \/ TickRollback(t) PROVE OpInv'
  <2>1. task' = task
    BY <1>3 DEF TickStep, TickRead, TickAdd, TickFlag, TickRollback
  <2>2. \E at : pc' = [pc EXCEPT ![t] = at]
    <3>1. CASE TickRead(t) \/ TickFlag(t)
      BY <3>1, Zenon DEF TickRead, TickFlag, Become
    <3>2. CASE TickAdd(t) \/ TickRollback(t)
      <4>1. \E r : AfterAdd(t, r)
        BY <3>2, Zenon DEF TickAdd, TickRollback
      <4> QED BY <4>1, Zenon DEF AfterAdd, Become
    <3> QED BY <1>3, <3>1, <3>2 DEF TickStep
  <2> QED BY <1>1, <2>1, <2>2, KindsAssumption DEF OpInv, Callers
<1>4. CASE CronRun
  BY <1>1, <1>4, KindsAssumption DEF OpInv, CronRun, Become, localVars, Callers
<1>5. ASSUME NEW x \in Callers, RestartStep(x) \/ RestartRefused(x) \/ RestartRollback(x)
      PROVE  OpInv'
  <2>1. CASE RestartBegin(x) \/ RestartRows(x) \/ RestartRecords(x) \/ RestartStop(x)
    BY <2>1 DEF OpInv, RestartBegin, RestartRows, RestartRecords, RestartStop, localVars
  <2>2. CASE RestartStart(x) \/ RestartSkipped(x) \/ RestartRefused(x) \/ RestartRollback(x)
    <3>1. task' = task
      BY <2>2 DEF RestartStart, RestartSkipped, RestartRefused, RestartRollback, localVars
    <3>2. \E at \in {"idle", "flag"} : pc' = [pc EXCEPT ![x] = at]
      BY <2>2 DEF RestartStart, RestartSkipped, RestartRefused, RestartRollback, Failed, Become
    <3> QED BY <1>1, <3>1, <3>2 DEF OpInv
  <2> QED BY <1>5, <2>1, <2>2 DEF RestartStep
<1>6. ASSUME NEW a \in Admins, NEW o \in Ops, NEW c \in Clients, Call(a, o, c) PROVE OpInv'
  <2>1. pc' = [pc EXCEPT ![a] = IF o \in {"on", "off"} THEN "switch" ELSE o]
    BY <1>6 DEF Call, Become
  <2>2. task'[a].op = o /\ \A b \in Admins : b # a => task'[b].op = task[b].op
    BY <1>1, <1>6 DEF Call, Tasks
  <2>3. o \notin {"switch", "lock", "update", "record"}
    BY KindsAssumption
  <2> QED BY <1>1, <2>1, <2>2, <2>3 DEF OpInv, Callers
<1>7. ASSUME NEW a \in Admins, RequestStep(a) \/ SwitchFails(a) \/ ResetFails(a) PROVE OpInv'
  <2>1. \A b \in Admins : task'[b].op = task[b].op
    <3>1. task' = task \/ \E s : task' = [task EXCEPT ![a].sole = s]
      BY <1>7, Zenon DEF RequestStep, SwitchRead, SwitchRecord, SwitchLock, SwitchUpdate, SwitchDone, SwitchFails,
         ResetRead, ResetSave, ResetFails, ResetRows, View, localVars
    <3> QED BY <1>1, <3>1 DEF Tasks
  <2>2. \E at : /\ pc' = [pc EXCEPT ![a] = at]
               /\ \/ at \in {"idle", "restart", "save"}
                  \/ at \in {"lock", "update", "record"} /\ pc[a] \in {"switch", "lock", "update"}
    BY <1>7, Zenon DEF RequestStep, SwitchRead, SwitchRecord, SwitchLock, SwitchUpdate, SwitchDone, SwitchFails,
       ResetRead, ResetSave, ResetFails, ResetRows, View, Become
  <2> QED BY <1>1, <2>1, <2>2 DEF OpInv, Callers
<1> QED BY <1>2, <1>3, <1>4, <1>5, <1>6, <1>7 DEF Next

(* The handler itself, and the handlers for other clients. *)
LEMMA SwitchRecordKeepsReports ==
  ASSUME IInv, OpInv, ReportInv, NEW a \in Admins, SwitchRecord(a)
  PROVE  ReportInv'
<1>1. /\ UNCHANGED <<rowOn, setOn, restartVars, view>> /\ pc[a] = "switch" /\ a # holder
      /\ (task[a].c \in setOn) = Wanted(a) /\ recOn' = With(recOn, task[a].c, Wanted(a))
      /\ task' = [task EXCEPT ![a].sole = @ /\ Wanted(a)] /\ task \in [Admins -> Tasks]
      /\ pc \in [Callers -> States] /\ a \in Callers
  BY KindsAssumption DEF SwitchRecord, IInv, LockInv, TypeOK, LocalOK, Callers
<1>2. \E at \in {"idle", "restart"} : pc' = [pc EXCEPT ![a] = at]
  BY DEF SwitchRecord, Become
<1>3. \A b \in Admins : b # a => pc'[b] = pc[b] /\ task'[b] = task[b]
  BY <1>1, <1>2 DEF Callers
<1>4. task'[a].op = task[a].op /\ task'[a].c = task[a].c
  BY <1>1 DEF Tasks
<1>5. task'[a].sole => task[a].sole /\ Wanted(a)
  <2>1. task'[a].sole = (task[a].sole /\ Wanted(a))
    BY <1>1 DEF Tasks
  <2> QED BY <2>1, Zenon
<1>6. \A b \in Admins : pc'[b] # "idle" => pc[b] # "idle"
  BY <1>1, <1>3
<1>7. ASSUME NEW b \in Admins PROVE NoRival(b)'
  BY <1>3, <1>4, <1>5, <1>6 DEF ReportInv, NoRival
<1>8. ViewInv'
  BY <1>1, <1>2 DEF ReportInv, ViewInv
<1>9. OnInv(a)'
  <2> SUFFICES ASSUME SwitchesOn(a)' PROVE OnInv(a)'
    BY DEF OnInv
  <2>1. Wanted(a)
    BY <1>5 DEF SwitchesOn
  <2>2. task[a].c \in setOn /\ task[a].c \in recOn'
    BY <1>1, <2>1 DEF With
  <2> QED BY <1>1, <1>4, <2>2 DEF OnInv, Reads, restartVars
<1>10. ASSUME NEW b \in Admins, b # a PROVE OnInv(b)'
  <2> SUFFICES ASSUME SwitchesOn(b)' PROVE OnInv(b)'
    BY DEF OnInv
  <2>1. SwitchesOn(b) /\ NoRival(b) /\ OnInv(b) /\ task'[b] = task[b]
    BY <1>3, <1>10 DEF SwitchesOn, ReportInv
  <2>2. ~ Contests("on", task[a].op, task[a].c, task[b].c)
    BY <1>1, <1>10, <2>1 DEF NoRival, SwitchesOn
  <2>3. task[b].c \in recOn => task[b].c \in recOn'
    <3>1. CASE Wanted(a)
      BY <1>1, <3>1 DEF With
    <3>2. CASE task[a].c # task[b].c
      BY <1>1, <3>2 DEF With
    <3>3. CASE ~ Wanted(a) /\ task[a].c = task[b].c
      <4>1. task[a].op = "off"
        BY <1>1, <3>3 DEF Wanted, OpInv
      <4> QED BY <2>2, <3>3, <4>1 DEF Contests
    <3> QED BY <3>1, <3>2, <3>3
  <2> QED BY <1>1, <2>1, <2>3 DEF OnInv, Reads, restartVars
<1> QED BY <1>7, <1>8, <1>9, <1>10 DEF ReportInv

(* What another handler does is about another client, or no contradiction. *)
LEMMA OthersDoNotContest ==
  ASSUME IInv, OpInv, ReportInv, NEW a \in Admins, NEW b \in Admins, a # b, SwitchesOn(b), pc[a] # "idle"
  PROVE  /\ pc[a] \in {"switch", "lock", "update", "record"} /\ task[a].c = task[b].c => Wanted(a)
         /\ pc[a] \in {"save", "botReset"} => task[a].c # task[b].c
         /\ pc[a] # "resetAll"
<1>1. NoRival(b) /\ pc[b] # "idle" /\ task[b].op = "on" /\ task[b].sole
  BY DEF ReportInv, SwitchesOn
<1>2. ~ Contests("on", task[a].op, task[a].c, task[b].c)
  BY <1>1 DEF NoRival
<1>3. pc[a] \in {"switch", "lock", "update", "record"} => task[a].op \in {"on", "off"}
  BY DEF OpInv
<1>4. (pc[a] = "save" => task[a].op = "reset") /\ (pc[a] \in {"botReset", "resetAll"} => task[a].op = pc[a])
  BY DEF OpInv, IInv, TypeOK, LocalOK
<1> QED BY <1>2, <1>3, <1>4 DEF Contests, Favours, Wanted

LEMMA SwitchLockKeepsReports ==
  ASSUME IInv, ReportInv, NEW a \in Admins, SwitchLock(a)
  PROVE  ReportInv'
<1>1. /\ UNCHANGED <<task, rowOn, setOn, recOn, restartVars>> /\ pc[a] = "lock"
      /\ pc' = [pc EXCEPT ![a] = "update"] /\ view' = [view EXCEPT ![a] = [on |-> setOn, expiry |-> setExpiry]]
      /\ pc \in [Callers -> States] /\ view \in [Admins -> Views] /\ a \in Callers
  BY DEF SwitchLock, Become, dbVars, IInv, TypeOK, LocalOK, Callers
<1>2. ViewInv'
  BY <1>1 DEF ReportInv, ViewInv, Callers
<1>3. \A b \in Admins : NoRival(b)' /\ OnInv(b)'
  BY <1>1 DEF ReportInv, NoRival, OnInv, SwitchesOn, Reads, restartVars, Callers
<1> QED BY <1>2, <1>3 DEF ReportInv

LEMMA SwitchUpdateKeepsReports ==
  ASSUME IInv, OpInv, ReportInv, NEW a \in Admins, SwitchUpdate(a)
  PROVE  ReportInv'
<1>1. /\ UNCHANGED <<task, restartVars>> /\ pc[a] = "update" /\ a # holder
      /\ pc' = [pc EXCEPT ![a] = "record"] /\ pc \in [Callers -> States] /\ a \in Callers
      /\ rowOn' = With(rowOn, task[a].c, Wanted(a)) /\ setOn' = With(view[a].on, task[a].c, Wanted(a))
      /\ recOn' = With(view[a].on, task[a].c, Wanted(a))
  BY KindsAssumption DEF SwitchUpdate, Become, IInv, LockInv, TypeOK, LocalOK, Callers
<1>2. \A b \in Admins : pc'[b] # "update"
  BY <1>1 DEF IInv, LockInv, Callers
<1>3. ViewInv'
  BY <1>2 DEF ViewInv
<1>4. \A b \in Admins : NoRival(b)'
  BY <1>1 DEF ReportInv, NoRival, Callers
<1>5. OnInv(a)'
  <2>1. SwitchesOn(a)' => Wanted(a)
    BY <1>1 DEF SwitchesOn, Wanted
  <2> QED BY <1>1, <2>1 DEF OnInv, Reads, restartVars, With
<1>6. ASSUME NEW b \in Admins, b # a PROVE OnInv(b)'
  <2> SUFFICES ASSUME SwitchesOn(b)', task[b].c \in rowOn' PROVE OnInv(b)'
    BY <1>1 DEF OnInv
  <2>1. SwitchesOn(b) /\ OnInv(b) /\ task[b].c \in Clients
    BY <1>1, <1>6 DEF SwitchesOn, ReportInv, IInv, TypeOK, LocalOK, Callers
  <2>2. task[a].c = task[b].c => Wanted(a)
    BY <1>1, <1>6, <2>1, OthersDoNotContest
  <2>3. CASE task[b].c \in rowOn
    <3>1. task[b].c \in setOn /\ (Reads(b) => task[b].c \in snap)
      BY <2>1, <2>3 DEF OnInv
    <3>2. task[b].c \in view[a].on
      BY <1>1, <2>1, <3>1 DEF ReportInv, ViewInv, SwitchesOn
    <3>3. task[b].c \in setOn' /\ task[b].c \in recOn'
      BY <1>1, <2>2, <3>2 DEF With
    <3> QED BY <1>1, <3>1, <3>3 DEF OnInv, Reads, restartVars
  <2>4. CASE task[b].c \notin rowOn
    <3>1. task[a].c = task[b].c /\ Wanted(a)
      BY <1>1, <2>4 DEF With
    <3>2. NoRival(b) /\ task[b].op = "on" /\ task[b].sole /\ pc[b] # "idle"
      BY <2>1 DEF SwitchesOn, ReportInv
    <3>3. ~ Contests("on", task[a].op, task[a].c, task[b].c)
      BY <1>1, <1>6, <3>2 DEF NoRival
    <3> QED BY <3>1, <3>3 DEF Contests, Favours, Wanted
  <2> QED BY <2>3, <2>4
<1> QED BY <1>3, <1>4, <1>5, <1>6 DEF ReportInv

LEMMA SwitchDoneKeepsReports ==
  ASSUME IInv, OpInv, ReportInv, NEW a \in Admins, SwitchDone(a)
  PROVE  ReportInv'
<1>1. /\ UNCHANGED <<task, view, restartVars, rowOn, setOn>> /\ pc[a] = "record"
      /\ pc' = [pc EXCEPT ![a] = "restart"] /\ pc \in [Callers -> States] /\ a \in Callers
      /\ recOn' = With(recOn, task[a].c, Wanted(a))
  BY DEF SwitchDone, Become, localVars, IInv, TypeOK, LocalOK, Callers
<1>2. ViewInv' /\ \A b \in Admins : NoRival(b)'
  BY <1>1 DEF ReportInv, ViewInv, NoRival, Callers
<1>3. ASSUME NEW b \in Admins PROVE OnInv(b)'
  <2> SUFFICES ASSUME SwitchesOn(b)' PROVE OnInv(b)'
    BY DEF OnInv
  <2>1. SwitchesOn(b) /\ OnInv(b)
    BY <1>1, <1>3 DEF SwitchesOn, ReportInv, Callers
  <2>2. task[a].c = task[b].c => Wanted(a)
    BY <1>1, <2>1, OthersDoNotContest DEF SwitchesOn, Wanted
  <2> QED BY <1>1, <2>1, <2>2 DEF OnInv, With, Reads, restartVars
<1> QED BY <1>2, <1>3 DEF ReportInv

LEMMA ResetSaveKeepsReports ==
  ASSUME IInv, OpInv, ReportInv, NEW a \in Admins, ResetSave(a)
  PROVE  ReportInv'
<1>1. /\ UNCHANGED <<task, restartVars, setOn, recOn>> /\ pc[a] = "save" /\ task[a].op = "reset"
      /\ \E at \in {"restart", "idle"} : pc' = [pc EXCEPT ![a] = at]
      /\ pc \in [Callers -> States] /\ a \in Callers
      /\ rowOn' = rowOn \cup {task[a].c} /\ view' = [view EXCEPT ![a] = NoView]
  BY DEF ResetSave, Become, Forget, IInv, TypeOK, LocalOK, Callers
<1>2. \A b \in Admins : pc'[b] = "update" => pc[b] = "update" /\ view'[b] = view[b]
  BY <1>1 DEF IInv, TypeOK, LocalOK, Callers
<1>3. \A b \in Admins : pc'[b] # "idle" => pc[b] # "idle"
  BY <1>1 DEF Callers
<1>4. ASSUME NEW b \in Admins, SwitchesOn(b)' PROVE SwitchesOn(b) /\ task[b].c # task[a].c
  <2>1. a # b /\ SwitchesOn(b)
    BY <1>1, <1>4 DEF SwitchesOn, Callers
  <2> QED BY <1>1, <2>1, OthersDoNotContest
<1> QED BY <1>1, <1>2, <1>3, <1>4, StepsKeepReports DEF Reads, restartVars

LEMMA ResetRowsKeepsReports ==
  ASSUME IInv, OpInv, ReportInv, NEW a \in Admins, ResetRows(a)
  PROVE  ReportInv'
<1>1. /\ UNCHANGED <<localVars, restartVars, setOn, recOn>> /\ pc[a] \in {"botReset", "resetAll"}
      /\ pc' = [pc EXCEPT ![a] = "idle"] /\ pc \in [Callers -> States] /\ a \in Callers
      /\ pc[a] = "botReset" => rowOn' = rowOn \cup {task[a].c}
  <2>1. pc[a] = "botReset" => task[a].op # "resetAll"
    BY DEF OpInv
  <2> QED BY <2>1 DEF ResetRows, Become, IInv, TypeOK, LocalOK, Callers
<1>2. ASSUME NEW b \in Admins, SwitchesOn(b)' PROVE SwitchesOn(b) /\ (task[b].c \in rowOn' => task[b].c \in rowOn)
  <2>1. a # b /\ SwitchesOn(b)
    BY <1>1, <1>2 DEF SwitchesOn, Callers, localVars
  <2>2. pc[a] # "resetAll" /\ (pc[a] = "botReset" => task[a].c # task[b].c)
    BY <1>1, <2>1, OthersDoNotContest
  <2> QED BY <1>1, <2>1, <2>2
<1>3. \A b \in Admins : (pc'[b] # "idle" => pc[b] # "idle") /\ (pc'[b] = "update" => pc[b] = "update")
  BY <1>1 DEF Callers
<1> QED BY <1>1, <1>2, <1>3, StepsKeepReports DEF Reads, restartVars, localVars

LEMMA CallKeepsReports ==
  ASSUME IInv, ReportInv, NEW a \in Admins, NEW o \in Ops, NEW c \in Clients, Call(a, o, c)
  PROVE  ReportInv'
<1>1. /\ UNCHANGED <<rowOn, setOn, recOn, restartVars, view>> /\ pc[a] = "idle" /\ a \in Callers
      /\ pc' = [pc EXCEPT ![a] = IF o \in {"on", "off"} THEN "switch" ELSE o]
      /\ pc \in [Callers -> States] /\ task \in [Admins -> Tasks]
  BY DEF Call, Become, dbVars, Callers, IInv, TypeOK, LocalOK
<1>2. pc'[a] \notin {"update", "record", "restart"} /\ \A b \in Admins : b # a => pc'[b] = pc[b]
  BY <1>1, KindsAssumption DEF Callers
<1>3. /\ task'[a].op = o /\ task'[a].c = c
      /\ task'[a].sole => ~ Contested(o, c)
  <2>1. task'[a] = [op |-> o, c |-> c, sole |-> ~ Contested(o, c)]
    BY DEF Call
  <2>2. task'[a].op = o /\ task'[a].c = c
    BY <2>1
  <2>3. Contested(o, c) => ~ task'[a].sole
    <3> SUFFICES ASSUME Contested(o, c) PROVE ~ task'[a].sole
      OBVIOUS
    <3>1. (~ Contested(o, c)) = FALSE
      OBVIOUS
    <3>2. task'[a] = [op |-> o, c |-> c, sole |-> FALSE]
      BY <2>1, <3>1, Zenon
    <3> QED BY <3>2
  <2> QED BY <2>2, <2>3, Zenon
<1>4. \A b \in Admins : b # a =>
        /\ task'[b].op = task[b].op /\ task'[b].c = task[b].c
        /\ task'[b].sole => task[b].sole /\ ~ Contests(task[b].op, o, c, task[b].c)
  <2> SUFFICES ASSUME NEW b \in Admins, b # a
               PROVE  /\ task'[b].op = task[b].op /\ task'[b].c = task[b].c
                      /\ task'[b].sole => task[b].sole /\ ~ Contests(task[b].op, o, c, task[b].c)
    OBVIOUS
  <2>1. task'[b] = [task[b] EXCEPT !.sole = @ /\ ~ Contests(task[b].op, o, c, task[b].c)] /\ task[b] \in Tasks
    BY <1>1 DEF Call
  <2>2. task'[b].sole = (task[b].sole /\ ~ Contests(task[b].op, o, c, task[b].c))
    BY <2>1 DEF Tasks
  <2>3. task'[b].sole => task[b].sole /\ ~ Contests(task[b].op, o, c, task[b].c)
    BY <2>2, Zenon
  <2> QED BY <2>1, <2>3 DEF Tasks
<1>5. NoRival(a)'
  <2>1. ~ Contested(o, c) => \A b \in Admins : pc[b] # "idle" => ~ Contests(o, task[b].op, task[b].c, c)
    BY DEF Contested
  <2> QED BY <1>2, <1>3, <1>4, <2>1 DEF NoRival
<1>6. ASSUME NEW b \in Admins, b # a PROVE NoRival(b)'
  <2> SUFFICES ASSUME pc'[b] # "idle", task'[b].sole, NEW d \in Admins, d # b, pc'[d] # "idle"
               PROVE  ~ Contests(task'[b].op, task'[d].op, task'[d].c, task'[b].c)
    BY DEF NoRival
  <2>1. CASE d = a
    BY <1>3, <1>4, <1>6, <2>1
  <2>2. CASE d # a
    BY <1>2, <1>4, <1>6, <2>2 DEF ReportInv, NoRival
  <2> QED BY <2>1, <2>2
<1>7. ViewInv'
  BY <1>1, <1>2 DEF ReportInv, ViewInv
<1>8. ASSUME NEW b \in Admins PROVE OnInv(b)'
  <2> SUFFICES ASSUME SwitchesOn(b)' PROVE OnInv(b)'
    BY DEF OnInv
  <2>1. b # a /\ SwitchesOn(b) /\ OnInv(b)
    BY <1>2, <1>4, <1>8 DEF SwitchesOn, ReportInv
  <2> QED BY <1>1, <1>4, <2>1 DEF OnInv, Reads, restartVars
<1> QED BY <1>5, <1>6, <1>7, <1>8 DEF ReportInv

LEMMA ReportStep == IInv /\ OpInv /\ ReportInv /\ [Next]_vars => ReportInv'
<1> SUFFICES ASSUME IInv, OpInv, ReportInv, [Next]_vars PROVE ReportInv'
  OBVIOUS
<1>0. pc \in [Callers -> States]
  BY DEF IInv, TypeOK, LocalOK
<1>1. CASE (\E c \in Clients : Traffic(c)) \/ NextDay \/ UNCHANGED vars
  <2>1. UNCHANGED <<dbVars, restartVars, localVars, pc>>
    BY <1>1 DEF Traffic, NextDay, vars
  <2> QED BY <2>1, IdleKeepsReports DEF dbVars, localVars, restartVars, Reads
<1>2. ASSUME NEW t \in Ticks, TickStep(t) \/ TickRollback(t) PROVE ReportInv'
  <2>1. CASE TickRead(t) \/ TickFlag(t)
    <3>1. UNCHANGED <<dbVars, restartVars, task, view>> /\ \E at : pc' = [pc EXCEPT ![t] = at]
      BY <2>1, Zenon DEF TickRead, TickFlag, Become
    <3>2. \A b \in Admins : pc'[b] = pc[b]
      BY <1>0, <3>1, KindsAssumption DEF Callers
    <3> QED BY <3>1, <3>2, IdleKeepsReports DEF dbVars, restartVars, Reads
  <2> QED BY <1>2, <2>1, TicksKeepReports DEF TickStep
<1>3. CASE CronRun
  <2>1. UNCHANGED <<dbVars, restartVars, localVars>> /\ pc' = [pc EXCEPT ![Cron] = "restart"]
    BY <1>3 DEF CronRun, Become
  <2>2. \A b \in Admins : pc'[b] = pc[b]
    BY <1>0, <2>1, KindsAssumption DEF Callers
  <2> QED BY <2>1, <2>2, IdleKeepsReports DEF dbVars, localVars, restartVars, Reads
<1>4. ASSUME NEW x \in Callers, RestartStep(x) \/ RestartRefused(x) \/ RestartRollback(x) PROVE ReportInv'
  BY <1>4, RestartKeepsReports
<1>5. ASSUME NEW a \in Admins, NEW o \in Ops, NEW c \in Clients, Call(a, o, c) PROVE ReportInv'
  BY <1>5, CallKeepsReports
<1>6. ASSUME NEW a \in Admins, RequestStep(a) \/ SwitchFails(a) \/ ResetFails(a) PROVE ReportInv'
  <2>1. CASE SwitchRead(a) \/ ResetRead(a)
    <3>1. UNCHANGED <<dbVars, restartVars, task, view>> /\ \E at \in {"lock", "save"} : pc' = [pc EXCEPT ![a] = at]
      BY <2>1 DEF SwitchRead, ResetRead, Become
    <3>2. pc[a] # "idle"
      BY <2>1 DEF SwitchRead, ResetRead
    <3>3. \A b \in Admins : /\ pc'[b] = pc[b] \/ pc'[b] \notin {"update", "record", "restart"}
                            /\ pc'[b] # "idle" => pc[b] # "idle"
      BY <1>0, <3>1, <3>2 DEF Callers
    <3> QED BY <3>1, <3>3, IdleKeepsReports DEF dbVars, restartVars, Reads
  <2>2. CASE SwitchFails(a) \/ ResetFails(a)
    <3>1. /\ UNCHANGED <<dbVars, restartVars, task>> /\ pc' = [pc EXCEPT ![a] = "idle"]
          /\ view' = [view EXCEPT ![a] = NoView]
      BY <2>2 DEF SwitchFails, ResetFails, Become, Forget
    <3>2. \A b \in Admins : /\ pc'[b] # "idle" => pc[b] # "idle"
                            /\ pc'[b] = "update" => pc[b] = "update" /\ view'[b] = view[b]
                            /\ SwitchesOn(b)' => SwitchesOn(b)
      BY <1>0, <3>1 DEF IInv, TypeOK, LocalOK, Callers, SwitchesOn
    <3> QED BY <3>1, <3>2, StepsKeepReports DEF dbVars, restartVars, Reads
  <2> QED BY <1>6, <2>1, <2>2, SwitchRecordKeepsReports, SwitchLockKeepsReports, SwitchUpdateKeepsReports,
          SwitchDoneKeepsReports, ResetSaveKeepsReports, ResetRowsKeepsReports, ViewKeepsReports DEF RequestStep
<1> QED BY <1>1, <1>2, <1>3, <1>4, <1>5, <1>6 DEF Next

(* A restart ends in one of four ways. *)
LEMMA RestartEnds ==
  ASSUME IInv, Next, NEW a \in Admins, pc[a] = "restart", pc'[a] = "idle"
  PROVE  RestartStart(a) \/ RestartSkipped(a) \/ RestartRefused(a) \/ RestartRollback(a)
<1>0. pc \in [Callers -> States] /\ a \in Callers
  BY DEF IInv, TypeOK, LocalOK, Callers
<1>1. ASSUME NEW y, pc[y] # "restart", NEW at, pc' = [pc EXCEPT ![y] = at] PROVE FALSE
  BY <1>0, <1>1
<1>2. pc' # pc
  BY <1>0
<1>3. CASE \/ \E c \in Clients : Traffic(c)
           \/ NextDay
  BY <1>2, <1>3 DEF Traffic, NextDay
<1>4. ASSUME NEW t \in Ticks, TickStep(t) \/ TickRollback(t) PROVE FALSE
  <2>1. pc[t] # "restart"
    BY <1>4 DEF TickStep, TickRead, TickAdd, TickFlag, TickRollback
  <2>2. \E at : pc' = [pc EXCEPT ![t] = at]
    <3>1. CASE TickRead(t)
      BY <3>1 DEF TickRead, Become
    <3>2. CASE TickFlag(t)
      BY <3>2 DEF TickFlag, Become
    <3>3. CASE TickAdd(t) \/ TickRollback(t)
      <4>1. \E r : AfterAdd(t, r)
        BY <3>3, Zenon DEF TickAdd, TickRollback
      <4> QED BY <4>1, Zenon DEF AfterAdd, Become
    <3> QED BY <1>4, <3>1, <3>2, <3>3 DEF TickStep
  <2> QED BY <1>1, <2>1, <2>2
<1>5. CASE CronRun
  BY <1>1, <1>5 DEF CronRun, Become
<1>6. CASE \E x \in Callers : RestartStep(x) \/ RestartRefused(x) \/ RestartRollback(x)
  <2>1. PICK x \in Callers : RestartStep(x) \/ RestartRefused(x) \/ RestartRollback(x)
    BY <1>6
  <2>2. RestartStart(x) \/ RestartSkipped(x) \/ RestartRefused(x) \/ RestartRollback(x)
    <3>1. ~ (RestartBegin(x) \/ RestartRows(x) \/ RestartRecords(x) \/ RestartStop(x))
      BY <1>2 DEF RestartBegin, RestartRows, RestartRecords, RestartStop
    <3> QED BY <2>1, <3>1 DEF RestartStep
  <2>3. \E at : pc' = [pc EXCEPT ![x] = at]
    BY <2>2, Zenon DEF RestartStart, RestartSkipped, RestartRefused, RestartRollback, Failed, Become
  <2>4. x = a
    BY <1>0, <2>3
  <2> QED BY <2>2, <2>4
<1>7. ASSUME NEW b \in Admins, NEW o \in Ops, NEW c \in Clients, Call(b, o, c) PROVE FALSE
  BY <1>1, <1>7 DEF Call, Become
<1>8. ASSUME NEW b \in Admins, RequestStep(b) \/ SwitchFails(b) \/ ResetFails(b) PROVE FALSE
  <2>1. pc[b] # "restart"
    BY <1>8 DEF RequestStep, SwitchRead, SwitchRecord, SwitchLock, SwitchUpdate, SwitchDone, ResetRead,
       ResetSave, ResetRows, View, SwitchFails, ResetFails
  <2>2. \E at : pc' = [pc EXCEPT ![b] = at]
    BY <1>8, Zenon DEF RequestStep, SwitchRead, SwitchRecord, SwitchLock, SwitchUpdate, SwitchDone,
       ResetRead, ResetSave, ResetRows, View, SwitchFails, ResetFails, Become
  <2> QED BY <1>1, <2>1, <2>2
<1> QED BY <1>3, <1>4, <1>5, <1>6, <1>7, <1>8 DEF Next

(* A client without renewal that the panel reports switched on is served,  *)
(* unless it has been disabled again (SetClientEnableByEmail of            *)
(* web/service/client.go, then RestartXray of web/service/xray.go).        *)
THEOREM OnIsServed == Spec => ReportedOnIsServed
<1>1. Init => OpInv /\ ReportInv
  <2> SUFFICES ASSUME Init PROVE OpInv /\ ReportInv
    OBVIOUS
  <2>1. \A a \in Admins : pc[a] = "idle"
    BY DEF Init, Callers
  <2> QED BY <2>1 DEF OpInv, ReportInv, ViewInv, NoRival, OnInv, SwitchesOn
<1>2. IInv /\ OpInv /\ ReportInv /\ [Next]_vars =>
        [\A a \in Admins :
           pc[a] = "restart" /\ pc'[a] = "idle" /\ task[a].op = "on" /\ task[a].sole /\ ~ told' =>
             LET c == task[a].c IN c \in served' \/ Off(c)' \/ Period[c] > 0]_vars
  <2> SUFFICES ASSUME IInv, ReportInv, Next, NEW a \in Admins, pc[a] = "restart", pc'[a] = "idle",
                      task[a].op = "on", task[a].sole, ~ told'
               PROVE  task[a].c \in served' \/ Off(task[a].c)' \/ Period[task[a].c] > 0
    OBVIOUS
  <2>1. task[a].c \in Clients /\ (Period[task[a].c] > 0 \/ Period[task[a].c] = 0)
    BY NumbersAssumption DEF IInv, TypeOK, LocalOK
  <2>2. RestartStart(a)
    <3>1. a \in Callers /\ a # Cron /\ pc \in [Callers -> States]
      BY KindsAssumption DEF Callers, IInv, TypeOK, LocalOK
    <3>2. ~ RestartSkipped(a) /\ ~ RestartRefused(a) /\ ~ RestartRollback(a)
      BY <3>1 DEF RestartSkipped, Skips, Unneeded, RestartRefused, RestartRollback, Failed
    <3> QED BY <3>2, RestartEnds
  <2>3. rstep = "start" /\ holder = a /\ served' = snap /\ rowOn' = rowOn /\ task' = task
    BY <2>2 DEF RestartStart, dbVars, localVars
  <2>4. CASE Period[task[a].c] = 0 /\ task[a].c \in rowOn
    <3>1. SwitchesOn(a) /\ Reads(a) /\ OnInv(a)
      BY <2>3, <2>4 DEF ReportInv, SwitchesOn, Reads
    <3> QED BY <2>3, <2>4, <3>1 DEF OnInv
  <2>5. CASE task[a].c \notin rowOn
    BY <2>3, <2>5 DEF Off
  <2> QED BY <2>1, <2>4, <2>5
<1> QED BY <1>1, <1>2, OpStep, ReportStep, Inductive, PTL DEF Spec, ReportedOnIsServed
=============================================================================
