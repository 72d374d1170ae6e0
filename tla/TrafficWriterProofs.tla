------------------------ MODULE TrafficWriterProofs ------------------------
(***************************************************************************)
(* Machine-checked facts about TrafficWriter, for every set of callers and *)
(* controllers, every capacity and every number of restarts.               *)
(***************************************************************************)
EXTENDS TrafficWriter, TLAPS

USE GenAssumption, CapAssumption, FreeAssumption DEF Gens, NoGen

(* Sending adds one element at the end of a channel. *)
LEMMA SendLemma ==
  ASSUME NEW s \in Seq(Callers), NEW c \in Callers
  PROVE  /\ Append(s, c) \in Seq(Callers)
         /\ Len(Append(s, c)) = Len(s) + 1
         /\ Append(s, c)[Len(s) + 1] = c
         /\ \A i \in 1 .. Len(s) : Append(s, c)[i] = s[i]
  OBVIOUS

(* Receiving takes the first element and moves the others up by one. *)
LEMMA ReceiveLemma ==
  ASSUME NEW s \in Seq(Callers), s # << >>
  PROVE  /\ Head(s) \in Callers
         /\ Head(s) = s[1]
         /\ 1 \in 1 .. Len(s)
         /\ Tail(s) \in Seq(Callers)
         /\ Len(Tail(s)) = Len(s) - 1
         /\ \A i \in 1 .. Len(Tail(s)) : Tail(s)[i] = s[i + 1] /\ i + 1 \in 1 .. Len(s)
  OBVIOUS

(* Initially nothing runs and nothing is queued. *)
LEMMA InitIInv == Init => IInv
  BY DEF Init, IInv, TypeOK, MutexInv, WriterInv, QueueInv, ControlInv, CallerInv, HoldsInv,
         Holds, Outcomes, None, Stopped, Full

(* A step that leaves the channels and the writers' current writes alone   *)
(* leaves every request where it is.                                       *)
LEMMA HoldsStable ==
  ASSUME UNCHANGED <<queue, cur>>, NEW g \in Gens, NEW c \in Callers
  PROVE  Holds(g, c)' = Holds(g, c)
  BY DEF Holds

(* A controller that only enters Start or Stop changes nothing else.       *)
LEMMA ControlCallStep ==
  ASSUME IInv, NEW k \in Controllers, ControlCall(k) PROVE IInv'
<1>1. TypeOK /\ twGen \in {NoGen, started} /\ MutexInv /\ ControlInv(k)
  BY DEF IInv
<1>2. TypeOK'
  BY <1>1 DEF TypeOK, ControlCall, genVars, callVars, ctlVars, None, Full, Stopped, Outcomes
<1>3. (twGen \in {NoGen, started})'
  BY <1>1 DEF TypeOK, ControlCall, genVars, callVars, ctlVars
<1>4. MutexInv'
  BY <1>1 DEF TypeOK, MutexInv, ControlCall, genVars, callVars, ctlVars, CallerInv
<1>5. ASSUME NEW h \in Gens PROVE WriterInv(h)'
  <2>1. WriterInv(h)  BY DEF IInv
  <2>. QED  BY <1>1, <2>1 DEF TypeOK, WriterInv, ControlCall, genVars, callVars, ctlVars
<1>6. ASSUME NEW h \in Gens PROVE QueueInv(h)'
  <2>1. QueueInv(h)  BY DEF IInv
  <2>. QED  BY <1>1, <2>1 DEF QueueInv, ControlCall, genVars, callVars, ctlVars
<1>7. ASSUME NEW j \in Controllers PROVE ControlInv(j)'
  <2>1. ControlInv(j)  BY DEF IInv
  <2>. QED  BY <1>1, <2>1 DEF TypeOK, ControlInv, ControlCall, genVars, callVars, ctlVars
<1>8. ASSUME NEW b \in Callers PROVE CallerInv(b)'
  <2>1. CallerInv(b)  BY DEF IInv
  <2>2. \A h \in Gens : Holds(h, b)' = Holds(h, b)  BY HoldsStable DEF ControlCall, genVars, callVars, ctlVars
  <2>. QED  BY <1>1, <2>1, <2>2 DEF TypeOK, CallerInv, Unapplied, MutexInv, Accepting,
                ControlCall, genVars, callVars, ctlVars, None, Full, Stopped, Outcomes
<1>9. ASSUME NEW h \in Gens, NEW b \in Callers PROVE HoldsInv(h, b)'
  <2>1. HoldsInv(h, b)  BY DEF IInv
  <2>2. Holds(h, b)' = Holds(h, b)  BY HoldsStable DEF ControlCall, genVars, callVars, ctlVars
  <2>. QED  BY <1>1, <2>1, <2>2 DEF TypeOK, HoldsInv, ControlCall, genVars, callVars, ctlVars
<1>. QED  BY <1>2, <1>3, <1>4, <1>5, <1>6, <1>7, <1>8, <1>9 DEF IInv

(* A fresh generation starts only when the previous writer is gone.        *)
LEMMA StartTrafficWriterStep ==
  ASSUME IInv, NEW k \in Controllers, StartTrafficWriter(k) PROVE IInv'
<1>1. TypeOK /\ twGen \in {NoGen, started} /\ MutexInv /\ ControlInv(k)
  BY DEF IInv
<1>2. TypeOK'
  <2>1. CASE WriterRuns
    BY <1>1, <2>1 DEF TypeOK, StartTrafficWriter, genVars, callVars, ctlVars
  <2>2. CASE ~WriterRuns
    <3>1. started + 1 \in Gens  BY <1>1, <2>2 DEF TypeOK, StartTrafficWriter
    <3>2. /\ started' = started + 1 /\ twGen' = started + 1
          /\ writer' = [writer EXCEPT ![started + 1] = "select"]
          /\ ctl' = [ctl EXCEPT ![k] = "idle"]
          /\ UNCHANGED <<twMu, queue, ctxDone, cur, pc, my, reply, answer, applied, ctlGen>>
      BY <2>2 DEF StartTrafficWriter, callVars
    <3>3. started' \in 0 .. MaxGen /\ twGen' \in Gens \cup {NoGen}  BY <1>1, <3>1, <3>2 DEF TypeOK
    <3>. QED  BY <1>1, <3>2, <3>3 DEF TypeOK, Outcomes, None, Full, Stopped
  <2>. QED  BY <2>1, <2>2
<1>3. (twGen \in {NoGen, started})'
  BY <1>1 DEF TypeOK, StartTrafficWriter, genVars, callVars, ctlVars, WriterRuns
<1>4. MutexInv'
  BY <1>1 DEF TypeOK, MutexInv, StartTrafficWriter, genVars, callVars, ctlVars, WriterRuns, CallerInv
<1>5. ASSUME NEW h \in Gens PROVE WriterInv(h)'
  <2>1. WriterInv(h) /\ (\A g \in Gens : WriterInv(g))  BY DEF IInv
  <2>2. CASE WriterRuns
    BY <1>1, <2>1, <2>2 DEF TypeOK, WriterInv, StartTrafficWriter
  <2>3. CASE ~WriterRuns
    <3>1. /\ started + 1 \in Gens /\ started' = started + 1 /\ twGen' = started + 1
          /\ writer' = [writer EXCEPT ![started + 1] = "select"]
          /\ UNCHANGED <<queue, ctxDone, cur>>
      BY <1>1, <2>3 DEF TypeOK, StartTrafficWriter
    <3>2. CASE h = started + 1
      <4>1. writer[h] = "none"  BY <1>1, <2>1, <3>2 DEF TypeOK, WriterInv
      <4>. QED  BY <1>1, <2>1, <3>1, <3>2, <4>1 DEF TypeOK, WriterInv
    <3>3. CASE h # started + 1
      <4>1. h = twGen => writer[h] \in {"none", "closed"}  BY <2>3 DEF WriterRuns
      <4>2. writer'[h] = writer[h]  BY <1>1, <3>1, <3>3 DEF TypeOK
      <4>3. h > started' <=> h > started  BY <1>1, <3>1, <3>3 DEF TypeOK
      <4>. QED  BY <2>1, <3>1, <3>3, <4>1, <4>2, <4>3 DEF WriterInv
    <3>. QED  BY <3>2, <3>3
  <2>. QED  BY <2>2, <2>3
<1>6. ASSUME NEW h \in Gens PROVE QueueInv(h)'
  <2>1. QueueInv(h)  BY DEF IInv
  <2>. QED  BY <1>1, <2>1 DEF QueueInv, StartTrafficWriter, genVars, callVars, ctlVars
<1>7. ASSUME NEW j \in Controllers PROVE ControlInv(j)'
  <2>1. ControlInv(j) /\ (\A g \in Gens : WriterInv(g))  BY DEF IInv
  <2>2. ctl'[j] \in {"await", "clear"} => ctl'[j] = ctl[j]  BY <1>1 DEF TypeOK, StartTrafficWriter
  <2>3. started <= started' /\ UNCHANGED ctlGen  BY <1>1 DEF TypeOK, StartTrafficWriter
  <2>4. \A g \in Gens : writer[g] = "closed" => writer'[g] = "closed"
    <3>1. \A g \in Gens : writer[g] = "closed" => g # started + 1
      BY <1>1, <2>1 DEF TypeOK, WriterInv
    <3>. QED  BY <1>1, <3>1 DEF TypeOK, StartTrafficWriter
  <2>. QED  BY <1>1, <1>2, <2>1, <2>2, <2>3, <2>4 DEF TypeOK, ControlInv
<1>8. ASSUME NEW b \in Callers PROVE CallerInv(b)'
  <2>1. CallerInv(b)  BY DEF IInv
  <2>2. \A h \in Gens : Holds(h, b)' = Holds(h, b)
    BY HoldsStable DEF StartTrafficWriter
  <2>3. UNCHANGED <<twMu, pc, my, reply, answer, applied, ctxDone>> /\ started <= started'
    BY <1>1 DEF TypeOK, StartTrafficWriter, callVars
  <2>4. pc[b] # "enqueue"
    BY <1>1, <2>1 DEF CallerInv, MutexInv, StartTrafficWriter
  <2>. QED  BY <1>1, <1>2, <2>1, <2>2, <2>3, <2>4 DEF TypeOK, CallerInv, Unapplied
<1>9. ASSUME NEW h \in Gens, NEW b \in Callers PROVE HoldsInv(h, b)'
  <2>1. HoldsInv(h, b)  BY DEF IInv
  <2>2. Holds(h, b)' = Holds(h, b)  BY HoldsStable DEF StartTrafficWriter, genVars, callVars, ctlVars
  <2>. QED  BY <1>1, <2>1, <2>2 DEF TypeOK, HoldsInv, StartTrafficWriter, genVars, callVars, ctlVars
<1>. QED  BY <1>2, <1>3, <1>4, <1>5, <1>6, <1>7, <1>8, <1>9 DEF IInv

(* Cancelling happens under twMu, so no caller is sending meanwhile.       *)
LEMMA StopTrafficWriterStep ==
  ASSUME IInv, NEW k \in Controllers, StopTrafficWriter(k) PROVE IInv'
<1>1. TypeOK /\ twGen \in {NoGen, started} /\ MutexInv /\ ControlInv(k)
  BY DEF IInv
<1>2. TypeOK'
  BY <1>1 DEF TypeOK, StopTrafficWriter, genVars, callVars, ctlVars, None, Full, Stopped, Outcomes
<1>3. (twGen \in {NoGen, started})'
  BY <1>1 DEF TypeOK, StopTrafficWriter, genVars, callVars, ctlVars
<1>4. MutexInv'
  BY <1>1 DEF TypeOK, MutexInv, StopTrafficWriter, genVars, callVars, ctlVars, CallerInv
<1>5. ASSUME NEW h \in Gens PROVE WriterInv(h)'
  <2>1. WriterInv(h)  BY DEF IInv
  <2>. QED  BY <1>1, <2>1 DEF TypeOK, WriterInv, StopTrafficWriter, genVars, callVars, ctlVars
<1>6. ASSUME NEW h \in Gens PROVE QueueInv(h)'
  <2>1. QueueInv(h)  BY DEF IInv
  <2>. QED  BY <1>1, <2>1 DEF QueueInv, StopTrafficWriter, genVars, callVars, ctlVars
<1>7. ASSUME NEW j \in Controllers PROVE ControlInv(j)'
  <2>1. ControlInv(j)  BY DEF IInv
  <2>. QED  BY <1>1, <2>1 DEF TypeOK, ControlInv, StopTrafficWriter, genVars, callVars, ctlVars
<1>8. ASSUME NEW b \in Callers PROVE CallerInv(b)'
  <2>1. CallerInv(b)  BY DEF IInv
  <2>2. \A h \in Gens : Holds(h, b)' = Holds(h, b)  BY HoldsStable DEF StopTrafficWriter, genVars, callVars, ctlVars
  <2>. QED  BY <1>1, <2>1, <2>2 DEF TypeOK, CallerInv, Unapplied, MutexInv, Accepting,
                StopTrafficWriter, genVars, callVars, ctlVars, None, Full, Stopped, Outcomes
<1>9. ASSUME NEW h \in Gens, NEW b \in Callers PROVE HoldsInv(h, b)'
  <2>1. HoldsInv(h, b)  BY DEF IInv
  <2>2. Holds(h, b)' = Holds(h, b)  BY HoldsStable DEF StopTrafficWriter, genVars, callVars, ctlVars
  <2>. QED  BY <1>1, <2>1, <2>2 DEF TypeOK, HoldsInv, StopTrafficWriter, genVars, callVars, ctlVars
<1>. QED  BY <1>2, <1>3, <1>4, <1>5, <1>6, <1>7, <1>8, <1>9 DEF IInv

(* The stopper goes on only once the goroutine has ended.                  *)
LEMMA StopAwaitDoneStep ==
  ASSUME IInv, NEW k \in Controllers, StopAwaitDone(k) PROVE IInv'
<1>1. TypeOK /\ twGen \in {NoGen, started} /\ MutexInv /\ ControlInv(k)
  BY DEF IInv
<1>2. TypeOK'
  BY <1>1 DEF TypeOK, StopAwaitDone, genVars, callVars, ctlVars, None, Full, Stopped, Outcomes
<1>3. (twGen \in {NoGen, started})'
  BY <1>1 DEF TypeOK, StopAwaitDone, genVars, callVars, ctlVars
<1>4. MutexInv'
  BY <1>1 DEF TypeOK, MutexInv, StopAwaitDone, genVars, callVars, ctlVars, CallerInv
<1>5. ASSUME NEW h \in Gens PROVE WriterInv(h)'
  <2>1. WriterInv(h)  BY DEF IInv
  <2>. QED  BY <1>1, <2>1 DEF TypeOK, WriterInv, StopAwaitDone, genVars, callVars, ctlVars
<1>6. ASSUME NEW h \in Gens PROVE QueueInv(h)'
  <2>1. QueueInv(h)  BY DEF IInv
  <2>. QED  BY <1>1, <2>1 DEF QueueInv, StopAwaitDone, genVars, callVars, ctlVars
<1>7. ASSUME NEW j \in Controllers PROVE ControlInv(j)'
  <2>1. ControlInv(j)  BY DEF IInv
  <2>. QED  BY <1>1, <2>1 DEF TypeOK, ControlInv, StopAwaitDone, genVars, callVars, ctlVars
<1>8. ASSUME NEW b \in Callers PROVE CallerInv(b)'
  <2>1. CallerInv(b)  BY DEF IInv
  <2>2. \A h \in Gens : Holds(h, b)' = Holds(h, b)  BY HoldsStable DEF StopAwaitDone, genVars, callVars, ctlVars
  <2>. QED  BY <1>1, <2>1, <2>2 DEF TypeOK, CallerInv, Unapplied, MutexInv, Accepting,
                StopAwaitDone, genVars, callVars, ctlVars, None, Full, Stopped, Outcomes
<1>9. ASSUME NEW h \in Gens, NEW b \in Callers PROVE HoldsInv(h, b)'
  <2>1. HoldsInv(h, b)  BY DEF IInv
  <2>2. Holds(h, b)' = Holds(h, b)  BY HoldsStable DEF StopAwaitDone, genVars, callVars, ctlVars
  <2>. QED  BY <1>1, <2>1, <2>2 DEF TypeOK, HoldsInv, StopAwaitDone, genVars, callVars, ctlVars
<1>. QED  BY <1>2, <1>3, <1>4, <1>5, <1>6, <1>7, <1>8, <1>9 DEF IInv

(* Clearing the state forgets only a writer that has ended.                *)
LEMMA StopClearStep ==
  ASSUME IInv, NEW k \in Controllers, StopClear(k) PROVE IInv'
<1>1. TypeOK /\ twGen \in {NoGen, started} /\ MutexInv /\ ControlInv(k)
  BY DEF IInv
<1>2. TypeOK'
  BY <1>1 DEF TypeOK, StopClear, genVars, callVars, ctlVars, None, Full, Stopped, Outcomes
<1>3. (twGen \in {NoGen, started})'
  BY <1>1 DEF TypeOK, StopClear, genVars, callVars, ctlVars
<1>4. MutexInv'
  BY <1>1 DEF TypeOK, MutexInv, StopClear, genVars, callVars, ctlVars, CallerInv
<1>5. ASSUME NEW h \in Gens PROVE WriterInv(h)'
  <2>1. WriterInv(h)  BY DEF IInv
  <2>. QED  BY <1>1, <2>1 DEF TypeOK, WriterInv, ControlInv, StopClear, genVars
<1>6. ASSUME NEW h \in Gens PROVE QueueInv(h)'
  <2>1. QueueInv(h)  BY DEF IInv
  <2>. QED  BY <1>1, <2>1 DEF QueueInv, StopClear, genVars, callVars, ctlVars
<1>7. ASSUME NEW j \in Controllers PROVE ControlInv(j)'
  <2>1. ControlInv(j)  BY DEF IInv
  <2>. QED  BY <1>1, <2>1 DEF TypeOK, ControlInv, StopClear, genVars, callVars, ctlVars
<1>8. ASSUME NEW b \in Callers PROVE CallerInv(b)'
  <2>1. CallerInv(b)  BY DEF IInv
  <2>2. \A h \in Gens : Holds(h, b)' = Holds(h, b)  BY HoldsStable DEF StopClear, genVars, callVars, ctlVars
  <2>. QED  BY <1>1, <2>1, <2>2 DEF TypeOK, CallerInv, Unapplied, MutexInv, Accepting,
                StopClear, genVars, callVars, ctlVars, None, Full, Stopped, Outcomes
<1>9. ASSUME NEW h \in Gens, NEW b \in Callers PROVE HoldsInv(h, b)'
  <2>1. HoldsInv(h, b)  BY DEF IInv
  <2>2. Holds(h, b)' = Holds(h, b)  BY HoldsStable DEF StopClear, genVars, callVars, ctlVars
  <2>. QED  BY <1>1, <2>1, <2>2 DEF TypeOK, HoldsInv, StopClear, genVars, callVars, ctlVars
<1>. QED  BY <1>2, <1>3, <1>4, <1>5, <1>6, <1>7, <1>8, <1>9 DEF IInv

(* A received request is still held by the same generation. *)
LEMMA ReceiveKeepsHolds ==
  ASSUME IInv, NEW g \in Gens, WriterReceive(g), NEW h \in Gens, NEW b \in Callers
  PROVE  Holds(h, b)' = Holds(h, b)
<1>1. TypeOK /\ WriterInv(g)
  BY DEF IInv
<1>2. CASE h # g
  BY <1>1, <1>2 DEF TypeOK, Holds, WriterReceive
<1>3. CASE h = g
  <2> DEFINE s == queue[g]
  <2>1. s \in Seq(Callers) /\ s # << >>  BY <1>1 DEF TypeOK, WriterReceive
  <2>2. queue'[g] = Tail(s) /\ cur'[g] = s[1]
    BY <1>1, <2>1, ReceiveLemma DEF TypeOK, WriterReceive
  <2>3. cur[g] # b  BY <1>1 DEF TypeOK, WriterInv, WriterReceive
  <2>4. Holds(h, b) <=> \E i \in 1 .. Len(s) : s[i] = b  BY <1>3, <2>3 DEF Holds
  <2>5. Holds(h, b)' <=> s[1] = b \/ \E i \in 1 .. Len(Tail(s)) : Tail(s)[i] = b
    BY <1>3, <2>2 DEF Holds
  <2> HIDE DEF s
  <2>6. /\ Len(s) \in Nat /\ 1 \in 1 .. Len(s) /\ Len(Tail(s)) = Len(s) - 1
        /\ \A i \in 1 .. Len(Tail(s)) : Tail(s)[i] = s[i + 1] /\ i + 1 \in 1 .. Len(s)
    BY <2>1, ReceiveLemma
  <2>7. ASSUME NEW i \in 1 .. Len(s), i # 1
        PROVE i - 1 \in 1 .. Len(Tail(s)) /\ Tail(s)[i - 1] = s[i]
    <3>1. i - 1 \in 1 .. Len(Tail(s))  BY <2>6, <2>7
    <3>2. Tail(s)[i - 1] = s[(i - 1) + 1]  BY <2>6, <3>1
    <3>. QED  BY <3>1, <3>2
  <2>8. Holds(h, b) => Holds(h, b)'
    <3>1. ASSUME NEW i \in 1 .. Len(s), s[i] = b PROVE Holds(h, b)'
      BY <2>5, <2>7, <3>1
    <3>. QED  BY <2>4, <3>1
  <2>9. Holds(h, b)' => Holds(h, b)
    <3>1. s[1] = b => Holds(h, b)  BY <2>4, <2>6
    <3>2. ASSUME NEW i \in 1 .. Len(Tail(s)), Tail(s)[i] = b PROVE Holds(h, b)
      BY <2>4, <2>6, <3>2
    <3>. QED  BY <2>5, <3>1, <3>2
  <2>. QED  BY <2>8, <2>9 DEF Holds
<1>. QED  BY <1>2, <1>3

(* Receiving moves a request from the channel to the writer.               *)
LEMMA WriterReceiveStep ==
  ASSUME IInv, NEW g \in Gens, WriterReceive(g) PROVE IInv'
<1>1. TypeOK /\ twGen \in {NoGen, started} /\ MutexInv /\ WriterInv(g) /\ QueueInv(g)
  BY DEF IInv
<1>2. TypeOK'
  <2>1. queue[g] \in Seq(Callers) /\ queue[g] # << >>  BY <1>1 DEF TypeOK, WriterReceive
  <2>2. Head(queue[g]) \in Callers /\ Tail(queue[g]) \in Seq(Callers)  BY <2>1, ReceiveLemma
  <2>. QED  BY <1>1, <2>2 DEF TypeOK, WriterReceive, callVars, ctlVars
<1>3. (twGen \in {NoGen, started})'
  BY <1>1 DEF TypeOK, WriterReceive, genVars, callVars, ctlVars
<1>4. MutexInv'
  BY <1>1 DEF TypeOK, MutexInv, WriterReceive, genVars, callVars, ctlVars, CallerInv
<1>5. ASSUME NEW h \in Gens PROVE WriterInv(h)'
  <2>1. WriterInv(h)  BY DEF IInv
  <2>2. Head(queue[g]) # Free
    <3>1. queue[g] \in Seq(Callers) /\ queue[g] # << >>  BY <1>1 DEF TypeOK, WriterReceive
    <3>. QED  BY <3>1, ReceiveLemma
  <2>. QED  BY <1>1, <2>1, <2>2 DEF TypeOK, WriterInv, WriterReceive
<1>6. ASSUME NEW h \in Gens PROVE QueueInv(h)'
  <2>1. QueueInv(h)  BY DEF IInv
  <2>2. CASE h # g
    BY <1>1, <2>1, <2>2 DEF TypeOK, QueueInv, WriterReceive
  <2>3. CASE h = g
    <3> DEFINE s == queue[g]
    <3>1. s \in Seq(Callers) /\ s # << >>  BY <1>1 DEF TypeOK, WriterReceive
    <3>2. queue'[g] = Tail(s) /\ cur'[g] = s[1]
      BY <1>1, <3>1, ReceiveLemma DEF TypeOK, WriterReceive
    <3>3. \A i, j \in 1 .. Len(s) : s[i] = s[j] => i = j  BY <1>1 DEF QueueInv
    <3> HIDE DEF s
    <3>4. /\ 1 \in 1 .. Len(s)
          /\ Tail(s) \in Seq(Callers)
          /\ \A i \in 1 .. Len(Tail(s)) : Tail(s)[i] = s[i + 1] /\ i + 1 \in 1 .. Len(s)
      BY <3>1, ReceiveLemma
    <3>5. ASSUME NEW i \in 1 .. Len(Tail(s)), NEW j \in 1 .. Len(Tail(s)), Tail(s)[i] = Tail(s)[j]
          PROVE i = j
      <4>1. i + 1 = j + 1  BY <3>3, <3>4, <3>5
      <4>. QED  BY <4>1
    <3>6. ASSUME NEW i \in 1 .. Len(Tail(s)) PROVE Tail(s)[i] # s[1]
      <4>1. i + 1 # 1  OBVIOUS
      <4>. QED  BY <3>3, <3>4, <4>1
    <3>. QED  BY <2>3, <3>2, <3>5, <3>6 DEF QueueInv
  <2>. QED  BY <2>2, <2>3
<1>7. ASSUME NEW j \in Controllers PROVE ControlInv(j)'
  <2>1. ControlInv(j)  BY DEF IInv
  <2>. QED  BY <1>1, <2>1 DEF TypeOK, ControlInv, WriterReceive, genVars, callVars, ctlVars
<1>8. ASSUME NEW b \in Callers PROVE CallerInv(b)'
  <2>1. CallerInv(b)  BY DEF IInv
  <2>2. \A h \in Gens : Holds(h, b)' = Holds(h, b)  BY ReceiveKeepsHolds
  <2>. QED  BY <1>1, <2>1, <2>2 DEF TypeOK, CallerInv, Unapplied, Accepting, WriterReceive, callVars
<1>9. ASSUME NEW h \in Gens, NEW b \in Callers PROVE HoldsInv(h, b)'
  <2>1. HoldsInv(h, b)  BY DEF IInv
  <2>2. Holds(h, b)' = Holds(h, b)  BY ReceiveKeepsHolds
  <2>. QED  BY <1>1, <2>1, <2>2 DEF TypeOK, HoldsInv, WriterReceive, callVars
<1>. QED  BY <1>2, <1>3, <1>4, <1>5, <1>6, <1>7, <1>8, <1>9 DEF IInv

(* The write that is applied leaves its generation; the others stay. *)
LEMMA AppliedReleases ==
  ASSUME IInv, NEW g \in Gens, WriterApplied(g)
  PROVE  /\ cur[g] \in Callers
         /\ pc[cur[g]] = "wait" /\ my[cur[g]] = g /\ Unapplied(cur[g])
         /\ \A h \in Gens, b \in Callers :
              Holds(h, b)' <=> Holds(h, b) /\ b # cur[g]
<1>1. TypeOK /\ WriterInv(g) /\ QueueInv(g)
  BY DEF IInv
<1>2. cur[g] \in Callers
  BY <1>1 DEF TypeOK, WriterInv, WriterApplied
<1>3. \A h \in Gens : HoldsInv(h, cur[g])
  BY <1>2 DEF IInv
<1>4. pc[cur[g]] = "wait" /\ my[cur[g]] = g /\ reply[cur[g]] = None
  BY <1>3 DEF HoldsInv, Holds
<1>5. Unapplied(cur[g])
  <2>1. CallerInv(cur[g])  BY <1>2 DEF IInv
  <2>. QED  BY <1>4, <2>1 DEF CallerInv, Unapplied
<1>6. ASSUME NEW h \in Gens, NEW b \in Callers
      PROVE Holds(h, b)' <=> Holds(h, b) /\ b # cur[g]
  <2>1. UNCHANGED queue /\ cur' = [cur EXCEPT ![g] = Free]  BY DEF WriterApplied
  <2>2. CASE h = g
    BY <1>1, <2>1, <2>2 DEF TypeOK, Holds, QueueInv
  <2>3. CASE h # g
    <3>1. ~Holds(h, cur[g])  BY <1>3, <1>4, <2>3 DEF HoldsInv
    <3>2. Holds(h, b)' <=> Holds(h, b)  BY <1>1, <2>1, <2>3 DEF TypeOK, Holds
    <3>. QED  BY <3>1, <3>2
  <2>. QED  BY <2>2, <2>3
<1>. QED  BY <1>2, <1>4, <1>5, <1>6

(* The served caller, and no other, gets its result.                       *)
LEMMA WriterAppliedStep ==
  ASSUME IInv, NEW g \in Gens, WriterApplied(g) PROVE IInv'
<1>1. TypeOK /\ twGen \in {NoGen, started} /\ MutexInv /\ WriterInv(g) /\ QueueInv(g)
  BY DEF IInv
<1>2. TypeOK'
  <2>1. PICK o \in Outcomes : reply' = [reply EXCEPT ![cur[g]] = o]  BY DEF WriterApplied
  <2>2. reply' \in [Callers -> Outcomes \cup {None}]  BY <1>1, <2>1, AppliedReleases DEF TypeOK
  <2>3. applied' \in [Callers -> Nat]
    <3>1. cur[g] \in Callers  BY AppliedReleases
    <3>2. applied[cur[g]] + 1 \in Nat  BY <1>1, <3>1 DEF TypeOK
    <3>. QED  BY <1>1, <3>1, <3>2 DEF TypeOK, WriterApplied
  <2>. QED  BY <1>1, <2>2, <2>3 DEF TypeOK, WriterApplied, ctlVars
<1>3. (twGen \in {NoGen, started})'
  BY <1>1 DEF TypeOK, WriterApplied, genVars, callVars, ctlVars
<1>4. MutexInv'
  BY <1>1 DEF TypeOK, MutexInv, WriterApplied, genVars, callVars, ctlVars, CallerInv
<1>5. ASSUME NEW h \in Gens PROVE WriterInv(h)'
  <2>1. WriterInv(h)  BY DEF IInv
  <2>. QED  BY <1>1, <2>1 DEF TypeOK, WriterInv, WriterApplied, genVars, callVars, ctlVars
<1>6. ASSUME NEW h \in Gens PROVE QueueInv(h)'
  <2>1. QueueInv(h)  BY DEF IInv
  <2>2. \A i \in 1 .. Len(queue[h]) : queue[h][i] # Free
    <3>1. queue[h] \in Seq(Callers)  BY <1>1 DEF TypeOK
    <3>. QED  BY <3>1
  <2>3. UNCHANGED queue /\ cur'[h] \in {cur[h], Free}  BY <1>1 DEF TypeOK, WriterApplied
  <2>. QED  BY <2>1, <2>2, <2>3 DEF QueueInv
<1>7. ASSUME NEW j \in Controllers PROVE ControlInv(j)'
  <2>1. ControlInv(j)  BY DEF IInv
  <2>. QED  BY <1>1, <2>1 DEF TypeOK, ControlInv, WriterApplied, genVars, callVars, ctlVars
<1>8. ASSUME NEW b \in Callers PROVE CallerInv(b)'
  <2>1. CallerInv(b)  BY DEF IInv
  <2>2. UNCHANGED <<twMu, twGen, started, ctxDone, pc, my, answer>>  BY DEF WriterApplied
  <2>3. CASE b # cur[g]
    <3>1. reply'[b] = reply[b] /\ applied'[b] = applied[b]
      BY <1>1, <2>3 DEF TypeOK, WriterApplied
    <3>2. \A h \in Gens : Holds(h, b)' <=> Holds(h, b)  BY <2>3, AppliedReleases
    <3>. QED  BY <2>1, <2>2, <3>1, <3>2 DEF CallerInv, Unapplied, Accepting
  <2>4. CASE b = cur[g]
    <3>1. reply'[b] \in Outcomes  BY <1>1, <2>4 DEF TypeOK, WriterApplied
    <3>2. applied'[b] = 1 /\ pc[b] = "wait" /\ Unapplied(b)
      <4>1. b \in Callers /\ pc[b] = "wait" /\ Unapplied(b)  BY <2>4, AppliedReleases
      <4>. QED  BY <1>1, <2>4, <4>1 DEF TypeOK, Unapplied, WriterApplied
    <3>. QED  BY <2>1, <2>2, <3>1, <3>2 DEF CallerInv, Unapplied, Outcomes, None
  <2>. QED  BY <2>3, <2>4
<1>9. ASSUME NEW h \in Gens, NEW b \in Callers PROVE HoldsInv(h, b)'
  <2>1. HoldsInv(h, b)  BY DEF IInv
  <2>2. b # cur[g] => reply'[b] = reply[b]  BY <1>1 DEF TypeOK, WriterApplied
  <2>3. UNCHANGED <<pc, my>>  BY DEF WriterApplied
  <2>. QED  BY <2>1, <2>2, <2>3, AppliedReleases DEF HoldsInv
<1>. QED  BY <1>2, <1>3, <1>4, <1>5, <1>6, <1>7, <1>8, <1>9 DEF IInv

(* A writer begins to drain only when its context is cancelled.            *)
LEMMA WriterCancelledStep ==
  ASSUME IInv, NEW g \in Gens, WriterCancelled(g) PROVE IInv'
<1>1. TypeOK /\ twGen \in {NoGen, started} /\ MutexInv /\ WriterInv(g) /\ QueueInv(g)
  BY DEF IInv
<1>2. TypeOK'
  BY <1>1 DEF TypeOK, WriterCancelled, genVars, callVars, ctlVars, None, Full, Stopped, Outcomes
<1>3. (twGen \in {NoGen, started})'
  BY <1>1 DEF TypeOK, WriterCancelled, genVars, callVars, ctlVars
<1>4. MutexInv'
  BY <1>1 DEF TypeOK, MutexInv, WriterCancelled, genVars, callVars, ctlVars, CallerInv
<1>5. ASSUME NEW h \in Gens PROVE WriterInv(h)'
  <2>1. WriterInv(h)  BY DEF IInv
  <2>. QED  BY <1>1, <2>1 DEF TypeOK, WriterInv, WriterCancelled, genVars, callVars, ctlVars
<1>6. ASSUME NEW h \in Gens PROVE QueueInv(h)'
  <2>1. QueueInv(h)  BY DEF IInv
  <2>. QED  BY <1>1, <2>1 DEF QueueInv, WriterCancelled, genVars, callVars, ctlVars
<1>7. ASSUME NEW j \in Controllers PROVE ControlInv(j)'
  <2>1. ControlInv(j)  BY DEF IInv
  <2>. QED  BY <1>1, <2>1 DEF TypeOK, ControlInv, WriterCancelled, genVars, callVars, ctlVars
<1>8. ASSUME NEW b \in Callers PROVE CallerInv(b)'
  <2>1. CallerInv(b)  BY DEF IInv
  <2>2. \A h \in Gens : Holds(h, b)' = Holds(h, b)  BY HoldsStable DEF WriterCancelled, genVars, callVars, ctlVars
  <2>. QED  BY <1>1, <2>1, <2>2 DEF TypeOK, CallerInv, Unapplied, MutexInv, Accepting,
                WriterCancelled, genVars, callVars, ctlVars, None, Full, Stopped, Outcomes
<1>9. ASSUME NEW h \in Gens, NEW b \in Callers PROVE HoldsInv(h, b)'
  <2>1. HoldsInv(h, b)  BY DEF IInv
  <2>2. Holds(h, b)' = Holds(h, b)  BY HoldsStable DEF WriterCancelled, genVars, callVars, ctlVars
  <2>. QED  BY <1>1, <2>1, <2>2 DEF TypeOK, HoldsInv, WriterCancelled, genVars, callVars, ctlVars
<1>. QED  BY <1>2, <1>3, <1>4, <1>5, <1>6, <1>7, <1>8, <1>9 DEF IInv

(* A writer ends with its channel empty.                                   *)
LEMMA WriterExitStep ==
  ASSUME IInv, NEW g \in Gens, WriterExit(g) PROVE IInv'
<1>1. TypeOK /\ twGen \in {NoGen, started} /\ MutexInv /\ WriterInv(g) /\ QueueInv(g)
  BY DEF IInv
<1>2. TypeOK'
  BY <1>1 DEF TypeOK, WriterExit, genVars, callVars, ctlVars, None, Full, Stopped, Outcomes
<1>3. (twGen \in {NoGen, started})'
  BY <1>1 DEF TypeOK, WriterExit, genVars, callVars, ctlVars
<1>4. MutexInv'
  BY <1>1 DEF TypeOK, MutexInv, WriterExit, genVars, callVars, ctlVars, CallerInv
<1>5. ASSUME NEW h \in Gens PROVE WriterInv(h)'
  <2>1. WriterInv(h)  BY DEF IInv
  <2>. QED  BY <1>1, <2>1 DEF TypeOK, WriterInv, WriterExit, genVars, callVars, ctlVars
<1>6. ASSUME NEW h \in Gens PROVE QueueInv(h)'
  <2>1. QueueInv(h)  BY DEF IInv
  <2>. QED  BY <1>1, <2>1 DEF QueueInv, WriterExit, genVars, callVars, ctlVars
<1>7. ASSUME NEW j \in Controllers PROVE ControlInv(j)'
  <2>1. ControlInv(j)  BY DEF IInv
  <2>. QED  BY <1>1, <2>1 DEF TypeOK, ControlInv, WriterExit, genVars, callVars, ctlVars
<1>8. ASSUME NEW b \in Callers PROVE CallerInv(b)'
  <2>1. CallerInv(b)  BY DEF IInv
  <2>2. \A h \in Gens : Holds(h, b)' = Holds(h, b)  BY HoldsStable DEF WriterExit, genVars, callVars, ctlVars
  <2>. QED  BY <1>1, <2>1, <2>2 DEF TypeOK, CallerInv, Unapplied, MutexInv, Accepting,
                WriterExit, genVars, callVars, ctlVars, None, Full, Stopped, Outcomes
<1>9. ASSUME NEW h \in Gens, NEW b \in Callers PROVE HoldsInv(h, b)'
  <2>1. HoldsInv(h, b)  BY DEF IInv
  <2>2. Holds(h, b)' = Holds(h, b)  BY HoldsStable DEF WriterExit, genVars, callVars, ctlVars
  <2>. QED  BY <1>1, <2>1, <2>2 DEF TypeOK, HoldsInv, WriterExit, genVars, callVars, ctlVars
<1>. QED  BY <1>2, <1>3, <1>4, <1>5, <1>6, <1>7, <1>8, <1>9 DEF IInv

(* A new call starts with a fresh request.                                 *)
LEMMA SubmitCallStep ==
  ASSUME IInv, NEW c \in Callers, SubmitCall(c) PROVE IInv'
<1>1. TypeOK /\ twGen \in {NoGen, started} /\ MutexInv /\ CallerInv(c)
  BY DEF IInv
<1>2. TypeOK'
  BY <1>1 DEF TypeOK, SubmitCall, genVars, callVars, ctlVars, None, Full, Stopped, Outcomes
<1>3. (twGen \in {NoGen, started})'
  BY <1>1 DEF TypeOK, SubmitCall, genVars, callVars, ctlVars
<1>4. MutexInv'
  BY <1>1 DEF TypeOK, MutexInv, SubmitCall, genVars, callVars, ctlVars, CallerInv
<1>5. ASSUME NEW h \in Gens PROVE WriterInv(h)'
  <2>1. WriterInv(h)  BY DEF IInv
  <2>. QED  BY <1>1, <2>1 DEF TypeOK, WriterInv, SubmitCall, genVars, callVars, ctlVars
<1>6. ASSUME NEW h \in Gens PROVE QueueInv(h)'
  <2>1. QueueInv(h)  BY DEF IInv
  <2>. QED  BY <1>1, <2>1 DEF QueueInv, SubmitCall, genVars, callVars, ctlVars
<1>7. ASSUME NEW j \in Controllers PROVE ControlInv(j)'
  <2>1. ControlInv(j)  BY DEF IInv
  <2>. QED  BY <1>1, <2>1 DEF TypeOK, ControlInv, SubmitCall, genVars, callVars, ctlVars
<1>8. ASSUME NEW b \in Callers PROVE CallerInv(b)'
  <2>1. CallerInv(b)  BY DEF IInv
  <2>2. \A h \in Gens : Holds(h, b)' = Holds(h, b)  BY HoldsStable DEF SubmitCall, genVars, callVars, ctlVars
  <2>. QED  BY <1>1, <2>1, <2>2 DEF TypeOK, CallerInv, Unapplied, MutexInv, Accepting,
                SubmitCall, genVars, callVars, ctlVars, None, Full, Stopped, Outcomes
<1>9. ASSUME NEW h \in Gens, NEW b \in Callers PROVE HoldsInv(h, b)'
  <2>1. HoldsInv(h, b)  BY DEF IInv
  <2>2. Holds(h, b)' = Holds(h, b)  BY HoldsStable DEF SubmitCall, genVars, callVars, ctlVars
  <2>. QED  BY <1>1, <2>1, <2>2 DEF TypeOK, HoldsInv, SubmitCall, genVars, callVars, ctlVars
<1>. QED  BY <1>2, <1>3, <1>4, <1>5, <1>6, <1>7, <1>8, <1>9 DEF IInv

(* An inline write needs neither twMu nor the channel.                     *)
LEMMA SubmitInlineStep ==
  ASSUME IInv, NEW c \in Callers, SubmitInline(c) PROVE IInv'
<1>1. TypeOK /\ twGen \in {NoGen, started} /\ MutexInv /\ CallerInv(c)
  BY DEF IInv
<1>2. TypeOK'
  BY <1>1 DEF TypeOK, SubmitInline, genVars, callVars, ctlVars, Accepting, None, Full, Stopped, Outcomes
<1>3. (twGen \in {NoGen, started})'
  BY <1>1 DEF TypeOK, SubmitInline, genVars, callVars, ctlVars, Accepting
<1>4. MutexInv'
  BY <1>1 DEF TypeOK, MutexInv, SubmitInline, genVars, callVars, ctlVars, Accepting, CallerInv
<1>5. ASSUME NEW h \in Gens PROVE WriterInv(h)'
  <2>1. WriterInv(h)  BY DEF IInv
  <2>. QED  BY <1>1, <2>1 DEF TypeOK, WriterInv, SubmitInline, genVars, callVars, ctlVars, Accepting
<1>6. ASSUME NEW h \in Gens PROVE QueueInv(h)'
  <2>1. QueueInv(h)  BY DEF IInv
  <2>. QED  BY <1>1, <2>1 DEF QueueInv, SubmitInline, genVars, callVars, ctlVars
<1>7. ASSUME NEW j \in Controllers PROVE ControlInv(j)'
  <2>1. ControlInv(j)  BY DEF IInv
  <2>. QED  BY <1>1, <2>1 DEF TypeOK, ControlInv, SubmitInline, genVars, callVars, ctlVars, Accepting
<1>8. ASSUME NEW b \in Callers PROVE CallerInv(b)'
  <2>1. CallerInv(b)  BY DEF IInv
  <2>2. \A h \in Gens : Holds(h, b)' = Holds(h, b)  BY HoldsStable DEF SubmitInline, genVars, callVars, ctlVars
  <2>. QED  BY <1>1, <2>1, <2>2 DEF TypeOK, CallerInv, Unapplied, MutexInv, Accepting,
                SubmitInline, genVars, callVars, ctlVars, None, Full, Stopped, Outcomes
<1>9. ASSUME NEW h \in Gens, NEW b \in Callers PROVE HoldsInv(h, b)'
  <2>1. HoldsInv(h, b)  BY DEF IInv
  <2>2. Holds(h, b)' = Holds(h, b)  BY HoldsStable DEF SubmitInline, genVars, callVars, ctlVars
  <2>. QED  BY <1>1, <2>1, <2>2 DEF TypeOK, HoldsInv, SubmitInline, genVars, callVars, ctlVars
<1>. QED  BY <1>2, <1>3, <1>4, <1>5, <1>6, <1>7, <1>8, <1>9 DEF IInv

(* A caller takes twMu only for a writer that still accepts.               *)
LEMMA SubmitLockStep ==
  ASSUME IInv, NEW c \in Callers, SubmitLock(c) PROVE IInv'
<1>1. TypeOK /\ twGen \in {NoGen, started} /\ MutexInv /\ CallerInv(c)
  BY DEF IInv
<1>2. TypeOK'
  BY <1>1 DEF TypeOK, SubmitLock, genVars, callVars, ctlVars, Accepting, None, Full, Stopped, Outcomes
<1>3. (twGen \in {NoGen, started})'
  BY <1>1 DEF TypeOK, SubmitLock, genVars, callVars, ctlVars, Accepting
<1>4. MutexInv'
  BY <1>1 DEF TypeOK, MutexInv, SubmitLock, genVars, callVars, ctlVars, Accepting, CallerInv
<1>5. ASSUME NEW h \in Gens PROVE WriterInv(h)'
  <2>1. WriterInv(h)  BY DEF IInv
  <2>. QED  BY <1>1, <2>1 DEF TypeOK, WriterInv, SubmitLock, genVars, callVars, ctlVars, Accepting
<1>6. ASSUME NEW h \in Gens PROVE QueueInv(h)'
  <2>1. QueueInv(h)  BY DEF IInv
  <2>. QED  BY <1>1, <2>1 DEF QueueInv, SubmitLock, genVars, callVars, ctlVars
<1>7. ASSUME NEW j \in Controllers PROVE ControlInv(j)'
  <2>1. ControlInv(j)  BY DEF IInv
  <2>. QED  BY <1>1, <2>1 DEF TypeOK, ControlInv, SubmitLock, genVars, callVars, ctlVars, Accepting
<1>8. ASSUME NEW b \in Callers PROVE CallerInv(b)'
  <2>1. CallerInv(b)  BY DEF IInv
  <2>2. \A h \in Gens : Holds(h, b)' = Holds(h, b)  BY HoldsStable DEF SubmitLock, genVars, callVars, ctlVars
  <2>. QED  BY <1>1, <2>1, <2>2 DEF TypeOK, CallerInv, Unapplied, MutexInv, Accepting,
                SubmitLock, genVars, callVars, ctlVars, None, Full, Stopped, Outcomes
<1>9. ASSUME NEW h \in Gens, NEW b \in Callers PROVE HoldsInv(h, b)'
  <2>1. HoldsInv(h, b)  BY DEF IInv
  <2>2. Holds(h, b)' = Holds(h, b)  BY HoldsStable DEF SubmitLock, genVars, callVars, ctlVars
  <2>. QED  BY <1>1, <2>1, <2>2 DEF TypeOK, HoldsInv, SubmitLock, genVars, callVars, ctlVars
<1>. QED  BY <1>2, <1>3, <1>4, <1>5, <1>6, <1>7, <1>8, <1>9 DEF IInv

(* The sender's request, so far held by no generation, is now held by the  *)
(* one it was sent to, which still receives.                               *)
LEMMA EnqueueHolds ==
  ASSUME IInv, NEW c \in Callers, SubmitEnqueue(c)
  PROVE  /\ my[c] \in Gens /\ my[c] = twGen
         /\ queue[my[c]] \in Seq(Callers) /\ queue'[my[c]] = Append(queue[my[c]], c)
         /\ writer[my[c]] \notin {"none", "closed"}
         /\ Unapplied(c)
         /\ \A h \in Gens : ~Holds(h, c)
         /\ \A h \in Gens, b \in Callers :
              Holds(h, b)' <=> Holds(h, b) \/ (h = my[c] /\ b = c)
<1>1. TypeOK /\ twGen \in {NoGen, started} /\ CallerInv(c)
  BY DEF IInv
<1>2. my[c] \in Gens /\ my[c] = twGen /\ ~ctxDone[twGen] /\ Unapplied(c)
  BY <1>1 DEF TypeOK, CallerInv, Accepting, SubmitEnqueue
<1>3. queue[my[c]] \in Seq(Callers) /\ queue'[my[c]] = Append(queue[my[c]], c)
  BY <1>1, <1>2 DEF TypeOK, SubmitEnqueue
<1>4. writer[my[c]] \notin {"none", "closed"}
  <2>1. WriterInv(my[c])  BY <1>2 DEF IInv
  <2>. QED  BY <1>1, <1>2, <2>1 DEF TypeOK, WriterInv
<1>5. ASSUME NEW h \in Gens PROVE ~Holds(h, c)
  <2>1. HoldsInv(h, c)  BY DEF IInv
  <2>. QED  BY <2>1 DEF HoldsInv, SubmitEnqueue
<1>6. ASSUME NEW h \in Gens, NEW b \in Callers
      PROVE Holds(h, b)' <=> Holds(h, b) \/ (h = my[c] /\ b = c)
  <2>1. UNCHANGED cur  BY DEF SubmitEnqueue
  <2>2. CASE h # my[c]
    <3>1. queue'[h] = queue[h]  BY <1>1, <2>2 DEF TypeOK, SubmitEnqueue
    <3>. QED  BY <2>1, <2>2, <3>1 DEF Holds
  <2>3. CASE h = my[c]
    <3> DEFINE s == queue[h]
               t == Append(s, c)
    <3>1. s \in Seq(Callers) /\ queue'[h] = t  BY <1>3, <2>3
    <3>2. /\ Len(t) = Len(s) + 1 /\ Len(s) \in Nat /\ t[Len(s) + 1] = c
          /\ \A i \in 1 .. Len(s) : t[i] = s[i]
      BY <3>1, SendLemma
    <3>3. (\E i \in 1 .. Len(t) : t[i] = b) <=> (\E i \in 1 .. Len(s) : s[i] = b) \/ b = c
      <4> HIDE DEF s, t
      <4>1. \A i \in 1 .. Len(t) : i \in 1 .. Len(s) \/ i = Len(s) + 1  BY <3>2
      <4>2. 1 .. Len(s) \subseteq 1 .. Len(t) /\ Len(s) + 1 \in 1 .. Len(t)  BY <3>2
      <4>. QED  BY <3>2, <4>1, <4>2
    <3>. QED  BY <2>1, <2>3, <3>1, <3>3 DEF Holds
  <2>. QED  BY <2>2, <2>3
<1>. QED  BY <1>2, <1>3, <1>4, <1>5, <1>6

(* The request enters the channel of a writer that will still look at it.  *)
LEMMA SubmitEnqueueStep ==
  ASSUME IInv, NEW c \in Callers, SubmitEnqueue(c) PROVE IInv'
<1>1. TypeOK /\ twGen \in {NoGen, started} /\ MutexInv /\ CallerInv(c)
  BY DEF IInv
<1>2. TypeOK'
  <2>1. Append(queue[my[c]], c) \in Seq(Callers)  BY EnqueueHolds, SendLemma
  <2>. QED  BY <1>1, <2>1 DEF TypeOK, SubmitEnqueue, ctlVars
<1>3. (twGen \in {NoGen, started})'
  BY <1>1 DEF TypeOK, SubmitEnqueue, genVars, callVars, ctlVars
<1>4. MutexInv'
  BY <1>1 DEF TypeOK, MutexInv, SubmitEnqueue, genVars, callVars, ctlVars, CallerInv
<1>5. ASSUME NEW h \in Gens PROVE WriterInv(h)'
  <2>1. WriterInv(h)  BY DEF IInv
  <2>2. h # my[c] => queue'[h] = queue[h]  BY <1>1 DEF TypeOK, SubmitEnqueue
  <2>3. UNCHANGED <<twGen, started, ctxDone, writer, cur>>  BY DEF SubmitEnqueue
  <2>. QED  BY <2>1, <2>2, <2>3, EnqueueHolds DEF WriterInv
<1>6. ASSUME NEW h \in Gens PROVE QueueInv(h)'
  <2>1. QueueInv(h) /\ UNCHANGED cur  BY DEF IInv, SubmitEnqueue
  <2>2. CASE h # my[c]
    BY <1>1, <2>1, <2>2 DEF TypeOK, QueueInv, SubmitEnqueue
  <2>3. CASE h = my[c]
    <3> DEFINE s == queue[h]
               t == Append(s, c)
    <3>1. s \in Seq(Callers) /\ queue'[h] = t /\ ~Holds(h, c)  BY <2>3, EnqueueHolds
    <3>2. cur[h] # c /\ \A i \in 1 .. Len(s) : s[i] # c  BY <3>1 DEF Holds
    <3>3. /\ Len(t) = Len(s) + 1 /\ Len(s) \in Nat /\ t[Len(s) + 1] = c
          /\ \A i \in 1 .. Len(s) : t[i] = s[i]
      BY <3>1, SendLemma
    <3>4. /\ \A i, j \in 1 .. Len(s) : s[i] = s[j] => i = j
          /\ \A i \in 1 .. Len(s) : s[i] # cur[h]
      BY <2>1 DEF QueueInv
    <3> HIDE DEF s, t
    <3>5. \A i \in 1 .. Len(t) : i \in 1 .. Len(s) \/ i = Len(s) + 1  BY <3>3
    <3>6. \A i, j \in 1 .. Len(t) : t[i] = t[j] => i = j  BY <3>2, <3>3, <3>4, <3>5
    <3>7. \A i \in 1 .. Len(t) : t[i] # cur[h]  BY <3>2, <3>3, <3>4, <3>5
    <3>. QED  BY <2>1, <3>1, <3>6, <3>7 DEF QueueInv
  <2>. QED  BY <2>2, <2>3
<1>7. ASSUME NEW j \in Controllers PROVE ControlInv(j)'
  <2>1. ControlInv(j)  BY DEF IInv
  <2>. QED  BY <1>1, <2>1 DEF TypeOK, ControlInv, SubmitEnqueue, genVars, callVars, ctlVars
<1>8. ASSUME NEW b \in Callers PROVE CallerInv(b)'
  <2>1. CallerInv(b)  BY DEF IInv
  <2>2. UNCHANGED <<twGen, started, ctxDone, my, reply, answer, applied>>  BY DEF SubmitEnqueue
  <2>3. CASE b # c
    <3>1. pc'[b] = pc[b] /\ pc[b] # "enqueue"
      BY <1>1, <2>1, <2>3 DEF TypeOK, CallerInv, SubmitEnqueue
    <3>2. \A h \in Gens : Holds(h, b)' <=> Holds(h, b)  BY <2>3, EnqueueHolds
    <3>. QED  BY <2>1, <2>2, <3>1, <3>2 DEF CallerInv, Unapplied
  <2>4. CASE b = c
    <3>1. pc'[b] = "wait" /\ Unapplied(b)
      <4>1. Unapplied(c)  BY EnqueueHolds
      <4>. QED  BY <1>1, <2>4, <4>1 DEF TypeOK, SubmitEnqueue
    <3>2. my[b] \in Gens /\ my[b] <= started /\ Holds(my[b], b)'
      <4>1. my[c] \in Gens /\ my[c] = twGen  BY EnqueueHolds
      <4>2. \A h \in Gens : Holds(h, c)' <=> Holds(h, c) \/ h = my[c]  BY EnqueueHolds
      <4>3. UNCHANGED my  BY DEF SubmitEnqueue
      <4>4. Holds(my[c], c)'  BY <4>1, <4>2, <4>3
      <4>. QED  BY <1>1, <2>4, <4>1, <4>3, <4>4 DEF TypeOK
    <3>. QED  BY <2>1, <2>2, <3>1, <3>2 DEF CallerInv, Unapplied
  <2>. QED  BY <2>3, <2>4
<1>9. ASSUME NEW h \in Gens, NEW b \in Callers PROVE HoldsInv(h, b)'
  <2>1. HoldsInv(h, b)  BY DEF IInv
  <2>2. UNCHANGED <<my, reply>> /\ pc' = [pc EXCEPT ![c] = "wait"]  BY DEF SubmitEnqueue
  <2>. QED  BY <1>1, <2>1, <2>2, EnqueueHolds DEF TypeOK, HoldsInv, Unapplied
<1>. QED  BY <1>2, <1>3, <1>4, <1>5, <1>6, <1>7, <1>8, <1>9 DEF IInv

(* A refused request was never in the channel.                             *)
LEMMA SubmitTimeoutStep ==
  ASSUME IInv, NEW c \in Callers, SubmitTimeout(c) PROVE IInv'
<1>1. TypeOK /\ twGen \in {NoGen, started} /\ MutexInv /\ CallerInv(c)
  BY DEF IInv
<1>2. TypeOK'
  BY <1>1 DEF TypeOK, SubmitTimeout, genVars, callVars, ctlVars, None, Full, Stopped, Outcomes
<1>3. (twGen \in {NoGen, started})'
  BY <1>1 DEF TypeOK, SubmitTimeout, genVars, callVars, ctlVars
<1>4. MutexInv'
  BY <1>1 DEF TypeOK, MutexInv, SubmitTimeout, genVars, callVars, ctlVars, CallerInv
<1>5. ASSUME NEW h \in Gens PROVE WriterInv(h)'
  <2>1. WriterInv(h)  BY DEF IInv
  <2>. QED  BY <1>1, <2>1 DEF TypeOK, WriterInv, SubmitTimeout, genVars, callVars, ctlVars
<1>6. ASSUME NEW h \in Gens PROVE QueueInv(h)'
  <2>1. QueueInv(h)  BY DEF IInv
  <2>. QED  BY <1>1, <2>1 DEF QueueInv, SubmitTimeout, genVars, callVars, ctlVars
<1>7. ASSUME NEW j \in Controllers PROVE ControlInv(j)'
  <2>1. ControlInv(j)  BY DEF IInv
  <2>. QED  BY <1>1, <2>1 DEF TypeOK, ControlInv, SubmitTimeout, genVars, callVars, ctlVars
<1>8. ASSUME NEW b \in Callers PROVE CallerInv(b)'
  <2>1. CallerInv(b)  BY DEF IInv
  <2>2. \A h \in Gens : Holds(h, b)' = Holds(h, b)  BY HoldsStable DEF SubmitTimeout, genVars, callVars, ctlVars
  <2>. QED  BY <1>1, <2>1, <2>2 DEF TypeOK, CallerInv, Unapplied, MutexInv, Accepting,
                SubmitTimeout, genVars, callVars, ctlVars, None, Full, Stopped, Outcomes
<1>9. ASSUME NEW h \in Gens, NEW b \in Callers PROVE HoldsInv(h, b)'
  <2>1. HoldsInv(h, b)  BY DEF IInv
  <2>2. Holds(h, b)' = Holds(h, b)  BY HoldsStable DEF SubmitTimeout, genVars, callVars, ctlVars
  <2>. QED  BY <1>1, <2>1, <2>2 DEF TypeOK, HoldsInv, SubmitTimeout, genVars, callVars, ctlVars
<1>. QED  BY <1>2, <1>3, <1>4, <1>5, <1>6, <1>7, <1>8, <1>9 DEF IInv

(* A caller leaves with its own result.                                    *)
LEMMA SubmitReplyStep ==
  ASSUME IInv, NEW c \in Callers, SubmitReply(c) PROVE IInv'
<1>1. TypeOK /\ twGen \in {NoGen, started} /\ MutexInv /\ CallerInv(c)
  BY DEF IInv
<1>2. TypeOK'
  BY <1>1 DEF TypeOK, SubmitReply, genVars, callVars, ctlVars, None, Full, Stopped, Outcomes
<1>3. (twGen \in {NoGen, started})'
  BY <1>1 DEF TypeOK, SubmitReply, genVars, callVars, ctlVars
<1>4. MutexInv'
  BY <1>1 DEF TypeOK, MutexInv, SubmitReply, genVars, callVars, ctlVars, CallerInv
<1>5. ASSUME NEW h \in Gens PROVE WriterInv(h)'
  <2>1. WriterInv(h)  BY DEF IInv
  <2>. QED  BY <1>1, <2>1 DEF TypeOK, WriterInv, SubmitReply, genVars, callVars, ctlVars
<1>6. ASSUME NEW h \in Gens PROVE QueueInv(h)'
  <2>1. QueueInv(h)  BY DEF IInv
  <2>. QED  BY <1>1, <2>1 DEF QueueInv, SubmitReply, genVars, callVars, ctlVars
<1>7. ASSUME NEW j \in Controllers PROVE ControlInv(j)'
  <2>1. ControlInv(j)  BY DEF IInv
  <2>. QED  BY <1>1, <2>1 DEF TypeOK, ControlInv, SubmitReply, genVars, callVars, ctlVars
<1>8. ASSUME NEW b \in Callers PROVE CallerInv(b)'
  <2>1. CallerInv(b)  BY DEF IInv
  <2>2. \A h \in Gens : Holds(h, b)' = Holds(h, b)  BY HoldsStable DEF SubmitReply, genVars, callVars, ctlVars
  <2>. QED  BY <1>1, <2>1, <2>2 DEF TypeOK, CallerInv, Unapplied, MutexInv, Accepting,
                SubmitReply, genVars, callVars, ctlVars, None, Full, Stopped, Outcomes
<1>9. ASSUME NEW h \in Gens, NEW b \in Callers PROVE HoldsInv(h, b)'
  <2>1. HoldsInv(h, b)  BY DEF IInv
  <2>2. Holds(h, b)' = Holds(h, b)  BY HoldsStable DEF SubmitReply, genVars, callVars, ctlVars
  <2>. QED  BY <1>1, <2>1, <2>2 DEF TypeOK, HoldsInv, SubmitReply, genVars, callVars, ctlVars
<1>. QED  BY <1>2, <1>3, <1>4, <1>5, <1>6, <1>7, <1>8, <1>9 DEF IInv

(* A writer that has ended owes nobody a result. *)
LEMMA DoneMeansReplied ==
  ASSUME IInv, NEW c \in Callers, pc[c] = "wait", writer[my[c]] = "closed"
  PROVE  my[c] \in Gens /\ reply[c] # None
<1>1. TypeOK /\ CallerInv(c)
  BY DEF IInv
<1>2. my[c] \in Gens
  BY <1>1 DEF CallerInv
<1>3. WriterInv(my[c])
  BY <1>2 DEF IInv
<1>4. queue[my[c]] = << >> /\ cur[my[c]] = Free
  BY <1>2, <1>3 DEF WriterInv
<1>5. ~Holds(my[c], c)
  BY <1>4 DEF Holds
<1>. QED  BY <1>1, <1>2, <1>5 DEF CallerInv

(* When done is closed the result is already there.                        *)
LEMMA SubmitWriterDoneStep ==
  ASSUME IInv, NEW c \in Callers, SubmitWriterDone(c) PROVE IInv'
<1>1. TypeOK /\ twGen \in {NoGen, started} /\ MutexInv /\ CallerInv(c)
  BY DEF IInv
<1>2. TypeOK'
  BY <1>1 DEF TypeOK, SubmitWriterDone, genVars, callVars, ctlVars, None, Full, Stopped, Outcomes
<1>3. (twGen \in {NoGen, started})'
  BY <1>1 DEF TypeOK, SubmitWriterDone, genVars, callVars, ctlVars
<1>4. MutexInv'
  BY <1>1 DEF TypeOK, MutexInv, SubmitWriterDone, genVars, callVars, ctlVars, CallerInv
<1>5. ASSUME NEW h \in Gens PROVE WriterInv(h)'
  <2>1. WriterInv(h)  BY DEF IInv
  <2>. QED  BY <1>1, <2>1 DEF TypeOK, WriterInv, SubmitWriterDone, genVars, callVars, ctlVars
<1>6. ASSUME NEW h \in Gens PROVE QueueInv(h)'
  <2>1. QueueInv(h)  BY DEF IInv
  <2>. QED  BY <1>1, <2>1 DEF QueueInv, SubmitWriterDone, genVars, callVars, ctlVars
<1>7. ASSUME NEW j \in Controllers PROVE ControlInv(j)'
  <2>1. ControlInv(j)  BY DEF IInv
  <2>. QED  BY <1>1, <2>1 DEF TypeOK, ControlInv, SubmitWriterDone, genVars, callVars, ctlVars
<1>8. ASSUME NEW b \in Callers PROVE CallerInv(b)'
  <2>1. CallerInv(b)  BY DEF IInv
  <2>2. \A h \in Gens : Holds(h, b)' = Holds(h, b)  BY HoldsStable DEF SubmitWriterDone, genVars
  <2>3. reply[c] # None  BY DoneMeansReplied DEF SubmitWriterDone
  <2>. QED  BY <1>1, <2>1, <2>2, <2>3
            DEF TypeOK, CallerInv, Unapplied, Accepting, SubmitWriterDone, genVars,
                None, Stopped, Outcomes
<1>9. ASSUME NEW h \in Gens, NEW b \in Callers PROVE HoldsInv(h, b)'
  <2>1. HoldsInv(h, b)  BY DEF IInv
  <2>2. Holds(h, b)' = Holds(h, b)  BY HoldsStable DEF SubmitWriterDone, genVars
  <2>3. reply[c] # None  BY DoneMeansReplied DEF SubmitWriterDone
  <2>. QED  BY <1>1, <2>1, <2>2, <2>3 DEF TypeOK, HoldsInv, SubmitWriterDone
<1>. QED  BY <1>2, <1>3, <1>4, <1>5, <1>6, <1>7, <1>8, <1>9 DEF IInv

(* An inline write is applied once, by its caller.                         *)
LEMMA SubmitInlineAppliedStep ==
  ASSUME IInv, NEW c \in Callers, SubmitInlineApplied(c) PROVE IInv'
<1>1. TypeOK /\ twGen \in {NoGen, started} /\ MutexInv /\ CallerInv(c)
  BY DEF IInv
<1>2. TypeOK'
  <2>1. PICK o \in Outcomes : reply' = [reply EXCEPT ![c] = o] /\ answer' = [answer EXCEPT ![c] = o]
    BY DEF SubmitInlineApplied
  <2>2. reply' \in [Callers -> Outcomes \cup {None}]  BY <1>1, <2>1 DEF TypeOK
  <2>3. answer' \in [Callers -> Outcomes \cup {None, Full, Stopped}]  BY <1>1, <2>1 DEF TypeOK
  <2>. QED  BY <1>1, <2>2, <2>3 DEF TypeOK, SubmitInlineApplied, genVars, ctlVars
<1>3. (twGen \in {NoGen, started})'
  BY <1>1 DEF TypeOK, SubmitInlineApplied, genVars, callVars, ctlVars
<1>4. MutexInv'
  BY <1>1 DEF TypeOK, MutexInv, SubmitInlineApplied, genVars, callVars, ctlVars, CallerInv
<1>5. ASSUME NEW h \in Gens PROVE WriterInv(h)'
  <2>1. WriterInv(h)  BY DEF IInv
  <2>. QED  BY <1>1, <2>1 DEF TypeOK, WriterInv, SubmitInlineApplied, genVars, callVars, ctlVars
<1>6. ASSUME NEW h \in Gens PROVE QueueInv(h)'
  <2>1. QueueInv(h)  BY DEF IInv
  <2>. QED  BY <1>1, <2>1 DEF QueueInv, SubmitInlineApplied, genVars, callVars, ctlVars
<1>7. ASSUME NEW j \in Controllers PROVE ControlInv(j)'
  <2>1. ControlInv(j)  BY DEF IInv
  <2>. QED  BY <1>1, <2>1 DEF TypeOK, ControlInv, SubmitInlineApplied, genVars, callVars, ctlVars
<1>8. ASSUME NEW b \in Callers PROVE CallerInv(b)'
  <2>1. CallerInv(b)  BY DEF IInv
  <2>2. \A h \in Gens : Holds(h, b)' = Holds(h, b)  BY HoldsStable DEF SubmitInlineApplied, genVars, callVars, ctlVars
  <2>. QED  BY <1>1, <2>1, <2>2 DEF TypeOK, CallerInv, Unapplied, MutexInv, Accepting,
                SubmitInlineApplied, genVars, callVars, ctlVars, None, Full, Stopped, Outcomes
<1>9. ASSUME NEW h \in Gens, NEW b \in Callers PROVE HoldsInv(h, b)'
  <2>1. HoldsInv(h, b)  BY DEF IInv
  <2>2. Holds(h, b)' = Holds(h, b)  BY HoldsStable DEF SubmitInlineApplied, genVars, callVars, ctlVars
  <2>. QED  BY <1>1, <2>1, <2>2 DEF TypeOK, HoldsInv, SubmitInlineApplied, genVars, callVars, ctlVars
<1>. QED  BY <1>2, <1>3, <1>4, <1>5, <1>6, <1>7, <1>8, <1>9 DEF IInv

(* Every step, and stuttering, preserves the invariant. *)
LEMMA NextIInv == IInv /\ [Next]_vars => IInv'
<1> SUFFICES ASSUME IInv, [Next]_vars PROVE IInv'
  OBVIOUS
<1>1. CASE \E k \in Controllers : ControlCall(k) \/ Control(k)
  BY <1>1, ControlCallStep, StartTrafficWriterStep, StopTrafficWriterStep, StopAwaitDoneStep, StopClearStep DEF Control
<1>2. CASE \E g \in Gens : Writer(g)
  BY <1>2, WriterReceiveStep, WriterAppliedStep, WriterCancelledStep, WriterExitStep DEF Writer
<1>3. CASE \E c \in Callers : SubmitCall(c) \/ Submit(c)
  BY <1>3, SubmitCallStep, SubmitInlineStep, SubmitLockStep, SubmitEnqueueStep, SubmitTimeoutStep, SubmitReplyStep, SubmitWriterDoneStep, SubmitInlineAppliedStep
     DEF Submit
<1>4. CASE UNCHANGED vars
  <2>1. \A g \in Gens, c \in Callers : Holds(g, c)' = Holds(g, c)
    BY <1>4, HoldsStable DEF vars, genVars
  <2>2. UNCHANGED <<twMu, twGen, started, queue, ctxDone, writer, cur, pc, my, reply, answer,
                    applied, ctl, ctlGen>>
    BY <1>4 DEF vars, genVars, callVars, ctlVars
  <2>3. TypeOK'  BY <2>2 DEF IInv, TypeOK, None, Full, Stopped, Outcomes
  <2>4. (twGen \in {NoGen, started})' /\ MutexInv'  BY <2>2 DEF IInv, MutexInv
  <2>5. ASSUME NEW g \in Gens PROVE WriterInv(g)' /\ QueueInv(g)'
    BY <2>2 DEF IInv, WriterInv, QueueInv
  <2>6. ASSUME NEW k \in Controllers PROVE ControlInv(k)'
    BY <2>2 DEF IInv, ControlInv
  <2>7. ASSUME NEW c \in Callers PROVE CallerInv(c)'
    <3>1. CallerInv(c)  BY DEF IInv
    <3>2. pc[c] = "wait" => Holds(my[c], c)' = Holds(my[c], c)  BY <2>1, <2>2, <3>1 DEF CallerInv
    <3>. QED  BY <2>1, <2>2, <3>1, <3>2 DEF CallerInv, Unapplied, Accepting, None, Stopped
  <2>8. ASSUME NEW g \in Gens, NEW c \in Callers PROVE HoldsInv(g, c)'
    <3>1. HoldsInv(g, c)  BY DEF IInv
    <3>. QED  BY <2>1, <2>2, <3>1 DEF HoldsInv
  <2>. QED  BY <2>3, <2>4, <2>5, <2>6, <2>7, <2>8 DEF IInv
<1>. QED  BY <1>1, <1>2, <1>3, <1>4 DEF Next

(* The inductive invariant of traffic_writer.go: typing, who holds twMu,   *)
(* which generation is live and where every request is.                    *)
THEOREM Inductive == Spec => []IInv
  BY InitIInv, NextIInv, PTL DEF Spec

(* Types of all variables hold for any number of callers and restarts.     *)
THEOREM TypeCorrect == Spec => []TypeOK
<1>1. IInv => TypeOK
  BY DEF IInv
<1>. QED  BY <1>1, Inductive, PTL

(* An ended writer goroutine leaves no request behind and owes no result.  *)
THEOREM NothingStranded == Spec => []NoStrandedWrite
<1>1. IInv => NoStrandedWrite
  <2> SUFFICES ASSUME IInv, NEW g \in Gens, writer[g] = "closed"
               PROVE /\ queue[g] = << >>
                     /\ \A c \in Callers : pc[c] = "wait" /\ my[c] = g => reply[c] # None
    BY DEF NoStrandedWrite
  <2>1. WriterInv(g)  BY DEF IInv
  <2>2. queue[g] = << >>  BY <2>1 DEF WriterInv
  <2>. QED  BY <2>2, DoneMeansReplied
<1>. QED  BY <1>1, Inductive, PTL

(* "traffic writer stopped before write completed" is never returned.      *)
THEOREM NotStoppedShort == Spec => []NeverStoppedShort
<1>1. IInv => NeverStoppedShort
  BY DEF IInv, CallerInv, NeverStoppedShort
<1>. QED  BY <1>1, Inductive, PTL

(* Restarts never leave two writer goroutines alive.                       *)
THEOREM SingleWriter == Spec => []OneLiveWriter
<1>1. IInv => OneLiveWriter
  BY DEF IInv, WriterInv, OneLiveWriter
<1>. QED  BY <1>1, Inductive, PTL

----------------------------------------------------------------------------
(* A step that touches no caller's answer, result or progress is invisible *)
(* to the callers.                                                         *)
LEMMA Invisible ==
  ASSUME UNCHANGED <<reply, answer, applied>>,
         \A c \in Callers : pc'[c] = "idle" <=> pc[c] = "idle"
  PROVE  UNCHANGED Once!vars
<1>1. \A c \in Callers : Phase(c)' = Phase(c)
  BY DEF Phase
<1>. QED  BY <1>1 DEF Once!vars

(* Every step of the writer is a step of OnceWrites or invisible.          *)
LEMMA StepRefines == IInv /\ [Next]_vars => [Once!Next]_(Once!vars)
<1> SUFFICES ASSUME IInv, [Next]_vars PROVE [Once!Next]_(Once!vars)
  OBVIOUS
<1>1. TypeOK
  BY DEF IInv
<1>2. CASE UNCHANGED vars
  BY <1>2, Invisible DEF vars, callVars
<1>3. ASSUME NEW k \in Controllers, ControlCall(k) \/ Control(k)
      PROVE UNCHANGED Once!vars
  BY <1>3, Invisible
     DEF ControlCall, Control, StartTrafficWriter, StopTrafficWriter, StopAwaitDone, StopClear, callVars
<1>4. ASSUME NEW g \in Gens, WriterReceive(g) \/ WriterCancelled(g) \/ WriterExit(g)
      PROVE UNCHANGED Once!vars
  BY <1>4, Invisible DEF WriterReceive, WriterCancelled, WriterExit, callVars
<1>5. ASSUME NEW g \in Gens, WriterApplied(g)
      PROVE \E c \in Callers, o \in Outcomes : Once!Apply(c, o)
  <2>1. PICK c \in Callers : c = cur[g] /\ pc[c] = "wait" /\ Unapplied(c)
    BY <1>5, AppliedReleases
  <2>2. PICK o \in Outcomes : reply' = [reply EXCEPT ![c] = o]
    BY <1>5, <2>1 DEF WriterApplied
  <2>3. UNCHANGED <<pc, answer>> /\ applied' = [applied EXCEPT ![c] = @ + 1]
    BY <1>5, <2>1 DEF WriterApplied
  <2>4. Phase(c) = "pending" /\ Phase(c)' = "applied"
    <3>1. applied[c] = 0 /\ applied'[c] = 1
      BY <1>1, <2>1, <2>3 DEF TypeOK, Unapplied
    <3>. QED  BY <2>1, <2>3, <3>1 DEF Phase
  <2>5. \A d \in Callers : d # c => Phase(d)' = Phase(d)
    BY <1>1, <2>3 DEF TypeOK, Phase
  <2>6. Once!Apply(c, o)
    BY <2>2, <2>3, <2>4, <2>5 DEF Once!Apply
  <2>. QED  BY <2>2, <2>6
<1>6. ASSUME NEW c \in Callers, SubmitInline(c) \/ SubmitLock(c) \/ SubmitEnqueue(c)
      PROVE UNCHANGED Once!vars
  BY <1>1, <1>6, Invisible DEF TypeOK, SubmitInline, SubmitLock, SubmitEnqueue
<1>8. ASSUME NEW c \in Callers, SubmitCall(c)
      PROVE Once!Call(c)
  <2>1. Phase(c) = "idle" /\ Phase(c)' = "pending"
    BY <1>1, <1>8 DEF TypeOK, Phase, SubmitCall
  <2>2. \A d \in Callers : d # c => Phase(d)' = Phase(d)
    BY <1>1, <1>8 DEF TypeOK, Phase, SubmitCall
  <2>. QED  BY <1>8, <2>1, <2>2 DEF Once!Call, SubmitCall
<1>9. ASSUME NEW c \in Callers, SubmitTimeout(c)
      PROVE Once!Refuse(c)
  <2>0. CallerInv(c)  BY DEF IInv
  <2>1. Phase(c) = "pending" /\ Phase(c)' = "idle"
    BY <1>1, <1>9, <2>0 DEF TypeOK, Phase, SubmitTimeout, CallerInv, Unapplied
  <2>2. \A d \in Callers : d # c => Phase(d)' = Phase(d)
    BY <1>1, <1>9 DEF TypeOK, Phase, SubmitTimeout
  <2>. QED  BY <1>9, <2>1, <2>2 DEF Once!Refuse, SubmitTimeout
<1>10. ASSUME NEW c \in Callers, SubmitReply(c) \/ SubmitWriterDone(c)
       PROVE Once!Return(c)
  <2>1. CallerInv(c)  BY DEF IInv
  <2>2. pc[c] = "wait" /\ reply[c] # None
    BY <1>10, DoneMeansReplied DEF SubmitReply, SubmitWriterDone
  <2>3. /\ pc' = [pc EXCEPT ![c] = "idle"] /\ UNCHANGED <<reply, applied>>
        /\ answer' = [answer EXCEPT ![c] = reply[c]]
    BY <1>10, <2>2 DEF SubmitReply, SubmitWriterDone
  <2>4. Phase(c) = "applied" /\ Phase(c)' = "idle"
    BY <1>1, <2>1, <2>2, <2>3 DEF TypeOK, Phase, CallerInv, Unapplied
  <2>5. \A d \in Callers : d # c => Phase(d)' = Phase(d)
    BY <1>1, <2>3 DEF TypeOK, Phase
  <2>. QED  BY <2>3, <2>4, <2>5 DEF Once!Return
<1>11. ASSUME NEW c \in Callers, SubmitInlineApplied(c)
       PROVE \E o \in Outcomes : Once!ApplyAndReturn(c, o)
  <2>1. CallerInv(c)  BY DEF IInv
  <2>2. PICK o \in Outcomes : reply' = [reply EXCEPT ![c] = o] /\ answer' = [answer EXCEPT ![c] = o]
    BY <1>11 DEF SubmitInlineApplied
  <2>3. Phase(c) = "pending" /\ Phase(c)' = "idle"
    BY <1>1, <1>11, <2>1 DEF TypeOK, Phase, SubmitInlineApplied, CallerInv, Unapplied
  <2>4. \A d \in Callers : d # c => Phase(d)' = Phase(d)
    BY <1>1, <1>11 DEF TypeOK, Phase, SubmitInlineApplied
  <2>5. Once!ApplyAndReturn(c, o)
    BY <2>2, <2>3, <2>4 DEF Once!ApplyAndReturn
  <2>. QED  BY <2>5
<1>. QED
  BY <1>2, <1>3, <1>4, <1>5, <1>6, <1>8, <1>9, <1>10, <1>11 DEF Next, Writer, Submit, Once!Next

(* The goroutine, its queue and its restarts implement OnceWrites: every   *)
(* write is applied at most once, exactly once unless it was refused, and  *)
(* each caller is told the outcome of its own write.                       *)
THEOREM Refinement == Spec => ImplementsOnceWrites
<1>1. Init => Once!Init
  BY DEF Init, Once!Init, Phase
<1>. QED
  BY <1>1, Inductive, StepRefines, PTL DEF Spec, Once!Spec, ImplementsOnceWrites
============================================================================
