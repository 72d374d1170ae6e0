--------------------------- MODULE XrayPageProofs ---------------------------
(*****************************************************************************)
(* What holds of XrayPage for any stored template, any numbers of workers    *)
(* and any number of actions.  The text of the advanced tab is the template  *)
(* of all other tabs (every writer of one writes the other).  From that, and *)
(* from what each handler does to a list, every template, row and dialog     *)
(* value stays well-formed; so a renaming that looks up the rules by the tag *)
(* at an index of the list finds them.  A test of all outbounds ends only    *)
(* when each of its rows was tested (Queued: a row still to be tested is in  *)
(* the queue or in the hands of a worker, and a queue that is not empty has  *)
(* its test running).                                                        *)
(*****************************************************************************)
EXTENDS XrayPage, FiniteSetTheorems, SequenceTheorems, WellFoundedInduction, TLAPS

---------------------------------------------------------------------------
(* The writers of the editor: the one of the template, the one of the text,  *)
(* and the tabs and dialogs that go through the first.                       *)
LEMMA TemplateWritten ==
  \A t : setTemplateSettings(t) => TextIsTemplate'
BY DEF setTemplateSettings, Pretty, TextIsTemplate
LEMMA TextWritten ==
  ASSUME TextIsTemplate, NEW x, setXraySetting(x)
  PROVE  TextIsTemplate'
<1>1. CASE x.json
  BY <1>1 DEF setXraySetting, TextIsTemplate
<1>2. CASE ~x.json
  BY <1>2 DEF setXraySetting, TextIsTemplate
<1> QED BY <1>1, <1>2
LEMMA TemplateEdited ==
  \A t : Edits(t) \/ Answers(t) => TextIsTemplate'
BY TemplateWritten DEF Edits, Answers
LEMMA EditorKept ==
  ASSUME TextIsTemplate, UNCHANGED editor
  PROVE  TextIsTemplate'
BY DEF editor, TextIsTemplate

(* Answers, pushes and refetches.                                            *)
LEMMA ArrivesKeepsText ==
  ASSUME TextIsTemplate, Arrives
  PROVE  TextIsTemplate'
<1>1. CASE FetchAnswered
  BY <1>1, TemplateWritten, EditorKept DEF FetchAnswered, Seed
<1>2. CASE FetchFailed \/ fetchAll \/ TrafficPushed
  BY <1>2, EditorKept DEF FetchFailed, fetchAll, TrafficPushed
<1>3. CASE Reload
  BY <1>3 DEF Reload, Broken, TextIsTemplate
<1>4. ASSUME NEW t, OtherSaves(t) PROVE TextIsTemplate'
  BY <1>4, EditorKept DEF OtherSaves
<1>5. CASE OtherAddsInbound \/ SaveStored \/ SaveRefused \/ RestartAnswered
  BY <1>5, EditorKept DEF OtherAddsInbound, SaveStored, SaveRefused, RestartAnswered
<1>6. CASE ResetAnswered
  BY <1>6, TemplateWritten, EditorKept DEF ResetAnswered, editor
<1>7. ASSUME NEW f \in test.flight, TestAnswered(f) \/ TestFailed(f) PROVE TextIsTemplate'
  BY <1>7, EditorKept DEF TestAnswered, TestFailed, Tested
<1> QED BY <1>1, <1>2, <1>3, <1>4, <1>5, <1>6, <1>7 DEF Arrives

(* The tabs that edit at once.                                               *)
LEMMA EditKeepsText ==
  ASSUME TextIsTemplate, Edit
  PROVE  TextIsTemplate'
<1>1. ASSUME NEW tab, ShowTab(tab) PROVE TextIsTemplate'
  BY <1>1, EditorKept DEF ShowTab
<1>2. CASE Basics
  BY <1>2, TemplateEdited, ZenonT(60) DEF Basics
<1>3. CASE TypePart \/ TypeObservatory \/ MoveRows
  BY <1>3, TemplateEdited DEF TypePart, TypeObservatory, MoveRows
<1>4. CASE DnsSettings
  BY <1>4, TemplateEdited DEF DnsSettings
<1>5. ASSUME NEW x, TypeText(x) PROVE TextIsTemplate'
  BY <1>5, TextWritten DEF TypeText
<1>6. ASSUME NEW hosts, EditHosts(hosts) PROVE TextIsTemplate'
  BY <1>6 DEF EditHosts, Pretty, TextIsTemplate
<1> QED BY <1>1, <1>2, <1>3, <1>4, <1>5, <1>6 DEF Edit

(* The dialogs.                                                              *)
LEMMA DialogKeepsText ==
  ASSUME TextIsTemplate, OpenDialog \/ CloseDialog \/ Confirm
  PROVE  TextIsTemplate'
<1>1. ASSUME NEW d, Opens(d) PROVE TextIsTemplate'
  BY <1>1, EditorKept DEF Opens
<1>2. CASE OpenDialog
  BY <1>1, <1>2, ZenonT(60) DEF OpenDialog, OpenOutbound, OpenRule, OpenBalancer, OpenServer, StartDrag, OpenConfirm
<1>3. CASE CloseDialog
  BY <1>3, EditorKept DEF CloseDialog
<1>4. CASE Confirm
  BY <1>4, TemplateEdited, ZenonT(60) DEF Confirm, ConfirmOutbound, ConfirmRule, ConfirmBalancer, Drop,
     ConfirmServer, ConfirmDelete
<1> QED BY <1>2, <1>3, <1>4

(* NordVPN and WARP: an outbound that is added, changed or removed.          *)
LEMMA ProvidersKeepText ==
  ASSUME TextIsTemplate, Providers
  PROVE  TextIsTemplate'
<1>1. CASE OpenNord \/ CloseNord \/ NordLogin \/ NordLogout \/ NordFailed
  BY <1>1, EditorKept, ZenonT(60) DEF OpenNord, CloseNord, NordLogin, NordLogout, NordFailed, NordAsks
<1>2. CASE NordAnswered
  BY <1>2, TemplateWritten, EditorKept, ZenonT(60) DEF NordAnswered
<1>3. CASE NordOutbound
  BY <1>3, TemplateWritten DEF NordOutbound
<1>4. ASSUME NEW c, NordCountry(c) PROVE TextIsTemplate'
  BY <1>4, EditorKept DEF NordCountry, NordAsks
<1>5. CASE OpenWarp \/ CloseWarp \/ WarpButton \/ WarpFailed
  BY <1>5, EditorKept, ZenonT(60) DEF OpenWarp, CloseWarp, WarpButton, WarpFailed, WarpAsks
<1>6. CASE WarpAnswered
  BY <1>6, TemplateWritten, EditorKept, ZenonT(60) DEF WarpAnswered
<1>7. CASE WarpOutbound
  BY <1>7, TemplateWritten DEF WarpOutbound
<1> QED BY <1>1, <1>2, <1>3, <1>4, <1>5, <1>6, <1>7 DEF Providers

(* Whichever tab, dialog, answer or refetch wrote last, a text that parses   *)
(* is the template the other tabs show: Save (onSaveAll) posts what is seen. *)
THEOREM TextFollowsTemplate == Spec => []TextIsTemplate
<1>1. Init => TextIsTemplate
  BY DEF Init, Broken, TextIsTemplate
<1>2. TextIsTemplate /\ [Next]_vars => TextIsTemplate'
  <2> SUFFICES ASSUME TextIsTemplate, [Next]_vars PROVE TextIsTemplate'
    OBVIOUS
  <2>1. CASE Arrives
    BY <2>1, ArrivesKeepsText
  <2>2. CASE Header
    BY <2>2, EditorKept DEF Header, PollDirty, SetTestUrl, onSaveAll, confirmRestart, resetToDefault
  <2>3. CASE Edit
    BY <2>3, EditKeepsText
  <2>4. CASE OpenDialog \/ CloseDialog \/ Confirm
    BY <2>4, DialogKeepsText
  <2>5. CASE TestRows
    BY <2>5, EditorKept DEF TestRows, testAllOutbounds, TestOne, Tested
  <2>6. CASE Providers
    BY <2>6, ProvidersKeepText
  <2>7. CASE UNCHANGED vars
    BY <2>7, EditorKept DEF vars, editor
  <2> QED BY <2>1, <2>2, <2>3, <2>4, <2>5, <2>6, <2>7 DEF Next
<1> QED BY <1>1, <1>2, PTL DEF Spec

---------------------------------------------------------------------------
(* Lists: what stands at the first or at the n-th of some indices.          *)
(* There is one as long as there are as many indices.                        *)
LEMMA Least ==
  ASSUME NEW S \in SUBSET Nat, S # {}
  PROVE  \E m \in S : \A j \in S : m <= j
<1>1. PICK m \in S : \A j \in S : <<j, m>> \notin OpToRel(<, Nat)
  BY NatLessThanWellFounded, WFMin
<1>2. ASSUME NEW j \in S PROVE m <= j
  <2>1. m \in Nat /\ j \in Nat
    OBVIOUS
  <2>2. <<j, m>> \notin {ss \in Nat \X Nat : ss[1] < ss[2]}
    BY <1>1 DEF OpToRel
  <2>3. ~(j < m)
    BY <2>1, <2>2
  <2> QED BY <2>1, <2>3
<1> QED BY <1>2
LEMMA FirstIn ==
  ASSUME NEW S \in SUBSET Nat, S # {}
  PROVE  First(S) \in S
BY Least DEF First
LEMMA NthIn ==
  ASSUME NEW at \in SUBSET Nat, IsFiniteSet(at), NEW k \in 1..Cardinality(at)
  PROVE  Nth(at, k) \in at
<1> DEFINE Below(i) == {j \in at : j < i}
           Missing == {n \in 1..Cardinality(at) : \A i \in at : Cardinality(Below(i)) # n - 1}
<1>0. Cardinality(at) \in Nat
  BY FS_CardinalityType
<1>1. ASSUME Missing # {} PROVE FALSE
  <2>1. Missing \in SUBSET Nat
    BY <1>0
  <2>2. PICK n \in Missing : \A m \in Missing : n <= m
    BY <1>1, <2>1, Least
  <2>3. n \in Nat /\ n >= 1 /\ n <= Cardinality(at)
    BY <1>0
  <2>4. CASE n = 1
    <3>1. at # {}
      BY <2>3, FS_EmptySet
    <3>2. PICK i \in at : \A j \in at : i <= j
      BY <3>1, Least
    <3>3. ASSUME NEW j \in Below(i) PROVE FALSE
      <4>1. j \in Nat /\ i \in Nat /\ j < i /\ i <= j
        BY <3>2
      <4> QED BY <4>1
    <3>4. Cardinality(Below(i)) = n - 1
      <4>1. Below(i) = {}
        BY <3>3
      <4> QED BY <2>4, <4>1, FS_EmptySet
    <3> QED BY <3>4
  <2>5. CASE n > 1
    <3>1. n - 1 \in 1..Cardinality(at) /\ n - 1 \notin Missing
      BY <1>0, <2>2, <2>3, <2>5
    <3>2. PICK i \in at : Cardinality(Below(i)) = n - 2
      <4>1. ~(\A i \in at : Cardinality(Below(i)) # (n - 1) - 1)
        <5> HIDE DEF Below
        <5> QED BY <3>1
      <4>2. (n - 1) - 1 = n - 2
        BY <2>3
      <4> QED BY <4>1, <4>2
    <3>3. IsFiniteSet(Below(i)) /\ i \notin Below(i)
      BY FS_Subset
    <3>4. Cardinality(Below(i) \cup {i}) = n - 1
      <4>1. Cardinality(Below(i) \cup {i}) = Cardinality(Below(i)) + 1
        <5> HIDE DEF Below
        <5> QED BY <3>3, FS_AddElement
      <4> QED BY <2>3, <3>2, <4>1
    <3> DEFINE Above == {j \in at : i < j}
    <3>5. Above # {}
      <4>1. SUFFICES ASSUME Above = {} PROVE FALSE
        OBVIOUS
      <4>2. ASSUME NEW j \in at PROVE j \in Below(i) \cup {i}
        <5>1. j \in Nat /\ i \in Nat /\ ~(i < j)
          BY <4>1
        <5> QED BY <5>1
      <4>3. at = Below(i) \cup {i}
        BY <4>2
      <4> QED BY <2>3, <3>4, <4>3
    <3>6. PICK m \in Above : \A j \in Above : m <= j
      BY <3>5, Least
    <3>7. Below(m) = Below(i) \cup {i}
      <4>1. m \in Nat /\ i \in Nat /\ i < m
        OBVIOUS
      <4>2. ASSUME NEW j \in at PROVE j < m <=> j < i \/ j = i
        <5>1. j \in Nat /\ (i < j => m <= j)
          BY <3>6
        <5> QED BY <4>1, <5>1
      <4> QED BY <4>2
    <3>8. m \in at /\ Cardinality(Below(m)) = n - 1
      BY <3>4, <3>7
    <3> QED BY <3>8
  <2> QED BY <2>3, <2>4, <2>5
<1>2. \E i \in at : Cardinality(Below(i)) = k - 1
  BY <1>1
<1> QED BY <1>2 DEF Nth

(* Array.prototype.filter, assignment by index, splice, swap and reverse.    *)
LEMMA KeptTyped ==
  ASSUME NEW S, NEW list \in Seq(S), NEW at \in SUBSET DOMAIN list
  PROVE  Kept(list, at) \in Seq(S)
<1>1. at \in SUBSET (1..Len(list)) /\ Len(list) \in Nat
  OBVIOUS
<1>2. IsFiniteSet(at)
  BY <1>1, FS_Interval, FS_Subset
<1>3. Cardinality(at) \in Nat
  BY <1>2, FS_CardinalityType
<1>4. \A k \in 1..Cardinality(at) : list[Nth(at, k)] \in S
  <2>1. ASSUME NEW k \in 1..Cardinality(at) PROVE list[Nth(at, k)] \in S
    <3>1. Nth(at, k) \in at
      BY <1>1, <1>2, NthIn
    <3> QED BY <3>1
  <2> QED BY <2>1
<1> QED BY <1>3, <1>4, SeqDef DEF Kept

LEMMA PutAtTyped ==
  ASSUME NEW S, Hole \in S, NEW list \in Seq(S), NEW i \in Nat, NEW x \in S
  PROVE  PutAt(list, i, x) \in Seq(S)
<1> DEFINE n == IF i > Len(list) THEN i ELSE Len(list)
<1>1. n \in Nat
  OBVIOUS
<1>2. \A k \in 1..n : (IF k = i THEN x ELSE IF k <= Len(list) THEN list[k] ELSE Hole) \in S
  OBVIOUS
<1> QED BY <1>1, <1>2, SeqDef DEF PutAt
LEMMA AssignedTyped ==
  ASSUME NEW S, NEW list \in Seq(S), NEW i, NEW x, i \in DOMAIN list => x \in S
  PROVE  [list EXCEPT ![i] = x] \in Seq(S)
<1>1. CASE i \in DOMAIN list
  BY <1>1
<1>2. CASE i \notin DOMAIN list
  <2>1. [list EXCEPT ![i] = x] = [k \in 1..Len(list) |-> list[k]]
    BY <1>2
  <2>2. list = [k \in 1..Len(list) |-> list[k]]
    OBVIOUS
  <2> QED BY <2>1, <2>2
<1> QED BY <1>1, <1>2
LEMMA SplicedTyped ==
  ASSUME NEW S, NEW list \in Seq(S), NEW i
  PROVE  Spliced(list, i) \in Seq(S)
<1>1. ASSUME i \in DOMAIN list PROVE RemoveAt(list, i) \in Seq(S)
  <2>1. i \in 1..Len(list) /\ Len(list) \in Nat
    BY <1>1
  <2>2. SubSeq(list, 1, i - 1) \in Seq(S) /\ SubSeq(list, i + 1, Len(list)) \in Seq(S)
    BY <2>1
  <2> QED BY <2>2 DEF RemoveAt
<1> QED BY <1>1 DEF Spliced
LEMMA SwappedTyped ==
  ASSUME NEW S, NEW list \in Seq(S), NEW i, NEW j
  PROVE  Swapped(list, i, j) \in Seq(S)
BY DEF Swapped
LEMMA ReverseTyped ==
  ASSUME NEW S, NEW list \in Seq(S)
  PROVE  Reverse(list) \in Seq(S)
<1>1. \A k \in 1..Len(list) : list[(Len(list) - k) + 1] \in S
  OBVIOUS
<1>2. Len(list) \in Nat
  OBVIOUS
<1> QED BY <1>1, <1>2, SeqDef DEF Reverse
LEMMA InsertAtTyped ==
  ASSUME NEW S, NEW list \in Seq(S), NEW j \in Nat \ {0}, j <= Len(list), NEW x \in S
  PROVE  InsertAt(list, j, x) \in Seq(S)
<1>1. SubSeq(list, 1, j - 1) \in Seq(S) /\ SubSeq(list, j, Len(list)) \in Seq(S)
  OBVIOUS
<1> QED BY <1>1 DEF InsertAt

---------------------------------------------------------------------------
(* Rows that may be a hole, and the template with one of its fields written. *)
OutboundRow == OutboundType \cup {Hole}
RuleRow == RuleType \cup {Hole}
BalancerRow == BalancerType \cup {Hole}
LEMMA OutboundTyped == \A t, p \in Text : Outbound(t, p) \in OutboundType
BY DEF Outbound, OutboundType
LEMMA RuleTyped ==
  \A o, b, c \in Text, l \in BOOLEAN : Rule(o, b, {<<c, l>>}) \in RuleType
<1>1. \A c \in Text, l \in BOOLEAN : {<<c, l>>} \in SUBSET (Text \X BOOLEAN)
  <2> TAKE c \in Text, l \in BOOLEAN
  <2>1. <<c, l>> \in Text \X BOOLEAN
    OBVIOUS
  <2> DEFINE pair == <<c, l>>
  <2> HIDE DEF pair
  <2>2. {pair} \in SUBSET (Text \X BOOLEAN)
    BY <2>1 DEF pair
  <2> QED BY <2>2 DEF pair
<1> QED BY <1>1 DEF Rule, RuleType
LEMMA DefaultWellFormed == WellFormed(DefaultTemplate)
<1>0. /\ "direct" \in Text /\ "freedom" \in Text /\ "blocked" \in Text /\ "blackhole" \in Text
      /\ "ip" \in Text /\ "protocol" \in Text /\ NoTag \in Text
  BY DEF Text, Criteria
<1>1. Outbound("direct", "freedom") \in OutboundRow /\ Outbound("blocked", "blackhole") \in OutboundRow
  BY <1>0, OutboundTyped, Zenon DEF OutboundRow
<1>3. Rule("blocked", NoTag, {<<"ip", TRUE>>}) \in RuleRow
        /\ Rule("blocked", NoTag, {<<"protocol", TRUE>>}) \in RuleRow
  BY <1>0, RuleTyped, Zenon DEF RuleRow
<1>4. DefaultTemplate.outbounds \in Seq(OutboundRow)
  BY <1>1 DEF DefaultTemplate
<1>5. DefaultTemplate.rules \in Seq(RuleRow)
  BY <1>3 DEF DefaultTemplate
<1>6. DefaultTemplate.balancers \in Seq(BalancerRow)
  BY DEF DefaultTemplate
<1> QED BY <1>4, <1>5, <1>6 DEF WellFormed, Fields, OutboundRow, RuleRow, BalancerRow
LEMMA OutboundsWritten ==
  ASSUME NEW t, WellFormed(t), NEW x \in Seq(OutboundRow)
  PROVE  WellFormed([t EXCEPT !.outbounds = x])
BY DEF WellFormed, OutboundRow, Fields, DefaultTemplate
LEMMA RulesWritten ==
  ASSUME NEW t, WellFormed(t), NEW x \in Seq(RuleRow)
  PROVE  WellFormed([t EXCEPT !.rules = x])
BY DEF WellFormed, RuleRow, Fields, DefaultTemplate
LEMMA BalancersWritten ==
  ASSUME NEW t, WellFormed(t), NEW x \in Seq(BalancerRow)
  PROVE  WellFormed([t EXCEPT !.balancers = x])
BY DEF WellFormed, BalancerRow, Fields, DefaultTemplate
LEMMA OthersWritten ==
  ASSUME NEW t, WellFormed(t), NEW f \in {"observatory", "burstObservatory", "dns", "fakedns", "general"}, NEW x
  PROVE  WellFormed([t EXCEPT ![f] = x])
BY DEF WellFormed, Fields, DefaultTemplate
LEMMA ListsTyped ==
  ASSUME NEW t, WellFormed(t)
  PROVE  t.outbounds \in Seq(OutboundRow) /\ t.rules \in Seq(RuleRow) /\ t.balancers \in Seq(BalancerRow)
BY DEF WellFormed, OutboundRow, RuleRow, BalancerRow

(* The handlers of the tabs, each from a well-formed template to another.    *)
LEMMA OutboundsTab ==
  ASSUME NEW t, WellFormed(t), NEW i \in Nat, NEW j, NEW o \in OutboundRow
  PROVE  /\ WellFormed(OutboundConfirmed(t, i, o)) /\ WellFormed(OutboundDeleted(t, i))
         /\ WellFormed(OutboundMoved(t, i, j)) /\ WellFormed(OutboundAdded(t, o))
         /\ i \in DOMAIN t.outbounds => WellFormed(OutboundFirst(t, i))
<1>1. t.outbounds \in Seq(OutboundRow) /\ Hole \in OutboundRow
  BY ListsTyped DEF OutboundRow
<1>2. Append(t.outbounds, o) \in Seq(OutboundRow) /\ PutAt(t.outbounds, i, o) \in Seq(OutboundRow)
  BY <1>1, PutAtTyped
<1>3. Spliced(t.outbounds, i) \in Seq(OutboundRow) /\ Swapped(t.outbounds, i, j) \in Seq(OutboundRow)
  BY <1>1, SplicedTyped, SwappedTyped
<1>4. i \in DOMAIN t.outbounds => <<t.outbounds[i]>> \o Spliced(t.outbounds, i) \in Seq(OutboundRow)
  BY <1>1, <1>3
<1>5. WellFormed(OutboundConfirmed(t, i, o)) /\ WellFormed(OutboundAdded(t, o))
  BY <1>2, OutboundsWritten DEF OutboundConfirmed, OutboundAdded
<1>6. WellFormed(OutboundDeleted(t, i)) /\ WellFormed(OutboundMoved(t, i, j))
  BY <1>3, OutboundsWritten DEF OutboundDeleted, OutboundMoved
<1>7. i \in DOMAIN t.outbounds => WellFormed(OutboundFirst(t, i))
  BY <1>4, OutboundsWritten DEF OutboundFirst
<1> QED BY <1>5, <1>6, <1>7
LEMMA RulesTab ==
  ASSUME NEW t, WellFormed(t), NEW i \in Nat, NEW j \in Nat, NEW r \in RuleRow
  PROVE  /\ WellFormed(RuleConfirmed(t, i, r)) /\ WellFormed(RuleDeleted(t, i))
         /\ WellFormed(RuleMoved(t, i, j))
         /\ j > 0 => WellFormed(RuleDragged(t, i, j))
<1>1. t.rules \in Seq(RuleRow) /\ Hole \in RuleRow
  BY ListsTyped DEF RuleRow
<1>2. Append(t.rules, r) \in Seq(RuleRow) /\ PutAt(t.rules, i, r) \in Seq(RuleRow)
  BY <1>1, PutAtTyped
<1>3. Spliced(t.rules, i) \in Seq(RuleRow) /\ Swapped(t.rules, i, j) \in Seq(RuleRow)
  BY <1>1, SplicedTyped, SwappedTyped
<1>4. WellFormed(RuleConfirmed(t, i, r))
  BY <1>2, RulesWritten DEF RuleConfirmed
<1>5. WellFormed(RuleDeleted(t, i)) /\ WellFormed(RuleMoved(t, i, j))
  BY <1>3, RulesWritten DEF RuleDeleted, RuleMoved
<1>6. ASSUME j > 0 PROVE WellFormed(RuleDragged(t, i, j))
  <2> DEFINE moved == IF i \in DOMAIN t.rules THEN t.rules[i] ELSE Hole
             rest == Spliced(t.rules, i)
             new == IF j > Len(rest) THEN Append(rest, moved) ELSE InsertAt(rest, j, moved)
  <2>1. moved \in RuleRow /\ rest \in Seq(RuleRow)
    BY <1>1, <1>3
  <2>2. new \in Seq(RuleRow)
    <3> HIDE DEF moved, rest
    <3>1. CASE j > Len(rest)
      BY <2>1, <3>1
    <3>2. CASE ~(j > Len(rest))
      <4>1. j <= Len(rest) /\ j \in Nat \ {0}
        BY <1>6, <2>1, <3>2
      <4>2. InsertAt(rest, j, moved) \in Seq(RuleRow)
        BY <2>1, <4>1, InsertAtTyped
      <4> QED BY <3>2, <4>2
    <3> QED BY <3>1, <3>2
  <2>3. RuleDragged(t, i, j) = [t EXCEPT !.rules = new]
    BY DEF RuleDragged
  <2> HIDE DEF new
  <2> QED BY <2>2, <2>3, RulesWritten
<1> QED BY <1>4, <1>5, <1>6
LEMMA RetaggedTyped ==
  ASSUME NEW rules \in Seq(RuleRow), NEW before, NEW new \in Text
  PROVE  Retagged(rules, before, new) \in Seq(RuleRow)
<1>1. \A k \in DOMAIN rules : (IF rules[k] # Hole /\ rules[k].balancerTag = before
                               THEN [rules[k] EXCEPT !.balancerTag = new] ELSE rules[k]) \in RuleRow
  BY DEF RuleRow, RuleType
<1>2. DOMAIN rules = 1..Len(rules) /\ Len(rules) \in Nat
  OBVIOUS
<1> QED BY <1>1, <1>2, SeqDef DEF Retagged
LEMMA Synced ==
  ASSUME NEW t, WellFormed(t)
  PROVE  WellFormed(syncObservatories(t))
<1>1. WellFormed([t EXCEPT !.observatory = Observing(t, Pingers(t))])
  BY OthersWritten
<1>2. syncObservatories(t) = [[t EXCEPT !.observatory = Observing(t, Pingers(t))]
                                EXCEPT !.burstObservatory = Observing(t, BurstFeeders(t))]
  BY DEF syncObservatories
<1>3. \A u, x : WellFormed(u) => WellFormed([u EXCEPT !.burstObservatory = x])
  BY OthersWritten
<1> QED BY <1>1, <1>2, <1>3
LEMMA BalancersTab ==
  ASSUME NEW t, WellFormed(t), NEW i \in Nat, NEW b \in BalancerType
  PROVE  WellFormed(BalancerConfirmed(t, i, b)) /\ WellFormed(BalancerDeleted(t, i))
<1>1. t.balancers \in Seq(BalancerRow) /\ t.rules \in Seq(RuleRow) /\ Hole \in BalancerRow
        /\ b \in BalancerRow /\ b.tag \in Text
  BY ListsTyped DEF BalancerRow, BalancerType
<1>2. Append(t.balancers, b) \in Seq(BalancerRow) /\ PutAt(t.balancers, i, b) \in Seq(BalancerRow)
        /\ Spliced(t.balancers, i) \in Seq(BalancerRow)
  <2>1. Append(t.balancers, b) \in Seq(BalancerRow)
    BY <1>1
  <2>2. PutAt(t.balancers, i, b) \in Seq(BalancerRow)
    BY <1>1, PutAtTyped
  <2>3. Spliced(t.balancers, i) \in Seq(BalancerRow)
    BY <1>1, SplicedTyped
  <2> QED BY <2>1, <2>2, <2>3
<1>3. (IF OldTag(t, i) # NoTag THEN Retagged(t.rules, OldTag(t, i), b.tag) ELSE t.rules) \in Seq(RuleRow)
  BY <1>1, RetaggedTyped
<1>4. WellFormed(BalancerDeleted(t, i))
  BY <1>2, BalancersWritten, Synced DEF BalancerDeleted
<1>5. CASE i = 0
  <2>1. WellFormed([t EXCEPT !.balancers = Append(t.balancers, b)])
    BY <1>2, BalancersWritten
  <2> QED BY <1>4, <1>5, <2>1, Synced DEF BalancerConfirmed
<1>6. CASE i # 0
  <2> DEFINE rules == IF OldTag(t, i) # NoTag THEN Retagged(t.rules, OldTag(t, i), b.tag) ELSE t.rules
             u == [[t EXCEPT !.balancers = PutAt(t.balancers, i, b)] EXCEPT !.rules = rules]
  <2>1. BalancerConfirmed(t, i, b) = syncObservatories(u)
    BY <1>6 DEF BalancerConfirmed
  <2>2. WellFormed(u)
    <3> HIDE DEF rules
    <3>1. WellFormed([t EXCEPT !.balancers = PutAt(t.balancers, i, b)])
      BY <1>2, BalancersWritten
    <3> QED BY <1>3, <3>1, RulesWritten DEF rules
  <2> HIDE DEF u
  <2> QED BY <1>4, <2>1, <2>2, Synced
<1> QED BY <1>4, <1>5, <1>6
LEMMA DnsTab ==
  ASSUME NEW t, WellFormed(t)
  PROVE  /\ \A on : WellFormed(toggleDNS(t, on))
         /\ \A rows : WellFormed(HostsSynced(t, rows))
         /\ WellFormed(setDnsField(t)) /\ WellFormed(ServersCleared(t)) /\ WellFormed(FakednsAdded(t))
         /\ \A i, s : WellFormed(ServerConfirmed(t, i, s)) 
         /\ \A i : WellFormed(ServerDeleted(t, i)) /\ WellFormed(FakednsDeleted(t, i))
              /\ WellFormed(FakednsUpdated(t, i))
         /\ \A list : WellFormed(PresetInstalled(t, list))
<1>1. \A x : WellFormed([t EXCEPT !.dns = x]) /\ WellFormed([t EXCEPT !.fakedns = x])
  BY OthersWritten
<1>2. \A x, y : WellFormed([t EXCEPT !.dns = x, !.fakedns = y])
  <2> TAKE x, y
  <2>1. [t EXCEPT !.dns = x, !.fakedns = y] = [[t EXCEPT !.dns = x] EXCEPT !.fakedns = y]
    OBVIOUS
  <2> QED BY <1>1, <2>1, OthersWritten
<1>3. \A on : WellFormed(toggleDNS(t, on))
  BY <1>2 DEF toggleDNS
<1>4. \A rows : WellFormed(HostsSynced(t, rows))
  BY <1>1 DEF HostsSynced
<1>5. WellFormed(setDnsField(t)) /\ WellFormed(ServersCleared(t)) /\ WellFormed(FakednsAdded(t))
  BY <1>1 DEF setDnsField, ServersCleared, FakednsAdded
<1>6. \A i, s : WellFormed(ServerConfirmed(t, i, s))
  BY <1>1 DEF ServerConfirmed
<1>7. \A i : WellFormed(ServerDeleted(t, i)) /\ WellFormed(FakednsDeleted(t, i)) /\ WellFormed(FakednsUpdated(t, i))
  BY <1>1 DEF ServerDeleted, FakednsDeleted, FakednsUpdated
<1>8. \A list : WellFormed(PresetInstalled(t, list))
  BY <1>1 DEF PresetInstalled
<1> QED BY <1>3, <1>4, <1>5, <1>6, <1>7, <1>8

---------------------------------------------------------------------------
(* The quick rules of the basics tab: one row of each kind may be found,     *)
(* changed or dropped, and the outbound it goes to added or removed.         *)
LEMMA FirstOf ==
  ASSUME NEW S, NEW list \in Seq(S), NEW at \in SUBSET DOMAIN list, at # {}
  PROVE  First(at) \in at /\ First(at) \in 1..Len(list)
<1>1. at \in SUBSET Nat
  OBVIOUS
<1> QED BY <1>1, FirstIn
LEMMA OthersDroppedTyped ==
  ASSUME NEW t, WellFormed(t), NEW tag, NEW prop, NEW kept
  PROVE  WellFormed(OthersDropped(t, tag, prop, kept))
<1>1. Kept(t.rules, DOMAIN t.rules \ (Matching(t, tag, prop) \ kept)) \in Seq(RuleRow)
  BY ListsTyped, KeptTyped
<1> QED BY <1>1, RulesWritten DEF OthersDropped
LEMMA SettingTyped ==
  ASSUME NEW r \in RuleRow, NEW prop \in Text
  PROVE  Setting(r, prop) \in RuleRow
<1>1. CASE r \in RuleType
  <2>1. r.crit \in SUBSET (Text \X BOOLEAN)
    BY <1>1 DEF RuleType
  <2>2. <<prop, TRUE>> \in Text \X BOOLEAN
    OBVIOUS
  <2> DEFINE pair == <<prop, TRUE>>
             crit == {c \in r.crit : c[1] # prop} \cup {pair}
  <2>3. crit \in SUBSET (Text \X BOOLEAN)
    <3> HIDE DEF pair
    <3> QED BY <2>1, <2>2 DEF pair
  <2>4. Setting(r, prop) = [r EXCEPT !.crit = crit]
    BY DEF Setting
  <2> HIDE DEF crit
  <2> QED BY <1>1, <2>3, <2>4 DEF RuleType, RuleRow
<1>2. CASE r = Hole
  BY <1>2 DEF Setting, Hole, RuleRow
<1> QED BY <1>1, <1>2 DEF RuleRow
LEMMA ruleSetterTyped ==
  ASSUME NEW t, WellFormed(t), NEW tag \in Text, NEW prop \in Text, NEW filled \in BOOLEAN
  PROVE  WellFormed(ruleSetter(t, tag, prop, filled))
<1> DEFINE first == First(Matching(t, tag, prop))
           rule == Rule(tag, NoTag, {<<prop, filled>>})
           set == [t.rules EXCEPT ![first] = Setting(t.rules[first], prop)]
<1>0. t.rules \in Seq(RuleRow)
  BY ListsTyped
<1>1. WellFormed([t EXCEPT !.rules = Append(t.rules, rule)])
  <2>1. NoTag \in Text
    BY DEF Text
  <2>2. rule \in RuleRow
    BY <2>1, RuleTyped, Zenon DEF RuleRow
  <2>3. Append(t.rules, rule) \in Seq(RuleRow)
    <3> HIDE DEF rule
    <3> QED BY <1>0, <2>2
  <2> QED BY <2>3, RulesWritten
<1>2. WellFormed([t EXCEPT !.rules = set])
  <2>1. first \in DOMAIN t.rules => Setting(t.rules[first], prop) \in RuleRow
    BY <1>0, SettingTyped
  <2>2. set \in Seq(RuleRow)
    <3> HIDE DEF first
    <3> QED BY <1>0, <2>1, AssignedTyped
  <2> QED BY <2>2, RulesWritten
<1>3. WellFormed(OthersDropped([t EXCEPT !.rules = set], tag, prop, {first}))
  BY <1>2, OthersDroppedTyped
<1>4. WellFormed(OthersDropped(t, tag, prop, {}))
  BY OthersDroppedTyped
<1>5. ruleSetter(t, tag, prop, filled) \in
        {[t EXCEPT !.rules = Append(t.rules, rule)],
         OthersDropped([t EXCEPT !.rules = set], tag, prop, {first}), OthersDropped(t, tag, prop, {})}
  BY DEF ruleSetter
<1> HIDE DEF first, rule, set
<1> QED BY <1>1, <1>3, <1>4, <1>5
LEMMA syncOutboundTyped ==
  ASSUME NEW t, WellFormed(t), NEW o \in OutboundType
  PROVE  WellFormed(syncOutbound(t, o))
<1> DEFINE at == Tagged(t.outbounds, o.tag)
<1>0. t.outbounds \in Seq(OutboundRow) /\ o \in OutboundRow
  BY ListsTyped DEF OutboundRow
<1>1. ASSUME at # {} PROVE WellFormed([t EXCEPT !.outbounds = RemoveAt(t.outbounds, First(at))])
  <2>1. First(at) \in DOMAIN t.outbounds
    BY <1>0, <1>1, FirstOf DEF Tagged
  <2>2. RemoveAt(t.outbounds, First(at)) = Spliced(t.outbounds, First(at))
    BY <2>1 DEF Spliced
  <2>3. RemoveAt(t.outbounds, First(at)) \in Seq(OutboundRow)
    BY <1>0, <2>2, SplicedTyped
  <2> QED BY <2>3, OutboundsWritten
<1>2. WellFormed([t EXCEPT !.outbounds = Append(t.outbounds, o)])
  <2>1. Append(t.outbounds, o) \in Seq(OutboundRow)
    BY <1>0
  <2> QED BY <2>1, OutboundsWritten
<1> QED BY <1>1, <1>2 DEF syncOutbound
LEMMA BasicsTab ==
  ASSUME NEW t, WellFormed(t), NEW filled \in BOOLEAN
  PROVE  /\ \A prop \in Criteria : WellFormed(Blocked(t, prop, filled)) /\ WellFormed(Directed(t, prop, filled))
         /\ WellFormed(ByIPv4(t, filled)) /\ WellFormed(ByWarp(t, filled)) /\ WellFormed(ByNord(t, filled))
         /\ WellFormed(FreedomStrategySet(t)) /\ WellFormed(GeneralSet(t))
<1>0. /\ "direct" \in Text /\ "freedom" \in Text /\ "blocked" \in Text /\ "IPv4" \in Text
      /\ "warp" \in Text /\ Criteria \subseteq Text /\ "domain" \in Criteria
  BY DEF Text, Criteria
<1>a. t.outbounds \in Seq(OutboundRow)
  BY ListsTyped
<1>b. Outbound("direct", "freedom") \in OutboundType /\ Outbound("IPv4", "freedom") \in OutboundType
  BY <1>0, OutboundTyped
<1>1. \A prop \in Criteria : WellFormed(Blocked(t, prop, filled))
  BY <1>0, ruleSetterTyped DEF Blocked
<1>2. \A prop \in Criteria : WellFormed(Directed(t, prop, filled))
  BY <1>0, <1>b, ruleSetterTyped, syncOutboundTyped DEF Directed
<1>3. WellFormed(ByIPv4(t, filled))
  BY <1>0, <1>b, ruleSetterTyped, syncOutboundTyped DEF ByIPv4
<1>4. WellFormed(ByWarp(t, filled))
  BY <1>0, ruleSetterTyped DEF ByWarp
<1>5. WellFormed(ByNord(t, filled))
  <2>1. CASE NordOutbounds(t) = {}
    BY <2>1 DEF ByNord
  <2>2. CASE NordOutbounds(t) # {}
    <3> DEFINE tag == t.outbounds[First(NordOutbounds(t))].tag
    <3>1. First(NordOutbounds(t)) \in NordOutbounds(t)
      BY <1>a, <2>2, FirstOf DEF NordOutbounds
    <3>2. tag \in NordTags
      BY <3>1 DEF NordOutbounds
    <3>3. tag \in Text
      BY <3>2 DEF NordTags, Text
    <3>4. WellFormed(ruleSetter(t, tag, "domain", filled))
      BY <1>0, <3>3, ruleSetterTyped
    <3> QED BY <2>2, <3>4 DEF ByNord
  <2> QED BY <2>1, <2>2
<1>6. WellFormed(FreedomStrategySet(t))
  <2> DEFINE at == {i \in Tagged(t.outbounds, "direct") : t.outbounds[i].protocol = "freedom"}
             k == First(at)
             set == [t.outbounds EXCEPT ![k].edition = 1 - @]
  <2>1. WellFormed([t EXCEPT !.outbounds = Append(t.outbounds, Outbound("direct", "freedom"))])
    <3>1. Append(t.outbounds, Outbound("direct", "freedom")) \in Seq(OutboundRow)
      BY <1>a, <1>b DEF OutboundRow
    <3> QED BY <3>1, OutboundsWritten
  <2>2. set \in Seq(OutboundRow)
    <3>1. \A o \in OutboundRow : [o EXCEPT !.edition = 1 - @] \in OutboundRow
      <4>1. \A o \in OutboundType : [o EXCEPT !.edition = 1 - @] \in OutboundType
        BY DEF OutboundType
      <4>2. [Hole EXCEPT !.edition = 1 - @] = Hole
        BY DEF Hole
      <4> QED BY <4>1, <4>2 DEF OutboundRow
    <3>2. set = [t.outbounds EXCEPT ![k] = [t.outbounds[k] EXCEPT !.edition = 1 - @]]
      OBVIOUS
    <3> DEFINE x == [t.outbounds[k] EXCEPT !.edition = 1 - @]
    <3>3. k \in DOMAIN t.outbounds => x \in OutboundRow
      <4> HIDE DEF k
      <4> QED BY <1>a, <3>1
    <3>4. set = [t.outbounds EXCEPT ![k] = x]
      BY <3>2
    <3> HIDE DEF k, x, set
    <3>5. [t.outbounds EXCEPT ![k] = x] \in Seq(OutboundRow)
      BY <1>a, <3>3, AssignedTyped
    <3> QED BY <3>4, <3>5
  <2>3. FreedomStrategySet(t) \in {[t EXCEPT !.outbounds = Append(t.outbounds, Outbound("direct", "freedom"))],
          [t EXCEPT !.outbounds = set]}
    BY DEF FreedomStrategySet
  <2>4. WellFormed([t EXCEPT !.outbounds = set])
    <3> HIDE DEF set
    <3> QED BY <2>2, OutboundsWritten
  <2> HIDE DEF set
  <2> QED BY <2>1, <2>3, <2>4
<1>7. WellFormed(GeneralSet(t))
  BY OthersWritten DEF GeneralSet
<1> QED BY <1>1, <1>2, <1>3, <1>4, <1>5, <1>6, <1>7

---------------------------------------------------------------------------
(* The outbounds of the providers, which take the rules along.               *)
RulesFollow(rules, before, new) ==
  [k \in DOMAIN rules |-> IF rules[k] # Hole /\ rules[k].outboundTag = before
                          THEN [rules[k] EXCEPT !.outboundTag = new] ELSE rules[k]]
LEMMA OutboundResetTyped ==
  ASSUME NEW t, WellFormed(t), NEW i \in Nat, NEW o \in OutboundType, NEW before
  PROVE  WellFormed(OutboundReset(t, i, o, before))
<1> DEFINE rules == IF before = NoTag THEN t.rules ELSE RulesFollow(t.rules, before, o.tag)
<1>0. t.outbounds \in Seq(OutboundRow) /\ t.rules \in Seq(RuleRow) /\ Hole \in OutboundRow
        /\ o \in OutboundRow /\ o.tag \in Text
  BY ListsTyped DEF OutboundRow, OutboundType
<1>1. RulesFollow(t.rules, before, o.tag) \in Seq(RuleRow)
  <2>1. \A k \in DOMAIN t.rules : (IF t.rules[k] # Hole /\ t.rules[k].outboundTag = before
                                   THEN [t.rules[k] EXCEPT !.outboundTag = o.tag] ELSE t.rules[k]) \in RuleRow
    <3>1. \A r \in RuleRow, g \in Text : r # Hole => [r EXCEPT !.outboundTag = g] \in RuleRow
      BY DEF RuleRow, RuleType
    <3>2. \A k \in DOMAIN t.rules : t.rules[k] \in RuleRow
      BY <1>0
    <3> QED BY <1>0, <3>1, <3>2
  <2>2. DOMAIN t.rules = 1..Len(t.rules) /\ Len(t.rules) \in Nat
    BY <1>0
  <2> QED BY <2>1, <2>2, SeqDef DEF RulesFollow
<1>2. rules \in Seq(RuleRow)
  BY <1>0, <1>1
<1>3. PutAt(t.outbounds, i, o) \in Seq(OutboundRow)
  BY <1>0, PutAtTyped
<1>4. i # 0 => OutboundReset(t, i, o, before) = [[t EXCEPT !.outbounds = PutAt(t.outbounds, i,
        o)] EXCEPT !.rules = rules]
  BY DEF OutboundReset, RulesFollow
<1>5. i = 0 => OutboundReset(t, i, o, before) = t
  BY DEF OutboundReset
<1>6. WellFormed([t EXCEPT !.outbounds = PutAt(t.outbounds, i, o)])
  BY <1>3, OutboundsWritten
<1> HIDE DEF rules
<1>7. WellFormed([[t EXCEPT !.outbounds = PutAt(t.outbounds, i, o)] EXCEPT !.rules = rules])
  BY <1>2, <1>6, RulesWritten
<1> QED BY <1>4, <1>5, <1>7
LEMMA RemovedTyped ==
  ASSUME NEW t, WellFormed(t)
  PROVE  WellFormed(WarpRemoved(t)) /\ \A i : WellFormed(NordRemoved(t, i))
<1>0. t.outbounds \in Seq(OutboundRow) /\ t.rules \in Seq(RuleRow)
  BY ListsTyped
<1>1. \A i : Spliced(t.outbounds, i) \in Seq(OutboundRow)
  BY <1>0, SplicedTyped
<1>2. \A i : WellFormed([t EXCEPT !.outbounds = Spliced(t.outbounds, i)])
  BY <1>1, OutboundsWritten
<1> DEFINE rules == Kept(t.rules, {k \in DOMAIN t.rules : t.rules[k]
        = Hole \/ t.rules[k].outboundTag \notin NordTags})
<1>3. rules \in Seq(RuleRow)
  BY <1>0, KeptTyped
<1>4. \A i : NordRemoved(t, i) = [[t EXCEPT !.outbounds = Spliced(t.outbounds, i)] EXCEPT !.rules = rules]
  BY DEF NordRemoved
<1> HIDE DEF rules
<1>5. \A i : WellFormed([[t EXCEPT !.outbounds = Spliced(t.outbounds, i)] EXCEPT !.rules = rules])
  BY <1>2, <1>3, RulesWritten
<1> QED BY <1>2, <1>4, <1>5 DEF WarpRemoved
LEMMA TypedParts ==
  ASSUME NEW t, WellFormed(t)
  PROVE  /\ WellFormed([t EXCEPT !.general = 1 - @])
         /\ WellFormed([t EXCEPT !.outbounds = Reverse(@)]) /\ WellFormed([t EXCEPT !.rules = Reverse(@)])
         /\ WellFormed([t EXCEPT !.balancers = <<>>, !.rules = <<>>])
         /\ \A o : \A view \in {"observatory", "burstObservatory"} : WellFormed(ObservatoryTyped(t, view, o))
<1>1. WellFormed([t EXCEPT !.general = 1 - @])
  BY OthersWritten
<1>2. Reverse(t.outbounds) \in Seq(OutboundRow) /\ Reverse(t.rules) \in Seq(RuleRow)
  BY ListsTyped, ReverseTyped
<1>3. <<>> \in Seq(BalancerRow) /\ <<>> \in Seq(RuleRow)
  OBVIOUS
<1>4. WellFormed([t EXCEPT !.outbounds = Reverse(t.outbounds)]) /\ WellFormed([t EXCEPT !.rules = Reverse(t.rules)])
  BY <1>2, OutboundsWritten, RulesWritten
<1>5. WellFormed([[t EXCEPT !.balancers = <<>>] EXCEPT !.rules = <<>>])
  <2>1. WellFormed([t EXCEPT !.balancers = <<>>])
    BY <1>3, BalancersWritten
  <2> QED BY <1>3, <2>1, RulesWritten
<1>6. [t EXCEPT !.balancers = <<>>, !.rules = <<>>] = [[t EXCEPT !.balancers = <<>>] EXCEPT !.rules = <<>>]
  OBVIOUS
<1>7. \A o : \A view \in {"observatory", "burstObservatory"} : WellFormed(ObservatoryTyped(t, view, o))
  BY OthersWritten DEF ObservatoryTyped
<1> QED BY <1>1, <1>4, <1>5, <1>6, <1>7

(* The invariant of the page: whatever holds a template, a table's rows or   *)
(* the value of a dialog holds what the handlers above expect.               *)
TplShaped == WellFormed(tpl)
SrvShaped == "tpl" \in DOMAIN srv /\ WellFormed(srv.tpl)
SentShaped == "save" \in DOMAIN sent /\ (sent.save # Hole => WellFormed(sent.save.tpl))
TabsShaped ==
  /\ {"outbounds", "rules"} \subseteq DOMAIN tabs
  /\ tabs.outbounds \in Seq(OutboundRow) /\ tabs.rules \in Seq(RuleRow)
DlgShaped ==
  /\ dlg.at \in Nat
  /\ dlg.kind = "outbound" => dlg.value \in OutboundRow
  /\ dlg.kind = "rule" => dlg.value \in RuleRow
  /\ dlg.kind = "balancer" => dlg.value \in BalancerType
NordShaped == {"open", "server"} \subseteq DOMAIN nord /\ nord.server \in Text
SInv == TplShaped /\ SrvShaped /\ SentShaped /\ TabsShaped /\ DlgShaped /\ NordShaped

(* A rendering and a handler that writes the template.                       *)
LEMMA RedrawnShaped ==
  ASSUME TabsShaped, NEW t, WellFormed(t)
  PROVE  /\ {"outbounds", "rules"} \subseteq DOMAIN Redrawn(t)
         /\ Redrawn(t).outbounds \in Seq(OutboundRow) /\ Redrawn(t).rules \in Seq(RuleRow)
<1>1. Memoized(tabs.outbounds, t.outbounds) \in Seq(OutboundRow) /\ Memoized(tabs.rules, t.rules) \in Seq(RuleRow)
  BY ListsTyped DEF Memoized, TabsShaped
<1>2. /\ {"outbounds", "rules"} \subseteq DOMAIN Redrawn(t)
      /\ Redrawn(t).outbounds \in {tabs.outbounds, Memoized(tabs.outbounds, t.outbounds)}
      /\ Redrawn(t).rules \in {tabs.rules, Memoized(tabs.rules, t.rules)}
  BY DEF Redrawn, TabsShaped
<1> QED BY <1>1, <1>2 DEF TabsShaped
LEMMA TemplateSet ==
  ASSUME TabsShaped, NEW t, WellFormed(t), setTemplateSettings(t)
  PROVE  TplShaped' /\ TabsShaped'
BY RedrawnShaped DEF setTemplateSettings, TplShaped, TabsShaped
LEMMA Edited ==
  ASSUME SInv, NEW t, WellFormed(t), Edits(t), UNCHANGED dlg \/ dlg' = NoDialog
  PROVE  SInv'
<1>1. TplShaped' /\ TabsShaped'
  BY TemplateSet DEF SInv, Edits
<1>2. DlgShaped'
  BY DEF SInv, DlgShaped, NoDialog
<1>3. SrvShaped' /\ SentShaped' /\ NordShaped'
  BY DEF SInv, Edits, SrvShaped, SentShaped, NordShaped
<1> QED BY <1>1, <1>2, <1>3 DEF SInv
LEMMA EditorUntouched ==
  ASSUME SInv, UNCHANGED <<srv, tpl, sent, tabs, dlg, nord>>
  PROVE  SInv'
BY DEF SInv, TplShaped, SrvShaped, SentShaped, TabsShaped, DlgShaped, NordShaped
LEMMA NoTabsShaped == tabs' = NoTabs => TabsShaped'
BY DEF NoTabs, TabsShaped

(* Answers, pushes and refetches keep the shape: what they seed is stored by *)
(* the panel, and what the panel stores was the template on show.            *)
LEMMA ArrivesKeepsShape ==
  ASSUME SInv, TextIsTemplate, Arrives
  PROVE  SInv'
<1> USE DEF SInv
<1>1. CASE FetchAnswered
  <2>1. TplShaped' /\ TabsShaped'
    <3>1. CASE UNCHANGED <<editor, seed, tabs>>
      BY <3>1 DEF editor, TplShaped, TabsShaped
    <3>2. CASE Seed(Config)
      <4>1. WellFormed(Config.tpl)
        BY DEF Config, SrvShaped
      <4> QED BY <3>2, <4>1, TemplateSet DEF Seed
    <3> QED BY <1>1, <3>1, <3>2 DEF FetchAnswered
  <2> QED BY <1>1, <2>1 DEF FetchAnswered, SrvShaped, SentShaped, DlgShaped, NordShaped
<1>2. CASE FetchFailed
  <2>1. TabsShaped'
    BY <1>2, NoTabsShaped DEF FetchFailed
  <2>2. DlgShaped'
    BY <1>2 DEF FetchFailed, NoDialog, DlgShaped
  <2> QED BY <1>2, <2>1, <2>2 DEF FetchFailed, editor, TplShaped, SrvShaped, SentShaped, NordShaped
<1>3. CASE fetchAll
  BY <1>3, EditorUntouched DEF fetchAll, editor
<1>4. CASE Reload
  <2>1. TabsShaped' /\ TplShaped'
    BY <1>4, NoTabsShaped, DefaultWellFormed DEF Reload, TplShaped
  <2>2. DlgShaped' /\ SrvShaped'
    BY <1>4 DEF Reload, NoDialog, DlgShaped, SrvShaped
  <2>3. SentShaped'
    BY <1>4 DEF Reload, SentShaped
  <2>4. NordShaped'
    BY <1>4 DEF Reload, NoNord, NordShaped, Text
  <2> QED BY <2>1, <2>2, <2>3, <2>4
<1>5. CASE TrafficPushed
  <2>1. TabsShaped'
    BY <1>5, ListsTyped DEF TrafficPushed, TabsShaped, TplShaped
  <2> QED BY <1>5, <2>1 DEF TrafficPushed, editor, TplShaped, SrvShaped, SentShaped, DlgShaped, NordShaped
<1>6. ASSUME NEW t, WellFormed(t), OtherSaves(t) PROVE SInv'
  <2>1. SrvShaped'
    BY <1>6 DEF OtherSaves, SrvShaped
  <2> QED BY <1>6, <2>1 DEF OtherSaves, editor, TplShaped, SentShaped, TabsShaped, DlgShaped, NordShaped
<1>7. CASE OtherAddsInbound
  <2>1. SrvShaped'
    BY <1>7 DEF OtherAddsInbound, Pushed, SrvShaped
  <2> QED BY <1>7, <2>1 DEF OtherAddsInbound, editor, TplShaped, SentShaped, TabsShaped, DlgShaped, NordShaped
<1>8. CASE SaveStored
  <2>1. SrvShaped' /\ SentShaped'
    BY <1>8 DEF SaveStored, SrvShaped, SentShaped
  <2> QED BY <1>8, <2>1 DEF SaveStored, editor, TplShaped, TabsShaped, DlgShaped, NordShaped
<1>9. CASE SaveRefused \/ RestartAnswered
  <2>1. SentShaped'
    BY <1>9 DEF SaveRefused, RestartAnswered, SentShaped
  <2> QED BY <1>9, <2>1 DEF SaveRefused, RestartAnswered, editor, TplShaped, SrvShaped, TabsShaped, DlgShaped,
       NordShaped
<1>10. CASE ResetAnswered
  <2>1. SentShaped'
    BY <1>10 DEF ResetAnswered, SentShaped
  <2>2. TplShaped' /\ TabsShaped'
    <3>1. CASE UNCHANGED <<editor, tabs>>
      BY <3>1 DEF editor, TplShaped, TabsShaped
    <3>2. CASE setTemplateSettings(DefaultTemplate)
      BY <3>2, DefaultWellFormed, TemplateSet
    <3> QED BY <1>10, <3>1, <3>2 DEF ResetAnswered
  <2> QED BY <1>10, <2>1, <2>2 DEF ResetAnswered, SrvShaped, DlgShaped, NordShaped
<1>11. ASSUME NEW f \in test.flight, TestAnswered(f) \/ TestFailed(f) PROVE SInv'
  <2>1. TabsShaped'
    BY <1>11, ListsTyped DEF TestAnswered, TestFailed, Tested, TabsShaped, TplShaped
  <2> QED BY <1>11, <2>1 DEF TestAnswered, TestFailed, Tested, editor, TplShaped, SrvShaped, SentShaped,
       DlgShaped, NordShaped
<1>12. WellFormed([srv.tpl EXCEPT !.rules = Reverse(@)])
        /\ WellFormed([srv.tpl EXCEPT !.balancers = <<>>, !.rules = <<>>])
  BY TypedParts DEF SrvShaped
<1> HIDE DEF SInv
<1> QED BY <1>1, <1>2, <1>3, <1>4, <1>5, <1>6, <1>7, <1>8, <1>9, <1>10, <1>11, <1>12 DEF Arrives

(* Save posts the text, which is the template when it parses.                *)
LEMMA HeaderKeepsShape ==
  ASSUME SInv, TextIsTemplate, Header
  PROVE  SInv'
<1>1. CASE PollDirty \/ SetTestUrl
  BY <1>1, EditorUntouched DEF PollDirty, SetTestUrl, editor
<1>2. CASE onSaveAll
  <2>1. SentShaped'
    <3>1. CASE text.json
      <4>1. text.tpl = tpl
        BY <3>1 DEF TextIsTemplate
      <4>2. sent' = [sent EXCEPT !.save = [tpl |-> tpl, url |-> url]]
        BY <1>2, <3>1, <4>1 DEF onSaveAll
      <4> QED BY <4>2 DEF SInv, SentShaped, TplShaped
    <3>2. CASE ~text.json
      BY <1>2, <3>2 DEF onSaveAll, SInv, SentShaped
    <3> QED BY <3>1, <3>2
  <2> QED BY <1>2, <2>1 DEF onSaveAll, editor, SInv, TplShaped, SrvShaped, TabsShaped, DlgShaped, NordShaped
<1>3. CASE confirmRestart \/ resetToDefault
  <2>1. SentShaped'
    BY <1>3 DEF confirmRestart, resetToDefault, SInv, SentShaped
  <2> QED BY <1>3, <2>1 DEF confirmRestart, resetToDefault, editor, SInv, TplShaped, SrvShaped, TabsShaped,
       DlgShaped, NordShaped
<1> QED BY <1>1, <1>2, <1>3 DEF Header

(* The tabs that edit at once.                                               *)
LEMMA EditKeepsShape ==
  ASSUME SInv, Edit
  PROVE  SInv'
<1>0. WellFormed(tpl) /\ TabsShaped
  BY DEF SInv, TplShaped
<1>a. ASSUME NEW t, WellFormed(t), UNCHANGED dlg, Edits(t) PROVE SInv'
  BY <1>a, Edited
<1>1. ASSUME NEW tab, ShowTab(tab) PROVE SInv'
  <2>1. TabsShaped'
    BY <1>0, <1>1, ListsTyped DEF ShowTab, TabsShaped
  <2> QED BY <1>1, <2>1 DEF ShowTab, editor, SInv, TplShaped, SrvShaped, SentShaped, DlgShaped, NordShaped
<1>2. CASE Basics
  <2>1. PICK filled \in BOOLEAN :
          \/ \E prop \in Criteria : Edits(Blocked(tpl, prop, filled))
          \/ \E prop \in {"ip", "domain"} : Edits(Directed(tpl, prop, filled))
          \/ Edits(ByIPv4(tpl, filled)) \/ Edits(ByWarp(tpl, filled)) \/ Edits(ByNord(tpl, filled))
          \/ filled /\ (Edits(FreedomStrategySet(tpl)) \/ Edits(GeneralSet(tpl)))
    BY <1>2 DEF Basics
  <2>2. \E t : WellFormed(t) /\ Edits(t)
    <3>1. {"ip", "domain"} \subseteq Criteria
      BY DEF Criteria
    <3> QED BY <1>0, <2>1, <3>1, BasicsTab, Zenon
  <2> QED BY <1>2, <1>a, <2>2 DEF Basics
<1>3. CASE TypePart
  <2>1. \E t : WellFormed(t) /\ Edits(t)
    BY <1>0, <1>3, TypedParts DEF TypePart
  <2> QED BY <1>3, <1>a, <2>1 DEF TypePart
<1>4. CASE TypeObservatory
  <2>1. \E t : WellFormed(t) /\ Edits(t)
    BY <1>0, <1>4, TypedParts DEF TypeObservatory
  <2> QED BY <1>4, <1>a, <2>1 DEF TypeObservatory
<1>5. CASE MoveRows
  <2>1. \A i \in DOMAIN tpl.rules : i \in Nat /\ (i > 1 => i - 1 \in Nat)
    BY <1>0, ListsTyped
  <2>2. \A i \in DOMAIN tpl.outbounds : i \in Nat /\ (i > 1 => i - 1 \in Nat)
    BY <1>0, ListsTyped
  <2>3. \A i \in DOMAIN tpl.rules : i > 1 => WellFormed(RuleMoved(tpl, i - 1, i))
    <3>1. Hole \in RuleRow
      BY DEF RuleRow
    <3> QED BY <1>0, <2>1, <3>1, RulesTab
  <2>4. \A i \in DOMAIN tpl.outbounds :
           i > 1 => WellFormed(OutboundFirst(tpl, i)) /\ WellFormed(OutboundMoved(tpl, i - 1, i))
    <3>1. Hole \in OutboundRow
      BY DEF OutboundRow
    <3> QED BY <1>0, <2>2, <3>1, OutboundsTab
  <2>5. \E t : WellFormed(t) /\ Edits(t)
    BY <1>5, <2>3, <2>4 DEF MoveRows
  <2> QED BY <1>5, <1>a, <2>5 DEF MoveRows
<1>6. CASE DnsSettings
  <2>1. \E t : WellFormed(t) /\ Edits(t)
    BY <1>0, <1>6, DnsTab, Zenon DEF DnsSettings
  <2> QED BY <1>6, <1>a, <2>1 DEF DnsSettings
<1>7. ASSUME NEW x, TypeText(x), x.json => WellFormed(x.tpl) PROVE SInv'
  <2>1. TplShaped' /\ TabsShaped'
    <3>1. CASE x.json
      BY <1>0, <1>7, <3>1, RedrawnShaped DEF TypeText, setXraySetting, TplShaped, TabsShaped
    <3>2. CASE ~x.json
      BY <1>0, <1>7, <3>2 DEF TypeText, setXraySetting, TplShaped, TabsShaped
    <3> QED BY <3>1, <3>2
  <2> QED BY <1>7, <2>1 DEF TypeText, SInv, SrvShaped, SentShaped, DlgShaped, NordShaped
<1>8. ASSUME NEW x \in {Broken, [Pretty(tpl) EXCEPT !.layout = "typed"],
                        [json |-> TRUE, tpl |-> DefaultTemplate, layout |-> "typed"]}
      PROVE  x.json => WellFormed(x.tpl)
  BY <1>0, DefaultWellFormed DEF Broken, Pretty
<1>9. ASSUME NEW rows, EditHosts(rows) PROVE SInv'
  <2> DEFINE t == HostsSynced(tpl, rows)
  <2>1. WellFormed(t)
    BY <1>0, DnsTab
  <2>2. tpl' = t /\ tabs' = [Redrawn(t) EXCEPT !.hosts = rows]
    BY <1>9 DEF EditHosts
  <2> HIDE DEF t
  <2>3. TplShaped' /\ TabsShaped'
    BY <1>0, <2>1, <2>2, RedrawnShaped DEF TplShaped, TabsShaped
  <2> QED BY <1>9, <2>3 DEF EditHosts, SInv, SrvShaped, SentShaped, DlgShaped, NordShaped
<1>10. (\E x : TypeText(x) /\ (x.json
        => WellFormed(x.tpl))) \/ (\E tab : ShowTab(tab)) \/ (\E rows : EditHosts(rows))
        \/ Basics \/ TypePart \/ TypeObservatory \/ MoveRows \/ DnsSettings
  BY <1>8, Zenon DEF Edit
<1> QED BY <1>1, <1>2, <1>3, <1>4, <1>5, <1>6, <1>7, <1>9, <1>10

(* A dialog opens on a row that a table remembers, which may be a hole; a    *)
(* balancer's row is of the template on show, which can be drawn.            *)
LEMMA OpensKeepsShape ==
  ASSUME SInv, OpenDialog
  PROVE  SInv'
<1>0. /\ tpl.outbounds \in Seq(OutboundRow) /\ tpl.rules \in Seq(RuleRow) /\ tpl.balancers \in Seq(BalancerRow)
      /\ tabs.outbounds \in Seq(OutboundRow) /\ tabs.rules \in Seq(RuleRow)
  BY ListsTyped DEF SInv, TplShaped, TabsShaped
<1>1. ASSUME NEW kind, NEW i \in Nat, NEW value, NEW taken, Opens(Dialog(kind, i, value, taken)),
             kind = "outbound" => value \in OutboundRow, kind = "rule" => value \in RuleRow,
             kind = "balancer" => value \in BalancerType
      PROVE  SInv'
  <2>1. DlgShaped'
    BY <1>1 DEF Opens, Dialog, DlgShaped
  <2> QED BY <1>1, <2>1 DEF Opens, editor, SInv, TplShaped, SrvShaped, SentShaped, TabsShaped, NordShaped
<1>2. ASSUME NEW i \in Nat, OpenOutbound(i) PROVE SInv'
  <2>1. Outbound(NoTag, "vless") \in OutboundRow
    <3>1. NoTag \in Text /\ "vless" \in Text
      BY DEF Text
    <3> QED BY <3>1, OutboundTyped, Zenon DEF OutboundRow
  <2>2. ItemAt(tabs.outbounds, i) \in OutboundRow
    <3>1. Hole \in OutboundRow
      BY DEF OutboundRow
    <3> QED BY <1>0, <3>1 DEF ItemAt
  <2> QED BY <1>1, <1>2, <2>1, <2>2 DEF OpenOutbound
<1>3. ASSUME NEW i \in Nat, OpenRule(i) PROVE SInv'
  <2>1. Rule(NoTag, NoTag, {}) \in RuleRow
    BY DEF Rule, Text, RuleType, RuleRow
  <2>2. ItemAt(tabs.rules, i) \in RuleRow
    <3>1. Hole \in RuleRow
      BY DEF RuleRow
    <3> QED BY <1>0, <3>1 DEF ItemAt
  <2>3. \A r \in RuleRow : RuleShown(r) \in RuleRow
    <3>1. \A r \in RuleType : RuleShown(r) \in RuleType
      <4> TAKE r \in RuleType
      <4> DEFINE crit == {c \in r.crit : c[1] \in Criteria}
      <4>1. crit \in SUBSET (Text \X BOOLEAN)
        BY DEF RuleType
      <4>2. RuleShown(r) = [r EXCEPT !.crit = crit]
        BY DEF RuleShown
      <4> HIDE DEF crit
      <4> QED BY <4>1, <4>2 DEF RuleType
    <3>2. RuleShown(Hole) = Hole
      BY DEF RuleShown, Hole
    <3> QED BY <3>1, <3>2 DEF RuleRow
  <2>4. RuleShown(ItemAt(tabs.rules, i)) \in RuleRow
    BY <2>2, <2>3
  <2> QED BY <1>1, <1>3, <2>1, <2>4 DEF OpenRule
<1>4. ASSUME NEW i \in 0..Len(tpl.balancers), OpenBalancer(i) PROVE SInv'
  <2> DEFINE value == IF i = 0 THEN [tag |-> NoTag, strategy |-> "random", selector |-> {}, settings |-> FALSE]
                      ELSE tpl.balancers[i]
  <2>1. [tag |-> NoTag, strategy |-> "random", selector |-> {}, settings |-> FALSE] \in BalancerType
    <3>1. NoTag \in Text /\ "random" \in Text /\ FALSE \in BOOLEAN
      BY DEF Text
    <3>2. \A a, s \in Text, b \in BOOLEAN : [tag |-> a, strategy |-> s, selector |-> {}, settings |-> b]
            \in BalancerType
      BY DEF BalancerType
    <3> QED BY <3>1, <3>2, Zenon
  <2>2. i # 0 => tpl.balancers[i] \in BalancerType
    <3>1. Len(tpl.balancers) \in Nat
      BY <1>0
    <3>2. i # 0 => i \in DOMAIN tpl.balancers /\ tpl.balancers[i] \in BalancerRow
      BY <1>0, <3>1
    <3>3. \A k \in DOMAIN tpl.balancers : tpl.balancers[k] # Hole
      BY <1>4 DEF OpenBalancer, Here, Drawable, Unreadable
    <3> QED BY <3>2, <3>3 DEF BalancerRow
  <2>3. value \in BalancerType
    BY <2>1, <2>2, Zenon
  <2>4. Opens(Dialog("balancer", i, value, {}))
    BY <1>4 DEF OpenBalancer
  <2>5. i \in Nat
    BY <1>0
  <2> HIDE DEF value
  <2> QED BY <1>1, <2>3, <2>4, <2>5
<1>5. ASSUME NEW i \in Nat, OpenServer(i) \/ StartDrag(i) PROVE SInv'
  BY <1>1, <1>5 DEF OpenServer, StartDrag
<1>6. CASE OpenConfirm
  <2>1. DOMAIN tpl.outbounds \subseteq Nat /\ DOMAIN tpl.rules \subseteq Nat
          /\ DOMAIN tpl.balancers \subseteq Nat /\ 0 \in Nat
    BY <1>0
  <2>2. \E kind \in {"deleteOutbound", "deleteRule", "deleteBalancer", "clear", "presets"}, i \in Nat :
           Opens(Dialog(kind, i, Hole, {}))
    BY <1>6, <2>1 DEF OpenConfirm
  <2>3. PICK kind \in {"deleteOutbound", "deleteRule", "deleteBalancer", "clear", "presets"} :
           \E i \in Nat : Opens(Dialog(kind, i, Hole, {}))
    BY <2>2
  <2>4. kind # "outbound" /\ kind # "rule" /\ kind # "balancer"
    BY <2>3
  <2> QED BY <1>1, <2>3, <2>4
<1>7. DOMAIN tpl.rules \subseteq Nat
  BY <1>0
<1>8. 0..Len(tpl.outbounds) \subseteq Nat /\ 0..Len(tpl.rules) \subseteq Nat
        /\ 0..Len(tpl.dns.servers) \subseteq Nat
  OBVIOUS
<1> QED BY <1>2, <1>3, <1>4, <1>5, <1>6, <1>7, <1>8, Zenon DEF OpenDialog

(* What the dialogs send when they are confirmed.                            *)
LEMMA RuleTags ==
  ASSUME SInv, ~Unreadable(tpl), NEW r \in RuleRow
  PROVE  /\ \A g \in TagChoices(tpl) : RuleSubmitted([r EXCEPT !.outboundTag = g]) \in RuleRow
         /\ \A g \in BalancerChoices(tpl) : RuleSubmitted([r EXCEPT !.balancerTag = g]) \in RuleRow
<1>0. tpl.outbounds \in Seq(OutboundRow) /\ tpl.balancers \in Seq(BalancerRow) /\ NoTag \in Text
  BY ListsTyped DEF SInv, TplShaped, Text
<1>1. TagChoices(tpl) \subseteq Text
  <2>1. \A i \in DOMAIN tpl.outbounds : tpl.outbounds[i] # Hole /\ tpl.outbounds[i] \in OutboundRow
    BY <1>0 DEF Unreadable
  <2>2. \A i \in DOMAIN tpl.outbounds : tpl.outbounds[i].tag \in Text
    BY <2>1 DEF OutboundRow, OutboundType
  <2> QED BY <1>0, <2>2 DEF TagChoices
<1>2. BalancerChoices(tpl) \subseteq Text
  <2>1. \A i \in DOMAIN tpl.balancers : tpl.balancers[i] # Hole /\ tpl.balancers[i] \in BalancerRow
    BY <1>0 DEF Unreadable
  <2>2. \A i \in DOMAIN tpl.balancers : tpl.balancers[i].tag \in Text
    BY <2>1 DEF BalancerRow, BalancerType
  <2> QED BY <1>0, <2>2 DEF BalancerChoices
<1>3. \A q \in RuleRow : RuleSubmitted(q) \in RuleRow
  <2>1. \A q \in RuleType : RuleSubmitted(q) \in RuleType
    <3> TAKE q \in RuleType
    <3> DEFINE crit == {c \in q.crit : c[2]}
    <3>1. crit \in SUBSET (Text \X BOOLEAN)
      BY DEF RuleType
    <3>2. RuleSubmitted(q) = [q EXCEPT !.crit = crit]
      BY DEF RuleSubmitted
    <3> HIDE DEF crit
    <3> QED BY <3>1, <3>2 DEF RuleType
  <2>2. RuleSubmitted(Hole) = Hole
    BY DEF RuleSubmitted, Hole
  <2> QED BY <2>1, <2>2 DEF RuleRow
<1>4. \A g \in Text : [r EXCEPT !.outboundTag = g] \in RuleRow /\ [r EXCEPT !.balancerTag = g] \in RuleRow
  <2>1. \A g : [Hole EXCEPT !.outboundTag = g] = Hole /\ [Hole EXCEPT !.balancerTag = g] = Hole
    BY DEF Hole
  <2>2. CASE r \in RuleType
    BY <2>2 DEF RuleType, RuleRow
  <2>3. CASE r = Hole
    BY <2>1, <2>3 DEF RuleRow
  <2> QED BY <2>2, <2>3 DEF RuleRow
<1> QED BY <1>1, <1>2, <1>3, <1>4

LEMMA BalancerSubmittedTyped ==
  ASSUME NEW b \in BalancerType
  PROVE  BalancerSubmitted(b) \in BalancerType
<1> DEFINE kept == b.settings /\ b.strategy = "leastLoad"
<1>1. kept \in BOOLEAN
  BY DEF BalancerType
<1>2. BalancerSubmitted(b) = [b EXCEPT !.settings = kept]
  BY Zenon DEF BalancerSubmitted
<1> HIDE DEF kept
<1> QED BY <1>1, <1>2 DEF BalancerType

BalancerEdits(v) == {[v EXCEPT !.tag = "renamed", !.selector = @ \cup {"direct"}],
                     [v EXCEPT !.strategy = "leastPing", !.settings = TRUE]}
LEMMA BalancerEditsTyped ==
  ASSUME NEW v \in BalancerType
  PROVE  BalancerEdits(v) \subseteq BalancerType
<1>0. "direct" \in Text /\ "leastPing" \in Text /\ "renamed" \in Text /\ v.selector \subseteq Text
  BY DEF Text, BalancerType
<1>1. v.selector \cup {"direct"} \in SUBSET Text
  BY <1>0
<1>2. \A s \in SUBSET Text, g \in Text : [v EXCEPT !.tag = g, !.selector = s] \in BalancerType
  BY DEF BalancerType
<1>3. \A g \in Text, y \in BOOLEAN : [v EXCEPT !.strategy = g, !.settings = y] \in BalancerType
  BY DEF BalancerType
<1>4. TRUE \in BOOLEAN
  OBVIOUS
<1>5. [v EXCEPT !.tag = "renamed", !.selector = @ \cup {"direct"}] \in BalancerType
  BY <1>0, <1>1, <1>2, Zenon
<1>6. [v EXCEPT !.strategy = "leastPing", !.settings = TRUE] \in BalancerType
  BY <1>0, <1>3, <1>4, Zenon
<1> QED BY <1>5, <1>6, Zenon DEF BalancerEdits

(* Confirmed, a dialog writes to the template as it is by then.              *)
LEMMA ConfirmKeepsShape ==
  ASSUME SInv, Confirm
  PROVE  SInv'
<1>0. WellFormed(tpl) /\ dlg.at \in Nat
  BY DEF SInv, TplShaped, DlgShaped
<1>a. ASSUME NEW t, WellFormed(t), Answers(t) PROVE SInv'
  BY <1>a, Edited DEF Answers
<1>1. CASE dlg.kind = "outbound"
        /\ \E o \in {[dlg.value EXCEPT !.edition = 1 - @], [dlg.value EXCEPT !.tag = "new"]} :
             ConfirmOutbound(o)
  <2>1. dlg.value \in OutboundRow
    BY <1>1 DEF SInv, DlgShaped
  <2>2. [dlg.value EXCEPT !.edition = 1 - @] \in OutboundRow /\ [dlg.value EXCEPT !.tag = "new"] \in OutboundRow
    <3>0. "new" \in Text
      BY DEF Text
    <3>1. [Hole EXCEPT !.edition = 1 - @] = Hole /\ [Hole EXCEPT !.tag = "new"] = Hole
      BY DEF Hole
    <3>2. \A o \in OutboundType : [o EXCEPT !.edition = 1 - @] \in OutboundType
      BY DEF OutboundType
    <3>3. \A o \in OutboundType : [o EXCEPT !.tag = "new"] \in OutboundType
      BY <3>0 DEF OutboundType
    <3> QED BY <2>1, <3>1, <3>2, <3>3 DEF OutboundRow
  <2>3. \A o \in OutboundRow : WellFormed(OutboundConfirmed(tpl, dlg.at, o))
    BY <1>0, OutboundsTab
  <2> QED BY <1>1, <1>a, <2>2, <2>3 DEF ConfirmOutbound
<1>2. CASE dlg.kind = "rule" /\ \E r \in {[dlg.value EXCEPT !.outboundTag = g] : g \in TagChoices(tpl)}
                                         \cup {[dlg.value EXCEPT !.balancerTag = g] : g \in BalancerChoices(tpl)} :
             ConfirmRule(r)
  <2>1. dlg.value \in RuleRow
    BY <1>2 DEF SInv, DlgShaped
  <2>2. PICK r \in {[dlg.value EXCEPT !.outboundTag = g] : g \in TagChoices(tpl)}
                     \cup {[dlg.value EXCEPT !.balancerTag = g] : g \in BalancerChoices(tpl)} :
             ConfirmRule(r)
    BY <1>2
  <2>3. Answers(RuleConfirmed(tpl, dlg.at, RuleSubmitted(r))) /\ ~Unreadable(tpl)
    BY <2>2 DEF ConfirmRule, Answers
  <2>4. RuleSubmitted(r) \in RuleRow
    BY <2>1, <2>2, <2>3, RuleTags
  <2>5. WellFormed(RuleConfirmed(tpl, dlg.at, RuleSubmitted(r)))
    BY <1>0, <2>4, RulesTab
  <2> QED BY <1>a, <2>3, <2>5
<1>3. CASE dlg.kind = "balancer" /\ \E b \in BalancerEdits(dlg.value) : ConfirmBalancer(b)
  <2>1. dlg.value \in BalancerType
    BY <1>3 DEF SInv, DlgShaped
  <2>2. PICK b \in BalancerEdits(dlg.value) : ConfirmBalancer(b)
    BY <1>3
  <2>3. BalancerSubmitted(b) \in BalancerType
    BY <2>1, <2>2, BalancerEditsTyped, BalancerSubmittedTyped
  <2>4. WellFormed(BalancerConfirmed(tpl, dlg.at, BalancerSubmitted(b)))
    BY <1>0, <2>3, BalancersTab
  <2> QED BY <1>a, <2>2, <2>4 DEF ConfirmBalancer
<1>4. ASSUME NEW j \in 1..2, Drop(j) PROVE SInv'
  <2>1. j \in Nat /\ j > 0 /\ Hole \in RuleRow
    BY DEF RuleRow
  <2>2. WellFormed(RuleDragged(tpl, dlg.at, j))
    BY <1>0, <2>1, RulesTab
  <2> QED BY <1>4, <1>a, <2>2 DEF Drop
<1>5. ASSUME NEW s, ConfirmServer(s) PROVE SInv'
  <2>1. WellFormed(ServerConfirmed(tpl, dlg.at, ServerSubmitted(s)))
    BY <1>0, DnsTab
  <2> QED BY <1>5, <1>a, <2>1 DEF ConfirmServer
<1>6. CASE ConfirmDelete
  <2>1. Hole \in OutboundRow /\ Hole \in RuleRow
    BY DEF OutboundRow, RuleRow
  <2>2. WellFormed(OutboundDeleted(tpl, dlg.at))
    BY <1>0, <2>1, OutboundsTab
  <2>3. WellFormed(RuleDeleted(tpl, dlg.at))
    BY <1>0, <2>1, RulesTab
  <2>4. WellFormed(BalancerDeleted(tpl, dlg.at))
    <3>1. Spliced(tpl.balancers, dlg.at) \in Seq(BalancerRow)
      BY <1>0, ListsTyped, SplicedTyped
    <3> QED BY <1>0, <3>1, BalancersWritten, Synced DEF BalancerDeleted
  <2>5. WellFormed(ServersCleared(tpl)) /\ WellFormed(PresetInstalled(tpl, <<Server("preset")>>))
    BY <1>0, DnsTab, Zenon
  <2> QED BY <1>6, <1>a, <2>2, <2>3, <2>4, <2>5 DEF ConfirmDelete
<1> QED BY <1>1, <1>2, <1>3, <1>4, <1>5, <1>6, Zenon DEF Confirm, BalancerEdits

(* Tests of the outbounds, NordVPN and WARP.                                 *)
LEMMA TestRowsKeepsShape ==
  ASSUME SInv, TestRows
  PROVE  SInv'
<1>1. ASSUME NEW u, Tested(u) PROVE SInv'
  <2>1. TabsShaped'
    BY <1>1, ListsTyped DEF Tested, SInv, TabsShaped, TplShaped
  <2> QED BY <1>1, <2>1 DEF Tested, editor, SInv, TplShaped, SrvShaped, SentShaped, DlgShaped, NordShaped
<1>2. \E u : Tested(u)
  BY Zenon DEF TestRows, testAllOutbounds, TestOne
<1> QED BY <1>1, <1>2

LEMMA NordKeepsShape ==
  ASSUME SInv, OpenNord \/ CloseNord \/ NordLogin \/ NordLogout \/ NordFailed \/ NordAnswered \/ NordOutbound
               \/ \E c \in {1, 2} : NordCountry(c)
  PROVE  SInv'
<1>0. WellFormed(tpl) /\ TabsShaped /\ nord.server \in Text /\ NoTag \in Text
        /\ {"open", "server"} \subseteq DOMAIN nord
  BY DEF SInv, TplShaped, NordShaped, Text
<1>1. ASSUME NEW n, NordIs(n), n.server \in Text, {"open", "server"} \subseteq DOMAIN n, UNCHANGED <<editor,
        dlg, tabs>>
      PROVE  SInv'
  <2>1. NordShaped'
    BY <1>1 DEF NordIs, NordShaped
  <2> QED BY <1>1, <2>1 DEF NordIs, editor, SInv, TplShaped, SrvShaped, SentShaped, TabsShaped, DlgShaped
<1>2. ASSUME NEW n, NEW what, NordAsks(n, what), n.server \in Text, {"open", "server"} \subseteq DOMAIN n
      PROVE  SInv'
  <2> DEFINE m == [n EXCEPT !.loading = TRUE, !.asked = @ \cup {what}]
  <2>1. m.server \in Text /\ {"open", "server"} \subseteq DOMAIN m
    BY <1>2
  <2>2. NordIs(m) /\ UNCHANGED <<editor, dlg, tabs>>
    BY <1>2 DEF NordAsks
  <2> HIDE DEF m
  <2> QED BY <1>1, <2>1, <2>2
<1>3. ASSUME NEW what
      PROVE  Landed(what).server = nord.server /\ DOMAIN Landed(what) = DOMAIN nord /\ Landed(what).open = nord.open
  BY <1>0 DEF Landed
<1>4. CASE OpenNord
  <2> DEFINE n == [nord EXCEPT !.open = TRUE]
  <2>1. n.server \in Text /\ {"open", "server"} \subseteq DOMAIN n
    BY <1>0
  <2>2. NordAsks(n, <<"data", 0>>)
    BY <1>4 DEF OpenNord
  <2> HIDE DEF n
  <2> QED BY <1>2, <2>1, <2>2
<1>5. CASE CloseNord
  <2> DEFINE n == [nord EXCEPT !.open = FALSE]
  <2>1. n.server \in Text /\ {"open", "server"} \subseteq DOMAIN n
    BY <1>0
  <2>2. NordIs(n) /\ UNCHANGED <<editor, dlg, tabs>>
    BY <1>5 DEF CloseNord
  <2> HIDE DEF n
  <2> QED BY <1>1, <2>1, <2>2
<1>6. CASE NordLogin \/ NordLogout
  BY <1>0, <1>2, <1>6 DEF NordLogin, NordLogout
<1>7. CASE NordFailed
  BY <1>0, <1>1, <1>3, <1>7 DEF NordFailed
<1>8. ASSUME NEW c, NordCountry(c) PROVE SInv'
  <2> DEFINE n == [nord EXCEPT !.country = c, !.server = NoTag]
  <2>1. n.server \in Text /\ {"open", "server"} \subseteq DOMAIN n
    BY <1>0
  <2>2. NordAsks(n, <<"servers", c>>)
    BY <1>8 DEF NordCountry
  <2> HIDE DEF n
  <2> QED BY <1>2, <2>1, <2>2
<1>9. CASE NordAnswered
  <2>1. NordShaped'
    <3>1. PICK what \in nord.asked :
            nord' \in {[Landed(what) EXCEPT !.account = srv.nord], [Landed(what) EXCEPT !.account = TRUE],
                       [Landed(what) EXCEPT !.server = ServersOf(what[2])],
                       [Landed(what) EXCEPT !.account = FALSE, !.country = 0, !.server = NoTag]}
      BY <1>9 DEF NordAnswered
    <3>2. \A c : ServersOf(c) \in Text
      BY DEF ServersOf, Text
    <3>3. Landed(what).server \in Text /\ {"open", "server"} \subseteq DOMAIN Landed(what)
      BY <1>0, <1>3
    <3> DEFINE n == Landed(what)
    <3>4. n.server \in Text /\ {"open", "server"} \subseteq DOMAIN n
      BY <3>3
    <3> HIDE DEF n
    <3> QED BY <1>0, <3>1, <3>2, <3>4 DEF NordShaped, n
  <2>2. SrvShaped'
    <3>1. srv' = srv \/ srv' = [srv EXCEPT !.nord = TRUE] \/ srv' = [srv EXCEPT !.nord = FALSE]
      BY <1>9 DEF NordAnswered
    <3> QED BY <3>1 DEF SInv, SrvShaped
  <2>3. TplShaped' /\ TabsShaped'
    <3>1. UNCHANGED <<editor, tabs>> \/ \E i : setTemplateSettings(NordRemoved(tpl, i))
      BY <1>9, Zenon DEF NordAnswered
    <3>2. CASE UNCHANGED <<editor, tabs>>
      BY <1>0, <3>2 DEF editor, TplShaped, TabsShaped
    <3>3. ASSUME NEW i, setTemplateSettings(NordRemoved(tpl, i)) PROVE TplShaped' /\ TabsShaped'
      BY <1>0, <3>3, RemovedTyped, TemplateSet
    <3> QED BY <3>1, <3>2, <3>3
  <2> QED BY <1>9, <2>1, <2>2, <2>3 DEF NordAnswered, SInv, SentShaped, DlgShaped
<1>10. CASE NordOutbound
  <2> DEFINE i == NordIndex(tpl)
             o == Outbound(nord.server, "wireguard")
             t == IF i = 0 THEN OutboundAdded(tpl, o) ELSE OutboundReset(tpl, i, o, tpl.outbounds[i].tag)
             n == [nord EXCEPT !.open = FALSE]
  <2>1. o \in OutboundType
    <3>1. "wireguard" \in Text
      BY DEF Text
    <3> QED BY <1>0, <3>1, OutboundTyped
  <2>2. i \in Nat
    <3>1. NordOutbounds(tpl) # {} => First(NordOutbounds(tpl)) \in 1..Len(tpl.outbounds)
      BY <1>0, ListsTyped, FirstOf DEF NordOutbounds
    <3> QED BY <3>1 DEF NordIndex
  <2>3. WellFormed(t)
    <3> HIDE DEF i, o
    <3>1. WellFormed(OutboundAdded(tpl, o))
      <4>1. o \in OutboundRow
        BY <2>1 DEF OutboundRow
      <4> QED BY <1>0, <2>2, <4>1, OutboundsTab
    <3>2. WellFormed(OutboundReset(tpl, i, o, tpl.outbounds[i].tag))
      BY <1>0, <2>1, <2>2, OutboundResetTyped
    <3> QED BY <3>1, <3>2
  <2>4. setTemplateSettings(t) /\ NordIs(n) /\ UNCHANGED dlg
    BY <1>10 DEF NordOutbound
  <2>5. n.server \in Text /\ {"open", "server"} \subseteq DOMAIN n
    BY <1>0
  <2> HIDE DEF t, n
  <2>6. TplShaped' /\ TabsShaped'
    BY <1>0, <2>3, <2>4, TemplateSet
  <2> QED BY <2>4, <2>5, <2>6 DEF NordIs, SInv, SrvShaped, SentShaped, DlgShaped, NordShaped
<1> QED BY <1>4, <1>5, <1>6, <1>7, <1>8, <1>9, <1>10

LEMMA WarpKeepsShape ==
  ASSUME SInv, OpenWarp \/ CloseWarp \/ WarpButton \/ WarpFailed \/ WarpAnswered \/ WarpOutbound
  PROVE  SInv'
<1>0. WellFormed(tpl) /\ TabsShaped
  BY DEF SInv, TplShaped
<1>1. ASSUME NEW w, WarpIs(w), UNCHANGED <<srv, editor, tabs>> PROVE SInv'
  BY <1>1 DEF WarpIs, editor, SInv, TplShaped, SrvShaped, SentShaped, TabsShaped, DlgShaped, NordShaped
<1>2. ASSUME NEW w, NEW t, WarpIs(w), WellFormed(t), setTemplateSettings(t),
             srv' = srv \/ srv' = [srv EXCEPT !.warp = FALSE]
      PROVE  SInv'
  <2>1. TplShaped' /\ TabsShaped'
    BY <1>0, <1>2, TemplateSet
  <2>2. SrvShaped'
    BY <1>2 DEF SInv, SrvShaped
  <2> QED BY <1>2, <2>1, <2>2 DEF WarpIs, SInv, SentShaped, DlgShaped, NordShaped
<1>3. ASSUME NEW w, WarpIs(w), srv' = [srv EXCEPT !.warp = TRUE], UNCHANGED <<editor, tabs>> PROVE SInv'
  <2>1. SrvShaped'
    BY <1>3 DEF SInv, SrvShaped
  <2> QED BY <1>3, <2>1 DEF WarpIs, editor, SInv, TplShaped, SentShaped, TabsShaped, DlgShaped, NordShaped
<1>4. CASE OpenWarp \/ CloseWarp \/ WarpButton \/ WarpFailed
  <2>1. \E w : WarpIs(w) /\ UNCHANGED <<srv, editor, tabs>>
    BY <1>4, Zenon DEF OpenWarp, CloseWarp, WarpButton, WarpFailed, WarpAsks
  <2> QED BY <1>1, <2>1
<1>5. CASE WarpAnswered
  <2>1. \/ \E w : WarpIs(w) /\ UNCHANGED <<srv, editor, tabs>>
        \/ \E w : WarpIs(w) /\ srv' = [srv EXCEPT !.warp = TRUE] /\ UNCHANGED <<editor, tabs>>
        \/ \E w : WarpIs(w) /\ srv' = [srv EXCEPT !.warp = FALSE] /\ setTemplateSettings(WarpRemoved(tpl))
    BY <1>5, Zenon DEF WarpAnswered
  <2> QED BY <1>0, <1>1, <1>2, <1>3, <2>1, RemovedTyped
<1>6. CASE WarpOutbound
  <2> DEFINE i == WarpIndex(tpl)
             o == Outbound("warp", "wireguard")
             t == IF i = 0 THEN OutboundAdded(tpl, o) ELSE OutboundReset(tpl, i, o, NoTag)
  <2>1. o \in OutboundType
    <3>1. "wireguard" \in Text /\ "warp" \in Text
      BY DEF Text
    <3> QED BY <3>1, OutboundTyped
  <2>2. i \in Nat
    <3>1. Tagged(tpl.outbounds, "warp") # {} => First(Tagged(tpl.outbounds, "warp")) \in 1..Len(tpl.outbounds)
      BY <1>0, ListsTyped, FirstOf DEF Tagged
    <3> QED BY <3>1 DEF WarpIndex
  <2>3. WellFormed(t)
    <3> HIDE DEF i, o
    <3>1. WellFormed(OutboundAdded(tpl, o))
      <4>1. o \in OutboundRow
        BY <2>1 DEF OutboundRow
      <4> QED BY <1>0, <2>2, <4>1, OutboundsTab
    <3>2. WellFormed(OutboundReset(tpl, i, o, NoTag))
      BY <1>0, <2>1, <2>2, OutboundResetTyped
    <3> QED BY <3>1, <3>2
  <2>4. setTemplateSettings(t) /\ WarpIs([warp EXCEPT !.open = FALSE]) /\ srv' = srv
    BY <1>6 DEF WarpOutbound
  <2> HIDE DEF t
  <2> QED BY <1>2, <2>3, <2>4
<1> QED BY <1>4, <1>5, <1>6

(* The stored template, the one on show, the one on its way to the panel, the *)
(* rows the tables remember and the values of the dialogs stay well-formed,   *)
(* holes included, for any stored template that is: no handler builds a rule, *)
(* an outbound or a balancer without the tags the others look up.             *)
THEOREM PageIsShaped == Spec => []SInv
<1>1. Init => SInv /\ TextIsTemplate
  <2> SUFFICES ASSUME Init PROVE SInv /\ TextIsTemplate
    OBVIOUS
  <2>1. TplShaped
    BY DefaultWellFormed DEF Init, TplShaped
  <2>2. SrvShaped
    BY StoredAssumption DEF Init, SrvShaped
  <2>3. SentShaped /\ TabsShaped
    BY DEF Init, SentShaped, TabsShaped, NoTabs
  <2>4. DlgShaped
    BY DEF Init, DlgShaped, NoDialog
  <2>5. NordShaped
    BY DEF Init, NordShaped, NoNord, Text
  <2>6. TextIsTemplate
    BY DEF Init, Broken, TextIsTemplate
  <2> QED BY <2>1, <2>2, <2>3, <2>4, <2>5, <2>6 DEF SInv
<1>2. SInv /\ TextIsTemplate /\ [Next]_vars => SInv'
  <2> SUFFICES ASSUME SInv, TextIsTemplate, [Next]_vars PROVE SInv'
    OBVIOUS
  <2>1. CASE Arrives \/ Header
    BY <2>1, ArrivesKeepsShape, HeaderKeepsShape
  <2>2. CASE Edit
    BY <2>2, EditKeepsShape
  <2>3. CASE OpenDialog \/ Confirm
    BY <2>3, OpensKeepsShape, ConfirmKeepsShape
  <2>4. CASE CloseDialog
    <3>1. DlgShaped'
      BY <2>4 DEF CloseDialog, NoDialog, DlgShaped
    <3> QED BY <2>4, <3>1 DEF CloseDialog, editor, SInv, TplShaped, SrvShaped, SentShaped, TabsShaped, NordShaped
  <2>5. CASE TestRows
    BY <2>5, TestRowsKeepsShape
  <2>6. CASE Providers
    BY <2>6, NordKeepsShape, WarpKeepsShape DEF Providers
  <2>7. CASE UNCHANGED vars
    BY <2>7, EditorUntouched DEF vars
  <2> QED BY <2>1, <2>2, <2>3, <2>4, <2>5, <2>6, <2>7 DEF Next
<1> QED BY <1>1, <1>2, TextFollowsTemplate, PTL DEF Spec

---------------------------------------------------------------------------
(* What a change of the template strands: only a tag that a rule kept and    *)
(* that the lists no longer have.                                            *)
LEMMA StrandedSplit ==
  ASSUME NEW t, NEW u,
         \A k \in DOMAIN u.rules :
            u.rules[k] # Hole =>
              /\ k \in DOMAIN t.rules /\ t.rules[k] # Hole
              /\ Tagged(u.balancers, u.rules[k].balancerTag) = {} /\ u.rules[k].balancerTag # NoTag
                   => /\ u.rules[k].balancerTag = t.rules[k].balancerTag
                      /\ Tagged(t.balancers, t.rules[k].balancerTag) = {}
              /\ Tagged(u.outbounds, u.rules[k].outboundTag) = {} /\ u.rules[k].outboundTag # NoTag
                   => /\ u.rules[k].outboundTag = t.rules[k].outboundTag
                      /\ Tagged(t.outbounds, t.rules[k].outboundTag) = {}
  PROVE  Stranded(u) \subseteq Stranded(t) \cup {NoTag}
<1> SUFFICES ASSUME NEW g \in Stranded(u), g # NoTag PROVE g \in Stranded(t)
  OBVIOUS
<1>1. CASE \E r \in Readable(u.rules) : g = r.balancerTag /\ Tagged(u.balancers, g) = {}
  <2>1. PICK k \in DOMAIN u.rules : u.rules[k] # Hole /\ g = u.rules[k].balancerTag /\ Tagged(u.balancers, g) = {}
    BY <1>1 DEF Readable
  <2>2. t.rules[k] \in Readable(t.rules) /\ g = t.rules[k].balancerTag /\ Tagged(t.balancers, g) = {}
    BY <2>1 DEF Readable
  <2> QED BY <2>2 DEF Stranded
<1>2. CASE \E r \in Readable(u.rules) : g = r.outboundTag /\ Tagged(u.outbounds, g) = {}
  <2>1. PICK k \in DOMAIN u.rules : u.rules[k] # Hole /\ g = u.rules[k].outboundTag /\ Tagged(u.outbounds, g) = {}
    BY <1>2 DEF Readable
  <2>2. t.rules[k] \in Readable(t.rules) /\ g = t.rules[k].outboundTag /\ Tagged(t.outbounds, g) = {}
    BY <2>1 DEF Readable
  <2> QED BY <2>2 DEF Stranded
<1> QED BY <1>1, <1>2 DEF Stranded

(* The tags of a list that has a row assigned or appended.                   *)
LEMMA PutAtTags ==
  ASSUME NEW S, NEW list \in Seq(S), NEW i \in Nat \ {0}, NEW x, x # Hole, NEW g
  PROVE  /\ i \in Tagged(PutAt(list, i, x), x.tag)
         /\ \A k \in Tagged(list, g) : k # i => k \in Tagged(PutAt(list, i, x), g)
<1>1. DOMAIN list = 1..Len(list) /\ Len(list) \in Nat
  OBVIOUS
<1>2. /\ DOMAIN PutAt(list, i, x) = 1..(IF i > Len(list) THEN i ELSE Len(list))
      /\ \A k \in DOMAIN list : k \in DOMAIN PutAt(list, i, x) /\ (k # i => PutAt(list, i, x)[k] = list[k])
      /\ i \in DOMAIN PutAt(list, i, x) /\ PutAt(list, i, x)[i] = x
  BY <1>1 DEF PutAt
<1> QED BY <1>2 DEF Tagged
LEMMA AppendTags ==
  ASSUME NEW S, NEW list \in Seq(S), NEW x \in S, x # Hole, NEW g
  PROVE  Tagged(list, g) \subseteq Tagged(Append(list, x), g)
<1>1. \A k \in DOMAIN list : k \in DOMAIN Append(list, x) /\ Append(list, x)[k] = list[k]
  OBVIOUS
<1> QED BY <1>1 DEF Tagged

(* A balancer that is confirmed: its rules go from the tag that stands at    *)
(* its index by then to the new one; a hole or nothing there renames none.   *)
LEMMA BalancerRenamed ==
  ASSUME NEW t, WellFormed(t), NEW i \in Nat, NEW b \in BalancerType
  PROVE  Stranded(BalancerConfirmed(t, i, b)) \subseteq Stranded(t) \cup {NoTag}
<1> DEFINE u == BalancerConfirmed(t, i, b)
<1>0. /\ t.rules \in Seq(RuleRow) /\ t.balancers \in Seq(BalancerRow) /\ b \in BalancerRow
      /\ {"outbounds", "rules", "balancers"} \subseteq DOMAIN t
  BY ListsTyped DEF BalancerRow, WellFormed, Fields, DefaultTemplate
<1>1. b # Hole
  BY DEF BalancerType, Hole
<1>2. CASE i = 0
  <2>1. u.outbounds = t.outbounds /\ u.rules = t.rules /\ u.balancers = Append(t.balancers, b)
    BY <1>0, <1>2 DEF BalancerConfirmed, syncObservatories
  <2> HIDE DEF u
  <2>2. \A g : Tagged(t.balancers, g) \subseteq Tagged(u.balancers, g)
    BY <1>0, <1>1, <2>1, AppendTags
  <2>3. \A k \in DOMAIN u.rules : Tagged(u.balancers, u.rules[k].balancerTag) = {}
          => Tagged(t.balancers, t.rules[k].balancerTag) = {}
    BY <2>1, <2>2
  <2>4. Stranded(u) \subseteq Stranded(t) \cup {NoTag}
    BY <2>1, <2>3, StrandedSplit
  <2> QED BY <2>4 DEF u
<1>3. CASE i # 0
  <2>1. /\ u.outbounds = t.outbounds /\ u.balancers = PutAt(t.balancers, i, b)
        /\ u.rules = IF OldTag(t, i) # NoTag THEN Retagged(t.rules, OldTag(t, i), b.tag) ELSE t.rules
    BY <1>0, <1>3 DEF BalancerConfirmed, syncObservatories
  <2> HIDE DEF u
  <2>2. i \in Tagged(u.balancers, b.tag)
    BY <1>0, <1>1, <1>3, <2>1, PutAtTags
  <2>3. \A g : \A k \in Tagged(t.balancers, g) : k # i => k \in Tagged(u.balancers, g)
    BY <1>0, <1>1, <1>3, <2>1, PutAtTags
  <2>4. \A g : i \in Tagged(t.balancers, g) => OldTag(t, i) = g
    BY DEF Tagged, OldTag
  <2>5. ASSUME NEW k \in DOMAIN u.rules, u.rules[k] # Hole
        PROVE  /\ k \in DOMAIN t.rules /\ t.rules[k] # Hole
               /\ u.rules[k].outboundTag = t.rules[k].outboundTag
               /\ \/ u.rules[k].balancerTag = b.tag
                  \/ /\ u.rules[k].balancerTag = t.rules[k].balancerTag
                     /\ OldTag(t, i) # NoTag => t.rules[k].balancerTag # OldTag(t, i)
    <3>1. CASE OldTag(t, i) = NoTag
      BY <2>1, <2>5, <3>1
    <3>2. CASE OldTag(t, i) # NoTag
      <4>1. k \in DOMAIN t.rules
        BY <2>1, <3>2 DEF Retagged
      <4>2. u.rules[k] = IF t.rules[k] # Hole /\ t.rules[k].balancerTag = OldTag(t, i)
                         THEN [t.rules[k] EXCEPT !.balancerTag = b.tag] ELSE t.rules[k]
        BY <2>1, <3>2, <4>1 DEF Retagged
      <4>3. t.rules[k] # Hole
        BY <2>5, <4>2
      <4>4. t.rules[k] \in RuleType
        BY <1>0, <4>1, <4>3 DEF RuleRow
      <4> QED BY <4>1, <4>2, <4>3, <4>4 DEF RuleType
    <3> QED BY <3>1, <3>2
  <2>6. ASSUME NEW k \in DOMAIN u.rules, u.rules[k] # Hole, u.rules[k].balancerTag # NoTag,
               Tagged(u.balancers, u.rules[k].balancerTag) = {}
        PROVE  u.rules[k].balancerTag = t.rules[k].balancerTag /\ Tagged(t.balancers, t.rules[k].balancerTag) = {}
    <3> DEFINE g == t.rules[k].balancerTag
    <3>1. u.rules[k].balancerTag # b.tag
      BY <2>2, <2>6
    <3>2. u.rules[k].balancerTag = g /\ (OldTag(t, i) # NoTag => g # OldTag(t, i))
      BY <2>5, <2>6, <3>1
    <3>3. i \notin Tagged(t.balancers, g)
      BY <2>4, <2>6, <3>2
    <3>4. Tagged(u.balancers, g) = {}
      BY <2>6, <3>2
    <3> HIDE DEF g
    <3>5. Tagged(t.balancers, g) = {}
      BY <2>3, <3>3, <3>4
    <3> QED BY <3>2, <3>5 DEF g
  <2>7. Stranded(u) \subseteq Stranded(t) \cup {NoTag}
    BY <2>1, <2>5, <2>6, StrandedSplit
  <2> QED BY <2>7 DEF u
<1> QED BY <1>2, <1>3

(* The outbound of a NordVPN server, put in the place of another.            *)
LEMMA OutboundRenamed ==
  ASSUME NEW t, WellFormed(t), NEW i \in Nat \ {0}, NEW o \in OutboundType
  PROVE  Stranded(OutboundReset(t, i, o, t.outbounds[i].tag)) \subseteq Stranded(t) \cup {NoTag}
<1> DEFINE before == t.outbounds[i].tag
           u == OutboundReset(t, i, o, before)
<1>0. /\ t.rules \in Seq(RuleRow) /\ t.outbounds \in Seq(OutboundRow)
      /\ {"outbounds", "rules", "balancers"} \subseteq DOMAIN t
  BY ListsTyped DEF WellFormed, Fields, DefaultTemplate
<1>1. o # Hole
  BY DEF OutboundType, Hole
<1>2. /\ u.balancers = t.balancers /\ u.outbounds = PutAt(t.outbounds, i, o)
      /\ u.rules = IF before = NoTag THEN t.rules ELSE RulesFollow(t.rules, before, o.tag)
  BY <1>0 DEF OutboundReset, RulesFollow
<1>3. \A g : i \in Tagged(t.outbounds, g) => before = g
  BY DEF Tagged
<1> HIDE DEF u, before
<1>4. i \in Tagged(u.outbounds, o.tag)
  BY <1>0, <1>1, <1>2, PutAtTags
<1>5. \A g : \A k \in Tagged(t.outbounds, g) : k # i => k \in Tagged(u.outbounds, g)
  BY <1>0, <1>1, <1>2, PutAtTags
<1>6. ASSUME NEW k \in DOMAIN u.rules, u.rules[k] # Hole
      PROVE  /\ k \in DOMAIN t.rules /\ t.rules[k] # Hole
             /\ u.rules[k].balancerTag = t.rules[k].balancerTag
             /\ \/ u.rules[k].outboundTag = o.tag
                \/ /\ u.rules[k].outboundTag = t.rules[k].outboundTag
                   /\ before # NoTag => t.rules[k].outboundTag # before
  <2>1. CASE before = NoTag
    BY <1>2, <1>6, <2>1
  <2>2. CASE before # NoTag
    <3>1. k \in DOMAIN t.rules
      BY <1>2, <2>2 DEF RulesFollow
    <3>2. u.rules[k] = IF t.rules[k] # Hole /\ t.rules[k].outboundTag = before
                       THEN [t.rules[k] EXCEPT !.outboundTag = o.tag] ELSE t.rules[k]
      BY <1>2, <2>2, <3>1 DEF RulesFollow
    <3>3. t.rules[k] # Hole
      BY <1>6, <3>2
    <3>4. t.rules[k] \in RuleType
      BY <1>0, <3>1, <3>3 DEF RuleRow
    <3> QED BY <3>1, <3>2, <3>3, <3>4 DEF RuleType
  <2> QED BY <2>1, <2>2
<1>7. ASSUME NEW k \in DOMAIN u.rules, u.rules[k] # Hole, u.rules[k].outboundTag # NoTag,
             Tagged(u.outbounds, u.rules[k].outboundTag) = {}
      PROVE  u.rules[k].outboundTag = t.rules[k].outboundTag /\ Tagged(t.outbounds, t.rules[k].outboundTag) = {}
  <2> DEFINE g == t.rules[k].outboundTag
  <2>1. u.rules[k].outboundTag # o.tag
    BY <1>4, <1>7
  <2>2. u.rules[k].outboundTag = g /\ (before # NoTag => g # before)
    BY <1>6, <1>7, <2>1
  <2>3. i \notin Tagged(t.outbounds, g)
    BY <1>3, <1>7, <2>2
  <2>4. Tagged(u.outbounds, g) = {}
    BY <1>7, <2>2
  <2> HIDE DEF g
  <2>5. Tagged(t.outbounds, g) = {}
    BY <1>5, <2>3, <2>4
  <2> QED BY <2>2, <2>5 DEF g
<1>8. Stranded(u) \subseteq Stranded(t) \cup {NoTag}
  BY <1>2, <1>6, <1>7, StrandedSplit
<1> QED BY <1>8 DEF u, before

LEMMA OutboundAppended ==
  ASSUME NEW t, WellFormed(t), NEW o \in OutboundType
  PROVE  Stranded(OutboundAdded(t, o)) \subseteq Stranded(t) \cup {NoTag}
<1> DEFINE u == OutboundAdded(t, o)
<1>0. t.outbounds \in Seq(OutboundRow) /\ o \in OutboundRow /\ o # Hole
        /\ {"outbounds", "rules", "balancers"} \subseteq DOMAIN t
  <2>1. o # Hole
    BY DEF OutboundType, Hole
  <2>2. {"outbounds", "rules", "balancers"} \subseteq DOMAIN t
    BY DEF WellFormed, Fields, DefaultTemplate
  <2> QED BY <2>1, <2>2, ListsTyped DEF OutboundRow
<1>1. u.balancers = t.balancers /\ u.rules = t.rules /\ u.outbounds = Append(t.outbounds, o)
  BY <1>0 DEF OutboundAdded
<1> HIDE DEF u
<1>2. \A g : Tagged(t.outbounds, g) \subseteq Tagged(u.outbounds, g)
  BY <1>0, <1>1, AppendTags
<1>3. \A k \in DOMAIN u.rules : Tagged(u.outbounds, u.rules[k].outboundTag) = {}
        => Tagged(t.outbounds, t.rules[k].outboundTag) = {}
  BY <1>1, <1>2
<1>4. Stranded(u) \subseteq Stranded(t) \cup {NoTag}
  BY <1>1, <1>3, StrandedSplit
<1> QED BY <1>4 DEF u

(* A page that is reloaded shows the default template.                       *)
LEMMA DefaultStranded == Stranded(DefaultTemplate) \subseteq {NoTag}
<1>1. \A r \in Readable(DefaultTemplate.rules) : r.balancerTag = NoTag /\ r.outboundTag = "blocked"
  BY DEF Readable, DefaultTemplate, Rule
<1>2. 2 \in Tagged(DefaultTemplate.outbounds, "blocked")
  <2>1. DefaultTemplate.outbounds = <<Outbound("direct", "freedom"), Outbound("blocked", "blackhole")>>
    BY DEF DefaultTemplate
  <2>2. Outbound("blocked", "blackhole") # Hole /\ Outbound("blocked", "blackhole").tag = "blocked"
    BY DEF Outbound, Hole
  <2> QED BY <2>1, <2>2 DEF Tagged
<1> QED BY <1>1, <1>2 DEF Stranded

(* A step other than a renaming keeps the template, or the dialogs.           *)
Stays == UNCHANGED tpl \/ (UNCHANGED dlg /\ nord'.open = nord.open)
LEMMA StaysRenamesNone ==
  ASSUME Stays
  PROVE  ~(Renames /\ tpl' # tpl)
BY DEF Stays, Renames, NoDialog

Reached == Renames /\ tpl' # tpl => Stranded(tpl') \subseteq Stranded(tpl) \cup {NoTag}
LEMMA ArrivesReach ==
  ASSUME SInv, Arrives
  PROVE  Reached
<1>1. CASE Reload
  BY <1>1, DefaultStranded DEF Reload, Reached
<1>2. CASE FetchFailed
  BY <1>2 DEF FetchFailed, editor, Reached
<1>3. CASE ~Reload /\ ~FetchFailed
  <2>1. ASSUME NEW t, OtherSaves(t) PROVE Stays
    BY <2>1 DEF OtherSaves, editor, Stays
  <2>2. ASSUME FetchAnswered \/ fetchAll \/ TrafficPushed \/ OtherAddsInbound \/ SaveStored \/ SaveRefused
               \/ RestartAnswered \/ ResetAnswered
        PROVE  Stays
    BY <2>2 DEF FetchAnswered, fetchAll, TrafficPushed, OtherAddsInbound, SaveStored, SaveRefused,
         RestartAnswered, ResetAnswered, Stays
  <2>3. ASSUME NEW f, TestAnswered(f) \/ TestFailed(f) PROVE Stays
    BY <2>3 DEF TestAnswered, TestFailed, Tested, editor, Stays
  <2>4. Stays
    BY <1>3, <2>1, <2>2, <2>3, Zenon DEF Arrives
  <2> QED BY <2>4, StaysRenamesNone DEF Reached
<1> QED BY <1>1, <1>2, <1>3

LEMMA EditReaches ==
  ASSUME Header \/ Edit \/ OpenDialog \/ CloseDialog \/ TestRows
  PROVE  Reached
<1>1. ASSUME NEW t, UNCHANGED dlg, Edits(t) PROVE Stays
  BY <1>1 DEF Edits, Stays
<1>2. CASE Header \/ CloseDialog
  BY <1>2 DEF Header, PollDirty, SetTestUrl, onSaveAll, confirmRestart, resetToDefault, CloseDialog, editor, Reached
<1>3. CASE Edit
  <2>1. ASSUME Basics \/ TypePart \/ TypeObservatory \/ MoveRows \/ DnsSettings PROVE Stays
    BY <1>1, <2>1, ZenonT(60) DEF Basics, TypePart, TypeObservatory, MoveRows, DnsSettings
  <2>2. ASSUME NEW x, ShowTab(x) \/ TypeText(x) \/ EditHosts(x) PROVE Stays
    BY <2>2 DEF ShowTab, TypeText, EditHosts, editor, Stays
  <2>3. Stays
    BY <1>3, <2>1, <2>2, ZenonT(60) DEF Edit
  <2> QED BY <2>3, StaysRenamesNone DEF Reached
<1>4. CASE OpenDialog
  <2>1. ASSUME NEW d, Opens(d) PROVE Stays
    BY <2>1 DEF Opens, editor, Stays
  <2>2. Stays
    BY <1>4, <2>1, ZenonT(60) DEF OpenDialog, OpenOutbound, OpenRule, OpenBalancer, OpenServer, StartDrag,
         OpenConfirm
  <2> QED BY <2>2, StaysRenamesNone DEF Reached
<1>5. CASE TestRows
  <2>1. ASSUME NEW u, Tested(u) PROVE Stays
    BY <2>1 DEF Tested, editor, Stays
  <2>2. Stays
    BY <1>5, <2>1, Zenon DEF TestRows, testAllOutbounds, TestOne
  <2> QED BY <2>2, StaysRenamesNone DEF Reached
<1> QED BY <1>2, <1>3, <1>4, <1>5

LEMMA ConfirmReaches ==
  ASSUME SInv, Confirm
  PROVE  Reached
<1>1. nord' = nord
  <2>1. ASSUME NEW t, Answers(t) PROVE nord' = nord
    BY <2>1 DEF Answers, Edits
  <2> QED BY <2>1, ZenonT(60) DEF Confirm, ConfirmOutbound, ConfirmRule, ConfirmBalancer, Drop, ConfirmServer,
       ConfirmDelete
<1>2. CASE dlg.kind # "balancer"
  BY <1>1, <1>2 DEF Reached, Renames
<1>3. CASE dlg.kind = "balancer"
  <2>1. PICK b \in BalancerEdits(dlg.value) : ConfirmBalancer(b)
    <3>1. ~ConfirmDelete /\ \A j : ~Drop(j)
      BY <1>3 DEF ConfirmDelete, Drop
    <3>2. dlg.kind # "outbound" /\ dlg.kind # "rule" /\ dlg.kind # "server"
      BY <1>3
    <3> QED BY <3>1, <3>2, Zenon DEF Confirm, BalancerEdits
  <2>2. BalancerSubmitted(b) \in BalancerType
    BY <1>3, <2>1, BalancerEditsTyped, BalancerSubmittedTyped DEF SInv, DlgShaped
  <2>3. tpl' = BalancerConfirmed(tpl, dlg.at, BalancerSubmitted(b))
    BY <2>1 DEF ConfirmBalancer, Answers, Edits, setTemplateSettings
  <2>4. WellFormed(tpl) /\ dlg.at \in Nat
    BY DEF SInv, TplShaped, DlgShaped
  <2>5. Stranded(tpl') \subseteq Stranded(tpl) \cup {NoTag}
    BY <2>2, <2>3, <2>4, BalancerRenamed
  <2> QED BY <2>5 DEF Reached
<1> QED BY <1>2, <1>3

LEMMA ProvidersReach ==
  ASSUME SInv, Providers
  PROVE  Reached
<1>0. {"open", "server"} \subseteq DOMAIN nord
  BY DEF SInv, NordShaped
<1>1. CASE CloseNord
  BY <1>1 DEF CloseNord, editor, Reached
<1>2. CASE NordOutbound
  <2> DEFINE i == NordIndex(tpl)
             o == Outbound(nord.server, "wireguard")
  <2>1. o \in OutboundType
    <3>1. "wireguard" \in Text /\ nord.server \in Text
      BY DEF SInv, NordShaped, Text
    <3> QED BY <3>1, OutboundTyped
  <2>2. i \in Nat
    <3>1. NordOutbounds(tpl) # {} => First(NordOutbounds(tpl)) \in 1..Len(tpl.outbounds)
      BY ListsTyped, FirstOf DEF SInv, TplShaped, NordOutbounds
    <3> QED BY <3>1 DEF NordIndex
  <2>3. tpl' = IF i = 0 THEN OutboundAdded(tpl, o) ELSE OutboundReset(tpl, i, o, tpl.outbounds[i].tag)
    BY <1>2 DEF NordOutbound, setTemplateSettings
  <2>4. WellFormed(tpl)
    BY DEF SInv, TplShaped
  <2> HIDE DEF i, o
  <2>5. Stranded(tpl') \subseteq Stranded(tpl) \cup {NoTag}
    BY <2>1, <2>2, <2>3, <2>4, OutboundAppended, OutboundRenamed
  <2> QED BY <2>5 DEF Reached
<1>3. CASE ~CloseNord /\ ~NordOutbound
  <2>1. ASSUME OpenNord \/ NordLogin \/ NordLogout \/ NordFailed \/ \E c \in {1, 2} : NordCountry(c) PROVE Stays
    <3>1. UNCHANGED editor
      BY <2>1, ZenonT(60) DEF OpenNord, NordLogin, NordLogout, NordFailed, NordCountry, NordAsks
    <3> QED BY <3>1 DEF editor, Stays
  <2>2. ASSUME NordAnswered PROVE Stays
    <3>1. PICK what \in nord.asked :
            nord' \in {[Landed(what) EXCEPT !.account = srv.nord], [Landed(what) EXCEPT !.account = TRUE],
                       [Landed(what) EXCEPT !.server = ServersOf(what[2])],
                       [Landed(what) EXCEPT !.account = FALSE, !.country = 0, !.server = NoTag]}
      BY <2>2 DEF NordAnswered
    <3> DEFINE n == Landed(what)
    <3>2. n.open = nord.open /\ "open" \in DOMAIN n
      BY <1>0 DEF Landed
    <3> HIDE DEF n
    <3>3. nord'.open = nord.open
      BY <3>1, <3>2 DEF n
    <3> QED BY <2>2, <3>3 DEF NordAnswered, Stays
  <2>3. ASSUME OpenWarp \/ CloseWarp \/ WarpButton \/ WarpFailed \/ WarpAnswered \/ WarpOutbound PROVE Stays
    <3>1. \E w : WarpIs(w)
      BY <2>3, ZenonT(60) DEF OpenWarp, CloseWarp, WarpButton, WarpFailed, WarpAnswered, WarpOutbound, WarpAsks
    <3> QED BY <3>1 DEF WarpIs, Stays
  <2>4. Stays
    BY <1>3, <2>1, <2>2, <2>3 DEF Providers
  <2> QED BY <2>4, StaysRenamesNone DEF Reached
<1> QED BY <1>1, <1>2, <1>3

(* A balancer that is renamed and a NordVPN server that is changed for another *)
(* take along the rules that named them, whatever refetch, reset or other      *)
(* handler wrote the template since the dialog opened (BalancersTab onConfirm, *)
(* XrayPage onResetOutbound).                                                  *)
THEOREM RulesFollowRenames == Spec => RenamesReachRules
<1>1. SInv /\ [Next]_vars =>
        [Renames /\ tpl' # tpl => Stranded(tpl') \subseteq Stranded(tpl) \cup {NoTag}]_vars
  <2>1. SInv /\ Next => Reached
    BY ArrivesReach, EditReaches, ConfirmReaches, ProvidersReach DEF Next
  <2> QED BY <2>1 DEF Reached
<1>2. Spec => []SInv
  BY PageIsShaped
<1> QED BY <1>1, <1>2, PTL DEF Spec, RenamesReachRules

---------------------------------------------------------------------------
(* The rows in the hands of the workers of a test of all outbounds.          *)
Worked == {f.row : f \in {g \in test.flight : g.all}}
TestsTyped ==
  /\ test = [rows |-> test.rows, flight |-> test.flight, queue |-> test.queue,
             all |-> test.all, todo |-> test.todo]
  /\ test.all \in BOOLEAN
Queued ==
  /\ test.todo \subseteq test.queue \cup Worked
  /\ test.queue # {} \/ Worked # {} => test.all
TInv == TestsTyped /\ Queued

(* What an answer, or a failure, leaves: the worker goes on with the lowest  *)
(* row of the queue, so that no row falls between queue and worker.          *)
LEMMA NextTaken ==
  ASSUME TInv, NEW f \in test.flight, test' = TookNext(f)
  PROVE  TInv'
<1> DEFINE next == IF f.all /\ test.queue # {} THEN {Min(test.queue)} ELSE {}
           flight == (test.flight \ {f}) \cup [row : next, all : {TRUE}]
<1>1. /\ test'.flight = flight /\ test'.queue = test.queue \ next
      /\ test'.all = (test.all /\ (f.all => \E g \in flight : g.all))
      /\ test'.todo = IF f.all THEN test.todo \ {f.row} ELSE test.todo
      /\ TestsTyped'
  BY DEF TookNext, TestsTyped
<1>2. \A r \in next : [row |-> r, all |-> TRUE] \in flight
  OBVIOUS
<1>3. test'.todo \subseteq test'.queue \cup Worked'
  <2> SUFFICES ASSUME NEW r \in test'.todo, r \notin test'.queue PROVE r \in Worked'
    OBVIOUS
  <2>1. r \in test.todo
    BY <1>1
  <2>2. CASE r \in next
    <3>1. [row |-> r, all |-> TRUE] \in test'.flight
      BY <2>2, <1>1, <1>2
    <3> QED BY <3>1 DEF Worked
  <2>3. CASE r \notin next
    <3>1. r \in Worked
      BY <2>1, <2>3, <1>1 DEF TInv, Queued
    <3>2. PICK g \in test.flight : g.all /\ g.row = r
      BY <3>1 DEF Worked
    <3>3. g # f
      BY <3>2, <1>1
    <3>4. g \in test'.flight
      BY <3>3, <1>1
    <3> QED BY <3>2, <3>4 DEF Worked
  <2> QED BY <2>2, <2>3
<1>4. test'.queue # {} \/ Worked' # {} => test'.all
  <2>0. test.all
    BY <1>1 DEF TInv, Queued, Worked
  <2>1. CASE ~f.all
    BY <2>0, <2>1, <1>1
  <2>2. CASE f.all /\ test.queue # {}
    <3>1. [row |-> Min(test.queue), all |-> TRUE] \in flight
      BY <2>2
    <3> QED BY <2>0, <3>1, <1>1
  <2>3. CASE f.all /\ test.queue = {}
    <3>1. Worked' # {} => \E g \in flight : g.all
      BY <1>1 DEF Worked
    <3> QED BY <2>0, <2>3, <3>1, <1>1
  <2> QED BY <2>1, <2>2, <2>3
<1> QED BY <1>1, <1>3, <1>4 DEF TInv, Queued

(* Every other step leaves the tests alone, adds one by hand, or starts the  *)
(* test of all when none is running.                                         *)
LEMMA TestRowsPreserves ==
  ASSUME TInv, TestRows
  PROVE  TInv'
<1>1. ASSUME NEW i, NEW mode, TestOne(i, mode) PROVE TInv'
  <2>1. /\ test'.flight = test.flight \cup {[row |-> i, all |-> FALSE]}
        /\ test'.queue = test.queue /\ test'.all = test.all /\ test'.todo = test.todo
        /\ TestsTyped'
    BY <1>1 DEF TestOne, Tested, TInv, TestsTyped
  <2>2. Worked' = Worked
    BY <2>1 DEF Worked
  <2> QED BY <2>1, <2>2 DEF TInv, Queued
<1>2. ASSUME NEW mode, testAllOutbounds(mode) PROVE TInv'
  <2> DEFINE first == {i \in Testable(mode) : Cardinality({k \in Testable(mode) : k < i}) < Workers[mode]}
  <2>1. /\ test'.flight = test.flight \cup [row : first, all : {TRUE}]
        /\ test'.queue = Testable(mode) \ first /\ test'.todo = Testable(mode)
        /\ test'.all = TRUE /\ TestsTyped'
    BY <1>2 DEF testAllOutbounds, Tested, TestsTyped
  <2>2. ASSUME NEW i \in first PROVE i \in Worked'
    <3>1. [row |-> i, all |-> TRUE] \in test'.flight
      BY <2>1
    <3> QED BY <3>1 DEF Worked
  <2>3. test'.todo \subseteq test'.queue \cup Worked'
    <3> HIDE DEF first
    <3> QED BY <2>1, <2>2
  <2> QED BY <2>1, <2>3 DEF TInv, Queued
<1> QED BY <1>1, <1>2 DEF TestRows
LEMMA OthersKeepTests ==
  ASSUME Edit \/ OpenDialog \/ CloseDialog \/ Confirm \/ Header \/ Providers
  PROVE  UNCHANGED test
<1>1. CASE Edit
  <2>1. ASSUME NEW t, Edits(t) PROVE UNCHANGED test
    BY <2>1 DEF Edits
  <2>2. CASE Basics \/ TypePart \/ TypeObservatory \/ MoveRows \/ DnsSettings
    BY <2>1, <2>2, ZenonT(60) DEF Basics, TypePart, TypeObservatory, MoveRows, DnsSettings
  <2>3. ASSUME NEW x, ShowTab(x) \/ TypeText(x) \/ EditHosts(x) PROVE UNCHANGED test
    BY <2>3 DEF ShowTab, TypeText, EditHosts
  <2> QED BY <1>1, <2>2, <2>3, ZenonT(60) DEF Edit
<1>2. CASE OpenDialog
  <2>1. ASSUME NEW d, Opens(d) PROVE UNCHANGED test
    BY <2>1 DEF Opens
  <2> QED BY <1>2, <2>1, ZenonT(60) DEF OpenDialog, OpenOutbound, OpenRule, OpenBalancer, OpenServer,
     StartDrag, OpenConfirm
<1>3. CASE CloseDialog
  BY <1>3 DEF CloseDialog
<1>4. CASE Confirm
  <2>1. ASSUME NEW t, Answers(t) PROVE UNCHANGED test
    BY <2>1 DEF Answers, Edits
  <2> QED BY <1>4, <2>1, ZenonT(60) DEF Confirm, ConfirmOutbound, ConfirmRule, ConfirmBalancer, Drop,
     ConfirmServer, ConfirmDelete
<1>5. CASE Header
  BY <1>5 DEF Header, PollDirty, SetTestUrl, onSaveAll, confirmRestart, resetToDefault
<1>6. CASE Providers
  <2>1. ASSUME NEW n, NordIs(n) \/ WarpIs(n) PROVE UNCHANGED test
    BY <2>1 DEF NordIs, WarpIs
  <2>2. CASE OpenNord \/ CloseNord \/ NordLogin \/ NordLogout \/ NordFailed \/ NordOutbound
    BY <2>1, <2>2, ZenonT(60) DEF OpenNord, CloseNord, NordLogin, NordLogout, NordFailed, NordOutbound, NordAsks
  <2>3. CASE NordAnswered
    BY <2>3 DEF NordAnswered
  <2>4. ASSUME NEW c, NordCountry(c) PROVE UNCHANGED test
    BY <2>1, <2>4 DEF NordCountry, NordAsks
  <2>5. CASE OpenWarp \/ CloseWarp \/ WarpButton \/ WarpFailed \/ WarpAnswered \/ WarpOutbound
    BY <2>1, <2>5, ZenonT(60) DEF OpenWarp, CloseWarp, WarpButton, WarpFailed, WarpAnswered, WarpOutbound, WarpAsks
  <2> QED BY <1>6, <2>2, <2>3, <2>4, <2>5 DEF Providers
<1> QED BY <1>1, <1>2, <1>3, <1>4, <1>5, <1>6

(* A test of all outbounds that is over has tested each row that was         *)
(* testable when it began, whatever failed, was tested by hand or moved      *)
(* meanwhile.                                                                *)
THEOREM TestAllReachesAll == Spec => []AllRowsTested
<1>1. Init => TInv
  BY DEF Init, NoTests, TInv, TestsTyped, Queued, Worked
<1>2. TInv /\ [Next]_vars => TInv'
  <2> SUFFICES ASSUME TInv, [Next]_vars PROVE TInv'
    OBVIOUS
  <2>0. ASSUME UNCHANGED test PROVE TInv'
    BY <2>0 DEF TInv, TestsTyped, Queued, Worked
  <2>1. CASE Arrives
    <3>1. ASSUME NEW f \in test.flight, TestAnswered(f) \/ TestFailed(f) PROVE TInv'
      BY <3>1, NextTaken DEF TestAnswered, TestFailed, Tested
    <3>2. CASE Reload
      BY <3>2 DEF Reload, NoTests, TInv, TestsTyped, Queued, Worked
    <3>3. CASE FetchAnswered \/ FetchFailed \/ fetchAll \/ TrafficPushed \/ OtherAddsInbound
      BY <3>3, <2>0 DEF FetchAnswered, FetchFailed, fetchAll, TrafficPushed, OtherAddsInbound
    <3>4. ASSUME NEW t, OtherSaves(t) PROVE TInv'
      BY <3>4, <2>0 DEF OtherSaves
    <3>5. CASE SaveStored \/ SaveRefused \/ RestartAnswered \/ ResetAnswered
      BY <3>5, <2>0 DEF SaveStored, SaveRefused, RestartAnswered, ResetAnswered
    <3> QED BY <2>1, <3>1, <3>2, <3>3, <3>4, <3>5 DEF Arrives
  <2>2. CASE TestRows
    BY <2>2, TestRowsPreserves
  <2>3. CASE Edit \/ OpenDialog \/ CloseDialog \/ Confirm \/ Header \/ Providers
    BY <2>0, <2>3, OthersKeepTests
  <2>4. CASE UNCHANGED vars
    BY <2>0, <2>4 DEF vars
  <2> QED BY <2>1, <2>2, <2>3, <2>4 DEF Next
<1>3. TInv => AllRowsTested
  BY DEF TInv, Queued, AllRowsTested
<1> QED BY <1>1, <1>2, <1>3, PTL DEF Spec
=============================================================================
