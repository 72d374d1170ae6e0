---------------------------- MODULE PanelProofs ----------------------------
(***************************************************************************)
(* What holds of the inbounds page and of the two dialogs, which share no    *)
(* state, for any finite set of inbounds and any bound.                      *)
(*                                                                         *)
(* The page: IInv says of every list the page may come to show (cached,     *)
(* fetched, pushed) that it names inbounds that were added before           *)
(* (KnownInv), so that none of the targets of a bulk deletion comes back,   *)
(* and counts what the deletion has left behind (BulkInv).  CurrentInv says *)
(* when a list, cached or on its way, is the server's.                      *)
(*                                                                         *)
(* The dialogs: FormStore and DialogInv say what their stores hold after    *)
(* any sequence of switches; every field shown is then found in the schema  *)
(* or adapter of the protocol, the network and the parts that show it.      *)
(***************************************************************************)
EXTENDS InboundsPage, InboundForm, OutboundForm, FiniteSetTheorems, SequenceTheorems, TLAPS

RowType == [on : BOOLEAN, secrets : BOOLEAN]
Lists == UNION {[S -> RowType] : S \in SUBSET Ids}
Subjects == {"inbounds", "clients"}
Message == [type : {"invalidate", "inbounds"}, of : Subjects, rows : Lists, missed : BOOLEAN, late : BOOLEAN]
Request == [op : {"setEnable", "del", "reset", "add"}, id : Ids, on : BOOLEAN, previous : BOOLEAN, live : BOOLEAN]
Ask == [id : Ids, key : {"edit", "info"}, secrets : BOOLEAN, read : BOOLEAN, on : BOOLEAN]
TypeOK ==
  /\ db \in [Ids -> {"new", "on", "off", "gone"}]
  /\ news \in Seq(Message)
  /\ stats \subseteq UNION {[S -> BOOLEAN] : S \in SUBSET Ids}
  /\ slim \in [loaded : BOOLEAN, rows : Lists, stale : BOOLEAN, missed : BOOLEAN, late : BOOLEAN]
  /\ fetch \in [on : BOOLEAN, read : BOOLEAN, rows : Lists, missed : BOOLEAN, late : BOOLEAN]
  /\ mounted \in BOOLEAN
  /\ rows \in Lists /\ sel \subseteq Ids
  /\ ops \subseteq Request
  /\ bulk \in [step : {"none", "ask", "run"}, targets : SUBSET Ids, todo : Seq(Ids), failed : Nat]
  /\ asks \subseteq Ask

(* The inbounds that have been added, whether or not they were deleted.     *)
Added(d) == {i \in Ids : d[i] # "new"}
KnownInv ==
  /\ DOMAIN rows \subseteq Added(db) /\ DOMAIN slim.rows \subseteq Added(db)
  /\ DOMAIN fetch.rows \subseteq Added(db)
  /\ \A k \in DOMAIN news : DOMAIN news[k].rows \subseteq Added(db)
  /\ sel \subseteq Added(db) /\ bulk.targets \subseteq Added(db)
(* An inbound about to be added is asked for once and is not there yet.     *)
OpsInv ==
  /\ \A o \in ops : o.op = "add" <=> db[o.id] = "new"
  /\ \A o, x \in ops : o.op = "add" /\ o.id = x.id => o = x
(* What the page shows is what it holds, and nothing when it is not on show. *)
ShownInv ==
  /\ mounted /\ slim.loaded => DOMAIN rows = DOMAIN slim.rows
  /\ sel \subseteq DOMAIN rows /\ (~mounted => sel = {})
  /\ ~slim.loaded => DOMAIN slim.rows = {} /\ DOMAIN rows = {}
(* Of the targets that are still there, no more are left out of what is to  *)
(* be deleted than were counted as failed.                                  *)
LeftOut == (bulk.targets \cap Listed(db)) \ ToSet(bulk.todo)
BulkInv == Cardinality(LeftOut) <= bulk.failed
IInv == TypeOK /\ KnownInv /\ OpsInv /\ ShownInv /\ BulkInv

---------------------------------------------------------------------------
(* Lists of rows. *)
LEMMA ListsAre ==
  /\ << >> \in Lists /\ DOMAIN << >> = {}
  /\ \A r \in Lists : DOMAIN r \subseteq Ids /\ r \in [DOMAIN r -> RowType]
  /\ \A r \in Lists : \A i \in DOMAIN r, v \in RowType :
       [r EXCEPT ![i] = v] \in Lists /\ DOMAIN [r EXCEPT ![i] = v] = DOMAIN r
<1>1. << >> \in Lists /\ DOMAIN << >> = {}
  <2>1. << >> \in [{} -> RowType]
    OBVIOUS
  <2> QED BY <2>1 DEF Lists
<1>2. ASSUME NEW r \in Lists
      PROVE  DOMAIN r \subseteq Ids /\ r \in [DOMAIN r -> RowType]
  BY DEF Lists
<1>3. ASSUME NEW r \in Lists, NEW i \in DOMAIN r, NEW v \in RowType
      PROVE  [r EXCEPT ![i] = v] \in Lists /\ DOMAIN [r EXCEPT ![i] = v] = DOMAIN r
  <2>1. [r EXCEPT ![i] = v] \in [DOMAIN r -> RowType]
    BY <1>2
  <2> QED BY <1>2, <2>1 DEF Lists
<1> QED BY <1>1, <1>2, <1>3
LEMMA ListIsList ==
  ASSUME NEW d \in [Ids -> {"new", "on", "off", "gone"}], NEW secrets \in BOOLEAN
  PROVE  List(d, secrets) \in Lists /\ DOMAIN List(d, secrets) = Listed(d) /\ Listed(d) \subseteq Added(d)
<1>1. List(d, secrets) \in [Listed(d) -> RowType] /\ Listed(d) \subseteq Ids
  BY DEF List, Row, RowType, Listed
<1> QED BY <1>1 DEF Lists, List, Listed, Added
LEMMA MergedIsList ==
  ASSUME NEW r \in Lists, NEW s \in UNION {[S -> BOOLEAN] : S \in SUBSET Ids}
  PROVE  Merged(r, s) \in Lists /\ DOMAIN Merged(r, s) = DOMAIN r
<1>1. r \in [DOMAIN r -> RowType] /\ DOMAIN r \subseteq Ids
  BY ListsAre
<1>2. Merged(r, s) \in [DOMAIN r -> RowType]
  BY <1>1 DEF Merged, RowType
<1> QED BY <1>1, <1>2 DEF Lists, Merged

---------------------------------------------------------------------------
(* What the server does: nobody comes back. *)
Grows == /\ db' \in [Ids -> {"new", "on", "off", "gone"}]
         /\ \A i \in Ids : db[i] # "new" => db'[i] # "new" /\ (db'[i] \in {"on", "off"} => db[i] \in {"on", "off"})
LEMMA EffectGrows ==
  ASSUME TypeOK, NEW o, o.op \in {"setEnable", "del", "reset", "add"}, o.id \in Ids, Takes(db, o),
         o.op = "add" => db[o.id] = "new", db' = Effect(db, o)
  PROVE  Grows /\ (\A i \in Ids : db'[i] = "new" <=> (db[i] = "new" /\ (i # o.id \/ o.op # "add")))
<1>1. CASE o.op = "setEnable"
  BY <1>1 DEF TypeOK, Takes, Effect, Switch, Listed, Grows
<1>2. CASE o.op = "del"
  BY <1>2 DEF TypeOK, Takes, Effect, Switch, Listed, Grows
<1>3. CASE o.op = "add"
  BY <1>3 DEF TypeOK, Takes, Effect, Switch, Listed, Grows
<1>4. CASE o.op = "reset"
  BY <1>4 DEF TypeOK, Effect, Grows
<1> QED BY <1>1, <1>2, <1>3, <1>4

(* What is left out of a bulk deletion does not grow by itself.             *)
LEMMA LeftOutFinite ==
  ASSUME TypeOK
  PROVE  IsFiniteSet(LeftOut) /\ Cardinality(LeftOut) \in Nat
<1>1. LeftOut \in SUBSET Ids
  BY DEF LeftOut, TypeOK
<1> QED BY <1>1, IdsAssumption, FS_Subset, FS_CardinalityType
LEMMA BulkRests ==
  ASSUME IInv, Grows, UNCHANGED bulk
  PROVE  BulkInv'
<1>1. LeftOut' \in SUBSET LeftOut
  BY DEF LeftOut, IInv, KnownInv, TypeOK, Added, Grows, Listed
<1>2. Cardinality(LeftOut') <= Cardinality(LeftOut) /\ IsFiniteSet(LeftOut')
  BY <1>1, LeftOutFinite, FS_Subset DEF IInv
<1>3. Cardinality(LeftOut') \in Nat /\ Cardinality(LeftOut) \in Nat /\ bulk.failed \in Nat
  BY <1>2, LeftOutFinite, FS_CardinalityType DEF IInv, TypeOK
<1> QED BY <1>2, <1>3 DEF BulkInv, IInv
LEMMA DbRests ==
  ASSUME TypeOK, UNCHANGED db
  PROVE  Grows
BY DEF TypeOK, Grows

---------------------------------------------------------------------------
(* The messages on their way: what is said names only what was added.       *)
NewsKnown(d, s) == s \in Seq(Message) /\ \A k \in DOMAIN s : DOMAIN s[k].rows \subseteq Added(d)
LEMMA Taken ==
  ASSUME NEW S, NEW s \in Seq(S), s # << >>
  PROVE  /\ Head(s) \in S /\ Tail(s) \in Seq(S) /\ 1 \in DOMAIN s /\ Head(s) = s[1]
         /\ \A k \in DOMAIN Tail(s) : k + 1 \in DOMAIN s /\ Tail(s)[k] = s[k + 1]
         /\ \A k \in DOMAIN s : k = 1 \/ (k - 1 \in DOMAIN Tail(s) /\ Tail(s)[k - 1] = s[k])
<1>1. Len(s) \in Nat /\ DOMAIN s = 1..Len(s) /\ Len(s) # 0
  OBVIOUS
<1> QED BY <1>1, HeadTailProperties
LEMMA AddedGrows ==
  ASSUME TypeOK, Grows
  PROVE  Added(db) \subseteq Added(db')
BY DEF Grows, Added
LEMMA NewsRests ==
  ASSUME TypeOK, KnownInv, Grows, news' = news \/ news' = << >> \/ (news # << >> /\ news' = Tail(news))
  PROVE  NewsKnown(db', news')
<1>0. news \in Seq(Message) /\ \A k \in DOMAIN news : DOMAIN news[k].rows \subseteq Added(db)
  BY DEF TypeOK, KnownInv
<1>2. CASE news' = news
  BY <1>0, <1>2, AddedGrows DEF NewsKnown
<1>3. CASE news' = << >>
  BY <1>3 DEF NewsKnown
<1>4. CASE news # << >> /\ news' = Tail(news)
  BY <1>0, <1>4, Taken, AddedGrows DEF NewsKnown
<1> QED BY <1>2, <1>3, <1>4
LEMMA ToldKnown ==
  ASSUME TypeOK, Grows, NEW o, NEW said \in Told(db', o)
  PROVE  NewsKnown(db', said)
<1>1. Hint("inbounds") \in Message /\ Hint("clients") \in Message
  BY ListsAre DEF Hint, Message, Subjects
<1>2. DOMAIN Hint("inbounds").rows = {} /\ DOMAIN Hint("clients").rows = {}
  BY ListsAre DEF Hint
<1>3. List(db', TRUE) \in Lists /\ DOMAIN List(db', TRUE) \subseteq Added(db')
  BY ListIsList DEF Grows
<1>4. Push(db') \in Message /\ DOMAIN Push(db').rows \subseteq Added(db')
  BY <1>3 DEF Push, Message, Subjects
<1>5. said \in {<<Hint("inbounds")>>, << >>, <<Push(db'), Hint("clients")>>,
                <<Hint("inbounds"), Hint("clients")>>, <<Hint("clients")>>}
  BY Zenon DEF Told
<1> HIDE DEF Hint, Push
<1>6. CASE said = <<Hint("inbounds")>>
  BY <1>6, <1>1, <1>2 DEF NewsKnown
<1>7. CASE said = << >>
  BY <1>7 DEF NewsKnown
<1>8. CASE said = <<Push(db'), Hint("clients")>>
  BY <1>8, <1>1, <1>2, <1>4 DEF NewsKnown
<1>9. CASE said = <<Hint("inbounds"), Hint("clients")>>
  BY <1>9, <1>1, <1>2 DEF NewsKnown
<1>10. CASE said = <<Hint("clients")>>
  BY <1>10, <1>1, <1>2 DEF NewsKnown
<1> QED BY <1>5, <1>6, <1>7, <1>8, <1>9, <1>10
LEMMA SaidKnown ==
  ASSUME TypeOK, KnownInv, Grows, NEW said, NEW own \in BOOLEAN, NewsKnown(db', said), Say(said, own)
  PROVE  NewsKnown(db', news')
<1>1. NewsKnown(db', news)
  BY AddedGrows DEF NewsKnown, TypeOK, KnownInv
<1>2. LackingAll(news, own) \in Seq(Message) /\ \A k \in DOMAIN LackingAll(news, own) :
        k \in DOMAIN news /\ LackingAll(news, own)[k].rows = news[k].rows
  <2>1. news \in Seq(Message)
    BY DEF TypeOK
  <2>2. \A m \in Message : Lacking(m, own) \in Message /\ Lacking(m, own).rows = m.rows
    BY DEF Lacking, Message
  <2> HIDE DEF Lacking
  <2> QED BY <2>1, <2>2 DEF LackingAll
<1>3. NewsKnown(db', LackingAll(news, own))
  BY <1>1, <1>2 DEF NewsKnown
<1>4. PICK s, t : NewsKnown(db', s) /\ NewsKnown(db', t) /\ news' = s \o t
  <2>1. NewsKnown(db', << >>)
    BY DEF NewsKnown
  <2> QED BY <1>1, <1>3, <2>1 DEF Say
<1> QED BY <1>4 DEF NewsKnown

---------------------------------------------------------------------------
(* What becomes of the list and its fetch unless data arrives.              *)
SlimType == [loaded : BOOLEAN, rows : Lists, stale : BOOLEAN, missed : BOOLEAN, late : BOOLEAN]
FetchType == [on : BOOLEAN, read : BOOLEAN, rows : Lists, missed : BOOLEAN, late : BOOLEAN]
ListKept ==
  /\ slim' \in SlimType /\ slim'.rows = slim.rows /\ slim'.loaded = slim.loaded
  /\ fetch' \in FetchType /\ (fetch'.rows = fetch.rows \/ fetch'.rows = << >>)
LEMMA OvertakenIsFetch ==
  ASSUME TypeOK, NEW known \in BOOLEAN
  PROVE  /\ Overtaken(fetch, known) \in FetchType /\ Overtaken(fetch, known).rows = fetch.rows
         /\ ~(Overtaken(fetch, known).read /\ ~Overtaken(fetch, known).missed /\ ~Overtaken(fetch, known).late)
         /\ Lacking(slim, known) \in SlimType /\ Lacking(slim, known).rows = slim.rows
         /\ Lacking(slim, known).loaded = slim.loaded
         /\ (Lacking(slim, known).missed \/ Lacking(slim, known).late)
BY DEF TypeOK, Overtaken, Lacking, FetchType, SlimType
LEMMA ListIsKept ==
  ASSUME TypeOK,
         \/ slim' \in {slim, Lacking(slim, FALSE)} /\ fetch' = fetch
         \/ \E said : \E own \in BOOLEAN : Changed(said, own)
         \/ invalidated(fetch) \/ invalidated(Overtaken(fetch, TRUE))
         \/ slim' = slim /\ fetch' \in {fetch, Fresh(fetch), NoFetch}
  PROVE  ListKept
<1>1. NoFetch \in FetchType /\ NoFetch.rows = << >> /\ Asked \in FetchType /\ Asked.rows = << >>
  BY ListsAre DEF NoFetch, Asked, FetchType
<1>2. fetch \in FetchType /\ slim \in SlimType
  BY DEF TypeOK, FetchType, SlimType
<1>3. \A f : invalidated(f) => /\ slim' \in SlimType /\ slim'.rows = slim.rows /\ slim'.loaded = slim.loaded
                               /\ fetch' \in {f, Asked}
  BY DEF TypeOK, invalidated, Refetched, SlimType
<1> HIDE DEF NoFetch, Asked, SlimType, FetchType
<1>4. Fresh(fetch) \in {fetch, Asked}
  BY DEF Fresh
<1>5. CASE slim' \in {slim, Lacking(slim, FALSE)} /\ fetch' = fetch
  BY <1>2, <1>5, OvertakenIsFetch DEF ListKept
<1>6. ASSUME NEW said, NEW own \in BOOLEAN, Changed(said, own) PROVE ListKept
  <2>1. fetch' = Overtaken(fetch, own \/ Heard(said)) /\ slim' \in {slim, Lacking(slim, FALSE)}
    BY <1>6 DEF Changed
  <2>2. fetch' \in {Overtaken(fetch, TRUE), Overtaken(fetch, FALSE)}
    <3>1. (own \/ Heard(said)) \in BOOLEAN
      BY DEF Heard
    <3> QED BY <2>1, <3>1
  <2> QED BY <1>2, <2>1, <2>2, OvertakenIsFetch DEF ListKept
<1>7. CASE invalidated(fetch) \/ invalidated(Overtaken(fetch, TRUE))
  BY <1>1, <1>2, <1>3, <1>7, OvertakenIsFetch DEF ListKept
<1>8. CASE slim' = slim /\ fetch' \in {fetch, Fresh(fetch), NoFetch}
  BY <1>1, <1>2, <1>4, <1>8 DEF ListKept
<1> QED BY <1>5, <1>6, <1>7, <1>8

(* A step that leaves the page's rows, selection and bulk deletion in place. *)
LEMMA Rests ==
  ASSUME IInv, Grows, NewsKnown(db', news'), ListKept, UNCHANGED <<sel, bulk, mounted>>,
         rows' \in Lists, DOMAIN rows' = DOMAIN rows, ops' \subseteq Request, asks' \subseteq Ask,
         stats' \subseteq UNION {[S -> BOOLEAN] : S \in SUBSET Ids}
  PROVE  TypeOK' /\ KnownInv' /\ ShownInv' /\ BulkInv'
<1>1. TypeOK'
  BY DEF IInv, TypeOK, Grows, NewsKnown, ListKept, SlimType, FetchType
<1>2. KnownInv'
  <2>1. Added(db) \subseteq Added(db')
    BY AddedGrows DEF IInv
  <2>2. DOMAIN fetch'.rows \subseteq Added(db)
    BY ListsAre DEF IInv, KnownInv, ListKept
  <2> QED BY <2>1, <2>2 DEF IInv, KnownInv, NewsKnown, ListKept
<1>3. ShownInv'
  BY DEF IInv, ShownInv, ListKept
<1>4. BulkInv'
  BY BulkRests
<1> QED BY <1>1, <1>2, <1>3, <1>4

(* The requests under way: none is added, or one is, or they are told that   *)
(* their row object is gone.                                                *)
SameNew == \A i \in Ids : db'[i] = "new" <=> db[i] = "new"
LEMMA OpsRest ==
  ASSUME TypeOK, OpsInv, SameNew, ops' \subseteq ops
  PROVE  OpsInv'
BY DEF TypeOK, OpsInv, SameNew, Request
LEMMA OpAdded ==
  ASSUME TypeOK, OpsInv, UNCHANGED db, NEW o \in Request, ops' = ops \cup {o},
         o.op = "add" => db[o.id] = "new" /\ \A x \in ops : x.id # o.id,
         o.op # "add" => db[o.id] # "new"
  PROVE  OpsInv'
BY DEF TypeOK, OpsInv, Request
Orphaned(o) == [o EXCEPT !.live = FALSE]
LEMMA OpsOrphaned ==
  ASSUME TypeOK, OpsInv, UNCHANGED db, NEW which \in SUBSET ops,
         ops' = {IF o \in which THEN Orphaned(o) ELSE o : o \in ops}
  PROVE  ops' \subseteq Request /\ OpsInv'
<1>1. \A o \in ops : Orphaned(o) \in Request /\ Orphaned(o).op = o.op /\ Orphaned(o).id = o.id
  <2>1. \A o \in Request : Orphaned(o) \in Request /\ Orphaned(o).op = o.op /\ Orphaned(o).id = o.id
    BY DEF Orphaned, Request
  <2> QED BY <2>1 DEF TypeOK
<1> HIDE DEF Orphaned
<1>2. \A y \in ops' : \E o \in ops : y = (IF o \in which THEN Orphaned(o) ELSE o)
                                     /\ y.op = o.op /\ y.id = o.id /\ y \in Request
  BY <1>1 DEF TypeOK
<1>3. ASSUME NEW y \in ops', NEW z \in ops', y.op = "add", y.id = z.id PROVE y = z
  <2>1. PICK o \in ops : y = (IF o \in which THEN Orphaned(o) ELSE o) /\ y.op = o.op /\ y.id = o.id
    BY <1>2
  <2>2. PICK x \in ops : z = (IF x \in which THEN Orphaned(x) ELSE x) /\ z.op = x.op /\ z.id = x.id
    BY <1>2
  <2> QED BY <1>3, <2>1, <2>2 DEF OpsInv
<1>4. \A y \in ops' : y.op = "add" <=> db'[y.id] = "new"
  BY <1>2 DEF OpsInv
<1> QED BY <1>2, <1>3, <1>4 DEF OpsInv

---------------------------------------------------------------------------
(* Steps that change nothing the invariant reads but news, stats, requests   *)
(* for records and the flags of the list.                                    *)
StatsType == SUBSET UNION {[S -> BOOLEAN] : S \in SUBSET Ids}
ListSteps ==
  \/ slim' \in {slim, Lacking(slim, FALSE)} /\ fetch' = fetch
  \/ invalidate
  \/ slim' = slim /\ fetch' \in {fetch, Fresh(fetch), NoFetch}
NewsSteps == news' = news \/ news' = << >> \/ (news # << >> /\ news' = Tail(news))
LEMMA Quiet ==
  ASSUME IInv, UNCHANGED <<db, rows, sel, bulk, mounted, ops>>, NewsSteps, ListSteps,
         stats' \in StatsType, asks' \subseteq Ask
  PROVE  IInv'
<1>1. Grows /\ SameNew
  BY DbRests DEF IInv, SameNew
<1>2. NewsKnown(db', news')
  BY <1>1, NewsRests DEF IInv, NewsSteps
<1>3. ListKept
  BY ListIsKept DEF IInv, ListSteps, invalidate
<1>4. OpsInv'
  BY <1>1, OpsRest DEF IInv
<1>5. rows' \in Lists /\ DOMAIN rows' = DOMAIN rows /\ ops' \subseteq Request
  BY DEF IInv, TypeOK
<1> QED BY <1>1, <1>2, <1>3, <1>4, <1>5, Rests DEF IInv, StatsType
LEMMA StatsTyped ==
  ASSUME IInv
  PROVE  stats \in StatsType /\ {} \in StatsType /\ {[i \in Listed(db) |-> db[i] = "on"]} \in StatsType
<1>1. Listed(db) \in SUBSET Ids /\ [i \in Listed(db) |-> db[i] = "on"] \in [Listed(db) -> BOOLEAN]
  BY DEF Listed
<1>2. [i \in Listed(db) |-> db[i] = "on"] \in UNION {[S -> BOOLEAN] : S \in SUBSET Ids}
  BY <1>1
<1> QED BY <1>2 DEF IInv, TypeOK, StatsType
LEMMA SocketPreserves ==
  ASSUME IInv, SocketStep \/ VisitElsewhere
  PROVE  IInv'
<1>1. UNCHANGED <<db, rows, sel, bulk, mounted, ops, asks>>
  BY DEF SocketStep, VisitElsewhere, ReconnectDue, Opens, SocketClosed, TooLarge, listVars, pageVars
<1>2. stats' \in {stats, {}}
  BY DEF SocketStep, VisitElsewhere, ReconnectDue, Opens, SocketClosed, TooLarge, Unheard
<1>3. NewsSteps
  BY DEF SocketStep, VisitElsewhere, ReconnectDue, Opens, SocketClosed, TooLarge, Unheard, NewsSteps
<1>4. ListSteps
  BY DEF SocketStep, VisitElsewhere, ReconnectDue, Opens, SocketClosed, TooLarge, Unheard, ListSteps, listVars
<1>5. stats' \in StatsType /\ asks' \subseteq Ask
  BY <1>1, <1>2, StatsTyped DEF IInv, TypeOK
<1> QED BY <1>1, <1>3, <1>4, <1>5, Quiet
LEMMA FetchPreserves ==
  ASSUME IInv, ListFailed \/ WindowFocus \/ InvalidateDue \/ StatsSent \/ EditClosed
  PROVE  IInv'
<1>1. UNCHANGED <<db, rows, sel, bulk, mounted, ops, asks>> /\ UNCHANGED news
  BY DEF ListFailed, WindowFocus, InvalidateDue, StatsSent, EditClosed, listVars, pageVars
<1>2. stats' \in {stats, {[i \in Listed(db) |-> db[i] = "on"]}}
  BY DEF ListFailed, WindowFocus, InvalidateDue, StatsSent, EditClosed
<1>3. ListSteps
  BY DEF ListFailed, WindowFocus, InvalidateDue, StatsSent, EditClosed, ListSteps, listVars
<1>4. stats' \in StatsType /\ asks' \subseteq Ask
  BY <1>1, <1>2, StatsTyped DEF IInv, TypeOK
<1> QED BY <1>1, <1>3, <1>4, Quiet DEF NewsSteps
LEMMA AskPreserves ==
  ASSUME IInv,
         \/ \E i \in Ids, key \in {"edit", "info"} : onRowAction(i, key)
         \/ \E a \in asks : RecordRead(a) \/ RecordFailed(a)
  PROVE  IInv'
<1>1. UNCHANGED <<db, rows, sel, bulk, mounted, ops>> /\ UNCHANGED <<news, stats, slim, fetch>>
  BY DEF onRowAction, RecordRead, RecordFailed, listVars
<1>2. asks' \subseteq Ask
  <2>1. ASSUME NEW i \in Ids, NEW key \in {"edit", "info"}, onRowAction(i, key) PROVE asks' \subseteq Ask
    <3>1. rows[i] \in RowType
      BY <2>1, ListsAre DEF onRowAction, IInv, TypeOK
    <3>2. [id |-> i, key |-> key, secrets |-> rows[i].secrets, read |-> FALSE, on |-> FALSE] \in Ask
      BY <3>1 DEF Ask, RowType
    <3>3. asks \subseteq Ask
      BY DEF IInv, TypeOK
    <3> QED BY <2>1, <3>2, <3>3 DEF onRowAction
  <2>2. ASSUME NEW a \in asks, RecordRead(a) PROVE asks' \subseteq Ask
    <3>1. a \in Ask /\ asks \subseteq Ask
      BY DEF IInv, TypeOK
    <3>2. [a EXCEPT !.read = TRUE, !.on = db[a.id] = "on"] \in Ask
      BY <3>1 DEF Ask
    <3> QED BY <2>2, <3>1, <3>2 DEF RecordRead
  <2>3. ASSUME NEW a \in asks, RecordFailed(a) PROVE asks' \subseteq Ask
    BY <2>3 DEF RecordFailed, IInv, TypeOK
  <2> QED BY <2>1, <2>2, <2>3
<1> QED BY <1>1, <1>2, StatsTyped, Quiet DEF NewsSteps, ListSteps

(* The server answers the list request, and the statistics are merged.       *)
LEMMA ServerReadsPreserves ==
  ASSUME IInv, ServerReads
  PROVE  IInv'
<1>1. List(db, FALSE) \in Lists /\ DOMAIN List(db, FALSE) \subseteq Added(db)
  <2>1. db \in [Ids -> {"new", "on", "off", "gone"}] /\ FALSE \in BOOLEAN
    BY DEF IInv, TypeOK
  <2> QED BY <2>1, ListIsList
<1>2. fetch' \in FetchType /\ fetch'.rows = List(db, FALSE)
  BY <1>1 DEF ServerReads, IInv, TypeOK, FetchType
<1> HIDE DEF FetchType
<1>3. UNCHANGED <<db, news, stats, slim, rows, sel, mounted, ops, bulk, asks>>
  BY DEF ServerReads, pageVars
<1>4. TypeOK'
  BY <1>2, <1>3 DEF IInv, TypeOK, FetchType
<1>5. KnownInv'
  BY <1>1, <1>2, <1>3 DEF IInv, KnownInv
<1>6. OpsInv' /\ ShownInv' /\ BulkInv'
  BY <1>3 DEF IInv, OpsInv, ShownInv, BulkInv, LeftOut
<1> QED BY <1>4, <1>5, <1>6 DEF IInv
LEMMA StatsPreserve ==
  ASSUME IInv, applyClientStatsEvent
  PROVE  IInv'
<1>1. rows' \in Lists /\ DOMAIN rows' = DOMAIN rows
  BY MergedIsList DEF applyClientStatsEvent, IInv, TypeOK
<1>2. UNCHANGED <<db, news, slim, fetch, sel, mounted, ops, bulk, asks>> /\ stats' \in StatsType
  BY StatsTyped DEF applyClientStatsEvent, pageVars
<1>3. Grows /\ SameNew
  BY <1>2, DbRests DEF IInv, SameNew
<1>4. NewsKnown(db', news') /\ ListKept
  BY <1>2, <1>3, NewsRests, ListIsKept DEF IInv
<1>5. OpsInv'
  BY <1>2, <1>3, OpsRest DEF IInv
<1>6. ops' \subseteq Request /\ asks' \subseteq Ask
  BY <1>2 DEF IInv, TypeOK
<1> QED BY <1>1, <1>2, <1>3, <1>4, <1>5, <1>6, Rests DEF IInv, StatsType

---------------------------------------------------------------------------
(* Data arrives: an answer of the list request or a pushed list.             *)
LEMMA AllOrphaned ==
  ASSUME IInv, UNCHANGED db, ops' = {[o EXCEPT !.live = FALSE] : o \in ops}
  PROVE  ops' \subseteq Request /\ OpsInv'
<1>1. ops' = {IF o \in ops THEN Orphaned(o) ELSE o : o \in ops}
  BY DEF Orphaned
<1> QED BY <1>1, OpsOrphaned DEF IInv
LEMMA Arrived ==
  ASSUME IInv, NEW x, x.rows \in Lists, x.missed \in BOOLEAN, x.late \in BOOLEAN,
         DOMAIN x.rows \subseteq Added(db), Arrives(x),
         UNCHANGED <<db, mounted, bulk, stats, asks>>, NewsKnown(db', news'),
         fetch' \in FetchType, DOMAIN fetch'.rows \subseteq Added(db)
  PROVE  IInv'
<1>1. slim' \in SlimType /\ slim'.rows = x.rows /\ slim'.loaded
  BY DEF Arrives, ListLoaded, SlimType
<1>2. rows' \in Lists /\ DOMAIN rows' \subseteq Added(db) /\ sel' \subseteq sel
  BY DEF Arrives, Seed, IInv, TypeOK, KnownInv
<1>3. ops' \subseteq Request /\ OpsInv'
  <2>1. ops' = ops \/ ops' = {[o EXCEPT !.live = FALSE] : o \in ops}
    BY DEF Arrives, Seed
  <2>2. CASE ops' = ops
    BY <2>2 DEF IInv, TypeOK, OpsInv
  <2> QED BY <2>1, <2>2, AllOrphaned
<1>4. ShownInv'
  <2>1. CASE mounted
    BY <2>1, <1>1 DEF Arrives, Seed, IInv, ShownInv
  <2>2. CASE ~mounted
    BY <2>2, <1>1 DEF Arrives, IInv, ShownInv
  <2> QED BY <2>1, <2>2
<1>5. TypeOK'
  BY <1>1, <1>2, <1>3 DEF IInv, TypeOK, SlimType, FetchType, NewsKnown
<1>6. KnownInv'
  <2>1. Added(db') = Added(db)
    BY DEF Added
  <2> QED BY <1>1, <1>2, <2>1 DEF IInv, KnownInv, NewsKnown
<1>7. BulkInv'
  BY DEF IInv, BulkInv, LeftOut, Listed
<1> QED BY <1>3, <1>4, <1>5, <1>6, <1>7 DEF IInv
LEMMA ListAnsweredPreserves ==
  ASSUME IInv, ListAnswered
  PROVE  IInv'
<1>1. UNCHANGED <<db, mounted, bulk, stats, asks>> /\ news' = news /\ fetch' = NoFetch
      /\ Arrives(fetch)
  BY DEF ListAnswered
<1>2. fetch.rows \in Lists /\ fetch.missed \in BOOLEAN /\ fetch.late \in BOOLEAN /\ DOMAIN fetch.rows \subseteq Added(db)
  BY DEF IInv, TypeOK, KnownInv
<1>3. NoFetch \in FetchType /\ DOMAIN NoFetch.rows = {}
  BY ListsAre DEF NoFetch, FetchType
<1>4. NewsKnown(db', news')
  BY <1>1, DbRests, NewsRests DEF IInv
<1> HIDE DEF NoFetch, FetchType
<1> QED BY <1>1, <1>2, <1>3, <1>4, Arrived
LEMMA NewsArrivesPreserves ==
  ASSUME IInv, NewsArrives
  PROVE  IInv'
<1>1. UNCHANGED <<db, mounted, bulk, stats, asks>> /\ news # << >> /\ news' = Tail(news)
  BY DEF NewsArrives
<1>2. CASE Head(news).type = "invalidate"
  <2>1. UNCHANGED <<slim, fetch, rows, sel, ops>>
    BY <1>2 DEF NewsArrives
  <2>2. stats' \in StatsType /\ asks' \subseteq Ask
    BY <1>1, StatsTyped DEF IInv, TypeOK
  <2> QED BY <1>1, <2>1, <2>2, Quiet DEF NewsSteps, ListSteps
<1>3. CASE Head(news).type # "invalidate"
  <2>1. Arrives(Head(news)) /\ fetch' = fetch
    BY <1>3 DEF NewsArrives
  <2>2. Head(news) \in Message /\ DOMAIN Head(news).rows \subseteq Added(db)
    <3>1. news \in Seq(Message) /\ \A k \in DOMAIN news : DOMAIN news[k].rows \subseteq Added(db)
      BY DEF IInv, TypeOK, KnownInv
    <3> QED BY <1>1, <3>1, Taken
  <2>3. Head(news).rows \in Lists /\ Head(news).missed \in BOOLEAN /\ Head(news).late \in BOOLEAN
    BY <2>2 DEF Message
  <2>4. fetch \in FetchType /\ DOMAIN fetch.rows \subseteq Added(db)
    BY DEF IInv, TypeOK, KnownInv, FetchType
  <2>5. NewsKnown(db', news')
    BY <1>1, DbRests, NewsRests DEF IInv
  <2> HIDE DEF FetchType
  <2> QED BY <1>1, <2>1, <2>2, <2>3, <2>4, <2>5, Arrived
<1> QED BY <1>2, <1>3

---------------------------------------------------------------------------
(* The page is left and opened again, rows are selected.                     *)
LEMMA LeavePreserves ==
  ASSUME IInv, Leave
  PROVE  IInv'
<1>1. UNCHANGED <<db, news, stats, slim, fetch, bulk, asks>> /\ mounted' = FALSE /\ rows' = << >> /\ sel' = {}
      /\ ops' = {[o EXCEPT !.live = FALSE] : o \in ops}
  BY DEF Leave
<1>2. ops' \subseteq Request /\ OpsInv'
  BY <1>1, AllOrphaned
<1>3. TypeOK'
  BY <1>1, <1>2, ListsAre DEF IInv, TypeOK
<1>4. KnownInv' /\ ShownInv'
  BY <1>1, ListsAre DEF IInv, KnownInv, ShownInv
<1>5. BulkInv'
  BY <1>1 DEF IInv, BulkInv, LeftOut, Listed
<1> QED BY <1>2, <1>3, <1>4, <1>5 DEF IInv
LEMMA VisitPreserves ==
  ASSUME IInv, Visit
  PROVE  IInv'
<1>1. UNCHANGED <<db, news, stats, slim, sel, ops, bulk, asks>> /\ mounted' = TRUE /\ rows' = slim.rows
      /\ fetch' = Fresh(fetch) /\ ~mounted
  BY DEF Visit
<1>2. ListKept
  BY <1>1, ListIsKept DEF IInv
<1>3. TypeOK'
  BY <1>1, <1>2 DEF IInv, TypeOK, ListKept, FetchType
<1>4. KnownInv' /\ ShownInv'
  BY <1>1, <1>2, ListsAre DEF IInv, KnownInv, ShownInv, ListKept, Added
<1>5. BulkInv' /\ OpsInv'
  BY <1>1 DEF IInv, BulkInv, LeftOut, Listed, OpsInv
<1> QED BY <1>3, <1>4, <1>5 DEF IInv
LEMMA SelectPreserves ==
  ASSUME IInv, (\E i \in Ids : toggleSelected(i)) \/ (\E checked \in BOOLEAN : selectAll(checked))
  PROVE  IInv'
<1>1. UNCHANGED <<db, news, stats, slim, fetch, rows, mounted, ops, bulk, asks>> /\ mounted
      /\ sel' \subseteq DOMAIN rows
  BY DEF toggleSelected, selectAll, Select, Uncovered, pageVars, IInv, ShownInv
<1>2. DOMAIN rows \subseteq Ids
  BY ListsAre DEF IInv, TypeOK
<1>3. TypeOK'
  BY <1>1, <1>2 DEF IInv, TypeOK
<1>4. KnownInv' /\ ShownInv'
  BY <1>1 DEF IInv, KnownInv, ShownInv, Added
<1>5. BulkInv' /\ OpsInv'
  BY <1>1 DEF IInv, BulkInv, LeftOut, Listed, OpsInv
<1> QED BY <1>3, <1>4, <1>5 DEF IInv

---------------------------------------------------------------------------
(* Requests that change an inbound.                                          *)
LEMMA SwitchPreserves ==
  ASSUME IInv, NEW i \in Ids, NEW next \in BOOLEAN, onSwitchEnable(i, next)
  PROVE  IInv'
<1> DEFINE o == [op |-> "setEnable", id |-> i, on |-> next, previous |-> rows[i].on, live |-> TRUE]
<1>1. UNCHANGED <<db, news, stats, slim, fetch, sel, mounted, bulk, asks>> /\ i \in DOMAIN rows
      /\ rows' = [rows EXCEPT ![i].on = next] /\ ops' = ops \cup {o}
  BY DEF onSwitchEnable
<1>2. rows \in Lists /\ rows[i] \in RowType /\ db[i] # "new"
  BY <1>1, ListsAre DEF IInv, TypeOK, KnownInv, Added
<1>3. rows' \in Lists /\ DOMAIN rows' = DOMAIN rows
  <2>1. [rows[i] EXCEPT !.on = next] \in RowType
    BY <1>2 DEF RowType
  <2>2. rows' = [rows EXCEPT ![i] = [rows[i] EXCEPT !.on = next]]
    BY <1>1
  <2>3. rows \in Lists /\ i \in DOMAIN rows
    BY <1>1, <1>2
  <2> QED BY <2>1, <2>2, <2>3, ListsAre
<1>4. o \in Request /\ o.op # "add" /\ o.id = i
  BY <1>2 DEF Request, RowType
<1> HIDE DEF o
<1>5. OpsInv' /\ ops' \subseteq Request
  <2>1. TypeOK /\ OpsInv /\ ops \subseteq Request
    BY DEF IInv, TypeOK
  <2> QED BY <1>1, <1>2, <1>4, <2>1, OpAdded
<1>6. Grows /\ NewsKnown(db', news') /\ ListKept
  BY <1>1, DbRests, NewsRests, ListIsKept DEF IInv
<1>7. stats' \subseteq UNION {[S -> BOOLEAN] : S \in SUBSET Ids} /\ asks' \subseteq Ask
  BY <1>1 DEF IInv, TypeOK
<1> QED BY <1>1, <1>3, <1>5, <1>6, <1>7, Rests DEF IInv
LEMMA SendPreserves ==
  ASSUME IInv, NEW i \in Ids, confirmDelete(i) \/ confirmResetTraffic(i) \/ importInbound(i)
  PROVE  IInv'
<1>1. PICK op \in {"del", "reset", "add"} :
        /\ Send(op, i)
        /\ op = "add" => db[i] = "new" /\ \A x \in ops : x.id # i
        /\ op # "add" => i \in DOMAIN rows
  BY DEF confirmDelete, confirmResetTraffic, importInbound
<1> DEFINE o == [op |-> op, id |-> i, on |-> op = "add", previous |-> FALSE, live |-> FALSE]
<1>2. UNCHANGED <<db, news, stats, slim, fetch, rows, sel, mounted, bulk, asks>> /\ ops' = ops \cup {o}
  BY <1>1 DEF Send, listVars
<1>3. op # "add" => db[i] # "new"
  BY <1>1 DEF IInv, KnownInv, Added
<1>4. o \in Request /\ o.op = op /\ o.id = i
  BY DEF Request
<1> HIDE DEF o
<1>5. OpsInv' /\ ops' \subseteq Request
  <2>1. TypeOK /\ OpsInv /\ ops \subseteq Request
    BY DEF IInv, TypeOK
  <2> QED BY <1>1, <1>2, <1>3, <1>4, <2>1, OpAdded
<1>6. Grows /\ NewsKnown(db', news') /\ ListKept
  BY <1>2, DbRests, NewsRests, ListIsKept DEF IInv
<1>7. stats' \subseteq UNION {[S -> BOOLEAN] : S \in SUBSET Ids} /\ asks' \subseteq Ask /\ rows' \in Lists
  BY <1>2 DEF IInv, TypeOK
<1> QED BY <1>2, <1>5, <1>6, <1>7, Rests DEF IInv
LEMMA OpTakenOut ==
  ASSUME TypeOK, OpsInv, NEW o \in ops, ops' = ops \ {o},
         \A i \in Ids : db'[i] = "new" <=> (db[i] = "new" /\ (i # o.id \/ o.op # "add"))
  PROVE  OpsInv'
<1>1. ASSUME NEW x \in ops' PROVE x \in ops /\ x # o /\ x.id \in Ids /\ (x.op = "add" <=> db'[x.id] = "new")
  <2>1. x \in ops /\ x # o /\ x.id \in Ids
    BY DEF TypeOK, Request
  <2>2. x.id # o.id \/ o.op # "add"
    BY <2>1 DEF OpsInv
  <2> QED BY <2>1, <2>2 DEF OpsInv
<1> QED BY <1>1 DEF OpsInv
LEMMA OpDonePreserves ==
  ASSUME IInv, NEW o \in ops, OpDone(o)
  PROVE  IInv'
<1>1. PICK said \in Told(db', o) :
        Changed(said, TRUE) \/ (Say(said, TRUE) /\ invalidated(Overtaken(fetch, TRUE)))
  BY DEF OpDone
<1>2. UNCHANGED <<stats, rows, sel, mounted, bulk, asks>> /\ ops' = ops \ {o}
      /\ Takes(db, o) /\ db' = Effect(db, o)
  BY DEF OpDone
<1>3. o \in Request /\ (o.op = "add" => db[o.id] = "new")
  BY DEF IInv, TypeOK, OpsInv
<1>4. Grows /\ (\A i \in Ids : db'[i] = "new" <=> (db[i] = "new" /\ (i # o.id \/ o.op # "add")))
  <2>1. o.op \in {"setEnable", "del", "reset", "add"} /\ o.id \in Ids
    BY <1>3 DEF Request
  <2> QED BY <1>2, <1>3, <2>1, EffectGrows DEF IInv
<1>5. NewsKnown(db', news')
  BY <1>1, <1>4, ToldKnown, SaidKnown DEF IInv, Changed
<1>6. ListKept
  BY <1>1, ListIsKept DEF IInv
<1>7. OpsInv'
  BY <1>2, <1>4, OpTakenOut DEF IInv
<1>8. stats' \subseteq UNION {[S -> BOOLEAN] : S \in SUBSET Ids} /\ asks' \subseteq Ask /\ rows' \in Lists
      /\ ops' \subseteq Request
  BY <1>2 DEF IInv, TypeOK
<1> QED BY <1>2, <1>4, <1>5, <1>6, <1>7, <1>8, Rests DEF IInv
LEMMA RolledBackIsList ==
  ASSUME IInv, NEW o \in ops, RolledBack(o)
  PROVE  rows' \in Lists /\ DOMAIN rows' = DOMAIN rows
<1>1. rows \in Lists /\ o \in Request
  BY DEF IInv, TypeOK
<1>2. CASE o.id \notin DOMAIN rows \/ ~(o.op = "setEnable" /\ o.live)
  <2>1. rows' = rows
    BY <1>1, <1>2, ListsAre DEF RolledBack
  <2> QED BY <1>1, <2>1
<1>3. CASE o.id \in DOMAIN rows /\ o.op = "setEnable" /\ o.live
  <2>1. rows[o.id] \in RowType
    BY <1>1, <1>3, ListsAre
  <2>2. [rows[o.id] EXCEPT !.on = o.previous] \in RowType
    BY <1>1, <2>1 DEF RowType, Request
  <2>3. rows' = [rows EXCEPT ![o.id] = [rows[o.id] EXCEPT !.on = o.previous]]
    BY <1>3 DEF RolledBack
  <2> QED BY <1>1, <1>3, <2>2, <2>3, ListsAre
<1> QED BY <1>2, <1>3
LEMMA OpFailedPreserves ==
  ASSUME IInv, NEW o \in ops, OpFailed(o)
  PROVE  IInv'
<1>1. UNCHANGED <<stats, sel, mounted, bulk, asks>> /\ ops' = ops \ {o} /\ RolledBack(o)
  BY DEF OpFailed
<1>2. \/ UNCHANGED <<db, news, slim, fetch>>
      \/ Takes(db, o) /\ db' = Effect(db, o) /\ Changed(<< >>, FALSE)
  BY DEF OpFailed
<1>3. o \in Request /\ (o.op = "add" => db[o.id] = "new")
  BY DEF IInv, TypeOK, OpsInv
<1>4. Grows /\ OpsInv'
  <2>1. CASE UNCHANGED db
    BY <1>1, <2>1, DbRests, OpsRest DEF IInv, SameNew
  <2>2. CASE Takes(db, o) /\ db' = Effect(db, o)
    <3>1. o.op \in {"setEnable", "del", "reset", "add"} /\ o.id \in Ids
      BY <1>3 DEF Request
    <3>2. Grows /\ (\A i \in Ids : db'[i] = "new" <=> (db[i] = "new" /\ (i # o.id \/ o.op # "add")))
      BY <1>3, <2>2, <3>1, EffectGrows DEF IInv
    <3> QED BY <1>1, <3>2, OpTakenOut DEF IInv
  <2> QED BY <1>2, <2>1, <2>2
<1>5. NewsKnown(db', news')
  <2>1. CASE UNCHANGED news
    BY <1>4, <2>1, NewsRests DEF IInv
  <2>2. CASE Changed(<< >>, FALSE)
    <3>1. NewsKnown(db', << >>)
      BY DEF NewsKnown
    <3> QED BY <1>4, <2>2, <3>1, SaidKnown DEF IInv, Changed
  <2> QED BY <1>2, <2>1, <2>2
<1>6. ListKept
  BY <1>2, ListIsKept DEF IInv
<1>7. rows' \in Lists /\ DOMAIN rows' = DOMAIN rows
  BY <1>1, RolledBackIsList
<1>8. stats' \subseteq UNION {[S -> BOOLEAN] : S \in SUBSET Ids} /\ asks' \subseteq Ask /\ ops' \subseteq Request
  BY <1>1 DEF IInv, TypeOK
<1> QED BY <1>1, <1>4, <1>5, <1>6, <1>7, <1>8, Rests DEF IInv
LEMMA RecordAnsweredPreserves ==
  ASSUME IInv, NEW a \in asks, RecordAnswered(a)
  PROVE  IInv'
<1>1. UNCHANGED <<db, news, stats, slim, fetch, sel, mounted, bulk>> /\ asks' = asks \ {a}
      /\ rows' = (IF mounted THEN PutInPlace(rows, a.id, [on |-> a.on, secrets |-> TRUE]) ELSE rows)
      /\ ops' = {IF o.id = a.id THEN [o EXCEPT !.live = FALSE] ELSE o : o \in ops}
  BY DEF RecordAnswered
<1>2. ops' \subseteq Request /\ OpsInv'
  <2> DEFINE which == {o \in ops : o.id = a.id}
  <2>1. ops' = {IF o \in which THEN Orphaned(o) ELSE o : o \in ops} /\ which \in SUBSET ops
    BY <1>1 DEF Orphaned
  <2> HIDE DEF which
  <2> QED BY <1>1, <2>1, OpsOrphaned DEF IInv
<1>3. rows' \in Lists /\ DOMAIN rows' = DOMAIN rows
  <2>1. rows \in Lists /\ a \in Ask
    BY DEF IInv, TypeOK
  <2>2. [on |-> a.on, secrets |-> TRUE] \in RowType
    BY <2>1 DEF Ask, RowType
  <2> QED BY <1>1, <2>1, <2>2, ListsAre DEF PutInPlace
<1>4. Grows /\ NewsKnown(db', news') /\ ListKept
  BY <1>1, DbRests, NewsRests, ListIsKept DEF IInv
<1>5. stats' \subseteq UNION {[S -> BOOLEAN] : S \in SUBSET Ids} /\ asks' \subseteq Ask
  BY <1>1 DEF IInv, TypeOK
<1> QED BY <1>1, <1>2, <1>3, <1>4, <1>5, Rests DEF IInv

---------------------------------------------------------------------------
(* The bulk deletion, and what other sessions change.                        *)
LEMMA HandleBulkDeletePreserves ==
  ASSUME IInv, handleBulkDelete
  PROVE  IInv'
<1>1. PICK order \in [1..Cardinality(sel) -> sel] :
        ToSet(order) = sel /\ bulk' = [step |-> "ask", targets |-> sel, todo |-> order, failed |-> 0]
  BY DEF handleBulkDelete
<1>2. UNCHANGED <<db, news, stats, slim, fetch, rows, sel, mounted, ops, asks>>
  BY DEF handleBulkDelete, listVars
<1>3. order \in Seq(Ids)
  <2>1. sel \in SUBSET Ids /\ Cardinality(sel) \in Nat
    BY IdsAssumption, FS_Subset, FS_CardinalityType DEF IInv, TypeOK
  <2> QED BY <2>1
<1>4. bulk'.targets = sel /\ bulk'.todo = order /\ bulk'.failed = 0
      /\ bulk' \in [step : {"none", "ask", "run"}, targets : SUBSET Ids, todo : Seq(Ids), failed : Nat]
  BY <1>1, <1>3 DEF IInv, TypeOK
<1>5. BulkInv'
  <2>1. LeftOut' = {}
    BY <1>1, <1>4 DEF LeftOut
  <2> QED BY <1>4, <2>1, FS_EmptySet DEF BulkInv
<1>6. TypeOK'
  BY <1>2, <1>4 DEF IInv, TypeOK
<1>7. KnownInv' /\ OpsInv' /\ ShownInv'
  BY <1>2, <1>4 DEF IInv, KnownInv, OpsInv, ShownInv, Added
<1> QED BY <1>5, <1>6, <1>7 DEF IInv

(* A step of the deletion that only looks at it, or ends it.                 *)
LEMMA BulkTurns ==
  ASSUME IInv, UNCHANGED <<db, news, stats, rows, mounted, ops, asks>>, ListKept, sel' \in {sel, {}},
         bulk' = NoBulk \/ bulk' = [bulk EXCEPT !.step = "run"]
  PROVE  IInv'
<1> DEFINE Bulks == [step : {"none", "ask", "run"}, targets : SUBSET Ids, todo : Seq(Ids), failed : Nat]
<1>0. bulk \in Bulks
  BY DEF IInv, TypeOK
<1>1. bulk' \in Bulks /\ bulk'.targets \subseteq bulk.targets
  <2>1. CASE bulk' = NoBulk
    <3>1. << >> \in Seq(Ids)
      OBVIOUS
    <3>2. NoBulk \in Bulks /\ NoBulk.targets = {}
      BY <3>1 DEF NoBulk
    <3> QED BY <2>1, <3>2
  <2>2. CASE bulk' = [bulk EXCEPT !.step = "run"]
    BY <1>0, <2>2
  <2> QED BY <2>1, <2>2
<1>2. TypeOK'
  BY <1>1 DEF IInv, TypeOK, ListKept, SlimType, FetchType
<1>3. KnownInv'
  <2>1. Added(db') = Added(db)
    BY DEF Added
  <2>2. DOMAIN fetch'.rows \subseteq Added(db)
    BY ListsAre DEF IInv, KnownInv, ListKept
  <2> QED BY <1>1, <2>1, <2>2 DEF IInv, KnownInv, ListKept
<1>4. ShownInv' /\ OpsInv'
  BY DEF IInv, ShownInv, ListKept, OpsInv
<1>5. BulkInv'
  <2>1. CASE bulk' = NoBulk
    <3>1. LeftOut' = {} /\ bulk'.failed = 0
      BY <2>1 DEF LeftOut, NoBulk
    <3> QED BY <3>1, FS_EmptySet DEF BulkInv
  <2>2. CASE bulk' = [bulk EXCEPT !.step = "run"]
    <3>1. bulk'.targets = bulk.targets /\ bulk'.todo = bulk.todo /\ bulk'.failed = bulk.failed
      BY <2>2 DEF IInv, TypeOK
    <3> QED BY <3>1 DEF IInv, BulkInv, LeftOut, Listed
  <2> QED BY <2>1, <2>2
<1> QED BY <1>2, <1>3, <1>4, <1>5 DEF IInv

(* One inbound of the deletion is answered: it is gone, or it is counted.    *)
LEMMA TodoTaken ==
  ASSUME TypeOK, bulk.todo # << >>, NEW ok \in BOOLEAN, BulkAnswered(ok)
  PROVE  /\ bulk' \in [step : {"none", "ask", "run"}, targets : SUBSET Ids, todo : Seq(Ids), failed : Nat]
         /\ bulk'.targets = bulk.targets /\ bulk'.failed = IF ok THEN bulk.failed ELSE bulk.failed + 1
         /\ Head(bulk.todo) \in Ids /\ ToSet(bulk.todo) \subseteq ToSet(bulk'.todo) \cup {Head(bulk.todo)}
<1>1. bulk.todo \in Seq(Ids) /\ bulk.failed \in Nat
  BY DEF TypeOK
<1>2. /\ Head(bulk.todo) \in Ids /\ Tail(bulk.todo) \in Seq(Ids)
      /\ \A k \in DOMAIN bulk.todo :
            bulk.todo[k] = Head(bulk.todo) \/ (k - 1 \in DOMAIN Tail(bulk.todo) /\ Tail(bulk.todo)[k - 1] = bulk.todo[k])
  BY <1>1, Taken
<1>3. bulk'.todo = Tail(bulk.todo) /\ bulk'.targets = bulk.targets
      /\ bulk'.failed = IF ok THEN bulk.failed ELSE bulk.failed + 1
  BY DEF BulkAnswered, TypeOK
<1>4. bulk' \in [step : {"none", "ask", "run"}, targets : SUBSET Ids, todo : Seq(Ids), failed : Nat]
  <2> DEFINE Bulks == [step : {"none", "ask", "run"}, targets : SUBSET Ids, todo : Seq(Ids), failed : Nat]
             taken == Tail(bulk.todo)
             failures == IF ok THEN bulk.failed ELSE bulk.failed + 1
  <2>1. bulk \in Bulks
    BY DEF TypeOK
  <2>2. taken \in Seq(Ids) /\ failures \in Nat
    BY <1>1, <1>2
  <2>3. bulk' = [bulk EXCEPT !.todo = taken, !.failed = failures]
    BY DEF BulkAnswered
  <2> HIDE DEF taken, failures
  <2> QED BY <2>1, <2>2, <2>3
<1>5. ToSet(bulk.todo) \subseteq ToSet(bulk'.todo) \cup {Head(bulk.todo)}
  BY <1>2, <1>3 DEF ToSet
<1> QED BY <1>2, <1>3, <1>4, <1>5
LEMMA BulkAnsweredPreserves ==
  ASSUME IInv, NEW ok \in BOOLEAN, bulk.todo # << >>, BulkAnswered(ok), Grows, SameNew,
         ok => Head(bulk.todo) \notin Listed(db'), NewsKnown(db', news'), ListKept,
         UNCHANGED <<stats, rows, sel, mounted, ops, asks>>
  PROVE  IInv'
<1>1. TypeOK
  BY DEF IInv
<1>2. BulkInv'
  <2> DEFINE head == Head(bulk.todo)
  <2>1. LeftOut' \subseteq LeftOut \cup {head} /\ (ok => head \notin LeftOut')
    BY <1>1, TodoTaken DEF LeftOut, IInv, KnownInv, TypeOK, Added, Grows, Listed
  <2>2. IsFiniteSet(LeftOut) /\ Cardinality(LeftOut) \in Nat /\ bulk.failed \in Nat
        /\ Cardinality(LeftOut) <= bulk.failed
    BY <1>1, LeftOutFinite DEF IInv, BulkInv, TypeOK
  <2>3. CASE ok
    <3>1. LeftOut' \in SUBSET LeftOut
      BY <2>1, <2>3
    <3>2. Cardinality(LeftOut') <= Cardinality(LeftOut) /\ Cardinality(LeftOut') \in Nat
      BY <2>2, <3>1, FS_Subset, FS_CardinalityType
    <3>3. bulk'.failed = bulk.failed
      BY <1>1, <2>3, TodoTaken
    <3> QED BY <2>2, <3>2, <3>3 DEF BulkInv
  <2>4. CASE ~ok
    <3>1. IsFiniteSet(LeftOut \cup {head}) /\ Cardinality(LeftOut \cup {head}) \in Nat
          /\ Cardinality(LeftOut \cup {head}) <= Cardinality(LeftOut) + 1
      <4>1. Cardinality(LeftOut \cup {head}) = (IF head \in LeftOut THEN Cardinality(LeftOut) ELSE Cardinality(LeftOut) + 1)
            /\ IsFiniteSet(LeftOut \cup {head})
        BY <2>2, FS_AddElement
      <4> QED BY <2>2, <4>1
    <3>2. Cardinality(LeftOut') <= Cardinality(LeftOut \cup {head}) /\ Cardinality(LeftOut') \in Nat
      BY <2>1, <3>1, FS_Subset, FS_CardinalityType
    <3> QED BY <1>1, <2>2, <2>4, <3>1, <3>2, TodoTaken DEF BulkInv
  <2> QED BY <2>3, <2>4
<1>3. TypeOK'
  BY <1>1, TodoTaken DEF TypeOK, ListKept, SlimType, FetchType, NewsKnown, Grows
<1>4. KnownInv'
  <2>1. Added(db) \subseteq Added(db')
    BY <1>1, AddedGrows
  <2>2. DOMAIN fetch'.rows \subseteq Added(db)
    BY ListsAre DEF IInv, KnownInv, ListKept
  <2> QED BY <1>1, <2>1, <2>2, TodoTaken DEF IInv, KnownInv, ListKept, NewsKnown
<1>5. ShownInv' /\ OpsInv'
  BY <1>1, OpsRest DEF IInv, ShownInv, ListKept
<1> QED BY <1>2, <1>3, <1>4, <1>5 DEF IInv
LEMMA BulkTurnsPreserve ==
  ASSUME IInv, BulkCancelled \/ BulkConfirmed \/ BulkFinished
  PROVE  IInv'
<1>1. UNCHANGED <<db, news, stats, rows, mounted, ops, asks>>
      /\ (bulk' = NoBulk \/ bulk' = [bulk EXCEPT !.step = "run"])
  BY DEF BulkCancelled, BulkConfirmed, BulkFinished, listVars
<1>2. sel' \in {sel, {}}
  BY DEF BulkCancelled, BulkConfirmed, BulkFinished, listVars
<1>3. invalidate \/ UNCHANGED <<slim, fetch>>
  BY DEF BulkCancelled, BulkConfirmed, BulkFinished, listVars
<1>4. ListKept
  BY <1>3, ListIsKept DEF IInv, invalidate
<1> QED BY <1>1, <1>2, <1>4, BulkTurns
LEMMA DelGrows ==
  ASSUME TypeOK, NEW i \in Ids, db' = Effect(db, [op |-> "del", id |-> i])
  PROVE  Grows /\ SameNew /\ i \notin Listed(db')
<1>1. db' = [db EXCEPT ![i] = IF db[i] = "new" THEN db[i] ELSE "gone"]
  BY DEF Effect
<1> QED BY <1>1 DEF TypeOK, Listed, Grows, SameNew
LEMMA BulkDeletedPreserves ==
  ASSUME IInv, BulkDeleted
  PROVE  IInv'
<1>1. bulk.todo # << >> /\ db' = Effect(db, [op |-> "del", id |-> Head(bulk.todo)]) /\ BulkAnswered(TRUE)
      /\ UNCHANGED <<stats, rows, sel, mounted, ops, asks>>
  BY DEF BulkDeleted
<1>2. PICK said \in Told(db', [op |-> "del"]) : Changed(said, TRUE)
  BY DEF BulkDeleted, DelTold
<1>3. Head(bulk.todo) \in Ids
  BY <1>1, TodoTaken DEF IInv
<1>4. Grows /\ SameNew /\ Head(bulk.todo) \notin Listed(db')
  BY <1>1, <1>3, DelGrows DEF IInv
<1>5. NewsKnown(db', news')
  BY <1>2, <1>4, ToldKnown, SaidKnown DEF IInv, Changed
<1>6. ListKept
  BY <1>2, ListIsKept DEF IInv
<1> QED BY <1>1, <1>4, <1>5, <1>6, BulkAnsweredPreserves
LEMMA BulkFailedPreserves ==
  ASSUME IInv, BulkFailed
  PROVE  IInv'
<1>1. bulk.todo # << >> /\ BulkAnswered(FALSE) /\ UNCHANGED <<stats, rows, sel, mounted, ops, asks>>
  BY DEF BulkFailed
<1>2. \/ UNCHANGED <<db, news, slim, fetch>>
      \/ db' = Effect(db, [op |-> "del", id |-> Head(bulk.todo)]) /\ Changed(<< >>, FALSE)
  BY DEF BulkFailed
<1>3. Head(bulk.todo) \in Ids
  BY <1>1, TodoTaken DEF IInv
<1>4. Grows /\ SameNew
  BY <1>2, <1>3, DelGrows, DbRests DEF IInv, SameNew
<1>5. NewsKnown(db', news')
  <2>1. CASE UNCHANGED news
    BY <1>4, <2>1, NewsRests DEF IInv
  <2>2. CASE Changed(<< >>, FALSE)
    <3>1. NewsKnown(db', << >>)
      BY DEF NewsKnown
    <3> QED BY <1>4, <2>2, <3>1, SaidKnown DEF IInv, Changed
  <2> QED BY <1>2, <2>1, <2>2
<1>6. ListKept
  BY <1>2, ListIsKept DEF IInv
<1> QED BY <1>1, <1>4, <1>5, <1>6, BulkAnsweredPreserves
LEMMA OthersChangePreserves ==
  ASSUME IInv, OthersChange
  PROVE  IInv'
<1>1. PICK o : /\ o.op \in {"setEnable", "del", "add"} /\ o.id \in Ids
               /\ IF o.op = "add" THEN db[o.id] = "new" /\ (\A x \in ops : x.id # o.id) ELSE o.id \in Listed(db)
               /\ db' = Effect(db, o)
               /\ \E said \in Told(db', o) : Changed(said, FALSE)
  <2>1. PICK i \in Ids, op \in {"setEnable", "del", "add"}, on \in BOOLEAN :
          /\ IF op = "add" THEN db[i] = "new" /\ (\A x \in ops : x.id # i) ELSE i \in Listed(db)
          /\ db' = Effect(db, [op |-> op, id |-> i, on |-> on])
          /\ \E said \in Told(db', [op |-> op, id |-> i, on |-> on]) : Changed(said, FALSE)
    BY DEF OthersChange
  <2> DEFINE o == [op |-> op, id |-> i, on |-> on]
  <2>2. o.op = op /\ o.id = i
    OBVIOUS
  <2>3. /\ db' = Effect(db, o)
        /\ \E said \in Told(db', o) : Changed(said, FALSE)
    BY <2>1
  <2> HIDE DEF o
  <2> QED BY <2>1, <2>2, <2>3
<1>2. PICK said \in Told(db', o) : Changed(said, FALSE)
  BY <1>1
<1>3. UNCHANGED <<stats, rows, sel, mounted, ops, bulk, asks>>
  BY DEF OthersChange, pageVars
<1>4. Grows /\ (\A i \in Ids : db'[i] = "new" <=> (db[i] = "new" /\ (i # o.id \/ o.op # "add")))
  <2>1. Takes(db, o) /\ (o.op = "add" => db[o.id] = "new")
    BY <1>1 DEF Takes
  <2> QED BY <1>1, <2>1, EffectGrows DEF IInv
<1>5. OpsInv'
  <2>1. \A x \in ops : x.id \in Ids /\ (db'[x.id] = "new" <=> db[x.id] = "new")
    BY <1>1, <1>4 DEF IInv, TypeOK, Request
  <2> QED BY <1>3, <2>1 DEF IInv, OpsInv
<1>6. NewsKnown(db', news')
  BY <1>2, <1>4, ToldKnown, SaidKnown DEF IInv, Changed
<1>7. ListKept
  BY <1>2, ListIsKept DEF IInv
<1>8. stats' \subseteq UNION {[S -> BOOLEAN] : S \in SUBSET Ids} /\ asks' \subseteq Ask /\ rows' \in Lists
      /\ ops' \subseteq Request
  BY <1>3 DEF IInv, TypeOK
<1> QED BY <1>3, <1>4, <1>5, <1>6, <1>7, <1>8, Rests DEF IInv

---------------------------------------------------------------------------
(* The invariant holds when the page is opened, and every step keeps it.     *)
LEMMA InitInv == Init => IInv
<1> SUFFICES ASSUME Init PROVE IInv
  OBVIOUS
<1>1. TypeOK
  <2>1. << >> \in Seq(Message) /\ << >> \in Seq(Ids) /\ << >> \in Lists
    BY ListsAre
  <2>2. NotLoaded \in SlimType /\ Asked \in FetchType
    BY <2>1 DEF NotLoaded, Asked, NoFetch, SlimType, FetchType
  <2>3. NoBulk \in [step : {"none", "ask", "run"}, targets : SUBSET Ids, todo : Seq(Ids), failed : Nat]
    BY <2>1 DEF NoBulk
  <2>4. db \in [Ids -> {"new", "on", "off", "gone"}]
    BY DEF Init
  <2> HIDE DEF NotLoaded, Asked, NoBulk
  <2> QED BY <2>1, <2>2, <2>3, <2>4 DEF Init, TypeOK, SlimType, FetchType
<1>2. KnownInv /\ ShownInv
  <2>1. slim.rows = << >> /\ ~slim.loaded /\ fetch.rows = << >> /\ rows = << >> /\ news = << >> /\ sel = {}
        /\ bulk.targets = {}
    BY DEF Init, NotLoaded, Asked, NoFetch, NoBulk
  <2> QED BY <2>1, ListsAre DEF KnownInv, ShownInv
<1>3. OpsInv
  BY DEF Init, OpsInv
<1>4. BulkInv
  <2>1. LeftOut = {} /\ bulk.failed = 0
    BY DEF Init, NoBulk, LeftOut
  <2> QED BY <2>1, FS_EmptySet DEF BulkInv
<1> QED BY <1>1, <1>2, <1>3, <1>4 DEF IInv
LEMMA StepInv == IInv /\ [Next]_vars => IInv'
<1> SUFFICES ASSUME IInv, [Next]_vars PROVE IInv'
  OBVIOUS
<1>1. CASE SocketStep
  BY <1>1, SocketPreserves
<1>2. CASE ListStep
  BY <1>2, FetchPreserves, ServerReadsPreserves, ListAnsweredPreserves, NewsArrivesPreserves, StatsPreserve
  DEF ListStep
<1>3. CASE RowStep
  BY <1>3, SwitchPreserves, SendPreserves, SelectPreserves, AskPreserves, OpDonePreserves, OpFailedPreserves,
     RecordAnsweredPreserves, FetchPreserves DEF RowStep
<1>4. CASE BulkStep
  BY <1>4, HandleBulkDeletePreserves, BulkTurnsPreserve, BulkDeletedPreserves, BulkFailedPreserves DEF BulkStep
<1>5. CASE Leave \/ Visit \/ VisitElsewhere
  BY <1>5, LeavePreserves, VisitPreserves, SocketPreserves
<1>6. CASE OthersChange
  BY <1>6, OthersChangePreserves
<1>7. CASE UNCHANGED vars
  <2>1. UNCHANGED <<db, rows, sel, bulk, mounted, ops, asks, news, stats, slim, fetch>>
    BY <1>7 DEF vars, listVars, pageVars
  <2>2. stats' \in StatsType /\ asks' \subseteq Ask
    BY <2>1, StatsTyped DEF IInv, TypeOK
  <2> QED BY <2>1, <2>2, Quiet DEF NewsSteps, ListSteps
<1> QED BY <1>1, <1>2, <1>3, <1>4, <1>5, <1>6, <1>7 DEF Next

(* Every reachable state satisfies the invariant.                           *)
THEOREM Inductive == Spec => []IInv
BY InitInv, StepInv, PTL DEF Spec

(* The page lists the inbounds of the list it holds and selects only among  *)
(* them, whatever pushes, refetches and hydrate answers come in which order.*)
THEOREM OnlyListed == Spec => []OnlyTheListed
<1>1. IInv => OnlyTheListed
  BY DEF IInv, ShownInv, OnlyTheListed
<1> QED BY <1>1, Inductive, PTL

(* A bulk deletion of any size ends with every inbound it was asked for     *)
(* deleted, but for as many as it counted as failed: no failure, push or    *)
(* other session stops the others or brings one back.                       *)
THEOREM BulkDeletesAll == Spec => BulkTriesAll
<1>1. ASSUME IInv, BulkFinished
      PROVE  Cardinality(bulk.targets \cap Listed(db)) <= bulk.failed
  <2>1. ToSet(bulk.todo) = {}
    <3>1. bulk.todo = << >>
      BY <1>1 DEF BulkFinished
    <3> QED BY <3>1 DEF ToSet
  <2>2. LeftOut = bulk.targets \cap Listed(db)
    BY <2>1 DEF LeftOut
  <2> QED BY <1>1, <2>2 DEF IInv, BulkInv
<1>2. IInv /\ [Next]_vars => [BulkFinished => Cardinality(bulk.targets \cap Listed(db)) <= bulk.failed]_vars
  BY <1>1
<1> QED BY <1>2, Inductive, PTL DEF Spec, BulkTriesAll

---------------------------------------------------------------------------
(* The sockets, of which nothing else in the page takes notice.              *)
SocketsOK ==
  /\ ws \in [Sides -> {"none", "connecting", "open", "closing"}] /\ timer \in [Sides -> BOOLEAN]
  /\ OneSocketOrTimer
LEMMA SocketOpened ==
  ASSUME SocketsOK, NEW k \in Sides, ~Live(k), openSocket(k)
  PROVE  SocketsOK'
<1>1. CASE ws' = [ws EXCEPT ![k] = "connecting"] /\ timer' = [timer EXCEPT ![k] = FALSE]
  BY <1>1 DEF SocketsOK, OneSocketOrTimer, Live
<1>2. CASE timer' = [timer EXCEPT ![k] = TRUE] /\ ws' = ws
  BY <1>2 DEF SocketsOK, OneSocketOrTimer, Live
<1> QED BY <1>1, <1>2 DEF openSocket
LEMMA SocketConnected ==
  ASSUME SocketsOK, NEW k \in Sides, Connect(k)
  PROVE  SocketsOK'
<1>1. CASE Live(k)
  BY <1>1 DEF Connect, socketVars, SocketsOK, OneSocketOrTimer, Live
<1>2. CASE ~Live(k)
  BY <1>2, SocketOpened DEF Connect
<1> QED BY <1>1, <1>2
LEMMA SocketStepKeeps ==
  ASSUME SocketsOK, SocketStep
  PROVE  SocketsOK'
<1>1. PICK k \in Sides : ReconnectDue(k) \/ Opens(k) \/ SocketClosed(k) \/ TooLarge(k)
  BY DEF SocketStep
<1>2. CASE ReconnectDue(k)
  <2>1. timer[k] /\ openSocket(k)
    BY <1>2 DEF ReconnectDue
  <2> QED BY <2>1, SocketOpened DEF SocketsOK, OneSocketOrTimer
<1>3. CASE Opens(k)
  BY <1>3 DEF Opens, SocketsOK, OneSocketOrTimer, Live
<1>4. CASE SocketClosed(k)
  BY <1>4 DEF SocketClosed, SocketsOK, OneSocketOrTimer, Live
<1>5. CASE TooLarge(k)
  BY <1>5 DEF TooLarge, SocketsOK, OneSocketOrTimer, Live
<1> QED BY <1>1, <1>2, <1>3, <1>4, <1>5
(* A client of the push channel always has a live socket, one that is       *)
(* closing or a timer that opens the next, and no timer beside a live one.  *)
THEOREM SocketOrTimer == Spec => []OneSocketOrTimer
<1>1. Init => SocketsOK
  BY DEF Init, SocketsOK, OneSocketOrTimer, Live
<1>2. ASSUME SocketsOK, [Next]_vars PROVE SocketsOK'
  <2>1. CASE SocketStep
    BY <1>2, <2>1, SocketStepKeeps
  <2>2. CASE Visit \/ VisitElsewhere
    <3>1. Connect("page") /\ "page" \in Sides
      BY <2>2 DEF Visit, VisitElsewhere, Sides
    <3> QED BY <1>2, <3>1, SocketConnected
  <2>3. CASE UNCHANGED <<ws, timer>>
    BY <1>2, <2>3 DEF SocketsOK, OneSocketOrTimer, Live
  <2>4. CASE ListStep
    <3>1. UNCHANGED <<ws, timer>>
      BY <2>4 DEF ListStep, ServerReads, ListAnswered, ListFailed, WindowFocus, NewsArrives, InvalidateDue,
                  StatsSent, applyClientStatsEvent, socketVars
    <3> QED BY <2>3, <3>1
  <2>5. CASE RowStep
    <3>1. UNCHANGED <<ws, timer>>
      BY <2>5 DEF RowStep, onSwitchEnable, confirmDelete, confirmResetTraffic, importInbound, Send, OpDone,
                  OpFailed, onRowAction, RecordRead, RecordAnswered, RecordFailed, EditClosed, toggleSelected,
                  selectAll, Select, socketVars
    <3> QED BY <2>3, <3>1
  <2>6. CASE BulkStep \/ Leave \/ OthersChange
    <3>1. UNCHANGED <<ws, timer>>
      BY <2>6 DEF BulkStep, handleBulkDelete, BulkCancelled, BulkConfirmed, BulkDeleted, BulkFailed,
                  BulkFinished, Leave, OthersChange, socketVars
    <3> QED BY <2>3, <3>1
  <2>7. CASE UNCHANGED vars
    BY <2>3, <2>7 DEF vars, socketVars
  <2> QED BY <1>2, <2>1, <2>2, <2>4, <2>5, <2>6, <2>7 DEF Next
<1>3. SocketsOK => OneSocketOrTimer
  BY DEF SocketsOK
<1> QED BY <1>1, <1>2, <1>3, PTL DEF Spec

---------------------------------------------------------------------------
(* That a list the page takes for fresh is the server's (ListIsCurrent): the *)
(* same has to hold of the answers under way, of a fetch that has read and   *)
(* of the last list that was pushed.                                        *)
Matches(r, d) == DOMAIN r = Listed(d) /\ \A i \in Listed(d) : r[i].on = (d[i] = "on")
(* Nothing that tells of a change is on its way or waits for the 200 ms.     *)
Silent(s) == \A k \in DOMAIN s : s[k].of # "inbounds"
Settled == Silent(news) /\ "inbounds" \notin pending
SlimGood == slim.loaded /\ ~slim.stale /\ ~slim.missed /\ ~slim.late
FetchGood == fetch.read /\ ~fetch.missed /\ ~fetch.late
IsPush(m) == m.type = "inbounds" /\ ~m.missed /\ ~m.late
NewsMatch(s, d) ==
  /\ \A k \in DOMAIN s : s[k].type # "invalidate" => s[k].type = "inbounds" /\ s[k].of = "inbounds"
  /\ \A k \in DOMAIN s : (IsPush(s[k]) /\ \A j \in DOMAIN s : j > k => s[j].of # "inbounds") => Matches(s[k].rows, d)
CurrentInv ==
  /\ NewsMatch(news, db)
  /\ Settled /\ SlimGood => Matches(slim.rows, db)
  /\ FetchGood => Matches(fetch.rows, db)

---------------------------------------------------------------------------
(* What becomes of a list, and of a fetch under way: it is not better than   *)
(* before, or it is known to be of no use.                                  *)
Worse == /\ SlimGood' => SlimGood /\ slim'.rows = slim.rows
         /\ FetchGood' => FetchGood /\ fetch'.rows = fetch.rows
Lost == ~SlimGood' /\ ~FetchGood'
LEMMA FetchIsFresh ==
  ASSUME TypeOK, fetch' \in {fetch, Fresh(fetch), NoFetch, Asked}
  PROVE  FetchGood' => FetchGood /\ fetch'.rows = fetch.rows
<1>1. ~NoFetch.read /\ ~Asked.read
  BY DEF NoFetch, Asked
<1>2. fetch' = fetch \/ ~fetch'.read
  BY <1>1 DEF Fresh
<1> QED BY <1>2 DEF FetchGood
LEMMA Invalidated ==
  ASSUME TypeOK, NEW f, invalidated(f)
  PROVE  ~SlimGood' /\ fetch' \in {f, Asked}
<1>1. ~slim'.loaded \/ slim'.stale
  BY DEF TypeOK, invalidated
<1> QED BY <1>1 DEF SlimGood, invalidated, Refetched
LEMMA InvalidateWorse ==
  ASSUME TypeOK, invalidate
  PROVE  ~SlimGood' /\ Worse
BY Invalidated, FetchIsFresh DEF invalidate, Worse
LEMMA ListIsLost ==
  ASSUME TypeOK, NEW said,
         (\E own \in BOOLEAN : Changed(said, own)) \/ invalidated(Overtaken(fetch, TRUE))
  PROVE  (Heard(said) /\ ~FetchGood') \/ Lost
<1>1. ~Asked.read
  BY DEF Asked, NoFetch
<1>2. CASE invalidated(Overtaken(fetch, TRUE))
  BY <1>1, <1>2, Invalidated, OvertakenIsFetch DEF Lost, FetchGood
<1>3. ASSUME NEW own \in BOOLEAN, Changed(said, own)
      PROVE  (Heard(said) /\ ~FetchGood') \/ Lost
  <2>1. (own \/ Heard(said)) \in BOOLEAN
    BY DEF Heard
  <2>2. ~FetchGood'
    BY <1>3, <2>1, OvertakenIsFetch DEF Changed, FetchGood
  <2>3. Heard(said) \/ slim' = Lacking(slim, FALSE)
    BY <1>3 DEF Changed
  <2> QED BY <2>2, <2>3, OvertakenIsFetch DEF Lost, SlimGood
<1> QED BY <1>2, <1>3
LEMMA Kept ==
  ASSUME TypeOK, CurrentInv, UNCHANGED <<db, news, pending>>, Worse
  PROVE  CurrentInv'
BY DEF CurrentInv, Settled, Worse

---------------------------------------------------------------------------
(* What is on its way to the bridge after a change.                          *)
LEMMA ListMatches ==
  ASSUME NEW d, NEW secrets
  PROVE  Matches(List(d, secrets), d)
BY DEF Matches, List, Row
LEMMA ToldMatches ==
  ASSUME TypeOK, Grows, NEW o, NEW said \in Told(db', o)
  PROVE  said \in Seq(Message) /\ NewsMatch(said, db')
<1>1. said \in Seq(Message)
  BY ToldKnown DEF NewsKnown
<1>2. /\ Hint("inbounds").type = "invalidate" /\ ~IsPush(Hint("inbounds"))
      /\ Hint("clients").type = "invalidate" /\ ~IsPush(Hint("clients"))
  BY DEF Hint, IsPush
<1>3. Push(db').type = "inbounds" /\ Push(db').of = "inbounds" /\ Matches(Push(db').rows, db')
  BY ListMatches DEF Push
<1>4. said \in {<<Hint("inbounds")>>, << >>, <<Push(db'), Hint("clients")>>,
                <<Hint("inbounds"), Hint("clients")>>, <<Hint("clients")>>}
  BY Zenon DEF Told
<1> HIDE DEF Hint, Push, IsPush, Matches
<1>5. \A k \in DOMAIN said : said[k] \in {Hint("inbounds"), Hint("clients"), Push(db')}
  BY <1>4
<1>6. NewsMatch(said, db')
  BY <1>2, <1>3, <1>5 DEF NewsMatch
<1> QED BY <1>1, <1>6
LEMMA Appended ==
  ASSUME NEW s \in Seq(Message), NEW t \in Seq(Message), NEW d, NewsMatch(t, d),
         \A k \in DOMAIN s : s[k].type # "invalidate" => s[k].type = "inbounds" /\ s[k].of = "inbounds",
         \/ \E j \in DOMAIN t : t[j].of = "inbounds"
         \/ \A k \in DOMAIN s : s[k].missed \/ s[k].late
  PROVE  NewsMatch(s \o t, d)
<1> DEFINE st == s \o t
<1>1. /\ Len(s) \in Nat /\ DOMAIN s = 1..Len(s) /\ DOMAIN st \subseteq Nat
      /\ \A k \in DOMAIN st : (k \in DOMAIN s /\ st[k] = s[k])
                              \/ (k - Len(s) \in DOMAIN t /\ st[k] = t[k - Len(s)])
      /\ \A j \in DOMAIN t : j + Len(s) \in DOMAIN st /\ st[j + Len(s)] = t[j] /\ j \in Nat /\ j > 0
  OBVIOUS
<1> HIDE DEF st
<1>2. ASSUME NEW k \in DOMAIN st, st[k].type # "invalidate"
      PROVE  st[k].type = "inbounds" /\ st[k].of = "inbounds"
  BY <1>1, <1>2 DEF NewsMatch
<1>3. ASSUME NEW k \in DOMAIN st, IsPush(st[k]), \A j \in DOMAIN st : j > k => st[j].of # "inbounds"
      PROVE  Matches(st[k].rows, d)
  <2>1. CASE k \in DOMAIN s /\ st[k] = s[k]
    <3>1. PICK j \in DOMAIN t : t[j].of = "inbounds"
      BY <1>3, <2>1 DEF IsPush
    <3>2. j + Len(s) \in DOMAIN st /\ st[j + Len(s)] = t[j] /\ j + Len(s) > k
      BY <1>1, <2>1
    <3> QED BY <1>3, <3>1, <3>2
  <2>2. CASE k - Len(s) \in DOMAIN t /\ st[k] = t[k - Len(s)]
    <3>1. ASSUME NEW j \in DOMAIN t, j > k - Len(s) PROVE t[j].of # "inbounds"
      <4>1. j + Len(s) \in DOMAIN st /\ st[j + Len(s)] = t[j] /\ j + Len(s) > k
        BY <1>1, <3>1
      <4> QED BY <1>3, <4>1
    <3> QED BY <1>3, <2>2, <3>1 DEF NewsMatch
  <2> QED BY <1>1, <2>1, <2>2
<1>4. NewsMatch(st, d)
  BY <1>2, <1>3 DEF NewsMatch
<1> QED BY <1>4 DEF st
LEMMA SaidMatches ==
  ASSUME TypeOK, CurrentInv, NEW said \in Seq(Message), NewsMatch(said, db'), NEW own \in BOOLEAN, Say(said, own)
  PROVE  NewsMatch(news', db') /\ (Heard(said) => ~Settled')
<1> DEFINE heard == IF ws["bridge"] = "open" THEN said ELSE << >>
<1>1. news \in Seq(Message) /\ \A k \in DOMAIN news :
        news[k] \in Message /\ (news[k].type # "invalidate" => news[k].type = "inbounds" /\ news[k].of = "inbounds")
  <2>1. news \in Seq(Message)
    BY DEF TypeOK
  <2> QED BY <2>1 DEF CurrentInv, NewsMatch
<1>2. heard \in Seq(Message) /\ NewsMatch(heard, db')
  <2>1. << >> \in Seq(Message) /\ NewsMatch(<< >>, db')
    BY DEF NewsMatch
  <2> QED BY <2>1
<1>3. CASE Heard(said)
  <2>1. news' = news \o said
    BY <1>3 DEF Say, Heard
  <2>2. PICK j \in DOMAIN said : said[j].of = "inbounds"
    BY <1>3 DEF Heard, OfInbounds, ToSet
  <2>3. NewsMatch(news', db')
    BY <1>1, <2>1, <2>2, Appended
  <2>4. j + Len(news) \in DOMAIN news' /\ news'[j + Len(news)] = said[j]
    BY <1>1, <2>1
  <2> QED BY <2>2, <2>3, <2>4 DEF Settled, Silent
<1>4. CASE ~Heard(said)
  <2>1. news' = LackingAll(news, own) \o heard
    BY <1>4 DEF Say
  <2>2. LackingAll(news, own) \in Seq(Message) /\ \A k \in DOMAIN LackingAll(news, own) :
          /\ k \in DOMAIN news /\ (LackingAll(news, own)[k].missed \/ LackingAll(news, own)[k].late)
          /\ LackingAll(news, own)[k].type = news[k].type /\ LackingAll(news, own)[k].of = news[k].of
    <3>1. \A m \in Message : /\ Lacking(m, own) \in Message /\ (Lacking(m, own).missed \/ Lacking(m, own).late)
                             /\ Lacking(m, own).type = m.type /\ Lacking(m, own).of = m.of
      BY DEF Lacking, Message
    <3> HIDE DEF Lacking
    <3>2. \A k \in DOMAIN news : Lacking(news[k], own) \in Message
      BY <1>1, <3>1
    <3>3. LackingAll(news, own) \in Seq(Message) /\ DOMAIN LackingAll(news, own) = DOMAIN news
          /\ \A k \in DOMAIN news : LackingAll(news, own)[k] = Lacking(news[k], own)
      BY <1>1, <3>2 DEF LackingAll
    <3> QED BY <1>1, <3>1, <3>3
  <2> HIDE DEF heard
  <2>3. \A k \in DOMAIN LackingAll(news, own) : LackingAll(news, own)[k].type # "invalidate" =>
          LackingAll(news, own)[k].type = "inbounds" /\ LackingAll(news, own)[k].of = "inbounds"
    BY <1>1, <2>2
  <2>4. NewsMatch(LackingAll(news, own) \o heard, db')
    BY <1>2, <2>2, <2>3, Appended
  <2> QED BY <1>4, <2>1, <2>4
<1> QED BY <1>3, <1>4
(* The server's inbounds change, and the tab is told or the list is lost.    *)
LEMMA ChangeKeeps ==
  ASSUME IInv, CurrentInv, Grows, UNCHANGED pending, NEW said, NEW own \in BOOLEAN, Say(said, own),
         said = << >> \/ \E o : said \in Told(db', o),
         (Heard(said) /\ ~FetchGood') \/ Lost
  PROVE  CurrentInv'
<1>1. said \in Seq(Message) /\ NewsMatch(said, db')
  <2>1. CASE said = << >>
    BY <2>1 DEF NewsMatch
  <2>2. CASE \E o : said \in Told(db', o)
    BY <2>2, ToldMatches DEF IInv
  <2> QED BY <2>1, <2>2
<1>2. NewsMatch(news', db') /\ (Heard(said) => ~Settled')
  BY <1>1, SaidMatches DEF IInv
<1> QED BY <1>2 DEF CurrentInv, Lost

---------------------------------------------------------------------------
(* Every step keeps it, those that change the server's inbounds first.       *)
LEMMA ServerChangeGrows ==
  ASSUME IInv, BulkDeleted \/ BulkFailed \/ OthersChange \/ (\E o \in ops : OpDone(o) \/ OpFailed(o))
  PROVE  Grows
<1>1. CASE UNCHANGED db
  BY <1>1, DbRests DEF IInv
<1>2. CASE BulkDeleted \/ (BulkFailed /\ ~UNCHANGED db)
  <2>1. db' = Effect(db, [op |-> "del", id |-> Head(bulk.todo)]) /\ bulk.todo # << >>
    BY <1>2 DEF BulkDeleted, BulkFailed
  <2>2. Head(bulk.todo) \in Ids
    <3>1. bulk.todo \in Seq(Ids)
      BY DEF IInv, TypeOK
    <3> QED BY <2>1, <3>1, Taken
  <2> QED BY <2>1, <2>2, DelGrows DEF IInv
<1>3. CASE OthersChange
  <2>1. PICK i \in Ids, op \in {"setEnable", "del", "add"}, on \in BOOLEAN :
          /\ IF op = "add" THEN db[i] = "new" ELSE i \in Listed(db)
          /\ db' = Effect(db, [op |-> op, id |-> i, on |-> on])
    BY <1>3 DEF OthersChange
  <2> DEFINE o == [op |-> op, id |-> i, on |-> on]
  <2>2. o.op = op /\ o.id = i /\ db' = Effect(db, o)
    BY <2>1
  <2> HIDE DEF o
  <2> QED BY <2>1, <2>2, EffectGrows DEF IInv, Takes
<1>4. ASSUME NEW o \in ops, OpDone(o) \/ (OpFailed(o) /\ ~UNCHANGED db) PROVE Grows
  <2>1. o \in Request /\ (o.op = "add" => db[o.id] = "new") /\ Takes(db, o) /\ db' = Effect(db, o)
    BY <1>4 DEF IInv, TypeOK, OpsInv, OpDone, OpFailed
  <2>2. o.op \in {"setEnable", "del", "reset", "add"} /\ o.id \in Ids
    BY <2>1 DEF Request
  <2> QED BY <2>1, <2>2, EffectGrows DEF IInv
<1> QED BY <1>1, <1>2, <1>3, <1>4
LEMMA ServerChangeKeeps ==
  ASSUME IInv, CurrentInv,
         BulkDeleted \/ BulkFailed \/ OthersChange \/ (\E o \in ops : OpDone(o) \/ OpFailed(o))
  PROVE  CurrentInv'
<1>1. UNCHANGED pending
  BY DEF BulkDeleted, BulkFailed, OthersChange, OpDone, OpFailed, pageVars
<1>2. CASE UNCHANGED <<db, news, slim, fetch>>
  BY <1>1, <1>2, Kept DEF IInv, Worse, SlimGood, FetchGood
<1>3. CASE ~UNCHANGED <<db, news, slim, fetch>>
  <2> DEFINE Said(said, own) ==
               /\ Say(said, own) /\ (said = << >> \/ \E o : said \in Told(db', o))
               /\ Changed(said, own) \/ invalidated(Overtaken(fetch, TRUE))
  <2>1. PICK said : \E own \in BOOLEAN : Said(said, own)
    <3>1. CASE BulkDeleted
      BY <3>1 DEF BulkDeleted, DelTold, Changed
    <3>2. CASE BulkFailed
      BY <1>3, <3>2 DEF BulkFailed, Changed
    <3>3. CASE OthersChange
      BY <3>3 DEF OthersChange, Changed
    <3>4. ASSUME NEW o \in ops, OpDone(o) PROVE \E said : \E own \in BOOLEAN : Said(said, own)
      BY <3>4 DEF OpDone, Changed
    <3>5. ASSUME NEW o \in ops, OpFailed(o) PROVE \E said : \E own \in BOOLEAN : Said(said, own)
      BY <1>3, <3>5 DEF OpFailed, Changed
    <3> QED BY <3>1, <3>2, <3>3, <3>4, <3>5
  <2>2. (Heard(said) /\ ~FetchGood') \/ Lost
    BY <2>1, ListIsLost DEF IInv
  <2>3. Grows
    BY ServerChangeGrows
  <2> QED BY <1>1, <2>1, <2>2, <2>3, ChangeKeeps
<1> QED BY <1>2, <1>3
LEMMA SocketKeeps ==
  ASSUME IInv, CurrentInv, SocketStep
  PROVE  CurrentInv'
<1>1. UNCHANGED <<db, pending>>
  BY DEF SocketStep, ReconnectDue, Opens, SocketClosed, TooLarge
<1>2. \/ UNCHANGED <<news, slim, fetch>>
      \/ /\ news' = << >> /\ fetch' = fetch
         /\ slim' = IF \E m \in ToSet(news) : OfInbounds(m) THEN Lacking(slim, FALSE) ELSE slim
  BY DEF SocketStep, ReconnectDue, Opens, SocketClosed, TooLarge, Unheard, listVars
<1>3. CASE UNCHANGED <<news, slim, fetch>>
  BY <1>1, <1>3, Kept DEF IInv, Worse, SlimGood, FetchGood
<1>4. CASE news' = << >> /\ fetch' = fetch /\ slim' = Lacking(slim, FALSE)
  <2>1. ~SlimGood'
    BY <1>4, OvertakenIsFetch DEF IInv, SlimGood
  <2>2. NewsMatch(news', db')
    BY <1>4 DEF NewsMatch
  <2> QED BY <1>1, <1>4, <2>1, <2>2 DEF CurrentInv, FetchGood
<1>5. CASE news' = << >> /\ (\A m \in ToSet(news) : ~OfInbounds(m)) /\ UNCHANGED <<slim, fetch>>
  <2>1. Silent(news)
    BY <1>5 DEF Silent, OfInbounds, ToSet
  <2>2. NewsMatch(news', db')
    BY <1>5 DEF NewsMatch
  <2> QED BY <1>1, <1>5, <2>1, <2>2 DEF CurrentInv, Settled, SlimGood, FetchGood
<1> QED BY <1>2, <1>3, <1>4, <1>5
LEMMA NewsArrivesKeeps ==
  ASSUME IInv, CurrentInv, NewsArrives
  PROVE  CurrentInv'
<1> DEFINE m == Head(news)
<1>1. news # << >> /\ news' = Tail(news) /\ UNCHANGED db
  BY DEF NewsArrives
<1>2. /\ 1 \in DOMAIN news /\ m = news[1] /\ DOMAIN news \subseteq Nat /\ DOMAIN Tail(news) \subseteq Nat
      /\ \A k \in DOMAIN Tail(news) : k + 1 \in DOMAIN news /\ Tail(news)[k] = news[k + 1]
      /\ \A k \in DOMAIN news : k = 1 \/ (k - 1 \in DOMAIN Tail(news) /\ Tail(news)[k - 1] = news[k])
  <2>1. news \in Seq(Message)
    BY DEF IInv, TypeOK
  <2>2. Tail(news) \in Seq(Message)
    BY <1>1, <2>1, Taken
  <2> QED BY <1>1, <2>1, <2>2, Taken
<1> HIDE DEF m
<1>3. NewsMatch(news', db')
  <2>1. ASSUME NEW k \in DOMAIN news', IsPush(news'[k]), \A j \in DOMAIN news' : j > k => news'[j].of # "inbounds"
        PROVE  Matches(news'[k].rows, db')
    <3>1. ASSUME NEW j \in DOMAIN news, j > k + 1 PROVE news[j].of # "inbounds"
      <4>1. j - 1 \in DOMAIN news' /\ news'[j - 1] = news[j] /\ j - 1 > k
        BY <1>1, <1>2, <3>1
      <4> QED BY <2>1, <4>1
    <3>2. k + 1 \in DOMAIN news /\ news'[k] = news[k + 1]
      BY <1>1, <1>2
    <3> QED BY <1>1, <2>1, <3>1, <3>2 DEF CurrentInv, NewsMatch
  <2>2. ASSUME NEW k \in DOMAIN news', news'[k].type # "invalidate"
        PROVE  news'[k].type = "inbounds" /\ news'[k].of = "inbounds"
    BY <1>1, <1>2, <2>2 DEF CurrentInv, NewsMatch
  <2> QED BY <2>1, <2>2 DEF NewsMatch
<1>4. CASE m.type = "invalidate"
  <2>1. pending' = pending \cup {m.of} /\ UNCHANGED <<slim, fetch>>
    BY <1>4 DEF NewsArrives, Hinted, m
  <2>2. Settled' => Settled
    BY <1>1, <1>2, <2>1 DEF Settled, Silent
  <2> QED BY <1>1, <1>3, <2>1, <2>2 DEF CurrentInv, SlimGood, FetchGood
<1>5. CASE m.type # "invalidate"
  <2>1. Arrives(m) /\ UNCHANGED <<fetch, pending>>
    BY <1>5 DEF NewsArrives, m
  <2>2. slim'.rows = m.rows /\ slim'.missed = m.missed /\ slim'.late = m.late
    BY <2>1 DEF Arrives, ListLoaded
  <2>3. m.type = "inbounds"
    BY <1>2, <1>5 DEF CurrentInv, NewsMatch
  <2>4. ASSUME Settled', SlimGood' PROVE Matches(slim'.rows, db')
    <3>1. ASSUME NEW j \in DOMAIN news, j > 1 PROVE news[j].of # "inbounds"
      <4>1. j - 1 \in DOMAIN Tail(news) /\ Tail(news)[j - 1] = news[j]
        BY <1>2, <3>1
      <4>2. Silent(Tail(news))
        BY <1>1, <2>4 DEF Settled
      <4> QED BY <4>1, <4>2 DEF Silent
    <3>2. IsPush(news[1])
      BY <1>2, <2>2, <2>3, <2>4 DEF IsPush, SlimGood
    <3> QED BY <1>1, <1>2, <2>2, <3>1, <3>2 DEF CurrentInv, NewsMatch
  <2> QED BY <1>1, <1>3, <2>1, <2>4 DEF CurrentInv, FetchGood
<1> QED BY <1>4, <1>5
LEMMA ListStepKeeps ==
  ASSUME IInv, CurrentInv, ListStep
  PROVE  CurrentInv'
<1>1. CASE ServerReads
  <2>1. slim' = slim /\ UNCHANGED <<db, news, pending>> /\ fetch'.rows = List(db, FALSE)
    BY <1>1 DEF ServerReads, IInv, TypeOK, pageVars
  <2> QED BY <2>1, ListMatches DEF CurrentInv, Settled, SlimGood
<1>2. CASE ListAnswered
  <2>1. slim' = ListLoaded(fetch) /\ fetch.read /\ UNCHANGED <<db, news, pending>>
        /\ fetch' = NoFetch
    BY <1>2 DEF ListAnswered, Arrives
  <2>2. slim'.rows = fetch.rows /\ slim'.missed = fetch.missed /\ slim'.late = fetch.late /\ ~FetchGood'
    BY <2>1 DEF ListLoaded, NoFetch, FetchGood
  <2> QED BY <2>1, <2>2 DEF CurrentInv, Settled, SlimGood, FetchGood
<1>3. CASE ListFailed \/ WindowFocus
  <2>1. UNCHANGED <<db, news, pending, slim>> /\ fetch' \in {fetch, Fresh(fetch), NoFetch, Asked}
    BY <1>3 DEF ListFailed, WindowFocus
  <2>2. Worse
    BY <2>1, FetchIsFresh DEF IInv, Worse, SlimGood
  <2> QED BY <2>1, <2>2, Kept DEF IInv
<1>4. CASE NewsArrives
  BY <1>4, NewsArrivesKeeps
<1>5. CASE InvalidateDue
  <2>1. UNCHANGED <<db, news>>
    BY <1>5 DEF InvalidateDue
  <2>2. CASE "inbounds" \in pending
    <3>1. ~SlimGood' /\ Worse
      BY <1>5, <2>2, InvalidateWorse DEF IInv, InvalidateDue
    <3> QED BY <2>1, <3>1 DEF CurrentInv, Worse
  <2>3. CASE "inbounds" \notin pending
    <3>1. UNCHANGED <<slim, fetch>>
      BY <1>5, <2>3 DEF InvalidateDue
    <3> QED BY <2>1, <2>3, <3>1 DEF CurrentInv, Settled, SlimGood, FetchGood
  <2> QED BY <2>2, <2>3
<1>6. CASE StatsSent \/ applyClientStatsEvent
  <2>1. UNCHANGED <<db, news, pending, slim, fetch>>
    BY <1>6 DEF StatsSent, applyClientStatsEvent, listVars
  <2> QED BY <2>1, Kept DEF IInv, Worse, SlimGood, FetchGood
<1> QED BY <1>1, <1>2, <1>3, <1>4, <1>5, <1>6 DEF ListStep
(* What is neither the socket's, the list's nor a change of the server's.    *)
LEMMA PageKeeps ==
  ASSUME IInv, CurrentInv, UNCHANGED <<db, news, pending>>,
         \/ UNCHANGED <<slim, fetch>>
         \/ slim' = slim /\ fetch' = Fresh(fetch)
         \/ invalidate
  PROVE  CurrentInv'
<1>1. CASE slim' = slim /\ fetch' \in {fetch, Fresh(fetch)}
  BY <1>1, FetchIsFresh, Kept DEF IInv, Worse, SlimGood
<1>2. CASE invalidate
  BY <1>2, InvalidateWorse, Kept DEF IInv
<1> QED BY <1>1, <1>2
LEMMA RowStepKeeps ==
  ASSUME IInv, CurrentInv, RowStep
  PROVE  CurrentInv'
<1>1. CASE \E o \in ops : OpDone(o) \/ OpFailed(o)
  BY <1>1, ServerChangeKeeps
<1>2. CASE ~\E o \in ops : OpDone(o) \/ OpFailed(o)
  <2>1. UNCHANGED <<db, news, pending, slim, fetch>>
    BY <1>2 DEF RowStep, onSwitchEnable, confirmDelete, confirmResetTraffic, importInbound, Send, onRowAction,
                RecordRead, RecordAnswered, RecordFailed, EditClosed, toggleSelected, selectAll, Select, listVars
  <2> QED BY <2>1, PageKeeps
<1> QED BY <1>1, <1>2
LEMMA BulkStepKeeps ==
  ASSUME IInv, CurrentInv, BulkStep
  PROVE  CurrentInv'
<1>1. CASE BulkDeleted \/ BulkFailed
  BY <1>1, ServerChangeKeeps
<1>2. CASE handleBulkDelete \/ BulkCancelled \/ BulkConfirmed \/ BulkFinished
  <2>1. UNCHANGED <<db, news, pending>>
    BY <1>2 DEF handleBulkDelete, BulkCancelled, BulkConfirmed, BulkFinished
  <2>2. UNCHANGED <<slim, fetch>> \/ invalidate
    BY <1>2 DEF handleBulkDelete, BulkCancelled, BulkConfirmed, BulkFinished, listVars
  <2> QED BY <2>1, <2>2, PageKeeps
<1> QED BY <1>1, <1>2 DEF BulkStep
LEMMA CurrentStep == IInv /\ CurrentInv /\ [Next]_vars => CurrentInv'
<1> SUFFICES ASSUME IInv, CurrentInv, [Next]_vars PROVE CurrentInv'
  OBVIOUS
<1>1. CASE Leave \/ Visit \/ VisitElsewhere
  <2>1. UNCHANGED <<db, news, pending, slim>> /\ fetch' \in {fetch, Fresh(fetch)}
    BY <1>1 DEF Leave, Visit, VisitElsewhere, listVars
  <2> QED BY <2>1, PageKeeps
<1>2. CASE UNCHANGED vars
  BY <1>2, PageKeeps DEF vars, listVars
<1> QED BY <1>1, <1>2, SocketKeeps, ListStepKeeps, RowStepKeeps, BulkStepKeeps, ServerChangeKeeps DEF Next

(* A list the page takes for fresh is the server's, whatever fetches,        *)
(* pushes, hints and changes of other sessions overtake one another, unless  *)
(* a change was not told to the page or is about to be, or the answer came   *)
(* of a fetch that had read before a change the page was told of, which is   *)
(* not cancelled (late).                                                     *)
THEOREM FreshIsCurrent == Spec => []ListIsCurrent
<1>1. Init => CurrentInv
  <2>1. Init => news = << >> /\ ~slim.loaded /\ ~fetch.read
    BY DEF Init, NotLoaded, Asked, NoFetch
  <2> QED BY <2>1 DEF CurrentInv, NewsMatch, SlimGood, FetchGood
<1>2. IInv /\ CurrentInv => ListIsCurrent
  <2>1. (\A m \in ToSet(news) : ~OfInbounds(m)) => Silent(news)
    BY DEF ToSet, OfInbounds, Silent
  <2> QED BY <2>1 DEF CurrentInv, ListIsCurrent, Settled, SlimGood, Matches
<1> QED BY <1>1, <1>2, CurrentStep, Inductive, PTL DEF Spec

---------------------------------------------------------------------------
(* Fields of the forms. *)
LEMMA FieldsGrow ==
  /\ \A b, X, Y : X \subseteq Y => Fields(b, X) \subseteq Fields(b, Y)
  /\ \A b, X : \A x \in Fields(b, X) : x[1] = b
  /\ \A b, X, Y : Fields(b, X \cup Y) = Fields(b, X) \cup Fields(b, Y)
BY DEF Fields
LEMMA FieldIs == \A b, X : \A x \in Fields(b, X) : \E k \in X : x = <<b, k>>
BY DEF Fields

---------------------------------------------------------------------------
(* The dialog of inbounds: what a store that was never typed as JSON holds. *)
Securities == {"none", "tls", "reality"}
Cert == [useFile : BOOLEAN, file : BOOLEAN, inline : BOOLEAN, whole : BOOLEAN]
InbForm ==
  [open : {"add", "edit"}, protocol : Protocols, settings : Protocols,
   network : Networks \cup {"", "hysteria"}, security : Securities,
   blocks : SUBSET (Networks \cup {"hysteria"} \cup Securities),
   on : SUBSET (DOMAIN Option \cup MaskParts), certs : Seq(Cert), raw : BOOLEAN]
Coherent(f) ==
  /\ f.network # "" => {f.network} \cup SecurityBlocks(f.security) \subseteq f.blocks
  /\ f.protocol = "hysteria" <=> f.network = "hysteria"
FormGood(f) ==
  /\ f \in InbForm /\ f.settings = f.protocol
  /\ f.open = "add" \/ canEnableStream(f.protocol) => f.network # ""
  /\ ~f.raw => Coherent(f)
FormStore == inb = Closed \/ FormGood(inb)

LEMMA CertLists ==
  /\ {DefaultCert, FileCert, TextCert, Hole} \subseteq Cert /\ << >> \in Seq(Cert)
  /\ \A c \in Cert : <<c>> \in Seq(Cert)
<1>1. {DefaultCert, FileCert, TextCert, Hole} \subseteq Cert
  BY DEF DefaultCert, FileCert, TextCert, Hole, Cert
<1>2. << >> \in Seq(Cert) /\ \A c \in Cert : <<c>> \in Seq(Cert)
  <2> HIDE DEF Cert
  <2> QED OBVIOUS
<1> QED BY <1>1, <1>2
LEMMA StoreIsGood ==
  ASSUME NEW m \in {"add", "edit"}, NEW p \in Protocols, NEW n \in Networks \cup {"", "hysteria"},
         NEW s \in Securities, NEW on \in SUBSET (DOMAIN Option \cup MaskParts),
         p = "hysteria" <=> n = "hysteria", m = "add" \/ canEnableStream(p) => n # ""
  PROVE  FormGood(Store(m, p, n, s, on)) /\ ~Store(m, p, n, s, on).raw
<1> DEFINE blocks == IF n = "" THEN {} ELSE {n} \cup SecurityBlocks(s)
           certs == IF s = "tls" THEN <<DefaultCert>> ELSE << >>
           f == [open |-> m, protocol |-> p, settings |-> p, network |-> n, security |-> s,
                 blocks |-> blocks, on |-> on, certs |-> certs, raw |-> FALSE]
<1>1. Store(m, p, n, s, on) = f
  BY DEF Store
<1>2. blocks \in SUBSET (Networks \cup {"hysteria"} \cup Securities)
  BY DEF SecurityBlocks, Securities
<1>3. certs \in Seq(Cert)
  BY CertLists
<1>4. f \in InbForm /\ f.raw = FALSE
  <2> HIDE DEF blocks, certs
  <2> QED BY <1>2, <1>3 DEF InbForm
<1>5. /\ f.settings = f.protocol /\ Coherent(f)
      /\ f.open = "add" \/ canEnableStream(f.protocol) => f.network # ""
  BY DEF Coherent
<1> QED BY <1>1, <1>4, <1>5 DEF FormGood
LEMMA RawKept ==
  ASSUME NEW f, FormGood(f), ~f.raw, NEW raw \in BOOLEAN
  PROVE  FormGood([f EXCEPT !.raw = raw])
BY DEF FormGood, InbForm, Coherent

LEMMA StoredCertsAre == StoredCerts \subseteq Seq(Cert)
BY CertLists DEF StoredCerts
LEMMA WithCerts ==
  ASSUME NEW f, FormGood(f), NEW certs \in Seq(Cert)
  PROVE  FormGood([f EXCEPT !.certs = certs])
BY DEF FormGood, InbForm, Coherent

(* Each action on the dialog of inbounds keeps its store good.              *)
LEMMA OpenPreserves == FormStore /\ (OpenAdd \/ OpenEdit) => FormStore'
<1>1. ASSUME OpenAdd PROVE FormStore'
  <2>1. FormGood(Store("add", "vless", "tcp", "none", {}))
    BY StoreIsGood DEF Protocols, Networks, Securities
  <2> QED BY <1>1, <2>1 DEF OpenAdd, buildAddModeValues, FormStore
<1>2. ASSUME OpenEdit PROVE FormStore'
  <2>1. inb' \in StoredRows /\ (canEnableStream(inb'.protocol) <=> inb'.network # "")
    BY <1>2 DEF OpenEdit, rawInboundToFormValues
  <2>2. PICK p \in Protocols, n \in Networks \cup {"", "hysteria"}, s \in Securities, certs \in StoredCerts :
          /\ inb' = [Store("edit", p, n, s, {}) EXCEPT !.certs = certs]
          /\ p = "hysteria" <=> n = "hysteria"
    <3>1. CASE \E certs \in StoredCerts :
                 inb' = [Store("edit", "hysteria", "hysteria", "tls", {}) EXCEPT !.certs = certs]
      BY <3>1 DEF Securities, Protocols
    <3>2. CASE \E p \in Protocols \ {"hysteria"}, n \in RowNetworks, s \in Securities, certs \in StoredCerts :
                 inb' = [Store("edit", p, n, s, {}) EXCEPT !.certs = certs]
      BY <3>2 DEF RowNetworks, Networks
    <3>3. \/ \E certs \in StoredCerts :
               inb' = [Store("edit", "hysteria", "hysteria", "tls", {}) EXCEPT !.certs = certs]
          \/ \E p \in Protocols \ {"hysteria"}, n \in RowNetworks, s \in Securities, certs \in StoredCerts :
               inb' = [Store("edit", p, n, s, {}) EXCEPT !.certs = certs]
      <4>1. inb' \in StoredRows
        BY <2>1
      <4> QED BY <4>1 DEF StoredRows, Securities
    <3> QED BY <3>1, <3>2, <3>3
  <2>3. Store("edit", p, n, s, {}).protocol = p /\ Store("edit", p, n, s, {}).network = n
    BY DEF Store
  <2>4. inb'.protocol = p /\ inb'.network = n
    BY <2>2, <2>3 DEF Store
  <2>5. FormGood(Store("edit", p, n, s, {}))
    BY <2>1, <2>2, <2>4, StoreIsGood
  <2> QED BY <2>2, <2>5, StoredCertsAre, WithCerts DEF FormStore
<1> QED BY <1>1, <1>2
LEMMA FormPresent == FormStore /\ inb.open # "no" => inb # Closed /\ FormGood(inb)
BY DEF FormStore, Closed
LEMMA EditJsonPreserves == FormStore /\ EditJson => FormStore'
<1> SUFFICES ASSUME FormStore, EditJson PROVE FormStore'
  OBVIOUS
<1>1. FormGood(inb)
  BY FormPresent DEF EditJson
<1>2. PICK n \in {inb.network, "ws"} \cap Networks, s \in {"none", "tls"},
           missing \in SUBSET {"network", "security"} :
       inb' = [inb EXCEPT !.network = n, !.security = s, !.raw = TRUE,
                 !.on = Keeps(inb, {inb.network, "tls", "stream", "proxy", "sockopt", "mask"}),
                 !.blocks = ({n} \ When("network" \in missing, {n}))
                              \cup (SecurityBlocks(s) \ When("security" \in missing, {s})),
                 !.certs = IF s = "tls" THEN <<DefaultCert>> ELSE << >>]
  BY DEF EditJson
<1>3. Keeps(inb, {inb.network, "tls", "stream", "proxy", "sockopt", "mask"}) \subseteq inb.on
  BY DEF Keeps
<1>4. ({n} \ When("network" \in missing, {n})) \cup (SecurityBlocks(s) \ When("security" \in missing, {s}))
        \in SUBSET (Networks \cup {"hysteria"} \cup Securities)
  BY DEF SecurityBlocks, Securities
<1>5. (IF s = "tls" THEN <<DefaultCert>> ELSE << >>) \in Seq(Cert)
  BY CertLists
<1>6. inb' \in InbForm /\ inb'.settings = inb.settings /\ inb'.protocol = inb.protocol /\ inb'.raw = TRUE
        /\ inb'.network = n
  BY <1>1, <1>2, <1>3, <1>4, <1>5 DEF FormGood, InbForm, Securities
<1> QED BY <1>1, <1>6 DEF FormGood, FormStore, Networks
LEMMA ProtocolChangePreserves ==
  ASSUME FormStore, NEW p \in Protocols, ProtocolChange(p)
  PROVE  FormStore'
<1>1. FormGood(inb) /\ inb.open = "add" /\ p # inb.protocol
  BY FormPresent DEF ProtocolChange
<1>2. \A gone : Keeps(inb, gone) \in SUBSET (DOMAIN Option \cup MaskParts)
  BY <1>1 DEF FormGood, InbForm, Keeps
<1>3. CASE p = "hysteria"
  <2>1. PICK on \in SUBSET (DOMAIN Option \cup MaskParts) :
          inb' = [Store("add", p, "hysteria", "tls", on) EXCEPT !.raw = inb.raw]
    BY <1>2, <1>3 DEF ProtocolChange
  <2>2. FormGood(Store("add", p, "hysteria", "tls", on)) /\ ~Store("add", p, "hysteria", "tls", on).raw
    BY <1>3, StoreIsGood DEF Securities
  <2> QED BY <1>1, <2>1, <2>2, RawKept DEF FormStore, FormGood, InbForm
<1>4. CASE p # "hysteria" /\ inb.network = "hysteria"
  <2>1. PICK on \in SUBSET (DOMAIN Option \cup MaskParts) :
          inb' = [Store("add", p, "tcp", "none", on) EXCEPT !.raw = inb.raw]
    BY <1>2, <1>4 DEF ProtocolChange
  <2>2. FormGood(Store("add", p, "tcp", "none", on)) /\ ~Store("add", p, "tcp", "none", on).raw
    BY <1>4, StoreIsGood DEF Securities, Networks
  <2> QED BY <1>1, <2>1, <2>2, RawKept DEF FormStore, FormGood, InbForm
<1>5. CASE p # "hysteria" /\ inb.network # "hysteria"
  <2>1. inb' = [inb EXCEPT !.protocol = p, !.settings = p, !.on = Keeps(inb, {inb.protocol})]
    BY <1>5 DEF ProtocolChange
  <2>2. inb' \in InbForm /\ inb'.protocol = p /\ inb'.settings = p /\ inb'.network = inb.network
          /\ inb'.security = inb.security /\ inb'.blocks = inb.blocks /\ inb'.open = inb.open
          /\ inb'.raw = inb.raw
    BY <1>1, <1>2, <2>1 DEF FormGood, InbForm
  <2> QED BY <1>1, <1>5, <2>2 DEF FormGood, FormStore, Coherent
<1> QED BY <1>3, <1>4, <1>5
LEMMA NetworkChangePreserves ==
  ASSUME FormStore, NEW n \in Networks, NetworkChange(n)
  PROVE  FormStore'
<1>1. FormGood(inb) /\ inb.protocol # "hysteria"
  BY FormPresent DEF NetworkChange
<1> DEFINE on == Keeps(inb, {inb.network}) \cup When(n = "kcp", {"udp.mkcp-original"})
<1>2. on \in SUBSET (DOMAIN Option \cup MaskParts)
  BY <1>1 DEF FormGood, InbForm, Keeps, When, MaskParts, UdpMasks
<1>3. inb' = [inb EXCEPT !.network = n, !.blocks = (@ \ Networks) \cup {n}, !.on = on]
  BY DEF NetworkChange
<1>4. inb' \in InbForm /\ inb'.protocol = inb.protocol /\ inb'.settings = inb.settings /\ inb'.network = n
        /\ inb'.security = inb.security /\ inb'.blocks = (inb.blocks \ Networks) \cup {n}
        /\ inb'.open = inb.open /\ inb'.raw = inb.raw
  <2> HIDE DEF on
  <2> QED BY <1>1, <1>2, <1>3 DEF FormGood, InbForm
<1>5. SecurityBlocks(inb.security) \cap Networks = {} /\ n # "" /\ n # "hysteria"
  BY <1>1 DEF SecurityBlocks, Networks, FormGood, InbForm, Securities
<1>6. inb.network # ""
  BY <1>1 DEF FormGood, NetworkChange
<1>7. ~inb.raw => SecurityBlocks(inb.security) \subseteq inb.blocks
  BY <1>1, <1>6 DEF FormGood, Coherent
<1>8. ~inb'.raw => Coherent(inb')
  BY <1>1, <1>4, <1>5, <1>7 DEF Coherent
<1> QED BY <1>1, <1>4, <1>5, <1>8 DEF FormGood, FormStore
LEMMA SecurityChangePreserves ==
  ASSUME FormStore, NEW s \in Securities, SecurityChange(s)
  PROVE  FormStore'
<1>1. FormGood(inb)
  BY FormPresent DEF SecurityChange
<1> DEFINE certs == IF s = "tls" THEN <<DefaultCert>> ELSE << >>
<1>2. certs \in Seq(Cert) /\ Keeps(inb, {"tls"}) \subseteq inb.on
         /\ SecurityBlocks(s) \subseteq Securities
  BY CertLists DEF Keeps, SecurityBlocks
<1>3. inb' = [inb EXCEPT !.security = s, !.blocks = (@ \ {"tls", "reality"}) \cup SecurityBlocks(s),
                         !.on = Keeps(inb, {"tls"}), !.certs = certs]
  BY DEF SecurityChange
<1>4. inb' \in InbForm /\ inb'.protocol = inb.protocol /\ inb'.settings = inb.settings
        /\ inb'.network = inb.network /\ inb'.security = s
        /\ inb'.blocks = (inb.blocks \ {"tls", "reality"}) \cup SecurityBlocks(s)
        /\ inb'.open = inb.open /\ inb'.raw = inb.raw
  <2> HIDE DEF certs
  <2> QED BY <1>1, <1>2, <1>3 DEF FormGood, InbForm
<1>5. inb.network \notin {"tls", "reality"}
  BY <1>1 DEF FormGood, InbForm, Networks
<1>6. ~inb'.raw => Coherent(inb')
  BY <1>1, <1>4, <1>5 DEF FormGood, Coherent
<1> QED BY <1>1, <1>4, <1>6 DEF FormGood, FormStore

LEMMA SetOnIsGood ==
  ASSUME FormGood(inb), NEW on \in SUBSET (DOMAIN Option \cup MaskParts), inb' = SetOn(inb, on)
  PROVE  FormStore'
<1> DEFINE kept == {o \in on : /\ Option[o] \in {"proxy", "sockopt"} => Option[o] \in on
                               /\ Option[o] = "quic" => Quic \cap on # {}}
<1>1. kept \in SUBSET (DOMAIN Option \cup MaskParts) /\ inb' = [inb EXCEPT !.on = kept]
  BY DEF SetOn
<1> HIDE DEF kept
<1> QED BY <1>1 DEF FormGood, FormStore, InbForm, Coherent
LEMMA TogglePreserves ==
  ASSUME FormStore, NEW o \in DOMAIN Option, Toggle(o)
  PROVE  FormStore'
<1>1. FormGood(inb)
  BY FormPresent DEF Toggle
<1>2. PICK on : inb' = SetOn(inb, on) /\ on \subseteq inb.on \cup {o}
  BY DEF Toggle
<1>3. inb.on \subseteq DOMAIN Option \cup MaskParts
  BY <1>1 DEF FormGood, InbForm
<1> QED BY <1>1, <1>2, <1>3, SetOnIsGood
LEMMA CertsAre == FormGood(inb) => inb.certs \in Seq(Cert) /\ DOMAIN inb.certs = 1..Len(inb.certs)
<1>1. FormGood(inb) => inb.certs \in Seq(Cert)
  BY DEF FormGood, InbForm
<1> QED BY <1>1
LEMMA CertsChange ==
  ASSUME FormGood(inb), NEW certs \in Seq(Cert), inb' = [inb EXCEPT !.certs = certs]
  PROVE  FormStore'
BY DEF FormGood, FormStore, InbForm, Coherent
LEMMA CertificatesPreserve ==
  FormStore /\ (\/ AddCertificate \/ \E i \in 1..MaxCerts : RemoveCertificate(i)
                \/ \E i \in 1..MaxCerts, c \in Cert : EditCertificate(i, c)) => FormStore'
<1>1. ASSUME FormStore, AddCertificate PROVE FormStore'
  <2>1. FormGood(inb)
    BY <1>1, FormPresent DEF AddCertificate
  <2>2. Append(inb.certs, DefaultCert) \in Seq(Cert)
    BY <2>1, CertsAre, CertLists
  <2> QED BY <1>1, <2>1, <2>2, CertsChange DEF AddCertificate
<1>2. ASSUME FormStore, NEW i \in 1..MaxCerts, RemoveCertificate(i) PROVE FormStore'
  <2>1. FormGood(inb)
    BY <1>2, FormPresent DEF RemoveCertificate
  <2> DEFINE kept == [j \in 1..(Len(inb.certs) - 1) |-> IF j < i THEN inb.certs[j] ELSE inb.certs[j + 1]]
  <2>2. inb.certs \in Seq(Cert) /\ Len(inb.certs) > 1 /\ i \in 1..Len(inb.certs)
    BY <1>2, <2>1, CertsAre DEF RemoveCertificate
  <2>3. kept \in [1..(Len(inb.certs) - 1) -> Cert]
    BY <2>2
  <2>4. kept \in Seq(Cert)
    BY <2>2, <2>3, SeqDef
  <2> QED BY <1>2, <2>1, <2>4, CertsChange DEF RemoveCertificate
<1>3. ASSUME FormStore, NEW i \in 1..MaxCerts, NEW c \in Cert, EditCertificate(i, c) PROVE FormStore'
  <2>1. FormGood(inb)
    BY <1>3, FormPresent DEF EditCertificate
  <2>2. [inb.certs EXCEPT ![i] = c] \in Seq(Cert)
    BY <1>3, <2>1, CertsAre DEF EditCertificate
  <2>3. inb' = [inb EXCEPT !.certs = [inb.certs EXCEPT ![i] = c]]
    BY <1>3 DEF EditCertificate
  <2> QED BY <2>1, <2>2, <2>3, CertsChange
<1> QED BY <1>1, <1>2, <1>3
LEMMA CertificateAnswerIs ==
  ASSUME FormGood(inb), NEW i \in 1..MaxCerts, NEW both \in BOOLEAN
  PROVE  \E certs \in Seq(Cert) :
           CertificateAnswer(inb, i, both) = [inb EXCEPT !.blocks = @ \cup {"tls"}, !.certs = certs]
<1> DEFINE known(j) == IF j \in DOMAIN inb.certs THEN inb.certs[j] ELSE Hole
           named(j) == IF j = i THEN [known(j) EXCEPT !.file = both] ELSE known(j)
           len == IF i > Len(inb.certs) THEN i ELSE Len(inb.certs)
           padded == [j \in 1..len |-> named(j)]
           certs == IF inb.security # "tls" THEN inb.certs ELSE padded
<1>1. inb.certs \in Seq(Cert) /\ DOMAIN inb.certs = 1..Len(inb.certs)
  BY CertsAre
<1>2. \A j : known(j) \in Cert
  BY <1>1, CertLists
<1>3. \A j : named(j) \in Cert
  <2> HIDE DEF known
  <2> QED BY <1>2 DEF Cert
<1>4. len \in Nat
  BY <1>1
<1>5. padded \in [1..len -> Cert]
  <2> HIDE DEF named, len
  <2> QED BY <1>3
<1>6. padded \in Seq(Cert)
  <2> HIDE DEF padded, len
  <2> QED BY <1>4, <1>5, SeqDef
<1>7. certs \in Seq(Cert)
  BY <1>1, <1>6
<1>8. CertificateAnswer(inb, i, both) = [inb EXCEPT !.blocks = @ \cup {"tls"}, !.certs = certs]
  BY DEF CertificateAnswer
<1> QED BY <1>7, <1>8
LEMMA AnswerPreserves ==
  ASSUME FormStore, NEW kind, Answer(kind)
  PROVE  FormStore'
<1>1. CASE inb' = inb
  BY <1>1 DEF FormStore, FormGood, Coherent
<1> DEFINE Grown == \E b \in Securities, certs \in Seq(Cert) :
                      inb' = [inb EXCEPT !.blocks = @ \cup {b}, !.certs = certs]
<1>2. ASSUME FormGood(inb), Grown PROVE FormStore'
  <2>1. PICK b \in Securities, certs \in Seq(Cert) :
               inb' = [inb EXCEPT !.blocks = @ \cup {b}, !.certs = certs]
    BY <1>2
  <2> QED BY <1>2, <2>1 DEF FormGood, FormStore, InbForm, Coherent
<1>3. CASE inb # Closed /\ kind # "cert" /\ inb' = Written(inb, kind)
  <2>1. FormGood(inb) /\ inb.certs \in Seq(Cert) /\ inb \in InbForm
    BY <1>3 DEF FormStore, FormGood, InbForm
  <2>2. inb' = inb \/ \E b \in Securities : inb' = [inb EXCEPT !.blocks = @ \cup {b}]
    BY <1>3 DEF Written, Securities
  <2>3. ASSUME NEW b \in Securities, inb' = [inb EXCEPT !.blocks = @ \cup {b}] PROVE Grown
    <3>1. inb' = [inb EXCEPT !.blocks = @ \cup {b}, !.certs = inb.certs]
      BY <2>1, <2>3 DEF InbForm
    <3> QED BY <2>1, <3>1
  <2> QED BY <1>1, <1>2, <2>1, <2>2, <2>3
<1>4. CASE inb # Closed /\ \E i \in 1..MaxCerts, both \in BOOLEAN : inb' = CertificateAnswer(inb, i, both)
  <2>1. FormGood(inb) /\ inb.certs \in Seq(Cert)
    BY <1>4 DEF FormStore, FormGood, InbForm
  <2>2. PICK i \in 1..MaxCerts, both \in BOOLEAN : inb' = CertificateAnswer(inb, i, both)
    BY <1>4
  <2>3. PICK certs \in Seq(Cert) : inb' = [inb EXCEPT !.blocks = @ \cup {"tls"}, !.certs = certs]
    BY <2>1, <2>2, CertificateAnswerIs
  <2> QED BY <1>2, <2>1, <2>3 DEF Securities
<1> QED BY <1>1, <1>3, <1>4 DEF Answer
LEMMA FormStoreStep == FormStore /\ [InbNext]_inbVars => FormStore'
<1> SUFFICES ASSUME FormStore, [InbNext]_inbVars PROVE FormStore'
  OBVIOUS
<1>0. ASSUME inb' = inb PROVE FormStore'
  BY <1>0 DEF FormStore, FormGood, Coherent
<1>1. CASE OpenAdd \/ OpenEdit
  BY <1>1, OpenPreserves
<1>2. CASE CloseForm \/ Submit
  BY <1>2 DEF CloseForm, Submit, FormStore
<1>3. CASE EditJson
  BY <1>3, EditJsonPreserves
<1>4. CASE \E p \in Protocols : ProtocolChange(p)
  BY <1>4, ProtocolChangePreserves
<1>5. CASE \E n \in Networks : NetworkChange(n)
  BY <1>5, NetworkChangePreserves
<1>6. CASE \E s \in {"none", "tls", "reality"} : SecurityChange(s)
  BY <1>6, SecurityChangePreserves DEF Securities
<1>7. CASE \E o \in DOMAIN Option : Toggle(o)
  BY <1>7, TogglePreserves
<1>8. CASE \/ AddCertificate \/ \E i \in 1..MaxCerts : RemoveCertificate(i)
           \/ \E i \in 1..MaxCerts, c \in [useFile : BOOLEAN, file : BOOLEAN, inline : BOOLEAN, whole : BOOLEAN] :
                EditCertificate(i, c)
  BY <1>8, CertificatesPreserve DEF Cert
<1>9. CASE \E k \in {"x25519", "mldsa65", "ech", "cert", "vlessEnc", "reality"} : Answer(k)
  BY <1>9, AnswerPreserves
<1>10. CASE \E k \in {"x25519", "mldsa65", "ech", "cert", "vlessEnc"} : Generate(k)
  BY <1>0, <1>10 DEF Generate
<1>11. CASE \/ FallbacksLoaded \/ AddFallback \/ AddAllFallbacks
            \/ \E i \in 1..MaxTouched : MoveFallback(i) \/ RemoveFallback(i) \/ TypeColumn(i)
            \/ \E i \in 1..MaxTouched, c \in Children : PickChild(i, c)
  BY <1>0, <1>11 DEF FallbacksLoaded, AddFallback, AddAllFallbacks, MoveFallback, RemoveFallback,
                     TypeColumn, PickChild
<1>12. CASE UNCHANGED inbVars
  BY <1>0, <1>12 DEF inbVars
<1> QED BY <1>1, <1>2, <1>3, <1>4, <1>5, <1>6, <1>7, <1>8, <1>9, <1>10, <1>11, <1>12 DEF InbNext, InbStep
(* The dialog of inbounds keeps the settings of its protocol, a network     *)
(* whenever it adds or the protocol has a stream, and, unless the store was *)
(* typed as JSON, the blocks its network and its security call for.         *)
THEOREM FormStoreHolds == InbSpec => []FormStore
<1>1. InbInit => FormStore
  BY DEF InbInit, FormStore
<1> QED BY <1>1, FormStoreStep, PTL DEF InbSpec

(* Whatever switches, button answers and certificates come in which order,   *)
(* the schema takes the store that the dialog of inbounds built itself: it   *)
(* has the settings of its protocol and the blocks its network and security  *)
(* call for.  A late answer, or clearing a certificate, can still leave a    *)
(* store the schema refuses: stream settings without a network where the row *)
(* had none, a certificate with neither names nor texts (Strayed).           *)
THEOREM FormsSubmittable == InbSpec => []Submittable
<1>1. FormStore => Submittable
  BY DEF FormStore, FormGood, Coherent, Submittable, Accepted, Strayed
<1> QED BY <1>1, FormStoreHolds, PTL

---------------------------------------------------------------------------
(* What the dialog of inbounds shows is what its schemas name. *)
LEMMA SentHas ==
  ASSUME NEW f
  PROVE  /\ Fields("base", BaseSchema) \subseteq Sent(f)
         /\ Fields(f.protocol, InboundSettingsSchema[f.protocol]) \subseteq Sent(f)
         /\ StreamSent(f) \subseteq Sent(f)
         /\ Fields("sniffing", normalizeSniffing(f)) \subseteq Sent(f)
         /\ isFallbackHost(f) => FallbackColumns(WithChild) \subseteq Sent(f)
BY DEF Sent, Parsed, When
LEMMA BasicSent ==
  ASSUME NEW f, FormGood(f)
  PROVE  BasicFields(f) \subseteq Sent(f)
<1>1. {"enable", "tgOnlineNotify", "remark", "protocol", "listen", "port", "total", "trafficReset",
       "expiryTime"} \subseteq BaseSchema /\ "nodeId" \in BaseSchema
  BY DEF BaseSchema
<1>2. BasicFields(f) \subseteq Fields("base", BaseSchema)
  BY <1>1 DEF BasicFields, Fields, When
<1> QED BY <1>2, SentHas
LEMMA SniffingSent ==
  ASSUME NEW f
  PROVE  SniffingFields(f) \subseteq Sent(f)
<1>1. SniffingFields(f) \subseteq Fields("sniffing", normalizeSniffing(f))
  BY DEF SniffingFields, normalizeSniffing, Fields, When, SniffingSchema
<1> QED BY <1>1, SentHas
LEMMA SettingsShown ==
  ASSUME NEW f, FormGood(f)
  PROVE  WireguardFields(f) \cup TunFields(f) \cup TunnelFields(f) \cup AccountFields(f)
           \cup ShadowsocksFields(f) \cup VlessFields(f) \subseteq Sent(f)
<1> DEFINE Mine == Fields(f.protocol, InboundSettingsSchema[f.protocol])
<1>1. WireguardFields(f) \subseteq Mine
  BY DEF WireguardFields, Fields, When, InboundSettingsSchema
<1>2. TunFields(f) \subseteq Mine
  BY DEF TunFields, Fields, When, InboundSettingsSchema
<1>3. TunnelFields(f) \subseteq Mine
  BY DEF TunnelFields, Fields, When, InboundSettingsSchema
<1>4. AccountFields(f) \subseteq Mine
  BY DEF AccountFields, Fields, When, InboundSettingsSchema
<1>5. ShadowsocksFields(f) \subseteq Mine
  BY DEF ShadowsocksFields, Fields, When, InboundSettingsSchema
<1>6. VlessFields(f) \subseteq Mine
  BY DEF VlessFields, Fields, When, InboundSettingsSchema
<1> HIDE DEF Mine
<1> QED BY <1>1, <1>2, <1>3, <1>4, <1>5, <1>6, SentHas DEF Mine
(* Of the fallback rows the columns of those that have a child are sent.     *)
LEMMA FallbacksShown ==
  ASSUME NEW f
  PROVE  \A x \in FallbacksCard(f) : x \in Sent(f) \/ ChildlessRow(x)
<1> SUFFICES ASSUME isFallbackHost(f), NEW x \in FallbackColumns(DOMAIN fb), ~ChildlessRow(x)
             PROVE  x \in FallbackColumns(WithChild)
  BY SentHas DEF FallbacksCard, When
<1> DEFINE Columns == {"childId", "name", "alpn", "path", "xver"}
<1>1. PICK i \in DOMAIN fb, c \in Columns : x = <<"fallbacks", <<i, c>>>>
  BY DEF FallbackColumns, Fields
<1>2. i \in WithChild
  BY <1>1 DEF ChildlessRow
<1> QED BY <1>1, <1>2 DEF FallbackColumns, Fields
(* The schema of the network in use is part of what is sent. *)
LEMMA StreamHas ==
  ASSUME NEW f, f \in InbForm
  PROVE  /\ f.network = "xhttp" => Fields("xhttp", XHttpStreamSettingsSchema) \subseteq StreamSent(f)
         /\ f.network = "hysteria" => Fields("hysteria", HysteriaStreamSettingsSchema) \subseteq StreamSent(f)
         /\ f.network \in Networks \ {"xhttp"} =>
              Fields(f.network, NetworkSchema[f.network]) \subseteq StreamSent(f)
         /\ f.network # "" =>
              /\ FinalMaskKept(f.on) \subseteq StreamSent(f)
              /\ "proxy" \in f.on => Fields("externalProxy", ExternalProxyEntrySchema) \subseteq StreamSent(f)
              /\ "sockopt" \in f.on => Fields("sockopt", SockoptStreamSettingsSchema) \subseteq StreamSent(f)
              /\ f.security = "tls" => Fields("tls", TlsStreamSettingsSchema) \subseteq StreamSent(f)
              /\ f.security = "reality" => Fields("reality", RealityStreamSettingsSchema) \subseteq StreamSent(f)
BY DEF StreamSent, When, Networks
LEMMA NetworkShown ==
  ASSUME NEW f, f \in InbForm
  PROVE  TcpFields(f) \cup WsFields(f) \cup GrpcFields(f) \cup XhttpFields(f) \cup XhttpPlacementFields(f)
           \cup HttpUpgradeFields(f) \cup KcpFields(f) \subseteq StreamSent(f)
<1>1. CASE f.network = "xhttp"
  <2>1. XhttpFields(f) \subseteq Fields("xhttp", XHttpStreamSettingsSchema)
    BY DEF XhttpFields, Fields, When, XHttpStreamSettingsSchema
  <2>2. XhttpPlacementFields(f) \subseteq Fields("xhttp", XHttpStreamSettingsSchema)
    BY DEF XhttpPlacementFields, Fields, When, XHttpStreamSettingsSchema
  <2>3. TcpFields(f) \cup WsFields(f) \cup GrpcFields(f) \cup HttpUpgradeFields(f) \cup KcpFields(f) = {}
    BY <1>1 DEF TcpFields, WsFields, GrpcFields, HttpUpgradeFields, KcpFields, When
  <2> QED BY <1>1, <2>1, <2>2, <2>3, StreamHas
<1>2. CASE f.network # "xhttp"
  <2> DEFINE Mine == Fields(f.network, NetworkSchema[f.network])
  <2>1. XhttpFields(f) \cup XhttpPlacementFields(f) = {}
    BY <1>2 DEF XhttpFields, XhttpPlacementFields, When
  <2>2. TcpFields(f) \subseteq Mine
    BY DEF TcpFields, Fields, When, NetworkSchema
  <2>3. WsFields(f) \cup GrpcFields(f) \subseteq Mine
    BY DEF WsFields, GrpcFields, Fields, When, NetworkSchema
  <2>4. HttpUpgradeFields(f) \cup KcpFields(f) \subseteq Mine
    BY DEF HttpUpgradeFields, KcpFields, Fields, When, NetworkSchema
  <2>5. CASE f.network \in Networks
    <3> HIDE DEF Mine
    <3> QED BY <1>2, <2>1, <2>2, <2>3, <2>4, <2>5, StreamHas DEF Mine
  <2>6. CASE f.network \notin Networks
    <3>1. TcpFields(f) \cup WsFields(f) \cup GrpcFields(f) \cup HttpUpgradeFields(f) \cup KcpFields(f) = {}
      BY <2>6 DEF TcpFields, WsFields, GrpcFields, HttpUpgradeFields, KcpFields, When, Networks
    <3> QED BY <2>1, <3>1
  <2> QED BY <2>5, <2>6
<1> QED BY <1>1, <1>2
LEMMA HysteriaShown ==
  ASSUME NEW f, f \in InbForm, f.protocol = "hysteria" <=> f.network = "hysteria"
  PROVE  HysteriaPortHoppingFields(f) \cup HysteriaFields(f) \subseteq StreamSent(f)
<1>1. HysteriaPortHoppingFields(f) \cup HysteriaFields(f) \subseteq
        When(f.protocol = "hysteria", Fields("hysteria", HysteriaStreamSettingsSchema))
  BY DEF HysteriaPortHoppingFields, HysteriaFields, Fields, When, HysteriaStreamSettingsSchema
<1> QED BY <1>1, StreamHas DEF When
LEMMA MasksShown ==
  ASSUME NEW n, NEW p, NEW on
  PROVE  FinalMaskFields(n, p, on) \subseteq FinalMaskKept(on)
<1>1. TcpMaskItem(on) \cup HeaderCustomGroups(on) \cup UdpMaskItem(on) \cup UdpHeaderCustom(on)
        \cup NoiseItems(on) = MaskSettings(on)
  BY DEF MaskSettings
<1>2. QuicParamsForm(on) \subseteq When(Quic \cap on # {}, QuicParamsSchema)
  BY DEF QuicParamsForm, QuicParamsSchema, When
<1> QED BY <1>1, <1>2 DEF FinalMaskFields, FinalMaskKept, Fields, When
LEMMA PartsShown ==
  ASSUME NEW f, f \in InbForm, f.network # ""
  PROVE  ExternalProxyFields(f) \cup SockoptFields(f) \cup SockoptListFields(f)
           \cup FinalMaskFields(f.network, f.protocol, f.on) \cup TlsFields(f) \cup RealityFields(f)
           \subseteq StreamSent(f)
<1>1. ExternalProxyFields(f) \subseteq StreamSent(f)
  <2>1. ExternalProxyFields(f)
          \subseteq When("proxy" \in f.on, Fields("externalProxy", ExternalProxyEntrySchema))
    BY DEF ExternalProxyFields, Fields, When, ExternalProxyEntrySchema
  <2> QED BY <2>1, StreamHas DEF When
<1>2. SockoptFields(f) \subseteq StreamSent(f)
  <2>1. SockoptFields(f) \subseteq When("sockopt" \in f.on, Fields("sockopt", SockoptStreamSettingsSchema))
    BY DEF SockoptFields, Fields, When, SockoptStreamSettingsSchema
  <2> QED BY <2>1, StreamHas DEF When
<1>3. SockoptListFields(f) \subseteq StreamSent(f)
  <2>1. SockoptListFields(f) \subseteq When("sockopt" \in f.on, Fields("sockopt", SockoptStreamSettingsSchema))
    BY DEF SockoptListFields, Fields, When, SockoptStreamSettingsSchema
  <2> QED BY <2>1, StreamHas DEF When
<1>4. FinalMaskFields(f.network, f.protocol, f.on) \subseteq StreamSent(f)
  BY MasksShown, StreamHas
<1>5. TlsFields(f) \subseteq StreamSent(f)
  <2>1. TlsFields(f) \subseteq When(f.security = "tls", Fields("tls", TlsStreamSettingsSchema))
    BY DEF TlsFields, Fields, When, TlsStreamSettingsSchema
  <2> QED BY <2>1, StreamHas DEF When
<1>6. RealityFields(f) \subseteq StreamSent(f)
  <2>1. RealityFields(f) \subseteq When(f.security = "reality", Fields("reality", RealityStreamSettingsSchema))
    BY DEF RealityFields, Fields, When, RealityStreamSettingsSchema
  <2> QED BY <2>1, StreamHas DEF When
<1> QED BY <1>1, <1>2, <1>3, <1>4, <1>5, <1>6

LEMMA StreamShown ==
  ASSUME NEW f, FormGood(f), ~f.raw, canEnableStream(f.protocol)
  PROVE  \A x \in StreamTab(f) \cup SecurityTab(f) : x \in Sent(f) \/ x[1] = "certificates"
<1>1. f \in InbForm /\ f.network # "" /\ (f.protocol = "hysteria" <=> f.network = "hysteria")
  BY DEF FormGood, Coherent
<1>2. {<<"base", "network">>, <<"base", "security">>} \subseteq Sent(f)
  <2>1. {<<"base", "network">>, <<"base", "security">>} \subseteq Fields("base", BaseSchema)
    BY DEF Fields, BaseSchema
  <2> QED BY <2>1, SentHas
<1>3. \A x \in CertificateFields(f) : x[1] = "certificates"
  BY FieldsGrow DEF CertificateFields, When
<1>4. TcpFields(f) \cup WsFields(f) \cup GrpcFields(f) \cup XhttpFields(f) \cup XhttpPlacementFields(f)
        \cup HttpUpgradeFields(f) \cup KcpFields(f) \subseteq Sent(f)
  BY <1>1, NetworkShown, SentHas
<1>5. HysteriaFields(f) \subseteq Sent(f)
  BY <1>1, HysteriaShown, SentHas
<1>6. ExternalProxyFields(f) \cup SockoptFields(f) \cup SockoptListFields(f)
        \cup FinalMaskFields(f.network, f.protocol, f.on) \cup TlsFields(f) \cup RealityFields(f)
          \subseteq Sent(f)
  BY <1>1, PartsShown, SentHas
<1>7. StreamTab(f) \subseteq Sent(f)
  BY <1>2, <1>4, <1>5, <1>6 DEF StreamTab, When
<1>8. \A x \in SecurityTab(f) : x \in Sent(f) \/ x[1] = "certificates"
  BY <1>2, <1>3, <1>6 DEF SecurityTab
<1> QED BY <1>7, <1>8
LEMMA ShownIsSent ==
  ASSUME NEW f, FormGood(f), ~f.raw
  PROVE  \A x \in Visible(f) : x \in Sent(f) \/ x[1] = "certificates" \/ ChildlessRow(x)
<1>1. f \in InbForm /\ (f.protocol = "hysteria" <=> f.network = "hysteria")
  BY DEF FormGood, Coherent
<1>2. HysteriaPortHoppingFields(f) \subseteq Sent(f)
  BY <1>1, HysteriaShown, SentHas
<1>3. \A x \in ProtocolTab(f) : x \in Sent(f) \/ ChildlessRow(x)
  BY SettingsShown, FallbacksShown DEF ProtocolTab, When
<1>4. \A x \in When(canEnableStream(f.protocol), StreamTab(f) \cup SecurityTab(f)) :
        x \in Sent(f) \/ x[1] = "certificates"
  BY StreamShown DEF When
<1> QED BY <1>2, <1>3, <1>4, BasicSent, SniffingSent DEF Visible

(* Every field the dialog of inbounds shows is in what OK posts: the schemas *)
(* that parse the store name them all, but for the modes of certificates and *)
(* for the columns of a fallback row without a child, which are left out.    *)
THEOREM VisibleFieldsAreSent == InbSpec => []VisibleIsSent
<1>1. FormStore => VisibleIsSent
  BY ShownIsSent DEF FormStore, VisibleIsSent
<1> QED BY <1>1, FormStoreHolds, PTL

(* The clients of an edited inbound go along with it: the schema of every    *)
(* protocol that has clients names them, and the whole store is sent.        *)
THEOREM ClientsAreKept == InbSpec => []KeepsClients
<1>1. \A p \in {"vless", "vmess", "trojan", "shadowsocks", "hysteria"} :
        <<p, "clients">> \in Fields(p, InboundSettingsSchema[p])
  BY DEF Fields, InboundSettingsSchema
<1>2. KeepsClients
  BY <1>1, SentHas DEF KeepsClients
<1> QED BY <1>2, PTL

---------------------------------------------------------------------------
(* The dialog of outbounds. *)
RowsTyped == {CleanText, BadText} \cup JsonRows
OutForm ==
  [open : {"add", "edit"}, tab : {"form", "json"}, json : RowsTyped, protocol : OutProtocols,
   net : RowNetworks \cup {"hysteria"}, sec : Securities, on : SUBSET OutParts, drawnFlow : BOOLEAN,
   link : {NoLink} \cup OwnLinks]
Connects(f) ==
  f.link # NoLink /\ f.link.protocol # "shadowsocks" =>
    /\ f.net = f.link.network /\ f.sec = f.link.security
    /\ f.link.carries \cap Essential \subseteq parseOutboundLink(f.link).reads
DialogInv == out = NoDialog \/ (out \in OutForm /\ Connects(out))

(* The settings shown are those the protocol's adapter writes, but for the   *)
(* public key of a Wireguard outbound, which the dialog derives itself.      *)
LEMMA SettingsWritten ==
  ASSUME NEW f, f.protocol \in OutProtocols
  PROVE  ServerFields(f) \cup AuthFields(f) \cup PasswordFields(f) \cup UserFields(f)
           \cup HysteriaVersionField(f) \cup LoopbackFields(f) \cup BlackholeFields(f) \cup DnsFields(f)
           \cup FreedomFields(f) \cup FragmentFields(f) \cup NoisesFields(f) \cup FinalRulesFields(f)
           \cup ReverseSniffingFields(f) \cup WireguardOutFields(f) \cup FlowFields(f)
         \subseteq SettingsToWire(f) \cup {<<"settings", "pubKey">>}
<1> DEFINE Mine == SettingsToWire(f) \cup {<<"settings", "pubKey">>}
<1>1. ServerFields(f) \subseteq Mine
  BY DEF ServerFields, SERVER_PROTOCOLS, When, SettingsToWire, vmessToWire, vlessToWire, trojanToWire,
         shadowsocksToWire, simpleAuthToWire, hysteriaToWire, Settings, Fields
<1>2. AuthFields(f) \subseteq Mine
  BY DEF AuthFields, When, SettingsToWire, vmessToWire, vlessToWire, Settings, Fields
<1>3. PasswordFields(f) \subseteq Mine
  BY DEF PasswordFields, When, SettingsToWire, trojanToWire, shadowsocksToWire, Settings, Fields
<1>4. UserFields(f) \subseteq Mine
  BY DEF UserFields, When, SettingsToWire, simpleAuthToWire, Settings, Fields
<1>5. HysteriaVersionField(f) \cup LoopbackFields(f) \cup BlackholeFields(f) \subseteq Mine
  BY DEF HysteriaVersionField, LoopbackFields, BlackholeFields, When, SettingsToWire, hysteriaToWire,
         blackholeToWire, loopbackToWire, Settings, Fields
<1>6. DnsFields(f) \subseteq Mine
  BY DEF DnsFields, When, SettingsToWire, dnsToWire, Settings, Fields
<1>7. FreedomFields(f) \cup FragmentFields(f) \cup NoisesFields(f) \cup FinalRulesFields(f) \subseteq Mine
  BY DEF FreedomFields, FragmentFields, NoisesFields, FinalRulesFields, When, SettingsToWire,
         freedomToWire, Settings, Fields
<1>8. ReverseSniffingFields(f) \subseteq Mine
  BY DEF ReverseSniffingFields, When, SettingsToWire, vlessToWire, reverseSniffingToWire, Settings, Fields
<1>9. WireguardOutFields(f) \subseteq Mine
  BY DEF WireguardOutFields, When, SettingsToWire, wireguardToWire, Settings, Fields
<1>10. FlowFields(f) \subseteq Mine
  BY DEF FlowFields, canEnableTlsFlow, When, SettingsToWire, vlessToWire, Settings, Fields
<1> HIDE DEF Mine
<1>11. ServerFields(f) \cup AuthFields(f) \cup PasswordFields(f) \cup UserFields(f)
           \cup HysteriaVersionField(f) \cup LoopbackFields(f) \cup BlackholeFields(f) \cup DnsFields(f)
           \cup FreedomFields(f) \cup FragmentFields(f) \cup NoisesFields(f) \cup FinalRulesFields(f)
           \cup ReverseSniffingFields(f) \cup WireguardOutFields(f) \cup FlowFields(f) \subseteq Mine
  BY <1>1, <1>2, <1>3, <1>4, <1>5, <1>6, <1>7, <1>8, <1>9, <1>10
<1> QED BY <1>11 DEF Mine
(* The blocks of the stream are shown for the protocols that have one; the   *)
(* socket options and the masks for the others as well.                      *)
LEMMA StreamBlocksShown ==
  ASSUME NEW f,
         NEW x \in NetworkField(f) \cup TcpOutFields(f) \cup KcpOutFields(f) \cup WsOutFields(f)
               \cup GrpcOutFields(f) \cup HttpUpgradeOutFields(f) \cup XhttpOutFields(f)
               \cup PlacementOutFields(f) \cup XhttpModeOutFields(f) \cup XmuxFields(f)
               \cup HysteriaOutFields(f) \cup SecurityRadio(f) \cup TlsOutFields(f) \cup RealityOutFields(f)
  PROVE  canEnableStream(f.protocol) /\ x[1] \in StreamBlocks
<1>1. \A c \in BOOLEAN : \A b, X : x \in When(c, Fields(b, X)) => c /\ x[1] = b
  BY DEF When, Fields
<1>2. CASE x \in NetworkField(f) \cup SecurityRadio(f)
  <2>1. streamShown(f) /\ x \in {<<"stream", "network">>, <<"stream", "security">>}
    BY <1>2 DEF NetworkField, SecurityRadio, When
  <2>2. x[1] = "stream"
    BY <2>1
  <2> QED BY <2>1, <2>2 DEF streamShown, StreamBlocks
<1>3. CASE x \in TcpOutFields(f) \cup KcpOutFields(f) \cup WsOutFields(f) \cup GrpcOutFields(f)
                   \cup HttpUpgradeOutFields(f)
  BY <1>1, <1>3 DEF TcpOutFields, KcpOutFields, WsOutFields, GrpcOutFields, HttpUpgradeOutFields,
                    streamShown, StreamBlocks, Networks
<1>4. CASE x \in XhttpOutFields(f) \cup PlacementOutFields(f) \cup XhttpModeOutFields(f) \cup XmuxFields(f)
                   \cup HysteriaOutFields(f)
  BY <1>1, <1>4 DEF XhttpOutFields, PlacementOutFields, XhttpModeOutFields, XmuxFields, HysteriaOutFields,
                    streamShown, StreamBlocks, Networks
<1>5. CASE x \in TlsOutFields(f) \cup RealityOutFields(f)
  BY <1>1, <1>5 DEF TlsOutFields, RealityOutFields, canEnableTls, canEnableReality, canEnableStream,
                    StreamBlocks
<1> QED BY <1>2, <1>3, <1>4, <1>5
LEMMA SharedBlocksShown ==
  ASSUME NEW f
  PROVE  /\ \A x \in SockoptOutFields(f) \cup HappyEyeballsFields(f) \cup CustomSockoptFields(f) :
              x[1] = "sockopt"
         /\ \A x \in FinalMaskFields(f.net, f.protocol, f.on) : x[1] = "finalmask"
         /\ \A x \in MuxFields(f) : x[1] = "mux" /\ isMuxAllowed(f.protocol, f.drawnFlow, f.net)
<1>1. \A x \in SockoptOutFields(f) \cup HappyEyeballsFields(f) \cup CustomSockoptFields(f) :
              x[1] = "sockopt"
  BY DEF SockoptOutFields, HappyEyeballsFields, CustomSockoptFields, When, Fields
<1>2. \A x \in FinalMaskFields(f.net, f.protocol, f.on) : x[1] = "finalmask"
  BY FieldsGrow DEF FinalMaskFields
<1>3. \A x \in MuxFields(f) : x[1] = "mux" /\ isMuxAllowed(f.protocol, f.drawnFlow, f.net)
  BY FieldsGrow DEF MuxFields, When
<1> QED BY <1>1, <1>2, <1>3
(* What the row keeps of a set of fields. *)
LEMMA RowHas ==
  ASSUME NEW f, NEW F, NEW x \in F
  PROVE  /\ x \in OutBase \cup SettingsToWire(f) => x \in ToWire(f, F)
         /\ canEnableStream(f.protocol) /\ x[1] \in StreamBlocks /\ x # <<"xhttp", "enableXmux">>
              => x \in ToWire(f, F)
         /\ x[1] = "sockopt" => x \in ToWire(f, F) \/ x = <<"xhttp", "enableXmux">>
         /\ x[1] = "mux" /\ "mux" \in f.on /\ muxAllowed(f, F) => x \in ToWire(f, F)
BY DEF ToWire, StreamToWire, stripUiOnlyStreamFields, When, StreamBlocks
(* A field the form tab shows is in the row, or one of the exceptions.       *)
LEMMA ShownIsConfirmed ==
  ASSUME NEW f, f.protocol \in OutProtocols, NEW x \in Registered(f)
  PROVE  \/ x \in Confirmed(f)
         \/ x \in {<<"settings", "pubKey">>, <<"xhttp", "enableXmux">>}
         \/ x[1] = "finalmask" /\ ~canEnableStream(f.protocol)
         \/ x[1] = "mux" /\ ("mux" \notin f.on \/ f.drawnFlow # ("flow" \in f.on))
<1> DEFINE F == Registered(f)
<1>1. CASE x \in OutBase
  BY <1>1, RowHas DEF Confirmed
<1>2. CASE x \in ServerFields(f) \cup AuthFields(f) \cup PasswordFields(f) \cup UserFields(f)
           \cup HysteriaVersionField(f) \cup LoopbackFields(f) \cup BlackholeFields(f) \cup DnsFields(f)
           \cup FreedomFields(f) \cup FragmentFields(f) \cup NoisesFields(f) \cup FinalRulesFields(f)
           \cup ReverseSniffingFields(f) \cup WireguardOutFields(f) \cup FlowFields(f)
  <2>1. x \in SettingsToWire(f) \cup {<<"settings", "pubKey">>}
    BY <1>2, SettingsWritten
  <2> QED BY <2>1, RowHas DEF Confirmed
<1>3. CASE x \in NetworkField(f) \cup TcpOutFields(f) \cup KcpOutFields(f) \cup WsOutFields(f)
               \cup GrpcOutFields(f) \cup HttpUpgradeOutFields(f) \cup XhttpOutFields(f)
               \cup PlacementOutFields(f) \cup XhttpModeOutFields(f) \cup XmuxFields(f)
               \cup HysteriaOutFields(f) \cup SecurityRadio(f) \cup TlsOutFields(f) \cup RealityOutFields(f)
  <2>1. canEnableStream(f.protocol) /\ x[1] \in StreamBlocks
    BY <1>3, StreamBlocksShown
  <2> QED BY <2>1, RowHas DEF Confirmed
<1>4. CASE x \in SockoptOutFields(f) \cup HappyEyeballsFields(f) \cup CustomSockoptFields(f)
  <2>1. x[1] = "sockopt"
    BY <1>4, SharedBlocksShown
  <2> QED BY <2>1, RowHas DEF Confirmed
<1>5. CASE x \in FinalMaskFields(f.net, f.protocol, f.on)
  <2>1. x[1] = "finalmask"
    BY <1>5, SharedBlocksShown
  <2>2. x # <<"xhttp", "enableXmux">>
    BY <2>1
  <2> QED BY <2>1, <2>2, RowHas DEF Confirmed, StreamBlocks
<1>6. CASE x \in MuxFields(f)
  <2>1. x[1] = "mux" /\ isMuxAllowed(f.protocol, f.drawnFlow, f.net)
    BY <1>6, SharedBlocksShown
  <2>2. ASSUME "mux" \in f.on, f.drawnFlow = ("flow" \in f.on) PROVE muxAllowed(f, F)
    BY <2>1, <2>2 DEF muxAllowed, isMuxAllowed
  <2> QED BY <2>1, <2>2, RowHas DEF Confirmed
<1>7. x \in Shown(f)
  BY DEF Registered
<1> QED BY <1>1, <1>2, <1>3, <1>4, <1>5, <1>6, <1>7 DEF Shown

(* What the row takes of the settings, its reader reads.                     *)
LEMMA WrittenIsRead ==
  ASSUME NEW f, f.protocol \in OutProtocols
  PROVE  SettingsToWire(f) \subseteq SettingsFromWire(f.protocol) \cup {<<"settings", "encryption">>}
<1>1. CASE f.protocol \in {"vmess", "trojan", "shadowsocks", "socks", "http", "wireguard"}
  BY <1>1 DEF SettingsToWire, SettingsFromWire, vmessToWire, trojanToWire, shadowsocksToWire,
        simpleAuthToWire, wireguardToWire, vmessFromWire, trojanFromWire, shadowsocksFromWire,
        simpleAuthFromWire, wireguardFromWire
<1>2. CASE f.protocol = "vless"
  BY <1>2 DEF SettingsToWire, SettingsFromWire, vlessToWire, vlessFromWire, reverseSniffingToWire,
        reverseSniffingFromWire, Settings, Fields, When
<1>3. CASE f.protocol = "freedom"
  BY <1>3 DEF SettingsToWire, SettingsFromWire, freedomToWire, freedomFromWire, Settings, Fields, When
<1>4. CASE f.protocol \in {"hysteria", "blackhole", "dns", "loopback"}
  BY <1>4 DEF SettingsToWire, SettingsFromWire, hysteriaToWire, blackholeToWire, dnsToWire,
        loopbackToWire, hysteriaFromWire, blackholeFromWire, dnsFromWire, loopbackFromWire
<1> QED BY <1>1, <1>2, <1>3, <1>4 DEF OutProtocols
LEMMA ConfirmedIsRead ==
  ASSUME NEW f, f.protocol \in OutProtocols, NEW x \in Confirmed(f), x[1] = "settings"
  PROVE  x \in SettingsFromWire(f.protocol) \cup {<<"settings", "encryption">>}
<1>1. x \notin OutBase
  BY FieldsGrow DEF OutBase
<1>2. x \notin StreamToWire(f, Registered(f))
  BY DEF StreamToWire, stripUiOnlyStreamFields, StreamBlocks, Networks
<1>3. x \in SettingsToWire(f)
  BY <1>1, <1>2 DEF Confirmed, ToWire, When
<1> QED BY <1>3, WrittenIsRead

---------------------------------------------------------------------------
(* Links of the panel's own inbounds. *)
LEMMA LinkShape ==
  ASSUME NEW l \in OwnLinks
  PROVE  \E r \in LinkInbounds, on \in {{}, {"http", "obfs"}}, forceTls \in {"same", "tls", "none"} :
           l = genLink(r.protocol, r.net, r.sec, on, forceTls)
<1>1. PICK r \in LinkInbounds, on \in {{}, {"http", "obfs"}}, forced \in {{}, {"tls", "none"}} :
        l \in genAllLinks(r.protocol, r.net, r.sec, on, forced)
  BY DEF OwnLinks
<1>2. PICK t \in IF forced = {} THEN {"same"} ELSE forced : l = genLink(r.protocol, r.net, r.sec, on, t)
  BY <1>1 DEF genAllLinks
<1>3. t \in {"same", "tls", "none"}
  BY <1>2
<1> QED BY <1>2, <1>3
LEMMA InboundShape ==
  ASSUME NEW r \in LinkInbounds
  PROVE  /\ r.protocol \in LinkProtocols /\ r.net \in Networks /\ r.sec \in Securities
         /\ r.sec = "tls" => canEnableTls(r.protocol, r.net)
         /\ r.sec = "reality" => canEnableReality(r.protocol, r.net)
<1>1. PICK p \in LinkProtocols, n \in Networks, s \in Securities : r = OutRow(p, n, s) /\ FitsRow(r)
  BY DEF LinkInbounds, Securities
<1>2. r.protocol = p /\ r.net = n /\ r.sec = s
  BY <1>1 DEF OutRow
<1> QED BY <1>1, <1>2 DEF FitsRow

(* The transport a link carries is read back by the readers of its network   *)
(* and of the security the link ends up with.                                *)
LEMMA NetworkCarried ==
  ASSUME NEW n \in Networks, NEW on, NEW x \in writeNetworkParams(n, on), x \in Essential
  PROVE  /\ x \in applyTransportParams(n)
         /\ n = "xhttp" => x \in Fields("xhttp", {"path", "host"})
<1>1. CASE n \in {"tcp", "kcp"}
  BY <1>1 DEF writeNetworkParams, applyTransportParams, Fields, When, Essential
<1>2. CASE n \in {"ws", "httpupgrade", "grpc"}
  BY <1>2 DEF writeNetworkParams, applyTransportParams, Fields, When, Essential
<1>3. CASE n = "xhttp"
  <2>1. x[1] = "xhttp"
    BY <1>3 DEF writeNetworkParams, Fields
  <2>2. x \in {"ws", "httpupgrade", "xhttp"} \X {"path", "host"}
    BY <2>1 DEF Essential, Fields
  <2>3. x \in Fields("xhttp", {"path", "host"})
    BY <2>1, <2>2 DEF Fields
  <2>4. x \in applyTransportParams(n)
    BY <1>3, <2>3 DEF applyTransportParams, Fields
  <2> QED BY <2>3, <2>4
<1> QED BY <1>1, <1>2, <1>3 DEF Networks
LEMMA SecurityCarried ==
  ASSUME NEW n \in Networks, NEW s \in Securities, NEW on, NEW t \in {"same", "tls", "none"},
         NEW x \in LinkTransport(n, s, on, t), x \in Essential
  PROVE  x \in writeNetworkParams(n, on) \/ x \in applySecurityParams(LinkSecurity(s, t))
<1>1. CASE x \in FinalMaskParam(on)
  <2>1. x = <<"finalmask", "all">>
    BY <1>1 DEF FinalMaskParam, When
  <2> QED BY <2>1 DEF Essential, Fields
<1>2. CASE LinkSecurity(s, t) = "tls" /\ x \in writeTlsParams(s) \cup applyExternalProxyTLSParams(t = "tls")
  BY <1>2 DEF writeTlsParams, applyExternalProxyTLSParams, applySecurityParams, When, Fields, Essential
<1>3. CASE LinkSecurity(s, t) = "reality" /\ x \in writeRealityParams(s)
  BY <1>3 DEF writeRealityParams, applySecurityParams, When, Fields, Essential
<1> QED BY <1>1, <1>2, <1>3 DEF LinkTransport, When
(* Every link but those of Shadowsocks names the stream and carries no more  *)
(* of what a client needs than its reader looks for.                         *)
Faithful(l) ==
  /\ l.network \in Networks \cup {"hysteria"} /\ parseOutboundLink(l).security = l.security
  /\ l.security \in Securities
  /\ l.carries \cap Essential \subseteq parseOutboundLink(l).reads
LEMMA VmessFaithful ==
  ASSUME NEW n \in Networks, NEW s \in {"none", "tls"}, NEW on, NEW t \in {"same", "tls", "none"}
  PROVE  Faithful(genVmessLink(n, s, on, t))
<1> DEFINE l == genVmessLink(n, s, on, t)
<1>1. l.protocol = "vmess" /\ l.network = n /\ l.security = LinkSecurity(s, t)
        /\ l.carries = Target \cup Fields("settings", {"id", "security"})
                         \cup (LinkTransport(n, s, on, t) \ {<<"tls", "echConfigList">>})
  BY DEF genVmessLink, Link
<1> HIDE DEF l
<1>2. parseOutboundLink(l) = parseVmessLink(l) /\ LinkSecurity(s, t) \in {"none", "tls"}
  BY <1>1 DEF parseOutboundLink, LinkSecurity
<1>3. parseVmessLink(l).security = LinkSecurity(s, t)
  BY <1>1, <1>2 DEF parseVmessLink
<1>4. ASSUME NEW x \in l.carries, x \in Essential PROVE x \in parseVmessLink(l).reads
  <2>1. CASE x \in Target \cup Fields("settings", {"id", "security"})
    BY <2>1 DEF parseVmessLink
  <2>2. CASE x \in writeNetworkParams(n, on)
    BY <1>1, <1>4, <2>2, NetworkCarried DEF parseVmessLink, When
  <2>3. CASE x \in applySecurityParams(LinkSecurity(s, t))
    BY <1>1, <1>2, <2>3 DEF parseVmessLink, When, applySecurityParams
  <2> QED BY <1>1, <1>4, <2>1, <2>2, <2>3, SecurityCarried DEF Securities
<1>5. Faithful(l)
  BY <1>1, <1>2, <1>3, <1>4 DEF Faithful, Securities
<1> QED BY <1>5 DEF l
LEMMA VlessFaithful ==
  ASSUME NEW n \in Networks, NEW s \in Securities, NEW on, NEW t \in {"same", "tls", "none"}
  PROVE  Faithful(genVlessLink(n, s, on, t)) /\ Faithful(genTrojanLink(n, s, on, t))
<1>0. LinkSecurity(s, t) \in Securities
  BY DEF LinkSecurity, Securities
<1>1. Faithful(genVlessLink(n, s, on, t))
  <2> DEFINE l == genVlessLink(n, s, on, t)
             flow == When(n = "tcp" /\ LinkSecurity(s, t) = s /\ s # "none", {"flow"})
  <2>1. l.protocol = "vless" /\ l.network = n /\ l.security = LinkSecurity(s, t)
          /\ l.carries = Target \cup Fields("settings", {"id", "encryption"} \cup flow)
                           \cup LinkTransport(n, s, on, t)
    BY DEF genVlessLink, Link
  <2>2. flow \subseteq {"flow"}
    BY DEF When
  <2> HIDE DEF l, flow
  <2>3. parseOutboundLink(l) = parseVlessLink(l)
    BY <2>1 DEF parseOutboundLink
  <2>4. ASSUME NEW x \in l.carries, x \in Essential PROVE x \in parseVlessLink(l).reads
    <3>1. CASE x \in Target
      BY <3>1 DEF parseVlessLink
    <3>2. CASE x \in Fields("settings", {"id", "encryption"} \cup flow)
      <4>1. x \in Fields("settings", {"id", "flow"}) \/ x = <<"settings", "encryption">>
        <5>1. PICK k \in {"id", "encryption"} \cup flow : x = <<"settings", k>>
          <6> DEFINE names == {"id", "encryption"} \cup flow
          <6>1. x \in Fields("settings", names)
            BY <3>2
          <6> HIDE DEF names
          <6>2. \E k \in names : x = <<"settings", k>>
            BY <6>1, FieldIs
          <6> QED BY <6>2 DEF names
        <5>2. k \in {"id", "encryption", "flow"}
          BY <2>2
        <5> QED BY <5>1, <5>2 DEF Fields
      <4>2. <<"settings", "encryption">> \notin Essential
        BY DEF Essential, Fields
      <4> QED BY <2>4, <4>1, <4>2 DEF parseVlessLink
    <3>3. CASE x \in writeNetworkParams(n, on)
      BY <2>1, <2>4, <3>3, NetworkCarried DEF parseVlessLink
    <3>4. CASE x \in applySecurityParams(LinkSecurity(s, t))
      BY <2>1, <3>4 DEF parseVlessLink
    <3> QED BY <2>1, <2>4, <3>1, <3>2, <3>3, <3>4, SecurityCarried
  <2>5. parseVlessLink(l).security = l.security
    BY DEF parseVlessLink
  <2>6. Faithful(l)
    BY <1>0, <2>1, <2>3, <2>4, <2>5 DEF Faithful
  <2> QED BY <2>6 DEF l
<1>2. Faithful(genTrojanLink(n, s, on, t))
  <2> DEFINE l == genTrojanLink(n, s, on, t)
  <2>1. l.protocol = "trojan" /\ l.network = n /\ l.security = LinkSecurity(s, t)
          /\ l.carries = Target \cup {<<"settings", "password">>} \cup LinkTransport(n, s, on, t)
    BY DEF genTrojanLink, Link
  <2> HIDE DEF l
  <2>3. parseOutboundLink(l) = parseTrojanLink(l)
    BY <2>1 DEF parseOutboundLink
  <2>4. ASSUME NEW x \in l.carries, x \in Essential PROVE x \in parseTrojanLink(l).reads
    <3>1. CASE x \in Target \cup {<<"settings", "password">>}
      BY <3>1 DEF parseTrojanLink
    <3>3. CASE x \in writeNetworkParams(n, on)
      BY <2>1, <2>4, <3>3, NetworkCarried DEF parseTrojanLink
    <3>4. CASE x \in applySecurityParams(LinkSecurity(s, t))
      BY <2>1, <3>4 DEF parseTrojanLink
    <3> QED BY <2>1, <2>4, <3>1, <3>3, <3>4, SecurityCarried
  <2>5. parseTrojanLink(l).security = l.security
    BY DEF parseTrojanLink
  <2>6. Faithful(l)
    BY <1>0, <2>1, <2>3, <2>4, <2>5 DEF Faithful
  <2> QED BY <2>6 DEF l
<1> QED BY <1>1, <1>2
LEMMA HysteriaFaithful ==
  ASSUME NEW on
  PROVE  Faithful(genHysteriaLink(on))
<1> DEFINE l == genHysteriaLink(on)
           extra == When("hopping" \in on, {<<"hysteria", "portHopping">>})
                      \cup When("udp.salamander" \in on, {<<"finalmask", "udp.password">>})
                      \cup FinalMaskParam(on)
<1>1. l.protocol = "hysteria" /\ l.network = "hysteria" /\ l.security = "tls"
        /\ l.carries = Target \cup {<<"hysteria", "auth">>} \cup writeTlsParams("tls") \cup extra
  BY DEF genHysteriaLink, Link
<1>2. \A x \in extra : x \notin Essential
  BY DEF When, FinalMaskParam, Essential, Fields
<1> HIDE DEF l, extra
<1>3. parseOutboundLink(l) = parseHysteria2Link(l)
  BY <1>1 DEF parseOutboundLink
<1>4. ASSUME NEW x \in l.carries, x \in Essential PROVE x \in parseHysteria2Link(l).reads
  <2>1. CASE x \in Target \cup {<<"hysteria", "auth">>}
    BY <2>1 DEF parseHysteria2Link, Fields
  <2>2. CASE x \in writeTlsParams("tls")
    BY <1>4, <2>2 DEF writeTlsParams, parseHysteria2Link, When, Fields, Essential
  <2> QED BY <1>1, <1>2, <1>4, <2>1, <2>2
<1>5. parseHysteria2Link(l).security = "tls"
  BY DEF parseHysteria2Link
<1>6. Faithful(l)
  BY <1>1, <1>3, <1>4, <1>5 DEF Faithful, Securities
<1> QED BY <1>6 DEF l
LEMMA LinksFaithful ==
  ASSUME NEW l \in OwnLinks, Parseable(l)
  PROVE  /\ l.protocol \in OutProtocols
         /\ l.protocol # "shadowsocks" => Faithful(l)
<1>1. PICK r \in LinkInbounds, on \in {{}, {"http", "obfs"}}, t \in {"same", "tls", "none"} :
           l = genLink(r.protocol, r.net, r.sec, on, t)
  BY LinkShape
<1>2. /\ r.protocol \in LinkProtocols /\ r.net \in Networks /\ r.sec \in Securities
      /\ r.sec = "reality" => canEnableReality(r.protocol, r.net)
  BY InboundShape
<1>3. CASE r.protocol = "vmess"
  <2>1. l = genVmessLink(r.net, r.sec, on, t) /\ r.sec \in {"none", "tls"}
    BY <1>1, <1>2, <1>3 DEF genLink, canEnableReality, Securities
  <2>2. l.protocol = "vmess"
    BY <2>1 DEF genVmessLink, Link
  <2> QED BY <1>2, <2>1, <2>2, VmessFaithful DEF OutProtocols
<1>4. CASE r.protocol = "vless"
  <2>1. l = genVlessLink(r.net, r.sec, on, t)
    BY <1>1, <1>4 DEF genLink
  <2>2. l.protocol = "vless"
    BY <2>1 DEF genVlessLink, Link
  <2> QED BY <1>2, <2>1, <2>2, VlessFaithful DEF OutProtocols
<1>5. CASE r.protocol = "trojan"
  <2>1. l = genTrojanLink(r.net, r.sec, on, t)
    BY <1>1, <1>5 DEF genLink
  <2>2. l.protocol = "trojan"
    BY <2>1 DEF genTrojanLink, Link
  <2> QED BY <1>2, <2>1, <2>2, VlessFaithful DEF OutProtocols
<1>6. CASE r.protocol = "shadowsocks"
  <2>1. l = genShadowsocksLink(r.net, r.sec, on, t)
    BY <1>1, <1>6 DEF genLink
  <2>2. l.protocol = "shadowsocks"
    BY <2>1 DEF genShadowsocksLink, Link
  <2> QED BY <2>2 DEF OutProtocols
<1>7. CASE r.protocol = "hysteria"
  <2>1. l = genHysteriaLink(on)
    BY <1>1, <1>7 DEF genLink
  <2>2. l.protocol = "hysteria"
    BY <2>1 DEF genHysteriaLink, Link
  <2> QED BY <2>1, <2>2, HysteriaFaithful DEF OutProtocols
<1>8. CASE r.protocol = "wireguard"
  <2>1. l = genWireguardLink
    BY <1>1, <1>8 DEF genLink
  <2>2. l.protocol = "wireguard"
    BY <2>1 DEF genWireguardLink, Link
  <2> QED BY <2>2 DEF Parseable
<1> QED BY <1>2, <1>3, <1>4, <1>5, <1>6, <1>7, <1>8 DEF LinkProtocols

(* The dialog's own invariant: what a link was imported into still is what   *)
(* the link says, until anything else is done.                               *)
LEMMA RowIs ==
  ASSUME NEW p, NEW n, NEW s
  PROVE  /\ OutRow(p, n, s).protocol = p /\ OutRow(p, n, s).net = n /\ OutRow(p, n, s).sec = s
         /\ OutRow(p, n, s).on = {}
BY DEF OutRow
OutRowType ==
  [protocol : OutProtocols, net : RowNetworks \cup {"hysteria"}, sec : Securities, on : SUBSET OutParts]
LEMMA OutRowTyped ==
  ASSUME NEW p \in OutProtocols, NEW n \in RowNetworks \cup {"hysteria"}, NEW s \in Securities
  PROVE  OutRow(p, n, s) \in OutRowType
BY DEF OutRow, OutRowType
LEMMA PlainTyped ==
  ASSUME NEW p \in OutProtocols
  PROVE  PlainRow(p) \in OutRowType
<1>1. "" \in RowNetworks /\ "none" \in Securities
  BY DEF RowNetworks, Securities
<1> QED BY <1>1, OutRowTyped DEF PlainRow
LEMMA RowsAreTyped ==
  /\ \A r \in StoredOutRows : r \in OutRowType
  /\ \A r \in JsonRows : r \in OutRowType
<1>1. ASSUME NEW r \in StoredOutRows PROVE r \in OutRowType
  <2>1. CASE r \in {OutRow(p, n, s) : p \in {"vmess", "vless", "trojan", "shadowsocks"}, n \in RowNetworks,
                     s \in {"none", "tls", "reality"}}
    <3>1. PICK p \in {"vmess", "vless", "trojan", "shadowsocks"}, n \in RowNetworks,
               s \in {"none", "tls", "reality"} : r = OutRow(p, n, s)
      BY <2>1
    <3> QED BY <3>1, OutRowTyped DEF OutProtocols, Securities
  <2>2. CASE r \in {PlainRow(p) : p \in OutProtocols}
    BY <2>2, PlainTyped
  <2>3. CASE r = OutRow("hysteria", "hysteria", "tls")
    BY <2>3, OutRowTyped DEF OutProtocols, Securities
  <2> QED BY <2>1, <2>2, <2>3 DEF StoredOutRows
<1>2. ASSUME NEW r \in JsonRows PROVE r \in OutRowType
  <2>1. {"vless", "vmess", "freedom"} \subseteq OutProtocols /\ {"tcp", "ws"} \subseteq RowNetworks
          /\ {"reality", "tls"} \subseteq Securities
    BY DEF OutProtocols, RowNetworks, Networks, Securities
  <2> QED BY <1>2, <2>1, OutRowTyped, PlainTyped DEF JsonRows
<1> QED BY <1>1, <1>2
LEMMA SeededTyped ==
  ASSUME NEW f \in OutForm
  PROVE  Seeded(f) \in OutForm /\ Seeded(f).link = f.link
         /\ (f.net # "" => Seeded(f).net = f.net /\ Seeded(f).sec = f.sec)
<1>1. "tcp" \in RowNetworks /\ "none" \in Securities
  BY DEF RowNetworks, Networks, Securities
<1>2. f.on \cap (SettingsParts \cup {"mux"}) \in SUBSET OutParts
  BY DEF OutForm
<1>3. CASE canEnableStream(f.protocol) /\ f.net = ""
  <2>1. Seeded(f) = [f EXCEPT !.net = "tcp", !.sec = "none", !.on = f.on \cap (SettingsParts \cup {"mux"})]
    BY <1>3 DEF Seeded
  <2> QED BY <1>1, <1>2, <1>3, <2>1 DEF OutForm
<1>4. CASE ~(canEnableStream(f.protocol) /\ f.net = "")
  BY <1>4 DEF Seeded
<1> QED BY <1>3, <1>4
LEMMA LoadedTyped ==
  ASSUME NEW mode \in {"add", "edit"}, NEW row \in OutRowType, NEW link \in {NoLink} \cup OwnLinks
  PROVE  /\ Loaded(mode, row, link) \in OutForm /\ Loaded(mode, row, link).link = link
         /\ row.net # "" => Loaded(mode, row, link).net = row.net /\ Loaded(mode, row, link).sec = row.sec
<1> DEFINE f == [open |-> mode, tab |-> "form", json |-> CleanText, protocol |-> row.protocol, net |-> row.net,
                 sec |-> row.sec, on |-> row.on, drawnFlow |-> "flow" \in row.on, link |-> link]
<1>1. f \in OutForm /\ f.link = link /\ f.net = row.net /\ f.sec = row.sec
  <2>1. CleanText \in RowsTyped
    BY DEF RowsTyped
  <2>2. row.protocol \in OutProtocols /\ row.net \in RowNetworks \cup {"hysteria"} /\ row.sec \in Securities
          /\ row.on \in SUBSET OutParts /\ ("flow" \in row.on) \in BOOLEAN
    BY DEF OutRowType
  <2> QED BY <2>1, <2>2 DEF OutForm
<1>2. Loaded(mode, row, link) = Seeded(f)
  BY DEF Loaded
<1> HIDE DEF f
<1> QED BY <1>1, <1>2, SeededTyped
LEMMA LoadedUnlinked ==
  ASSUME NEW mode \in {"add", "edit"}, NEW row \in OutRowType
  PROVE  Loaded(mode, row, NoLink) \in OutForm /\ Loaded(mode, row, NoLink).link = NoLink
<1>1. NoLink \in {NoLink} \cup OwnLinks
  OBVIOUS
<1> QED BY <1>1, LoadedTyped
LEMMA LoadedKeeps ==
  ASSUME NEW mode \in {"add", "edit"}, NEW row \in OutRowType, out' = Loaded(mode, row, NoLink)
  PROVE  DialogInv'
<1> DEFINE f == Loaded(mode, row, NoLink)
<1>1. f \in OutForm /\ f.link = NoLink
  BY LoadedUnlinked
<1>2. out' \in OutForm /\ out'.link = NoLink
  BY <1>1
<1> QED BY <1>2 DEF DialogInv, Connects
LEMMA DrawnKeeps ==
  ASSUME NEW f \in OutForm, out' = Drawn(f)
  PROVE  DialogInv'
<1>1. out' \in OutForm /\ out'.link = NoLink
  <2>1. ("flow" \in f.on) \in BOOLEAN
    OBVIOUS
  <2>2. ASSUME NEW b \in BOOLEAN PROVE [f EXCEPT !.drawnFlow = b, !.link = NoLink] \in OutForm
                                         /\ [f EXCEPT !.drawnFlow = b, !.link = NoLink].link = NoLink
    BY <2>2 DEF OutForm
  <2> QED BY <2>1, <2>2 DEF Drawn
<1> QED BY <1>1 DEF DialogInv, Connects

(* Each action on the dialog of outbounds keeps it typed and its link true.  *)
LEMMA AppliedTyped ==
  ASSUME NEW f \in OutForm
  PROVE  Applied(f) \in OutForm /\ (Connects(f) => Connects(Applied(f)))
<1>1. CASE f.json \in {CleanText, BadText}
  BY <1>1 DEF Applied
<1>2. CASE f.json \notin {CleanText, BadText}
  <2>1. f.json \in JsonRows /\ f.open \in {"add", "edit"}
    BY <1>2 DEF OutForm, RowsTyped
  <2>2. Applied(f) = Loaded(f.open, f.json, NoLink)
    BY <1>2 DEF Applied
  <2>3. f.json \in OutRowType
    BY <2>1, RowsAreTyped
  <2> QED BY <2>1, <2>2, <2>3, LoadedUnlinked DEF Connects
<1> QED BY <1>1, <1>2
LEMMA DialogChanges ==
  ASSUME DialogInv, NEW p \in OutProtocols, NEW n \in RowNetworks \cup {"hysteria"}, NEW s \in Securities,
         NEW o \in OutParts,
         OutProtocolChange(p) \/ OutNetworkChange(n) \/ OutSecurityChange(s) \/ OutToggle(o)
  PROVE  DialogInv'
<1>1. out \in OutForm
  BY DEF DialogInv, OutProtocolChange, OutNetworkChange, OutSecurityChange, OutToggle, InForm
<1>2. \A gone : out.on \ gone \in SUBSET OutParts /\ out.on \cap gone \in SUBSET OutParts
  BY <1>1 DEF OutForm
<1>3. CASE OutProtocolChange(p)
  <2> DEFINE on == out.on \ SettingsParts
             f == [out EXCEPT !.protocol = p, !.on = on]
  <2>1. on \in SUBSET OutParts
    BY <1>2
  <2>2. f \in OutForm
    <3> HIDE DEF on
    <3> QED BY <1>1, <2>1 DEF OutForm
  <2>3. out' = Drawn(Seeded(f))
    BY <1>3 DEF OutProtocolChange
  <2> HIDE DEF f
  <2> QED BY <2>2, <2>3, SeededTyped, DrawnKeeps
<1>4. CASE OutNetworkChange(n)
  <2> DEFINE unfit == \/ out.sec = "tls" /\ ~canEnableTls(out.protocol, n)
                      \/ out.sec = "reality" /\ ~canEnableReality(out.protocol, n)
             on == out.on \cap (SettingsParts \cup {"mux"})
             sec == IF unfit THEN "none" ELSE out.sec
             f == [out EXCEPT !.net = n, !.sec = sec, !.on = on]
  <2>1. on \in SUBSET OutParts
    BY <1>2
  <2>2. sec \in Securities
    <3> HIDE DEF unfit
    <3> QED BY <1>1 DEF OutForm, Securities
  <2>3. f \in OutForm
    <3> HIDE DEF on, sec
    <3> QED BY <1>1, <2>1, <2>2 DEF OutForm
  <2>4. out' = Drawn(f)
    BY <1>4 DEF OutNetworkChange
  <2> HIDE DEF f
  <2> QED BY <2>3, <2>4, DrawnKeeps
<1>5. CASE OutSecurityChange(s)
  <2>1. [out EXCEPT !.sec = s] \in OutForm
    BY <1>1 DEF OutForm
  <2> QED BY <1>5, <2>1, DrawnKeeps DEF OutSecurityChange
<1>6. CASE OutToggle(o)
  <2>1. PICK on : out' = [out EXCEPT !.link = NoLink, !.on = on] /\ on \subseteq out.on \cup {o}
    BY <1>6 DEF OutToggle, Pruned
  <2>2. on \in SUBSET OutParts
    BY <1>1, <2>1 DEF OutForm
  <2>3. out' \in OutForm /\ out'.link = NoLink
    BY <1>1, <2>1, <2>2 DEF OutForm
  <2> QED BY <2>3 DEF DialogInv, Connects
<1> QED BY <1>3, <1>4, <1>5, <1>6
LEMMA JsonSteps ==
  ASSUME DialogInv, ShowJson \/ TypeJson \/ ShowForm \/ ConfirmOut \/ TypeTag \/ CloseOut
  PROVE  DialogInv'
<1>1. out \in OutForm /\ Connects(out)
  BY DEF DialogInv, ShowJson, TypeJson, ShowForm, ConfirmOut, TypeTag, CloseOut, InForm
<1>2. CleanText \in RowsTyped /\ BadText \in RowsTyped /\ JsonRows \subseteq RowsTyped
  BY DEF RowsTyped
<1>3. CASE ShowJson
  <2>1. [out EXCEPT !.tab = "json", !.json = CleanText] \in OutForm
    BY <1>1, <1>2 DEF OutForm
  <2> QED BY <1>3, <2>1, DrawnKeeps DEF ShowJson
<1>4. CASE TypeJson
  <2>1. PICK r \in RowsTyped : out' = [out EXCEPT !.json = r]
    BY <1>2, <1>4 DEF TypeJson
  <2>2. out' \in OutForm /\ out'.link = out.link /\ out'.net = out.net /\ out'.sec = out.sec
    BY <1>1, <2>1 DEF OutForm
  <2> QED BY <1>1, <2>2 DEF DialogInv, Connects
<1>5. CASE ShowForm
  <2>1. [Applied(out) EXCEPT !.tab = "form"] \in OutForm
    BY <1>1, AppliedTyped DEF OutForm
  <2> QED BY <1>5, <2>1, DrawnKeeps DEF ShowForm
<1>6. CASE ConfirmOut
  <2>1. CASE out' = NoDialog
    BY <2>1 DEF DialogInv
  <2>2. CASE out' = [Applied(out) EXCEPT !.tab = out.tab]
    <3> DEFINE g == Applied(out)
    <3>1. g \in OutForm /\ Connects(g)
      BY <1>1, AppliedTyped
    <3>2. out' = [g EXCEPT !.tab = out.tab] /\ out.tab \in {"form", "json"}
      BY <1>1, <2>2 DEF OutForm
    <3> HIDE DEF g
    <3>3. out' \in OutForm /\ out'.link = g.link /\ out'.net = g.net /\ out'.sec = g.sec
      BY <3>1, <3>2 DEF OutForm
    <3> QED BY <3>1, <3>3 DEF DialogInv, Connects
  <2> QED BY <1>6, <2>1, <2>2 DEF ConfirmOut
<1>7. CASE TypeTag
  BY <1>1, <1>7, DrawnKeeps DEF TypeTag
<1>8. CASE CloseOut
  BY <1>8 DEF CloseOut, DialogInv
<1> QED BY <1>3, <1>4, <1>5, <1>6, <1>7, <1>8
LEMMA ImportConnects ==
  ASSUME DialogInv, NEW l \in OwnLinks, ImportLink(l)
  PROVE  DialogInv'
<1>1. out \in OutForm /\ out.open \in {"add", "edit"} /\ Parseable(l)
  BY DEF DialogInv, ImportLink, OutForm
<1>2. l.protocol \in OutProtocols /\ (l.protocol # "shadowsocks" => Faithful(l))
  BY <1>1, LinksFaithful
<1> DEFINE row == OutRow(l.protocol, ImportedNetwork(l), parseOutboundLink(l).security)
<1>3. out' = Loaded(out.open, row, l)
  BY DEF ImportLink
<1>4. ImportedNetwork(l) \in RowNetworks \cup {"hysteria"} /\ parseOutboundLink(l).security \in Securities
  <2>1. CASE l.protocol = "shadowsocks"
    BY <2>1 DEF ImportedNetwork, RowNetworks, parseOutboundLink, parseShadowsocksLink, Securities
  <2>2. CASE l.protocol # "shadowsocks"
    BY <1>2, <2>2 DEF ImportedNetwork, RowNetworks, Faithful
  <2> QED BY <2>1, <2>2
<1>5. row \in OutRowType /\ row.net = ImportedNetwork(l) /\ row.sec = parseOutboundLink(l).security
  <2>1. row \in OutRowType
    BY <1>2, <1>4, OutRowTyped
  <2>2. row.net = ImportedNetwork(l) /\ row.sec = parseOutboundLink(l).security
    BY RowIs
  <2> QED BY <2>1, <2>2
<1>6. l \in {NoLink} \cup OwnLinks
  OBVIOUS
<1> HIDE DEF row
<1>7. Loaded(out.open, row, l) \in OutForm /\ Loaded(out.open, row, l).link = l
        /\ (row.net # "" => Loaded(out.open, row, l).net = row.net /\ Loaded(out.open, row, l).sec = row.sec)
  BY <1>1, <1>5, <1>6, LoadedTyped
<1>8. ASSUME l.protocol # "shadowsocks" PROVE row.net # "" /\ row.net = l.network /\ row.sec = l.security
  BY <1>2, <1>5, <1>8 DEF Faithful, ImportedNetwork, Networks
<1>9. l.protocol # "shadowsocks" => l.carries \cap Essential \subseteq parseOutboundLink(l).reads
  BY <1>2 DEF Faithful
<1>10. /\ out' \in OutForm /\ out'.link = l
       /\ l.protocol # "shadowsocks" => out'.net = l.network /\ out'.sec = l.security
  BY <1>3, <1>7, <1>8
<1> QED BY <1>9, <1>10 DEF DialogInv, Connects
LEMMA DialogStep == DialogInv /\ [OutNext]_outVars => DialogInv'
<1> SUFFICES ASSUME DialogInv, [OutNext]_outVars PROVE DialogInv'
  OBVIOUS
<1>1. CASE OpenOut
  <2>1. PICK mode \in {"add", "edit"}, row \in OutRowType : out' = Loaded(mode, row, NoLink)
    <3>1. PlainRow("vless") \in OutRowType
      BY PlainTyped DEF OutProtocols
    <3> QED BY <1>1, <3>1, RowsAreTyped DEF OpenOut
  <2> QED BY <2>1, LoadedKeeps
<1>2. CASE ShowJson \/ TypeJson \/ ShowForm \/ ConfirmOut \/ TypeTag \/ CloseOut
  BY <1>2, JsonSteps
<1>3. "vless" \in OutProtocols /\ "tcp" \in RowNetworks \cup {"hysteria"} /\ "none" \in Securities
        /\ "http" \in OutParts
  BY DEF OutProtocols, RowNetworks, Networks, Securities, OutParts
<1>4. CASE \E p \in OutProtocols : OutProtocolChange(p)
  BY <1>3, <1>4, DialogChanges
<1>5. CASE \E n \in Networks \cup {"hysteria"} : OutNetworkChange(n)
  <2>1. Networks \cup {"hysteria"} \subseteq RowNetworks \cup {"hysteria"}
    BY DEF RowNetworks
  <2> QED BY <1>3, <1>5, <2>1, DialogChanges
<1>6. CASE \E s \in {"none", "tls", "reality"} : OutSecurityChange(s)
  <2>1. \E s \in Securities : OutSecurityChange(s)
    BY <1>6 DEF Securities
  <2> QED BY <1>3, <2>1, DialogChanges
<1>7. CASE \E o \in OutParts : OutToggle(o)
  BY <1>3, <1>7, DialogChanges
<1>8. CASE \E l \in OwnLinks : ImportLink(l)
  BY <1>8, ImportConnects
<1>9. CASE UNCHANGED outVars
  BY <1>9 DEF outVars, DialogInv, Connects
<1> QED BY <1>1, <1>2, <1>4, <1>5, <1>6, <1>7, <1>8, <1>9 DEF OutNext, OutStep
(* The dialog of outbounds holds a row of the known protocols, networks and  *)
(* parts, and a row just imported is still what its link says.               *)
THEOREM DialogInvHolds == OutSpec => []DialogInv
<1>1. OutInit => DialogInv
  BY DEF OutInit, DialogInv
<1> QED BY <1>1, DialogStep, PTL DEF OutSpec

(* Importing a link of any of the panel's own inbounds makes an outbound of  *)
(* the link's network and security, and its reader looks for every field a   *)
(* client cannot do without; Shadowsocks is left out, as in the property.    *)
THEOREM LinksConnect == OutSpec => []LinkConnects
<1>1. DialogInv => LinkConnects
  BY DEF DialogInv, Connects, LinkConnects
<1> QED BY <1>1, DialogInvHolds, PTL

(* What the form tab binds is in the row OK hands over, in every state of    *)
(* the dialog, but for the exceptions the property names.                    *)
THEOREM ShownFieldsAreConfirmed == OutSpec => []OutFieldsSent
<1>1. DialogInv => OutFieldsSent
  <2> SUFFICES ASSUME DialogInv, InForm, NEW x \in Registered(out) \ Confirmed(out)
               PROVE  \/ x \in {<<"settings", "pubKey">>, <<"xhttp", "enableXmux">>}
                      \/ x[1] = "finalmask" /\ ~canEnableStream(out.protocol)
                      \/ x[1] = "mux" /\ ("mux" \notin out.on \/ out.drawnFlow # ("flow" \in out.on))
    BY DEF OutFieldsSent
  <2>1. out.protocol \in OutProtocols
    BY DEF DialogInv, InForm, OutForm
  <2> QED BY <2>1, ShownIsConfirmed
<1> QED BY <1>1, DialogInvHolds, PTL

(* A row the dialog made is read back setting by setting, but for the        *)
(* encryption of vless.                                                      *)
THEOREM RowsReadBack == OutSpec => []OutReadsBack
<1>1. DialogInv => OutReadsBack
  <2> SUFFICES ASSUME DialogInv, InForm, NEW x \in Confirmed(out), x[1] = "settings"
               PROVE  x \in SettingsFromWire(out.protocol) \cup {<<"settings", "encryption">>}
    BY DEF OutReadsBack
  <2>1. out.protocol \in OutProtocols
    BY DEF DialogInv, InForm, OutForm
  <2> QED BY <2>1, ConfirmedIsRead
<1> QED BY <1>1, DialogInvHolds, PTL
=============================================================================
