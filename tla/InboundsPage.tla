---------------------------- MODULE InboundsPage ----------------------------
(* The inbounds page (src/frontend/src/pages/inbounds) over the panel's     *)
(* push channel: the two WebSocket clients of a tab (the bridge of the      *)
(* layout and the one of its pages), the cached list, and the row objects   *)
(* that are made from it and that pushes, switches and hydrate answers      *)
(* change in place.  Other sessions change the inbounds too.                *)
(*                                                                          *)
(* Of an inbound the model keeps its switch, and of a row also whether it   *)
(* carries the secrets of its clients.                                      *)
EXTENDS Naturals, Sequences, FiniteSets, SequencesExt, TLC

CONSTANTS
  Ids,         \* inbounds that ever exist
  Stored,      \* those of them that exist when the page is opened
  MaxActions   \* bound: things users do, requests and connections that fail

ASSUME IdsAssumption == IsFiniteSet(Ids)
ASSUME StoredAssumption == Stored \subseteq Ids
ASSUME BoundAssumption == MaxActions \in Nat

VARIABLES
  db,        \* the server's inbounds: "new", "on", "off" or "gone"
  ws,        \* the socket of each WebSocketClient
  timer,     \* its reconnectTimer is set
  news,      \* messages on their way to the bridge
  stats,     \* client_stats payloads on their way to the page
  pending,   \* pendingInvalidations: its timer runs while it is not empty
  slim,      \* what keys.inbounds.slim() holds
  fetch,     \* the list request under way
  mounted,   \* the inbounds page is the one on show
  rows,      \* dbInbounds
  sel,       \* selectedRowKeys
  ops,       \* requests that change an inbound under way
  bulk,      \* the bulk deletion
  asks,      \* hydrate requests under way
  form,      \* the record InboundFormModal was opened on
  left       \* actions and failures that may still come

socketVars == <<ws, timer>>
listVars == <<slim, fetch, rows, sel>>
pageVars == <<mounted, ops, bulk, asks, form>>
vars == <<db, socketVars, news, stats, pending, listVars, pageVars, left>>

Sides == {"bridge", "page"}
Acts == left > 0 /\ left' = left - 1

---------------------------------------------------------------------------
(* The server. *)
Listed(d) == {i \in Ids : d[i] \in {"on", "off"}}
Row(d, i, secrets) == [on |-> d[i] = "on", secrets |-> secrets]
\* The slim list leaves the secrets out, a pushed list has them.
List(d, secrets) == [i \in Listed(d) |-> Row(d, i, secrets)]
Switch(on) == IF on THEN "on" ELSE "off"

\* Only the switch needs its inbound; deleting one that is gone succeeds.
Takes(d, o) == o.op = "setEnable" => o.id \in Listed(d)
Effect(d, o) ==
  CASE o.op = "setEnable" -> [d EXCEPT ![o.id] = Switch(o.on)]
    [] o.op = "del" -> [d EXCEPT ![o.id] = IF @ = "new" THEN @ ELSE "gone"]
    [] o.op = "add" -> [d EXCEPT ![o.id] = Switch(o.on)]
    [] OTHER -> d   \* traffic and clients, which no property reads

\* What a change makes the server say: a new switch is only hinted at, the list
\* is pushed for the others unless one was pushed within 250 ms (then it is
\* dropped) or it is too long (then it is hinted at), resets are kept quiet.
Hint(t) == [type |-> "invalidate", of |-> t, rows |-> << >>, missed |-> FALSE, late |-> FALSE]
Push(d) == [type |-> "inbounds", of |-> "inbounds", rows |-> List(d, TRUE), missed |-> FALSE, late |-> FALSE]
Told(d, o) ==
  CASE o.op = "setEnable" -> {<<Hint("inbounds")>>}
    [] o.op = "reset" -> {<< >>}
    [] OTHER -> {<<Push(d), Hint("clients")>>, <<Hint("inbounds"), Hint("clients")>>, <<Hint("clients")>>}
OfInbounds(m) == m.of = "inbounds"
Heard(said) == ws["bridge"] = "open" /\ \E m \in ToSet(said) : OfInbounds(m)
\* What was read before a change lacks it: the change is one that the tab makes
\* or that is announced to it (late), or one that nothing tells it of (missed).
Lacking(x, known) == IF known THEN [x EXCEPT !.late = TRUE] ELSE [x EXCEPT !.missed = TRUE]
LackingAll(ms, known) == [k \in DOMAIN ms |-> Lacking(ms[k], known)]
Overtaken(f, known) == IF f.read THEN Lacking(f, known) ELSE f
\* Another message about the inbounds makes up for those before it.
Say(said, own) ==
  news' = (IF Heard(said) THEN news ELSE LackingAll(news, own))
            \o (IF ws["bridge"] = "open" THEN said ELSE << >>)
\* After a change: nothing refreshes the list before a message has arrived.
Changed(said, own) ==
  /\ Say(said, own)
  /\ fetch' = Overtaken(fetch, own \/ Heard(said))
  /\ slim' = IF Heard(said) THEN slim ELSE Lacking(slim, FALSE)

---------------------------------------------------------------------------
(* WebSocketClient.  Nothing calls disconnect, so shouldReconnect stays.    *)
Live(k) == ws[k] \in {"connecting", "open"}
\* What was on its way over a socket that ends never arrives.
Unheard(k) ==
  IF k = "page" THEN stats' = {} /\ UNCHANGED <<news, slim, fetch>>
  ELSE /\ news' = << >>
       /\ slim' = IF \E m \in ToSet(news) : OfInbounds(m) THEN Lacking(slim, FALSE) ELSE slim
       /\ UNCHANGED <<stats, fetch>>   \* what a fetch lacks has been noted when it changed
\* Mutant: a constructor that throws is the end of it.
openSocketOnce(k) ==
  \/ /\ ws' = [ws EXCEPT ![k] = "connecting"]
     /\ timer' = [timer EXCEPT ![k] = FALSE]
     /\ UNCHANGED left
  \/ /\ Acts
     /\ timer' = [timer EXCEPT ![k] = FALSE]
     /\ UNCHANGED ws
openSocket(k) ==
  \/ /\ ws' = [ws EXCEPT ![k] = "connecting"]
     /\ timer' = [timer EXCEPT ![k] = FALSE]
     /\ UNCHANGED left
  \/ /\ Acts   \* the constructor throws
     /\ timer' = [timer EXCEPT ![k] = TRUE]
     /\ UNCHANGED ws
Connect(k) == IF Live(k) THEN UNCHANGED <<socketVars, left>> ELSE openSocket(k)
ReconnectDue(k) ==
  /\ timer[k] /\ openSocket(k)
  /\ UNCHANGED <<db, news, stats, pending, listVars, pageVars>>
Opens(k) ==
  /\ ws[k] = "connecting" /\ ws' = [ws EXCEPT ![k] = "open"]
  /\ UNCHANGED <<db, timer, news, stats, pending, listVars, pageVars, left>>
\* The events of a socket that was replaced while it was closing are ignored.
SocketClosed(k) ==
  /\ \/ ws[k] = "closing" /\ UNCHANGED left
     \/ Live(k) /\ Acts
  /\ ws' = [ws EXCEPT ![k] = "none"] /\ timer' = [timer EXCEPT ![k] = TRUE]
  /\ Unheard(k)
  /\ UNCHANGED <<db, pending, rows, sel, pageVars>>
\* A message beyond the limit makes the client close its socket.
TooLarge(k) ==
  /\ Acts
  /\ ws[k] = "open" /\ ws' = [ws EXCEPT ![k] = "closing"]
  /\ Unheard(k)
  /\ UNCHANGED <<db, timer, pending, rows, sel, pageVars>>

---------------------------------------------------------------------------
(* The cached list and the rows made from it. *)
NoFetch == [on |-> FALSE, read |-> FALSE, rows |-> << >>, missed |-> FALSE, late |-> FALSE]
Asked == [NoFetch EXCEPT !.on = TRUE]
NotLoaded == [loaded |-> FALSE, rows |-> << >>, stale |-> FALSE, missed |-> FALSE, late |-> FALSE]
\* An answer or a push: it counts as fresh whatever has come before it.
ListLoaded(x) == [loaded |-> TRUE, rows |-> x.rows, stale |-> FALSE, missed |-> x.missed, late |-> x.late]

\* The effect that seeds the rows runs when the list is another object: an answer
\* equal to the cached one, counters and all, leaves the cached object in place.
Seed(r) ==
  \/ /\ rows' = r /\ sel' = sel \cap DOMAIN r
     /\ ops' = {[o EXCEPT !.live = FALSE] : o \in ops}
  \/ /\ slim.loaded /\ slim.rows = r
     /\ UNCHANGED <<rows, sel, ops>>
\* Data that is new, for a page on show and for one that is not.
Arrives(x) ==
  /\ slim' = ListLoaded(x)
  /\ IF mounted THEN Seed(x.rows) ELSE UNCHANGED <<rows, sel, ops>>

ServerReads ==
  /\ fetch.on /\ ~fetch.read
  /\ fetch' = [fetch EXCEPT !.read = TRUE, !.rows = List(db, FALSE)]
  /\ UNCHANGED <<db, socketVars, news, stats, pending, slim, rows, sel, pageVars, left>>
ListAnswered ==
  /\ fetch.on /\ fetch.read
  /\ fetch' = NoFetch
  /\ Arrives(fetch)
  /\ UNCHANGED <<db, socketVars, news, stats, pending, mounted, bulk, asks, form, left>>
ListFailed ==
  /\ Acts
  /\ fetch.on /\ fetch' = NoFetch
  /\ UNCHANGED <<db, socketVars, news, stats, pending, slim, rows, sel, pageVars>>
\* invalidateQueries: a list on show is fetched again, from scratch if it has data;
\* a first fetch, and one for a page not on show, goes on and may have read before.
Refetched(f) == IF mounted /\ (slim.loaded \/ ~f.on) THEN Asked ELSE f
invalidated(f) ==
  /\ slim' = [slim EXCEPT !.stale = slim.loaded]
  /\ fetch' = Refetched(f)
invalidate == invalidated(fetch)
\* The window is focused, or the page is opened: what is stale is fetched.
Fresh(f) == IF f.on \/ (slim.loaded /\ ~slim.stale) THEN f ELSE Asked
WindowFocus ==
  /\ mounted /\ slim.stale /\ fetch' = Fresh(fetch) /\ fetch # fetch'
  /\ UNCHANGED <<db, socketVars, news, stats, pending, slim, rows, sel, pageVars, left>>

(* The bridge. *)
\* Mutant: the hint that arrives last is the only one remembered.
HintedLast(t) == {t}
Hinted(t) == pending \cup {t}
NewsArrives ==
  /\ news # << >> /\ news' = Tail(news)
  /\ LET m == Head(news)
     IN  IF m.type = "invalidate"
         THEN /\ pending' = Hinted(m.of)
              /\ UNCHANGED <<slim, fetch, rows, sel, ops>>
         ELSE \* setQueryData: a fetch goes on, and its answer replaces what is pushed
              /\ Arrives(m)
              /\ UNCHANGED <<fetch, pending>>
  /\ UNCHANGED <<db, socketVars, stats, mounted, bulk, asks, form, left>>
\* 200 ms without another message.
InvalidateDue ==
  /\ pending # {} /\ pending' = {}
  /\ IF "inbounds" \in pending THEN invalidate ELSE UNCHANGED <<slim, fetch>>
  /\ UNCHANGED <<db, socketVars, news, stats, rows, sel, pageVars, left>>

(* The periodic push of counters and switches, merged into the row objects. *)
StatsSent ==
  /\ ws["page"] = "open" /\ stats = {}
  /\ stats' = {[i \in Listed(db) |-> db[i] = "on"]}
  /\ UNCHANGED <<db, socketVars, news, pending, listVars, pageVars, left>>
Merged(r, s) == [i \in DOMAIN r |-> IF i \in DOMAIN s THEN [r[i] EXCEPT !.on = s[i]] ELSE r[i]]
applyClientStatsEvent ==
  /\ stats # {} /\ stats' = {}
  /\ rows' = IF mounted THEN Merged(rows, CHOOSE s \in stats : TRUE) ELSE rows
  /\ UNCHANGED <<db, socketVars, news, pending, slim, fetch, sel, pageVars, left>>

---------------------------------------------------------------------------
(* What the administrator does. *)
NoBulk == [step |-> "none", targets |-> {}, todo |-> << >>, failed |-> 0]
NoForm == [open |-> FALSE, secrets |-> FALSE]
\* A dialog covers the page.
Uncovered == mounted /\ slim.loaded /\ ~form.open /\ bulk.step = "none"

\* Another page is opened, one whose hook connects the client of the pages too.
Leave ==
  /\ Acts /\ mounted /\ ~form.open /\ bulk.step # "ask"
  /\ mounted' = FALSE /\ rows' = << >> /\ sel' = {} /\ form' = NoForm
  /\ ops' = {[o EXCEPT !.live = FALSE] : o \in ops}
  /\ UNCHANGED <<db, socketVars, news, stats, pending, slim, fetch, bulk, asks>>
Visit ==
  /\ ~mounted /\ mounted' = TRUE
  /\ Connect("page")
  /\ rows' = slim.rows /\ fetch' = Fresh(fetch)
  /\ UNCHANGED <<db, news, stats, pending, slim, sel, ops, bulk, asks, form>>
VisitElsewhere ==
  /\ ~mounted /\ ~Live("page") /\ Connect("page")
  /\ UNCHANGED <<db, news, stats, pending, listVars, pageVars>>

\* The switch changes its row object before it asks.  It is drawn again by
\* chance, so it may be pressed twice the same way.
onSwitchEnable(i, next) ==
  /\ Acts /\ Uncovered /\ i \in DOMAIN rows
  /\ next = rows[i].on => \E o \in ops : o.op = "setEnable" /\ o.id = i
  /\ rows' = [rows EXCEPT ![i].on = next]
  /\ ops' = ops \cup {[op |-> "setEnable", id |-> i, on |-> next, previous |-> rows[i].on, live |-> TRUE]}
  /\ UNCHANGED <<db, socketVars, news, stats, pending, slim, fetch, sel, mounted, bulk, asks, form>>
Send(op, i) ==
  /\ Acts /\ Uncovered
  /\ ops' = ops \cup {[op |-> op, id |-> i, on |-> op = "add", previous |-> FALSE, live |-> FALSE]}
  /\ UNCHANGED <<db, socketVars, news, stats, pending, listVars, mounted, bulk, asks, form>>
confirmDelete(i) == i \in DOMAIN rows /\ Send("del", i)
confirmResetTraffic(i) == i \in DOMAIN rows /\ Send("reset", i)
\* Import, quick create, clone and the form ask for an inbound of their own.
importInbound(i) == db[i] = "new" /\ (\A o \in ops : o.id # i) /\ Send("add", i)

\* A switch that fails is put back, on the object it was changed on.
RolledBack(o) ==
  rows' = IF o.op = "setEnable" /\ o.live THEN [rows EXCEPT ![o.id].on = o.previous] ELSE rows
OpDone(o) ==
  /\ o \in ops /\ ops' = ops \ {o}
  /\ Takes(db, o) /\ db' = Effect(db, o)
  /\ \E said \in Told(db', o) :
       IF o.op = "setEnable" THEN Changed(said, TRUE)   \* refreshed by the hint alone
       ELSE Say(said, TRUE) /\ invalidated(Overtaken(fetch, TRUE))
  /\ UNCHANGED <<socketVars, stats, pending, rows, sel, mounted, bulk, asks, form, left>>
\* Refused, lost, or stored while Xray does not take the change over: then a
\* failure is answered and nobody is told.
OpFailed(o) ==
  /\ o \in ops /\ ops' = ops \ {o}
  /\ \/ ~Takes(db, o) /\ UNCHANGED <<db, news, slim, fetch, left>>
     \/ Acts /\ UNCHANGED <<db, news, slim, fetch>>
     \/ Acts /\ Takes(db, o) /\ db' = Effect(db, o) /\ Changed(<< >>, FALSE)
  /\ RolledBack(o)
  /\ UNCHANGED <<socketVars, stats, pending, sel, mounted, bulk, asks, form>>

(* The selection and the bulk deletion: one request after the other, none   *)
(* stops the rest, one refresh at the end.                                  *)
Select(S) ==
  /\ Acts /\ Uncovered /\ S # sel /\ sel' = S
  /\ UNCHANGED <<db, socketVars, news, stats, pending, slim, fetch, rows, pageVars>>
toggleSelected(i) == i \in DOMAIN rows /\ Select(IF i \in sel THEN sel \ {i} ELSE sel \cup {i})
selectAll(checked) == Select(IF checked THEN DOMAIN rows ELSE {})
handleBulkDelete ==
  /\ Uncovered /\ sel # {}
  /\ \E order \in {s \in [1..Cardinality(sel) -> sel] : ToSet(s) = sel} :
       bulk' = [step |-> "ask", targets |-> sel, todo |-> order, failed |-> 0]
  /\ UNCHANGED <<db, socketVars, news, stats, pending, listVars, mounted, ops, asks, form, left>>
BulkCancelled ==
  /\ bulk.step = "ask" /\ bulk' = NoBulk
  /\ UNCHANGED <<db, socketVars, news, stats, pending, listVars, mounted, ops, asks, form, left>>
BulkConfirmed ==
  /\ bulk.step = "ask" /\ bulk' = [bulk EXCEPT !.step = "run"]
  /\ UNCHANGED <<db, socketVars, news, stats, pending, listVars, mounted, ops, asks, form, left>>
\* Mutant: the first failure ends the loop.
BulkAnsweredUntilFailure(ok) ==
  bulk' = [bulk EXCEPT !.todo = IF ok THEN Tail(@) ELSE << >>, !.failed = IF ok THEN @ ELSE @ + 1]
BulkAnswered(ok) ==
  bulk' = [bulk EXCEPT !.todo = Tail(@), !.failed = IF ok THEN @ ELSE @ + 1]
DelTold == Told(db', [op |-> "del"])
BulkDeleted ==
  /\ bulk.step = "run" /\ bulk.todo # << >>
  /\ db' = Effect(db, [op |-> "del", id |-> Head(bulk.todo)])
  /\ \E said \in DelTold : Changed(said, TRUE)
  /\ BulkAnswered(TRUE)
  /\ UNCHANGED <<socketVars, stats, pending, rows, sel, mounted, ops, asks, form, left>>
BulkFailed ==
  /\ Acts
  /\ bulk.step = "run" /\ bulk.todo # << >>
  /\ \/ UNCHANGED <<db, news, slim, fetch>>
     \/ db' = Effect(db, [op |-> "del", id |-> Head(bulk.todo)]) /\ Changed(<< >>, FALSE)
  /\ BulkAnswered(FALSE)
  /\ UNCHANGED <<socketVars, stats, pending, rows, sel, mounted, ops, asks, form>>
BulkFinished ==
  /\ bulk.step = "run" /\ bulk.todo = << >>
  /\ bulk' = NoBulk
  /\ invalidate
  /\ sel' = IF bulk.failed = 0 THEN {} ELSE sel
  /\ UNCHANGED <<db, socketVars, news, stats, pending, rows, mounted, ops, asks, form, left>>

(* The actions that need the whole record: it is asked for, put in the place *)
(* of its row, and the action goes on with it, or with the row it was        *)
(* pressed on when it cannot be had.                                         *)
onRowAction(i, key) ==
  /\ Acts /\ Uncovered /\ i \in DOMAIN rows
  /\ asks' = asks \cup {[id |-> i, key |-> key, secrets |-> rows[i].secrets, read |-> FALSE, on |-> FALSE]}
  /\ UNCHANGED <<db, socketVars, news, stats, pending, listVars, mounted, ops, bulk, form>>
RecordRead(a) ==
  /\ a \in asks /\ ~a.read /\ a.id \in Listed(db)
  /\ asks' = (asks \ {a}) \cup {[a EXCEPT !.read = TRUE, !.on = db[a.id] = "on"]}
  /\ UNCHANGED <<db, socketVars, news, stats, pending, listVars, mounted, ops, bulk, form, left>>
Proceed(a, secrets) == form' = IF a.key = "edit" /\ mounted THEN [open |-> TRUE, secrets |-> secrets] ELSE form
PutInPlace(r, i, v) == IF i \in DOMAIN r THEN [r EXCEPT ![i] = v] ELSE r
RecordAnswered(a) ==
  /\ a \in asks /\ a.read /\ asks' = asks \ {a}
  /\ rows' = IF mounted THEN PutInPlace(rows, a.id, [on |-> a.on, secrets |-> TRUE]) ELSE rows
  /\ ops' = {IF o.id = a.id THEN [o EXCEPT !.live = FALSE] ELSE o : o \in ops}
  /\ Proceed(a, TRUE)
  /\ UNCHANGED <<db, socketVars, news, stats, pending, slim, fetch, sel, mounted, bulk, left>>
RecordFailed(a) ==
  /\ a \in asks /\ ~a.read /\ asks' = asks \ {a}
  /\ \/ a.id \notin Listed(db) /\ UNCHANGED left
     \/ Acts
  /\ Proceed(a, a.secrets)
  /\ UNCHANGED <<db, socketVars, news, stats, pending, listVars, mounted, ops, bulk>>
EditClosed ==
  /\ form.open /\ form' = NoForm
  /\ UNCHANGED <<db, socketVars, news, stats, pending, listVars, mounted, ops, bulk, asks, left>>

\* Another session changes the inbounds.
OthersChange ==
  /\ Acts
  /\ \E i \in Ids, op \in {"setEnable", "del", "add"}, on \in BOOLEAN :
       LET o == [op |-> op, id |-> i, on |-> on]
       IN  /\ IF op = "add" THEN db[i] = "new" /\ (\A x \in ops : x.id # i) ELSE i \in Listed(db)
           /\ db' = Effect(db, o) /\ db' # db
           /\ \E said \in Told(db', o) : Changed(said, FALSE)
  /\ UNCHANGED <<socketVars, stats, pending, rows, sel, pageVars>>

Init ==
  /\ db = [i \in Ids |-> IF i \in Stored THEN "on" ELSE "new"]
  /\ ws = [k \in Sides |-> "connecting"] /\ timer = [k \in Sides |-> FALSE]
  /\ news = << >> /\ stats = {} /\ pending = {}
  /\ slim = NotLoaded /\ fetch = Asked /\ mounted = TRUE
  /\ rows = << >> /\ sel = {} /\ ops = {} /\ bulk = NoBulk /\ asks = {} /\ form = NoForm
  /\ left = MaxActions

SocketStep ==
  \E k \in Sides : ReconnectDue(k) \/ Opens(k) \/ SocketClosed(k) \/ TooLarge(k)
ListStep ==
  \/ ServerReads \/ ListAnswered \/ ListFailed \/ WindowFocus
  \/ NewsArrives \/ InvalidateDue \/ StatsSent \/ applyClientStatsEvent
RowStep ==
  \/ \E i \in Ids, b \in BOOLEAN : onSwitchEnable(i, b)
  \/ \E i \in Ids : confirmDelete(i) \/ confirmResetTraffic(i) \/ importInbound(i) \/ toggleSelected(i)
  \/ \E i \in Ids, key \in {"edit", "info"} : onRowAction(i, key)
  \/ \E o \in ops : OpDone(o) \/ OpFailed(o)
  \/ \E a \in asks : RecordRead(a) \/ RecordAnswered(a) \/ RecordFailed(a)
  \/ \E checked \in BOOLEAN : selectAll(checked)
  \/ EditClosed
BulkStep == handleBulkDelete \/ BulkCancelled \/ BulkConfirmed \/ BulkDeleted \/ BulkFailed \/ BulkFinished
Next == SocketStep \/ ListStep \/ RowStep \/ BulkStep \/ Leave \/ Visit \/ VisitElsewhere \/ OthersChange
Spec == Init /\ [][Next]_vars

---------------------------------------------------------------------------
(* A client of the push channel never gives up and never runs two sockets:  *)
(* it has a live one, or one that is closing, or a timer that opens the     *)
(* next, and no timer beside a live socket.                                 *)
OneSocketOrTimer ==
  \A k \in Sides : (Live(k) /\ ~timer[k]) \/ (~Live(k) /\ (timer[k] \/ ws[k] = "closing"))

(* A list the page takes for fresh is the server's, unless a message about  *)
(* the inbounds is on its way or waits for its 200 ms, nothing has told the *)
(* page of a change since (missed), or what the page holds is the answer of *)
(* a fetch, or a push, that had read before a change the page made or that  *)
(* was announced to it (late): setQueryData lets such a fetch go on, and so *)
(* does invalidateQueries when it is the first or for a page not on show.   *)
(* The answer then counts as fresh, a disagreement README, 5 names.         *)
ListIsCurrent ==
  (/\ slim.loaded /\ ~slim.stale /\ ~slim.missed /\ ~slim.late
   /\ (\A m \in ToSet(news) : ~OfInbounds(m)) /\ "inbounds" \notin pending)
    => /\ DOMAIN slim.rows = Listed(db)
       /\ \A i \in Listed(db) : slim.rows[i].on = (db[i] = "on")

(* However pushes, refetches and late hydrate answers are ordered, the page *)
(* lists the inbounds of the list it holds and selects only among them.     *)
OnlyTheListed ==
  (mounted /\ slim.loaded) => (DOMAIN rows = DOMAIN slim.rows /\ sel \subseteq DOMAIN rows)

(* A bulk deletion ends with every inbound it was asked for deleted, but    *)
(* for as many as it counted as failed: no failure stops the others.        *)
BulkTriesAll ==
  [][BulkFinished => Cardinality(bulk.targets \cap Listed(db)) <= bulk.failed]_vars

---------------------------------------------------------------------------
(* What a comment of the source, or a reader of the page, would expect and  *)
(* the code does not do: no run checks these (README, 5).                   *)
(* The comment at the effect that seeds the rows has it run every time the  *)
(* list is refetched: with no switch under way, an answer that is what the  *)
(* server holds sets the switches of the rows.                              *)
SeededByEveryAnswer ==
  [][(ListAnswered /\ mounted /\ ops = {} /\ fetch.rows = List(db, FALSE)) =>
       \A i \in DOMAIN rows' : rows'[i].on = fetch.rows[i].on]_vars

(* The comment at hydrateInbound: a record is hydrated before it is edited, *)
(* for the list does not carry the secrets of its clients.                  *)
EditsHydrated == form.open => form.secrets
=============================================================================
