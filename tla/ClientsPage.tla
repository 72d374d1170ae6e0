---------------------------- MODULE ClientsPage ----------------------------
(* The clients page (src/frontend/src/pages/clients) over the query cache   *)
(* of useClients and the clients the server keeps: the filters that choose  *)
(* the list, the selection, the dialogs, the requests under way and the     *)
(* saves that take several of them.  Another session changes the clients    *)
(* too; its changes are announced by a message that may be lost.            *)
(*                                                                          *)
(* A client is its record's id; what the page knows it by is its email.  Of *)
(* a record the model keeps what the page's steps tell apart.               *)
EXTENDS Naturals, Sequences, FiniteSets, SequencesExt

CONSTANTS
  Clients,       \* records the server may hold
  Emails,        \* names a client may be given
  None,          \* no name, no search
  Inbounds,      \* inbounds of the panel
  FlowInbounds,  \* those of them that are tlsFlowCapable
  PageSize,
  MaxActions     \* bound: things users do and requests that fail

ASSUME SizeAssumption == PageSize \in Nat \ {0}
ASSUME InboundsAssumption == FlowInbounds \subseteq Inbounds
ASSUME BoundAssumption == MaxActions \in Nat

VARIABLES
  db,        \* the server's records
  cache,     \* answers kept per query: what keys.clients.list(query) holds
  fetching,  \* list requests under way
  pushed,    \* an invalidate message is on its way to the page
  page,      \* what the filter bar, the sorting and the pager are set to
  query,     \* the query of the list
  before,    \* rows of the query before, shown until the new one is answered
  options,   \* inboundOptionsQuery is answered
  sel,       \* selectedRowKeys
  confirm,   \* the confirmation or bulk dialog that is open
  ops,       \* mutations under way
  form,      \* ClientFormModal and the page's state for it
  asks,      \* hydrate requests of onEdit under way
  save,      \* the onSave under way
  left       \* actions and failures that may still come

listVars == <<cache, fetching, pushed, query, before>>
vars == <<db, listVars, page, options, sel, confirm, ops, form, asks, save, left>>

---------------------------------------------------------------------------
(* The server.  A record without a name is free. *)
Record(e, c, g, flow, on, ibs) ==
  [email |-> e, secret |-> c, group |-> g, flow |-> flow, enable |-> on, inbounds |-> ibs]
Free == Record(None, None, FALSE, FALSE, FALSE, {})
Named(d, e) == {c \in Clients : d[c].email = e /\ e # None}

Matching(d, q) ==
  {c \in Clients : /\ d[c].email # None
                   /\ q.search \in {None, d[c].email}
                   /\ q.group => d[c].group}
Ordered(S, q) ==
  LET order == SetToSeq(Clients)
  IN  SelectSeq(IF q.asc THEN order ELSE Reverse(order), LAMBDA c : c \in S)
Slim(r) == [email |-> r.email, enable |-> r.enable, inbounds |-> r.inbounds]
ListPaged(d, q) ==
  LET all == Ordered(Matching(d, q), q)
      last == IF q.page * PageSize < Len(all) THEN q.page * PageSize ELSE Len(all)
      items == SubSeq(all, (q.page - 1) * PageSize + 1, last)
  IN  [rows |-> [i \in DOMAIN items |-> Slim(d[items[i]])], filtered |-> Len(all)]

\* Update: the record is renamed first; the rest of the payload reaches the
\* record through the inbounds it is attached to.
Updated(r, p) ==
  IF r.inbounds = {} THEN [r EXCEPT !.email = p.email]
  ELSE Record(p.email, p.secret, p.group, p.flow, p.enable, r.inbounds)
Update(d, e, p) == [c \in Clients |-> IF c \in Named(d, e) THEN Updated(d[c], p) ELSE d[c]]
Renamable(d, c, e) == Named(d, e) \subseteq {c}
Create(d, c, p) ==
  [d EXCEPT ![c] = Record(p.email, p.secret, p.group, p.flow, TRUE, p.inbounds)]

\* What a mutation does to the clients; the ones that are gone are skipped.
Hit(d, o) == UNION {Named(d, e) : e \in o.emails}
Effect(d, o) ==
  CASE o.op = "setEnable" -> [c \in Clients |-> IF c \in Hit(d, o) THEN [d[c] EXCEPT !.enable = o.arg] ELSE d[c]]
    [] o.op \in {"remove", "bulkDelete"} -> [c \in Clients |-> IF c \in Hit(d, o) THEN Free ELSE d[c]]
    [] o.op = "bulkAssignGroup" -> [c \in Clients |-> IF c \in Hit(d, o) THEN [d[c] EXCEPT !.group = o.arg] ELSE d[c]]
    [] OTHER -> d   \* counters and limits, which no property reads
\* Which clients are depleted is the server's to know.
Effects(d, o) ==
  IF o.op # "delDepleted" THEN {Effect(d, o)}
  ELSE {[c \in Clients |-> IF c \in gone THEN Free ELSE d[c]] : gone \in SUBSET Hit(d, [o EXCEPT !.emails = Emails])}

---------------------------------------------------------------------------
(* The query cache. *)
\* missed: nothing told the page of a change it lacks.  late: it lacks a change
\* that the page made or that was announced to it.
Entry(f) == [rows |-> f.answer.rows, filtered |-> f.answer.filtered, stale |-> FALSE,
             missed |-> f.missed, late |-> f.late]
Unread == [rows |-> << >>, filtered |-> 0]
Asked == [read |-> FALSE, answer |-> Unread, missed |-> FALSE, late |-> FALSE]
Without(f, x) == [y \in DOMAIN f \ {x} |-> f[y]]
Put(f, x, v) == [y \in DOMAIN f \cup {x} |-> IF y = x THEN v ELSE f[y]]

\* An observer turns to a query: a fetch starts unless the cache has it.
Turned(ca, fe, q) ==
  IF q \in DOMAIN fe \/ (q \in DOMAIN ca /\ ~ca[q].stale) THEN fe ELSE Put(fe, q, Asked)
\* What an answer on the way has already read lacks the change.
Overtaken(fe, known) ==
  [q \in DOMAIN fe |-> IF ~fe[q].read THEN fe[q]
                       ELSE IF known THEN [fe[q] EXCEPT !.late = TRUE]
                       ELSE [fe[q] EXCEPT !.missed = TRUE]]
Missing(ca) == [q \in DOMAIN ca |-> [ca[q] EXCEPT !.missed = TRUE]]
\* Mutant: only the query on show is invalidated.
StaleOnShow(ca) == [q \in DOMAIN ca |-> [ca[q] EXCEPT !.stale = @ \/ q = query]]
Stale(ca) == [q \in DOMAIN ca |-> [ca[q] EXCEPT !.stale = TRUE]]
\* invalidateQueries: the query on show is fetched again, from scratch when it
\* has data; its first fetch, and those of the other queries, go on, and what
\* they have read counts as fresh when it arrives.
Refetched(ca, fe, q) == IF q \in DOMAIN ca \/ q \notin DOMAIN fe THEN Put(fe, q, Asked) ELSE fe
invalidated(fe) == cache' = Stale(cache) /\ fetching' = Refetched(cache, fe, query)
\* After a change the page made itself.
invalidateAll == invalidated(Overtaken(fetching, TRUE))

\* A change is made without the page being told.
Unannounced == cache' = Missing(cache) /\ fetching' = Overtaken(fetching, FALSE)
\* notifyClientsChanged: the message is sent, and it arrives or is lost.
Announced ==
  \/ pushed' = TRUE /\ fetching' = Overtaken(fetching, TRUE) /\ UNCHANGED cache
  \/ Unannounced /\ UNCHANGED pushed
\* What the records on their way have read lacks a change of the clients.
AsksBehind == asks' = IF db' = db THEN asks ELSE {[a EXCEPT !.behind = a.read] : a \in asks}

Query(p) == [page |-> p.current, search |-> p.debounced, group |-> p.group, asc |-> p.asc]
Rows == IF query \in DOMAIN cache THEN cache[query].rows ELSE before.rows
Filtered == IF query \in DOMAIN cache THEN cache[query].filtered ELSE before.filtered
Shown == {Rows[i].email : i \in DOMAIN Rows}
Fetched == query \in DOMAIN cache \/ before # Unread

---------------------------------------------------------------------------
NoOp == [op |-> "none", emails |-> {}, arg |-> FALSE]
\* No record is being edited: it is no record at all, and has no name.
NoClient == [email |-> None]
NoForm == [open |-> FALSE, mode |-> "add", client |-> NoClient, ids |-> {}, f |-> Free,
           overlapped |-> FALSE, foreign |-> FALSE, added |-> {}]
NoSave == [step |-> "none", isEdit |-> FALSE, email |-> None, attach |-> {}, detach |-> {}, payload |-> Free]

InitialRecords ==
  [c \in Clients |-> LET i == CHOOSE k \in DOMAIN SetToSeq(Clients) : SetToSeq(Clients)[k] = c
                     IN  IF i > Cardinality(Emails) - 1 THEN Free
                         ELSE Record(SetToSeq(Emails)[i], c, i = 1, i = 1, TRUE,
                                     IF i = 1 THEN FlowInbounds ELSE Inbounds \ FlowInbounds)]
Init ==
  /\ db = InitialRecords
  /\ page = [search |-> None, debounced |-> None, group |-> FALSE, asc |-> TRUE, current |-> 1]
  /\ query = Query(page)
  /\ cache = << >>
  /\ fetching = [q \in {query} |-> Asked]
  /\ before = Unread
  /\ pushed = FALSE
  /\ options = FALSE
  /\ sel = {}
  /\ confirm = NoOp
  /\ ops = {}
  /\ form = NoForm
  /\ asks = {}
  /\ save = NoSave
  /\ left = MaxActions

Acts == left > 0 /\ left' = left - 1
\* A dialog covers the page.
Uncovered == Fetched /\ ~form.open /\ confirm = NoOp

---------------------------------------------------------------------------
(* The list. *)
ServerReads(q) ==
  /\ ~fetching[q].read
  /\ fetching' = [fetching EXCEPT ![q] = [@ EXCEPT !.read = TRUE, !.answer = ListPaged(db, q)]]
  /\ UNCHANGED <<db, cache, pushed, page, query, before, options, sel, confirm, ops, form, asks, save, left>>
ListAnswered(q) ==
  /\ fetching[q].read
  /\ cache' = Put(cache, q, Entry(fetching[q]))
  /\ fetching' = Without(fetching, q)
  /\ UNCHANGED <<db, pushed, page, query, before, options, sel, confirm, ops, form, asks, save, left>>
ListFailed(q) ==
  /\ Acts
  /\ fetching' = Without(fetching, q)
  /\ UNCHANGED <<db, cache, pushed, page, query, before, options, sel, confirm, ops, form, asks, save>>
InvalidateArrives ==
  /\ pushed /\ pushed' = FALSE
  /\ invalidated(fetching)
  /\ UNCHANGED <<db, page, query, before, options, sel, confirm, ops, form, asks, save, left>>
\* A push of counters is merged into the list on show, which counts as fresh then,
\* whatever it was stale for.
applyClientStatsEvent ==
  /\ query \in DOMAIN cache /\ cache[query].stale
  /\ cache' = [cache EXCEPT ![query] = [@ EXCEPT !.stale = FALSE, !.late = TRUE]]
  /\ UNCHANGED <<db, fetching, pushed, page, query, before, options, sel, confirm, ops, form, asks, save, left>>
OptionsAnswered ==
  /\ ~options /\ options' = TRUE
  /\ UNCHANGED <<db, listVars, page, sel, confirm, ops, form, asks, save, left>>

\* The page's settings change: the effects put the list back on its first page
\* when the filters or the sorting did, after a look at the page of before.
ResetsPage(old, p) == [p EXCEPT !.current = IF [old EXCEPT !.current = 0, !.search = None]
                                                = [p EXCEPT !.current = 0, !.search = None] THEN @ ELSE 1]
TurnTo(p) ==
  LET q == Query(ResetsPage(page, p))
  IN  /\ page' = ResetsPage(page, p)
      /\ query' = q
      /\ fetching' = Turned(cache, Turned(cache, fetching, Query(p)), q)
      /\ before' = IF query \in DOMAIN cache THEN [rows |-> Rows, filtered |-> Filtered] ELSE before
      /\ UNCHANGED <<db, cache, pushed, options, sel, confirm, ops, form, asks, save>>
TypeSearch(e) == Acts /\ Uncovered /\ e # page.search /\ TurnTo([page EXCEPT !.search = e])
Debounce == page.debounced # page.search /\ TurnTo([page EXCEPT !.debounced = page.search]) /\ UNCHANGED left
SetFilters(g) == Acts /\ Uncovered /\ g # page.group /\ TurnTo([page EXCEPT !.group = g])
SetSort == Acts /\ Uncovered /\ TurnTo([page EXCEPT !.asc = ~@])
Pages == (Filtered + PageSize - 1) \div PageSize
ShownPage == IF page.current > Pages THEN Pages ELSE page.current
\* The pager is hidden while everything fits on a page.
onTableChange(n) ==
  /\ Acts /\ Uncovered
  /\ Filtered > PageSize /\ n \in 1..Pages \ {ShownPage}
  /\ TurnTo([page EXCEPT !.current = n])

---------------------------------------------------------------------------
(* The selection: the table keeps no key of a row it does not show; the     *)
(* cards of the narrow layout keep them all.                                *)
Toggled(S, e) == IF e \in S THEN S \ {e} ELSE S \cup {e}
Select(S) ==
  /\ Acts /\ Uncovered
  /\ S # sel /\ sel' = S
  /\ UNCHANGED <<db, listVars, page, options, confirm, ops, form, asks, save>>
SelectRow(e) == e \in Shown /\ Select(Toggled(sel \cap Shown, e))
toggleSelect(e) == e \in Shown /\ Select(Toggled(sel, e))
selectAll(checked) == Select(IF checked THEN Shown ELSE {})

(* The mutations of useClients. *)
Send(o) == ops' = ops \cup {o}
onToggleEnable(i) ==
  /\ Acts /\ Uncovered /\ i \in DOMAIN Rows
  /\ Send([op |-> "setEnable", emails |-> {Rows[i].email}, arg |-> ~Rows[i].enable])
  /\ UNCHANGED <<db, listVars, page, options, sel, confirm, form, asks, save>>
\* onDelete and onResetTraffic ask for the row, onBulkDelete for the selection of
\* the moment; the dialogs of the toolbar read the selection when they are confirmed.
OfToolbar == {"resetAllTraffics", "delDepleted"}
OfSelection == {"bulkAdjust", "bulkAssignGroup"}
Confirmable ==
  {[op |-> "remove", emails |-> {e}, arg |-> FALSE] : e \in Shown}
    \cup {[op |-> o, emails |-> {}, arg |-> FALSE] : o \in OfToolbar}
    \cup {[op |-> "resetTraffic", emails |-> {Rows[i].email}, arg |-> FALSE] :
           i \in {j \in DOMAIN Rows : Rows[j].inbounds # {}}}
    \cup (IF sel = {} THEN {}
          ELSE {[op |-> "bulkDelete", emails |-> sel, arg |-> FALSE],
                [op |-> "bulkAdjust", emails |-> {}, arg |-> FALSE]}
               \cup {[op |-> "bulkAssignGroup", emails |-> {}, arg |-> g] : g \in BOOLEAN})
Ask(o) ==
  /\ Acts /\ Uncovered
  /\ o \in Confirmable /\ confirm' = o
  /\ UNCHANGED <<db, listVars, page, options, sel, ops, form, asks, save>>
Confirmed ==
  /\ confirm # NoOp /\ confirm \notin ops
  /\ Send(IF confirm.op \in OfSelection THEN [confirm EXCEPT !.emails = sel] ELSE confirm)
  /\ confirm' = NoOp
  /\ UNCHANGED <<db, listVars, page, options, sel, form, asks, save, left>>
Cancelled ==
  /\ confirm # NoOp /\ confirm' = NoOp
  /\ UNCHANGED <<db, listVars, page, options, sel, ops, form, asks, save, left>>

\* A bulk deletion clears the selection whatever its answer, the others when it
\* is a success.
KeptBy(o, ok) == IF o.op = "bulkDelete" \/ (o.op \in OfSelection /\ ok) THEN {} ELSE sel
OpDone(o) ==
  /\ o \in ops /\ ops' = ops \ {o}
  /\ db' \in Effects(db, o)
  /\ invalidateAll
  /\ pushed' \in {pushed, TRUE}
  /\ sel' = KeptBy(o, TRUE)
  /\ form' = [form EXCEPT !.foreign = @ \/ db' # db]
  /\ AsksBehind
  /\ UNCHANGED <<page, query, before, options, confirm, save, left>>
\* The request is lost, or the change is stored and Xray does not take it over:
\* a failure is answered and nobody is told.
OpFailed(o) ==
  /\ Acts
  /\ o \in ops /\ ops' = ops \ {o}
  /\ \/ UNCHANGED <<db, cache, fetching>>
     \/ db' \in Effects(db, o) /\ Unannounced
  /\ sel' = KeptBy(o, FALSE)
  /\ form' = [form EXCEPT !.foreign = @ \/ db' # db]
  /\ AsksBehind
  /\ UNCHANGED <<pushed, page, query, before, options, confirm, save>>

---------------------------------------------------------------------------
(* The dialog that adds or edits a client. *)
FlowOffered(ibs) == options /\ ibs \cap FlowInbounds # {}
\* The effect that clears the flow while no selected inbound can have one.
Cleared(f) == [f EXCEPT !.flow = @ /\ FlowOffered(f.inbounds)]
\* Mutant: a form that was filled once is not filled again.
OpenedOnce(fm, fresh, behind) ==
  [fm EXCEPT !.open = TRUE, !.foreign = behind \/ save # NoSave, !.added = {},
     !.f = IF @.secret # None THEN @
           ELSE Cleared(IF fm.mode = "edit" THEN [fm.client EXCEPT !.inbounds = fm.ids] ELSE fresh)]
\* The form is filled when the dialog opens, not when its client changes.
Opened(fm, fresh, behind) ==
  IF form.open THEN [fm EXCEPT !.f = form.f]
  ELSE [fm EXCEPT !.open = TRUE, !.foreign = behind \/ save # NoSave, !.added = {},
          !.f = Cleared(IF fm.mode = "edit" THEN [fm.client EXCEPT !.inbounds = fm.ids] ELSE fresh)]
Unused == {e \in Emails : Named(db, e) = {}}
FreshForms ==
  {Record(e, c, FALSE, FALSE, TRUE, {}) : e \in Unused, c \in {x \in Clients : db[x].email = None}}
\* What the opening dialog may find in its form: nothing random when it edits.
NewForms == IF form.open \/ form.mode = "edit" THEN {Free} ELSE FreshForms
onAdd ==
  /\ Acts /\ Uncovered
  /\ \E fresh \in FreshForms :
       form' = Opened([form EXCEPT !.mode = "add", !.client = NoClient, !.ids = {}], fresh, FALSE)
  /\ UNCHANGED <<db, listVars, page, options, sel, confirm, ops, asks, save>>
onEdit(i) ==
  /\ Acts /\ Uncovered /\ i \in DOMAIN Rows
  /\ asks' = asks \cup {[row |-> Rows[i], read |-> FALSE, client |-> NoClient, behind |-> FALSE]}
  /\ form' = [form EXCEPT !.mode = "edit", !.overlapped = asks # {}]
  /\ UNCHANGED <<db, listVars, page, options, sel, confirm, ops, save>>
\* The server reads the record and its attachments; they may change before the
\* answer arrives.
HydrateRead(a) ==
  /\ ~a.read
  /\ \E c \in Named(db, a.row.email) :
       asks' = (asks \ {a}) \cup {[a EXCEPT !.read = TRUE, !.client = db[c]]}
  /\ UNCHANGED <<db, listVars, page, options, sel, confirm, ops, form, save, left>>
HydrateAnswered(a) ==
  /\ a.read /\ asks' = asks \ {a}
  /\ LET fm == [form EXCEPT !.client = a.client, !.ids = a.client.inbounds]
     IN  \E fresh \in NewForms : form' = Opened(fm, fresh, a.behind)
  /\ UNCHANGED <<db, listVars, page, options, sel, confirm, ops, save, left>>
\* With no record to show the row itself is edited; it carries no secrets.
HydrateFailed(a) ==
  /\ Acts \/ (~a.read /\ Named(db, a.row.email) = {} /\ UNCHANGED left)
  /\ asks' = asks \ {a}
  /\ LET row == a.row
         fm == [form EXCEPT !.client = Record(row.email, None, FALSE, FALSE, row.enable, row.inbounds),
                            !.ids = row.inbounds]
     IN  \E fresh \in NewForms : form' = Opened(fm, fresh, a.behind)
  /\ UNCHANGED <<db, listVars, page, options, sel, confirm, ops, save>>
update(f) ==
  /\ Acts /\ form.open
  /\ Cleared(f) # form.f /\ form' = [form EXCEPT !.f = Cleared(f)]
  /\ UNCHANGED <<db, listVars, page, options, sel, confirm, ops, asks, save>>
\* Inbounds are picked from the ones that are listed, dropped whenever they are shown.
EditForm ==
  \/ \E e \in Emails : update([form.f EXCEPT !.email = e])
  \/ \E g \in BOOLEAN : update([form.f EXCEPT !.group = g])
  \/ update([form.f EXCEPT !.flow = ~@])
  \/ update([form.f EXCEPT !.enable = ~@])
  \/ \E ibs \in SUBSET Inbounds :
       (options \/ ibs \subseteq form.f.inbounds) /\ update([form.f EXCEPT !.inbounds = ibs])
Close ==
  /\ form.open /\ form' = [form EXCEPT !.open = FALSE]
  /\ UNCHANGED <<db, listVars, page, options, sel, confirm, ops, asks, save, left>>

\* The payload has no group.
Payload(f) == [f EXCEPT !.group = FALSE, !.flow = @ /\ FlowOffered(f.inbounds)]
\* Mutant: the dialog takes its attachments for made when it asks for them.
onSubmitAsMade ==
  /\ form.open /\ save = NoSave /\ form.mode = "edit" /\ form.client # NoClient
  /\ save' = [step |-> "update", isEdit |-> TRUE, email |-> form.client.email,
              attach |-> form.f.inbounds \ form.ids, detach |-> form.ids \ form.f.inbounds,
              payload |-> Payload(form.f)]
  /\ form' = [form EXCEPT !.ids = form.f.inbounds]
  /\ UNCHANGED <<db, listVars, page, options, sel, confirm, ops, asks, left>>
onSubmit ==
  /\ form.open /\ save = NoSave
  /\ form.mode = "add" => form.f.inbounds # {}
  /\ save' = IF form.mode = "edit" /\ form.client # NoClient
             THEN [step |-> "update", isEdit |-> TRUE, email |-> form.client.email,
                   attach |-> form.f.inbounds \ form.ids, detach |-> form.ids \ form.f.inbounds,
                   payload |-> Payload(form.f)]
             ELSE [NoSave EXCEPT !.step = "create", !.payload = Payload(form.f)]
  /\ UNCHANGED <<db, listVars, page, options, sel, confirm, ops, form, asks, left>>

\* onSave goes on to the next request it needs, and ends with the last.
Following(s) ==
  IF s.step = "update" /\ s.attach # {} THEN "attach"
  ELSE IF s.step \in {"update", "attach"} /\ s.detach # {} THEN "detach" ELSE "none"
Continues ==
  IF Following(save) = "none" THEN save' = NoSave /\ form' = [form EXCEPT !.open = FALSE]
  ELSE save' = [save EXCEPT !.step = Following(save)] /\ UNCHANGED form
\* The name the requests go to is the one the record had when it was opened; the
\* attachments are made under the name the update gave it only if that is the same.
SaveEffect(d) ==
  CASE save.step = "create" -> [ok |-> Named(d, save.payload.email) = {} /\ d[save.payload.secret].email = None,
                                db |-> Create(d, save.payload.secret, save.payload)]
    [] save.step = "update" -> [ok |-> \E c \in Named(d, save.email) : Renamable(d, c, save.payload.email),
                                db |-> Update(d, save.email, save.payload)]
    [] save.step \in {"attach", "detach"} ->
         [ok |-> Named(d, save.email) # {},
          db |-> [c \in Clients |-> IF c \notin Named(d, save.email) THEN d[c]
                     ELSE [d[c] EXCEPT !.inbounds = IF save.step = "attach" THEN @ \cup save.attach
                                                    ELSE @ \ save.detach]]]
SaveServed ==
  /\ save # NoSave /\ SaveEffect(db).ok
  /\ db' = SaveEffect(db).db
  /\ invalidateAll
  /\ pushed' \in {pushed, TRUE}
  /\ Continues
  /\ AsksBehind
  /\ UNCHANGED <<page, query, before, options, sel, confirm, ops, left>>
SaveRefused ==
  /\ save # NoSave /\ ~SaveEffect(db).ok
  /\ save' = NoSave
  /\ UNCHANGED <<db, listVars, page, options, sel, confirm, ops, form, asks, left>>
SaveFailed ==
  /\ Acts
  /\ save # NoSave
  /\ \/ UNCHANGED <<db, cache, fetching>>
     \/ SaveEffect(db).ok /\ db' = SaveEffect(db).db /\ Unannounced
  /\ save' = NoSave
  /\ form' = [form EXCEPT !.foreign = @ \/ db' # db,
                          !.added = IF save.step = "detach" THEN @ \cup save.attach ELSE @]
  /\ AsksBehind
  /\ UNCHANGED <<pushed, page, query, before, options, sel, confirm, ops>>

\* ClientBulkAddModal: one new client, with the group its form names.
BulkAdded ==
  /\ Acts /\ Uncovered /\ options
  /\ \E fresh \in FreshForms, g \in BOOLEAN, ibs \in SUBSET Inbounds \ {{}} :
       db' = Create(db, fresh.secret, [fresh EXCEPT !.group = g, !.inbounds = ibs])
  /\ invalidateAll
  /\ pushed' \in {pushed, TRUE}
  /\ form' = [form EXCEPT !.foreign = TRUE]
  /\ AsksBehind
  /\ UNCHANGED <<page, query, before, options, sel, confirm, ops, save>>
\* Another session, the bot or a job changes the clients.
OthersChange ==
  /\ Acts
  /\ \E c \in Clients :
       /\ db[c].email # None
       /\ \/ db' = [db EXCEPT ![c] = Free]
          \/ db' = [db EXCEPT ![c].enable = ~@]
          \/ \E ib \in Inbounds : db' = [db EXCEPT ![c].inbounds = Toggled(@, ib)]
          \/ \E e \in Unused : db' = [db EXCEPT ![c].email = e]
  /\ Announced
  /\ form' = [form EXCEPT !.foreign = TRUE]
  /\ AsksBehind
  /\ UNCHANGED <<page, query, before, options, sel, confirm, ops, save>>
\* The page is opened again: what it and its cache held is gone.
Reload ==
  /\ Acts
  /\ page' = [search |-> page.search, debounced |-> page.search, group |-> page.group, asc |-> TRUE, current |-> 1]
  /\ query' = Query(page')
  /\ cache' = << >> /\ fetching' = [q \in {query'} |-> Asked] /\ before' = Unread
  /\ pushed' = FALSE /\ options' = FALSE /\ sel' = {} /\ confirm' = NoOp
  /\ ops' = {} /\ form' = NoForm /\ asks' = {} /\ save' = NoSave
  /\ UNCHANGED db

ListStep ==
  \/ \E q \in DOMAIN fetching : ServerReads(q) \/ ListAnswered(q) \/ ListFailed(q)
  \/ InvalidateArrives \/ applyClientStatsEvent \/ OptionsAnswered \/ Debounce
  \/ \E e \in Emails \cup {None} : TypeSearch(e)
  \/ \E g \in BOOLEAN : SetFilters(g)
  \/ SetSort
  \/ \E n \in 1..Cardinality(Clients) : onTableChange(n)
RowStep ==
  \/ \E e \in Emails : SelectRow(e) \/ toggleSelect(e)
  \/ \E checked \in BOOLEAN : selectAll(checked)
  \/ \E i \in DOMAIN Rows : onToggleEnable(i) \/ onEdit(i)
  \/ \E o \in Confirmable : Ask(o)
  \/ Confirmed \/ Cancelled
  \/ \E o \in ops : OpDone(o) \/ OpFailed(o)
FormStep ==
  \/ onAdd \/ EditForm \/ Close \/ onSubmit
  \/ \E a \in asks : HydrateRead(a) \/ HydrateAnswered(a) \/ HydrateFailed(a)
  \/ SaveServed \/ SaveRefused \/ SaveFailed
Next == ListStep \/ RowStep \/ FormStep \/ BulkAdded \/ OthersChange \/ Reload
Spec == Init /\ [][Next]_vars

---------------------------------------------------------------------------
(* An answer the cache holds for good is what the server would answer,      *)
(* unless a change was not told to the page (missed) or is about to be, or  *)
(* it is the answer of a fetch that was overtaken by a change the page made *)
(* or was told of, or was stale when counters were merged into it (late):   *)
(* the invalidation cancels neither the first fetch of the query on show    *)
(* nor one of another query, whose older answer then counts as fresh, and   *)
(* setQueryData clears the mark, disagreements README, 5 names.  Every      *)
(* query must be marked, also those not on show, whatever order answers,    *)
(* messages and turns of the filters come in.                               *)
ListIsCurrent ==
  \A q \in DOMAIN cache :
    cache[q].stale \/ cache[q].missed \/ cache[q].late \/ pushed
      \/ ListPaged(db, q) = [rows |-> cache[q].rows, filtered |-> cache[q].filtered]

(* The form shows the client its requests go to, unless a second Edit was   *)
(* pressed while the record of the first was still on its way.              *)
FormIsOfItsClient ==
  (form.open /\ form.mode = "edit" /\ ~form.overlapped) =>
    /\ form.client # NoClient
    /\ form.client.secret # None => form.f.secret = form.client.secret

(* A save of a form opened from its record that ends well leaves the client *)
(* with the attachments the form showed, however many attempts it took, and *)
(* with those that an earlier attempt had made when it failed (README, 5),  *)
(* unless the clients were changed behind the form: by others, by a save of *)
(* a form closed before, by a request that was answered as a failure, or by *)
(* anybody between the reading of its record and its opening: the form then *)
(* shows, and diffs against, what was read (README, 5).                     *)
SavedAttachments ==
  [][(/\ SaveServed /\ save.isEdit /\ save' = NoSave /\ form.open
      /\ ~form.foreign /\ ~form.overlapped /\ form.client # NoClient /\ form.client.secret # None
      /\ form.client.email = save.email) =>
       \E c \in Clients : db'[c].email = save.payload.email /\ db'[c].inbounds = save.payload.inbounds \cup form.added]_vars

(* The group typed into the dialog is the group of the client it saves.     *)
GroupIsStored ==
  [][(SaveServed /\ save.step \in {"create", "update"} /\ form.open) =>
       \E c \in Clients : db'[c].email = save.payload.email /\ db'[c].group = form.f.group]_vars

---------------------------------------------------------------------------
(* What a comment of the source, or a reader of the page, would expect and  *)
(* the code does not do: no run checks these (README, 5).                   *)
(* The comment at invalidateAll has every mutation refresh both lists: what *)
(* the page itself changed, or was told of, shows in all it takes for fresh. *)
OwnChangesShow ==
  \A q \in DOMAIN cache :
    cache[q].stale \/ cache[q].missed \/ pushed
      \/ ListPaged(db, q) = [rows |-> cache[q].rows, filtered |-> cache[q].filtered]

(* A form opened on the record of a client shows its attachments.           *)
OpenedAsStored ==
  [][(~form.open /\ form'.open /\ form'.mode = "edit" /\ ~form'.overlapped /\ form'.client.secret # None) =>
       \E c \in Clients : db[c].email = form'.client.email /\ db[c].inbounds = form'.ids]_vars

(* The comment at the effect that puts the list on its first page promises  *)
(* that nobody is left on an empty page while there are clients to list.    *)
NotStaring ==
  ( /\ fetching = << >> /\ ~pushed /\ page.search = page.debounced
    /\ query \in DOMAIN cache /\ ~cache[query].stale /\ ~cache[query].missed)
    => (Matching(db, query) # {} => Rows # << >>)
=============================================================================
