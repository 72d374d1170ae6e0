------------------------- MODULE ClientsPageProofs -------------------------
(***************************************************************************)
(* What holds of ClientsPage for any clients, names, page sizes and number  *)
(* of actions: the answers the cache keeps for good are the server's        *)
(* (ListIsCurrent), asked too of the answers on their way, which are kept    *)
(* when they arrive (FetchesCurrent); and the dialog's form is of the client  *)
(* it saves (FormIsOfItsClient), with the attachments it asks for           *)
(* (SavedAttachments).                                                      *)
(***************************************************************************)
EXTENDS ClientsPage, TLAPS

(* Answers are records of the fields the cache knows. *)
IsRecord(r, fields) == r = [x \in fields |-> r[x]]
CacheTyped == \A q \in DOMAIN cache : IsRecord(cache[q], {"rows", "filtered", "stale", "missed", "late"})
FetchTyped == \A q \in DOMAIN fetching : IsRecord(fetching[q], {"read", "answer", "missed", "late"})
FetchesCurrent ==
  \A q \in DOMAIN fetching :
    fetching[q].read => fetching[q].missed \/ fetching[q].late \/ fetching[q].answer = ListPaged(db, q)
CurrentInv == CacheTyped /\ FetchTyped /\ ListIsCurrent /\ FetchesCurrent

---------------------------------------------------------------------------
(* What is done to the maps. *)
LEMMA AskedIs == IsRecord(Asked, {"read", "answer", "missed", "late"}) /\ ~Asked.read
BY DEF Asked, IsRecord
(* Every entry of one map is an entry of another, or a request just made.   *)
Continue(f, g) ==
  \A q \in DOMAIN g : g[q] = Asked \/ (q \in DOMAIN f /\ g[q] = f[q])
LEMMA TurnedContinues ==
  ASSUME NEW ca, NEW f, NEW g, Continue(f, g), NEW q
  PROVE  Continue(f, Turned(ca, g, q))
<1>1. Turned(ca, g, q) \in {g, Put(g, q, Asked)}
  BY DEF Turned
<1>2. Continue(f, Put(g, q, Asked))
  BY DEF Continue, Put
<1> QED BY <1>1, <1>2
LEMMA FetchesKept ==
  ASSUME CurrentInv, db' = db, Continue(fetching, fetching')
  PROVE  FetchTyped' /\ FetchesCurrent'
BY AskedIs DEF CurrentInv, FetchTyped, FetchesCurrent, Continue
LEMMA Kept ==
  ASSUME CurrentInv, UNCHANGED <<db, cache>>, pushed' = pushed, Continue(fetching, fetching')
  PROVE  CurrentInv'
<1>1. CacheTyped' /\ ListIsCurrent'
  BY DEF CurrentInv, CacheTyped, ListIsCurrent
<1> QED BY <1>1, FetchesKept DEF CurrentInv

(* Whatever changes on the server, what was read before it promises nothing. *)
Discarded(g) ==
  \A q \in DOMAIN g : /\ IsRecord(g[q], {"read", "answer", "missed", "late"})
                      /\ g[q].read => g[q].missed \/ g[q].late
LEMMA OvertakenIsDiscarded ==
  ASSUME FetchTyped, NEW known \in BOOLEAN
  PROVE  Discarded(Overtaken(fetching, known))
<1>1. DOMAIN Overtaken(fetching, known) = DOMAIN fetching
  BY DEF Overtaken
<1>2. ASSUME NEW q \in DOMAIN fetching
      PROVE  LET g == Overtaken(fetching, known)[q]
             IN  IsRecord(g, {"read", "answer", "missed", "late"}) /\ (g.read => g.missed \/ g.late)
  <2>1. CASE ~fetching[q].read
    BY <2>1 DEF Overtaken, FetchTyped
  <2>2. CASE fetching[q].read /\ known
    BY <2>2 DEF Overtaken, FetchTyped, IsRecord
  <2>3. CASE fetching[q].read /\ ~known
    BY <2>3 DEF Overtaken, FetchTyped, IsRecord
  <2> QED BY <2>1, <2>2, <2>3
<1> HIDE DEF Overtaken
<1> QED BY <1>1, <1>2 DEF Discarded
LEMMA AllStale ==
  ASSUME CurrentInv, cache' = Stale(cache)
  PROVE  CacheTyped' /\ ListIsCurrent'
<1>1. CacheTyped' /\ \A q \in DOMAIN cache' : cache'[q].stale
  BY DEF CurrentInv, CacheTyped, Stale, IsRecord
<1> QED BY <1>1 DEF ListIsCurrent
LEMMA Invalidated ==
  ASSUME CurrentInv, invalidateAll
  PROVE  CurrentInv'
<1>1. CacheTyped' /\ ListIsCurrent'
  BY AllStale DEF invalidateAll, invalidated
<1>2. Discarded(fetching')
  <2> DEFINE over == Overtaken(fetching, TRUE)
  <2>1. Discarded(over)
    BY OvertakenIsDiscarded DEF CurrentInv
  <2>2. fetching' \in {over, Put(over, query, Asked)}
    BY DEF invalidateAll, invalidated, Refetched
  <2> HIDE DEF over
  <2>3. Discarded(Put(over, query, Asked))
    BY <2>1, AskedIs DEF Discarded, Put
  <2> QED BY <2>1, <2>2, <2>3
<1> QED BY <1>1, <1>2 DEF CurrentInv, FetchTyped, FetchesCurrent, Discarded
(* A message makes all entries stale; what was read since the change is kept. *)
LEMMA Heard ==
  ASSUME CurrentInv, db' = db, invalidated(fetching)
  PROVE  CurrentInv'
<1>1. CacheTyped' /\ ListIsCurrent'
  BY AllStale DEF invalidated
<1>2. Continue(fetching, fetching')
  BY DEF invalidated, Refetched, Put, Continue
<1> QED BY <1>1, <1>2, FetchesKept DEF CurrentInv
LEMMA NotTold ==
  ASSUME CurrentInv, Unannounced
  PROVE  CurrentInv'
<1>1. CacheTyped' /\ \A q \in DOMAIN cache' : cache'[q].missed
  BY DEF CurrentInv, CacheTyped, Unannounced, Missing, IsRecord
<1>2. Discarded(fetching')
  BY OvertakenIsDiscarded DEF CurrentInv, Unannounced
<1> QED BY <1>1, <1>2 DEF CurrentInv, ListIsCurrent, FetchTyped, FetchesCurrent, Discarded
LEMMA Told ==
  ASSUME CurrentInv, pushed' = TRUE, cache' = cache, fetching' = Overtaken(fetching, TRUE)
  PROVE  CurrentInv'
<1>1. Discarded(fetching')
  BY OvertakenIsDiscarded DEF CurrentInv
<1> QED BY <1>1 DEF CurrentInv, CacheTyped, ListIsCurrent, FetchTyped, FetchesCurrent, Discarded

---------------------------------------------------------------------------
(* The list's own steps. *)
LEMMA ReadIsCurrent ==
  ASSUME CurrentInv, NEW q \in DOMAIN fetching, ServerReads(q)
  PROVE  CurrentInv'
<1>1. UNCHANGED <<db, cache, pushed>> /\ DOMAIN fetching' = DOMAIN fetching
      /\ fetching'[q] = [fetching[q] EXCEPT !.read = TRUE, !.answer = ListPaged(db, q)]
      /\ \A p \in DOMAIN fetching : p = q \/ fetching'[p] = fetching[p]
  BY DEF ServerReads
<1>2. IsRecord(fetching'[q], {"read", "answer", "missed", "late"}) /\ fetching'[q].answer = ListPaged(db, q)
  BY <1>1 DEF CurrentInv, FetchTyped, IsRecord
<1>3. FetchTyped'
  BY <1>1, <1>2 DEF CurrentInv, FetchTyped
<1>4. FetchesCurrent'
  BY <1>1, <1>2 DEF CurrentInv, FetchesCurrent
<1>5. CacheTyped' /\ ListIsCurrent'
  BY <1>1 DEF CurrentInv, CacheTyped, ListIsCurrent
<1> QED BY <1>3, <1>4, <1>5 DEF CurrentInv
LEMMA AnswerIsCurrent ==
  ASSUME CurrentInv, NEW q \in DOMAIN fetching, ListAnswered(q)
  PROVE  CurrentInv'
<1> DEFINE kept == Entry(fetching[q])
<1>1. UNCHANGED <<db, pushed>> /\ cache' = Put(cache, q, kept) /\ fetching' = Without(fetching, q)
      /\ fetching[q].read
  BY DEF ListAnswered
<1>2. Continue(fetching, fetching')
  BY <1>1 DEF Without, Continue
<1>3. FetchTyped' /\ FetchesCurrent'
  BY <1>1, <1>2, AskedIs DEF CurrentInv, FetchTyped, FetchesCurrent, Continue
<1>4. /\ IsRecord(kept, {"rows", "filtered", "stale", "missed", "late"})
      /\ kept.missed = fetching[q].missed /\ kept.late = fetching[q].late
      /\ kept.rows = fetching[q].answer.rows /\ kept.filtered = fetching[q].answer.filtered
  BY DEF Entry, IsRecord
<1>5. kept.missed \/ kept.late \/ ListPaged(db, q) = [rows |-> kept.rows, filtered |-> kept.filtered]
  <2>1. CASE fetching[q].answer = ListPaged(db, q)
    <3>1. ListPaged(db, q) = [rows |-> ListPaged(db, q).rows, filtered |-> ListPaged(db, q).filtered]
      BY DEF ListPaged
    <3> QED BY <1>4, <2>1, <3>1
  <2> QED BY <1>1, <1>4, <2>1 DEF CurrentInv, FetchesCurrent
<1> HIDE DEF kept
<1>6. /\ DOMAIN cache' = DOMAIN cache \cup {q} /\ cache'[q] = kept
      /\ \A p \in DOMAIN cache : p = q \/ cache'[p] = cache[p]
  BY <1>1 DEF Put
<1>7. CacheTyped' /\ ListIsCurrent'
  BY <1>1, <1>4, <1>5, <1>6 DEF CurrentInv, CacheTyped, ListIsCurrent
<1> QED BY <1>3, <1>7 DEF CurrentInv
LEMMA MergedIsCurrent ==
  ASSUME CurrentInv, applyClientStatsEvent
  PROVE  CurrentInv'
<1>1. UNCHANGED <<db, fetching, pushed>> /\ query \in DOMAIN cache /\ DOMAIN cache' = DOMAIN cache
      /\ cache'[query] = [cache[query] EXCEPT !.stale = FALSE, !.late = TRUE]
      /\ \A p \in DOMAIN cache : p = query \/ cache'[p] = cache[p]
  BY DEF applyClientStatsEvent
<1>2. IsRecord(cache'[query], {"rows", "filtered", "stale", "missed", "late"}) /\ cache'[query].late
  BY <1>1 DEF CurrentInv, CacheTyped, IsRecord
<1>3. CacheTyped' /\ ListIsCurrent'
  BY <1>1, <1>2 DEF CurrentInv, CacheTyped, ListIsCurrent
<1>4. FetchTyped' /\ FetchesCurrent'
  BY <1>1 DEF CurrentInv, FetchTyped, FetchesCurrent
<1> QED BY <1>3, <1>4 DEF CurrentInv
LEMMA TurnIsCurrent ==
  ASSUME CurrentInv, NEW p, TurnTo(p)
  PROVE  CurrentInv'
<1>1. Continue(fetching, fetching)
  BY DEF Continue
<1>2. Continue(fetching, fetching')
  BY <1>1, TurnedContinues DEF TurnTo
<1> QED BY <1>2, Kept DEF TurnTo
LEMMA ListStepIsCurrent ==
  ASSUME CurrentInv, ListStep
  PROVE  CurrentInv'
<1>1. ASSUME NEW q \in DOMAIN fetching, ListFailed(q) PROVE CurrentInv'
  <2>1. Continue(fetching, fetching')
    BY <1>1 DEF ListFailed, Without, Continue
  <2> QED BY <1>1, <2>1, Kept DEF ListFailed
<1>2. CASE InvalidateArrives
  BY <1>2, Heard DEF InvalidateArrives
<1>3. CASE OptionsAnswered
  <2>1. Continue(fetching, fetching') /\ UNCHANGED <<db, cache, pushed>>
    BY <1>3 DEF OptionsAnswered, listVars, Continue
  <2> QED BY <2>1, Kept
<1>4. CASE Debounce \/ (\E e \in Emails \cup {None} : TypeSearch(e)) \/ (\E g \in BOOLEAN : SetFilters(g)) \/ SetSort
           \/ (\E n \in 1..Cardinality(Clients) : onTableChange(n))
  <2>1. \E p : TurnTo(p)
    BY <1>4 DEF Debounce, TypeSearch, SetFilters, SetSort, onTableChange
  <2> QED BY <2>1, TurnIsCurrent
<1> QED BY <1>1, <1>2, <1>3, <1>4, ReadIsCurrent, AnswerIsCurrent, MergedIsCurrent DEF ListStep

---------------------------------------------------------------------------
(* The clients change, by the page or behind it. *)
LEMMA ChangeIsCurrent ==
  ASSUME CurrentInv,
         (\E o \in ops : OpDone(o) \/ OpFailed(o)) \/ SaveServed \/ SaveFailed \/ BulkAdded \/ OthersChange
  PROVE  CurrentInv'
<1>1. CASE invalidateAll
  BY <1>1, Invalidated
<1>2. CASE Unannounced
  BY <1>2, NotTold
<1>3. CASE pushed' = TRUE /\ cache' = cache /\ fetching' = Overtaken(fetching, TRUE)
  BY <1>3, Told
<1>4. CASE UNCHANGED <<db, cache, fetching, pushed>>
  <2>1. Continue(fetching, fetching')
    BY <1>4 DEF Continue
  <2> QED BY <1>4, <2>1, Kept
<1>5. ASSUME NEW o \in ops, OpDone(o) PROVE CurrentInv'
  BY <1>1, <1>5 DEF OpDone
<1>6. ASSUME NEW o \in ops, OpFailed(o) PROVE CurrentInv'
  BY <1>2, <1>4, <1>6 DEF OpFailed
<1>7. CASE SaveServed \/ BulkAdded
  BY <1>1, <1>7 DEF SaveServed, BulkAdded
<1>8. CASE SaveFailed
  BY <1>2, <1>4, <1>8 DEF SaveFailed
<1>9. CASE OthersChange
  BY <1>2, <1>3, <1>9 DEF OthersChange, Announced
<1> QED BY <1>5, <1>6, <1>7, <1>8, <1>9
LEMMA ReloadIsCurrent ==
  ASSUME Reload
  PROVE  CurrentInv'
<1>1. cache' = << >> /\ fetching' = [q \in {query'} |-> Asked]
  BY DEF Reload
<1> QED BY <1>1, AskedIs DEF CurrentInv, CacheTyped, FetchTyped, ListIsCurrent, FetchesCurrent

(* An answer the cache holds for good is what the server would answer, for   *)
(* any filters, pages, mutations and saves, unless a change was not told to  *)
(* the page or is about to be, or it came of a fetch overtaken by a change   *)
(* the page knew of, which is not cancelled, or counters were merged into it *)
(* when it was stale.                                                       *)
THEOREM AnswersAreCurrent == Spec => []ListIsCurrent
<1>1. Init => CurrentInv
  <2> SUFFICES ASSUME Init PROVE CurrentInv
    OBVIOUS
  <2>1. cache = << >> /\ fetching = [q \in {query} |-> Asked]
    BY DEF Init
  <2> QED BY <2>1, AskedIs DEF CurrentInv, CacheTyped, FetchTyped, ListIsCurrent, FetchesCurrent
<1>2. ASSUME CurrentInv, [Next]_vars PROVE CurrentInv'
  <2>1. CASE UNCHANGED <<db, listVars>>
    <3>1. UNCHANGED <<db, cache, pushed>> /\ Continue(fetching, fetching')
      BY <2>1 DEF listVars, Continue
    <3> QED BY <1>2, <3>1, Kept
  <2>2. CASE RowStep
    <3>1. CASE \E o \in ops : OpDone(o) \/ OpFailed(o)
      BY <1>2, <3>1, ChangeIsCurrent
    <3>2. CASE ~\E o \in ops : OpDone(o) \/ OpFailed(o)
      <4>1. UNCHANGED <<db, listVars>>
        BY <2>2, <3>2 DEF RowStep, SelectRow, toggleSelect, selectAll, Select, onToggleEnable, onEdit, Ask,
                          Confirmed, Cancelled
      <4> QED BY <2>1, <4>1
    <3> QED BY <3>1, <3>2
  <2>3. CASE FormStep
    <3>1. CASE SaveServed \/ SaveFailed
      BY <1>2, <3>1, ChangeIsCurrent
    <3>2. CASE ~(SaveServed \/ SaveFailed)
      <4>1. UNCHANGED <<db, listVars>>
        BY <2>3, <3>2 DEF FormStep, onAdd, EditForm, update, Close, onSubmit, HydrateRead, HydrateAnswered,
                          HydrateFailed,                          SaveRefused
      <4> QED BY <2>1, <4>1
    <3> QED BY <3>1, <3>2
  <2>4. CASE UNCHANGED vars
    BY <2>1, <2>4 DEF vars
  <2> QED BY <1>2, <2>2, <2>3, <2>4, ListStepIsCurrent, ChangeIsCurrent, ReloadIsCurrent DEF Next
<1>3. CurrentInv => ListIsCurrent
  BY DEF CurrentInv
<1> QED BY <1>1, <1>2, <1>3, PTL DEF Spec

---------------------------------------------------------------------------
(* The dialog.  Records, the form and the save keep their fields.           *)
RecordFields == {"email", "secret", "group", "flow", "enable", "inbounds"}
RecordsTyped == db = [c \in Clients |-> db[c]] /\ \A c \in Clients : IsRecord(db[c], RecordFields)
FormTyped ==
  /\ IsRecord(form, {"open", "mode", "client", "ids", "f", "overlapped", "foreign", "added"})
  /\ IsRecord(form.f, RecordFields)
  /\ form.client # NoClient => IsRecord(form.client, RecordFields)
SaveTyped ==
  /\ IsRecord(save, {"step", "isEdit", "email", "attach", "detach", "payload"})
  /\ IsRecord(save.payload, RecordFields)
  /\ save # NoSave => save.step \in {"create", "update", "attach", "detach"}

(* While one record at most is on its way, nothing is once the form of an   *)
(* edit is open: what it was filled with is the client it saves.            *)
FormInv ==
  (form.mode = "edit" /\ ~form.overlapped) =>
    /\ \E row : asks \subseteq {row}
    /\ form.open => /\ asks = {}
                    /\ form.client # NoClient
                    /\ form.client.secret # None => form.f.secret = form.client.secret

(* What is in the database for a form that was opened from its record, while *)
(* nobody else changes it: the attachments it was opened with and those its  *)
(* saves have made, unless the client was renamed away.                     *)
OwnForm ==
  /\ form.open /\ form.mode = "edit" /\ ~form.foreign /\ ~form.overlapped
  /\ form.client # NoClient /\ form.client.secret # None
HasAttached(d, e, S) == Named(d, e) = {} \/ \E c \in Named(d, e) : d[c].inbounds = S
StillNamed == Named(db, form.client.email) = {} \/ save.payload.email = form.client.email
OwnSave ==
  /\ save.isEdit /\ save.email = form.client.email
  /\ save.attach = save.payload.inbounds \ form.ids
  /\ save.detach = form.ids \ save.payload.inbounds
  /\ \/ save.step = "update" /\ HasAttached(db, form.client.email, form.ids \cup form.added)
     \/ save.step = "attach" /\ HasAttached(db, form.client.email, form.ids \cup form.added) /\ StillNamed
     \/ save.step = "detach" /\ HasAttached(db, form.client.email, form.ids \cup form.added \cup save.attach) /\ StillNamed
AttachInv ==
  /\ (save # NoSave /\ save.isEdit /\ form.open /\ ~form.foreign) => form.mode = "edit"
  /\ OwnForm => /\ form.added \cap form.ids = {}
                /\ save = NoSave => HasAttached(db, form.client.email, form.ids \cup form.added)
                /\ save # NoSave => OwnSave
(* A record on its way is the one the server has, unless the clients have   *)
(* changed since it was read.                                               *)
AskCurrent(a, d) ==
  /\ IsRecord(a, {"row", "read", "client", "behind"})
  /\ a.read => /\ IsRecord(a.client, RecordFields)
               /\ a.behind \/ HasAttached(d, a.client.email, a.client.inbounds)
AsksCurrent == \A a \in asks : AskCurrent(a, db)
DialogInv == RecordsTyped /\ FormTyped /\ SaveTyped /\ FormInv /\ AttachInv /\ AsksCurrent

---------------------------------------------------------------------------
(* Every way to make a record makes one.                                    *)
LEMMA RecordIs ==
  ASSUME NEW e, NEW c, NEW g, NEW flow, NEW on, NEW ibs
  PROVE  IsRecord(Record(e, c, g, flow, on, ibs), RecordFields)
BY DEF Record, IsRecord, RecordFields
LEMMA RecordIsClient ==
  ASSUME NEW r, IsRecord(r, RecordFields)
  PROVE  r # NoClient
<1>1. "secret" \in DOMAIN r
  BY DEF IsRecord, RecordFields
<1>2. "secret" \notin DOMAIN NoClient
  BY DEF NoClient
<1> QED BY <1>1, <1>2
LEMMA UpdatedIs ==
  ASSUME NEW r, IsRecord(r, RecordFields), NEW p
  PROVE  /\ IsRecord(Updated(r, p), RecordFields)
         /\ Updated(r, p).email = p.email /\ Updated(r, p).inbounds = r.inbounds
<1>1. CASE r.inbounds = {}
  <2>1. Updated(r, p) = [r EXCEPT !.email = p.email]
    BY <1>1 DEF Updated
  <2> QED BY <2>1 DEF IsRecord, RecordFields
<1>2. CASE r.inbounds # {}
  <2>1. Updated(r, p) = Record(p.email, p.secret, p.group, p.flow, p.enable, r.inbounds)
    BY <1>2 DEF Updated
  <2> QED BY <2>1, RecordIs DEF Record
<1> QED BY <1>1, <1>2
LEMMA ClearedIs ==
  ASSUME NEW r, IsRecord(r, RecordFields)
  PROVE  IsRecord(Cleared(r), RecordFields) /\ Cleared(r).secret = r.secret
BY DEF Cleared, IsRecord, RecordFields
LEMMA PayloadIs ==
  ASSUME NEW r, IsRecord(r, RecordFields)
  PROVE  IsRecord(Payload(r), RecordFields) /\ Payload(r).inbounds = r.inbounds
BY DEF Payload, IsRecord, RecordFields
LEMMA EffectsTyped ==
  ASSUME RecordsTyped, NEW o, NEW d \in Effects(db, o)
  PROVE  d = [c \in Clients |-> d[c]] /\ \A c \in Clients : IsRecord(d[c], RecordFields)
<1> DEFINE Typed(x) == x = [c \in Clients |-> x[c]] /\ \A c \in Clients : IsRecord(x[c], RecordFields)
<1>1. IsRecord(Free, RecordFields)
  BY RecordIs DEF Free
<1>2. ASSUME NEW gone PROVE Typed([c \in Clients |-> IF c \in gone THEN Free ELSE db[c]])
  BY <1>1 DEF RecordsTyped
<1>3. Typed(Effect(db, o))
  <2>1. CASE o.op = "setEnable"
    <3>1. Effect(db, o) = [c \in Clients |-> IF c \in Hit(db, o) THEN [db[c] EXCEPT !.enable = o.arg] ELSE db[c]]
      BY <2>1 DEF Effect
    <3> QED BY <3>1 DEF RecordsTyped, IsRecord, RecordFields
  <2>2. CASE o.op \in {"remove", "bulkDelete"}
    <3>1. Effect(db, o) = [c \in Clients |-> IF c \in Hit(db, o) THEN Free ELSE db[c]]
      BY <2>2 DEF Effect
    <3> QED BY <3>1, <1>2
  <2>3. CASE o.op = "bulkAssignGroup"
    <3>1. Effect(db, o) = [c \in Clients |-> IF c \in Hit(db, o) THEN [db[c] EXCEPT !.group = o.arg] ELSE db[c]]
      BY <2>3 DEF Effect
    <3> QED BY <3>1 DEF RecordsTyped, IsRecord, RecordFields
  <2>4. CASE o.op \notin {"setEnable", "remove", "bulkDelete", "bulkAssignGroup"}
    <3>1. Effect(db, o) = db
      BY <2>4 DEF Effect
    <3> QED BY <3>1 DEF RecordsTyped
  <2> QED BY <2>1, <2>2, <2>3, <2>4
<1> QED BY <1>2, <1>3 DEF Effects
LEMMA CreateTypes ==
  ASSUME RecordsTyped, NEW x, NEW p, NEW d, d = Create(db, x, p)
  PROVE  d = [c \in Clients |-> d[c]] /\ \A c \in Clients : IsRecord(d[c], RecordFields)
<1>1. d = [db EXCEPT ![x] = Record(p.email, p.secret, p.group, p.flow, TRUE, p.inbounds)]
  BY DEF Create
<1>2. d = [c \in Clients |-> IF c = x THEN Record(p.email, p.secret, p.group, p.flow, TRUE, p.inbounds) ELSE db[c]]
  BY <1>1 DEF RecordsTyped
<1>3. ASSUME NEW c \in Clients PROVE IsRecord(d[c], RecordFields)
  <2>1. d[c] = db[c] \/ d[c] = Record(p.email, p.secret, p.group, p.flow, TRUE, p.inbounds)
    BY <1>2
  <2> QED BY <2>1, RecordIs DEF RecordsTyped
<1>4. d = [c \in Clients |-> d[c]]
  BY <1>2, Zenon
<1> QED BY <1>3, <1>4
LEMMA SaveTypesRecords ==
  ASSUME RecordsTyped, SaveTyped, save.step \in {"create", "update", "attach", "detach"},
         NEW d, d = SaveEffect(db).db
  PROVE  d = [c \in Clients |-> d[c]] /\ \A c \in Clients : IsRecord(d[c], RecordFields)
<1>1. CASE save.step = "create"
  <2>1. d = Create(db, save.payload.secret, save.payload)
    BY <1>1 DEF SaveEffect
  <2> QED BY <2>1, CreateTypes
<1>2. CASE save.step = "update"
  <2>1. d = [c \in Clients |-> IF c \in Named(db, save.email) THEN Updated(db[c], save.payload) ELSE db[c]]
    BY <1>2 DEF SaveEffect, Update
  <2>2. ASSUME NEW c \in Clients PROVE IsRecord(d[c], RecordFields)
    <3>1. d[c] = db[c] \/ d[c] = Updated(db[c], save.payload)
      BY <2>1
    <3> QED BY <3>1, UpdatedIs DEF RecordsTyped
  <2>3. d = [c \in Clients |-> d[c]]
    BY <2>1, Zenon
  <2> QED BY <2>2, <2>3
<1>3. CASE save.step \in {"attach", "detach"}
  <2>1. d = [c \in Clients |-> IF c \notin Named(db, save.email) THEN db[c]
                     ELSE [db[c] EXCEPT !.inbounds = IF save.step = "attach" THEN @ \cup save.attach
                                                    ELSE @ \ save.detach]]
    BY <1>3 DEF SaveEffect
  <2>2. ASSUME NEW c \in Clients PROVE IsRecord(d[c], RecordFields)
    <3>1. d[c] = db[c] \/ \E ibs : d[c] = [db[c] EXCEPT !.inbounds = ibs]
      BY <2>1
    <3> QED BY <3>1 DEF RecordsTyped, IsRecord, RecordFields
  <2>3. d = [c \in Clients |-> d[c]]
    BY <2>1, Zenon
  <2> QED BY <2>2, <2>3
<1> QED BY <1>1, <1>2, <1>3

---------------------------------------------------------------------------
(* Steps that leave the dialog alone, or only change the clients behind it. *)
LEMMA DialogRests ==
  ASSUME DialogInv, UNCHANGED <<db, form, asks, save>>
  PROVE  DialogInv'
<1>1. AsksCurrent'
  BY DEF DialogInv, AsksCurrent
<1>2. AttachInv'
  BY DEF DialogInv, AttachInv, OwnForm, OwnSave, HasAttached, StillNamed, Named
<1> QED BY <1>1, <1>2 DEF DialogInv, RecordsTyped, FormTyped, SaveTyped, FormInv
(* A change leaves as many requests for records, and marks what was read.   *)
Fewer ==
  /\ asks = {} => asks' = {}
  /\ \A x : asks \subseteq {x} => \E y : asks' \subseteq {y}
LEMMA BehindAreCurrent ==
  ASSUME DialogInv, AsksBehind
  PROVE  AsksCurrent' /\ Fewer
<1>1. CASE db' = db
  BY <1>1 DEF DialogInv, AsksCurrent, AsksBehind, Fewer
<1>2. CASE db' # db
  <2>1. asks' = {[a EXCEPT !.behind = a.read] : a \in asks}
    BY <1>2 DEF AsksBehind
  <2>2. ASSUME NEW a \in asks, NEW g, g = [a EXCEPT !.behind = a.read] PROVE AskCurrent(g, db')
    <3>1. IsRecord(a, {"row", "read", "client", "behind"}) /\ (a.read => IsRecord(a.client, RecordFields))
      BY DEF DialogInv, AsksCurrent, AskCurrent
    <3>2. /\ IsRecord(g, {"row", "read", "client", "behind"})
          /\ g.read = a.read /\ g.client = a.client /\ g.behind = a.read
      BY <2>2, <3>1 DEF IsRecord
    <3> QED BY <3>1, <3>2 DEF AskCurrent
  <2>3. AsksCurrent'
    BY <2>1, <2>2 DEF AsksCurrent
  <2> QED BY <2>1, <2>3 DEF Fewer
<1> QED BY <1>1, <1>2
LEMMA FewerKeeps ==
  ASSUME FormInv, Fewer, form'.mode = form.mode, form'.overlapped = form.overlapped, form'.f = form.f,
         form'.client = form.client, form'.open => form.open
  PROVE  FormInv'
BY DEF FormInv, Fewer
LEMMA ChangedBehind ==
  ASSUME DialogInv, RecordsTyped', AsksBehind, save' = save, NEW b \in BOOLEAN,
         form' = [form EXCEPT !.foreign = b], ~b => db' = db /\ ~form.foreign
  PROVE  DialogInv'
<1>1. /\ form'.foreign = b /\ form'.open = form.open /\ form'.mode = form.mode /\ form'.client = form.client
      /\ form'.ids = form.ids /\ form'.f = form.f /\ form'.overlapped = form.overlapped /\ form'.added = form.added
      /\ IsRecord(form', {"open", "mode", "client", "ids", "f", "overlapped", "foreign", "added"})
  BY DEF DialogInv, FormTyped, IsRecord
<1>2. FormTyped' /\ SaveTyped' /\ FormInv' /\ AsksCurrent'
  BY <1>1, BehindAreCurrent, FewerKeeps DEF DialogInv, FormTyped, SaveTyped
<1>3. AttachInv'
  <2>1. CASE b
    BY <1>1, <2>1 DEF AttachInv, OwnForm
  <2>2. CASE ~b
    BY <1>1, <2>2 DEF DialogInv, AttachInv, OwnForm, OwnSave, HasAttached, StillNamed, Named
  <2> QED BY <2>1, <2>2
<1> QED BY <1>2, <1>3 DEF DialogInv
LEMMA OpKeepsDialog ==
  ASSUME DialogInv, NEW o \in ops, OpDone(o) \/ OpFailed(o)
  PROVE  DialogInv'
<1>1. AsksBehind /\ save' = save /\ form' = [form EXCEPT !.foreign = form.foreign \/ db' # db]
  BY DEF OpDone, OpFailed
<1>2. RecordsTyped'
  <2>1. db' = db \/ db' \in Effects(db, o)
    BY DEF OpDone, OpFailed
  <2> QED BY <2>1, EffectsTyped DEF DialogInv, RecordsTyped
<1> DEFINE b == IF form.foreign \/ db' # db THEN TRUE ELSE FALSE
<1>3. form' = [form EXCEPT !.foreign = b]
  <2>1. CASE form.foreign \/ db' # db
    BY <1>1, <2>1, Zenon
  <2>2. CASE ~(form.foreign \/ db' # db)
    BY <1>1, <2>2, Zenon
  <2> QED BY <2>1, <2>2
<1>4. b \in BOOLEAN /\ (~b => db' = db /\ ~form.foreign)
  OBVIOUS
<1> HIDE DEF b
<1> QED BY <1>1, <1>2, <1>3, <1>4, ChangedBehind
LEMMA OthersKeepDialog ==
  ASSUME DialogInv, BulkAdded \/ OthersChange
  PROVE  DialogInv'
<1>1. AsksBehind /\ save' = save /\ form' = [form EXCEPT !.foreign = TRUE]
  BY DEF BulkAdded, OthersChange
<1>2. RecordsTyped'
  <2>1. CASE BulkAdded
    <3>1. \E x, p : db' = Create(db, x, p)
      BY <2>1 DEF BulkAdded
    <3> QED BY <3>1, CreateTypes DEF DialogInv, RecordsTyped
  <2>2. CASE OthersChange
    <3>1. PICK c \in Clients :
            \/ db' = [db EXCEPT ![c] = Free]
            \/ db' = [db EXCEPT ![c].enable = ~@]
            \/ \E ib \in Inbounds : db' = [db EXCEPT ![c].inbounds = Toggled(@, ib)]
            \/ \E e \in Unused : db' = [db EXCEPT ![c].email = e]
      BY <2>2 DEF OthersChange
    <3>2. db' = [x \in Clients |-> db'[x]] /\ \A x \in Clients : x # c => db'[x] = db[x]
      BY <3>1 DEF DialogInv, RecordsTyped
    <3>3. IsRecord(db'[c], RecordFields)
      <4>1. IsRecord(db[c], RecordFields) /\ db = [x \in Clients |-> db[x]]
        BY DEF DialogInv, RecordsTyped
      <4>2. \/ db'[c] = Free \/ db'[c] = [db[c] EXCEPT !.enable = ~@]
            \/ \E ibs : db'[c] = [db[c] EXCEPT !.inbounds = ibs]
            \/ \E e : db'[c] = [db[c] EXCEPT !.email = e]
        BY <3>1, <4>1
      <4>3. IsRecord(Free, RecordFields)
        BY RecordIs DEF Free
      <4> QED BY <4>1, <4>2, <4>3 DEF IsRecord, RecordFields
    <3> QED BY <3>2, <3>3 DEF DialogInv, RecordsTyped
  <2> QED BY <2>1, <2>2
<1> QED BY <1>1, <1>2, ChangedBehind

---------------------------------------------------------------------------
(* The dialog opens, on a new client or on the answer about the one of a row. *)
FormIs(fm) == IsRecord(fm, {"open", "mode", "client", "ids", "f", "overlapped", "foreign", "added"})
LEMMA OpenedIs ==
  ASSUME NEW fm, FormIs(fm), NEW fresh, NEW behind, ~form.open, 
         IsRecord(fresh, RecordFields), fm.mode = "edit" => IsRecord(fm.client, RecordFields)
  PROVE  /\ FormIs(Opened(fm, fresh, behind)) /\ IsRecord(Opened(fm, fresh, behind).f, RecordFields)
         /\ Opened(fm, fresh, behind).open /\ (Opened(fm, fresh, behind).foreign <=> (behind \/ save # NoSave)) /\ Opened(fm, fresh, behind).added = {}
         /\ Opened(fm, fresh, behind).mode = fm.mode /\ Opened(fm, fresh, behind).client = fm.client /\ Opened(fm, fresh, behind).ids = fm.ids /\ Opened(fm, fresh, behind).overlapped = fm.overlapped
         /\ fm.mode = "edit" => Opened(fm, fresh, behind).f.secret = fm.client.secret
<1> DEFINE filled == IF fm.mode = "edit" THEN [fm.client EXCEPT !.inbounds = fm.ids] ELSE fresh
<1>1. IsRecord(filled, RecordFields) /\ (fm.mode = "edit" => filled.secret = fm.client.secret)
  BY DEF IsRecord, RecordFields
<1>0. PICK g : g = Opened(fm, fresh, behind)
  OBVIOUS
<1>2. g = [fm EXCEPT !.open = TRUE, !.foreign = behind \/ save # NoSave, !.added = {}, !.f = Cleared(filled)]
  BY <1>0 DEF Opened
<1>3. IsRecord(Cleared(filled), RecordFields) /\ Cleared(filled).secret = filled.secret
  BY <1>1, ClearedIs
<1> HIDE DEF filled
<1>4. /\ FormIs(g) /\ g.open /\ g.added = {} /\ g.f = Cleared(filled)
      /\ g.mode = fm.mode /\ g.client = fm.client /\ g.ids = fm.ids /\ g.overlapped = fm.overlapped
  <2>1. CASE behind \/ save # NoSave
    <3>1. g = [fm EXCEPT !.open = TRUE, !.foreign = TRUE, !.added = {}, !.f = Cleared(filled)]
      BY <1>2, <2>1, Zenon
    <3> QED BY <3>1 DEF FormIs, IsRecord
  <2>2. CASE ~(behind \/ save # NoSave)
    <3>1. g = [fm EXCEPT !.open = TRUE, !.foreign = FALSE, !.added = {}, !.f = Cleared(filled)]
      BY <1>2, <2>2, Zenon
    <3> QED BY <3>1 DEF FormIs, IsRecord
  <2> QED BY <2>1, <2>2
<1>5. g.foreign <=> (behind \/ save # NoSave)
  <2>1. CASE behind \/ save # NoSave
    <3>1. g = [fm EXCEPT !.open = TRUE, !.foreign = TRUE, !.added = {}, !.f = Cleared(filled)]
      BY <1>2, <2>1, Zenon
    <3> QED BY <2>1, <3>1 DEF FormIs, IsRecord
  <2>2. CASE ~(behind \/ save # NoSave)
    <3>1. g = [fm EXCEPT !.open = TRUE, !.foreign = FALSE, !.added = {}, !.f = Cleared(filled)]
      BY <1>2, <2>2, Zenon
    <3> QED BY <2>2, <3>1 DEF FormIs, IsRecord
  <2> QED BY <2>1, <2>2
<1> QED BY <1>0, <1>1, <1>3, <1>4, <1>5
(* A dialog that is open already keeps what was typed into it. *)
LEMMA StaysOpened ==
  ASSUME NEW fm, FormIs(fm), NEW fresh, NEW behind, form.open, (fm.open <=> form.open)
  PROVE  /\ FormIs(Opened(fm, fresh, behind)) /\ Opened(fm, fresh, behind).f = form.f /\ (Opened(fm, fresh, behind).foreign <=> fm.foreign) /\ Opened(fm, fresh, behind).open
         /\ Opened(fm, fresh, behind).mode = fm.mode /\ Opened(fm, fresh, behind).client = fm.client /\ Opened(fm, fresh, behind).overlapped = fm.overlapped
BY DEF Opened, FormIs, IsRecord
LEMMA NewFormsAreRecords == \A fresh \in NewForms \cup FreshForms : IsRecord(fresh, RecordFields)
<1>1. \A fresh \in FreshForms : IsRecord(fresh, RecordFields)
  <2> TAKE fresh \in FreshForms
  <2>1. PICK e, c : fresh = Record(e, c, FALSE, FALSE, TRUE, {})
    BY DEF FreshForms, Record
  <2> QED BY <2>1, RecordIs
<1>2. IsRecord(Free, RecordFields)
  BY RecordIs DEF Free
<1> QED BY <1>1, <1>2 DEF NewForms
(* The form with the answer's record and attachments. *)
SameBut(fm, client, ids) ==
  /\ fm.client = client /\ fm.ids = ids /\ (fm.open <=> form.open) /\ fm.mode = form.mode
  /\ fm.overlapped = form.overlapped /\ (fm.foreign <=> form.foreign)
LEMMA HydratedIs ==
  ASSUME DialogInv, NEW client, NEW ids, NEW fm, fm = [form EXCEPT !.client = client, !.ids = ids]
  PROVE  FormIs(fm) /\ SameBut(fm, client, ids)
BY DEF DialogInv, FormTyped, FormIs, IsRecord, SameBut
LEMMA HydrateKeepsDialog ==
  ASSUME DialogInv, NEW a \in asks, asks' = asks \ {a}, UNCHANGED <<db, save>>,
         NEW client, IsRecord(client, RecordFields), NEW ids, NEW fresh \in NewForms, NEW behind,
         NEW fm, FormIs(fm), SameBut(fm, client, ids), form' = Opened(fm, fresh, behind),
         behind \/ client.secret = None \/ HasAttached(db, client.email, ids)
  PROVE  DialogInv'
<1>1. /\ fm.client = client /\ fm.ids = ids /\ (fm.open <=> form.open) /\ fm.mode = form.mode
      /\ fm.overlapped = form.overlapped /\ (fm.foreign <=> form.foreign)
  BY DEF SameBut
<1>2. RecordsTyped' /\ SaveTyped' /\ client # NoClient
  BY RecordIsClient DEF DialogInv, RecordsTyped, SaveTyped
<1>3. AsksCurrent'
  BY DEF DialogInv, AsksCurrent
<1>4. CASE form.open
  <2>1. /\ FormIs(form') /\ form'.f = form.f /\ (form'.foreign <=> form.foreign) /\ form'.open
        /\ form'.mode = form.mode /\ form'.client = client /\ form'.overlapped = form.overlapped
    BY <1>1, <1>4, StaysOpened
  <2>2. ~(form.mode = "edit" /\ ~form.overlapped)
    BY <1>4 DEF DialogInv, FormInv
  <2>3. FormTyped' /\ FormInv' /\ AttachInv'
    BY <1>2, <1>4, <2>1, <2>2 DEF DialogInv, FormTyped, FormIs, FormInv, AttachInv, OwnForm
  <2> QED BY <1>2, <1>3, <2>3 DEF DialogInv
<1>5. CASE ~form.open
  <2>1. /\ FormIs(form') /\ IsRecord(form'.f, RecordFields)
        /\ form'.open /\ (form'.foreign <=> (behind \/ save # NoSave)) /\ form'.added = {}
        /\ form'.mode = form.mode /\ form'.client = client /\ form'.ids = ids /\ form'.overlapped = form.overlapped
        /\ form.mode = "edit" => form'.f.secret = client.secret
    <3>1. IsRecord(fresh, RecordFields) /\ IsRecord(fm.client, RecordFields)
      BY <1>1, NewFormsAreRecords
    <3> QED BY <1>1, <1>5, <3>1, OpenedIs
  <2>2. FormTyped'
    BY <2>1 DEF FormTyped, FormIs
  <2>3. FormInv'
    <3>1. (form.mode = "edit" /\ ~form.overlapped) => asks' = {}
      BY DEF DialogInv, FormInv
    <3> QED BY <1>2, <2>1, <3>1 DEF FormInv
  <2>4. AttachInv'
    <3>1. OwnForm' => save = NoSave /\ HasAttached(db, client.email, ids)
      BY <2>1 DEF OwnForm
    <3> QED BY <2>1, <3>1 DEF AttachInv, HasAttached, Named
  <2> QED BY <1>2, <1>3, <2>2, <2>3, <2>4 DEF DialogInv
<1> QED BY <1>4, <1>5
(* The form is opened on a client and its attachments. *)
Hydrated(client, ids, fresh, behind) ==
  /\ IsRecord(client, RecordFields)
  /\ behind \/ client.secret = None \/ HasAttached(db, client.email, ids)
  /\ form' = Opened([form EXCEPT !.client = client, !.ids = ids], fresh, behind)
LEMMA ReadKeepsDialog ==
  ASSUME DialogInv, NEW a \in asks, HydrateRead(a)
  PROVE  DialogInv'
<1>1. PICK c \in Named(db, a.row.email) : asks' = (asks \ {a}) \cup {[a EXCEPT !.read = TRUE, !.client = db[c]]}
  BY DEF HydrateRead
<1>2. PICK g : g = [a EXCEPT !.read = TRUE, !.client = db[c]]
  OBVIOUS
<1>3. UNCHANGED <<db, form, save>>
  BY DEF HydrateRead
<1>4. AskCurrent(g, db)
  <2>1. IsRecord(a, {"row", "read", "client", "behind"})
    BY DEF DialogInv, AsksCurrent, AskCurrent
  <2>2. IsRecord(g, {"row", "read", "client", "behind"}) /\ g.client = db[c]
    BY <1>2, <2>1 DEF IsRecord
  <2>3. IsRecord(db[c], RecordFields) /\ c \in Named(db, db[c].email)
    BY DEF DialogInv, RecordsTyped, Named
  <2>4. HasAttached(db, db[c].email, db[c].inbounds)
    BY <2>3 DEF HasAttached
  <2> QED BY <2>2, <2>3, <2>4 DEF AskCurrent
<1>5. AsksCurrent' /\ Fewer
  <2>1. asks' = (asks \ {a}) \cup {g}
    BY <1>1, <1>2
  <2>2. AsksCurrent'
    BY <1>3, <1>4, <2>1 DEF DialogInv, AsksCurrent
  <2>3. \A x : asks \subseteq {x} => asks' \subseteq {g}
    BY <2>1
  <2> QED BY <2>2, <2>3 DEF Fewer
<1>6. FormInv'
  BY <1>3, <1>5, FewerKeeps DEF DialogInv
<1>7. AttachInv'
  BY <1>3 DEF DialogInv, AttachInv, OwnForm, OwnSave, HasAttached, StillNamed, Named
<1> QED BY <1>3, <1>5, <1>6, <1>7 DEF DialogInv, RecordsTyped, FormTyped, SaveTyped
LEMMA AnswerKeepsDialog ==
  ASSUME DialogInv, NEW a \in asks, HydrateAnswered(a) \/ HydrateFailed(a)
  PROVE  DialogInv'
<1>1. PICK client, ids, fresh, behind : fresh \in NewForms /\ Hydrated(client, ids, fresh, behind)
  <2>1. CASE HydrateAnswered(a)
    <3>1. PICK fresh \in NewForms :
            form' = Opened([form EXCEPT !.client = a.client, !.ids = a.client.inbounds], fresh, a.behind)
      BY <2>1 DEF HydrateAnswered
    <3>2. IsRecord(a.client, RecordFields) /\ (a.behind \/ HasAttached(db, a.client.email, a.client.inbounds))
      BY <2>1 DEF DialogInv, AsksCurrent, AskCurrent, HydrateAnswered
    <3>3. Hydrated(a.client, a.client.inbounds, fresh, a.behind)
      BY <3>1, <3>2, Zenon DEF Hydrated
    <3> QED BY <3>3
  <2>2. CASE HydrateFailed(a)
    <3> DEFINE client == Record(a.row.email, None, FALSE, FALSE, a.row.enable, a.row.inbounds)
    <3>1. PICK fresh \in NewForms :
            form' = Opened([form EXCEPT !.client = client, !.ids = a.row.inbounds], fresh, a.behind)
      BY <2>2 DEF HydrateFailed
    <3>2. IsRecord(client, RecordFields)
      BY RecordIs
    <3>3. client.secret = None
      BY DEF Record
    <3> HIDE DEF client
    <3>4. Hydrated(client, a.row.inbounds, fresh, a.behind)
      BY <3>1, <3>2, <3>3, Zenon DEF Hydrated
    <3> QED BY <3>4
  <2> QED BY <2>1, <2>2
<1>2. PICK fm : FormIs(fm) /\ SameBut(fm, client, ids) /\ form' = Opened(fm, fresh, behind)
  <2>1. PICK fm : fm = [form EXCEPT !.client = client, !.ids = ids]
    OBVIOUS
  <2>2. FormIs(fm) /\ SameBut(fm, client, ids)
    BY <2>1, HydratedIs
  <2>3. form' = Opened(fm, fresh, behind)
    BY <1>1, <2>1, Zenon DEF Hydrated
  <2> QED BY <2>2, <2>3
<1>3. asks' = asks \ {a} /\ UNCHANGED <<db, save>>
  BY DEF HydrateAnswered, HydrateFailed
<1>4. IsRecord(client, RecordFields) /\ (behind \/ client.secret = None \/ HasAttached(db, client.email, ids))
  BY <1>1 DEF Hydrated
<1> QED BY <1>1, <1>2, <1>3, <1>4, HydrateKeepsDialog
LEMMA AddKeepsDialog ==
  ASSUME DialogInv, onAdd
  PROVE  DialogInv'
<1> DEFINE New(fm) == FormIs(fm) /\ fm.mode = "add" /\ fm.client = NoClient
<1>1. PICK fm, fresh : fresh \in FreshForms /\ New(fm) /\ form' = Opened(fm, fresh, FALSE)
  <2>1. PICK fresh \in FreshForms : form' = Opened([form EXCEPT !.mode = "add", !.client = NoClient, !.ids = {}], fresh, FALSE)
    BY DEF onAdd
  <2>2. PICK fm : fm = [form EXCEPT !.mode = "add", !.client = NoClient, !.ids = {}]
    OBVIOUS
  <2>3. New(fm)
    BY <2>2 DEF DialogInv, FormTyped, FormIs, IsRecord
  <2>4. form' = Opened(fm, fresh, FALSE)
    BY <2>1, <2>2, Zenon
  <2> HIDE DEF New
  <2> QED BY <2>3, <2>4
<1>2. ~form.open /\ UNCHANGED <<db, asks, save>>
  BY DEF onAdd, Uncovered, listVars
<1>3. IsRecord(fresh, RecordFields) /\ fm.mode # "edit"
  BY <1>1, NewFormsAreRecords
<1>4. /\ FormIs(form') /\ IsRecord(form'.f, RecordFields)
      /\ form'.mode = "add" /\ form'.client = NoClient
  <2>1. FormIs(form') /\ IsRecord(form'.f, RecordFields)
    BY <1>1, <1>2, <1>3, OpenedIs
  <2>2. PICK behind : behind = FALSE
    OBVIOUS
  <2>3. form' = Opened(fm, fresh, behind)
    BY <1>1, <2>2, Zenon
  <2>4. /\ FormIs(form') /\ form'.open /\ form'.added = {}
        /\ form'.mode = fm.mode /\ form'.client = fm.client /\ form'.ids = fm.ids
    <3>1. FormIs(fm) /\ ~form.open /\ (fm.mode = "edit" => IsRecord(fm.client, RecordFields))
      BY <1>1, <1>2, <1>3
    <3> QED BY <1>3, <2>3, <3>1, OpenedIs
  <2> QED BY <1>1, <2>1, <2>4
<1>7. form'.foreign <=> save # NoSave
  BY <1>1, <1>2, <1>3, OpenedIs
<1>5. RecordsTyped' /\ SaveTyped' /\ FormTyped' /\ AsksCurrent'
  BY <1>2, <1>4 DEF DialogInv, RecordsTyped, SaveTyped, FormTyped, FormIs, AsksCurrent
<1>6. FormInv' /\ AttachInv'
  BY <1>2, <1>4, <1>7 DEF FormInv, AttachInv, OwnForm
<1> QED BY <1>5, <1>6 DEF DialogInv
LEMMA EditKeepsDialog ==
  ASSUME DialogInv, NEW i \in DOMAIN Rows, onEdit(i)
  PROVE  DialogInv'
<1> DEFINE ask == [row |-> Rows[i], read |-> FALSE, client |-> NoClient, behind |-> FALSE]
<1>1. /\ ~form.open /\ UNCHANGED <<db, save>> /\ asks' = asks \cup {ask}
      /\ form' = [form EXCEPT !.mode = "edit", !.overlapped = asks # {}]
  BY DEF onEdit, Uncovered
<1>5. AskCurrent(ask, db)
  BY DEF AskCurrent, IsRecord
<1> HIDE DEF ask
<1>2. FormIs(form') /\ form'.f = form.f /\ form'.client = form.client /\ ~form'.open /\ (form'.overlapped <=> asks # {})
  <2>1. CASE asks = {}
    <3>1. form' = [form EXCEPT !.mode = "edit", !.overlapped = FALSE]
      BY <1>1, <2>1, Zenon
    <3> QED BY <1>1, <2>1, <3>1 DEF DialogInv, FormTyped, FormIs, IsRecord
  <2>2. CASE asks # {}
    <3>1. form' = [form EXCEPT !.mode = "edit", !.overlapped = TRUE]
      BY <1>1, <2>2, Zenon
    <3> QED BY <1>1, <2>2, <3>1 DEF DialogInv, FormTyped, FormIs, IsRecord
  <2> QED BY <2>1, <2>2
<1>3. RecordsTyped' /\ SaveTyped' /\ FormTyped' /\ AsksCurrent'
  BY <1>1, <1>2, <1>5 DEF DialogInv, RecordsTyped, SaveTyped, FormTyped, FormIs, AsksCurrent
<1>4. FormInv' /\ AttachInv'
  BY <1>1, <1>2 DEF FormInv, AttachInv, OwnForm
<1> QED BY <1>3, <1>4 DEF DialogInv
LEMMA CloseKeepsDialog ==
  ASSUME DialogInv, Close
  PROVE  DialogInv'
<1>1. UNCHANGED <<db, asks, save>> /\ form' = [form EXCEPT !.open = FALSE]
  BY DEF Close
<1>2. FormIs(form') /\ form'.f = form.f /\ form'.client = form.client /\ ~form'.open
      /\ form'.mode = form.mode /\ form'.overlapped = form.overlapped
  BY <1>1 DEF DialogInv, FormTyped, FormIs, IsRecord
<1>3. RecordsTyped' /\ SaveTyped' /\ FormTyped' /\ AsksCurrent'
  BY <1>1, <1>2 DEF DialogInv, RecordsTyped, SaveTyped, FormTyped, FormIs, AsksCurrent
<1>4. FormInv' /\ AttachInv'
  BY <1>1, <1>2 DEF DialogInv, FormInv, AttachInv, OwnForm
<1> QED BY <1>3, <1>4 DEF DialogInv
LEMMA UpdateKeepsDialog ==
  ASSUME DialogInv, EditForm
  PROVE  DialogInv'
<1>1. PICK f : IsRecord(f, RecordFields) /\ f.secret = form.f.secret /\ update(f)
  <2>1. IsRecord(form.f, RecordFields)
    BY DEF DialogInv, FormTyped
  <2>2. CASE \E e \in Emails : update([form.f EXCEPT !.email = e])
    BY <2>1, <2>2 DEF IsRecord, RecordFields
  <2>3. CASE \E g \in BOOLEAN : update([form.f EXCEPT !.group = g])
    BY <2>1, <2>3 DEF IsRecord, RecordFields
  <2>4. CASE update([form.f EXCEPT !.flow = ~@])
    BY <2>1, <2>4 DEF IsRecord, RecordFields
  <2>5. CASE update([form.f EXCEPT !.enable = ~@])
    BY <2>1, <2>5 DEF IsRecord, RecordFields
  <2>6. CASE \E ibs \in SUBSET Inbounds : update([form.f EXCEPT !.inbounds = ibs])
    BY <2>1, <2>6 DEF IsRecord, RecordFields
  <2> QED BY <2>2, <2>3, <2>4, <2>5, <2>6 DEF EditForm
<1>2. UNCHANGED <<db, asks, save>> /\ form' = [form EXCEPT !.f = Cleared(f)]
  BY <1>1 DEF update
<1>3. IsRecord(Cleared(f), RecordFields) /\ Cleared(f).secret = form.f.secret
  BY <1>1, ClearedIs
<1>4. /\ FormIs(form') /\ form'.f = Cleared(f) /\ form'.client = form.client /\ (form'.open <=> form.open)
      /\ form'.mode = form.mode /\ form'.overlapped = form.overlapped /\ (form'.foreign <=> form.foreign)
      /\ form'.ids = form.ids /\ form'.added = form.added
  BY <1>2 DEF DialogInv, FormTyped, FormIs, IsRecord
<1>5. RecordsTyped' /\ SaveTyped' /\ FormTyped' /\ AsksCurrent'
  BY <1>2, <1>3, <1>4 DEF DialogInv, RecordsTyped, SaveTyped, FormTyped, FormIs, AsksCurrent
<1>6. FormInv'
  BY <1>2, <1>3, <1>4 DEF DialogInv, FormInv
<1>7. AttachInv'
  BY <1>2, <1>4 DEF DialogInv, AttachInv, OwnForm, OwnSave, HasAttached, StillNamed, Named
<1> QED BY <1>5, <1>6, <1>7 DEF DialogInv

---------------------------------------------------------------------------
(* The requests of a save.  An update renames and moves no attachment; the   *)
(* two others move those they are asked to.                                 *)
LEMMA UpdateKeepsAttached ==
  ASSUME RecordsTyped, NEW e, NEW S, HasAttached(db, e, S), NEW p, NEW d, d = Update(db, e, p)
  PROVE  /\ HasAttached(d, e, S)
         /\ Named(d, e) = {} \/ p.email = e
         /\ Named(db, e) # {} => \E c \in Clients : d[c].email = p.email /\ d[c].inbounds = S
<1>1. \A c \in Clients : d[c] = IF c \in Named(db, e) THEN Updated(db[c], p) ELSE db[c]
  BY DEF Update
<1>2. \A c \in Clients : Updated(db[c], p).email = p.email /\ Updated(db[c], p).inbounds = db[c].inbounds
  BY UpdatedIs DEF RecordsTyped
<1>3. \A c \in Named(db, e) : c \in Clients /\ d[c].email = p.email /\ d[c].inbounds = db[c].inbounds
  BY <1>1, <1>2 DEF Named
<1>4. \A c \in Clients \ Named(db, e) : d[c] = db[c] /\ (d[c].email # e \/ e = None)
  BY <1>1 DEF Named
<1>5. Named(d, e) = {} \/ p.email = e
  BY <1>3, <1>4 DEF Named
<1>6. CASE Named(db, e) = {}
  <2>1. Named(d, e) = {}
    BY <1>4, <1>6 DEF Named
  <2> QED BY <1>5, <1>6, <2>1 DEF HasAttached
<1>7. CASE Named(db, e) # {}
  <2>1. PICK c \in Named(db, e) : db[c].inbounds = S
    BY <1>7 DEF HasAttached
  <2>2. c \in Clients /\ d[c].email = p.email /\ d[c].inbounds = S
    BY <1>3, <2>1
  <2>3. p.email = e => c \in Named(d, e)
    BY <2>1, <2>2 DEF Named
  <2> QED BY <1>5, <2>2, <2>3 DEF HasAttached
<1> QED BY <1>6, <1>7
LEMMA MoveMovesAttached ==
  ASSUME RecordsTyped, NEW e, NEW S, HasAttached(db, e, S), save.email = e, save.step \in {"attach", "detach"},
         NEW d, d = SaveEffect(db).db,
         NEW T, T = IF save.step = "attach" THEN S \cup save.attach ELSE S \ save.detach
  PROVE  HasAttached(d, e, T) /\ Named(d, e) = Named(db, e)
<1>1. d = [c \in Clients |-> IF c \notin Named(db, e) THEN db[c]
             ELSE [db[c] EXCEPT !.inbounds = IF save.step = "attach" THEN @ \cup save.attach ELSE @ \ save.detach]]
  BY DEF SaveEffect
<1>2. ASSUME NEW c \in Named(db, e)
      PROVE  /\ c \in Clients /\ d[c].email = db[c].email
             /\ d[c].inbounds = IF save.step = "attach" THEN db[c].inbounds \cup save.attach
                                ELSE db[c].inbounds \ save.detach
  <2>1. c \in Clients /\ IsRecord(db[c], RecordFields)
    BY DEF Named, RecordsTyped
  <2>2. d[c] = [db[c] EXCEPT !.inbounds = IF save.step = "attach" THEN @ \cup save.attach ELSE @ \ save.detach]
    BY <1>1, <2>1
  <2> QED BY <2>1, <2>2 DEF IsRecord, RecordFields
<1>3. \A c \in Clients \ Named(db, e) : d[c] = db[c]
  BY <1>1
<1>4. Named(d, e) = Named(db, e)
  BY <1>2, <1>3 DEF Named
<1> QED BY <1>2, <1>4 DEF HasAttached
LEMMA SubmitKeepsDialog ==
  ASSUME DialogInv, onSubmit
  PROVE  DialogInv'
<1> DEFINE edit == [step |-> "update", isEdit |-> TRUE, email |-> form.client.email,
                    attach |-> form.f.inbounds \ form.ids, detach |-> form.ids \ form.f.inbounds,
                    payload |-> Payload(form.f)]
           create == [NoSave EXCEPT !.step = "create", !.payload = Payload(form.f)]
<1>1. /\ UNCHANGED <<db, form, asks>> /\ save = NoSave
      /\ save' = IF form.mode = "edit" /\ form.client # NoClient THEN edit ELSE create
  BY DEF onSubmit
<1>2. IsRecord(Payload(form.f), RecordFields) /\ Payload(form.f).inbounds = form.f.inbounds
  BY PayloadIs DEF DialogInv, FormTyped
<1>3. /\ IsRecord(edit, {"step", "isEdit", "email", "attach", "detach", "payload"})
      /\ edit.step = "update" /\ edit.isEdit /\ edit.email = form.client.email /\ edit.payload = Payload(form.f)
      /\ edit.attach = form.f.inbounds \ form.ids /\ edit.detach = form.ids \ form.f.inbounds
  BY DEF IsRecord
<1>4. /\ IsRecord(create, {"step", "isEdit", "email", "attach", "detach", "payload"})
      /\ create.step = "create" /\ ~create.isEdit /\ create.payload = Payload(form.f)
  BY DEF IsRecord, NoSave
<1> HIDE DEF edit, create
<1>5. RecordsTyped' /\ FormTyped' /\ FormInv' /\ AsksCurrent'
  BY <1>1 DEF DialogInv, RecordsTyped, FormTyped, FormInv, AsksCurrent
<1>6. SaveTyped' /\ save' # NoSave
  BY <1>1, <1>2, <1>3, <1>4 DEF SaveTyped, NoSave
<1>7. AttachInv'
  <2>1. CASE form.mode = "edit" /\ form.client # NoClient
    <3>1. save' = edit
      BY <1>1, <2>1
    <3>2. OwnForm => OwnSave' /\ form.added \cap form.ids = {}
      BY <1>1, <1>2, <1>3, <3>1 DEF DialogInv, AttachInv, OwnSave, HasAttached, Named
    <3> QED BY <1>1, <1>6, <2>1, <3>2 DEF AttachInv, OwnForm
  <2>2. CASE ~(form.mode = "edit" /\ form.client # NoClient)
    BY <1>1, <1>4, <2>2 DEF AttachInv, OwnForm
  <2> QED BY <2>1, <2>2
<1> QED BY <1>5, <1>6, <1>7 DEF DialogInv
LEMMA NoSaveIs ==
  IsRecord(NoSave, {"step", "isEdit", "email", "attach", "detach", "payload"}) /\ IsRecord(NoSave.payload, RecordFields)
<1>1. IsRecord(Free, RecordFields)
  BY RecordIs DEF Free
<1>2. NoSave.payload = Free
  BY DEF NoSave
<1> QED BY <1>1, <1>2 DEF NoSave, IsRecord
LEMMA RefusalKeepsDialog ==
  ASSUME DialogInv, SaveRefused
  PROVE  DialogInv'
<1>1. UNCHANGED <<db, form, asks>> /\ save' = NoSave /\ save # NoSave /\ ~SaveEffect(db).ok
  BY DEF SaveRefused
<1>2. RecordsTyped' /\ FormTyped' /\ FormInv' /\ AsksCurrent'
  BY <1>1 DEF DialogInv, RecordsTyped, FormTyped, FormInv, AsksCurrent
<1>3. SaveTyped'
  BY <1>1, NoSaveIs DEF SaveTyped
<1>4. OwnForm => HasAttached(db, form.client.email, form.ids \cup form.added)
  <2> SUFFICES ASSUME OwnForm PROVE HasAttached(db, form.client.email, form.ids \cup form.added)
    OBVIOUS
  <2>1. OwnSave
    BY <1>1 DEF DialogInv, AttachInv
  <2>2. CASE save.step = "detach"
    <3>1. SaveEffect(db).ok <=> Named(db, save.email) # {}
      BY <2>2 DEF SaveEffect
    <3> QED BY <1>1, <2>1, <3>1 DEF OwnSave, HasAttached
  <2> QED BY <2>1, <2>2 DEF OwnSave
<1>5. AttachInv'
  BY <1>1, <1>4 DEF DialogInv, AttachInv, OwnForm, HasAttached, Named
<1> QED BY <1>2, <1>3, <1>5 DEF DialogInv
LEMMA FailureKeepsDialog ==
  ASSUME DialogInv, SaveFailed
  PROVE  DialogInv'
<1>1. /\ AsksBehind /\ save' = NoSave /\ save # NoSave
      /\ db' = db \/ db' = SaveEffect(db).db
      /\ form' = [form EXCEPT !.foreign = form.foreign \/ db' # db,
                              !.added = IF save.step = "detach" THEN form.added \cup save.attach ELSE form.added]
  BY DEF SaveFailed
<1>2. PICK b \in BOOLEAN : b = IF form.foreign \/ db' # db THEN TRUE ELSE FALSE
  OBVIOUS
<1>3. PICK added : added = IF save.step = "detach" THEN form.added \cup save.attach ELSE form.added
  OBVIOUS
<1>4. form' = [form EXCEPT !.foreign = b, !.added = added]
  <2>1. CASE form.foreign \/ db' # db
    BY <1>1, <1>2, <1>3, <2>1, Zenon
  <2>2. CASE ~(form.foreign \/ db' # db)
    BY <1>1, <1>2, <1>3, <2>2, Zenon
  <2> QED BY <2>1, <2>2
<1>5. /\ FormIs(form') /\ form'.foreign = b /\ form'.added = added /\ form'.open = form.open /\ form'.mode = form.mode
      /\ form'.client = form.client /\ form'.ids = form.ids /\ form'.f = form.f /\ form'.overlapped = form.overlapped
  BY <1>4 DEF DialogInv, FormTyped, FormIs, IsRecord
<1>6. RecordsTyped'
  <2>1. save.step \in {"create", "update", "attach", "detach"}
    BY <1>1 DEF DialogInv, SaveTyped
  <2> QED BY <1>1, <2>1, SaveTypesRecords DEF DialogInv, RecordsTyped
<1>7. SaveTyped'
  BY <1>1, NoSaveIs DEF SaveTyped
<1>8. FormTyped' /\ FormInv' /\ AsksCurrent'
  BY <1>1, <1>5, BehindAreCurrent, FewerKeeps DEF DialogInv, FormTyped, FormIs
<1>9. AttachInv'
  <2>1. CASE b
    BY <1>1, <1>5, <2>1 DEF AttachInv, OwnForm
  <2>2. CASE ~b
    <3>1. db' = db /\ ~form.foreign
      BY <1>2, <2>2
    <3>2. OwnForm => OwnSave /\ form.added \cap form.ids = {}
      BY <1>1 DEF DialogInv, AttachInv
    <3>3. OwnForm => HasAttached(db, form.client.email, form.ids \cup added) /\ added \cap form.ids = {}
      <4> SUFFICES ASSUME OwnForm
                   PROVE  HasAttached(db, form.client.email, form.ids \cup added) /\ added \cap form.ids = {}
        OBVIOUS
      <4>1. CASE save.step = "detach"
        <5>1. added = form.added \cup save.attach /\ form.ids \cup added = form.ids \cup form.added \cup save.attach
          BY <1>3, <4>1
        <5>2. HasAttached(db, form.client.email, form.ids \cup form.added \cup save.attach)
          BY <3>2, <4>1 DEF OwnSave
        <5>3. save.attach \cap form.ids = {}
          BY <3>2 DEF OwnSave
        <5> QED BY <3>2, <5>1, <5>2, <5>3
      <4>2. CASE save.step # "detach"
        BY <1>3, <3>2, <4>2 DEF OwnSave
      <4> QED BY <4>1, <4>2
    <3>4. OwnForm' => OwnForm
      BY <1>5, <3>1 DEF OwnForm
    <3> QED BY <1>1, <1>5, <3>1, <3>3, <3>4 DEF AttachInv, HasAttached, Named
  <2> QED BY <2>1, <2>2
<1> QED BY <1>6, <1>7, <1>8, <1>9 DEF DialogInv
(* A request that is answered: what it leaves for the next one, or behind. *)
LEMMA OwnRequestServed ==
  ASSUME DialogInv, OwnForm, save # NoSave, SaveEffect(db).ok, NEW d, d = SaveEffect(db).db
  PROVE  LET e == form.client.email
         IN  /\ Following(save) = "attach" =>
                  /\ HasAttached(d, e, form.ids \cup form.added)
                  /\ Named(d, e) = {} \/ save.payload.email = e
             /\ Following(save) = "detach" =>
                  /\ HasAttached(d, e, form.ids \cup form.added \cup save.attach)
                  /\ Named(d, e) = {} \/ save.payload.email = e
             /\ Following(save) = "none" =>
                  \E c \in Clients : /\ d[c].email = save.payload.email
                                     /\ d[c].inbounds = save.payload.inbounds \cup form.added
<1> DEFINE e == form.client.email
           S == form.ids \cup form.added
           X == S \cup save.attach
           P == save.payload.inbounds \cup form.added
<1>1. /\ OwnSave /\ save.email = e /\ form.added \cap form.ids = {} /\ RecordsTyped
      /\ save.attach = save.payload.inbounds \ form.ids /\ save.detach = form.ids \ save.payload.inbounds
  BY DEF DialogInv, AttachInv, OwnSave
<1>2. save.attach = {} => X = S
  OBVIOUS
<1>3. save.detach = {} => X = P
  BY <1>1
<1>4. X \ save.detach = P
  BY <1>1
<1> HIDE DEF e, S, X, P
<1>5. CASE save.step = "update"
  <2>1. HasAttached(db, e, S)
    BY <1>1, <1>5 DEF OwnSave, e, S
  <2>2. d = Update(db, e, save.payload) /\ Named(db, e) # {}
    BY <1>1, <1>5 DEF SaveEffect
  <2>3. /\ HasAttached(d, e, S) /\ (Named(d, e) = {} \/ save.payload.email = e)
        /\ \E c \in Clients : d[c].email = save.payload.email /\ d[c].inbounds = S
    BY <1>1, <2>1, <2>2, UpdateKeepsAttached
  <2>4. /\ Following(save) = "detach" => save.attach = {}
        /\ Following(save) = "none" => save.attach = {} /\ save.detach = {}
    BY <1>5 DEF Following
  <2>5. Following(save) = "attach" => HasAttached(d, e, S) /\ (Named(d, e) = {} \/ save.payload.email = e)
    BY <2>3
  <2>6. Following(save) = "detach" => HasAttached(d, e, X) /\ (Named(d, e) = {} \/ save.payload.email = e)
    BY <1>2, <2>3, <2>4
  <2>7. Following(save) = "none" => \E c \in Clients : d[c].email = save.payload.email /\ d[c].inbounds = P
    BY <1>2, <1>3, <2>3, <2>4
  <2> QED BY <2>5, <2>6, <2>7 DEF e, S, X, P
<1>6. CASE save.step = "attach"
  <2>1. HasAttached(db, e, S) /\ (Named(db, e) = {} \/ save.payload.email = e)
    BY <1>1, <1>6 DEF OwnSave, StillNamed, e, S
  <2>2. Named(db, e) # {}
    BY <1>1, <1>6 DEF SaveEffect
  <2>3. HasAttached(d, e, X) /\ Named(d, e) = Named(db, e)
    BY <1>1, <1>6, <2>1, MoveMovesAttached DEF X
  <2>4. Following(save) \in {"detach", "none"} /\ (Following(save) = "none" => save.detach = {})
    BY <1>6 DEF Following
  <2> QED BY <1>3, <2>1, <2>2, <2>3, <2>4 DEF e, S, X, P, HasAttached, Named
<1>7. CASE save.step = "detach"
  <2>1. HasAttached(db, e, X) /\ (Named(db, e) = {} \/ save.payload.email = e)
    BY <1>1, <1>7 DEF OwnSave, StillNamed, e, S, X
  <2>2. Named(db, e) # {}
    BY <1>1, <1>7 DEF SaveEffect
  <2>3. HasAttached(d, e, P) /\ Named(d, e) = Named(db, e)
    BY <1>1, <1>4, <1>7, <2>1, MoveMovesAttached
  <2>4. Following(save) = "none"
    BY <1>7 DEF Following
  <2> QED BY <2>1, <2>2, <2>3, <2>4 DEF e, P, HasAttached, Named
<1> QED BY <1>1, <1>5, <1>6, <1>7 DEF OwnSave
LEMMA ServedKeepsDialog ==
  ASSUME DialogInv, SaveServed
  PROVE  DialogInv'
<1>1. AsksBehind /\ save # NoSave /\ SaveEffect(db).ok /\ db' = SaveEffect(db).db /\ Continues
  BY DEF SaveServed
<1>0. AsksCurrent' /\ Fewer
  BY <1>1, BehindAreCurrent
<1>2. RecordsTyped'
  <2>1. save.step \in {"create", "update", "attach", "detach"}
    BY <1>1 DEF DialogInv, SaveTyped
  <2> QED BY <1>1, <2>1, SaveTypesRecords DEF DialogInv, RecordsTyped
<1>3. CASE Following(save) = "none"
  <2>1. save' = NoSave /\ form' = [form EXCEPT !.open = FALSE]
    BY <1>1, <1>3 DEF Continues
  <2>2. FormIs(form') /\ form'.f = form.f /\ form'.client = form.client /\ ~form'.open
        /\ form'.mode = form.mode /\ form'.overlapped = form.overlapped
    BY <2>1 DEF DialogInv, FormTyped, FormIs, IsRecord
  <2>3. SaveTyped'
    BY <2>1, NoSaveIs DEF SaveTyped
  <2>4. FormTyped' /\ FormInv' /\ AttachInv'
    BY <1>0, <1>1, <2>2, FewerKeeps DEF DialogInv, FormTyped, FormIs, AttachInv, OwnForm
  <2> QED BY <1>0, <1>2, <2>3, <2>4 DEF DialogInv
<1>4. CASE Following(save) # "none"
  <2>1. form' = form /\ save' = [save EXCEPT !.step = Following(save)]
    BY <1>1, <1>4 DEF Continues
  <2>2. Following(save) \in {"attach", "detach"}
    BY <1>4 DEF Following
  <2>3. /\ IsRecord(save', {"step", "isEdit", "email", "attach", "detach", "payload"})
        /\ save'.step = Following(save) /\ save'.isEdit = save.isEdit /\ save'.email = save.email
        /\ save'.attach = save.attach /\ save'.detach = save.detach /\ save'.payload = save.payload
    BY <2>1 DEF DialogInv, SaveTyped, IsRecord
  <2>4. SaveTyped' /\ save' # NoSave
    BY <2>2, <2>3 DEF DialogInv, SaveTyped, NoSave
  <2>5. FormTyped' /\ FormInv'
    BY <1>0, <1>1, <2>1, FewerKeeps DEF DialogInv, FormTyped
  <2>6. ASSUME OwnForm PROVE OwnSave'
    <3>1. OwnSave
      BY <1>1, <2>6 DEF DialogInv, AttachInv
    <3>2. /\ Following(save) = "attach" =>
               /\ HasAttached(db', form.client.email, form.ids \cup form.added)
               /\ Named(db', form.client.email) = {} \/ save.payload.email = form.client.email
          /\ Following(save) = "detach" =>
               /\ HasAttached(db', form.client.email, form.ids \cup form.added \cup save.attach)
               /\ Named(db', form.client.email) = {} \/ save.payload.email = form.client.email
      BY <1>1, <2>6, OwnRequestServed
    <3> QED BY <2>1, <2>2, <2>3, <3>1, <3>2 DEF OwnSave, StillNamed
  <2>7. AttachInv'
    BY <1>1, <2>1, <2>3, <2>4, <2>6 DEF DialogInv, AttachInv, OwnForm
  <2> QED BY <1>0, <1>2, <2>4, <2>5, <2>7 DEF DialogInv
<1> QED BY <1>3, <1>4

---------------------------------------------------------------------------
LEMMA NoFormIs ==
  /\ FormIs(NoForm) /\ IsRecord(NoForm.f, RecordFields)
  /\ NoForm.mode = "add" /\ ~NoForm.open /\ NoForm.client = NoClient
<1>1. NoForm.f = Free /\ IsRecord(Free, RecordFields)
  BY RecordIs DEF NoForm, Free
<1> QED BY <1>1 DEF NoForm, FormIs, IsRecord
LEMMA DialogInit ==
  ASSUME Init
  PROVE  DialogInv
<1>1. db = InitialRecords /\ form = NoForm /\ save = NoSave /\ asks = {}
  BY DEF Init
<1>2. RecordsTyped
  <2>1. PICK r : db = [c \in Clients |-> r[c]] /\ \A c \in Clients : IsRecord(r[c], RecordFields)
    <3>1. \A e, c, g, flow, on, ibs : IsRecord(Record(e, c, g, flow, on, ibs), RecordFields)
      BY RecordIs
    <3>2. \A c \in Clients : IsRecord(db[c], RecordFields)
      BY <1>1, <3>1 DEF InitialRecords, Free
    <3>3. db = [c \in Clients |-> db[c]]
      BY <1>1 DEF InitialRecords
    <3> QED BY <3>2, <3>3
  <2> QED BY <2>1 DEF RecordsTyped
<1>3. FormTyped /\ SaveTyped /\ FormInv /\ AttachInv /\ AsksCurrent
  BY <1>1, NoFormIs, NoSaveIs DEF FormTyped, FormIs, SaveTyped, FormInv, AttachInv, OwnForm, AsksCurrent
<1> QED BY <1>2, <1>3 DEF DialogInv
LEMMA ReloadKeepsDialog ==
  ASSUME DialogInv, Reload
  PROVE  DialogInv'
<1>1. db' = db /\ form' = NoForm /\ save' = NoSave /\ asks' = {}
  BY DEF Reload
<1>2. RecordsTyped' /\ FormTyped' /\ SaveTyped' /\ FormInv' /\ AttachInv' /\ AsksCurrent'
  BY <1>1, NoFormIs, NoSaveIs DEF DialogInv, RecordsTyped, FormTyped, FormIs, SaveTyped, FormInv, AttachInv, OwnForm,
                                  AsksCurrent
<1> QED BY <1>2 DEF DialogInv
LEMMA DialogNext ==
  ASSUME DialogInv, [Next]_vars
  PROVE  DialogInv'
<1>1. CASE UNCHANGED <<db, form, asks, save>>
  BY <1>1, DialogRests
<1>2. CASE ListStep
  <2>1. UNCHANGED <<db, form, asks, save>>
    BY <1>2 DEF ListStep, ServerReads, ListAnswered, ListFailed, InvalidateArrives, applyClientStatsEvent, OptionsAnswered,
                Debounce, TypeSearch, SetFilters, SetSort, onTableChange, TurnTo
  <2> QED BY <1>1, <2>1
<1>3. CASE RowStep
  <2>1. CASE \E i \in DOMAIN Rows : onEdit(i)
    BY <2>1, EditKeepsDialog
  <2>2. CASE \E o \in ops : OpDone(o) \/ OpFailed(o)
    BY <2>2, OpKeepsDialog
  <2>3. CASE ~(\E i \in DOMAIN Rows : onEdit(i)) /\ ~(\E o \in ops : OpDone(o) \/ OpFailed(o))
    <3>1. UNCHANGED <<db, form, asks, save>>
      BY <1>3, <2>3 DEF RowStep, SelectRow, toggleSelect, selectAll, Select, onToggleEnable, Ask, Confirmed, Cancelled
    <3> QED BY <1>1, <3>1
  <2> QED BY <2>1, <2>2, <2>3
<1>4. CASE FormStep
  BY <1>4, AddKeepsDialog, UpdateKeepsDialog, CloseKeepsDialog, SubmitKeepsDialog, ReadKeepsDialog, AnswerKeepsDialog, ServedKeepsDialog,
     RefusalKeepsDialog, FailureKeepsDialog DEF FormStep
<1>5. CASE BulkAdded \/ OthersChange
  BY <1>5, OthersKeepDialog
<1>6. CASE Reload
  BY <1>6, ReloadKeepsDialog
<1>7. CASE UNCHANGED vars
  BY <1>1, <1>7 DEF vars
<1> QED BY <1>2, <1>3, <1>4, <1>5, <1>6, <1>7 DEF Next

(* The form of an edit shows the client its requests go to, for any clients,  *)
(* requests and orders of their answers, unless a second Edit was pressed     *)
(* while the record of the first was on its way.                            *)
THEOREM FormsAreOfTheirClients == Spec => []FormIsOfItsClient
<1>1. DialogInv => FormIsOfItsClient
  BY DEF DialogInv, FormInv, FormIsOfItsClient
<1> QED BY <1>1, DialogInit, DialogNext, PTL DEF Spec

(* A save that ends well leaves the client with the attachments its form     *)
(* showed and those of a failed attempt, for any clients, inbounds, requests  *)
(* and number of attempts, unless the clients were changed behind the form:  *)
(* since its record was read, which is before it opened.                     *)
THEOREM SavesMakeAttachments == Spec => SavedAttachments
<1> DEFINE Ended == /\ SaveServed /\ save.isEdit /\ save' = NoSave /\ form.open
                    /\ ~form.foreign /\ ~form.overlapped /\ form.client # NoClient /\ form.client.secret # None
                    /\ form.client.email = save.email
           Made == \E c \in Clients : /\ db'[c].email = save.payload.email
                                      /\ db'[c].inbounds = save.payload.inbounds \cup form.added
<1>1. ASSUME DialogInv, Ended PROVE Made
  <2>1. save # NoSave /\ SaveEffect(db).ok /\ db' = SaveEffect(db).db /\ Continues /\ save' = NoSave
    BY <1>1 DEF SaveServed
  <2>2. OwnForm
    BY <1>1, <2>1 DEF DialogInv, AttachInv, OwnForm
  <2>3. Following(save) = "none"
    <3> SUFFICES ASSUME Following(save) # "none" PROVE FALSE
      OBVIOUS
    <3>1. save' = [save EXCEPT !.step = Following(save)]
      BY <2>1 DEF Continues
    <3>2. save'.step = Following(save)
      BY <1>1, <3>1 DEF DialogInv, SaveTyped, IsRecord
    <3> QED BY <2>1, <3>2 DEF NoSave
  <2> QED BY <1>1, <2>1, <2>2, <2>3, OwnRequestServed
<1>2. DialogInv /\ [Next]_vars =>
        [(/\ SaveServed /\ save.isEdit /\ save' = NoSave /\ form.open
          /\ ~form.foreign /\ ~form.overlapped /\ form.client # NoClient /\ form.client.secret # None
          /\ form.client.email = save.email) =>
           \E c \in Clients : db'[c].email = save.payload.email
                              /\ db'[c].inbounds = save.payload.inbounds \cup form.added]_vars
  BY <1>1
<1> HIDE DEF Ended, Made
<1> QED BY <1>2, DialogInit, DialogNext, PTL DEF Spec, SavedAttachments
=============================================================================
