------------------------------ MODULE XrayPage ------------------------------
(* The Xray page (src/frontend/src/pages/xray, hooks/useXraySetting.ts): a   *)
(* text and a template that follow each other, the tabs and dialogs that     *)
(* edit them, the requests to the panel and the refetches that re-seed both, *)
(* and the tests of the outbounds.  Some tables keep the handlers of an      *)
(* older rendering: what a row opens then comes from an older template.      *)
EXTENDS XrayTemplate

CONSTANTS
  Stored,      \* the template the panel has stored
  Workers,     \* outbounds tested at a time, by mode
  MaxActions   \* bound: what the user and the other sessions do

ASSUME StoredAssumption == WellFormed(Stored)
ASSUME WorkersAssumption == Workers \in [{"tcp", "http"} -> Nat \ {0}]
ASSUME MaxActionsAssumption == MaxActions \in Nat

VARIABLES
  srv,          \* the panel: template, test URL, tags of its inbounds, accounts
  query,        \* the config query: its data, and what it is doing
  text,         \* the JSON of the advanced tab
  tpl,          \* the template all other tabs show
  url,          \* the test URL field
  old,          \* the text and URL last seeded, to tell edits
  saveDisabled, \* Save is off and Restart is on
  sent,         \* mutations without their answer
  dlg,          \* the open dialog or confirmation
  tabs,         \* tabs drawn so far, and what their tables remember
  test,         \* states of the outbound tests by row
  nord, warp,   \* the dialogs of the two providers
  left          \* actions left within the bound

editor == <<text, tpl>>
seed == <<url, old, saveDisabled>>
vars == <<srv, query, text, tpl, url, old, saveDisabled, sent, dlg, tabs, test, nord, warp, left>>

Pretty(t) == [json |-> TRUE, tpl |-> t, layout |-> "pretty"]
Broken == [json |-> FALSE, tpl |-> DefaultTemplate, layout |-> "broken"]
NoData == [tpl |-> DefaultTemplate, url |-> "none", tags |-> 0]
Config == [tpl |-> srv.tpl, url |-> srv.url, tags |-> srv.tags]
NoDialog == [kind |-> "none", at |-> 0, value |-> Hole, taken |-> {}]
NoTests == [rows |-> [i \in {} |-> "none"], flight |-> {}, queue |-> {}, all |-> FALSE, todo |-> {}]
NoTabs == [shown |-> {}, outbounds |-> <<>>, rules |-> <<>>, servers |-> <<>>, hosts |-> <<>>]
NoNord == [open |-> FALSE, loading |-> FALSE, account |-> FALSE, country |-> 0, server |-> NoTag, asked |-> {}]
NoWarp == [open |-> FALSE, loading |-> FALSE, account |-> FALSE, config |-> FALSE, staged |-> FALSE, asked |-> {}]

Init ==
  /\ srv = [tpl |-> Stored, url |-> "default", tags |-> 0, nord |-> FALSE, warp |-> FALSE]
  /\ query = [data |-> NoData, state |-> "asked"]
  /\ text = Broken /\ tpl = DefaultTemplate
  /\ url = "default" /\ old = [text |-> Broken, url |-> "default"] /\ saveDisabled = TRUE
  /\ sent = [save |-> Hole, restart |-> "no", reset |-> FALSE]
  /\ dlg = NoDialog /\ tabs = NoTabs /\ test = NoTests /\ nord = NoNord /\ warp = NoWarp
  /\ left = MaxActions

Fetched == query.data # NoData
Drawable == Fetched /\ query.state # "failed" /\ ~Unreadable(tpl)
Idle == dlg = NoDialog /\ ~nord.open /\ ~warp.open
Acts == left > 0 /\ left' = left - 1
dirty == text # old.text \/ url # old.url

---------------------------------------------------------------------------
(* What a rendering with the template t leaves in the tabs.  The columns of  *)
(* the rules and of the outbounds are made anew when the number of rows      *)
(* changes, those of the DNS servers never; the host rows follow the switch. *)
Memoized(kept, rows) == IF Len(kept) # Len(rows) THEN rows ELSE kept
Redrawn(t) ==
  [tabs EXCEPT !.rules = IF "routing" \in tabs.shown THEN Memoized(@, t.rules) ELSE @,
               !.outbounds = IF "outbound" \in tabs.shown THEN Memoized(@, t.outbounds) ELSE @,
               !.hosts = IF "dns" \in tabs.shown /\ t.dns.on # tpl.dns.on THEN HostRows(t.dns) ELSE @]

setTemplateSettingsAlone(t) == tpl' = t /\ tabs' = Redrawn(t) /\ UNCHANGED text
\* setTemplateSettings: the template and its text together.
setTemplateSettings(t) == tpl' = t /\ text' = Pretty(t) /\ tabs' = Redrawn(t)
\* setXraySetting: the text as typed, the template when it parses.
setXraySetting(x) ==
  /\ text' = x
  /\ tpl' = (IF x.json THEN x.tpl ELSE tpl)
  /\ tabs' = (IF x.json THEN Redrawn(x.tpl) ELSE tabs)

\* The answer of the config query seeds the editor, if its data is new.
Seed(d) ==
  /\ setTemplateSettings(d.tpl)
  /\ old' = [text |-> Pretty(d.tpl), url |-> d.url] /\ url' = d.url /\ saveDisabled' = TRUE
FetchAnswered ==
  /\ query.state = "asked"
  /\ query' = [data |-> Config, state |-> "ok"]
  /\ IF Config = query.data THEN UNCHANGED <<editor, seed, tabs>> ELSE Seed(Config)
  /\ UNCHANGED <<srv, sent, dlg, test, nord, warp, left>>
\* An error takes the tabs off the page; their dialogs go with them.
FetchFailed ==
  /\ query.state = "asked" /\ left > 0
  /\ query' = [query EXCEPT !.state = "failed"]
  /\ tabs' = NoTabs /\ dlg' = NoDialog /\ left' = left - 1
  /\ UNCHANGED <<srv, editor, seed, sent, test, nord, warp>>
fetchAll ==
  /\ query.state = "failed" /\ query' = [query EXCEPT !.state = "asked"]
  /\ UNCHANGED <<srv, editor, seed, sent, dlg, tabs, test, nord, warp, left>>
\* A page that cannot draw its lists is reloaded.
Reload ==
  /\ Unreadable(tpl)
  /\ query' = [data |-> NoData, state |-> "asked"]
  /\ text' = Broken /\ tpl' = DefaultTemplate
  /\ url' = "default" /\ old' = [text |-> Broken, url |-> "default"] /\ saveDisabled' = TRUE
  /\ sent' = [save |-> Hole, restart |-> "no", reset |-> FALSE]
  /\ dlg' = NoDialog /\ tabs' = NoTabs /\ test' = NoTests /\ nord' = NoNord /\ warp' = NoWarp
  /\ UNCHANGED <<srv, left>>

\* Another session saves, or adds an inbound (bound: once), which the hub
\* tells the page: it refetches.
Pushed(s) == srv' = s /\ query' = [query EXCEPT !.state = "asked"]
OtherSaves(t) ==
  /\ Acts /\ Fetched /\ srv' = [srv EXCEPT !.tpl = t]
  /\ UNCHANGED <<query, editor, seed, sent, dlg, tabs, test, nord, warp>>
OtherAddsInbound ==
  /\ srv.tags = 0 /\ Fetched /\ Pushed([srv EXCEPT !.tags = 1])
  /\ UNCHANGED <<editor, seed, sent, dlg, tabs, test, nord, warp, left>>
\* The traffic of the outbounds is pushed: their table is made anew.
TrafficPushed ==
  /\ Drawable /\ "outbound" \in tabs.shown
  /\ tabs' = [tabs EXCEPT !.outbounds = tpl.outbounds]
  /\ UNCHANGED <<srv, query, editor, seed, sent, dlg, test, nord, warp, left>>

---------------------------------------------------------------------------
\* The header: Save and Restart, and the poll that tells edits.
PollDirtyOfUrl ==
  /\ saveDisabled' = (url = old.url)
  /\ UNCHANGED <<srv, query, editor, url, old, sent, dlg, tabs, test, nord, warp, left>>
PollDirty ==
  /\ saveDisabled' = ~dirty
  /\ UNCHANGED <<srv, query, editor, url, old, sent, dlg, tabs, test, nord, warp, left>>
SetTestUrl ==
  /\ Drawable /\ Idle /\ Acts /\ url' = (IF url = "default" THEN "other" ELSE "default")
  /\ UNCHANGED <<srv, query, editor, old, saveDisabled, sent, dlg, tabs, test, nord, warp>>
onSaveAll ==
  /\ Drawable /\ Idle /\ ~saveDisabled /\ sent.save = Hole
  /\ IF text.json THEN Acts /\ sent' = [sent EXCEPT !.save = [tpl |-> text.tpl, url |-> url]]
                  ELSE UNCHANGED <<sent, left>>
  /\ UNCHANGED <<srv, query, editor, seed, dlg, tabs, test, nord, warp>>
\* The panel stores what it was sent; an answer that is lost is a failure.
SaveStored ==
  /\ sent.save # Hole
  /\ srv' = [srv EXCEPT !.tpl = sent.save.tpl, !.url = sent.save.url]
  /\ sent' = [sent EXCEPT !.save = Hole]
  /\ query' \in {[query EXCEPT !.state = "asked"], query}
  /\ UNCHANGED <<editor, seed, dlg, tabs, test, nord, warp, left>>
SaveRefused ==
  /\ sent.save # Hole /\ sent' = [sent EXCEPT !.save = Hole]
  /\ UNCHANGED <<srv, query, editor, seed, dlg, tabs, test, nord, warp, left>>
confirmRestart ==
  /\ Drawable /\ Idle /\ Acts /\ saveDisabled /\ sent.restart = "no"
  /\ sent' = [sent EXCEPT !.restart = "asked"]
  /\ UNCHANGED <<srv, query, editor, seed, dlg, tabs, test, nord, warp>>
RestartAnswered ==
  /\ sent.restart # "no"
  /\ \E next \in {"no"} \cup (IF sent.restart = "asked" THEN {"result"} ELSE {}) :
        sent' = [sent EXCEPT !.restart = next]
  /\ UNCHANGED <<srv, query, editor, seed, dlg, tabs, test, nord, warp, left>>
resetToDefault ==
  /\ Drawable /\ Idle /\ Acts /\ ~sent.reset /\ sent' = [sent EXCEPT !.reset = TRUE]
  /\ UNCHANGED <<srv, query, editor, seed, dlg, tabs, test, nord, warp>>
ResetAnswered ==
  /\ sent.reset /\ sent' = [sent EXCEPT !.reset = FALSE]
  /\ setTemplateSettings(DefaultTemplate) \/ UNCHANGED <<editor, tabs>>
  /\ UNCHANGED <<srv, query, seed, dlg, test, nord, warp, left>>

---------------------------------------------------------------------------
\* The tabs edit the template at once or through a dialog.
Edits(t) ==
  /\ setTemplateSettings(t)
  /\ UNCHANGED <<srv, query, seed, sent, test, nord, warp>>
Here(tab) == Drawable /\ Idle /\ Acts /\ (tab \in {"routing", "outbound", "dns"} => tab \in tabs.shown)
ShowTab(tab) ==
  /\ Drawable /\ Idle /\ tab \notin tabs.shown
  /\ tabs' = [tabs EXCEPT !.shown = @ \cup {tab},
                          !.outbounds = IF tab = "outbound" THEN tpl.outbounds ELSE @,
                          !.rules = IF tab = "routing" THEN tpl.rules ELSE @,
                          !.servers = IF tab = "dns" THEN tpl.dns.servers ELSE @,
                          !.hosts = IF tab = "dns" THEN HostRows(tpl.dns) ELSE @]
  /\ UNCHANGED <<srv, query, editor, seed, sent, dlg, test, nord, warp, left>>
Basics ==
  /\ Here("basics") /\ UNCHANGED dlg
  /\ \E filled \in BOOLEAN :
       \/ \E prop \in Criteria : Edits(Blocked(tpl, prop, filled))
       \/ \E prop \in {"ip", "domain"} : Edits(Directed(tpl, prop, filled))
       \/ Edits(ByIPv4(tpl, filled)) \/ Edits(ByWarp(tpl, filled)) \/ Edits(ByNord(tpl, filled))
       \/ filled /\ (Edits(FreedomStrategySet(tpl)) \/ Edits(GeneralSet(tpl)))
TypeText(x) ==
  /\ Here("advanced") /\ setXraySetting(x)
  /\ UNCHANGED <<srv, query, seed, sent, dlg, test, nord, warp>>
TypePart ==
  /\ Here("advanced") /\ UNCHANGED dlg
  /\ \/ Edits([tpl EXCEPT !.general = 1 - @])
     \/ Edits([tpl EXCEPT !.outbounds = Reverse(@)]) \/ Edits([tpl EXCEPT !.rules = Reverse(@)])
TypeObservatory ==
  /\ Here("balancer") /\ UNCHANGED dlg
  /\ \E view \in {"observatory", "burstObservatory"} :
        tpl[view].on /\ Edits(ObservatoryTyped(tpl, view, [on |-> TRUE, subjects |-> {}]))
MoveRows ==
  /\ UNCHANGED dlg
  /\ \/ /\ Here("routing")
        /\ \E i \in DOMAIN tpl.rules : i > 1 /\ Edits(RuleMoved(tpl, i - 1, i))
     \/ /\ Here("outbound")
        /\ \E i \in DOMAIN tpl.outbounds :
              i > 1 /\ (Edits(OutboundFirst(tpl, i)) \/ Edits(OutboundMoved(tpl, i - 1, i)))
DnsSettings ==
  /\ Here("dns") /\ UNCHANGED dlg
  /\ \/ Edits(toggleDNS(tpl, ~tpl.dns.on)) \/ Edits(setDnsField(tpl))
     \/ tpl.dns.on /\ \E i \in DOMAIN tpl.dns.servers : Edits(ServerDeleted(tpl, i))
     \/ Edits(FakednsAdded(tpl))
     \/ \E i \in DOMAIN tpl.fakedns : Edits(FakednsDeleted(tpl, i)) \/ Edits(FakednsUpdated(tpl, i))
EditHosts(rows) ==
  /\ Here("dns") /\ tpl.dns.on
  /\ LET t == HostsSynced(tpl, rows) IN
       tpl' = t /\ text' = Pretty(t) /\ tabs' = [Redrawn(t) EXCEPT !.hosts = rows]
  /\ UNCHANGED <<srv, query, seed, sent, dlg, test, nord, warp>>

---------------------------------------------------------------------------
\* Dialogs: what they show comes from the handlers of the row's rendering.
Opens(d) == dlg' = d /\ UNCHANGED <<srv, query, editor, seed, sent, tabs, test, nord, warp>>
Dialog(kind, i, value, taken) == [kind |-> kind, at |-> i, value |-> value, taken |-> taken]
ItemAt(list, i) == IF i \in DOMAIN list THEN list[i] ELSE Hole
Tags(list, i) == {list[k].tag : k \in DOMAIN list \ {i}}
OpenOutbound(i) ==
  /\ Here("outbound")
  /\ Opens(IF i = 0 THEN Dialog("outbound", 0, Outbound(NoTag, "vless"), Tags(tpl.outbounds, 0))
           ELSE Dialog("outbound", i, ItemAt(tabs.outbounds, i), Tags(tabs.outbounds, i)))
OpenRule(i) ==
  /\ Here("routing")
  /\ Opens(Dialog("rule", i, IF i = 0 THEN Rule(NoTag, NoTag, {}) ELSE RuleShown(ItemAt(tabs.rules, i)), {}))
OpenBalancer(i) ==
  /\ Here("balancer")
  /\ Opens(Dialog("balancer", i,
                  IF i = 0 THEN [tag |-> NoTag, strategy |-> "random", selector |-> {}, settings |-> FALSE]
                  ELSE tpl.balancers[i], {}))
OpenServer(i) ==
  /\ Here("dns") /\ tpl.dns.on
  /\ Opens(Dialog("server", i, IF i \in DOMAIN tabs.servers THEN ServerShown(tabs.servers[i]) ELSE Server("localhost"), {}))
\* A row taken up by its handle is a dialog of its own kind.
StartDrag(i) == Here("routing") /\ Opens(Dialog("drag", i, Hole, {}))
OpenConfirm ==
  \/ Here("outbound") /\ \E i \in DOMAIN tpl.outbounds : Opens(Dialog("deleteOutbound", i, Hole, {}))
  \/ Here("routing") /\ \E i \in DOMAIN tpl.rules : Opens(Dialog("deleteRule", i, Hole, {}))
  \/ Here("balancer") /\ \E i \in DOMAIN tpl.balancers : Opens(Dialog("deleteBalancer", i, Hole, {}))
  \/ Here("dns") /\ tpl.dns.servers # <<>> /\ Opens(Dialog("clear", 0, Hole, {}))
  \/ Here("dns") /\ tpl.dns.on /\ Opens(Dialog("presets", 0, Hole, {}))
OpenDialog ==
  \/ \E i \in 0..Len(tpl.outbounds) : OpenOutbound(i)
  \/ \E i \in 0..Len(tpl.rules) : OpenRule(i)
  \/ \E i \in 0..Len(tpl.balancers) : OpenBalancer(i)
  \/ \E i \in 0..Len(tpl.dns.servers) : OpenServer(i)
  \/ \E i \in DOMAIN tpl.rules : StartDrag(i)
  \/ OpenConfirm
CloseDialog ==
  /\ dlg # NoDialog /\ dlg' = NoDialog
  /\ UNCHANGED <<srv, query, editor, seed, sent, tabs, test, nord, warp, left>>
Answers(t) == ~Unreadable(tpl) /\ dlg' = NoDialog /\ Edits(t) /\ UNCHANGED left
ConfirmOutbound(o) ==
  /\ dlg.kind = "outbound" /\ o.tag \notin dlg.taken
  /\ Answers(OutboundConfirmed(tpl, dlg.at, o))
Drop(j) == dlg.kind = "drag" /\ j # dlg.at /\ Answers(RuleDragged(tpl, dlg.at, j))
ConfirmRule(r) == dlg.kind = "rule" /\ Answers(RuleConfirmed(tpl, dlg.at, RuleSubmitted(r)))
ConfirmBalancer(b) ==
  /\ dlg.kind = "balancer" /\ b.tag # NoTag /\ b.selector # {} /\ b.tag \notin otherTags(tpl, dlg.at)
  /\ Answers(BalancerConfirmed(tpl, dlg.at, BalancerSubmitted(b)))
ConfirmServer(s) == dlg.kind = "server" /\ Answers(ServerConfirmed(tpl, dlg.at, ServerSubmitted(s)))
ConfirmDelete ==
  \/ dlg.kind = "deleteOutbound" /\ Answers(OutboundDeleted(tpl, dlg.at))
  \/ dlg.kind = "deleteRule" /\ Answers(RuleDeleted(tpl, dlg.at))
  \/ dlg.kind = "deleteBalancer" /\ Answers(BalancerDeleted(tpl, dlg.at))
  \/ dlg.kind = "clear" /\ Answers(ServersCleared(tpl))
  \/ dlg.kind = "presets" /\ Answers(PresetInstalled(tpl, <<Server("preset")>>))
Confirm ==
  \/ dlg.kind = "outbound" /\ \E o \in {[dlg.value EXCEPT !.edition = 1 - @], [dlg.value EXCEPT !.tag = "new"]} :
        ConfirmOutbound(o)
  \/ dlg.kind = "rule" /\ \E r \in {[dlg.value EXCEPT !.outboundTag = g] : g \in TagChoices(tpl)}
                            \cup {[dlg.value EXCEPT !.balancerTag = g] : g \in BalancerChoices(tpl)} :
        ConfirmRule(r)
  \/ dlg.kind = "balancer" /\ \E b \in {[dlg.value EXCEPT !.tag = "renamed", !.selector = @ \cup {"direct"}],
                                        [dlg.value EXCEPT !.strategy = "leastPing", !.settings = TRUE]} : ConfirmBalancer(b)
  \/ \E j \in 1..2 : Drop(j)
  \/ dlg.kind = "server" /\ \E s \in {dlg.value, [dlg.value EXCEPT !.set = @ \cup {"tag"}]} : ConfirmServer(s)
  \/ ConfirmDelete

---------------------------------------------------------------------------
(* Tests of the outbounds, one by one or all: as many workers as the mode    *)
(* allows take the lowest row from a queue until it is empty.  States go by  *)
(* row.                                                                      *)
RowSet(rows, at, state) == [k \in DOMAIN rows \cup at |-> IF k \in at THEN state ELSE rows[k]]
Tested(t) ==
  /\ test' = t
  /\ tabs' = [tabs EXCEPT !.outbounds = IF "outbound" \in tabs.shown THEN tpl.outbounds ELSE @]
  /\ UNCHANGED <<srv, query, editor, seed, sent, dlg, nord, warp>>
isTesting(i) == i \in DOMAIN test.rows /\ test.rows[i] = "testing"
\* Bound: a row is tested by hand once at a time.
TestOne(i, mode) ==
  /\ Here("outbound") /\ ~isUntestable(tpl.outbounds[i], mode) /\ ~isTesting(i)
  /\ [row |-> i, all |-> FALSE] \notin test.flight
  /\ Tested([test EXCEPT !.rows = RowSet(@, {i}, "testing"), !.flight = @ \cup {[row |-> i, all |-> FALSE]}])
Testable(mode) == {i \in DOMAIN tpl.outbounds : ~isUntestable(tpl.outbounds[i], mode)}
testAllOutbounds(mode) ==
  /\ Here("outbound") /\ ~test.all /\ Testable(mode) # {}
  /\ LET rows == Testable(mode)
         first == {i \in rows : Cardinality({k \in rows : k < i}) < Workers[mode]}
     IN Tested([rows |-> RowSet(test.rows, first, "testing"),
                flight |-> test.flight \cup [row : first, all : {TRUE}],
                queue |-> rows \ first, all |-> TRUE, todo |-> rows])
\* The worker whose test was answered, or failed, takes the next row.
TookNext(f) ==
  LET next == IF f.all /\ test.queue # {} THEN {Min(test.queue)} ELSE {}
      flight == (test.flight \ {f}) \cup [row : next, all : {TRUE}]
  IN [rows |-> RowSet(RowSet(test.rows, {f.row}, "done"), next, "testing"),
      flight |-> flight,
      queue |-> test.queue \ next,
      all |-> test.all /\ (f.all => \E g \in flight : g.all),
      todo |-> IF f.all THEN test.todo \ {f.row} ELSE test.todo]
TestAnswered(f) == f \in test.flight /\ Tested(TookNext(f)) /\ UNCHANGED left
TestFailedStopsWorker(f) ==
  LET flight == test.flight \ {f} IN
  /\ f \in test.flight
  /\ Tested([test EXCEPT !.rows = RowSet(@, {f.row}, "done"), !.flight = flight,
                         !.all = @ /\ (f.all => \E g \in flight : g.all), !.todo = IF f.all THEN @ \ {f.row} ELSE @])
  /\ UNCHANGED left
TestFailed(f) == f \in test.flight /\ Tested(TookNext(f)) /\ UNCHANGED left

---------------------------------------------------------------------------
\* NordVPN: an index taken before the request is used after its answer.
ServersOf(country) == IF country = 1 THEN "nord-a" ELSE "nord-b"
NordIs(n) == nord' = n /\ UNCHANGED <<srv, query, seed, sent, test, warp>>
NordAsks(n, what) ==
  /\ NordIs([n EXCEPT !.loading = TRUE, !.asked = @ \cup {what}])
  /\ UNCHANGED <<editor, dlg, tabs>>
OpenNord ==
  /\ Here("basics") /\ NordAsks([nord EXCEPT !.open = TRUE], <<"data", 0>>)
CloseNord == nord.open /\ NordIs([nord EXCEPT !.open = FALSE]) /\ UNCHANGED <<editor, dlg, tabs, left>>
NordLogin ==
  /\ nord.open /\ ~nord.account /\ ~nord.loading /\ NordAsks(nord, <<"login", 0>>) /\ UNCHANGED left
NordCountry(c) ==
  /\ nord.open /\ nord.account /\ c # nord.country /\ Acts
  /\ NordAsks([nord EXCEPT !.country = c, !.server = NoTag], <<"servers", c>>)
NordLogout ==
  /\ nord.open /\ nord.account /\ ~nord.loading
  /\ NordAsks(nord, <<"logout", NordIndex(tpl)>>) /\ UNCHANGED left
Landed(what) == [nord EXCEPT !.loading = FALSE, !.asked = @ \ {what}]
NordFailed == \E what \in nord.asked : NordIs(Landed(what)) /\ UNCHANGED <<editor, dlg, tabs, left>>
NordAnswered ==
  \E what \in nord.asked :
    /\ UNCHANGED <<query, seed, sent, dlg, test, warp, left>>
    /\ \/ /\ what[1] = "data" /\ nord' = [Landed(what) EXCEPT !.account = srv.nord]
          /\ UNCHANGED <<srv, editor, tabs>>
       \/ /\ what[1] = "login" /\ nord' = [Landed(what) EXCEPT !.account = TRUE]
          /\ srv' = [srv EXCEPT !.nord = TRUE] /\ UNCHANGED <<editor, tabs>>
       \/ /\ what[1] = "servers" /\ nord' = [Landed(what) EXCEPT !.server = ServersOf(what[2])]
          /\ UNCHANGED <<srv, editor, tabs>>
       \/ /\ what[1] = "logout"
          /\ nord' = [Landed(what) EXCEPT !.account = FALSE, !.country = 0, !.server = NoTag]
          /\ srv' = [srv EXCEPT !.nord = FALSE]
          /\ setTemplateSettings(NordRemoved(tpl, what[2]))
NordOutbound ==
  /\ nord.open /\ nord.account /\ ~nord.loading /\ nord.server # NoTag
  /\ LET i == NordIndex(tpl)
         o == Outbound(nord.server, "wireguard")
     IN setTemplateSettings(IF i = 0 THEN OutboundAdded(tpl, o)
                            ELSE OutboundReset(tpl, i, o, tpl.outbounds[i].tag))
  /\ NordIs([nord EXCEPT !.open = FALSE]) /\ UNCHANGED <<dlg, left>>

---------------------------------------------------------------------------
\* WARP.
WarpIs(w) == warp' = w /\ UNCHANGED <<query, seed, sent, dlg, test, nord>>
WarpAsks(w, what) ==
  WarpIs([w EXCEPT !.loading = TRUE, !.asked = @ \cup {what}]) /\ UNCHANGED <<srv, editor, tabs>>
OpenWarp ==
  /\ Here("basics")
  /\ WarpAsks([warp EXCEPT !.open = TRUE, !.config = FALSE, !.staged = FALSE], "data")
CloseWarp == warp.open /\ WarpIs([warp EXCEPT !.open = FALSE]) /\ UNCHANGED <<srv, editor, tabs, left>>
WarpButton ==
  /\ warp.open /\ ~warp.loading /\ Acts
  /\ \E what \in IF warp.account THEN {"config", "license", "del"} ELSE {"reg"} : WarpAsks(warp, what)
WarpLanded(what) == [warp EXCEPT !.loading = FALSE, !.asked = @ \ {what}]
WarpFailed ==
  \E what \in warp.asked : WarpIs(WarpLanded(what)) /\ UNCHANGED <<srv, editor, tabs, left>>
WarpAnswered ==
  /\ UNCHANGED left
  /\ \/ /\ "data" \in warp.asked /\ WarpIs([WarpLanded("data") EXCEPT !.account = srv.warp])
        /\ UNCHANGED <<srv, editor, tabs>>
     \/ /\ "reg" \in warp.asked
        /\ WarpIs([WarpLanded("reg") EXCEPT !.account = TRUE, !.config = TRUE, !.staged = TRUE])
        /\ srv' = [srv EXCEPT !.warp = TRUE] /\ UNCHANGED <<editor, tabs>>
     \/ /\ "config" \in warp.asked
        /\ WarpIs([WarpLanded("config") EXCEPT !.config = TRUE, !.staged = TRUE])
        /\ UNCHANGED <<srv, editor, tabs>>
     \/ /\ "license" \in warp.asked
        /\ WarpIs([WarpLanded("license") EXCEPT !.account = TRUE, !.config = FALSE])
        /\ UNCHANGED <<srv, editor, tabs>>
     \/ /\ "del" \in warp.asked
        /\ WarpIs([WarpLanded("del") EXCEPT !.open = FALSE, !.account = FALSE, !.config = FALSE, !.staged = FALSE])
        /\ srv' = [srv EXCEPT !.warp = FALSE] /\ setTemplateSettings(WarpRemoved(tpl))
WarpOutbound ==
  /\ warp.open /\ warp.account /\ warp.config /\ warp.staged /\ ~warp.loading
  /\ LET o == Outbound("warp", "wireguard")
     IN setTemplateSettings(IF WarpIndex(tpl) = 0 THEN OutboundAdded(tpl, o)
                            ELSE OutboundReset(tpl, WarpIndex(tpl), o, NoTag))
  /\ WarpIs([warp EXCEPT !.open = FALSE]) /\ UNCHANGED <<srv, left>>

---------------------------------------------------------------------------
Arrives ==
  \/ FetchAnswered \/ FetchFailed \/ fetchAll \/ Reload \/ TrafficPushed
  \/ OtherAddsInbound \/ OtherSaves([srv.tpl EXCEPT !.rules = Reverse(@)])
  \/ OtherSaves([srv.tpl EXCEPT !.balancers = <<>>, !.rules = <<>>])
  \/ SaveStored \/ SaveRefused \/ RestartAnswered \/ ResetAnswered
  \/ \E f \in test.flight : TestAnswered(f) \/ TestFailed(f)
Header == PollDirty \/ SetTestUrl \/ onSaveAll \/ confirmRestart \/ resetToDefault
Edit ==
  \/ \E tab \in {"routing", "outbound", "dns"} : ShowTab(tab)
  \/ Basics \/ TypePart \/ TypeObservatory \/ MoveRows \/ DnsSettings
  \/ TypeText(Broken) \/ TypeText([Pretty(tpl) EXCEPT !.layout = "typed"])
  \/ TypeText([json |-> TRUE, tpl |-> DefaultTemplate, layout |-> "typed"])
  \/ EditHosts(Append(tabs.hosts, [domain |-> NoTag, values |-> FALSE]))
  \/ \E i \in DOMAIN tabs.hosts :
       \/ EditHosts(Spliced(tabs.hosts, i))
       \/ EditHosts([tabs.hosts EXCEPT ![i] = [domain |-> "host", values |-> TRUE]])
TestRows ==
  \E mode \in {"tcp", "http"} :
    testAllOutbounds(mode) \/ \E i \in DOMAIN tpl.outbounds : TestOne(i, mode)
Providers ==
  \/ OpenNord \/ CloseNord \/ NordLogin \/ NordLogout \/ NordFailed \/ NordAnswered \/ NordOutbound
  \/ \E c \in {1, 2} : NordCountry(c)
  \/ OpenWarp \/ CloseWarp \/ WarpButton \/ WarpFailed \/ WarpAnswered \/ WarpOutbound
Next == Arrives \/ Header \/ Edit \/ OpenDialog \/ CloseDialog \/ Confirm \/ TestRows \/ Providers

\* The browser's timer ticks.
Spec == Init /\ [][Next]_vars /\ WF_vars(PollDirty)

---------------------------------------------------------------------------
(* A text that parses is the template of the other tabs: whichever tab, dialog, *)
(* answer or refetch wrote last, Save posts what the tabs show.                 *)
TextIsTemplate == text.json => text.tpl = tpl

(* A balancer that is renamed, or a NordVPN server that is changed for another,  *)
(* takes the rules along: none is left pointing at the old tag, even when the    *)
(* list was replaced while the dialog was open.                                  *)
Readable(rules) == {rules[k] : k \in DOMAIN rules} \ {Hole}
Stranded(t) ==
  {r.balancerTag : r \in {q \in Readable(t.rules) : Tagged(t.balancers, q.balancerTag) = {}}}
    \cup {r.outboundTag : r \in {q \in Readable(t.rules) : Tagged(t.outbounds, q.outboundTag) = {}}}
Renames == \/ dlg.kind = "balancer" /\ dlg' = NoDialog
           \/ nord.open /\ ~nord'.open
RenamesReachRules ==
  [][Renames /\ tpl' # tpl => Stranded(tpl') \subseteq Stranded(tpl) \cup {NoTag}]_vars

(* Testing all outbounds reaches each row that was testable when it began,       *)
(* whatever fails and whatever is tested by hand meanwhile.                      *)
AllRowsTested == ~test.all => test.todo = {}

(* An edit is offered for saving, unless it is undone or a refetch drops it.     *)
EditIsOffered == dirty ~> (~saveDisabled \/ ~dirty)
=============================================================================
