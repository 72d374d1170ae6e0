---------------------------- MODULE XrayTemplate ----------------------------
(* What each control of the Xray page (src/frontend/src/pages/xray) does to  *)
(* the configuration template: one operator per handler, from the template   *)
(* before to the template after.  A list of the template may hold a hole: an *)
(* index taken from an older list and assigned beyond the end.               *)
EXTENDS Naturals, FiniteSets, SequencesExt

NoTag == ""
Hole == [hole |-> TRUE]
Criteria == {"ip", "domain", "protocol"}

\* A rule's crit holds its criteria, each with whether it lists anything.
Rule(o, b, c) == [outboundTag |-> o, balancerTag |-> b, crit |-> c]
\* A DNS server: its address alone, or an object with the fields that are set.
Server(a) == [address |-> a, plain |-> TRUE, set |-> {}]
Outbound(t, p) == [tag |-> t, protocol |-> p, edition |-> 0]
NoObservatory == [on |-> FALSE, subjects |-> {}]
NoDns == [on |-> FALSE, hosts |-> {}, servers |-> <<>>, edition |-> 0]

\* web/service/config.json, the rule of the API inbound left out.
DefaultTemplate ==
  [outbounds |-> <<Outbound("direct", "freedom"), Outbound("blocked", "blackhole")>>,
   rules |-> <<Rule("blocked", NoTag, {<<"ip", TRUE>>}), Rule("blocked", NoTag, {<<"protocol", TRUE>>})>>,
   balancers |-> <<>>, observatory |-> NoObservatory, burstObservatory |-> NoObservatory,
   dns |-> NoDns, fakedns |-> <<>>, general |-> 0]

\* A template the page can be given (schemas/xray.ts): its fields, and the rows
\* of the three lists that name each other.
\* Text is STRING: the members named are those the page writes by itself, which
\* the provers do not know for strings.
Text == STRING \cup {NoTag, "direct", "blocked", "IPv4", "warp", "nord-a", "nord-b", "new", "renamed"}
               \cup {"freedom", "blackhole", "vless", "wireguard", "random", "leastPing"} \cup Criteria
OutboundType == [tag : Text, protocol : Text, edition : {0, 1}]
RuleType == [outboundTag : Text, balancerTag : Text, crit : SUBSET (Text \X BOOLEAN)]
BalancerType == [tag : Text, strategy : Text, selector : SUBSET Text, settings : BOOLEAN]
Fields == DOMAIN DefaultTemplate
WellFormed(t) ==
  /\ DOMAIN t = Fields
  /\ t.outbounds \in Seq(OutboundType \cup {Hole})
  /\ t.rules \in Seq(RuleType \cup {Hole})
  /\ t.balancers \in Seq(BalancerType \cup {Hole})

Tagged(list, t) == {i \in DOMAIN list : list[i] # Hole /\ list[i].tag = t}
First(indices) == CHOOSE i \in indices : \A j \in indices : i <= j

\* list[i] = x, whatever the length of the list is by then.
PutAt(list, i, x) ==
  [k \in 1..(IF i > Len(list) THEN i ELSE Len(list)) |->
     IF k = i THEN x ELSE IF k <= Len(list) THEN list[k] ELSE Hole]
Spliced(list, i) == IF i \in DOMAIN list THEN RemoveAt(list, i) ELSE list
Swapped(list, i, j) == IF {i, j} \subseteq DOMAIN list
                       THEN [list EXCEPT ![i] = list[j], ![j] = list[i]] ELSE list
\* Array.prototype.filter: what stands at some of the indices, in order.
Nth(at, k) == CHOOSE i \in at : Cardinality({j \in at : j < i}) = k - 1
Kept(list, at) == [k \in 1..Cardinality(at) |-> list[Nth(at, k)]]

---------------------------------------------------------------------------
\* Outbounds tab.
OutboundConfirmed(t, i, o) ==
  IF i = 0 THEN IF o.tag = NoTag THEN t ELSE [t EXCEPT !.outbounds = Append(@, o)]
  ELSE [t EXCEPT !.outbounds = PutAt(@, i, o)]
OutboundDeleted(t, i) == [t EXCEPT !.outbounds = Spliced(@, i)]
OutboundFirst(t, i) == [t EXCEPT !.outbounds = <<@[i]>> \o Spliced(@, i)]
OutboundMoved(t, i, j) == [t EXCEPT !.outbounds = Swapped(@, i, j)]
isUntestable(o, mode) ==
  \/ o.protocol \in {"blackhole", "loopback"} \/ o.tag = "blocked"
  \/ mode = "tcp" /\ o.protocol \in {"freedom", "dns"}

\* Rules tab: the dialog knows its own criteria only and sends none that lists
\* nothing.
RuleShown(r) == [r EXCEPT !.crit = {c \in @ : c[1] \in Criteria}]
RuleSubmitted(r) == [r EXCEPT !.crit = {c \in @ : c[2]}]
RuleConfirmed(t, i, r) ==
  [t EXCEPT !.rules = IF i = 0 THEN Append(@, r) ELSE PutAt(@, i, r)]
RuleDeleted(t, i) == [t EXCEPT !.rules = Spliced(@, i)]
RuleMoved(t, i, j) == [t EXCEPT !.rules = Swapped(@, i, j)]
\* The row taken up at i is dropped at j, wherever the list stands by then.
RuleDragged(t, i, j) ==
  LET moved == IF i \in DOMAIN t.rules THEN t.rules[i] ELSE Hole
      rest == Spliced(t.rules, i)
  IN [t EXCEPT !.rules = IF j > Len(rest) THEN Append(rest, moved) ELSE InsertAt(rest, j, moved)]
TagChoices(t) == {NoTag} \cup {t.outbounds[i].tag : i \in DOMAIN t.outbounds}
BalancerChoices(t) == {NoTag} \cup {t.balancers[i].tag : i \in DOMAIN t.balancers}

---------------------------------------------------------------------------
\* Balancers tab.
Pingers(t) == {i \in DOMAIN t.balancers : t.balancers[i] # Hole /\ t.balancers[i].strategy = "leastPing"}
BurstFeeders(t) ==
  {i \in DOMAIN t.balancers : t.balancers[i] # Hole
                               /\ t.balancers[i].strategy \in {"leastLoad", "random", "roundRobin"}}
collectSelectors(t, indices) == UNION {t.balancers[i].selector : i \in indices}
Observing(t, indices) ==
  IF indices = {} THEN NoObservatory ELSE [on |-> TRUE, subjects |-> collectSelectors(t, indices)]
syncObservatories(t) ==
  [t EXCEPT !.observatory = Observing(t, Pingers(t)), !.burstObservatory = Observing(t, BurstFeeders(t))]
Retagged(rules, old, new) ==
  [k \in DOMAIN rules |-> IF rules[k] # Hole /\ rules[k].balancerTag = old
                          THEN [rules[k] EXCEPT !.balancerTag = new] ELSE rules[k]]
\* The settings of a strategy are those of least load.
BalancerSubmitted(b) == [b EXCEPT !.settings = @ /\ b.strategy = "leastLoad"]
OldTag(t, i) == IF i \in DOMAIN t.balancers /\ t.balancers[i] # Hole THEN t.balancers[i].tag ELSE NoTag
BalancerConfirmedWithoutRules(t, i, b) ==
  syncObservatories([t EXCEPT !.balancers = IF i = 0 THEN Append(@, b) ELSE PutAt(@, i, b)])
BalancerConfirmed(t, i, b) ==
  IF i = 0 THEN syncObservatories([t EXCEPT !.balancers = Append(@, b)])
  ELSE syncObservatories(
         [t EXCEPT !.balancers = PutAt(@, i, b),
                   !.rules = IF OldTag(t, i) # NoTag THEN Retagged(@, OldTag(t, i), b.tag) ELSE @])
BalancerDeleted(t, i) == syncObservatories([t EXCEPT !.balancers = Spliced(@, i)])
ObservatoryTyped(t, view, o) == [t EXCEPT ![view] = o]
otherTags(t, i) == {t.balancers[k].tag : k \in DOMAIN t.balancers \ {i}}

---------------------------------------------------------------------------
\* DNS tab.
toggleDNS(t, on) == [t EXCEPT !.dns = [NoDns EXCEPT !.on = on], !.fakedns = <<>>]
HostEntries(rows) == {rows[k].domain : k \in {j \in DOMAIN rows : rows[j].domain # NoTag /\ rows[j].values}}
HostsSynced(t, rows) == IF t.dns.on THEN [t EXCEPT !.dns.hosts = HostEntries(rows)] ELSE t
HostRows(dns) == IF dns.on THEN [k \in 1..Len(SetToSeq(dns.hosts)) |->
                                   [domain |-> SetToSeq(dns.hosts)[k], values |-> TRUE]]
                 ELSE <<>>
ServerFieldsKnown == {"domains", "expectedIPs", "tag"}
ServerShown(s) ==
  [s EXCEPT !.set = (@ \cap ServerFieldsKnown) \cup (IF "expectIPs" \in @ THEN {"expectedIPs"} ELSE {})]
ServerSubmitted(s) == [s EXCEPT !.plain = (s.set = {})]
setDnsField(t) == IF t.dns.on THEN [t EXCEPT !.dns.edition = 1 - @] ELSE t
ServerConfirmed(t, i, s) ==
  IF ~t.dns.on THEN t
  ELSE [t EXCEPT !.dns.servers = IF i = 0 THEN Append(@, s) ELSE PutAt(@, i, s)]
ServerDeleted(t, i) == [t EXCEPT !.dns.servers = Spliced(@, i)]
ServersCleared(t) == IF t.dns.on THEN [t EXCEPT !.dns.servers = <<>>] ELSE t
PresetInstalled(t, list) == IF t.dns.on THEN [t EXCEPT !.dns.servers = list] ELSE t
FakednsAdded(t) == [t EXCEPT !.fakedns = Append(@, 0)]
FakednsDeleted(t, i) == [t EXCEPT !.fakedns = Spliced(@, i)]
FakednsUpdated(t, i) == IF i \in DOMAIN t.fakedns THEN [t EXCEPT !.fakedns[i] = 1 - @] ELSE t

---------------------------------------------------------------------------
\* Basics tab: the quick rules of an outbound, one rule per criterion.
Matches(r, tag, prop) == r # Hole /\ r.outboundTag = tag /\ \E c \in r.crit : c[1] = prop
Lists(r, tag, prop) == Matches(r, tag, prop) /\ <<prop, TRUE>> \in r.crit
Matching(t, tag, prop) == {k \in DOMAIN t.rules : Matches(t.rules[k], tag, prop)}
Setting(r, prop) == [r EXCEPT !.crit = {c \in @ : c[1] # prop} \cup {<<prop, TRUE>>}]
OthersDropped(t, tag, prop, kept) ==
  [t EXCEPT !.rules = Kept(@, DOMAIN @ \ (Matching(t, tag, prop) \ kept))]
ruleSetter(t, tag, prop, filled) ==
  LET current == Matching(t, tag, prop)
      first == First(current)
  IN IF ~\E k \in current : Lists(t.rules[k], tag, prop)
     THEN [t EXCEPT !.rules = Append(@, Rule(tag, NoTag, {<<prop, filled>>}))]
     ELSE IF filled THEN OthersDropped([t EXCEPT !.rules[first] = Setting(@, prop)], tag, prop, {first})
          ELSE OthersDropped(t, tag, prop, {})
HaveRules(t, tag) == \E k \in DOMAIN t.rules : t.rules[k] # Hole /\ t.rules[k].outboundTag = tag
\* An outbound that is first in the list is the default one and stays.
syncOutbound(t, o) ==
  LET at == Tagged(t.outbounds, o.tag)
  IN IF ~HaveRules(t, o.tag) /\ at # {} /\ First(at) > 1
     THEN [t EXCEPT !.outbounds = RemoveAt(@, First(at))]
     ELSE IF HaveRules(t, o.tag) /\ at = {} THEN [t EXCEPT !.outbounds = Append(@, o)] ELSE t
Blocked(t, prop, filled) == ruleSetter(t, "blocked", prop, filled)
Directed(t, prop, filled) ==
  syncOutbound(ruleSetter(t, "direct", prop, filled), Outbound("direct", "freedom"))
ByIPv4(t, filled) ==
  syncOutbound(ruleSetter(t, "IPv4", "domain", filled), Outbound("IPv4", "freedom"))
NordTags == {"nord-a", "nord-b"}
NordOutbounds(t) == {i \in DOMAIN t.outbounds : t.outbounds[i] # Hole /\ t.outbounds[i].tag \in NordTags}
ByWarp(t, filled) == IF Tagged(t.outbounds, "warp") = {} THEN t ELSE ruleSetter(t, "warp", "domain", filled)
ByNord(t, filled) ==
  IF NordOutbounds(t) = {} THEN t
  ELSE ruleSetter(t, t.outbounds[First(NordOutbounds(t))].tag, "domain", filled)
FreedomStrategySet(t) ==
  LET at == {i \in Tagged(t.outbounds, "direct") : t.outbounds[i].protocol = "freedom"}
  IN IF at = {} THEN [t EXCEPT !.outbounds = Append(@, Outbound("direct", "freedom"))]
     ELSE [t EXCEPT !.outbounds[First(at)].edition = 1 - @]
GeneralSet(t) == [t EXCEPT !.general = 1 - @]

---------------------------------------------------------------------------
\* The WARP and NordVPN dialogs, through the handlers of the page.
\* Index 0 stands for -1: no such outbound when the button was pressed.
WarpIndex(t) == IF Tagged(t.outbounds, "warp") = {} THEN 0 ELSE First(Tagged(t.outbounds, "warp"))
NordIndex(t) == IF NordOutbounds(t) = {} THEN 0 ELSE First(NordOutbounds(t))
OutboundAdded(t, o) == [t EXCEPT !.outbounds = Append(@, o)]
OutboundReset(t, i, o, oldTag) ==
  IF i = 0 THEN t
  ELSE [t EXCEPT !.outbounds = PutAt(@, i, o),
                 !.rules = IF oldTag = NoTag THEN @
                           ELSE [k \in DOMAIN @ |-> IF @[k] # Hole /\ @[k].outboundTag = oldTag
                                                    THEN [@[k] EXCEPT !.outboundTag = o.tag] ELSE @[k]]]
WarpRemoved(t) == [t EXCEPT !.outbounds = Spliced(@, WarpIndex(t))]
NordRemoved(t, i) ==
  [t EXCEPT !.outbounds = Spliced(@, i),
            !.rules = Kept(@, {k \in DOMAIN @ : @[k] = Hole \/ @[k].outboundTag \notin NordTags})]

\* A list with a hole cannot be drawn.
Unreadable(t) ==
  \/ \E i \in DOMAIN t.outbounds : t.outbounds[i] = Hole
  \/ \E i \in DOMAIN t.rules : t.rules[i] = Hole
  \/ \E i \in DOMAIN t.balancers : t.balancers[i] = Hole
  \/ \E i \in DOMAIN t.dns.servers : t.dns.servers[i] = Hole
=============================================================================
