---------------------------- MODULE OutboundForm ----------------------------
(* The dialog that adds or edits an outbound                                *)
(* (src/frontend/src/pages/xray/OutboundFormModal.tsx): a form tab and a    *)
(* JSON tab over one store, the import of a share link, and the row that    *)
(* OK hands to the page.  Confirming takes the fields of the form that are  *)
(* registered at that moment, the preview of the JSON tab takes the store.  *)
EXTENDS ShareLinks, TLC

CONSTANT MaxParts   \* bound: optional parts that are on at a time

VARIABLE out        \* the dialog
outVars == <<out>>

OutProtocols == {"vmess", "vless", "trojan", "shadowsocks", "socks", "http", "wireguard", "hysteria",
                 "freedom", "blackhole", "dns", "loopback"}
SERVER_PROTOCOLS == {"vmess", "vless", "trojan", "shadowsocks", "socks", "http", "hysteria"}
MUX_PROTOCOLS == {"vmess", "vless", "trojan", "shadowsocks", "http", "socks"}
isMuxAllowed(p, flow, n) == p \in MUX_PROTOCOLS /\ ~(p = "vless" /\ flow) /\ n # "xhttp"
NETWORK_OPTIONS(p) == Networks \cup When(p = "hysteria", {"hysteria"})

Settings(names) == Fields("settings", names)
streamShown(f) == canEnableStream(f.protocol) /\ f.net # ""

---------------------------------------------------------------------------
\* The fields of the form tab.
OutBase == Fields("base", {"protocol", "tag", "sendThrough"})
ServerFields(f) == When(f.protocol \in SERVER_PROTOCOLS, Settings({"address", "port"}))
AuthFields(f) ==
  When(f.protocol \in {"vmess", "vless"}, Settings({"id"}))
    \cup When(f.protocol = "vmess", Settings({"security"}))
    \cup When(f.protocol = "vless", Settings({"encryption", "reverseTag"}))
PasswordFields(f) ==
  When(f.protocol \in {"trojan", "shadowsocks"}, Settings({"password"}))
    \cup When(f.protocol = "shadowsocks", Settings({"method", "uot", "UoTVersion"}))
UserFields(f) == When(f.protocol \in {"socks", "http"}, Settings({"user", "pass"}))
HysteriaVersionField(f) == When(f.protocol = "hysteria", Settings({"version"}))
LoopbackFields(f) == When(f.protocol = "loopback", Settings({"inboundTag"}))
BlackholeFields(f) == When(f.protocol = "blackhole", Settings({"type"}))
DnsFields(f) ==
  When(f.protocol = "dns", Settings({"rewriteNetwork", "rewriteAddress", "rewritePort", "userLevel", "rules"}))
FreedomFields(f) == When(f.protocol = "freedom", Settings({"domainStrategy", "redirect"}))
FragmentFields(f) ==
  When(f.protocol = "freedom" /\ "fragment" \in f.on, Settings({"fragment"}))
NoisesFields(f) == When(f.protocol = "freedom", Settings({"noises"}))
FinalRulesFields(f) ==
  When(f.protocol = "freedom", Settings({"finalRules"} \cup When("block" \in f.on, {"finalRules.blockDelay"})))
ReverseSniffingFields(f) ==
  When(f.protocol = "vless" /\ "reverse" \in f.on,
       Settings({"reverse.enabled"}
           \cup When("reverse.sniffing" \in f.on, {"reverse.destOverride", "reverse.metadataOnly",
                       "reverse.routeOnly", "reverse.ipsExcluded", "reverse.domainsExcluded"})))
WireguardOutFields(f) ==
  When(f.protocol = "wireguard",
       Settings({"address", "secretKey", "pubKey", "domainStrategy", "mtu", "workers", "noKernelTun",
          "reserved", "peers"}))
NetworkField(f) == When(streamShown(f), {<<"stream", "network">>})
TcpOutFields(f) ==
  When(streamShown(f) /\ f.net = "tcp",
       Fields("tcp", {"header.type"}
         \cup When("http" \in f.on, {"request.method", "request.version", "request.host",
                     "request.path", "request.headers", "response.version", "response.status",
                     "response.reason", "response.headers"})))
KcpOutFields(f) ==
  When(streamShown(f) /\ f.net = "kcp",
       Fields("kcp", {"mtu", "tti", "uplinkCapacity", "downlinkCapacity", "cwndMultiplier",
              "maxSendingWindow"}))
WsOutFields(f) ==
  When(streamShown(f) /\ f.net = "ws", Fields("ws", {"host", "path", "heartbeatPeriod", "headers"}))
GrpcOutFields(f) ==
  When(streamShown(f) /\ f.net = "grpc", Fields("grpc", {"serviceName", "authority", "multiMode"}))
HttpUpgradeOutFields(f) ==
  When(streamShown(f) /\ f.net = "httpupgrade", Fields("httpupgrade", {"host", "path", "headers"}))
XhttpOutFields(f) ==
  When(streamShown(f) /\ f.net = "xhttp",
       Fields("xhttp", {"host", "path", "mode", "xPaddingBytes", "headers", "xPaddingObfsMode",
              "uplinkHTTPMethod"}
         \cup When("obfs" \in f.on, {"xPaddingKey", "xPaddingHeader", "xPaddingPlacement",
                     "xPaddingMethod"})))
PlacementOutFields(f) ==
  When(streamShown(f) /\ f.net = "xhttp",
       Fields("xhttp", {"sessionPlacement", "seqPlacement"}
         \cup When("session" \in f.on, {"sessionKey"}) \cup When("seq" \in f.on, {"seqKey"})))
XhttpModeOutFields(f) ==
  When(streamShown(f) /\ f.net = "xhttp",
       Fields("xhttp",
         When("packet-up" \in f.on, {"scMinPostsIntervalMs", "scMaxEachPostBytes", "uplinkDataPlacement"}
                \cup When("uplink" \in f.on, {"uplinkDataKey", "uplinkChunkSize"}))
         \cup When("stream-up" \in f.on, {"noGRPCHeader"})))
XmuxFields(f) ==
  When(streamShown(f) /\ f.net = "xhttp",
       Fields("xhttp", {"enableXmux"}
         \cup When("xmux" \in f.on, {"xmux.maxConcurrency", "xmux.maxConnections", "xmux.cMaxReuseTimes",
                     "xmux.hMaxRequestTimes", "xmux.hMaxReusableSecs", "xmux.hKeepAlivePeriod"})))
HysteriaOutFields(f) ==
  When(streamShown(f) /\ f.net = "hysteria", Fields("hysteria", {"auth", "udpIdleTimeout"}))
FlowFields(f) ==
  When(canEnableTlsFlow(f.protocol, f.net, f.sec),
       Settings({"flow"} \cup When("flow" \in f.on, {"testpre", "testseed"})))
SecurityRadio(f) == When(streamShown(f), {<<"stream", "security">>})
TlsOutFields(f) ==
  When(f.sec = "tls" /\ canEnableTls(f.protocol, f.net),
       Fields("tls", {"serverName", "fingerprint", "alpn", "echConfigList", "verifyPeerCertByName",
              "pinnedPeerCertSha256"}))
RealityOutFields(f) ==
  When(f.sec = "reality" /\ canEnableReality(f.protocol, f.net),
       Fields("reality", {"serverName", "fingerprint", "shortId", "spiderX", "publicKey",
              "mldsa65Verify"}))
SockoptOutFields(f) ==
  When("sockopt" \in f.on,
       Fields("sockopt", {"dialerProxy", "domainStrategy", "addressPortStrategy",
              "tcpKeepAliveInterval", "tcpFastOpen", "tcpMptcp", "penetrate", "mark",
              "interfaceName", "tproxy", "tcpcongestion", "V6Only", "acceptProxyProtocol",
              "tcpUserTimeout", "tcpKeepAliveIdle", "tcpMaxSeg", "tcpWindowClamp",
              "trustedXForwardedFor"}))
HappyEyeballsFields(f) ==
  When({"sockopt", "eyeballs"} \subseteq f.on,
       Fields("sockopt", {"tryDelayMs", "prioritizeIPv6", "interleave", "maxConcurrentTry"}))
CustomSockoptFields(f) == When("sockopt" \in f.on, {<<"sockopt", "customSockopt">>})
\* The mux switch is drawn with the flow of the last rendering of the dialog.
MuxFields(f) ==
  When(isMuxAllowed(f.protocol, f.drawnFlow, f.net),
       Fields("mux", {"enabled"}
         \cup When("mux" \in f.on, {"concurrency", "xudpConcurrency", "xudpProxyUDP443"})))

Shown(f) ==
  OutBase \cup ServerFields(f) \cup AuthFields(f) \cup PasswordFields(f) \cup UserFields(f)
    \cup HysteriaVersionField(f) \cup LoopbackFields(f) \cup BlackholeFields(f) \cup DnsFields(f)
    \cup FreedomFields(f) \cup FragmentFields(f) \cup NoisesFields(f) \cup FinalRulesFields(f)
    \cup ReverseSniffingFields(f) \cup WireguardOutFields(f) \cup NetworkField(f)
    \cup TcpOutFields(f) \cup KcpOutFields(f) \cup WsOutFields(f) \cup GrpcOutFields(f)
    \cup HttpUpgradeOutFields(f) \cup XhttpOutFields(f) \cup PlacementOutFields(f)
    \cup XhttpModeOutFields(f) \cup XmuxFields(f) \cup HysteriaOutFields(f) \cup FlowFields(f)
    \cup SecurityRadio(f) \cup TlsOutFields(f) \cup RealityOutFields(f)
    \cup SockoptOutFields(f) \cup HappyEyeballsFields(f) \cup CustomSockoptFields(f)
    \cup FinalMaskFields(f.net, f.protocol, f.on) \cup MuxFields(f)

\* The security radio and the camouflage switch write the store themselves:
\* they have no named Form.Item, so the form has no such field registered.
Unbound == {<<"stream", "security">>, <<"tcp", "header.type">>}
Registered(f) == Shown(f) \ Unbound

---------------------------------------------------------------------------
\* The row a set F of the form's fields makes (outbound-form-adapter.ts).
vmessToWire == Settings({"address", "port", "id", "security"})
reverseSniffingToWire ==
  Settings({"reverse.enabled", "reverse.destOverride", "reverse.metadataOnly", "reverse.routeOnly",
     "reverse.ipsExcluded", "reverse.domainsExcluded"})
vlessToWire(f) ==
  Settings({"address", "port", "id", "flow", "encryption", "reverseTag"})
    \cup When("reverse" \in f.on, reverseSniffingToWire)
    \cup When("flow" \in f.on, Settings({"testpre", "testseed"}))
trojanToWire == Settings({"address", "port", "password"})
shadowsocksToWire == Settings({"address", "port", "password", "method", "uot", "UoTVersion"})
simpleAuthToWire == Settings({"address", "port", "user", "pass"})
wireguardToWire ==
  Settings({"address", "secretKey", "domainStrategy", "mtu", "workers", "noKernelTun", "reserved", "peers"})
hysteriaToWire == Settings({"address", "port", "version"})
freedomToWire(f) ==
  Settings({"domainStrategy", "redirect", "noises", "finalRules"} \cup When("fragment" \in f.on, {"fragment"})
      \cup When("block" \in f.on, {"finalRules.blockDelay"}))
blackholeToWire == Settings({"type"})
dnsToWire == Settings({"rewriteNetwork", "rewriteAddress", "rewritePort", "userLevel", "rules"})
loopbackToWire == Settings({"inboundTag"})
SettingsToWire(f) ==
  CASE f.protocol = "vmess" -> vmessToWire
    [] f.protocol = "vless" -> vlessToWire(f)
    [] f.protocol = "trojan" -> trojanToWire
    [] f.protocol = "shadowsocks" -> shadowsocksToWire
    [] f.protocol \in {"socks", "http"} -> simpleAuthToWire
    [] f.protocol = "wireguard" -> wireguardToWire
    [] f.protocol = "hysteria" -> hysteriaToWire
    [] f.protocol = "freedom" -> freedomToWire(f)
    [] f.protocol = "blackhole" -> blackholeToWire
    [] f.protocol = "dns" -> dnsToWire
    [] f.protocol = "loopback" -> loopbackToWire

\* What the store of the form holds of the stream settings.
StreamBlocks == {"stream", "sockopt", "finalmask", "tls", "reality", "hysteria"} \cup Networks
stripUiOnlyStreamFields(F) == {x \in F : x[1] \in StreamBlocks} \ {<<"xhttp", "enableXmux">>}
muxAllowed(f, F) ==
  /\ f.protocol \in MUX_PROTOCOLS
  /\ ~(f.protocol = "vless" /\ "flow" \in f.on /\ <<"settings", "flow">> \in F)
  /\ ~(f.net = "xhttp" /\ <<"stream", "network">> \in F)
\* A protocol without a stream keeps its socket options only.
StreamToWire(f, F) ==
  IF canEnableStream(f.protocol) THEN stripUiOnlyStreamFields(F)
  ELSE {x \in F : x[1] = "sockopt"}
ToWireKeepsNoStream(f, F) ==   \* mutant: socket options go with the stream
  (F \cap (OutBase \cup SettingsToWire(f)))
    \cup When(canEnableStream(f.protocol), StreamToWire(f, F))
    \cup When("mux" \in f.on /\ muxAllowed(f, F), {x \in F : x[1] = "mux"})
ToWire(f, F) ==
  (F \cap (OutBase \cup SettingsToWire(f))) \cup StreamToWire(f, F)
    \cup When("mux" \in f.on /\ muxAllowed(f, F), {x \in F : x[1] = "mux"})

\* The adapter reads into lists and objects that must be there: it fails when the
\* switch that shows them is off, or another protocol's form was on the screen.
Needed(f, F) ==
  CASE f.protocol = "freedom" -> Settings({"fragment", "noises", "finalRules"})
    [] f.protocol = "wireguard" -> Settings({"peers"})
    [] f.protocol = "dns" -> Settings({"rules"})
    [] f.protocol = "vless" ->
         When("reverse" \in f.on /\ <<"settings", "reverseTag">> \in F, Settings({"reverse.ipsExcluded"}))
           \cup When("flow" \in f.on /\ <<"settings", "flow">> \in F, Settings({"testseed"}))
    [] OTHER -> {}
Convertible(f, F) == Needed(f, F) \subseteq F
Confirmed(f) == ToWire(f, Registered(f))

---------------------------------------------------------------------------
\* What opening a row reads of it, per protocol.
vmessFromWire == Settings({"address", "port", "id", "security"})
reverseSniffingFromWire == reverseSniffingToWire
\* The encryption of the row is replaced by "none".
vlessFromWire ==
  Settings({"address", "port", "id", "flow", "reverseTag", "testpre", "testseed"}) \cup reverseSniffingFromWire
trojanFromWire == Settings({"address", "port", "password"})
shadowsocksFromWire == Settings({"address", "port", "password", "method", "uot", "UoTVersion"})
simpleAuthFromWire == Settings({"address", "port", "user", "pass"})
wireguardFromWire ==
  Settings({"address", "secretKey", "domainStrategy", "mtu", "workers", "noKernelTun", "reserved", "peers"})
hysteriaFromWire == Settings({"address", "port", "version"})
freedomFromWireForgetsNoises ==   \* mutant
  Settings({"domainStrategy", "redirect", "fragment", "finalRules", "finalRules.blockDelay"})
freedomFromWire ==
  Settings({"domainStrategy", "redirect", "fragment", "noises", "finalRules", "finalRules.blockDelay"})
blackholeFromWire == Settings({"type"})
dnsFromWire == Settings({"rewriteNetwork", "rewriteAddress", "rewritePort", "userLevel", "rules"})
loopbackFromWire == Settings({"inboundTag"})
muxFromWire == Fields("mux", {"enabled", "concurrency", "xudpConcurrency", "xudpProxyUDP443"})
SettingsFromWire(p) ==
  CASE p = "vmess" -> vmessFromWire
    [] p = "vless" -> vlessFromWire
    [] p = "trojan" -> trojanFromWire
    [] p = "shadowsocks" -> shadowsocksFromWire
    [] p \in {"socks", "http"} -> simpleAuthFromWire
    [] p = "wireguard" -> wireguardFromWire
    [] p = "hysteria" -> hysteriaFromWire
    [] p = "freedom" -> freedomFromWire
    [] p = "blackhole" -> blackholeFromWire
    [] p = "dns" -> dnsFromWire
    [] p = "loopback" -> loopbackFromWire

---------------------------------------------------------------------------
\* The parts of the store a switch or a select turns on, and where they live.
SettingsParts == {"fragment", "block", "reverse", "reverse.sniffing", "flow"}
OutParts == SettingsParts \cup MaskParts
              \cup {"http", "obfs", "session", "seq", "packet-up", "stream-up", "xmux", "uplink",
                    "sockopt", "eyeballs", "mux"}
OutOffered(f) ==
  When(f.protocol = "freedom", {"fragment", "block"})
    \cup When(f.protocol = "vless", {"reverse"} \cup When("reverse" \in f.on, {"reverse.sniffing"}))
    \cup When(canEnableTlsFlow(f.protocol, f.net, f.sec), {"flow"})
    \cup When(streamShown(f) /\ f.net = "tcp", {"http"})
    \cup When(streamShown(f) /\ f.net = "xhttp",
              {"obfs", "session", "seq", "packet-up", "stream-up", "xmux"}
                \cup When("packet-up" \in f.on, {"uplink"}))
    \cup When(streamShown(f) \/ ~canEnableStream(f.protocol),
              {"sockopt"} \cup When("sockopt" \in f.on, {"eyeballs"}))
    \cup MaskOffered(f.net, f.protocol, f.on)
    \cup When(isMuxAllowed(f.protocol, f.drawnFlow, f.net), {"mux"})
OutRivals == {{"packet-up", "stream-up"}, Quic}
\* A part goes with the one it belongs to.
OutParent == [x \in {"reverse.sniffing"} |-> {"reverse"}] @@ [x \in {"uplink"} |-> {"packet-up"}]
             @@ [x \in {"eyeballs"} |-> {"sockopt"}] @@ [x \in {"quic.hop"} |-> Quic]
Pruned(on) == {o \in on : o \in DOMAIN OutParent => OutParent[o] \cap on # {}}

NoDialog == [open |-> "no"]
NoLink == [protocol |-> "none"]
CleanText == [protocol |-> "clean"]
BadText == [protocol |-> "bad"]
OutRow(p, n, s) == [protocol |-> p, net |-> n, sec |-> s, on |-> {}]
PlainRow(p) == OutRow(p, "", "none")   \* without stream settings
\* rawOutboundToFormValues of a row; the effect that seeds a stream for a protocol
\* that needs one runs before anybody can type.
Seeded(f) ==
  IF canEnableStream(f.protocol) /\ f.net = ""
  THEN [f EXCEPT !.net = "tcp", !.sec = "none", !.on = @ \cap (SettingsParts \cup {"mux"})]
  ELSE f
Loaded(mode, row, link) ==
  Seeded([open |-> mode, tab |-> "form", json |-> CleanText, protocol |-> row.protocol, net |-> row.net,
          sec |-> row.sec, on |-> row.on, drawnFlow |-> "flow" \in row.on, link |-> link])

StoredOutRows ==
  {OutRow(p, n, s) : p \in {"vmess", "vless", "trojan", "shadowsocks"}, n \in RowNetworks,
                     s \in {"none", "tls", "reality"}}
  \cup {PlainRow(p) : p \in OutProtocols} \cup {OutRow("hysteria", "hysteria", "tls")}
FitsRow(r) ==
  /\ r.sec = "tls" => canEnableTls(r.protocol, r.net)
  /\ r.sec = "reality" => canEnableReality(r.protocol, r.net)
\* Rows typed as JSON: of the form's protocol and of others.
JsonRows == {OutRow("vless", "tcp", "reality"), OutRow("vmess", "ws", "tls"), PlainRow("freedom")}

OutInit == out = NoDialog

OpenOut ==
  /\ out = NoDialog
  /\ \/ out' = Loaded("add", PlainRow("vless"), NoLink)
     \/ \E r \in StoredOutRows : FitsRow(r) /\ out' = Loaded("edit", r, NoLink)
CloseOut == out # NoDialog /\ out' = NoDialog
InForm == out # NoDialog /\ out.tab = "form"
\* Every rendering of the dialog reads the flow again.
Drawn(f) == [f EXCEPT !.drawnFlow = "flow" \in f.on, !.link = NoLink]

OutProtocolChange(p) ==
  /\ InForm /\ p # out.protocol
  /\ out' = Drawn(Seeded([out EXCEPT !.protocol = p, !.on = @ \ SettingsParts]))
\* onNetworkChange: the whole stream is a fresh one, but for a security that fits.
OutNetworkChange(n) ==
  /\ InForm /\ streamShown(out) /\ n \in NETWORK_OPTIONS(out.protocol) \ {out.net}
  /\ LET unfit == \/ out.sec = "tls" /\ ~canEnableTls(out.protocol, n)
                  \/ out.sec = "reality" /\ ~canEnableReality(out.protocol, n)
     IN out' = Drawn([out EXCEPT !.net = n, !.sec = IF unfit THEN "none" ELSE @,
                                 !.on = @ \cap (SettingsParts \cup {"mux"})])
OutSecurityChange(s) ==
  /\ InForm /\ streamShown(out) /\ s # out.sec
  /\ s = "tls" => canEnableTls(out.protocol, out.net)
  /\ s = "reality" => canEnableReality(out.protocol, out.net)
  /\ out' = Drawn([out EXCEPT !.sec = s])
OutToggle(o) ==
  /\ InForm /\ o \in OutOffered(out)
  /\ LET rivals == UNION {r \in OutRivals : o \in r} \ {o}
     IN out' = [out EXCEPT !.link = NoLink,
                  !.on = Pruned(IF o \in @ THEN @ \ {o} ELSE (@ \ rivals) \cup {o})]
TypeTag == InForm /\ out' = Drawn(out)

ShowJson == InForm /\ out' = Drawn([out EXCEPT !.tab = "json", !.json = CleanText])
TypeJson ==
  /\ out # NoDialog /\ out.tab = "json"
  /\ \/ out' = [out EXCEPT !.json = BadText]
     \/ \E r \in JsonRows : out' = [out EXCEPT !.json = r]
\* applyJsonToForm: text that does not parse keeps the tab and the form.
Applied(f) == IF f.json \in {CleanText, BadText} THEN f ELSE Loaded(f.open, f.json, NoLink)
ShowForm ==
  /\ out # NoDialog /\ out.tab = "json" /\ out.json # BadText
  /\ out' = Drawn([Applied(out) EXCEPT !.tab = "form"])

\* A link of one of the panel's own inbounds.  Bound: it is imported over a text
\* nobody has typed into; what an import leaves does not depend on the text.
LinkInbounds == {r \in {OutRow(p, n, s) : p \in LinkProtocols, n \in Networks, s \in {"none", "tls", "reality"}} :
                   FitsRow(r)}
OwnLinks ==
  UNION {genAllLinks(r.protocol, r.net, r.sec, on, forced) :
           r \in LinkInbounds, on \in {{}, {"http", "obfs"}}, forced \in {{}, {"tls", "none"}}}
ImportLink(l) ==
  /\ out # NoDialog /\ out.tab = "json" /\ out.json = CleanText /\ Parseable(l)
  /\ out' = Loaded(out.open, OutRow(l.protocol, ImportedNetwork(l), parseOutboundLink(l).security), l)

\* onOk: the JSON is applied to the store, but the fields taken are those that
\* were registered when the dialog was drawn last.
ConfirmOut ==
  /\ out # NoDialog /\ out.json # BadText
  /\ IF Convertible(Applied(out), Registered(out)) THEN out' = NoDialog
     ELSE out' = [Applied(out) EXCEPT !.tab = out.tab]

OutStep ==
  \/ OpenOut \/ CloseOut \/ TypeTag \/ ShowJson \/ TypeJson \/ ShowForm \/ ConfirmOut
  \/ \E p \in OutProtocols : OutProtocolChange(p)
  \/ \E n \in Networks \cup {"hysteria"} : OutNetworkChange(n)
  \/ \E s \in {"none", "tls", "reality"} : OutSecurityChange(s)
  \/ \E o \in OutParts : OutToggle(o)
  \/ \E l \in OwnLinks : ImportLink(l)
OutNext == OutStep /\ (out' # NoDialog => Cardinality(out'.on) <= MaxParts)
OutSpec == OutInit /\ [][OutNext]_outVars

---------------------------------------------------------------------------
\* What the form tab binds to the form is in the row OK hands over, whatever was
\* switched on before: no control writes into a part the adapter or its gates
\* drop.  Left out are the helpers that only the dialog uses, the masks drawn for
\* a protocol without a stream, and mux while it is off or was drawn for a flow
\* that has changed since.
OutFieldsSent ==
  InForm /\ Convertible(out, Registered(out)) =>
    \A x \in Registered(out) \ Confirmed(out) :
      \/ x \in {<<"settings", "pubKey">>, <<"xhttp", "enableXmux">>}
      \/ x[1] = "finalmask" /\ ~canEnableStream(out.protocol)
      \/ x[1] = "mux" /\ ("mux" \notin out.on \/ out.drawnFlow # ("flow" \in out.on))

\* A row the dialog made reads back whole when it is opened again: the readers
\* of rawOutboundToFormValues know every setting formValuesToWirePayload writes
\* (but for the encryption of vless, which the reader replaces by "none").
OutReadsBack ==
  InForm /\ Convertible(out, Registered(out)) =>
    \A x \in Confirmed(out) :
      x[1] = "settings" => x \in SettingsFromWire(out.protocol) \cup {<<"settings", "encryption">>}

\* What a client cannot do without to reach the server a link stands for.
Essential ==
  Fields("settings", {"address", "port", "id", "password"}) \cup {<<"hysteria", "auth">>}
    \cup Fields("tcp", {"header.type", "request.path", "request.host"})
    \cup ({"ws", "httpupgrade", "xhttp"} \X {"path", "host"}) \cup {<<"grpc", "serviceName">>}
    \cup ({"tls", "reality"} \X {"serverName"}) \cup Fields("reality", {"publicKey", "shortId"})
\* A link the panel wrote imports into an outbound that reaches the same server
\* the same way: the network, the security and the fields above are those of the
\* link.  Shadowsocks links are left out: their reader loses port and stream.
LinkConnects ==
  out # NoDialog /\ out.link # NoLink /\ out.link.protocol # "shadowsocks" =>
    /\ out.net = out.link.network /\ out.sec = out.link.security
    /\ out.link.carries \cap Essential \subseteq parseOutboundLink(out.link).reads

---------------------------------------------------------------------------
(* What a comment of the source, or a reader of the page, would expect and  *)
(* the code does not do: no run checks these (README, 5).                   *)
\* The security the form tab shows is in the row OK hands over.
SecurityIsConfirmed ==
  InForm /\ SecurityRadio(out) # {} /\ out.sec # "none" => SecurityRadio(out) \subseteq Confirmed(out)

\* A form that shows no error can be confirmed: the adapter finds what it reads.
FormConvertible == InForm => Convertible(out, Registered(out))
=============================================================================
