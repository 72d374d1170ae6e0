---------------------------- MODULE InboundForm ----------------------------
(* The dialog that adds or edits an inbound                                 *)
(* (src/frontend/src/pages/inbounds/InboundFormModal.tsx): its form store,  *)
(* the switches that rebuild parts of the store, the generator requests     *)
(* whose answers are written into whatever the store holds by then, the     *)
(* fields each state shows, and what submitting it sends.                   *)
(*                                                                          *)
(* A block is the object of the store that holds a field: the settings of a *)
(* protocol, of a network, of a security, or a part of one.                 *)
EXTENDS FormFields, Sequences, TLC

CONSTANT MaxTouched   \* bound: what differs from a fresh form at a time (Busy)
CONSTANT MaxCerts     \* bound: certificates in the list
CONSTANT Children     \* other inbounds of the panel, the targets of fallbacks

VARIABLES inb,     \* the form store, and whether the dialog is open
          asked,   \* generator requests under way
          fb       \* fallback rows, kept outside the form store

inbVars == <<inb, asked, fb>>

Protocols == {"vless", "vmess", "trojan", "shadowsocks", "hysteria",
              "wireguard", "http", "mixed", "tunnel", "tun"}
NODE_ELIGIBLE_PROTOCOLS == Protocols \ {"http", "mixed", "tunnel", "tun"}

---------------------------------------------------------------------------
\* The hosts that hand connections over to other inbounds.
isFallbackHost(f) ==
  f.protocol \in {"vless", "trojan"} /\ f.network = "tcp" /\ f.security \in {"tls", "reality"}

---------------------------------------------------------------------------
\* The fields on the screen.
BasicFields(f) ==
  Fields("base", {"enable", "tgOnlineNotify", "remark", "protocol", "listen", "port",
                  "total", "trafficReset", "expiryTime"})
    \cup When(f.protocol \in NODE_ELIGIBLE_PROTOCOLS, {<<"base", "nodeId">>})
HysteriaPortHoppingFields(f) ==
  When(f.protocol = "hysteria",
       Fields("hysteria", {"portHopping.enable"}
                \cup When("hopping" \in f.on, {"portHopping.range"})))
\* The columns of every row, whether or not a child was picked in it.
FallbackColumns(rows) ==
  Fields("fallbacks", rows \X {"childId", "name", "alpn", "path", "xver"})
FallbacksCard(f) == When(isFallbackHost(f), FallbackColumns(DOMAIN fb))
WireguardFields(f) ==
  When(f.protocol = "wireguard",
       Fields("wireguard", {"secretKey", "mtu", "noKernelTun", "peers.privateKey",
              "peers.publicKey", "peers.preSharedKey", "peers.allowedIPs", "peers.keepAlive"}))
TunFields(f) ==
  When(f.protocol = "tun",
       Fields("tun", {"name", "mtu", "gateway", "dns", "userLevel",
              "autoSystemRoutingTable", "autoOutboundsInterface"}))
TunnelFields(f) ==
  When(f.protocol = "tunnel",
       Fields("tunnel", {"rewriteAddress", "rewritePort", "allowedNetwork", "portMap",
              "followRedirect"}))
AccountFields(f) ==
  When(f.protocol \in {"http", "mixed"},
       Fields(f.protocol, {"accounts"}
          \cup When(f.protocol = "http", {"allowTransparent"})
          \cup When(f.protocol = "mixed", {"auth", "udp"} \cup When("udp" \in f.on, {"ip"}))))
ShadowsocksFields(f) ==
  When(f.protocol = "shadowsocks",
       Fields("shadowsocks", {"method", "network", "ivCheck"}
          \cup When("legacyMethod" \notin f.on, {"password"})))
VlessFields(f) ==
  When(f.protocol = "vless",
       Fields("vless", {"decryption", "encryption"}
          \cup When(f.network = "tcp" /\ f.security \in {"tls", "reality"}, {"testseed"})))
HysteriaFields(f) ==
  When(f.protocol = "hysteria",
       Fields("hysteria", {"version", "udpIdleTimeout"}
          \cup When("masq.proxy" \in f.on, {"masquerade.type", "masquerade.url",
                      "masquerade.rewriteHost", "masquerade.insecure"})
          \cup When("masq.file" \in f.on, {"masquerade.type", "masquerade.dir"})
          \cup When("masq.string" \in f.on, {"masquerade.type", "masquerade.statusCode",
                      "masquerade.content", "masquerade.headers"})))
TcpFields(f) ==
  When(f.network = "tcp",
       Fields("tcp", {"acceptProxyProtocol", "header.type"}
          \cup When("http" \in f.on, {"header.response.version", "header.response.status",
                      "header.response.reason", "header.response.headers"})))
WsFields(f) ==
  When(f.network = "ws",
       Fields("ws", {"acceptProxyProtocol", "host", "path", "heartbeatPeriod", "headers"}))
GrpcFields(f) ==
  When(f.network = "grpc", Fields("grpc", {"serviceName", "authority", "multiMode"}))
XhttpFields(f) ==
  When(f.network = "xhttp",
       Fields("xhttp", {"host", "path", "mode", "serverMaxHeaderBytes", "xPaddingBytes",
              "uplinkHTTPMethod", "xPaddingObfsMode"}
          \cup When("packet-up" \in f.on, {"scMaxBufferedPosts", "scMaxEachPostBytes"})
          \cup When("stream-up" \in f.on, {"scStreamUpServerSecs"})
          \cup When("obfs" \in f.on, {"xPaddingKey", "xPaddingHeader", "xPaddingPlacement",
                      "xPaddingMethod"})))
XhttpPlacementFields(f) ==
  When(f.network = "xhttp",
       Fields("xhttp", {"sessionPlacement", "seqPlacement", "noSSEHeader"}
          \cup When("session" \in f.on, {"sessionKey"})
          \cup When("seq" \in f.on, {"seqKey"})
          \cup When("packet-up" \in f.on, {"uplinkDataPlacement"}
                 \cup When("uplink" \in f.on, {"uplinkDataKey"}))))
HttpUpgradeFields(f) ==
  When(f.network = "httpupgrade",
       Fields("httpupgrade", {"acceptProxyProtocol", "host", "path", "headers"}))
KcpFields(f) ==
  When(f.network = "kcp",
       Fields("kcp", {"mtu", "tti", "uplinkCapacity", "downlinkCapacity", "cwndMultiplier",
              "maxSendingWindow"}))
ExternalProxyFields(f) ==
  When("proxy" \in f.on,
       Fields("externalProxy", {"forceTls", "dest", "port", "remark"}
          \cup When("proxy.tls" \in f.on, {"sni", "fingerprint", "alpn"})))
SockoptFields(f) ==
  When("sockopt" \in f.on,
       Fields("sockopt", {"mark", "tcpKeepAliveInterval", "tcpKeepAliveIdle", "tcpMaxSeg",
              "tcpUserTimeout", "tcpWindowClamp", "acceptProxyProtocol", "tcpFastOpen",
              "tcpMptcp", "penetrate", "V6Only", "domainStrategy", "tcpcongestion", "tproxy",
              "dialerProxy", "interfaceName", "trustedXForwardedFor", "addressPortStrategy"}))
SockoptListFields(f) ==
  When("sockopt" \in f.on,
       Fields("sockopt", {"customSockopt"}
          \cup When("eyeballs" \in f.on, {"happyEyeballs.tryDelayMs",
                      "happyEyeballs.prioritizeIPv6", "happyEyeballs.interleave",
                      "happyEyeballs.maxConcurrentTry"})))
TlsFields(f) ==
  When(f.security = "tls",
       Fields("tls", {"serverName", "cipherSuites", "minVersion", "maxVersion",
              "settings.fingerprint", "alpn", "rejectUnknownSni", "disableSystemRoot",
              "enableSessionResumption", "echServerKeys", "settings.echConfigList"}))
CertificateFields(f) ==
  When(f.security = "tls" /\ f.certs # << >>,
       Fields("certificates", {"oneTimeLoading", "usage"}
          \cup When("issue" \in f.on, {"buildChain"})
          \cup When(\E i \in DOMAIN f.certs : f.certs[i].useFile, {"certificateFile", "keyFile"})
          \cup When(\E i \in DOMAIN f.certs : ~f.certs[i].useFile, {"certificate", "key"})))
RealityFields(f) ==
  When(f.security = "reality",
       Fields("reality", {"show", "xver", "settings.fingerprint", "target", "serverNames",
              "maxTimediff", "minClientVer", "maxClientVer", "shortIds", "settings.spiderX",
              "settings.publicKey", "privateKey", "mldsa65Seed", "settings.mldsa65Verify"}))
SniffingFields(f) ==
  Fields("sniffing", {"enabled"}
    \cup When("sniffing" \in f.on, {"destOverride", "metadataOnly", "routeOnly", "ipsExcluded",
                "domainsExcluded"}))

ProtocolTab(f) ==
  When(f.protocol \in {"vless", "shadowsocks", "http", "mixed", "tunnel", "tun", "wireguard"}
         \/ isFallbackHost(f),
       WireguardFields(f) \cup TunFields(f) \cup TunnelFields(f) \cup AccountFields(f)
         \cup ShadowsocksFields(f) \cup VlessFields(f) \cup FallbacksCard(f))
StreamTab(f) ==
  When(f.protocol # "hysteria", {<<"base", "network">>})
    \cup HysteriaFields(f) \cup TcpFields(f) \cup WsFields(f) \cup GrpcFields(f)
    \cup XhttpFields(f) \cup XhttpPlacementFields(f) \cup HttpUpgradeFields(f) \cup KcpFields(f)
    \cup ExternalProxyFields(f) \cup SockoptFields(f) \cup SockoptListFields(f)
    \cup FinalMaskFields(f.network, f.protocol, f.on)
SecurityTab(f) == {<<"base", "security">>} \cup TlsFields(f) \cup CertificateFields(f) \cup RealityFields(f)
\* Everything the open dialog lets its reader type into, on whatever tab.
Visible(f) ==
  BasicFields(f) \cup HysteriaPortHoppingFields(f) \cup ProtocolTab(f) \cup SniffingFields(f)
    \cup When(canEnableStream(f.protocol), StreamTab(f) \cup SecurityTab(f))

---------------------------------------------------------------------------
\* What the schemas keep: parsing drops every key a schema does not name.
NetworkSchema ==
  [tcp |-> {"acceptProxyProtocol", "header.type", "header.response.version",
            "header.response.status", "header.response.reason", "header.response.headers"},
   kcp |-> {"mtu", "tti", "uplinkCapacity", "downlinkCapacity", "cwndMultiplier",
            "maxSendingWindow"},
   ws |-> {"acceptProxyProtocol", "path", "host", "headers", "heartbeatPeriod"},
   grpc |-> {"serviceName", "authority", "multiMode"},
   httpupgrade |-> {"acceptProxyProtocol", "path", "host", "headers"}]
XHttpStreamSettingsSchema ==
  {"path", "host", "mode", "xPaddingBytes", "xPaddingObfsMode", "xPaddingKey",
   "xPaddingHeader", "xPaddingPlacement", "xPaddingMethod", "sessionPlacement", "sessionKey",
   "seqPlacement", "seqKey", "uplinkDataPlacement", "uplinkDataKey", "scMaxEachPostBytes",
   "noSSEHeader", "scMaxBufferedPosts", "scStreamUpServerSecs", "serverMaxHeaderBytes",
   "uplinkHTTPMethod", "headers", "scMinPostsIntervalMs", "uplinkChunkSize", "noGRPCHeader",
   "xmux", "enableXmux"}
HysteriaStreamSettingsSchema ==
  {"version", "auth", "udpIdleTimeout", "portHopping.enable", "portHopping.range",
   "masquerade.type", "masquerade.dir", "masquerade.url", "masquerade.rewriteHost",
   "masquerade.insecure", "masquerade.content", "masquerade.headers", "masquerade.statusCode"}
SockoptBeforeForwarding ==   \* mutant: a field added to the form only
  {"acceptProxyProtocol", "tcpFastOpen", "mark", "tproxy", "tcpMptcp", "penetrate",
   "domainStrategy", "tcpMaxSeg", "dialerProxy", "tcpKeepAliveInterval", "tcpKeepAliveIdle",
   "tcpUserTimeout", "tcpcongestion", "V6Only", "tcpWindowClamp", "interfaceName",
   "addressPortStrategy", "customSockopt"}
SockoptStreamSettingsSchema ==
  {"acceptProxyProtocol", "tcpFastOpen", "mark", "tproxy", "tcpMptcp", "penetrate",
   "domainStrategy", "tcpMaxSeg", "dialerProxy", "tcpKeepAliveInterval", "tcpKeepAliveIdle",
   "tcpUserTimeout", "tcpcongestion", "V6Only", "tcpWindowClamp", "interfaceName",
   "trustedXForwardedFor", "addressPortStrategy", "customSockopt", "happyEyeballs.tryDelayMs",
   "happyEyeballs.prioritizeIPv6", "happyEyeballs.interleave", "happyEyeballs.maxConcurrentTry"}
ExternalProxyEntrySchema == {"forceTls", "dest", "port", "remark", "sni", "fingerprint", "alpn"}
TlsStreamSettingsSchema ==
  {"serverName", "minVersion", "maxVersion", "cipherSuites", "rejectUnknownSni",
   "disableSystemRoot", "enableSessionResumption", "alpn", "echServerKeys",
   "settings.fingerprint", "settings.echConfigList"}
RealityStreamSettingsSchema ==
  {"show", "xver", "target", "serverNames", "privateKey", "minClientVer", "maxClientVer",
   "maxTimediff", "shortIds", "mldsa65Seed", "settings.publicKey", "settings.fingerprint",
   "settings.serverName", "settings.spiderX", "settings.mldsa65Verify"}
\* A certificate is parsed as a file pair when both names are there, and as
\* inline text otherwise: useFile itself is not a key of either schema.
TlsCertSchema(c) ==
  {"oneTimeLoading", "usage", "buildChain"}
    \cup (IF c.file THEN {"certificateFile", "keyFile"} ELSE {"certificate", "key"})
InboundSettingsSchema ==
  [vless |-> {"clients", "decryption", "encryption", "fallbacks", "testseed"},
   vmess |-> {"clients"}, trojan |-> {"clients", "fallbacks"}, hysteria |-> {"version", "clients"},
   shadowsocks |-> {"method", "password", "network", "clients", "ivCheck"},
   wireguard |-> {"mtu", "secretKey", "noKernelTun", "peers.privateKey", "peers.publicKey",
                  "peers.preSharedKey", "peers.allowedIPs", "peers.keepAlive"},
   http |-> {"accounts", "allowTransparent"}, mixed |-> {"auth", "accounts", "udp", "ip"},
   tunnel |-> {"rewriteAddress", "rewritePort", "portMap", "allowedNetwork", "followRedirect"},
   tun |-> {"name", "mtu", "gateway", "dns", "userLevel", "autoSystemRoutingTable",
            "autoOutboundsInterface"}]
SniffingSchema == {"enabled", "destOverride", "metadataOnly", "routeOnly", "ipsExcluded",
                   "domainsExcluded"}
BaseSchema == {"remark", "enable", "port", "listen", "tag", "expiryTime", "tgOnlineNotify",
               "up", "down", "total", "trafficReset", "lastTrafficResetTime", "nodeId",
               "protocol", "network", "security"}

TlsCertTaken(c) == c.file \/ c.whole
\* safeParse accepts a store whose settings are those of its protocol and whose
\* stream settings, if there are any, name a network and hold the blocks of the
\* network and of the security, with certificates that are of either schema.
Accepted(f) ==
  /\ f.settings = f.protocol
  /\ f.blocks # {} => f.network # ""
  /\ f.network # "" => {f.network} \cup SecurityBlocks(f.security) \subseteq f.blocks
  /\ f.security = "tls" => \A i \in DOMAIN f.certs : TlsCertTaken(f.certs[i])

\* normalizeSniffing: a disabled sniffing is sent as { enabled: false }.
normalizeSniffing(f) == IF "sniffing" \in f.on THEN SniffingSchema ELSE {"enabled"}

StreamSent(f) ==
  IF f.network = "" THEN {}
  ELSE (CASE f.network = "xhttp" -> Fields("xhttp", XHttpStreamSettingsSchema)
          [] f.network = "hysteria" -> Fields("hysteria", HysteriaStreamSettingsSchema)
          [] OTHER -> Fields(f.network, NetworkSchema[f.network]))
       \cup FinalMaskKept(f.on)
       \cup When("proxy" \in f.on, Fields("externalProxy", ExternalProxyEntrySchema))
       \cup When("sockopt" \in f.on, Fields("sockopt", SockoptStreamSettingsSchema))
       \cup When(f.security = "tls", Fields("tls", TlsStreamSettingsSchema)
              \cup Fields("certificates", UNION {TlsCertSchema(f.certs[i]) : i \in DOMAIN f.certs}))
       \cup When(f.security = "reality", Fields("reality", RealityStreamSettingsSchema))

\* formValuesToWirePayload of the parsed store, and the fallbacks posted after
\* it: saveFallbacks leaves out the rows without a child.
WithChild == {i \in DOMAIN fb : fb[i].child # "none"}
Parsed(f) ==
  Fields("base", BaseSchema) \cup Fields(f.protocol, InboundSettingsSchema[f.protocol])
    \cup StreamSent(f) \cup Fields("sniffing", normalizeSniffing(f))
    \cup When(isFallbackHost(f), FallbackColumns(WithChild))

SentRegistered(f) == Parsed(f) \cap Visible(f)   \* mutant: getFieldsValue()

\* submit takes the whole store (getFieldsValue(true)), not only the fields
\* that some tab registers.
Sent(f) == Parsed(f)

\* The blocks of stream settings in the payload, and those the editor of the
\* whole inbound shows.
StreamBlocksSent(f) == IF f.network = "" THEN {} ELSE {f.network} \cup SecurityBlocks(f.security)
AllEditorBlocks(f) == IF canEnableStream(f.protocol) THEN f.blocks ELSE {}

---------------------------------------------------------------------------
\* Optional parts a switch or a select of the form turns on, and their homes.
Option == [hopping |-> "hysteria", udp |-> "mixed", legacyMethod |-> "shadowsocks",
           sniffing |-> "base", proxy |-> "stream", sockopt |-> "stream", eyeballs |-> "sockopt",
           obfs |-> "xhttp", session |-> "xhttp", seq |-> "xhttp", http |-> "tcp", issue |-> "tls"]
         @@ [x \in {"proxy.tls"} |-> "proxy"]
         @@ [x \in {"packet-up", "stream-up"} |-> "xhttp"]
         @@ [x \in {"uplink"} |-> "packet-up"]
         @@ [x \in {"quic.hop"} |-> "quic"]
         @@ [x \in {"masq.proxy", "masq.file", "masq.string"} |-> "hysteria"]
         @@ [m \in MaskParts \ {"quic.hop"} |-> "mask"]
Offered(f, o) ==
  \/ Option[o] \in {"base", f.protocol, f.network}
  \/ Option[o] = "stream" /\ canEnableStream(f.protocol)
  \/ Option[o] \in f.on
  \/ Option[o] = f.security
  \/ canEnableStream(f.protocol) /\ o \in MaskOffered(f.network, f.protocol, f.on)
\* Alternatives of one select.
Rivals == {{"packet-up", "stream-up"}, Quic, {"masq.proxy", "masq.file", "masq.string"}}

\* A certificate: the mode it is shown in, whether the two file names and the two
\* texts are filled in, and whether it has lists for the texts at all (whole).
DefaultCert == [useFile |-> TRUE, file |-> FALSE, inline |-> FALSE, whole |-> TRUE]
FileCert == [useFile |-> TRUE, file |-> TRUE, inline |-> FALSE, whole |-> FALSE]
TextCert == [useFile |-> FALSE, file |-> FALSE, inline |-> TRUE, whole |-> TRUE]
Hole == [useFile |-> FALSE, file |-> FALSE, inline |-> FALSE, whole |-> FALSE]
Keeps(f, gone) == {o \in f.on : Option[o] \notin gone}
SetOn(f, on) ==
  [f EXCEPT !.on = {o \in on : /\ Option[o] \in {"proxy", "sockopt"} => Option[o] \in on
                               /\ Option[o] = "quic" => Quic \cap on # {}}]

---------------------------------------------------------------------------
Closed == [open |-> "no"]
\* What is under way or differs from a fresh form, whose first certificate may be
\* any that is stored when it edits.
FreshCerts == [add |-> {DefaultCert}, edit |-> {DefaultCert, FileCert, TextCert}]
Busy(f, req, rows) ==
  Cardinality(req) + Len(rows)
    + IF f = Closed THEN 0
      ELSE Cardinality(f.on) + Cardinality(f.blocks \ ({f.network} \cup SecurityBlocks(f.security)))
             + Cardinality({i \in DOMAIN f.certs : i > 1 \/ f.certs[i] \notin FreshCerts[f.open]})
             + (IF f.raw THEN 1 ELSE 0)
Store(mode, p, n, s, on) ==
  [open |-> mode, protocol |-> p, settings |-> p, network |-> n, security |-> s,
   blocks |-> IF n = "" THEN {} ELSE {n} \cup SecurityBlocks(s), on |-> on,
   certs |-> IF s = "tls" THEN <<DefaultCert>> ELSE << >>, raw |-> FALSE]

buildAddModeValues == Store("add", "vless", "tcp", "none", {})
\* rawInboundToFormValues: a stored row, its network block put back if missing;
\* of a certificate only the names or the texts were stored.
StoredCerts == {<< >>, <<FileCert>>, <<TextCert>>}
StoredRows ==
  {[Store("edit", p, n, s, {}) EXCEPT !.certs = certs] :
     p \in Protocols \ {"hysteria"}, n \in RowNetworks, s \in {"none", "tls", "reality"}, certs \in StoredCerts}
  \cup {[Store("edit", "hysteria", "hysteria", "tls", {}) EXCEPT !.certs = certs] : certs \in StoredCerts}
rawInboundToFormValues ==
  {f \in StoredRows : /\ canEnableStream(f.protocol) <=> f.network # ""
                      /\ f.security # "tls" => f.certs = << >>
                      /\ f.security = "tls" => canEnableTls(f.protocol, f.network)
                      /\ f.security = "reality" => canEnableReality(f.protocol, f.network)}

InbInit == inb = Closed /\ asked = {} /\ fb = << >>

OpenAdd == inb = Closed /\ inb' = buildAddModeValues /\ fb' = << >> /\ UNCHANGED asked
\* loadFallbacks is asked for the hosts that can have them; the others start empty.
OpenEdit ==
  /\ inb = Closed
  /\ inb' \in rawInboundToFormValues
  /\ IF inb'.protocol \in {"vless", "trojan"}
       THEN asked' = asked \cup {"fallbacks"} /\ UNCHANGED fb
       ELSE fb' = << >> /\ UNCHANGED asked
CloseForm == inb # Closed /\ inb' = Closed /\ UNCHANGED <<asked, fb>>

\* A dialog with a button request under way shows its buttons and OK as busy.
Saving == asked \cap {"x25519", "mldsa65", "ech", "cert", "vlessEnc"} # {}

\* onValuesChange: a new protocol replaces the settings, and hysteria the stream.
ProtocolChange(p) ==
  /\ inb.open = "add" /\ p # inb.protocol
  /\ inb' = IF p = "hysteria"
            THEN [Store("add", p, "hysteria", "tls", Keeps(inb, {inb.protocol, inb.network, "stream",
                       "proxy", "sockopt", "tls", "mask"})) EXCEPT !.raw = inb.raw]
            ELSE IF inb.network = "hysteria"
            THEN [Store("add", p, "tcp", "none", Keeps(inb, {"hysteria", "stream", "proxy", "sockopt",
                       "tls", "mask"})) EXCEPT !.raw = inb.raw]
            ELSE [inb EXCEPT !.protocol = p, !.settings = p, !.on = Keeps(inb, {inb.protocol})]
  /\ UNCHANGED <<asked, fb>>

NetworkChangeKeepsBlocks(n) ==   \* mutant: the new network's block is forgotten
  /\ inb.open # "no" /\ canEnableStream(inb.protocol) /\ inb.protocol # "hysteria"
  /\ n # inb.network
  /\ inb' = [inb EXCEPT !.network = n, !.on = Keeps(inb, {inb.network})]
  /\ UNCHANGED <<asked, fb>>

\* onNetworkChange: the blocks of the other networks go, a fresh one comes;
\* mKCP starts with a mask.
NetworkChange(n) ==
  /\ inb.open # "no" /\ canEnableStream(inb.protocol) /\ inb.protocol # "hysteria"
  /\ n # inb.network
  /\ inb' = [inb EXCEPT !.network = n, !.blocks = (@ \ Networks) \cup {n},
                        !.on = Keeps(inb, {inb.network})
                                 \cup When(n = "kcp", {"udp.mkcp-original"})]
  /\ UNCHANGED <<asked, fb>>

\* onSecurityChange: both security blocks go and the chosen one is rebuilt;
\* Reality asks for a key pair without marking the dialog as busy.
SecurityChange(s) ==
  /\ inb.open # "no" /\ canEnableStream(inb.protocol) /\ canEnableTls(inb.protocol, inb.network)
  /\ s = "none" => inb.protocol # "hysteria"
  /\ s = "reality" => canEnableReality(inb.protocol, inb.network)
  /\ s # inb.security
  /\ inb' = [inb EXCEPT !.security = s, !.blocks = (@ \ {"tls", "reality"}) \cup SecurityBlocks(s),
                        !.on = Keeps(inb, {"tls"}),
                        !.certs = IF s = "tls" THEN <<DefaultCert>> ELSE << >>]
  /\ asked' = IF s = "reality" THEN asked \cup {"reality"} ELSE asked
  /\ UNCHANGED fb

\* A switch, or a select with dependent fields; the sub-options of a part go with it.
Toggle(o) ==
  /\ inb.open # "no" /\ Offered(inb, o)
  /\ LET rivals == UNION {r \in Rivals : o \in r} \ {o}
         on == IF o \in inb.on THEN inb.on \ {o} ELSE (inb.on \ rivals) \cup {o}
     IN inb' = SetOn(inb, on)
  /\ UNCHANGED <<asked, fb>>

AddCertificate ==
  /\ inb.open # "no" /\ inb.security = "tls" /\ Len(inb.certs) < MaxCerts
  /\ inb' = [inb EXCEPT !.certs = Append(@, DefaultCert)]
  /\ UNCHANGED <<asked, fb>>
RemoveCertificate(i) ==
  /\ inb.open # "no" /\ Len(inb.certs) > 1 /\ i \in DOMAIN inb.certs
  /\ inb' = [inb EXCEPT !.certs = [j \in 1..(Len(@) - 1) |-> IF j < i THEN @[j] ELSE @[j + 1]]]
  /\ UNCHANGED <<asked, fb>>
\* The mode of a certificate, and text typed into the fields the mode shows.
EditCertificate(i, c) ==
  /\ inb.open # "no" /\ i \in DOMAIN inb.certs
  /\ \/ c = [inb.certs[i] EXCEPT !.useFile = ~@]
     \/ inb.certs[i].useFile /\ c = [inb.certs[i] EXCEPT !.file = ~@]
     \/ ~inb.certs[i].useFile /\ c = [inb.certs[i] EXCEPT !.inline = ~@, !.whole = TRUE]
  /\ inb' = [inb EXCEPT !.certs[i] = c]
  /\ UNCHANGED <<asked, fb>>

\* The buttons that ask the server for keys, certificates or encryption.
Generate(kind) ==
  /\ inb.open # "no" /\ ~Saving
  /\ \/ kind \in {"x25519", "mldsa65"} /\ inb.security = "reality"
     \/ kind = "ech" /\ inb.security = "tls"
     \/ kind = "cert" /\ \E i \in DOMAIN inb.certs : inb.certs[i].useFile
     \/ kind = "vlessEnc" /\ inb.protocol = "vless"
  /\ asked' = asked \cup {kind}
  /\ UNCHANGED <<inb, fb>>

\* setFieldValue creates the objects on the path that are missing by now, stream
\* settings without a network among them; the certificate is addressed by the
\* index it had when the button was pressed, beyond the end with holes before it.
\* Of the two names that are filled in one may be empty.
Written(f, kind) ==
  CASE kind \in {"x25519", "mldsa65", "reality"} -> [f EXCEPT !.blocks = @ \cup {"reality"}]
    [] kind = "ech" -> [f EXCEPT !.blocks = @ \cup {"tls"}]
    [] OTHER -> f
CertificateAnswer(f, i, both) ==
  LET known(j) == IF j \in DOMAIN f.certs THEN f.certs[j] ELSE Hole
      named(j) == IF j = i THEN [known(j) EXCEPT !.file = both] ELSE known(j)
  IN [f EXCEPT !.blocks = @ \cup {"tls"},
               !.certs = IF f.security # "tls" THEN @
                         ELSE [j \in 1..(IF i > Len(@) THEN i ELSE Len(@)) |-> named(j)]]
Answer(kind) ==
  /\ kind \in asked \ {"fallbacks"}
  /\ asked' = asked \ {kind}
  /\ \/ inb' = inb          \* refused, or nobody looks at the store any more
     \/ inb # Closed /\ kind # "cert" /\ inb' = Written(inb, kind)
     \/ inb # Closed /\ kind = "cert" /\ \E i \in 1..MaxCerts, both \in BOOLEAN :
          inb' = CertificateAnswer(inb, i, both)
  /\ UNCHANGED fb

---------------------------------------------------------------------------
\* Fallback rows: the child, the inbound whose columns (SNI, ALPN, path) the row
\* carries, and whether somebody typed into them.
Blank == [child |-> "none", cols |-> "none", typed |-> FALSE]
Derived(c) == [child |-> c, cols |-> c, typed |-> FALSE]
Editable == inb # Closed /\ isFallbackHost(inb)
FallbacksLoaded ==
  /\ "fallbacks" \in asked
  /\ asked' = asked \ {"fallbacks"}
  /\ fb' \in {<<Derived(c)>> : c \in Children} \cup {<< >>}
  /\ UNCHANGED inb
AddFallback ==
  /\ Editable
  /\ fb' = Append(fb, Blank)
  /\ UNCHANGED <<inb, asked>>
\* updateFallback: a row whose columns are all empty takes those of the child
\* picked (deriveFallbackDefaults); any other row keeps what it has.
PickChild(i, c) ==
  /\ Editable /\ i \in DOMAIN fb /\ c # fb[i].child
  /\ fb' = [fb EXCEPT ![i] = IF @.cols = "none" /\ ~@.typed THEN Derived(c)
                             ELSE [@ EXCEPT !.child = c]]
  /\ UNCHANGED <<inb, asked>>
TypeColumn(i) ==
  /\ Editable /\ i \in DOMAIN fb
  /\ fb' = [fb EXCEPT ![i].typed = TRUE]
  /\ UNCHANGED <<inb, asked>>
MoveFallback(i) ==
  /\ Editable /\ {i, i + 1} \subseteq DOMAIN fb
  /\ fb' = [fb EXCEPT ![i] = fb[i + 1], ![i + 1] = fb[i]]
  /\ UNCHANGED <<inb, asked>>
RemoveFallback(i) ==
  /\ Editable /\ i \in DOMAIN fb
  /\ fb' = [j \in 1..(Len(fb) - 1) |-> IF j < i THEN fb[j] ELSE fb[j + 1]]
  /\ UNCHANGED <<inb, asked>>
\* addAllFallbacks: one row for every inbound that is no row's child yet.
AddAllFallbacks ==
  /\ Editable /\ Len(fb) < Cardinality(Children)
  /\ LET new == Children \ {fb[i].child : i \in DOMAIN fb}
     IN \E order \in [1..Cardinality(new) -> new] :
          /\ {order[i] : i \in DOMAIN order} = new
          /\ fb' = fb \o [i \in DOMAIN order |-> Derived(order[i])]
  /\ UNCHANGED <<inb, asked>>

---------------------------------------------------------------------------
\* The JSON editors write any object the text parses to: the stream settings
\* with whatever network, security and blocks it names.
EditJson ==
  /\ inb.open # "no" /\ canEnableStream(inb.protocol)
  /\ \E n \in {inb.network, "ws"} \cap Networks, s \in {"none", "tls"}, missing \in SUBSET {"network", "security"} :
       inb' = [inb EXCEPT !.network = n, !.security = s, !.raw = TRUE,
                 !.on = Keeps(inb, {inb.network, "tls", "stream", "proxy", "sockopt", "mask"}),
                 !.blocks = ({n} \ When("network" \in missing, {n}))
                              \cup (SecurityBlocks(s) \ When("security" \in missing, {s})),
                 !.certs = IF s = "tls" THEN <<DefaultCert>> ELSE << >>]
  /\ UNCHANGED <<asked, fb>>

\* submit: a store the schema refuses stays in the open dialog; one it takes is
\* posted and the dialog closes, or the server refuses it and it stays open.
Submit ==
  /\ inb.open # "no" /\ ~Saving
  /\ Accepted(inb)
  /\ inb' = Closed
  /\ UNCHANGED <<asked, fb>>

InbStep ==
  \/ OpenAdd \/ OpenEdit \/ CloseForm \/ Submit \/ EditJson
  \/ \E p \in Protocols : ProtocolChange(p)
  \/ \E n \in Networks : NetworkChange(n)
  \/ \E s \in {"none", "tls", "reality"} : SecurityChange(s)
  \/ \E o \in DOMAIN Option : Toggle(o)
  \/ AddCertificate
  \/ \E i \in 1..MaxCerts : RemoveCertificate(i)
  \/ \E i \in 1..MaxCerts, c \in [useFile : BOOLEAN, file : BOOLEAN, inline : BOOLEAN, whole : BOOLEAN] :
       EditCertificate(i, c)
  \/ \E k \in {"x25519", "mldsa65", "ech", "cert", "vlessEnc"} : Generate(k)
  \/ \E k \in {"x25519", "mldsa65", "ech", "cert", "vlessEnc", "reality"} : Answer(k)
  \/ FallbacksLoaded \/ AddFallback \/ AddAllFallbacks
  \/ \E i \in 1..MaxTouched : MoveFallback(i) \/ RemoveFallback(i) \/ TypeColumn(i)
  \/ \E i \in 1..MaxTouched, c \in Children : PickChild(i, c)
InbNext == InbStep /\ Busy(inb', asked', fb') <= MaxTouched
InbSpec == InbInit /\ [][InbNext]_inbVars

---------------------------------------------------------------------------
\* No sequence of switches of protocol, network and security, and no answer that
\* arrives after the switch it was asked before, leaves a form that the schema
\* refuses: what the dialog built itself it can submit (onValuesChange,
\* onNetworkChange, onSecurityChange and the generators write the same store).
\* Left out are stores typed as JSON and those that have Strayed: a late answer
\* made stream settings where the row has none, and they name no network; or a
\* certificate has neither names nor texts, for it was cleared, or a late answer
\* addressed one that is not there (README, 5).
Strayed(f) ==
  \/ f.network = "" /\ f.blocks # {}
  \/ f.security = "tls" /\ \E i \in DOMAIN f.certs : ~TlsCertTaken(f.certs[i])
Submittable == inb # Closed /\ ~inb.raw /\ ~Strayed(inb) => Accepted(inb)

\* What a reader of the dialog can type into is sent: the schemas that parse the
\* store drop no field a tab shows, whatever combination of protocol, network,
\* security and optional parts is on the screen.  Left out are certificates, of
\* which the schema keeps one mode (TlsCertSchema), the columns of a fallback row
\* in which no child was picked, which are shown and dropped (README, 5), and
\* stores typed as JSON.
ChildlessRow(x) == x[1] = "fallbacks" /\ x[2][1] \notin WithChild
VisibleIsSent ==
  inb # Closed /\ ~inb.raw /\ Accepted(inb) =>
    {x \in Visible(inb) : x[1] # "certificates" /\ ~ChildlessRow(x)} \subseteq Sent(inb)

\* Editing an inbound sends its clients along, although no field of the dialog
\* is bound to them (the comment in submit: every save would delete them).
KeepsClients ==
  inb.open = "edit" /\ inb.protocol \in {"vless", "vmess", "trojan", "shadowsocks", "hysteria"}
    => <<inb.protocol, "clients">> \in Sent(inb)

---------------------------------------------------------------------------
(* What a comment of the source, or a reader of the page, would expect and  *)
(* the code does not do: no run checks these (README, 5).                   *)
\* What the dialog built itself it can submit, late answers and all.
AlwaysSubmittable == inb # Closed /\ ~inb.raw => Accepted(inb)

\* What a column of a fallback row shows is sent.
ColumnsAreSent == inb # Closed /\ isFallbackHost(inb) => FallbacksCard(inb) \subseteq Sent(inb)

\* The editor of the whole inbound shows what is posted (its comment: "the JSON
\* shown here is what the panel actually POSTs"): the same stream settings.
AllEditorShowsPayload ==
  inb # Closed /\ Accepted(inb) => AllEditorBlocks(inb) = StreamBlocksSent(inb)

\* A fallback row that nobody typed into carries the columns of the child picked
\* last (the comment in updateFallback: a row not hand-edited yet takes them).
UntypedRowFollowsChild ==
  \A i \in DOMAIN fb : ~fb[i].typed /\ fb[i].child # "none" => fb[i].cols = fb[i].child
=============================================================================
