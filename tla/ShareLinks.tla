----------------------------- MODULE ShareLinks -----------------------------
(* Share links: what the panel writes into the link of an inbound           *)
(* (src/frontend/src/lib/xray/inbound-link.ts) and what importing a link    *)
(* into an outbound reads back (lib/xray/outbound-link-parser.ts).          *)
(*                                                                          *)
(* A link is its protocol, network and security and the set of fields of    *)
(* the other side it carries; an optional part of the inbound is a member   *)
(* of "on".                                                                 *)
EXTENDS FormFields

LinkProtocols == {"vmess", "vless", "trojan", "shadowsocks", "hysteria", "wireguard"}

---------------------------------------------------------------------------
\* The writers.
buildXhttpExtra(on) ==
  {"xPaddingBytes", "uplinkHTTPMethod", "sessionPlacement", "sessionKey", "seqPlacement", "seqKey",
   "uplinkDataPlacement", "uplinkDataKey", "scMaxEachPostBytes", "headers"}
    \cup When("obfs" \in on, {"xPaddingObfsMode", "xPaddingKey", "xPaddingHeader",
                "xPaddingPlacement", "xPaddingMethod"})
writeNetworkParams(n, on) ==
  CASE n = "tcp" -> Fields("tcp", When("http" \in on, {"header.type", "request.path", "request.host"}))
    [] n = "kcp" -> Fields("kcp", {"mtu", "tti"})
    [] n = "grpc" -> Fields("grpc", {"serviceName", "authority", "multiMode"})
    [] n \in {"ws", "httpupgrade"} -> Fields(n, {"path", "host"})
    [] n = "xhttp" -> Fields("xhttp", {"path", "host", "mode"} \cup buildXhttpExtra(on))
    [] OTHER -> {}
writeTlsParams(s) ==
  When(s = "tls", Fields("tls", {"fingerprint", "alpn", "echConfigList", "serverName"}))
writeRealityParams(s) ==
  When(s = "reality", Fields("reality", {"publicKey", "fingerprint", "serverName", "shortId", "spiderX",
                        "mldsa65Verify"}))
\* An external proxy that forces TLS names its own host as the server.
applyExternalProxyTLSParams(forced) ==
  When(forced, Fields("tls", {"serverName", "fingerprint", "alpn"}))
FinalMaskParam(on) == When(on \cap MaskParts # {}, {<<"finalmask", "all">>})

Target == Fields("settings", {"address", "port"})
\* forceTls: an external proxy ends TLS, adds it, or leaves it as it is.
LinkSecurity(s, forceTls) == IF forceTls = "same" THEN s ELSE forceTls
LinkTransport(n, s, on, forceTls) ==
  writeNetworkParams(n, on) \cup FinalMaskParam(on)
    \cup When(LinkSecurity(s, forceTls) = "tls",
              writeTlsParams(s) \cup applyExternalProxyTLSParams(forceTls = "tls"))
    \cup When(LinkSecurity(s, forceTls) = "reality", writeRealityParams(s))
Link(p, n, s, carries) == [protocol |-> p, network |-> n, security |-> s, carries |-> carries]

genVmessLink(n, s, on, forceTls) ==
  LET sec == LinkSecurity(s, forceTls)
  IN Link("vmess", n, sec,
       Target \cup Fields("settings", {"id", "security"})
         \cup (LinkTransport(n, s, on, forceTls) \ {<<"tls", "echConfigList">>}))
genVlessLink(n, s, on, forceTls) ==
  LET sec == LinkSecurity(s, forceTls)
  IN Link("vless", n, sec,
       Target \cup Fields("settings", {"id", "encryption"} \cup When(n = "tcp" /\ sec = s /\ s # "none", {"flow"}))
         \cup LinkTransport(n, s, on, forceTls))
genTrojanLink(n, s, on, forceTls) ==
  Link("trojan", n, LinkSecurity(s, forceTls),
       Target \cup {<<"settings", "password">>} \cup LinkTransport(n, s, on, forceTls))
genShadowsocksLink(n, s, on, forceTls) ==
  Link("shadowsocks", n, LinkSecurity(s, forceTls),
       Target \cup Fields("settings", {"method", "password"}) \cup LinkTransport(n, s, on, forceTls))
\* Hysteria's link exists with TLS only, and carries its obfuscation twice.
genHysteriaLink(on) ==
  Link("hysteria", "hysteria", "tls",
       Target \cup {<<"hysteria", "auth">>} \cup writeTlsParams("tls")
         \cup When("hopping" \in on, {<<"hysteria", "portHopping">>})
         \cup When("udp.salamander" \in on, {<<"finalmask", "udp.password">>}) \cup FinalMaskParam(on))
genWireguardLink ==
  Link("wireguard", "", "none",
       Target \cup Fields("settings", {"secretKey", "publicKey", "allowedIPs", "mtu"}))

\* One link per client and external proxy; the writers of the panel's menus.
genLink(p, n, s, on, forceTls) ==
  CASE p = "vmess" -> genVmessLink(n, s, on, forceTls)
    [] p = "vless" -> genVlessLink(n, s, on, forceTls)
    [] p = "trojan" -> genTrojanLink(n, s, on, forceTls)
    [] p = "shadowsocks" -> genShadowsocksLink(n, s, on, forceTls)
    [] p = "hysteria" -> genHysteriaLink(on)
    [] OTHER -> genWireguardLink
genAllLinks(p, n, s, on, externals) ==
  {genLink(p, n, s, on, f) : f \in IF externals = {} THEN {"same"} ELSE externals}

---------------------------------------------------------------------------
\* The readers.
XhttpKeys ==
  {"xPaddingBytes", "xPaddingKey", "xPaddingHeader", "xPaddingPlacement", "xPaddingMethod",
   "sessionPlacement", "sessionKey", "seqPlacement", "seqKey", "uplinkDataPlacement",
   "uplinkDataKey", "scMaxEachPostBytes", "scMinPostsIntervalMs", "scStreamUpServerSecs",
   "uplinkHTTPMethod", "scMaxBufferedPosts", "serverMaxHeaderBytes", "uplinkChunkSize",
   "xPaddingObfsMode", "noSSEHeader", "noGRPCHeader"}
applyXhttpStringFromParams == Fields("xhttp", XhttpKeys \cup {"headers"})
applyXhttpStringFromJson == Fields("xhttp", XhttpKeys)
applyTransportParamsOfWs(n) ==   \* mutant: the path of an HTTP upgrade is not read
  CASE n = "ws" -> Fields(n, {"path", "host"})
    [] n = "httpupgrade" -> Fields(n, {"host"})
    [] n = "grpc" -> Fields("grpc", {"serviceName", "authority", "multiMode"})
    [] n = "xhttp" -> Fields("xhttp", {"path", "host", "mode"}) \cup applyXhttpStringFromParams
    [] n = "tcp" -> Fields("tcp", {"header.type", "request.path", "request.host"})
    [] OTHER -> {}
applyTransportParams(n) ==
  CASE n \in {"ws", "httpupgrade"} -> Fields(n, {"path", "host"})
    [] n = "grpc" -> Fields("grpc", {"serviceName", "authority", "multiMode"})
    [] n = "xhttp" -> Fields("xhttp", {"path", "host", "mode"}) \cup applyXhttpStringFromParams
    [] n = "tcp" -> Fields("tcp", {"header.type", "request.path", "request.host"})
    [] OTHER -> {}
applySecurityParams(s) ==
  CASE s = "tls" -> Fields("tls", {"serverName", "fingerprint", "alpn"})
    [] s = "reality" -> Fields("reality", {"serverName", "fingerprint", "publicKey", "shortId", "spiderX"})
    [] OTHER -> {}
applyFinalMaskParam == {<<"finalmask", "all">>}

\* The security a reader settles on, and the fields it looks for.
parseVmessLink(l) ==
  [security |-> IF l.security = "tls" THEN "tls" ELSE "none",
   reads |-> Target \cup Fields("settings", {"id", "security"})
     \cup When(l.network # "xhttp", applyTransportParams(l.network))
     \cup When(l.network = "xhttp", Fields("xhttp", {"path", "host"}) \cup applyXhttpStringFromJson)
     \cup When(l.security = "tls", applySecurityParams("tls"))]
parseVlessLink(l) ==
  [security |-> l.security,
   reads |-> Target \cup Fields("settings", {"id", "flow"}) \cup applyTransportParams(l.network)
     \cup applySecurityParams(l.security) \cup applyFinalMaskParam]
parseTrojanLink(l) ==
  [security |-> l.security,
   reads |-> Target \cup {<<"settings", "password">>} \cup applyTransportParams(l.network)
     \cup applySecurityParams(l.security) \cup applyFinalMaskParam]
\* Everything after the host's colon is taken for the port: with the query the
\* writer always adds it is no number, and 443 is used.
parseShadowsocksLink(l) ==
  [security |-> "none",
   reads |-> {<<"settings", "address">>} \cup Fields("settings", {"method", "password"})]
parseHysteria2Link(l) ==
  [security |-> "tls",
   reads |-> Target \cup Fields("hysteria", {"auth", "portHopping"}) \cup {<<"tls", "serverName">>}]

Parseable(l) == l.protocol # "wireguard"
parseOutboundLink(l) ==
  CASE l.protocol = "vmess" -> parseVmessLink(l)
    [] l.protocol = "vless" -> parseVlessLink(l)
    [] l.protocol = "trojan" -> parseTrojanLink(l)
    [] l.protocol = "shadowsocks" -> parseShadowsocksLink(l)
    [] l.protocol = "hysteria" -> parseHysteria2Link(l)
\* The stream the imported row has; a shadowsocks row comes without one.
ImportedNetwork(l) == IF l.protocol = "shadowsocks" THEN "" ELSE l.network
=============================================================================
