----------------------------- MODULE FormFields -----------------------------
(* Fields of the panel's forms, and the FinalMask sub-form that the inbound   *)
(* and the outbound dialog share                                              *)
(* (src/frontend/src/components/FinalMaskForm.tsx).  A field is               *)
(* <<block, name>>; the optional parts that are on decide which are shown.    *)
EXTENDS Naturals, FiniteSets

Fields(block, names) == {block} \X names
When(shown, fields) == IF shown THEN fields ELSE {}

\* What a protocol and a network can carry (lib/xray/protocol-capabilities.ts).
Networks == {"tcp", "kcp", "ws", "grpc", "httpupgrade", "xhttp"}
RowNetworks == Networks \cup {""}   \* "": a row without stream settings
canEnableStream(p) == p \in {"vmess", "vless", "trojan", "shadowsocks", "hysteria"}
canEnableTls(p, n) ==
  \/ p = "hysteria"
  \/ /\ p \in {"vmess", "vless", "trojan", "shadowsocks"}
     /\ n \in {"tcp", "ws", "http", "grpc", "httpupgrade", "xhttp"}
canEnableReality(p, n) == p \in {"vless", "trojan"} /\ n \in {"tcp", "http", "grpc", "xhttp"}
canEnableTlsFlow(p, n, s) == p = "vless" /\ n = "tcp" /\ s \in {"tls", "reality"}

\* The block a security adds to the stream settings.
SecurityBlocks(s) == IF s = "none" THEN {} ELSE {s}

TCP_NETWORKS == {"raw", "tcp", "httpupgrade", "ws", "grpc", "xhttp"}
showTcp(network) == network \in TCP_NETWORKS
showUdp(network, protocol) == protocol = "hysteria" \/ network = "kcp"
showQuic(network, protocol) == protocol = "hysteria" \/ network = "xhttp"

\* The parts one can add: masks of the types that differ in their fields, and
\* the QUIC parameters with their alternatives.
TcpMasks == {"tcp.fragment", "tcp.sudoku", "tcp.header-custom"}
UdpMasks(protocol) ==
  IF protocol = "hysteria" THEN {"udp.salamander"}
  ELSE {"udp.mkcp-original", "udp.xdns", "udp.header-custom", "udp.noise"}
Quic == {"quic.bbr", "quic.brutal"}
MaskParts == TcpMasks \cup UdpMasks("hysteria") \cup UdpMasks("other") \cup Quic \cup {"quic.hop"}
MaskOffered(network, protocol, on) ==
  When(showTcp(network), TcpMasks)
    \cup When(showUdp(network, protocol), UdpMasks(protocol))
    \cup When(showQuic(network, protocol), Quic \cup When(on \cap Quic # {}, {"quic.hop"}))

\* One packet of a custom header or of the noise: what its type shows.
ItemEditor == {"item.type", "item.delay", "item.rand", "item.randRange", "item.packet"}
TcpMaskItem(on) ==
  When("tcp.fragment" \in on, {"tcp.packets", "tcp.length", "tcp.delay", "tcp.maxSplit"})
    \cup When("tcp.sudoku" \in on, {"tcp.password", "tcp.ascii", "tcp.customTable",
                "tcp.customTables", "tcp.paddingMin", "tcp.paddingMax"})
HeaderCustomGroups(on) ==
  When("tcp.header-custom" \in on, {"tcp.clients", "tcp.servers"} \cup ItemEditor)
UdpMaskItem(on) ==
  When("udp.salamander" \in on, {"udp.password"})
    \cup When("udp.xdns" \in on, {"udp.domains"})
UdpHeaderCustom(on) ==
  When("udp.header-custom" \in on, {"udp.client", "udp.server"} \cup ItemEditor)
NoiseItems(on) == When("udp.noise" \in on, {"udp.reset", "udp.noise"} \cup ItemEditor)
QuicParamsForm(on) ==
  When(Quic \cap on # {},
       {"congestion", "debug", "maxIdleTimeout", "keepAlivePeriod", "disablePathMTUDiscovery",
        "maxIncomingStreams", "initStreamReceiveWindow", "maxStreamReceiveWindow",
        "initConnectionReceiveWindow", "maxConnectionReceiveWindow"}
         \cup When("quic.bbr" \in on, {"bbrProfile"})
         \cup When("quic.brutal" \in on, {"brutalUp", "brutalDown"})
         \cup When("quic.hop" \in on, {"udpHop.ports", "udpHop.interval"}))

FinalMaskFields(network, protocol, on) ==
  Fields("finalmask",
    When(showTcp(network), {"tcp"} \cup TcpMaskItem(on) \cup HeaderCustomGroups(on))
      \cup When(showUdp(network, protocol),
                {"udp"} \cup UdpMaskItem(on) \cup UdpHeaderCustom(on) \cup NoiseItems(on))
      \cup When(showQuic(network, protocol), QuicParamsForm(on)))

\* The schema keeps the settings of a mask whatever they are, and of the QUIC
\* parameters the keys it names.
MaskSettings(on) ==
  TcpMaskItem(on) \cup HeaderCustomGroups(on) \cup UdpMaskItem(on) \cup UdpHeaderCustom(on)
    \cup NoiseItems(on)
QuicParamsSchema ==
  {"congestion", "bbrProfile", "debug", "brutalUp", "brutalDown", "udpHop.ports",
   "udpHop.interval", "initStreamReceiveWindow", "maxStreamReceiveWindow",
   "initConnectionReceiveWindow", "maxConnectionReceiveWindow", "maxIdleTimeout",
   "keepAlivePeriod", "disablePathMTUDiscovery", "maxIncomingStreams"}
FinalMaskKept(on) ==
  Fields("finalmask", {"tcp", "udp"} \cup MaskSettings(on)
                        \cup When(Quic \cap on # {}, QuicParamsSchema))
=============================================================================
