----------------------------- MODULE NodeFormat -----------------------------
(***************************************************************************)
(* From the text of a subscription to sing-box outbounds: the adapters of  *)
(* nethop-subscription (uri.rs, clash_yaml.rs, singbox_json.rs,            *)
(* surfboard.rs), the semantic checks they share (semantic.rs,             *)
(* protocol.rs, capability.rs), and the fingerprint, the deduplication and *)
(* the composition of outbounds (pipeline.rs).                             *)
(*                                                                         *)
(* A document, a NodeSpec, the parts of a node and an outbound are partial *)
(* functions from the names of their fields to strings.  Nested objects    *)
(* are flattened ("tls.enabled"), aliases of a field are one key, an       *)
(* absent field is None, false or an empty list, and a list of two values  *)
(* is written "a,b".  An operator that may refuse its input returns a set  *)
(* with at most one element.                                               *)
(***************************************************************************)
EXTENDS Integers, Sequences, FiniteSets, TLC, Functions

LOCAL INSTANCE SequencesExt

CONSTANTS
    Bases,      \* the nodes providers have, as NodeSpec fields
    Changes,    \* fields with values, each of which makes another node
    MaxBodies   \* the bodies a conversion reads

VARIABLES
    base,       \* the node the sources of this conversion are about
    items,      \* what became of every item read, in order
    pool,       \* dedupe_sources: the outbound of every fingerprint
    report      \* ConversionSummary: accepted, duplicate and rejected items

vars == <<base, items, pool, report>>

Has(s, f) == f \in DOMAIN s
Is(s, f, v) == Has(s, f) /\ s[f] = v
On(s, f) == Is(s, f, "true")
Get(s, f, default) == IF Has(s, f) THEN s[f] ELSE default
Pick(s, F) == Restrict(s, F \cap DOMAIN s)
Without(s, F) == Restrict(s, DOMAIN s \ F)

\* The fields of s under the names that `table` gives them.
Renamed(s, table) ==
    LET known == DOMAIN s \cap DOMAIN table
    IN [f \in {table[k] : k \in known} |->
            s[CHOOSE k \in known : table[k] = f]]

Same(F) == [f \in F |-> f]
Nothing == [f \in {} |-> ""]
Only(S) == CHOOSE x \in S : TRUE

-----------------------------------------------------------------------------
(***************************************************************************)
(* NodeSpec, the fields every adapter fills in.                            *)
(***************************************************************************)
PluginFields == {"plugin.obfs", "plugin.obfs-host", "plugin.mode",
                 "plugin.host", "plugin.path", "plugin.tls", "plugin.mux"}

(***************************************************************************)
(* The options of a plugin as one text "k=v;k=v".  plugin_options writes   *)
(* them in the order of their names and escapes nothing, so a semicolon in *)
(* a value begins another option; parse_plugin_options and                 *)
(* parse_uri_plugin_value split at every semicolon, and refuse a name that *)
(* comes twice and an empty value.  The text is the sequence of its names  *)
(* and values.                                                             *)
(***************************************************************************)
OptionNames == <<"host", "mode", "mux", "obfs", "obfs-host", "path", "tls">>

\* The values with a semicolon in them: what is before it, and the option
\* that what comes after it reads as.
Semicolons == ("/p;tls=true" :> <<"/p", "tls", "true">>)
              @@ ("/p;mode=quic" :> <<"/p", "mode", "quic">>)

OptionText(name, value) ==
    IF value \in DOMAIN Semicolons
    THEN LET v == Semicolons[value] IN <<<<name, v[1]>>, <<v[2], v[3]>>>>
    ELSE <<<<name, value>>>>

PluginOptions(fields) ==
    FlattenSeq([i \in DOMAIN OptionNames |->
        LET f == "plugin." \o OptionNames[i]
        IN IF Has(fields, f) THEN OptionText(OptionNames[i], fields[f]) ELSE <<>>])

ParsePluginOptions(text) ==
    LET at(f) == {i \in DOMAIN text : "plugin." \o text[i][1] = f}
        names == {"plugin." \o text[i][1] : i \in DOMAIN text}
    IN IF Cardinality(names) = Len(text) /\ \A i \in DOMAIN text : text[i][2] # ""
       THEN {[f \in names |-> text[Only(at(f))][2]]} ELSE {}

HeaderFields == {"header.Host", "header.X"}

OnlyFor == [hysteria2 |-> {"server_ports", "hop_interval", "up_mbps",
                           "down_mbps"},
            tuic      |-> {"congestion_control", "udp_relay_mode",
                           "udp_over_stream", "zero_rtt_handshake",
                           "heartbeat"},
            anytls    |-> {"idle_session_check_interval",
                           "idle_session_timeout", "min_idle_session"},
            http      |-> {"http_path", "http_header.X"},
            socks     |-> {"socks_version"}]

Protocols == {"vless", "vmess", "shadowsocks", "trojan", "hysteria2", "tuic",
              "anytls", "http", "socks"}
OverQuic == {"hysteria2", "tuic"}
Numbers == {"0", "1", "20", "30", "100"}
Bools == {"tls", "insecure", "udp", "udp_over_stream", "zero_rtt_handshake"}

\* A flag is "true" or absent.
Flags(s) ==
    LET set == {f \in Bools \cap DOMAIN s : s[f] \in {"1", "true"}}
    IN [f \in set |-> "true"] @@ Without(s, Bools)

-----------------------------------------------------------------------------
(***************************************************************************)
(* node_spec_from_uri.  The user information of the URI is "user" and,     *)
(* after a colon, "pass"; a port range is "ports", and "plugin_opts" is    *)
(* what follows the name in the value of "plugin".                         *)
(***************************************************************************)
UriQuery ==
    Same({"flow", "path", "udp", "obfs", "congestion_control",
          "udp_relay_mode", "udp_over_stream", "zero_rtt_handshake",
          "heartbeat", "hop_interval", "server_ports", "up_mbps", "down_mbps",
          "idle_session_check_interval", "idle_session_timeout",
          "min_idle_session", "alpn", "plugin"})
    @@ ("obfs-password" :> "obfs_password")
    @@ [type |-> "transport", sni |-> "server_name", host |-> "hosts",
        fp |-> "client_fingerprint", pbk |-> "reality_public_key",
        sid |-> "reality_short_id", serviceName |-> "service_name",
        allowInsecure |-> "insecure"]

UriUser(protocol) ==
    CASE protocol \in {"vless", "vmess"} -> [user |-> "uuid"]
      [] protocol = "shadowsocks" -> [user |-> "method", pass |-> "password"]
      [] protocol = "tuic" -> [user |-> "uuid", pass |-> "password"]
      [] OTHER -> [user |-> "password"]

\* "security" is the cipher of vmess and switches TLS on for the others, as
\* "tls" does for all.
UriSecurity(doc, protocol) ==
    (IF \/ Get(doc, "tls", "0") \in {"1", "true", "tls", "reality"}
        \/ protocol # "vmess" /\ Get(doc, "security", "none") \in {"tls", "reality"}
     THEN [tls |-> "true"] ELSE Nothing)
    @@ CASE ~Has(doc, "security") -> Nothing
         [] protocol = "vmess" -> [vmess_security |-> doc.security]
         [] doc.security \in {"tls", "reality", "none"} -> Nothing
         [] OTHER -> [unknown_critical_field |-> "security"]

FromUri(doc) ==
    LET protocol == doc.scheme
        query == Renamed(doc, UriQuery)
        unparsed == {f \in {"up_mbps", "down_mbps", "min_idle_session"} :
                        Has(query, f) /\ query[f] \notin Numbers}
        options == ParsePluginOptions(Get(doc, "plugin_opts", <<>>))
        spec == (IF protocol \in {"trojan", "anytls"} \cup OverQuic
                 THEN [tls |-> "true"] ELSE Nothing)
                @@ UriSecurity(doc, protocol)
                @@ (IF protocol \in OverQuic
                    THEN [udp |-> "true",
                          transport |-> Get(query, "transport", "quic")]
                    ELSE Nothing)
                @@ Flags(Without(query, unparsed))
                @@ Renamed(doc, UriUser(protocol))
                @@ Renamed(doc, [ports |-> "server_ports"])
                @@ Only(options)
    IN IF \/ protocol \in {"http", "socks"}
          \/ ~Has(doc, "port")
          \/ Has(doc, "ports") /\ protocol # "hysteria2"
          \/ protocol \in {"shadowsocks", "tuic"} /\ ~Has(doc, "pass")
          \/ options = {}
       THEN {}
       ELSE {[protocol |-> protocol, server |-> doc.server, port |-> doc.port]
             @@ spec}

(***************************************************************************)
(* node_spec_from_vmess_json: the object inside a vmess:// link.  "aid" is *)
(* only understood as a number; "text 1" is one in quotes.                 *)
(***************************************************************************)
FromVmessJson(doc) ==
    LET table == [id |-> "uuid", scy |-> "vmess_security",
                  net |-> "transport", path |-> "path", host |-> "hosts",
                  sni |-> "server_name"]
        aid == IF Has(doc, "aid") /\ doc.aid \in Numbers
               THEN [alter_id |-> doc.aid] ELSE Nothing
        tls == IF Is(doc, "tls", "tls") THEN [tls |-> "true"] ELSE Nothing
    IN IF {"add", "port", "id"} \subseteq DOMAIN doc
       THEN {[protocol |-> "vmess", server |-> doc.add, port |-> doc.port]
             @@ Renamed(doc, table) @@ aid @@ tls}
       ELSE {}

-----------------------------------------------------------------------------
(***************************************************************************)
(* clash_node_spec, one entry of a Clash document's `proxies`.             *)
(***************************************************************************)
ClashTable ==
    Same({"uuid", "username", "password", "udp", "flow", "obfs", "tls",
          "plugin", "plugin.mode", "plugin.host", "plugin.path", "plugin.tls",
          "plugin.mux"})
    @@ [cipher |-> "method", security |-> "vmess_security",
        servername |-> "server_name", network |-> "transport",
        alterId |-> "alter_id", ports |-> "server_ports", up |-> "up_mbps",
        down |-> "down_mbps"]
    @@ ("skip-cert-verify" :> "insecure")
    @@ ("udp-over-tcp" :> "udp_over_tcp")
    @@ ("obfs-password" :> "obfs_password")
    @@ ("hop-interval" :> "hop_interval")
    @@ ("congestion-controller" :> "congestion_control")
    @@ ("udp-relay-mode" :> "udp_relay_mode")
    @@ ("udp-over-stream" :> "udp_over_stream")
    @@ ("zero-rtt" :> "zero_rtt_handshake")
    @@ ("heartbeat-interval" :> "heartbeat")
    @@ ("idle-session-check-interval" :> "idle_session_check_interval")
    @@ ("idle-session-timeout" :> "idle_session_timeout")
    @@ ("min-idle-session" :> "min_idle_session")
    @@ ("grpc-opts.grpc-service-name" :> "service_name")
    @@ ("ws-opts.path" :> "path")
    @@ ("ws-opts.headers.Host" :> "header.Host")
    @@ ("ws-opts.headers.X" :> "header.X")
    @@ ("headers.X" :> "http_header.X")

\* is_critical_unknown_field, with the known fields refused the same way
ClashCritical ==
    {"xhttp-opts", "reality-opts", "port-range", "tfo", "smux", "certificate",
     "private-key", "name-cert-verify", "dialer-proxy", "interface-name",
     "routing-mark", "fingerprint", "plugin.unknown"}

\* normalize_hop_interval, normalize_heartbeat_interval, parse_bandwidth_mbps:
\* a bare number of an interval gets its unit, "100 mbps" is the number 100.
Interval(value, unit) ==
    IF value \in Numbers THEN value \o unit ELSE value
Mbps(value) == IF value = "100 mbps" THEN "100" ELSE value

ClashNormal(spec) ==
    [f \in DOMAIN spec |->
        CASE f = "hop_interval" -> Interval(spec[f], "s")
          [] f = "heartbeat" -> Interval(spec[f], "ms")
          [] f \in {"up_mbps", "down_mbps"} -> Mbps(spec[f])
          [] f = "plugin" /\ spec[f] = "obfs" -> "obfs-local"
          [] OTHER -> spec[f]]

\* The mode and host of obfs are its own options under other names.
ClashPlugin(spec) ==
    LET table == ("plugin.mode" :> "plugin.obfs")
                 @@ ("plugin.host" :> "plugin.obfs-host")
    IN IF Is(spec, "plugin", "obfs-local")
       THEN Renamed(spec, table @@ Same(DOMAIN spec)) ELSE spec

FromClash(doc) ==
    LET spec == Flags(ClashPlugin(ClashNormal(Renamed(doc, ClashTable))))
        critical == \/ DOMAIN doc \cap ClashCritical # {}
                    \/ doc.type # "http" /\ Has(doc, "headers.X")
        socks == IF doc.type = "socks" THEN [socks_version |-> "5"]
                 ELSE Nothing
    IN IF \/ ~({"type", "server", "port"} \subseteq DOMAIN doc)
          \/ \E f \in {"up_mbps", "down_mbps"} :
                 Has(spec, f) /\ spec[f] \notin Numbers \ {"0"}
          \/ Is(spec, "hop_interval", "10-30")
       THEN {}
       ELSE {[protocol |-> doc.type, server |-> doc.server, port |-> doc.port]
             @@ socks @@ spec
             @@ (IF critical THEN [unknown_critical_field |-> "yes"]
                 ELSE Nothing)}

-----------------------------------------------------------------------------
(***************************************************************************)
(* singbox_node_spec, one outbound of a sing-box document.                 *)
(***************************************************************************)
SingboxTable ==
    Same({"uuid", "username", "password", "method", "alter_id", "flow",
          "plugin", "udp_over_tcp", "congestion_control", "server_ports",
          "hop_interval", "up_mbps", "down_mbps", "udp_relay_mode",
          "udp_over_stream", "zero_rtt_handshake", "heartbeat",
          "idle_session_check_interval", "idle_session_timeout",
          "min_idle_session", "udp"})
    @@ [security |-> "vmess_security", version |-> "socks_version",
        path |-> "http_path"]
    @@ ("headers.X" :> "http_header.X")
    @@ ("obfs.type" :> "obfs")
    @@ ("obfs.password" :> "obfs_password")
    @@ ("tls.enabled" :> "tls")
    @@ ("tls.insecure" :> "insecure")
    @@ ("tls.server_name" :> "server_name")
    @@ ("tls.alpn" :> "alpn")
    @@ ("tls.utls.fingerprint" :> "client_fingerprint")
    @@ ("tls.reality.public_key" :> "reality_public_key")
    @@ ("tls.reality.short_id" :> "reality_short_id")
    @@ ("transport.type" :> "transport")
    @@ ("transport.path" :> "path")
    @@ ("transport.host" :> "hosts")
    @@ ("transport.service_name" :> "service_name")
    @@ ("transport.headers.Host" :> "header.Host")
    @@ ("transport.headers.X" :> "header.X")

\* is_critical_node_field, is_critical_tls_field, is_critical_transport_field
SingboxCritical ==
    {"detour", "bind_interface", "routing_mark", "domain_resolver",
     "multiplex", "certificate", "certificate_path", "xudp",
     "tls.certificate", "tls.certificate_path", "tls.client_certificate",
     "tls.ech", "tls.acme", "transport.method", "transport.max_early_data",
     "transport.early_data_header_name", "udp_over_tcp.unknown"}

\* SingboxNetworkList.socks_udp; a socks outbound without a list has both
SocksUdp(doc) == Get(doc, "network", "tcp,udp") # "tcp"
SocksNetworkOk(doc) ==
    Get(doc, "network", "tcp") \in {"tcp", "tcp,udp", "udp,tcp"}

FromSingbox(doc) ==
    LET socks == doc.type = "socks"
        all == Flags(Renamed(doc, SingboxTable))
        spec == IF ~socks THEN all
                ELSE Without(all, {"udp"})
                     @@ (IF SocksUdp(doc) THEN [udp |-> "true"] ELSE Nothing)
        options == ParsePluginOptions(Get(doc, "plugin_opts", <<>>))
        critical == \/ DOMAIN doc \cap SingboxCritical # {}
                    \/ options = {}
                    \/ ~socks /\ Has(doc, "network")
                    \/ /\ doc.type # "http"
                       /\ Has(doc, "path") \/ Has(doc, "headers.X")
    IN IF \/ ~({"type", "server", "server_port"} \subseteq DOMAIN doc)
          \/ doc.type \notin Protocols
          \/ socks /\ ~SocksNetworkOk(doc)
       THEN {}
       ELSE {[protocol |-> doc.type, server |-> doc.server,
              port |-> doc.server_port]
             @@ spec
             @@ (IF critical THEN [unknown_critical_field |-> "yes"]
                 ELSE Only(options))}

-----------------------------------------------------------------------------
(***************************************************************************)
(* surfboard_node_spec, one line of the [Proxy] section; "#1" and "#2" are *)
(* the fields without a name.                                              *)
(***************************************************************************)
\* Mutant: one of the fields is left out.
MutSurfboardTable ==
    Same({"uuid", "password", "method", "tls", "path", "udp", "obfs",
          "obfs_password", "service_name"})
    @@ [sni |-> "server_name", network |-> "transport"]

SurfboardTable ==
    Same({"uuid", "password", "method", "tls", "path", "udp", "alpn", "obfs",
          "obfs_password", "service_name"})
    @@ [sni |-> "server_name", network |-> "transport"]

SurfboardPositional(protocol) ==
    CASE protocol = "shadowsocks" ->
             ("#1" :> "method") @@ ("#2" :> "password")
      [] protocol = "tuic" -> ("#1" :> "uuid") @@ ("#2" :> "password")
      [] protocol \in {"vless", "vmess"} -> "#1" :> "uuid"
      [] OTHER -> "#1" :> "password"

\* For shadowsocks, obfs and obfs_host are the obfs-local plugin.
SurfboardPlugin(doc) ==
    LET table == ("obfs" :> "plugin.obfs") @@ ("obfs_host" :> "plugin.obfs-host")
    IN IF doc.type = "shadowsocks" /\ DOMAIN doc \cap DOMAIN table # {}
       THEN [plugin |-> "obfs-local"] @@ Renamed(doc, table) ELSE Nothing

FromSurfboard(doc) ==
    LET ss == doc.type = "shadowsocks"
        known == Without(doc, IF ss THEN {"obfs"} ELSE {})
        critical == {"plugin", "plugin_opts", "reality_opts"}
                    \cup (IF ss THEN {} ELSE {"obfs_host"})
    IN IF doc.type \in {"http", "socks"} \/ ~Has(doc, "port") THEN {}
       ELSE {[protocol |-> doc.type, server |-> doc.server, port |-> doc.port]
             @@ Flags(Renamed(known, SurfboardTable))
             @@ Renamed(doc, SurfboardPositional(doc.type))
             @@ SurfboardPlugin(doc)
             @@ (IF DOMAIN doc \cap critical # {}
                 THEN [unknown_critical_field |-> "yes"] ELSE Nothing)}

-----------------------------------------------------------------------------
(***************************************************************************)
(* validate_node_spec and ProxyNode::validate.  A node is a record of its  *)
(* endpoint, its credentials, TLS, transport and protocol options, each    *)
(* with the fields the code keeps, and whether it carries UDP.             *)
(***************************************************************************)
Ciphers == {"aes-128-gcm", "aes-256-gcm", "chacha20-ietf-poly1305",
            "2022-blake3-aes-128-gcm", "2022-blake3-aes-256-gcm",
            "2022-blake3-chacha20-poly1305"}
VmessSecurities == {"auto", "none", "aes-128-gcm", "chacha20-poly1305", "zero"}

\* UuidValue::parse accepts two spellings of a UUID and keeps one.
Uuids == {"uuid", "uuid without hyphens"}
Hyphenated(fields) ==
    [f \in DOMAIN fields |-> IF f = "uuid" THEN "uuid" ELSE fields[f]]

PluginOk(spec) ==
    LET options == PluginFields \cap DOMAIN spec
    IN IF ~Has(spec, "plugin") THEN options = {}
       ELSE IF spec.plugin = "obfs-local"
       THEN /\ options \subseteq {"plugin.obfs", "plugin.obfs-host"}
            /\ Get(spec, "plugin.obfs", "") \in {"http", "tls"}
       ELSE /\ spec.plugin = "v2ray-plugin"
            /\ options \subseteq {"plugin.mode", "plugin.host",
                                  "plugin.path", "plugin.tls", "plugin.mux"}
            /\ Get(spec, "plugin.mode", "") \in {"websocket", "quic"}
            /\ Get(spec, "plugin.tls", "true") \in {"true", "false"}
            /\ Get(spec, "plugin.mux", "0") \in Numbers

Login(protocol) ==
    CASE protocol = "vless" -> {"uuid"}
      [] protocol = "vmess" -> {"uuid", "alter_id", "vmess_security"}
      [] protocol = "shadowsocks" ->
             {"method", "password", "plugin"} \cup PluginFields
      [] protocol \in {"trojan", "anytls"} -> {"password"}
      [] protocol = "hysteria2" -> {"password", "obfs", "obfs_password"}
      [] protocol = "tuic" -> {"uuid", "password"}
      [] protocol \in {"http", "socks"} -> {"username", "password"}

CredentialsOk(spec) ==
    LET p == spec.protocol
        open == p \in {"http", "socks"}
    IN /\ ~open => ~Has(spec, "username")
       /\ open => /\ DOMAIN spec
                        \cap ({"uuid", "method", "vmess_security", "alter_id",
                              "plugin", "obfs", "obfs_password"}
                             \cup PluginFields) = {}
                  /\ Has(spec, "username") = Has(spec, "password")
       /\ p \in {"vless", "vmess", "tuic"} => Get(spec, "uuid", "") \in Uuids
       /\ p = "vmess" => Get(spec, "vmess_security", "auto") \in VmessSecurities
       /\ p = "shadowsocks" => /\ Get(spec, "method", "") \in Ciphers
                               /\ PluginOk(spec)
       /\ p \in {"shadowsocks", "trojan", "hysteria2", "tuic", "anytls"} =>
             Has(spec, "password")
       /\ p = "hysteria2" =>
             /\ Has(spec, "obfs") = Has(spec, "obfs_password")
             /\ Get(spec, "obfs", "salamander") = "salamander"

\* make_credentials
Credentials(spec) ==
    Hyphenated(Pick(spec, Login(spec.protocol)))
    @@ (IF spec.protocol = "vmess"
        THEN [alter_id |-> "0", vmess_security |-> "auto"] ELSE Nothing)

TlsOk(spec) ==
    /\ Has(spec, "reality_public_key") => spec.protocol = "vless" /\ On(spec, "tls")
    /\ ~On(spec, "tls") =>
           DOMAIN spec \cap {"server_name", "alpn", "client_fingerprint"} = {}

\* make_tls: a short id means nothing without the key, nor does an empty one
MakeTls(spec) ==
    LET reality == IF Has(spec, "reality_public_key")
                   THEN {"reality_public_key"}
                        \cup (IF Get(spec, "reality_short_id", "") # ""
                              THEN {"reality_short_id"} ELSE {})
                   ELSE {}
    IN Pick(spec, {"tls", "insecure", "server_name", "alpn",
                   "client_fingerprint"} \cup reality)

\* make_transport
Transports == {"tcp", "ws", "http", "httpupgrade", "grpc", "quic"}
Kind(spec) ==
    Get(spec, "transport", IF spec.protocol \in OverQuic THEN "quic" ELSE "tcp")

TransportOk(spec) ==
    LET kind == Kind(spec)
        shape == {"path", "hosts", "service_name"} \cup HeaderFields
    IN /\ kind \in Transports
       /\ spec.protocol \in {"http", "socks"} => kind = "tcp"
       /\ kind \in {"tcp", "quic"} => DOMAIN spec \cap shape = {}
       /\ kind \in {"ws", "httpupgrade"} => Get(spec, "hosts", "h1") # "h1,h2"
       /\ kind = "grpc" => ~Has(spec, "hosts")

MakeTransport(spec) ==
    LET kind == Kind(spec)
        host == IF Has(spec, "hosts") THEN "header.Host" :> spec.hosts
                ELSE Nothing
    IN [transport |-> kind]
       @@ CASE kind \in {"ws", "httpupgrade"} ->
                   Pick(spec, {"path"} \cup HeaderFields)
                   @@ host @@ [path |-> "/"]
            [] kind = "http" -> Pick(spec, {"path", "hosts"}) @@ [path |-> "/"]
            [] kind = "grpc" ->
                   [service_name |-> Get(spec, "service_name", "grpc")]
            [] OTHER -> Nothing

\* The protocol options of validate_node_spec
OptionFields(protocol) ==
    CASE protocol = "vless" -> {"flow"}
      [] protocol = "shadowsocks" -> {"udp_over_tcp"}
      [] protocol = "socks" -> {"socks_version", "udp_over_tcp"}
      [] protocol \in DOMAIN OnlyFor -> OnlyFor[protocol]
      [] OTHER -> {}

Options(spec) ==
    Pick(spec, OptionFields(spec.protocol))
    @@ (IF spec.protocol = "socks" THEN [socks_version |-> "5"] ELSE Nothing)

OptionsOk(spec) ==
    /\ \A p \in DOMAIN OnlyFor \ {spec.protocol} :
           DOMAIN spec \cap OnlyFor[p] = {}
    /\ Get(spec, "socks_version", "5") \in {"4", "4a", "5"}
    /\ Has(spec, "udp_over_tcp") => spec.protocol \in {"shadowsocks", "socks"}
    /\ Get(spec, "congestion_control", "bbr") \in {"bbr", "cubic", "new_reno"}
    /\ spec.protocol = "socks" => ~On(spec, "tls")

\* valid_server_ports
PortsOk(spec) ==
    Get(spec, "server_ports", "1-2") \in {"1-2", "1-2,5", "5"}

\* CapabilityQuery::from_node against the pinned manifest
Supports(node, flow, plugin) ==
    LET tls == On(node.tls, "tls")
        reality == Has(node.tls, "reality_public_key")
        utls == reality /\ Has(node.tls, "client_fingerprint")
        kind == node.transport.transport
        plain == ~reality /\ ~node.udp /\ flow = "" /\ plugin = ""
    IN CASE node.protocol = "vless" ->
                \/ plain /\ (tls \/ kind = "tcp") /\ kind # "quic"
                \/ /\ kind = "tcp" /\ tls /\ ~node.udp
                   /\ flow \in {"", "xtls-rprx-vision"} /\ reality = utls
         [] node.protocol = "vmess" ->
                plain /\ (tls \/ kind \in {"tcp", "ws"}) /\ kind # "quic"
         [] node.protocol = "shadowsocks" ->
                /\ kind = "tcp" /\ ~tls
                /\ plugin = "v2ray-plugin" => ~node.udp
         [] node.protocol = "trojan" ->
                plain /\ tls /\ kind \in {"tcp", "ws", "grpc"}
         [] node.protocol \in OverQuic -> tls /\ kind = "quic" /\ node.udp
         [] node.protocol = "anytls" -> plain /\ tls /\ kind = "tcp"
         [] node.protocol = "http" -> plain /\ kind = "tcp"
         [] node.protocol = "socks" -> ~tls /\ kind = "tcp"

\* ProxyNode::validate; what it asks of ciphers and plugins again holds by
\* CredentialsOk
NodeOk(node) ==
    LET tls == On(node.tls, "tls")
        kind == node.transport.transport
    IN /\ kind = "quic" => tls
       /\ node.protocol \in OverQuic => kind = "quic"
       /\ node.protocol \in {"trojan", "anytls"} => tls
       /\ Has(node.tls, "reality_public_key") => node.protocol = "vless" /\ tls
       /\ Supports(node, Get(node.options, "flow", ""),
                         Get(node.credentials, "plugin", ""))

NodeOf(spec) ==
    [protocol    |-> spec.protocol,
     server      |-> spec.server,
     port        |-> spec.port,
     credentials |-> Credentials(spec),
     tls         |-> MakeTls(spec),
     transport   |-> MakeTransport(spec),
     options     |-> Options(spec),
     udp         |-> On(spec, "udp") \/ spec.protocol \in OverQuic]

\* BoundedText and SecretString refuse an empty value wherever one is kept.
NoEmptyText(node) ==
    \A part \in {node.credentials, node.tls, node.transport, node.options} :
        \A f \in DOMAIN part : part[f] # ""

ValidateNodeSpec(spec) ==
    IF /\ ~Has(spec, "unknown_critical_field")
       /\ spec.protocol \in Protocols
       /\ OptionsOk(spec)
       /\ PortsOk(spec)
       /\ TlsOk(spec)
       /\ CredentialsOk(spec)
       /\ spec.server # "" /\ spec.port # "0"
       /\ TransportOk(spec)
       /\ NoEmptyText(NodeOf(spec))
       /\ NodeOk(NodeOf(spec))
    THEN {NodeOf(spec)} ELSE {}

-----------------------------------------------------------------------------
(***************************************************************************)
(* canonical_node_bytes: a list of names and values, each written with its *)
(* length.  The fingerprint is its hash, taken to be the list itself.      *)
(***************************************************************************)
Value(name, part, f, default) == <<<<name, Get(part, f, default)>>>>
Present(name, part, f) ==
    IF Has(part, f) THEN <<<<name, part[f]>>>> ELSE <<>>
Flag(name, on) == <<<<name, IF on THEN "1" ELSE "0">>>>

EncodeCredentials(protocol, c) ==
    CASE protocol = "vless" -> Value("uuid", c, "uuid", "")
      [] protocol = "vmess" ->
             Value("uuid", c, "uuid", "") \o Value("alter_id", c, "alter_id", "")
             \o Value("security", c, "vmess_security", "")
      [] protocol = "shadowsocks" ->
             Value("method", c, "method", "")
             \o Value("password", c, "password", "")
             \o Value("plugin", c, "plugin", "")
             \o (IF Has(c, "plugin")
                 THEN <<<<"plugin_opts", PluginOptions(c)>>>> ELSE <<>>)
      [] protocol \in {"trojan", "anytls"} -> Value("password", c, "password", "")
      [] protocol = "hysteria2" ->
             Value("password", c, "password", "") \o Present("obfs", c, "obfs")
             \o Present("obfs_password", c, "obfs_password")
      [] protocol = "tuic" ->
             Value("uuid", c, "uuid", "") \o Value("password", c, "password", "")
      [] protocol \in {"http", "socks"} ->
             Value("username", c, "username", "")
             \o Value("password", c, "password", "")

EncodeTls(t) ==
    Flag("tls", On(t, "tls")) \o Flag("insecure", On(t, "insecure"))
    \o Value("sni", t, "server_name", "") \o Present("alpn", t, "alpn")
    \o Value("utls", t, "client_fingerprint", "")
    \o IF Has(t, "reality_public_key")
       THEN Value("reality_public", t, "reality_public_key", "")
            \o Value("reality_short", t, "reality_short_id", "")
            \o Value("reality_fp", t, "client_fingerprint", "")
       ELSE <<>>

EncodeTransport(t) ==
    Value("transport", t, "transport", "") \o Present("path", t, "path")
    \o Present("Host", t, "header.Host") \o Present("X", t, "header.X")
    \o Present("host", t, "hosts") \o Present("service", t, "service_name")

EncodeOptions(protocol, o) ==
    CASE protocol = "vless" -> Value("flow", o, "flow", "")
      [] protocol = "tuic" ->
             Value("congestion_control", o, "congestion_control", "")
             \o Value("udp_relay_mode", o, "udp_relay_mode", "")
             \o Flag("udp_over_stream", On(o, "udp_over_stream"))
             \o Flag("zero_rtt_handshake", On(o, "zero_rtt_handshake"))
             \o Value("heartbeat", o, "heartbeat", "")
      [] protocol = "hysteria2" ->
             Present("server_port", o, "server_ports")
             \o Value("hop_interval", o, "hop_interval", "")
             \o Value("up_mbps", o, "up_mbps", "0")
             \o Value("down_mbps", o, "down_mbps", "0")
      [] protocol = "anytls" ->
             Value("idle_session_check_interval", o,
                   "idle_session_check_interval", "")
             \o Value("idle_session_timeout", o, "idle_session_timeout", "")
             \o Value("min_idle_session", o, "min_idle_session", "0")
      [] protocol = "shadowsocks" -> Present("udp_over_tcp", o, "udp_over_tcp")
      [] protocol = "http" ->
             Value("http_path", o, "http_path", "")
             \o Present("X", o, "http_header.X")
      [] protocol = "socks" ->
             Value("socks_version", o, "socks_version", "")
             \o Present("udp_over_tcp", o, "udp_over_tcp")
      [] OTHER -> <<>>

Fingerprint(node) ==
    <<<<"schema", "1">>, <<"protocol", node.protocol>>,
      <<"server", node.server>>, <<"port", node.port>>>>
    \o EncodeCredentials(node.protocol, node.credentials)
    \o EncodeTls(node.tls)
    \o EncodeTransport(node.transport)
    \o EncodeOptions(node.protocol, node.options)
    \o Flag("udp", node.udp)

-----------------------------------------------------------------------------
(***************************************************************************)
(* compose_outbound: the outbound sing-box is given for a node.            *)
(***************************************************************************)
CredentialJson(node) ==
    LET c == node.credentials
    IN Renamed(c, ("vmess_security" :> "security") @@ ("obfs" :> "obfs.type")
                  @@ ("obfs_password" :> "obfs.password")
                  @@ Same(DOMAIN c \ PluginFields))
       @@ (IF Has(c, "plugin") THEN [plugin_opts |-> PluginOptions(c)]
           ELSE Nothing)

\* tls_json, only for a node with TLS
TlsJson(node) ==
    IF On(node.tls, "tls")
    THEN Renamed(node.tls,
                 ("tls" :> "tls.enabled") @@ ("insecure" :> "tls.insecure")
                 @@ ("server_name" :> "tls.server_name")
                 @@ ("alpn" :> "tls.alpn")
                 @@ ("client_fingerprint" :> "tls.utls.fingerprint")
                 @@ ("reality_public_key" :> "tls.reality.public_key")
                 @@ ("reality_short_id" :> "tls.reality.short_id"))
    ELSE Nothing

\* transport_json, only for a transport other than tcp
TransportJson(node) ==
    IF node.transport.transport # "tcp"
    THEN Renamed(node.transport,
                 ("transport" :> "transport.type") @@ ("path" :> "transport.path")
                 @@ ("hosts" :> "transport.host")
                 @@ ("service_name" :> "transport.service_name")
                 @@ ("header.Host" :> "transport.headers.Host")
                 @@ ("header.X" :> "transport.headers.X"))
    ELSE Nothing

\* udp_over_tcp_json: version 2 is the one sing-box takes by itself
UdpOverTcpJson(value) ==
    CASE value = "true/2" -> "true"
      [] value = "false/2" -> "false"
      [] OTHER -> value

OptionsJson(node) ==
    LET json == Renamed(node.options,
                        ("http_path" :> "path") @@ ("http_header.X" :> "headers.X")
                        @@ ("socks_version" :> "version")
                        @@ Same(DOMAIN node.options))
        network == IF node.udp THEN "tcp,udp" ELSE "tcp"
    IN [f \in DOMAIN json |->
            IF f = "udp_over_tcp" THEN UdpOverTcpJson(json[f]) ELSE json[f]]
       @@ (IF node.protocol = "socks" THEN [network |-> network] ELSE Nothing)

Hops(node) == Has(node.options, "server_ports")

ComposeOutbound(node) ==
    [type |-> node.protocol, server |-> node.server]
    @@ (IF Hops(node) THEN Nothing ELSE [server_port |-> node.port])
    @@ CredentialJson(node) @@ TlsJson(node) @@ TransportJson(node)
    @@ OptionsJson(node)

\* What sing-box makes of an outbound: a bandwidth or pool size of zero is
\* one that is not given.
Meaning(outbound) ==
    Without(outbound,
            {f \in {"up_mbps", "down_mbps", "min_idle_session"} :
                Is(outbound, f, "0")})

-----------------------------------------------------------------------------
(***************************************************************************)
(* detect_normalized, choose_evidence, decode_base64_and_detect and        *)
(* parse_source.  A body has a format, may be wrapped in base64, and shows *)
(* the marks of one or more formats: an auto-detected body must show one.  *)
(***************************************************************************)
Formats == {"uri", "vmess", "clash", "singbox", "surfboard"}

\* A vmess:// link is one line of a URI list.
Mark(format) == IF format = "vmess" THEN "uri" ELSE format

Evidence(body) == IF body.base64 THEN {"base64"} ELSE body.marks

ChooseEvidence(evidence) ==
    LET strong == evidence \ {"base64"}
    IN CASE Cardinality(strong) = 1 -> strong
         [] strong = {} /\ Cardinality(evidence) = 1 -> evidence
         [] OTHER -> {}

\* The format the items of a body are parsed in, if one is settled on.
ParseSource(body) ==
    LET settled == IF body.hint = "auto" THEN ChooseEvidence(Evidence(body))
                   ELSE {body.hint}
    IN IF settled = {"base64"}
       THEN IF body.base64 THEN ChooseEvidence(body.marks) ELSE {}
       ELSE IF body.base64 THEN {} ELSE settled

SpecsOf(format, doc) ==
    CASE format = "uri" -> FromUri(doc)
      [] format = "vmess" -> FromVmessJson(doc)
      [] format = "clash" -> FromClash(doc)
      [] format = "singbox" -> FromSingbox(doc)
      [] format = "surfboard" -> FromSurfboard(doc)

NodesOf(body) ==
    IF Mark(body.format) \in ParseSource(body)
    THEN UNION {ValidateNodeSpec(spec) : spec \in SpecsOf(body.format, body.doc)}
    ELSE {}

-----------------------------------------------------------------------------
(***************************************************************************)
(* The bodies that sources serve.  A provider has a node, described by the *)
(* fields of a NodeSpec, and writes it, or one that differs in a field, in *)
(* one of the formats that can say it.  What a format calls the fields is  *)
(* a matter of the format (docs/02, 9 to 12), whether its adapter reads    *)
(* them or not: Clash has "alpn" and "http-opts", "cipher" is a credential *)
(* of its vmess nodes too, and the numbers of a vmess:// link may be text. *)
(***************************************************************************)
UriKeys(protocol) ==
    Same({"flow", "path", "udp", "obfs", "congestion_control",
          "udp_relay_mode", "udp_over_stream", "zero_rtt_handshake",
          "heartbeat", "hop_interval", "up_mbps", "down_mbps",
          "idle_session_check_interval", "idle_session_timeout",
          "min_idle_session", "alpn", "plugin", "plugin_opts"})
    @@ [transport |-> "type", server_name |-> "sni", hosts |-> "host",
        client_fingerprint |-> "fp", reality_public_key |-> "pbk",
        reality_short_id |-> "sid", service_name |-> "serviceName",
        insecure |-> "allowInsecure", server_ports |-> "ports",
        obfs_password |-> "obfs-password",
        tls |-> IF protocol = "vmess" THEN "tls" ELSE "security"]
    @@ CASE protocol = "vless" -> [uuid |-> "user"]
         [] protocol = "vmess" -> [uuid |-> "user", vmess_security |-> "security"]
         [] protocol = "shadowsocks" -> [method |-> "user", password |-> "pass"]
         [] protocol = "tuic" -> [uuid |-> "user", password |-> "pass"]
         [] OTHER -> [password |-> "user"]

VmessKeys ==
    [uuid |-> "id", vmess_security |-> "scy", transport |-> "net",
     path |-> "path", hosts |-> "host", server_name |-> "sni",
     alter_id |-> "aid", tls |-> "tls"]

ClashKeys(spec) ==
    Same({"uuid", "username", "password", "udp", "flow", "obfs", "tls", "alpn",
          "plugin"})
    @@ [method |-> "cipher", vmess_security |-> "security",
        server_name |-> "servername", transport |-> "network",
        alter_id |-> "alterId", server_ports |-> "ports", up_mbps |-> "up",
        down_mbps |-> "down", insecure |-> "skip-cert-verify",
        udp_over_tcp |-> "udp-over-tcp", obfs_password |-> "obfs-password",
        hop_interval |-> "hop-interval", client_fingerprint |-> "fingerprint",
        reality_public_key |-> "reality-opts", reality_short_id |-> "reality-opts",
        congestion_control |-> "congestion-controller",
        udp_relay_mode |-> "udp-relay-mode",
        udp_over_stream |-> "udp-over-stream",
        zero_rtt_handshake |-> "zero-rtt", heartbeat |-> "heartbeat-interval",
        idle_session_check_interval |-> "idle-session-check-interval",
        idle_session_timeout |-> "idle-session-timeout",
        min_idle_session |-> "min-idle-session",
        service_name |-> "grpc-opts.grpc-service-name"]
    @@ ("header.Host" :> "ws-opts.headers.Host")
    @@ ("header.X" :> "ws-opts.headers.X") @@ ("http_header.X" :> "headers.X")
    @@ (IF Kind(spec) = "http"
        THEN [path |-> "http-opts.path", hosts |-> "http-opts.headers.Host"]
        ELSE [path |-> "ws-opts.path"])
    @@ (IF Is(spec, "plugin", "obfs-local")
        THEN ("plugin.obfs" :> "plugin.mode") @@ ("plugin.obfs-host" :> "plugin.host")
        ELSE Same({"plugin.mode", "plugin.host", "plugin.path", "plugin.tls",
                   "plugin.mux"}))

SingboxKeys(protocol) ==
    Same({"uuid", "username", "password", "method", "alter_id", "flow",
          "plugin", "plugin_opts", "udp_over_tcp", "congestion_control",
          "server_ports", "hop_interval", "up_mbps", "down_mbps",
          "udp_relay_mode", "udp_over_stream", "zero_rtt_handshake",
          "heartbeat", "idle_session_check_interval", "idle_session_timeout",
          "min_idle_session"})
    @@ [vmess_security |-> "security", socks_version |-> "version",
        http_path |-> "path", obfs |-> "obfs.type",
        obfs_password |-> "obfs.password", tls |-> "tls.enabled",
        insecure |-> "tls.insecure", server_name |-> "tls.server_name",
        alpn |-> "tls.alpn", client_fingerprint |-> "tls.utls.fingerprint",
        reality_public_key |-> "tls.reality.public_key",
        reality_short_id |-> "tls.reality.short_id",
        transport |-> "transport.type", path |-> "transport.path",
        hosts |-> "transport.host", service_name |-> "transport.service_name",
        udp |-> IF protocol = "socks" THEN "network" ELSE "udp"]
    @@ ("header.Host" :> "transport.headers.Host")
    @@ ("header.X" :> "transport.headers.X") @@ ("http_header.X" :> "headers.X")

SurfboardKeys(protocol) ==
    Same({"tls", "path", "udp", "alpn", "service_name"})
    @@ [server_name |-> "sni", transport |-> "network"]
    @@ CASE protocol = "shadowsocks" ->
                [method |-> "#1", password |-> "#2"]
                @@ ("plugin.obfs" :> "obfs") @@ ("plugin.obfs-host" :> "obfs_host")
         [] protocol = "tuic" -> [uuid |-> "#1", password |-> "#2"]
         [] protocol \in {"vless", "vmess"} -> [uuid |-> "#1"]
         [] OTHER -> [password |-> "#1", obfs |-> "obfs",
                      obfs_password |-> "obfs_password"]

Keys(format, spec) ==
    CASE format = "uri" -> UriKeys(spec.protocol)
      [] format = "vmess" -> VmessKeys
      [] format = "clash" -> ClashKeys(spec)
      [] format = "singbox" -> SingboxKeys(spec.protocol)
      [] format = "surfboard" -> SurfboardKeys(spec.protocol)

\* How the format writes a value.
Written(format, k, value) ==
    CASE format = "clash" /\ k = "hop-interval" /\ value = "30s" -> "30"
      [] format = "clash" /\ k = "heartbeat-interval" /\ value = "20ms" -> "20"
      [] format = "clash" /\ k = "up" /\ value = "100" -> "100 mbps"
      [] format = "clash" /\ k = "plugin" /\ value = "obfs-local" -> "obfs"
      [] format = "singbox" /\ k = "network" ->
             IF value = "true" THEN "tcp,udp" ELSE "tcp"
      [] format = "uri" /\ k = "security" /\ value = "true" -> "tls"
      [] format = "vmess" /\ k = "tls" -> "tls"
      [] OTHER -> value

Frame(format, spec) ==
    CASE format = "uri" ->
             [scheme |-> spec.protocol, server |-> spec.server, port |-> spec.port]
      [] format = "vmess" -> [add |-> spec.server, port |-> spec.port]
      [] format = "singbox" -> [type |-> spec.protocol, server |-> spec.server,
                                server_port |-> spec.port]
      [] OTHER ->
             [type |-> spec.protocol, server |-> spec.server, port |-> spec.port]

\* The fields to be said: formats with one text for the options of a plugin
\* join them, Surfboard does not name its one plugin, and a socks outbound
\* says for itself whether it carries UDP.
Said(format, spec) ==
    Without(spec, {"protocol", "server", "port"}
        \cup (IF format = "surfboard" /\ Is(spec, "plugin", "obfs-local")
              THEN {"plugin"} ELSE {})
        \cup (IF format \in {"uri", "singbox"} THEN PluginFields ELSE {}))
    @@ (IF format \in {"uri", "singbox"} /\ Has(spec, "plugin")
        THEN [plugin_opts |-> PluginOptions(spec)] ELSE Nothing)
    @@ (IF format = "singbox" /\ spec.protocol = "socks"
        THEN [udp |-> "false"] ELSE Nothing)

CanSay(format, spec) ==
    /\ DOMAIN Said(format, spec) \subseteq DOMAIN Keys(format, spec)
    /\ format = "vmess" => spec.protocol = "vmess"
    /\ format \in {"uri", "surfboard"} => spec.protocol \notin {"http", "socks"}
    /\ format \in {"uri", "singbox"} =>
           /\ PluginFields \cap DOMAIN spec # {} => Has(spec, "plugin")
           /\ \A f \in PluginFields \cap DOMAIN spec :
                  spec[f] \notin DOMAIN Semicolons

\* The other ways to write a document.
Respelled(format, spec, doc) ==
    CASE format = "uri" /\ Has(doc, "ports") ->
             {[server_ports |-> doc.ports] @@ Without(doc, {"ports"})}
      [] format = "surfboard" ->
             {Pick(spec, {"uuid", "method", "password"})
              @@ Without(doc, {"#1", "#2"})}
      [] format = "vmess" ->
             {[aid |-> "text " \o Get(doc, "aid", "0")] @@ doc}
      [] format = "clash" /\ doc.type = "vmess" /\ Has(doc, "security") ->
             {[cipher |-> doc.security] @@ Without(doc, {"security"})}
      [] OTHER -> {}

\* The documents, if any, that say the spec in the format.
Docs(format, spec) ==
    LET keyed == Renamed(Said(format, spec), Keys(format, spec))
        doc == Frame(format, spec)
               @@ [k \in DOMAIN keyed |-> Written(format, k, keyed[k])]
    IN IF CanSay(format, spec) THEN {doc} \cup Respelled(format, spec, doc) ELSE {}

\* A body in the plain, named by its hint; the other ways to serve it; and
\* fields that no adapter knows, the second of which the format must refuse.
Plain(format, doc) ==
    [format |-> format, doc |-> doc, base64 |-> FALSE, hint |-> Mark(format),
     marks |-> {Mark(format)}]

Served(format, doc) ==
    LET plain == Plain(format, doc)
    IN {[plain EXCEPT !.hint = "auto"],
        [plain EXCEPT !.hint = "auto", !.marks = @ \cup {"uri"}],
        [plain EXCEPT !.base64 = TRUE, !.hint = "auto"],
        [plain EXCEPT !.base64 = TRUE, !.hint = "base64"],
        [plain EXCEPT !.base64 = TRUE]}

Unknown(format) ==
    {"remarks"} \cup
    CASE format = "clash" -> {"tfo"}
      [] format = "singbox" -> {"detour"}
      [] format = "surfboard" -> {"reality_opts"}
      [] OTHER -> {}

Bodies(format, spec) ==
    UNION {{Plain(format, doc)} \cup
           (IF spec = base
            THEN Served(format, doc)
                 \cup {Plain(format, doc @@ (k :> "x")) : k \in Unknown(format)}
            ELSE {}) : doc \in Docs(format, spec)}

(***************************************************************************)
(* What the program is told by a document of what its provider means.      *)
(* Three things get lost.  The Clash adapter ignores "alpn", "http-opts",  *)
(* and the "cipher" of a vmess node, and the adapter of vmess:// links an  *)
(* alterId in quotes; a plugin option with a semicolon is another option   *)
(* from there on.                                                          *)
(***************************************************************************)
Ignored(spec, format, doc) ==
    CASE format = "clash" ->
             {"alpn"}
             \cup (IF Kind(spec) = "http" THEN {"path", "hosts"} ELSE {})
             \cup (IF Has(doc, "cipher") THEN {"vmess_security"} ELSE {})
      [] format = "vmess" ->
             IF Get(doc, "aid", "0") \in Numbers THEN {} ELSE {"alter_id"}
      [] OTHER -> {}

Told(spec, format, doc) ==
    LET read == Without(spec, Ignored(spec, format, doc))
        options == ParsePluginOptions(PluginOptions(read))
    IN IF options = {} THEN read ELSE Only(options) @@ Without(read, PluginFields)

\* A body that leaves no doubt and has nothing that its adapter refuses: the
\* Clash adapter refuses Reality and "fingerprint", and a bandwidth of zero.
Clear(body) ==
    /\ body = Plain(body.format, body.doc)
    /\ DOMAIN body.doc \cap Unknown(body.format) = {}
    /\ body.format = "clash" =>
           /\ DOMAIN body.doc \cap {"reality-opts", "fingerprint"} = {}
           /\ "0" \notin {Get(body.doc, k, "1") : k \in {"up", "down"}}

-----------------------------------------------------------------------------
InitAt(node) ==
    /\ base = node
    /\ items = <<>>
    /\ pool = [fp \in {} |-> Nothing]
    /\ report = [accepted |-> 0, duplicate |-> 0, rejected |-> 0]

Init == \E node \in Bases : InitAt(node)

(***************************************************************************)
(* convert_sources and dedupe_sources for one item: a refused one is       *)
(* counted, a known fingerprint keeps the node that came first.            *)
(***************************************************************************)
Convert(spec, told, body, of) ==
    LET nodes == NodesOf(body)
        fps == {Fingerprint(n) : n \in nodes}
        kind == IF nodes = {} THEN "rejected"
                ELSE IF fps \subseteq DOMAIN pool THEN "duplicate"
                ELSE "accepted"
    IN /\ items' = Append(items,
                  [spec |-> spec, told |-> told, of |-> of, fps |-> fps,
                   clear |-> of = {} /\ Clear(body),
                   meaning |-> {Meaning(ComposeOutbound(n)) : n \in nodes}])
       /\ pool' = pool @@ [fp \in fps |->
                              ComposeOutbound(CHOOSE n \in nodes : TRUE)]
       /\ report' = [report EXCEPT ![kind] = @ + 1]
       /\ UNCHANGED base

\* A source lists the node, or one that differs from it in a field.  After
\* the first body the others are about one of the two.
Read ==
    LET specs == IF items = <<>> THEN {base} \cup {c @@ base : c \in Changes}
                 ELSE {base, items[1].spec}
    IN /\ Len(items) < MaxBodies
       /\ \E spec \in specs, format \in Formats :
              \E body \in Bodies(format, spec) :
                  Convert(spec, Told(spec, format, body.doc), body, {})

\* export_node gives a user the outbound, which they may import elsewhere.
Import ==
    /\ Len(items) \in 1..MaxBodies
    /\ \E fp \in DOMAIN pool :
           Convert(base, base, Plain("singbox", pool[fp]), {pool[fp]})

Next == Read \/ Import

Spec == Init /\ [][Next]_vars

-----------------------------------------------------------------------------
(***************************************************************************)
(* What the conversion keeps.                                              *)
(***************************************************************************)
Listed(i) == items[i].of = {} /\ items[i].fps # {}

\* A node that is merged into another one is reached by the same outbound.
MergedMeansSame ==
    \A i \in DOMAIN items : \A fp \in items[i].fps :
        Meaning(pool[fp]) \in items[i].meaning

\* The same node is one node, in whatever formats it is listed, and one that
\* a format gets across every format does.
OneNodeInEveryFormat ==
    \A i, j \in DOMAIN items :
        items[i].told = items[j].told =>
            \/ items[i].fps = items[j].fps
            \/ ~(Listed(i) /\ Listed(j)) /\ ~(items[i].clear /\ items[j].clear)

\* The fields that mean something for the protocol and the transport.
Meaningful(spec) ==
    LET kind == Kind(spec)
    IN Login(spec.protocol) \cup OptionFields(spec.protocol)
       \cup (IF On(spec, "tls")
             THEN {"tls", "insecure", "server_name", "alpn",
                   "client_fingerprint"} ELSE {})
       \cup (IF Has(spec, "reality_public_key") THEN {"reality_short_id"} ELSE {})
       \cup CASE kind \in {"ws", "httpupgrade"} -> {"path"} \cup HeaderFields
              [] kind = "http" -> {"path", "hosts"}
              [] kind = "grpc" -> {"service_name"}
              [] OTHER -> {}

\* Values of a field that are the same: a missing number is zero, the host of
\* the transport is its Host header, and a UUID has two spellings.
Plainly(spec) ==
    [f \in DOMAIN spec |-> IF f = "uuid" THEN "uuid" ELSE spec[f]]
    @@ (IF Has(spec, "hosts") THEN "header.Host" :> spec.hosts ELSE Nothing)
    @@ [f \in {"up_mbps", "min_idle_session"} |-> "0"]

Differ(s, t, f) == Get(Plainly(s), f, "") # Get(Plainly(t), f, "")

\* Two nodes that are merged differ in nothing that means something, and two
\* that are not are told apart by sing-box too, up to what it is not told.
NothingIsDropped ==
    /\ \A i, j \in DOMAIN items :
           Listed(i) /\ Listed(j) /\ items[i].fps = items[j].fps =>
               \A f \in Meaningful(items[i].told) :
                   ~Differ(items[i].told, items[j].told, f)
    /\ \A fp, gp \in DOMAIN pool :
           LET told(list) == SelectSeq(list, LAMBDA p :
                   p[1] \notin {"udp", "udp_over_tcp", "insecure", "port"})
           IN Meaning(pool[fp]) = Meaning(pool[gp]) => told(fp) = told(gp)

\* An exported outbound is understood when it is imported again, and means
\* the same, unless it hops between ports: it is then written without the
\* server_port that the adapter asks for; or a semicolon makes one of its
\* plugin options come twice.
ExportIsUnderstood ==
    \A i \in DOMAIN items : \A outbound \in items[i].of :
        \/ items[i].meaning = {Meaning(outbound)}
        \/ Has(outbound, "server_ports")
        \/ ParsePluginOptions(Get(outbound, "plugin_opts", <<>>)) = {}

EveryItemCounts ==
    /\ report.accepted = Cardinality(DOMAIN pool)
    /\ report.accepted + report.duplicate + report.rejected = Len(items)

NodesKeepTheirMeaning ==
    /\ MergedMeansSame
    /\ OneNodeInEveryFormat
    /\ NothingIsDropped
    /\ ExportIsUnderstood
    /\ EveryItemCounts
=============================================================================
