------------------------------ MODULE MCNodeCases ------------------------------
(***************************************************************************)
(* The nodes that sources list, for NodeFormat: a base of every protocol   *)
(* and shape of transport, and what a listing may have different.          *)
(***************************************************************************)
EXTENDS TLC

At == [server |-> "s", port |-> "30"]
Tls == At @@ [tls |-> "true"]
Ss == At @@ [protocol |-> "shadowsocks", method |-> "aes-128-gcm", password |-> "p"]
MCBases == {
  At @@ [protocol |-> "vless", uuid |-> "uuid"],
  Tls @@ [protocol |-> "vless", uuid |-> "uuid", transport |-> "ws", path |-> "/p"],
  Tls @@ [protocol |-> "vless", uuid |-> "uuid", reality_public_key |-> "pk", client_fingerprint |-> "chrome"],
  Tls @@ [protocol |-> "vless", uuid |-> "uuid", transport |-> "grpc"],
  Tls @@ [protocol |-> "vless", uuid |-> "uuid", transport |-> "http", hosts |-> "h1"],
  At @@ [protocol |-> "vmess", uuid |-> "uuid", transport |-> "ws", hosts |-> "h1"],
  Tls @@ [protocol |-> "vmess", uuid |-> "uuid", transport |-> "httpupgrade"],
  Ss,
  Ss @@ [plugin |-> "obfs-local"] @@ ("plugin.obfs" :> "http"),
  Ss @@ [plugin |-> "v2ray-plugin"] @@ ("plugin.mode" :> "quic"),
  Ss @@ [plugin |-> "v2ray-plugin"] @@ ("plugin.mode" :> "quic") @@ ("plugin.path" :> "/p;tls=true"),
  Tls @@ [protocol |-> "trojan", password |-> "p"],
  Tls @@ [protocol |-> "trojan", password |-> "p", transport |-> "ws"],
  Tls @@ [protocol |-> "hysteria2", password |-> "p"],
  Tls @@ [protocol |-> "tuic", uuid |-> "uuid", password |-> "p"],
  Tls @@ [protocol |-> "anytls", password |-> "p"],
  At @@ [protocol |-> "http"],
  At @@ [protocol |-> "socks"]}
MCChanges == {
  [tls |-> "true"], [insecure |-> "true"], [server_name |-> "a"], [alpn |-> "h2,h3"],
  [client_fingerprint |-> "chrome"], [reality_short_id |-> "01"], [reality_short_id |-> ""],
  [udp |-> "true"], [path |-> "/q"], [path |-> ""], [hosts |-> "h1"], [hosts |-> "h1,h2"], [service_name |-> "g"],
  "header.Host" :> "h1", "header.Host" :> "h2", "header.X" :> "v",
  [transport |-> "ws"], [transport |-> "grpc"], [transport |-> "quic"], [transport |-> "kcp"],
  [flow |-> "xtls-rprx-vision"], [flow |-> ""],
  [uuid |-> "uuid without hyphens"], [uuid |-> "bad"], [password |-> "q"], [password |-> ""],
  [username |-> "u", password |-> "p"], [username |-> "u"],
  [method |-> "aes-256-gcm"], [method |-> "rc4"], [vmess_security |-> "zero"], [vmess_security |-> "rc4"],
  [alter_id |-> "1"], "plugin.obfs-host" :> "h1", "plugin.host" :> "h1", "plugin.tls" :> "true", "plugin.mux" :> "1",
  "plugin.path" :> "/p;mode=quic", ("plugin.path" :> "/p") @@ ("plugin.tls" :> "true"),
  [udp_over_tcp |-> "true"], [udp_over_tcp |-> "true/1"], [udp_over_tcp |-> "true/2"], [udp_over_tcp |-> "false"],
  [obfs |-> "salamander", obfs_password |-> "o"], [obfs |-> "salamander"],
  [congestion_control |-> "bbr"], [congestion_control |-> "reno"], [udp_relay_mode |-> "native"], [udp_over_stream |-> "true"],
  [zero_rtt_handshake |-> "true"], [heartbeat |-> "20ms"],
  [server_ports |-> "1-2"], [server_ports |-> "2-1"], [hop_interval |-> "30s"], [up_mbps |-> "0"], [up_mbps |-> "100"], [down_mbps |-> "20"],
  [idle_session_timeout |-> "30s"], [idle_session_check_interval |-> "30s"], [min_idle_session |-> "0"], [min_idle_session |-> "1"],
  [http_path |-> "/q"], "http_header.X" :> "v", [socks_version |-> "4"], [socks_version |-> "6"]}
================================================================================
