----------------------------- MODULE MCConfigCases -----------------------------
(***************************************************************************)
(* The documents, for ConfigModel and ConfigApply: addresses of three and  *)
(* two bits, lists that meet and lists that do not, and in every section   *)
(* the values at its bounds and past them.                                 *)
(***************************************************************************)
EXTENDS Integers, Sequences

MCWidth == [b \in BOOLEAN |-> IF b THEN 2 ELSE 3]
V4(n) == [v6 |-> FALSE, addr |-> n]
V6(n) == [v6 |-> TRUE, addr |-> n]
Net4(n, p) == [v6 |-> FALSE, addr |-> n, prefix |-> p]
Net6(n, p) == [v6 |-> TRUE, addr |-> n, prefix |-> p]
MCLower == [Video |-> "video"]
Com == <<"com">>
Video == <<"video", "com">>
SubVideo == <<"sub", "video", "com">>
Ads == <<"ads", "com">>
Cn == <<"site", "cn">>
MCNames == {<<"other">>, Video, SubVideo, Ads, Cn, <<"myvideo", "com">>}
MCCnDomains == {<<"cn">>}
MCPrivate == {V4(0), V4(1), V6(0)}
MCCnAddresses == {V4(2), V4(3), V6(1)}

MCBadLabels == {"-x"}
MCHttpsUrls == {"u1", "u2"}
MCBadNames == {"bad"}

LOCAL INSTANCE ConfigModel WITH
    Width <- MCWidth, Lower <- MCLower, BadLabels <- MCBadLabels,
    HttpsUrls <- MCHttpsUrls, BadNames <- MCBadNames, Names <- MCNames,
    Private <- MCPrivate, CnDomains <- MCCnDomains,
    CnAddresses <- MCCnAddresses

Base == UserConfigWire(<<SubscriptionSourceWire("a", "u1")>>)
Routing(r) == [Base EXCEPT !.routing = r]
Apps(m, t) == [Base EXCEPT !.applications = [mode |-> m, targets |-> t]]
Two(mode, x, y) ==
    [UserConfigWire(<<[SubscriptionSourceWire("a", x) EXCEPT !.enabled = (mode # "off")],
                      SubscriptionSourceWire("b", y)>>)
        EXCEPT !.subscriptions.mode = mode]
Scene(id, s, b, a) == [id |-> id, ssid |-> s, bssid |-> b, action |-> a]
Scenes(rules) == [Base EXCEPT !.network.wifi_scenes.enabled = TRUE,
                              !.network.wifi_scenes.rules = rules]

Lists(forced, bypassed, blocked) ==
    Routing([RoutingWire EXCEPT !.force_proxy_domains = forced,
                !.bypass_domains = bypassed, !.block_domains = blocked])
Cidrs(forced, bypassed) ==
    Routing([RoutingWire EXCEPT !.force_proxy_cidrs = forced,
                                !.bypass_cidrs = bypassed])

RoutingDocs ==
    {Routing([RoutingWire EXCEPT !.bypass_private = p, !.bypass_cn = c]) :
        p, c \in BOOLEAN}
    \cup {[d EXCEPT !.proxy.outbound_mode = m] :
             m \in {"rule", "global", "direct"},
             d \in {Base, Lists(<<Video>>, <<Ads>>, <<>>),
                    Cidrs(<<Net4(3, 2)>>, <<Net4(0, 3)>>)}}
    \cup {Lists(f, b, k) :
             f \in {<<>>, <<Video>>, <<<<"Video", "com">>>>, <<SubVideo>>},
             b \in {<<>>, <<Video>>, <<SubVideo, Cn>>, <<Com>>},
             k \in {<<>>, <<Ads>>, <<Video, <<"Video", "com">>>>, <<<<>>>>}}
    \cup {Cidrs(f, b) :
             f \in {<<>>, <<Net4(2, 2)>>, <<Net4(5, 1), Net6(1, 1)>>,
                    <<Net4(4, 4)>>, <<Net4(2, 2), Net4(3, 2)>>},
             b \in {<<>>, <<Net4(3, 3)>>, <<Net4(0, 2), Net6(0, 0)>>,
                    <<Net4(0, 0)>>}}
    \cup {Routing([RoutingWire EXCEPT !.block_quic = TRUE])}

AppDocs ==
    {Apps(m, t) : m \in {"all", "whitelist", "blacklist"},
                  t \in {<<>>, <<<<0, "p">>>>, <<<<0, "p">>, <<10002>>>>,
                         <<<<10002>>>>, <<<<0, "q">>, <<0, "p">>>>,
                         <<<<10, "p">>>>, <<<<0>>>>, <<<<0, "bad">>>>,
                         <<<<10001>>, <<10001>>>>, <<<<1>>>>,
                         <<<<1>>, <<10002>>>>, <<<<1>>, <<0, "p">>>>}}
SceneDocs ==
    {Scenes(r) :
        r \in {<<>>, <<Scene("h", "home", None, "disable")>>,
               <<Scene("h", "home", None, "disable"),
                 Scene("a", "home", "b1", "enable")>>,
               <<Scene("x", None, "b1", "disable"),
                 Scene("h", "home", None, "enable"),
                 Scene("a", "home", "b1", "enable")>>,
               <<Scene("h", "home", None, "disable"),
                 Scene("i", "home", None, "enable")>>,
               <<Scene("h", None, None, "disable")>>}}
OtherDocs ==
    {Base, [Base EXCEPT !.service.enabled = FALSE],
     [Base EXCEPT !.advanced.inbound_port = 7000],
     [Base EXCEPT !.advanced.inbound_port = 0],
     [Base EXCEPT !.advanced.dry_run = TRUE],
     [Base EXCEPT !.advanced.bypass_mark = {0}],
     [Base EXCEPT !.advanced.resource_candidates[1].mark = {2}],
     [Base EXCEPT !.advanced.health_timeout_seconds = 31],
     [Base EXCEPT !.logging.level = "trace"],
     [Base EXCEPT !.logging.retention_days = 0],
     [Base EXCEPT !.proxy.max_candidates = 65],
     [Base EXCEPT !.proxy.max_candidates = 1],
     [Base EXCEPT !.proxy.interval_minutes = 4],
     [Base EXCEPT !.network.capture_mode = "tun"],
     [Base EXCEPT !.network.capture_mode = "tun", !.network.tun_stack = "system"],
     [Base EXCEPT !.network.capture_mode = "tun", !.network.proxy_udp = FALSE],
     [Base EXCEPT !.network.dns_mode = "system"],
     [Base EXCEPT !.network.interfaces.include = <<"w", "r">>],
     [Base EXCEPT !.network.interfaces.include = <<"w">>,
                  !.network.interfaces.exclude = <<"w">>],
     [Base EXCEPT !.network.interfaces.mobile = FALSE,
                  !.network.interfaces.wifi = FALSE],
     [Base EXCEPT !.subscriptions.update_interval_hours = 169],
     [Base EXCEPT !.subscriptions.sources[1].url = ""],
     [Base EXCEPT !.subscriptions.sources[1].url = "http"],
     [Base EXCEPT !.subscriptions.sources[1].mirrors = <<"u1">>],
     [Base EXCEPT !.subscriptions.sources[1].mirrors = <<"u2">>],
     [Base EXCEPT !.subscriptions.sources[1].name = "bad"],
     Two("merge", "u1", "u2"), Two("merge", "u1", "u1"), Two("single", "u1", "u2"),
     Two("merge", "", "")}

MCDocuments == RoutingDocs \cup AppDocs \cup SceneDocs \cup OtherDocs

MCStarts == {Base, Scenes(<<Scene("h", "home", None, "disable")>>)}
MCEdits == {Base, [Base EXCEPT !.service.enabled = FALSE],
            [Base EXCEPT !.advanced.inbound_port = 7000],
            [Base EXCEPT !.network.capture_mode = "tun"],
            Lists(<<Video>>, <<>>, <<>>),
            [Lists(<<Video>>, <<>>, <<>>) EXCEPT !.service.enabled = FALSE],
            Lists(<<Video>>, <<Com>>, <<>>),
            Apps("whitelist", <<<<0, "p">>>>),
            [Apps("blacklist", <<<<0, "p">>>>) EXCEPT !.network.capture_mode = "tun"],
            Scenes(<<Scene("h", "home", None, "disable")>>),
            Two("merge", "u1", "u2")}

Listing(f) == [up |-> TRUE, of |-> f]
MCListings == {[up |-> FALSE, of |-> <<>>],
               Listing([p \in {<<0, "p">>, <<0, "q">>} |-> 10001]),
               Listing([p \in {<<0, "p">>} |-> 10003])}
MCNetworks == {[ssid |-> None, bssid |-> None], [ssid |-> "home", bssid |-> "b1"]}
MCTags == <<"n1", "n2">>
================================================================================
