----------------------------- MODULE ConfigModel -----------------------------
(***************************************************************************)
(* nethop.toml: what a document may say (config_model.rs), which packets   *)
(* and which applications it means (apps.rs, capture.rs), which Wi-Fi      *)
(* scene decides (wifi_scene.rs) and what sing-box is told to do           *)
(* (composer.rs).                                                          *)
(*                                                                         *)
(* A domain is a sequence of labels, a network [v6, addr, prefix] of       *)
(* Width[v6] bits, an address [v6, addr], a mark the set of its bits and a *)
(* target of the application list <<user, package>> or a UID.              *)
(***************************************************************************)
EXTENDS Integers, Sequences, FiniteSets, SequencesExt

CONSTANTS
    Width,          \* bits of an IPv4 (FALSE) and of an IPv6 (TRUE) address
    Lower,          \* labels that are spelled with capitals, in small letters
    BadLabels,      \* labels and addresses that are no part of a domain name
    HttpsUrls,      \* the URLs that validate_optional_url accepts
    BadNames,       \* package names and interface patterns that are refused
    Names,          \* the domains that applications ask for
    Private,        \* the addresses that sing-box calls private
    CnDomains,      \* the domains of the rule set cn-domain
    CnAddresses     \* the addresses of the rule set cn-ip

None == "none"

PerUserRange == 100000
MaxSources == 16
MaxMirrors == 3
MaxAutoCandidates == 64
MaxList == 512
Sentinel == 1       \* APPLICATION_RESOLUTION_SENTINEL

AllUnique(s) == IsInjective(s)
Within(n, low, high) == low =< n /\ n =< high

-----------------------------------------------------------------------------
(* The sections and what is assumed where the file says nothing.           *)

ServiceWire == [enabled |-> TRUE]

\* The request profile, the format hint and the filter are one value here.
SubscriptionSourceWire(name, url) ==
    [name |-> name, enabled |-> TRUE, url |-> url, mirrors |-> <<>>,
     options |-> None]

SubscriptionsWire(sources) ==
    [mode |-> "single", auto_update |-> TRUE, update_interval_hours |-> 24,
     sources |-> sources]

ProxyWire == [outbound_mode |-> "rule", interval_minutes |-> 10,
              tolerance_ms |-> 50, max_candidates |-> 64]

ApplicationsWire == [mode |-> "all", targets |-> <<>>]

InterfacesWire == [mobile |-> TRUE, wifi |-> TRUE, hotspot |-> FALSE,
                   usb |-> FALSE, include |-> <<>>, exclude |-> <<>>]

WifiScenesWire == [enabled |-> FALSE, probe_interval_seconds |-> 30,
                   rules |-> <<>>]

NetworkWire == [capture_mode |-> "auto", proxy_tcp |-> TRUE,
                proxy_udp |-> TRUE, ipv6_mode |-> "auto", dns_mode |-> "auto",
                tun_stack |-> "gvisor", interfaces |-> InterfacesWire,
                wifi_scenes |-> WifiScenesWire]

RoutingWire == [bypass_private |-> TRUE, bypass_cn |-> TRUE,
                block_quic |-> FALSE, force_proxy_cidrs |-> <<>>,
                bypass_cidrs |-> <<>>, force_proxy_domains |-> <<>>,
                bypass_domains |-> <<>>, block_domains |-> <<>>]

LoggingWire == [level |-> "info", retention_days |-> 7]

ResourceCandidateWire == [mark |-> {0}, mask |-> {0, 1}, route_table |-> 100,
                          rule_priority |-> 12000]

AdvancedWire == [inbound_port |-> 7893, bypass_mark |-> {1},
                 ipv6_guard |-> TRUE, dry_run |-> FALSE,
                 health_timeout_seconds |-> 3,
                 reconcile_interval_seconds |-> 60,
                 resource_candidates |-> <<ResourceCandidateWire>>]

UserConfigWire(sources) ==
    [service |-> ServiceWire, subscriptions |-> SubscriptionsWire(sources),
     proxy |-> ProxyWire, applications |-> ApplicationsWire,
     network |-> NetworkWire, routing |-> RoutingWire,
     logging |-> LoggingWire, advanced |-> AdvancedWire]

-----------------------------------------------------------------------------
(* The networks and the domains of the routing section.                    *)

Masked(addr, v6, prefix) ==
    LET size == 2 ^ (Width[v6] - prefix) IN (addr \div size) * size

ParseCidr(c) == [c EXCEPT !.addr = Masked(c.addr, c.v6, c.prefix)]

CidrOk(c) == c.prefix =< Width[c.v6]

ParseCidrs(s) == {ParseCidr(s[i]) : i \in DOMAIN s}

CidrsOk(s) == (\A i \in DOMAIN s : CidrOk(s[i]))
              /\ Cardinality(ParseCidrs(s)) = Len(s)

\* Mutant: the longer of the two prefixes decides.
MutOverlaps(a, b) ==
    LET prefix == IF a.prefix > b.prefix THEN a.prefix ELSE b.prefix
    IN a.v6 = b.v6 /\ Masked(a.addr, a.v6, prefix) = Masked(b.addr, b.v6, prefix)

Overlaps(a, b) ==
    LET prefix == IF a.prefix < b.prefix THEN a.prefix ELSE b.prefix
    IN a.v6 = b.v6 /\ Masked(a.addr, a.v6, prefix) = Masked(b.addr, b.v6, prefix)

ParseDomain(d) ==
    [i \in DOMAIN d |-> IF d[i] \in DOMAIN Lower THEN Lower[d[i]] ELSE d[i]]

ParseDomains(s) == {ParseDomain(s[i]) : i \in DOMAIN s}

DomainsOk(s) ==
    /\ \A i \in DOMAIN s : s[i] # <<>> /\ Range(s[i]) \cap BadLabels = {}
    /\ Cardinality(ParseDomains(s)) = Len(s)

DomainIsSuffixOf(value, suffix) == IsSuffix(suffix, value)

DomainSetsOverlap(left, right) ==
    \E l \in left, r \in right :
        DomainIsSuffixOf(l, r) \/ DomainIsSuffixOf(r, l)

ValidateRouting(w) ==
    LET force == ParseDomains(w.force_proxy_domains)
        bypass == ParseDomains(w.bypass_domains)
        block == ParseDomains(w.block_domains)
        domains == {w.force_proxy_domains, w.bypass_domains, w.block_domains}
        cidrs == {w.force_proxy_cidrs, w.bypass_cidrs}
    IN /\ ~w.block_quic
       /\ \A s \in cidrs : Len(s) =< MaxList /\ CidrsOk(s)
       /\ \A f \in ParseCidrs(w.force_proxy_cidrs) :
              \A b \in ParseCidrs(w.bypass_cidrs) : ~Overlaps(f, b)
       /\ \A s \in domains : Len(s) =< MaxList /\ DomainsOk(s)
       /\ ~DomainSetsOverlap(force, bypass)
       /\ ~DomainSetsOverlap(force, block)
       /\ ~DomainSetsOverlap(bypass, block)

-----------------------------------------------------------------------------
(* The other sections.                                                     *)

ValidateOptionalUrl(url) == url = "" \/ url \in HttpsUrls

SourceOk(s) ==
    /\ s.name \notin BadNames
    /\ ValidateOptionalUrl(s.url)
    /\ Len(s.mirrors) =< MaxMirrors
    /\ s.url = "" => s.mirrors = <<>>
    /\ AllUnique(s.mirrors)
    /\ Range(s.mirrors) \subseteq HttpsUrls \ {s.url}

ValidateSources(s) ==
    /\ Within(Len(s), 1, MaxSources)
    /\ \A i \in DOMAIN s : SourceOk(s[i])
    /\ \A i, j \in DOMAIN s :
           i # j => s[i].name # s[j].name
                    /\ (s[i].url = s[j].url => s[i].url = "")

ActiveSources(s) == {i \in DOMAIN s : s[i].enabled /\ s[i].url # ""}

ValidateSubscriptionSettings(w) ==
    LET configured == {i \in DOMAIN w.sources : w.sources[i].url # ""}
        enabled == {i \in DOMAIN w.sources : w.sources[i].enabled}
        active == ActiveSources(w.sources)
    IN /\ Within(w.update_interval_hours, 1, 168)
       /\ IF w.mode = "single"
          THEN /\ Cardinality(enabled) =< 1
               /\ configured = {} \/ Cardinality(active) = 1
          ELSE active # {}

ValidateProxy(w) ==
    /\ Within(w.interval_minutes, 5, 1440)
    /\ w.tolerance_ms =< 1000
    /\ Within(w.max_candidates, 1, MaxAutoCandidates)

IsPackage(target) == Len(target) = 2
Packages(w) == {t \in Range(w.targets) : IsPackage(t)}
DirectUids(w) == {t[1] : t \in {u \in Range(w.targets) : ~IsPackage(u)}}

ValidateApplications(w) ==
    /\ Len(w.targets) =< 2000
    /\ AllUnique(w.targets)
    /\ (w.mode = "all") = (w.targets = <<>>)
    /\ \A t \in Packages(w) : t[1] =< 21474 /\ t[2] \notin BadNames
    /\ 0 \notin DirectUids(w)

ValidatePatterns(s) ==
    Len(s) =< 64 /\ AllUnique(s) /\ Range(s) \cap BadNames = {}

\* WifiSceneRule::new and WifiSceneMatcher::new
SceneRulesOk(rules) ==
    /\ Len(rules) =< 64
    /\ \A i \in DOMAIN rules :
           /\ rules[i].id \notin BadNames
           /\ rules[i].ssid # None \/ rules[i].bssid # None
    /\ \A i, j \in DOMAIN rules :
           i # j => /\ rules[i].id # rules[j].id
                    /\ \/ rules[i].ssid # rules[j].ssid
                       \/ rules[i].bssid # rules[j].bssid

ValidateNetwork(w) ==
    LET n == w.interfaces
    IN /\ w.proxy_tcp \/ w.proxy_udp
       /\ w.ipv6_mode = "auto" /\ w.dns_mode = "auto"
       /\ w.capture_mode = "tun" =>
              w.proxy_tcp /\ w.proxy_udp /\ n = InterfacesWire
       /\ ValidatePatterns(n.include) /\ ValidatePatterns(n.exclude)
       /\ n.mobile \/ n.wifi \/ n.include # <<>>
       /\ Range(n.include) \cap Range(n.exclude) = {}
       /\ Within(w.wifi_scenes.probe_interval_seconds, 15, 3600)
       /\ w.wifi_scenes.enabled => w.wifi_scenes.rules # <<>>
       /\ SceneRulesOk(w.wifi_scenes.rules)

ValidateLogging(w) == Within(w.retention_days, 1, 30)

\* ResourceCandidate::new
ResourceOk(c) == c.mark # {} /\ c.mark \subseteq c.mask
                 /\ c.route_table # 0 /\ c.rule_priority # 0

ValidateAdvanced(w) ==
    LET all == w.resource_candidates
    IN /\ w.inbound_port # 0
       /\ w.bypass_mark # {}
       /\ Within(w.health_timeout_seconds, 1, 30)
       /\ Within(w.reconcile_interval_seconds, 60, 3600)
       /\ Within(Len(all), 1, 16) /\ AllUnique(all)
       /\ \A i \in DOMAIN all :
              ResourceOk(all[i]) /\ all[i].mark \cap w.bypass_mark = {}

-----------------------------------------------------------------------------
(* Which applications are captured.                                        *)

BaseInclude(w) == IF w.mode = "whitelist" THEN DirectUids(w) ELSE {}

InitialInclude(w) ==
    IF w.mode = "whitelist" /\ BaseInclude(w) = {} THEN {Sentinel}
    ELSE BaseInclude(w)

BaseExclude(w) == {0} \cup (IF w.mode = "blacklist" THEN DirectUids(w) ELSE {})

CaptureMode(w) == IF w.capture_mode = "tun" THEN "tun" ELSE "tproxy"

\* build_capture: CapturePolicy, InterfacePolicy and ForwardingPolicy
BuildCapture(doc, include, exclude) ==
    [mode |-> CaptureMode(doc.network),
     proxy_tcp |-> doc.network.proxy_tcp, proxy_udp |-> doc.network.proxy_udp,
     ipv6_guard |-> doc.advanced.ipv6_guard,
     inbound_port |-> doc.advanced.inbound_port,
     bypass_mark |-> doc.advanced.bypass_mark,
     include_uids |-> include, exclude_uids |-> exclude,
     interfaces |-> doc.network.interfaces]

\* CapturePolicy::new_with_protocols; the other conditions are validated
CaptureOk(include, exclude) == include \cap exclude = {}

\* EffectiveConfig::capture, before any package name is resolved
InitialCapture(doc) ==
    BuildCapture(doc, InitialInclude(doc.applications),
                 BaseExclude(doc.applications))

CapturesUid(policy, uid) ==
    /\ policy.include_uids = {} \/ uid \in policy.include_uids
    /\ uid \notin policy.exclude_uids

\* from_wire
Valid(doc) ==
    /\ ValidateSources(doc.subscriptions.sources)
    /\ ValidateSubscriptionSettings(doc.subscriptions)
    /\ ValidateProxy(doc.proxy)
    /\ ValidateApplications(doc.applications)
    /\ ValidateNetwork(doc.network)
    /\ ValidateRouting(doc.routing)
    /\ ValidateLogging(doc.logging)
    /\ ValidateAdvanced(doc.advanced)
    /\ CaptureOk(InitialInclude(doc.applications),
                 BaseExclude(doc.applications))

(***************************************************************************)
(* resolve_selection.  What the package manager answers is [up, of]: of is *)
(* a function from <<user, package>> to UIDs.  A UID belongs to its user,  *)
(* or the whole answer is refused.  What may be missing is a set of at     *)
(* most one element.                                                       *)
(***************************************************************************)
ValidateUidUser(listed, users) ==
    \A p \in DOMAIN listed.of :
        p[1] \in users => listed.of[p] \div PerUserRange = p[1]

ResolveSelection(w, listed) ==
    LET users == {t[1] : t \in Packages(w)}
        uids == {listed.of[p] : p \in Packages(w)}
        resolved ==
            \/ users = {}
            \/ /\ listed.up
               /\ ValidateUidUser(listed, users)
               /\ Packages(w) \subseteq DOMAIN listed.of
    IN IF resolved
       THEN {[include |-> IF w.mode = "whitelist" THEN uids ELSE {},
              exclude |-> IF w.mode = "blacklist" THEN uids ELSE {}]}
       ELSE {}

\* capture_with_application_uids
CaptureWithApplicationUids(doc, selection) ==
    LET include == (BaseInclude(doc.applications) \ {Sentinel})
                       \cup selection.include
        exclude == BaseExclude(doc.applications) \cup selection.exclude
    IN IF CaptureOk(include, exclude)
       THEN {BuildCapture(doc, include, exclude)} ELSE {}

-----------------------------------------------------------------------------
(* Which Wi-Fi scene decides.                                              *)

SceneMatches(rule, facts) ==
    /\ rule.ssid = None \/ rule.ssid = facts.ssid
    /\ rule.bssid = None \/ rule.bssid = facts.bssid

Specificity(rule) == (IF rule.ssid # None THEN 1 ELSE 0)
                     + (IF rule.bssid # None THEN 2 ELSE 0)

\* WifiSceneMatcher::evaluate: the first of the most specific rules
Evaluate(rules, facts) ==
    LET hits == SelectSeq(rules, LAMBDA r : SceneMatches(r, facts))
        best == {i \in DOMAIN hits :
                    /\ \A j \in DOMAIN hits :
                           Specificity(hits[j]) =< Specificity(hits[i])
                    /\ \A j \in 1..(i - 1) :
                           Specificity(hits[j]) < Specificity(hits[i])}
    IN {hits[i] : i \in best}

-----------------------------------------------------------------------------
(* What sing-box is told.                                                  *)

ManagedOptions(doc) ==
    LET r == doc.routing
    IN [outbound_mode |-> doc.proxy.outbound_mode,
        interval |-> doc.proxy.interval_minutes,
        tolerance |-> doc.proxy.tolerance_ms,
        candidates |-> doc.proxy.max_candidates,
        log_level |-> doc.logging.level,
        bypass_private |-> r.bypass_private, bypass_cn |-> r.bypass_cn,
        force_proxy_cidrs |-> ParseCidrs(r.force_proxy_cidrs),
        bypass_cidrs |-> ParseCidrs(r.bypass_cidrs),
        force_proxy_domains |-> ParseDomains(r.force_proxy_domains),
        bypass_domains |-> ParseDomains(r.bypass_domains),
        block_domains |-> ParseDomains(r.block_domains)]

ValidDomainSuffix(d) ==
    d # <<>> /\ Range(d) \cap (BadLabels \cup DOMAIN Lower) = {}

\* ManagedOptions::new and with_domain_rules
ManagedOptionsOk(o) ==
    /\ Within(o.interval, 5, 1440)
    /\ o.tolerance =< 1000
    /\ Within(o.candidates, 1, 256)
    /\ Cardinality(o.force_proxy_cidrs) =< 512
    /\ Cardinality(o.bypass_cidrs) =< 512
    /\ \A d \in o.force_proxy_domains \cup o.bypass_domains
              \cup o.block_domains : ValidDomainSuffix(d)

RuleModeWithCn(o) == o.outbound_mode = "rule" /\ o.bypass_cn

Rule(from, test, of, to) ==
    [from |-> from, test |-> test, domains |-> IF test = "domain" THEN of ELSE {},
     cidrs |-> IF test = "cidr" THEN of ELSE {}, to |-> to]
If(condition, rules) == IF condition THEN rules ELSE <<>>

RouteRules(o) ==
    <<Rule("in", "any", {}, "sniff"),
      Rule("any", "dns", {}, "hijack-dns"),
      Rule("fetch", "any", {}, "resolve"),
      Rule("fetch", "private", {}, "block"),
      Rule("fetch", "any", {}, "select")>>
    \o If(o.block_domains # {},
          <<Rule("any", "domain", o.block_domains, "block")>>)
    \o If(o.force_proxy_domains # {},
          <<Rule("any", "domain", o.force_proxy_domains, "select")>>)
    \o If(o.bypass_domains # {},
          <<Rule("any", "domain", o.bypass_domains, "direct")>>)
    \o If(o.force_proxy_cidrs # {},
          <<Rule("any", "cidr", o.force_proxy_cidrs, "select")>>)
    \o If(o.bypass_cidrs # {},
          <<Rule("any", "cidr", o.bypass_cidrs, "direct")>>)
    \o If(o.bypass_private, <<Rule("any", "private", {}, "direct")>>)
    \o If(RuleModeWithCn(o),
          <<Rule("any", "cn-domain", {}, "direct"),
            Rule("any", "any", {}, "resolve"),
            Rule("any", "cn-ip", {}, "direct")>>)

DnsRules(o) ==
    If(o.force_proxy_domains # {},
       <<Rule("any", "domain", o.force_proxy_domains, "dns-proxy")>>)
    \o If(o.bypass_domains # {},
          <<Rule("any", "domain", o.bypass_domains, "dns-direct")>>)
    \o If(RuleModeWithCn(o), <<Rule("any", "cn-domain", {}, "dns-direct")>>)

RouteFinal(o) == IF o.outbound_mode = "direct" THEN "direct" ELSE "select"
DnsFinal(o) == IF o.outbound_mode = "direct" THEN "dns-direct" ELSE "dns-proxy"
RuleSetsOf(o) == IF RuleModeWithCn(o) THEN {"cn-domain", "cn-ip"} ELSE {}

ComposeInbounds(capture, stack) ==
    IF capture.mode = "tproxy"
    THEN [type |-> "tproxy", listen_port |-> capture.inbound_port]
    ELSE [type |-> "tun", stack |-> stack,
          include_uid |-> capture.include_uids,
          exclude_uid |-> capture.exclude_uids]

\* ManagedProfile::new and with_auto_pool; normalize_outbounds
ProfileOk(tags, pool) ==
    /\ tags # <<>> /\ AllUnique(tags)
    /\ Range(tags) \cap {"direct", "block", "select"} = {}
    /\ Within(Len(pool), 1, 64) /\ AllUnique(pool)
    /\ Range(pool) \subseteq Range(tags)

\* ManagedConfig::from_profile
FromProfile(made, tags, pool) ==
    [inbound |-> ComposeInbounds(made.capture, made.stack),
     log |-> made.options.log_level,
     selector |-> [outbounds |-> Range(tags), default |-> pool[1]],
     dns |-> [rules |-> DnsRules(made.options), final |-> DnsFinal(made.options)],
     route |-> [rules |-> RouteRules(made.options),
                rule_set |-> RuleSetsOf(made.options),
                final |-> RouteFinal(made.options)]]

-----------------------------------------------------------------------------
(* What a change of the document asks for.                                 *)

Impact == [RuntimeOnly |-> 0, NetworkPlan |-> 1, GenerationActivation |-> 2,
           StopDataPlane |-> 3]

\* Lists that parsing sorts are equal when they have the same elements.
ParsedRouting(w) ==
    [w EXCEPT !.force_proxy_cidrs = ParseCidrs(@),
              !.bypass_cidrs = ParseCidrs(@),
              !.force_proxy_domains = ParseDomains(@),
              !.bypass_domains = ParseDomains(@),
              !.block_domains = ParseDomains(@)]

ParsedApplications(w) == [w EXCEPT !.targets = Range(@)]

Asking(condition, impact) == IF condition THEN {impact} ELSE {}

ChangePlan(old, new) ==
    LET tun == "tun" \in {old.network.capture_mode, new.network.capture_mode}
        topology == \/ old.network.capture_mode # new.network.capture_mode
                    \/ old.network.tun_stack # new.network.tun_stack
        asked ==
            {"RuntimeOnly"}
            \cup Asking(old.service # new.service,
                       IF new.service.enabled THEN "GenerationActivation"
                       ELSE "StopDataPlane")
            \cup Asking(\/ old.subscriptions.sources
                              # new.subscriptions.sources
                       \/ old.proxy # new.proxy
                       \/ ParsedRouting(old.routing)
                              # ParsedRouting(new.routing),
                       "GenerationActivation")
            \cup Asking(ParsedApplications(old.applications)
                           # ParsedApplications(new.applications),
                       IF tun THEN "GenerationActivation" ELSE "NetworkPlan")
            \cup Asking(old.network # new.network,
                       IF topology THEN "GenerationActivation"
                       ELSE "NetworkPlan")
            \cup Asking(old.advanced # new.advanced, "NetworkPlan")
    IN CHOOSE i \in asked : \A j \in asked : Impact[j] =< Impact[i]

\* A fixed order of the elements, for the lists that the writer sorts.
Ordered(s) == SetToSeq(Range(s))

Canonicalized(doc) ==
    [doc EXCEPT !.applications.targets = Ordered(@),
                !.network.interfaces.include = Ordered(@),
                !.network.interfaces.exclude = Ordered(@),
                !.network.wifi_scenes.rules = Ordered(@),
                !.routing.force_proxy_cidrs = SetToSeq(ParseCidrs(@)),
                !.routing.bypass_cidrs = SetToSeq(ParseCidrs(@)),
                !.routing.force_proxy_domains = SetToSeq(ParseDomains(@)),
                !.routing.bypass_domains = SetToSeq(ParseDomains(@)),
                !.routing.block_domains = SetToSeq(ParseDomains(@))]

-----------------------------------------------------------------------------
(* What sing-box does with what it is told: the first rule that matches    *)
(* and ends the search decides.                                            *)

Addresses == UNION {[v6 : {b}, addr : 0..(2 ^ Width[b] - 1)] : b \in BOOLEAN}

Named(domain, domains) == \E d \in domains : DomainIsSuffixOf(domain, d)

Inside(a, cidrs) ==
    \E c \in cidrs : a.v6 = c.v6 /\ Masked(a.addr, a.v6, c.prefix) = c.addr

RuleMatches(rule, conn) ==
    /\ rule.from \in {"any", conn.inbound}
    /\ CASE rule.test = "any" -> TRUE
         [] rule.test = "dns" -> conn.dns
         [] rule.test = "domain" -> Named(conn.domain, rule.domains)
         [] rule.test = "cidr" -> Inside(conn.to, rule.cidrs)
         [] rule.test = "private" -> conn.to \in Private
         [] rule.test = "cn-domain" -> Named(conn.domain, CnDomains)
         [] rule.test = "cn-ip" -> conn.to \in CnAddresses

FirstMatch(rules, final, conn) ==
    LET hits == SelectSeq(rules, LAMBDA r : r.to \notin {"sniff", "resolve"}
                                            /\ RuleMatches(r, conn))
    IN IF hits = <<>> THEN final ELSE hits[1].to

Goes(core, conn) == FirstMatch(core.route.rules, core.route.final, conn)
Asks(core, domain) ==
    FirstMatch(core.dns.rules, core.dns.final,
               [inbound |-> "in", domain |-> domain, dns |-> TRUE])

-----------------------------------------------------------------------------
(***************************************************************************)
(* RoutesAsConfigured: with no two lists of the document disagreeing over  *)
(* a name or an address, a connection goes where the list that has its     *)
(* name says, else the list that has its address, else where the private   *)
(* and the Chinese addresses and all others are to go; a name is asked     *)
(* from the server on the side its connections go to; the worker's own     *)
(* downloads never go direct, nor to a private address; every rule set     *)
(* that a rule names is declared (from_profile).                           *)
(***************************************************************************)
RoutesAsConfigured(doc, core) ==
    LET o == ManagedOptions(doc)
        Conn(from, d, a) == [inbound |-> from, domain |-> d, to |-> a,
                             dns |-> FALSE]
        cn(d, a) == RuleModeWithCn(o)
                    /\ (Named(d, CnDomains) \/ a \in CnAddresses)
    IN /\ \A d \in Names, a \in Addresses :
           LET to == Goes(core, Conn("in", d, a))
               named == Named(d, o.block_domains \cup o.force_proxy_domains
                                 \cup o.bypass_domains)
               listed == Inside(a, o.force_proxy_cidrs \cup o.bypass_cidrs)
               private == o.bypass_private /\ a \in Private
           IN /\ Named(d, o.block_domains) => to = "block"
              /\ Named(d, o.force_proxy_domains) => to = "select"
              /\ Named(d, o.bypass_domains) => to = "direct"
              /\ ~named /\ Inside(a, o.force_proxy_cidrs) => to = "select"
              /\ ~named /\ Inside(a, o.bypass_cidrs) => to = "direct"
              /\ ~named /\ ~listed =>
                     to = IF private \/ cn(d, a) \/ o.outbound_mode = "direct"
                          THEN "direct" ELSE "select"
              /\ Goes(core, Conn("fetch", d, a)) =
                     IF a \in Private THEN "block" ELSE "select"
       /\ \A d \in Names :
              /\ Named(d, o.force_proxy_domains) => Asks(core, d) = "dns-proxy"
              /\ Named(d, o.bypass_domains) => Asks(core, d) = "dns-direct"
              /\ Asks(core, d) = "dns-direct" => \A a \in Addresses :
                     Goes(core, Conn("in", d, a)) = "select" =>
                         Inside(a, o.force_proxy_cidrs)
       /\ \A i \in DOMAIN core.route.rules :
              core.route.rules[i].test \in {"cn-domain", "cn-ip"} =>
                  core.route.rules[i].test \in core.route.rule_set
       /\ core.selector.default \in core.selector.outbounds

(***************************************************************************)
(* SelectsAsConfigured: once the packages are resolved, the capture is of  *)
(* the applications on a whitelist, of all but those on a blacklist, or of *)
(* all, by their UID, and never of root; until then a whitelist of         *)
(* packages captures none (the sentinel of build_capture).  UID 1 is the   *)
(* exception: validate_applications lets it on a whitelist, where          *)
(* capture_with_application_uids takes it for the sentinel.  It is not     *)
(* captured then, and a whitelist of nothing else captures everything.     *)
(***************************************************************************)
SelectsAsConfigured(doc, listed) ==
    LET w == doc.applications
        meant == DirectUids(w) \cup {listed.of[p] : p \in Packages(w)}
        kept == meant \ {Sentinel}
        unlisted == 10004
        uids == {0, Sentinel, unlisted} \cup DirectUids(w)
                \cup {listed.of[p] : p \in DOMAIN listed.of}
    IN /\ \A s \in ResolveSelection(w, listed) :
           \A policy \in CaptureWithApplicationUids(doc, s), u \in uids :
               CapturesUid(policy, u) <=>
                   /\ u # 0
                   /\ w.mode = "whitelist" => u \in kept \/ kept = {}
                   /\ w.mode = "blacklist" => u \notin meant
       /\ w.mode = "whitelist" => \A u \in uids \ {Sentinel} :
              CapturesUid(InitialCapture(doc), u) => u \in DirectUids(w)

(***************************************************************************)
(* CanonicalMeansSame: what is written back in canonical order is valid,   *)
(* asks for nothing but what was there, and decides every Wi-Fi network as *)
(* before (canonicalized, evaluate).                                       *)
(***************************************************************************)
CanonicalMeansSame(doc, networks) ==
    LET c == Canonicalized(doc)
    IN /\ Valid(c)
       /\ Canonicalized(c) = c
       /\ ManagedOptions(c) = ManagedOptions(doc)
       /\ InitialCapture([c EXCEPT !.network.interfaces =
                                 doc.network.interfaces]) = InitialCapture(doc)
       /\ \A n \in networks : Evaluate(c.network.wifi_scenes.rules, n)
                               = Evaluate(doc.network.wifi_scenes.rules, n)
=============================================================================
