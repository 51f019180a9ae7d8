----------------------------- MODULE NetworkPlan -----------------------------
(***************************************************************************)
(* The network plan of nethop-android: what the probe reports of a device  *)
(* (capability.rs), the plan the planner builds from the report and the    *)
(* capture policy (plan.rs, capture.rs of nethop-core), the rules the plan *)
(* puts into the kernel, and the verification of the kernel against the    *)
(* plan (health.rs).  The rules are walked the way netfilter walks them,   *)
(* so that properties speak of what becomes of a packet.                   *)
(*                                                                         *)
(* Marks and masks are sets of bits.  A rule is a chain, what it matches   *)
(* and what it does; its text is left out.  Failed commands are the        *)
(* subject of NetworkExecutor: here every command succeeds, and netd may   *)
(* rewrite a built-in chain while the plan is in force.                    *)
(***************************************************************************)
EXTENDS Integers, Sequences, SequencesExt, FiniteSets, TLC

CONSTANTS
    Bits,       \* the bits of a packet mark
    Candidates, \* resource_candidates, in order
    Devices,    \* the devices: what the probe finds
    Policies,   \* the capture policies
    Uids,       \* 0 is root: netd and the core
    MaxDrift    \* bound on netd's rewrites

VARIABLES
    device, policy,
    plan,       \* the NetworkPlan, or NoPlan
    netfilter,     \* the lines of every chain of every table
    routes,     \* our routes: family, table, device
    rules,      \* our policy rules: family, mark, mask, table, priority
    done,       \* steps in force
    phase,
    drift

vars == <<device, policy, plan, netfilter, routes, rules, done, phase, drift>>

Families == {4, 6}
Tables == {"mangle", "filter"}
Builtin == {"OUTPUT", "PREROUTING", "FORWARD"}
NoPlan == [error |-> "none"]
None == "none"

Empty == [c \in Families \X Tables \X Builtin |-> <<>>]

-----------------------------------------------------------------------------
(***************************************************************************)
(* Capture policies (capture.rs).  Sorting and removing duplicates make    *)
(* the lists of uids sets.  scope is the interface policy.                 *)
(***************************************************************************)
CapturesUid(p, uid) ==
    (p.include = {} \/ uid \in p.include) /\ uid \notin p.exclude

WellFormed(p) ==
    /\ p.tcp \/ p.udp
    /\ p.mode = "tproxy" => p.bypass # {}
    /\ p.include \cap p.exclude = {}
    /\ p.scope.mobile \/ p.scope.wifi \/ p.scope.include # {}
    /\ p.scope.include \cap p.scope.exclude = {}

IsUnrestricted(scope) ==
    scope.mobile /\ scope.wifi /\ scope.include = {} /\ scope.exclude = {}

(***************************************************************************)
(* The classes of interface names.  A second Wi-Fi interface is a hotspot  *)
(* as well.  A pattern stands for the names it matches.                    *)
(***************************************************************************)
Wifi == {"wlan0", "wlan1"}
Mobile == {"rmnet0"}
Hotspot == {"wlan1"}
Usb == {"rndis0"}

\* resolve_interfaces: None for no restriction, the empty set for an error.
ResolveInterfaces(scope, names) ==
    {n \in names \ {"lo"}:
        /\ IF scope.include = {}
           THEN (scope.mobile /\ n \in Mobile) \/ (scope.wifi /\ n \in Wifi)
           ELSE n \in scope.include
        /\ n \notin scope.exclude}

ResolveForwarding(p, names) ==
    {n \in names: (p.hotspot /\ n \in Hotspot) \/ (p.usb /\ n \in Usb)}

-----------------------------------------------------------------------------
(***************************************************************************)
(* The probe.  A candidate conflicts with a rule that another program has  *)
(* made if they share the priority or the table, or if some packet mark    *)
(* matches both.                                                           *)
(***************************************************************************)
RuleConflicts(r, c) ==
    \/ r.priority = c.priority
    \/ r.table = c.table
    \/ LET common == r.mask \cap c.mask
       IN  r.mark \cap common = c.mark \cap common

Allocations(d) ==
    SelectSeq(Candidates,
              LAMBDA c: /\ ~ \E r \in d.foreign \cup rules: RuleConflicts(r, c)
                        /\ c.table \notin d.tables \cup {r.table: r \in routes})

\* contains_owned_chain: a chain of ours, in either table.
OwnedChain(f) ==
    \E c \in DOMAIN netfilter: c[1] = f /\ c[3] \notin Builtin

SupportsTproxy(d, f) ==
    /\ f = 6 => d.address6 = "supported" /\ d.tools6 = "all"
    /\ f = 4 => d.ipv4
    /\ ~OwnedChain(f)

SupportsGuard(d) ==
    d.address6 = "supported" /\ d.tools6 # "none" /\ ~OwnedChain(6)

-----------------------------------------------------------------------------
(***************************************************************************)
(* The payloads: the chains a step creates and the lines it appends.  All  *)
(* roll back alike: the jumps from built-in chains are deleted, then the   *)
(* chains.                                                                 *)
(***************************************************************************)
Line(chain, match, do) == [chain |-> chain, match |-> match, do |-> do]
Match == [x \in {} |-> {}]
Marked(c) == [mark |-> <<c.mark, c.mask>>]
SetMark(c) == <<"MARK", c.mark, c.mask>>
Reply == [reply |-> TRUE]

Restore(kind, family, table, chains, lines) ==
    [kind |-> kind, family |-> family, table |-> table, chains |-> chains,
     lines |-> lines]

ForEach(S, Op(_)) ==
    LET s == SetToSeq(S) IN [i \in 1..Len(s) |-> Op(s[i])]

OutputUidBypasses(chain, p) ==
    ForEach(p.exclude, LAMBDA u: Line(chain, [uid |-> u], <<"RETURN">>))

\* Mutant: the interfaces in scope are forgotten.
MutOutputCaptureRules(chain, p, c, interfaces) ==
    LET uids == IF p.include = {} THEN {Match}
                ELSE {[uid |-> u]: u \in p.include}
    IN  ForEach(uids, LAMBDA m: Line(chain, m, SetMark(c)))

OutputCaptureRules(chain, p, c, interfaces) ==
    LET uids == IF p.include = {} THEN {Match}
                ELSE {[uid |-> u]: u \in p.include}
        outs == IF IsUnrestricted(p.scope) THEN {Match}
                ELSE {[out |-> n]: n \in interfaces}
    IN  ForEach(outs \X uids,
                LAMBDA m: Line(chain, m[1] @@ m[2], SetMark(c)))

\* tproxy_payloads.  netd asks for the applications as root, so DNS is
\* marked before the excluded uids, root among them, are let through.
TproxyPayload(f, p, c, interfaces) ==
    LET tproxy(m) == Line("PRE", m @@ Marked(c), <<"TPROXY">>)
    IN  Restore("capture", f, "mangle", {"OUT", "PRE", "DIV"},
           <<Line("OUTPUT", Match, <<"JUMP", "OUT">>),
             Line("PREROUTING", Match, <<"JUMP", "PRE">>),
             Line("OUT", [mark |-> <<p.bypass, c.mask>>], <<"RETURN">>),
             Line("OUT", Reply, <<"ACCEPT">>),
             Line("PRE", Reply, <<"ACCEPT">>),
             Line("OUT", [proto |-> "tcp", port |-> 53], SetMark(c)),
             Line("OUT", [proto |-> "udp", port |-> 53], SetMark(c))>>
           \o OutputUidBypasses("OUT", p)
           \o <<Line("OUT", [lan |-> TRUE], <<"RETURN">>)>>
           \o OutputCaptureRules("OUT", p, c, interfaces)
           \o <<Line("DIV", Match, SetMark(c)),
                Line("DIV", Match, <<"ACCEPT">>)>>
           \o (IF p.tcp THEN <<Line("PRE", [proto |-> "tcp", socket |-> TRUE],
                                    <<"JUMP", "DIV">>)>> ELSE <<>>)
           \o <<Line("PRE", [inif |-> "lo", nomark |-> <<c.mark, c.mask>>],
                     <<"RETURN">>),
                tproxy([proto |-> "tcp", port |-> 53]),
                tproxy([proto |-> "udp", port |-> 53])>>
           \o (IF p.tcp THEN <<tproxy([proto |-> "tcp"])>> ELSE <<>>)
           \o (IF p.udp THEN <<tproxy([proto |-> "udp"])>> ELSE <<>>))

TunPayload(f, p, c, interfaces) ==
    Restore("capture", f, "mangle", {"TUN"},
       <<Line("OUTPUT", Match, <<"JUMP", "TUN">>),
         Line("TUN", [mark |-> <<p.bypass, c.mask>>], <<"RETURN">>),
         Line("TUN", [out |-> "lo"], <<"RETURN">>),
         Line("TUN", Reply, <<"ACCEPT">>)>>
       \o OutputUidBypasses("TUN", p)
       \o OutputCaptureRules("TUN", p, c, interfaces)
       \o <<Line("TUN", Match, <<"RETURN">>)>>)

\* dns_guard_payloads: the bypass mark is compared in all its bits.
DnsGuardPayload(f, p, c, interfaces) ==
    LET outs == IF IsUnrestricted(p.scope) THEN {Match}
                ELSE {[out |-> n]: n \in interfaces}
        drop(proto, port) ==
            ForEach(outs, LAMBDA m: Line("DNS", m @@ [proto |-> proto,
                                                      port |-> port],
                                         <<"DROP">>))
    IN  Restore("dns", f, "filter", {"DNS"},
           <<Line("OUTPUT", Match, <<"JUMP", "DNS">>),
             Line("DNS", [out |-> "lo"], <<"RETURN">>),
             Line("DNS", Marked(c), <<"RETURN">>),
             Line("DNS", [mark |-> <<p.bypass, Bits>>], <<"RETURN">>)>>
           \o drop("udp", 53) \o drop("tcp", 53) \o drop("tcp", 853)
           \o <<Line("DNS", Match, <<"RETURN">>)>>)

Ipv6GuardPayload(p) ==
    Restore("guard", 6, "filter", {"V6G", "V6B"},
       <<Line("OUTPUT", Match, <<"JUMP", "V6G">>)>>
       \o OutputUidBypasses("V6G", p)
       \o (IF p.include = {}
           THEN <<Line("V6G", Match, <<"JUMP", "V6B">>)>>
           ELSE ForEach(p.include,
                        LAMBDA u: Line("V6G", [uid |-> u],
                                       <<"JUMP", "V6B">>)))
       \o <<Line("V6B", [lan |-> TRUE], <<"RETURN">>),
            Line("V6B", Match, <<"DROP">>)>>)

\* forwarding_payloads and forwarding_ipv6_guard_payloads.
ForwardingPayloads(p, c, interfaces) ==
    LET jumps(chain, to) ==
            ForEach(interfaces, LAMBDA n: Line(chain, [inif |-> n],
                                               <<"JUMP", to>>))
        tproxy(proto) == <<Line("FWD", [proto |-> proto], <<"TPROXY">>)>>
    IN  << Restore("forwarding", 4, "mangle", {"FWD"},
                   jumps("PREROUTING", "FWD")
                   \o <<Line("FWD", Reply, <<"ACCEPT">>),
                        Line("FWD", Marked(c), <<"RETURN">>),
                        Line("FWD", [lan |-> TRUE], <<"RETURN">>)>>
                   \o (IF p.tcp THEN tproxy("tcp") ELSE <<>>)
                   \o (IF p.udp THEN tproxy("udp") ELSE <<>>)),
           Restore("forwarding", 6, "filter", {"FWD6"},
                   jumps("FORWARD", "FWD6")
                   \o <<Line("FWD6", Match, <<"DROP">>)>>) >>

PolicySteps(f, c, dev) ==
    << [kind |-> "route", family |-> f,
        route |-> [family |-> f, table |-> c.table, device |-> dev]],
       [kind |-> "rule", family |-> f,
        rule |-> [family |-> f, mark |-> c.mark, mask |-> c.mask,
                  table |-> c.table, priority |-> c.priority]] >>

-----------------------------------------------------------------------------
(***************************************************************************)
(* NetworkPlanner: the checks in the order of the code, then the steps.    *)
(***************************************************************************)
BuildTproxy(d, p, c, interfaces, forwarding) ==
    LET six == SupportsTproxy(d, 6)
        guarded == d.address6 = "supported" /\ ~six
    IN  CASE d.address6 = "denied" -> [error |-> "ipv6_leak_risk"]
          [] guarded /\ (~p.guard \/ ~SupportsGuard(d)) ->
                [error |-> "ipv6_leak_risk"]
          [] OTHER ->
                [error |-> None, mode |-> "tproxy", allocation |-> c,
                 captured6 |-> six, guarded6 |-> guarded,
                 interfaces |-> interfaces, forwarding |-> forwarding,
                 steps |->
                    (IF guarded THEN <<Ipv6GuardPayload(p)>> ELSE <<>>)
                    \o PolicySteps(4, c, "lo")
                    \o (IF six THEN PolicySteps(6, c, "lo") ELSE <<>>)
                    \o <<TproxyPayload(4, p, c, interfaces),
                         DnsGuardPayload(4, p, c, interfaces)>>
                    \o (IF forwarding # {}
                        THEN ForwardingPayloads(p, c, forwarding) ELSE <<>>)
                    \o (IF six
                        THEN <<TproxyPayload(6, p, c, interfaces),
                               DnsGuardPayload(6, p, c, interfaces)>>
                        ELSE <<>>)]

\* build_tun.  The guard is asked for when there is no IPv6 address, and
\* supports_guard wants one: such a device gets no plan.  The interfaces to
\* forward for are resolved, and no step is made for them.
BuildTun(d, p, c, interfaces, forwarding) ==
    LET present == d.address6 = "supported"
    IN  IF d.address6 = "denied" THEN [error |-> "ipv6_leak_risk"]
        ELSE IF ~present /\ (~p.guard \/ ~SupportsGuard(d))
        THEN [error |-> "ipv6_leak_risk"]
        ELSE [error |-> None, mode |-> "tun", allocation |-> c,
              captured6 |-> present, guarded6 |-> ~present,
              interfaces |-> interfaces, forwarding |-> forwarding,
              steps |->
                 (IF present THEN <<>> ELSE <<Ipv6GuardPayload(p)>>)
                 \o PolicySteps(4, c, "nethop0")
                 \o (IF present THEN PolicySteps(6, c, "nethop0")
                                ELSE <<>>)
                 \o <<TunPayload(4, p, c, interfaces),
                      DnsGuardPayload(4, p, c, interfaces)>>
                 \o (IF present
                     THEN <<TunPayload(6, p, c, interfaces),
                            DnsGuardPayload(6, p, c, interfaces)>>
                     ELSE <<>>)]

BuildPlan(d, p) ==
    LET free == Allocations(d)
        interfaces == ResolveInterfaces(p.scope, d.interfaces)
        forwarding == ResolveForwarding(p, d.interfaces)
    IN  IF ~d.platform THEN [error |-> "platform_unavailable"]
        ELSE IF p.mode = "tun" /\ ~d.tun THEN [error |-> "tun_unavailable"]
        ELSE IF d.tunnel THEN [error |-> "existing_tunnel"]
        ELSE IF p.mode = "tproxy" /\ ~d.portFree
        THEN [error |-> "port_conflict"]
        ELSE IF p.mode = "tproxy" /\ ~SupportsTproxy(d, 4)
        THEN [error |-> "ipv4_tproxy_unavailable"]
        ELSE IF free = <<>> THEN [error |-> "resource_conflict"]
        ELSE IF p.bypass \cap Head(free).mask = Head(free).mark
        THEN [error |-> "bypass_mark_conflict"]
        ELSE IF ~IsUnrestricted(p.scope) /\ interfaces = {}
        THEN [error |-> "interface_selection_empty"]
        ELSE IF (p.hotspot \/ p.usb) /\ forwarding = {}
        THEN [error |-> "forwarding_selection_empty"]
        ELSE IF p.mode = "tproxy"
        THEN BuildTproxy(d, p, Head(free), interfaces, forwarding)
        ELSE BuildTun(d, p, Head(free), interfaces, forwarding)

-----------------------------------------------------------------------------
(***************************************************************************)
(* The kernel.                                                             *)
(***************************************************************************)
Key(s, chain) == <<s.family, s.table, chain>>
Jumps(s) == {s.lines[i]: i \in {j \in DOMAIN s.lines:
                                    s.lines[j].chain \in Builtin}}

Restored(k, s) ==
    LET base == k @@ [c \in {Key(s, n): n \in s.chains} |-> <<>>]
    IN  [c \in DOMAIN base |->
            base[c] \o SelectSeq(s.lines, LAMBDA l: Key(s, l.chain) = c)]

Unrestored(k, s) ==
    [c \in DOMAIN k \ {Key(s, n): n \in s.chains} |->
        IF c \in {Key(s, n): n \in Builtin}
        THEN SelectSeq(k[c], LAMBDA l: l \notin Jumps(s)) ELSE k[c]]

ApplyStep(s) ==
    CASE s.kind = "route" -> /\ routes' = routes \cup {s.route}
                             /\ UNCHANGED <<netfilter, rules>>
      [] s.kind = "rule" -> /\ rules' = rules \cup {s.rule}
                            /\ UNCHANGED <<netfilter, routes>>
      [] OTHER -> /\ netfilter' = Restored(netfilter, s)
                  /\ UNCHANGED <<routes, rules>>

UndoStep(s) ==
    CASE s.kind = "route" -> /\ routes' = routes \ {s.route}
                             /\ UNCHANGED <<netfilter, rules>>
      [] s.kind = "rule" -> /\ rules' = rules \ {s.rule}
                            /\ UNCHANGED <<netfilter, routes>>
      [] OTHER -> /\ netfilter' = Unrestored(netfilter, s)
                  /\ UNCHANGED <<routes, rules>>

(***************************************************************************)
(* How netfilter walks a chain: the first line that matches and ends the   *)
(* walk decides; a mark is set and the walk goes on.                       *)
(***************************************************************************)
Holds(p, f, v) ==
    CASE f = "mark" -> p.mark \cap v[2] = v[1]
      [] f = "nomark" -> p.mark \cap v[2] # v[1]
      [] OTHER -> p[f] = v

RECURSIVE Walk(_, _, _, _, _)
Walk(f, t, chain, i, p) ==
    LET lines == netfilter[<<f, t, chain>>] IN
    IF i > Len(lines) THEN <<"RETURN", p>>
    ELSE LET line == lines[i]
             do == line.do
             hit == \A m \in DOMAIN line.match: Holds(p, m, line.match[m])
         IN  IF ~hit THEN Walk(f, t, chain, i + 1, p)
             ELSE IF do[1] = "MARK"
             THEN Walk(f, t, chain, i + 1,
                       [p EXCEPT !.mark = (@ \ do[3]) \cup do[2]])
             ELSE IF do[1] = "JUMP"
             THEN LET sub == Walk(f, t, do[2], 1, p)
                  IN  IF sub[1] = "RETURN"
                      THEN Walk(f, t, chain, i + 1, sub[2]) ELSE sub
             ELSE <<do[1], p>>

\* The route of a marked packet, if a rule of ours sends it somewhere.
Routed(f, p) ==
    {r.device: r \in {x \in routes: \E u \in rules:
        x.family = f /\ u.family = f /\ u.table = x.table
        /\ p.mark \cap u.mask = u.mark}}

(***************************************************************************)
(* What becomes of a packet the device sends: mangle OUTPUT, the routing,  *)
(* filter OUTPUT, and for a packet turned round over lo mangle PREROUTING. *)
(* A packet delivered to the device that no TPROXY rule takes is lost.     *)
(***************************************************************************)
Fate(p) ==
    LET f == p.family
        marked == Walk(f, "mangle", "OUTPUT", 1, p)[2]
        to == Routed(f, marked)
        sent == IF to = {} THEN marked
                ELSE [marked EXCEPT !.out = CHOOSE d \in to: TRUE]
    IN  IF Walk(f, "filter", "OUTPUT", 1, sent)[1] = "DROP" THEN "dropped"
        ELSE IF to = {} THEN "direct"
        ELSE IF sent.out # "lo" THEN "proxied"
        ELSE IF Walk(f, "mangle", "PREROUTING", 1,
                     [sent EXCEPT !.inif = "lo"])[1] \in {"TPROXY", "ACCEPT"}
             THEN "proxied" ELSE "lost"

\* And of a packet that a client of the hotspot sends through it.
ForwardFate(p) ==
    IF Walk(p.family, "mangle", "PREROUTING", 1, p)[1] = "TPROXY"
    THEN "proxied"
    ELSE IF Walk(p.family, "filter", "FORWARD", 1, p)[1] = "DROP"
    THEN "dropped" ELSE "direct"

-----------------------------------------------------------------------------
(***************************************************************************)
(* NetworkPlanVerifier.  The owner marker is a comment of the jumps, and a *)
(* snapshot is searched for it as a whole.                                 *)
(***************************************************************************)
Chain(f, t, n) ==
    IF <<f, t, n>> \in DOMAIN netfilter THEN netfilter[<<f, t, n>>] ELSE <<>>

HasOwnerMarker(f, t) ==
    \E b \in Builtin: \E i \in DOMAIN netfilter[<<f, t, b>>]:
        netfilter[<<f, t, b>>][i].do[2] \notin {"FWD", "FWD6"}

HasChain(f, t, n) == <<f, t, n>> \in DOMAIN netfilter

First(lines, Test(_)) ==
    LET hits == {i \in DOMAIN lines: Test(lines[i])}
    IN  IF hits = {} THEN 0 ELSE CHOOSE i \in hits: \A j \in hits: i =< j

HasField(l, f) == f \in DOMAIN l.match

\* return_before_drop, and a DROP for every port.
DnsGuardPresent(f) ==
    LET lines == Chain(f, "filter", "DNS")
        c == plan.allocation
        drop == First(lines, LAMBDA l: l.do[1] = "DROP")
        before(Test(_)) ==
            First(lines, LAMBDA l: l.do[1] = "RETURN" /\ Test(l))
                \in 1..(drop - 1)
    IN  /\ \E i \in DOMAIN netfilter[<<f, "filter", "OUTPUT">>]:
               netfilter[<<f, "filter", "OUTPUT">>][i].do[2] = "DNS"
        /\ before(LAMBDA l: HasField(l, "out") /\ l.match.out = "lo")
        /\ before(LAMBDA l: HasField(l, "mark")
                            /\ l.match.mark = <<c.mark, c.mask>>)
        /\ before(LAMBDA l: HasField(l, "mark")
                            /\ l.match.mark = <<policy.bypass, Bits>>)
        /\ \A q \in {<<"udp", 53>>, <<"tcp", 53>>, <<"tcp", 853>>}:
               First(lines, LAMBDA l: l.do[1] = "DROP" /\ l.match.proto = q[1]
                                      /\ l.match.port = q[2]) > 0

IsMark(l) == l.do[1] = "MARK"
IsTproxy(l) == l.do[1] = "TPROXY"
IsReply(l) == HasField(l, "reply")
IsSocket(l) == HasField(l, "socket")

\* Replies are let through before anything is taken.
ReplyBypassFirst(f) ==
    LET out == Chain(f, "mangle", "OUT")
        pre == Chain(f, "mangle", "PRE")
    IN  /\ First(out, IsReply) \in 1..(First(out, IsMark) - 1)
        /\ First(pre, IsReply)
             \in 1..(First(pre, LAMBDA l: IsSocket(l) \/ IsTproxy(l)) - 1)

\* The loopback bypass is between the socket rule and the first TPROXY rule.
LoopbackBypassFirst(f) ==
    LET pre == Chain(f, "mangle", "PRE")
    IN  /\ First(pre, IsSocket) > 0
        /\ First(pre, LAMBDA l: HasField(l, "nomark"))
             \in (First(pre, IsSocket) + 1)..(First(pre, IsTproxy) - 1)

\* DNS is taken in both chains.
DnsCapturePresent(f) ==
    \A proto \in {"tcp", "udp"}:
        LET dns(l) == /\ HasField(l, "port") /\ l.match.port = 53
                      /\ l.match.proto = proto
        IN  /\ First(Chain(f, "mangle", "OUT"),
                     LAMBDA l: IsMark(l) /\ dns(l)) > 0
            /\ First(Chain(f, "mangle", "PRE"),
                     LAMBDA l: IsTproxy(l) /\ dns(l)) > 0

VerifyOwner(f) ==
    /\ HasOwnerMarker(f, "mangle")
    /\ HasChain(f, "mangle", "OUT")
    /\ ReplyBypassFirst(f)
    /\ LoopbackBypassFirst(f)
    /\ DnsCapturePresent(f)

VerifyGuard ==
    HasOwnerMarker(6, "filter") /\ HasChain(6, "filter", "V6G")

\* Mutant: the chain of the other mode is looked for.
MutVerifyTunOwner(f) ==
    /\ HasOwnerMarker(f, "mangle")
    /\ HasChain(f, "mangle", "OUT")

VerifyTunOwner(f) ==
    /\ HasOwnerMarker(f, "mangle")
    /\ HasChain(f, "mangle", "TUN")
    /\ First(Chain(f, "mangle", "TUN"), LAMBDA l: l.do[1] = "MARK") > 0

PolicyRuleMatches(f, c) ==
    [family |-> f, mark |-> c.mark, mask |-> c.mask, table |-> c.table,
     priority |-> c.priority] \in rules

VerifyRouting(f) ==
    /\ PolicyRuleMatches(f, plan.allocation)
    /\ [family |-> f, table |-> plan.allocation.table, device |-> "lo"]
           \in routes

VerifyTunRouting(f) ==
    /\ PolicyRuleMatches(f, plan.allocation)
    /\ [family |-> f, table |-> plan.allocation.table, device |-> "nethop0"]
           \in routes

\* verify_forwarding looks in the table filter, where no step has put the
\* chain, and for a line "-N" that iptables-save never prints.
VerifyForwarding == FALSE

\* Whether a socket listens on the inbound port: the core of a TPROXY plan
\* does, that of a TUN plan opens the port of the fetch proxy only.
InboundPortListens == plan.mode = "tproxy"

RulesVerify ==
    LET families == {4} \cup (IF plan.captured6 THEN {6} ELSE {})
    IN  IF plan.mode = "tun"
        THEN \A f \in families: /\ VerifyTunOwner(f)
                                /\ VerifyTunRouting(f)
                                /\ DnsGuardPresent(f)
        ELSE /\ \A f \in families: /\ VerifyOwner(f)
                                   /\ DnsGuardPresent(f)
                                   /\ VerifyRouting(f)
             /\ plan.forwarding # {} => VerifyForwarding
             /\ plan.guarded6 => VerifyGuard

Verify == InboundPortListens /\ RulesVerify

\* verify_disabled.
StillAttached ==
    LET c == plan.allocation
        families == {4} \cup (IF plan.captured6 \/ plan.guarded6
                              THEN {6} ELSE {})
    IN  \E f \in families:
            \/ HasOwnerMarker(f, "mangle")
            \/ \E n \in {"OUT", "PRE", "TUN"}: HasChain(f, "mangle", n)
            \/ PolicyRuleMatches(f, c)
            \/ \E r \in routes: r.family = f /\ r.table = c.table
            \/ HasOwnerMarker(f, "filter")
            \/ HasChain(f, "filter", "DNS")

-----------------------------------------------------------------------------
InitAt(place) ==
    /\ phase = place
    /\ IF place = "parked"
       THEN device = None /\ policy = None
       ELSE /\ device \in Devices
            /\ policy \in {p \in Policies: WellFormed(p)}
    /\ plan = NoPlan
    /\ netfilter = Empty
    /\ routes = {}
    /\ rules = {}
    /\ done = 0
    /\ drift = 0

Init == InitAt("idle")

\* Mutant: a plan that was refused is applied.
MutBuild ==
    /\ phase = "idle"
    /\ plan' = BuildPlan(device, policy)
    /\ phase' = "apply"
    /\ UNCHANGED <<device, policy, netfilter, routes, rules, done, drift>>

\* probe, then build_tproxy or build_tun.
Build ==
    /\ phase = "idle"
    /\ plan' = BuildPlan(device, policy)
    /\ phase' = IF plan'.error = None THEN "apply" ELSE "refused"
    /\ UNCHANGED <<device, policy, netfilter, routes, rules, done, drift>>

Apply ==
    /\ phase = "apply"
    /\ done < Len(plan.steps)
    /\ ApplyStep(plan.steps[done + 1])
    /\ done' = done + 1
    /\ UNCHANGED <<device, policy, plan, phase, drift>>

\* The verification at the end of the activation, which for TUN only asks
\* for the interface (TunRuntime::wait_healthy).
Applied ==
    /\ phase = "apply"
    /\ done = Len(plan.steps)
    /\ phase' = IF plan.mode = "tun" \/ Verify THEN "active" ELSE "unverified"
    /\ UNCHANGED <<device, policy, plan, netfilter, routes, rules, done, drift>>

\* netd rewrites a built-in chain: the lines it does not know are gone.
Netd(c) ==
    /\ phase = "active"
    /\ drift < MaxDrift
    /\ netfilter[c] # <<>>
    /\ netfilter' = [netfilter EXCEPT ![c] = <<>>]
    /\ drift' = drift + 1
    /\ phase' = "drifted"
    /\ UNCHANGED <<device, policy, plan, routes, rules, done>>

\* The verification of a running network, once a minute.
Reconcile ==
    /\ phase = "drifted"
    /\ phase' = IF Verify THEN "verified" ELSE "unhealthy"
    /\ UNCHANGED <<device, policy, plan, netfilter, routes, rules, done, drift>>

\* The capture is withdrawn, or the activation that failed is undone.
Withdraw ==
    /\ phase \in {"active", "unverified"}
    /\ phase' = "rollback"
    /\ UNCHANGED <<device, policy, plan, netfilter, routes, rules, done, drift>>

Rollback ==
    /\ phase = "rollback"
    /\ done > 0
    /\ UndoStep(plan.steps[done])
    /\ done' = done - 1
    /\ UNCHANGED <<device, policy, plan, phase, drift>>

RolledBack ==
    /\ phase = "rollback"
    /\ done = 0
    /\ phase' = IF StillAttached THEN "attached" ELSE "off"
    /\ UNCHANGED <<device, policy, plan, netfilter, routes, rules, done, drift>>

Next ==
    \/ Build \/ Apply \/ Applied
    \/ \E c \in Families \X Tables \X Builtin: Netd(c)
    \/ Reconcile \/ Withdraw \/ Rollback \/ RolledBack

Spec == Init /\ [][Next]_vars

-----------------------------------------------------------------------------
TypeOK ==
    /\ phase \in {"idle", "refused", "apply", "unverified", "active",
                  "drifted", "verified", "unhealthy", "rollback", "attached",
                  "off", "parked"}
    /\ done \in 0..12
    /\ drift \in 0..MaxDrift
    /\ phase \in {"apply", "active", "rollback"} =>
           plan.error = None /\ done =< Len(plan.steps)
    /\ DOMAIN Empty \subseteq DOMAIN netfilter

Packet(f, uid, proto, port, lan, mark, out) ==
    [family |-> f, uid |-> uid, proto |-> proto, port |-> port, lan |-> lan,
     mark |-> mark, out |-> out, inif |-> None, reply |-> FALSE,
     socket |-> FALSE]

InScope(out) ==
    IsUnrestricted(policy.scope) \/ out \in plan.interfaces

Transports == (IF policy.tcp THEN {"tcp"} ELSE {})
              \cup (IF policy.udp THEN {"udp"} ELSE {})

FamiliesOf(d) == IF d.address6 = "supported" THEN Families ELSE {4}

InForce == phase \in {"active", "verified"}

(***************************************************************************)
(* CaptureFollowsPolicy: once a plan is in force, what an application      *)
(* sends to the Internet over an interface in scope goes to the core if    *)
(* and only if CapturePolicy::captures_uid says so, by TPROXY and by TUN;  *)
(* the rest goes out directly.  IPv6 that is guarded is dropped instead.   *)
(***************************************************************************)
CaptureFollowsPolicy ==
    phase = "active" =>
        \A f \in FamiliesOf(device), u \in Uids, proto \in Transports:
        \A out \in device.interfaces \ {"lo"}:
            Fate(Packet(f, u, proto, 443, FALSE, {}, out)) =
                IF f = 6 /\ plan.guarded6
                THEN IF CapturesUid(policy, u) THEN "dropped" ELSE "direct"
                ELSE IF CapturesUid(policy, u) /\ InScope(out)
                     THEN "proxied" ELSE "direct"

(***************************************************************************)
(* GuardComesFirst: with a plan that guards IPv6, at no moment of applying *)
(* it, of its being in force or of rolling it back does the IPv6 of a      *)
(* captured application go out while its IPv4 is captured (build_tproxy    *)
(* puts the guard first, rollback takes it away last).                     *)
(***************************************************************************)
GuardComesFirst ==
    phase \in {"apply", "active", "rollback"} /\ plan.guarded6 =>
        \A u \in Uids, out \in device.interfaces \ {"lo"}:
            Fate(Packet(4, u, "tcp", 443, FALSE, {}, out)) = "proxied"
            /\ policy.tcp =>
               Fate(Packet(6, u, "tcp", 443, FALSE, {}, out)) = "dropped"

(***************************************************************************)
(* NoDnsLeak: while a plan is in force, no question to a name server, by   *)
(* UDP, by TCP or by TLS, leaves an interface in scope by the side of the  *)
(* core, whoever asks.  IPv6 that is only guarded is left to the guard.    *)
(***************************************************************************)
NoDnsLeak ==
    phase \in {"active", "drifted", "verified"}
    /\ (phase = "drifted" => Verify) =>
        \A f \in {4} \cup (IF plan.captured6 THEN {6} ELSE {}):
        \A u \in Uids, q \in {<<"udp", 53>>, <<"tcp", 53>>, <<"tcp", 853>>}:
        \A out \in device.interfaces \ {"lo"}:
            InScope(out) =>
                Fate(Packet(f, u, q[1], q[2], FALSE, {}, out)) # "direct"

(***************************************************************************)
(* NoLoop: at no moment is what the core itself sends captured.  The core  *)
(* is root, which every policy excludes, and what it sends under the       *)
(* bypass mark passes even as a question to a name server, provided the    *)
(* bits of the bypass mark are among those of the candidate's mask.        *)
(***************************************************************************)
NoLoop ==
    \A f \in Families, out \in {"wlan0", "rmnet0"}:
        /\ Fate(Packet(f, 0, "tcp", 443, FALSE, {}, out)) = "direct"
        /\ plan.error = None /\ plan # NoPlan =>
           (policy.bypass \subseteq plan.allocation.mask =>
            Fate(Packet(f, 0, "udp", 53, FALSE, policy.bypass, out))
                = "direct")

(***************************************************************************)
(* MarksAreOurs: no packet mark that a rule of another program matches is  *)
(* matched by the rule of the plan (rule_conflicts), so neither routes     *)
(* what the other has marked.                                              *)
(***************************************************************************)
MarksAreOurs ==
    \A r \in rules, o \in device.foreign, m \in SUBSET Bits:
        ~(m \cap r.mask = r.mark /\ m \cap o.mask = o.mark)

(***************************************************************************)
(* RollbackRestores: a plan that has been rolled back leaves nothing, and  *)
(* the same plan can be built again (the rollback payload of every step).  *)
(***************************************************************************)
RollbackRestores ==
    phase \in {"attached", "off"} =>
        netfilter = Empty /\ routes = {} /\ rules = {} /\ phase = "off"

(***************************************************************************)
(* OwnPlanVerifies: a plan of which every step has been applied, and       *)
(* nothing else touched, passes the verification of its rules, and of its  *)
(* listener too, if it is for TPROXY, captures TCP and forwards for no     *)
(* one.                                                                    *)
(***************************************************************************)
OwnPlanVerifies ==
    /\ phase = "active" => RulesVerify
    /\ phase = "unverified" => policy.mode = "tproxy"
                               /\ (~policy.tcp \/ plan.forwarding # {})

(***************************************************************************)
(* RunningVerifies: a network that is in force and that nothing has        *)
(* touched passes the periodic verification, by TPROXY and by TUN          *)
(* (NetworkPlanVerifier::verify).                                          *)
(***************************************************************************)
RunningVerifies == phase = "active" => Verify

(***************************************************************************)
(* HotspotIsCaptured: once every step of a plan that forwards is applied,  *)
(* what a client of the hotspot sends to the Internet goes to the core in  *)
(* the transports that the policy proxies, and none of its IPv6 leaves     *)
(* (forwarding_payloads, forwarding_ipv6_guard_payloads).                  *)
(***************************************************************************)
HotspotIsCaptured ==
    phase \in {"active", "unverified"} /\ plan.mode = "tproxy" =>
        \A n \in plan.forwarding, proto \in {"tcp", "udp"}:
            LET sent(f) == [Packet(f, 1, proto, 443, FALSE, {}, "rmnet0")
                                EXCEPT !.inif = n]
            IN  /\ proto \in Transports => ForwardFate(sent(4)) = "proxied"
                /\ ForwardFate(sent(6)) = "dropped"
=============================================================================
