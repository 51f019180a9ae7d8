------------------------------ MODULE MCDevice ------------------------------
(***************************************************************************)
(* What the worker does to the device, each part on its own: the executor  *)
(* of network plans, the plans themselves, the core as a process, and the  *)
(* rule set files that it reads.  A behaviour is one of the part chosen in *)
(* the initial state.                                                      *)
(***************************************************************************)
EXTENDS NetworkExecutor, Sequences, FiniteSets

VARIABLE part

\* NetworkPlan: marks of three bits, and two candidates to allocate.
Bits == 0..2
Allocation(mark, mask, table) ==
    [mark |-> mark, mask |-> mask, table |-> table, priority |-> table]
Candidates == <<Allocation({0}, {0, 1}, 1), Allocation({0, 1}, {0, 1, 2}, 2)>>

\* Rules of other programs: one that the first candidate conflicts with only
\* because of the masks, and one in which the second has no part.
Foreign == Allocation({0, 2}, {0, 2}, 7)
Other == Allocation({1}, {1}, 8)

\* A device on which everything works, and what may be amiss.
Plain ==
    [platform |-> TRUE, portFree |-> TRUE, tables |-> {}, ipv4 |-> TRUE,
     address6 |-> "supported", tools6 |-> "all", tun |-> TRUE,
     tunnel |-> FALSE, foreign |-> {},
     interfaces |-> {"lo", "wlan0", "rmnet0", "wlan1"}]
Devices ==
    {[Plain EXCEPT !.address6 = a, !.tools6 = t]:
        a \in {"supported", "not_present", "denied"},
        t \in {"all", "guard", "none"}}
    \cup {[Plain EXCEPT !.foreign = f]: f \in SUBSET {Foreign, Other}}
    \cup {[Plain EXCEPT !.tunnel = TRUE], [Plain EXCEPT !.portFree = FALSE],
          [Plain EXCEPT !.platform = FALSE], [Plain EXCEPT !.tables = {1}],
          [Plain EXCEPT !.ipv4 = FALSE], [Plain EXCEPT !.tun = FALSE],
          [Plain EXCEPT !.interfaces = {"lo", "rmnet0"}]}

Everywhere ==
    [mobile |-> TRUE, wifi |-> TRUE, include |-> {}, exclude |-> {}]
Policies ==
    [mode: {"tproxy", "tun"}, tcp: BOOLEAN, udp: BOOLEAN, guard: BOOLEAN,
     bypass: {{1}, {2}}, include: {{}, {1}}, exclude: {{0, 2}},
     scope: {Everywhere, [Everywhere EXCEPT !.mobile = FALSE],
             [Everywhere EXCEPT !.include = {"rmnet0"}]},
     hotspot: BOOLEAN, usb: {FALSE}]
Uids == 0..3
MaxDrift == 1

VARIABLES device, policy, plan, netfilter, routes, rules, done, phase, drift

planVars == <<device, policy, plan, netfilter, routes, rules, done, phase,
              drift>>

P == INSTANCE NetworkPlan

\* CoreProcess: a reload after one that failed, and after one that succeeded.
MaxGeneration == 3
MaxTrouble == 3

VARIABLES mode, activeFile, core, loaded, hup, tun, handle, recorded,
          candidate, place, checker, stray, trouble

processVars == <<mode, activeFile, core, loaded, hup, tun, handle, recorded,
                 candidate, place, checker, stray, trouble>>

C == INSTANCE CoreProcess

\* RuleSets: one update of each file, and failures enough to lose one.
MaxVersion == 2
MaxMishaps == 2

VARIABLES served, cached, known, body, pair, old, log, staged, tx, readPair,
          restart, step, undo, checked, mishaps

ruleSetVars == <<served, cached, known, body, pair, old, log, staged, tx,
                 readPair, restart, step, undo, checked, mishaps>>

R == INSTANCE RuleSets WITH loaded <- readPair

-----------------------------------------------------------------------------
DeviceInit ==
    /\ Init
    /\ part \in {"executor", "plan", "core", "rules"}
    /\ IF part = "plan" THEN P!Init ELSE P!InitAt("parked")
    /\ IF part = "core" THEN C!Init ELSE C!InitAt("parked")
    /\ IF part = "rules" THEN R!Init ELSE R!InitAt("parked")

ExecutorNext ==
    /\ part = "executor" /\ Next
    /\ UNCHANGED <<part, planVars, processVars, ruleSetVars>>
PlanNext ==
    /\ part = "plan" /\ P!Next
    /\ UNCHANGED <<part, vars, processVars, ruleSetVars>>
CoreNext ==
    /\ part = "core" /\ C!Next
    /\ UNCHANGED <<part, vars, planVars, ruleSetVars>>
RuleSetNext ==
    /\ part = "rules" /\ R!Next
    /\ UNCHANGED <<part, vars, planVars, processVars>>

DeviceNext == ExecutorNext \/ PlanNext \/ CoreNext \/ RuleSetNext

DeviceSpec ==
    /\ DeviceInit
    /\ [][DeviceNext]_<<part, vars, planVars, processVars, ruleSetVars>>
    /\ WF_processVars(part = "core" /\ C!Worker)
    /\ WF_processVars(part = "core" /\ C!CoreReloads)
    /\ WF_processVars(part = "core" /\ C!TunFollows)
    /\ WF_ruleSetVars(part = "rules" /\ R!Steps)

-----------------------------------------------------------------------------
\* The state of each part has its type.
PartsTypeOK ==
    /\ TypeOK
    /\ part = "plan" => P!TypeOK
    /\ part = "core" => C!TypeOK
    /\ part = "rules" => R!TypeOK

(***************************************************************************)
(* NetworkPlan: with a plan in force every packet goes where the policy    *)
(* sends it.  What it says is captured, and no more; no IPv6 goes out      *)
(* while the IPv4 of the same app is captured; no question to a name       *)
(* server leaves by the side of the core; what the core sends is never     *)
(* captured; the clients of a hotspot are; and no mark is another          *)
(* program's as well.                                                      *)
(***************************************************************************)
TrafficFollowsPolicy ==
    /\ P!CaptureFollowsPolicy
    /\ P!GuardComesFirst
    /\ P!NoDnsLeak
    /\ P!HotspotIsCaptured
    /\ part = "plan" => P!NoLoop /\ P!MarksAreOurs

\* NetworkPlan: a plan that was applied passes its own verification, and one
\* that was rolled back leaves nothing behind.
AppliedThenGone == P!OwnPlanVerifies /\ P!RollbackRestores

(***************************************************************************)
(* CoreProcess: the core runs on the generation that the worker has        *)
(* recorded or on one that a failed reload left, no core outlives the      *)
(* worker's handle of it, and nothing of a reload is left pending.         *)
(***************************************************************************)
CoreIsAccountedFor == C!CoreIsAccountedFor

(***************************************************************************)
(* RuleSets: an idle worker has two files that were checked together and   *)
(* that the running core has read, and the download cache answers with     *)
(* what the server has.                                                    *)
(***************************************************************************)
RuleSetsAreCurrent == R!RuleSetsAreCurrent

\* CoreProcess and RuleSets: a stop ends and leaves no core, and a worker that
\* was killed among the rule sets comes up again.
DeviceSettles ==
    /\ C!StopComesToAnEnd
    /\ part = "rules" => []<>(step = "idle" \/ log = "torn")
=============================================================================
