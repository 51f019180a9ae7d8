---------------------------- MODULE WorkerRuntime ----------------------------
(***************************************************************************)
(* The worker's control of one running proxy: the sing-box core process,   *)
(* the network rules that send traffic to it (the capture), the restart    *)
(* budget and the published state (worker_runtime.rs, worker_activation.rs *)
(* and the start, stop and tick paths of worker_application.rs).           *)
(*                                                                         *)
(* The worker is one thread: each action is one call of its loop.  Around  *)
(* it run the core, which may die; the kernel, whose rules other programs  *)
(* may remove; and the supervisor, which relaunches a worker that died.    *)
(* The steps of one apply or rollback are those of module NetworkExecutor; *)
(* here they are summed up by what they leave in the kernel.               *)
(***************************************************************************)
EXTENDS Integers, Sequences, FiniteSets

CONSTANTS
    Window,         \* failure_window, in seconds (scaled down from 300)
    Candidates,     \* how many resource candidates the configuration lists
    HazardSets,     \* each a set of "command" (network commands fail), "kill"
                    \* (the worker is killed) and "jump" (a chain's jump is lost)
    CountRestarts,  \* keep the history of automatic restarts?
    MaxFaults       \* bound on the failures of the environment

ASSUME RuntimeAssumption ==
    /\ Window \in Nat \ {0}
    /\ Candidates \in Nat \ {0}
    /\ HazardSets \subseteq SUBSET {"command", "kill", "jump"}
    /\ CountRestarts \in BOOLEAN
    /\ MaxFaults \in Nat

VARIABLES
    hazards,    \* what may go wrong in this behaviour
    mode,       \* the capture mode of the policy
    core,       \* the sing-box process
    rules,      \* NetHop's rules in the kernel
    leaked,     \* candidates whose policy routes were left behind
    stored,     \* does the store hold a current generation?
    enabled,    \* service.enabled in the configuration file
    alive,      \* is the worker process running?
    active,     \* WorkerApplication.runtime is Some
    receipt,    \* the attachment holds an ApplyReceipt (capture enabled)
    failures,   \* RestartBudget.failures as ages, oldest first
    restartIn,  \* restart_at as the time left, or NoRestart
    pending,    \* start_pending
    state,      \* the published RuntimeState
    scene,      \* wifi_scene_override
    restarts,   \* history: ages of the automatic restarts
    reported,   \* history: a cleanup failure was reported, or the worker died
    faults      \* failures of the environment so far

kernel == <<rules, leaked>>
budget == <<failures, restartIn>>
settings == <<hazards, mode, stored, enabled>>
vars == <<core, kernel, settings, alive, active, receipt, budget, pending,
          state, scene, restarts, reported, faults>>

NoRestart == -1

RESTART_DELAYS == <<1, 2, 4>>

(***************************************************************************)
(* "damaged" rules are NetHop's own but incomplete; "stuck" ones are       *)
(* chains whose jump is gone, for which the rollback is told "Bad rule",   *)
(* takes that as absence and removes nothing.                              *)
(***************************************************************************)
Rules == {"clean", "applied", "damaged", "stuck"}

Ages == 0..Window   \* of a failure or a restart; Window stands for all above

RuntimeStates == {"init", "running", "fail_open", "backoff", "circuit_open"}

Init ==
    /\ hazards \in HazardSets
    /\ mode \in {"tproxy", "tun"}
    /\ core = "none"
    /\ rules = "clean"
    /\ leaked = 0
    /\ stored \in BOOLEAN
    /\ enabled \in BOOLEAN
    /\ alive = TRUE
    /\ active = FALSE
    /\ receipt = FALSE
    /\ failures = <<>>
    /\ restartIn = NoRestart
    /\ pending = enabled
    /\ state = IF enabled THEN "init" ELSE "fail_open"
    /\ scene = "none"
    /\ restarts = <<>>
    /\ reported = FALSE
    /\ faults = 0

Spend(n) ==
    /\ faults + n =< MaxFaults
    /\ faults' = faults + n

(***************************************************************************)
(* RestartBudget::register_failure, with what both of its callers make of  *)
(* the decision.  Ages are oldest first, so the expired ones, which are    *)
(* dropped from the front, are a prefix.                                   *)
(***************************************************************************)
Recent(ages) ==
    LET expired == Cardinality({i \in DOMAIN ages: ages[i] >= Window})
    IN SubSeq(ages, expired + 1, Len(ages))

\* Mutant: one failure too many is admitted.
MutRegisterFailure ==
    LET kept == Recent(failures) IN
    IF Len(kept) > Len(RESTART_DELAYS)
    THEN /\ failures' = kept
         /\ restartIn' = NoRestart
         /\ state' = "circuit_open"
    ELSE /\ failures' = Append(kept, 0)
         /\ restartIn' = IF Len(kept) < 3 THEN RESTART_DELAYS[Len(kept) + 1] ELSE 4
         /\ state' = "backoff"

RegisterFailure ==
    LET kept == Recent(failures) IN
    IF Len(kept) = Len(RESTART_DELAYS)
    THEN /\ failures' = kept
         /\ restartIn' = NoRestart
         /\ state' = "circuit_open"
    ELSE /\ failures' = Append(kept, 0)
         /\ restartIn' = RESTART_DELAYS[Len(kept) + 1]
         /\ state' = "backoff"

(***************************************************************************)
(* What a rollback leaves when its receipt is dropped afterwards: nothing; *)
(* or, when a command failed, chains, or only the policy routes, whose     *)
(* candidate is then lost.  Without a receipt nothing is rolled back.      *)
(***************************************************************************)
Left(r, l, f) == [rules |-> r, leaked |-> l, failed |-> f]

Leftovers(from, f) ==
    IF from = "stuck"
    THEN {Left("stuck", leaked, f), Left("stuck", leaked + 1, f)}
    ELSE {Left("damaged", leaked, f), Left("clean", leaked + 1, f)}

Withdrawals(held, from, cost) ==
    IF held
    THEN {Left(IF from = "stuck" THEN "stuck" ELSE "clean", leaked, FALSE)}
         \cup (IF "command" \in hazards /\ faults + cost < MaxFaults
               THEN Leftovers(from, TRUE) ELSE {})
    ELSE IF from = "damaged" THEN Leftovers(from, FALSE)
    ELSE {Left(from, leaked, FALSE)}

(***************************************************************************)
(* ActiveRuntime::stop: roll the network back, stop the core, whatever     *)
(* failed.  Dropping the runtime kills a core that could not be stopped.   *)
(***************************************************************************)
StopActive(w, cost) ==
    /\ rules' = w.rules
    /\ leaked' = w.leaked
    /\ reported' = (reported \/ w.failed)
    /\ Spend(cost + IF w.failed THEN 1 ELSE 0)
    /\ active' = FALSE
    /\ receipt' = FALSE
    /\ core' = IF core = "orphan" THEN core ELSE "none"

\* Mutant: the runtime is dropped with its receipt, without a rollback.
MutFailRuntime(held, from, cost) ==
    /\ \E w \in Withdrawals(FALSE, from, cost): StopActive(w, cost)
    /\ RegisterFailure

\* WorkerRuntime::fail_runtime and tick_runtime's handling of its result.
FailRuntime(held, from, cost) ==
    /\ \E w \in Withdrawals(held, from, cost): StopActive(w, cost)
    /\ RegisterFailure

-----------------------------------------------------------------------------
(***************************************************************************)
(* CurrentGenerationActivator::recover_sealed.  The capability probe finds *)
(* every chain NetHop left behind, and an inbound port that a surviving    *)
(* core still holds; in TPROXY mode either makes the planner refuse.  In   *)
(* TUN mode it looks at neither, but the new core cannot have the          *)
(* interface that the surviving one holds.  A candidate whose policy       *)
(* routes were left behind is passed over.                                 *)
(***************************************************************************)
CanPlan ==
    /\ mode = "tproxy" => rules = "clean"
    /\ core # "orphan"
    /\ leaked < Candidates

CanApply == CanPlan /\ rules = "clean"

Recovered ==
    /\ stored /\ CanApply
    /\ core' = "running"
    /\ rules' = "applied"
    /\ active' = TRUE
    /\ receipt' = TRUE
    /\ failures' = <<>>
    /\ restartIn' = NoRestart
    /\ state' = "running"
    /\ UNCHANGED <<leaked, reported, faults>>

NoGeneration ==
    /\ ~stored
    /\ restartIn' = NoRestart
    /\ state' = "fail_open"
    /\ UNCHANGED <<core, kernel, active, receipt, failures, reported, faults>>

\* The check, the probe, the planner, the launch or the core's health says no.
Refused ==
    /\ stored
    /\ IF CanPlan THEN Spend(1) ELSE UNCHANGED faults
    /\ RegisterFailure
    /\ UNCHANGED <<core, kernel, active, receipt, reported>>

\* network.apply failed and undid itself, or reported ApplyRollbackFailed.
ApplyFailed ==
    /\ stored /\ CanApply /\ "command" \in hazards
    /\ \/ /\ Spend(1)
          /\ UNCHANGED <<kernel, reported>>
       \/ /\ Spend(2)
          /\ reported' = TRUE
          /\ \/ rules' = "damaged" /\ UNCHANGED leaked
             \/ leaked' = leaked + 1 /\ UNCHANGED rules
    /\ RegisterFailure
    /\ UNCHANGED <<core, active, receipt>>

(***************************************************************************)
(* What an apply leaves of rules it meets.  A chain that is there already  *)
(* fails its step, and the undo of that step and the ones before takes the *)
(* old chains with it, as far as it goes and if their jump is this plan's. *)
(***************************************************************************)
Met(from) == IF from = "stuck" THEN {"stuck"} ELSE {"clean", "damaged"}

\* In TUN mode a plan is made over leftovers, whose routes are not its own.
LeftoversMet ==
    /\ stored /\ CanPlan /\ rules # "clean"
    /\ rules' \in Met(rules)
    /\ leaked' \in {leaked} \cup (IF rules' = "clean" THEN {leaked + 1} ELSE {})
    /\ RegisterFailure
    /\ UNCHANGED <<core, active, receipt, reported, faults>>

\* The data plane is unhealthy: what was applied is rolled back.
Unhealthy ==
    /\ stored /\ CanApply
    /\ \E w \in Withdrawals(TRUE, "applied", 1): StopActive(w, 1)
    /\ RegisterFailure

\* WorkerApplication::start, when no runtime is active.
Start ==
    \/ Recovered \/ NoGeneration \/ Refused \/ ApplyFailed \/ LeftoversMet
    \/ Unhealthy

-----------------------------------------------------------------------------
(***************************************************************************)
(* Commands.  They are queued by a control request or a Wi-Fi scene and    *)
(* taken by handle_commands in the same pass of the loop; a start that is  *)
(* pending is made before the pass goes on.                                *)
(***************************************************************************)
\* service.start also stores service.enabled; core.start does not, nor does
\* capture.enable, which comes here when there is no runtime.
StartCommand ==
    /\ alive
    /\ enabled' \in {TRUE, enabled}
    /\ failures' = <<>>
    /\ pending' = TRUE
    /\ restarts' = <<>>
    /\ UNCHANGED <<core, kernel, hazards, mode, stored, alive, active, receipt, restartIn,
                   state, scene, reported, faults>>

HandleStart ==
    /\ alive /\ pending
    /\ pending' = FALSE
    /\ \/ /\ active
          /\ UNCHANGED <<core, kernel, active, receipt, budget, state,
                         reported, faults>>
       \/ ~active /\ Start
    /\ UNCHANGED <<settings, alive, scene, restarts>>

\* Mutant: stop() leaves a scheduled restart in place.
MutStop(exits) ==
    /\ \E w \in IF active THEN Withdrawals(receipt, rules, 0)
                 ELSE {Left(rules, leaked, FALSE)}:
          /\ StopActive(w, 0)
          /\ alive' = ~(exits /\ w.failed)
    /\ restartIn' = restartIn
    /\ pending' = FALSE
    /\ state' = "fail_open"
    /\ UNCHANGED failures

(***************************************************************************)
(* WorkerApplication::stop.  When it fails in the command loop the worker  *)
(* leaves its service loop and exits.                                      *)
(***************************************************************************)
Stop(exits) ==
    /\ \E w \in IF active THEN Withdrawals(receipt, rules, 0)
                 ELSE {Left(rules, leaked, FALSE)}:
          /\ StopActive(w, 0)
          /\ alive' = ~(exits /\ w.failed)
    /\ restartIn' = NoRestart
    /\ pending' = FALSE
    /\ state' = "fail_open"
    /\ UNCHANGED failures

\* service.stop
StopCommand ==
    /\ alive
    /\ enabled' = FALSE
    /\ Stop(TRUE)
    /\ UNCHANGED <<hazards, mode, stored, scene, restarts>>

\* core.stop
CoreStop ==
    /\ alive
    /\ Stop(FALSE)
    /\ UNCHANGED <<settings, scene, restarts>>

(***************************************************************************)
(* reconcile_wifi_scene, when a probe is due.  d is the matching rule.     *)
(***************************************************************************)
SceneOverride(d) ==
    IF d = "none" THEN "none"
    ELSE IF enabled /\ d = "on" THEN "on" ELSE "off"

WifiScene(d) ==
    LET desired == enabled /\ d # "off" IN
    /\ alive
    /\ SceneOverride(d) # scene
    /\ scene' = SceneOverride(d)
    /\ \/ /\ desired /\ ~active /\ ~pending
          /\ pending' = TRUE
          /\ failures' = <<>>
          /\ restarts' = <<>>
          /\ UNCHANGED <<core, kernel, alive, active, receipt, restartIn,
                         state, reported, faults>>
       \/ /\ ~desired /\ (active \/ pending)
          /\ Stop(TRUE)
          /\ UNCHANGED restarts
       \/ /\ IF desired THEN active \/ pending ELSE ~(active \/ pending)
          /\ UNCHANGED <<core, kernel, alive, active, receipt, budget,
                         pending, state, restarts, reported, faults>>
    /\ UNCHANGED settings

(***************************************************************************)
(* capture.enable and capture.disable.  Without a runtime, enabling is a   *)
(* StartCommand, and disabling is accepted and changes nothing.            *)
(***************************************************************************)
CaptureEnable ==
    /\ alive /\ active /\ ~pending
    /\ \/ /\ receipt
          /\ UNCHANGED <<kernel, receipt, reported, faults>>
       \/ /\ ~receipt /\ rules = "clean"
          /\ receipt' = TRUE
          /\ rules' = "applied"
          /\ UNCHANGED <<leaked, reported, faults>>
       \/ /\ ~receipt /\ rules # "clean"
          /\ rules' \in Met(rules)
          /\ UNCHANGED <<leaked, receipt, reported, faults>>
       \/ /\ ~receipt /\ rules = "clean" /\ "command" \in hazards
          /\ \/ Spend(1) /\ UNCHANGED <<rules, reported>>
             \/ Spend(2) /\ rules' = "damaged" /\ reported' = TRUE
          /\ UNCHANGED <<leaked, receipt>>
    /\ UNCHANGED <<core, settings, alive, active, budget, pending, state,
                   scene, restarts>>

CaptureDisable ==
    /\ alive /\ active /\ ~pending
    /\ \/ /\ receipt' = FALSE
          /\ rules' = IF receipt /\ rules # "stuck" THEN "clean" ELSE rules
          /\ UNCHANGED faults
       \/ /\ receipt /\ "command" \in hazards
          /\ Spend(1)
          /\ rules' = IF rules = "stuck" THEN "stuck" ELSE "damaged"
          /\ UNCHANGED receipt
    /\ UNCHANGED <<core, leaked, settings, alive, active, budget, pending,
                   state, scene, restarts, reported>>

-----------------------------------------------------------------------------
(***************************************************************************)
(* tick_runtime.                                                           *)
(***************************************************************************)
Quiet == UNCHANGED <<settings, alive, pending, scene, restarts>>

CoreExited ==
    /\ alive /\ active /\ ~pending /\ core = "dead"
    /\ FailRuntime(receipt, rules, 0)
    /\ Quiet

CoreObserveFailed ==
    /\ alive /\ active /\ ~pending
    /\ FailRuntime(receipt, rules, 1)
    /\ Quiet

(***************************************************************************)
(* A reconcile: verify; if that fails (c is 1 when the check itself is to  *)
(* blame), a TUN runtime is given up, and a TPROXY one is rolled back,     *)
(* applied and verified again.                                             *)
(***************************************************************************)
Verified ==
    IF receipt THEN rules = "applied" ELSE rules = "clean"

Suspect(c) == c = IF Verified THEN 1 ELSE 0

Reconciled ==
    /\ Verified
    /\ UNCHANGED <<core, kernel, active, receipt, budget, state, reported,
                   faults>>

TunUnhealthy(c) ==
    /\ mode = "tun"
    /\ FailRuntime(receipt, rules, c)

\* rebuild_network does nothing, and verify then looks for enabled capture.
DisabledDrift(c) ==
    /\ mode = "tproxy" /\ ~receipt
    /\ FailRuntime(FALSE, rules, c)

WithdrawFailed(c) ==
    /\ mode = "tproxy" /\ receipt /\ "command" \in hazards
    /\ FailRuntime(TRUE, IF rules = "stuck" THEN "stuck" ELSE "damaged", c + 1)

\* The receipt is spent once the rollback is done: nothing more is undone.
ReapplyFailed(c) ==
    /\ mode = "tproxy" /\ receipt
    /\ IF rules = "stuck"
       THEN FailRuntime(FALSE, "stuck", c)
       ELSE /\ "command" \in hazards
            /\ \/ FailRuntime(FALSE, "clean", c + 1)
               \/ FailRuntime(FALSE, "damaged", c + 2)

DriftPersisted(c) ==
    /\ mode = "tproxy" /\ receipt /\ rules # "stuck"
    /\ FailRuntime(TRUE, "applied", c + 1)

Repaired(c) ==
    /\ mode = "tproxy" /\ receipt /\ rules # "stuck"
    /\ Spend(c)
    /\ rules' = "applied"
    /\ UNCHANGED <<core, leaked, active, receipt, budget, state, reported>>

Reconcile ==
    /\ alive /\ active /\ ~pending /\ core = "running"
    /\ \/ Reconciled
       \/ \E c \in {0, 1}:
             /\ Suspect(c)
             /\ \/ TunUnhealthy(c) \/ DisabledDrift(c) \/ WithdrawFailed(c)
                \/ ReapplyFailed(c) \/ DriftPersisted(c) \/ Repaired(c)
    /\ Quiet

Repair == ~Verified /\ Reconcile

\* No runtime, and restart_at has come.
RestartDue ==
    /\ alive /\ ~active /\ ~pending
    /\ restartIn = 0
    /\ restarts' = IF CountRestarts THEN Append(restarts, 0) ELSE restarts
    /\ Start
    /\ UNCHANGED <<settings, alive, pending, scene>>

-----------------------------------------------------------------------------
(***************************************************************************)
(* The environment.                                                        *)
(***************************************************************************)
CoreDies ==
    /\ core \in {"running", "orphan"}
    /\ Spend(1)
    /\ core' = IF core = "orphan" THEN "none" ELSE "dead"
    /\ UNCHANGED <<kernel, settings, alive, active, receipt, budget, pending,
                   state, scene, restarts, reported>>

\* Another program removes some of the rules, or only the jump to a chain.
Drift ==
    /\ rules \in {"applied", "damaged"}
    /\ Spend(1)
    /\ rules' \in {"damaged"} \cup (IF "jump" \in hazards THEN {"stuck"} ELSE {})
    /\ UNCHANGED <<core, leaked, settings, alive, active, receipt, budget,
                   pending, state, scene, restarts, reported>>

\* The worker is killed, perhaps in the middle of applying rules.
WorkerDies ==
    /\ "kill" \in hazards /\ alive
    /\ Spend(1)
    /\ alive' = FALSE
    /\ active' = FALSE
    /\ receipt' = FALSE
    /\ core' = IF core = "running" THEN "orphan"
               ELSE IF core = "dead" THEN "none" ELSE core
    /\ rules' \in {rules} \cup
         (IF rules # "stuck" /\ (active \/ (pending /\ stored /\ CanPlan))
          THEN {"damaged"} ELSE {})
    /\ reported' = TRUE
    /\ UNCHANGED <<leaked, settings, budget, pending, state, scene,
                   restarts>>

\* The supervisor relaunches it; nothing of its memory is left.
Relaunch ==
    /\ ~alive
    /\ alive' = TRUE
    /\ failures' = <<>>
    /\ restartIn' = NoRestart
    /\ pending' = enabled
    /\ state' = IF enabled THEN "init" ELSE "fail_open"
    /\ scene' = "none"
    /\ restarts' = <<>>
    /\ UNCHANGED <<core, kernel, settings, active, receipt, reported,
                   faults>>

\* One second passes.
Older(ages) == [i \in DOMAIN ages |-> IF ages[i] < Window THEN ages[i] + 1
                                      ELSE Window]

\* Mutant: the time left until a scheduled restart does not go down.
MutTick ==
    /\ failures' = Older(failures)
    /\ restarts' = Recent(Older(restarts))
    /\ UNCHANGED <<core, kernel, settings, alive, active, receipt, restartIn,
                   pending, state, scene, reported, faults>>

Tick ==
    /\ failures' = Older(failures)
    /\ restarts' = Recent(Older(restarts))
    /\ restartIn' = IF restartIn > 0 THEN restartIn - 1 ELSE restartIn
    /\ UNCHANGED <<core, kernel, settings, alive, active, receipt, pending,
                   state, scene, reported, faults>>

Next ==
    \/ StartCommand \/ HandleStart \/ StopCommand \/ CoreStop
    \/ \E d \in {"none", "on", "off"}: WifiScene(d)
    \/ CaptureEnable \/ CaptureDisable
    \/ CoreExited \/ CoreObserveFailed \/ Reconcile \/ RestartDue
    \/ CoreDies \/ Drift \/ WorkerDies \/ Relaunch \/ Tick

(***************************************************************************)
(* The loop wakes for every deadline (next_wakeup_in), so a due start, a   *)
(* due poll and a due reconcile are taken; time passes; and the supervisor *)
(* relaunches its worker.                                                  *)
(***************************************************************************)
Fairness ==
    /\ WF_vars(HandleStart)
    /\ WF_vars(CoreExited)
    /\ WF_vars(Repair)
    /\ WF_vars(RestartDue)
    /\ WF_vars(Relaunch)
    /\ WF_vars(Tick)

Spec == Init /\ [][Next]_vars /\ Fairness

-----------------------------------------------------------------------------
TypeOK ==
    /\ hazards \in HazardSets
    /\ mode \in {"tproxy", "tun"}
    /\ core \in {"none", "running", "dead", "orphan"}
    /\ rules \in Rules
    /\ leaked \in 0..Candidates
    /\ stored \in BOOLEAN /\ enabled \in BOOLEAN /\ alive \in BOOLEAN
    /\ active \in BOOLEAN /\ receipt \in BOOLEAN /\ pending \in BOOLEAN
    /\ failures \in Seq(Ages) /\ Len(failures) =< Len(RESTART_DELAYS)
    /\ restartIn \in {NoRestart, 0, 1, 2, 3, 4}
    /\ state \in RuntimeStates
    /\ scene \in {"none", "on", "off"}
    /\ reported \in BOOLEAN
    /\ restarts \in Seq(Ages)
    /\ faults \in 0..MaxFaults

(***************************************************************************)
(* The state the worker publishes is the state it is in: "running" exactly *)
(* while it holds a runtime, and a runtime exactly while it owns a core    *)
(* process; "backoff" exactly while a restart is scheduled; "circuit_open" *)
(* only with an exhausted budget or a start on its way.                    *)
(* (publish_snapshot in start, stop and tick_runtime.)                     *)
(***************************************************************************)
StateIsHonest ==
    alive =>
      /\ (state = "running") <=> active
      /\ active <=> core \in {"running", "dead"}
      /\ receipt => active
      /\ (state = "backoff") <=> (restartIn # NoRestart)
      /\ state = "circuit_open" =>
            pending \/ Len(failures) = Len(RESTART_DELAYS)

\* Network commands work and nobody kills the worker.
Steady == hazards \cap {"command", "kill"} = {}

\* Nothing is left, or what a lost jump keeps the rollback from removing.
Withdrawn(r) == r = "clean" \/ (r = "stuck" /\ "jump" \in hazards)

(***************************************************************************)
(* Availability first: as long as network commands work and nobody kills   *)
(* the worker, a worker without a runtime has left no rule in the kernel,  *)
(* whatever core deaths, drifts, failed health checks, capture switches    *)
(* and repairs came before (fail_runtime, stop and recover_sealed all      *)
(* withdraw what they applied).  There is one exception: if others removed *)
(* the jump to a chain, the batch that rolls it back is refused as a "bad  *)
(* rule", which indicates_absent takes for absence, and its rules stay.    *)
(* (docs/00, 9.2, makes none: direct before every attempt.)                *)
(***************************************************************************)
DirectWhenDown ==
    (Steady /\ alive /\ ~active) => (Withdrawn(rules) /\ leaked = 0)

(***************************************************************************)
(* With working network commands and no kill, once failures stop, a        *)
(* service does not stay starting or in backoff: it runs again, unless it  *)
(* is stopped or the circuit is already open (restart_at, next_wakeup_in   *)
(* and tick_runtime).                                                      *)
(***************************************************************************)
ServiceComesBack ==
    LET waiting == /\ hazards = {} /\ stored /\ alive /\ faults = MaxFaults
                   /\ state \in {"init", "backoff"}
    IN []<>(~waiting \/ active)

(***************************************************************************)
(* What the documents say, and the code does not do.                       *)
(***************************************************************************)
\* docs/00, 9.2: at most three automatic restarts in one failure window.
\* start() clears the budget each time a restart succeeds.
AtMostThreeRestarts == Len(restarts) =< 3

\* docs/00, 9.2: a relaunched worker first cleans up what its predecessor
\* left.  The first start meets the old rules in the kernel.
RelaunchCleansUp ==
    [][(HandleStart /\ ~active) => rules = "clean"]_vars

\* docs/00, 8.4: every step of the cleanup that fails leaves a diagnostic.
\* rebuild_network spends the receipt before it applies, so a failed undo of
\* that apply is not seen by the stop that follows.
FailedCleanupIsReported ==
    (alive /\ ~active /\ rules # "clean") => reported
====
