----------------------------- MODULE ConfigApply -----------------------------
(***************************************************************************)
(* How the worker puts a configuration into effect: apply_config_change    *)
(* and what it queues, the resolution of the package names, the Wi-Fi      *)
(* scene, and the commands that rebuild the generation or start and stop   *)
(* the core (worker_application.rs, worker_activation.rs).                 *)
(*                                                                         *)
(* The worker handles everything on one thread, so an action is a whole    *)
(* turn of run_ready or a whole boot; what may fail is a choice.           *)
(***************************************************************************)
EXTENDS ConfigModel, Folds

CONSTANTS
    Documents,      \* the files that the worker may find at first
    Starts,         \* those of them after which something happens
    Edits,          \* the files that the user saves then
    Listings,       \* answers of the package manager, see ResolveSelection
    Networks,       \* Wi-Fi networks, as [ssid, bssid]
    Tags,           \* the nodes of the subscription, in order
    MaxEvents       \* bound on what happens outside the worker

VARIABLES
    file,           \* nethop.toml
    listed,         \* what the package manager would answer
    network,        \* the Wi-Fi network
    worker,         \* the state of WorkerApplication
    events          \* what has happened outside, at most MaxEvents

vars == <<file, listed, network, worker, events>>

\* [config, policy, made, port, sync, queue, starting, override, probe,
\*  failed, generation, runtime], where failed says that the last generation
\* could not be made or started; what may be missing is a set of at most one element

Available(doc) == ActiveSources(doc.subscriptions.sources) # {}

\* SourceConfig::source_config_digest
SourceDigest(doc) == <<doc.subscriptions.mode, doc.subscriptions.sources>>

Made(doc, capture) == [capture |-> capture, stack |-> doc.network.tun_stack,
                       options |-> ManagedOptions(doc)]

\* queue_command
Queued(w, command) ==
    [w EXCEPT !.queue = IF command = "stop" THEN <<command>>
                        ELSE Append(@, command)]

(***************************************************************************)
(* refresh_application_policy: the policy and what generations are made    *)
(* of follow the configuration only once all its packages are resolved.    *)
(***************************************************************************)
RefreshApplicationPolicy(w, answer) ==
    LET doc == w.config
        follow(capture) == [w EXCEPT !.policy = capture, !.sync = "synced",
                                     !.made = Made(doc, capture)]
        selected == ResolveSelection(doc.applications, answer)
        captures == UNION {CaptureWithApplicationUids(doc, s) : s \in selected}
    IN IF doc.applications.mode = "all" THEN follow(InitialCapture(doc))
       ELSE IF captures # {} THEN follow(CHOOSE c \in captures : TRUE)
       ELSE [w EXCEPT !.sync = IF selected = {} THEN "pending"
                                        ELSE "failed"]

\* UpdateService::is_needed, current_generation_matches
SourcesMatch(w) ==
    \E g \in w.generation : g.sources = SourceDigest(w.config)

\* apply_config_change, with the event that the configuration is active
ApplyConfigChange(w, doc, answer) ==
    LET old == w.config
        plan == ChangePlan(old, doc)
        taken == [w EXCEPT !.config = doc, !.probe = TRUE, !.override = {},
                           !.port = doc.advanced.inbound_port]
        r == RefreshApplicationPolicy(taken, answer)
    IN IF ~doc.service.enabled \/ ~Available(doc) THEN Queued(r, "stop")
       ELSE IF SourceDigest(old) # SourceDigest(doc) THEN Queued(r, "update")
       ELSE IF old.service # doc.service
       THEN Queued(r, IF SourcesMatch(r) THEN "start" ELSE "update")
       ELSE IF doc.advanced.dry_run \/ plan = "GenerationActivation"
       THEN Queued(r, "rebuild")
       ELSE IF plan = "NetworkPlan" THEN Queued(Queued(r, "stop"), "start")
       ELSE r

-----------------------------------------------------------------------------
(* The core.                                                               *)

(***************************************************************************)
(* Whether recover_sealed can succeed: the plan is for the port that the   *)
(* probe was told, the listener on that port is there, or the TUN device   *)
(* is.                                                                     *)
(***************************************************************************)
Healthy(core, policy, port) ==
    /\ core.inbound.type = policy.mode
    /\ policy.mode = "tproxy" =>
           policy.inbound_port = port /\ core.inbound.listen_port = port

\* recover_sealed
Running(w, g) ==
    IF Healthy(g.core, w.policy, w.port)
    THEN {[w EXCEPT !.runtime = {[core |-> g.core, policy |-> w.policy]}]}
    ELSE {}

\* start; a failure is tried again later
Start(w) ==
    IF w.runtime # {} \/ w.generation = {} THEN {w}
    ELSE {[w EXCEPT !.retry = TRUE]}
         \cup UNION {Running([w EXCEPT !.retry = FALSE], g) : g \in w.generation}

Stop(w) == [w EXCEPT !.runtime = {}, !.starting = FALSE, !.retry = FALSE]

\* prepare: the candidate that SourceUpdateService makes
Candidates(w) ==
    LET pool == SubSeq(Tags, 1, IF Len(Tags) < w.made.options.candidates
                                THEN Len(Tags) ELSE w.made.options.candidates)
    IN IF ProfileOk(Tags, pool)
       THEN {[core |-> FromProfile(w.made, Tags, pool),
              sources |-> SourceDigest(w.config)]}
       ELSE {}

\* stage_reload: the running core takes the new configuration
Reloaded(w, g) ==
    {[w EXCEPT !.generation = {g}, !.runtime = {[r EXCEPT !.core = g.core]},
               !.failed = FALSE] :
        r \in {s \in w.runtime : Healthy(g.core, s.policy, w.port)}}

\* stop, then recover_generation; failing that, the old generation
Activated(w, g) ==
    {[v EXCEPT !.generation = {g}, !.failed = FALSE] :
        v \in Running(Stop(w), g)}
    \cup Start([Stop(w) EXCEPT !.failed = TRUE])

\* update_inner; a candidate that cannot be made leaves all as it is
UpdateInner(w, saved) ==
    {[w EXCEPT !.failed = TRUE]} \cup
    IF ~w.config.service.enabled \/ saved # w.config
       \/ w.config.advanced.dry_run THEN {}
    ELSE UNION {IF \E r \in w.runtime : r.policy = w.policy
                THEN Reloaded(w, g) ELSE Activated(w, g) : g \in Candidates(w)}

Handle(w, command, saved) ==
    CASE command = "start" -> {[w EXCEPT !.starting = TRUE]}
      [] command = "stop" -> {Stop(w)}
      [] command \in {"update", "rebuild"} -> UpdateInner(w, saved)

\* handle_commands, with handle_start
HandleCommands(w, saved) ==
    LET done == FoldLeft(LAMBDA ws, c : UNION {Handle(v, c, saved) : v \in ws},
                         {[w EXCEPT !.queue = <<>>]}, w.queue)
    IN UNION {IF v.starting THEN Start([v EXCEPT !.starting = FALSE]) ELSE {v} :
                  v \in done}

\* reconcile_wifi_scene
ReconcileWifiScene(w, facts) ==
    LET scenes == w.config.network.wifi_scenes
        decided == Evaluate(scenes.rules, facts)
        desired == w.config.service.enabled
                   /\ \A r \in decided : r.action = "enable"
        next == {desired : r \in decided}
        seen == [w EXCEPT !.probe = FALSE, !.override = next]
    IN CASE ~scenes.enabled -> [w EXCEPT !.override = {}]
         [] scenes.enabled /\ w.override = next -> [w EXCEPT !.probe = FALSE]
         [] scenes.enabled /\ w.override # next /\ desired ->
                IF w.runtime = {} /\ ~w.starting THEN Queued(seen, "start")
                ELSE seen
         [] OTHER ->
                IF w.runtime # {} \/ w.starting
                THEN Queued([seen EXCEPT !.starting = FALSE], "stop") ELSE seen

-----------------------------------------------------------------------------
\* with_configuration: what a new worker finds and starts with
Booted(doc, answer, generation) ==
    LET w == [config |-> doc, policy |-> InitialCapture(doc),
              made |-> Made(doc, InitialCapture(doc)),
              port |-> doc.advanced.inbound_port, sync |-> "pending",
              queue |-> <<>>, starting |-> TRUE, retry |-> FALSE,
              override |-> {}, probe |-> TRUE, failed |-> FALSE, generation |-> generation,
              runtime |-> {}]
        idle == [w EXCEPT !.starting = FALSE]
        on == doc.service.enabled /\ Available(doc)
    IN RefreshApplicationPolicy(
           CASE on /\ (doc.advanced.dry_run \/ ~SourcesMatch(w)) ->
                    Queued(idle, "update")
             [] ~on -> idle
             [] OTHER -> w, answer)

InitAt(doc, answer, facts) ==
    /\ file = doc
    /\ listed = answer
    /\ network = facts
    /\ worker = Booted(doc, answer, {})
    /\ events = IF doc \in Starts THEN 0 ELSE MaxEvents

Init == \E doc \in {d \in Documents : Valid(d)} :
            \E answer \in Listings, facts \in Networks :
                InitAt(doc, answer, facts)

Happens == events < MaxEvents /\ events' = events + 1

Save(doc) ==
    /\ Happens /\ doc # file
    /\ file' = doc
    /\ UNCHANGED <<listed, network, worker>>

PackagesChange(answer) ==
    /\ Happens /\ answer # listed
    /\ listed' = answer
    /\ UNCHANGED <<file, network, worker>>

Roam(n) ==
    /\ Happens /\ n # network
    /\ network' = n
    /\ UNCHANGED <<file, listed, worker>>

\* The worker dies, its core with it, and the supervisor starts another.
Restart ==
    /\ Happens /\ Valid(file)
    /\ worker' = Booted(file, listed, worker.generation)
    /\ UNCHANGED <<file, listed, network>>

\* The control request config.reload without wait: the change is accepted,
\* its commands stay queued.
Reload ==
    /\ Valid(file) /\ file # worker.config
    /\ worker' = ApplyConfigChange(worker, file, listed)
    /\ UNCHANGED <<file, listed, network, events>>

\* run_ready; the update of the subscription, the retry of the package
\* resolution, the probe of the network and the retry of the core are due or
\* not
RunReady(due, sync, probe, retry) ==
    LET watched == IF Valid(file) /\ file # worker.config
                   THEN ApplyConfigChange(worker, file, listed) ELSE worker
        asked == IF due THEN Queued(watched, "update") ELSE watched
        synced == IF sync /\ asked.sync # "synced"
                  THEN RefreshApplicationPolicy(asked, listed) ELSE asked
        scened == IF probe \/ synced.probe
                  THEN ReconcileWifiScene(synced, network) ELSE synced
    IN /\ \E w \in HandleCommands(scened, file) :
              IF retry /\ w.retry THEN worker' \in Start(w) ELSE worker' = w
       /\ UNCHANGED <<file, listed, network, events>>

Next ==
    \/ \E d \in Edits : Save(d)
    \/ \E a \in Listings : PackagesChange(a)
    \/ \E n \in Networks : Roam(n)
    \/ Restart
    \/ Reload
    \/ \E due, probe \in BOOLEAN :
           \E sync \in {FALSE, worker.sync # "synced"} :
               \E retry \in {FALSE, worker.retry} :
                   RunReady(due, sync, probe, retry)

Spec == Init /\ [][Next]_vars

-----------------------------------------------------------------------------
(***************************************************************************)
(* ConfigurationIsHonoured.  Every document that is accepted can be        *)
(* composed, means what RoutesAsConfigured, SelectsAsConfigured and        *)
(* CanonicalMeansSame say, and asks for nothing when it has not changed.   *)
(* Whatever sequence of saves, resolutions, scenes and failures follows,   *)
(* the core that runs listens where the network plan sends what it         *)
(* captures, a service that is switched off does not run once the worker   *)
(* has had its turn, and what the next generation is made of follows the   *)
(* policy and, once the packages are resolved, the document.               *)
(***************************************************************************)
DocumentIsMeant(doc) ==
    LET made == Made(doc, InitialCapture(doc))
    IN /\ ManagedOptionsOk(made.options)
       /\ RoutesAsConfigured(doc, FromProfile(made, Tags, Tags))
       /\ SelectsAsConfigured(doc, listed)
       /\ CanonicalMeansSame(doc, Networks)
       /\ ChangePlan(doc, Canonicalized(doc)) \in
              {"RuntimeOnly", "NetworkPlan"}

ConfigurationIsHonoured ==
    /\ worker = Booted(file, listed, {}) => DocumentIsMeant(file)
    /\ \A r \in worker.runtime :
           /\ r.core.inbound.type = r.policy.mode
           /\ r.policy.mode = "tproxy" =>
                  r.core.inbound.listen_port = r.policy.inbound_port
    /\ ~worker.config.service.enabled /\ worker.queue = <<>> =>
           worker.runtime = {} /\ ~worker.starting
    /\ worker.made.capture = worker.policy
    /\ worker.sync = "synced" =>
           worker.made = Made(worker.config, worker.policy)

(***************************************************************************)
(* AcceptedIsInEffect: with nothing left to do and nothing failed, the     *)
(* core that runs routes and resolves as the active configuration says     *)
(* (apply_config_change reports its digest as active_config_digest).       *)
(***************************************************************************)
AcceptedIsInEffect ==
    LET w == worker
        meant == ManagedOptions(w.config)
    IN /\ w.queue = <<>> /\ ~w.starting /\ ~w.failed
       /\ w.sync = "synced" /\ w.config = file
       => \A r \in w.runtime : /\ r.core.route.rules = RouteRules(meant)
                               /\ r.core.dns.rules = DnsRules(meant)
=============================================================================
