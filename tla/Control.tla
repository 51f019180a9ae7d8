------------------------------- MODULE Control -------------------------------
(***************************************************************************)
(* The control plane of the worker: clients (nethopctl, the WebUI) put     *)
(* requests on the socket; the worker serves what has arrived one request  *)
(* at a time (worker_service.rs, uds.rs) and then runs the commands that   *)
(* the requests left in its queue (handle_commands of                      *)
(* worker_application.rs).  A request that waits runs the queue itself,    *)
(* with whatever others have put there.  A client that gives up, or whose  *)
(* timeout passes, changes nothing: what it has sent is carried out, and   *)
(* the answer that it does not read is an answer all the same.             *)
(*                                                                         *)
(* A configuration is [enabled, sources, policy]; a generation is known by *)
(* the sources and the node overrides it was built from.  What an update   *)
(* does inside is SourceUpdate's and SubscriptionTransaction's subject,    *)
(* here it has its outcomes.  There are sources at all times, no dry run,  *)
(* and the file on disk is the configuration in memory (ConfigRuntime has  *)
(* the rest).  ConfigMutate is a ConfigApply of the mutated document.      *)
(***************************************************************************)
EXTENDS Integers, Sequences, FiniteSets

CONSTANTS
    MaxRequests,    \* bound on the requests of all clients, and on these and
                    \* what goes wrong together
    MaxTrouble      \* bound on core exits, failing cleanups and restarts

VARIABLES
    config,         \* ConfigRuntime.current
    gen,            \* the published generation
    runtime,        \* [up, capture]: WorkerApplication.runtime
    restartAt,      \* a restart is scheduled (restart_at)
    scene,          \* wifi_scene_override: "none", "on" or "off"
    lastUpdate,     \* ControlSnapshot.last_update
    pending,        \* WorkerControlHandler.pending
    startPending,
    sent,           \* connections waiting to be accepted, in their order
    mode,           \* what the worker does
    serving,        \* [request, was]: the request whose handling runs the
                    \* queue, and the configuration that it found
    answer,         \* history: "fair", or "untrue" if the last answer was
    asked,          \* history: the core was asked for past the configuration
                    \* since the service was last switched off
    requests,       \* requests sent so far
    trouble         \* troubles so far

controlVars == <<config, gen, runtime, restartAt, scene, lastUpdate, pending,
                 startPending, sent, mode, serving, answer, asked,
                 requests, trouble>>

-----------------------------------------------------------------------------
Configs == [enabled: BOOLEAN, sources: {1, 2}, policy: {1}]
           \cup [enabled: BOOLEAN, sources: {1}, policy: {2}]
NoGen == [sources |-> 0, overrides |-> 0]
Down == [up |-> FALSE, capture |-> FALSE]
Nobody == [request |-> [kind |-> "none"]]

Trouble == /\ trouble < MaxTrouble /\ requests + trouble < MaxRequests
           /\ trouble' = trouble + 1

\* ControlRequest::validate: the requests that get through, by what they do.
\* An update is of all sources, or of one that exists, or of one that does not.
Requests ==
    [kind: {"coreStop", "captureOff", "probe", "ruleSets"}]
    \cup [kind: {"restart", "start", "stop", "coreStart", "captureOn"},
          wait: BOOLEAN]
    \cup [kind: {"update"}, wait: BOOLEAN, known: BOOLEAN]
    \cup [kind: {"import"}, expected: Configs]
    \cup [kind: {"override"}, overrides: {1, 2}]
    \cup {apply \in [kind: {"apply"}, expected: Configs, document: Configs] :
             apply.document # apply.expected}

\* Documents and imports go with the digest that the client has read.  What
\* arrives while the worker is busy is as if it arrived when it next polls.
Send ==
    /\ mode = "poll" /\ requests + trouble < MaxRequests
    /\ \E request \in Requests :
          /\ request.kind \in {"apply", "import"} => request.expected = config
          /\ sent' = Append(sent, request)
    /\ requests' = requests + 1
    /\ UNCHANGED <<config, gen, runtime, restartAt, scene, lastUpdate,
                   pending, startPending, mode, serving, answer, asked,
                   trouble>>

(***************************************************************************)
(* serve_stream writes the answer; that it cannot be written does not end  *)
(* the worker.  true says whether what a completed request reports is so.  *)
(***************************************************************************)
Reply(ok, true) == answer' = IF ok /\ ~true THEN "untrue" ELSE "fair"

-----------------------------------------------------------------------------
\* Mutant: a stop goes ahead of the other commands but leaves them there.
MutQueued(queue, command) ==
    IF command = "stop" THEN <<"stop">> \o queue ELSE Append(queue, command)

CommandNames ==
    {"start", "stop", "probe", "update", "rebuild", "unknown", "ruleSets"}

\* What a stop leaves in the queue.
Probes(queue) ==
    [i \in 1..Cardinality({j \in DOMAIN queue : queue[j] = "probe"}) |-> "probe"]

\* queue_command
Queued(queue, command) ==
    IF command = "stop" THEN <<"stop">> \o Probes(queue)
    ELSE Append(queue, command)

\* updater.is_needed
IsNeeded(to) == gen = NoGen \/ gen.sources # to.sources

(***************************************************************************)
(* apply_config_change: the commands that a changed configuration queues.  *)
(* A change of policy alone is either of the network plan or of the        *)
(* generation.                                                             *)
(***************************************************************************)
ChangeQueues(from, to, queue) ==
    IF from = to THEN {queue}
    ELSE IF ~to.enabled THEN {Queued(queue, "stop")}
    ELSE IF to.sources # from.sources THEN {Queued(queue, "update")}
    ELSE IF ~from.enabled
    THEN {Queued(queue, IF IsNeeded(to) THEN "update" ELSE "start")}
    ELSE {Queued(queue, "rebuild"), Queued(Queued(queue, "stop"), "start")}

-----------------------------------------------------------------------------
(***************************************************************************)
(* What stop, start and update_inner do to the runtime.                    *)
(***************************************************************************)
\* stop, whether its cleanup succeeds or not
Stopped == runtime' = Down /\ startPending' = FALSE /\ restartAt' = FALSE

\* start with no runtime: it runs, there is no generation, or it has failed
\* and is tried again unless the circuit is open
Launched ==
    \/ /\ gen # NoGen
       /\ runtime' = [up |-> TRUE, capture |-> TRUE] /\ restartAt' = FALSE
    \/ runtime' = Down /\ restartAt' \in {FALSE, gen # NoGen}

Started ==
    IF runtime.up THEN UNCHANGED <<runtime, restartAt>> ELSE Launched

(***************************************************************************)
(* The outcomes of update_inner.  refresh tells update, which keeps        *)
(* last_update, from rebuild_generation; ok and published are what comes   *)
(* of it: whether it returns an error, and whether it has published.       *)
(***************************************************************************)
Status(refresh, status) ==
    lastUpdate' = IF refresh THEN status ELSE lastUpdate

\* update: the result has to be recorded in the schedule
Recorded(refresh, ok) ==
    \/ ok /\ UNCHANGED trouble
    \/ ~ok /\ refresh /\ Trouble

\* prepare fails, or the running core refuses the candidate: all stays
UpdateRefused(refresh, ok, published) ==
    /\ ~published
    /\ Status(refresh, "failed")
    /\ UNCHANGED <<gen, runtime, restartAt, startPending>>
    /\ Recorded(refresh, ok)

\* The service is disabled: the candidate is dropped and no status is kept.
Superseded(refresh, ok, published) ==
    /\ ~config.enabled /\ ~published
    /\ UNCHANGED <<gen, runtime, restartAt, startPending, lastUpdate>>
    /\ Recorded(refresh, ok)

\* The old core was stopped, the new one failed, the old is started again.
ActivationFails(refresh, ok, published) ==
    /\ config.enabled /\ ~published
    /\ Status(refresh, "failed")
    /\ startPending' = FALSE
    /\ Launched
    /\ UNCHANGED gen
    /\ Recorded(refresh, ok)

\* A cleanup fails, with or without the candidate having been run.
UpdateBreaks(refresh, ok, published) ==
    /\ config.enabled /\ ~published /\ ~ok /\ Trouble
    /\ Status(refresh, "failed")
    /\ Stopped
    /\ UNCHANGED gen

\* A commit that cannot be rolled back in the core, or a published
\* generation that it does not take over.
ReloadBreaks(refresh, overrides, ok, published) ==
    /\ config.enabled /\ runtime.up /\ ~ok /\ Trouble
    /\ Status(refresh, "failed")
    /\ gen' = IF published
              THEN [sources |-> config.sources, overrides |-> overrides] ELSE gen
    /\ UNCHANGED <<runtime, restartAt, startPending>>

\* Published and running; a reload keeps the capture as it is.
Publishes(refresh, overrides, ok, published) ==
    /\ config.enabled /\ published
    /\ Status(refresh, "succeeded")
    /\ gen' = [sources |-> config.sources, overrides |-> overrides]
    /\ \/ runtime.up /\ UNCHANGED <<runtime, restartAt, startPending>>
       \/ /\ runtime' = [up |-> TRUE, capture |-> TRUE]
          /\ restartAt' = FALSE /\ startPending' = FALSE
    /\ Recorded(refresh, ok)

UpdateInner(refresh, overrides, ok, published) ==
    \/ UpdateRefused(refresh, ok, published)
    \/ Superseded(refresh, ok, published)
    \/ ActivationFails(refresh, ok, published)
    \/ UpdateBreaks(refresh, ok, published)
    \/ ReloadBreaks(refresh, overrides, ok, published)
    \/ Publishes(refresh, overrides, ok, published)

-----------------------------------------------------------------------------
(***************************************************************************)
(* handle_commands.  An error ends it with the rest of the queue in place. *)
(***************************************************************************)
Kind == serving.request.kind

Polling == mode = "poll"
InQueue == mode = "commands"

\* The worker exits, or the request that ran the queue hears of the error.
Broken == mode' = IF Kind = "none" THEN "down" ELSE "failed"

TakeStart ==
    /\ InQueue /\ pending # <<>> /\ Head(pending) = "start"
    /\ pending' = Tail(pending) /\ startPending' = TRUE
    /\ UNCHANGED <<config, gen, runtime, restartAt, scene, lastUpdate, sent,
                   mode, serving, answer, asked, requests, trouble>>

TakeStop ==
    /\ InQueue /\ pending # <<>> /\ Head(pending) = "stop"
    /\ pending' = Tail(pending)
    /\ Stopped
    /\ \/ UNCHANGED <<mode, trouble>>
       \/ runtime.up /\ Trouble /\ Broken
    /\ UNCHANGED <<config, gen, scene, lastUpdate, sent, serving, answer,
                   asked, requests>>

TakeProbe ==
    /\ InQueue /\ pending # <<>> /\ Head(pending) = "probe"
    /\ pending' = Tail(pending)
    /\ UNCHANGED <<config, gen, runtime, restartAt, scene, lastUpdate,
                   startPending, sent, mode, serving, answer, asked,
                   requests, trouble>>

\* Update, RebuildGeneration and UpdateSource of a source that there is
TakeUpdate ==
    /\ InQueue /\ pending # <<>>
    /\ Head(pending) \in {"update", "rebuild"}
    /\ pending' = Tail(pending)
    /\ \E ok, published \in BOOLEAN :
          /\ UpdateInner(Head(pending) # "rebuild", gen.overrides, ok, published)
          /\ IF ok THEN UNCHANGED mode ELSE Broken
    /\ UNCHANGED <<config, scene, sent, serving, answer, asked, requests>>

\* UpdateSource of one that there is not: request_source_update refuses it
TakeUnknown ==
    /\ InQueue /\ pending # <<>> /\ Head(pending) = "unknown"
    /\ pending' = Tail(pending)
    /\ Broken
    /\ UNCHANGED <<config, gen, runtime, restartAt, scene, lastUpdate,
                   startPending, sent, serving, answer, asked, requests,
                   trouble>>

\* update_rule_sets: a running core is stopped for it and started again
TakeRuleSets ==
    /\ InQueue /\ pending # <<>> /\ Head(pending) = "ruleSets"
    /\ pending' = Tail(pending)
    /\ \/ UNCHANGED <<runtime, restartAt, startPending>>
       \/ runtime.up /\ Launched /\ startPending' = FALSE
    /\ UNCHANGED <<config, gen, scene, lastUpdate, sent, mode, serving,
                   answer, asked, requests, trouble>>

\* The queue is empty: handle_start, and back to the caller.
HandleStart ==
    /\ InQueue /\ pending = <<>>
    /\ IF startPending THEN Started ELSE UNCHANGED <<runtime, restartAt>>
    /\ startPending' = FALSE
    /\ mode' = IF Kind = "none" THEN "tick" ELSE "done"
    /\ UNCHANGED <<config, gen, scene, lastUpdate, pending, sent, serving,
                   answer, asked, requests, trouble>>

Commands == \/ TakeStart \/ TakeStop \/ TakeProbe \/ TakeUpdate
            \/ TakeUnknown \/ TakeRuleSets \/ HandleStart

-----------------------------------------------------------------------------
(***************************************************************************)
(* Requests.                                                               *)
(***************************************************************************)
First == Head(sent)
Asks(kinds) ==
    Polling /\ sent # <<>> /\ First.kind \in kinds
    /\ sent' = Tail(sent)

\* Answered at once, with the commands left in the queue.
Accepted(queue) ==
    /\ pending' = queue
    /\ Reply(TRUE, TRUE)
    /\ UNCHANGED <<config, mode, serving>>

\* The queue is run before the answer.
RunsQueue(queue) ==
    /\ pending' = queue
    /\ mode' = "commands"
    /\ serving' = [request |-> First, was |-> config]
    /\ UNCHANGED answer

\* WorkerControlHandler.handle: queued
Queue ==
    /\ Asks({"probe", "ruleSets"})
    /\ Accepted(Queued(pending, First.kind))
    /\ UNCHANGED <<gen, runtime, restartAt, scene, lastUpdate, startPending,
                   asked, requests, trouble>>

(***************************************************************************)
(* SubscriptionUpdate: without wait it is queued, and whether there is     *)
(* such a source is found out later; with wait it runs here, not in the    *)
(* queue.                                                                  *)
(***************************************************************************)
QueueUpdate ==
    /\ Asks({"update"}) /\ ~First.wait
    /\ Accepted(Queued(pending, IF First.known THEN "update" ELSE "unknown"))
    /\ UNCHANGED <<gen, runtime, restartAt, scene, lastUpdate, startPending,
                   asked, requests, trouble>>

\* Mutant: an update that did not fail is taken to have completed.
MutCompleted(ok) == ok

\* How update and import tell that they have completed.
Completed(ok) == ok /\ lastUpdate' = "succeeded"

\* An update that was waited for, and its answer
AnsweredUpdate ==
    \E ok, published \in BOOLEAN :
        /\ UpdateInner(TRUE, gen.overrides, ok, published)
        /\ Reply(Completed(ok), published \/ ~config.enabled)

Update ==
    /\ Asks({"update"}) /\ First.wait
    /\ IF ~First.known
       THEN /\ Reply(FALSE, TRUE)
            /\ UNCHANGED <<gen, runtime, restartAt, startPending, lastUpdate,
                           trouble>>
       ELSE AnsweredUpdate
    /\ UNCHANGED <<config, scene, pending, mode, serving, asked, requests>>

\* SubscriptionImportApply, for the configuration that was previewed
Import ==
    /\ Asks({"import"})
    /\ IF First.expected # config
       THEN /\ Reply(FALSE, TRUE)
            /\ UNCHANGED <<gen, runtime, restartAt, startPending, lastUpdate,
                           trouble>>
       ELSE AnsweredUpdate
    /\ UNCHANGED <<config, scene, pending, mode, serving, asked, requests>>

(***************************************************************************)
(* NodeOverrideApply and Remove: a node of the running generation; the     *)
(* overrides are taken to be applied when the updater holds them.          *)
(***************************************************************************)
AnsweredOverride ==
    LET over == First.overrides IN
    \E ok, published \in BOOLEAN :
        /\ UpdateInner(FALSE, over, ok, published)
        /\ Reply(ok /\ gen'.overrides = over, gen'.overrides = over)

Override ==
    /\ Asks({"override"})
    /\ IF ~runtime.up \/ gen.overrides = First.overrides
       THEN /\ Reply(runtime.up, TRUE)
            /\ UNCHANGED <<gen, runtime, restartAt, startPending, lastUpdate,
                           trouble>>
       ELSE AnsweredOverride
    /\ UNCHANGED <<config, scene, pending, mode, serving, asked, requests>>

-----------------------------------------------------------------------------
\* ServiceRestart, whatever the configuration says
ServiceRestart ==
    /\ Asks({"restart"})
    /\ LET queue == Queued(Queued(pending, "stop"), "start")
       IN IF First.wait THEN RunsQueue(queue) /\ UNCHANGED config
          ELSE Accepted(queue)
    /\ asked' = TRUE
    /\ UNCHANGED <<gen, runtime, restartAt, scene, lastUpdate, startPending,
                   requests, trouble>>

\* ServiceStart and ServiceStop: the configuration is changed first
ServiceSwitch ==
    /\ Asks({"start", "stop"})
    /\ LET to == [config EXCEPT !.enabled = First.kind = "start"]
       IN \E queue \in IF to = config
                       THEN {Queued(pending, First.kind)}
                       ELSE ChangeQueues(config, to, pending) :
            /\ config' = to
            /\ scene' = IF to = config THEN scene ELSE "none"
            /\ IF First.wait THEN RunsQueue(queue)
               ELSE /\ pending' = queue
                    /\ Reply(TRUE, TRUE)
                    /\ UNCHANGED <<mode, serving>>
            /\ asked' = (asked /\ to.enabled)
    /\ UNCHANGED <<gen, runtime, restartAt, lastUpdate, startPending,
                   requests, trouble>>

\* ConfigApply and ConfigMutate: refused if the configuration has moved on
ConfigApply ==
    /\ Asks({"apply"})
    /\ IF First.expected # config
       THEN /\ Reply(FALSE, TRUE)
            /\ UNCHANGED <<config, scene, pending, mode, serving, asked>>
       ELSE /\ config' = First.document
            /\ scene' = "none"
            /\ asked' = (asked /\ config'.enabled)
            /\ \E queue \in ChangeQueues(config, config', pending) :
                  RunsQueue(queue)
    /\ UNCHANGED <<gen, runtime, restartAt, lastUpdate, startPending,
                   requests, trouble>>

-----------------------------------------------------------------------------
(***************************************************************************)
(* handle_lifecycle_request: the core and the capture, past the            *)
(* configuration.                                                          *)
(***************************************************************************)
CoreStart ==
    /\ Asks({"coreStart"})
    /\ RunsQueue(Queued(pending, "start"))
    /\ asked' = TRUE
    /\ UNCHANGED <<config, gen, runtime, restartAt, scene, lastUpdate,
                   startPending, requests, trouble>>

CoreStop ==
    /\ Asks({"coreStop"})
    /\ Stopped
    /\ \/ Reply(TRUE, TRUE) /\ UNCHANGED trouble
       \/ runtime.up /\ Reply(FALSE, TRUE) /\ Trouble
    /\ UNCHANGED <<config, gen, scene, lastUpdate, pending, mode, serving,
                   asked, requests>>

CaptureOff ==
    /\ Asks({"captureOff"})
    /\ \/ runtime' = [runtime EXCEPT !.capture = FALSE]
          /\ Reply(TRUE, TRUE) /\ UNCHANGED trouble
       \/ runtime.up /\ Reply(FALSE, TRUE) /\ Trouble /\ UNCHANGED runtime
    /\ UNCHANGED <<config, gen, restartAt, scene, lastUpdate, pending,
                   startPending, mode, serving, asked, requests>>

\* enable_capture, and its answer
Captures ==
    \/ /\ runtime.up /\ runtime' = [runtime EXCEPT !.capture = TRUE]
       /\ Reply(TRUE, TRUE) /\ UNCHANGED trouble
    \/ /\ runtime.up /\ Trouble /\ Reply(FALSE, TRUE)
       /\ UNCHANGED runtime
    \/ /\ ~runtime.up /\ Reply(FALSE, TRUE)
       /\ UNCHANGED <<runtime, trouble>>

CaptureOn ==
    /\ Asks({"captureOn"})
    /\ IF runtime.up
       THEN Captures /\ UNCHANGED <<config, pending, mode, serving, asked>>
       ELSE /\ asked' = TRUE
            /\ IF First.wait
               THEN RunsQueue(Queued(pending, "start")) /\ UNCHANGED config
               ELSE Accepted(Queued(pending, "start"))
            /\ UNCHANGED <<runtime, trouble>>
    /\ UNCHANGED <<gen, restartAt, scene, lastUpdate, startPending, requests>>

-----------------------------------------------------------------------------
(***************************************************************************)
(* The end of a request that has run the queue.                            *)
(***************************************************************************)
\* What a request that reports completion has brought about.
Holds ==
    CASE Kind = "stop" -> ~runtime.up /\ ~restartAt
      [] Kind = "apply" -> config = serving.request.document
      [] Kind = "coreStart" /\ serving.request.wait -> runtime.up
      [] OTHER -> TRUE

EndRequest == mode' = "poll" /\ serving' = Nobody

Complete ==
    /\ mode = "done"
    /\ Kind # "captureOn"
    /\ LET ok == Kind = "coreStart" /\ serving.request.wait => runtime.up
       IN Reply(ok, Holds)
    /\ EndRequest
    /\ UNCHANGED <<config, gen, runtime, restartAt, scene, lastUpdate,
                   pending, startPending, sent, asked, requests, trouble>>

(***************************************************************************)
(* With an error, the configuration goes back to what it was, and the      *)
(* commands for that are left to the next turn.                            *)
(***************************************************************************)
RolledBack ==
    IF Kind \in {"start", "stop", "apply"}
    THEN /\ config' = serving.was
         /\ scene' = IF serving.was = config THEN scene ELSE "none"
         /\ asked' = (asked /\ config'.enabled)
         /\ \E queue \in ChangeQueues(config, serving.was, pending) :
                pending' = queue
    ELSE UNCHANGED <<config, scene, pending, asked>>

\* CoreStart and CaptureEnable go on to handle_start in spite of an error.
StartsAnyway == Kind \in {"coreStart", "captureOn"} /\ serving.request.wait

Fail ==
    /\ mode = "failed"
    /\ ~StartsAnyway
    /\ RolledBack
    /\ Reply(FALSE, TRUE)
    /\ EndRequest
    /\ UNCHANGED <<gen, runtime, restartAt, lastUpdate, startPending, sent,
                   requests, trouble>>

StartAnyway ==
    /\ mode = "failed"
    /\ StartsAnyway
    /\ IF startPending THEN Started ELSE UNCHANGED <<runtime, restartAt>>
    /\ startPending' = FALSE
    /\ mode' = "done"
    /\ UNCHANGED <<config, gen, scene, lastUpdate, pending, sent, serving,
                   answer, asked, requests, trouble>>

CaptureStarted ==
    /\ mode = "done" /\ Kind = "captureOn"
    /\ Captures
    /\ EndRequest
    /\ UNCHANGED <<config, gen, restartAt, scene, lastUpdate, pending,
                   startPending, sent, asked, requests>>

Handle == \/ Queue \/ QueueUpdate \/ Update \/ Import \/ Override
          \/ ServiceRestart \/ ServiceSwitch \/ ConfigApply
          \/ CoreStart \/ CoreStop \/ CaptureOff \/ CaptureOn
          \/ Complete \/ Fail \/ StartAnyway \/ CaptureStarted

-----------------------------------------------------------------------------
(***************************************************************************)
(* reconcile_wifi_scene: decision is what the scene in reach says, if      *)
(* there is one; only a change of it has an effect.                        *)
(***************************************************************************)
Desired(decision) == config.enabled /\ decision # "off"

SceneQueue(desired) ==
    CASE desired /\ ~runtime.up /\ ~startPending -> Queued(pending, "start")
      [] ~desired /\ (runtime.up \/ startPending) -> Queued(pending, "stop")
      [] OTHER -> pending

(***************************************************************************)
(* run_worker_service: when no connection waits, run_ready has its turn.   *)
(* The schedule may have an update due, and the wifi scene may change.     *)
(***************************************************************************)
RunReady ==
    /\ Polling /\ sent = <<>>
    /\ mode' = "commands"
    /\ UNCHANGED <<config, gen, runtime, restartAt, lastUpdate, sent, serving,
                   answer, asked, requests, trouble>>

NothingDue == RunReady /\ UNCHANGED <<pending, scene, startPending>>

UpdateDue ==
    /\ RunReady /\ \A i \in DOMAIN pending : pending[i] # "update"
    /\ pending' = Queued(pending, "update")
    /\ UNCHANGED <<scene, startPending>>

SceneChanges ==
    \E decision \in {"none", "on", "off"} :
        LET desired == Desired(decision) IN
        /\ RunReady
        /\ scene' = IF decision = "none" THEN "none"
                    ELSE IF desired THEN "on" ELSE "off"
        /\ scene' # scene
        /\ pending' = SceneQueue(desired)
        /\ startPending' = (startPending /\ desired)

\* tick_runtime, at the end of run_ready
Tick(outcome) ==
    /\ mode = "tick"
    /\ mode' = outcome
    /\ UNCHANGED <<config, gen, scene, lastUpdate, pending, startPending,
                   sent, serving, answer, asked, requests>>

Quiet == Tick("poll") /\ UNCHANGED <<runtime, restartAt, trouble>>

\* The core has ended and will be started again, or not
CoreExits ==
    /\ runtime.up /\ Trouble /\ Tick("poll")
    /\ runtime' = Down /\ restartAt' \in BOOLEAN

TickFails ==
    runtime.up /\ Trouble /\ Tick("down") /\ UNCHANGED <<runtime, restartAt>>

RestartDue ==
    ~runtime.up /\ restartAt /\ Tick("poll") /\ Started /\ UNCHANGED trouble

(***************************************************************************)
(* The worker has ended, and its supervisor starts another one: the queue  *)
(* and the connections are gone (with_configuration).                      *)
(***************************************************************************)
Relaunch ==
    /\ mode = "down"
    /\ mode' = "poll"
    /\ runtime' = Down /\ restartAt' = FALSE /\ scene' = "none"
    /\ asked' = FALSE
    /\ pending' = IF config.enabled /\ IsNeeded(config) THEN <<"update">>
                  ELSE <<>>
    /\ startPending' = (config.enabled /\ ~IsNeeded(config))
    /\ lastUpdate' = "never"
    /\ sent' = <<>>
    /\ UNCHANGED <<config, gen, serving, answer, requests, trouble>>

InitAt(initial) ==
    /\ config = initial /\ gen = NoGen /\ runtime = Down
    /\ restartAt = FALSE /\ scene = "none" /\ lastUpdate = "never"
    /\ pending = (IF initial.enabled THEN <<"update">> ELSE <<>>)
    /\ startPending = FALSE
    /\ sent = <<>> /\ mode = "poll" /\ serving = Nobody
    /\ answer = "fair"
    /\ asked = FALSE /\ requests = 0 /\ trouble = 0

Init ==
    \E enabled \in BOOLEAN :
        InitAt([enabled |-> enabled, sources |-> 1, policy |-> 1])

Next == \/ Send \/ Commands \/ Handle
        \/ NothingDue \/ UpdateDue \/ SceneChanges
        \/ Quiet \/ CoreExits \/ TickFails \/ RestartDue \/ Relaunch

Spec == Init /\ [][Next]_controlVars

-----------------------------------------------------------------------------
\* The state has its type; capture needs a core, and a queue that is run for
\* nobody cannot end as somebody's.
TypeOK ==
    /\ config \in Configs
    /\ runtime \in [up: BOOLEAN, capture: BOOLEAN]
    /\ runtime.capture => runtime.up
    /\ restartAt \in BOOLEAN /\ startPending \in BOOLEAN /\ asked \in BOOLEAN
    /\ pending \in Seq(CommandNames)
    /\ sent \in Seq(Requests)
    /\ mode \in {"poll", "commands", "done", "failed", "tick", "down"}
    /\ mode \in {"done", "failed"} => Kind # "none"

(***************************************************************************)
(* A stop is obeyed: when the configuration has the service disabled, the  *)
(* worker, once its queue is empty, neither runs the core nor has a        *)
(* restart in store, unless the core was asked for past the configuration  *)
(* (ServiceRestart, CoreStart, CaptureEnable).  Nothing that was queued,   *)
(* scheduled or being waited for when the stop came brings it back.        *)
(***************************************************************************)
StopIsObeyed ==
    Polling /\ pending = <<>> /\ ~startPending /\ ~config.enabled /\ ~asked
        => ~runtime.up /\ ~restartAt

(***************************************************************************)
(* A request that is answered as completed has brought about what it was   *)
(* for, whatever else was in the queue: a stop has stopped, a core that    *)
(* was waited for runs, a document is in force, an update has published    *)
(* (or the service is disabled), an override is part of the generation.    *)
(***************************************************************************)
CompletedIsTrue == answer = "fair"
=============================================================================
