------------------------------- MODULE MCWorker -------------------------------
(***************************************************************************)
(* The worker on its own, part by part: the runtime (WorkerRuntime), the   *)
(* update schedules (Scheduler) and the file and the registry of the       *)
(* configuration (ConfigRuntime).                                          *)
(*                                                                         *)
(* A behaviour is one of the part chosen in the initial state; the others  *)
(* are parked where none of their fair steps is enabled.                   *)
(***************************************************************************)
EXTENDS MCWorkerRuntime

VARIABLE part

\* Scheduler: two sources and one resource.
VARIABLES now, auto, due, store, mem, floor, pc, job, awaited, todo, result,
          retryIn, saved, dropped, upsets

scheduleVars == <<now, auto, due, store, mem, floor, pc, job, awaited, todo,
                  result, retryIn, saved, dropped, upsets>>

S == INSTANCE Scheduler WITH
         NSources <- 2, NResources <- 1, Interval <- 2, Backoff <- 1,
         MaxBackoff <- 2, MaxFailures <- 2, Cooldown <- 1, MaxTime <- 3,
         MaxUpsets <- 1, active <- due, pending <- awaited

ASSUME SchedulePolicy == S!PolicyAssumption

\* ConfigRuntime: two sources; the same switched off; the second moved and
\* with a new name, or with a new URL; the first gone and the second renamed,
\* after one that has its name and a new URL.
Src(name, url) == [name |-> name, url |-> url]
SourcesOf ==
    [pair |-> <<Src(1, 1), Src(2, 2)>>, off |-> <<Src(1, 1), Src(2, 2)>>,
     moved |-> <<Src(3, 2), Src(1, 1)>>, rotated |-> <<Src(1, 1), Src(2, 3)>>,
     taken |-> <<Src(2, 3), Src(3, 2)>>]

VARIABLES disk, entry, registry, current, accepted, rejected, stray, missed,
          watch, queued, dirty, stage, work, events

configVars == <<disk, entry, registry, current, accepted, rejected, stray,
                missed, watch, queued, dirty, stage, work, events>>

C == INSTANCE ConfigRuntime WITH
         Docs <- DOMAIN SourcesOf, Bad <- "bad", Shipped <- "pair",
         MaxEvents <- 3

-----------------------------------------------------------------------------
RuntimeParked == Init /\ mode = "tun" /\ hazards = {} /\ ~stored /\ ~enabled

WorkerInit ==
    \/ part = "runtime" /\ Init /\ S!InitAt("parked") /\ C!InitAt("parked")
    \/ part = "schedule" /\ RuntimeParked /\ S!Init /\ C!InitAt("parked")
    \/ part = "config" /\ RuntimeParked /\ S!InitAt("parked") /\ C!Init

RuntimeNext ==
    part = "runtime" /\ Next /\ UNCHANGED <<part, scheduleVars, configVars>>
ScheduleNext ==
    part = "schedule" /\ S!Next /\ UNCHANGED <<part, vars, configVars>>
ConfigNext ==
    part = "config" /\ C!Next /\ UNCHANGED <<part, vars, scheduleVars>>

WorkerNext == RuntimeNext \/ ScheduleNext \/ ConfigNext

workerVars == <<part, vars, scheduleVars, configVars>>

RuntimeFairness ==
    /\ WF_vars(part = "runtime" /\ HandleStart)
    /\ WF_vars(part = "runtime" /\ CoreExited)
    /\ WF_vars(part = "runtime" /\ Repair)
    /\ WF_vars(part = "runtime" /\ RestartDue)
    /\ WF_vars(part = "runtime" /\ Relaunch)
    /\ WF_vars(part = "runtime" /\ Tick)

WorkerSpec ==
    /\ WorkerInit
    /\ [][WorkerNext]_workerVars
    /\ RuntimeFairness
    /\ WF_scheduleVars(part = "schedule" /\ S!Worker)
    /\ WF_scheduleVars(part = "schedule" /\ S!Tick)
    /\ WF_configVars(part = "config" /\ C!Steps)

-----------------------------------------------------------------------------
\* The state of each part has its type.
PartsTypeOK ==
    /\ part = "runtime" => TypeOK
    /\ part = "schedule" => S!TypeOK
    /\ part = "config" => C!TypeOK

(***************************************************************************)
(* Scheduler: no source is updated again before its shortest delay has     *)
(* passed, and the last observation in the database never goes back.       *)
(***************************************************************************)
NotTooOften == [][S!SpacedOut /\ S!LaterSeen]_scheduleVars

(***************************************************************************)
(* ConfigRuntime: a source that keeps its URL keeps its identity, and a    *)
(* worker at rest uses the identities its registry has on disk, unless a   *)
(* write of the registry failed after it had replaced the file.            *)
(***************************************************************************)
IdentitiesAreKept ==
    [](C!RegistryFollows) /\ [][C!SameUrlSameId]_accepted

(***************************************************************************)
(* No active source stays due for ever unless its update was dropped       *)
(* (Scheduler), and the worker catches up with the file that was saved     *)
(* last (ConfigRuntime).                                                   *)
(***************************************************************************)
ServicesKeepUp ==
    /\ \A k \in S!Sources : []<>(~S!Overdue(k) \/ dropped)
    /\ []<>(part # "config" \/ C!Settled \/ missed)
=============================================================================
