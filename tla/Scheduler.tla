------------------------------ MODULE Scheduler ------------------------------
(***************************************************************************)
(* The update schedules of the worker (scheduler.rs, auto_update.rs): when *)
(* each subscription source, the core's version and the rule sets are      *)
(* looked at again.  Deadlines are wall-clock times kept in the database,  *)
(* so they survive the worker; the wall clock may be set back, a save may  *)
(* fail and the worker may be killed between any two steps.                *)
(*                                                                         *)
(* There is one engine for the sources (engine 0) and one per resource.    *)
(* Each loads every record of the database when the worker starts, also    *)
(* those of the others, which it only compares with the clock.             *)
(***************************************************************************)
EXTENDS Integers, FiniteSetsExt

CONSTANTS
    NSources,       \* the sources are 1..NSources
    NResources,     \* the resources follow them
    Interval,       \* SchedulePolicy, in hours
    Backoff,
    MaxBackoff,
    MaxFailures,    \* MAX_FAILURES
    Cooldown,       \* the hour a resource waits after a schedule error
    MaxTime,        \* bound on the wall clock
    MaxUpsets       \* bound on failed saves, kills, backward steps of the
                    \* now, configuration changes and commands

Sources == 1..NSources
Resources == (NSources + 1)..(NSources + NResources)
Keys == Sources \cup Resources
Engines == {0} \cup Resources

\* SchedulePolicy::new, and what the constants are.
PolicyAssumption ==
    /\ NSources \in Nat /\ NResources \in Nat
    /\ Interval \in Nat \ {0} /\ Backoff \in Nat \ {0}
    /\ MaxBackoff \in Nat /\ MaxBackoff >= Backoff
    /\ MaxFailures \in Nat \ {0} /\ Cooldown \in Nat
    /\ MaxTime \in Nat /\ MaxUpsets \in Nat

VARIABLES
    now,        \* the wall clock
    auto,       \* subscriptions.auto_update of the configuration
    active,     \* its active sources
    store,      \* the schedule table
    mem,        \* SchedulerEngine.records: the records of each engine's keys
    floor,      \* and the latest observation among its other records, or -1
    pc,         \* where the worker is
    job,        \* the engine it works for, and whether a command asked for it
    pending,    \* PersistentUpdateSchedule.pending
    todo,       \* keys whose result is not recorded yet
    result,     \* whether the run failed, and the time it is recorded with
    retryIn,    \* time to *_schedule_retry_at, of each resource
    saved,      \* history: when a result of each key was last saved
    dropped,    \* history: were the keys of pending dropped from the queue?
    upsets

config == <<auto, active>>
run == <<pc, job, pending, todo, result>>
records == <<mem, floor>>
history == <<saved, dropped>>
vars == <<now, config, run, store, records, retryIn, history, upsets>>

\* ScheduleRecord; a key without one has NoRecord.
Rec == [next : -1..(MaxTime + Interval + MaxBackoff + 1),
        fails : 0..MaxFailures, seen : 0..MaxTime]
NoRecord == [next |-> -1, fails |-> 0, seen |-> 0]
Empty == [k \in Keys |-> NoRecord]
Idle == [engine |-> 0, manual |-> FALSE]
NoResult == [failed |-> FALSE, at |-> 0]

InitAt(place) ==
    /\ now = 0
    /\ auto = TRUE /\ active = Sources
    /\ store = Empty
    /\ mem = Empty
    /\ floor = [e \in Engines |-> -1]
    /\ pc = place /\ job = Idle
    /\ pending = {} /\ todo = {}
    /\ result = NoResult
    /\ retryIn = [r \in Resources |-> 0]
    /\ saved = [k \in Keys |-> -1] /\ dropped = FALSE
    /\ upsets = 0

Init == InitAt("down")

Upset(n) == upsets + n =< MaxUpsets /\ upsets' = upsets + n

-----------------------------------------------------------------------------
(***************************************************************************)
(* Start of a worker.  ensure saves a record that is due at once for a key *)
(* that has none and stops at the first save that fails.                   *)
(***************************************************************************)
FirstDue == [next |-> now, fails |-> 0, seen |-> now]

Missing(recs, keys) == {k \in keys : recs[k] = NoRecord}

Prefixes(keys) ==
    {p \in SUBSET keys : \A a \in p, b \in keys \ p : a < b}

Ensured(recs, keys) ==
    [k \in Keys |-> IF k \in keys THEN FirstDue ELSE recs[k]]

EngineOf(k) == IF k \in Sources THEN 0 ELSE k
Own(e) == {k \in Keys : EngineOf(k) = e}
Others(e) == Keys \ Own(e)

LatestSeen(recs, keys) ==
    Max({-1} \cup {recs[k].seen : k \in {j \in keys : recs[j] # NoRecord}})

\* The engines are loaded in turn; a resource whose record cannot be saved ends the
\* start of the worker.
Load ==
    /\ pc = "down"
    /\ \E done \in Prefixes(Missing(store, Resources)) :
         /\ store' = Ensured(store, done)
         /\ IF done = Missing(store, Resources)
            THEN /\ mem' = store'
                 /\ floor' = [e \in Engines |->
                      LatestSeen(Ensured(store, {r \in done : r < e}), Others(e))]
                 /\ pc' = "configuring"
                 /\ UNCHANGED upsets
            ELSE Upset(1) /\ UNCHANGED <<records, pc>>
    /\ UNCHANGED <<now, config, job, pending, todo, result, retryIn, history>>

\* configure: its error is dropped at the start, and only published later.
Configured(sources, changes) ==
    /\ \E done \in Prefixes(Missing(mem, sources)) :
         /\ store' = Ensured(store, done)
         /\ mem' = Ensured(mem, done)
         /\ IF done = Missing(mem, sources)
            THEN Upset(changes)
            ELSE Upset(changes + 1)
    /\ pending' = {} /\ dropped' = FALSE
    /\ pc' = "idle"
    /\ UNCHANGED <<now, job, todo, result, floor, retryIn, saved>>

ConfigureAtStart ==
    /\ pc = "configuring"
    /\ Configured(active, 0)
    /\ UNCHANGED config

ConfigChange ==
    /\ pc = "idle"
    /\ auto' \in BOOLEAN
    /\ active' \in SUBSET Sources
    /\ Configured(active', 1)

-----------------------------------------------------------------------------
(***************************************************************************)
(* The worker exits when the source schedule fails; the supervisor starts  *)
(* it again.                                                               *)
(***************************************************************************)
Exit ==
    /\ pc' = "down" /\ job' = Idle
    /\ pending' = {} /\ dropped' = FALSE /\ todo' = {}
    /\ result' = NoResult
    /\ mem' = Empty
    /\ floor' = [e \in Engines |-> -1]
    /\ retryIn' = [r \in Resources |-> 0]

Kill ==
    /\ pc # "down"
    /\ Upset(1)
    /\ Exit
    /\ UNCHANGED <<now, config, store, saved>>

-----------------------------------------------------------------------------
(***************************************************************************)
(* take_due.  An engine refuses a clock behind any of its records, also    *)
(* behind those it does not schedule.                                      *)
(***************************************************************************)
Records(e) == {k \in Own(e) : mem[k] # NoRecord}
Regressed(e) == now < floor[e] \/ \E k \in Records(e) : now < mem[k].seen

Observe(e) ==
    /\ mem' = [k \in Keys |->
                 IF k \in Records(e) THEN [mem[k] EXCEPT !.seen = now] ELSE mem[k]]
    /\ floor' = [floor EXCEPT ![e] = IF @ = -1 THEN -1 ELSE now]

Due(e) ==
    {k \in Records(e) : (e = 0 => k \in active) /\ now >= mem[k].next}

CanTakeDue(e) ==
    /\ pc = "idle"
    /\ IF e = 0 THEN auto /\ active # {} /\ pending = {} ELSE retryIn[e] = 0

SourcesRegressed ==
    /\ CanTakeDue(0)
    /\ Regressed(0)
    /\ Exit
    /\ UNCHANGED <<now, config, store, saved, upsets>>

\* run_ready queues an Update command for the sources that are due.
TakeDueSources ==
    /\ CanTakeDue(0)
    /\ ~Regressed(0)
    /\ Observe(0)
    /\ pending' = Due(0)
    /\ pc' = IF Due(0) = {} THEN "idle" ELSE "queued"
    /\ UNCHANGED <<now, config, job, todo, result, store, retryIn, history,
                   upsets>>

\* A Wi-Fi scene that stops the service before the command is taken: Stop
\* clears the queue.
SceneStops ==
    /\ pc = "queued"
    /\ Upset(1)
    /\ pc' = "idle" /\ dropped' = TRUE
    /\ UNCHANGED <<now, config, job, pending, todo, result, store, records,
                   retryIn, saved>>

TakeUpdate ==
    /\ pc = "queued"
    /\ pc' = "running" /\ job' = Idle
    /\ UNCHANGED <<now, config, pending, todo, result, store, records, retryIn,
                   history, upsets>>

ResourceRegressed(r) ==
    /\ CanTakeDue(r)
    /\ Regressed(r)
    /\ retryIn' = [retryIn EXCEPT ![r] = Cooldown]
    /\ UNCHANGED <<now, config, run, store, records, history, upsets>>

TakeDueResource(r) ==
    /\ CanTakeDue(r)
    /\ ~Regressed(r)
    /\ Observe(r)
    /\ IF Due(r) = {}
       THEN UNCHANGED <<pc, job>>
       ELSE pc' = "running" /\ job' = [engine |-> r, manual |-> FALSE]
    /\ UNCHANGED <<now, config, pending, todo, result, store, retryIn,
                   history, upsets>>

\* The commands subscription.update, core.version_check and ruleset.update.
Command(e) ==
    /\ pc = "idle"
    /\ Upset(1)
    /\ pc' = "running" /\ job' = [engine |-> e, manual |-> TRUE]
    /\ UNCHANGED <<now, config, pending, todo, result, store, records,
                   retryIn, history>>

-----------------------------------------------------------------------------
(***************************************************************************)
(* record_result: the keys are saved one by one with the time at which it  *)
(* began.                                                                  *)
(***************************************************************************)
JobKeys == IF job.engine = 0 THEN pending ELSE {job.engine}

Finish ==
    /\ pc = "running"
    /\ \E failed \in BOOLEAN : result' = [failed |-> failed, at |-> now]
    /\ todo' = JobKeys
    /\ IF job.engine = 0
       THEN pending' = {} /\ dropped' = FALSE
       ELSE UNCHANGED <<pending, dropped>>
    /\ pc' = "recording"
    /\ UNCHANGED <<now, config, job, store, records, retryIn, saved, upsets>>

\* stable_jitter: a fixed offset of the key, smaller than the first backoff; only
\* its differences matter, so the smallest is taken as zero.
Jitter(k) == k % 2

Power(n) == 2 ^ Min({n, 6})

\* Mutant: the first failure has no delay.
MutDelay(rec, k) ==
    LET fails == IF result.failed
                 THEN Min({rec.fails + 1, MaxFailures}) ELSE 0
        base == IF result.failed
                THEN Min({Backoff * (Power(fails - 1) - 1), MaxBackoff})
                ELSE Interval
    IN  [next |-> result.at + base + Jitter(k), fails |-> fails,
         seen |-> result.at]

Marked(rec, k) ==
    LET fails == IF result.failed
                 THEN Min({rec.fails + 1, MaxFailures}) ELSE 0
        base == IF result.failed
                THEN Min({Backoff * Power(fails - 1), MaxBackoff})
                ELSE Interval
    IN  [next |-> result.at + base + Jitter(k), fails |-> fails,
         seen |-> result.at]

Markable(k) ==
    /\ mem[k] # NoRecord
    /\ result.at >= mem[k].seen

\* The keys are taken in their order.
IsNext(k) == \A j \in todo : k =< j

RecordKey ==
    /\ pc = "recording"
    /\ \E k \in todo :
         /\ IsNext(k) /\ Markable(k)
         /\ mem' = [mem EXCEPT ![k] = Marked(@, k)]
         /\ store' = [store EXCEPT ![k] = Marked(mem[k], k)]
         /\ saved' = [saved EXCEPT ![k] = result.at]
         /\ todo' = todo \ {k}
    /\ UNCHANGED <<now, config, pc, job, pending, dropped, result, floor, retryIn,
                   upsets>>

\* An error ends the worker for the sources and is waited out for a resource,
\* unless a command asked for it.  What was not saved stays marked in memory.
RecordFails ==
    /\ pc = "recording"
    /\ \E k \in todo :
         /\ IsNext(k)
         /\ \/ ~Markable(k) /\ UNCHANGED upsets
            \/ Markable(k) /\ Upset(1)
         /\ IF job.engine = 0
            THEN Exit
            ELSE /\ mem' = IF Markable(k)
                           THEN [mem EXCEPT ![k] = Marked(@, k)] ELSE mem
                 /\ retryIn' = IF job.manual THEN retryIn
                               ELSE [retryIn EXCEPT ![job.engine] = Cooldown]
                 /\ pc' = "idle" /\ job' = Idle /\ todo' = {}
                 /\ result' = NoResult
                 /\ UNCHANGED <<pending, dropped, floor>>
    /\ UNCHANGED <<now, config, store, saved>>

Recorded ==
    /\ pc = "recording"
    /\ todo = {}
    /\ pc' = "idle" /\ job' = Idle /\ result' = NoResult
    /\ UNCHANGED <<now, config, pending, todo, store, records, retryIn, history,
                   upsets>>

-----------------------------------------------------------------------------
\* The loop turns at least once a second (MAX_IDLE_POLL) and a run has timeouts
\* of seconds; the clock advances here by hours.  When it does, a worker that
\* is up has looked at its schedules and is idle again.
Polled ==
    \/ pc = "down"
    \/ /\ pc = "idle"
       /\ \A e \in Engines :
            CanTakeDue(e) =>
              /\ \A k \in Records(e) : mem[k].seen = now /\ k \notin Due(e)
              /\ floor[e] \in {-1, now}

Tick ==
    /\ now < MaxTime
    /\ Polled
    /\ now' = now + 1
    /\ retryIn' = [r \in Resources |-> Max({retryIn[r] - 1, 0})]
    /\ UNCHANGED <<config, run, store, records, history, upsets>>

StepBack ==
    /\ Upset(1)
    /\ now' \in 0..(now - 1)
    /\ UNCHANGED <<config, run, store, records, retryIn, history>>

Worker ==
    \/ Load \/ ConfigureAtStart
    \/ SourcesRegressed \/ TakeDueSources \/ TakeUpdate
    \/ \E r \in Resources : ResourceRegressed(r) \/ TakeDueResource(r)
    \/ Finish \/ RecordKey \/ RecordFails \/ Recorded

Next ==
    \/ Worker
    \/ SceneStops \/ ConfigChange \/ Kill
    \/ \E e \in Engines : Command(e)
    \/ Tick \/ StepBack

(***************************************************************************)
(* The loop of the worker runs and the supervisor restarts it.  Time       *)
(* passes.                                                                 *)
(***************************************************************************)
Fairness == WF_vars(Worker) /\ WF_vars(Tick)

Spec == Init /\ [][Next]_vars /\ Fairness

-----------------------------------------------------------------------------
\* Clock, records and the worker's position have their types.
TypeOK ==
    /\ now \in 0..MaxTime
    /\ auto \in BOOLEAN /\ active \subseteq Sources
    /\ store \in [Keys -> Rec]
    /\ mem \in [Keys -> Rec]
    /\ floor \in [Engines -> -1..MaxTime]
    /\ pc \in {"down", "configuring", "idle", "queued", "running", "recording"}
    /\ job \in [engine : Engines, manual : BOOLEAN]
    /\ pending \subseteq Sources /\ todo \subseteq Keys
    /\ result \in [failed : BOOLEAN, at : 0..MaxTime]
    /\ retryIn \in [Resources -> 0..Cooldown]

(***************************************************************************)
(* SchedulerEngine::due and ensure: a source is not updated again by the   *)
(* schedule before its shortest delay after the last recorded result has   *)
(* passed, whatever restarts, reconfigurations and clock changes come in   *)
(* between.                                                                *)
(***************************************************************************)
SpacedOut ==
    \A k \in pending' \ pending :
      saved[k] >= 0 => now >= saved[k] + Min({Backoff, Interval}) + Jitter(k)

NotTooOften == [][SpacedOut]_vars

(***************************************************************************)
(* SchedulerEngine::update: the last observation kept in the database      *)
(* never goes back, although the clock may.                                *)
(***************************************************************************)
LaterSeen == \A k \in Keys : store'[k].seen >= store[k].seen

ObservationNeverGoesBack == [][LaterSeen]_vars

Overdue(k) ==
    /\ auto /\ k \in active
    /\ store[k] # NoRecord /\ now >= store[k].next

(***************************************************************************)
(* take_due, record_result and the relaunch of a worker that exited        *)
(* because of the clock or a failed save: no active source with a record   *)
(* stays due for ever, unless its update was dropped from the queue.       *)
(***************************************************************************)
SourcesAreServed == \A k \in Sources : []<>(~Overdue(k) \/ dropped)

=============================================================================
