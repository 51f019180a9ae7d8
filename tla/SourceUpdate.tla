---------------------------- MODULE SourceUpdate ----------------------------
(***************************************************************************)
(* The building and publishing of a generation from the configured sources *)
(* (source_update.rs, nethop-subscription's fetch.rs, manual_source.rs,    *)
(* node_override.rs and the source status of storage.rs): the bodies are   *)
(* fetched or taken from the last known good ones, converted, checked and  *)
(* sealed; a commit writes the manual source or the overrides it brings    *)
(* and moves the pointer.                                                  *)
(*                                                                         *)
(* The worker is one thread, so a request runs to its end before the next; *)
(* a crash may fall between any two steps that touch the disk.  The        *)
(* service is enabled throughout (SubscriptionTransaction has the updates  *)
(* that are superseded).                                                   *)
(***************************************************************************)
EXTENDS CandidatePool

CONSTANTS
    Sources,    \* the ids of the sources, in the order of their numbers
    Configs,    \* source configurations: [mode, active, identity, excluded]
    Served,     \* Served[s][i]: the bodies URL i of source s may serve
    Endpoints,  \* Endpoints[s][i]: that URL, which is 1, and its mirrors
    Imports,    \* bodies a user may import
    Edits,      \* sets of nodes a user may override
    MaxFaults   \* bound on crashes and failing writes

VARIABLES
    cfg,        \* ConfiguredSourceUpdater.config
    mem,        \* HttpSourceBodyFetcher.caches
    disk,       \* the body files of the cache directory
    manual,     \* the manual source's file
    overrides,  \* [mem, disk]: SourceUpdateService.node_overrides, its file
    current,    \* the generation that generations/current names
    sealed,     \* what is sealed under the number after it
    job,        \* the update at work
    health,     \* source_status.health
    known,      \* history: the bodies each URL was ever accepted with
    torn,       \* history: [cache, store]: the body files, and the manual and
                \* override files, that a failure or a crash left out of step
    faults      \* crashes and failures so far

updVars == <<cfg, mem, disk, manual, overrides, current, sealed, job, health,
             known, torn, faults>>

-----------------------------------------------------------------------------
NoBody == {}
Unreadable == {0}       \* a file that restore_cache or decode refuses
NoEndpoint == 0
Manual == Cardinality(Sources) + 1      \* ManualSource::source_id
Empty == [manual |-> NoBody, overrides |-> {}, present |-> {}]
Leaked == [Empty EXCEPT !.present = {0}]    \* sealed, and never looked at
Nothing == [kind |-> "none", step |-> "idle"]

\* Caches and files are kept by source id and request_identity_digest.
Key(s) == <<s, cfg.identity[s]>>
Keys == {key \in Sources \X {1, 2} : key[2] \in DOMAIN Served[key[1]]}
EndpointsOf(s) == Endpoints[s][cfg.identity[s]]
EmptyCache == [loaded |-> FALSE, body |-> NoBody, from |-> NoEndpoint]

Accepted(s, body) == Accepts(cfg.excluded[s], body)

(***************************************************************************)
(* What the values of the constants are taken to be: sources have numbers  *)
(* below the manual source's, a configuration knows the URLs of the        *)
(* sources it uses, and no server's body is mistaken for a broken file.    *)
(***************************************************************************)
SourcesAssumption ==
    /\ Manual \notin Sources
    /\ \A c \in Configs : \A s \in c.active :
          s \in Sources /\ <<s, c.identity[s]>> \in Keys
    /\ \A key \in Keys : Unreadable \notin Served[key[1]][key[2]]

\* manual_filter: the nodes any source excludes
ManualExcluded == UNION {cfg.excluded[s] : s \in Sources}

Torn(files) == [torn EXCEPT !.store = @ \cup files]

Fault(n) == faults + n =< MaxFaults /\ faults' = faults + n

(***************************************************************************)
(* restore_cache, for the first use of a key in this process: a missing    *)
(* file is an empty cache, a file that cannot be used an error.  A body    *)
(* from the disk has no validators.                                        *)
(***************************************************************************)
Restored(key) ==
    IF mem[key].loaded THEN mem[key]
    ELSE [loaded |-> TRUE, body |-> disk[key], from |-> NoEndpoint]

Usable(key) == mem[key].loaded \/ disk[key] # Unreadable

\* HttpSourceBodyFetcher.cached
CanRead(s) == Usable(Key(s)) /\ Restored(Key(s)).body # NoBody

(***************************************************************************)
(* The replies of the endpoints: an error, a body, or "unchanged", which   *)
(* only the endpoint gets to say whose validators the cache holds          *)
(* (conditional_headers_for).  reply[e] is what the request through the    *)
(* local proxy gave or, when that failed, the direct one.                  *)
(***************************************************************************)
Failing == [kind |-> "error", body |-> NoBody]
Replies(s, cache) ==
    LET body == {[kind |-> "body", body |-> b] :
                     b \in Served[s][cfg.identity[s]]}
        same == {[kind |-> "unchanged", body |-> cache.body]}
    IN {r \in [EndpointsOf(s) -> {Failing} \cup body \cup same] :
            \A e \in EndpointsOf(s) :
                r[e].kind = "unchanged" => cache.from = e}

\* fetch_with_executor: the first reply whose body the inspection accepts
Acceptable(s, reply) ==
    {e \in EndpointsOf(s) : /\ reply[e].kind # "error"
                            /\ Accepted(s, reply[e].body) # {}}

Wins(s, reply, e) == \A f \in Acceptable(s, reply) : e =< f

-----------------------------------------------------------------------------
(***************************************************************************)
(* The requests, and the gathering of one body after another.              *)
(***************************************************************************)
InOrder(sources) ==
    SelectSeq([k \in 1..Manual |-> k], LAMBDA s : s \in sources)

Job(c, kind, arg) ==
    [kind |-> kind, arg |-> arg, step |-> "gather",
     todo |-> c.active, inputs |-> <<>>,
     origin |-> [s \in Sources |-> "none"], was |-> NoBody]

Converts(s, inputs) ==
    \E k \in DOMAIN inputs : inputs[k].source = s /\ NodesOf(inputs[k]) # {}

\* record_failure, for every active source
RecordFailure == [s \in Sources |->
                     IF s \in cfg.active THEN "failed" ELSE health[s]]

\* update records the health of the sources, rebuild_generation does not.
Counts(kind) == kind \in {"all", "one", "import"}

(***************************************************************************)
(* An update that fails before its commit.                                 *)
(***************************************************************************)
Fails ==
    /\ job' = Nothing
    /\ health' = IF Counts(job.kind) THEN RecordFailure ELSE health

(***************************************************************************)
(* record_report: the sources of the report; an import's report leaves out *)
(* the sources it had no body for.                                         *)
(***************************************************************************)
RecordReport ==
    [s \in Sources |->
        IF job.origin[s] = "none" THEN health[s]
        ELSE IF ~Converts(s, job.inputs) THEN "failed"
        ELSE IF job.origin[s] = "fresh" THEN "healthy"
        ELSE "degraded"]

Input(s, body) ==
    [source |-> s, body |-> body, excluded |-> cfg.excluded[s]]

Gathered(s, body, origin) ==
    job' = [job EXCEPT !.todo = @ \ {s}, !.origin[s] = origin,
                       !.inputs = Append(@, Input(s, body))]

(***************************************************************************)
(* A source that gives no body is left out of a refresh of all; any other  *)
(* update ends here.                                                       *)
(***************************************************************************)
Missing(s) ==
    IF job.kind = "all"
    THEN /\ job' = [job EXCEPT !.todo = @ \ {s}, !.origin[s] = "failed"]
         /\ UNCHANGED health
    ELSE Fails

\* Mutant: a failed fetch does not fall back on the last known good body.
MutFallBack(s, cache) == Missing(s)

FallBack(s, cache) ==
    IF cache.body # NoBody
    THEN Gathered(s, cache.body, "cached") /\ UNCHANGED health
    ELSE Missing(s)

Fetches(s) == job.kind = "all" \/ (job.kind \in {"one", "diagnose"}
                                   /\ job.arg = {s})

\* The sources are taken in the order of their numbers.
IsNext(s) == \A t \in job.todo : s =< t

\* No reply is accepted: the cache stays as it was restored.
NotFetched(s, reply) ==
    /\ Acceptable(s, reply) = {}
    /\ mem' = [mem EXCEPT ![Key(s)] = Restored(Key(s))]
    /\ FallBack(s, Restored(Key(s)))
    /\ UNCHANGED <<disk, known, torn, faults>>

(***************************************************************************)
(* The cache in memory takes an accepted body first, then its file; when   *)
(* the file cannot be written the body counts as not fetched.              *)
(***************************************************************************)
Fetched(s, reply, e) ==
    LET key == Key(s)
        body == reply[e].body
    IN /\ Wins(s, reply, e)
       /\ mem' = [mem EXCEPT ![key] =
                    IF reply[e].kind = "unchanged" THEN Restored(key)
                    ELSE [loaded |-> TRUE, body |-> body, from |-> e]]
       /\ known' = [known EXCEPT ![key] = @ \cup {body}]
       /\ \/ /\ disk' = [disk EXCEPT ![key] = body]
             /\ torn' = [torn EXCEPT !.cache = @ \ {key}]
             /\ Gathered(s, body, "fresh")
             /\ UNCHANGED <<health, faults>>
          \/ /\ Fault(1)
             /\ torn' = [torn EXCEPT !.cache = @ \cup {key}]
             /\ Missing(s)
             /\ UNCHANGED disk

\* HttpSourceBodyFetcher.fetch
FetchSource(s) ==
    \/ /\ ~Usable(Key(s))
       /\ Missing(s)
       /\ UNCHANGED <<mem, disk, known, torn, faults>>
    \/ /\ Usable(Key(s))
       /\ \E reply \in Replies(s, Restored(Key(s))) :
             \/ NotFetched(s, reply)
             \/ \E e \in Acceptable(s, reply) : Fetched(s, reply, e)

Fetch ==
    /\ job.step = "gather"
    /\ \E s \in job.todo : IsNext(s) /\ Fetches(s) /\ FetchSource(s)
    /\ UNCHANGED <<cfg, manual, overrides, current, sealed>>

(***************************************************************************)
(* HttpSourceBodyFetcher.cached, for the sources an update does not fetch. *)
(***************************************************************************)
ReadSource(s) ==
    /\ mem' = IF Usable(Key(s)) THEN [mem EXCEPT ![Key(s)] = Restored(Key(s))]
              ELSE mem
    /\ \/ /\ CanRead(s)
          /\ Gathered(s, Restored(Key(s)).body, "cached")
          /\ UNCHANGED health
       \/ /\ ~CanRead(s) /\ job.kind = "import"
          /\ job' = [job EXCEPT !.todo = @ \ {s}]
          /\ UNCHANGED health
       \/ ~CanRead(s) /\ job.kind # "import" /\ Fails

ReadCache ==
    /\ job.step = "gather"
    /\ \E s \in job.todo : IsNext(s) /\ ~Fetches(s) /\ ReadSource(s)
    /\ UNCHANGED <<cfg, disk, manual, overrides, current, sealed, known, torn,
                   faults>>

-----------------------------------------------------------------------------
(***************************************************************************)
(* The rest of prepare_inputs and prepare_import: the candidate is built,  *)
(* checked by the core and sealed under the number after the pointer.      *)
(***************************************************************************)
ImportInput(body) ==
    [source |-> Manual, body |-> body, excluded |-> ManualExcluded]

AllInputs ==
    CASE job.kind = "import" -> Append(job.inputs, ImportInput(job.arg))
      [] job.kind # "import" /\ manual # NoBody ->
            Append(job.inputs, ImportInput(manual))
      [] OTHER -> job.inputs

Candidate(inputs) ==
    LET withManual == job.kind = "import" \/ manual # NoBody
        active == InOrder(cfg.active \cup
                              IF withManual THEN {Manual} ELSE {})
        mode == IF withManual THEN "merge" ELSE cfg.mode
        refs == Attribution(inputs)
        chosen == IF job.kind = "overrides" THEN job.arg ELSE overrides.mem
    IN [cfg |-> cfg, active |-> active, refs |-> refs,
        present |-> {s \in Sources : Converts(s, inputs)},
        valid |-> ValidInputs(mode, active) /\ DOMAIN refs # {},
        pool |-> IF ValidInputs(mode, active) THEN Pools(mode, active, refs)
                 ELSE <<>>,
        manual |-> IF job.kind = "import" THEN job.arg ELSE manual,
        overrides |-> chosen]

\* An import is built only into the candidate the user has seen.
Build ==
    /\ job.step = "gather" /\ job.todo = {}
    /\ LET c == Candidate(AllInputs)
       IN \E checked, asPreviewed \in BOOLEAN :
            IF /\ c.valid /\ checked /\ (job.kind = "import" => asPreviewed)
               /\ sealed = Empty
            THEN /\ sealed' = c
                 /\ job' = [job EXCEPT !.step = "sealed"]
                 /\ UNCHANGED health
            ELSE Fails /\ UNCHANGED sealed
    /\ UNCHANGED <<cfg, mem, disk, manual, overrides, current, known, torn,
                   faults>>

-----------------------------------------------------------------------------
(***************************************************************************)
(* The sealed candidate is given up: it was a diagnosis, or the core would *)
(* not run it.                                                             *)
(***************************************************************************)
DiscardSealed == sealed' = Empty

Discard ==
    /\ job.step = "sealed"
    /\ DiscardSealed /\ Fails
    /\ UNCHANGED <<cfg, mem, disk, manual, overrides, current, known, torn,
                   faults>>

(***************************************************************************)
(* SourceUpdateService.commit, first: the manual source an import brings.  *)
(* A write that fails may have replaced the file.                          *)
(***************************************************************************)
CommitManual ==
    /\ job.step = "sealed" /\ job.kind = "import"
    /\ \/ /\ manual' = job.arg
          /\ job' = [job EXCEPT !.step = "stored", !.was = manual]
          /\ UNCHANGED <<sealed, health, torn, faults>>
       \/ /\ Fault(1)
          /\ manual' \in {manual, job.arg}
          /\ torn' = Torn({"manual"})
          /\ DiscardSealed /\ Fails
    /\ UNCHANGED <<cfg, mem, disk, overrides, current, known>>

\* Then the overrides; when their file cannot be loaded the candidate stays.
CommitOverrides ==
    /\ job.step = "sealed" /\ job.kind = "overrides"
    /\ \/ /\ overrides' = [overrides EXCEPT !.disk = job.arg]
          /\ job' = [job EXCEPT !.step = "stored", !.was = overrides.disk]
          /\ UNCHANGED <<sealed, health, torn, faults>>
       \/ /\ Fault(1)
          /\ \/ sealed' = Leaked /\ UNCHANGED <<overrides, torn>>
             \/ /\ overrides' \in {overrides,
                                    [overrides EXCEPT !.disk = job.arg]}
                /\ torn' = Torn({"overrides"})
                /\ DiscardSealed
          /\ Fails
    /\ UNCHANGED <<cfg, mem, disk, manual, current, known>>

Ready == job.step = "stored"
         \/ (job.step = "sealed" /\ job.kind \in {"all", "one", "cached"})

\* What a published generation is told apart by.
Published ==
    [cfg |-> sealed.cfg, present |-> sealed.present,
     manual |-> sealed.manual, overrides |-> sealed.overrides]

\* The pointer moves, and the report is recorded.
CommitPointer ==
    /\ Ready
    /\ current' = Published /\ sealed' = Empty
    /\ overrides' = IF job.kind = "overrides"
                    THEN [overrides EXCEPT !.mem = job.arg] ELSE overrides
    /\ health' = IF Counts(job.kind) THEN RecordReport ELSE health
    /\ torn' = [torn EXCEPT !.store =
                  IF overrides'.disk = overrides'.mem THEN {}
                  ELSE @ \ {"manual"}]
    /\ job' = Nothing
    /\ UNCHANGED <<cfg, mem, disk, manual, known, faults>>

(***************************************************************************)
(* commit_generation fails: the files go back to what they were and the    *)
(* candidate goes, unless the pointer names it already.                    *)
(***************************************************************************)
\* Mutant: only the pointer is seen to.
MutRestore ==
    UNCHANGED <<manual, overrides>>

Restore ==
    /\ manual' = IF job.kind = "import" THEN job.was ELSE manual
    /\ overrides' = IF job.kind = "overrides"
                    THEN [overrides EXCEPT !.disk = job.was] ELSE overrides

CommitFails ==
    /\ Ready
    /\ Fault(1)
    /\ Restore
    /\ DiscardSealed
    /\ \/ UNCHANGED <<current, torn>>
       \/ current' = Published /\ torn' = Torn({"manual", "overrides"})
    /\ Fails
    /\ UNCHANGED <<cfg, mem, disk, known>>

-----------------------------------------------------------------------------
(***************************************************************************)
(* The requests of the scheduler and of the control plane: request_* and   *)
(* prepare of ConfiguredSourceUpdater.  A request for a source that is not *)
(* active fails in prepare_inputs.                                         *)
(***************************************************************************)
Start(kind, arg) ==
    /\ job.step = "idle"
    /\ job' = Job(cfg, kind, arg)

Request ==
    /\ \/ Start("all", {}) \/ Start("cached", {})
       \/ \E s \in cfg.active : Start("one", {s}) \/ Start("diagnose", {s})
       \/ \E body \in Imports : Start("import", body)
       \/ \E nodes \in Edits \ {overrides.mem} : Start("overrides", nodes)
    /\ UNCHANGED <<cfg, mem, disk, manual, overrides, current, sealed, health,
                   known, torn, faults>>

RequestInactive ==
    /\ job.step = "idle"
    /\ cfg.active # Sources
    /\ health' = RecordFailure
    /\ UNCHANGED <<cfg, mem, disk, manual, overrides, current, sealed, job,
                   known, torn, faults>>

(***************************************************************************)
(* cached_inputs_with_manual, for preview_import: the caches are loaded    *)
(* and the candidate is built but not kept.                                *)
(***************************************************************************)
PreviewImport ==
    /\ job.step = "idle"
    /\ mem' = [key \in Keys |-> IF /\ \E s \in cfg.active : key = Key(s)
                                   /\ Usable(key)
                                THEN Restored(key) ELSE mem[key]]
    /\ UNCHANGED <<cfg, disk, manual, overrides, current, sealed, job, health,
                   known, torn, faults>>

\* A changed source configuration is taken over and refreshed from.
ReplaceConfig ==
    /\ job.step = "idle"
    /\ \E c \in Configs \ {cfg} : cfg' = c /\ job' = Job(c, "all", {})
    /\ UNCHANGED <<mem, disk, manual, overrides, current, sealed, health, known,
                   torn, faults>>

\* is_needed
IsNeeded ==
    \/ current = Empty
    \/ current.cfg # cfg
    \/ current.manual # manual

(***************************************************************************)
(* The worker ends at any point and is started again: the caches are read  *)
(* anew, the overrides come from their file.                               *)
(***************************************************************************)
Restart ==
    /\ Fault(1)
    /\ mem' = [key \in Keys |-> EmptyCache]
    /\ overrides' = [overrides EXCEPT !.mem = overrides.disk]
    /\ torn' = Torn((IF job.step = "stored" THEN {"manual", "overrides"} ELSE {}))
    /\ job' = IF IsNeeded THEN Job(cfg, "all", {}) ELSE Nothing
    /\ sealed' = IF sealed = Empty THEN Empty ELSE Leaked
    /\ UNCHANGED <<cfg, disk, manual, current, health, known>>

\* A body file is lost to something else than this program.
CacheSpoils ==
    /\ job.step = "idle"
    /\ Fault(1)
    /\ \E key \in Keys :
          /\ disk[key] # NoBody
          /\ disk' = [disk EXCEPT ![key] = Unreadable]
          /\ torn' = [torn EXCEPT !.cache = @ \cup {key}]
    /\ UNCHANGED <<cfg, mem, manual, overrides, current, sealed, job, health,
                   known>>

InitAt(config) ==
    /\ cfg = config
    /\ mem = [key \in Keys |-> EmptyCache]
    /\ disk = [key \in Keys |-> NoBody]
    /\ manual = NoBody
    /\ overrides = [mem |-> {}, disk |-> {}]
    /\ current = Empty /\ sealed = Empty
    /\ job = Nothing
    /\ health = [s \in Sources |-> "none"]
    /\ known = [key \in Keys |-> {}]
    /\ torn = [cache |-> {}, store |-> {}]
    /\ faults = 0

Init == \E config \in Configs : InitAt(config)

Next ==
    \/ Request \/ RequestInactive \/ PreviewImport \/ ReplaceConfig
    \/ Fetch \/ ReadCache \/ Build \/ Discard
    \/ CommitManual \/ CommitOverrides \/ CommitPointer \/ CommitFails
    \/ Restart \/ CacheSpoils

Spec == Init /\ [][Next]_updVars

-----------------------------------------------------------------------------
Bodies(inputs, s) ==
    {inputs[k].body : k \in {j \in DOMAIN inputs : inputs[j].source = s}}

\* The state has its type.
TypeOK ==
    /\ cfg \in Configs
    /\ DOMAIN mem = Keys /\ DOMAIN disk = Keys
    /\ job.step \in {"sealed", "stored"} => sealed # Empty
    /\ job.step \in {"idle", "gather", "sealed", "stored"}
    /\ faults \in 0..MaxFaults

(***************************************************************************)
(* A candidate takes each active source's nodes from a body that the URL   *)
(* it has now was accepted with (fetch, restore_cache, cache_path), and    *)
(* leaves a source out only if there has never been one, or its file       *)
(* failed: no outage and no rejected reply takes nodes away, and no body   *)
(* of an old URL comes back.                                               *)
(***************************************************************************)
SourcesAreKept ==
    job.step \in {"sealed", "stored"} =>
        \A s \in cfg.active :
            LET used == Bodies(job.inputs, s)
            IN /\ used \subseteq known[Key(s)]
               /\ used = {} => known[Key(s)] = {} \/ Key(s) \in torn.cache

(***************************************************************************)
(* Between updates the files that go with a generation are the ones it was *)
(* built from: the manual source, the overrides (in the file and in        *)
(* memory), and a source that is shown healthy has its nodes in it         *)
(* (commit, record_report), whatever failed in between, unless a write     *)
(* failed half way or the worker died inside a commit.                     *)
(***************************************************************************)
StoresMatch ==
    job.step = "idle" /\ current # Empty =>
        /\ current.manual = manual \/ "manual" \in torn.store
        /\ \/ /\ current.overrides = overrides.mem
              /\ current.overrides = overrides.disk
           \/ "overrides" \in torn.store
        /\ current.cfg = cfg => \A s \in cfg.active :
               health[s] = "healthy" =>
                   s \in current.present \/ Key(s) \in torn.cache

\* The automatic pool of every candidate is fair (build_candidate_pools).
PoolIsFair ==
    job.step \in {"sealed", "stored"} =>
        Fair(sealed.active, sealed.refs, sealed.pool)
=============================================================================
