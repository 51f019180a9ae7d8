----------------------- MODULE SubscriptionTransaction -----------------------
(***************************************************************************)
(* The journaled subscription transaction of the worker and the update it  *)
(* drives, over the files that survive a crash: the canonical nethop.toml,  *)
(* the staged copy of its successor, the commit journal, the sealed         *)
(* generation directories and the `current' pointer.                       *)
(*                                                                         *)
(*   subscription_transaction.rs   journal, staged config, recovery        *)
(*   worker_application.rs         the transaction and update_inner        *)
(*   source_update.rs              numbering, sealing and committing        *)
(*   generation.rs                 directories and pointer                 *)
(*   application.rs                recovery before the worker starts       *)
(*                                                                         *)
(* One action is one effect on the disk, so that the worker can crash       *)
(* between any two of them.  A configuration stands for a document, its     *)
(* digest and the digest of its sources: the requests that run this         *)
(* transaction change the sources whenever they change the document.       *)
(***************************************************************************)
EXTENDS Integers, Sequences

CONSTANTS
    Configs,    \* configuration documents
    NoConfig,   \* no file
    None,       \* no record
    MaxGen,     \* the last generation number (GenerationExhausted beyond)
    MaxQueue,   \* bound on the commands waiting for the main loop
    MaxCrashes, \* how often the worker may crash
    IoFaults    \* whether a write, sync or removal may fail

Gens == 1..MaxGen
NoGen == 0      \* no pointer, no runtime

Phases == {"journaled", "config_published", "generation_published", "committed"}

Journals == [new : Configs, newGen : Gens, phase : Phases]
\* `published' is a history field: the pointer moved to a generation built
\* from the new configuration and the transaction is not being undone.
Transactions == [old : Configs, new : Configs, newGen : Gens, published : BOOLEAN]

ASSUME TransactionAssumption ==
    /\ NoConfig \notin Configs
    /\ MaxGen \in Nat \ {0}
    /\ MaxQueue \in Nat \ {0}
    /\ MaxCrashes \in Nat
    /\ IoFaults \in BOOLEAN
    /\ None \notin Journals \cup Transactions

VARIABLES
    config,     \* the canonical nethop.toml
    staged,     \* .candidate-config-<generation>
    journal,    \* subscription.commit.json
    sealed,     \* generations/<n>: the configuration it was built from
    current,    \* generations/current
    enabled,    \* service.enabled, which these requests leave alone
    accepted,   \* ConfigRuntime.current
    running,    \* the generation of the worker's runtime
    queue,      \* WorkerControlHandler.pending
    tx,         \* the locals of the request handler
    prep,       \* the generation update_inner has prepared
    pc,         \* what the worker does next
    lost,       \* history: the transaction a crash interrupted and the
                \* generation its update had sealed, until the next load
    crashes

disk == <<config, staged, journal, sealed, current, enabled>>
vars == <<config, staged, journal, sealed, current, enabled, accepted, running,
          queue, tx, prep, pc, lost, crashes>>

hist == <<lost, crashes>>

\* A freshly installed worker, or one that has run for a while: generation
\* `current' was built from the configuration on disk.
Init ==
    /\ config \in Configs
    /\ staged = [g \in Gens |-> NoConfig]
    /\ journal = None
    /\ current \in {NoGen, 1}
    /\ sealed = [g \in Gens |-> IF g = current THEN config ELSE NoConfig]
    /\ enabled \in BOOLEAN
    /\ accepted = config
    /\ running = NoGen
    /\ queue = <<>>
    /\ tx = None
    /\ prep = NoGen
    /\ pc = "idle"
    /\ lost = None
    /\ crashes = 0

-----------------------------------------------------------------------------
(* Files.  A write replaces the file atomically; a failed one reports an   *)
(* error before the rename, or after it when the directory sync fails.     *)

Fault == IoFaults

WriteJournal(p) ==
    journal' = [new |-> tx.new, newGen |-> tx.newGen, phase |-> p]

FailJournal(p) ==
    /\ Fault
    /\ \/ UNCHANGED journal
       \/ WriteJournal(p)

Unstage(g) == staged' = [staged EXCEPT ![g] = NoConfig]

-----------------------------------------------------------------------------
(* The request: preview, checkpoint, journal, configuration                *)

\* Mutant: the number of the running generation itself.
MutBegin(new) ==
    /\ pc = "idle"
    /\ config = accepted
    /\ Len(queue) < MaxQueue
    /\ tx' = [old |-> config, new |-> new, newGen |-> running, published |-> FALSE]
    /\ pc' = "stage"
    /\ UNCHANGED <<disk, accepted, running, queue, prep, hist>>

\* The preview demands that the disk still holds the accepted document.  The
\* new generation number is taken from the runtime, not from the pointer.
Begin(new) ==
    /\ pc = "idle"
    /\ config = accepted
    /\ running < MaxGen
    /\ Len(queue) < MaxQueue
    /\ tx' = [old |-> config, new |-> new, newGen |-> running + 1, published |-> FALSE]
    /\ pc' = "stage"
    /\ UNCHANGED <<disk, accepted, running, queue, prep, hist>>

StageConfig ==
    /\ pc = "stage"
    /\ LET written == [staged EXCEPT ![tx.newGen] = tx.new] IN
       \/ staged' = written /\ pc' = "mark_journaled"
       \/ Fault /\ staged' \in {staged, written} /\ pc' = "abort_staged"
    /\ UNCHANGED <<config, journal, sealed, current, enabled,
                   accepted, running, queue, tx, prep, hist>>

MarkJournaled ==
    /\ pc = "mark_journaled"
    /\ \/ WriteJournal("journaled") /\ pc' = "publish_config"
       \/ FailJournal("journaled") /\ pc' = "abort_staged"
    /\ UNCHANGED <<config, staged, sealed, current, enabled,
                   accepted, running, queue, tx, prep, hist>>

\* apply_document_with_ids: the document, then the source registry.  On an
\* error the old document is restored, unless that fails as well.
PublishConfig ==
    /\ pc = "publish_config"
    /\ \/ /\ config' = tx.new
          /\ accepted' = tx.new
          /\ pc' = "mark_config"
       \/ /\ Fault
          /\ config' \in {config, tx.new}
          /\ UNCHANGED accepted
          /\ pc' = "abort_staged"
    /\ UNCHANGED <<staged, journal, sealed, current, enabled,
                   running, queue, tx, prep, hist>>

\* queue_command: Stop drops what is pending and goes first.
Queued(c) == IF c = "stop" THEN <<"stop">> ELSE Append(queue, c)

\* apply_config_change, for a change from configuration c to d.  Every
\* document these requests accept has an active source.
ConfigChanged(c, d) ==
    queue' = IF ~enabled THEN Queued("stop")
             ELSE IF c # d THEN Queued("update")
             ELSE queue

MarkConfig ==
    /\ pc = "mark_config"
    /\ \/ /\ WriteJournal("config_published")
          /\ ConfigChanged(tx.old, tx.new)
          /\ pc' = "commands"
       \/ /\ FailJournal("config_published")
          /\ UNCHANGED queue
          /\ pc' = "abort_undo_staged"
    /\ UNCHANGED <<config, staged, sealed, current, enabled,
                   accepted, running, tx, prep, hist>>

-----------------------------------------------------------------------------
(* The command loop and update_inner.  `Done' is where a command ends,     *)
(* `Failed' where it returns an error: a transaction has its own handling, *)
(* the main loop shuts the worker down.                                    *)

\* The scheduler or a user asks for an update outside any transaction.
RequestUpdate ==
    /\ pc = "idle"
    /\ Len(queue) < MaxQueue
    /\ queue' = Queued("update")
    /\ UNCHANGED <<disk, accepted, running, tx, prep, pc, hist>>

RunReady ==
    /\ pc = "idle" /\ queue # <<>>
    /\ pc' = "commands"
    /\ UNCHANGED <<disk, accepted, running, queue, tx, prep, hist>>

Done == pc' = "record"
Failed == pc' = IF tx = None THEN "exit" ELSE "undo_abort"

\* handle_commands.  Stop comes from a disabled service, which has no runtime.
TakeCommand ==
    /\ pc = "commands"
    /\ \/ /\ queue = <<>>
          /\ pc' = IF tx = None THEN "idle" ELSE "finish"
          /\ UNCHANGED <<queue, running>>
       \/ /\ queue # <<>> /\ Head(queue) = "stop"
          /\ queue' = Tail(queue)
          /\ running' = NoGen
          /\ UNCHANGED pc
       \/ /\ queue # <<>> /\ Head(queue) = "update"
          /\ queue' = Tail(queue)
          /\ UNCHANGED running
          /\ pc' = "prepare"
    /\ UNCHANGED <<disk, accepted, tx, prep, hist>>

\* next_generation
NextGen == current + 1

\* prepare_candidate and seal_candidate refuse a number that exists.
SlotIsFree == NextGen \in Gens /\ sealed[NextGen] = NoConfig

\* prepare_inputs fails before it seals, or seals and cannot sync.
PrepareFails ==
    /\ pc = "prepare"
    /\ Done
    /\ \/ UNCHANGED sealed
       \/ /\ Fault /\ SlotIsFree
          /\ sealed' = [sealed EXCEPT ![NextGen] = accepted]
    /\ UNCHANGED <<config, staged, journal, current, enabled,
                   accepted, running, queue, tx, prep, hist>>

\* Fetched, converted, written, checked and sealed.
Prepare ==
    /\ pc = "prepare"
    /\ SlotIsFree
    /\ sealed' = [sealed EXCEPT ![NextGen] = accepted]
    /\ prep' = NextGen
    /\ pc' = "activate"
    /\ UNCHANGED <<config, staged, journal, current, enabled,
                   accepted, running, queue, tx, hist>>

\* The result of discard_sealed is ignored.
Discard(g) ==
    \/ sealed' = [sealed EXCEPT ![g] = NoConfig]
    \/ Fault /\ UNCHANGED sealed

\* The core starts from the pointer, or fails to and backs off.
Restart(pointer) == running' \in {pointer, NoGen}

\* The service was disabled, or the disk differs from what was accepted.
Superseded == ~enabled \/ config # accepted

Supersede ==
    /\ pc = "activate"
    /\ Superseded
    /\ Discard(prep)
    /\ prep' = NoGen
    /\ Done
    /\ UNCHANGED <<config, staged, journal, current, enabled,
                   accepted, running, queue, tx, hist>>

\* The candidate does not become healthy.  A failed reload leaves the runtime
\* as it was; after a stop the core is started again from the pointer; a stop
\* that could not clean up fails the update.
ActivateFails ==
    /\ pc = "activate"
    /\ ~Superseded
    /\ Discard(prep)
    /\ prep' = NoGen
    /\ \/ running # NoGen /\ UNCHANGED running /\ Done
       \/ Restart(current) /\ Done
       \/ running # NoGen /\ running' = NoGen /\ Failed
    /\ UNCHANGED <<config, staged, journal, current, enabled,
                   accepted, queue, tx, hist>>

\* Reloaded in place, or stopped and started anew: then the runtime is not
\* recorded before the commit.
Activate ==
    /\ pc = "activate"
    /\ ~Superseded
    /\ running' \in {running, NoGen}
    /\ pc' = "commit"
    /\ UNCHANGED <<disk, accepted, queue, tx, prep, hist>>

MarkPublished == tx' = IF tx = None THEN tx ELSE [tx EXCEPT !.published = TRUE]

Commit ==
    /\ pc = "commit"
    /\ current' = prep
    /\ running' = prep
    /\ prep' = NoGen
    /\ MarkPublished
    /\ Done
    /\ UNCHANGED <<config, staged, journal, sealed, enabled, accepted, queue, hist>>

\* Mutant: the candidate is discarded although the pointer names it.
MutCommitFails ==
    /\ pc = "commit"
    /\ Fault
    /\ current' \in {current, prep}
    /\ UNCHANGED tx
    /\ sealed' = [sealed EXCEPT ![prep] = NoConfig]
    /\ prep' = NoGen
    /\ running # NoGen /\ UNCHANGED running /\ Done
    /\ UNCHANGED <<config, staged, journal, enabled, accepted, queue, hist>>

\* commit_generation fails: before the pointer moved, and the candidate is
\* discarded; or after it did, and discard_sealed refuses.
CommitFails ==
    /\ pc = "commit"
    /\ Fault
    /\ \/ UNCHANGED <<current, tx>> /\ Discard(prep)
       \/ current' = prep /\ MarkPublished /\ UNCHANGED sealed
    /\ prep' = NoGen
    /\ \/ running # NoGen /\ UNCHANGED running /\ (Done \/ Failed)
       \/ running = NoGen /\ Restart(current') /\ Done
       \/ running = NoGen /\ UNCHANGED running /\ Failed
    /\ UNCHANGED <<config, staged, journal, enabled, accepted, queue, hist>>

\* record_result persists the schedule after every update.
RecordResult ==
    /\ pc = "record"
    /\ pc' = "commands" \/ (Fault /\ Failed)
    /\ UNCHANGED <<disk, accepted, running, queue, tx, prep, hist>>

-----------------------------------------------------------------------------
(* The end of the transaction *)

Answer == tx' = None /\ pc' = "idle"

\* GenerationPublished is only recorded when the number is the expected one.
Finish ==
    /\ pc = "finish"
    /\ \/ running # tx.newGen /\ UNCHANGED journal /\ pc' = "complete"
       \/ running = tx.newGen /\ WriteJournal("generation_published") /\ pc' = "complete"
       \/ running = tx.newGen /\ FailJournal("generation_published") /\ pc' = "undo"
    /\ UNCHANGED <<config, staged, sealed, current, enabled,
                   accepted, running, queue, tx, prep, hist>>

Complete ==
    /\ pc = "complete"
    /\ \/ WriteJournal("committed") /\ pc' = "complete_staged"
       \/ FailJournal("committed") /\ pc' = "undo"
    /\ UNCHANGED <<config, staged, sealed, current, enabled,
                   accepted, running, queue, tx, prep, hist>>

CompleteStaged ==
    /\ pc = "complete_staged"
    /\ \/ Unstage(tx.newGen) /\ pc' = "complete_clear"
       \/ Fault /\ UNCHANGED staged /\ pc' = "undo"
    /\ UNCHANGED <<config, journal, sealed, current, enabled,
                   accepted, running, queue, tx, prep, hist>>

CompleteClear ==
    /\ pc = "complete_clear"
    /\ \/ journal' = None /\ Answer
       \/ Fault /\ UNCHANGED <<journal, tx>> /\ pc' = "undo"
    /\ UNCHANGED <<config, staged, sealed, current, enabled,
                   accepted, running, queue, prep, hist>>

\* rollback_config_transaction: the checkpoint goes back to disk, or not.
RollBackConfig ==
    \/ config' = tx.old /\ accepted' = tx.old /\ ConfigChanged(accepted, tx.old)
    \/ Fault /\ config' \in {config, tx.old} /\ UNCHANGED <<accepted, queue>>

\* The journal could not be completed: roll back and leave it behind.
Undo ==
    /\ pc = "undo"
    /\ RollBackConfig
    /\ Answer
    /\ UNCHANGED <<staged, journal, sealed, current, enabled, running, prep, hist>>

\* A command failed: roll back, then abort the journal.
UndoAbort ==
    /\ pc = "undo_abort"
    /\ RollBackConfig
    /\ tx' = [tx EXCEPT !.published = FALSE]
    /\ pc' = "abort_staged"
    /\ UNCHANGED <<staged, journal, sealed, current, enabled, running, prep, hist>>

\* abort: the staged copy, then the journal.  An error skips the rest.  The
\* caller whose ConfigPublished mark failed rolls back afterwards.
AbortStaged ==
    /\ pc \in {"abort_staged", "abort_undo_staged"}
    /\ LET undo == pc = "abort_undo_staged" IN
       \/ /\ Unstage(tx.newGen)
          /\ pc' = IF undo THEN "abort_undo_clear" ELSE "abort_clear"
          /\ UNCHANGED tx
       \/ /\ Fault /\ UNCHANGED staged
          /\ IF undo THEN pc' = "undo" /\ UNCHANGED tx ELSE Answer
    /\ UNCHANGED <<config, journal, sealed, current, enabled,
                   accepted, running, queue, prep, hist>>

AbortClear ==
    /\ pc \in {"abort_clear", "abort_undo_clear"}
    /\ journal' = None \/ (Fault /\ UNCHANGED journal)
    /\ IF pc = "abort_undo_clear"
          THEN pc' = "undo" /\ UNCHANGED tx
          ELSE Answer
    /\ UNCHANGED <<config, staged, sealed, current, enabled,
                   accepted, running, queue, prep, hist>>

-----------------------------------------------------------------------------
(* The core outside transactions: it exits or gives up, and is started      *)
(* again from the pointer.                                                 *)

CoreStops ==
    /\ pc = "idle" /\ running # NoGen
    /\ running' = NoGen
    /\ UNCHANGED <<disk, accepted, queue, tx, prep, pc, hist>>

CoreStarts ==
    /\ pc = "idle" /\ running = NoGen /\ enabled /\ current # NoGen
    /\ running' = current
    /\ UNCHANGED <<disk, accepted, queue, tx, prep, pc, hist>>

-----------------------------------------------------------------------------
(* Crash, and the recovery of the next worker                              *)

Down ==
    /\ running' = NoGen
    /\ queue' = <<>>
    /\ tx' = None
    /\ prep' = NoGen
    /\ pc' = "down"
    /\ UNCHANGED <<disk, accepted>>

Crash ==
    /\ crashes < MaxCrashes
    /\ pc \notin {"down", "blocked"}
    /\ crashes' = crashes + 1
    /\ lost' = IF tx = None THEN lost ELSE [tx |-> tx, prep |-> prep]
    /\ Down

\* run_ready returned an error: the worker shuts down and exits.
Exit ==
    /\ pc = "exit"
    /\ Down
    /\ UNCHANGED hist

\* Mutant: the phase decides, not the pointer.
MutRecoveryAction ==
    IF journal = None THEN "load"
    ELSE IF journal.phase \in {"journaled", "config_published"} THEN "discard_generation"
    ELSE "recover_staged"

\* What CommitJournalStore::recover decides.
RecoveryAction ==
    IF journal = None THEN "load"
    ELSE IF current # journal.newGen THEN "discard_generation"
    ELSE IF config = journal.new THEN "recover_staged"
    ELSE IF staged[journal.newGen] = journal.new THEN "recover_config"
    ELSE "blocked"

Recover ==
    /\ pc = "down"
    /\ pc' = RecoveryAction
    /\ UNCHANGED <<disk, accepted, running, queue, tx, prep, hist>>

\* DiscardStaged begins with generations/<new_generation>.
DiscardGeneration ==
    /\ pc = "discard_generation"
    /\ \/ /\ sealed' = [sealed EXCEPT ![journal.newGen] = NoConfig]
          /\ pc' = "recover_staged"
       \/ Fault /\ UNCHANGED sealed /\ pc' = "down"
    /\ UNCHANGED <<config, staged, journal, current, enabled,
                   accepted, running, queue, tx, prep, hist>>

\* Mutant: the staged document is moved away before it is written.
MutRecoverConfig ==
    /\ pc = "recover_config"
    /\ \/ config' = journal.new /\ Unstage(journal.newGen) /\ pc' = "recover_mark"
       \/ Fault /\ UNCHANGED config /\ Unstage(journal.newGen) /\ pc' = "down"
    /\ UNCHANGED <<journal, sealed, current, enabled,
                   accepted, running, queue, tx, prep, hist>>

\* CompleteConfigPublish: the staged document becomes canonical.
RecoverConfig ==
    /\ pc = "recover_config"
    /\ \/ config' = journal.new /\ pc' = "recover_mark"
       \/ Fault /\ config' \in {config, journal.new} /\ pc' = "down"
    /\ UNCHANGED <<staged, journal, sealed, current, enabled,
                   accepted, running, queue, tx, prep, hist>>

RecoverMark ==
    /\ pc = "recover_mark"
    /\ LET marked == [journal EXCEPT !.phase = "committed"] IN
       \/ journal' = marked /\ pc' = "recover_staged"
       \/ Fault /\ journal' \in {journal, marked} /\ pc' = "down"
    /\ UNCHANGED <<config, staged, sealed, current, enabled,
                   accepted, running, queue, tx, prep, hist>>

\* Mutant: the journal is forgotten.
MutRecoverStaged ==
    /\ pc = "recover_staged"
    /\ Unstage(journal.newGen) /\ pc' = "load"
    /\ UNCHANGED <<config, journal, sealed, current, enabled,
                   accepted, running, queue, tx, prep, hist>>

RecoverStaged ==
    /\ pc = "recover_staged"
    /\ \/ Unstage(journal.newGen) /\ pc' = "recover_clear"
       \/ Fault /\ UNCHANGED staged /\ pc' = "down"
    /\ UNCHANGED <<config, journal, sealed, current, enabled,
                   accepted, running, queue, tx, prep, hist>>

RecoverClear ==
    /\ pc = "recover_clear"
    /\ \/ journal' = None /\ pc' = "load"
       \/ Fault /\ UNCHANGED journal /\ pc' = "down"
    /\ UNCHANGED <<config, staged, sealed, current, enabled,
                   accepted, running, queue, tx, prep, hist>>

\* The worker loads the document.  It asks for an update when the pointer's
\* generation was not built from it, and starts that generation otherwise.
Load ==
    /\ pc = "load"
    /\ accepted' = config
    /\ queue' = IF enabled /\ ~(current # NoGen /\ sealed[current] = config)
                THEN Queued("update") ELSE queue
    /\ pc' = "idle"
    /\ lost' = None
    /\ UNCHANGED <<disk, running, tx, prep, crashes>>

-----------------------------------------------------------------------------
Transaction ==
    \/ \E new \in Configs : Begin(new)
    \/ StageConfig \/ MarkJournaled \/ PublishConfig \/ MarkConfig
    \/ Finish \/ Complete \/ CompleteStaged \/ CompleteClear
    \/ Undo \/ UndoAbort \/ AbortStaged \/ AbortClear

Update ==
    \/ RequestUpdate \/ RunReady \/ TakeCommand
    \/ PrepareFails \/ Prepare \/ Supersede \/ ActivateFails \/ Activate
    \/ Commit \/ CommitFails \/ RecordResult \/ Exit

Recovery ==
    \/ Recover \/ DiscardGeneration \/ RecoverConfig \/ RecoverMark
    \/ RecoverStaged \/ RecoverClear \/ Load

Next == Transaction \/ Update \/ CoreStops \/ CoreStarts \/ Crash \/ Recovery

\* The supervisor restarts a worker that is down, and recovery is one
\* sequential function.
Spec == Init /\ [][Next]_vars /\ WF_vars(Recovery)

-----------------------------------------------------------------------------
TransactionPoints ==
    {"stage", "mark_journaled", "publish_config", "mark_config", "finish",
     "complete", "complete_staged", "complete_clear", "undo", "undo_abort",
     "abort_staged", "abort_clear", "abort_undo_staged", "abort_undo_clear"}

UpdatePoints == {"commands", "prepare", "activate", "commit", "record"}

RecoveryPoints == {"down", "discard_generation", "recover_config", "recover_mark",
                   "recover_staged", "recover_clear"}

TypeOK ==
    /\ config \in Configs
    /\ staged \in [Gens -> Configs \cup {NoConfig}]
    /\ journal \in Journals \cup {None}
    /\ sealed \in [Gens -> Configs \cup {NoConfig}]
    /\ current \in Gens \cup {NoGen}
    /\ enabled \in BOOLEAN
    /\ accepted \in Configs
    /\ running \in Gens \cup {NoGen}
    /\ queue \in Seq({"stop", "update"})
    /\ tx \in Transactions \cup {None}
    /\ prep \in Gens \cup {NoGen}
    /\ pc \in {"idle", "exit", "load", "blocked"}
              \cup TransactionPoints \cup UpdatePoints \cup RecoveryPoints
    /\ crashes \in 0..MaxCrashes

\* The generation the pointer names and the one the worker runs always exist:
\* neither a discarded candidate nor the recovery's removal of the journal's
\* generation ever takes them away.
PublishedIsSealed ==
    /\ current # NoGen => sealed[current] # NoConfig
    /\ running # NoGen => sealed[running] # NoConfig

\* The pointer moves one generation at a time, and what it named is never
\* rewritten while it names it.
PointerAdvances ==
    [][/\ current' \in {current, current + 1}
       /\ current # NoGen => sealed'[current] = sealed[current]]_vars

\* Where the interrupted recovery leads: the configuration it will leave.
RecoveryOutcome ==
    CASE journal = None \/ current # journal.newGen -> config
      [] journal # None /\ current = journal.newGen
            /\ journal.new \in {config, staged[journal.newGen]} -> journal.new
      [] OTHER -> NoConfig

\* Recovery is idempotent: no prefix of any branch of recover(), ended by a
\* crash or an error, changes what a later attempt makes of the configuration.
RecoveryIsIdempotent ==
    [][(pc \in RecoveryPoints) => (RecoveryOutcome' = RecoveryOutcome)]_vars

\* A transaction whose generation was published before the crash is completed:
\* recovery never separates the pointer, the generation and the document.
PublishedRollsForward ==
    (pc = "load" /\ lost # None /\ lost.tx.published)
        => config = lost.tx.new /\ sealed[current] = config

\* Crashes alone leave nothing half done once the worker serves requests: no
\* journal is left and the accepted document is the one on disk.
RestIsClean ==
    ~IoFaults /\ pc = "idle" => journal = None /\ config = accepted

\* A transaction that reached its publication rolls forward, and a worker at
\* rest has none half done (CommitJournalStore::recover, complete and abort).
TransactionIsWhole == PublishedRollsForward /\ RestIsClean

-----------------------------------------------------------------------------
(* What the design documents say and the code does not do.                 *)

\* A crash before the generation is published leaves the old state: the old
\* configuration, and no sealed candidate.
UnpublishedKeepsOldState ==
    (pc = "load" /\ lost # None /\ ~lost.tx.published)
        => /\ config = lost.tx.old
           /\ lost.prep # NoGen => sealed[lost.prep] = NoConfig

=============================================================================
