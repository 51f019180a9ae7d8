------------------------------ MODULE RuleSets ------------------------------
(***************************************************************************)
(* The update of the two local rule sets, cn-domain.srs and cn-ip.srs      *)
(* (ruleset.rs, ruleset_update.rs, ruleset_provider.rs and                 *)
(* update_rule_sets in worker_application.rs).                             *)
(*                                                                         *)
(* The pair is fetched file by file through a conditional cache, staged,   *)
(* checked by sing-box and swapped in with a journal, while the core,      *)
(* which reads the files when it starts, is stopped.  Any operation on a   *)
(* file may fail and the worker may be killed between any two of them.     *)
(***************************************************************************)
EXTENDS Integers

CONSTANTS
    MaxVersion,     \* bound on the versions the servers publish
    MaxMishaps      \* bound on failures, rejections, stops and kills

Files == {1, 2}     \* the domain file and the address file
None == 0           \* no file, no version

VARIABLES
    served,     \* the version each server has
    cached,     \* the cache on disk: a body, and the version its metadata describe
    known,      \* HttpRuleSetBodyFetcher.caches: a body and its validator
    body,       \* the pair being fetched
    pair,       \* the files in use
    old,        \* .previous-domain-* and .previous-ip-*
    log,        \* the journal
    staged,     \* the candidate directory
    tx,         \* RuleSetUpdateService.transaction
    loaded,     \* the pair the running core has read, or <<>>
    restart,    \* restart_required
    step,       \* where the worker is
    undo,       \* operations of a roll back still to do, in the order of Rank
    checked,    \* history: the pairs sing-box has accepted
    mishaps

cache == <<cached, known>>
disk == <<pair, old, log, staged>>
job == <<body, tx, restart, undo>>
vars == <<served, cache, disk, job, loaded, step, checked, mishaps>>

NoBody == [f \in Files |-> None]
Entry(v) == [body |-> v, etag |-> v]
Unread == [body |-> None, etag |-> -1]

InitAt(place) ==
    /\ served = [f \in Files |-> 1]
    /\ cached = [f \in Files |-> Entry(None)]
    /\ known = [f \in Files |-> Unread]
    /\ body = NoBody
    /\ pair = [f \in Files |-> 1] /\ old = NoBody
    /\ log = "none" /\ staged = FALSE
    /\ tx = "none" /\ loaded = <<>> /\ restart = FALSE
    /\ step = place /\ undo = {}
    /\ checked = {[f \in Files |-> 1]}
    /\ mishaps = 0

Init == InitAt("down")

Mishap == mishaps < MaxMishaps /\ mishaps' = mishaps + 1
Fine == UNCHANGED mishaps

-----------------------------------------------------------------------------
(***************************************************************************)
(* RuleSetStore::open: roll an interrupted transaction back, then remove   *)
(* what else is left.  A journal that cannot be parsed ends the worker.    *)
(***************************************************************************)
Restored(f) == IF old[f] # None THEN old[f] ELSE pair[f]

\* The pair a journal leads back to.
Previous == [f \in Files |-> Restored(f)]

Recover(f) ==
    /\ step = "down" /\ log = "whole"
    /\ old[f] # None /\ (f = 2 => old[1] = None)
    /\ pair' = [pair EXCEPT ![f] = Restored(f)]
    /\ old' = [old EXCEPT ![f] = None]
    /\ UNCHANGED <<served, cache, log, staged, job, loaded, step, checked, mishaps>>

Recovered ==
    /\ step = "down" /\ log = "whole"
    /\ old = NoBody /\ None \notin {pair[f] : f \in Files}
    /\ log' = "none" /\ staged' = FALSE
    /\ UNCHANGED <<served, cache, pair, old, job, loaded, step, checked, mishaps>>

CleanUp ==
    /\ step = "down" /\ log = "none"
    /\ old' = NoBody /\ staged' = FALSE
    /\ step' = "idle"
    /\ UNCHANGED <<served, cache, pair, log, job, loaded, checked, mishaps>>

-----------------------------------------------------------------------------
(***************************************************************************)
(* fetch: a conditional request.  An entry not read yet is taken from the  *)
(* disk, unless its metadata describe another body.                        *)
(***************************************************************************)
FromDisk(f) ==
    IF cached[f].body = cached[f].etag THEN cached[f] ELSE Entry(None)

CacheEntry(f) == IF known[f] = Unread THEN FromDisk(f) ELSE known[f]

Fetching == [fetch1 |-> 1, fetch2 |-> 2]
AfterFetch(f) == IF f = 1 THEN "fetch2" ELSE "prepare"

Update ==
    /\ step = "idle" /\ tx = "none"
    /\ step' = "fetch1"
    /\ UNCHANGED <<served, cache, disk, job, loaded, checked, mishaps>>

NotModified ==
    /\ step \in DOMAIN Fetching
    /\ LET f == Fetching[step]
       IN  /\ CacheEntry(f).etag = served[f]
           /\ known' = [known EXCEPT ![f] = CacheEntry(f)]
           /\ body' = [body EXCEPT ![f] = CacheEntry(f).body]
           /\ step' = AfterFetch(f)
    /\ UNCHANGED <<served, cached, disk, tx, restart, undo, loaded, checked, mishaps>>

\* The new body is kept in memory and written before its metadata.
Modified ==
    /\ step \in DOMAIN Fetching
    /\ LET f == Fetching[step]
       IN  /\ CacheEntry(f).etag # served[f]
           /\ known' = [known EXCEPT ![f] = Entry(served[f])]
           /\ body' = [body EXCEPT ![f] = served[f]]
           /\ cached' = [cached EXCEPT ![f].body = served[f]]
           /\ step' = IF f = 1 THEN "meta1" ELSE "meta2"
    /\ UNCHANGED <<served, disk, tx, restart, undo, loaded, checked, mishaps>>

WriteMetadata(f) ==
    /\ step = IF f = 1 THEN "meta1" ELSE "meta2"
    /\ cached' = [cached EXCEPT ![f].etag = known[f].etag]
    /\ step' = AfterFetch(f)
    /\ UNCHANGED <<served, known, disk, job, loaded, checked, mishaps>>

GiveUp == step' = "idle" /\ tx' = "none" /\ body' = NoBody /\ undo' = {}
          /\ restart' = FALSE

\* The request, its content type or the cache on disk.
FetchFails ==
    /\ step \in DOMAIN Fetching \cup {"meta1", "meta2"}
    /\ Mishap /\ GiveUp
    /\ UNCHANGED <<served, cache, disk, loaded, checked>>

-----------------------------------------------------------------------------
\* prepare: nothing to do, or a candidate that sing-box has checked.
Unchanged ==
    /\ step = "prepare" /\ body = pair
    /\ GiveUp
    /\ UNCHANGED <<served, cache, disk, loaded, checked, mishaps>>

Prepare ==
    /\ step = "prepare" /\ body # pair
    /\ None \notin {pair[f] : f \in Files}
    /\ staged' = TRUE /\ tx' = "prepared"
    /\ checked' = checked \cup {body}
    /\ restart' = (loaded # <<>>)
    /\ step' = "stop"
    /\ UNCHANGED <<served, cache, pair, old, log, body, undo, loaded, mishaps>>

PrepareFails ==
    /\ step = "prepare" /\ body # pair
    /\ IF None \in {pair[f] : f \in Files} THEN Fine ELSE Mishap
    /\ GiveUp
    /\ UNCHANGED <<served, cache, disk, loaded, checked>>

\* The core is stopped; when that fails the candidate is dropped.
StopForUpdate ==
    /\ step = "stop"
    /\ loaded' = <<>>
    /\ \/ Fine /\ step' = "create" /\ UNCHANGED <<staged, job>>
       \/ restart /\ Mishap /\ GiveUp /\ staged' = FALSE
    /\ UNCHANGED <<served, cache, pair, old, log, checked>>

-----------------------------------------------------------------------------
(***************************************************************************)
(* publish_candidate: the journal, then four renames.                      *)
(***************************************************************************)
\* After a failed publish the candidate is gone and the core is started again.
Failed == step' = IF restart THEN "start" ELSE "idle"

CreateJournal ==
    /\ step = "create" /\ log = "none"
    /\ log' = "torn" /\ step' = "journal"
    /\ UNCHANGED <<served, cache, pair, old, staged, job, loaded, checked, mishaps>>

WriteJournal ==
    /\ step = "journal"
    /\ log' = "whole" /\ step' = "save1"
    /\ UNCHANGED <<served, cache, pair, old, staged, job, loaded, checked, mishaps>>

\* The journal is there already, or cannot be created, written or made durable.
JournalFails ==
    /\ \/ step = "create" /\ log # "none" /\ Fine /\ UNCHANGED log
       \/ step = "create" /\ log = "none" /\ Mishap /\ UNCHANGED log
       \/ step = "journal" /\ Mishap /\ log' \in {"torn", "none"}
    /\ staged' = FALSE /\ tx' = "none" /\ Failed
    /\ UNCHANGED <<served, cache, pair, old, body, restart, undo, loaded, checked>>

Renames == [save1 |-> "save2", save2 |-> "put1", put1 |-> "put2", put2 |-> "published"]
FileOf == [save1 |-> 1, save2 |-> 2, put1 |-> 1, put2 |-> 2]

Moved ==
    LET f == FileOf[step]
    IN  IF step \in {"save1", "save2"}
        THEN /\ old' = [old EXCEPT ![f] = pair[f]]
             /\ pair' = [pair EXCEPT ![f] = None]
        ELSE pair' = [pair EXCEPT ![f] = body[f]] /\ UNCHANGED old

Rename ==
    /\ step \in DOMAIN Renames
    /\ Moved
    /\ step' = Renames[step]
    /\ UNCHANGED <<served, cache, log, staged, job, loaded, checked, mishaps>>

\* Mutant: the address file, which was renamed last, is forgotten.
MutRestorePair == {"drop1", "back1"}

\* restore_pair
RestorePair == {"drop1", "drop2", "back1", "back2"}

UndoOf ==
    [save1 |-> {"unlog"}, save2 |-> {"back1", "unlog"},
     put1 |-> RestorePair \cup {"unlog"}, put2 |-> RestorePair \cup {"unlog"}]

\* The last rename may have happened when its sync fails.
RenameFails ==
    /\ step \in DOMAIN Renames
    /\ Mishap
    /\ \/ UNCHANGED <<pair, old>>
       \/ step = "put2" /\ Moved
    /\ undo' = UndoOf[step]
    /\ step' = "unpublish"
    /\ UNCHANGED <<served, cache, log, staged, body, tx, restart, loaded, checked>>

Published ==
    /\ step = "published"
    /\ staged' = FALSE /\ tx' = "published"
    /\ step' = IF restart THEN "activate" ELSE "commit"
    /\ UNCHANGED <<served, cache, pair, old, log, body, restart, undo, loaded, checked,
                   mishaps>>

-----------------------------------------------------------------------------
(***************************************************************************)
(* Operations of a roll back.  publish_candidate carries all of them out,  *)
(* also after one has failed; rollback keeps the journal then.             *)
(***************************************************************************)
OpFile == [drop1 |-> 1, drop2 |-> 2, back1 |-> 1, back2 |-> 2]
Rank == [drop1 |-> 1, drop2 |-> 2, back1 |-> 3, back2 |-> 4, unlog |-> 5]

\* The operation whose turn it is.
Due(op) == op \in undo /\ \A other \in undo : Rank[op] =< Rank[other]

Done(op) ==
    \/ op = "unlog" /\ log' = "none" /\ UNCHANGED <<pair, old>>
    \/ /\ op \in {"drop1", "drop2"}
       /\ pair' = [pair EXCEPT ![OpFile[op]] = None]
       /\ UNCHANGED <<old, log>>
    \/ /\ op \in {"back1", "back2"}
       /\ pair' = [pair EXCEPT ![OpFile[op]] = old[OpFile[op]]]
       /\ old' = [old EXCEPT ![OpFile[op]] = None]
       /\ UNCHANGED log

CanDo(op) ==
    /\ op = "unlog" => log = "whole"
    /\ op \in {"back1", "back2"} => old[OpFile[op]] # None

Undo ==
    /\ step \in {"unpublish", "rollback"}
    /\ \E op \in undo :
          /\ Due(op) /\ CanDo(op) /\ Done(op)
          /\ undo' = undo \ {op}
    /\ UNCHANGED <<served, cache, staged, body, tx, restart, loaded, step, checked, mishaps>>

\* A drop that fails does not matter: the rename replaces the file.
UndoFails ==
    /\ step \in {"unpublish", "rollback"}
    /\ \E op \in undo :
          /\ Due(op)
          /\ IF CanDo(op) THEN Mishap ELSE Fine
          /\ \/ UNCHANGED log
             \/ op = "unlog" /\ CanDo("unlog") /\ log' = "none"
          /\ IF step = "unpublish" \/ op \in {"drop1", "drop2"}
             THEN undo' = undo \ {op} /\ UNCHANGED step
             ELSE undo' = undo \ {op, "unlog"} /\ step' = "failing"
    /\ UNCHANGED <<served, cache, pair, old, staged, body, tx, restart, loaded, checked>>

\* The rest of restore_pair after a failure inside rollback.
Failing ==
    /\ step = "failing"
    /\ \/ \E op \in undo :
             /\ Due(op)
             /\ IF CanDo(op) THEN Done(op) ELSE UNCHANGED <<pair, old, log>>
             /\ undo' = undo \ {op}
             /\ UNCHANGED <<step, restart, body>>
       \/ /\ undo = {}
          /\ step' = "idle" /\ restart' = FALSE /\ body' = NoBody
          /\ UNCHANGED <<pair, old, log, undo>>
    /\ UNCHANGED <<served, cache, staged, tx, loaded, checked, mishaps>>

Undone ==
    /\ step \in {"unpublish", "rollback"} /\ undo = {}
    /\ staged' = FALSE /\ tx' = "none" /\ Failed
    /\ UNCHANGED <<served, cache, pair, old, log, body, restart, undo, loaded, checked,
                   mishaps>>

-----------------------------------------------------------------------------
(***************************************************************************)
(* update_rule_sets after the publish: the core is started on the new      *)
(* pair, and the transaction committed once it is healthy.                 *)
(***************************************************************************)
RollBack == step' = "rollback" /\ undo' = RestorePair \cup {"unlog"}

Activate ==
    /\ step = "activate"
    /\ \/ loaded' = pair /\ step' = "commit" /\ Fine /\ UNCHANGED undo
       \/ Mishap /\ RollBack /\ UNCHANGED loaded
    /\ UNCHANGED <<served, cache, disk, body, tx, restart, checked>>

Commit ==
    /\ step = "commit"
    /\ log' = "none" /\ step' = "tidy"
    /\ UNCHANGED <<served, cache, pair, old, staged, job, loaded, checked, mishaps>>

\* The journal cannot be removed, or its removal not be made durable.  The core is
\* stopped before the files change; if that fails they stay.
CommitFails ==
    /\ step = "commit" /\ Mishap
    /\ log' \in {"whole", "none"}
    /\ loaded' = <<>>
    /\ \/ RollBack /\ UNCHANGED <<body, restart, tx>>
       \/ loaded # <<>> /\ step' = "idle" /\ UNCHANGED <<undo, tx>>
          /\ restart' = FALSE /\ body' = NoBody
    /\ UNCHANGED <<served, cache, pair, old, staged, checked>>

Tidy ==
    /\ step = "tidy"
    /\ old' = NoBody /\ GiveUp
    /\ UNCHANGED <<served, cache, pair, log, staged, loaded, checked, mishaps>>

\* start: a core needs both files.
Start ==
    /\ step = "start"
    /\ IF None \in {pair[f] : f \in Files}
       THEN Fine /\ UNCHANGED loaded
       ELSE \/ Fine /\ loaded' = pair
            \/ Mishap /\ UNCHANGED loaded
    /\ GiveUp
    /\ UNCHANGED <<served, cache, disk, checked>>

-----------------------------------------------------------------------------
\* The rest of the worker and of the world.
StartCore ==
    /\ step = "idle" /\ loaded = <<>> /\ None \notin {pair[f] : f \in Files}
    /\ loaded' = pair
    /\ UNCHANGED <<served, cache, disk, job, step, checked, mishaps>>

\* A server publishes another version, or goes back to an earlier one.
NewVersion(f) ==
    /\ \E v \in 1..MaxVersion : served' = [served EXCEPT ![f] = v]
    /\ UNCHANGED <<cache, disk, job, loaded, step, checked, mishaps>>

\* What a relaunched worker does to an orphaned core is module WorkerRuntime's.
Kill ==
    /\ step # "down" /\ Mishap
    /\ step' = "down" /\ tx' = "none" /\ body' = NoBody /\ undo' = {}
    /\ restart' = FALSE /\ loaded' = <<>>
    /\ known' = [f \in Files |-> Unread]
    /\ UNCHANGED <<served, cached, disk, checked>>

Steps ==
    \/ \E f \in Files : Recover(f) \/ WriteMetadata(f)
    \/ Recovered \/ CleanUp
    \/ NotModified \/ Modified \/ FetchFails
    \/ Unchanged \/ Prepare \/ PrepareFails \/ StopForUpdate
    \/ CreateJournal \/ WriteJournal \/ JournalFails
    \/ Rename \/ RenameFails \/ Published
    \/ Undo \/ UndoFails \/ Failing \/ Undone
    \/ Activate \/ Commit \/ CommitFails \/ Tidy \/ Start

Next == Steps \/ Update \/ StartCore \/ Kill \/ \E f \in Files : NewVersion(f)

Fairness == WF_vars(Steps)

Spec == Init /\ [][Next]_vars /\ Fairness

-----------------------------------------------------------------------------
\* Files, caches and the transaction have their types.
TypeOK ==
    /\ {served[f] : f \in Files} \subseteq 1..MaxVersion
    /\ {pair[f] : f \in Files} \cup {old[f] : f \in Files} \cup {body[f] : f \in Files}
         \subseteq 0..MaxVersion
    /\ log \in {"none", "torn", "whole"}
    /\ tx \in {"none", "prepared", "published"}

(***************************************************************************)
(* The journal, publish_candidate, rollback and RuleSetStore::open: an     *)
(* idle worker has a pair that sing-box accepted as a pair, never an old   *)
(* file with a new one, and so has the next worker if a journal is left.   *)
(* To lose a file takes two failures, to mix the pairs takes three.        *)
(***************************************************************************)
Lost == \E f \in Files : pair[f] = None

PairIsWhole ==
    step = "idle" /\ mishaps =< 2 =>
      /\ pair \in checked \/ (Lost /\ mishaps = 2)
      /\ log = "whole" => Previous \in checked

(***************************************************************************)
(* update_rule_sets: a core that runs while the worker is idle has read    *)
(* the files that are on disk now, and sing-box has accepted them, short   *)
(* of three failures.                                                      *)
(***************************************************************************)
CoreReadsThePair ==
    step = "idle" /\ loaded # <<>>
        => loaded = pair /\ (loaded \in checked \/ mishaps > 2)

(***************************************************************************)
(* fetch, restore_cache and persist_cache: whatever was lost of the cache, *)
(* an answer "not modified" stands for the body the server has.            *)
(***************************************************************************)
AnswerIsCurrent ==
    \A f \in Files : body'[f] \notin {body[f], None} => body'[f] = served[f]

FetchIsCurrent == [][AnswerIsCurrent]_vars

(***************************************************************************)
(* What the worker has, what its core runs on and what it was told of the  *)
(* servers agree (update_rule_sets).                                       *)
(***************************************************************************)
RuleSetsAreCurrent == [](PairIsWhole /\ CoreReadsThePair) /\ FetchIsCurrent

(***************************************************************************)
(* RuleSetStore::open: a killed worker comes up again, unless it was       *)
(* killed between the creation and the writing of the journal.             *)
(***************************************************************************)
WorkerComesUp == []<>(step = "idle" \/ log = "torn")
=============================================================================
