--------------------------- MODULE ConfigRuntime ---------------------------
(***************************************************************************)
(* The user's configuration and the worker that follows it                 *)
(* (config_reconciler.rs, worker_config.rs, source_config.rs,              *)
(* config_watch.rs and the requests of worker_application.rs that change   *)
(* the configuration).                                                     *)
(*                                                                         *)
(* Three parties write the same two files: the user saves nethop.toml, in  *)
(* the private directory or over the link in the module's directory; the   *)
(* worker commits what a request asks for; and a failed request is rolled  *)
(* back.  A third file, the registry, binds an identity to every           *)
(* subscription source of the configuration in use.  The worker may be     *)
(* killed and a write may fail between any two steps; a write that fails   *)
(* may have replaced its file all the same (atomic_write renames before it *)
(* syncs the directory).                                                   *)
(***************************************************************************)
EXTENDS Integers, Sequences, FiniteSets

CONSTANTS
    Docs,           \* valid documents (a document stands for its digest)
    Bad,            \* a document the parser refuses
    SourcesOf,      \* the sources of a valid document: a name and a URL each
    Shipped,        \* the document the module installs
    MaxEvents       \* bound on saves, requests, failed writes and kills

Link == "link"          \* the module's entry is the link the worker made
Absent == "absent"
WrongLink == "wrong"    \* a link elsewhere, or no regular file
Gone == "gone"          \* no file, or no private directory
Files == Docs \cup {Bad}

VARIABLES
    disk,       \* nethop.toml in the private directory
    entry,      \* nethop.toml in the module's directory
    registry,   \* source-registry.v1.json
    current,    \* ConfigRuntime.current and current_sources
    accepted,   \* history: the last binding accepted, by any worker
    rejected,   \* history: the file the last rejected reload was about
    stray,      \* history: bindings activated by a write that then failed
    missed,     \* history: was the file saved unwatched since it was last read?
    watch,      \* the watches of the watcher thread
    queued,     \* is an event waiting in the inotify queue?
    dirty,
    stage,      \* where the worker is
    work,       \* the change it is making
    events

files == <<disk, entry, registry>>
notices == <<watch, queued, dirty>>
memory == <<current, accepted, rejected>>
history == <<stray, missed>>
vars == <<files, memory, history, notices, stage, work, events>>

\* A RegistryBinding and the SourceConfig made from it; none or one of them.
Ids == 1..12
Bindings == {[doc |-> d, ids |-> i] : d \in Docs,
                i \in UNION {[1..n -> Ids] : n \in 0..3}}
Empty == [active |-> {}, pending |-> {}]

NoWork == [kind |-> "none", doc |-> Bad, prefer |-> <<>>, expected |-> Bad,
           binding |-> {}, promote |-> FALSE,
           base |-> [disk |-> Bad, registry |-> Empty, current |-> {}],
           saved |-> [disk |-> Bad, registry |-> Empty]]

InitAt(place) ==
    /\ disk = Shipped /\ entry = Link
    /\ registry = Empty
    /\ current = {} /\ accepted = {} /\ rejected = {} /\ stray = {} /\ missed = FALSE
    /\ watch = "off" /\ queued = FALSE /\ dirty = FALSE
    /\ stage = place /\ work = NoWork
    /\ events = 0

Init == InitAt("down")

\* A write needs the private directory.
Writable == disk # Gone \/ watch # "lost"

Event(n) == events + n =< MaxEvents /\ events' = events + n
NoEvent == UNCHANGED events

\* Every write of nethop.toml in a watched directory queues an event.
Notify == queued' = (queued \/ watch = "armed") /\ UNCHANGED <<watch, dirty>>

\* atomic_write of nethop.toml fails, with or without having replaced the file.
FailedWrite(doc) ==
    \/ /\ IF Writable THEN Event(1) ELSE NoEvent
       /\ UNCHANGED <<disk, notices>>
    \/ /\ Writable /\ Event(1)
       /\ disk' = doc /\ Notify

\* SourceRegistry::persist: the same of the registry.
FailedPersist(r) ==
    \/ UNCHANGED <<registry, stray>>
    \/ registry' = r /\ stray' = stray \cup (r.active \ registry.active)

-----------------------------------------------------------------------------
(***************************************************************************)
(* Identities.  Sources of a new document are matched one after another    *)
(* with the entries of the active binding: by the identity the request     *)
(* carries, else by URL, else by name; an unmatched one gets a new         *)
(* identity, which is random and so differs from all others.               *)
(***************************************************************************)
IdsIn(bindings) == UNION {{b.ids[i] : i \in DOMAIN b.ids} : b \in bindings}

LiveIds ==
    IdsIn(registry.active \cup registry.pending \cup current \cup accepted
          \cup work.base.registry.active \cup work.saved.registry.active)

Entries(bindings) ==
    UNION {{[id |-> b.ids[i], at |-> i, name |-> SourcesOf[b.doc][i].name,
             url |-> SourcesOf[b.doc][i].url] : i \in DOMAIN b.ids} : b \in bindings}

First(entries) == CHOOSE e \in entries : \A f \in entries : e.at =< f.at

NewId(taken) == CHOOSE i \in Ids \ taken : \A j \in Ids \ taken : i =< j

\* Mutant: the URL is not looked at.
MutMatch(source, free) == {e \in free : e.name = source.name}

Match(source, free) ==
    LET byUrl == {e \in free : source.url # 0 /\ e.url = source.url}
    IN  IF byUrl # {} THEN byUrl ELSE {e \in free : e.name = source.name}

\* The identity of source n after those done.
Identity(doc, prefer, n, done) ==
    LET free == {e \in Entries(registry.active) : e.id \notin {done[i] : i \in DOMAIN done}}
        wanted == {e \in free : prefer # <<>> /\ e.id = prefer[n]}
    IN  IF wanted # {} THEN prefer[n]
        ELSE IF Match(SourcesOf[doc][n], free) # {}
             THEN First(Match(SourcesOf[doc][n], free)).id
             ELSE NewId(LiveIds \cup {done[i] : i \in DOMAIN done})

Identities(doc, prefer) ==
    LET ids[n \in 0..Len(SourcesOf[doc])] ==
            IF n = 0 THEN <<>>
            ELSE CHOOSE s \in {Append(done, Identity(doc, prefer, n, done)) : done \in {ids[n - 1]}} : TRUE
    IN  ids[Len(SourcesOf[doc])]

\* A preferred identity (0 stands for none) must be one of the active binding.
Preferable(prefer) ==
    \A i \in DOMAIN prefer : prefer[i] = 0 \/ prefer[i] \in IdsIn(registry.active)

Matching(bindings, doc) == {b \in bindings : b.doc = doc}

-----------------------------------------------------------------------------
(***************************************************************************)
(* The end of a change.                                                    *)
(***************************************************************************)
Rest == stage' = "idle" /\ work' = NoWork

\* finish_candidate with an error; at the start of the worker it exits.
Reject ==
    /\ rejected' = IF work.kind \in {"watched", "reload"} THEN {disk} ELSE rejected
    /\ IF work.kind = "boot" THEN stage' = "down" /\ work' = NoWork ELSE Rest
    /\ UNCHANGED <<current, accepted>>

\* accept_resolved, and finish_candidate without one.
Accept(binding) ==
    /\ current' = {binding} /\ accepted' = {binding}
    /\ rejected' = {}
    /\ CASE work.kind = "boot" -> stage' = "arming" /\ work' = NoWork
         [] work.kind = "watched" -> Rest
         [] OTHER -> stage' = "commands" /\ UNCHANGED work

-----------------------------------------------------------------------------
(***************************************************************************)
(* The start of a worker: it loads the file, reconciles the registry and   *)
(* then starts the watcher.                                                *)
(***************************************************************************)
Start ==
    /\ stage = "down" /\ disk \in Docs
    /\ stage' = "prepare"
    /\ work' = [NoWork EXCEPT !.kind = "boot", !.doc = disk]
    /\ missed' = FALSE
    /\ UNCHANGED <<files, memory, stray, notices, events>>

\* open_watches succeeded: the worker serves.
Arm ==
    /\ stage = "arming"
    /\ watch' = "armed" /\ stage' = "idle"
    /\ UNCHANGED <<history, files, memory, queued, dirty, work, events>>

\* Mutant: what happens during a change is taken for the worker's own write.
MutObserve ==
    /\ queued
    /\ queued' = FALSE /\ dirty' = (dirty \/ stage = "idle")
    /\ UNCHANGED <<files, memory, history, watch, stage, work, events>>

\* watch_loop: an event for nethop.toml, an overflow or a lost watch.
Observe ==
    /\ queued
    /\ queued' = FALSE /\ dirty' = TRUE
    /\ UNCHANGED <<history, files, memory, watch, stage, work, events>>

\* reinstall_missing_watches once the directory is there again.
Reinstall ==
    /\ watch = "lost" /\ ~queued /\ disk # Gone
    /\ watch' = "armed"
    /\ UNCHANGED <<history, files, memory, queued, dirty, stage, work, events>>

-----------------------------------------------------------------------------
(***************************************************************************)
(* Requests and watched reloads.  A request first takes the checkpoint it  *)
(* may have to roll back to.                                               *)
(***************************************************************************)
Checkpoint == [disk |-> disk, registry |-> registry, current |-> current]

\* reconcile_watched_config
Watched ==
    /\ stage = "idle" /\ dirty
    /\ dirty' = FALSE
    /\ stage' = "entry" /\ work' = [NoWork EXCEPT !.kind = "watched"]
    /\ UNCHANGED <<history, files, memory, watch, queued, events>>

\* config.reload
RequestReload ==
    /\ stage = "idle" /\ disk # Gone /\ Event(1)
    /\ stage' = "entry"
    /\ work' = [NoWork EXCEPT !.kind = "reload", !.base = Checkpoint]
    /\ UNCHANGED <<history, files, memory, notices>>

CurrentDoc == (CHOOSE b \in current : TRUE).doc
CurrentIds == (CHOOSE b \in current : TRUE).ids

\* config.apply: any document; prepare_document compares the digests.
RequestApply(doc) ==
    /\ stage = "idle" /\ disk # Gone /\ Event(1)
    /\ stage' = "prepare"
    /\ work' = [NoWork EXCEPT !.kind = "apply", !.base = Checkpoint,
                              !.doc = doc, !.expected = disk]
    /\ UNCHANGED <<history, files, memory, notices>>

\* The documents a typed mutation makes of the current one, with the identities its
\* sources keep: one updated, one removed, one added at the end, two moved.
Without(s, i) == SubSeq(s, 1, i - 1) \o SubSeq(s, i + 1, Len(s))

Mutations(doc) ==
    LET from == SourcesOf[CurrentDoc]
        to == SourcesOf[doc]
        m == Len(from)
    IN  (IF Len(to) = m THEN {CurrentIds} ELSE {})
        \cup {Append(CurrentIds, 0) : n \in {k \in {m + 1} :
                Len(to) = k /\ SubSeq(to, 1, m) = from}}
        \cup {Without(CurrentIds, i) : i \in {k \in 1..m : to = Without(from, k)}}
        \cup {<<CurrentIds[2], CurrentIds[1]>> : n \in {k \in {2} :
                m = k /\ to = <<from[2], from[1]>>}}

Updated(doc) ==
    LET from == SourcesOf[CurrentDoc]  to == SourcesOf[doc]
    IN  Cardinality({i \in DOMAIN from : from[i] # to[i]}) =< 1

\* service.start and service.stop: the same sources, enabled or not.
RequestService(doc) ==
    /\ stage = "idle" /\ disk = CurrentDoc /\ doc # CurrentDoc /\ Event(1)
    /\ SourcesOf[doc] = SourcesOf[CurrentDoc]
    /\ stage' = "prepare"
    /\ work' = [NoWork EXCEPT !.kind = "service", !.base = Checkpoint,
                              !.doc = doc, !.expected = disk]
    /\ UNCHANGED <<files, memory, history, notices>>

\* config.mutate: only on the document in use.
RequestMutate(doc) ==
    /\ stage = "idle" /\ disk = CurrentDoc /\ doc # CurrentDoc /\ Event(1)
    /\ \E prefer \in Mutations(doc) :
         /\ prefer = CurrentIds => Updated(doc)
         /\ stage' = "prepare"
         /\ work' = [NoWork EXCEPT !.kind = "mutate", !.base = Checkpoint,
                        !.doc = doc, !.expected = disk, !.prefer = prefer]
    /\ UNCHANGED <<history, files, memory, notices>>

-----------------------------------------------------------------------------
(***************************************************************************)
(* reload: first the entry in the module's directory, which an editor may  *)
(* have replaced by a regular file.                                        *)
(***************************************************************************)
Entry ==
    /\ stage = "entry"
    /\ \/ /\ entry = Link
          /\ stage' = "load"
          /\ UNCHANGED <<entry, memory, work, notices>>
       \/ /\ entry = Absent
          /\ entry' = Link /\ Notify
          /\ stage' = "load"
          /\ UNCHANGED <<memory, work>>
       \/ /\ entry \in Docs
          /\ stage' = "bytes"
          /\ UNCHANGED <<entry, memory, work, notices>>
       \/ /\ entry \in {Bad, WrongLink}
          /\ Reject
          /\ UNCHANGED <<entry, notices>>
    /\ UNCHANGED <<history, disk, registry, events>>

\* The candidate was checked; its bytes are read once more.
EntryBytes ==
    /\ stage = "bytes"
    /\ IF entry \in Files /\ disk # Gone
       THEN /\ work' = [work EXCEPT !.doc = entry, !.saved.disk = disk]
            /\ stage' = "import"
            /\ UNCHANGED memory
       ELSE Reject
    /\ UNCHANGED <<history, files, notices, events>>

\* They become the private file ...
EntryImport ==
    /\ stage = "import"
    /\ \/ /\ Writable
          /\ disk' = work.doc /\ Notify
          /\ stage' = "relink"
          /\ UNCHANGED <<memory, work, events>>
       \/ Reject /\ FailedWrite(work.doc)
    /\ UNCHANGED <<history, entry, registry>>

\* ... and the link takes the place of the entry, or the file is put back.
EntryRelink ==
    /\ stage = "relink"
    /\ Notify
    /\ \/ /\ entry' = Link
          /\ stage' = "load"
          /\ UNCHANGED <<disk, memory, work, events>>
       \/ /\ \/ Event(1) /\ disk' = IF disk = Gone THEN Gone ELSE work.saved.disk
             \/ Event(2) /\ UNCHANGED disk
          /\ Reject
          /\ UNCHANGED entry
    /\ UNCHANGED <<history, registry>>

Load ==
    /\ stage = "load"
    /\ missed' = FALSE
    /\ \/ /\ disk \in {Bad, Gone}
          /\ Reject
       \/ /\ disk = CurrentDoc
          /\ rejected' = {}
          /\ IF work.kind = "watched" THEN Rest ELSE stage' = "commands" /\ UNCHANGED work
          /\ UNCHANGED <<current, accepted>>
       \/ /\ disk \in Docs \ {CurrentDoc}
          /\ stage' = "prepare" /\ work' = [work EXCEPT !.doc = disk]
          /\ UNCHANGED memory
    /\ UNCHANGED <<files, stray, notices, events>>

-----------------------------------------------------------------------------
(***************************************************************************)
(* SourceRegistry: the new binding is written ahead as pending.            *)
(***************************************************************************)
AfterPrepare ==
    IF work.kind \in {"boot", "watched", "reload"} THEN "activate" ELSE "check"

WrittenAhead(bindings) == [registry EXCEPT !.pending = bindings]

Prepare ==
    LET known == Matching(registry.active, work.doc)
        ahead == Matching(registry.pending, work.doc)
    IN  /\ stage = "prepare"
        /\ \/ /\ known # {}
              /\ registry' = WrittenAhead({})
              /\ work' = [work EXCEPT !.binding = known, !.promote = FALSE]
              /\ stage' = AfterPrepare
              /\ UNCHANGED <<memory, events, stray>>
           \/ /\ known = {} /\ ahead # {}
              /\ work' = [work EXCEPT !.binding = ahead, !.promote = TRUE]
              /\ stage' = AfterPrepare
              /\ UNCHANGED <<registry, memory, events, stray>>
           \/ /\ known = {} /\ ahead = {} /\ Preferable(work.prefer)
              /\ \E ids \in {Identities(work.doc, work.prefer)} :
                   LET new == [doc |-> work.doc, ids |-> ids]
                   IN  \/ /\ registry' = WrittenAhead({new})
                          /\ work' = [work EXCEPT !.binding = {new}, !.promote = TRUE]
                          /\ stage' = AfterPrepare
                          /\ UNCHANGED <<memory, events, stray>>
                       \/ Event(1) /\ Reject /\ FailedPersist(WrittenAhead({new}))
           \/ \* what was written ahead earlier cannot be taken back
              /\ known # {} /\ registry.pending # {}
              /\ Event(1) /\ Reject /\ FailedPersist(WrittenAhead({}))
           \/ /\ known = {} /\ ahead = {} /\ ~Preferable(work.prefer)
              /\ Reject
              /\ UNCHANGED <<registry, events, stray>>
        /\ UNCHANGED <<missed, disk, entry, notices>>

\* commit_prepared: compare the digest, replace the file, read it back.
CommitCheck ==
    /\ stage = "check"
    /\ work' = [work EXCEPT !.saved = [disk |-> disk, registry |-> registry]]
    /\ stage' = "write"
    /\ disk = work.expected
    /\ UNCHANGED <<history, files, memory, notices, events>>

CommitConflict ==
    /\ stage = "check" /\ disk # work.expected
    /\ Reject
    /\ UNCHANGED <<history, files, notices, events>>

CommitWrite ==
    /\ stage = "write"
    /\ \/ /\ Writable
          /\ disk' = work.doc /\ Notify
          /\ stage' = "verify"
          /\ UNCHANGED <<memory, work, events>>
       \/ Reject /\ FailedWrite(work.doc)
    /\ UNCHANGED <<history, entry, registry>>

CommitVerify ==
    /\ stage = "verify"
    /\ IF disk = work.doc
       THEN stage' = "activate" /\ UNCHANGED <<memory, work>>
       ELSE Reject
    /\ UNCHANGED <<history, files, notices, events>>

Activated(b) == [active |-> {b}, pending |-> {}]

\* SourceRegistry::activate
Activate ==
    /\ stage = "activate"
    /\ \E b \in work.binding :
         \/ /\ ~work.promote
            /\ Accept(b)
            /\ UNCHANGED <<registry, events, stray>>
         \/ /\ work.promote /\ registry.pending = {b}
            /\ registry' = Activated(b)
            /\ Accept(b)
            /\ UNCHANGED <<events, stray>>
         \/ /\ work.promote
            /\ IF registry.pending = {b} THEN Event(1) /\ FailedPersist(Activated(b))
               ELSE NoEvent /\ UNCHANGED <<registry, stray>>
            /\ IF work.kind \in {"apply", "service", "mutate"}
               THEN stage' = "restore" /\ UNCHANGED <<memory, work>>
               ELSE Reject
    /\ UNCHANGED <<missed, disk, entry, notices>>

\* apply_document_with_ids after a failed activate: put both files back.
Restore ==
    /\ stage = "restore"
    /\ Reject
    /\ \/ /\ disk = work.doc
          /\ disk' = work.saved.disk /\ Notify
          /\ \/ registry' = work.saved.registry /\ NoEvent /\ UNCHANGED stray
             \/ FailedPersist(work.saved.registry) /\ Event(1)
       \/ /\ disk = work.doc
          /\ FailedWrite(work.saved.disk)
          /\ UNCHANGED <<registry, stray>>
       \/ /\ disk # work.doc
          /\ UNCHANGED <<disk, registry, stray, notices, events>>
    /\ UNCHANGED <<missed, entry>>

-----------------------------------------------------------------------------
(***************************************************************************)
(* The request's commands are carried out; when they fail the request is   *)
(* rolled back: the file, the registry, then the configuration in use.     *)
(***************************************************************************)
Commands ==
    /\ stage = "commands"
    /\ \/ Rest /\ UNCHANGED events
       \/ Event(1) /\ stage' = "rollback" /\ UNCHANGED work
    /\ UNCHANGED <<history, files, memory, notices>>

RegistryOf(base) == base.registry

\* ConfigRuntime::rollback.  The digest it compares with is the one it just read.
\* That the file cannot be put back after a failure of the registry is ignored.
RollbackFile ==
    /\ stage = "rollback"
    /\ \/ /\ disk # Gone
          /\ disk' = work.base.disk /\ Notify
          /\ work' = [work EXCEPT !.saved.disk = disk]
          /\ stage' = "unregister"
          /\ UNCHANGED events
       \/ /\ IF disk = Gone THEN NoEvent /\ UNCHANGED <<disk, notices>>
             ELSE FailedWrite(work.base.disk)
          /\ Rest
    /\ UNCHANGED <<history, entry, registry, memory>>

RollbackRegistry ==
    /\ stage = "unregister"
    /\ Rest
    /\ \/ /\ Matching(registry.active, CurrentDoc) # {}
          /\ registry' = RegistryOf(work.base)
          /\ current' = work.base.current
          /\ accepted' = work.base.current
          /\ UNCHANGED <<disk, notices, events, stray>>
       \/ LET known == Matching(registry.active, CurrentDoc) # {}
              Events(n) == Event(IF known THEN n + 1 ELSE n)
          IN  /\ IF known THEN FailedPersist(RegistryOf(work.base))
                 ELSE UNCHANGED <<registry, stray>>
              /\ \/ /\ disk = work.base.disk
                    /\ disk' = work.saved.disk /\ Notify /\ Events(0)
                 \/ /\ Events(IF disk = work.base.disk THEN 1 ELSE 0)
                    /\ UNCHANGED <<disk, notices>>
              /\ UNCHANGED <<current, accepted>>
    /\ UNCHANGED <<missed, entry, rejected>>

-----------------------------------------------------------------------------
(***************************************************************************)
(* The rest of the world.                                                  *)
(***************************************************************************)
SaveFile(doc) ==
    /\ doc # disk /\ Event(1)
    /\ disk' = doc /\ Notify
    /\ missed' = (missed \/ watch # "armed")
    /\ UNCHANGED <<entry, registry, memory, stray, stage, work>>

SaveEntry(what) ==
    /\ what # entry /\ Event(1)
    /\ entry' = what /\ Notify
    /\ UNCHANGED <<history, disk, registry, memory, stage, work>>

\* The private directory is removed: inotify drops the watch and says so.
RemoveDirectory ==
    /\ watch = "armed" /\ Event(1)
    /\ disk' = Gone
    /\ watch' = "lost" /\ queued' = TRUE
    /\ UNCHANGED <<history, entry, registry, memory, dirty, stage, work>>

Kill ==
    /\ stage # "down" /\ Event(1)
    /\ stage' = "down" /\ work' = NoWork
    /\ current' = {} /\ missed' = FALSE
    /\ watch' = "off" /\ queued' = FALSE /\ dirty' = FALSE
    /\ UNCHANGED <<files, accepted, rejected, stray>>

Steps ==
    \/ Start \/ Arm \/ Observe \/ Reinstall \/ Watched
    \/ Entry \/ EntryBytes \/ EntryImport \/ EntryRelink \/ Load
    \/ Prepare \/ CommitCheck \/ CommitConflict \/ CommitWrite \/ CommitVerify
    \/ Activate \/ Restore \/ Commands \/ RollbackFile \/ RollbackRegistry

Next ==
    \/ Start \/ Arm \/ Observe \/ Reinstall \/ Watched
    \/ RequestReload
    \/ \E doc \in Docs : RequestApply(doc) \/ RequestService(doc) \/ RequestMutate(doc)
    \/ Entry \/ EntryBytes \/ EntryImport \/ EntryRelink \/ Load
    \/ Prepare \/ CommitCheck \/ CommitConflict \/ CommitWrite \/ CommitVerify
    \/ Activate \/ Restore \/ Commands \/ RollbackFile \/ RollbackRegistry
    \/ \E doc \in Files \cup {Gone} : SaveFile(doc)
    \/ \E what \in Files \cup {Absent, WrongLink} : SaveEntry(what)
    \/ RemoveDirectory \/ Kill

Fairness == WF_vars(Steps)

Spec == Init /\ [][Next]_vars /\ Fairness

-----------------------------------------------------------------------------
(***************************************************************************)
(* Files, bindings and the configuration in use have their types; a        *)
(* binding has one identity per source and no identity twice               *)
(* (RegistryState::validate).                                              *)
(***************************************************************************)
TypeOK ==
    /\ disk \in Files \cup {Gone} /\ entry \in Files \cup {Link, Absent, WrongLink}
    /\ \A b \in registry.active \cup registry.pending \cup current \cup accepted :
         /\ b.doc \in Docs /\ Len(b.ids) = Len(SourcesOf[b.doc])
         /\ \A i, j \in DOMAIN b.ids : i # j => b.ids[i] # b.ids[j]
    /\ Cardinality(registry.active) =< 1 /\ Cardinality(registry.pending) =< 1
    /\ Cardinality(current) =< 1

(***************************************************************************)
(* The registry on disk is not the one accepted last: a write of it that   *)
(* activates another binding was reported as failed and was not undone.    *)
(***************************************************************************)
Astray ==
    /\ registry.active \notin {{}, accepted}
    /\ registry.active \subseteq stray

(***************************************************************************)
(* SourceRegistry::activate and the two roll backs: when no change is in   *)
(* progress, the registry on disk is bound to the configuration in use, so *)
(* that a worker killed now comes back with the same identities.  The one  *)
(* exception is a registry left by a write that failed after its rename.   *)
(***************************************************************************)
RegistryFollows == stage = "idle" => registry.active = current \/ Astray

\* Another URL has come to source i's name before source j of the new document.
NameTaken(old, i, new, j) ==
    \E n \in 1..(j - 1) :
      /\ SourcesOf[new][n].name = SourcesOf[old][i].name
      /\ \A m \in DOMAIN SourcesOf[old] : SourcesOf[new][n].url # SourcesOf[old][m].url

(***************************************************************************)
(* prepare_with_preferred_ids: from one accepted configuration to the      *)
(* next, also across a kill and a roll back, a source that keeps its URL   *)
(* keeps its identity.  The sources are matched one after another, so one  *)
(* that comes before it with its name and a new URL takes the identity;    *)
(* and a registry gone astray gives the identities of a document that was  *)
(* never accepted.                                                         *)
(***************************************************************************)
SameUrlSameId ==
    ~Astray => \A a \in accepted, b \in accepted' :
      \A i \in DOMAIN a.ids, j \in DOMAIN b.ids :
        /\ SourcesOf[a.doc][i].url = SourcesOf[b.doc][j].url
        /\ SourcesOf[a.doc][i].url # 0
        /\ ~NameTaken(a.doc, i, b.doc, j) /\ ~NameTaken(b.doc, j, a.doc, i)
        => a.ids[i] = b.ids[j]

UrlKeepsIdentity == [][SameUrlSameId]_accepted

Settled == disk \in Docs => (current # {} /\ CurrentDoc = disk) \/ disk \in rejected

(***************************************************************************)
(* reconcile_watched_config: again and again the configuration in use is   *)
(* the one in the file, or a reload has rejected the file, unless it was   *)
(* saved while its directory was not watched.                              *)
(***************************************************************************)
FileIsFollowed == []<>(Settled \/ missed)

=============================================================================
