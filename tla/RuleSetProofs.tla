--------------------------- MODULE RuleSetProofs ----------------------------
(***************************************************************************)
(* Proofs about the pair of rule sets, for every number of versions, of    *)
(* failures and of kills.                                                  *)
(***************************************************************************)
EXTENDS RuleSets, TLAPS

Waiting == {"idle", "fetch1", "fetch2", "meta1", "meta2", "prepare"}
Ready == {"stop", "create", "journal"}
Renaming == {"save1", "save2", "put1", "put2", "published", "activate", "commit"}
Undoing == {"unpublish", "rollback", "failing"}
Places == Waiting \cup Ready \cup Renaming \cup Undoing \cup {"start", "tidy", "down"}

Ops == {"drop1", "drop2", "back1", "back2", "unlog"}

Pairs == [Files -> Nat]

Shape ==
    /\ pair \in Pairs /\ old \in Pairs /\ body \in Pairs
    /\ served \in [Files -> Nat \ {None}]
    /\ log \in {"none", "torn", "whole"}
    /\ tx \in {"none", "prepared", "published"}
    /\ step \in Places
    /\ undo \subseteq Ops
    /\ mishaps \in Nat

\* What the place in the code says of the transaction.
Control ==
    /\ step \in (Waiting \ {"idle"}) \cup {"start", "down"} => tx = "none"
    /\ step = "idle" => tx # "prepared"
    /\ step \in Ready => tx = "prepared" /\ ~Lost /\ body \in checked
    /\ step = "journal" => log = "torn"
    /\ step \in Renaming => log = "whole" /\ body \in checked
    /\ step \in {"activate", "commit", "rollback", "failing"} => tx = "published"
    /\ step \in {"save1", "save2", "put1", "put2", "published", "unpublish"}
         => tx = "prepared"
    /\ step = "tidy" => log = "none"
    /\ step \in Undoing => mishaps > 0

\* The core has read the files that are there, and none moves under it.
LoadedInv ==
    /\ loaded # <<>> => loaded = pair
    /\ step \in (Renaming \ {"commit"}) \cup Undoing \cup {"create", "journal", "down"}
         => loaded = <<>>

\* An entry of the cache describes its own body.
CacheInv ==
    /\ known = [f \in Files |-> known[f]]
    /\ \A f \in Files : known[f] = Unread \/ known[f].body = known[f].etag

-----------------------------------------------------------------------------
(* Where the files are while they are renamed, and while that is undone,   *)
(* short of three failures.                                                *)

\* The files of the old pair are all kept; a new file is in place.
AllKept == \A f \in Files : old[f] # None
InPlace(f) == old[f] # None /\ pair[f] # None

Sound == pair \in checked \/ (Lost /\ mishaps = 2)

RenamingInv ==
    /\ step = "save1" => old = NoBody /\ ~Lost
    /\ step = "save2" => /\ pair[1] = None /\ old[1] # None
                         /\ pair[2] # None /\ old[2] = None
    /\ step = "put1" => AllKept /\ pair[1] = None /\ pair[2] = None
    /\ step = "put2" => AllKept /\ pair[1] = body[1] /\ pair[2] = None
    /\ step \in {"published", "activate", "commit"} => AllKept /\ pair = body
    /\ step = "tidy" => pair \in checked

\* The operations that are left, whatever has failed of the others.
AllOps == RestorePair \cup {"unlog"}
AllButOne == {"drop2", "back1", "back2", "unlog"}

BeforeDrops == AllKept
BetweenDrops == AllKept /\ (pair[1] # None => mishaps = 2)
AfterDrops ==
    /\ AllKept
    /\ InPlace(1) \/ InPlace(2) => mishaps = 2
    /\ ~(InPlace(1) /\ InPlace(2))

UnpublishInv ==
    /\ undo # {} => log = "whole"
    /\ undo = {} => Sound /\ (log # "whole" /\ ~Lost => old = NoBody)
    /\ \/ undo = AllOps /\ BeforeDrops
       \/ undo = AllButOne /\ BetweenDrops
       \/ undo = {"back1", "back2", "unlog"} /\ AfterDrops
       \/ /\ undo = {"back2", "unlog"} /\ old[2] # None
          /\ old[1] = None \/ (pair[1] = None /\ pair[2] = None /\ mishaps = 2)
          /\ pair[2] # None => mishaps = 2
       \/ /\ undo = {"back1", "unlog"}
          /\ old[1] # None /\ pair[1] = None /\ old[2] = None
       \/ /\ undo = {"unlog"}
          /\ \A f \in Files : old[f] = None \/ (pair[f] = None /\ mishaps = 2)
       \/ undo = {}

RollbackInv ==
    /\ Previous \in checked
    /\ log # "whole" => pair \in checked \/ Lost \/ mishaps = 2
    /\ \/ undo = AllOps /\ BeforeDrops
       \/ undo = AllButOne /\ BetweenDrops
       \/ undo = {"back1", "back2", "unlog"} /\ AfterDrops
       \/ /\ undo = {"back2", "unlog"} /\ old[2] # None /\ old[1] = None
          /\ pair[2] # None => mishaps = 2
       \/ undo \in {{"unlog"}, {}} /\ old = NoBody

FailingInv ==
    \/ /\ undo = {"back2"} /\ AllKept
       /\ pair[1] = None /\ mishaps = 2
    \/ undo = {} /\ Sound

RestInv ==
    /\ step \in Waiting \cup Ready \cup {"start"} =>
         /\ Sound
         /\ tx # "published" /\ log # "whole" /\ ~Lost => old = NoBody
    /\ step = "down" /\ log # "whole" => Sound

FilesInv ==
    mishaps =< 2 =>
      /\ log = "whole" => Previous \in checked
      /\ RestInv
      /\ RenamingInv
      /\ step = "unpublish" => UnpublishInv
      /\ step = "rollback" => RollbackInv
      /\ step = "failing" => FailingInv

\* The core has started on a pair that sing-box accepted.
AcceptedInv == mishaps =< 2 /\ loaded # <<>> => pair \in checked

IInv == Shape /\ Control /\ LoadedInv /\ CacheInv /\ FilesInv /\ AcceptedInv
-----------------------------------------------------------------------------
\* The tables of the fetches and of the renames.
LEMMA Tables ==
    /\ DOMAIN Fetching = {"fetch1", "fetch2"}
    /\ Fetching["fetch1"] = 1 /\ Fetching["fetch2"] = 2
    /\ DOMAIN Renames = {"save1", "save2", "put1", "put2"}
    /\ Renames["save1"] = "save2" /\ Renames["save2"] = "put1"
    /\ Renames["put1"] = "put2" /\ Renames["put2"] = "published"
    /\ FileOf["save1"] = 1 /\ FileOf["save2"] = 2
    /\ FileOf["put1"] = 1 /\ FileOf["put2"] = 2
  BY DEF Fetching, Renames, FileOf

\* What an operation of a roll back does.
LEMMA DoneIs ==
    ASSUME NEW op \in Ops, Done(op)
    PROVE  /\ op = "drop1" => pair' = [pair EXCEPT ![1] = None]
           /\ op = "drop2" => pair' = [pair EXCEPT ![2] = None]
           /\ op = "back1" => /\ pair' = [pair EXCEPT ![1] = old[1]]
                              /\ old' = [old EXCEPT ![1] = None]
           /\ op = "back2" => /\ pair' = [pair EXCEPT ![2] = old[2]]
                              /\ old' = [old EXCEPT ![2] = None]
           /\ op = "unlog" => log' = "none" /\ pair' = pair
           /\ op \notin {"back1", "back2"} => old' = old
           /\ op # "unlog" => log' = log
  BY DEF Ops, Done, OpFile

\* An entry of the cache with the server's validator has the server's body.
LEMMA EntryIsCurrent ==
    ASSUME Shape, CacheInv, NEW f \in Files, CacheEntry(f).etag = served[f]
    PROVE  CacheEntry(f).body = served[f]
<1>1. served[f] # -1
  BY DEF Shape
<1>2. CASE known[f] = Unread
  BY <1>2 DEF CacheEntry, FromDisk, Entry
<1>3. CASE known[f] # Unread
  BY <1>3 DEF CacheEntry, CacheInv
<1> QED
  BY <1>2, <1>3

\* Every step keeps the shape of the state.
LEMMA ShapeStep == IInv /\ [Next]_vars => Shape'
<1> SUFFICES ASSUME IInv, [Next]_vars PROVE Shape'
  OBVIOUS
<1> USE Tables
    DEF IInv, Shape, Pairs, Places, Waiting, Ready, Renaming, Undoing, Ops, Files,
        None, NoBody, Fine, Mishap, cache, disk, job
<1>o. RestorePair \cup {"unlog"} \subseteq Ops
  BY DEF RestorePair
<1>u. undo' \subseteq Ops
  <2>1. \/ undo' \in {undo, {}, RestorePair \cup {"unlog"}}
        \/ \E op \in undo : undo' \in {undo \ {op}, undo \ {op, "unlog"}}
        \/ RenameFails
    BY Zenon
       DEF Next, Steps, Recover, WriteMetadata, Recovered, CleanUp, NotModified,
           Modified, FetchFails, Unchanged, Prepare, PrepareFails, StopForUpdate,
           CreateJournal, WriteJournal, JournalFails, Rename, Published, Undo,
           UndoFails, Failing, Undone, Activate, Commit, CommitFails, Tidy, Start,
           Update, StartCore, Kill, NewVersion, GiveUp, RollBack, vars
  <2>2. CASE RenameFails
    BY <2>2, <1>o DEF RenameFails, UndoOf
  <2> QED
    BY <2>1, <2>2, <1>o, Zenon
<1>1. ASSUME NEW f \in Files, Recover(f) PROVE Shape'
  BY <1>1 DEF Recover, Restored
<1>2. ASSUME NEW f \in Files, WriteMetadata(f) PROVE Shape'
  BY <1>2 DEF WriteMetadata, AfterFetch
<1>3. CASE Recovered
  BY <1>3 DEF Recovered
<1>4. CASE CleanUp
  BY <1>4 DEF CleanUp
<1>5. CASE NotModified
  <2> DEFINE f == Fetching[step]
  <2>1. f \in Files /\ CacheEntry(f).body = served[f]
    BY <1>5, EntryIsCurrent DEF NotModified
  <2>2. body' = [body EXCEPT ![f] = served[f]] /\ step' = AfterFetch(f)
    BY <1>5, <2>1 DEF NotModified
  <2> QED
    BY <1>5, <2>1, <2>2 DEF NotModified, AfterFetch
<1>6. CASE Modified
  BY <1>6 DEF Modified, CacheEntry, Entry, AfterFetch
<1>7. CASE FetchFails
  BY <1>7 DEF FetchFails, GiveUp
<1>8. CASE Unchanged
  BY <1>8 DEF Unchanged, GiveUp
<1>9. CASE Prepare
  BY <1>9 DEF Prepare
<1>10. CASE PrepareFails
  BY <1>10 DEF PrepareFails, GiveUp
<1>11. CASE StopForUpdate
  <2>1. \/ Fine /\ step' = "create" /\ UNCHANGED job
        \/ Mishap /\ GiveUp
    BY <1>11, Zenon DEF StopForUpdate
  <2>2. UNCHANGED <<served, pair, old, log>>
    BY <1>11 DEF StopForUpdate
  <2>3. body' \in Pairs /\ tx' \in {"none", "prepared", "published"}
    BY <2>1 DEF GiveUp
  <2>4. step' \in Places /\ mishaps' \in Nat
    BY <2>1 DEF GiveUp
  <2> QED
    BY <1>u, <2>2, <2>3, <2>4
<1>12. CASE CreateJournal
  BY <1>12 DEF CreateJournal
<1>13. CASE WriteJournal
  BY <1>13 DEF WriteJournal
<1>14. CASE JournalFails
  BY <1>14 DEF JournalFails, Failed
<1>15. CASE Rename
  BY <1>15 DEF Rename, Moved
<1>16. CASE RenameFails
  BY <1>16 DEF RenameFails, Moved, UndoOf, RestorePair
<1>17. CASE Published
  BY <1>17 DEF Published
<1>18. CASE Undo
  BY <1>u, <1>18, DoneIs DEF Undo
<1>19. CASE UndoFails
  <2>1. mishaps' \in Nat
    BY <1>19 DEF UndoFails
  <2>2. log' \in {"none", "torn", "whole"} /\ step' \in Places
    BY <1>19 DEF UndoFails
  <2> QED
    BY <1>u, <1>19, <2>1, <2>2 DEF UndoFails
<1>20. CASE Failing
  <2>1. step' \in Places /\ body' \in Pairs
    BY <1>20 DEF Failing
  <2>2. pair' \in Pairs /\ old' \in Pairs /\ log' \in {"none", "torn", "whole"}
    BY <1>20, DoneIs DEF Failing
  <2> QED
    BY <1>u, <1>20, <2>1, <2>2 DEF Failing
<1>21. CASE Undone
  BY <1>21 DEF Undone, Failed
<1>22. CASE Activate
  <2>1. step' \in Places /\ mishaps' \in Nat
    BY <1>22 DEF Activate, RollBack
  <2> QED
    BY <1>u, <1>22, <2>1 DEF Activate
<1>23. CASE Commit
  BY <1>23 DEF Commit
<1>24. CASE CommitFails
  <2>1. step' \in Places /\ mishaps' \in Nat
    BY <1>24 DEF CommitFails, RollBack
  <2>2. body' \in Pairs /\ tx' = tx /\ log' \in {"none", "torn", "whole"}
    BY <1>24 DEF CommitFails
  <2> QED
    BY <1>u, <1>24, <2>1, <2>2 DEF CommitFails
<1>25. CASE Tidy
  BY <1>25 DEF Tidy, GiveUp
<1>26. CASE Start
  BY <1>26 DEF Start, GiveUp
<1>27. CASE Update
  BY <1>27 DEF Update
<1>28. CASE StartCore
  BY <1>28 DEF StartCore
<1>29. CASE Kill
  BY <1>29 DEF Kill
<1>30. ASSUME NEW f \in Files, NewVersion(f) PROVE Shape'
  BY <1>30 DEF NewVersion
<1>31. CASE UNCHANGED vars
  BY <1>31 DEF vars
<1> QED
  BY <1>1, <1>2, <1>3, <1>4, <1>5, <1>6, <1>7, <1>8, <1>9, <1>10, <1>11,
     <1>12, <1>13, <1>14, <1>15, <1>16, <1>17, <1>18, <1>19, <1>20, <1>21,
     <1>22, <1>23, <1>24, <1>25, <1>26, <1>27, <1>28, <1>29, <1>30, <1>31, Zenon
     DEF Next, Steps

\* Every step keeps what the place says of the transaction.
LEMMA ControlStep == IInv /\ [Next]_vars => Control'
<1> SUFFICES ASSUME IInv, [Next]_vars PROVE Control'
  OBVIOUS
<1> USE Tables
    DEF IInv, Shape, Pairs, Places, Waiting, Ready, Renaming, Undoing, Files, None,
        Lost, Fine, Mishap, cache, disk, job, Control
<1>1. ASSUME NEW f \in Files, Recover(f) PROVE Control'
  BY <1>1 DEF Recover, Restored
<1>2. ASSUME NEW f \in Files, WriteMetadata(f) PROVE Control'
  BY <1>2 DEF WriteMetadata, AfterFetch
<1>3. CASE Recovered
  BY <1>3 DEF Recovered
<1>4. CASE CleanUp
  BY <1>4 DEF CleanUp
<1>5. CASE NotModified
  BY <1>5 DEF NotModified, AfterFetch
<1>6. CASE Modified
  BY <1>6 DEF Modified, AfterFetch
<1>7. CASE FetchFails
  BY <1>7 DEF FetchFails, GiveUp
<1>8. CASE Unchanged
  BY <1>8 DEF Unchanged, GiveUp
<1>9. CASE Prepare
  BY <1>9 DEF Prepare
<1>10. CASE PrepareFails
  BY <1>10 DEF PrepareFails, GiveUp
<1>11. CASE StopForUpdate
  BY <1>11 DEF StopForUpdate, GiveUp
<1>12. CASE CreateJournal
  BY <1>12 DEF CreateJournal
<1>13. CASE WriteJournal
  BY <1>13 DEF WriteJournal
<1>14. CASE JournalFails
  BY <1>14 DEF JournalFails, Failed
<1>15. CASE Rename
  BY <1>15 DEF Rename, Moved
<1>16. CASE RenameFails
  BY <1>16 DEF RenameFails, Moved
<1>17. CASE Published
  BY <1>17 DEF Published
<1>18. CASE Undo
  BY <1>18, DoneIs DEF Undo
<1>19. CASE UndoFails
  BY <1>19 DEF UndoFails
<1>20. CASE Failing
  BY <1>20, DoneIs DEF Failing
<1>21. CASE Undone
  BY <1>21 DEF Undone, Failed
<1>22. CASE Activate
  BY <1>22 DEF Activate, RollBack
<1>23. CASE Commit
  BY <1>23 DEF Commit
<1>24. CASE CommitFails
  BY <1>24 DEF CommitFails, RollBack
<1>25. CASE Tidy
  BY <1>25 DEF Tidy, GiveUp
<1>26. CASE Start
  BY <1>26 DEF Start, GiveUp
<1>27. CASE Update
  BY <1>27 DEF Update
<1>28. CASE StartCore
  BY <1>28 DEF StartCore
<1>29. CASE Kill
  BY <1>29 DEF Kill
<1>30. ASSUME NEW f \in Files, NewVersion(f) PROVE Control'
  BY <1>30 DEF NewVersion
<1>31. CASE UNCHANGED vars
  BY <1>31, Zenon DEF vars
<1> QED
  BY <1>1, <1>2, <1>3, <1>4, <1>5, <1>6, <1>7, <1>8, <1>9, <1>10, <1>11,
     <1>12, <1>13, <1>14, <1>15, <1>16, <1>17, <1>18, <1>19, <1>20, <1>21,
     <1>22, <1>23, <1>24, <1>25, <1>26, <1>27, <1>28, <1>29, <1>30, <1>31, Zenon
     DEF Next, Steps

\* No step moves a file under the core.
LEMMA LoadedStep == IInv /\ [Next]_vars => LoadedInv'
<1> SUFFICES ASSUME IInv, [Next]_vars PROVE LoadedInv'
  OBVIOUS
<1> USE Tables
    DEF IInv, Shape, Pairs, Places, Waiting, Ready, Renaming, Undoing, Files, None,
        cache, disk, job, Control, LoadedInv
<1>1. ASSUME NEW f \in Files, Recover(f) PROVE LoadedInv'
  BY <1>1 DEF Recover, Restored
<1>2. ASSUME NEW f \in Files, WriteMetadata(f) PROVE LoadedInv'
  BY <1>2 DEF WriteMetadata, AfterFetch
<1>3. CASE Recovered
  BY <1>3 DEF Recovered
<1>4. CASE CleanUp
  BY <1>4 DEF CleanUp
<1>5. CASE NotModified
  BY <1>5 DEF NotModified, AfterFetch
<1>6. CASE Modified
  BY <1>6 DEF Modified, AfterFetch
<1>7. CASE FetchFails
  BY <1>7 DEF FetchFails, GiveUp
<1>8. CASE Unchanged
  BY <1>8 DEF Unchanged, GiveUp
<1>9. CASE Prepare
  BY <1>9 DEF Prepare
<1>10. CASE PrepareFails
  BY <1>10 DEF PrepareFails, GiveUp
<1>11. CASE StopForUpdate
  BY <1>11 DEF StopForUpdate, GiveUp
<1>12. CASE CreateJournal
  BY <1>12 DEF CreateJournal
<1>13. CASE WriteJournal
  BY <1>13 DEF WriteJournal
<1>14. CASE JournalFails
  BY <1>14 DEF JournalFails, Failed
<1>15. CASE Rename
  BY <1>15 DEF Rename, Moved
<1>16. CASE RenameFails
  BY <1>16 DEF RenameFails, Moved
<1>17. CASE Published
  BY <1>17 DEF Published
<1>18. CASE Undo
  BY <1>18, DoneIs DEF Undo
<1>19. CASE UndoFails
  BY <1>19 DEF UndoFails
<1>20. CASE Failing
  BY <1>20, DoneIs DEF Failing
<1>21. CASE Undone
  BY <1>21 DEF Undone, Failed
<1>22. CASE Activate
  BY <1>22 DEF Activate, RollBack
<1>23. CASE Commit
  BY <1>23 DEF Commit
<1>24. CASE CommitFails
  BY <1>24 DEF CommitFails, RollBack
<1>25. CASE Tidy
  BY <1>25 DEF Tidy, GiveUp
<1>26. CASE Start
  BY <1>26 DEF Start, GiveUp
<1>27. CASE Update
  BY <1>27 DEF Update
<1>28. CASE StartCore
  BY <1>28 DEF StartCore
<1>29. CASE Kill
  BY <1>29 DEF Kill
<1>30. ASSUME NEW f \in Files, NewVersion(f) PROVE LoadedInv'
  BY <1>30 DEF NewVersion
<1>31. CASE UNCHANGED vars
  BY SMTT(30), <1>31 DEF vars
<1> QED
  BY <1>1, <1>2, <1>3, <1>4, <1>5, <1>6, <1>7, <1>8, <1>9, <1>10, <1>11,
     <1>12, <1>13, <1>14, <1>15, <1>16, <1>17, <1>18, <1>19, <1>20, <1>21,
     <1>22, <1>23, <1>24, <1>25, <1>26, <1>27, <1>28, <1>29, <1>30, <1>31
     DEF Next, Steps

\* Every step keeps the cache.
LEMMA CacheStep == IInv /\ [Next]_vars => CacheInv'
<1> SUFFICES ASSUME IInv, [Next]_vars PROVE CacheInv'
  OBVIOUS
<1> USE Tables DEF IInv, Shape, Files, cache, disk, job, CacheInv
<1>1. ASSUME NEW f \in Files, Recover(f) PROVE CacheInv'
  BY <1>1 DEF Recover, Restored
<1>2. ASSUME NEW f \in Files, WriteMetadata(f) PROVE CacheInv'
  BY <1>2 DEF WriteMetadata, AfterFetch
<1>3. CASE Recovered
  BY <1>3 DEF Recovered
<1>4. CASE CleanUp
  BY <1>4 DEF CleanUp
<1>5. CASE NotModified
  BY ZenonT(60), <1>5, EntryIsCurrent DEF NotModified, AfterFetch
<1>6. CASE Modified
  BY <1>6, Zenon DEF Modified, Entry
<1>7. CASE FetchFails
  BY <1>7 DEF FetchFails, GiveUp
<1>8. CASE Unchanged
  BY <1>8 DEF Unchanged, GiveUp
<1>9. CASE Prepare
  BY <1>9 DEF Prepare
<1>10. CASE PrepareFails
  BY <1>10 DEF PrepareFails, GiveUp
<1>11. CASE StopForUpdate
  BY <1>11 DEF StopForUpdate, GiveUp
<1>12. CASE CreateJournal
  BY <1>12 DEF CreateJournal
<1>13. CASE WriteJournal
  BY <1>13 DEF WriteJournal
<1>14. CASE JournalFails
  BY <1>14 DEF JournalFails, Failed
<1>15. CASE Rename
  BY <1>15 DEF Rename, Moved
<1>16. CASE RenameFails
  BY <1>16 DEF RenameFails, Moved
<1>17. CASE Published
  BY <1>17 DEF Published
<1>18. CASE Undo
  BY <1>18 DEF Undo
<1>19. CASE UndoFails
  BY <1>19 DEF UndoFails
<1>20. CASE Failing
  BY <1>20 DEF Failing
<1>21. CASE Undone
  BY <1>21 DEF Undone, Failed
<1>22. CASE Activate
  BY <1>22 DEF Activate, RollBack
<1>23. CASE Commit
  BY <1>23 DEF Commit
<1>24. CASE CommitFails
  BY <1>24 DEF CommitFails, RollBack
<1>25. CASE Tidy
  BY <1>25 DEF Tidy, GiveUp
<1>26. CASE Start
  BY <1>26 DEF Start, GiveUp
<1>27. CASE Update
  BY <1>27 DEF Update
<1>28. CASE StartCore
  BY <1>28 DEF StartCore
<1>29. CASE Kill
  BY <1>29 DEF Kill
<1>30. ASSUME NEW f \in Files, NewVersion(f) PROVE CacheInv'
  BY <1>30 DEF NewVersion
<1>31. CASE UNCHANGED vars
  BY <1>31 DEF vars
<1> QED
  BY <1>1, <1>2, <1>3, <1>4, <1>5, <1>6, <1>7, <1>8, <1>9, <1>10, <1>11,
     <1>12, <1>13, <1>14, <1>15, <1>16, <1>17, <1>18, <1>19, <1>20, <1>21,
     <1>22, <1>23, <1>24, <1>25, <1>26, <1>27, <1>28, <1>29, <1>30, <1>31
     DEF Next, Steps

-----------------------------------------------------------------------------
\* The order of the operations.
LEMMA DueIs ==
    ASSUME undo \subseteq Ops, NEW op, Due(op)
    PROVE  /\ op \in undo
           /\ "drop1" \in undo => op = "drop1"
           /\ "drop1" \notin undo /\ "drop2" \in undo => op = "drop2"
           /\ "drop1" \notin undo /\ "drop2" \notin undo /\ "back1" \in undo
                => op = "back1"
           /\ undo = {"back2", "unlog"} => op = "back2"
<1>1. /\ Rank["drop1"] = 1 /\ Rank["drop2"] = 2 /\ Rank["back1"] = 3
      /\ Rank["back2"] = 4 /\ Rank["unlog"] = 5
  BY DEF Rank
<1>2. op \in Ops /\ op \in undo /\ \A other \in undo : Rank[op] =< Rank[other]
  BY DEF Due
<1> QED
  BY <1>1, <1>2 DEF Ops

\* The pair a journal leads back to stays when no file of it changes, and is
\* the pair in use when nothing of it is kept aside.
LEMMA PreviousStays ==
    ASSUME \A f \in Files : Restored(f)' = Restored(f)
    PROVE  Previous' = Previous
  BY DEF Previous

LEMMA PreviousIsPair ==
    ASSUME pair \in Pairs, old = NoBody
    PROVE  Previous = pair
  BY DEF Previous, Restored, NoBody, Pairs

\* What is to be shown of the files, by the place the step leads to.
LEMMA ArrivesAtRest ==
    ASSUME step' \in Waiting \cup Ready \cup {"start"},
           log' = "whole" => Previous' \in checked',
           Sound',
           tx' # "published" /\ log' # "whole" /\ ~Lost' => old' = NoBody
    PROVE  FilesInv'
  BY DEF FilesInv, RestInv, RenamingInv, Waiting, Ready

LEMMA ArrivesDown ==
    ASSUME step' = "down",
           log' = "whole" => Previous' \in checked',
           log' # "whole" /\ mishaps' =< 2 => Sound'
    PROVE  FilesInv'
  BY DEF FilesInv, RestInv, RenamingInv, Waiting, Ready

LEMMA ArrivesAtRename ==
    ASSUME step' \in Renaming \cup {"tidy"},
           log' = "whole" => Previous' \in checked',
           RenamingInv'
    PROVE  FilesInv'
  BY DEF FilesInv, RestInv, Renaming, Waiting, Ready

LEMMA ArrivesAtUndo ==
    ASSUME step' \in Undoing,
           log' = "whole" => Previous' \in checked',
           step' = "unpublish" => UnpublishInv',
           step' = "rollback" => RollbackInv',
           step' = "failing" => FailingInv'
    PROVE  FilesInv'
  BY DEF FilesInv, RestInv, RenamingInv, Undoing, Waiting, Ready

Resting == Waiting \cup Ready \cup {"start"}

LEMMA StaysAtRest ==
    ASSUME IInv, mishaps' =< 2, mishaps' \in {mishaps, mishaps + 1},
           step \in Resting, step' \in Resting,
           UNCHANGED <<pair, old>>, checked \subseteq checked',
           log' = log \/ (log # "whole" /\ log' # "whole"),
           tx' # "published" => tx # "published"
    PROVE  FilesInv'
<1>1. mishaps \in Nat /\ mishaps =< 2
  BY DEF IInv, Shape
<1>2. RestInv /\ (log = "whole" => Previous \in checked)
  BY <1>1 DEF IInv, FilesInv
<1>3. Sound /\ (tx # "published" /\ log # "whole" /\ ~Lost => old = NoBody)
  BY <1>2 DEF RestInv, Resting
<1>4. Previous' = Previous /\ (Lost' <=> Lost)
  BY PreviousStays DEF Restored, Lost
<1>5. Sound'
  BY <1>1, <1>3, <1>4 DEF Sound
<1>6. log' = "whole" => Previous' \in checked'
  BY <1>2, <1>4
<1>7. tx' # "published" /\ log' # "whole" /\ ~Lost' => old' = NoBody
  BY <1>3, <1>4 DEF NoBody
<1> QED
  BY <1>5, <1>6, <1>7, ArrivesAtRest DEF Resting

\* The steps between updates and up to the journal move no file.
RestSteps ==
    \/ \E f \in Files : WriteMetadata(f)
    \/ NotModified \/ Modified \/ FetchFails \/ Unchanged \/ Prepare \/ PrepareFails
    \/ StopForUpdate \/ CreateJournal \/ JournalFails \/ Start \/ Update \/ StartCore

LEMMA FilesAtRest ==
    ASSUME IInv, mishaps' =< 2, RestSteps
    PROVE  FilesInv'
<1> USE Tables DEF Waiting, Ready, Resting, Fine, Mishap, cache, disk, job
<1>1. ASSUME NEW f \in Files, WriteMetadata(f) PROVE FilesInv'
  BY <1>1, StaysAtRest DEF WriteMetadata, AfterFetch
<1>2. CASE NotModified
  BY <1>2, StaysAtRest DEF IInv, Control, NotModified, AfterFetch
<1>3. CASE Modified
  BY <1>3, StaysAtRest DEF IInv, Control, Modified, AfterFetch
<1>4. CASE FetchFails
  BY <1>4, StaysAtRest DEF IInv, Control, FetchFails, GiveUp
<1>5. CASE Unchanged
  BY <1>5, StaysAtRest DEF IInv, Control, Unchanged, GiveUp
<1>6. CASE Prepare
  BY <1>6, StaysAtRest DEF IInv, Control, Prepare
<1>7. CASE PrepareFails
  BY <1>7, StaysAtRest DEF IInv, Control, PrepareFails, GiveUp
<1>8. CASE StopForUpdate
  BY <1>8, StaysAtRest DEF IInv, Control, StopForUpdate, GiveUp
<1>9. CASE CreateJournal
  BY <1>9, StaysAtRest DEF IInv, Control, CreateJournal
<1>10. CASE JournalFails
  BY <1>10, StaysAtRest DEF IInv, Control, JournalFails, Failed
<1>11. CASE Start
  BY <1>11, StaysAtRest DEF IInv, Control, Start, GiveUp
<1>12. CASE Update
  BY <1>12, StaysAtRest DEF IInv, Control, Update
<1>13. CASE StartCore
  BY <1>13, StaysAtRest DEF IInv, Control, StartCore
<1> QED
  BY <1>1, <1>2, <1>3, <1>4, <1>5, <1>6, <1>7, <1>8, <1>9, <1>10, <1>11, <1>12, <1>13
     DEF RestSteps

LEMMA FilesUntouched ==
    ASSUME FilesInv,
           UNCHANGED <<pair, old, log, tx, step, body, undo, checked, mishaps>>
    PROVE  FilesInv'
<1>1. Previous' = Previous
  BY PreviousStays DEF Restored
<1>2. (Sound' <=> Sound) /\ (Lost' <=> Lost) /\ NoBody' = NoBody
  BY DEF Sound, Lost, NoBody
<1>3. (RestInv <=> RestInv') /\ (RenamingInv <=> RenamingInv')
  BY <1>1, <1>2 DEF RestInv, RenamingInv, AllKept
<1>4. UnpublishInv <=> UnpublishInv'
  BY <1>1, <1>2 DEF UnpublishInv, AllOps, BeforeDrops, BetweenDrops, AfterDrops,
                    AllKept, InPlace
<1>5. (RollbackInv <=> RollbackInv') /\ (FailingInv <=> FailingInv')
  BY <1>1, <1>2 DEF RollbackInv, FailingInv, AllOps, BeforeDrops, BetweenDrops,
                    AfterDrops, AllKept, InPlace
<1> QED
  BY <1>1, <1>3, <1>4, <1>5 DEF FilesInv

\* Recovery, and the steps of a kill.
LEMMA FilesRecovered ==
    ASSUME IInv, mishaps' =< 2,
           (\E f \in Files : Recover(f)) \/ Recovered \/ CleanUp \/ Kill
    PROVE  FilesInv'
<1> USE DEF Fine, Mishap, cache, disk, job
<1>0. /\ mishaps \in Nat /\ mishaps =< 2 /\ mishaps' \in {mishaps, mishaps + 1}
      /\ pair \in Pairs /\ old \in Pairs
  BY DEF IInv, Shape, Recover, Recovered, CleanUp, Kill
<1>1. RestInv /\ (log = "whole" => Previous \in checked)
  BY <1>0 DEF IInv, FilesInv
<1>2. ASSUME NEW f \in Files, Recover(f) PROVE FilesInv'
  <2>1. \A g \in Files : Restored(g)' = Restored(g)
    BY <1>0, <1>2 DEF Recover, Restored, Files, Pairs, None
  <2> QED
    BY <1>1, <1>2, <2>1, PreviousStays, ArrivesDown DEF Recover
<1>3. CASE Recovered
  <2>1. pair \in checked
    BY <1>0, <1>1, <1>3, PreviousIsPair DEF Recovered
  <2>2. Sound'
    BY <1>3, <2>1 DEF Recovered, Sound
  <2> QED
    BY <1>3, <2>2, ArrivesDown DEF Recovered
<1>4. CASE CleanUp
  <2>1. Sound' /\ old' = NoBody
    BY <1>1, <1>4 DEF CleanUp, RestInv, Sound, Lost
  <2> QED
    BY <1>4, <2>1, ArrivesAtRest DEF CleanUp, Waiting, NoBody
<1>5. CASE Kill
  <2>0. mishaps < 2 /\ mishaps' = mishaps + 1 /\ UNCHANGED <<pair, old, log, checked>>
    BY <1>0, <1>5 DEF Kill
  <2>1. FilesInv /\ Shape /\ Control /\ step # "down"
    BY <1>5 DEF IInv, Kill
  <2>2. Sound => pair \in checked
    BY <2>0 DEF Sound
  <2>3. log # "whole" => pair \in checked \/ (Lost /\ mishaps' = 2)
    <3>1. CASE step \in Resting
      BY <1>1, <2>2, <3>1 DEF RestInv, Resting
    <3>2. CASE step \in Renaming
      BY <2>1, <3>2 DEF Control
    <3>3. CASE step = "tidy"
      BY <1>0, <2>1, <3>3 DEF FilesInv, RenamingInv
    <3>4. CASE step = "unpublish"
      <4>1. UnpublishInv
        BY <1>0, <2>1, <3>4 DEF FilesInv
      <4> QED
        BY <2>2, <4>1 DEF UnpublishInv
    <3>5. CASE step = "rollback"
      <4>1. RollbackInv /\ mishaps > 0
        BY <1>0, <2>1, <3>5 DEF FilesInv, Control, Undoing
      <4> QED
        BY <1>0, <2>0, <4>1 DEF RollbackInv
    <3>6. CASE step = "failing"
      <4>1. FailingInv
        BY <1>0, <2>1, <3>6 DEF FilesInv
      <4> QED
        BY <2>0, <2>2, <4>1 DEF FailingInv
    <3> QED
      BY <2>1, <3>1, <3>2, <3>3, <3>4, <3>5, <3>6
      DEF Shape, Places, Resting, Undoing
  <2>4. log # "whole" => Sound'
    BY <2>0, <2>3 DEF Sound, Lost
  <2>5. Previous' = Previous
    BY <2>0, PreviousStays DEF Restored
  <2> QED
    BY <1>1, <1>5, <2>0, <2>4, <2>5, ArrivesDown DEF Kill
<1> QED
  BY <1>2, <1>3, <1>4, <1>5

\* The journal and the renames.
LEMMA FilesRenamed ==
    ASSUME IInv, mishaps' =< 2, WriteJournal \/ Rename \/ Published \/ Commit \/ Tidy
    PROVE  FilesInv'
<1> USE DEF Fine, cache, disk, job
<1>0. /\ mishaps \in Nat /\ mishaps =< 2 /\ mishaps' = mishaps
      /\ pair \in Pairs /\ old \in Pairs /\ body \in Pairs
  BY DEF IInv, Shape, WriteJournal, Rename, Published, Commit, Tidy
<1>1. /\ RestInv /\ RenamingInv /\ Control
      /\ log = "whole" => Previous \in checked
  BY <1>0 DEF IInv, FilesInv
<1>2. CASE WriteJournal
  <2>1. step = "journal" /\ tx = "prepared" /\ log = "torn" /\ ~Lost
    BY <1>1, <1>2 DEF WriteJournal, Control, Ready
  <2>2. old = NoBody /\ pair \in checked
    BY <1>1, <2>1 DEF RestInv, Ready, Sound
  <2>3. Previous' = Previous /\ Previous = pair
    BY <1>0, <1>2, <2>2, PreviousStays, PreviousIsPair DEF WriteJournal, Restored
  <2>4. RenamingInv'
    BY <1>2, <2>1, <2>2 DEF WriteJournal, RenamingInv, Lost, NoBody
  <2> QED
    BY <1>2, <2>2, <2>3, <2>4, ArrivesAtRename DEF WriteJournal, Renaming
<1>3. CASE Rename
  <2>1. step \in {"save1", "save2", "put1", "put2"} /\ step' = Renames[step] /\ Moved
    BY <1>3, Tables DEF Rename
  <2>2. log = "whole" /\ UNCHANGED <<log, checked, body>>
    BY <1>1, <1>3, <2>1 DEF Rename, Control, Renaming
  <2>3. RenamingInv' /\ \A f \in Files : Restored(f)' = Restored(f)
    BY <1>0, <1>1, <2>1, <2>2, Tables
       DEF Moved, RenamingInv, Restored, AllKept, Lost, NoBody, Files, None, Pairs
  <2> QED
    BY <1>1, <2>1, <2>2, <2>3, Tables, PreviousStays, ArrivesAtRename DEF Renaming
<1>4. CASE Published
  <2>1. Previous' = Previous
    BY <1>4, PreviousStays DEF Published, Restored
  <2>2. step = "published" /\ step' \in {"activate", "commit"}
    BY <1>4 DEF Published
  <2>3. RenamingInv'
    BY SMTT(30), <1>1, <1>4, <2>2 DEF Published, RenamingInv, AllKept
  <2> QED
    BY <1>1, <1>4, <2>1, <2>2, <2>3, ArrivesAtRename DEF Published, Renaming
<1>5. CASE Commit
  <2>1. pair \in checked
    BY <1>1, <1>5 DEF Commit, RenamingInv, Control, Renaming
  <2> QED
    BY <1>5, <2>1, ArrivesAtRename, Zenon DEF Commit, RenamingInv
<1>6. CASE Tidy
  <2>1. Sound' /\ old' = NoBody /\ NoBody' = NoBody
    BY <1>1, <1>6 DEF Tidy, RenamingInv, Sound, NoBody
  <2>2. log' = "none"
    BY <1>1, <1>6 DEF Tidy, Control
  <2> QED
    BY <1>6, <2>1, <2>2, ArrivesAtRest DEF Tidy, GiveUp, Waiting
<1> QED
  BY <1>2, <1>3, <1>4, <1>5, <1>6

\* A failure on the way, which begins a roll back.
LEMMA FilesFailed ==
    ASSUME IInv, mishaps' =< 2, RenameFails \/ Activate \/ CommitFails
    PROVE  FilesInv'
<1> USE DEF Fine, Mishap, cache, disk, job
<1>0. /\ mishaps \in Nat /\ mishaps =< 2 /\ mishaps' \in {mishaps, mishaps + 1}
      /\ pair \in Pairs /\ old \in Pairs /\ body \in Pairs
  BY DEF IInv, Shape, RenameFails, Activate, CommitFails
<1>1. /\ RenamingInv /\ Control
      /\ log = "whole" => Previous \in checked
  BY <1>0 DEF IInv, FilesInv
<1>2. CASE RenameFails
  <2>1. step \in {"save1", "save2", "put1", "put2"} /\ step' = "unpublish"
    BY <1>2, Tables DEF RenameFails
  <2>2. log = "whole" /\ UNCHANGED <<log, checked>>
    BY <1>1, <1>2, <2>1 DEF RenameFails, Control, Renaming
  <2>3. /\ \A f \in Files : Restored(f)' = Restored(f)
        /\ \A f \in Files : old'[f] = old[f]
        /\ step # "put2" => UNCHANGED <<pair, old>>
    BY <1>0, <1>1, <1>2, <2>1, Tables
       DEF RenameFails, Moved, RenamingInv, Restored, AllKept, Files, None, Pairs
  <2>4. /\ step = "save1" => undo' = {"unlog"}
        /\ step = "save2" => undo' = {"back1", "unlog"}
        /\ step \in {"put1", "put2"} => undo' = AllOps
    BY <1>2, <2>1 DEF RenameFails, UndoOf, AllOps
  <2>5. UnpublishInv'
    <3>1. CASE step = "save1"
      BY <1>1, <2>2, <2>3, <2>4, <3>1 DEF RenamingInv, UnpublishInv, NoBody, Files
    <3>2. CASE step = "save2"
      BY <1>1, <2>2, <2>3, <2>4, <3>2 DEF RenamingInv, UnpublishInv
    <3>3. CASE step \in {"put1", "put2"}
      <4>1. AllKept' /\ "unlog" \in undo'
        BY <1>1, <2>3, <2>4, <3>3 DEF RenamingInv, AllKept, AllOps
      <4>2. AllOps' = AllOps
        BY DEF AllOps, RestorePair
      <4> QED
        BY <2>2, <2>4, <3>3, <4>1, <4>2 DEF UnpublishInv, BeforeDrops
    <3> QED
      BY <2>1, <3>1, <3>2, <3>3
  <2> QED
    BY <1>1, <2>1, <2>2, <2>3, <2>5, PreviousStays, ArrivesAtUndo DEF Undoing
<1>3. ASSUME step \in {"activate", "commit"}, UNCHANGED <<pair, old, checked>>, RollBack
      PROVE  FilesInv'
  <2>1. AllKept /\ pair = body /\ body \in checked /\ log = "whole"
    BY <1>1, <1>3 DEF RenamingInv, Control, Renaming
  <2>2. Previous' = Previous
    BY <1>3, PreviousStays DEF Restored
  <2>3. undo' = AllOps' /\ AllKept'
    BY <1>3, <2>1 DEF RollBack, AllOps, RestorePair, AllKept
  <2>4. RollbackInv'
    BY <1>1, <1>3, <2>1, <2>2, <2>3 DEF RollbackInv, BeforeDrops
  <2> QED
    BY <1>1, <1>3, <2>1, <2>2, <2>4, ArrivesAtUndo DEF RollBack, Undoing
<1>4. CASE Activate
  <2>1. UNCHANGED <<pair, old, log, body, checked>> /\ step = "activate"
    BY <1>4 DEF Activate
  <2>2. CASE step' = "commit"
    <3>1. Previous' = Previous
      BY <2>1, PreviousStays DEF Restored
    <3>2. RenamingInv'
      BY <1>1, <2>1, <2>2 DEF RenamingInv, AllKept
    <3> QED
      BY <1>1, <2>1, <2>2, <3>1, <3>2, ArrivesAtRename DEF Renaming
  <2>3. step' = "commit" \/ RollBack
    BY <1>4, Zenon DEF Activate
  <2> QED
    BY <1>3, <2>1, <2>2, <2>3
<1>5. CASE CommitFails
  <2>1. UNCHANGED <<pair, old, checked>> /\ step = "commit"
    BY <1>5 DEF CommitFails
  <2>2. RollBack \/ (step' = "idle" /\ UNCHANGED tx)
    BY <1>5, Zenon DEF CommitFails
  <2>3. CASE step' = "idle" /\ UNCHANGED tx
    <3>1. pair \in checked /\ log = "whole" /\ tx = "published"
      BY <1>1, <2>1 DEF RenamingInv, Control, Renaming
    <3>2. Previous' = Previous
      BY <2>1, PreviousStays DEF Restored
    <3>3. Sound'
      BY <2>1, <3>1 DEF Sound
    <3> QED
      BY <1>1, <2>1, <2>3, <3>1, <3>2, <3>3, ArrivesAtRest DEF Waiting
  <2> QED
    BY <1>3, <2>1, <2>2, <2>3
<1> QED
  BY <1>2, <1>4, <1>5

\* What a roll back has left to do after one of its operations.
LEMMA OpsLeft ==
    /\ AllOps \ {"drop1"} = AllButOne
    /\ AllButOne \ {"drop2"} = {"back1", "back2", "unlog"}
    /\ {"back1", "back2", "unlog"} \ {"back1"} = {"back2", "unlog"}
    /\ {"back1", "back2", "unlog"} \ {"back1", "unlog"} = {"back2"}
    /\ {"back2", "unlog"} \ {"back2"} = {"unlog"}
    /\ {"back2", "unlog"} \ {"back2", "unlog"} = {}
    /\ {"back1", "unlog"} \ {"back1"} = {"unlog"}
    /\ {"unlog"} \ {"unlog"} = {}
    /\ {"unlog"} \ {"unlog", "unlog"} = {}
    /\ {"back2"} \ {"back2"} = {}
    /\ AllOps' = AllOps
    /\ "drop1" \in AllOps
  BY DEF AllOps, AllButOne, RestorePair

\* No operation changes what a journal leads back to, while that is kept.
LEMMA OpKeepsPrevious ==
    ASSUME pair \in Pairs, old \in Pairs, NEW op \in Ops, Done(op),
           op = "drop1" => old[1] # None,
           op = "drop2" => old[2] # None,
           op = "back1" => old[1] # None,
           op = "back2" => old[2] # None
    PROVE  Previous' = Previous
<1>1. \A f \in Files : Restored(f)' = Restored(f)
  BY SMTT(30), DoneIs DEF Restored, Ops, Files, Pairs, None
<1> QED
  BY <1>1, PreviousStays

\* An operation of the roll back of publish_candidate that succeeds.
LEMMA UnpublishUndo ==
    ASSUME IInv, mishaps' =< 2, step = "unpublish", Undo
    PROVE  FilesInv'
<1>0. /\ mishaps \in Nat /\ mishaps' = mishaps /\ step' = "unpublish"
      /\ pair \in Pairs /\ old \in Pairs /\ undo \subseteq Ops /\ checked' = checked
  BY DEF IInv, Shape, Undo
<1>1. UnpublishInv /\ (log = "whole" => Previous \in checked)
  BY <1>0 DEF IInv, FilesInv
<1>2. PICK op \in undo : Due(op) /\ Done(op) /\ undo' = undo \ {op}
  BY Zenon DEF Undo
<1>3. log = "whole" /\ op \in Ops
  BY <1>0, <1>1, <1>2 DEF UnpublishInv
<1> SUFFICES UnpublishInv' /\ Previous' = Previous
  BY <1>0, <1>1, <1>3, ArrivesAtUndo DEF Undoing
<1> USE DEF Files, None, Pairs
<1>4. CASE undo = AllOps /\ BeforeDrops
  <2>1. op = "drop1" /\ undo' = AllButOne
    BY <1>0, <1>2, <1>4, DueIs, OpsLeft
  <2>2. pair' = [pair EXCEPT ![1] = None] /\ old' = old /\ log' = log
    BY <1>2, <1>3, <2>1, DoneIs
  <2>3. BetweenDrops'
    BY <1>0, <1>4, <2>2 DEF BeforeDrops, BetweenDrops, AllKept
  <2> QED
    BY <1>0, <1>2, <1>3, <1>4, <2>1, <2>2, <2>3, OpKeepsPrevious
       DEF UnpublishInv, BeforeDrops, AllKept, AllButOne
<1>5. CASE undo = AllButOne /\ BetweenDrops
  <2>1. op = "drop2" /\ undo' = {"back1", "back2", "unlog"}
    BY <1>0, <1>2, <1>5, DueIs, OpsLeft DEF AllButOne
  <2>2. pair' = [pair EXCEPT ![2] = None] /\ old' = old /\ log' = log
    BY <1>2, <1>3, <2>1, DoneIs
  <2>3. AfterDrops'
    BY <1>0, <1>5, <2>2 DEF BetweenDrops, AfterDrops, AllKept, InPlace
  <2> QED
    BY <1>0, <1>2, <1>3, <1>5, <2>1, <2>2, <2>3, OpKeepsPrevious
       DEF UnpublishInv, BetweenDrops, AllKept
<1>6. CASE undo = {"back1", "back2", "unlog"} /\ AfterDrops
  <2>1. op = "back1" /\ undo' = {"back2", "unlog"}
    BY <1>0, <1>2, <1>6, DueIs, OpsLeft
  <2>2. /\ pair' = [pair EXCEPT ![1] = old[1]] /\ old' = [old EXCEPT ![1] = None]
        /\ log' = log
    BY <1>2, <1>3, <2>1, DoneIs
  <2>3. /\ old'[1] = None /\ old'[2] # None
        /\ pair'[2] # None => mishaps' = 2
    BY <1>0, <1>6, <2>2 DEF AfterDrops, AllKept, InPlace
  <2> QED
    BY <1>0, <1>2, <1>3, <1>6, <2>1, <2>2, <2>3, OpKeepsPrevious
       DEF UnpublishInv, AfterDrops, AllKept
<1>7. CASE /\ undo = {"back2", "unlog"} /\ old[2] # None
           /\ old[1] = None \/ (pair[1] = None /\ mishaps = 2)
  <2>1. op = "back2" /\ undo' = {"unlog"}
    BY <1>0, <1>2, <1>7, DueIs, OpsLeft
  <2>2. /\ pair' = [pair EXCEPT ![2] = old[2]] /\ old' = [old EXCEPT ![2] = None]
        /\ log' = log
    BY <1>2, <1>3, <2>1, DoneIs
  <2>3. \A f \in Files : old'[f] = None \/ (pair'[f] = None /\ mishaps' = 2)
    BY <1>0, <1>7, <2>2
  <2> QED
    BY <1>0, <1>2, <1>3, <1>7, <2>1, <2>2, <2>3, OpKeepsPrevious DEF UnpublishInv
<1>8. CASE /\ undo = {"back1", "unlog"}
           /\ old[1] # None /\ pair[1] = None /\ old[2] = None
  <2>1. op = "back1" /\ undo' = {"unlog"}
    BY <1>0, <1>2, <1>8, DueIs, OpsLeft
  <2>2. /\ pair' = [pair EXCEPT ![1] = old[1]] /\ old' = [old EXCEPT ![1] = None]
        /\ log' = log
    BY <1>2, <1>3, <2>1, DoneIs
  <2>3. \A f \in Files : old'[f] = None
    BY <1>0, <1>8, <2>2
  <2> QED
    BY <1>0, <1>2, <1>3, <1>8, <2>1, <2>2, <2>3, OpKeepsPrevious DEF UnpublishInv
<1>9. CASE /\ undo = {"unlog"}
           /\ \A f \in Files : old[f] = None \/ (pair[f] = None /\ mishaps = 2)
  <2>1. op = "unlog" /\ undo' = {}
    BY <1>2, <1>9, OpsLeft
  <2>2. pair' = pair /\ old' = old /\ log' = "none"
    BY <1>2, <1>3, <2>1, DoneIs
  <2>3. CASE \A f \in Files : old[f] = None
    <3>1. old = NoBody
      BY <1>0, <2>3 DEF NoBody
    <3>2. pair \in checked
      BY <1>0, <1>1, <1>3, <3>1, PreviousIsPair
    <3> QED
      BY <1>0, <1>2, <1>3, <2>1, <2>2, <3>1, <3>2, OpKeepsPrevious, Zenon
         DEF UnpublishInv, Sound, NoBody
  <2>4. CASE \E f \in Files : old[f] # None
    <3>1. Lost /\ mishaps = 2
      BY <1>9, <2>4 DEF Lost
    <3> QED
      BY <1>0, <1>2, <1>3, <2>1, <2>2, <3>1, OpKeepsPrevious, Zenon
         DEF UnpublishInv, Sound, Lost
  <2> QED
    BY <2>3, <2>4
<1>10. undo # {}
  BY <1>2, Zenon
<1> QED
  BY <1>1, <1>4, <1>5, <1>6, <1>7, <1>8, <1>9, <1>10 DEF UnpublishInv

\* One that fails.
LEMMA UnpublishFails ==
    ASSUME IInv, mishaps' =< 2, step = "unpublish", UndoFails
    PROVE  FilesInv'
<1>0. /\ mishaps \in Nat /\ mishaps' \in {mishaps, mishaps + 1} /\ step' = "unpublish"
      /\ pair \in Pairs /\ old \in Pairs /\ undo \subseteq Ops
      /\ UNCHANGED <<pair, old, checked>> /\ mishaps > 0
  BY DEF IInv, Shape, Control, Undoing, UndoFails, Fine, Mishap
<1>1. UnpublishInv /\ (log = "whole" => Previous \in checked)
  BY <1>0 DEF IInv, FilesInv
<1>2. PICK op \in undo : /\ Due(op) /\ undo' = undo \ {op}
                         /\ IF CanDo(op) THEN Mishap ELSE Fine
                         /\ log' = log \/ (op = "unlog" /\ log' = "none")
  BY Zenon DEF UndoFails
<1>3. log = "whole" /\ op \in Ops
  BY <1>0, <1>1, <1>2 DEF UnpublishInv
<1>4. Previous' = Previous
  BY <1>0, PreviousStays DEF Restored
<1> SUFFICES UnpublishInv'
  BY <1>0, <1>1, <1>3, <1>4, ArrivesAtUndo DEF Undoing
<1> USE DEF Files, None, Pairs
<1>5. ASSUME CanDo(op) PROVE mishaps = 1 /\ mishaps' = 2
  BY <1>0, <1>2, <1>5 DEF Mishap
<1>6. CASE undo = AllOps /\ BeforeDrops
  <2>1. op = "drop1" /\ undo' = AllButOne
    BY <1>0, <1>2, <1>6, DueIs, OpsLeft
  <2>2. mishaps' = 2
    BY <1>5, <2>1 DEF CanDo
  <2>3. BetweenDrops' /\ log' = log
    BY <1>0, <1>2, <1>6, <2>1, <2>2 DEF BeforeDrops, BetweenDrops, AllKept
  <2> QED
    BY <1>3, <2>1, <2>3 DEF UnpublishInv, AllButOne
<1>7. CASE undo = AllButOne /\ BetweenDrops
  <2>1. op = "drop2" /\ undo' = {"back1", "back2", "unlog"}
    BY <1>0, <1>2, <1>7, DueIs, OpsLeft DEF AllButOne
  <2>2. mishaps = 1 /\ mishaps' = 2
    BY <1>5, <2>1 DEF CanDo
  <2>3. AfterDrops' /\ log' = log
    BY <1>0, <1>2, <1>7, <2>1, <2>2 DEF AfterDrops, BetweenDrops, AllKept, InPlace
  <2> QED
    BY <1>3, <2>1, <2>3 DEF UnpublishInv
<1>8. CASE undo = {"back1", "back2", "unlog"} /\ AfterDrops
  <2>1. op = "back1" /\ undo' = {"back2", "unlog"}
    BY <1>0, <1>2, <1>8, DueIs, OpsLeft
  <2>2. mishaps = 1 /\ mishaps' = 2
    BY <1>5, <1>8, <2>1 DEF CanDo, OpFile, AfterDrops, AllKept
  <2>3. pair[1] = None /\ pair[2] = None /\ old[2] # None /\ log' = log
    BY <1>2, <1>8, <2>1, <2>2 DEF AfterDrops, AllKept, InPlace
  <2> QED
    BY <1>0, <1>3, <2>1, <2>2, <2>3 DEF UnpublishInv
<1>9. CASE /\ undo = {"back2", "unlog"} /\ old[2] # None
           /\ old[1] = None \/ mishaps = 2
           /\ pair[2] # None => mishaps = 2
  <2>1. op = "back2" /\ undo' = {"unlog"}
    BY <1>0, <1>2, <1>9, DueIs, OpsLeft
  <2>2. mishaps = 1 /\ mishaps' = 2
    BY <1>5, <1>9, <2>1 DEF CanDo, OpFile
  <2>3. pair[2] = None /\ old[1] = None /\ log' = log
    BY <1>2, <1>9, <2>1, <2>2
  <2> QED
    BY <1>0, <1>3, <2>1, <2>2, <2>3 DEF UnpublishInv
<1>10. CASE /\ undo = {"back1", "unlog"}
            /\ old[1] # None /\ pair[1] = None /\ old[2] = None
  <2>1. op = "back1" /\ undo' = {"unlog"}
    BY <1>0, <1>2, <1>10, DueIs, OpsLeft
  <2>2. mishaps' = 2 /\ log' = log
    BY <1>2, <1>5, <1>10, <2>1 DEF CanDo, OpFile
  <2> QED
    BY <1>0, <1>3, <1>10, <2>1, <2>2 DEF UnpublishInv
<1>11. CASE /\ undo = {"unlog"}
            /\ \A f \in Files : old[f] = None \/ (pair[f] = None /\ mishaps = 2)
  <2>1. op = "unlog" /\ undo' = {}
    BY <1>2, <1>11, OpsLeft
  <2>2. mishaps = 1
    BY <1>3, <1>5, <2>1 DEF CanDo
  <2>3. old = NoBody
    BY <1>0, <1>11, <2>2 DEF NoBody
  <2>4. pair \in checked
    BY <1>0, <1>1, <1>3, <2>3, PreviousIsPair
  <2> QED
    BY <1>0, <2>1, <2>3, <2>4 DEF UnpublishInv, Sound, NoBody
<1>12. undo # {}
  BY <1>2, Zenon
<1> QED
  BY <1>1, <1>6, <1>7, <1>8, <1>9, <1>10, <1>11, <1>12, Zenon DEF UnpublishInv

\* An operation of rollback that succeeds.
LEMMA RollbackUndo ==
    ASSUME IInv, mishaps' =< 2, step = "rollback", Undo
    PROVE  FilesInv'
<1>0. /\ mishaps \in Nat /\ mishaps' = mishaps /\ step' = "rollback"
      /\ pair \in Pairs /\ old \in Pairs /\ undo \subseteq Ops /\ checked' = checked
  BY DEF IInv, Shape, Undo
<1>1. RollbackInv
  BY <1>0 DEF IInv, FilesInv
<1>2. PICK op \in undo : Due(op) /\ Done(op) /\ CanDo(op) /\ undo' = undo \ {op}
  BY Zenon DEF Undo
<1>3. op \in Ops /\ Previous \in checked
  BY <1>0, <1>1, <1>2 DEF RollbackInv
<1> SUFFICES RollbackInv'
  BY <1>0, ArrivesAtUndo DEF Undoing, RollbackInv
<1> USE DEF Files, None, Pairs
<1>4. CASE undo = AllOps /\ BeforeDrops
  <2>1. op = "drop1" /\ undo' = AllButOne
    BY <1>0, <1>2, <1>4, DueIs, OpsLeft
  <2>2. pair' = [pair EXCEPT ![1] = None] /\ old' = old
    BY <1>2, <1>3, <2>1, DoneIs
  <2>3. BetweenDrops' /\ Lost'
    BY <1>0, <1>4, <2>2 DEF BeforeDrops, BetweenDrops, AllKept, Lost
  <2> QED
    BY <1>0, <1>2, <1>3, <1>4, <2>1, <2>2, <2>3, OpKeepsPrevious
       DEF RollbackInv, BeforeDrops, AllKept
<1>5. CASE undo = AllButOne /\ BetweenDrops
  <2>1. op = "drop2" /\ undo' = {"back1", "back2", "unlog"}
    BY <1>0, <1>2, <1>5, DueIs, OpsLeft DEF AllButOne
  <2>2. pair' = [pair EXCEPT ![2] = None] /\ old' = old
    BY <1>2, <1>3, <2>1, DoneIs
  <2>3. AfterDrops' /\ Lost'
    BY <1>0, <1>5, <2>2 DEF BetweenDrops, AfterDrops, AllKept, InPlace, Lost
  <2> QED
    BY <1>0, <1>2, <1>3, <1>5, <2>1, <2>2, <2>3, OpKeepsPrevious
       DEF RollbackInv, BetweenDrops, AllKept
<1>6. CASE undo = {"back1", "back2", "unlog"} /\ AfterDrops
  <2>1. op = "back1" /\ undo' = {"back2", "unlog"}
    BY <1>0, <1>2, <1>6, DueIs, OpsLeft
  <2>2. pair' = [pair EXCEPT ![1] = old[1]] /\ old' = [old EXCEPT ![1] = None]
    BY <1>2, <1>3, <2>1, DoneIs
  <2>3. /\ old'[1] = None /\ old'[2] # None
        /\ pair'[2] # None => mishaps' = 2
    BY <1>0, <1>6, <2>2 DEF AfterDrops, AllKept, InPlace
  <2>4. Lost' \/ mishaps' = 2
    BY <2>3 DEF Lost
  <2> QED
    BY <1>0, <1>2, <1>3, <1>6, <2>1, <2>2, <2>3, <2>4, OpKeepsPrevious
       DEF RollbackInv, AfterDrops, AllKept
<1>7. CASE undo = {"back2", "unlog"} /\ old[2] # None /\ old[1] = None
  <2>1. op = "back2" /\ undo' = {"unlog"}
    BY <1>0, <1>2, <1>7, DueIs, OpsLeft
  <2>2. pair' = [pair EXCEPT ![2] = old[2]] /\ old' = [old EXCEPT ![2] = None]
    BY <1>2, <1>3, <2>1, DoneIs
  <2>3. old' = NoBody /\ pair' \in Pairs
    BY <1>0, <1>7, <2>2, Zenon DEF NoBody
  <2>4. Previous' = Previous
    BY <1>0, <1>2, <1>3, <1>7, <2>1, OpKeepsPrevious
  <2>5. Previous' = pair'
    BY <2>3 DEF Previous, Restored, NoBody
  <2> QED
    BY <1>0, <1>3, <2>1, <2>3, <2>4, <2>5 DEF RollbackInv, NoBody
<1>8. CASE undo \in {{"unlog"}, {}} /\ old = NoBody
  <2>1. op = "unlog" /\ undo' = {}
    BY <1>2, <1>8, OpsLeft
  <2>2. pair' = pair /\ old' = old
    BY <1>2, <1>3, <2>1, DoneIs
  <2>3. Previous' = Previous /\ Previous = pair
    BY SMTT(30), <1>0, <1>8, <2>2, PreviousStays, PreviousIsPair DEF Restored
  <2> QED
    BY <1>0, <1>3, <1>8, <2>1, <2>2, <2>3 DEF RollbackInv, NoBody
<1> QED
  BY <1>1, <1>4, <1>5, <1>6, <1>7, <1>8 DEF RollbackInv

\* One that fails: a drop goes by, anything else leaves the journal.
LEMMA RollbackFails ==
    ASSUME IInv, mishaps' =< 2, step = "rollback", UndoFails
    PROVE  FilesInv'
<1>0. /\ mishaps \in Nat /\ mishaps' \in {mishaps, mishaps + 1} /\ mishaps > 0
      /\ pair \in Pairs /\ old \in Pairs /\ undo \subseteq Ops
      /\ UNCHANGED <<pair, old, checked>>
  BY DEF IInv, Shape, Control, Undoing, UndoFails, Fine, Mishap
<1>1. RollbackInv
  BY <1>0 DEF IInv, FilesInv
<1>2. PICK op \in undo :
         /\ Due(op)
         /\ IF CanDo(op) THEN Mishap ELSE Fine
         /\ IF op \in {"drop1", "drop2"}
            THEN undo' = undo \ {op} /\ step' = "rollback"
            ELSE undo' = undo \ {op, "unlog"} /\ step' = "failing"
  BY Zenon DEF UndoFails
<1>3. op \in Ops /\ Previous \in checked
  BY <1>0, <1>1, <1>2 DEF RollbackInv
<1>4. Previous' = Previous
  BY <1>0, PreviousStays DEF Restored
<1> SUFFICES (step' = "rollback" => RollbackInv') /\ (step' = "failing" => FailingInv')
  BY <1>0, <1>2, <1>3, <1>4, ArrivesAtUndo DEF Undoing
<1> USE DEF Files, None, Pairs
<1>5. ASSUME CanDo(op) PROVE mishaps = 1 /\ mishaps' = 2
  BY <1>0, <1>2, <1>5 DEF Mishap
<1>6. CASE undo = AllOps /\ BeforeDrops
  <2>1. op = "drop1"
    BY <1>0, <1>2, <1>6, DueIs, OpsLeft
  <2>2. mishaps' = 2 /\ undo' = AllButOne /\ step' = "rollback"
    BY <1>2, <1>5, <1>6, <2>1, OpsLeft DEF CanDo
  <2>3. BetweenDrops'
    BY <1>0, <1>6, <2>2 DEF BeforeDrops, BetweenDrops, AllKept
  <2> QED
    BY <1>0, <1>3, <1>4, <2>2, <2>3 DEF RollbackInv
<1>7. CASE undo = AllButOne /\ BetweenDrops
  <2>1. op = "drop2"
    BY <1>0, <1>2, <1>7, DueIs, OpsLeft DEF AllButOne
  <2>2. /\ mishaps = 1 /\ mishaps' = 2
        /\ undo' = {"back1", "back2", "unlog"} /\ step' = "rollback"
    BY <1>2, <1>5, <1>7, <2>1, OpsLeft DEF CanDo
  <2>3. AfterDrops'
    BY <1>0, <1>7, <2>2 DEF AfterDrops, BetweenDrops, AllKept, InPlace
  <2> QED
    BY <1>0, <1>3, <1>4, <2>2, <2>3 DEF RollbackInv
<1>8. CASE undo = {"back1", "back2", "unlog"} /\ AfterDrops
  <2>1. op = "back1"
    BY <1>0, <1>2, <1>8, DueIs
  <2>2. mishaps = 1 /\ mishaps' = 2 /\ undo' = {"back2"} /\ step' = "failing"
    BY <1>2, <1>5, <1>8, <2>1, OpsLeft DEF CanDo, OpFile, AfterDrops, AllKept
  <2>3. AllKept' /\ pair'[1] = None
    BY <1>0, <1>8, <2>2 DEF AfterDrops, AllKept, InPlace
  <2> QED
    BY <2>2, <2>3 DEF FailingInv
<1>9. CASE /\ undo = {"back2", "unlog"} /\ old[2] # None /\ old[1] = None
           /\ pair[2] # None => mishaps = 2
  <2>1. op = "back2"
    BY SMTT(30), <1>0, <1>2, <1>9, DueIs
  <2>2. mishaps = 1 /\ mishaps' = 2 /\ undo' = {} /\ step' = "failing"
    BY <1>2, <1>5, <1>9, <2>1, OpsLeft DEF CanDo, OpFile
  <2>3. Sound'
    BY <1>0, <1>9, <2>2 DEF Sound, Lost
  <2> QED
    BY <2>2, <2>3 DEF FailingInv
<1>10. CASE undo \in {{"unlog"}, {}} /\ old = NoBody
  <2>1. op = "unlog" /\ undo = {"unlog"}
    BY <1>2, <1>10
  <2>2. undo' = {} /\ step' = "failing"
    BY <1>2, <2>1, OpsLeft
  <2>3. Sound'
    BY <1>0, <1>3, <1>10, PreviousIsPair DEF Sound
  <2> QED
    BY <2>2, <2>3 DEF FailingInv
<1> QED
  BY <1>1, <1>6, <1>7, <1>8, <1>9, <1>10, Zenon DEF RollbackInv

\* The rest of restore_pair.
LEMMA FilesFailing ==
    ASSUME IInv, mishaps' =< 2, Failing
    PROVE  FilesInv'
<1>0. /\ mishaps \in Nat /\ mishaps' = mishaps /\ checked' = checked /\ tx' = tx
      /\ pair \in Pairs /\ old \in Pairs /\ undo \subseteq Ops /\ step = "failing"
  BY DEF IInv, Shape, Failing
<1>1. FailingInv /\ (log = "whole" => Previous \in checked) /\ tx = "published"
  BY <1>0 DEF IInv, FilesInv, Control
<1> USE DEF Files, None, Pairs
<1>2. CASE undo = {}
  <2>1. step' = "idle" /\ UNCHANGED <<pair, old, log>>
    BY <1>2, Zenon DEF Failing
  <2>2. Sound
    BY <1>1, <1>2 DEF FailingInv
  <2>3. Previous' = Previous /\ Sound'
    BY <1>0, <2>1, <2>2, PreviousStays DEF Restored, Sound, Lost
  <2> QED
    BY <1>0, <1>1, <2>1, <2>3, ArrivesAtRest DEF Waiting
<1>3. CASE undo # {}
  <2>1. undo = {"back2"} /\ AllKept /\ pair[1] = None /\ mishaps = 2
    BY <1>1, <1>3 DEF FailingInv
  <2>2. PICK op \in undo :
           /\ IF CanDo(op) THEN Done(op) ELSE UNCHANGED <<pair, old, log>>
           /\ undo' = undo \ {op} /\ UNCHANGED step
    BY <1>3, Zenon DEF Failing
  <2>3. op = "back2" /\ op \in Ops /\ undo' = {} /\ old[2] # None
    BY <1>0, <2>1, <2>2, OpsLeft DEF AllKept
  <2>4. Done(op)
    BY <2>2, <2>3 DEF CanDo, OpFile
  <2>5. Previous' = Previous
    BY <1>0, <2>3, <2>4, OpKeepsPrevious
  <2>6. pair'[1] = None /\ log' = log
    BY <1>0, <2>1, <2>3, <2>4, DoneIs
  <2>7. Sound'
    BY <1>0, <2>1, <2>6 DEF Sound, Lost
  <2> QED
    BY <1>0, <1>1, <2>2, <2>3, <2>5, <2>6, <2>7, ArrivesAtUndo DEF FailingInv, Undoing
<1> QED
  BY <1>2, <1>3

\* The end of a roll back.
LEMMA FilesUndone ==
    ASSUME IInv, mishaps' =< 2, Undone
    PROVE  FilesInv'
<1>0. /\ mishaps \in Nat /\ mishaps' = mishaps /\ tx' = "none"
      /\ step' \in {"start", "idle"} /\ undo = {}
      /\ step \in {"unpublish", "rollback"}
      /\ UNCHANGED <<pair, old, log, checked>> /\ pair \in Pairs
  BY DEF IInv, Shape, Undone, Failed
<1>1. /\ log = "whole" => Previous \in checked
      /\ step = "unpublish" => UnpublishInv
      /\ step = "rollback" => RollbackInv
  BY <1>0 DEF IInv, FilesInv
<1>2. Sound /\ (log # "whole" /\ ~Lost => old = NoBody)
  <2>1. CASE step = "unpublish"
    BY <1>0, <1>1, <2>1 DEF UnpublishInv
  <2>2. CASE step = "rollback"
    <3>1. Previous \in checked /\ old = NoBody
      BY SMTT(30), <1>0, <1>1, <2>2 DEF RollbackInv, AllOps, AllButOne
    <3> QED
      BY <1>0, <3>1, PreviousIsPair DEF Sound
  <2> QED
    BY <1>0, <2>1, <2>2
<1>3. Previous' = Previous /\ Sound' /\ (Lost' <=> Lost)
  BY <1>0, <1>2, PreviousStays DEF Restored, Sound, Lost
<1> QED
  BY <1>0, <1>1, <1>2, <1>3, ArrivesAtRest DEF Waiting, NoBody

\* Every step keeps what is said of the files.
LEMMA FilesStep == IInv /\ [Next]_vars => FilesInv'
<1> SUFFICES ASSUME IInv, [Next]_vars PROVE FilesInv'
  OBVIOUS
<1>1. CASE mishaps' =< 2
  <2> USE <1>1
  <2>1. CASE RestSteps
    BY <2>1, FilesAtRest
  <2>2. ASSUME NEW f \in Files, Recover(f) PROVE FilesInv'
    BY <2>2, FilesRecovered
  <2>3. CASE Recovered \/ CleanUp \/ Kill
    BY <2>3, FilesRecovered
  <2>4. CASE WriteJournal \/ Rename \/ Published \/ Commit \/ Tidy
    BY <2>4, FilesRenamed
  <2>5. CASE RenameFails \/ Activate \/ CommitFails
    BY <2>5, FilesFailed
  <2>6. CASE Undo
    <3>1. step \in {"unpublish", "rollback"}
      BY <2>6 DEF Undo
    <3> QED
      BY <2>6, <3>1, UnpublishUndo, RollbackUndo
  <2>7. CASE UndoFails
    <3>1. step \in {"unpublish", "rollback"}
      BY <2>7 DEF UndoFails
    <3> QED
      BY <2>7, <3>1, UnpublishFails, RollbackFails
  <2>8. CASE Failing
    BY <2>8, FilesFailing
  <2>9. CASE Undone
    BY <2>9, FilesUndone
  <2>10. ASSUME NEW f \in Files, NewVersion(f) PROVE FilesInv'
    BY <2>10, FilesUntouched DEF IInv, NewVersion, disk, job
  <2>11. CASE UNCHANGED vars
    BY <2>11, FilesUntouched DEF IInv, vars, disk, job
  <2> QED
    BY <2>1, <2>2, <2>3, <2>4, <2>5, <2>6, <2>7, <2>8, <2>9, <2>10, <2>11, Zenon
       DEF Next, Steps, RestSteps
<1>2. CASE ~(mishaps' =< 2)
  BY <1>2 DEF FilesInv
<1> QED
  BY <1>1, <1>2

\* A core is started on the files of a resting worker or on the new pair.
LEMMA AcceptedStep == IInv /\ [Next]_vars => AcceptedInv'
<1> SUFFICES ASSUME IInv, [Next]_vars, mishaps' =< 2, loaded' # <<>>
             PROVE  pair' \in checked'
  BY DEF AcceptedInv
<1>1. mishaps \in Nat /\ pair \in Pairs
  BY SMTT(30) DEF IInv, Shape
<1>2. mishaps' = mishaps \/ mishaps' = mishaps + 1
  <2>1. CASE (\E f \in Files : Recover(f) \/ WriteMetadata(f)) \/ Recovered \/ CleanUp
    BY <2>1 DEF Fine, Mishap, Recover, WriteMetadata, Recovered, CleanUp
  <2>2. CASE NotModified \/ Modified \/ FetchFails
    BY <2>2 DEF Fine, Mishap, NotModified, Modified, FetchFails
  <2>3. CASE Unchanged \/ Prepare \/ PrepareFails \/ StopForUpdate
    BY <2>3 DEF Fine, Mishap, Unchanged, Prepare, PrepareFails, StopForUpdate
  <2>4. CASE CreateJournal \/ WriteJournal \/ JournalFails
    BY <2>4 DEF Fine, Mishap, CreateJournal, WriteJournal, JournalFails
  <2>5. CASE Rename \/ RenameFails \/ Published
    BY <2>5 DEF Fine, Mishap, Rename, RenameFails, Published
  <2>6. CASE Undo \/ UndoFails \/ Failing \/ Undone
    BY <2>6 DEF Fine, Mishap, Undo, UndoFails, Failing, Undone
  <2>7. CASE Activate \/ Commit \/ CommitFails \/ Tidy \/ Start
    BY <2>7 DEF Fine, Mishap, Activate, Commit, CommitFails, Tidy, Start
  <2>8. CASE Update \/ StartCore \/ Kill \/ (\E f \in Files : NewVersion(f)) \/ UNCHANGED vars
    BY <2>8 DEF Fine, Mishap, Update, StartCore, Kill, NewVersion, vars
  <2> QED
    BY <2>1, <2>2, <2>3, <2>4, <2>5, <2>6, <2>7, <2>8, Zenon DEF Next, Steps
<1>3. checked \subseteq checked'
  BY Zenon DEF Next, Steps, vars, Recover, WriteMetadata, Recovered, CleanUp, NotModified,
         Modified, FetchFails, Unchanged, Prepare, PrepareFails, StopForUpdate,
         CreateJournal, WriteJournal, JournalFails, Rename, RenameFails, Published,
         Undo, UndoFails, Failing, Undone, Activate, Commit, CommitFails, Tidy, Start,
         Update, StartCore, NewVersion, Kill
<1>4. loaded' = pair'
  BY LoadedStep DEF LoadedInv
<1>5. mishaps =< 2
  BY <1>1, <1>2
<1>6. CASE loaded' = loaded
  BY <1>3, <1>4, <1>5, <1>6 DEF IInv, LoadedInv, AcceptedInv
<1>7. CASE Activate /\ loaded' # loaded
  <2>1. step = "activate" /\ pair' = pair
    BY <1>7 DEF Activate, disk
  <2>2. pair = body /\ body \in checked
    BY <1>5, <2>1 DEF IInv, Control, Renaming, FilesInv, RenamingInv
  <2> QED
    BY <1>3, <2>1, <2>2
<1>8. CASE (Start \/ StartCore) /\ loaded' # loaded
  <2>1. /\ step \in {"start", "idle"} /\ pair' = pair
        /\ None \notin {pair[f] : f \in Files}
    BY <1>8, Zenon DEF Start, StartCore, disk
  <2>2. Sound
    BY <1>5, <2>1 DEF IInv, FilesInv, RestInv, Waiting
  <2>3. ~Lost
    BY <2>1, Zenon DEF Lost
  <2> QED
    BY <1>3, <2>1, <2>2, <2>3 DEF Sound
<1>9. CASE ~Activate /\ ~Start /\ ~StartCore
  <2>1. loaded' = loaded \/ loaded' = <<>>
    <3>1. CASE (\E f \in Files : Recover(f) \/ WriteMetadata(f)) \/ Recovered \/ CleanUp
      BY <3>1 DEF Recover, WriteMetadata, Recovered, CleanUp
    <3>2. CASE NotModified \/ Modified \/ FetchFails
      BY <3>2 DEF NotModified, Modified, FetchFails
    <3>3. CASE Unchanged \/ Prepare \/ PrepareFails \/ StopForUpdate
      BY <3>3 DEF Unchanged, Prepare, PrepareFails, StopForUpdate
    <3>4. CASE CreateJournal \/ WriteJournal \/ JournalFails
      BY <3>4 DEF CreateJournal, WriteJournal, JournalFails
    <3>5. CASE Rename \/ RenameFails \/ Published
      BY <3>5 DEF Rename, RenameFails, Published
    <3>6. CASE Undo \/ UndoFails \/ Failing \/ Undone
      BY <3>6 DEF Undo, UndoFails, Failing, Undone
    <3>7. CASE Commit \/ CommitFails \/ Tidy
      BY <3>7 DEF Commit, CommitFails, Tidy
    <3>8. CASE Update \/ Kill \/ (\E f \in Files : NewVersion(f)) \/ UNCHANGED vars
      BY <3>8 DEF Update, Kill, NewVersion, vars
    <3> QED
      BY <1>9, <3>1, <3>2, <3>3, <3>4, <3>5, <3>6, <3>7, <3>8, Zenon DEF Next, Steps
  <2> QED
    BY <1>6, <2>1, Zenon
<1> QED
  BY <1>6, <1>7, <1>8, <1>9

-----------------------------------------------------------------------------
LEMMA InitIInv == Init => IInv
<1> SUFFICES ASSUME Init PROVE IInv
  OBVIOUS
<1> USE DEF Init, InitAt, Files, None
<1>1. Shape /\ Control /\ LoadedInv
  BY DEF Shape, Control, LoadedInv, Pairs, NoBody, Places, Waiting, Ready, Renaming,
         Undoing
<1>2. CacheInv
  BY DEF CacheInv
<1>3. pair \in checked
  OBVIOUS
<1>4. FilesInv /\ AcceptedInv
  BY <1>3 DEF FilesInv, AcceptedInv, RestInv, RenamingInv, Sound, Waiting, Ready
<1> QED
  BY <1>1, <1>2, <1>4 DEF IInv

LEMMA Invariance == Spec => []IInv
<1>1. IInv /\ [Next]_vars => IInv'
  BY ShapeStep, ControlStep, LoadedStep, CacheStep, FilesStep, AcceptedStep DEF IInv
<1> QED
  BY <1>1, InitIInv, PTL DEF Spec

LEMMA AnswerStep == IInv /\ [Next]_vars => AnswerIsCurrent
<1> SUFFICES ASSUME IInv, [Next]_vars, NEW g \in Files, body'[g] # body[g], body'[g] # None
             PROVE  body'[g] = served[g]
  BY DEF AnswerIsCurrent
<1> USE Tables DEF IInv, Shape, Files, None, Pairs, cache, disk, job
<1>1. CASE NotModified
  <2>1. PICK f \in Files : /\ CacheEntry(f).etag = served[f]
                           /\ body' = [body EXCEPT ![f] = CacheEntry(f).body]
    BY <1>1, Zenon DEF NotModified
  <2>2. CacheEntry(f).body = served[f]
    BY <2>1, EntryIsCurrent
  <2> QED
    BY <2>1, <2>2
<1>2. CASE Modified
  BY <1>2 DEF Modified
<1>3. CASE ~NotModified /\ ~Modified
  <2>1. body' = body \/ body' = NoBody
    BY <1>3, Zenon DEF Next, Steps, vars, Recover, WriteMetadata, Recovered, CleanUp,
         FetchFails, Unchanged, Prepare, PrepareFails, StopForUpdate, CreateJournal,
         WriteJournal, JournalFails, Rename, RenameFails, Published, Undo, UndoFails,
         Failing, Undone, Activate, Commit, CommitFails, Tidy, Start, Update, StartCore,
         NewVersion, Kill, GiveUp
  <2> QED
    BY <2>1 DEF NoBody
<1> QED
  BY <1>1, <1>2, <1>3

\* The pair on disk, the pair the core runs on and the bodies taken for current
\* (RuleSetStore and HttpRuleSetBodyFetcher): an idle worker has a pair that sing-box
\* accepted as a pair unless three operations have failed, its core has read it, and
\* an answer "not modified" is never taken for a body the server no longer has.
THEOREM RuleSetsStayCurrent == Spec => RuleSetsAreCurrent
<1>1. IInv => PairIsWhole /\ CoreReadsThePair
  <2> SUFFICES ASSUME IInv PROVE PairIsWhole /\ CoreReadsThePair
    OBVIOUS
  <2>1. mishaps \in Nat /\ pair \in Pairs
    BY DEF IInv, Shape
  <2>2. step = "idle" /\ mishaps =< 2 => Sound /\ (log = "whole" => Previous \in checked)
    BY DEF IInv, FilesInv, RestInv, Waiting
  <2>3. loaded # <<>> => loaded = pair
    BY DEF IInv, LoadedInv
  <2>4. loaded # <<>> /\ mishaps =< 2 => pair \in checked
    BY DEF IInv, AcceptedInv
  <2>5. PairIsWhole
    BY <2>2 DEF PairIsWhole, Sound
  <2> QED
    BY <2>1, <2>3, <2>4, <2>5 DEF CoreReadsThePair
<1>2. IInv /\ [Next]_vars => [AnswerIsCurrent]_vars
  BY AnswerStep
<1> QED
  BY <1>1, <1>2, Invariance, PTL DEF Spec, RuleSetsAreCurrent, FetchIsCurrent
=============================================================================
