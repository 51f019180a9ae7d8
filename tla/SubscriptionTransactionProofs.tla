------------------- MODULE SubscriptionTransactionProofs -------------------
(***************************************************************************)
(* Proofs about the subscription transaction, for every set of documents   *)
(* and every number of generations, commands and crashes, with or without  *)
(* failing writes; about the file and the registry of the configuration    *)
(* (ConfigRuntime), for every set of documents; and about the download of  *)
(* a source (HttpFetch), for every number of URLs, mirrors and redirects.  *)
(***************************************************************************)
EXTENDS SubscriptionTransaction, TLAPS

\* What the place in the code says about the locals and the journal.
ControlInv ==
    /\ pc \in TransactionPoints => tx \in Transactions
    /\ pc \in RecoveryPoints \ {"down"} => journal \in Journals
    /\ pc \in RecoveryPoints \cup {"load", "blocked"} => running = NoGen
    /\ pc = "discard_generation" => journal.newGen # current
    /\ pc \in {"activate", "commit"} <=> prep # NoGen

\* What is prepared comes after the pointer; what runs does not.
PointerInv ==
    /\ running =< current
    /\ prep # NoGen => prep = current + 1 /\ sealed[prep] # NoConfig
    /\ PublishedIsSealed

IInv == TypeOK /\ ControlInv /\ PointerInv

-----------------------------------------------------------------------------
LEMMA InitIInv == Init => IInv
<1> SUFFICES ASSUME Init PROVE IInv
  OBVIOUS
<1> USE TransactionAssumption
<1>1. enabled \in BOOLEAN
  BY Zenon DEF Init
<1>2. current \in Gens \cup {NoGen} /\ 1 \in Gens
  BY DEF Init, Gens, NoGen
<1>3. sealed \in [Gens -> Configs \cup {NoConfig}]
  BY DEF Init
<1>4. TypeOK
  BY <1>1, <1>2, <1>3 DEF Init, TypeOK, NoGen
<1>5. ControlInv
  BY DEF Init, ControlInv, TransactionPoints, RecoveryPoints
<1>6. PointerInv
  BY <1>2 DEF Init, PointerInv, PublishedIsSealed, Gens, NoGen
<1> QED
  BY <1>4, <1>5, <1>6 DEF IInv

Commands == Seq({"stop", "update"})

\* The command queue keeps its type when a command is added or taken.
LEMMA QueueType ==
    ASSUME queue \in Commands
    PROVE  /\ \A c \in {"stop", "update"} : Queued(c) \in Commands
           /\ \A c, d : ConfigChanged(c, d) => queue' \in Commands
           /\ queue # <<>> => Tail(queue) \in Commands
<1>1. ASSUME NEW c \in {"stop", "update"} PROVE Queued(c) \in Commands
  <2>1. <<"stop">> \in Commands
    BY DEF Commands
  <2>2. Append(queue, c) \in Commands
    BY <1>1 DEF Commands
  <2> QED
    BY <2>1, <2>2, Zenon DEF Queued
<1>2. ASSUME NEW c, NEW d, ConfigChanged(c, d) PROVE queue' \in Commands
  BY <1>1, <1>2, Zenon DEF ConfigChanged
<1>3. queue # <<>> => Tail(queue) \in Commands
  BY SMTT(30) DEF Commands
<1> QED
  BY <1>1, <1>2, <1>3

\* Every step keeps the types.
LEMMA TypeStep == IInv /\ [Next]_vars => TypeOK'
<1> SUFFICES ASSUME TypeOK, ControlInv, PointerInv, [Next]_vars PROVE TypeOK'
  BY DEF IInv
<1> USE TransactionAssumption
    DEF TypeOK, ControlInv, Gens, NoGen, Transactions, Journals, TransactionPoints,
        UpdatePoints, RecoveryPoints, Fault, disk, hist
<1>q. /\ \A c \in {"stop", "update"} : Queued(c) \in Seq({"stop", "update"})
      /\ \A c, d : ConfigChanged(c, d) => queue' \in Seq({"stop", "update"})
      /\ queue # <<>> => Tail(queue) \in Seq({"stop", "update"})
  BY QueueType DEF Commands
<1>1. CASE \E new \in Configs : Begin(new)
  BY <1>1 DEF Begin
<1>2. CASE StageConfig
  BY <1>2, Zenon DEF StageConfig
<1>3. CASE MarkJournaled
  BY <1>3 DEF MarkJournaled, WriteJournal, FailJournal, Phases
<1>4. CASE PublishConfig
  BY <1>4 DEF PublishConfig
<1>5. CASE MarkConfig
  BY <1>5, <1>q DEF MarkConfig, WriteJournal, FailJournal, Phases
<1>6. CASE Finish
  BY <1>6 DEF Finish, WriteJournal, FailJournal, Phases
<1>7. CASE Complete
  BY <1>7 DEF Complete, WriteJournal, FailJournal, Phases
<1>8. CASE CompleteStaged
  BY <1>8, Zenon DEF CompleteStaged, Unstage
<1>9. CASE CompleteClear
  BY <1>9 DEF CompleteClear, Answer
<1>10. CASE Undo
  BY <1>10, <1>q DEF Undo, RollBackConfig, Answer
<1>11. CASE UndoAbort
  BY <1>11, <1>q, Zenon DEF UndoAbort, RollBackConfig
<1>12. CASE AbortStaged
  BY <1>12, Zenon DEF AbortStaged, Unstage, Answer
<1>13. CASE AbortClear
  BY <1>13 DEF AbortClear, Answer
<1>14. CASE RequestUpdate
  BY <1>14, <1>q DEF RequestUpdate
<1>15. CASE RunReady
  BY <1>15 DEF RunReady
<1>16. CASE TakeCommand
  BY <1>16, <1>q, Zenon DEF TakeCommand
<1>17. CASE PrepareFails
  <2>1. sealed' \in [Gens -> Configs \cup {NoConfig}]
    BY <1>17, Zenon DEF PrepareFails, SlotIsFree
  <2> QED
    BY <1>17, <2>1 DEF PrepareFails, Done
<1>18. CASE Prepare
  BY <1>18 DEF Prepare, SlotIsFree, NextGen
<1>19. CASE Supersede
  BY <1>19, Zenon DEF Supersede, Discard, Done
<1>20. CASE ActivateFails
  BY ZenonT(60), <1>20 DEF ActivateFails, Discard, Restart, Done, Failed
<1>21. CASE Activate
  BY <1>21 DEF Activate
<1>22. CASE Commit
  BY <1>22, Zenon DEF Commit, MarkPublished, Done
<1>23. CASE CommitFails
  BY ZenonT(60), <1>23 DEF CommitFails, Discard, Restart, MarkPublished, Done, Failed
<1>24. CASE RecordResult
  BY <1>24 DEF RecordResult, Failed
<1>25. CASE Exit
  BY <1>25 DEF Exit, Down
<1>26. CASE CoreStops
  BY <1>26 DEF CoreStops
<1>27. CASE CoreStarts
  BY <1>27 DEF CoreStarts
<1>28. CASE Crash
  BY <1>28 DEF Crash, Down
<1>29. CASE Recover
  BY <1>29 DEF Recover, RecoveryAction
<1>30. CASE DiscardGeneration
  BY <1>30, Zenon DEF DiscardGeneration
<1>31. CASE RecoverConfig
  BY <1>31 DEF RecoverConfig
<1>32. CASE RecoverMark
  BY SMTT(30), <1>32 DEF RecoverMark, Phases
<1>33. CASE RecoverStaged
  BY <1>33, Zenon DEF RecoverStaged, Unstage
<1>34. CASE RecoverClear
  BY <1>34 DEF RecoverClear
<1>35. CASE Load
  BY <1>35, <1>q DEF Load
<1>36. CASE UNCHANGED vars
  BY <1>36 DEF vars
<1> QED
  BY <1>1, <1>2, <1>3, <1>4, <1>5, <1>6, <1>7, <1>8, <1>9, <1>10, <1>11,
     <1>12, <1>13, <1>14, <1>15, <1>16, <1>17, <1>18, <1>19, <1>20, <1>21,
     <1>22, <1>23, <1>24, <1>25, <1>26, <1>27, <1>28, <1>29, <1>30, <1>31,
     <1>32, <1>33, <1>34, <1>35, <1>36, Zenon
     DEF Next, Transaction, Update, Recovery

\* Every step keeps what the place in the code says.
LEMMA ControlStep == IInv /\ [Next]_vars => ControlInv'
<1> SUFFICES ASSUME TypeOK, ControlInv, PointerInv, [Next]_vars PROVE ControlInv'
  BY DEF IInv
<1> USE TransactionAssumption
    DEF TypeOK, ControlInv, PointerInv, Gens, NoGen, Transactions, Journals,
        TransactionPoints, UpdatePoints, RecoveryPoints, Fault, disk, hist
<1>1. CASE \E new \in Configs : Begin(new)
  BY <1>1 DEF Begin
<1>2. CASE StageConfig
  BY <1>2 DEF StageConfig
<1>3. CASE MarkJournaled
  BY <1>3 DEF MarkJournaled, WriteJournal, FailJournal, Phases
<1>4. CASE PublishConfig
  BY <1>4 DEF PublishConfig
<1>5. CASE MarkConfig
  BY <1>5 DEF MarkConfig, WriteJournal, FailJournal, Phases
<1>6. CASE Finish
  BY <1>6 DEF Finish, WriteJournal, FailJournal, Phases
<1>7. CASE Complete
  BY <1>7 DEF Complete, WriteJournal, FailJournal, Phases
<1>8. CASE CompleteStaged
  BY <1>8 DEF CompleteStaged, Unstage
<1>9. CASE CompleteClear
  BY <1>9 DEF CompleteClear, Answer
<1>10. CASE Undo
  BY <1>10 DEF Undo, RollBackConfig, Answer
<1>11. CASE UndoAbort
  BY <1>11, Zenon DEF UndoAbort, RollBackConfig
<1>12. CASE AbortStaged
  BY <1>12 DEF AbortStaged, Unstage, Answer
<1>13. CASE AbortClear
  BY <1>13 DEF AbortClear, Answer
<1>14. CASE RequestUpdate
  BY <1>14 DEF RequestUpdate
<1>15. CASE RunReady
  BY <1>15 DEF RunReady
<1>16. CASE TakeCommand
  BY <1>16, Zenon DEF TakeCommand
<1>17. CASE PrepareFails
  BY <1>17 DEF PrepareFails, Done, SlotIsFree, NextGen
<1>18. CASE Prepare
  BY <1>18 DEF Prepare, SlotIsFree, NextGen
<1>19. CASE Supersede
  BY <1>19 DEF Supersede, Discard, Done
<1>20. CASE ActivateFails
  BY <1>20 DEF ActivateFails, Discard, Restart, Done, Failed
<1>21. CASE Activate
  BY <1>21 DEF Activate
<1>22. CASE Commit
  BY <1>22 DEF Commit, MarkPublished, Done
<1>23. CASE CommitFails
  BY ZenonT(60), <1>23 DEF CommitFails, Discard, Restart, MarkPublished, Done, Failed
<1>24. CASE RecordResult
  BY <1>24 DEF RecordResult, Failed
<1>25. CASE Exit
  BY <1>25 DEF Exit, Down
<1>26. CASE CoreStops
  BY <1>26 DEF CoreStops
<1>27. CASE CoreStarts
  BY <1>27 DEF CoreStarts
<1>28. CASE Crash
  BY <1>28 DEF Crash, Down
<1>29. CASE Recover
  BY <1>29 DEF Recover, RecoveryAction
<1>30. CASE DiscardGeneration
  BY <1>30 DEF DiscardGeneration
<1>31. CASE RecoverConfig
  BY <1>31 DEF RecoverConfig
<1>32. CASE RecoverMark
  BY <1>32 DEF RecoverMark, Phases
<1>33. CASE RecoverStaged
  BY <1>33 DEF RecoverStaged, Unstage
<1>34. CASE RecoverClear
  BY <1>34 DEF RecoverClear
<1>35. CASE Load
  BY <1>35 DEF Load
<1>36. CASE UNCHANGED vars
  BY <1>36 DEF vars
<1> QED
  BY <1>1, <1>2, <1>3, <1>4, <1>5, <1>6, <1>7, <1>8, <1>9, <1>10, <1>11,
     <1>12, <1>13, <1>14, <1>15, <1>16, <1>17, <1>18, <1>19, <1>20, <1>21,
     <1>22, <1>23, <1>24, <1>25, <1>26, <1>27, <1>28, <1>29, <1>30, <1>31,
     <1>32, <1>33, <1>34, <1>35, <1>36, Zenon
     DEF Next, Transaction, Update, Recovery

\* The steps that change the generations, the pointer, the runtime or what is
\* prepared, and all the others.
generations == <<sealed, current, running, prep>>

GenerationSteps ==
    \/ TakeCommand \/ PrepareFails \/ Prepare \/ Supersede \/ ActivateFails
    \/ Activate \/ Commit \/ CommitFails \/ Exit \/ CoreStops \/ CoreStarts
    \/ Crash \/ DiscardGeneration

LEMMA OtherSteps == [Next]_vars => GenerationSteps \/ UNCHANGED generations
<1> SUFFICES ASSUME [Next]_vars PROVE GenerationSteps \/ UNCHANGED generations
  OBVIOUS
<1> USE DEF generations, disk
<1>1. CASE Transaction
  BY <1>1 DEF Transaction, Begin, StageConfig, MarkJournaled, PublishConfig,
              MarkConfig, Finish, Complete, CompleteStaged, CompleteClear, Undo,
              UndoAbort, AbortStaged, AbortClear
<1>2. CASE Update
  BY <1>2 DEF Update, GenerationSteps, RequestUpdate, RunReady, RecordResult
<1>3. CASE Recovery
  BY <1>3 DEF Recovery, GenerationSteps, Recover, RecoverConfig, RecoverMark,
              RecoverStaged, RecoverClear, Load
<1>4. CASE UNCHANGED vars
  BY SMTT(30), <1>4 DEF vars
<1> QED
  BY <1>1, <1>2, <1>3, <1>4 DEF Next, GenerationSteps

\* Every step keeps the order of running, pointer and prepared generation.
LEMMA PointerStep == IInv /\ [Next]_vars => PointerInv'
<1> SUFFICES ASSUME TypeOK, ControlInv, PointerInv, [Next]_vars PROVE PointerInv'
  BY DEF IInv
<1> USE TransactionAssumption
    DEF TypeOK, ControlInv, PointerInv, PublishedIsSealed, Gens, NoGen,
        Journals, RecoveryPoints, Fault, disk, hist
<1>1. CASE TakeCommand
  BY <1>1 DEF TakeCommand
<1>2. CASE PrepareFails
  BY <1>2 DEF PrepareFails, Done, SlotIsFree, NextGen
<1>3. CASE Prepare
  BY <1>3 DEF Prepare, SlotIsFree, NextGen
<1>4. CASE Supersede
  BY <1>4 DEF Supersede, Discard, Done
<1>5. CASE ActivateFails
  BY <1>5 DEF ActivateFails, Discard, Restart, Done, Failed
<1>6. CASE Activate
  BY <1>6 DEF Activate
<1>7. CASE Commit
  BY <1>7 DEF Commit, MarkPublished, Done
<1>8. CASE CommitFails
  BY SMTT(30), <1>8 DEF CommitFails, Discard, Restart, MarkPublished, Done, Failed
<1>9. CASE Exit
  BY <1>9 DEF Exit, Down
<1>10. CASE CoreStops
  BY <1>10 DEF CoreStops
<1>11. CASE CoreStarts
  BY <1>11 DEF CoreStarts
<1>12. CASE Crash
  BY <1>12 DEF Crash, Down
<1>13. CASE DiscardGeneration
  BY <1>13 DEF DiscardGeneration
<1>14. CASE UNCHANGED generations
  BY <1>14 DEF generations
<1> QED
  BY <1>1, <1>2, <1>3, <1>4, <1>5, <1>6, <1>7, <1>8, <1>9, <1>10, <1>11,
     <1>12, <1>13, <1>14, OtherSteps
     DEF GenerationSteps

\* A step moves the pointer by one at most and keeps what it names.
LEMMA PointerMoves ==
    IInv /\ [Next]_vars
        => /\ current' \in {current, current + 1}
           /\ current # NoGen => sealed'[current] = sealed[current]
<1> SUFFICES ASSUME TypeOK, ControlInv, PointerInv, [Next]_vars
             PROVE  /\ current' \in {current, current + 1}
                    /\ current # NoGen => sealed'[current] = sealed[current]
  BY DEF IInv
<1> USE TransactionAssumption
    DEF TypeOK, ControlInv, PointerInv, PublishedIsSealed, Gens, NoGen,
        Journals, RecoveryPoints, Fault, disk, hist
<1>1. CASE TakeCommand
  BY <1>1 DEF TakeCommand
<1>2. CASE PrepareFails
  BY <1>2 DEF PrepareFails, Done, SlotIsFree, NextGen
<1>3. CASE Prepare
  BY <1>3 DEF Prepare, SlotIsFree, NextGen
<1>4. CASE Supersede
  BY <1>4 DEF Supersede, Discard, Done
<1>5. CASE ActivateFails
  BY <1>5 DEF ActivateFails, Discard, Restart, Done, Failed
<1>6. CASE Activate
  BY <1>6 DEF Activate
<1>7. CASE Commit
  BY <1>7 DEF Commit, MarkPublished, Done
<1>8. CASE CommitFails
  BY <1>8 DEF CommitFails, Discard, Restart, MarkPublished, Done, Failed
<1>9. CASE Exit
  BY <1>9 DEF Exit, Down
<1>10. CASE CoreStops
  BY <1>10 DEF CoreStops
<1>11. CASE CoreStarts
  BY <1>11 DEF CoreStarts
<1>12. CASE Crash
  BY <1>12 DEF Crash, Down
<1>13. CASE DiscardGeneration
  BY <1>13 DEF DiscardGeneration
<1>14. CASE UNCHANGED generations
  BY <1>14 DEF generations
<1> QED
  BY <1>1, <1>2, <1>3, <1>4, <1>5, <1>6, <1>7, <1>8, <1>9, <1>10, <1>11,
     <1>12, <1>13, <1>14, OtherSteps
     DEF GenerationSteps

LEMMA Invariance == Spec => []IInv
<1>1. IInv /\ [Next]_vars => IInv'
  BY SMTT(30), TypeStep, ControlStep, PointerStep DEF IInv
<1> QED
  BY InitIInv, <1>1, PTL DEF Spec

-----------------------------------------------------------------------------
(* Recovery: what each of its branches has already established.            *)

RecoveryInv ==
    /\ pc \in RecoveryPoints \ {"down"} => journal # None
    /\ pc = "recover_config" =>
         current = journal.newGen /\ staged[journal.newGen] = journal.new
    /\ pc = "recover_mark" => config = journal.new
    /\ pc \in {"recover_staged", "recover_clear"} =>
         (current = journal.newGen => config = journal.new)

(* Publication: from the moment the new document is on disk until the      *)
(* request is undone, disk, accepted document and journal agree on it, and  *)
(* a candidate is built from what was accepted.  A crash hands this over to *)
(* the recovery.                                                           *)

Restarting == RecoveryPoints \cup {"load", "blocked"}

\* Where the document of the transaction is the canonical one.
NewOnDisk ==
    UpdatePoints \cup
    {"mark_config", "finish", "complete", "complete_staged", "complete_clear",
     "undo", "undo_abort", "abort_undo_staged", "abort_undo_clear"}

JournalNames(d) == journal = None \/ journal.new = d

PublicationInv ==
    /\ pc \in Restarting \cup {"idle", "exit"} => tx = None
    /\ pc \notin Restarting => lost = None
    /\ pc = "publish_config" => JournalNames(tx.new)
    /\ tx # None /\ pc \in NewOnDisk =>
         config = tx.new /\ accepted = tx.new /\ JournalNames(tx.new)
    /\ prep # NoGen => sealed[prep] = accepted
    /\ tx # None /\ tx.published =>
         pc \in NewOnDisk /\ current # NoGen /\ sealed[current] = tx.new
    /\ lost # None /\ lost.tx.published =>
         /\ config = lost.tx.new
         /\ JournalNames(lost.tx.new)
         /\ current # NoGen /\ sealed[current] = lost.tx.new

(* Rest: without failing writes no journal outlives its transaction.       *)

RestInv ==
    ~IoFaults =>
    /\ pc \notin {"undo", "abort_undo_staged", "abort_undo_clear"}
    /\ pc \notin Restarting => config = accepted
    /\ pc \in {"idle", "exit", "load"} => journal = None
    /\ pc \in UpdatePoints /\ tx = None => journal = None

\* Every step keeps what the branches of the recovery have established.
LEMMA RecoveryStep == IInv /\ RecoveryInv /\ [Next]_vars => RecoveryInv'
<1> SUFFICES ASSUME TypeOK, ControlInv, PointerInv, RecoveryInv, [Next]_vars PROVE RecoveryInv'
  BY DEF IInv
<1> USE TransactionAssumption
    DEF TypeOK, ControlInv, PointerInv, Gens, NoGen, Transactions, Journals,
        TransactionPoints, UpdatePoints, RecoveryPoints, Fault, disk, hist,
        RecoveryInv
<1>1. CASE \E new \in Configs : Begin(new)
  BY <1>1 DEF Begin
<1>2. CASE StageConfig
  BY <1>2 DEF StageConfig
<1>3. CASE MarkJournaled
  BY <1>3 DEF MarkJournaled, WriteJournal, FailJournal, Phases
<1>4. CASE PublishConfig
  BY <1>4 DEF PublishConfig
<1>5. CASE MarkConfig
  BY <1>5 DEF MarkConfig, WriteJournal, FailJournal, Phases
<1>6. CASE Finish
  BY <1>6 DEF Finish, WriteJournal, FailJournal, Phases
<1>7. CASE Complete
  BY <1>7 DEF Complete, WriteJournal, FailJournal, Phases
<1>8. CASE CompleteStaged
  BY <1>8 DEF CompleteStaged, Unstage
<1>9. CASE CompleteClear
  BY <1>9 DEF CompleteClear, Answer
<1>10. CASE Undo
  BY <1>10 DEF Undo, RollBackConfig, Answer
<1>11. CASE UndoAbort
  BY <1>11 DEF UndoAbort, RollBackConfig
<1>12. CASE AbortStaged
  BY <1>12 DEF AbortStaged, Unstage, Answer
<1>13. CASE AbortClear
  BY <1>13 DEF AbortClear, Answer
<1>14. CASE RequestUpdate
  BY <1>14 DEF RequestUpdate
<1>15. CASE RunReady
  BY <1>15 DEF RunReady
<1>16. CASE TakeCommand
  BY <1>16 DEF TakeCommand
<1>17. CASE PrepareFails
  BY <1>17 DEF PrepareFails, Done, SlotIsFree, NextGen
<1>18. CASE Prepare
  BY <1>18 DEF Prepare, SlotIsFree, NextGen
<1>19. CASE Supersede
  BY <1>19 DEF Supersede, Discard, Done
<1>20. CASE ActivateFails
  BY <1>20 DEF ActivateFails, Discard, Restart, Done, Failed
<1>21. CASE Activate
  BY <1>21 DEF Activate
<1>22. CASE Commit
  BY <1>22 DEF Commit, MarkPublished, Done
<1>23. CASE CommitFails
  BY <1>23 DEF CommitFails, Discard, Restart, MarkPublished, Done, Failed
<1>24. CASE RecordResult
  BY <1>24 DEF RecordResult, Failed
<1>25. CASE Exit
  BY <1>25 DEF Exit, Down
<1>26. CASE CoreStops
  BY <1>26 DEF CoreStops
<1>27. CASE CoreStarts
  BY <1>27 DEF CoreStarts
<1>28. CASE Crash
  BY <1>28 DEF Crash, Down
<1>29. CASE Recover
  BY <1>29 DEF Recover, RecoveryAction
<1>30. CASE DiscardGeneration
  BY <1>30 DEF DiscardGeneration
<1>31. CASE RecoverConfig
  BY <1>31 DEF RecoverConfig
<1>32. CASE RecoverMark
  BY <1>32 DEF RecoverMark, Phases
<1>33. CASE RecoverStaged
  BY <1>33 DEF RecoverStaged, Unstage
<1>34. CASE RecoverClear
  BY <1>34 DEF RecoverClear
<1>35. CASE Load
  BY <1>35 DEF Load
<1>36. CASE UNCHANGED vars
  BY SMTT(30), <1>36 DEF vars
<1> QED
  BY <1>1, <1>2, <1>3, <1>4, <1>5, <1>6, <1>7, <1>8, <1>9, <1>10, <1>11,
     <1>12, <1>13, <1>14, <1>15, <1>16, <1>17, <1>18, <1>19, <1>20, <1>21,
     <1>22, <1>23, <1>24, <1>25, <1>26, <1>27, <1>28, <1>29, <1>30, <1>31,
     <1>32, <1>33, <1>34, <1>35, <1>36, Zenon
     DEF Next, Transaction, Update, Recovery

\* Every step keeps the publication whole.
LEMMA PublicationStep == IInv /\ RecoveryInv /\ PublicationInv /\ [Next]_vars => PublicationInv'
<1> SUFFICES ASSUME TypeOK, ControlInv, PointerInv, RecoveryInv, PublicationInv,
                    [Next]_vars
             PROVE  PublicationInv'
  BY Zenon DEF IInv
<1> USE TransactionAssumption
    DEF TypeOK, ControlInv, PointerInv, Gens, NoGen, Transactions, Journals,
        TransactionPoints, UpdatePoints, RecoveryPoints, Fault, disk, hist,
        RecoveryInv, PublicationInv, Restarting, NewOnDisk, JournalNames
<1>1. CASE \E new \in Configs : Begin(new)
  BY <1>1 DEF Begin
<1>2. CASE StageConfig
  BY <1>2, Zenon DEF StageConfig
<1>3. CASE MarkJournaled
  BY <1>3 DEF MarkJournaled, WriteJournal, FailJournal, Phases
<1>4. CASE PublishConfig
  BY <1>4, Zenon DEF PublishConfig
<1>5. CASE MarkConfig
  BY <1>5 DEF MarkConfig, WriteJournal, FailJournal, Phases
<1>6. CASE Finish
  BY <1>6 DEF Finish, WriteJournal, FailJournal, Phases
<1>7. CASE Complete
  BY <1>7 DEF Complete, WriteJournal, FailJournal, Phases
<1>8. CASE CompleteStaged
  BY <1>8, Zenon DEF CompleteStaged, Unstage
<1>9. CASE CompleteClear
  BY <1>9, Zenon DEF CompleteClear, Answer
<1>10. CASE Undo
  BY <1>10 DEF Undo, RollBackConfig, Answer
<1>11. CASE UndoAbort
  BY <1>11, Zenon DEF UndoAbort, RollBackConfig
<1>12. CASE AbortStaged
  BY <1>12 DEF AbortStaged, Unstage, Answer
<1>13. CASE AbortClear
  BY <1>13 DEF AbortClear, Answer
<1>14. CASE RequestUpdate
  BY <1>14, Zenon DEF RequestUpdate
<1>15. CASE RunReady
  BY <1>15, Zenon DEF RunReady
<1>16. CASE TakeCommand
  BY <1>16 DEF TakeCommand
<1>17. CASE PrepareFails
  BY ZenonT(60), <1>17 DEF PrepareFails, Done, SlotIsFree, NextGen
<1>18. CASE Prepare
  BY <1>18 DEF Prepare, SlotIsFree, NextGen
<1>19. CASE Supersede
  <2>1. current # NoGen => sealed'[current] = sealed[current]
    BY PointerMoves, Zenon DEF IInv
  <2> QED
    BY <1>19, <2>1, Zenon DEF Supersede, Done
<1>20. CASE ActivateFails
  <2>1. current # NoGen => sealed'[current] = sealed[current]
    BY PointerMoves DEF IInv
  <2>2. pc' \in {"record", "exit", "undo_abort"} /\ (pc' = "exit" => tx = None)
    BY <1>20, Zenon DEF ActivateFails, Done, Failed
  <2> QED
    BY <1>20, <2>1, <2>2, Zenon DEF ActivateFails
<1>21. CASE Activate
  BY <1>21 DEF Activate
<1>22. CASE Commit
  BY <1>22 DEF Commit, MarkPublished, Done
<1>23. CASE CommitFails
  BY SMTT(30), <1>23 DEF CommitFails, Discard, Restart, MarkPublished, Done, Failed
<1>24. CASE RecordResult
  BY <1>24 DEF RecordResult, Failed
<1>25. CASE Exit
  BY <1>25, Zenon DEF Exit, Down
<1>26. CASE CoreStops
  BY <1>26, Zenon DEF CoreStops
<1>27. CASE CoreStarts
  BY <1>27, Zenon DEF CoreStarts
<1>28. CASE Crash
  BY <1>28, Zenon DEF Crash, Down
<1>29. CASE Recover
  BY <1>29, Zenon DEF Recover, RecoveryAction
<1>30. CASE DiscardGeneration
  BY <1>30, Zenon DEF DiscardGeneration
<1>31. CASE RecoverConfig
  BY <1>31 DEF RecoverConfig
<1>32. CASE RecoverMark
  BY <1>32 DEF RecoverMark, Phases
<1>33. CASE RecoverStaged
  BY <1>33 DEF RecoverStaged, Unstage
<1>34. CASE RecoverClear
  BY <1>34 DEF RecoverClear
<1>35. CASE Load
  BY <1>35, Zenon DEF Load
<1>36. CASE UNCHANGED vars
  BY SMTT(30), <1>36 DEF vars
<1> QED
  BY <1>1, <1>2, <1>3, <1>4, <1>5, <1>6, <1>7, <1>8, <1>9, <1>10, <1>11,
     <1>12, <1>13, <1>14, <1>15, <1>16, <1>17, <1>18, <1>19, <1>20, <1>21,
     <1>22, <1>23, <1>24, <1>25, <1>26, <1>27, <1>28, <1>29, <1>30, <1>31,
     <1>32, <1>33, <1>34, <1>35, <1>36, Zenon
     DEF Next, Transaction, Update, Recovery

\* Every step keeps the rest clean.
LEMMA RestStep == IInv /\ PublicationInv /\ RestInv /\ [Next]_vars => RestInv'
<1> SUFFICES ASSUME TypeOK, ControlInv, PointerInv, PublicationInv, RestInv, [Next]_vars PROVE RestInv'
  BY DEF IInv
<1> USE TransactionAssumption
    DEF TypeOK, ControlInv, PointerInv, Gens, NoGen, Transactions, Journals,
        TransactionPoints, UpdatePoints, RecoveryPoints, Fault, disk, hist,
        PublicationInv, RestInv, Restarting
<1>1. CASE \E new \in Configs : Begin(new)
  BY <1>1, Zenon DEF Begin
<1>2. CASE StageConfig
  BY <1>2, Zenon DEF StageConfig
<1>3. CASE MarkJournaled
  BY <1>3, Zenon DEF MarkJournaled, WriteJournal, FailJournal, Phases
<1>4. CASE PublishConfig
  BY <1>4, Zenon DEF PublishConfig
<1>5. CASE MarkConfig
  BY <1>5, Zenon DEF MarkConfig, WriteJournal, FailJournal, Phases
<1>6. CASE Finish
  BY <1>6, Zenon DEF Finish, WriteJournal, FailJournal, Phases
<1>7. CASE Complete
  BY <1>7, Zenon DEF Complete, WriteJournal, FailJournal, Phases
<1>8. CASE CompleteStaged
  BY <1>8, Zenon DEF CompleteStaged, Unstage
<1>9. CASE CompleteClear
  BY <1>9 DEF CompleteClear, Answer
<1>10. CASE Undo
  BY <1>10 DEF Undo, RollBackConfig, Answer
<1>11. CASE UndoAbort
  BY <1>11, Zenon DEF UndoAbort, RollBackConfig
<1>12. CASE AbortStaged
  BY <1>12, Zenon DEF AbortStaged, Unstage, Answer
<1>13. CASE AbortClear
  BY <1>13, Zenon DEF AbortClear, Answer
<1>14. CASE RequestUpdate
  BY <1>14, Zenon DEF RequestUpdate
<1>15. CASE RunReady
  BY <1>15, Zenon DEF RunReady
<1>16. CASE TakeCommand
  BY <1>16, Zenon DEF TakeCommand
<1>17. CASE PrepareFails
  BY <1>17, Zenon DEF PrepareFails, Done, SlotIsFree, NextGen
<1>18. CASE Prepare
  BY <1>18, Zenon DEF Prepare, SlotIsFree, NextGen
<1>19. CASE Supersede
  BY <1>19, Zenon DEF Supersede, Discard, Done
<1>20. CASE ActivateFails
  BY <1>20, Zenon DEF ActivateFails, Discard, Restart, Done, Failed
<1>21. CASE Activate
  BY <1>21 DEF Activate
<1>22. CASE Commit
  BY ZenonT(60), <1>22 DEF Commit, MarkPublished, Done
<1>23. CASE CommitFails
  BY <1>23 DEF CommitFails, Discard, Restart, MarkPublished, Done, Failed
<1>24. CASE RecordResult
  BY <1>24 DEF RecordResult, Failed
<1>25. CASE Exit
  BY <1>25 DEF Exit, Down
<1>26. CASE CoreStops
  BY <1>26 DEF CoreStops
<1>27. CASE CoreStarts
  BY <1>27 DEF CoreStarts
<1>28. CASE Crash
  BY <1>28, Zenon DEF Crash, Down
<1>29. CASE Recover
  BY <1>29, Zenon DEF Recover, RecoveryAction
<1>30. CASE DiscardGeneration
  BY <1>30, Zenon DEF DiscardGeneration
<1>31. CASE RecoverConfig
  BY <1>31 DEF RecoverConfig
<1>32. CASE RecoverMark
  BY <1>32, Zenon DEF RecoverMark, Phases
<1>33. CASE RecoverStaged
  BY <1>33, Zenon DEF RecoverStaged, Unstage
<1>34. CASE RecoverClear
  BY <1>34, Zenon DEF RecoverClear
<1>35. CASE Load
  BY <1>35 DEF Load
<1>36. CASE UNCHANGED vars
  BY <1>36 DEF vars
<1> QED
  BY ZenonT(60), <1>1, <1>2, <1>3, <1>4, <1>5, <1>6, <1>7, <1>8, <1>9, <1>10, <1>11,
     <1>12, <1>13, <1>14, <1>15, <1>16, <1>17, <1>18, <1>19, <1>20, <1>21,
     <1>22, <1>23, <1>24, <1>25, <1>26, <1>27, <1>28, <1>29, <1>30, <1>31,
     <1>32, <1>33, <1>34, <1>35, <1>36
     DEF Next, Transaction, Update, Recovery


Whole == IInv /\ RecoveryInv /\ PublicationInv /\ RestInv

LEMMA InitWhole == Init => Whole
<1> SUFFICES ASSUME Init PROVE RecoveryInv /\ PublicationInv /\ RestInv
  BY InitIInv DEF Whole
<1>1. RecoveryInv
  BY DEF Init, RecoveryInv, RecoveryPoints
<1>2. PublicationInv
  BY DEF Init, PublicationInv, Restarting, RecoveryPoints
<1>3. RestInv
  BY DEF Init, RestInv, Restarting, UpdatePoints
<1> QED
  BY <1>1, <1>2, <1>3

LEMMA WholeInvariance == Spec => []Whole
<1>1. Whole /\ [Next]_vars => Whole'
  BY TypeStep, ControlStep, PointerStep, RecoveryStep, PublicationStep, RestStep
     DEF Whole, IInv
<1> QED
  BY InitWhole, <1>1, PTL DEF Spec

\* No step of a recovery changes where it leads.
LEMMA OutcomeKept ==
    ASSUME IInv, RecoveryInv, [Next]_vars, pc \in RecoveryPoints
    PROVE  RecoveryOutcome' = RecoveryOutcome
<1> USE TransactionAssumption
    DEF IInv, TypeOK, ControlInv, RecoveryInv, Gens, NoGen, Journals, RecoveryPoints,
        RecoveryOutcome, Fault, disk, hist
<1>1. CASE UNCHANGED <<config, staged, journal, current>>
  BY <1>1, Zenon DEF RecoveryOutcome
<1>2. CASE RecoverConfig
  BY <1>2 DEF RecoverConfig
<1>3. CASE RecoverMark
  BY <1>3 DEF RecoverMark
<1>4. CASE RecoverStaged
  BY <1>4 DEF RecoverStaged, Unstage
<1>5. CASE RecoverClear
  BY <1>5 DEF RecoverClear
<1>6. ~Transaction /\ ~(Update \/ CoreStops \/ CoreStarts \/ Load)
  BY DEF Transaction, Begin, StageConfig, MarkJournaled, PublishConfig, MarkConfig,
         Finish, Complete, CompleteStaged, CompleteClear, Undo, UndoAbort,
         AbortStaged, AbortClear, Update, RequestUpdate, RunReady, TakeCommand,
         PrepareFails, Prepare, Supersede, ActivateFails, Activate, Commit,
         CommitFails, RecordResult, Exit, CoreStops, CoreStarts, Load
<1>7. Recover \/ DiscardGeneration \/ Crash \/ UNCHANGED vars
         => UNCHANGED <<config, staged, journal, current>>
  BY Zenon DEF Recover, DiscardGeneration, Crash, Down, vars, disk
<1> QED
  BY <1>1, <1>2, <1>3, <1>4, <1>5, <1>6, <1>7, Zenon DEF Next, Recovery

-----------------------------------------------------------------------------
\* Files, locals and the place in the code keep their types.
THEOREM TypeCorrect == Spec => []TypeOK
BY Invariance, PTL DEF IInv

\* However updates, transactions, crashes and recoveries interleave, the
\* generation the pointer names and the one that runs are never removed
\* (discard_sealed and the recovery's DiscardStaged).
THEOREM PublishedGenerationsExist == Spec => []PublishedIsSealed
BY Invariance, PTL DEF IInv, PointerInv

\* The pointer advances by one generation at a time, and the generation it
\* names is not rewritten (next_generation, prepare_candidate, commit).
THEOREM PointerNeverGoesBack == Spec => PointerAdvances
<1>1. IInv /\ [Next]_vars
        => [/\ current' \in {current, current + 1}
            /\ current # NoGen => sealed'[current] = sealed[current]]_vars
  BY PointerMoves
<1> QED
  BY Invariance, <1>1, PTL DEF Spec, PointerAdvances

\* A transaction whose generation was published before a crash is completed by
\* the recovery, whether or not writes fail; and where they do not fail, a
\* worker at rest has no journal and has accepted the document on disk
\* (CommitJournalStore::recover, complete and abort).
THEOREM TransactionsAreWhole == Spec => []TransactionIsWhole
<1>1. Whole => TransactionIsWhole
  BY DEF Whole, PublicationInv, RestInv, TransactionIsWhole, PublishedRollsForward,
         RestIsClean, Restarting, RecoveryPoints
<1> QED
  BY WholeInvariance, <1>1, PTL

\* A recovery that is cut short, by a crash or an error, leads where it led
\* before (CommitJournalStore::recover decides from the files alone).
THEOREM RecoveryCanBeRepeated == Spec => RecoveryIsIdempotent
<1>1. Whole /\ [Next]_vars
        => [(pc \in RecoveryPoints) => (RecoveryOutcome' = RecoveryOutcome)]_vars
  BY OutcomeKept, Zenon DEF Whole
<1> QED
  BY WholeInvariance, <1>1, PTL DEF Spec, RecoveryIsIdempotent

-----------------------------------------------------------------------------
(***************************************************************************)
(* The file and the registry of the configuration, whatever the documents. *)
(***************************************************************************)
CONSTANTS Docs, Bad, SourcesOf, Shipped, MaxEvents

VARIABLES file, entry, registry, inUse, taken, rejected, stray, missed, watch,
          queued, dirty, stage, work, events

\* A registry binds at most one document.
IsRegistry(r) ==
    /\ r = [active |-> r.active, pending |-> r.pending]
    /\ \A a, b \in r.active : a = b

\* It is bound to what is in use, or by a write that failed.
Follows(r, use, s) == r.active # {} /\ (r.active = use \/ r.active \subseteq s)

FollowsStill(r, q, use, s, t) == IsRegistry(q) /\ Follows(q, use, t) /\ s \subseteq t

LEMMA BoundByFailedWrite ==
    ASSUME NEW r, NEW q, NEW use, NEW s, IsRegistry(r), Follows(r, use, s),
           IsRegistry(q), q.active # {}
    PROVE  FollowsStill(r, q, use, s, s \cup (q.active \ r.active))
<1>1. CASE q.active = r.active
  BY <1>1 DEF FollowsStill, Follows
<1>2. CASE q.active # r.active
  <2>1. q.active \cap r.active = {}
    BY <1>2 DEF IsRegistry
  <2> QED  BY <2>1 DEF FollowsStill, Follows
<1> QED
  BY <1>1, <1>2

LEMMA FollowsMore ==
    ASSUME NEW r, NEW use, NEW s, NEW t, Follows(r, use, s), s \subseteq t
    PROVE  Follows(r, use, t)
BY DEF Follows

G == INSTANCE ConfigRuntime WITH disk <- file, current <- inUse, accepted <- taken

Reloads == {"watched", "reload"}
Writes == {"apply", "service", "mutate"}

WorkShape ==
    /\ work = [kind |-> work.kind, doc |-> work.doc, prefer |-> work.prefer,
               expected |-> work.expected, binding |-> work.binding,
               promote |-> work.promote, base |-> work.base, saved |-> work.saved]
    /\ work.saved = [disk |-> work.saved.disk, registry |-> work.saved.registry]

\* Where the worker is in each kind of change.
WorkPlace ==
    /\ work.kind \in {"none", "boot"} \cup Reloads \cup Writes
    /\ stage \in {"idle", "down", "arming"} <=> work.kind = "none"
    /\ stage \in {"entry", "bytes", "import", "relink", "load"} => work.kind \in Reloads
    /\ stage \in {"check", "write", "verify", "restore"} => work.kind \in Writes
    /\ stage \in {"commands", "rollback", "unregister"} =>
           work.kind \in {"reload"} \cup Writes

\* The registry follows the configuration in use, unless the worker starts; and so
\* it did when the request was taken.
Bound ==
    /\ IsRegistry(registry)
    /\ stage # "down" /\ work.kind # "boot" =>
           inUse = taken /\ Follows(registry, inUse, stray)
    /\ work.kind \in {"reload"} \cup Writes =>
           /\ IsRegistry(work.base.registry)
           /\ Follows(work.base.registry, work.base.current, stray)

\* What is put back when a change fails, and the binding that is kept.
Saved ==
    /\ work.kind \in Writes /\ stage \in {"write", "verify", "activate", "restore"} =>
           /\ IsRegistry(work.saved.registry)
           /\ Follows(work.saved.registry, inUse, stray)
    /\ stage \in {"check", "write", "verify", "activate"} /\ ~work.promote =>
           \A b \in work.binding : registry.active = {b}

ConfigInv == WorkShape /\ WorkPlace /\ Bound /\ Saved

-----------------------------------------------------------------------------
LEMMA NoWorkIs ==
    /\ G!NoWork.kind = "none"
    /\ G!NoWork = [kind |-> G!NoWork.kind, doc |-> G!NoWork.doc,
                   prefer |-> G!NoWork.prefer, expected |-> G!NoWork.expected,
                   binding |-> G!NoWork.binding, promote |-> G!NoWork.promote,
                   base |-> G!NoWork.base, saved |-> G!NoWork.saved]
    /\ G!NoWork.saved = [disk |-> G!NoWork.saved.disk,
                         registry |-> G!NoWork.saved.registry]
BY Zenon DEF G!NoWork

\* SourceRegistry::persist fails.
LEMMA PersistFails ==
    ASSUME NEW use, IsRegistry(registry), Follows(registry, use, stray),
           NEW q, IsRegistry(q), q.active # {}, G!FailedPersist(q)
    PROVE  FollowsStill(registry, registry', use, stray, stray')
<1>1. CASE UNCHANGED <<registry, stray>>
  BY <1>1, Zenon DEF FollowsStill
<1>2. CASE registry' = q /\ stray' = stray \cup (q.active \ registry.active)
  BY <1>2, BoundByFailedWrite, Zenon
<1> QED
  BY <1>1, <1>2, Zenon DEF G!FailedPersist

\* A change ends.
LEMMA ChangeEnds ==
    ASSUME work' = G!NoWork, IsRegistry(registry)',
           \/ stage' = "down"
           \/ /\ stage' \in {"idle", "arming"}
              /\ inUse' = taken' /\ Follows(registry, inUse, stray)'
    PROVE  ConfigInv'
<1>1. work'.kind = "none"
  BY NoWorkIs, Zenon
<1>2. WorkShape'
  BY NoWorkIs, Zenon DEF WorkShape
<1> QED
  BY <1>1, <1>2, Zenon DEF ConfigInv, WorkPlace, Bound, Saved, Reloads, Writes

LEMMA Rejects ==
    ASSUME ConfigInv, G!Reject, stage # "down", IsRegistry(registry)',
           work.kind # "boot" => Follows(registry', inUse, stray')
    PROVE  ConfigInv'
<1>1. /\ work' = G!NoWork /\ inUse' = inUse /\ taken' = taken
      /\ work.kind = "boot" => stage' = "down"
      /\ work.kind # "boot" => stage' = "idle"
  BY Zenon DEF G!Reject, G!Rest
<1>2. work.kind # "boot" => inUse = taken
  BY Zenon DEF ConfigInv, Bound
<1> QED
  BY <1>1, <1>2, ChangeEnds, Zenon

LEMMA RejectsUnchanged ==
    ASSUME ConfigInv, G!Reject, stage # "down", UNCHANGED <<registry, stray>>
    PROVE  ConfigInv'
<1>1. /\ IsRegistry(registry)'
      /\ work.kind # "boot" => Follows(registry', inUse, stray')
  BY Zenon DEF ConfigInv, Bound
<1> QED
  BY <1>1, Rejects, Zenon

\* A step of which a request, a file or an event is the only effect.
LEMMA OutsideSteps ==
    ASSUME ConfigInv, UNCHANGED <<registry, inUse, taken, stray, stage, work>>
    PROVE  ConfigInv'
BY Zenon DEF ConfigInv, WorkShape, WorkPlace, Bound, Saved

LEMMA RequestIsTaken ==
    ASSUME ConfigInv, stage = "idle", UNCHANGED <<registry, inUse, taken, stray>>,
           WorkShape',
           work'.kind \in {"reload"} \cup Writes, work'.base = G!Checkpoint,
           stage' = IF work'.kind = "reload" THEN "entry" ELSE "prepare"
    PROVE  ConfigInv'
<1>1. WorkPlace'
  BY Zenon DEF WorkPlace, Reloads, Writes
<1>2. work.kind = "none"
  BY Zenon DEF ConfigInv, WorkPlace
<1>3. /\ inUse = taken /\ IsRegistry(registry) /\ Follows(registry, inUse, stray)
  BY <1>2, Zenon DEF ConfigInv, Bound
<1>4. work'.base.registry = registry /\ work'.base.current = inUse
  BY DEF G!Checkpoint
<1>5. Bound'
  BY <1>3, <1>4, Zenon DEF Bound
<1> QED
  BY <1>1, <1>5, Zenon DEF ConfigInv, Saved

LEMMA RequestsKeep ==
    ASSUME ConfigInv, NEW doc,
           G!RequestReload \/ G!RequestApply(doc) \/ G!RequestService(doc)
             \/ G!RequestMutate(doc)
    PROVE  ConfigInv'
<1>1. CASE G!RequestReload
  <2>1. WorkShape' /\ work'.kind = "reload" /\ work'.base = G!Checkpoint
    BY <1>1, Zenon DEF G!RequestReload, G!NoWork, WorkShape
  <2> QED  BY <1>1, <2>1, RequestIsTaken, Zenon DEF G!RequestReload, G!files, G!memory, G!history
<1>2. CASE G!RequestApply(doc)
  <2>1. WorkShape' /\ work'.kind = "apply" /\ work'.base = G!Checkpoint
    BY <1>2, Zenon DEF G!RequestApply, G!NoWork, WorkShape
  <2> QED  BY <1>2, <2>1, RequestIsTaken DEF G!RequestApply, G!files, G!memory, G!history, Writes
<1>3. CASE G!RequestService(doc)
  <2>1. WorkShape' /\ work'.kind = "service" /\ work'.base = G!Checkpoint
    BY <1>3, Zenon DEF G!RequestService, G!NoWork, WorkShape
  <2> QED  BY <1>3, <2>1, RequestIsTaken DEF G!RequestService, G!files, G!memory, G!history, Writes
<1>4. CASE G!RequestMutate(doc)
  <2>0. PICK prefer : work' = [G!NoWork EXCEPT !.kind = "mutate", !.base = G!Checkpoint,
                        !.doc = doc, !.expected = file, !.prefer = prefer]
    BY <1>4, Zenon DEF G!RequestMutate
  <2>1. WorkShape' /\ work'.kind = "mutate" /\ work'.base = G!Checkpoint
    BY <2>0, Zenon DEF G!NoWork, WorkShape
  <2>2. stage = "idle" /\ stage' = "prepare" /\ UNCHANGED <<registry, inUse, taken, stray>>
    BY <1>4, Zenon DEF G!RequestMutate, G!files, G!memory, G!history
  <2> QED  BY <2>1, <2>2, RequestIsTaken DEF Writes
<1> QED
  BY <1>1, <1>2, <1>3, <1>4, Zenon

\* A change goes on.
LEMMA ChangeGoesOn ==
    ASSUME ConfigInv, UNCHANGED <<inUse, taken>>, stray \subseteq stray', stage # "down",
           work'.kind = work.kind, work'.base = work.base, IsRegistry(registry)',
           work.kind # "boot" => Follows(registry', inUse, stray'),
           WorkShape', WorkPlace', Saved'
    PROVE  ConfigInv'
<1>1. work.kind \in {"reload"} \cup Writes =>
          /\ IsRegistry(work.base.registry)
          /\ Follows(work.base.registry, work.base.current, stray')
  BY FollowsMore, Zenon DEF ConfigInv, Bound
<1>2. Bound'
  BY <1>1, Zenon DEF ConfigInv, Bound
<1> QED
  BY <1>2, Zenon DEF ConfigInv

\* The registry stays bound to what it was.
LEMMA ChangeGoesOnBound ==
    ASSUME ConfigInv, UNCHANGED <<inUse, taken, stray>>, stage # "down",
           work'.kind = work.kind, work'.base = work.base,
           IsRegistry(registry)', registry'.active = registry.active,
           WorkShape', WorkPlace', Saved'
    PROVE  ConfigInv'
<1>1. work.kind # "boot" => Follows(registry', inUse, stray')
  BY DEF ConfigInv, Bound, Follows
<1> QED
  BY <1>1, ChangeGoesOn

LEMMA StartKeeps ==
    ASSUME ConfigInv, G!Start \/ G!Watched
    PROVE  ConfigInv'
<1>1. CASE G!Start
  <2>1. /\ WorkShape' /\ work'.kind = "boot" /\ stage' = "prepare"
        /\ UNCHANGED <<registry, inUse>>
    BY <1>1, Zenon DEF G!Start, G!NoWork, WorkShape, G!files, G!memory
  <2> QED  BY <2>1 DEF ConfigInv, Bound, WorkPlace, Saved, Writes, Reloads
<1>2. CASE G!Watched
  <2>1. /\ WorkShape' /\ work'.kind = "watched" /\ stage' = "entry" /\ stage = "idle"
        /\ UNCHANGED <<registry, inUse, taken, stray>>
    BY <1>2, Zenon DEF G!Watched, G!NoWork, WorkShape, G!files, G!memory, G!history
  <2> QED  BY <2>1 DEF ConfigInv, Bound, WorkPlace, Saved, Writes, Reloads
<1> QED
  BY <1>1, <1>2, Zenon

LEMMA EntryKeeps ==
    ASSUME ConfigInv, G!Entry \/ G!EntryBytes \/ G!EntryImport \/ G!EntryRelink
    PROVE  ConfigInv'
<1>0. /\ registry' = registry /\ stray' = stray
      /\ stage \in {"entry", "bytes", "import", "relink"}
  BY DEF G!Entry, G!EntryBytes, G!EntryImport, G!EntryRelink, G!files, G!history
<1>1. CASE G!Reject
  BY <1>0, <1>1, RejectsUnchanged
<1>2. CASE ~G!Reject
  <2>1. /\ stage' \in {"load", "bytes", "import", "relink"}
        /\ inUse' = inUse /\ taken' = taken
        /\ work' = work \/ work' = [work EXCEPT !.doc = entry, !.saved.disk = file]
    BY <1>2 DEF G!Entry, G!EntryBytes, G!EntryImport, G!EntryRelink, G!memory
  <2>2. WorkShape' /\ work'.kind = work.kind /\ work'.base = work.base
    <3>1. CASE work' = work
      BY <3>1 DEF ConfigInv, WorkShape
    <3>2. CASE work' = [work EXCEPT !.doc = entry, !.saved.disk = file]
      <4>1. work' = [kind |-> work.kind, doc |-> entry, prefer |-> work.prefer,
                     expected |-> work.expected, binding |-> work.binding,
                     promote |-> work.promote, base |-> work.base,
                     saved |-> [work.saved EXCEPT !.disk = file]]
        BY <3>2, Zenon DEF ConfigInv, WorkShape
      <4> QED  BY <4>1 DEF ConfigInv, WorkShape
    <3> QED  BY SMTT(30), <2>1, <3>1, <3>2
  <2>3. WorkPlace' /\ Saved' /\ IsRegistry(registry)'
    BY <1>0, <2>1, <2>2
       DEF ConfigInv, WorkPlace, Saved, Writes, Reloads, Bound
  <2> QED  BY SMTT(30), <1>0, <2>1, <2>2, <2>3, ChangeGoesOnBound
<1> QED
  BY <1>1, <1>2

LEMMA LoadFileKeeps ==
    ASSUME ConfigInv, G!Load
    PROVE  ConfigInv'
<1>0. registry' = registry /\ stray' = stray /\ stage = "load"
  BY DEF G!Load, G!files
<1>1. CASE G!Reject
  BY ZenonT(60), <1>0, <1>1, RejectsUnchanged
<1>2. CASE ~G!Reject /\ stage' = "idle"
  <2>1. work' = G!NoWork /\ inUse' = inUse /\ taken' = taken
    BY <1>2 DEF G!Load, G!Rest
  <2>2. work.kind \in Reloads
    BY <1>0 DEF ConfigInv, WorkPlace
  <2>3. inUse = taken /\ IsRegistry(registry) /\ Follows(registry, inUse, stray)
    BY <1>0, <2>2 DEF ConfigInv, Bound, Reloads
  <2> QED  BY <1>0, <1>2, <2>1, <2>3, ChangeEnds, Zenon
<1>3. CASE ~G!Reject /\ stage' # "idle"
  <2>1. /\ inUse' = inUse /\ taken' = taken
        /\ \/ stage' = "commands" /\ work' = work /\ work.kind # "watched"
           \/ stage' = "prepare" /\ work' = [work EXCEPT !.doc = file]
    BY <1>3 DEF G!Load, G!Rest, G!memory
  <2>2. WorkShape' /\ work'.kind = work.kind /\ work'.base = work.base
    BY <2>1 DEF ConfigInv, WorkShape
  <2>3. WorkPlace' /\ Saved' /\ IsRegistry(registry)'
    BY <1>0, <2>1, <2>2
       DEF ConfigInv, WorkPlace, Saved, Writes, Reloads, Bound
  <2> QED  BY SMTT(30), <1>0, <2>1, <2>2, <2>3, ChangeGoesOnBound
<1> QED
  BY <1>1, <1>2, <1>3


\* The registry gets or keeps a binding of the document.
LEMMA BindingIsFound ==
    ASSUME ConfigInv, stage = "prepare", UNCHANGED <<inUse, taken, stray>>, NEW binding, NEW promote,
           IsRegistry(registry)', registry'.active = registry.active,
           work' = [work EXCEPT !.binding = binding, !.promote = promote],
           ~promote => \A b \in binding : registry.active = {b},
           stage' = G!AfterPrepare
    PROVE  ConfigInv'
<1>1. work' = [kind |-> work.kind, doc |-> work.doc, prefer |-> work.prefer,
               expected |-> work.expected, binding |-> binding,
               promote |-> promote, base |-> work.base, saved |-> work.saved]
  BY Zenon DEF ConfigInv, WorkShape
<1>2. WorkShape' /\ work'.kind = work.kind /\ work'.base = work.base
  BY <1>1, Zenon DEF ConfigInv, WorkShape
<1>3. stage' = IF work.kind \in Writes THEN "check" ELSE "activate"
  BY DEF G!AfterPrepare, ConfigInv, WorkPlace, Writes, Reloads
<1>4. WorkPlace'
  BY <1>2, <1>3 DEF ConfigInv, WorkPlace, Writes, Reloads
<1>5. work'.binding = binding /\ work'.promote = promote
  BY <1>1
<1>6. Saved'
  BY <1>2, <1>3, <1>5 DEF Saved, Writes
<1> QED
  BY <1>2, <1>4, <1>6, ChangeGoesOnBound

LEMMA PrepareKeeps ==
    ASSUME ConfigInv, G!Prepare
    PROVE  ConfigInv'
<1> DEFINE known == G!Matching(registry.active, work.doc)
           ahead == G!Matching(registry.pending, work.doc)
<1>0. stage = "prepare" /\ IsRegistry(registry)
  BY Zenon DEF G!Prepare, ConfigInv, Bound
<1>1. CASE /\ registry' = G!WrittenAhead({}) /\ UNCHANGED stray
           /\ work' = [work EXCEPT !.binding = known, !.promote = FALSE]
           /\ stage' = G!AfterPrepare
           /\ UNCHANGED G!memory
  <2>1. IsRegistry(registry)' /\ registry'.active = registry.active
    BY <1>0, <1>1 DEF IsRegistry, G!WrittenAhead
  <2>2. \A b \in known : registry.active = {b}
    BY <1>0, Zenon DEF IsRegistry, G!Matching
  <2> QED  BY <1>0, <1>1, <2>1, <2>2, BindingIsFound, Zenon DEF G!memory
<1>2. CASE /\ work' = [work EXCEPT !.binding = ahead, !.promote = TRUE]
           /\ stage' = G!AfterPrepare
           /\ UNCHANGED <<registry, G!memory, stray>>
  <2>1. IsRegistry(registry)' /\ registry'.active = registry.active
    BY <1>0, <1>2, Zenon DEF IsRegistry
  <2> QED  BY <1>0, <1>2, <2>1, BindingIsFound, Zenon DEF G!memory
<1>3. ASSUME NEW new, registry' = G!WrittenAhead({new}),
             work' = [work EXCEPT !.binding = {new}, !.promote = TRUE],
             stage' = G!AfterPrepare, UNCHANGED <<G!memory, stray>>
      PROVE  ConfigInv'
  <2>1. IsRegistry(registry)' /\ registry'.active = registry.active
    BY <1>0, <1>3 DEF IsRegistry, G!WrittenAhead
  <2> QED  BY <1>0, <1>3, <2>1, BindingIsFound, Zenon DEF G!memory
<1>4. CASE G!Reject /\ UNCHANGED <<registry, stray>>
  BY <1>0, <1>4, RejectsUnchanged
<1>5. ASSUME NEW ahead2, G!Reject, G!FailedPersist(G!WrittenAhead(ahead2))
      PROVE  ConfigInv'
  <2>1. /\ IsRegistry(G!WrittenAhead(ahead2))
        /\ G!WrittenAhead(ahead2).active = registry.active
    BY <1>0 DEF IsRegistry, G!WrittenAhead
  <2>2. CASE UNCHANGED <<registry, stray>>
    BY <1>0, <1>5, <2>2, RejectsUnchanged
  <2>3. CASE /\ registry' = G!WrittenAhead(ahead2)
             /\ stray' = stray \cup (G!WrittenAhead(ahead2).active \ registry.active)
    <3>1. stray' = stray
      BY <2>1, <2>3
    <3>2. work.kind # "boot" => Follows(registry', inUse, stray')
      BY <1>0, <2>1, <2>3, <3>1, Zenon DEF ConfigInv, Bound, Follows
    <3> QED  BY <1>0, <1>5, <2>1, <2>3, <3>2, Rejects, Zenon
  <2> QED  BY <1>5, <2>2, <2>3, Zenon DEF G!FailedPersist
<1> QED
  BY <1>1, <1>2, <1>3, <1>4, <1>5, Zenon DEF G!Prepare

LEMMA CommitKeeps ==
    ASSUME ConfigInv, G!CommitCheck \/ G!CommitConflict \/ G!CommitWrite \/ G!CommitVerify
    PROVE  ConfigInv'
<1>0. /\ registry' = registry /\ stray' = stray
      /\ stage \in {"check", "write", "verify"} /\ work.kind \in Writes
  BY DEF G!CommitCheck, G!CommitConflict, G!CommitWrite, G!CommitVerify, G!files, G!history,
         ConfigInv, WorkPlace
<1>1. CASE G!Reject
  BY ZenonT(60), <1>0, <1>1, RejectsUnchanged
<1>2. CASE G!CommitCheck
  <2>1. work' = [kind |-> work.kind, doc |-> work.doc, prefer |-> work.prefer,
                 expected |-> work.expected, binding |-> work.binding,
                 promote |-> work.promote, base |-> work.base,
                 saved |-> [disk |-> file, registry |-> registry]]
    BY SMTT(30), <1>2 DEF G!CommitCheck, ConfigInv, WorkShape
  <2>2. WorkShape' /\ work'.kind = work.kind /\ work'.base = work.base
    BY <2>1 DEF WorkShape
  <2>3. /\ stage = "check" /\ stage' = "write"
        /\ inUse' = inUse /\ taken' = taken
    BY <1>2, Zenon DEF G!CommitCheck, G!memory
  <2>4. WorkPlace' /\ IsRegistry(registry)'
    BY <1>0, <2>2, <2>3, Zenon DEF ConfigInv, WorkPlace, Bound, Writes, Reloads
  <2>5. /\ work'.saved.registry = registry /\ work'.promote = work.promote
        /\ work'.binding = work.binding
    BY <2>1, Zenon
  <2>6. IsRegistry(registry) /\ Follows(registry, inUse, stray)
    BY <1>0 DEF ConfigInv, Bound, Writes
  <2>7. Saved'
    BY <1>0, <2>3, <2>4, <2>5, <2>6, Zenon DEF ConfigInv, Saved
  <2> QED  BY SMTT(30), <1>0, <2>2, <2>3, <2>4, <2>7, ChangeGoesOnBound
<1>3. CASE ~G!Reject /\ ~G!CommitCheck
  <2>1. /\ \/ stage = "write" /\ stage' = "verify"
           \/ stage = "verify" /\ stage' = "activate"
        /\ work' = work /\ inUse' = inUse /\ taken' = taken
    BY <1>3, Zenon DEF G!CommitConflict, G!CommitWrite, G!CommitVerify, G!memory
  <2>2. WorkShape' /\ WorkPlace' /\ Saved' /\ IsRegistry(registry)'
    BY <1>0, <2>1, Zenon DEF ConfigInv, WorkShape, WorkPlace, Saved, Bound, Writes, Reloads
  <2> QED  BY <1>0, <2>1, <2>2, ChangeGoesOnBound
<1> QED
  BY <1>1, <1>2, <1>3

\* The registry is bound to what is accepted.
LEMMA Accepts ==
    ASSUME ConfigInv, stage = "activate", NEW b, G!Accept(b), IsRegistry(registry)',
           registry'.active = {b}, UNCHANGED stray
    PROVE  ConfigInv'
<1>1. inUse' = {b} /\ taken' = {b}
  BY Zenon DEF G!Accept
<1>4. Follows(registry, inUse, stray)'
  BY <1>1 DEF Follows
<1>2. CASE work.kind \in {"boot", "watched"}
  <2>1. work' = G!NoWork /\ stage' \in {"idle", "arming"}
    BY <1>2, Zenon DEF G!Accept, G!Rest
  <2> QED  BY <1>1, <1>4, <2>1, ChangeEnds, Zenon
<1>3. CASE work.kind \notin {"boot", "watched"}
  <2>1. work' = work /\ stage' = "commands"
    BY <1>3 DEF G!Accept
  <2> QED
    BY <1>1, <1>3, <1>4, <2>1, Zenon
       DEF ConfigInv, WorkShape, WorkPlace, Bound, Saved, Writes, Reloads
<1> QED
  BY <1>2, <1>3

LEMMA ActivateKeeps ==
    ASSUME ConfigInv, G!Activate
    PROVE  ConfigInv'
<1>0. stage = "activate" /\ IsRegistry(registry)
  BY Zenon DEF G!Activate, ConfigInv, Bound
<1>1. ASSUME NEW b \in work.binding, ~work.promote, G!Accept(b),
             UNCHANGED <<registry, stray>>
      PROVE  ConfigInv'
  <2>1. registry'.active = {b} /\ IsRegistry(registry)'
    BY <1>0, <1>1, Zenon DEF ConfigInv, Saved, IsRegistry
  <2> QED  BY <1>0, <1>1, <2>1, Accepts
<1>2. ASSUME NEW b \in work.binding, registry' = G!Activated(b), G!Accept(b),
             UNCHANGED stray
      PROVE  ConfigInv'
  <2>1. registry'.active = {b} /\ IsRegistry(registry)'
    BY <1>2 DEF IsRegistry, G!Activated
  <2> QED  BY SMTT(30), <1>0, <1>2, <2>1, Accepts
<1>3. ASSUME NEW b \in work.binding,
             G!FailedPersist(G!Activated(b)) \/ UNCHANGED <<registry, stray>>
      PROVE  /\ IsRegistry(registry)' /\ stray \subseteq stray'
             /\ work.kind # "boot" => Follows(registry', inUse, stray')
  <2>1. IsRegistry(G!Activated(b)) /\ G!Activated(b).active # {}
    BY DEF IsRegistry, G!Activated
  <2>2. /\ IsRegistry(registry)' /\ stray \subseteq stray'
    BY <1>0, <1>3, <2>1, Zenon DEF G!FailedPersist
  <2>3. ASSUME work.kind # "boot" PROVE Follows(registry', inUse, stray')
    <3>1. Follows(registry, inUse, stray)
      BY <1>0, <2>3, Zenon DEF ConfigInv, Bound
    <3> QED  BY <1>0, <1>3, <2>1, <3>1, PersistFails, Zenon DEF FollowsStill
  <2> QED  BY <2>2, <2>3, Zenon
<1>4. ASSUME NEW b \in work.binding, G!Reject,
             G!FailedPersist(G!Activated(b)) \/ UNCHANGED <<registry, stray>>
      PROVE  ConfigInv'
  BY <1>0, <1>3, <1>4, Rejects, Zenon
<1>5. ASSUME NEW b \in work.binding, work.kind \in Writes, stage' = "restore",
             UNCHANGED <<G!memory, work>>,
             G!FailedPersist(G!Activated(b)) \/ UNCHANGED <<registry, stray>>
      PROVE  ConfigInv'
  <2>1. inUse' = inUse /\ taken' = taken /\ work' = work
    BY <1>5, Zenon DEF G!memory
  <2>2. /\ IsRegistry(registry)' /\ stray \subseteq stray'
        /\ work.kind # "boot" => Follows(registry', inUse, stray')
    BY <1>3, <1>5, Zenon
  <2>3. WorkShape' /\ WorkPlace'
    BY <1>0, <1>5, <2>1, Zenon DEF ConfigInv, WorkShape, WorkPlace, Writes, Reloads
  <2>4. IsRegistry(work.saved.registry) /\ Follows(work.saved.registry, inUse, stray)
    BY <1>0, <1>5, Zenon DEF ConfigInv, Saved
  <2>5. Saved'
    BY <1>5, <2>1, <2>2, <2>4, FollowsMore, Zenon DEF Saved
  <2> QED  BY <1>0, <2>1, <2>2, <2>3, <2>5, ChangeGoesOn, Zenon
<1> QED
  BY <1>1, <1>2, <1>4, <1>5, Zenon DEF G!Activate, Writes

LEMMA RestoreKeeps ==
    ASSUME ConfigInv, G!Restore
    PROVE  ConfigInv'
<1>1. /\ work' = G!NoWork /\ inUse' = inUse /\ taken' = taken /\ stage = "restore"
      /\ work.kind # "boot" => stage' = "idle"
      /\ \/ UNCHANGED <<registry, stray>>
         \/ registry' = work.saved.registry /\ stray' = stray
         \/ G!FailedPersist(work.saved.registry)
  BY Zenon DEF G!Restore, G!Reject, G!Rest
<1>2. work.kind \in Writes /\ work.kind # "boot"
  BY <1>1, Zenon DEF ConfigInv, WorkPlace, Writes
<1>3. /\ IsRegistry(registry) /\ Follows(registry, inUse, stray) /\ inUse = taken
      /\ IsRegistry(work.saved.registry) /\ Follows(work.saved.registry, inUse, stray)
  BY <1>1, <1>2, Zenon DEF ConfigInv, Saved, Bound
<1>4. work.saved.registry.active # {}
  BY <1>3, Zenon DEF Follows
<1>5. IsRegistry(registry)' /\ Follows(registry', inUse, stray')
  BY <1>1, <1>3, <1>4, PersistFails, Zenon DEF FollowsStill
<1> QED
  BY <1>1, <1>2, <1>3, <1>5, ChangeEnds, Zenon

LEMMA CommandsKeep ==
    ASSUME ConfigInv, G!Commands \/ G!RollbackFile \/ G!RollbackRegistry
    PROVE  ConfigInv'
<1>0. /\ stage \in {"commands", "rollback", "unregister"}
      /\ work.kind \in {"reload"} \cup Writes /\ work.kind # "boot"
      /\ IsRegistry(registry) /\ Follows(registry, inUse, stray) /\ inUse = taken
      /\ IsRegistry(work.base.registry)
      /\ Follows(work.base.registry, work.base.current, stray)
  BY Zenon DEF G!Commands, G!RollbackFile, G!RollbackRegistry, ConfigInv, WorkPlace, Bound, Writes
<1>1. CASE G!Rest
  <2>1. \/ UNCHANGED <<registry, stray, inUse, taken>>
        \/ /\ registry' = work.base.registry /\ stray' = stray
           /\ inUse' = work.base.current /\ taken' = work.base.current
        \/ G!FailedPersist(work.base.registry) /\ UNCHANGED <<inUse, taken>>
    BY Zenon DEF G!Commands, G!RollbackFile, G!RollbackRegistry, G!files, G!memory,
                 G!history, G!RegistryOf
  <2>2. work.base.registry.active # {}
    BY <1>0, Zenon DEF Follows
  <2>3. inUse' = taken' /\ IsRegistry(registry)' /\ Follows(registry', inUse', stray')
    BY <1>0, <2>1, <2>2, PersistFails, Zenon DEF FollowsStill
  <2> QED  BY <1>1, <2>3, ChangeEnds, Zenon DEF G!Rest
<1>2. CASE ~G!Rest
  <2>1. /\ stage' \in {"rollback", "unregister"} /\ registry' = registry
        /\ inUse' = inUse /\ taken' = taken /\ stray' = stray
        /\ work' = work \/ work' = [work EXCEPT !.saved.disk = file]
    BY <1>2 DEF G!Commands, G!RollbackFile, G!RollbackRegistry, G!files, G!memory, G!history
  <2>2. WorkShape' /\ work'.kind = work.kind /\ work'.base = work.base
    <3>1. CASE work' = work
      BY <3>1 DEF ConfigInv, WorkShape
    <3>2. CASE work' = [work EXCEPT !.saved.disk = file]
      <4>1. work' = [kind |-> work.kind, doc |-> work.doc, prefer |-> work.prefer,
                     expected |-> work.expected, binding |-> work.binding,
                     promote |-> work.promote, base |-> work.base,
                     saved |-> [work.saved EXCEPT !.disk = file]]
        BY <3>2, Zenon DEF ConfigInv, WorkShape
      <4> QED  BY <4>1 DEF ConfigInv, WorkShape
    <3> QED  BY <2>1, <3>1, <3>2, Zenon
  <2>3. WorkPlace' /\ Saved' /\ IsRegistry(registry)'
    BY <1>0, <2>1, <2>2 DEF ConfigInv, WorkPlace, Saved, Writes, Reloads
  <2> QED  BY <1>0, <2>1, <2>2, <2>3, ChangeGoesOnBound
<1> QED
  BY <1>1, <1>2, Zenon

LEMMA ConfigStep ==
    ASSUME ConfigInv, [G!Next]_(G!vars)
    PROVE  ConfigInv'
<1>1. CASE G!Start \/ G!Watched
  BY <1>1, StartKeeps, Zenon
<1>2. CASE G!Arm
  <2>1. stage = "arming" /\ stage' = "idle" /\ UNCHANGED <<registry, inUse, taken, stray, work>>
    BY <1>2 DEF G!Arm, G!files, G!memory, G!history
  <2> QED
    BY <2>1, Zenon DEF ConfigInv, WorkShape, WorkPlace, Bound, Saved, Writes, Reloads
<1>3. CASE \/ G!Observe \/ G!Reinstall \/ G!RemoveDirectory
           \/ \E doc \in G!Files \cup {G!Gone} : G!SaveFile(doc)
           \/ \E what \in G!Files \cup {G!Absent, G!WrongLink} : G!SaveEntry(what)
           \/ UNCHANGED G!vars
  <2>1. UNCHANGED <<registry, inUse, taken, stray, stage, work>>
    BY <1>3 DEF G!Observe, G!Reinstall, G!RemoveDirectory, G!SaveFile, G!SaveEntry, G!vars,
                G!files, G!memory, G!history
  <2> QED  BY SMTT(30), <2>1, OutsideSteps
<1>4. CASE \/ G!RequestReload
           \/ \E doc \in Docs : G!RequestApply(doc) \/ G!RequestService(doc)
                                  \/ G!RequestMutate(doc)
  BY <1>4, RequestsKeep
<1>5. CASE G!Entry \/ G!EntryBytes \/ G!EntryImport \/ G!EntryRelink
  BY <1>5, EntryKeeps
<1>6. CASE G!Load
  BY <1>6, LoadFileKeeps
<1>7. CASE G!Prepare
  BY <1>7, PrepareKeeps, Zenon
<1>8. CASE G!CommitCheck \/ G!CommitConflict \/ G!CommitWrite \/ G!CommitVerify
  BY <1>8, CommitKeeps
<1>9. CASE G!Activate
  BY <1>9, ActivateKeeps
<1>10. CASE G!Restore
  BY <1>10, RestoreKeeps
<1>11. CASE G!Commands \/ G!RollbackFile \/ G!RollbackRegistry
  BY ZenonT(60), <1>11, CommandsKeep
<1>12. CASE G!Kill
  <2>1. work' = G!NoWork /\ stage' = "down" /\ registry' = registry
    BY <1>12 DEF G!Kill, G!files
  <2> QED  BY <2>1, ChangeEnds, Zenon DEF ConfigInv, Bound
<1> QED
  BY <1>1, <1>2, <1>3, <1>4, <1>5, <1>6, <1>7, <1>8, <1>9, <1>10, <1>11, <1>12, Zenon
     DEF G!Next

(***************************************************************************)
(* SourceRegistry::activate, ConfigRuntime::rollback: when no change is in *)
(* progress the registry on disk is bound to the configuration in use,     *)
(* whatever was saved, killed, rejected or rolled back before, unless a    *)
(* write of the registry failed after its rename and was not undone.       *)
(***************************************************************************)
THEOREM RegistryIsFollowed == G!Spec => []G!RegistryFollows
<1>1. G!Init => ConfigInv
  <2> SUFFICES ASSUME G!Init PROVE ConfigInv
    OBVIOUS
  <2>1. stage = "down" /\ work = G!NoWork /\ registry = [active |-> {}, pending |-> {}]
    BY Zenon DEF G!Init, G!InitAt, G!Empty
  <2> QED
    BY <2>1, NoWorkIs, Zenon
       DEF ConfigInv, WorkShape, WorkPlace, Bound, Saved, IsRegistry, Writes, Reloads
<1>2. ConfigInv /\ [G!Next]_(G!vars) => ConfigInv'
  BY SMTT(30), ConfigStep
<1>3. ConfigInv => G!RegistryFollows
  <2> SUFFICES ASSUME ConfigInv, stage = "idle", registry.active # inUse
               PROVE  G!Astray
    BY Zenon DEF G!RegistryFollows
  <2>1. inUse = taken /\ Follows(registry, inUse, stray)
    BY Zenon DEF ConfigInv, Bound, WorkPlace
  <2> QED  BY <2>1, Zenon DEF Follows, G!Astray
<1> QED
  BY <1>1, <1>2, <1>3, PTL DEF G!Spec

-----------------------------------------------------------------------------
(***************************************************************************)
(* The download of a source, whatever its URLs, mirrors and redirects.     *)
(***************************************************************************)
CONSTANTS Urls, Mirrored, Served, Good, Tag, Addresses, Denied, MaxAddresses,
          MaxRedirects, HasProxy

VARIABLES content, copy, at, outcome, seen

H == INSTANCE HttpFetch WITH served <- content, cache <- copy

\* The state of an attempt, and of a fetch.
Attempts ==
    [step : {"resolve", "connect", "request"}, k : 1..Len(Mirrored),
     via : {"proxy", "direct"}, url : Urls, redirects : Nat,
     left : SUBSET (Addresses \cup {H!Proxy})]

AttemptShape ==
    \/ at = H!Idle
    \/ at \in Attempts /\ \A u \in Urls : content[u] \in seen[u]

FetchShape ==
    /\ AttemptShape
    /\ content = [u \in Urls |-> content[u]] /\ seen = [u \in Urls |-> seen[u]]
    /\ \A u \in Urls : content[u] \in Served[u]
    /\ copy = [body |-> copy.body, tag |-> copy.tag, url |-> copy.url]

\* The validator that is kept is the one its URL has for the body that is kept.
CopyInv ==
    copy.url # H!NoUrl =>
        /\ copy.url \in Urls /\ copy.body \in Served[copy.url]
        /\ copy.tag = Tag[copy.url][copy.body]

\* An outcome that was served, or kept.
OutcomeInv ==
    /\ outcome.how \in {"whole", "confirmed"} =>
         outcome.url \in Urls /\ outcome.body \in seen[outcome.url]
    /\ outcome.how = "unasked" => outcome.body = copy.body

FetchInv == FetchShape /\ CopyInv /\ OutcomeInv

LEMMA AttemptsAreShaped ==
    ASSUME H!Validators, NEW k \in 1..Len(Mirrored), NEW via \in {"proxy", "direct"}
    PROVE  H!Attempt(k, via) \in Attempts
<1>1. Mirrored[k] \in Urls
  BY DEF H!Validators
<1>2. {} \in SUBSET (Addresses \cup {H!Proxy})
  OBVIOUS
<1> QED
  BY <1>1, <1>2 DEF H!Attempt, Attempts

LEMMA AttemptsGoOn ==
    ASSUME at \in Attempts
    PROVE  /\ \A place \in {"resolve", "connect", "request"} :
              \A rest \in SUBSET (Addresses \cup {H!Proxy}) :
                 [at EXCEPT !.step = place, !.left = rest] \in Attempts
           /\ \A rest \in SUBSET (Addresses \cup {H!Proxy}) :
                 [at EXCEPT !.left = rest] \in Attempts
           /\ \A url \in Urls :
                 [at EXCEPT !.step = "resolve", !.url = url, !.redirects = @ + 1]
                   \in Attempts
<1>1. at.redirects + 1 \in Nat
  BY DEF Attempts
<1>2. \A place \in {"resolve", "connect", "request"} :
        \A rest \in SUBSET (Addresses \cup {H!Proxy}) :
           [at EXCEPT !.step = place, !.left = rest] \in Attempts
  BY Zenon DEF Attempts
<1>3. \A rest \in SUBSET (Addresses \cup {H!Proxy}) :
           [at EXCEPT !.left = rest] \in Attempts
  BY DEF Attempts
<1>4. ASSUME NEW url \in Urls, NEW n \in Nat
      PROVE  [at EXCEPT !.step = "resolve", !.url = url, !.redirects = n] \in Attempts
  BY Zenon DEF Attempts
<1> QED
  BY <1>1, <1>2, <1>3, <1>4, Zenon

LEMMA FailedIsShaped ==
    ASSUME H!Validators, AttemptShape, at # H!Idle,
           NEW next \in {H!Failed, H!NextEndpoint(at.k)}
    PROVE  \/ next = H!Idle
           \/ next \in Attempts
<1>1. at.k \in 1..Len(Mirrored) /\ Len(Mirrored) \in Nat
  BY DEF AttemptShape, Attempts, H!Validators
<1>2. H!FirstWay \in {"proxy", "direct"}
  BY DEF H!FirstWay
<1>3. at.k < Len(Mirrored) => at.k + 1 \in 1..Len(Mirrored)
  BY <1>1
<1> QED
  BY <1>1, <1>2, <1>3, AttemptsAreShaped DEF H!Failed, H!NextEndpoint


LEMMA FetchShapeStep ==
    ASSUME H!Validators, FetchInv, [H!Next]_H!fetchVars
    PROVE  FetchShape'
<1>1. CASE UNCHANGED H!fetchVars
  BY <1>1 DEF H!fetchVars, FetchInv, FetchShape, AttemptShape
<1>2. CASE H!Begin
  <2>0. 1 \in 1..Len(Mirrored) /\ H!FirstWay \in {"proxy", "direct"}
    BY DEF H!Validators, H!FirstWay
  <2>1. at' \in Attempts
    BY <1>2, <2>0, AttemptsAreShaped DEF H!Begin
  <2>2. \A u \in Urls : content'[u] \in seen'[u]
    BY <1>2 DEF H!Begin
  <2> QED
    BY <1>2, <2>1, <2>2 DEF H!Begin, FetchInv, FetchShape, AttemptShape
<1>3. CASE H!Change
  <2>1. PICK v \in Urls : \E b \in Served[v] :
           /\ content' = [content EXCEPT ![v] = b]
           /\ seen' = IF at.step = "idle" THEN seen ELSE [seen EXCEPT ![v] = @ \cup {b}]
    BY <1>3, Zenon DEF H!Change
  <2>2. at' = at /\ copy' = copy
    BY <1>3 DEF H!Change
  <2>3. /\ content' = [u \in Urls |-> content'[u]] /\ seen' = [u \in Urls |-> seen'[u]]
        /\ \A u \in Urls : content'[u] \in Served[u]
    BY <2>1, Zenon DEF FetchInv, FetchShape
  <2>4. at.step = "idle" => at = H!Idle
    BY DEF FetchInv, FetchShape, AttemptShape, Attempts
  <2>5. at # H!Idle => at \in Attempts /\ \A u \in Urls : content[u] \in seen[u]
    BY DEF FetchInv, FetchShape, AttemptShape
  <2>6. at # H!Idle => \A u \in Urls : content'[u] \in seen'[u]
    BY <2>1, <2>4, <2>5 DEF FetchInv, FetchShape
  <2>7. AttemptShape'
    BY <2>2, <2>5, <2>6 DEF AttemptShape, H!Idle, Attempts
  <2> QED
    BY <2>2, <2>3, <2>7, Zenon DEF FetchInv, FetchShape
<1>4. CASE H!Restore
  BY <1>4, Zenon DEF H!Restore, FetchInv, FetchShape, AttemptShape
<1>5. CASE H!Step
  <2>1. at.step # "idle" /\ UNCHANGED <<content, seen>>
    BY <1>5, Zenon DEF H!Step, H!Resolve, H!ResolveProxy, H!Connect, H!NotModified, H!Body,
                H!Redirect, H!Error
  <2>2. at \in Attempts /\ at # H!Idle /\ \A u \in Urls : content[u] \in seen[u]
    BY <2>1 DEF FetchInv, FetchShape, AttemptShape, H!Idle
  <2>3. H!Failed \in Attempts \cup {H!Idle} /\ H!NextEndpoint(at.k) \in Attempts \cup {H!Idle}
    BY <2>2, FailedIsShaped DEF FetchInv, FetchShape
  <2>4. at' \in Attempts \cup {H!Idle}
    <3>1. CASE H!Resolve
      <4>1. \/ at' = H!Failed
            \/ \E a, aaaa \in SUBSET Addresses :
                  at' = [at EXCEPT !.step = "connect", !.left = a \cup aaaa]
        BY <3>1, Zenon DEF H!Resolve
      <4> QED
        BY ZenonT(60), <2>2, <2>3, <4>1, AttemptsGoOn
    <3>2. CASE H!ResolveProxy
      BY ZenonT(60), <2>2, <3>2, AttemptsGoOn DEF H!ResolveProxy
    <3>3. CASE H!Connect
      <4>1. at.left \subseteq Addresses \cup {H!Proxy}
        BY <2>2 DEF Attempts
      <4>2. \/ at' = H!Failed
            \/ at' = [at EXCEPT !.step = "request", !.left = {}]
            \/ \E first : at' = [at EXCEPT !.left = at.left \ {first}]
        BY <3>3, Zenon DEF H!Connect
      <4> QED
        BY ZenonT(60), <2>2, <2>3, <4>1, <4>2, AttemptsGoOn
    <3>4. CASE H!NotModified \/ H!Body
      BY <2>3, <3>4, Zenon DEF H!NotModified, H!Body, H!Inspect
    <3>5. CASE H!Redirect
      BY <2>2, <2>3, <3>5, AttemptsGoOn, Zenon DEF H!Redirect, H!NextRedirect
    <3>6. CASE H!Error
      BY SMTT(30), <2>3, <3>6 DEF H!Error
    <3> QED
      BY SMTT(30), <1>5, <3>1, <3>2, <3>3, <3>4, <3>5, <3>6 DEF H!Step
  <2>5. copy' = copy \/ \E b, u : H!Commit(b, u)
    BY <1>5, Zenon DEF H!Step, H!Resolve, H!ResolveProxy, H!Connect, H!NotModified, H!Body,
                H!Redirect, H!Error, H!Inspect
  <2>6. copy' = [body |-> copy'.body, tag |-> copy'.tag, url |-> copy'.url]
    BY <2>5, Zenon DEF H!Commit, FetchInv, FetchShape
  <2> QED
    BY <2>1, <2>2, <2>4, <2>6 DEF FetchInv, FetchShape, AttemptShape
<1> QED
  BY <1>1, <1>2, <1>3, <1>4, <1>5, Zenon DEF H!Next

LEMMA OutcomeIs ==
    ASSUME NEW body, NEW url, NEW how, NEW o, o = [body |-> body, url |-> url, how |-> how]
    PROVE  o.body = body /\ o.url = url /\ o.how = how
OBVIOUS

\* An outcome is a body that its URL serves, or the one that is kept; what is
\* kept then came whole.
LEMMA InspectIs ==
    ASSUME FetchInv, at # H!Idle, UNCHANGED <<content, seen>>,
           NEW body, NEW how \in {"whole", "confirmed", "unasked"},
           how = "unasked" => body = copy.body,
           how # "unasked" => body = content[at.url],
           H!Inspect(body, how)
    PROVE  CopyInv' /\ OutcomeInv'
<1>1. /\ at.url \in Urls /\ content[at.url] \in seen[at.url]
      /\ content[at.url] \in Served[at.url]
  BY Zenon DEF FetchInv, FetchShape, AttemptShape, Attempts
<1>2. CASE copy' = copy /\ outcome' = outcome
  BY <1>2, Zenon DEF FetchInv, CopyInv, OutcomeInv
<1>3. CASE /\ outcome' = [body |-> body, url |-> at.url, how |-> how]
           /\ how = "whole" /\ H!Commit(body, at.url)
  <2>1. outcome'.body = body /\ outcome'.url = at.url /\ outcome'.how = how
    BY <1>3, OutcomeIs, Zenon
  <2>2. copy'.body = body /\ copy'.url = at.url /\ copy'.tag = Tag[at.url][body]
    BY <1>3 DEF H!Commit
  <2>3. body = content[at.url] /\ how # "unasked"
    BY <1>3
  <2> QED  BY <1>1, <2>1, <2>2, <2>3, Zenon DEF CopyInv, OutcomeInv
<1>4. CASE /\ outcome' = [body |-> body, url |-> at.url, how |-> how]
           /\ how # "whole" /\ copy' = copy
  <2>1. outcome'.body = body /\ outcome'.url = at.url /\ outcome'.how = how
    BY <1>4, OutcomeIs, Zenon
  <2>2. how # "unasked" => body \in seen'[at.url]
    BY <1>1, Zenon
  <2>3. "unasked" \notin {"whole", "confirmed"}
    OBVIOUS
  <2> QED  BY <1>1, <1>4, <2>1, <2>2, <2>3, Zenon DEF FetchInv, CopyInv, OutcomeInv
<1> QED
  BY <1>2, <1>3, <1>4, Zenon DEF H!Inspect

LEMMA FetchStep ==
    ASSUME H!Validators, FetchInv, [H!Next]_H!fetchVars
    PROVE  FetchInv'
<1>0. FetchShape'
  BY FetchShapeStep, Zenon
<1>1. CASE UNCHANGED H!fetchVars
  BY <1>0, <1>1, Zenon DEF H!fetchVars, FetchInv, CopyInv, OutcomeInv
<1>2. CASE H!Begin
  <2>1. outcome'.how = "none" /\ copy' = copy
    BY <1>2, OutcomeIs, Zenon DEF H!Begin, H!NoOutcome
  <2>2. "none" \notin {"whole", "confirmed", "unasked"}
    OBVIOUS
  <2> QED
    BY <1>0, <2>1, <2>2, Zenon DEF FetchInv, CopyInv, OutcomeInv
<1>3. CASE H!Change
  <2>1. UNCHANGED <<copy, at, outcome>>
    BY <1>3 DEF H!Change
  <2>2. \A u \in Urls : seen[u] \subseteq seen'[u]
    BY <1>3 DEF H!Change, FetchInv, FetchShape
  <2> QED
    BY <1>0, <2>1, <2>2, Zenon DEF FetchInv, CopyInv, OutcomeInv
<1>4. CASE H!Restore
  <2>1. UNCHANGED <<outcome, seen>> /\ copy'.url = H!NoUrl /\ copy'.body = copy.body
    BY <1>4 DEF H!Restore, FetchInv, FetchShape
  <2> QED
    BY <1>0, <2>1, Zenon DEF FetchInv, CopyInv, OutcomeInv
<1>5. CASE H!NotModified
  <2>1. at # H!Idle /\ UNCHANGED <<content, seen>>
    BY <1>5 DEF H!NotModified, H!Idle
  <2>2. at.url \in Urls /\ content[at.url] \in Served[at.url] /\ at.url # H!NoUrl
    BY <2>1 DEF FetchInv, FetchShape, AttemptShape, Attempts, H!Validators, H!NoUrl
  <2>3. PICK how \in {"whole", "confirmed", "unasked"} :
           /\ H!Inspect(copy.body, how)
           /\ how # "unasked" => H!Confirmed
    BY <1>5, Zenon DEF H!NotModified
  <2>4. ASSUME how # "unasked" PROVE copy.body = content[at.url]
    <3>1. copy.url = at.url /\ copy.tag = Tag[at.url][content[at.url]]
      BY <2>3, <2>4, Zenon DEF H!Confirmed, H!Conditional
    <3> QED
      BY <2>2, <3>1, Zenon DEF FetchInv, CopyInv, H!Validators
  <2> QED
    BY <1>0, <2>1, <2>3, <2>4, InspectIs, Zenon DEF FetchInv
<1>6. CASE H!Body
  <2>1. at # H!Idle /\ UNCHANGED <<content, seen>>
    BY <1>6 DEF H!Body, H!Idle
  <2>2. H!Inspect(content[at.url], "whole")
    BY <1>6, Zenon DEF H!Body
  <2>3. "whole" # "unasked"
    OBVIOUS
  <2> QED
    BY <1>0, <2>1, <2>2, <2>3, InspectIs, Zenon DEF FetchInv
<1>7. CASE H!Resolve \/ H!ResolveProxy \/ H!Connect \/ H!Redirect \/ H!Error
  <2>1. UNCHANGED <<copy, outcome, seen>>
    BY <1>7, Zenon DEF H!Resolve, H!ResolveProxy, H!Connect, H!Redirect, H!Error
  <2> QED
    BY <1>0, <2>1, Zenon DEF FetchInv, CopyInv, OutcomeInv
<1> QED
  BY <1>1, <1>2, <1>3, <1>4, <1>5, <1>6, <1>7, Zenon DEF H!Next, H!Step

\* What a fetch returns, its URL has served while it was fetched, or the server
\* has answered 304 unasked and it is what the cache had, whose validator stays its
\* own (fetch_with_executor, conditional_headers_for and SourceCache): no validator
\* of one URL is believed of another, whatever the mirrors, the redirects, the ways
\* to reach them and the number of them, provided a server has another validator
\* for another body.
THEOREM FetchedWasServed ==
    ASSUME H!Validators
    PROVE  H!Spec => []H!OutcomeWasServed
<1>1. H!Init => FetchInv
  <2> SUFFICES ASSUME H!Init PROVE FetchInv
    OBVIOUS
  <2>1. /\ content = [u \in Urls |-> content[u]]
        /\ \A u \in Urls : content[u] \in Served[u]
    BY Zenon DEF H!Init, H!InitAt
  <2>2. /\ at = H!Idle /\ seen = [u \in Urls |-> {content[u]}]
        /\ copy = [body |-> H!NoBody, tag |-> H!NoTag, url |-> H!NoUrl]
        /\ outcome.how = "none"
    BY OutcomeIs DEF H!Init, H!InitAt, H!NoOutcome
  <2> QED
    BY <2>1, <2>2 DEF FetchInv, FetchShape, AttemptShape, CopyInv, OutcomeInv
<1>2. FetchInv /\ [H!Next]_H!fetchVars => FetchInv'
  BY FetchStep
<1>3. FetchInv => H!OutcomeWasServed
  BY Zenon DEF FetchInv, CopyInv, OutcomeInv, H!OutcomeWasServed
<1> QED
  BY <1>1, <1>2, <1>3, PTL DEF H!Spec

=============================================================================
