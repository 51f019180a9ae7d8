------------------------------ MODULE MCUpdates ------------------------------
(***************************************************************************)
(* Updates, each part on its own: the transaction that changes the         *)
(* subscription mode, with failing writes, and the building of generations *)
(* from the sources.                                                       *)
(***************************************************************************)
EXTENDS SubscriptionTransaction

VARIABLE part

\* SubscriptionTransaction: two documents.
CONSTANTS a, b
Documents == {a, b}

(***************************************************************************)
(* SourceUpdate: two sources, of which the first has a mirror and, in the  *)
(* second configuration, another URL; {} is a reply that is no             *)
(* subscription.  The pool is smaller than the nodes of both.              *)
(***************************************************************************)
Sources == {1, 2}
SourceConfigs == {
    [mode |-> "merge", active |-> {1, 2}, identity |-> <<1, 1>>,
     excluded |-> <<{}, {}>>],
    [mode |-> "single", active |-> {1}, identity |-> <<2, 1>>,
     excluded |-> <<{4}, {}>>]}
Served == << <<{{1, 2, 3}, {}}, {{1, 4}}>>, <<{{2, 4}}>> >>
Endpoints == << <<{1, 2}, {1}>>, <<{1}>> >>
Imports == {{3, 5}}
Edits == {{}, {2}}
MaxSources == 3
MaxSourceRefs == 2
MaxAuto == 3
MaxFaults == 1

VARIABLES cfg, mem, files, manual, overrides, published, candidate, job,
          health, known, torn, faults

sourceVars == <<cfg, mem, files, manual, overrides, published, candidate, job,
                health, known, torn, faults>>

S == INSTANCE SourceUpdate WITH Configs <- SourceConfigs, disk <- files,
         current <- published, sealed <- candidate

ASSUME UpdatesAssumption == S!SourcesAssumption

-----------------------------------------------------------------------------
TransactionAtRest == config = a /\ current = NoGen /\ ~enabled
SourcesAtRest == \E c \in SourceConfigs : c.mode = "merge" /\ S!InitAt(c)

UpdatesInit ==
    /\ Init
    /\ \/ /\ part = "transaction"
          /\ SourcesAtRest
       \/ /\ part = "sources"
          /\ TransactionAtRest
          /\ S!Init

UpdatesNext ==
    \/ part = "transaction" /\ Next /\ UNCHANGED <<part, sourceVars>>
    \/ part = "sources" /\ S!Next /\ UNCHANGED <<part, vars>>

UpdatesSpec ==
    UpdatesInit /\ [][UpdatesNext]_<<part, vars, sourceVars>>

-----------------------------------------------------------------------------
\* The state of each part has its type.
PartsTypeOK == TypeOK /\ S!TypeOK

\* SourceUpdate: an outage takes no nodes away, an old URL's do not return.
SourcesAreKept == S!SourcesAreKept

\* SourceUpdate: the files that go with the published generation are its own.
StoresMatch == S!StoresMatch

\* SourceUpdate: the automatic pool is fair between the sources.
PoolIsFair == S!PoolIsFair
=============================================================================
