--------------------------- MODULE MCSubscription ---------------------------
(***************************************************************************)
(* Subscriptions and their nodes, each part on its own: the transaction    *)
(* under crashes alone, the choice of the node the core uses, and the      *)
(* download of a source.  A behaviour is one of the part chosen in the     *)
(* initial state.                                                          *)
(***************************************************************************)
EXTENDS SubscriptionTransaction, FiniteSets

VARIABLE part

\* SubscriptionTransaction: two documents.
CONSTANTS a, b
Documents == {a, b}

(***************************************************************************)
(* NodeSelection: a generation with a pool of two nodes and one outside    *)
(* it, or with a pool of three and half the events, next to one of a       *)
(* single node.                                                            *)
(***************************************************************************)
Pools == <<<<"a", "b">>, <<"b">>, <<"a", "b", "c">>>>
Members == <<{"a", "b", "c"}, {"b"}, {"a", "b", "c"}>>
Delays == {1, 3}
Tolerance == 1
MaxOperations == 1
MaxEvents == 2

VARIABLES intent, selector, gen, op, phase, job, sequence, seated, busy,
          switches, blind, events

nodeVars == <<intent, selector, gen, op, phase, job, sequence, seated, busy,
              switches, blind, events>>

N == INSTANCE NodeSelection

(***************************************************************************)
(* HttpFetch: a URL, its mirror and one that they may redirect to.  The    *)
(* mirror has a validator of the first for another body; body 3 is no      *)
(* subscription.                                                           *)
(***************************************************************************)
Urls == 1..3
Mirrored == <<1, 2>>
Served == <<{1, 2}, {2, 3}, {1}>>
Good == {1, 2}
Tag == <<<<1, 2, 3>>, <<2, 1, 3>>, <<1, 3, 2>>>>
Addresses == 1..3
Denied == {3}
MaxAddresses == 2
MaxRedirects == 1
HasProxy == TRUE

VARIABLES served, cache, at, outcome, seen

fetchVars == <<served, cache, at, outcome, seen>>

H == INSTANCE HttpFetch

ASSUME FetchAssumption == H!Validators

-----------------------------------------------------------------------------
SubscriptionInit ==
    /\ Init
    /\ \/ part = "transaction"
       \/ part \in {"nodes", "three", "fetch"} /\ config = a /\ current = NoGen /\ ~enabled
    /\ CASE part = "nodes" -> N!InitAt("start", 0)
         [] part = "three" -> N!InitAt("start", 1)
         [] OTHER -> N!InitAt("parked", 0)
    /\ IF part = "fetch" THEN H!Init ELSE H!InitAt(<<1, 2, 1>>)

TransactionNext ==
    part = "transaction" /\ Next /\ UNCHANGED <<part, nodeVars, fetchVars>>
NodesNext ==
    /\ part \in {"nodes", "three"}
    /\ N!Next
    /\ gen' # IF part = "nodes" THEN 3 ELSE 1
    /\ UNCHANGED <<part, vars, fetchVars>>
FetchNext ==
    part = "fetch" /\ H!Next /\ UNCHANGED <<part, vars, nodeVars>>

\* The fairness of each part; the rounds with three nodes are checked for what
\* they may never do, and assume none.
SubscriptionSpec ==
    /\ SubscriptionInit
    /\ [][TransactionNext \/ NodesNext \/ FetchNext]_
            <<part, vars, nodeVars, fetchVars>>
    /\ WF_vars(part = "transaction" /\ Recovery)
    /\ WF_nodeVars(part = "nodes" /\ N!Elapse)
    /\ WF_nodeVars(part = "nodes" /\ N!WorkerNext)
    /\ WF_fetchVars(part = "fetch" /\ H!Step)

-----------------------------------------------------------------------------
\* The state of each part has its type.
PartsTypeOK == TypeOK /\ N!TypeOK

(***************************************************************************)
(* NodeSelection: one round of measuring moves the selector at most once,  *)
(* and only as the measurements of this generation justify against the     *)
(* node it compares with.                                                  *)
(***************************************************************************)
SwitchesAreEarned ==
    [](N!OneSwitchPerRound) /\ [][N!EarnedSwitch]_nodeVars

\* HttpFetch: what a fetch returns, its URL has served in the meantime, or it
\* is what the cache had and a server answered 304 unasked.
OutcomeWasServed == H!OutcomeWasServed

(***************************************************************************)
(* A recovery comes to its end, however often it is interrupted, and so do *)
(* a round of measuring two nodes and a fetch (as one formula: each branch *)
(* of a temporal property costs TLC a graph).                              *)
(***************************************************************************)
WorkEnds ==
    []<>(\/ part = "three"
         \/ pc \notin RecoveryPoints /\ ~op.running /\ at.step = "idle")
=============================================================================
