------------------------------ MODULE EventHub ------------------------------
(***************************************************************************)
(* EventHub of nethopd (events.rs): the worker's main thread publishes     *)
(* events and replaces the snapshot; one thread per subscribed client      *)
(* sends a snapshot and then the events that follow (uds.rs).  A ring of   *)
(* bounded capacity keeps the events; a client that falls behind the ring  *)
(* is told to resync and is sent a new snapshot.  Of traffic and active-   *)
(* node events only the latest is kept.                                    *)
(*                                                                         *)
(* Every critical section of the state mutex is one action.                *)
(***************************************************************************)
EXTENDS Integers, Sequences, FiniteSets

CONSTANTS
    Subscribers,        \* the client threads
    Filters,            \* the `kinds' a client may ask for; {} is all
    Capacity,           \* of the ring
    MAX_SUBSCRIBERS,
    MaxSequence         \* bound on the events published

Kinds == {"runtime", "other", "traffic", "node_active"}

Ephemeral == {"traffic", "node_active"}

VARIABLES
    nextSequence,
    snapshot,   \* the runtime state it shows, counted by its changes
    events,     \* the ring: [sequence, kind, state]
    latest,     \* the sequence of the latest event of each ephemeral kind
    main,       \* what the main thread is in the middle of
    count,      \* State.subscribers
    traffic,    \* State.traffic_subscribers
    sub         \* the client threads

hub == <<nextSequence, snapshot, events, latest, main>>
hubVars == <<hub, count, traffic, sub>>

(***************************************************************************)
(* A thread and its EventSubscription: what it does next, whether its      *)
(* client is still there, the filter, the first ring event not looked at,  *)
(* the last event sent of each ephemeral kind and the snapshot to send     *)
(* first.  History: the runtime state the client was last shown, and the   *)
(* ring events it asked for, published since the last snapshot or resync   *)
(* and not sent.                                                           *)
(***************************************************************************)
Closed ==
    [phase |-> "free", client |-> FALSE, kinds |-> {}, cursor |-> 0,
     sent |-> [k \in Ephemeral |-> 0], initial |-> 0, seen |-> 0, due |-> {}]

Init ==
    /\ nextSequence = 1
    /\ snapshot = 0
    /\ events = <<>>
    /\ latest = [k \in Ephemeral |-> 0]
    /\ main = "ready"
    /\ count = 0
    /\ traffic = 0
    /\ sub = [s \in Subscribers |-> Closed]

Open(s) == sub[s].phase # "free"
Wants(filter, k) == filter = {} \/ k \in filter
Accepts(s, k) == Open(s) /\ Wants(sub[s].kinds, k)

-----------------------------------------------------------------------------
(***************************************************************************)
(* The main thread.  Every publish wakes the threads that wait.            *)
(***************************************************************************)
Woken(t) == IF t.phase = "waiting" THEN [t EXCEPT !.phase = "reading"] ELSE t

Sequenced ==
    /\ nextSequence =< MaxSequence
    /\ nextSequence' = nextSequence + 1

Record(k) == [sequence |-> nextSequence, kind |-> k, state |-> snapshot]

Pushed(k) ==
    Append(IF Len(events) = Capacity THEN Tail(events) ELSE events, Record(k))

PublishRing(k) ==
    /\ Sequenced
    /\ events' = Pushed(k)
    /\ sub' = [s \in Subscribers |->
                 IF Accepts(s, k)
                 THEN [Woken(sub[s]) EXCEPT !.due = @ \cup {nextSequence}]
                 ELSE Woken(sub[s])]
    /\ UNCHANGED <<snapshot, latest, count, traffic>>

\* publish_snapshot replaces the snapshot and then publishes the event;
\* client threads may run in between.
ReplaceSnapshot ==
    /\ main = "ready"
    /\ nextSequence =< MaxSequence
    /\ snapshot' = snapshot + 1
    /\ main' = "replaced"
    /\ UNCHANGED <<nextSequence, events, latest, count, traffic, sub>>

PublishRuntime ==
    /\ main = "replaced"
    /\ PublishRing("runtime")
    /\ main' = "ready"

PublishOther ==
    /\ main = "ready"
    /\ PublishRing("other")
    /\ UNCHANGED main

\* Traffic is sampled only while somebody listens to it.
PublishEphemeral(k) ==
    /\ main = "ready"
    /\ k = "traffic" => traffic > 0
    /\ Sequenced
    /\ latest' = [latest EXCEPT ![k] = nextSequence]
    /\ sub' = [s \in Subscribers |-> Woken(sub[s])]
    /\ UNCHANGED <<snapshot, events, main, count, traffic>>

Subscription(filter) ==
    [Closed EXCEPT !.phase = "snapshot", !.client = TRUE, !.kinds = filter,
                   !.cursor = nextSequence, !.initial = snapshot]

\* A request of the main thread.  A client too many is told Busy.
Subscribe(s, filter) ==
    /\ main = "ready"
    /\ ~Open(s) /\ count < MAX_SUBSCRIBERS
    /\ count' = count + 1
    /\ traffic' = traffic + IF Wants(filter, "traffic") THEN 1 ELSE 0
    /\ sub' = [sub EXCEPT ![s] = Subscription(filter)]
    /\ UNCHANGED hub

-----------------------------------------------------------------------------
(***************************************************************************)
(* A client thread.  Send is the write of a frame, after which the thread  *)
(* is t: to a client that is gone it fails, and the subscription is        *)
(* dropped.                                                                *)
(***************************************************************************)
\* Mutant: the traffic count is not given back.
MutDrop(s) ==
    /\ count' = count - 1
    /\ sub' = [sub EXCEPT ![s] = Closed]
    /\ UNCHANGED traffic

Drop(s) ==
    /\ count' = count - 1
    /\ traffic' = traffic - IF Accepts(s, "traffic") THEN 1 ELSE 0
    /\ sub' = [sub EXCEPT ![s] = Closed]

Send(s, t) ==
    /\ \/ /\ sub[s].client
          /\ sub' = [sub EXCEPT ![s] = t]
          /\ UNCHANGED <<count, traffic>>
       \/ ~sub[s].client /\ Drop(s)
    /\ UNCHANGED hub

SendSnapshot(s) ==
    /\ sub[s].phase = "snapshot"
    /\ Send(s, [sub[s] EXCEPT !.phase = "reading", !.seen = sub[s].initial, !.initial = 0])

Behind(s) == events # <<>> /\ sub[s].cursor < events[1].sequence

Resync(s) ==
    /\ sub[s].phase = "reading" /\ Behind(s)
    /\ Send(s, [sub[s] EXCEPT !.phase = "snapshot", !.cursor = nextSequence,
                              !.initial = snapshot, !.due = {}])

\* What the thread could send; the oldest goes first.
PendingRing(s) ==
    {e \in {events[i]: i \in DOMAIN events}:
        e.sequence >= sub[s].cursor /\ Accepts(s, e.kind)}

PendingEphemeral(s) ==
    {k \in Ephemeral: Accepts(s, k) /\ latest[k] > sub[s].sent[k]}

SendRing(s) ==
    /\ sub[s].phase = "reading" /\ ~Behind(s)
    /\ \E e \in PendingRing(s):
          /\ \A f \in PendingRing(s): e.sequence =< f.sequence
          /\ \A k \in PendingEphemeral(s): e.sequence < latest[k]
          /\ Send(s, [sub[s] EXCEPT
                        !.cursor = e.sequence + 1,
                        !.seen = IF e.kind = "runtime" THEN e.state ELSE @,
                        !.due = @ \ {e.sequence}])

SendEphemeral(s) ==
    /\ sub[s].phase = "reading" /\ ~Behind(s)
    /\ \E k \in PendingEphemeral(s):
          /\ \A j \in PendingEphemeral(s): latest[k] =< latest[j]
          /\ \A e \in PendingRing(s): latest[k] =< e.sequence
          /\ Send(s, [sub[s] EXCEPT !.sent[k] = latest[k]])

Wait(s) ==
    /\ sub[s].phase = "reading" /\ ~Behind(s)
    /\ PendingRing(s) = {} /\ PendingEphemeral(s) = {}
    /\ sub' = [sub EXCEPT ![s].phase = "waiting", ![s].cursor = nextSequence]
    /\ UNCHANGED <<hub, count, traffic>>

\* The client closes its end, or stops reading until the write times out.
Disconnect(s) ==
    /\ sub[s].client
    /\ sub' = [sub EXCEPT ![s].client = FALSE]
    /\ UNCHANGED <<hub, count, traffic>>

NextFrame(s) ==
    SendSnapshot(s) \/ Resync(s) \/ SendRing(s) \/ SendEphemeral(s) \/ Wait(s)

Next ==
    \/ ReplaceSnapshot \/ PublishRuntime \/ PublishOther
    \/ \E k \in Ephemeral: PublishEphemeral(k)
    \/ \E s \in Subscribers:
          \/ \E filter \in Filters: Subscribe(s, filter)
          \/ NextFrame(s) \/ Disconnect(s)

\* The threads run, and the main thread does not stop between two calls.
Fairness ==
    /\ WF_hubVars(PublishRuntime)
    /\ \A s \in Subscribers: WF_hubVars(NextFrame(s))

Spec == Init /\ [][Next]_hubVars /\ Fairness

-----------------------------------------------------------------------------
Counts == 0..(MaxSequence + 1)

Threads ==
    [phase : {"free", "snapshot", "reading", "waiting"}, client : BOOLEAN,
     kinds : SUBSET Kinds, cursor : Counts, sent : [Ephemeral -> Counts],
     initial : Counts, seen : Counts, due : SUBSET Counts]

TypeOK ==
    /\ nextSequence \in Counts \ {0}
    /\ snapshot \in Counts
    /\ events \in Seq([sequence : Counts, kind : Kinds \ Ephemeral,
                       state : Counts])
    /\ Len(events) =< Capacity
    /\ latest \in [Ephemeral -> Counts]
    /\ main \in {"ready", "replaced"}
    /\ count \in 0..MAX_SUBSCRIBERS
    /\ traffic \in 0..MAX_SUBSCRIBERS
    /\ sub \in [Subscribers -> Threads]

(***************************************************************************)
(* No event is lost in silence: an event a client asked for and was not    *)
(* sent is still in the ring ahead of its cursor, or the client is about   *)
(* to be told to resync, whatever filters, coalesced events and waits came *)
(* in between (publish and next_frame).                                    *)
(***************************************************************************)
NoSilentLoss ==
    \A s \in Subscribers:
        Open(s) /\ ~Behind(s) =>
            sub[s].due \subseteq {e.sequence: e \in PendingRing(s)}

(***************************************************************************)
(* A client never sees the runtime go back in time: neither the snapshot   *)
(* it starts from, nor the one after a resync, is followed by an event     *)
(* older than it (subscribe, next_frame and publish_snapshot's order).     *)
(***************************************************************************)
NeverBackInTime ==
    \A s \in Subscribers: (Open(s) /\ Open(s)') => sub'[s].seen >= sub[s].seen

(***************************************************************************)
(* A client that waits for events has been shown the current runtime       *)
(* state, if it asked for it, except while publish_snapshot is under way.  *)
(***************************************************************************)
WaitingIsUpToDate ==
    \A s \in Subscribers:
        (sub[s].phase = "waiting" /\ main = "ready" /\ Accepts(s, "runtime"))
            => sub[s].seen = snapshot

(***************************************************************************)
(* The counters are the number of live threads, and of those that listen   *)
(* to traffic, which switches the sampling on and off (subscribe, drop).   *)
(***************************************************************************)
SlotsAreCounted ==
    /\ count = Cardinality({s \in Subscribers: Open(s)})
    /\ traffic = Cardinality({s \in Subscribers: Accepts(s, "traffic")})

(***************************************************************************)
(* A client that asked for the runtime state and stays connected catches   *)
(* up with it once the publisher pauses: no wakeup is lost between the     *)
(* look at the ring and the wait (next_frame).                             *)
(***************************************************************************)
CaughtUp ==
    \A s \in Subscribers:
        sub[s].client /\ Accepts(s, "runtime") => sub[s].seen = snapshot
====
