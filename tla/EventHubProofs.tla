--------------------------- MODULE EventHubProofs ---------------------------
(***************************************************************************)
(* Proofs about the event hub, whatever the capacity of the ring, the      *)
(* number of clients and what they ask for.                                *)
(***************************************************************************)
EXTENDS EventHub, FiniteSetTheorems, SequenceTheorems, TLAPS

\* EventHub::new refuses a capacity of zero; there are as many clients as threads.
HasRing == Capacity \in Nat \ {0} /\ IsFiniteSet(Subscribers)

\* The values that events, clients and the hub take.
Events == [sequence : Nat, kind : {"runtime", "other"}, state : Nat]

Clients ==
    [phase : {"free", "snapshot", "reading", "waiting"}, client : BOOLEAN,
     kinds : Filters \cup {{}}, cursor : Nat, sent : [Ephemeral -> Nat],
     initial : Nat, seen : Nat, due : SUBSET Nat]

HubShape ==
    /\ nextSequence \in Nat /\ snapshot \in Nat
    /\ events \in Seq(Events)
    /\ latest \in [Ephemeral -> Nat]
    /\ main \in {"ready", "replaced"}
    /\ sub \in [Subscribers -> Clients]

\* The events and the states they show are in the order of their publication.
Ordered(ring, next, state) ==
    /\ \A i \in 1..Len(ring) : ring[i].sequence < next /\ ring[i].state =< state
    /\ \A i, j \in 1..Len(ring) :
          i < j => ring[i].sequence < ring[j].sequence /\ ring[i].state =< ring[j].state

Kept(ring) == {ring[i] : i \in DOMAIN ring}
First(ring) == IF ring = <<>> THEN 0 ELSE ring[1].sequence

\* The runtime state that a client has been or is about to be shown.
Shown(t) == IF t.phase = "snapshot" THEN t.initial ELSE t.seen

\* What is due to a client has not been passed over: it is kept, or so old that the
\* client is behind.
DueIsKept(t, ring, first, next) ==
    \A d \in t.due :
        /\ t.cursor =< d /\ d < next
        /\ d < first \/ \E e \in ring : e.sequence = d /\ Wants(t.kinds, e.kind)

\* What is ahead of a client is not older than what it has been shown.
AheadIsLater(t, ring, state) ==
    /\ t.seen =< Shown(t) /\ Shown(t) =< state
    /\ \A e \in ring : t.cursor =< e.sequence => Shown(t) =< e.state

\* A client that asked for the runtime state is shown the latest, or it is due to it.
LatestIsShown(t, ring, first, state) ==
    Wants(t.kinds, "runtime") =>
        \/ Shown(t) = state \/ t.cursor < first
        \/ \E e \in ring : e.sequence \in t.due /\ e.kind = "runtime" /\ e.state = state

\* All of this, of a client that is open; one that waits has looked at everything.
Fits(t, ring, first, next, state, now) ==
    /\ DueIsKept(t, ring, first, next)
    /\ AheadIsLater(t, ring, state)
    /\ now = "ready" => LatestIsShown(t, ring, first, state)
    /\ t.cursor =< next /\ (t.phase = "waiting" => t.cursor = next)

ClientsInv ==
    \A s \in Subscribers :
        sub[s].phase # "free" =>
            Fits(sub[s], Kept(events), First(events), nextSequence, snapshot, main)

HubInv ==
    /\ HubShape
    /\ Ordered(events, nextSequence, snapshot)
    /\ ClientsInv
    /\ SlotsAreCounted

-----------------------------------------------------------------------------
\* The ring p is q with r at its end, without its first k events.
Shifted(q, k, r, p) ==
    /\ k \in {0, 1} /\ k =< Len(q) /\ Len(p) = Len(q) - k + 1 /\ p \in Seq(Events)
    /\ \A i \in 1..(Len(q) - k) : p[i] = q[i + k]
    /\ p[Len(q) - k + 1] = r

LEMMA AppendShifts ==
    ASSUME NEW q \in Seq(Events), NEW r \in Events, NEW k \in {0, 1}, k =< Len(q),
           NEW w \in Seq(Events), Len(w) = Len(q) - k,
           \A i \in 1..Len(w) : w[i] = q[i + k]
    PROVE  Shifted(q, k, r, Append(w, r))
<1> DEFINE p == Append(w, r)
<1>1. /\ p \in Seq(Events) /\ Len(p) = Len(w) + 1 /\ p[Len(w) + 1] = r
      /\ \A i \in 1..Len(w) : p[i] = w[i]
  BY AppendProperties
<1> HIDE DEF p
<1>2. /\ Len(p) = Len(q) - k + 1 /\ p[Len(q) - k + 1] = r
      /\ \A i \in 1..(Len(q) - k) : p[i] = q[i + k]
  BY <1>1
<1>3. Shifted(q, k, r, p)
  BY <1>1, <1>2, Zenon DEF Shifted
<1> QED
  BY <1>3 DEF p

\* The oldest event of a full ring gives way to a new one.
LEMMA PushedIs ==
    ASSUME HasRing, NEW q \in Seq(Events), NEW r \in Events
    PROVE  \E k :
              Shifted(q, k, r, Append(IF Len(q) = Capacity THEN Tail(q) ELSE q, r))
<1>1. CASE Len(q) = Capacity
  <2>1. q # <<>> /\ 1 =< Len(q)
    BY <1>1 DEF HasRing
  <2>2. /\ Tail(q) \in Seq(Events) /\ Len(Tail(q)) = Len(q) - 1
        /\ \A i \in 1..Len(Tail(q)) : Tail(q)[i] = q[i + 1]
    BY <2>1, HeadTailProperties, Zenon
  <2>3. Shifted(q, 1, r, Append(Tail(q), r))
    BY <2>1, <2>2, AppendShifts, Zenon
  <2> QED
    BY <1>1, <2>3, Zenon
<1>2. CASE Len(q) # Capacity
  <2>1. 0 =< Len(q) /\ Len(q) = Len(q) - 0 /\ \A i \in 1..Len(q) : q[i] = q[i + 0]
    OBVIOUS
  <2>2. Shifted(q, 0, r, Append(q, r))
    BY <2>1, AppendShifts, Zenon
  <2> QED
    BY <1>2, <2>2, Zenon
<1> QED
  BY <1>1, <1>2

\* The ring, as a set of events and the sequence of its first, has r added to it.
Grown(ring, first, r, ring1, first1) ==
    /\ ring1 \subseteq ring \cup {r} /\ r \in ring1
    /\ first =< first1
    /\ \A e \in ring : e \in ring1 \/ e.sequence < first1

LEMMA Moved ==
    ASSUME NEW n \in Nat, NEW k \in {0, 1}, NEW m \in Nat, n + k = m
    PROVE  \A i \in 1..n : i + k \in 1..m
  OBVIOUS

LEMMA PushedRing ==
    ASSUME NEW q \in Seq(Events), NEW next \in Nat, NEW state \in Nat,
           Ordered(q, next, state), NEW r \in Events,
           r.sequence = next, r.state = state,
           NEW k, NEW p, Shifted(q, k, r, p)
    PROVE  /\ p \in Seq(Events) /\ Ordered(p, next + 1, state)
           /\ Grown(Kept(q), First(q), r, Kept(p), First(p))
<1>1. /\ k \in {0, 1} /\ k =< Len(q) /\ Len(p) = Len(q) - k + 1 /\ p \in Seq(Events)
      /\ \A i \in 1..(Len(q) - k) : p[i] = q[i + k]
      /\ p[Len(q) - k + 1] = r
  BY Zenon DEF Shifted
<1> DEFINE n == Len(q) - k
<1>0. /\ n \in Nat /\ Len(p) = n + 1 /\ Len(q) \in Nat /\ n + k = Len(q)
      /\ DOMAIN p = 1..(n + 1) /\ DOMAIN q = 1..Len(q) /\ p # <<>> /\ k \in Nat
  BY <1>1
<1>3. p[n + 1] = r /\ \A i \in 1..n : p[i] = q[i + k]
  BY <1>1, Zenon
<1>4. \A i \in 1..Len(q) : q[i] \in Events
  OBVIOUS
<1> HIDE DEF n
<1>2. \A i \in 1..n : p[i] = q[i + k] /\ i + k \in 1..Len(q)
  <2>1. \A i \in 1..n : i + k \in 1..Len(q)
    BY <1>0, <1>1, Moved, Zenon
  <2> QED
    BY <1>3, <2>1, Zenon
<1>5. Ordered(p, next + 1, state)
  <2>1. ASSUME NEW i \in 1..(n + 1)
        PROVE  p[i].sequence < next + 1 /\ p[i].state =< state
    <3>1. CASE i = n + 1
      BY <1>3, <3>1
    <3>2. CASE i # n + 1
      <4>1. i \in 1..n /\ q[i + k] \in Events
        BY <1>0, <1>2, <1>4, <3>2
      <4> QED
        BY <1>2, <4>1 DEF Ordered, Events
    <3> QED
      BY <3>1, <3>2
  <2>2. ASSUME NEW i \in 1..(n + 1), NEW j \in 1..(n + 1), i < j
        PROVE  p[i].sequence < p[j].sequence /\ p[i].state =< p[j].state
    <3>0. i \in 1..n
      BY <1>0, <2>2
    <3>1. i + k \in 1..Len(q) /\ p[i] = q[i + k]
      BY <1>2, <3>0, Zenon
    <3>2. CASE j = n + 1
      BY <1>3, <3>1, <3>2 DEF Ordered
    <3>3. CASE j # n + 1
      <4>0. j \in 1..n
        BY <1>0, <3>3
      <4>1. j + k \in 1..Len(q) /\ p[j] = q[j + k]
        BY <1>2, <4>0, Zenon
      <4>2. i + k < j + k
        BY <1>0, <2>2
      <4> QED
        BY <3>1, <4>1, <4>2 DEF Ordered
    <3> QED
      BY <3>2, <3>3
  <2> QED
    BY <1>0, <2>1, <2>2 DEF Ordered
<1>6. Kept(p) \subseteq Kept(q) \cup {r} /\ r \in Kept(p)
  <2>1. ASSUME NEW i \in 1..(n + 1) PROVE p[i] \in Kept(q) \cup {r}
    <3>1. CASE i = n + 1
      BY <1>3, <3>1
    <3>2. CASE i # n + 1
      BY <1>0, <1>2, <3>2 DEF Kept
    <3> QED
      BY <3>1, <3>2
  <2>2. n + 1 \in 1..(n + 1)
    BY <1>0
  <2> QED
    BY <1>0, <1>3, <2>1, <2>2, Zenon DEF Kept
<1>7. First(p) = p[1].sequence
  BY <1>0 DEF First
<1>8. First(q) =< First(p)
  <2>1. CASE q = <<>>
    <3>1. 1 \in 1..(n + 1) /\ p[1] \in Events
      BY <1>0, <1>1
    <3> QED
      BY <1>7, <2>1, <3>1 DEF First, Events
  <2>2. CASE q # <<>> /\ n = 0
    <3>1. 1 \in 1..Len(q) /\ p[1] = r
      BY <1>0, <1>3, <2>2
    <3> QED
      BY <1>4, <1>7, <2>2, <3>1 DEF First, Ordered, Events
  <2>3. CASE q # <<>> /\ n # 0
    <3>1. /\ 1 \in 1..n /\ 1 \in 1..Len(q) /\ p[1] = q[1 + k]
          /\ 1 + k \in 1..Len(q) /\ (1 = 1 + k \/ 1 < 1 + k)
      BY <1>0, <1>2, <2>3
    <3>2. q[1].sequence =< q[1 + k].sequence
      BY <1>4, <3>1 DEF Ordered, Events
    <3> QED
      BY <1>7, <2>3, <3>1, <3>2 DEF First
  <2> QED
    BY <2>1, <2>2, <2>3
<1>9. ASSUME NEW i \in 1..Len(q) PROVE q[i] \in Kept(p) \/ q[i].sequence < First(p)
  <2>1. CASE i > k
    <3>1. i - k \in 1..n /\ i - k \in 1..(n + 1) /\ (i - k) + k = i
      BY <1>0, <2>1
    <3>2. p[i - k] = q[i]
      BY <1>2, <3>1
    <3> QED
      BY <1>0, <3>1, <3>2 DEF Kept
  <2>2. CASE ~(i > k)
    <3>1. k = 1 /\ i = 1
      BY <1>0, <1>1, <2>2
    <3>2. CASE n = 0
      <4>1. p[1] = r
        BY <1>3, <3>2
      <4> QED
        BY <1>4, <1>7, <3>1, <4>1 DEF Ordered, Events
    <3>3. CASE n # 0
      <4>1. p[1] = q[2] /\ 2 \in 1..Len(q) /\ 1 < 2
        BY <1>0, <1>2, <3>1, <3>3
      <4> QED
        BY <1>7, <3>1, <4>1 DEF Ordered
    <3> QED
      BY <3>2, <3>3
  <2> QED
    BY <2>1, <2>2
<1>10. \A e \in Kept(q) : e \in Kept(p) \/ e.sequence < First(p)
  BY <1>0, <1>9, Zenon DEF Kept
<1> QED
  BY <1>1, <1>5, <1>6, <1>8, <1>10, Zenon DEF Grown

\* The same, of the ring as a set.
RingOK(ring, next, state) ==
    /\ \A e \in ring : e \in Events /\ e.sequence < next /\ e.state =< state
    /\ \A e, g \in ring : e.sequence < g.sequence => e.state =< g.state
    /\ \A e, g \in ring : e.sequence = g.sequence => e = g

LEMMA RingIsOK ==
    ASSUME NEW q \in Seq(Events), NEW next \in Nat, NEW state \in Nat,
           Ordered(q, next, state)
    PROVE  RingOK(Kept(q), next, state) /\ First(q) \in Nat
<1>1. DOMAIN q = 1..Len(q) /\ Len(q) \in Nat /\ \A i \in 1..Len(q) : q[i] \in Events
  OBVIOUS
<1>2. First(q) \in Nat
  <2>1. CASE q = <<>>
    BY <2>1 DEF First
  <2>2. CASE q # <<>>
    <3>1. 1 \in 1..Len(q)
      BY <1>1, <2>2
    <3> QED
      BY <1>1, <2>2, <3>1 DEF First, Events
  <2> QED
    BY <2>1, <2>2
<1>3. ASSUME NEW e \in Kept(q)
      PROVE  e \in Events /\ e.sequence < next /\ e.state =< state
  <2>1. PICK i \in 1..Len(q) : e = q[i]
    BY <1>1, Zenon DEF Kept
  <2> QED
    BY <1>1, <2>1 DEF Ordered
<1>4. ASSUME NEW e \in Kept(q), NEW g \in Kept(q)
      PROVE  /\ e.sequence < g.sequence => e.state =< g.state
             /\ e.sequence = g.sequence => e = g
  <2>1. PICK i \in 1..Len(q) : e = q[i]
    BY <1>1, Zenon DEF Kept
  <2>2. PICK j \in 1..Len(q) : g = q[j]
    BY <1>1, Zenon DEF Kept
  <2>3. CASE i < j
    BY <1>3, <2>1, <2>2, <2>3 DEF Ordered, Events
  <2>4. CASE j < i
    BY SMTT(30), <1>3, <2>1, <2>2, <2>4 DEF Ordered, Events
  <2>5. CASE i = j
    BY <1>3, <2>1, <2>2, <2>5 DEF Events
  <2> QED
    BY <2>3, <2>4, <2>5
<1> QED
  BY <1>2, <1>3, <1>4, Zenon DEF RingOK

LEMMA OrderedLater ==
    ASSUME NEW q \in Seq(Events), NEW next \in Nat, NEW state \in Nat,
           Ordered(q, next, state)
    PROVE  Ordered(q, next + 1, state) /\ Ordered(q, next, state + 1)
<1>1. \A i \in 1..Len(q) : q[i].sequence \in Nat /\ q[i].state \in Nat
  <2>1. \A i \in 1..Len(q) : q[i] \in Events
    OBVIOUS
  <2>2. \A e \in Events : e.sequence \in Nat /\ e.state \in Nat
    BY DEF Events
  <2> QED
    BY <2>1, <2>2, Zenon
<1> QED
  BY <1>1 DEF Ordered

-----------------------------------------------------------------------------
(***************************************************************************)
(* What the steps do to a client t, which becomes u.                       *)
(***************************************************************************)
SameClient(t, u) ==
    /\ u.kinds = t.kinds /\ u.cursor = t.cursor /\ u.seen = t.seen
    /\ u.due = t.due /\ Shown(u) = Shown(t)

\* Nothing that matters changes, except that time goes on.
LEMMA FitsSame ==
    ASSUME NEW ring, NEW first \in Nat, NEW next \in Nat, NEW state \in Nat,
           NEW now, RingOK(ring, next, state),
           NEW t \in Clients, NEW u, SameClient(t, u),
           Fits(t, ring, first, next, state, now),
           NEW later \in {next, next + 1},
           u.phase = "waiting" => later = next /\ t.phase = "waiting"
    PROVE  Fits(u, ring, first, later, state, now)
<1>1. DueIsKept(u, ring, first, later)
  BY DEF Fits, DueIsKept, SameClient, Clients
<1>2. AheadIsLater(u, ring, state)
  BY Zenon DEF Fits, AheadIsLater, SameClient
<1>3. now = "ready" => LatestIsShown(u, ring, first, state)
  BY Zenon DEF Fits, LatestIsShown, SameClient
<1>4. u.cursor =< later /\ (u.phase = "waiting" => u.cursor = later)
  BY DEF Fits, SameClient, Clients
<1> QED
  BY <1>1, <1>2, <1>3, <1>4, Zenon DEF Fits

\* The snapshot is replaced, and nobody has been told.
LEMMA FitsReplaced ==
    ASSUME NEW ring, NEW first \in Nat, NEW next \in Nat, NEW state \in Nat,
           NEW t \in Clients, NEW now, Fits(t, ring, first, next, state, now)
    PROVE  Fits(t, ring, first, next, state + 1, "replaced")
<1>0. Shown(t) \in Nat
  BY DEF Shown, Clients
<1>1. AheadIsLater(t, ring, state + 1)
  BY <1>0 DEF Fits, AheadIsLater
<1> QED
  BY <1>1, Zenon DEF Fits

\* The client is woken up, and r is added to what is due to it if it asked for it.
Noted(t, r, u) ==
    /\ u.kinds = t.kinds /\ u.cursor = t.cursor /\ u.seen = t.seen
    /\ Shown(u) = Shown(t) /\ u.phase # "waiting"
    /\ u.due = IF Wants(t.kinds, r.kind) THEN t.due \cup {r.sequence} ELSE t.due

LEMMA FitsPublished ==
    ASSUME NEW ring, NEW first \in Nat, NEW next \in Nat, NEW state \in Nat,
           NEW now, RingOK(ring, next, state),
           NEW ring1, NEW first1 \in Nat, NEW r \in Events,
           r.sequence = next, r.state = state,
           Grown(ring, first, r, ring1, first1),
           NEW t \in Clients, Fits(t, ring, first, next, state, now),
           now = "ready" \/ r.kind = "runtime",
           NEW u, Noted(t, r, u)
    PROVE  Fits(u, ring1, first1, next + 1, state, "ready")
<1>a. /\ ring1 \subseteq ring \cup {r} /\ r \in ring1 /\ first =< first1
      /\ \A e \in ring : e \in ring1 \/ e.sequence < first1
  BY Zenon DEF Grown
<1>b. /\ u.kinds = t.kinds /\ u.cursor = t.cursor /\ u.seen = t.seen
      /\ Shown(u) = Shown(t) /\ u.phase # "waiting"
      /\ u.due = IF Wants(t.kinds, r.kind) THEN t.due \cup {next} ELSE t.due
  BY Zenon DEF Noted
<1> USE <1>a, <1>b
<1>0. /\ t.cursor \in Nat /\ t.cursor =< next /\ t.due \in SUBSET Nat /\ Shown(t) \in Nat
      /\ \A e \in ring : e.sequence \in Nat /\ e.state \in Nat
  BY DEF Fits, Clients, Shown, RingOK, Events
<1>1. DueIsKept(u, ring1, first1, next + 1)
  <2> SUFFICES ASSUME NEW d \in u.due
               PROVE  /\ t.cursor =< d /\ d < next + 1
                      /\ d < first1 \/ \E e \in ring1 : e.sequence = d /\ Wants(t.kinds, e.kind)
    BY Zenon DEF DueIsKept
  <2>1. CASE d \in t.due
    <3>1. /\ t.cursor =< d /\ d < next /\ d \in Nat
          /\ d < first \/ \E e \in ring : e.sequence = d /\ Wants(t.kinds, e.kind)
      BY <1>0, <2>1, Zenon DEF Fits, DueIsKept
    <3>2. CASE d < first
      BY <3>1, <3>2
    <3>3. CASE \E e \in ring : e.sequence = d /\ Wants(t.kinds, e.kind)
      <4>1. d < first1 \/ \E e \in ring1 : e.sequence = d /\ Wants(t.kinds, e.kind)
        BY <3>3, Zenon
      <4> QED
        BY <3>1, <4>1
    <3> QED
      BY <3>1, <3>2, <3>3
  <2>2. CASE d \notin t.due
    <3>1. d = next /\ Wants(t.kinds, r.kind)
      BY <2>2, Zenon
    <3>2. \E e \in ring1 : e.sequence = d /\ Wants(t.kinds, e.kind)
      BY <3>1, Zenon
    <3> QED
      BY <1>0, <3>1, <3>2
  <2> QED
    BY <2>1, <2>2
<1>2. AheadIsLater(u, ring1, state)
  <2>1. /\ t.seen =< Shown(t) /\ Shown(t) =< state
        /\ \A e \in ring : t.cursor =< e.sequence => Shown(t) =< e.state
    BY Zenon DEF Fits, AheadIsLater
  <2>2. ASSUME NEW e \in ring1, t.cursor =< e.sequence PROVE Shown(t) =< e.state
    <3>1. e \in ring \/ e = r
      BY Zenon
    <3> QED
      BY <2>1, <2>2, <3>1, Zenon
  <2> QED
    BY <2>1, <2>2, Zenon DEF AheadIsLater
<1>3. LatestIsShown(u, ring1, first1, state)
  <2> SUFFICES ASSUME Wants(t.kinds, "runtime")
               PROVE  \/ Shown(t) = state \/ t.cursor < first1
                      \/ \E e \in ring1 : e.sequence \in u.due /\ e.kind = "runtime" /\ e.state = state
    BY Zenon DEF LatestIsShown
  <2>1. CASE r.kind = "runtime"
    <3>1. next \in u.due
      BY <2>1, Zenon
    <3> QED
      BY <2>1, <3>1, Zenon
  <2>2. CASE now = "ready"
    <3>1. \/ Shown(t) = state \/ t.cursor < first
          \/ \E e \in ring : e.sequence \in t.due /\ e.kind = "runtime" /\ e.state = state
      BY <2>2, Zenon DEF Fits, LatestIsShown
    <3>2. CASE t.cursor < first
      BY <1>0, <3>2
    <3>3. ASSUME NEW e \in ring, e.sequence \in t.due, e.kind = "runtime", e.state = state,
                 e \notin ring1
          PROVE  t.cursor < first1
      <4>1. e.sequence < first1 /\ t.cursor =< e.sequence
        BY <3>3, Zenon DEF Fits, DueIsKept
      <4> QED
        BY <1>0, <3>3, <4>1
    <3>4. t.due \subseteq u.due
      BY Zenon
    <3> QED
      BY <3>1, <3>2, <3>3, <3>4, Zenon
  <2> QED
    BY <2>1, <2>2
<1>4. u.cursor =< next + 1 /\ u.phase # "waiting"
  BY <1>0
<1> QED
  BY <1>1, <1>2, <1>3, <1>4, Zenon DEF Fits

\* A client starts from a snapshot, at first or after it fell behind.
LEMMA FitsFresh ==
    ASSUME NEW ring, NEW first \in Nat, NEW next \in Nat, NEW state \in Nat,
           NEW now, RingOK(ring, next, state),
           NEW u, u.phase = "snapshot", u.cursor = next, u.initial = state,
           u.due = {}, u.seen \in Nat, u.seen =< state
    PROVE  Fits(u, ring, first, next, state, now)
<1>0. Shown(u) = state
  BY Zenon DEF Shown
<1>1. DueIsKept(u, ring, first, next)
  BY Zenon DEF DueIsKept
<1>2. AheadIsLater(u, ring, state)
  BY <1>0 DEF AheadIsLater, RingOK, Events
<1>3. LatestIsShown(u, ring, first, state)
  BY <1>0, Zenon DEF LatestIsShown
<1>4. u.cursor =< next /\ u.phase # "waiting"
  OBVIOUS
<1> QED
  BY <1>1, <1>2, <1>3, <1>4, Zenon DEF Fits

\* What a client could be sent of the ring.
Ahead(t, ring) == {e \in ring : e.sequence >= t.cursor /\ Wants(t.kinds, e.kind)}

\* A client that is not behind finds in the ring what is due to it.
LEMMA DueIsAhead ==
    ASSUME NEW ring, NEW first \in Nat, NEW next, NEW t \in Clients,
           DueIsKept(t, ring, first, next), ~(t.cursor < first)
    PROVE  \A d \in t.due : \E g \in Ahead(t, ring) : g.sequence = d
<1> SUFFICES ASSUME NEW d \in t.due PROVE \E g \in Ahead(t, ring) : g.sequence = d
  OBVIOUS
<1>1. /\ t.cursor =< d
      /\ d < first \/ \E e \in ring : e.sequence = d /\ Wants(t.kinds, e.kind)
  BY Zenon DEF DueIsKept
<1>2. d \in Nat /\ t.cursor \in Nat
  BY DEF Clients
<1>3. ~(d < first) /\ d >= t.cursor
  BY <1>1, <1>2
<1>4. PICK e \in ring : e.sequence = d /\ Wants(t.kinds, e.kind)
  BY <1>1, <1>3, Zenon
<1>5. e.sequence >= t.cursor
  BY <1>3, <1>4, Zenon
<1> QED
  BY <1>4, <1>5, Zenon DEF Ahead

\* The client is sent the oldest event it asked for.
LEMMA FitsSent ==
    ASSUME NEW ring, NEW first \in Nat, NEW next \in Nat, NEW state \in Nat,
           NEW now, RingOK(ring, next, state),
           NEW t \in Clients, Fits(t, ring, first, next, state, now),
           t.phase = "reading", ~(t.cursor < first),
           NEW e \in Ahead(t, ring),
           \A g \in Ahead(t, ring) : e.sequence =< g.sequence,
           NEW u, u.kinds = t.kinds, u.cursor = e.sequence + 1, u.phase = "reading",
           u.seen = IF e.kind = "runtime" THEN e.state ELSE t.seen,
           u.due = t.due \ {e.sequence}
    PROVE  Fits(u, ring, first, next, state, now) /\ t.seen =< u.seen
<1>0. /\ e \in ring /\ t.cursor =< e.sequence /\ t.cursor \in Nat /\ t.seen \in Nat
      /\ e.sequence \in Nat /\ e.state \in Nat /\ e.sequence < next /\ e.state =< state
      /\ \A g \in ring : g.sequence \in Nat /\ g.state \in Nat /\ g.state =< state
      /\ t.due \in SUBSET Nat
  <2>1. e \in ring /\ e.sequence >= t.cursor
    BY Zenon DEF Ahead
  <2>2. t.cursor \in Nat /\ t.seen \in Nat /\ t.due \in SUBSET Nat
    BY DEF Clients
  <2> QED
    BY <2>1, <2>2 DEF RingOK, Events
<1>1. Shown(t) = t.seen /\ Shown(u) = u.seen
  BY DEF Shown
<1>2. DueIsKept(t, ring, first, next) /\ AheadIsLater(t, ring, state)
  BY Zenon DEF Fits
<1>3. t.seen =< e.state /\ t.seen =< state
      /\ \A g \in ring : t.cursor =< g.sequence => t.seen =< g.state
  BY <1>0, <1>1, <1>2, Zenon DEF AheadIsLater
<1>4. \A d \in t.due : \E g \in Ahead(t, ring) : g.sequence = d
  BY <1>2, DueIsAhead, SMT
<1>5. \A d \in t.due : e.sequence =< d
  BY <1>4, Zenon
<1>6. DueIsKept(u, ring, first, next)
  <2> SUFFICES ASSUME NEW d \in u.due
               PROVE  /\ u.cursor =< d /\ d < next
                      /\ d < first \/ \E g \in ring : g.sequence = d /\ Wants(t.kinds, g.kind)
    BY Zenon DEF DueIsKept
  <2>1. d \in t.due /\ d # e.sequence
    BY Zenon
  <2>2. /\ d < next
        /\ d < first \/ \E g \in ring : g.sequence = d /\ Wants(t.kinds, g.kind)
    BY <1>2, <2>1, Zenon DEF DueIsKept
  <2>3. u.cursor =< d
    BY <1>0, <1>5, <2>1
  <2> QED
    BY <2>2, <2>3, Zenon
<1>7. t.seen =< u.seen /\ u.seen =< state /\ u.seen \in Nat
  BY <1>0, <1>3
<1>8. AheadIsLater(u, ring, state)
  <2>1. ASSUME NEW g \in ring, u.cursor =< g.sequence PROVE u.seen =< g.state
    <3>1. e.sequence < g.sequence /\ t.cursor =< g.sequence
      BY <1>0, <2>1
    <3>2. e.state =< g.state /\ t.seen =< g.state
      BY <1>0, <1>3, <3>1, Zenon DEF RingOK
    <3> QED
      BY <3>2
  <2>2. u.seen =< u.seen
    BY <1>7
  <2> QED
    BY <1>1, <1>7, <2>1, <2>2, Zenon DEF AheadIsLater
<1>9. ASSUME now = "ready" PROVE LatestIsShown(u, ring, first, state)
  <2> SUFFICES ASSUME Wants(t.kinds, "runtime")
               PROVE  \/ u.seen = state
                      \/ \E g \in ring : g.sequence \in u.due /\ g.kind = "runtime" /\ g.state = state
    BY <1>1, Zenon DEF LatestIsShown
  <2>1. \/ t.seen = state
        \/ \E g \in ring : g.sequence \in t.due /\ g.kind = "runtime" /\ g.state = state
    BY <1>1, <1>9, Zenon DEF Fits, LatestIsShown
  <2>2. CASE t.seen = state
    BY <1>7, <2>2
  <2>3. ASSUME NEW g \in ring, g.sequence \in t.due, g.kind = "runtime", g.state = state,
               g.sequence \notin u.due
        PROVE  u.seen = state
    <3>1. g.sequence = e.sequence
      BY <2>3, Zenon
    <3>2. g = e
      BY <1>0, <3>1, Zenon DEF RingOK
    <3> QED
      BY <2>3, <3>2
  <2> QED
    BY <2>1, <2>2, <2>3, Zenon
<1>10. u.cursor =< next /\ u.phase # "waiting"
  BY <1>0
<1> QED
  BY <1>6, <1>7, <1>8, <1>9, <1>10, Zenon DEF Fits

\* The client waits: there is nothing to send, so nothing is due to it.
LEMMA FitsWaits ==
    ASSUME NEW ring, NEW first \in Nat, NEW next \in Nat, NEW state \in Nat,
           NEW now, RingOK(ring, next, state),
           NEW t \in Clients, Fits(t, ring, first, next, state, now),
           t.phase = "reading", ~(t.cursor < first), Ahead(t, ring) = {},
           NEW u, u.kinds = t.kinds, u.cursor = next, u.phase = "waiting",
           u.seen = t.seen, u.due = t.due
    PROVE  Fits(u, ring, first, next, state, now)
<1>1. Shown(t) = t.seen /\ Shown(u) = t.seen
  BY DEF Shown
<1>2. DueIsKept(t, ring, first, next)
  BY Zenon DEF Fits
<1>3. t.due = {}
  BY <1>2, DueIsAhead, Zenon
<1>4. DueIsKept(u, ring, first, next)
  BY <1>3, Zenon DEF DueIsKept
<1>5. AheadIsLater(u, ring, state)
  <2>1. t.seen =< t.seen /\ t.seen =< state
    BY <1>1, Zenon DEF Fits, AheadIsLater
  <2>2. \A e \in ring : ~(next =< e.sequence)
    BY DEF RingOK, Events
  <2> QED
    BY <1>1, <2>1, <2>2, Zenon DEF AheadIsLater
<1>6. ASSUME now = "ready" PROVE LatestIsShown(u, ring, first, state)
  BY <1>1, <1>3, <1>6, Zenon DEF Fits, LatestIsShown
<1>7. u.cursor =< next
  OBVIOUS
<1> QED
  BY <1>4, <1>5, <1>6, <1>7, Zenon DEF Fits

-----------------------------------------------------------------------------
(***************************************************************************)
(* The slots: the clients that are open, and those that listen to traffic. *)
(***************************************************************************)
Live(f) == {x \in Subscribers : f[x].phase # "free"}
Listening(f) == {x \in Live(f) : Wants(f[x].kinds, "traffic")}

Slots(f, c, n) == c = Cardinality(Live(f)) /\ n = Cardinality(Listening(f))

LEMMA SlotsAre == SlotsAreCounted <=> Slots(sub, count, traffic)
<1>1. Live(sub) = {x \in Subscribers : Open(x)}
  BY Zenon DEF Live, Open
<1>2. Listening(sub) = {x \in Subscribers : Accepts(x, "traffic")}
  BY Zenon DEF Live, Listening, Open, Accepts
<1>3. SlotsAreCounted <=>
         /\ count = Cardinality({x \in Subscribers : Open(x)})
         /\ traffic = Cardinality({x \in Subscribers : Accepts(x, "traffic")})
  BY DEF SlotsAreCounted
<1>4. Slots(sub, count, traffic) <=>
         count = Cardinality(Live(sub)) /\ traffic = Cardinality(Listening(sub))
  BY Zenon DEF Slots
<1> QED
  BY <1>1, <1>2, <1>3, <1>4

LEMMA FiniteSlots ==
    ASSUME IsFiniteSet(Subscribers), NEW f
    PROVE  IsFiniteSet(Live(f)) /\ IsFiniteSet(Listening(f))
<1>1. Live(f) \subseteq Subscribers /\ Listening(f) \subseteq Subscribers
  BY Zenon DEF Live, Listening
<1> QED
  BY <1>1, FS_Subset, Zenon

\* A client that stays open, or stays closed, keeps its slots.
LEMMA SlotKept ==
    ASSUME NEW f \in [Subscribers -> Clients], NEW g \in [Subscribers -> Clients],
           \A x \in Subscribers :
               /\ f[x].phase = "free" <=> g[x].phase = "free"
               /\ f[x].kinds = g[x].kinds,
           NEW c, NEW n, Slots(f, c, n)
    PROVE  Slots(g, c, n)
<1>1. Live(f) = Live(g)
  BY Zenon DEF Live
<1>2. Listening(f) = Listening(g)
  BY <1>1, Zenon DEF Live, Listening
<1> QED
  BY <1>1, <1>2, Zenon DEF Slots

\* A client that comes takes its slots, and a client that goes gives them back.
LEMMA SlotTaken ==
    ASSUME IsFiniteSet(Subscribers), NEW s \in Subscribers,
           NEW f \in [Subscribers -> Clients], NEW g \in [Subscribers -> Clients],
           f[s].phase = "free", g[s].phase # "free",
           \A x \in Subscribers \ {s} : f[x] = g[x]
    PROVE  /\ Cardinality(Live(g)) = Cardinality(Live(f)) + 1
           /\ Cardinality(Live(f)) \in Nat /\ Cardinality(Listening(f)) \in Nat
           /\ Cardinality(Listening(g)) =
                 Cardinality(Listening(f)) + IF Wants(g[s].kinds, "traffic") THEN 1 ELSE 0
<1>1. IsFiniteSet(Live(f)) /\ IsFiniteSet(Listening(f))
  BY FiniteSlots, Zenon
<1>2. s \notin Live(f) /\ s \notin Listening(f)
  BY Zenon DEF Live, Listening
<1>3. Live(g) = Live(f) \cup {s}
  BY Zenon DEF Live
<1>4. Cardinality(Live(f)) \in Nat /\ Cardinality(Listening(f)) \in Nat
  BY <1>1, FS_CardinalityType, Zenon
<1>5. Cardinality(Live(g)) = Cardinality(Live(f)) + 1
  BY <1>1, <1>2, <1>3, FS_AddElement, Zenon
<1>6. CASE Wants(g[s].kinds, "traffic")
  <2>1. Listening(g) = Listening(f) \cup {s}
    BY <1>6, Zenon DEF Live, Listening
  <2>2. Cardinality(Listening(g)) = Cardinality(Listening(f)) + 1
    BY <1>1, <1>2, <2>1, FS_AddElement, Zenon
  <2> QED
    BY <1>4, <1>5, <1>6, <2>2, Zenon
<1>7. CASE ~Wants(g[s].kinds, "traffic")
  <2>1. Listening(g) = Listening(f)
    BY <1>7, Zenon DEF Live, Listening
  <2>2. Cardinality(Listening(g)) = Cardinality(Listening(f)) + 0
    BY <1>4, <2>1
  <2> QED
    BY <1>4, <1>5, <1>7, <2>2, Zenon
<1> QED
  BY <1>6, <1>7

-----------------------------------------------------------------------------
LEMMA ClosedIsClient == Closed \in Clients /\ Closed.phase = "free"
  BY DEF Closed, Clients, Ephemeral

\* Only client s has changed, and it fits.
LEMMA OneClient ==
    ASSUME HubInv, NEW s \in Subscribers, NEW u \in Clients,
           u.phase # "free" =>
               Fits(u, Kept(events), First(events), nextSequence, snapshot, main),
           sub' = [sub EXCEPT ![s] = u], UNCHANGED hub
    PROVE  /\ HubShape' /\ Ordered(events, nextSequence, snapshot)' /\ ClientsInv'
           /\ sub'[s] = u /\ \A x \in Subscribers \ {s} : sub'[x] = sub[x]
<1>1. /\ nextSequence' = nextSequence /\ snapshot' = snapshot /\ events' = events
      /\ latest' = latest /\ main' = main
  BY DEF hub
<1>2. sub \in [Subscribers -> Clients]
  BY Zenon DEF HubInv, HubShape
<1>3. /\ sub' \in [Subscribers -> Clients] /\ sub'[s] = u
      /\ \A x \in Subscribers \ {s} : sub'[x] = sub[x]
  BY <1>2
<1>4. HubShape'
  BY <1>1, <1>3 DEF HubInv, HubShape
<1>5. Ordered(events, nextSequence, snapshot)'
  BY <1>1 DEF HubInv, Ordered
<1>6. ASSUME NEW x \in Subscribers, sub'[x].phase # "free"
      PROVE  Fits(sub'[x], Kept(events), First(events), nextSequence, snapshot, main)
  <2>1. CASE x = s
    BY <1>3, <1>6, <2>1, Zenon
  <2>2. CASE x # s
    <3>1. sub'[x] = sub[x]
      BY <1>3, <2>2, Zenon
    <3> QED
      BY <1>6, <3>1, Zenon DEF HubInv, ClientsInv
  <2> QED
    BY <2>1, <2>2
<1>7. /\ Kept(events)' = Kept(events) /\ First(events)' = First(events)
  BY <1>1, Zenon DEF Kept, First
<1>8. ClientsInv'
  BY <1>1, <1>6, <1>7, Zenon DEF ClientsInv
<1> QED
  BY <1>3, <1>4, <1>5, <1>8, Zenon

\* No client comes or goes.
LEMMA SlotsStay ==
    ASSUME HubInv, HubShape', UNCHANGED <<count, traffic>>,
           \A x \in Subscribers :
               /\ sub[x].phase = "free" <=> sub'[x].phase = "free"
               /\ sub[x].kinds = sub'[x].kinds
    PROVE  SlotsAreCounted'
<1>1. /\ sub \in [Subscribers -> Clients] /\ sub' \in [Subscribers -> Clients]
      /\ Slots(sub, count, traffic)
  BY SlotsAre, Zenon DEF HubInv, HubShape
<1>2. Slots(sub', count, traffic)
  BY <1>1, SlotKept, Zenon
<1>3. count' = count /\ traffic' = traffic
  OBVIOUS
<1>4. Slots(sub, count, traffic)'
  BY <1>2, <1>3, Zenon DEF Slots, Live, Listening
<1> QED
  BY <1>4, SlotsAre, PTL

\* The thread of client s becomes u; the client neither comes nor goes.
LEMMA QuietStep ==
    ASSUME HubInv, NEW s \in Subscribers, NEW u \in Clients,
           sub[s].phase = "free" <=> u.phase = "free",
           u.kinds = sub[s].kinds, sub[s].seen =< u.seen,
           u.phase # "free" =>
               Fits(u, Kept(events), First(events), nextSequence, snapshot, main),
           sub' = [sub EXCEPT ![s] = u], UNCHANGED <<count, traffic>>, UNCHANGED hub
    PROVE  HubInv' /\ NeverBackInTime
<1>0. sub \in [Subscribers -> Clients]
  BY Zenon DEF HubInv, HubShape
<1>1. /\ HubShape' /\ Ordered(events, nextSequence, snapshot)' /\ ClientsInv'
      /\ sub'[s] = u /\ \A x \in Subscribers \ {s} : sub'[x] = sub[x]
  BY OneClient, Zenon
<1>2. \A x \in Subscribers :
         /\ sub[x].phase = "free" <=> sub'[x].phase = "free"
         /\ sub[x].kinds = sub'[x].kinds
  BY <1>1, Zenon
<1>3. SlotsAreCounted'
  BY <1>1, <1>2, SlotsStay, Zenon
<1>4. \A x \in Subscribers : sub'[x].seen >= sub[x].seen
  BY <1>0, <1>1 DEF Clients
<1> QED
  BY <1>1, <1>3, <1>4, Zenon DEF HubInv, NeverBackInTime

\* The thread of client s sends a frame, after which it is u.
LEMMA SendStep ==
    ASSUME HubInv, IsFiniteSet(Subscribers), NEW s \in Subscribers, sub[s].phase # "free",
           NEW u \in Clients, u.phase # "free", u.kinds = sub[s].kinds, sub[s].seen =< u.seen,
           Fits(u, Kept(events), First(events), nextSequence, snapshot, main),
           Send(s, u)
    PROVE  HubInv' /\ NeverBackInTime
<1>0. /\ sub \in [Subscribers -> Clients] /\ Slots(sub, count, traffic)
      /\ \A x \in Subscribers : sub[x].seen \in Nat
  <2>1. sub \in [Subscribers -> Clients] /\ Slots(sub, count, traffic)
    BY SlotsAre, Zenon DEF HubInv, HubShape
  <2>2. \A x \in Subscribers : sub[x].seen \in Nat
    BY <2>1 DEF Clients
  <2> QED
    BY <2>1, <2>2, Zenon
<1>1. UNCHANGED hub
  BY Zenon DEF Send
<1>2. CASE sub' = [sub EXCEPT ![s] = u] /\ UNCHANGED <<count, traffic>>
  BY <1>1, <1>2, QuietStep, Zenon
<1>3. CASE Drop(s)
  <2>0. /\ count' = count - 1 /\ sub' = [sub EXCEPT ![s] = Closed]
        /\ traffic' = traffic - IF Wants(sub[s].kinds, "traffic") THEN 1 ELSE 0
    BY <1>3 DEF Drop, Accepts, Open
  <2>1. /\ HubShape' /\ Ordered(events, nextSequence, snapshot)' /\ ClientsInv'
        /\ sub'[s] = Closed /\ \A x \in Subscribers \ {s} : sub'[x] = sub[x]
    BY <1>1, <2>0, OneClient, ClosedIsClient, Zenon
  <2>2. sub' \in [Subscribers -> Clients]
    BY <2>1, Zenon DEF HubShape
  <2>3. sub'[s].phase = "free"
    BY <2>1, ClosedIsClient, Zenon
  <2>4. /\ Cardinality(Live(sub)) = Cardinality(Live(sub')) + 1
        /\ Cardinality(Live(sub')) \in Nat /\ Cardinality(Listening(sub')) \in Nat
        /\ Cardinality(Listening(sub)) =
              Cardinality(Listening(sub')) + IF Wants(sub[s].kinds, "traffic") THEN 1 ELSE 0
    BY <1>0, <2>1, <2>2, <2>3, SlotTaken, Zenon
  <2>5. SlotsAreCounted'
    <3>1. count' = Cardinality(Live(sub')) /\ traffic' = Cardinality(Listening(sub'))
      BY <1>0, <2>0, <2>4 DEF Slots
    <3>2. Slots(sub, count, traffic)'
      BY <3>1, Zenon DEF Slots, Live, Listening
    <3> QED
      BY <3>2, SlotsAre, PTL
  <2>6. ASSUME NEW x \in Subscribers, Open(x)' PROVE sub'[x].seen >= sub[x].seen
    <3>1. sub'[x] = sub[x]
      BY <2>1, <2>3, <2>6, Zenon DEF Open
    <3> QED
      BY <1>0, <3>1
  <2> QED
    BY <2>1, <2>5, <2>6, Zenon DEF HubInv, NeverBackInTime
<1> QED
  BY <1>2, <1>3, Zenon DEF Send

-----------------------------------------------------------------------------
(***************************************************************************)
(* The steps of a client's thread.                                         *)
(***************************************************************************)
LEMMA ClientFacts ==
    ASSUME HubInv, NEW s \in Subscribers
    PROVE  /\ sub[s] \in Clients /\ nextSequence \in Nat /\ snapshot \in Nat
           /\ RingOK(Kept(events), nextSequence, snapshot) /\ First(events) \in Nat
           /\ sub[s].phase # "free" =>
                 Fits(sub[s], Kept(events), First(events), nextSequence, snapshot, main)
           /\ Behind(s) <=> sub[s].cursor < First(events)
           /\ sub[s].phase # "free" => PendingRing(s) = Ahead(sub[s], Kept(events))
<1>1. /\ events \in Seq(Events) /\ nextSequence \in Nat /\ snapshot \in Nat
      /\ Ordered(events, nextSequence, snapshot) /\ sub[s] \in Clients
  BY Zenon DEF HubInv, HubShape
<1>2. RingOK(Kept(events), nextSequence, snapshot) /\ First(events) \in Nat
  BY <1>1, RingIsOK, Zenon
<1>3. Behind(s) <=> sub[s].cursor < First(events)
  <2>1. sub[s].cursor \in Nat
    BY <1>1 DEF Clients
  <2>2. CASE events = <<>>
    BY <2>1, <2>2 DEF Behind, First
  <2>3. CASE events # <<>>
    BY <2>3, Zenon DEF Behind, First
  <2> QED
    BY <2>2, <2>3
<1>4. sub[s].phase # "free" =>
        Fits(sub[s], Kept(events), First(events), nextSequence, snapshot, main)
  BY Zenon DEF HubInv, ClientsInv
<1>5. sub[s].phase # "free" => PendingRing(s) = Ahead(sub[s], Kept(events))
  BY Zenon DEF PendingRing, Ahead, Kept, Accepts, Open
<1> QED
  BY <1>1, <1>2, <1>3, <1>4, <1>5, Zenon

LEMMA SnapshotStep ==
    ASSUME HubInv, IsFiniteSet(Subscribers), NEW s \in Subscribers, SendSnapshot(s)
    PROVE  HubInv' /\ NeverBackInTime
<1> DEFINE t == sub[s]
           u == [t EXCEPT !.phase = "reading", !.seen = t.initial, !.initial = 0]
<1>1. t.phase = "snapshot" /\ Send(s, u)
  BY Zenon DEF SendSnapshot
<1>2. /\ t \in Clients /\ nextSequence \in Nat /\ snapshot \in Nat
      /\ RingOK(Kept(events), nextSequence, snapshot) /\ First(events) \in Nat
      /\ Fits(t, Kept(events), First(events), nextSequence, snapshot, main)
  BY <1>1, ClientFacts, Zenon
<1>3. /\ u \in Clients /\ u.phase = "reading" /\ u.kinds = t.kinds /\ u.cursor = t.cursor
      /\ u.seen = t.initial /\ u.due = t.due
  BY <1>2, Zenon DEF Clients
<1>4. Shown(t) = t.initial /\ Shown(u) = t.initial
  BY <1>1, <1>3 DEF Shown
<1>5. t.seen =< u.seen /\ Shown(t) =< snapshot
      /\ \A e \in Kept(events) : t.cursor =< e.sequence => Shown(t) =< e.state
  BY <1>2, <1>3, <1>4, Zenon DEF Fits, AheadIsLater
<1> HIDE DEF t, u
<1>6. Fits(u, Kept(events), First(events), nextSequence, snapshot, main)
  <2>1. DueIsKept(u, Kept(events), First(events), nextSequence)
    BY <1>2, <1>3, Zenon DEF Fits, DueIsKept
  <2>2. AheadIsLater(u, Kept(events), snapshot)
    <3>1. u.seen =< Shown(u)
      BY <1>2, <1>3, <1>4 DEF Clients
    <3> QED
      BY <1>3, <1>4, <1>5, <3>1, Zenon DEF AheadIsLater
  <2>3. main = "ready" => LatestIsShown(u, Kept(events), First(events), snapshot)
    BY <1>2, <1>3, <1>4, Zenon DEF Fits, LatestIsShown
  <2>4. u.cursor =< nextSequence /\ u.phase # "waiting"
    BY <1>2, <1>3, Zenon DEF Fits
  <2> QED
    BY <2>1, <2>2, <2>3, <2>4, Zenon DEF Fits
<1>7. sub[s].phase # "free" /\ u.phase # "free" /\ u.kinds = sub[s].kinds /\ sub[s].seen =< u.seen
  BY <1>1, <1>3, <1>5 DEF t
<1> QED
  BY <1>1, <1>3, <1>6, <1>7, SendStep, Zenon

LEMMA ResyncStep ==
    ASSUME HubInv, IsFiniteSet(Subscribers), NEW s \in Subscribers, Resync(s)
    PROVE  HubInv' /\ NeverBackInTime
<1> DEFINE t == sub[s]
           u == [t EXCEPT !.phase = "snapshot", !.cursor = nextSequence,
                          !.initial = snapshot, !.due = {}]
<1>1. t.phase = "reading" /\ Send(s, u)
  BY Zenon DEF Resync
<1>2. /\ t \in Clients /\ nextSequence \in Nat /\ snapshot \in Nat
      /\ RingOK(Kept(events), nextSequence, snapshot) /\ First(events) \in Nat
      /\ Fits(t, Kept(events), First(events), nextSequence, snapshot, main)
  BY <1>1, ClientFacts, Zenon
<1>3. /\ u \in Clients /\ u.phase = "snapshot" /\ u.kinds = t.kinds /\ u.cursor = nextSequence
      /\ u.seen = t.seen /\ u.due = {} /\ u.initial = snapshot
      /\ t.seen \in Nat /\ u.seen \in Nat
  BY <1>2, Zenon DEF Clients
<1>4. t.seen =< Shown(t) /\ Shown(t) =< snapshot /\ Shown(t) = t.seen
  BY <1>1, <1>2 DEF Fits, AheadIsLater, Shown
<1> HIDE DEF t, u
<1>5. u.seen =< snapshot /\ t.seen =< u.seen
  BY <1>3, <1>4
<1>6. Fits(u, Kept(events), First(events), nextSequence, snapshot, main)
  BY <1>2, <1>3, <1>5, FitsFresh, Zenon
<1>7. sub[s].phase # "free" /\ u.phase # "free" /\ u.kinds = sub[s].kinds /\ sub[s].seen =< u.seen
  BY <1>1, <1>3, <1>5 DEF t
<1> QED
  BY <1>1, <1>3, <1>6, <1>7, SendStep, Zenon

LEMMA RingStep ==
    ASSUME HubInv, IsFiniteSet(Subscribers), NEW s \in Subscribers, SendRing(s)
    PROVE  HubInv' /\ NeverBackInTime
<1> DEFINE t == sub[s]
           v(e) == [t EXCEPT !.cursor = e.sequence + 1,
                             !.seen = IF e.kind = "runtime" THEN e.state ELSE t.seen,
                             !.due = t.due \ {e.sequence}]
<1>1. t.phase = "reading" /\ ~Behind(s)
  BY Zenon DEF SendRing
<1>2. /\ t \in Clients /\ nextSequence \in Nat /\ snapshot \in Nat
      /\ RingOK(Kept(events), nextSequence, snapshot) /\ First(events) \in Nat
      /\ Fits(t, Kept(events), First(events), nextSequence, snapshot, main)
      /\ ~(t.cursor < First(events)) /\ PendingRing(s) = Ahead(t, Kept(events))
  BY <1>1, ClientFacts, Zenon
<1>3. PICK e \in Ahead(t, Kept(events)) :
         /\ \A g \in Ahead(t, Kept(events)) : e.sequence =< g.sequence
         /\ Send(s, v(e))
  BY <1>2, Zenon DEF SendRing
<1> DEFINE u == v(e)
<1>4. e \in Events
  BY <1>2, Zenon DEF Ahead, RingOK
<1>5. /\ u \in Clients /\ u.phase = "reading" /\ u.kinds = t.kinds /\ u.cursor = e.sequence + 1
      /\ u.seen = IF e.kind = "runtime" THEN e.state ELSE t.seen
      /\ u.due = t.due \ {e.sequence}
  <2>1. /\ e.sequence + 1 \in Nat
        /\ (IF e.kind = "runtime" THEN e.state ELSE t.seen) \in Nat
    BY <1>2, <1>4 DEF Clients, Events
  <2>2. t.due \in SUBSET Nat
    BY <1>2 DEF Clients
  <2>3. t.due \ {e.sequence} \in SUBSET Nat
    BY <2>2, Zenon
  <2> DEFINE c == e.sequence + 1
             z == IF e.kind = "runtime" THEN e.state ELSE t.seen
             D == t.due \ {e.sequence}
  <2>4. u = [t EXCEPT !.cursor = c, !.seen = z, !.due = D]
    OBVIOUS
  <2>5. c \in Nat /\ z \in Nat /\ D \in SUBSET Nat
    BY <2>1, <2>3, Zenon
  <2> HIDE DEF t, u, c, z, D
  <2>6. /\ u \in Clients /\ u.phase = t.phase /\ u.kinds = t.kinds
        /\ u.cursor = c /\ u.seen = z /\ u.due = D
    BY <1>2, <2>4, <2>5, Zenon DEF Clients
  <2> QED
    BY <1>1, <2>6, Zenon DEF c, z, D
<1>6. Send(s, u)
  BY <1>3
<1> HIDE DEF t, u
<1>7. Fits(u, Kept(events), First(events), nextSequence, snapshot, main) /\ t.seen =< u.seen
  BY <1>1, <1>2, <1>3, <1>5, FitsSent, ZenonT(60)
<1>8. sub[s].phase # "free" /\ u.phase # "free" /\ u.kinds = sub[s].kinds /\ sub[s].seen =< u.seen
  BY <1>1, <1>5, <1>7 DEF t
<1> QED
  BY <1>5, <1>6, <1>7, <1>8, SendStep, Zenon

LEMMA EphemeralStep ==
    ASSUME HubInv, IsFiniteSet(Subscribers), NEW s \in Subscribers, SendEphemeral(s)
    PROVE  HubInv' /\ NeverBackInTime
<1> DEFINE t == sub[s]
           v(k) == [t EXCEPT !.sent[k] = latest[k]]
<1>1. t.phase = "reading"
  BY Zenon DEF SendEphemeral
<1>2. /\ t \in Clients /\ nextSequence \in Nat /\ snapshot \in Nat
      /\ RingOK(Kept(events), nextSequence, snapshot) /\ First(events) \in Nat
      /\ Fits(t, Kept(events), First(events), nextSequence, snapshot, main)
  BY <1>1, ClientFacts, Zenon
<1>3. PICK k \in Ephemeral : Send(s, v(k))
  BY Zenon DEF SendEphemeral, PendingEphemeral
<1> DEFINE u == v(k)
<1>4. latest[k] \in Nat
  BY Zenon DEF HubInv, HubShape
<1>5. /\ u \in Clients /\ u.phase = "reading" /\ u.kinds = t.kinds /\ u.cursor = t.cursor
      /\ u.seen = t.seen /\ u.due = t.due /\ t.seen \in Nat
  BY <1>1, <1>2, <1>4 DEF Clients
<1>6. Send(s, u)
  BY <1>3
<1> HIDE DEF t, u
<1>7. SameClient(t, u)
  BY <1>1, <1>5 DEF SameClient, Shown
<1>8. Fits(u, Kept(events), First(events), nextSequence, snapshot, main)
  BY <1>2, <1>5, <1>7, FitsSame, Zenon
<1>9. sub[s].phase # "free" /\ u.phase # "free" /\ u.kinds = sub[s].kinds /\ sub[s].seen =< u.seen
  BY <1>1, <1>5 DEF t
<1> QED
  BY <1>5, <1>6, <1>8, <1>9, SendStep, Zenon

LEMMA WaitStep ==
    ASSUME HubInv, NEW s \in Subscribers, Wait(s)
    PROVE  HubInv' /\ NeverBackInTime
<1> DEFINE t == sub[s]
           u == [t EXCEPT !.phase = "waiting", !.cursor = nextSequence]
<1>1. /\ t.phase = "reading" /\ ~Behind(s) /\ PendingRing(s) = {}
      /\ sub' = [sub EXCEPT ![s].phase = "waiting", ![s].cursor = nextSequence]
      /\ UNCHANGED hub /\ UNCHANGED <<count, traffic>>
  BY DEF Wait
<1>2. /\ t \in Clients /\ nextSequence \in Nat /\ snapshot \in Nat
      /\ RingOK(Kept(events), nextSequence, snapshot) /\ First(events) \in Nat
      /\ Fits(t, Kept(events), First(events), nextSequence, snapshot, main)
      /\ ~(t.cursor < First(events)) /\ Ahead(t, Kept(events)) = {}
  BY <1>1, ClientFacts, Zenon
<1>3. /\ u \in Clients /\ u.phase = "waiting" /\ u.kinds = t.kinds /\ u.cursor = nextSequence
      /\ u.seen = t.seen /\ u.due = t.due /\ t.seen \in Nat
  BY <1>2, Zenon DEF Clients
<1>4. sub' = [sub EXCEPT ![s] = u]
  <2>1. sub \in [Subscribers -> Clients]
    BY Zenon DEF HubInv, HubShape
  <2> QED
    BY <1>1, <2>1, Zenon DEF Clients
<1> HIDE DEF t, u
<1>5. Fits(u, Kept(events), First(events), nextSequence, snapshot, main)
  BY <1>1, <1>2, <1>3, FitsWaits
<1>6. /\ sub[s].phase # "free" /\ u.phase # "free" /\ u.kinds = sub[s].kinds
      /\ sub[s].seen =< u.seen
  BY <1>1, <1>3 DEF t
<1> QED
  BY <1>1, <1>3, <1>4, <1>5, <1>6, QuietStep, Zenon

LEMMA DisconnectStep ==
    ASSUME HubInv, NEW s \in Subscribers, Disconnect(s)
    PROVE  HubInv' /\ NeverBackInTime
<1> DEFINE t == sub[s]
           u == [t EXCEPT !.client = FALSE]
<1>1. /\ sub' = [sub EXCEPT ![s].client = FALSE]
      /\ UNCHANGED hub /\ UNCHANGED <<count, traffic>>
  BY DEF Disconnect
<1>2. /\ t \in Clients /\ nextSequence \in Nat /\ snapshot \in Nat
      /\ RingOK(Kept(events), nextSequence, snapshot) /\ First(events) \in Nat
      /\ t.phase # "free" =>
            Fits(t, Kept(events), First(events), nextSequence, snapshot, main)
  BY ClientFacts, Zenon
<1>3. /\ u \in Clients /\ u.phase = t.phase /\ u.kinds = t.kinds /\ u.cursor = t.cursor
      /\ u.seen = t.seen /\ u.due = t.due /\ u.initial = t.initial /\ t.seen \in Nat
  BY <1>2, Zenon DEF Clients
<1>4. sub' = [sub EXCEPT ![s] = u]
  <2>1. sub \in [Subscribers -> Clients]
    BY Zenon DEF HubInv, HubShape
  <2> QED
    BY <1>1, <2>1 DEF Clients
<1> HIDE DEF t, u
<1>5. SameClient(t, u)
  BY <1>3 DEF SameClient, Shown
<1>6. u.phase # "free" =>
         Fits(u, Kept(events), First(events), nextSequence, snapshot, main)
  BY <1>2, <1>3, <1>5, FitsSame, Zenon
<1>7. /\ sub[s].phase = "free" <=> u.phase = "free"
      /\ u.kinds = sub[s].kinds /\ sub[s].seen =< u.seen
  BY <1>3 DEF t
<1> QED
  BY <1>1, <1>3, <1>4, <1>6, <1>7, QuietStep, Zenon

LEMMA SubscribeStep ==
    ASSUME HubInv, IsFiniteSet(Subscribers), NEW s \in Subscribers, NEW filter \in Filters,
           Subscribe(s, filter)
    PROVE  HubInv' /\ NeverBackInTime
<1> DEFINE u == Subscription(filter)
<1>0. /\ sub \in [Subscribers -> Clients] /\ Slots(sub, count, traffic)
      /\ \A x \in Subscribers : sub[x].seen \in Nat
  <2>1. sub \in [Subscribers -> Clients] /\ Slots(sub, count, traffic)
    BY SlotsAre, Zenon DEF HubInv, HubShape
  <2>2. \A x \in Subscribers : sub[x].seen \in Nat
    BY <2>1 DEF Clients
  <2> QED
    BY <2>1, <2>2, Zenon
<1>1. /\ sub[s].phase = "free" /\ count' = count + 1 /\ UNCHANGED hub
      /\ traffic' = traffic + IF Wants(filter, "traffic") THEN 1 ELSE 0
      /\ sub' = [sub EXCEPT ![s] = u]
  BY Zenon DEF Subscribe, Open
<1>2. /\ nextSequence \in Nat /\ snapshot \in Nat
      /\ RingOK(Kept(events), nextSequence, snapshot) /\ First(events) \in Nat
  BY ClientFacts, Zenon
<1>3. /\ u \in Clients /\ u.phase = "snapshot" /\ u.kinds = filter /\ u.cursor = nextSequence
      /\ u.seen = 0 /\ u.due = {} /\ u.initial = snapshot
  BY <1>2, Zenon DEF Clients, Subscription, Closed, Ephemeral
<1> HIDE DEF u
<1>4. u.seen \in Nat /\ u.seen =< snapshot
  BY <1>2, <1>3
<1>5. Fits(u, Kept(events), First(events), nextSequence, snapshot, main)
  BY <1>2, <1>3, <1>4, FitsFresh, Zenon
<1>6. /\ HubShape' /\ Ordered(events, nextSequence, snapshot)' /\ ClientsInv'
      /\ sub'[s] = u /\ \A x \in Subscribers \ {s} : sub'[x] = sub[x]
  BY <1>1, <1>3, <1>5, OneClient, Zenon
<1>7. sub' \in [Subscribers -> Clients] /\ sub'[s].phase # "free" /\ sub'[s].kinds = filter
  BY <1>3, <1>6 DEF HubShape
<1>8. /\ Cardinality(Live(sub')) = Cardinality(Live(sub)) + 1
      /\ Cardinality(Listening(sub')) =
            Cardinality(Listening(sub)) + IF Wants(filter, "traffic") THEN 1 ELSE 0
  <2>1. \A x \in Subscribers \ {s} : sub[x] = sub'[x]
    BY <1>6, Zenon
  <2>2. /\ Cardinality(Live(sub')) = Cardinality(Live(sub)) + 1
        /\ Cardinality(Listening(sub')) =
              Cardinality(Listening(sub)) + IF Wants(sub'[s].kinds, "traffic") THEN 1 ELSE 0
    <3>1. /\ sub \in [Subscribers -> Clients] /\ sub' \in [Subscribers -> Clients]
          /\ sub[s].phase = "free" /\ sub'[s].phase # "free"
      BY <1>0, <1>1, <1>7, Zenon
    <3> QED
      BY <2>1, <3>1, SlotTaken, Zenon
  <2> QED
    BY <1>7, <2>2, Zenon
<1>9. SlotsAreCounted'
  <2>1. count' = Cardinality(Live(sub')) /\ traffic' = Cardinality(Listening(sub'))
    BY <1>0, <1>1, <1>8, Zenon DEF Slots
  <2>2. Slots(sub, count, traffic)'
    BY <2>1, Zenon DEF Slots, Live, Listening
  <2> QED
    BY <2>2, SlotsAre, PTL
<1>10. ASSUME NEW x \in Subscribers, Open(x) PROVE sub'[x].seen >= sub[x].seen
  <2>1. sub'[x] = sub[x]
    BY <1>1, <1>6, <1>10, Zenon DEF Open
  <2> QED
    BY <1>0, <2>1
<1> QED
  BY <1>6, <1>9, <1>10, Zenon DEF HubInv, NeverBackInTime

-----------------------------------------------------------------------------
(***************************************************************************)
(* The steps of the main thread, which change all clients at once.         *)
(***************************************************************************)
LEMMA AllClients ==
    ASSUME HubInv, HubShape', Ordered(events', nextSequence', snapshot'),
           UNCHANGED <<count, traffic>>,
           \A x \in Subscribers :
               /\ sub[x].phase = "free" <=> sub'[x].phase = "free"
               /\ sub[x].kinds = sub'[x].kinds /\ sub'[x].seen = sub[x].seen
               /\ sub[x].phase # "free" =>
                     Fits(sub'[x], Kept(events'), First(events'), nextSequence', snapshot', main')
    PROVE  HubInv' /\ NeverBackInTime
<1>1. SlotsAreCounted'
  BY SlotsStay, Zenon
<1>2. ClientsInv'
  BY Zenon DEF ClientsInv, Kept, First
<1>3. Ordered(events, nextSequence, snapshot)'
  BY Zenon DEF Ordered
<1>4. \A x \in Subscribers : sub[x].seen \in Nat
  BY DEF HubInv, HubShape, Clients
<1>5. \A x \in Subscribers : sub'[x].seen >= sub[x].seen
  BY <1>4
<1> QED
  BY <1>1, <1>2, <1>3, <1>5, Zenon DEF HubInv, NeverBackInTime

LEMMA WokenIs ==
    ASSUME NEW t \in Clients
    PROVE  /\ Woken(t) \in Clients /\ Woken(t).phase # "waiting"
           /\ SameClient(t, Woken(t))
           /\ t.phase = "free" <=> Woken(t).phase = "free"
<1>1. CASE t.phase = "waiting"
  <2> DEFINE u == [t EXCEPT !.phase = "reading"]
  <2>1. /\ u \in Clients /\ u.phase = "reading" /\ u.kinds = t.kinds /\ u.cursor = t.cursor
        /\ u.seen = t.seen /\ u.due = t.due
    BY DEF Clients
  <2>2. Woken(t) = u
    BY <1>1 DEF Woken
  <2> HIDE DEF u
  <2>3. SameClient(t, u)
    BY <1>1, <2>1 DEF SameClient, Shown
  <2> QED
    BY <1>1, <2>1, <2>2, <2>3
<1>2. CASE t.phase # "waiting"
  <2>1. Woken(t) = t
    BY <1>2 DEF Woken
  <2> QED
    BY <1>2, <2>1, Zenon DEF SameClient
<1> QED
  BY <1>1, <1>2

LEMMA ReplaceStep ==
    ASSUME HubInv, ReplaceSnapshot
    PROVE  HubInv' /\ NeverBackInTime
<1>1. /\ snapshot' = snapshot + 1 /\ main' = "replaced" /\ nextSequence' = nextSequence
      /\ events' = events /\ latest' = latest /\ sub' = sub
      /\ UNCHANGED <<count, traffic>>
  BY DEF ReplaceSnapshot
<1>2. HubShape'
  BY <1>1 DEF HubInv, HubShape
<1>3. Ordered(events', nextSequence', snapshot')
  BY <1>1, OrderedLater, Zenon DEF HubInv, HubShape
<1>4. ASSUME NEW x \in Subscribers, sub[x].phase # "free"
      PROVE  Fits(sub'[x], Kept(events'), First(events'), nextSequence', snapshot', main')
  <2>1. Fits(sub[x], Kept(events), First(events), nextSequence, snapshot + 1, "replaced")
    BY <1>4, ClientFacts, FitsReplaced, Zenon
  <2> QED
    BY <1>1, <2>1, Zenon
<1> QED
  BY <1>1, <1>2, <1>3, <1>4, AllClients, Zenon

LEMMA PublishEphemeralStep ==
    ASSUME HubInv, NEW k \in Ephemeral, PublishEphemeral(k)
    PROVE  HubInv' /\ NeverBackInTime
<1>1. /\ nextSequence' = nextSequence + 1 /\ latest' = [latest EXCEPT ![k] = nextSequence]
      /\ sub' = [s \in Subscribers |-> Woken(sub[s])]
      /\ snapshot' = snapshot /\ events' = events /\ main' = main
      /\ UNCHANGED <<count, traffic>>
  BY DEF PublishEphemeral, Sequenced
<1>2. ASSUME NEW x \in Subscribers
      PROVE  /\ sub'[x] = Woken(sub[x]) /\ sub[x] \in Clients /\ sub'[x] \in Clients
             /\ sub'[x].phase # "waiting" /\ SameClient(sub[x], sub'[x])
             /\ sub[x].phase = "free" <=> sub'[x].phase = "free"
  <2>1. sub'[x] = Woken(sub[x])
    BY <1>1, Zenon
  <2>2. sub[x] \in Clients
    BY Zenon DEF HubInv, HubShape
  <2> QED
    BY <2>1, <2>2, WokenIs, Zenon
<1>3. HubShape'
  <2>1. sub' \in [Subscribers -> Clients]
    BY <1>1, <1>2, Zenon
  <2>2. nextSequence' \in Nat /\ latest' \in [Ephemeral -> Nat]
    BY <1>1 DEF HubInv, HubShape
  <2> QED
    BY <1>1, <2>1, <2>2 DEF HubInv, HubShape
<1>4. Ordered(events', nextSequence', snapshot')
  BY <1>1, OrderedLater, Zenon DEF HubInv, HubShape
<1>5. ASSUME NEW x \in Subscribers, sub[x].phase # "free"
      PROVE  Fits(sub'[x], Kept(events'), First(events'), nextSequence', snapshot', main')
  <2>1. /\ nextSequence \in Nat /\ snapshot \in Nat
        /\ RingOK(Kept(events), nextSequence, snapshot) /\ First(events) \in Nat
        /\ Fits(sub[x], Kept(events), First(events), nextSequence, snapshot, main)
    BY <1>5, ClientFacts, Zenon
  <2>2. nextSequence + 1 \in {nextSequence, nextSequence + 1}
    BY Zenon
  <2>3. Fits(sub'[x], Kept(events), First(events), nextSequence + 1, snapshot, main)
    BY <1>2, <2>1, <2>2, FitsSame, Zenon
  <2> QED
    BY <1>1, <2>3, Zenon
<1>6. \A x \in Subscribers : sub[x].kinds = sub'[x].kinds /\ sub'[x].seen = sub[x].seen
  BY <1>2, Zenon DEF SameClient
<1> QED
  BY <1>1, <1>2, <1>3, <1>4, <1>5, <1>6, AllClients, Zenon

LEMMA PublishRingStep ==
    ASSUME HubInv, HasRing, NEW k \in {"runtime", "other"}, PublishRing(k),
           main' = "ready", main = "ready" \/ k = "runtime"
    PROVE  HubInv' /\ NeverBackInTime
<1> DEFINE r == Record(k)
           next == nextSequence
           v(t) == [Woken(t) EXCEPT !.due = Woken(t).due \cup {next}]
<1>0. /\ events \in Seq(Events) /\ nextSequence \in Nat /\ snapshot \in Nat
      /\ Ordered(events, nextSequence, snapshot) /\ sub \in [Subscribers -> Clients]
  BY Zenon DEF HubInv, HubShape
<1>1. /\ nextSequence' = nextSequence + 1 /\ snapshot' = snapshot /\ latest' = latest
      /\ events' = Append(IF Len(events) = Capacity THEN Tail(events) ELSE events, r)
      /\ UNCHANGED <<count, traffic>>
      /\ sub' = [s \in Subscribers |->
                   IF Accepts(s, k)
                   THEN [Woken(sub[s]) EXCEPT !.due = @ \cup {nextSequence}]
                   ELSE Woken(sub[s])]
  BY DEF PublishRing, Sequenced, Pushed
<1>2. r \in Events /\ r.sequence = nextSequence /\ r.state = snapshot /\ r.kind = k
  BY <1>0 DEF Record, Events
<1> HIDE DEF r
<1>3. PICK j : Shifted(events, j, r, events')
  BY <1>0, <1>1, <1>2, PushedIs, Zenon
<1>4. /\ events' \in Seq(Events) /\ Ordered(events', nextSequence + 1, snapshot)
      /\ Grown(Kept(events), First(events), r, Kept(events'), First(events'))
  BY <1>0, <1>2, <1>3, PushedRing, Zenon
<1>5. ASSUME NEW x \in Subscribers
      PROVE  /\ sub'[x] \in Clients /\ sub'[x].phase # "waiting"
             /\ sub[x].phase = "free" <=> sub'[x].phase = "free"
             /\ sub[x].kinds = sub'[x].kinds /\ sub'[x].seen = sub[x].seen
             /\ sub'[x].cursor = sub[x].cursor /\ Shown(sub'[x]) = Shown(sub[x])
             /\ sub[x].phase # "free" =>
                   sub'[x].due = IF Wants(sub[x].kinds, k) THEN sub[x].due \cup {nextSequence}
                                                             ELSE sub[x].due
  <2> DEFINE w == Woken(sub[x])
             u == [w EXCEPT !.due = w.due \cup {nextSequence}]
  <2>1. /\ w \in Clients /\ w.phase # "waiting" /\ SameClient(sub[x], w)
        /\ sub[x].phase = "free" <=> w.phase = "free"
    BY <1>0, WokenIs, Zenon
  <2>2. sub'[x] = IF Accepts(x, k) THEN u ELSE w
    BY <1>1
  <2> HIDE DEF w
  <2>3. CASE Accepts(x, k)
    <3>1. /\ u \in Clients /\ u.phase = w.phase /\ u.kinds = w.kinds /\ u.seen = w.seen
          /\ u.cursor = w.cursor /\ u.initial = w.initial /\ u.due = w.due \cup {nextSequence}
      <4>1. w.due \in SUBSET Nat
        BY <2>1 DEF Clients
      <4>2. w.due \cup {nextSequence} \in SUBSET Nat
        BY <1>0, <4>1
      <4> QED
        BY <2>1, <4>2 DEF Clients
    <3>2. sub'[x] = u /\ Wants(sub[x].kinds, k)
      BY <2>2, <2>3, Zenon DEF Accepts
    <3> HIDE DEF u
    <3>3. Shown(u) = Shown(w)
      BY <3>1, Zenon DEF Shown
    <3> QED
      BY <2>1, <3>1, <3>2, <3>3, Zenon DEF SameClient
  <2>4. CASE ~Accepts(x, k)
    <3>1. sub'[x] = w /\ (sub[x].phase # "free" => ~Wants(sub[x].kinds, k))
      BY <2>2, <2>4, Zenon DEF Accepts, Open
    <3> QED
      BY <2>1, <3>1, Zenon DEF SameClient
  <2> QED
    BY <2>3, <2>4
<1>6. HubShape'
  <2>1. sub' \in [Subscribers -> Clients]
    BY <1>1, <1>5, Zenon
  <2>2. nextSequence' \in Nat /\ main' \in {"ready", "replaced"}
    BY <1>0, <1>1
  <2>3. latest' \in [Ephemeral -> Nat] /\ snapshot' \in Nat
    BY <1>0, <1>1, Zenon DEF HubInv, HubShape
  <2> QED
    BY <1>4, <2>1, <2>2, <2>3, Zenon DEF HubShape
<1>7. Ordered(events', nextSequence', snapshot')
  BY <1>1, <1>4, Zenon
<1>8. ASSUME NEW x \in Subscribers, sub[x].phase # "free"
      PROVE  Fits(sub'[x], Kept(events'), First(events'), nextSequence', snapshot', main')
  <2>1. /\ sub[x] \in Clients
        /\ RingOK(Kept(events), nextSequence, snapshot) /\ First(events) \in Nat
        /\ Fits(sub[x], Kept(events), First(events), nextSequence, snapshot, main)
    BY <1>8, ClientFacts, Zenon
  <2>2. First(events') \in Nat
    BY <1>0, <1>1, <1>4, <1>6, RingIsOK, Zenon DEF HubShape
  <2>3. Noted(sub[x], r, sub'[x])
    BY <1>2, <1>5, <1>8, Zenon DEF Noted
  <2>4. main = "ready" \/ r.kind = "runtime"
    BY <1>2
  <2>5. Fits(sub'[x], Kept(events'), First(events'), nextSequence + 1, snapshot, "ready")
    BY <1>0, <1>2, <1>4, <2>1, <2>2, <2>3, <2>4, FitsPublished, ZenonT(60)
  <2> QED
    BY <1>1, <2>5, Zenon
<1> QED
  BY <1>1, <1>5, <1>6, <1>7, <1>8, AllClients, Zenon

-----------------------------------------------------------------------------
LEMMA HubStarts ==
    ASSUME Init
    PROVE  HubInv
<1>1. /\ nextSequence = 1 /\ snapshot = 0 /\ events = <<>> /\ main = "ready"
      /\ latest = [k \in Ephemeral |-> 0] /\ count = 0 /\ traffic = 0
      /\ sub = [s \in Subscribers |-> Closed]
  BY DEF Init
<1>2. \A x \in Subscribers : sub[x].phase = "free"
  BY <1>1, ClosedIsClient, Zenon
<1>3. sub \in [Subscribers -> Clients]
  BY <1>1, ClosedIsClient, Zenon
<1>4. HubShape
  BY <1>1, <1>3 DEF HubShape
<1>5. Ordered(events, nextSequence, snapshot)
  BY <1>1 DEF Ordered
<1>6. ClientsInv
  BY <1>2, Zenon DEF ClientsInv
<1>7. SlotsAreCounted
  <2>1. Live(sub) = {} /\ Listening(sub) = {}
    BY <1>2, Zenon DEF Live, Listening
  <2>2. Slots(sub, count, traffic)
    BY <1>1, <2>1, FS_EmptySet, Zenon DEF Slots
  <2> QED
    BY <2>2, SlotsAre, Zenon
<1> QED
  BY <1>4, <1>5, <1>6, <1>7, Zenon DEF HubInv

LEMMA HubStep ==
    ASSUME HasRing, HubInv, Next
    PROVE  HubInv' /\ NeverBackInTime
<1>0. IsFiniteSet(Subscribers)
  BY Zenon DEF HasRing
<1>1. CASE ReplaceSnapshot
  BY <1>1, ReplaceStep, Zenon
<1>2. CASE PublishRuntime
  <2>1. PublishRing("runtime") /\ main' = "ready"
    BY <1>2, Zenon DEF PublishRuntime
  <2> QED
    BY <2>1, PublishRingStep, Zenon
<1>3. CASE PublishOther
  <2>1. PublishRing("other") /\ main = "ready" /\ main' = "ready"
    BY <1>3, Zenon DEF PublishOther
  <2> QED
    BY <2>1, PublishRingStep, Zenon
<1>4. ASSUME NEW k \in Ephemeral, PublishEphemeral(k)
      PROVE  HubInv' /\ NeverBackInTime
  BY <1>4, PublishEphemeralStep, Zenon
<1>5. ASSUME NEW s \in Subscribers, NEW filter \in Filters, Subscribe(s, filter)
      PROVE  HubInv' /\ NeverBackInTime
  BY <1>0, <1>5, SubscribeStep, Zenon
<1>6. ASSUME NEW s \in Subscribers, NextFrame(s)
      PROVE  HubInv' /\ NeverBackInTime
  BY <1>0, <1>6, SnapshotStep, ResyncStep, RingStep, EphemeralStep, WaitStep, Zenon
     DEF NextFrame
<1>7. ASSUME NEW s \in Subscribers, Disconnect(s)
      PROVE  HubInv' /\ NeverBackInTime
  BY <1>7, DisconnectStep, Zenon
<1> QED
  BY <1>1, <1>2, <1>3, <1>4, <1>5, <1>6, <1>7, Zenon DEF Next

LEMMA HubStutters ==
    ASSUME HubInv, UNCHANGED hubVars
    PROVE  HubInv' /\ NeverBackInTime
<1>1. /\ nextSequence' = nextSequence /\ snapshot' = snapshot /\ events' = events
      /\ latest' = latest /\ main' = main /\ sub' = sub /\ UNCHANGED <<count, traffic>>
  BY DEF hubVars, hub
<1>2. HubShape'
  BY <1>1, Zenon DEF HubInv, HubShape
<1>3. Ordered(events', nextSequence', snapshot')
  BY <1>1, Zenon DEF HubInv
<1>4. \A x \in Subscribers : sub[x].phase # "free" =>
         Fits(sub'[x], Kept(events'), First(events'), nextSequence', snapshot', main')
  BY <1>1, Zenon DEF HubInv, ClientsInv
<1> QED
  BY <1>1, <1>2, <1>3, <1>4, AllClients, Zenon

LEMMA HubInvariant ==
    ASSUME HasRing
    PROVE  Spec => []HubInv
<1>1. Init => HubInv
  BY HubStarts
<1>2. HubInv /\ [Next]_hubVars => HubInv'
  BY HubStep, HubStutters
<1> QED
  BY <1>1, <1>2, PTL DEF Spec

(***************************************************************************)
(* Whatever the capacity of the ring, the number of clients, their filters *)
(* and the interleaving of their threads with publish and                  *)
(* publish_snapshot: an event a client asked for and was not sent is still *)
(* ahead of it in the ring or the client is about to be told to resync, a  *)
(* client that waits has been shown the current runtime state, and the     *)
(* counters of subscribers are those of the live threads (events.rs).      *)
(***************************************************************************)
THEOREM HubLosesNothing ==
    ASSUME HasRing
    PROVE  Spec => [](NoSilentLoss /\ WaitingIsUpToDate /\ SlotsAreCounted)
<1>1. HubInv => NoSilentLoss
  <2> SUFFICES ASSUME HubInv, NEW s \in Subscribers, Open(s), ~Behind(s)
               PROVE  sub[s].due \subseteq {e.sequence : e \in PendingRing(s)}
    BY Zenon DEF NoSilentLoss
  <2>1. sub[s].phase # "free"
    BY Zenon DEF Open
  <2>2. /\ sub[s] \in Clients /\ First(events) \in Nat
        /\ Fits(sub[s], Kept(events), First(events), nextSequence, snapshot, main)
        /\ ~(sub[s].cursor < First(events))
        /\ PendingRing(s) = Ahead(sub[s], Kept(events))
    BY <2>1, ClientFacts, Zenon
  <2>3. DueIsKept(sub[s], Kept(events), First(events), nextSequence)
    BY <2>2, Zenon DEF Fits
  <2>4. \A d \in sub[s].due : \E g \in Ahead(sub[s], Kept(events)) : g.sequence = d
    BY <2>2, <2>3, DueIsAhead
  <2> QED
    BY <2>2, <2>4, Zenon
<1>2. HubInv => WaitingIsUpToDate
  <2> SUFFICES ASSUME HubInv, NEW s \in Subscribers, sub[s].phase = "waiting",
                      main = "ready", Accepts(s, "runtime")
               PROVE  sub[s].seen = snapshot
    BY Zenon DEF WaitingIsUpToDate
  <2>1. Wants(sub[s].kinds, "runtime") /\ sub[s].phase # "free"
    BY Zenon DEF Accepts, Open
  <2>2. /\ sub[s] \in Clients /\ First(events) \in Nat /\ nextSequence \in Nat
        /\ snapshot \in Nat /\ RingOK(Kept(events), nextSequence, snapshot)
        /\ Fits(sub[s], Kept(events), First(events), nextSequence, snapshot, main)
    BY <2>1, ClientFacts, Zenon
  <2>3. /\ sub[s].cursor = nextSequence /\ Shown(sub[s]) = sub[s].seen
        /\ LatestIsShown(sub[s], Kept(events), First(events), snapshot)
        /\ DueIsKept(sub[s], Kept(events), First(events), nextSequence)
    BY <2>2 DEF Fits, Shown
  <2>4. ~(sub[s].cursor < First(events))
    <3>1. CASE events = <<>>
      BY <2>2, <2>3, <3>1 DEF First
    <3>2. CASE events # <<>>
      <4>1. 1 \in DOMAIN events
        BY <3>2 DEF HubInv, HubShape
      <4>2. events[1] \in Kept(events) /\ First(events) = events[1].sequence
        BY <3>2, <4>1, Zenon DEF Kept, First
      <4> QED
        BY <2>2, <2>3, <4>2 DEF RingOK, Events
    <3> QED
      BY <3>1, <3>2
  <2>5. sub[s].due = {}
    <3> SUFFICES ASSUME NEW d \in sub[s].due PROVE FALSE
      BY Zenon
    <3>1. sub[s].cursor =< d /\ d < nextSequence
      BY <2>3, Zenon DEF DueIsKept
    <3>2. d \in Nat
      BY <2>2 DEF Clients
    <3> QED
      BY <2>2, <2>3, <3>1, <3>2
  <2> QED
    BY <2>1, <2>3, <2>4, <2>5, Zenon DEF LatestIsShown
<1>3. HubInv => SlotsAreCounted
  BY Zenon DEF HubInv
<1> QED
  BY <1>1, <1>2, <1>3, HubInvariant, PTL

(***************************************************************************)
(* No client ever sees the runtime go back in time: neither the snapshot   *)
(* it starts from, nor the one after a resync, is followed by an event     *)
(* older than it (subscribe, next_frame and publish_snapshot's order).     *)
(***************************************************************************)
THEOREM HubNeverGoesBack ==
    ASSUME HasRing
    PROVE  Spec => [][NeverBackInTime]_hubVars
<1>1. HubInv /\ [Next]_hubVars => [NeverBackInTime]_hubVars
  BY HubStep
<1> QED
  BY <1>1, HubInvariant, PTL DEF Spec
=============================================================================
