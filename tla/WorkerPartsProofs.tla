------------------------- MODULE WorkerPartsProofs -------------------------
(***************************************************************************)
(* Proofs about the parts of the worker: the payloads of the WebUI         *)
(* (WebuiPayload), for every number of uploads and of chunks; and what it  *)
(* does to the device, that is NetworkExecutor, for every number of steps, *)
(* every choice of restore transactions and every number of faults, and    *)
(* CoreProcess, for every number of generations and of failures.           *)
(***************************************************************************)
EXTENDS NetworkExecutor, Sequences, TLAPS

-----------------------------------------------------------------------------
(***************************************************************************)
(* The payloads of the WebUI, whatever their number and size.              *)
(***************************************************************************)
CONSTANTS Uploads, Chunks, MaxFailures

VARIABLES client, queue, held, reading, handed, failures

W == INSTANCE WebuiPayload WITH caller <- client, store <- held

Requested == {"create", "append", "commit", "remove"}
Requests == [upload : Uploads, heard : BOOLEAN, step : Requested, chunk : Nat]
Payloads == [name : {"none", "payload", "consume"}, data : Seq(Nat), old : BOOLEAN]

In(q, s) == \E k \in DOMAIN s : s[k] = q

\* An upload has one removal in the socket and one other request, at the most.
Alike(q, r) == q.upload = r.upload /\ (q.step = "remove" <=> r.step = "remove")

OneOfAKind(s) == \A i, j \in DOMAIN s : Alike(s[i], s[j]) => i = j

\* The first n chunks.
Upto(n) == [k \in 1..n |-> k]

PayloadShape ==
    /\ queue \in Seq(Requests) /\ OneOfAKind(queue)
    /\ client \in [Uploads -> [step : Requested \cup {"idle", "done"}, chunk : Nat]]
    /\ held \in [Uploads -> Payloads]
    /\ handed = [u \in Uploads |-> handed[u]]

\* What is known of a caller that has not begun to give up.
Callers ==
    \A u \in Uploads :
      /\ client[u].step \in {"idle", "create", "append", "commit"} => handed[u] = <<>>
      /\ handed[u] \in {<<>>, <<W!Text>>}

\* What is known of a request in the socket, heard or not.
Awaited(q) ==
    /\ client[q.upload].step # "idle"
    /\ q.heard => client[q.upload] = W!At(q.step, q.chunk)
    /\ ~q.heard \/ q.step = "remove" => client[q.upload].step \in {"remove", "done"}

Fitting(q) ==
    /\ q.step # "remove" => handed[q.upload] = <<>>
    /\ q.step = "append" => q.chunk \in 1..Chunks
    /\ q.step = "append" /\ held[q.upload].name = "payload"
         => held[q.upload].data = Upto(q.chunk - 1)
    /\ q.step = "commit" /\ held[q.upload].name # "none"
         => held[q.upload].data = W!Text

AllFit == \A q \in Requests : In(q, queue) => Awaited(q) /\ Fitting(q)

ReadingInv ==
    reading # W!NoUpload =>
        /\ reading \in Uploads /\ held[reading].name = "consume"
        /\ queue # <<>> /\ W!First.upload = reading /\ W!First.step = "commit"

PayloadInv == PayloadShape /\ Callers /\ AllFit /\ ReadingInv

\* An upload has a text, and a name that is not the name of none.
Nonempty == Chunks \in Nat \ {0} /\ W!NoUpload \notin Uploads

LEMMA ChunksFollow ==
    /\ \A n \in Nat : Append(Upto(n), n + 1) = Upto(n + 1)
    /\ Upto(0) = <<>>
    /\ W!Text = Upto(Chunks)
<1>1. ASSUME NEW n \in Nat PROVE Append(Upto(n), n + 1) = Upto(n + 1)
  <2>1. Upto(n) \in Seq(Nat) /\ Len(Upto(n)) = n
    BY DEF Upto
  <2>2. Append(Upto(n), n + 1) \in Seq(Nat) /\ Len(Append(Upto(n), n + 1)) = n + 1
    BY <2>1
  <2>3. Upto(n + 1) \in Seq(Nat) /\ Len(Upto(n + 1)) = n + 1
    BY DEF Upto
  <2>4. \A k \in 1..(n + 1) : Append(Upto(n), n + 1)[k] = Upto(n + 1)[k]
    BY <2>1 DEF Upto
  <2> QED
    BY <2>2, <2>3, <2>4
<1>2. Upto(0) = <<>>
  BY DEF Upto
<1> QED
  BY <1>1, <1>2, Zenon DEF Upto, W!Text

\* The socket without its first request, with another one, and after a timeout.
LEMMA TailIs ==
    ASSUME NEW s \in Seq(Requests), s # <<>>, OneOfAKind(s)
    PROVE  /\ Tail(s) \in Seq(Requests) /\ OneOfAKind(Tail(s))
           /\ \A q \in Requests : In(q, Tail(s)) => In(q, s) /\ ~Alike(q, s[1])
<1>1. Len(s) \in Nat /\ Len(s) > 0 /\ DOMAIN s = 1..Len(s)
  OBVIOUS
<1>2. /\ Tail(s) \in Seq(Requests) /\ DOMAIN Tail(s) = 1..(Len(s) - 1)
      /\ \A k \in DOMAIN Tail(s) : Tail(s)[k] = s[k + 1] /\ k + 1 \in DOMAIN s /\ k + 1 # 1
  BY <1>1
<1>3. OneOfAKind(Tail(s))
  <2> SUFFICES ASSUME NEW i \in DOMAIN Tail(s), NEW j \in DOMAIN Tail(s),
                      Alike(Tail(s)[i], Tail(s)[j])
               PROVE  i = j
    BY DEF OneOfAKind
  <2>1. Alike(s[i + 1], s[j + 1]) /\ i + 1 \in DOMAIN s /\ j + 1 \in DOMAIN s
    BY <1>2
  <2>2. i + 1 = j + 1
    BY <2>1 DEF OneOfAKind
  <2> QED
    BY <1>2, <1>1, <2>2
<1>4. ASSUME NEW q \in Requests, In(q, Tail(s)) PROVE In(q, s) /\ ~Alike(q, s[1])
  <2>1. PICK k \in DOMAIN Tail(s) : Tail(s)[k] = q
    BY <1>4 DEF In
  <2>2. s[k + 1] = q /\ k + 1 \in DOMAIN s /\ k + 1 # 1 /\ 1 \in DOMAIN s
    BY <1>1, <1>2, <2>1
  <2> QED
    BY <2>2 DEF In, OneOfAKind
<1> QED
  BY <1>2, <1>3, <1>4, Zenon

LEMMA AppendIs ==
    ASSUME NEW s \in Seq(Requests), OneOfAKind(s), NEW new \in Requests,
           \A q \in Requests : In(q, s) => ~Alike(q, new)
    PROVE  /\ Append(s, new) \in Seq(Requests) /\ OneOfAKind(Append(s, new))
           /\ \A q \in Requests : In(q, Append(s, new)) => In(q, s) \/ q = new
           /\ s # <<>> => Append(s, new)[1] = s[1]
           /\ Append(s, new) # <<>>
<1> DEFINE t == Append(s, new)
<1>1. /\ t \in Seq(Requests) /\ Len(s) \in Nat /\ DOMAIN s = 1..Len(s)
      /\ DOMAIN t = 1..(Len(s) + 1) /\ t[Len(s) + 1] = new
      /\ \A k \in DOMAIN s : t[k] = s[k] /\ s[k] \in Requests
  OBVIOUS
<1> HIDE DEF t
<1>2. \A k \in DOMAIN t : k \in DOMAIN s \/ k = Len(s) + 1
  BY <1>1
<1>3. \A k \in DOMAIN s : ~Alike(s[k], new) /\ ~Alike(new, s[k])
  BY <1>1, Zenon DEF In, Alike
<1>4. OneOfAKind(t)
  BY <1>1, <1>2, <1>3, Zenon DEF OneOfAKind
<1>5. \A q \in Requests : In(q, t) => In(q, s) \/ q = new
  BY <1>1, <1>2 DEF In
<1>6. s # <<>> => 1 \in DOMAIN s
  BY <1>1
<1>7. t # <<>> /\ (s # <<>> => t[1] = s[1])
  BY <1>1, <1>6
<1> QED
  BY <1>1, <1>4, <1>5, <1>7 DEF t

LEMMA UnheardIs ==
    ASSUME NEW s \in Seq(Requests), OneOfAKind(s), NEW k \in DOMAIN s
    PROVE  LET t == [s EXCEPT ![k].heard = FALSE]
               r == [s[k] EXCEPT !.heard = FALSE]
           IN  /\ t \in Seq(Requests) /\ OneOfAKind(t) /\ r \in Requests
               /\ \A q \in Requests : In(q, t) => (In(q, s) /\ ~Alike(q, s[k])) \/ q = r
               /\ t # <<>> /\ t[1].upload = s[1].upload /\ t[1].step = s[1].step
<1> DEFINE t == [s EXCEPT ![k].heard = FALSE]
           r == [s[k] EXCEPT !.heard = FALSE]
<1>1. s[k] \in Requests /\ DOMAIN s = 1..Len(s) /\ Len(s) \in Nat /\ Len(s) > 0
  OBVIOUS
<1>2. r \in Requests /\ r.upload = s[k].upload /\ r.step = s[k].step
  BY <1>1, Zenon DEF Requests
<1>3. /\ DOMAIN t = DOMAIN s /\ t \in Seq(Requests) /\ t[k] = r
      /\ \A i \in DOMAIN s : i # k => t[i] = s[i]
  BY <1>1, <1>2
<1> HIDE DEF t, r
<1>4. \A i \in DOMAIN s : t[i].upload = s[i].upload /\ t[i].step = s[i].step
  BY <1>2, <1>3
<1>5. OneOfAKind(t)
  BY <1>3, <1>4 DEF OneOfAKind, Alike
<1>6. \A q \in Requests : In(q, t) => (In(q, s) /\ ~Alike(q, s[k])) \/ q = r
  BY <1>3 DEF In, OneOfAKind
<1>7. t # <<>> /\ 1 \in DOMAIN s
  BY <1>1, <1>3
<1> QED
  BY <1>2, <1>3, <1>4, <1>5, <1>6, <1>7, Zenon DEF t, r

\* A caller's next request, behind the ones that wait.
LEMMA CallIs ==
    ASSUME client \in [Uploads -> [step : Requested \cup {"idle", "done"}, chunk : Nat]],
           NEW u \in Uploads, NEW to \in [step : Requested \cup {"done"}, chunk : Nat],
           to # W!Done => to.step \in Requested,
           NEW rest \in Seq(Requests), OneOfAKind(rest),
           to # W!Done => \A q \in Requests : In(q, rest) => ~Alike(q, W!Request(u, to)),
           W!Calls(u, to, rest)
    PROVE  /\ queue' \in Seq(Requests) /\ OneOfAKind(queue')
           /\ client' = [client EXCEPT ![u] = to]
           /\ client' \in [Uploads -> [step : Requested \cup {"idle", "done"}, chunk : Nat]]
           /\ \A q \in Requests :
                 In(q, queue') => In(q, rest) \/ (to # W!Done /\ q = W!Request(u, to))
           /\ rest # <<>> => queue' # <<>> /\ queue'[1] = rest[1]
<1>1. client' = [client EXCEPT ![u] = to]
  BY DEF W!Calls
<1>2. CASE to = W!Done
  BY <1>1, <1>2 DEF W!Calls
<1>3. CASE to # W!Done
  <2>1. W!Request(u, to) \in Requests
    BY <1>3, Zenon DEF W!Request, Requests
  <2>2. queue' = Append(rest, W!Request(u, to))
    BY <1>3, Zenon DEF W!Calls
  <2> QED
    BY <1>1, <1>3, <2>1, <2>2, AppendIs, Zenon
<1> QED
  BY <1>2, <1>3, Zenon

\* What a caller does next, after an answer and after none.
LEMMA NextSteps ==
    ASSUME Nonempty, NEW to \in [step : Requested, chunk : Nat]
    PROVE  /\ W!Done = W!At("done", 0)
           /\ W!Succeeds(to) \in [step : Requested \cup {"done"}, chunk : Nat]
           /\ W!Fails(to) \in [step : Requested \cup {"done"}, chunk : Nat]
           /\ \A next \in {W!Succeeds(to), W!Fails(to)} :
                 /\ next # W!Done => next.step \in Requested /\ to.step # "remove"
                 /\ next.step = "remove" => next = W!At("remove", 0)
                 /\ next.step = "remove"
                     <=> (next = W!Fails(to) /\ to.step \in {"append", "commit"})
                 /\ to.step = "remove" => next = W!Done
                 /\ next.step # "create"
           /\ W!Succeeds(to).step = "append" /\ to.step = "create"
                => W!Succeeds(to).chunk = 1
           /\ W!Succeeds(to).step = "append" /\ to.step # "create"
                => to.step = "append" /\ to.chunk < Chunks
                   /\ W!Succeeds(to).chunk = to.chunk + 1
           /\ W!Succeeds(to).step = "commit"
                => to.step = "append" /\ ~(to.chunk < Chunks)
           /\ W!Fails(to).step \in {"remove", "done"}
  BY DEF Nonempty, Requested, W!Done, W!At, W!Succeeds, W!Fails

\* Where a caller is once the first request has its answer.
After(ok) ==
    LET u == W!First.upload
    IN IF ~W!First.heard THEN client[u]
       ELSE IF ok THEN W!Succeeds(client[u]) ELSE W!Fails(client[u])

LEMMA FirstIs ==
    ASSUME PayloadInv, queue # <<>>
    PROVE  /\ W!First \in Requests /\ W!First = queue[1] /\ In(W!First, queue)
           /\ W!First.upload \in Uploads
           /\ Awaited(W!First) /\ Fitting(W!First)
           /\ W!First.heard => client[W!First.upload] \in [step : Requested, chunk : Nat]
<1>1. queue \in Seq(Requests) /\ 1 \in DOMAIN queue /\ W!First = queue[1]
  BY DEF PayloadInv, PayloadShape, W!First
<1>2. W!First \in Requests /\ In(W!First, queue)
  BY <1>1 DEF In
<1>3. Awaited(W!First) /\ Fitting(W!First)
  BY <1>2, Zenon DEF PayloadInv, AllFit
<1> QED
  BY <1>1, <1>2, <1>3 DEF Awaited, W!At, Requests

LEMMA AnswersIs ==
    ASSUME Nonempty, PayloadInv, queue # <<>>, NEW ok \in BOOLEAN, W!Answers(ok)
    PROVE  /\ queue' \in Seq(Requests) /\ OneOfAKind(queue')
           /\ client' = [client EXCEPT ![W!First.upload] = After(ok)]
           /\ client' \in [Uploads -> [step : Requested \cup {"idle", "done"}, chunk : Nat]]
           /\ \A q \in Requests : In(q, queue') =>
                 \/ In(q, queue) /\ ~Alike(q, W!First)
                 \/ /\ W!First.heard /\ After(ok) # W!Done
                    /\ q = W!Request(W!First.upload, After(ok))
<1> DEFINE u == W!First.upload
           to == After(ok)
<1>1. /\ queue \in Seq(Requests) /\ OneOfAKind(queue)
      /\ client \in [Uploads -> [step : Requested \cup {"idle", "done"}, chunk : Nat]]
  BY DEF PayloadInv, PayloadShape
<1>2. /\ Tail(queue) \in Seq(Requests) /\ OneOfAKind(Tail(queue))
      /\ \A q \in Requests : In(q, Tail(queue)) => In(q, queue) /\ ~Alike(q, W!First)
  BY <1>1, TailIs, FirstIs
<1>3. u \in Uploads
  BY FirstIs, Zenon
<1>4. CASE ~W!First.heard
  <2>1. queue' = Tail(queue) /\ client' = client /\ to = client[u]
    BY <1>4, Zenon DEF W!Answers, After
  <2> QED
    BY <1>1, <1>2, <1>3, <2>1, Zenon
<1>5. CASE W!First.heard
  <2>1. to \in {W!Succeeds(client[u]), W!Fails(client[u])}
    BY <1>5, Zenon DEF After
  <2>2. client[u] \in [step : Requested, chunk : Nat] /\ client[u].step = W!First.step
    BY <1>5, FirstIs DEF Awaited, W!At
  <2>3. to \in [step : Requested \cup {"done"}, chunk : Nat] /\ (to # W!Done => to.step \in Requested)
    BY <2>1, <2>2, NextSteps
  <2>4. ASSUME to # W!Done, NEW q \in Requests, In(q, Tail(queue))
        PROVE  ~Alike(q, W!Request(u, to))
    <3>1. In(q, queue) /\ ~Alike(q, W!First) /\ W!First.step # "remove"
      BY <1>2, <2>1, <2>2, <2>4, NextSteps
    <3>2. Awaited(q)
      BY <3>1, Zenon DEF PayloadInv, AllFit
    <3>3. q.upload = u => q.step = "remove"
      BY <3>1, Zenon DEF Alike
    <3>4. q.upload # u
      BY <2>2, <3>1, <3>2, <3>3, Zenon DEF Awaited, Requested
    <3> QED
      BY <3>4, Zenon DEF Alike, W!Request
  <2>5. W!Calls(u, to, Tail(queue))
    BY <1>5, Zenon DEF W!Answers, After
  <2> HIDE DEF to, u
  <2>6. /\ queue' \in Seq(Requests) /\ OneOfAKind(queue')
        /\ client' = [client EXCEPT ![u] = to]
        /\ client' \in [Uploads -> [step : Requested \cup {"idle", "done"}, chunk : Nat]]
        /\ \A q \in Requests :
              In(q, queue') => In(q, Tail(queue)) \/ (to # W!Done /\ q = W!Request(u, to))
    BY <1>1, <1>2, <1>3, <2>3, <2>4, <2>5, CallIs, Zenon
  <2> QED
    BY <1>2, <1>5, <2>6 DEF to, u
<1> QED
  BY <1>4, <1>5

\* A request that is served and answered: what the file holds then is what the
\* next request of its upload takes it to hold.
LEMMA ServedIs ==
    ASSUME Nonempty, PayloadInv, queue # <<>>, NEW ok \in BOOLEAN, W!Answers(ok),
           held' \in [Uploads -> Payloads],
           handed' = [v \in Uploads |-> handed'[v]],
           \A v \in Uploads : v # W!First.upload =>
               held'[v] = held[v] /\ handed'[v] = handed[v],
           W!First.step = "remove"
             => held'[W!First.upload] \in {held[W!First.upload], W!NoFile},
           \/ handed'[W!First.upload] = handed[W!First.upload]
           \/ W!First.step = "commit" /\ handed'[W!First.upload] = <<W!Text>>,
           ok /\ W!First.step = "create" => held'[W!First.upload].data = Upto(0),
           ok /\ W!First.step = "append"
             => held'[W!First.upload].data = Upto(W!First.chunk),
           reading' = W!NoUpload
    PROVE  PayloadInv'
<1> DEFINE u == W!First.upload
           to == After(ok)
<1>1. /\ queue' \in Seq(Requests) /\ OneOfAKind(queue')
      /\ client' = [client EXCEPT ![u] = to]
      /\ client' \in [Uploads -> [step : Requested \cup {"idle", "done"}, chunk : Nat]]
      /\ \A q \in Requests : In(q, queue') =>
            \/ In(q, queue) /\ ~Alike(q, W!First)
            \/ W!First.heard /\ to # W!Done /\ q = W!Request(u, to)
  BY AnswersIs, Zenon
<1>2. /\ client \in [Uploads -> [step : Requested \cup {"idle", "done"}, chunk : Nat]]
      /\ u \in Uploads /\ W!First \in Requests /\ Awaited(W!First) /\ Fitting(W!First)
  BY FirstIs, Zenon DEF PayloadInv, PayloadShape
<1>3. /\ client'[u] = to
      /\ \A v \in Uploads : v # u => client'[v] = client[v]
  BY <1>1, <1>2, Zenon
<1>4. W!First.heard =>
        /\ client[u] \in [step : Requested, chunk : Nat]
        /\ client[u].step = W!First.step /\ client[u].chunk = W!First.chunk
  BY <1>2, FirstIs DEF Awaited, W!At
<1>5. /\ ~W!First.heard => to = client[u] /\ to.step \in {"remove", "done"}
      /\ W!First.heard /\ ok => to = W!Succeeds(client[u])
      /\ W!First.heard /\ ~ok => to = W!Fails(client[u])
  BY <1>2, Zenon DEF After, Awaited
<1>6. W!First.step # "remove" => handed[u] = <<>>
  BY <1>2, Zenon DEF Fitting
<1> HIDE DEF u, to
<1>7. PayloadShape'
  BY <1>1, Zenon DEF PayloadShape
<1>8. Callers'
  <2> SUFFICES ASSUME NEW v \in Uploads
               PROVE  /\ client'[v].step \in {"idle", "create", "append", "commit"}
                           => handed'[v] = <<>>
                      /\ handed'[v] \in {<<>>, <<W!Text>>}
    BY Zenon DEF Callers, W!Text
  <2>1. /\ client[v].step \in {"idle", "create", "append", "commit"} => handed[v] = <<>>
        /\ handed[v] \in {<<>>, <<W!Text>>}
    BY DEF PayloadInv, Callers
  <2>2. CASE v # u
    BY <1>3, <2>1, <2>2 DEF u
  <2>3. CASE v = u /\ ~W!First.heard
    BY <1>3, <1>5, <2>1, <2>3, Zenon DEF u
  <2>4. CASE v = u /\ W!First.heard
    <3>1. to.step \in {"remove", "done"} \/ W!First.step \in {"create", "append"}
      BY <1>4, <1>5, <2>4, NextSteps DEF Requested, W!Done, W!At
    <3> QED
      BY <1>3, <1>6, <2>1, <2>4, <3>1, Zenon DEF u
  <2> QED
    BY <2>2, <2>3, <2>4, Zenon
<1>9. AllFit'
  <2> SUFFICES ASSUME NEW q \in Requests, In(q, queue') PROVE Awaited(q)' /\ Fitting(q)'
    BY Zenon DEF AllFit, In
  <2>1. q.upload \in Uploads /\ q.step \in Requested
    BY Zenon DEF Requests
  <2>2. CASE In(q, queue) /\ ~Alike(q, W!First) /\ q.upload # u
    <3>1. Awaited(q) /\ Fitting(q)
      BY <2>2, Zenon DEF PayloadInv, AllFit
    <3>2. /\ client'[q.upload] = client[q.upload] /\ held'[q.upload] = held[q.upload]
          /\ handed'[q.upload] = handed[q.upload]
      BY <1>3, <2>1, <2>2, Zenon DEF u
    <3> QED
      BY <3>1, <3>2, Zenon DEF Awaited, Fitting, Upto, W!Text, W!At
  <2>3. CASE In(q, queue) /\ ~Alike(q, W!First) /\ q.upload = u
    <3>1. Awaited(q) /\ Fitting(q)
      BY <2>3, Zenon DEF PayloadInv, AllFit
    <3>2. q.step = "remove" <=> W!First.step # "remove"
      BY <2>3, Zenon DEF Alike, u
    <3>3. client[u].step \in {"remove", "done"}
      BY <1>2, <2>3, <3>1, <3>2, Zenon DEF Awaited, u
    <3>4. CASE q.step = "remove"
      <4>1. ~W!First.heard
        BY <1>4, <3>2, <3>3, <3>4, <1>2, Zenon DEF Requests, Requested
      <4>2. client'[u] = client[u]
        BY <1>3, <1>5, <4>1, Zenon
      <4> QED
        BY <2>3, <3>1, <3>4, <4>2, Zenon DEF Awaited, Fitting, W!At
    <3>5. CASE q.step # "remove"
      <4>1. ~q.heard
        BY <2>3, <3>1, <3>3, <3>5, <2>1 DEF Awaited, W!At, Requested
      <4>2. W!First.step = "remove"
        BY <3>2, <3>5, Zenon
      <4>3. client'[u].step \in {"remove", "done"}
        BY <1>3, <1>4, <1>5, <4>2, NextSteps DEF W!At
      <4>4. held'[u] = held[u] \/ held'[u].name = "none"
        BY <4>2 DEF u, W!NoFile
      <4>5. handed'[u] = handed[u]
        BY <4>2, Zenon DEF u
      <4>6. Awaited(q)'
        BY <2>3, <4>1, <4>3, Zenon DEF Awaited
      <4> QED
        BY <2>3, <3>1, <4>4, <4>5, <4>6, Zenon DEF Fitting, Upto, W!Text
    <3> QED
      BY <3>4, <3>5, Zenon
  <2>4. CASE W!First.heard /\ to # W!Done /\ q = W!Request(u, to)
    <3>1. /\ q.upload = u /\ q.heard /\ q.step = to.step /\ q.chunk = to.chunk
          /\ to \in [step : Requested \cup {"done"}, chunk : Nat] /\ to.step # "idle"
      BY <1>4, <1>5, <2>4, NextSteps DEF W!Request, Requested
    <3>2. to = W!At(to.step, to.chunk)
      BY <3>1, Zenon DEF W!At
    <3>3. Awaited(q)'
      BY <1>3, <3>1, <3>2, Zenon DEF Awaited, W!At
    <3>4. CASE to.step = "remove"
      BY <3>1, <3>3, <3>4, Zenon DEF Fitting
    <3>5. CASE to.step # "remove"
      <4>1. W!First.step \in {"create", "append"} /\ ok
        BY <1>4, <1>5, <2>4, <3>1, <3>5, NextSteps DEF Requested, W!At
      <4>2. handed'[u] = <<>>
        BY <1>6, <4>1, Zenon DEF u
      <4>3. W!First.step = "append" => W!First.chunk \in 1..Chunks
        BY <1>2, Zenon DEF Fitting
      <4>4. to.step \in {"append", "commit"}
        BY <1>4, <1>5, <2>1, <2>4, <3>1, <3>5, NextSteps, Zenon DEF Requested
      <4>5. CASE to.step = "append"
        <5>1. to.chunk \in 1..Chunks /\ held'[u].data = Upto(to.chunk - 1)
          BY <1>4, <1>5, <2>4, <4>1, <4>3, <4>5, NextSteps DEF u, Nonempty
        <5> QED
          BY <3>1, <3>3, <4>2, <4>5, <5>1, Zenon DEF Fitting, Upto
      <4>6. CASE to.step = "commit"
        <5>1. W!First.step = "append" /\ W!First.chunk = Chunks
          BY <1>4, <1>5, <2>4, <4>1, <4>3, <4>6, NextSteps DEF Nonempty
        <5>2. held'[u].data = W!Text
          BY <4>1, <5>1, ChunksFollow, Zenon DEF u
        <5> QED
          BY <3>1, <3>3, <4>2, <4>6, <5>2, Zenon DEF Fitting, W!Text
      <4> QED
        BY <4>4, <4>5, <4>6, Zenon
    <3> QED
      BY <3>3, <3>4, <3>5, Zenon
  <2> QED
    BY <1>1, <2>2, <2>3, <2>4, Zenon
<1>10. ReadingInv'
  BY SMTT(30) DEF ReadingInv, W!NoUpload
<1> QED
  BY <1>7, <1>8, <1>9, <1>10 DEF PayloadInv

LEMMA PayloadWith ==
    ASSUME NEW file \in Payloads, NEW chunk \in Nat
    PROVE  /\ [file EXCEPT !.data = Append(@, chunk), !.old = FALSE] \in Payloads
           /\ [file EXCEPT !.data = Append(@, chunk), !.old = FALSE].data
                = Append(file.data, chunk)
<1>1. file.data \in Seq(Nat)
  BY DEF Payloads
<1>2. Append(file.data, chunk) \in Seq(Nat)
  BY <1>1
<1>3. \A data \in Seq(Nat) :
         /\ [file EXCEPT !.data = data, !.old = FALSE] \in Payloads
         /\ [file EXCEPT !.data = data, !.old = FALSE].data = data
  BY Zenon DEF Payloads
<1> QED
  BY <1>2, <1>3, Zenon

\* What the worker does with the first request.
LEMMA WorkerStep ==
    ASSUME Nonempty, PayloadInv, W!Worker
    PROVE  PayloadInv'
<1>0. /\ held \in [Uploads -> Payloads] /\ handed = [v \in Uploads |-> handed[v]]
      /\ W!NoFile \in Payloads /\ W!NoFile.name = "none" /\ W!NoFile.data = <<>>
  BY DEF PayloadInv, PayloadShape, W!NoFile, Payloads
<1>1. CASE W!Create
  <2>1. queue # <<>> /\ W!First.step = "create" /\ reading = W!NoUpload
        /\ UNCHANGED <<reading, handed>>
    BY <1>1 DEF W!Create, W!Serves
  <2>2. W!First.upload \in Uploads
    BY <2>1, FirstIs
  <2>3. CASE W!Keeps([W!NoFile EXCEPT !.name = "payload"]) /\ W!Answers(TRUE)
    <3>1. /\ held' = [held EXCEPT ![W!First.upload] = [W!NoFile EXCEPT !.name = "payload"]]
          /\ [W!NoFile EXCEPT !.name = "payload"] \in Payloads
          /\ [W!NoFile EXCEPT !.name = "payload"].data = Upto(0)
      BY <1>0, <2>3, ChunksFollow, Zenon DEF W!Keeps, Payloads
    <3>2. /\ held' \in [Uploads -> Payloads] /\ held'[W!First.upload].data = Upto(0)
          /\ \A v \in Uploads : v # W!First.upload => held'[v] = held[v]
      BY <1>0, <2>2, <3>1
    <3> QED
      BY <1>0, <2>1, <2>3, <3>2, ServedIs, Zenon
  <2>4. CASE W!Answers(FALSE) /\ UNCHANGED held
    BY <1>0, <2>1, <2>4, ServedIs, Zenon
  <2> QED
    BY <1>1, <2>3, <2>4, Zenon DEF W!Create
<1>2. CASE W!AppendChunk
  <2>1. queue # <<>> /\ W!First.step = "append" /\ reading = W!NoUpload
        /\ UNCHANGED <<reading, handed>>
    BY <1>2 DEF W!AppendChunk, W!Serves
  <2> DEFINE u == W!First.upload
             With(chunk) == [held[u] EXCEPT !.data = Append(@, chunk), !.old = FALSE]
  <2>2. /\ u \in Uploads /\ W!First.chunk \in 1..Chunks
        /\ held[u].name = "payload" => held[u].data = Upto(W!First.chunk - 1)
    BY <2>1, FirstIs, Zenon DEF Fitting
  <2>3. \A chunk \in Nat :
          With(chunk) \in Payloads /\ With(chunk).data = Append(held[u].data, chunk)
    <3>1. held[u] \in Payloads
      BY <1>0, <2>2, Zenon
    <3> QED
      BY <3>1, PayloadWith, Zenon
  <2>4. CASE /\ held[u].name = "payload"
             /\ W!Keeps(With(W!First.chunk)) /\ W!Answers(TRUE)
    <3>1. held' = [held EXCEPT ![u] = With(W!First.chunk)]
      BY <2>4 DEF W!Keeps
    <3>2. With(W!First.chunk).data = Upto(W!First.chunk)
      <4>1. /\ W!First.chunk \in Nat /\ W!First.chunk - 1 \in Nat
            /\ (W!First.chunk - 1) + 1 = W!First.chunk
        BY <2>2 DEF Nonempty
      <4>2. Append(Upto(W!First.chunk - 1), W!First.chunk) = Upto(W!First.chunk)
        BY <4>1, ChunksFollow, Zenon
      <4>3. With(W!First.chunk).data = Append(held[u].data, W!First.chunk)
        BY <2>3, <4>1, Zenon
      <4> QED
        BY <2>2, <2>4, <4>2, <4>3
    <3> HIDE DEF With
    <3>3. /\ held' \in [Uploads -> Payloads] /\ held'[u].data = Upto(W!First.chunk)
          /\ \A v \in Uploads : v # u => held'[v] = held[v]
      BY <1>0, <2>2, <2>3, <3>1, <3>2
    <3> QED
      BY <1>0, <2>1, <2>4, <3>3, ServedIs, Zenon
  <2>5. CASE W!Keeps(With(W!Torn)) /\ W!Answers(FALSE)
    <3>1. held' = [held EXCEPT ![u] = With(W!Torn)] /\ W!Torn \in Nat
      BY <2>5 DEF W!Keeps, W!Torn
    <3> HIDE DEF With
    <3>2. /\ held' \in [Uploads -> Payloads]
          /\ \A v \in Uploads : v # u => held'[v] = held[v]
      BY <1>0, <2>2, <2>3, <3>1
    <3> QED
      BY <1>0, <2>1, <2>5, <3>2, ServedIs, Zenon
  <2>6. CASE W!Answers(FALSE) /\ UNCHANGED held
    BY <1>0, <2>1, <2>6, ServedIs, Zenon
  <2> QED
    BY <1>2, <2>4, <2>5, <2>6, Zenon DEF W!AppendChunk
<1>3. CASE W!Remove
  <2>1. /\ queue # <<>> /\ W!First.step = "remove" /\ reading = W!NoUpload
        /\ UNCHANGED <<reading, handed>> /\ W!Answers(TRUE)
    BY <1>3, Zenon DEF W!Remove, W!Serves
  <2>2. W!First.upload \in Uploads
    BY <2>1, FirstIs
  <2>3. held' = held \/ held' = [held EXCEPT ![W!First.upload] = W!NoFile]
    BY <1>3 DEF W!Remove, W!Keeps
  <2>4. /\ held' \in [Uploads -> Payloads]
        /\ held'[W!First.upload] \in {held[W!First.upload], W!NoFile}
        /\ \A v \in Uploads : v # W!First.upload => held'[v] = held[v]
    BY <1>0, <2>2, <2>3
  <2> QED
    BY <1>0, <2>1, <2>4, ServedIs, Zenon
<1>4. CASE W!Commit
  <2>1. queue # <<>> /\ W!First.step = "commit" /\ reading = W!NoUpload /\ handed' = handed
    BY <1>4 DEF W!Commit, W!Serves
  <2>2. W!First.upload \in Uploads
    BY <2>1, FirstIs
  <2>3. CASE W!Answers(FALSE) /\ UNCHANGED <<held, reading>>
    BY <1>0, <2>1, <2>3, ServedIs, Zenon
  <2>4. CASE /\ W!Keeps([held[W!First.upload] EXCEPT !.name = "consume"])
             /\ held[W!First.upload].name = "payload"
             /\ reading' = W!First.upload /\ UNCHANGED <<client, queue>>
    <3> DEFINE u == W!First.upload
               renamed == [held[u] EXCEPT !.name = "consume"]
    <3>1. /\ held' = [held EXCEPT ![u] = renamed] /\ renamed \in Payloads
          /\ renamed.data = held[u].data /\ renamed.name = "consume"
      BY <1>0, <2>2, <2>4, Zenon DEF W!Keeps, Payloads
    <3> HIDE DEF renamed
    <3>2. /\ held' \in [Uploads -> Payloads] /\ held'[u].data = held[u].data
          /\ held'[u].name = "consume"
          /\ \A v \in Uploads : v # u => held'[v] = held[v]
      BY <1>0, <2>2, <3>1
    <3>3. PayloadShape' /\ Callers'
      BY <2>1, <2>4, <3>2 DEF PayloadInv, PayloadShape, Callers, OneOfAKind, W!Text
    <3>4. AllFit'
      <4> SUFFICES ASSUME NEW q \in Requests, In(q, queue) PROVE Awaited(q)' /\ Fitting(q)'
        BY <2>4 DEF AllFit, In
      <4>1. Awaited(q) /\ Fitting(q) /\ q.upload \in Uploads
        BY DEF PayloadInv, AllFit, Requests
      <4>2. Awaited(q)'
        BY <2>4, <4>1 DEF Awaited, W!At
      <4>3. held'[q.upload].data = held[q.upload].data
        BY <3>2, <4>1
      <4>4. held'[q.upload].name = held[q.upload].name
            \/ (held[q.upload].name = "payload" /\ held'[q.upload].name = "consume")
        BY <2>4, <3>2, <4>1
      <4> QED
        BY <2>1, <4>1, <4>2, <4>3, <4>4 DEF Fitting, Upto, W!Text
    <3>5. ReadingInv'
      BY <2>1, <2>2, <2>4, <3>2 DEF ReadingInv, W!First
    <3> QED
      BY <3>3, <3>4, <3>5 DEF PayloadInv
  <2> QED
    BY <1>4, <2>3, <2>4, Zenon DEF W!Commit
<1>5. CASE W!Consume
  <2>1. /\ reading \in Uploads /\ held[reading].name = "consume" /\ queue # <<>>
        /\ W!First.upload = reading /\ W!First.step = "commit"
    BY <1>5 DEF W!Consume, PayloadInv, ReadingInv
  <2>2. held[reading].data = W!Text /\ handed[reading] = <<>>
    BY <2>1, FirstIs DEF Fitting
  <2>3. PICK ok \in BOOLEAN : W!Answers(ok)
    BY <1>5 DEF W!Consume
  <2>4. /\ held' = [held EXCEPT ![reading] = W!NoFile]
        /\ handed' = [handed EXCEPT ![reading] = Append(handed[reading], held[reading].data)]
        /\ reading' = W!NoUpload
    BY <1>5, <2>1 DEF W!Consume, W!Keeps
  <2>5. handed' = [handed EXCEPT ![reading] = <<W!Text>>]
    BY <2>2, <2>4
  <2>6. /\ handed' = [v \in Uploads |-> handed'[v]] /\ handed'[reading] = <<W!Text>>
        /\ held' \in [Uploads -> Payloads]
        /\ \A v \in Uploads : v # reading => held'[v] = held[v] /\ handed'[v] = handed[v]
    BY <1>0, <2>1, <2>4, <2>5, Zenon
  <2> QED
    BY <2>1, <2>3, <2>4, <2>6, ServedIs, Zenon
<1> QED
  BY <1>1, <1>2, <1>3, <1>4, <1>5 DEF W!Worker

LEMMA BeginStep ==
    ASSUME Nonempty, PayloadInv, NEW u \in Uploads, W!Begin(u)
    PROVE  PayloadInv'
<1> DEFINE to == W!At("create", 0)
<1>0. /\ UNCHANGED <<held, reading, handed>> /\ W!Calls(u, to, queue)
      /\ client[u].step = "idle"
      /\ client \in [Uploads -> [step : Requested \cup {"idle", "done"}, chunk : Nat]]
      /\ queue \in Seq(Requests) /\ OneOfAKind(queue)
  BY DEF W!Begin, PayloadInv, PayloadShape, W!At
<1>1. /\ to \in [step : Requested \cup {"done"}, chunk : Nat] /\ to.step = "create"
      /\ to.chunk = 0 /\ to # W!Done
  BY DEF W!At, W!Done, Requested
<1> HIDE DEF to
<1>2. \A q \in Requests : In(q, queue) => q.upload # u
  BY <1>0 DEF PayloadInv, AllFit, Awaited
<1>3. \A q \in Requests : In(q, queue) => ~Alike(q, W!Request(u, to))
  BY <1>2 DEF Alike, W!Request
<1>4. to.step \in Requested
  BY <1>1, Zenon DEF Requested
<1>5. /\ queue' \in Seq(Requests) /\ OneOfAKind(queue')
      /\ client' = [client EXCEPT ![u] = to]
      /\ client' \in [Uploads -> [step : Requested \cup {"idle", "done"}, chunk : Nat]]
      /\ \A q \in Requests : In(q, queue') => In(q, queue) \/ q = W!Request(u, to)
      /\ queue # <<>> => queue' # <<>> /\ queue'[1] = queue[1]
  BY <1>0, <1>1, <1>3, <1>4, CallIs
<1>6. client'[u] = to /\ \A v \in Uploads : v # u => client'[v] = client[v]
  BY <1>0, <1>5, Zenon
<1>7. PayloadShape'
  BY <1>0, <1>5, Zenon DEF PayloadInv, PayloadShape
<1>8. handed[u] = <<>>
  BY <1>0, Zenon DEF PayloadInv, Callers
<1>9. Callers'
  BY SMTT(30), <1>0, <1>6, <1>8 DEF PayloadInv, Callers, W!Text
<1>10. AllFit'
  <2> SUFFICES ASSUME NEW q \in Requests, In(q, queue') PROVE Awaited(q)' /\ Fitting(q)'
    BY Zenon DEF AllFit, In
  <2>1. CASE In(q, queue)
    <3>1. Awaited(q) /\ Fitting(q) /\ q.upload \in Uploads /\ q.upload # u
      BY <1>2, <2>1, Zenon DEF PayloadInv, AllFit, Requests
    <3>2. client'[q.upload] = client[q.upload]
      BY <1>6, <3>1, Zenon
    <3> QED
      BY <1>0, <3>1, <3>2 DEF Awaited, Fitting, Upto, W!Text, W!At
  <2>2. CASE q = W!Request(u, to)
    <3>1. q.upload = u /\ q.heard /\ q.step = "create" /\ q.chunk = 0
      BY <1>1, <2>2 DEF W!Request
    <3>2. to = W!At("create", 0)
      BY DEF to
    <3> QED
      BY <1>0, <1>6, <1>8, <3>1, <3>2 DEF Awaited, Fitting, W!At
  <2> QED
    BY <1>5, <2>1, <2>2
<1>11. ReadingInv'
  BY <1>0, <1>5 DEF PayloadInv, ReadingInv, W!First, W!NoUpload
<1> QED
  BY <1>7, <1>9, <1>10, <1>11 DEF PayloadInv

\* A caller that no longer listens asks for the removal, and for nothing else.
LEMMA TimesOutStep ==
    ASSUME Nonempty, PayloadInv, NEW u \in Uploads, W!TimesOut(u)
    PROVE  PayloadInv'
<1>0. /\ UNCHANGED <<held, reading, handed>>
      /\ client \in [Uploads -> [step : Requested \cup {"idle", "done"}, chunk : Nat]]
      /\ queue \in Seq(Requests) /\ OneOfAKind(queue)
  BY DEF W!TimesOut, PayloadInv, PayloadShape
<1>1. PICK k \in DOMAIN queue :
         /\ queue[k].upload = u /\ queue[k].heard
         /\ W!Calls(u, W!Fails(client[u]), [queue EXCEPT ![k].heard = FALSE])
  BY Zenon DEF W!TimesOut
<1> DEFINE timed == queue[k]
           r == [queue[k] EXCEPT !.heard = FALSE]
           rest == [queue EXCEPT ![k].heard = FALSE]
           to == W!Fails(client[u])
<1>2. /\ timed \in Requests /\ In(timed, queue) /\ timed.step \in Requested
      /\ timed.upload = u /\ timed.heard
  <2>1. timed \in Requests
    BY <1>0
  <2>2. timed.step \in Requested
    BY <2>1 DEF Requests
  <2>3. In(timed, queue)
    BY Zenon DEF In
  <2> QED
    BY <1>1, <2>1, <2>2, <2>3
<1>3. /\ Awaited(timed) /\ Fitting(timed)
      /\ client[u] \in [step : Requested, chunk : Nat] /\ client[u].step = timed.step
  BY <1>2 DEF PayloadInv, AllFit, Awaited, W!At, Requests
<1>4. /\ rest \in Seq(Requests) /\ OneOfAKind(rest) /\ r \in Requests
      /\ \A q \in Requests : In(q, rest) => (In(q, queue) /\ ~Alike(q, timed)) \/ q = r
      /\ rest # <<>> /\ rest[1].upload = queue[1].upload /\ rest[1].step = queue[1].step
  BY <1>0, UnheardIs, Zenon
<1>5. r.upload = u /\ r.step = timed.step /\ r.chunk = timed.chunk /\ ~r.heard
  BY <1>2 DEF Requests
<1>6. /\ to \in [step : Requested \cup {"done"}, chunk : Nat]
      /\ to.step \in {"remove", "done"}
      /\ to # W!Done => /\ to = W!At("remove", 0) /\ to.step \in Requested
                        /\ timed.step # "remove"
  BY <1>3, NextSteps DEF W!At, Requested
<1>7. W!Calls(u, to, rest)
  BY <1>1
<1> HIDE DEF timed, r, rest, to
<1>8. ASSUME NEW q \in Requests, In(q, queue), ~Alike(q, timed), q.upload = u
      PROVE  timed.step = "remove" /\ q.step # "remove" /\ ~q.heard
  <2>1. Awaited(q) /\ Fitting(q)
    BY <1>8, Zenon DEF PayloadInv, AllFit
  <2>2. q.step = "remove" <=> timed.step # "remove"
    BY <1>2, <1>8, Zenon DEF Alike
  <2>3. q.step # "remove"
    BY <1>2, <1>3, <1>8, <2>1, <2>2, Zenon DEF Awaited, Requested
  <2> QED
    BY <1>3, <1>8, <2>1, <2>2, <2>3 DEF Awaited, W!At
<1>9. ASSUME to # W!Done, NEW q \in Requests, In(q, rest)
      PROVE  ~Alike(q, W!Request(u, to))
  <2>1. W!Request(u, to).upload = u /\ W!Request(u, to).step = "remove"
    BY <1>6, <1>9 DEF W!Request, W!At
  <2>2. q.upload = u => q.step # "remove"
    BY <1>4, <1>5, <1>6, <1>8, <1>9, Zenon
  <2> QED
    BY <2>1, <2>2, Zenon DEF Alike
<1>10. /\ queue' \in Seq(Requests) /\ OneOfAKind(queue')
       /\ client' = [client EXCEPT ![u] = to]
       /\ client' \in [Uploads -> [step : Requested \cup {"idle", "done"}, chunk : Nat]]
       /\ \A q \in Requests :
             In(q, queue') => In(q, rest) \/ (to # W!Done /\ q = W!Request(u, to))
       /\ queue' # <<>> /\ queue'[1] = rest[1]
  BY <1>0, <1>4, <1>6, <1>7, <1>9, CallIs
<1>11. client'[u] = to /\ \A v \in Uploads : v # u => client'[v] = client[v]
  BY <1>0, <1>10, Zenon
<1>12. PayloadShape'
  BY <1>0, <1>10, Zenon DEF PayloadInv, PayloadShape
<1>13. Callers'
  BY <1>0, <1>6, <1>11, Zenon DEF PayloadInv, Callers, W!Text
<1>14. AllFit'
  <2> SUFFICES ASSUME NEW q \in Requests, In(q, queue') PROVE Awaited(q)' /\ Fitting(q)'
    BY DEF AllFit, In
  <2>1. CASE In(q, queue) /\ ~Alike(q, timed)
    <3>1. Awaited(q) /\ Fitting(q) /\ q.upload \in Uploads
      BY <2>1, Zenon DEF PayloadInv, AllFit, Requests
    <3>2. Fitting(q)'
      BY <1>0, <3>1, Zenon DEF Fitting, Upto, W!Text
    <3>3. CASE q.upload # u
      BY <1>11, <3>1, <3>2, <3>3, Zenon DEF Awaited, W!At
    <3>4. CASE q.upload = u
      BY <1>6, <1>8, <1>11, <2>1, <3>2, <3>4 DEF Awaited
    <3> QED
      BY <3>3, <3>4, Zenon
  <2>2. CASE q = r
    <3>1. Awaited(q)'
      BY <1>5, <1>6, <1>11, <2>2, Zenon DEF Awaited
    <3>2. Fitting(q)'
      BY <1>0, <1>2, <1>3, <1>5, <2>2, Zenon DEF Fitting, Upto, W!Text
    <3> QED
      BY <3>1, <3>2, Zenon
  <2>3. CASE to # W!Done /\ q = W!Request(u, to)
    <3>1. q.upload = u /\ q.heard /\ q.step = "remove" /\ q.chunk = 0
      BY <1>6, <2>3 DEF W!Request, W!At
    <3> QED
      BY <1>6, <1>11, <2>3, <3>1 DEF Awaited, Fitting, W!At
  <2> QED
    BY <1>4, <1>10, <2>1, <2>2, <2>3, Zenon
<1>15. ReadingInv'
  BY <1>0, <1>4, <1>10 DEF PayloadInv, ReadingInv, W!First, W!NoUpload
<1> QED
  BY <1>12, <1>13, <1>14, <1>15 DEF PayloadInv

\* Time, the clean up and a restart of the worker take files away, or add nothing.
LEMMA FilesGoStep ==
    ASSUME PayloadInv, UNCHANGED <<client, queue, handed, reading>>,
           held' \in [Uploads -> Payloads],
           \A u \in Uploads :
              \/ held'[u].name = held[u].name /\ held'[u].data = held[u].data
              \/ held'[u].name = "none" /\ reading = W!NoUpload
    PROVE  PayloadInv'
<1>1. PayloadShape' /\ Callers'
  BY Zenon DEF PayloadInv, PayloadShape, Callers, OneOfAKind, W!Text
<1>2. AllFit'
  <2> SUFFICES ASSUME NEW q \in Requests, In(q, queue) PROVE Awaited(q)' /\ Fitting(q)'
    BY Zenon DEF AllFit, In
  <2>1. Awaited(q) /\ Fitting(q) /\ q.upload \in Uploads
    BY Zenon DEF PayloadInv, AllFit, Requests
  <2>2. Awaited(q)'
    BY <2>1, Zenon DEF Awaited, W!At
  <2> QED
    BY <2>1, <2>2, Zenon DEF Fitting, Upto, W!Text
<1>3. ReadingInv'
  BY Zenon DEF PayloadInv, ReadingInv, W!First, W!NoUpload
<1> QED
  BY <1>1, <1>2, <1>3, Zenon DEF PayloadInv

\* Every step keeps the invariant.
LEMMA PayloadStep ==
    ASSUME Nonempty, PayloadInv, [W!Next]_W!payloadVars
    PROVE  PayloadInv'
<1>0. held \in [Uploads -> Payloads] /\ W!NoFile \in Payloads
  BY DEF PayloadInv, PayloadShape, Payloads, W!NoFile
<1>1. CASE UNCHANGED W!payloadVars
  BY <1>0, <1>1, FilesGoStep, Zenon DEF W!payloadVars
<1>2. ASSUME NEW u \in Uploads, W!Begin(u) PROVE PayloadInv'
  BY <1>2, BeginStep, Zenon
<1>3. ASSUME NEW u \in Uploads, W!TimesOut(u) PROVE PayloadInv'
  BY <1>3, TimesOutStep, Zenon
<1>4. CASE W!Worker
  BY <1>4, WorkerStep, Zenon
<1>5. CASE W!Ages
  <2>1. PICK u \in Uploads : held' = [held EXCEPT ![u].old = TRUE]
    BY <1>5, Zenon DEF W!Ages
  <2>2. \A file \in Payloads :
           /\ [file EXCEPT !.old = TRUE] \in Payloads
           /\ [file EXCEPT !.old = TRUE].name = file.name
           /\ [file EXCEPT !.old = TRUE].data = file.data
    BY Zenon DEF Payloads
  <2>3. held' = [held EXCEPT ![u] = [held[u] EXCEPT !.old = TRUE]] /\ held[u] \in Payloads
    BY <1>0, <2>1
  <2>4. /\ held' \in [Uploads -> Payloads]
        /\ \A v \in Uploads :
              held'[v].name = held[v].name /\ held'[v].data = held[v].data
    BY <1>0, <2>2, <2>3, Zenon
  <2> QED
    BY <1>5, <2>4, FilesGoStep, Zenon DEF W!Ages
<1>6. CASE W!CleanupExpired
  <2>1. /\ reading = W!NoUpload /\ UNCHANGED <<client, queue, reading, handed>>
        /\ held' = [u \in Uploads |->
                        IF W!Expired(held[u]) THEN W!NoFile ELSE held[u]]
    BY <1>6, Zenon DEF W!CleanupExpired
  <2>2. /\ held' \in [Uploads -> Payloads]
        /\ \A u \in Uploads : held'[u] = held[u] \/ held'[u] = W!NoFile
    BY <1>0, <2>1, Zenon
  <2>3. \A u \in Uploads :
           \/ held'[u].name = held[u].name /\ held'[u].data = held[u].data
           \/ held'[u].name = "none" /\ reading = W!NoUpload
    BY <2>1, <2>2, Zenon DEF W!NoFile
  <2> QED
    BY <2>1, <2>2, <2>3, FilesGoStep, Zenon
<1>7. CASE W!Restart
  <2>1. /\ reading' = W!NoUpload /\ queue' = <<>> /\ UNCHANGED <<held, handed>>
        /\ client' = [u \in Uploads |-> client'[u]]
        /\ \A u \in Uploads : client'[u] = W!Done \/ client'[u] = client[u]
    BY <1>7 DEF W!Restart
  <2>2. W!Done \in [step : Requested \cup {"idle", "done"}, chunk : Nat] /\ W!Done.step = "done"
    BY DEF W!Done, W!At
  <2>3. client \in [Uploads -> [step : Requested \cup {"idle", "done"}, chunk : Nat]]
    BY Zenon DEF PayloadInv, PayloadShape
  <2>4. client' \in [Uploads -> [step : Requested \cup {"idle", "done"}, chunk : Nat]]
    BY <2>1, <2>2, <2>3, Zenon
  <2>5. PayloadShape'
    BY <2>1, <2>4 DEF PayloadInv, PayloadShape, OneOfAKind
  <2>6. Callers'
    BY <2>1, <2>2, Zenon DEF PayloadInv, Callers, W!Text
  <2>7. AllFit' /\ ReadingInv'
    BY <2>1 DEF AllFit, In, ReadingInv, W!NoUpload
  <2> QED
    BY <2>5, <2>6, <2>7, Zenon DEF PayloadInv
<1> QED
  BY <1>1, <1>2, <1>3, <1>4, <1>5, <1>6, <1>7 DEF W!Next

\* A payload is handed on whole, once or not at all (uploadPrivatePayload, append and
\* consume), for every number of uploads and of chunks and whatever times out, fails,
\* expires or is restarted, as long as a text is not empty, which the caller checks.
THEOREM UploadsArriveWhole ==
    ASSUME Nonempty
    PROVE  W!Spec => []W!UploadIsWhole
<1>1. W!Init => PayloadInv
  <2> SUFFICES ASSUME W!Init PROVE PayloadInv
    OBVIOUS
  <2>1. /\ queue = <<>> /\ reading = W!NoUpload
        /\ client = [u \in Uploads |-> W!At("idle", 0)]
        /\ held = [u \in Uploads |-> W!NoFile]
        /\ handed = [u \in Uploads |-> <<>>]
    BY Zenon DEF W!Init
  <2>2. /\ W!At("idle", 0) \in [step : Requested \cup {"idle", "done"}, chunk : Nat]
        /\ W!NoFile \in Payloads
    BY DEF W!At, W!NoFile, Payloads
  <2>3. PayloadShape
    BY <2>1, <2>2 DEF PayloadShape, OneOfAKind
  <2>4. Callers
    BY <2>1, Zenon DEF Callers
  <2>5. AllFit /\ ReadingInv
    BY <2>1 DEF AllFit, In, ReadingInv
  <2> QED
    BY <2>3, <2>4, <2>5, Zenon DEF PayloadInv
<1>2. PayloadInv /\ [W!Next]_W!payloadVars => PayloadInv'
  BY PayloadStep, Zenon
<1>3. PayloadInv => W!UploadIsWhole
  BY DEF PayloadInv, Callers, W!UploadIsWhole
<1> QED
  BY <1>1, <1>2, <1>3, PTL DEF W!Spec

-----------------------------------------------------------------------------
(***************************************************************************)
(* The network plan, applied and undone.                                   *)
(***************************************************************************)
\* Nothing of the plan is in force.
NoneInForce == \A i \in Steps: kernel[i] # "present"

\* What is in force was so before the apply began, or is at or below step k.
OnlyAdded(k) ==
    \A i \in Steps: kernel[i] = "present" => before[i] = "present" \/ i =< k

(***************************************************************************)
(* The receipt between operations.  An empty receipt that is still held is *)
(* the one rebuild_network spent before an apply that failed.              *)
(***************************************************************************)
ReceiptInv ==
    /\ completed > 0 => /\ op \in {"idle", "rollback"}
                        /\ \A i \in Steps: i > completed => kernel[i] # "present"
    /\ op = "idle" /\ completed = 0 => caller = "rebuild" /\ result # "applied"
    /\ op \in {"idle", "rollback"} /\ completed = 0 /\ failure = 0
            => NoneInForce
    /\ op = "rollback" /\ completed = 0 /\ caller # "stop" => NoneInForce
    /\ op = "rollback" => completed # NoReceipt
    /\ op = "idle" /\ result = "rolled_back"
            => completed = NoReceipt /\ (failure = 0 => NoneInForce)

\* A running apply, and the undo of one that failed.
ApplyInv ==
    /\ op = "apply" => failure = 0 /\ OnlyAdded(index - 1)
    /\ op = "undo" /\ failure = 0 => OnlyAdded(index)
    /\ op \in {"apply", "undo"} /\ completed = 0
            => caller = "rebuild" /\ \A i \in Steps: before[i] # "present"
    /\ op = "idle" /\ result = "apply_failed" => OnlyAdded(0)

IInv == TypeOK /\ ReceiptInv /\ ApplyInv

-----------------------------------------------------------------------------
(* The initial state satisfies the inductive invariant. *)
LEMMA InitInv == Init => IInv
  BY ExecutorAssumption
     DEF Init, IInv, TypeOK, ReceiptInv, ApplyInv, OnlyAdded, NoneInForce,
         Steps, StepStates, NoReceipt

(* Every step of the executor keeps the variables' types. *)
LEMMA TypeStep == TypeOK /\ ReceiptInv /\ [Next]_vars => TypeOK'
  <1> SUFFICES ASSUME TypeOK, ReceiptInv, [Next]_vars PROVE TypeOK'
    OBVIOUS
  <1> USE ExecutorAssumption DEF TypeOK, Steps, StepStates, NoReceipt, Fault
  <1>1. CASE Enable
    BY <1>1 DEF Enable, StartApply
  <1>2. CASE ApplyStep
    BY <1>2 DEF ApplyStep
  <1>3. CASE ApplyStepFails
    BY <1>3 DEF ApplyStepFails, StartUndo
  <1>4. CASE Undo
    BY <1>4 DEF Undo, UndoReturns, DeleteDone, DeleteFails
  <1>5. CASE RollbackStep
    BY <1>5 DEF RollbackStep, DeleteDone, DeleteFails
  <1>6. CASE RollbackReturns
    BY <1>6 DEF RollbackReturns, StartApply
  <1>7. CASE Killed
    BY <1>7 DEF Killed
  <1>8. ASSUME NEW c \in {"disable", "rebuild", "stop"}, Rollback(c)
        PROVE  TypeOK'
    BY <1>8 DEF Rollback
  <1>9. ASSUME NEW j \in Steps, Drift(j)
        PROVE  TypeOK'
    BY <1>9 DEF Drift
  <1>10. CASE UNCHANGED vars
    BY <1>10, Zenon DEF vars
  <1> QED
    BY <1>1, <1>2, <1>3, <1>4, <1>5, <1>6, <1>7, <1>8, <1>9, <1>10, Zenon DEF Next

(* Every step keeps the receipt and the kernel in agreement. *)
LEMMA ReceiptStep == IInv /\ [Next]_vars => ReceiptInv'
  <1> SUFFICES ASSUME IInv, [Next]_vars PROVE ReceiptInv'
    OBVIOUS
  <1> USE ExecutorAssumption
      DEF IInv, TypeOK, ReceiptInv, ApplyInv, OnlyAdded, NoneInForce, Steps,
          StepStates, NoReceipt, Fault
  <1>1. CASE Enable
    BY <1>1 DEF Enable, StartApply
  <1>2. CASE ApplyStep
    BY <1>2 DEF ApplyStep
  <1>3. CASE ApplyStepFails
    BY <1>3 DEF ApplyStepFails, StartUndo
  <1>4. CASE Undo
    BY <1>4 DEF Undo, UndoReturns, DeleteDone, DeleteFails
  <1>5. CASE RollbackStep
    BY <1>5 DEF RollbackStep, DeleteDone, DeleteFails
  <1>6. CASE RollbackReturns
    BY <1>6 DEF RollbackReturns, StartApply
  <1>7. CASE Killed
    BY <1>7 DEF Killed
  <1>8. ASSUME NEW c \in {"disable", "rebuild", "stop"}, Rollback(c)
        PROVE  ReceiptInv'
    BY <1>8 DEF Rollback
  <1>9. ASSUME NEW j \in Steps, Drift(j)
        PROVE  ReceiptInv'
    BY <1>9 DEF Drift
  <1>10. CASE UNCHANGED vars
    BY <1>10, Zenon DEF vars
  <1> QED
    BY <1>1, <1>2, <1>3, <1>4, <1>5, <1>6, <1>7, <1>8, <1>9, <1>10 DEF Next

(* Every step of an apply, and of its undo, adds only what it accounts for. *)
LEMMA ApplyStepInv == IInv /\ [Next]_vars => ApplyInv'
  <1> SUFFICES ASSUME IInv, [Next]_vars PROVE ApplyInv'
    OBVIOUS
  <1> USE ExecutorAssumption
      DEF IInv, TypeOK, ReceiptInv, ApplyInv, OnlyAdded, NoneInForce, Steps,
          StepStates, NoReceipt, Fault
  <1>1. CASE Enable
    BY <1>1 DEF Enable, StartApply
  <1>2. CASE ApplyStep
    BY <1>2 DEF ApplyStep
  <1>3. CASE ApplyStepFails
    BY <1>3 DEF ApplyStepFails, StartUndo
  <1>4. CASE Undo
    BY <1>4 DEF Undo, UndoReturns, DeleteDone, DeleteFails
  <1>5. CASE RollbackStep
    BY <1>5 DEF RollbackStep, DeleteDone, DeleteFails
  <1>6. CASE RollbackReturns
    BY <1>6 DEF RollbackReturns, StartApply
  <1>7. CASE Killed
    BY <1>7 DEF Killed
  <1>8. ASSUME NEW c \in {"disable", "rebuild", "stop"}, Rollback(c)
        PROVE  ApplyInv'
    BY <1>8 DEF Rollback
  <1>9. ASSUME NEW j \in Steps, Drift(j)
        PROVE  ApplyInv'
    BY <1>9 DEF Drift
  <1>10. CASE UNCHANGED vars
    BY <1>10 DEF vars
  <1> QED
    BY <1>1, <1>2, <1>3, <1>4, <1>5, <1>6, <1>7, <1>8, <1>9, <1>10 DEF Next

(* The inductive invariant holds in every reachable state. *)
LEMMA Invariance == Spec => []IInv
  <1>1. IInv /\ [Next]_vars => IInv'
    BY TypeStep, ReceiptStep, ApplyStepInv DEF IInv
  <1> QED
    BY InitInv, <1>1, PTL DEF Spec

(* The executor's variables keep their types. *)
THEOREM TypeCorrect == Spec => []TypeOK
  <1>1. IInv => TypeOK
    BY DEF IInv
  <1> QED
    BY Invariance, <1>1, PTL

(***************************************************************************)
(* A receipt covers every step in force, whatever commands fail or time    *)
(* out, whatever other programs delete and wherever the worker is killed   *)
(* (rollback_steps).                                                       *)
(***************************************************************************)
THEOREM ReceiptIsComplete == Spec => []ReceiptCovers
  <1>1. IInv => ReceiptCovers
    BY DEF IInv, ReceiptInv, ReceiptCovers, NoneInForce
  <1> QED
    BY Invariance, <1>1, PTL

(***************************************************************************)
(* A cleanly failed apply leaves nothing in force that was not in force    *)
(* when it began (apply_steps, rollback_range).                            *)
(***************************************************************************)
THEOREM FailedApplyIsUndone == Spec => []FailedApplyAddsNothing
  <1>1. IInv => FailedApplyAddsNothing
    BY DEF IInv, ApplyInv, OnlyAdded, FailedApplyAddsNothing, Steps
  <1> QED
    BY Invariance, <1>1, PTL

-----------------------------------------------------------------------------
(***************************************************************************)
(* The core as a child process.                                            *)
(***************************************************************************)
CONSTANTS MaxGeneration, MaxTrouble

VARIABLES mode, activeFile, core, loaded, hup, tun, handle, recorded, candidate,
          place, checker, stray, trouble

C == INSTANCE CoreProcess

Places == {"down", "start", "probe", "ready", "stage", "signal", "verify",
           "commit", "undo", "undoOrDie", "stop", "drain", "quit", "gone"}

\* What the proof needs of the types: a generation may be anything.
CoreShape ==
    /\ core \in {"none", "alive", "zombie"}
    /\ hup \in BOOLEAN
    /\ handle = [child |-> handle.child, pending |-> handle.pending,
                 report |-> handle.report]
    /\ handle.child \in BOOLEAN
    /\ place \in Places
    /\ checker = "alive" => place \in {"down", "ready"}

\* RunningCore is held from the start of the core to the end of its stop.
Held ==
    /\ ~handle.child => core = "none"
    /\ place \in {"down", "start", "drain", "gone"} => handle = C!NoHandle

\* What core and file may hold at rest.
Kept == {recorded} \cup stray

\* Pending is what stood in the file before a reload, and only during one.
Pending ==
    /\ place \in {"probe", "ready", "stage"} => handle.pending = 0
    /\ place \in {"signal", "verify", "commit", "undo", "undoOrDie"}
         => handle.pending \in Kept

\* The core has read a generation of gs, or has been told to read again.
WillRun(gs) == core = "alive" => loaded \in gs \/ hup

(***************************************************************************)
(* The file and the core: at rest they follow what is recorded or astray,  *)
(* from the start or the staging of a candidate to its end they follow     *)
(* that; between the write and the signal the core may have read either.   *)
(***************************************************************************)
Followed ==
    /\ place = "probe" => activeFile = candidate
                          /\ (core = "alive" => loaded = candidate)
    /\ place \in {"ready", "stage"} /\ core = "alive"
         => activeFile \in Kept /\ WillRun(Kept)
    /\ place = "signal" => activeFile = candidate
                           /\ WillRun(Kept \cup {candidate})
    /\ place \in {"verify", "commit", "undo", "undoOrDie"}
         => activeFile = candidate /\ WillRun({candidate})

CoreInv == CoreShape /\ Held /\ Pending /\ Followed
-----------------------------------------------------------------------------
LEMMA InitCore == C!Init => CoreInv
<1> SUFFICES ASSUME C!Init PROVE CoreInv
  OBVIOUS
<1>1. /\ core = "none" /\ hup = FALSE /\ handle = C!NoHandle
      /\ place = "down" /\ checker = "none"
  BY Zenon DEF C!Init, C!InitAt
<1> QED
  BY <1>1, Zenon DEF CoreInv, CoreShape, Places, Held, Pending, Followed, WillRun, Kept, C!NoHandle

\* Every step keeps the shape of the state.
LEMMA CoreShapeStep == CoreInv /\ [C!Next]_C!vars => CoreShape'
<1> SUFFICES ASSUME CoreInv, [C!Next]_C!vars PROVE CoreShape'
  OBVIOUS
<1> USE DEF CoreInv, CoreShape, Places, C!coreVars, C!NoHandle, Pending, Kept
<1>1. CASE C!CoreExits
  BY <1>1, Zenon DEF C!CoreExits
<1>2. CASE C!CoreReloads
  BY <1>2, Zenon DEF C!CoreReloads
<1>3. CASE C!TunFollows
  BY <1>3 DEF C!TunFollows
<1>4. CASE C!Checked
  BY <1>4 DEF C!Checked
<1>5. CASE C!StartFails
  BY <1>5 DEF C!StartFails
<1>6. CASE C!Start
  BY <1>6, Zenon DEF C!Start
<1>7. CASE C!Healthy
  BY <1>7 DEF C!Healthy
<1>8. CASE C!Unhealthy
  BY <1>8, Zenon DEF C!Unhealthy, C!Reaped, C!Calm
<1>9. CASE C!Observe
  BY <1>9, Zenon DEF C!Observe, C!Reaped, C!Calm
<1>10. CASE C!StageReload
  BY <1>10 DEF C!StageReload
<1>11. CASE C!StageFails
  BY <1>11, Zenon DEF C!StageFails, C!Reaped, C!Calm
<1>24. CASE C!Signal
  BY <1>24, Zenon DEF C!Signal
<1>25. CASE C!SignalFails
  BY <1>25, Zenon DEF C!SignalFails
<1>12. CASE C!ReloadHealthy
  BY <1>12 DEF C!ReloadHealthy
<1>13. CASE C!ReloadUnhealthy
  BY <1>13, Zenon DEF C!ReloadUnhealthy, C!Reaped, C!Calm
<1>14. CASE C!CommitReload
  BY <1>14 DEF C!CommitReload
<1>15. CASE C!Abandon
  BY <1>15 DEF C!Abandon
<1>16. CASE C!RollbackReload
  BY <1>16, Zenon DEF C!RollbackReload
<1>17. CASE C!Stop
  BY <1>17 DEF C!Stop
<1>18. CASE C!Terminated
  BY <1>18, Zenon DEF C!Terminated
<1>19. CASE C!Stopped
  BY <1>19, Zenon DEF C!Stopped
<1>20. CASE C!Drained
  BY <1>20 DEF C!Drained
<1>21. CASE C!Quit
  BY <1>21, Zenon DEF C!Quit
<1>22. ASSUME NEW g \in C!Generations, C!Check(g) PROVE CoreShape'
  BY <1>22 DEF C!Check
<1>23. CASE UNCHANGED C!vars
  BY <1>23, Zenon DEF C!vars
<1> QED
  BY <1>1, <1>2, <1>3, <1>4, <1>5, <1>6, <1>7, <1>8, <1>9, <1>10, <1>11,
     <1>12, <1>13, <1>14, <1>15, <1>16, <1>17, <1>18, <1>19, <1>20, <1>21,
     <1>22, <1>23, <1>24, <1>25, Zenon
     DEF C!Next, C!Worker

\* Every step keeps hold of the child.
LEMMA HeldStep == CoreInv /\ [C!Next]_C!vars => Held'
<1> SUFFICES ASSUME CoreInv, [C!Next]_C!vars PROVE Held'
  OBVIOUS
<1>23. CASE UNCHANGED C!vars
  BY <1>23, Zenon DEF CoreInv, Held, C!vars
<1> USE DEF CoreInv, CoreShape, Places, C!coreVars, C!NoHandle, Held
<1>1. CASE C!CoreExits
  BY <1>1 DEF C!CoreExits
<1>2. CASE C!CoreReloads
  BY <1>2 DEF C!CoreReloads
<1>3. CASE C!TunFollows
  BY <1>3 DEF C!TunFollows
<1>4. CASE C!Checked
  BY <1>4 DEF C!Checked
<1>5. CASE C!StartFails
  BY <1>5 DEF C!StartFails
<1>6. CASE C!Start
  BY <1>6 DEF C!Start
<1>7. CASE C!Healthy
  BY <1>7 DEF C!Healthy
<1>8. CASE C!Unhealthy
  BY <1>8 DEF C!Unhealthy, C!Reaped, C!Calm
<1>9. CASE C!Observe
  BY <1>9 DEF C!Observe, C!Reaped, C!Calm
<1>10. CASE C!StageReload
  BY <1>10 DEF C!StageReload
<1>11. CASE C!StageFails
  BY <1>11 DEF C!StageFails, C!Reaped, C!Calm
<1>24. CASE C!Signal
  BY <1>24 DEF C!Signal
<1>25. CASE C!SignalFails
  BY <1>25 DEF C!SignalFails
<1>12. CASE C!ReloadHealthy
  BY <1>12 DEF C!ReloadHealthy
<1>13. CASE C!ReloadUnhealthy
  BY <1>13 DEF C!ReloadUnhealthy, C!Reaped, C!Calm
<1>14. CASE C!CommitReload
  BY <1>14 DEF C!CommitReload
<1>15. CASE C!Abandon
  BY <1>15 DEF C!Abandon
<1>16. CASE C!RollbackReload
  BY <1>16 DEF C!RollbackReload
<1>17. CASE C!Stop
  BY <1>17 DEF C!Stop
<1>18. CASE C!Terminated
  BY <1>18 DEF C!Terminated
<1>19. CASE C!Stopped
  BY <1>19 DEF C!Stopped
<1>20. CASE C!Drained
  BY <1>20 DEF C!Drained
<1>21. CASE C!Quit
  BY <1>21 DEF C!Quit
<1>22. ASSUME NEW g \in C!Generations, C!Check(g) PROVE Held'
  BY <1>22 DEF C!Check
<1> QED
  BY <1>1, <1>2, <1>3, <1>4, <1>5, <1>6, <1>7, <1>8, <1>9, <1>10, <1>11,
     <1>12, <1>13, <1>14, <1>15, <1>16, <1>17, <1>18, <1>19, <1>20, <1>21,
     <1>22, <1>23, <1>24, <1>25, Zenon
     DEF C!Next, C!Worker

\* Every step keeps what is pending.
LEMMA PendingStep == CoreInv /\ [C!Next]_C!vars => Pending'
<1> SUFFICES ASSUME CoreInv, [C!Next]_C!vars PROVE Pending'
  OBVIOUS
<1> USE DEF CoreInv, CoreShape, Places, C!coreVars, C!NoHandle, Pending,
           Followed, WillRun, Kept
<1>1. CASE C!CoreExits
  BY <1>1 DEF C!CoreExits
<1>2. CASE C!CoreReloads
  BY <1>2 DEF C!CoreReloads
<1>3. CASE C!TunFollows
  BY <1>3 DEF C!TunFollows
<1>4. CASE C!Checked
  BY <1>4 DEF C!Checked
<1>5. CASE C!StartFails
  BY <1>5 DEF C!StartFails
<1>6. CASE C!Start
  BY <1>6 DEF C!Start
<1>7. CASE C!Healthy
  BY <1>7 DEF C!Healthy
<1>8. CASE C!Unhealthy
  BY <1>8 DEF C!Unhealthy, C!Reaped, C!Calm
<1>9. CASE C!Observe
  BY <1>9 DEF C!Observe, C!Reaped, C!Calm
<1>10. CASE C!StageReload
  BY <1>10 DEF C!StageReload
<1>11. CASE C!StageFails
  BY <1>11, Zenon DEF C!StageFails, C!Reaped, C!Calm
<1>24. CASE C!Signal
  BY <1>24 DEF C!Signal
<1>25. CASE C!SignalFails
  BY <1>25 DEF C!SignalFails
<1>12. CASE C!ReloadHealthy
  BY <1>12 DEF C!ReloadHealthy
<1>13. CASE C!ReloadUnhealthy
  BY <1>13, Zenon DEF C!ReloadUnhealthy, C!Reaped, C!Calm
<1>14. CASE C!CommitReload
  BY <1>14 DEF C!CommitReload
<1>15. CASE C!Abandon
  BY <1>15 DEF C!Abandon
<1>16. CASE C!RollbackReload
  BY <1>16 DEF C!RollbackReload
<1>17. CASE C!Stop
  BY <1>17 DEF C!Stop
<1>18. CASE C!Terminated
  BY <1>18 DEF C!Terminated
<1>19. CASE C!Stopped
  BY <1>19 DEF C!Stopped
<1>20. CASE C!Drained
  BY <1>20 DEF C!Drained
<1>21. CASE C!Quit
  BY <1>21 DEF C!Quit
<1>22. ASSUME NEW g \in C!Generations, C!Check(g) PROVE Pending'
  BY <1>22 DEF C!Check
<1>23. CASE UNCHANGED C!vars
  BY <1>23, Zenon DEF C!vars
<1> QED
  BY <1>1, <1>2, <1>3, <1>4, <1>5, <1>6, <1>7, <1>8, <1>9, <1>10, <1>11,
     <1>12, <1>13, <1>14, <1>15, <1>16, <1>17, <1>18, <1>19, <1>20, <1>21,
     <1>22, <1>23, <1>24, <1>25, Zenon
     DEF C!Next, C!Worker

\* After every step file and core follow what is recorded.
LEMMA FollowedStep == CoreInv /\ [C!Next]_C!vars => Followed'
<1> SUFFICES ASSUME CoreInv, [C!Next]_C!vars PROVE Followed'
  OBVIOUS
<1> USE DEF CoreInv, CoreShape, Places, C!coreVars, C!NoHandle, Pending,
           Followed, WillRun, Kept
<1>1. CASE C!CoreExits
  BY <1>1 DEF C!CoreExits
<1>2. CASE C!CoreReloads
  BY <1>2 DEF C!CoreReloads
<1>3. CASE C!TunFollows
  BY <1>3 DEF C!TunFollows
<1>4. CASE C!Checked
  BY <1>4 DEF C!Checked
<1>5. CASE C!StartFails
  BY <1>5 DEF C!StartFails
<1>6. CASE C!Start
  BY <1>6 DEF C!Start
<1>7. CASE C!Healthy
  BY <1>7 DEF C!Healthy
<1>8. CASE C!Unhealthy
  BY <1>8 DEF C!Unhealthy, C!Reaped, C!Calm
<1>9. CASE C!Observe
  BY <1>9 DEF C!Observe, C!Reaped, C!Calm
<1>10. CASE C!StageReload
  BY <1>10 DEF C!StageReload
<1>11. CASE C!StageFails
  BY <1>11 DEF C!StageFails, C!Reaped, C!Calm
<1>24. CASE C!Signal
  BY <1>24, Zenon DEF C!Signal
<1>25. CASE C!SignalFails
  BY <1>25 DEF C!SignalFails
<1>12. CASE C!ReloadHealthy
  BY <1>12 DEF C!ReloadHealthy
<1>13. CASE C!ReloadUnhealthy
  BY <1>13 DEF C!ReloadUnhealthy, C!Reaped, C!Calm
<1>14. CASE C!CommitReload
  BY <1>14 DEF C!CommitReload
<1>15. CASE C!Abandon
  BY <1>15 DEF C!Abandon
<1>16. CASE C!RollbackReload
  <2>1. place \in {"undo", "undoOrDie"} /\ place' \in {"ready", "quit"}
    BY <1>16 DEF C!RollbackReload
  <2>2. \/ stray' = stray /\ activeFile' = handle.pending /\ (core = "alive" => hup')
        \/ /\ stray' = stray \cup {candidate} /\ hup' = hup
           /\ activeFile' \in {activeFile, handle.pending}
    BY <1>16, Zenon DEF C!RollbackReload
  <2>3. UNCHANGED <<core, loaded, recorded>>
    BY <1>16 DEF C!RollbackReload
  <2> QED
    BY <2>1, <2>2, <2>3
<1>17. CASE C!Stop
  BY <1>17 DEF C!Stop
<1>18. CASE C!Terminated
  BY <1>18 DEF C!Terminated
<1>19. CASE C!Stopped
  BY <1>19 DEF C!Stopped
<1>20. CASE C!Drained
  BY <1>20 DEF C!Drained
<1>21. CASE C!Quit
  BY <1>21 DEF C!Quit
<1>22. ASSUME NEW g \in C!Generations, C!Check(g) PROVE Followed'
  BY <1>22 DEF C!Check
<1>23. CASE UNCHANGED C!vars
  BY <1>23 DEF C!vars
<1> QED
  BY <1>1, <1>2, <1>3, <1>4, <1>5, <1>6, <1>7, <1>8, <1>9, <1>10, <1>11,
     <1>12, <1>13, <1>14, <1>15, <1>16, <1>17, <1>18, <1>19, <1>20, <1>21,
     <1>22, <1>23, <1>24, <1>25, Zenon
     DEF C!Next, C!Worker

LEMMA CoreInvariance == C!Spec => []CoreInv
<1>1. CoreInv /\ [C!Next]_C!vars => CoreInv'
  BY CoreShapeStep, HeldStep, PendingStep, FollowedStep DEF CoreInv
<1> QED
  BY InitCore, <1>1, PTL DEF C!Spec

\* Every step keeps the types, when the bounds are numbers.
Bounded == MaxGeneration \in Nat /\ MaxTrouble \in Nat

Handles == [child: BOOLEAN, pending: 0..MaxGeneration, report: BOOLEAN]

LEMMA HandleType ==
    ASSUME Bounded, NEW h \in Handles
    PROVE  /\ C!NoHandle \in Handles
           /\ [C!NoHandle EXCEPT !.child = TRUE] \in Handles
           /\ [h EXCEPT !.child = FALSE] \in Handles
           /\ [h EXCEPT !.child = FALSE, !.report = TRUE] \in Handles
           /\ [h EXCEPT !.pending = 0] \in Handles
<1> USE DEF Bounded, Handles
<1>1. C!NoHandle \in Handles
  BY DEF C!NoHandle
<1>2. [C!NoHandle EXCEPT !.child = TRUE] \in Handles
  BY <1>1, Zenon
<1>3. [h EXCEPT !.child = FALSE] \in Handles
  BY Zenon
<1>4. [h EXCEPT !.child = FALSE, !.report = TRUE] \in Handles
  BY Zenon
<1>5. [h EXCEPT !.pending = 0] \in Handles
  BY SMTT(30)
<1> QED
  BY <1>1, <1>2, <1>3, <1>4, <1>5

LEMMA CoreTypeStep == Bounded /\ C!TypeOK /\ [C!Next]_C!vars => C!TypeOK'
<1> SUFFICES ASSUME Bounded, C!TypeOK, [C!Next]_C!vars PROVE C!TypeOK'
  OBVIOUS
<1> USE DEF Bounded, C!TypeOK, C!coreVars, C!NoHandle, C!Calm, C!Trouble, C!Generations
<1>f. hup' \in BOOLEAN /\ tun' \in BOOLEAN
  BY Zenon DEF C!Next, C!Worker, C!CoreExits, C!CoreReloads, C!TunFollows, C!Check,
     C!Checked, C!StartFails, C!Start, C!Healthy, C!Unhealthy, C!Observe,
     C!StageReload, C!StageFails, C!Signal, C!SignalFails,
     C!ReloadHealthy, C!ReloadUnhealthy,
     C!CommitReload, C!Abandon, C!RollbackReload, C!Stop,
     C!Terminated, C!Stopped, C!Drained, C!Quit, C!vars
<1>h. handle \in Handles
  BY DEF Handles
<1>1. CASE C!CoreExits
  BY <1>1, <1>f DEF C!CoreExits
<1>2. CASE C!CoreReloads
  BY ZenonT(60), <1>2 DEF C!CoreReloads
<1>3. CASE C!TunFollows
  BY <1>3 DEF C!TunFollows
<1>4. CASE C!Checked
  BY <1>4 DEF C!Checked
<1>5. CASE C!StartFails
  BY <1>5 DEF C!StartFails
<1>6. CASE C!Start
  <2>1. handle' \in Handles
    BY <1>6, <1>h, HandleType, Zenon DEF C!Start
  <2> QED
    BY <1>6, <1>f, <2>1 DEF Handles, C!Start
<1>7. CASE C!Healthy
  BY <1>7 DEF C!Healthy
<1>8. CASE C!Unhealthy
  <2>1. handle' \in Handles
    BY <1>8, <1>h, HandleType, Zenon DEF C!Unhealthy, C!Reaped
  <2> QED
    BY <1>8, <1>f, <2>1 DEF Handles, C!Unhealthy, C!Reaped
<1>9. CASE C!Observe
  <2>1. handle' \in Handles
    BY <1>9, <1>h, HandleType, Zenon DEF C!Observe, C!Reaped
  <2> QED
    BY <1>9, <1>f, <2>1 DEF Handles, C!Observe, C!Reaped
<1>10. CASE C!StageReload
  BY <1>10 DEF C!StageReload
<1>11. CASE C!StageFails
  <2>1. handle' \in Handles
    BY <1>11, <1>h, HandleType, Zenon DEF C!StageFails, C!Reaped
  <2> QED
    BY <1>11, <1>f, <2>1 DEF Handles, C!StageFails, C!Reaped
<1>24. CASE C!Signal
  BY <1>24, <1>f DEF C!Signal
<1>25. CASE C!SignalFails
  <2>1. handle' \in Handles
    BY <1>25, <1>h, HandleType, Zenon DEF C!SignalFails
  <2> QED
    BY <1>25, <1>f, <2>1 DEF Handles, C!SignalFails
<1>12. CASE C!ReloadHealthy
  BY <1>12 DEF C!ReloadHealthy
<1>13. CASE C!ReloadUnhealthy
  <2>1. handle' \in Handles
    BY <1>13, <1>h, HandleType, Zenon DEF C!ReloadUnhealthy, C!Reaped
  <2> QED
    BY <1>13, <1>f, <2>1 DEF Handles, C!ReloadUnhealthy, C!Reaped
<1>14. CASE C!CommitReload
  BY <1>14 DEF C!CommitReload
<1>15. CASE C!Abandon
  BY <1>15 DEF C!Abandon
<1>16. CASE C!RollbackReload
  <2>1. handle' \in Handles
    BY <1>16, <1>h, HandleType, Zenon DEF C!RollbackReload
  <2> QED
    BY <1>16, <1>f, <2>1 DEF Handles, C!RollbackReload
<1>17. CASE C!Stop
  BY <1>17 DEF C!Stop
<1>18. CASE C!Terminated
  BY <1>18, Zenon DEF C!Terminated
<1>19. CASE C!Stopped
  <2>1. handle' \in Handles
    BY <1>19, <1>h, HandleType, Zenon DEF C!Stopped
  <2> QED
    BY <1>19, <1>f, <2>1 DEF Handles, C!Stopped
<1>20. CASE C!Drained
  BY <1>20 DEF C!Drained
<1>21. CASE C!Quit
  <2>1. handle' \in Handles
    BY <1>21, <1>h, HandleType, Zenon DEF C!Quit
  <2> QED
    BY <1>21, <1>f, <2>1 DEF Handles, C!Quit
<1>22. ASSUME NEW g \in C!Generations, C!Check(g) PROVE C!TypeOK'
  BY <1>22 DEF C!Check
<1>23. CASE UNCHANGED C!vars
  BY <1>23 DEF C!vars
<1> QED
  BY <1>1, <1>2, <1>3, <1>4, <1>5, <1>6, <1>7, <1>8, <1>9, <1>10, <1>11,
     <1>12, <1>13, <1>14, <1>15, <1>16, <1>17, <1>18, <1>19, <1>20, <1>21,
     <1>22, <1>23, <1>24, <1>25, Zenon
     DEF C!Next, C!Worker

-----------------------------------------------------------------------------
\* The state of process, files and worker has its type.
THEOREM CoreTypeCorrect == ASSUME Bounded PROVE C!Spec => []C!TypeOK
<1>1. C!Init => C!TypeOK
  <2> SUFFICES ASSUME C!Init PROVE C!TypeOK
    OBVIOUS
  <2>1. hup \in BOOLEAN /\ tun \in BOOLEAN
    BY Zenon DEF C!Init, C!InitAt
  <2>2. mode \in {"tproxy", "tun"}
    BY Zenon DEF C!Init, C!InitAt
  <2>3. handle \in [child: BOOLEAN, pending: 0..MaxGeneration, report: BOOLEAN]
    BY DEF C!Init, C!InitAt, C!NoHandle, Bounded
  <2> QED
    BY <2>1, <2>2, <2>3 DEF C!Init, C!InitAt, C!TypeOK, Bounded
<1>2. C!TypeOK /\ [C!Next]_C!vars => C!TypeOK'
  BY CoreTypeStep
<1> QED
  BY <1>1, <1>2, PTL DEF C!Spec

(***************************************************************************)
(* However starts, reloads, failures and exits of the core follow each     *)
(* other, a core that runs at rest runs what ActiveGeneration names or     *)
(* what a reload left that failed since, no child outlives its handle, and *)
(* no reload stays pending (start, stage_reload, commit_reload,            *)
(* rollback_reload, try_exit, stop, Drop).                                 *)
(***************************************************************************)
THEOREM CoreStaysAccountedFor == C!Spec => []C!CoreIsAccountedFor
<1>1. CoreInv => C!CoreIsAccountedFor
  BY DEF CoreInv, Held, Pending, Followed, WillRun, Kept, C!CoreIsAccountedFor,
         C!CoreRunsWhatIsRecorded, C!NoStrayCore, C!NothingStaysPending
<1> QED
  BY CoreInvariance, <1>1, PTL

=============================================================================
