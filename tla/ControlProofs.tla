--------------------------- MODULE ControlProofs ---------------------------
(***************************************************************************)
(* Proofs about the control plane of the worker, for any number of         *)
(* requests and troubles, and about the rounds of the node benchmark       *)
(* (NodeSelection), for any pools and any number of rounds.                *)
(***************************************************************************)
EXTENDS Control, FiniteSetTheorems, SequenceTheorems, TLAPS

\* A queue that brings nothing up, and one that starts with a stop and
\* brings nothing up after it.
Calm(queue) == \A i \in 1..Len(queue) : queue[i] # "start"

Stopping(queue) ==
    /\ queue # <<>> /\ Head(queue) = "stop"
    /\ \A i \in 2..Len(queue) : queue[i] # "start"

(***************************************************************************)
(* The heart of it: while the service is disabled, either a stop is the    *)
(* next command, or nothing runs, nothing is scheduled and nothing that is *)
(* queued starts it.                                                       *)
(***************************************************************************)
Obedient ==
    ~config.enabled /\ ~asked =>
        \/ Stopping(pending)
        \/ ~runtime.up /\ ~restartAt /\ ~startPending /\ Calm(pending)

\* What is known of the request that runs the queue.
Served ==
    /\ mode \in {"poll", "tick", "down"} => Kind = "none"
    /\ Kind # "none" => serving.was \in Configs
    /\ Kind \in {"start", "stop", "apply"} /\ ~config.enabled => ~asked
    /\ Kind = "stop" => ~config.enabled
    /\ Kind = "apply" => config = serving.request.document
    /\ Kind = "stop" /\ mode = "done" => pending = <<>>

IInv == TypeOK /\ Served /\ Obedient /\ CompletedIsTrue

-----------------------------------------------------------------------------
(* The queue *)

\* What a stop leaves behind it are probes.
LEMMA ProbesType ==
    ASSUME NEW queue \in Seq(CommandNames)
    PROVE  /\ Probes(queue) \in Seq(CommandNames)
           /\ \A i \in 1..Len(Probes(queue)) : Probes(queue)[i] = "probe"
<1> DEFINE S == {j \in DOMAIN queue : queue[j] = "probe"}
           n == Cardinality(S)
<1>1. n \in Nat
  <2>1. DOMAIN queue = 1..Len(queue) /\ Len(queue) \in Nat
    BY LenProperties
  <2>2. IsFiniteSet(DOMAIN queue)
    BY <2>1, FS_Interval
  <2>3. S \in SUBSET (DOMAIN queue)
    BY Zenon
  <2>4. IsFiniteSet(S)
    BY <2>2, <2>3, FS_Subset, Zenon
  <2> QED
    BY <2>4, FS_CardinalityType, Zenon
<1>2. Probes(queue) = [i \in 1..n |-> "probe"]
  BY DEF Probes
<1> HIDE DEF n
<1>3. "probe" \in CommandNames
  BY DEF CommandNames
<1>4. Probes(queue) \in Seq(CommandNames) /\ Len(Probes(queue)) = n
  BY <1>1, <1>2, <1>3
<1> QED
  BY <1>2, <1>4, Zenon

\* queue_command: a stop comes first and with probes only, any other command
\* last.
LEMMA QueuedStop ==
    ASSUME NEW queue \in Seq(CommandNames)
    PROVE  Queued(queue, "stop") \in Seq(CommandNames) /\ Stopping(Queued(queue, "stop"))
<1> DEFINE rest == Probes(queue)
           one == <<"stop">>
           all == one \o rest
<1>1. rest \in Seq(CommandNames) /\ \A i \in 1..Len(rest) : rest[i] = "probe"
  BY ProbesType
<1>2. one \in Seq(CommandNames) /\ Len(one) = 1 /\ one[1] = "stop"
  BY DEF CommandNames
<1>3. Queued(queue, "stop") = all
  BY DEF Queued
<1> HIDE DEF rest, one
<1> DEFINE n == Len(rest)
<1>4. n \in Nat
  BY <1>1, LenProperties
<1>5. /\ all \in Seq(CommandNames) /\ Len(all) = 1 + n
      /\ \A i \in 1..(1 + n) : all[i] = IF i <= 1 THEN one[i] ELSE rest[i - 1]
  <2>1. /\ all \in Seq(CommandNames) /\ Len(all) = Len(one) + n
        /\ \A i \in 1..(Len(one) + n) :
              all[i] = IF i <= Len(one) THEN one[i] ELSE rest[i - Len(one)]
    BY <1>1, <1>2, ConcatProperties, Zenon
  <2> QED
    BY <1>2, <2>1, Zenon
<1>6. \A i \in 1..n : rest[i] = "probe"
  BY <1>1
<1> HIDE DEF n, all
<1>7. all[1] = "stop"
  BY <1>2, <1>4, <1>5
<1>8. \A i \in 2..(1 + n) : all[i] = "probe"
  BY <1>4, <1>5, <1>6
<1>9. all # <<>>
  BY <1>4, <1>5
<1>10. Head(all) = "stop"
  BY <1>5, <1>7, <1>9
<1> QED
  BY <1>3, <1>5, <1>8, <1>9, <1>10 DEF Stopping

LEMMA QueuedLast ==
    ASSUME NEW queue \in Seq(CommandNames), NEW command \in CommandNames, command # "stop"
    PROVE  /\ Queued(queue, command) \in Seq(CommandNames)
           /\ command # "start" /\ Calm(queue) => Calm(Queued(queue, command))
           /\ command # "start" /\ Stopping(queue) => Stopping(Queued(queue, command))
<1> DEFINE all == Append(queue, command)
           n == Len(queue)
<1>1. Queued(queue, command) = all
  BY DEF Queued
<1>2. n \in Nat
  BY LenProperties
<1>3. /\ all \in Seq(CommandNames) /\ all # <<>> /\ Len(all) = n + 1
      /\ \A i \in 1..n : all[i] = queue[i]
      /\ all[n + 1] = command
  BY AppendProperties
<1>4. n = Len(queue)
  OBVIOUS
<1> HIDE DEF n, all
<1>5. ASSUME command # "start", Calm(queue) PROVE Calm(all)
  <2>1. \A i \in 1..n : queue[i] # "start"
    BY <1>4, <1>5 DEF Calm
  <2>2. \A i \in 1..(n + 1) : all[i] # "start"
    BY <1>2, <1>3, <1>5, <2>1
  <2> QED
    BY <1>3, <2>2 DEF Calm
<1>6. ASSUME command # "start", Stopping(queue) PROVE Stopping(all)
  <2>1. \A i \in 2..n : queue[i] # "start"
    BY <1>4, <1>6 DEF Stopping
  <2>2. n # 0 /\ Head(queue) = queue[1]
    BY <1>4, <1>6, EmptySeq DEF Stopping
  <2>3. \A i \in 2..(n + 1) : all[i] # "start"
    BY <1>2, <1>3, <1>6, <2>1
  <2>4. Head(all) = all[1]
    BY <1>3
  <2>5. Head(all) = "stop"
    BY <1>2, <1>3, <1>6, <2>2, <2>4 DEF Stopping
  <2> QED
    BY <1>3, <2>3, <2>5 DEF Stopping
<1> QED
  BY <1>1, <1>3, <1>5, <1>6

\* What is left once the next command is taken.
LEMMA TailLeaves ==
    ASSUME NEW queue \in Seq(CommandNames), queue # <<>>
    PROVE  /\ Head(queue) \in CommandNames
           /\ Tail(queue) \in Seq(CommandNames)
           /\ Stopping(queue) => Head(queue) = "stop" /\ Calm(Tail(queue))
           /\ Calm(queue) => Head(queue) # "start" /\ Calm(Tail(queue))
<1> DEFINE rest == Tail(queue)
           n == Len(queue)
           m == Len(rest)
<1>1. /\ Head(queue) \in CommandNames /\ rest \in Seq(CommandNames)
      /\ m = n - 1 /\ \A i \in 1..m : rest[i] = queue[i + 1]
  BY HeadTailProperties
<1>2. n \in Nat /\ n # 0 /\ Head(queue) = queue[1]
  BY LenProperties, EmptySeq
<1>3. n = Len(queue) /\ m = Len(rest)
  OBVIOUS
<1> HIDE DEF n, m, rest
<1>4. ASSUME \A i \in 2..n : queue[i] # "start" PROVE Calm(rest)
  BY <1>1, <1>2, <1>3, <1>4 DEF Calm
<1>5. Stopping(queue) => Head(queue) = "stop" /\ Calm(rest)
  BY <1>3, <1>4 DEF Stopping
<1>6. Calm(queue) => Head(queue) # "start" /\ Calm(rest)
  BY <1>2, <1>3, <1>4 DEF Calm
<1> QED
  BY <1>1, <1>5, <1>6 DEF rest

\* apply_config_change: a configuration that is no longer enabled queues a
\* stop, one that stays as it is queues nothing.
LEMMA ChangeQueuesLeave ==
    ASSUME NEW from \in Configs, NEW to \in Configs, NEW queue \in Seq(CommandNames),
           NEW result \in ChangeQueues(from, to, queue)
    PROVE  /\ result \in Seq(CommandNames)
           /\ from = to => result = queue
           /\ from # to /\ ~to.enabled => Stopping(result)
<1>1. CASE from = to
  <2>1. result = queue
    BY <1>1 DEF ChangeQueues
  <2> QED
    BY <1>1, <2>1, Zenon
<1>2. CASE from # to /\ ~to.enabled
  <2>1. result = Queued(queue, "stop")
    BY <1>2 DEF ChangeQueues
  <2> QED
    BY <1>2, <2>1, QueuedStop
<1>3. CASE from # to /\ to.enabled
  <2>1. "update" \in CommandNames /\ "start" \in CommandNames /\ "rebuild" \in CommandNames
    BY DEF CommandNames
  <2>2. \/ result = Queued(queue, "update")
        \/ result = Queued(queue, "start")
        \/ result = Queued(queue, "rebuild")
        \/ result = Queued(Queued(queue, "stop"), "start")
    BY <1>3 DEF ChangeQueues
  <2>3. Queued(queue, "stop") \in Seq(CommandNames)
    BY QueuedStop
  <2>4. result \in Seq(CommandNames)
    BY <2>1, <2>2, <2>3, QueuedLast, Zenon
  <2> QED
    BY <1>3, <2>4
<1> QED
  BY <1>1, <1>2, <1>3

-----------------------------------------------------------------------------
(* The runtime *)

RuntimeOK ==
    /\ runtime \in [up: BOOLEAN, capture: BOOLEAN]
    /\ runtime.capture => runtime.up
    /\ restartAt \in BOOLEAN

LEMMA StoppedType ==
    ASSUME Stopped
    PROVE  RuntimeOK' /\ startPending' \in BOOLEAN
           /\ ~runtime'.up /\ ~restartAt' /\ ~startPending'
BY Zenon DEF Stopped, RuntimeOK, Down

LEMMA LaunchedType ==
    ASSUME Launched
    PROVE  RuntimeOK'
<1>1. CASE runtime' = [up |-> TRUE, capture |-> TRUE] /\ restartAt' = FALSE
  BY <1>1, Zenon DEF RuntimeOK
<1>2. CASE runtime' = Down /\ restartAt' \in {FALSE, gen # NoGen}
  <2>1. restartAt' \in BOOLEAN
    BY <1>2, Zenon
  <2> QED
    BY <1>2, <2>1 DEF RuntimeOK, Down
<1> QED
  BY <1>1, <1>2, Zenon DEF Launched

LEMMA StartedType ==
    ASSUME RuntimeOK, Started
    PROVE  RuntimeOK'
<1>1. CASE runtime.up
  BY <1>1 DEF Started, RuntimeOK
<1>2. CASE ~runtime.up
  BY <1>2, LaunchedType DEF Started
<1> QED
  BY <1>1, <1>2

(***************************************************************************)
(* update_inner leaves the runtime alone while the service is disabled,    *)
(* and reports success only for what it has published.                     *)
(***************************************************************************)
LEMMA UpdateInnerLeaves ==
    ASSUME RuntimeOK, startPending \in BOOLEAN,
           NEW refresh \in BOOLEAN, NEW overrides, NEW ok \in BOOLEAN, NEW published \in BOOLEAN,
           UpdateInner(refresh, overrides, ok, published)
    PROVE  /\ RuntimeOK' /\ startPending' \in BOOLEAN
           /\ ~config.enabled => UNCHANGED <<runtime, restartAt, startPending>>
           /\ refresh /\ lastUpdate' = "succeeded" => published \/ ~config.enabled
<1>1. CASE UpdateRefused(refresh, ok, published)
  BY <1>1 DEF UpdateRefused, Status, RuntimeOK
<1>2. CASE Superseded(refresh, ok, published)
  BY <1>2 DEF Superseded, RuntimeOK
<1>3. CASE ActivationFails(refresh, ok, published)
  BY <1>3, LaunchedType, Zenon DEF ActivationFails, Status
<1>4. CASE UpdateBreaks(refresh, ok, published)
  BY <1>4, StoppedType DEF UpdateBreaks, Status
<1>5. CASE ReloadBreaks(refresh, overrides, ok, published)
  BY <1>5 DEF ReloadBreaks, Status, RuntimeOK
<1>6. CASE Publishes(refresh, overrides, ok, published)
  <2>1. config.enabled /\ published
    BY <1>6, Zenon DEF Publishes
  <2>2. CASE UNCHANGED <<runtime, restartAt, startPending>>
    BY <2>1, <2>2 DEF RuntimeOK
  <2>3. CASE /\ runtime' = [up |-> TRUE, capture |-> TRUE]
             /\ restartAt' = FALSE /\ startPending' = FALSE
    BY <2>1, <2>3, Zenon DEF RuntimeOK
  <2> QED
    BY <1>6, <2>2, <2>3, Zenon DEF Publishes
<1> QED
  BY <1>1, <1>2, <1>3, <1>4, <1>5, <1>6 DEF UpdateInner

-----------------------------------------------------------------------------
(* Steps *)

\* The request that is served next.
LEMMA FirstType ==
    ASSUME sent \in Seq(Requests), sent # <<>>
    PROVE  /\ Tail(sent) \in Seq(Requests)
           /\ First.kind # "none"
           /\ First.kind = "apply" => First.document \in Configs
                                      /\ First.document # First.expected
<1>1. First \in Requests /\ Tail(sent) \in Seq(Requests)
  BY HeadTailProperties DEF First
<1>2. ASSUME NEW request \in Requests
      PROVE  /\ request.kind # "none"
             /\ request.kind = "apply" => request.document \in Configs
                                          /\ request.document # request.expected
  BY <1>2 DEF Requests
<1> QED
  BY <1>1, <1>2

LEMMA TypeParts ==
    ASSUME TypeOK
    PROVE  /\ config \in Configs /\ RuntimeOK /\ startPending \in BOOLEAN /\ asked \in BOOLEAN
           /\ pending \in Seq(CommandNames) /\ sent \in Seq(Requests)
BY DEF TypeOK, RuntimeOK

\* The queue is run: what every command leaves as it is.
LEMMA QueueStep ==
    ASSUME IInv, mode = "commands",
           UNCHANGED <<config, sent, serving, answer, asked>>,
           pending' \in Seq(CommandNames), RuntimeOK', startPending' \in BOOLEAN,
           \/ mode' = "commands"
           \/ mode' \in {"down", "tick"} /\ Kind = "none"
           \/ mode' = "failed" /\ Kind # "none"
           \/ mode' = "done" /\ Kind # "none" /\ pending' = <<>>,
           Obedient'
    PROVE  IInv'
<1>1. Kind' = Kind
  BY Zenon DEF Kind
<1>2. TypeOK'
  BY <1>1, Zenon DEF IInv, TypeOK, RuntimeOK
<1>3. Served'
  BY <1>1, Zenon DEF IInv, Served
<1> QED
  BY <1>2, <1>3, Zenon DEF IInv, CompletedIsTrue

\* A request is answered and leaves the queue to others.
LEMMA AnswerStep ==
    ASSUME IInv, Polling, sent # <<>>, sent' = Tail(sent), UNCHANGED <<mode, serving>>,
           config' \in Configs, asked' \in BOOLEAN,
           pending' \in Seq(CommandNames), RuntimeOK', startPending' \in BOOLEAN,
           answer' = "fair", Obedient'
    PROVE  IInv'
<1>1. Kind' = Kind /\ Kind = "none" /\ mode = "poll"
  BY Zenon DEF Kind, IInv, Served, Polling
<1>2. sent' \in Seq(Requests)
  BY FirstType, Zenon DEF IInv, TypeOK
<1>3. TypeOK'
  BY <1>1, <1>2, Zenon DEF IInv, TypeOK, RuntimeOK
<1>4. Served'
  BY <1>1, Zenon DEF Served
<1> QED
  BY <1>3, <1>4, Zenon DEF IInv, CompletedIsTrue

\* A request runs the queue.
LEMMA RunStep ==
    ASSUME IInv, Polling, sent # <<>>, sent' = Tail(sent),
           NEW queue \in Seq(CommandNames), RunsQueue(queue),
           UNCHANGED <<runtime, restartAt, startPending>>,
           config' \in Configs, asked' \in BOOLEAN,
           First.kind \in {"start", "stop", "apply"} /\ ~config'.enabled => ~asked',
           First.kind = "stop" => ~config'.enabled,
           First.kind = "apply" => config' = First.document,
           Obedient'
    PROVE  IInv'
<1>1. /\ serving' = [request |-> First, was |-> config] /\ mode' = "commands"
      /\ pending' = queue /\ answer' = answer
  BY Zenon DEF RunsQueue
<1>2. Kind' = First.kind /\ serving'.request = First /\ serving'.was = config
  BY <1>1 DEF Kind
<1>3. sent' \in Seq(Requests) /\ First.kind # "none"
  BY FirstType, Zenon DEF IInv, TypeOK
<1>4. TypeOK'
  BY <1>1, <1>3, Zenon DEF IInv, TypeOK
<1>5. config \in Configs
  BY Zenon DEF IInv, TypeOK
<1>6. Served'
  BY <1>1, <1>2, <1>3, <1>5, Zenon DEF Served
<1> QED
  BY <1>1, <1>4, <1>6, Zenon DEF IInv, CompletedIsTrue

\* A request that has run the queue ends.
LEMMA EndStep ==
    ASSUME IInv, EndRequest, sent' = sent,
           config' \in Configs, asked' \in BOOLEAN,
           pending' \in Seq(CommandNames), RuntimeOK', startPending' \in BOOLEAN,
           answer' = "fair", Obedient'
    PROVE  IInv'
<1>1. Kind' = "none" /\ mode' = "poll"
  BY DEF EndRequest, Nobody, Kind
<1>2. TypeOK'
  BY <1>1, Zenon DEF IInv, TypeOK, RuntimeOK
<1>3. Served'
  BY <1>1, Zenon DEF Served
<1> QED
  BY <1>2, <1>3, Zenon DEF IInv, CompletedIsTrue

\* Taking a command off the queue.
LEMMA TakeStep ==
    ASSUME IInv, mode = "commands", pending # <<>>, pending' = Tail(pending),
           UNCHANGED <<config, sent, serving, answer, asked>>,
           RuntimeOK', startPending' \in BOOLEAN,
           \/ mode' = "commands"
           \/ mode' = "down" /\ Kind = "none"
           \/ mode' = "failed" /\ Kind # "none",
           \/ Head(pending) = "start"
           \/ Head(pending) = "stop" /\ ~runtime'.up /\ ~restartAt' /\ ~startPending'
           \/ /\ Head(pending) # "stop"
              /\ ~config.enabled /\ ~runtime.up
                    => UNCHANGED <<runtime, restartAt, startPending>>
    PROVE  IInv'
<1>1. pending \in Seq(CommandNames)
  BY Zenon DEF IInv, TypeOK
<1>2. /\ pending' \in Seq(CommandNames)
      /\ Stopping(pending) => Head(pending) = "stop" /\ Calm(pending')
      /\ Calm(pending) => Head(pending) # "start" /\ Calm(pending')
  BY <1>1, TailLeaves
<1>3. Obedient'
  <2> SUFFICES ASSUME ~config.enabled, ~asked
               PROVE  ~runtime'.up /\ ~restartAt' /\ ~startPending' /\ Calm(pending')
    BY Zenon DEF Obedient
  <2>1. CASE Stopping(pending)
    <3>1. Head(pending) = "stop" /\ Calm(pending')
      BY <1>2, <2>1
    <3>2. "stop" # "start"
      OBVIOUS
    <3> QED
      BY <3>1, <3>2
  <2>2. CASE ~runtime.up /\ ~restartAt /\ ~startPending /\ Calm(pending)
    BY <1>2, <2>2
  <2> QED
    BY <2>1, <2>2, Zenon DEF IInv, Obedient
<1> QED
  BY <1>2, <1>3, QueueStep

LEMMA CommandsIInv == IInv /\ Commands => IInv'
<1> SUFFICES ASSUME IInv, Commands PROVE IInv'
  OBVIOUS
<1>0. /\ config \in Configs /\ RuntimeOK /\ startPending \in BOOLEAN
      /\ pending \in Seq(CommandNames)
  BY TypeParts DEF IInv
<1>b. ASSUME Broken PROVE \/ mode' = "down" /\ Kind = "none"
                          \/ mode' = "failed" /\ Kind # "none"
  BY <1>b, Zenon DEF Broken
<1>r. ASSUME UNCHANGED <<runtime, restartAt>> PROVE RuntimeOK'
  BY <1>0, <1>r, Zenon DEF RuntimeOK
<1>1. CASE TakeStart
  <2>1. /\ mode = "commands" /\ mode' = mode /\ startPending' = TRUE
        /\ UNCHANGED <<runtime, restartAt>>
    BY <1>1, Zenon DEF TakeStart, InQueue
  <2>2. startPending' \in BOOLEAN
    BY <2>1, Zenon
  <2> QED
    BY <1>1, <1>r, <2>1, <2>2, TakeStep, Zenon DEF TakeStart
<1>2. CASE TakeStop
  <2>1. Stopped /\ (mode' = mode \/ Broken) /\ mode = "commands"
    BY <1>2, Zenon DEF TakeStop, InQueue
  <2>2. RuntimeOK' /\ startPending' \in BOOLEAN
        /\ ~runtime'.up /\ ~restartAt' /\ ~startPending'
    BY <2>1, StoppedType, Zenon
  <2> QED
    BY <1>2, <1>b, <2>1, <2>2, TakeStep, Zenon DEF TakeStop
<1>3. CASE TakeProbe \/ TakeUnknown
  <2>1. /\ mode = "commands" /\ (mode' = mode \/ Broken)
        /\ Head(pending) \in {"probe", "unknown"} /\ pending # <<>> /\ pending' = Tail(pending)
        /\ UNCHANGED <<config, sent, serving, answer, asked, runtime, restartAt, startPending>>
    BY <1>3, Zenon DEF TakeProbe, TakeUnknown, InQueue
  <2>2. Head(pending) # "stop" /\ startPending' \in BOOLEAN
    BY <1>0, <2>1
  <2> QED
    BY <1>b, <1>r, <2>1, <2>2, TakeStep, Zenon
<1>4. CASE TakeUpdate
  <2>1. PICK ok \in BOOLEAN, published \in BOOLEAN :
           /\ UpdateInner(Head(pending) # "rebuild", gen.overrides, ok, published)
           /\ IF ok THEN UNCHANGED mode ELSE Broken
    BY <1>4, Zenon DEF TakeUpdate
  <2>2. (Head(pending) # "rebuild") \in BOOLEAN
    OBVIOUS
  <2>3. /\ RuntimeOK' /\ startPending' \in BOOLEAN
        /\ ~config.enabled => UNCHANGED <<runtime, restartAt, startPending>>
    BY <1>0, <2>1, <2>2, UpdateInnerLeaves, Zenon
  <2>4. Head(pending) # "stop"
    BY <1>4 DEF TakeUpdate
  <2>5. mode = "commands" /\ (mode' = mode \/ Broken)
    BY <1>4, <2>1, Zenon DEF TakeUpdate, InQueue
  <2> QED
    BY <1>4, <1>b, <2>3, <2>4, <2>5, TakeStep, Zenon DEF TakeUpdate
<1>5. CASE TakeRuleSets
  <2>1. /\ mode = "commands" /\ mode' = mode /\ Head(pending) = "ruleSets"
        /\ \/ UNCHANGED <<runtime, restartAt, startPending>>
           \/ runtime.up /\ Launched /\ startPending' = FALSE
    BY <1>5, Zenon DEF TakeRuleSets, InQueue
  <2>2. Head(pending) # "stop"
    BY <2>1
  <2>3. RuntimeOK' /\ startPending' \in BOOLEAN
    BY <1>0, <1>r, <2>1, LaunchedType, Zenon
  <2> QED
    BY <1>5, <2>1, <2>2, <2>3, TakeStep, Zenon DEF TakeRuleSets
<1>6. CASE HandleStart
  <2>1. /\ mode = "commands" /\ pending = <<>> /\ pending' = <<>> /\ startPending' = FALSE
        /\ mode' = IF Kind = "none" THEN "tick" ELSE "done"
        /\ IF startPending THEN Started ELSE UNCHANGED <<runtime, restartAt>>
        /\ UNCHANGED <<config, sent, serving, answer, asked>>
    BY <1>6, Zenon DEF HandleStart, InQueue
  <2>2. RuntimeOK' /\ startPending' \in BOOLEAN /\ pending' \in Seq(CommandNames)
    BY <1>0, <1>r, <2>1, StartedType, Zenon
  <2>3. ~Stopping(pending) /\ Calm(pending')
    BY <2>1 DEF Stopping, Calm
  <2>4. Obedient'
    BY <2>1, <2>3, Zenon DEF IInv, Obedient
  <2>5. \/ mode' = "tick" /\ Kind = "none"
        \/ mode' = "done" /\ Kind # "none"
    BY <2>1, Zenon
  <2> QED
    BY <2>1, <2>2, <2>4, <2>5, QueueStep, Zenon
<1> QED
  BY <1>1, <1>2, <1>3, <1>4, <1>5, <1>6, Zenon DEF Commands

\* A command that starts nothing may be queued at any time.
LEMMA HarmlessQueued ==
    ASSUME IInv, NEW command \in CommandNames \ {"start", "stop"},
           pending' = Queued(pending, command),
           UNCHANGED <<config, asked, runtime, restartAt, startPending>>
    PROVE  pending' \in Seq(CommandNames) /\ Obedient'
<1>1. pending \in Seq(CommandNames)
  BY Zenon DEF IInv, TypeOK
<1>2. /\ pending' \in Seq(CommandNames)
      /\ Calm(pending) => Calm(pending')
      /\ Stopping(pending) => Stopping(pending')
  BY <1>1, QueuedLast
<1> QED
  BY <1>2, Zenon DEF IInv, Obedient

\* Nothing that the invariant speaks of changes but what runs, which stays
\* down while the service is disabled.
LEMMA StillObedient ==
    ASSUME IInv, UNCHANGED <<config, asked, pending>>,
           ~config.enabled /\ ~asked /\ ~runtime.up /\ ~restartAt /\ ~startPending
               => ~runtime'.up /\ ~restartAt' /\ ~startPending'
    PROVE  Obedient'
BY Zenon DEF IInv, Obedient

\* update and import answer only for what is published.
LEMMA AnsweredUpdateLeaves ==
    ASSUME RuntimeOK, startPending \in BOOLEAN, AnsweredUpdate
    PROVE  /\ RuntimeOK' /\ startPending' \in BOOLEAN
           /\ ~config.enabled => UNCHANGED <<runtime, restartAt, startPending>>
           /\ answer' = "fair"
<1>1. PICK ok \in BOOLEAN, published \in BOOLEAN :
         /\ UpdateInner(TRUE, gen.overrides, ok, published)
         /\ Reply(Completed(ok), published \/ ~config.enabled)
  BY Zenon DEF AnsweredUpdate
<1>2. /\ RuntimeOK' /\ startPending' \in BOOLEAN
      /\ ~config.enabled => UNCHANGED <<runtime, restartAt, startPending>>
      /\ lastUpdate' = "succeeded" => published \/ ~config.enabled
  <2>1. TRUE \in BOOLEAN
    OBVIOUS
  <2> QED
    BY <1>1, <2>1, UpdateInnerLeaves, Zenon
<1>3. answer' = "fair"
  BY <1>1, <1>2, Zenon DEF Reply, Completed
<1> QED
  BY <1>2, <1>3

LEMMA AnsweredOverrideLeaves ==
    ASSUME RuntimeOK, startPending \in BOOLEAN, AnsweredOverride
    PROVE  /\ RuntimeOK' /\ startPending' \in BOOLEAN
           /\ ~config.enabled => UNCHANGED <<runtime, restartAt, startPending>>
           /\ answer' = "fair"
<1> DEFINE over == First.overrides
<1>1. PICK ok \in BOOLEAN, published \in BOOLEAN :
         /\ UpdateInner(FALSE, over, ok, published)
         /\ Reply(ok /\ gen'.overrides = over, gen'.overrides = over)
  BY Zenon DEF AnsweredOverride
<1>2. /\ RuntimeOK' /\ startPending' \in BOOLEAN
      /\ ~config.enabled => UNCHANGED <<runtime, restartAt, startPending>>
  <2>1. FALSE \in BOOLEAN
    OBVIOUS
  <2> QED
    BY <1>1, <2>1, UpdateInnerLeaves, Zenon
<1>3. answer' = "fair"
  BY <1>1, Zenon DEF Reply
<1> QED
  BY <1>2, <1>3

\* Requests that are answered at once and leave the configuration alone.
LEMMA AnsweredIInv ==
    IInv /\ (Queue \/ QueueUpdate \/ Update \/ Import \/ Override \/ CoreStop \/ CaptureOff)
        => IInv'
<1> SUFFICES ASSUME IInv, Queue \/ QueueUpdate \/ Update \/ Import \/ Override
                          \/ CoreStop \/ CaptureOff
             PROVE  IInv'
  OBVIOUS
<1>0. /\ config \in Configs /\ RuntimeOK /\ startPending \in BOOLEAN /\ asked \in BOOLEAN
      /\ pending \in Seq(CommandNames)
  BY TypeParts DEF IInv
<1>r. ASSUME UNCHANGED <<runtime, restartAt, startPending>>
      PROVE  RuntimeOK' /\ startPending' \in BOOLEAN
  BY <1>0, <1>r, Zenon DEF RuntimeOK
<1>f. ASSUME NEW ok, Reply(ok, TRUE) PROVE answer' = "fair"
  BY <1>f, Zenon DEF Reply
<1>c. config \in Configs /\ asked \in BOOLEAN
  BY <1>0
<1>1. CASE Queue \/ QueueUpdate
  <2>1. PICK command : /\ command \in {"probe", "ruleSets", "update", "unknown"}
                       /\ Accepted(Queued(pending, command))
    BY <1>1, Zenon DEF Queue, QueueUpdate, Asks
  <2>2. command \in CommandNames \ {"start", "stop"}
    BY <2>1 DEF CommandNames
  <2>3. /\ Polling /\ sent # <<>> /\ sent' = Tail(sent)
        /\ UNCHANGED <<config, asked, mode, serving, runtime, restartAt, startPending>>
        /\ pending' = Queued(pending, command) /\ Reply(TRUE, TRUE)
    BY <1>1, <2>1, Zenon DEF Queue, QueueUpdate, Asks, Accepted
  <2>4. pending' \in Seq(CommandNames) /\ Obedient'
    BY <2>2, <2>3, HarmlessQueued, Zenon
  <2> QED
    BY <1>c, <1>f, <1>r, <2>3, <2>4, AnswerStep, Zenon
<1>2. CASE Update \/ Import \/ Override
  <2>1. /\ Polling /\ sent # <<>> /\ sent' = Tail(sent)
        /\ UNCHANGED <<config, asked, mode, serving, pending>>
    BY <1>2, Zenon DEF Update, Import, Override, Asks
  <2>2. \/ AnsweredUpdate \/ AnsweredOverride
        \/ /\ UNCHANGED <<runtime, restartAt, startPending>>
           /\ Reply(FALSE, TRUE) \/ Reply(runtime.up, TRUE)
    BY <1>2, Zenon DEF Update, Import, Override
  <2>3. /\ RuntimeOK' /\ startPending' \in BOOLEAN
        /\ ~config.enabled => UNCHANGED <<runtime, restartAt, startPending>>
        /\ answer' = "fair"
    BY <1>0, <1>f, <1>r, <2>2, AnsweredUpdateLeaves, AnsweredOverrideLeaves, Zenon
  <2>4. ~config.enabled /\ ~runtime.up /\ ~restartAt /\ ~startPending
           => ~runtime'.up /\ ~restartAt' /\ ~startPending'
    BY <2>3, Zenon
  <2>5. Obedient'
    BY <2>1, <2>4, StillObedient, Zenon
  <2> QED
    BY <1>0, <2>1, <2>3, <2>5, AnswerStep, Zenon
<1>3. CASE CoreStop
  <2>1. /\ Polling /\ sent # <<>> /\ sent' = Tail(sent)
        /\ UNCHANGED <<config, asked, mode, serving, pending>>
        /\ Stopped /\ (Reply(TRUE, TRUE) \/ Reply(FALSE, TRUE))
    BY <1>3, Zenon DEF CoreStop, Asks
  <2>2. /\ RuntimeOK' /\ startPending' \in BOOLEAN
        /\ ~runtime'.up /\ ~restartAt' /\ ~startPending'
    BY <2>1, StoppedType, Zenon
  <2>3. Obedient'
    BY <2>1, <2>2, StillObedient, Zenon
  <2> QED
    BY <1>0, <1>f, <2>1, <2>2, <2>3, AnswerStep, Zenon
<1>4. CASE CaptureOff
  <2>1. /\ Polling /\ sent # <<>> /\ sent' = Tail(sent)
        /\ UNCHANGED <<config, asked, mode, serving, pending, restartAt, startPending>>
        /\ \/ runtime' = [runtime EXCEPT !.capture = FALSE]
           \/ runtime' = runtime
        /\ Reply(TRUE, TRUE) \/ Reply(FALSE, TRUE)
    BY <1>4, Zenon DEF CaptureOff, Asks
  <2>2. (~runtime.up => ~runtime'.up) /\ RuntimeOK'
    BY <1>0, <2>1, Zenon DEF RuntimeOK
  <2>3. Obedient'
    BY <2>1, <2>2, StillObedient, Zenon
  <2>4. startPending' \in BOOLEAN
    BY <1>0, <2>1, Zenon
  <2> QED
    BY <1>0, <1>f, <2>1, <2>2, <2>3, <2>4, AnswerStep, Zenon
<1> QED
  BY <1>1, <1>2, <1>3, <1>4

\* Requests for the service and the core: they ask past the configuration,
\* or change it, with the commands that this takes.
LEMMA SwitchedIInv ==
    IInv /\ (ServiceRestart \/ ServiceSwitch \/ ConfigApply \/ CoreStart \/ CaptureOn) => IInv'
<1> SUFFICES ASSUME IInv, ServiceRestart \/ ServiceSwitch \/ ConfigApply \/ CoreStart
                          \/ CaptureOn
             PROVE  IInv'
  OBVIOUS
<1>0. /\ config \in Configs /\ RuntimeOK /\ startPending \in BOOLEAN /\ asked \in BOOLEAN
      /\ pending \in Seq(CommandNames)
  BY TypeParts DEF IInv
<1>r. ASSUME UNCHANGED <<runtime, restartAt, startPending>>
      PROVE  RuntimeOK' /\ startPending' \in BOOLEAN
  BY <1>0, <1>r, Zenon DEF RuntimeOK
<1>f. ASSUME NEW ok, Reply(ok, TRUE) PROVE answer' = "fair"
  BY <1>f, Zenon DEF Reply
<1>s. "start" \in CommandNames /\ "stop" \in CommandNames
  BY DEF CommandNames
<1>q. /\ Queued(pending, "start") \in Seq(CommandNames)
      /\ Queued(Queued(pending, "stop"), "start") \in Seq(CommandNames)
  <2>1. Queued(pending, "stop") \in Seq(CommandNames)
    BY <1>0, QueuedStop
  <2> QED
    BY <1>0, <1>s, <2>1, QueuedLast
<1>a. ASSUME asked' = TRUE PROVE Obedient' /\ asked' \in BOOLEAN
  BY <1>a, Zenon DEF Obedient
\* What is asked past the configuration leaves that alone.
<1>p. ASSUME NEW queue \in Seq(CommandNames), asked' = TRUE,
             Polling, sent # <<>>, sent' = Tail(sent),
             (RunsQueue(queue) /\ UNCHANGED config) \/ Accepted(queue),
             UNCHANGED <<runtime, restartAt, startPending>>,
             First.kind \notin {"start", "stop", "apply"}
      PROVE  IInv'
  <2>0. config' = config
    BY <1>p, Zenon DEF Accepted
  <2>1. config' \in Configs
    BY <1>0, <2>0, Zenon
  <2>2. CASE RunsQueue(queue)
    BY <1>a, <1>p, <2>1, <2>2, RunStep, Zenon
  <2>3. CASE Accepted(queue)
    <3>1. pending' = queue /\ Reply(TRUE, TRUE) /\ UNCHANGED <<mode, serving>>
      BY <2>3, Zenon DEF Accepted
    <3> QED
      BY <1>a, <1>f, <1>p, <1>r, <2>1, <3>1, AnswerStep, Zenon
  <2> QED
    BY <1>p, <2>2, <2>3, Zenon
<1>1. CASE ServiceRestart
  <2>1. First.kind = "restart"
    BY <1>1, Zenon DEF ServiceRestart, Asks
  <2>2. First.kind \notin {"start", "stop", "apply"}
    BY <2>1
  <2> QED
    BY <1>1, <1>p, <1>q, <2>2, Zenon DEF ServiceRestart, Asks
<1>2. CASE CoreStart
  <2>1. First.kind = "coreStart"
    BY <1>2, Zenon DEF CoreStart, Asks
  <2>2. First.kind \notin {"start", "stop", "apply"}
    BY <2>1
  <2> QED
    BY <1>2, <1>p, <1>q, <2>2, Zenon DEF CoreStart, Asks
<1>3. CASE CaptureOn
  <2>1. First.kind = "captureOn"
    BY <1>3, Zenon DEF CaptureOn, Asks
  <2>2. First.kind \notin {"start", "stop", "apply"}
    BY <2>1
  <2>3. CASE ~runtime.up
    BY <1>3, <1>p, <1>q, <2>2, <2>3, Zenon DEF CaptureOn, Asks
  <2>4. CASE runtime.up
    <3>1. /\ Captures /\ Polling /\ sent # <<>> /\ sent' = Tail(sent)
          /\ UNCHANGED <<config, pending, mode, serving, asked, restartAt, startPending>>
      BY <1>3, <2>4, Zenon DEF CaptureOn, Asks
    <3>2. /\ runtime' = [runtime EXCEPT !.capture = TRUE] \/ runtime' = runtime
          /\ Reply(TRUE, TRUE) \/ Reply(FALSE, TRUE)
      BY <3>1, Zenon DEF Captures
    <3>3. RuntimeOK'
      BY <1>0, <2>4, <3>1, <3>2, Zenon DEF RuntimeOK
    <3>4. Obedient'
      BY <2>4, <3>1, StillObedient, Zenon
    <3>5. startPending' \in BOOLEAN /\ pending' \in Seq(CommandNames) /\ config' \in Configs
          /\ asked' \in BOOLEAN
      BY <1>0, <3>1, Zenon
    <3> QED
      BY <1>f, <3>1, <3>2, <3>3, <3>4, <3>5, AnswerStep, Zenon
  <2> QED
    BY <2>3, <2>4
<1>4. CASE ServiceSwitch
  <2> DEFINE on == First.kind = "start"
             to == [config EXCEPT !.enabled = on]
  <2>1. to \in Configs /\ (to.enabled <=> on)
    BY <1>0, Zenon DEF Configs
  <2>2. PICK queue \in IF to = config THEN {Queued(pending, First.kind)}
                       ELSE ChangeQueues(config, to, pending) :
            /\ config' = to
            /\ IF First.wait THEN RunsQueue(queue)
               ELSE /\ pending' = queue
                    /\ Reply(TRUE, TRUE)
                    /\ UNCHANGED <<mode, serving>>
            /\ asked' = (asked /\ to.enabled)
    BY <1>4, Zenon DEF ServiceSwitch
  <2>3. /\ Polling /\ sent # <<>> /\ sent' = Tail(sent)
        /\ First.kind \in {"start", "stop"}
        /\ UNCHANGED <<runtime, restartAt, startPending>>
    BY <1>4, Zenon DEF ServiceSwitch, Asks
  <2> HIDE DEF to
  <2>4. queue \in Seq(CommandNames) /\ (~to.enabled => Stopping(queue))
    <3>1. CASE to = config
      <4>1. queue = Queued(pending, First.kind)
        BY <2>2, <3>1, Zenon
      <4>2. CASE on
        BY <1>q, <2>1, <4>1, <4>2, Zenon
      <4>3. CASE ~on
        <5>1. First.kind = "stop"
          BY <2>3, <4>3, Zenon
        <5> QED
          BY <1>0, <4>1, <5>1, QueuedStop, Zenon
      <4> QED
        BY <4>2, <4>3, Zenon
    <3>2. CASE to # config
      <4>1. queue \in ChangeQueues(config, to, pending)
        BY <2>2, <3>2, Zenon
      <4> QED
        BY <1>0, <2>1, <3>2, <4>1, ChangeQueuesLeave
    <3> QED
      BY <3>1, <3>2, Zenon
  <2>5. asked' \in BOOLEAN /\ (~config'.enabled => ~asked') /\ config' \in Configs
    BY <1>0, <2>1, <2>2, Zenon
  <2>6. pending' = queue
    BY <2>2, Zenon DEF RunsQueue
  <2>7. Obedient'
    BY <2>2, <2>4, <2>6, Zenon DEF Obedient
  <2>8. First.kind # "apply" /\ (First.kind = "stop" => ~config'.enabled)
    <3>1. First.kind # "apply" /\ (First.kind = "stop" => ~on)
      BY <2>3
    <3> QED
      BY <2>1, <2>2, <3>1, Zenon
  <2>9. CASE First.wait
    BY <2>2, <2>3, <2>4, <2>5, <2>7, <2>8, <2>9, RunStep, Zenon
  <2>10. CASE ~First.wait
    BY <1>f, <1>r, <2>2, <2>3, <2>4, <2>5, <2>7, <2>10, AnswerStep, Zenon
  <2> QED
    BY <2>9, <2>10, Zenon
<1>5. CASE ConfigApply
  <2>1. /\ Polling /\ sent # <<>> /\ sent' = Tail(sent) /\ First.kind = "apply"
        /\ UNCHANGED <<runtime, restartAt, startPending>>
    BY <1>5, Zenon DEF ConfigApply, Asks
  <2>2. First.document \in Configs /\ First.document # First.expected
    BY <2>1, FirstType, Zenon DEF IInv, TypeOK
  <2>3. CASE First.expected # config
    <3>1. Reply(FALSE, TRUE) /\ UNCHANGED <<config, pending, mode, serving, asked>>
      BY <1>5, <2>3, Zenon DEF ConfigApply
    <3>2. Obedient'
      BY <2>1, <3>1, StillObedient, Zenon
    <3>3. pending' \in Seq(CommandNames) /\ config' \in Configs /\ asked' \in BOOLEAN
      BY <1>0, <3>1, Zenon
    <3> QED
      BY <1>f, <1>r, <2>1, <3>1, <3>2, <3>3, AnswerStep, Zenon
  <2>4. CASE First.expected = config
    <3>1. /\ config' = First.document
          /\ asked' = (asked /\ config'.enabled)
          /\ \E queue \in ChangeQueues(config, config', pending) : RunsQueue(queue)
      BY <1>5, <2>4, Zenon DEF ConfigApply
    <3>2. PICK queue \in ChangeQueues(config, config', pending) : RunsQueue(queue)
      BY <3>1, Zenon
    <3>3. config' \in Configs /\ config' # config
      BY <2>2, <2>4, <3>1, Zenon
    <3>4. queue \in Seq(CommandNames) /\ (~config'.enabled => Stopping(queue))
      BY <1>0, <3>2, <3>3, ChangeQueuesLeave, Zenon
    <3>5. asked' \in BOOLEAN /\ (~config'.enabled => ~asked')
      BY <1>0, <3>1, Zenon
    <3>6. pending' = queue
      BY <3>2, Zenon DEF RunsQueue
    <3>7. Obedient'
      BY <3>4, <3>6, Zenon DEF Obedient
    <3>8. First.kind # "stop"
      BY <2>1
    <3> QED
      BY <2>1, <3>1, <3>2, <3>3, <3>4, <3>5, <3>7, <3>8, RunStep, Zenon
  <2> QED
    BY <2>3, <2>4, Zenon
<1> QED
  BY <1>1, <1>2, <1>3, <1>4, <1>5

\* The end of a request that has run the queue: a stop that reports so has
\* stopped, and a document that was not taken is taken back.
LEMMA EndedIInv ==
    IInv /\ (Complete \/ Fail \/ StartAnyway \/ CaptureStarted) => IInv'
<1> SUFFICES ASSUME IInv, Complete \/ Fail \/ StartAnyway \/ CaptureStarted PROVE IInv'
  OBVIOUS
<1>0. /\ config \in Configs /\ RuntimeOK /\ startPending \in BOOLEAN /\ asked \in BOOLEAN
      /\ pending \in Seq(CommandNames)
  BY TypeParts DEF IInv
<1>r. ASSUME UNCHANGED <<runtime, restartAt>> PROVE RuntimeOK'
  BY <1>0, <1>r, Zenon DEF RuntimeOK
<1>f. ASSUME NEW ok, Reply(ok, TRUE) PROVE answer' = "fair"
  BY <1>f, Zenon DEF Reply
<1>1. CASE Complete
  <2>1. /\ mode = "done" /\ EndRequest
        /\ Reply(Kind = "coreStart" /\ serving.request.wait => runtime.up, Holds)
        /\ UNCHANGED <<config, runtime, restartAt, pending, startPending, sent, asked>>
    BY <1>1, Zenon DEF Complete
  <2>2. Obedient'
    BY <2>1, StillObedient, Zenon
  <2>3. (Kind = "coreStart" /\ serving.request.wait => runtime.up) => Holds
    <3>1. CASE Kind = "stop"
      <4>1. ~config.enabled /\ ~asked /\ pending = <<>>
        BY <2>1, <3>1, Zenon DEF IInv, Served
      <4>2. ~Stopping(pending)
        BY <4>1, Zenon DEF Stopping
      <4>3. ~runtime.up /\ ~restartAt
        BY <4>1, <4>2, Zenon DEF IInv, Obedient
      <4> QED
        BY <3>1, <4>3 DEF Holds
    <3>2. CASE Kind = "apply"
      <4>1. config = serving.request.document
        BY <3>2, Zenon DEF IInv, Served
      <4> QED
        BY <3>2, <4>1 DEF Holds
    <3>3. CASE Kind \notin {"stop", "apply"}
      BY <3>3 DEF Holds
    <3> QED
      BY <3>1, <3>2, <3>3
  <2>4. answer' = "fair"
    BY <2>1, <2>3, Zenon DEF Reply
  <2>5. /\ startPending' \in BOOLEAN /\ asked' \in BOOLEAN
        /\ pending' \in Seq(CommandNames) /\ config' \in Configs
    BY <1>0, <2>1, Zenon
  <2> QED
    BY <1>r, <2>1, <2>2, <2>4, <2>5, EndStep, Zenon
<1>2. CASE Fail
  <2>1. /\ mode = "failed" /\ RolledBack /\ Reply(FALSE, TRUE) /\ EndRequest
        /\ UNCHANGED <<runtime, restartAt, startPending, sent>>
    BY <1>2, Zenon DEF Fail
  <2>2. CASE Kind \notin {"start", "stop", "apply"}
    <3>1. UNCHANGED <<config, pending, asked>>
      BY <2>1, <2>2, Zenon DEF RolledBack
    <3>2. Obedient'
      BY <2>1, <3>1, StillObedient, Zenon
    <3>3. /\ startPending' \in BOOLEAN /\ asked' \in BOOLEAN
          /\ pending' \in Seq(CommandNames) /\ config' \in Configs
      BY <1>0, <2>1, <3>1, Zenon
    <3> QED
      BY <1>f, <1>r, <2>1, <3>2, <3>3, EndStep, Zenon
  <2>3. CASE Kind \in {"start", "stop", "apply"}
    <3>1. /\ config' = serving.was
          /\ asked' = (asked /\ config'.enabled)
          /\ \E queue \in ChangeQueues(config, serving.was, pending) : pending' = queue
      BY <2>1, <2>3, Zenon DEF RolledBack
    <3>2. config' \in Configs
      <4>1. Kind # "none"
        BY <2>3
      <4> QED
        BY <3>1, <4>1, Zenon DEF IInv, Served
    <3>3. pending' \in ChangeQueues(config, config', pending)
      BY <3>1, Zenon
    <3>4. /\ pending' \in Seq(CommandNames)
          /\ config = config' => pending' = pending
          /\ config # config' /\ ~config'.enabled => Stopping(pending')
      BY <1>0, <3>2, <3>3, ChangeQueuesLeave, Zenon
    <3>5. ~config.enabled => ~asked
      BY <2>3, Zenon DEF IInv, Served
    <3>6. Obedient'
      <4>1. CASE config' = config
        <5>1. asked' = asked \/ config.enabled
          BY <1>0, <3>1, <3>5, <4>1, Zenon
        <5> QED
          BY <2>1, <3>4, <3>5, <4>1, <5>1, Zenon DEF IInv, Obedient
      <4>2. CASE config' # config
        BY <3>4, <4>2, Zenon DEF Obedient
      <4> QED
        BY <4>1, <4>2, Zenon
    <3>7. startPending' \in BOOLEAN /\ asked' \in BOOLEAN
      BY <1>0, <2>1, <3>1, Zenon
    <3> QED
      BY <1>f, <1>r, <2>1, <3>2, <3>4, <3>6, <3>7, EndStep, Zenon
  <2> QED
    BY <2>2, <2>3, Zenon
<1>3. CASE StartAnyway
  <2>1. /\ mode = "failed" /\ Kind \in {"coreStart", "captureOn"}
        /\ IF startPending THEN Started ELSE UNCHANGED <<runtime, restartAt>>
        /\ startPending' = FALSE /\ mode' = "done"
        /\ UNCHANGED <<config, pending, sent, serving, answer, asked>>
    BY <1>3, Zenon DEF StartAnyway, StartsAnyway
  <2>2. RuntimeOK' /\ startPending' \in BOOLEAN
    BY <1>0, <1>r, <2>1, StartedType, Zenon
  <2>3. ~startPending => UNCHANGED <<runtime, restartAt>>
    BY <2>1, Zenon
  <2>4. ~runtime.up /\ ~restartAt /\ ~startPending
           => ~runtime'.up /\ ~restartAt' /\ ~startPending'
    BY <2>1, <2>3, Zenon
  <2>5. Obedient'
    BY <2>1, <2>4, StillObedient, Zenon
  <2>6. Kind' = Kind /\ Kind # "none" /\ Kind \notin {"start", "stop", "apply"}
    <3>1. Kind' = Kind
      BY <2>1, Zenon DEF Kind
    <3> QED
      BY <2>1, <3>1
  <2>7. TypeOK'
    BY <2>1, <2>2, <2>6, Zenon DEF IInv, TypeOK, RuntimeOK
  <2>8. Served'
    BY <2>1, <2>6, Zenon DEF IInv, Served
  <2> QED
    BY <2>1, <2>5, <2>7, <2>8, Zenon DEF IInv, CompletedIsTrue
<1>4. CASE CaptureStarted
  <2>1. /\ Captures /\ EndRequest
        /\ UNCHANGED <<config, restartAt, pending, startPending, sent, asked>>
    BY <1>4, Zenon DEF CaptureStarted
  <2>2. /\ \/ runtime.up /\ runtime' = [runtime EXCEPT !.capture = TRUE]
           \/ runtime' = runtime
        /\ Reply(TRUE, TRUE) \/ Reply(FALSE, TRUE)
    BY <2>1, Zenon DEF Captures
  <2>3. RuntimeOK' /\ (~runtime.up => ~runtime'.up)
    BY <1>0, <2>1, <2>2, Zenon DEF RuntimeOK
  <2>4. Obedient'
    BY <2>1, <2>3, StillObedient, Zenon
  <2>5. /\ startPending' \in BOOLEAN /\ asked' \in BOOLEAN
        /\ pending' \in Seq(CommandNames) /\ config' \in Configs
    BY <1>0, <2>1, Zenon
  <2> QED
    BY <1>f, <2>1, <2>2, <2>3, <2>4, <2>5, EndStep, Zenon
<1> QED
  BY <1>1, <1>2, <1>3, <1>4

\* A step that serves nobody: it ends where nobody is served either.
LEMMA AloneStep ==
    ASSUME IInv, mode \in {"poll", "tick", "down"},
           mode' \in {"poll", "commands", "tick", "down"},
           UNCHANGED <<config, serving, answer>>, sent' \in Seq(Requests), asked' \in BOOLEAN,
           pending' \in Seq(CommandNames), RuntimeOK', startPending' \in BOOLEAN, Obedient'
    PROVE  IInv'
<1>1. Kind = "none" /\ Kind' = "none"
  BY Zenon DEF IInv, Served, Kind
<1>2. mode' \notin {"done", "failed"}
      /\ mode' \in {"poll", "commands", "done", "failed", "tick", "down"}
  OBVIOUS
<1>3. TypeOK'
  BY <1>2, Zenon DEF IInv, TypeOK, RuntimeOK
<1>4. Served'
  BY <1>1 DEF Served
<1> QED
  BY <1>3, <1>4, Zenon DEF IInv, CompletedIsTrue

\* The turns of the worker that no request asks for.
LEMMA AloneIInv ==
    ASSUME IInv, \/ Send \/ NothingDue \/ UpdateDue \/ SceneChanges
                 \/ Quiet \/ CoreExits \/ TickFails \/ RestartDue \/ Relaunch
    PROVE  IInv'
<1>0. /\ config \in Configs /\ RuntimeOK /\ startPending \in BOOLEAN /\ asked \in BOOLEAN
      /\ pending \in Seq(CommandNames) /\ sent \in Seq(Requests)
  BY TypeParts DEF IInv
<1>r. ASSUME UNCHANGED <<runtime, restartAt>> PROVE RuntimeOK'
  BY <1>0, <1>r, Zenon DEF RuntimeOK
<1>1. CASE Send \/ NothingDue \/ Quiet
  <2>1. /\ UNCHANGED <<config, runtime, restartAt, pending, startPending, serving, answer,
                       asked>>
        /\ mode \in {"poll", "tick"} /\ mode' \in {"poll", "commands"}
    BY <1>1, Zenon DEF Send, NothingDue, RunReady, Polling, Quiet, Tick
  <2>2. sent' \in Seq(Requests)
    <3>1. CASE Send
      <4>1. PICK request \in Requests : sent' = Append(sent, request)
        BY <3>1, Zenon DEF Send
      <4> QED
        BY <1>0, <4>1, AppendProperties, Zenon
    <3>2. CASE sent' = sent
      BY <1>0, <3>2, Zenon
    <3> QED
      BY <1>1, <3>1, <3>2, Zenon DEF NothingDue, RunReady, Quiet, Tick
  <2>3. Obedient'
    BY <2>1, StillObedient, Zenon
  <2>4. /\ startPending' \in BOOLEAN /\ asked' \in BOOLEAN /\ pending' \in Seq(CommandNames)
        /\ mode \in {"poll", "tick", "down"} /\ mode' \in {"poll", "commands", "tick", "down"}
    BY <1>0, <2>1, Zenon
  <2> QED
    BY <1>r, <2>1, <2>2, <2>3, <2>4, AloneStep, Zenon
<1>2. CASE UpdateDue
  <2>1. /\ UNCHANGED <<config, runtime, restartAt, startPending, sent, serving, answer, asked>>
        /\ mode = "poll" /\ mode' = "commands" /\ pending' = Queued(pending, "update")
    BY <1>2, Zenon DEF UpdateDue, RunReady, Polling
  <2>2. "update" \in CommandNames \ {"start", "stop"}
    BY DEF CommandNames
  <2>3. pending' \in Seq(CommandNames) /\ Obedient'
    BY <2>1, <2>2, HarmlessQueued, Zenon
  <2>4. /\ startPending' \in BOOLEAN /\ asked' \in BOOLEAN /\ sent' \in Seq(Requests)
        /\ mode \in {"poll", "tick", "down"} /\ mode' \in {"poll", "commands", "tick", "down"}
    BY <1>0, <2>1, Zenon
  <2> QED
    BY <1>r, <2>1, <2>3, <2>4, AloneStep, Zenon
<1>3. CASE SceneChanges
  <2>1. PICK decision \in {"none", "on", "off"} :
           /\ RunReady /\ pending' = SceneQueue(Desired(decision))
           /\ startPending' = (startPending /\ Desired(decision))
    BY <1>3, Zenon DEF SceneChanges
  <2>2. /\ UNCHANGED <<config, runtime, restartAt, sent, serving, answer, asked>>
        /\ mode = "poll" /\ mode' = "commands"
    BY <2>1, Zenon DEF RunReady, Polling
  <2>3. Desired(decision) \in BOOLEAN /\ (~config.enabled => ~Desired(decision))
    BY <1>0 DEF Desired, Configs
  <2> DEFINE desired == Desired(decision)
  <2> HIDE DEF desired
  <2>4. \/ pending' = Queued(pending, "start") /\ desired
        \/ pending' = Queued(pending, "stop") /\ ~desired
        \/ pending' = pending
    BY <2>1, Zenon DEF SceneQueue, desired
  <2>5. "start" \in CommandNames /\ "start" # "stop"
    BY DEF CommandNames
  <2>6. pending' \in Seq(CommandNames) /\ (pending' = Queued(pending, "stop") => Stopping(pending'))
    BY <1>0, <2>4, <2>5, QueuedStop, QueuedLast, Zenon
  <2>7. Obedient'
    <3> SUFFICES ASSUME ~config.enabled, ~asked
                 PROVE  \/ Stopping(pending')
                        \/ ~runtime.up /\ ~restartAt /\ ~startPending' /\ Calm(pending')
      BY <2>2, Zenon DEF Obedient
    <3>1. ~desired /\ ~startPending'
      BY <2>1, <2>3, Zenon DEF desired
    <3>2. CASE pending' = Queued(pending, "stop")
      BY <2>6, <3>2, Zenon
    <3>3. CASE pending' = pending
      BY <3>1, <3>3, Zenon DEF IInv, Obedient
    <3> QED
      BY <2>4, <3>1, <3>2, <3>3, Zenon
  <2>8. /\ startPending' \in BOOLEAN /\ asked' \in BOOLEAN /\ sent' \in Seq(Requests)
        /\ mode \in {"poll", "tick", "down"} /\ mode' \in {"poll", "commands", "tick", "down"}
    BY <1>0, <2>1, <2>2, <2>3, Zenon
  <2> QED
    BY <1>r, <2>2, <2>6, <2>7, <2>8, AloneStep, Zenon
<1>4. CASE CoreExits \/ TickFails \/ RestartDue
  <2>1. /\ UNCHANGED <<config, pending, startPending, sent, serving, answer, asked>>
        /\ mode = "tick" /\ mode' \in {"poll", "down"}
    BY <1>4, Zenon DEF CoreExits, TickFails, RestartDue, Tick
  <2>2. RuntimeOK' /\ ~(~runtime.up /\ ~restartAt)
    <3>1. CASE CoreExits
      <4>1. restartAt' \in BOOLEAN /\ runtime' = Down /\ runtime.up
        BY <3>1, Zenon DEF CoreExits
      <4> QED
        BY <4>1 DEF RuntimeOK, Down
    <3>2. CASE TickFails
      BY <1>r, <3>2, Zenon DEF TickFails
    <3>3. CASE RestartDue
      BY <1>0, <3>3, StartedType, Zenon DEF RestartDue
    <3> QED
      BY <1>4, <3>1, <3>2, <3>3, Zenon
  <2>3. Obedient'
    BY <2>1, <2>2, StillObedient, Zenon
  <2>4. /\ startPending' \in BOOLEAN /\ asked' \in BOOLEAN /\ pending' \in Seq(CommandNames)
        /\ sent' \in Seq(Requests)
        /\ mode \in {"poll", "tick", "down"} /\ mode' \in {"poll", "commands", "tick", "down"}
    BY <1>0, <2>1, Zenon
  <2> QED
    BY <2>1, <2>2, <2>3, <2>4, AloneStep, Zenon
<1>5. CASE Relaunch
  <2>1. /\ mode = "down" /\ mode' = "poll" /\ runtime' = Down /\ restartAt' = FALSE
        /\ asked' = FALSE /\ sent' = <<>>
        /\ pending' = IF config.enabled /\ IsNeeded(config) THEN <<"update">> ELSE <<>>
        /\ startPending' = (config.enabled /\ ~IsNeeded(config))
        /\ UNCHANGED <<config, serving, answer>>
    BY <1>5, Zenon DEF Relaunch
  <2>2. pending' \in Seq(CommandNames) /\ sent' \in Seq(Requests)
    <3>1. <<"update">> \in Seq(CommandNames) /\ <<>> \in Seq(CommandNames)
      BY DEF CommandNames
    <3>2. <<>> \in Seq(Requests)
      BY EmptySeq, Zenon
    <3> QED
      BY <2>1, <3>1, <3>2, Zenon
  <2>3. RuntimeOK' /\ ~runtime'.up
    BY <2>1, Zenon DEF RuntimeOK, Down
  <2>4. config.enabled \in BOOLEAN /\ (~IsNeeded(config)) \in BOOLEAN
    BY <1>0 DEF Configs
  <2>5. startPending' \in BOOLEAN /\ asked' \in BOOLEAN
    BY <2>1, <2>4, Zenon
  <2>6. Calm(<<>>)
    BY DEF Calm
  <2>7. Obedient'
    BY <2>1, <2>3, <2>6, Zenon DEF Obedient
  <2>8. mode \in {"poll", "tick", "down"} /\ mode' \in {"poll", "commands", "tick", "down"}
    BY <2>1, Zenon
  <2> QED
    BY <2>1, <2>2, <2>3, <2>5, <2>7, <2>8, AloneStep, Zenon
<1> QED
  BY <1>1, <1>2, <1>3, <1>4, <1>5, Zenon

LEMMA InitIInv == Init => IInv
<1> SUFFICES ASSUME NEW enabled \in BOOLEAN,
                    InitAt([enabled |-> enabled, sources |-> 1, policy |-> 1])
             PROVE  IInv
  BY Zenon DEF Init
<1> DEFINE initial == [enabled |-> enabled, sources |-> 1, policy |-> 1]
<1>1. /\ config = initial /\ runtime = Down /\ restartAt = FALSE /\ startPending = FALSE
      /\ pending = (IF initial.enabled THEN <<"update">> ELSE <<>>)
      /\ sent = <<>> /\ mode = "poll" /\ serving = Nobody /\ answer = "fair" /\ asked = FALSE
  BY Zenon DEF InitAt
<1>2. initial \in Configs
  BY DEF Configs
<1> HIDE DEF initial
<1>3. Kind = "none"
  BY <1>1 DEF Kind, Nobody
<1>4. pending \in Seq(CommandNames) /\ sent \in Seq(Requests)
  <2>1. <<"update">> \in Seq(CommandNames) /\ <<>> \in Seq(CommandNames)
    BY DEF CommandNames
  <2>2. <<>> \in Seq(Requests)
    BY EmptySeq, Zenon
  <2> QED
    BY <1>1, <2>1, <2>2, Zenon
<1>5. RuntimeOK /\ ~runtime.up
  BY <1>1, Zenon DEF RuntimeOK, Down
<1>6. TypeOK
  BY <1>1, <1>2, <1>3, <1>4, <1>5, Zenon DEF TypeOK, RuntimeOK
<1>7. Calm(<<>>)
  BY DEF Calm
<1>8. Served
  BY <1>1, <1>3 DEF Served
<1>9. Obedient
  BY <1>1, <1>5, <1>7, Zenon DEF Obedient
<1> QED
  BY <1>1, <1>6, <1>8, <1>9, Zenon DEF IInv, CompletedIsTrue

LEMMA NextIInv == IInv /\ [Next]_controlVars => IInv'
<1> SUFFICES ASSUME IInv, [Next]_controlVars PROVE IInv'
  OBVIOUS
<1>1. CASE Next
  BY <1>1, CommandsIInv, AnsweredIInv, SwitchedIInv, EndedIInv, AloneIInv, Zenon
     DEF Next, Handle
<1>2. CASE UNCHANGED controlVars
  BY ZenonT(60), <1>2 DEF controlVars, IInv, TypeOK, Served, Obedient, CompletedIsTrue, Kind
<1> QED
  BY <1>1, <1>2

LEMMA Invariance == Spec => []IInv
BY InitIInv, NextIInv, PTL DEF Spec

-----------------------------------------------------------------------------
\* The state of the worker is well formed, for any number of requests.
THEOREM TypeCorrect == Spec => []TypeOK
BY Invariance, PTL DEF IInv

(***************************************************************************)
(* A disabled service stays down: once the queue is empty nothing runs and *)
(* no restart is in store, whatever was queued, scheduled or waited for    *)
(* when it was disabled (queue_command, apply_config_change, update_inner).*)
(***************************************************************************)
THEOREM DisabledStaysDown == Spec => []StopIsObeyed
<1>1. IInv => StopIsObeyed
  <2> SUFFICES ASSUME IInv, pending = <<>>, ~config.enabled, ~asked
               PROVE  ~runtime.up /\ ~restartAt
    BY Zenon DEF StopIsObeyed
  <2>1. ~Stopping(pending)
    BY Zenon DEF Stopping
  <2> QED
    BY <2>1, Zenon DEF IInv, Obedient
<1> QED
  BY <1>1, Invariance, PTL

(***************************************************************************)
(* An answer that reports completion is true: a stop has stopped, a        *)
(* document is in force, a core that was waited for runs, an update has    *)
(* published (the handlers of worker_application.rs).                      *)
(***************************************************************************)
THEOREM AnswersAreTrue == Spec => []CompletedIsTrue
BY Invariance, PTL DEF IInv

-----------------------------------------------------------------------------
(***************************************************************************)
(* The rounds of the node benchmark, for every pool, every choice of       *)
(* latencies and every number of operations and events.                    *)
(***************************************************************************)
CONSTANTS Pools, Members, Delays, Tolerance, MaxOperations, MaxEvents

VARIABLES intent, selector, inUse, round, phase, job, sequence, seated, busy,
          switches, blind, events

\* The fields of a running round that the argument is about.
RoundFields(o) ==
    {"running", "loaded", "committed", "fast", "gen", "step"} \subseteq DOMAIN o

\* A round whose selector change was acknowledged is marked and past its early
\* decision; one that is not marked has no acknowledged change.
RoundIsMarked(o, n) ==
    /\ RoundFields(o)
    /\ o.committed \in BOOLEAN
    /\ o.committed => o.fast # "pending"
    /\ ~o.committed => n = 0

RoundInv ==
    /\ switches \in {0, 1}
    /\ round.running => RoundIsMarked(round, switches)
    /\ ~round.running => round.step = "idle"

\* How an early decision taken on round o may end.
EarlyEnd(o, e) ==
    /\ {"o", "sel", "ack", "cost"} \subseteq DOMAIN e
    /\ RoundFields(e.o)
    /\ e.ack \in {0, 1}
    /\ e.o.running = o.running
    /\ e.o.committed = (o.committed \/ e.ack = 1)
    /\ e.ack = 1 => e.o.fast # "pending"
    /\ e.sel # selector => intent = "auto"

\* The same, with what was decided.
EndsAs(o, f, s, n, e) ==
    EarlyEnd(o, e) /\ e.o.fast = f /\ e.ack = n /\ e.sel = s

\* The same, for the round as a whole: a decided round is left alone.
Advanced(o, e) ==
    /\ EarlyEnd(o, e)
    /\ o.fast # "pending" => e.ack = 0 /\ e.o.fast = o.fast
    /\ e.sel # selector => inUse = o.gen

Decided(o, f, b) == [o EXCEPT !.fast = f, !.committed = b]

\* A decision writes two fields of the round and keeps the others.
LEMMA DecidedIs ==
    ASSUME NEW o, RoundFields(o), NEW f, NEW b
    PROVE  /\ RoundFields(Decided(o, f, b))
           /\ Decided(o, f, b).fast = f /\ Decided(o, f, b).committed = b
           /\ Decided(o, f, b).running = o.running
BY DEF RoundFields, Decided

\* Fields the decision does not read or write may change on the way.
LEMMA EarlyEndOf ==
    ASSUME NEW o, NEW p, NEW e, EarlyEnd(p, e),
           p.running = o.running, p.committed = o.committed
    PROVE  EarlyEnd(o, e)
BY Zenon DEF EarlyEnd

\* What a call costs is not part of the decision.
LEMMA Charged ==
    ASSUME NEW o, NEW e, EarlyEnd(o, e), NEW v
    PROVE  EarlyEnd(o, [e EXCEPT !.cost = v])
<1> DEFINE f == [e EXCEPT !.cost = v]
<1>1. /\ f.o = e.o /\ f.sel = e.sel /\ f.ack = e.ack
      /\ DOMAIN f = DOMAIN e
  BY DEF EarlyEnd
<1> QED
  BY <1>1, Zenon DEF EarlyEnd

\* The fields of a round that a step writes besides.
Seen(o, v) == [o EXCEPT !.loaded = TRUE, !.current = v]
Late(o, v) == [o EXCEPT !.late = v]
Collected(o, v) == [o EXCEPT !.got = v]
Polled(o, v) == [o EXCEPT !.step = "complete", !.polled = v]
Resting(o) == [o EXCEPT !.step = "idle"]

SameRound(o, p) ==
    /\ RoundFields(p)
    /\ p.running = o.running /\ p.gen = o.gen
    /\ p.committed = o.committed /\ p.fast = o.fast

\* Such a step keeps the rest of the round.
LEMMA Written ==
    ASSUME NEW o, RoundFields(o), NEW v
    PROVE  /\ SameRound(o, Seen(o, v)) /\ Seen(o, v).loaded = TRUE
           /\ SameRound(o, Late(o, v))
           /\ SameRound(o, Collected(o, v))
           /\ SameRound(o, Polled(o, v))
           /\ SameRound(o, Resting(o))
BY DEF RoundFields, SameRound, Seen, Late, Collected, Polled, Resting

\* A record of a decision has the fields that are read of it.
LEMMA DecisionIs ==
    ASSUME NEW x, NEW s, NEW instant, NEW n, NEW c, NEW e,
           e = [o |-> x, sel |-> s, at |-> instant, ack |-> n, cost |-> c]
    PROVE  /\ e.o = x /\ e.sel = s /\ e.ack = n
           /\ {"o", "sel", "ack", "cost"} \subseteq DOMAIN e
OBVIOUS

\* A count that is at most one stays so if only a count of none grows.
LEMMA Counted ==
    ASSUME NEW k \in {0, 1}, NEW n \in {0, 1}, n = 1 => k = 0
    PROVE  k + n \in {0, 1} /\ (n = 0 => k + n = k)
OBVIOUS

\* Values the decisions tell apart.
LEMMA Distinct ==
    /\ 0 \in {0, 1} /\ 1 \in {0, 1} /\ 0 # 1
    /\ "switched" # "pending" /\ "deferred" # "pending" /\ "kept" # "pending"
    /\ "not_applicable" # "pending" /\ "superseded" # "pending"
    /\ "complete" # "idle"
OBVIOUS

\* A round begins unmarked and undecided.
LEMMA Begun ==
    ASSUME NEW g, NEW got, NEW o,
           o = [running |-> TRUE, gen |-> g, loaded |-> FALSE, got |-> got,
                current |-> "none", fast |-> "pending", late |-> FALSE,
                committed |-> FALSE, polled |-> 0, step |-> "idle"]
    PROVE  o.running = TRUE /\ RoundIsMarked(o, 0)
BY DEF RoundFields, RoundIsMarked

\* No round is running once one has ended.
LEMMA Ended ==
    ASSUME NEW o, o = [running |-> FALSE, step |-> "idle"]
    PROVE  o.running = FALSE /\ o.step = "idle"
OBVIOUS

B == INSTANCE NodeSelection WITH op <- round, gen <- inUse

\* Ends yields an early end, if only a decided round is acknowledged and the
\* selector moves only under auto.
LEMMA EndsIs ==
    ASSUME NEW o, RoundFields(o), o.committed \in BOOLEAN, NEW f, NEW s, NEW instant,
           NEW n \in {0, 1}, NEW c,
           n = 1 => f # "pending", s # selector => intent = "auto",
           NEW e, e = B!Ends(o, f, s, instant, n, c)
    PROVE  EndsAs(o, f, s, n, e)
<1>1. PICK b \in BOOLEAN : b = (o.committed \/ n = 1)
  BY Zenon
<1>2. /\ e.o = [o EXCEPT !.fast = f, !.committed = o.committed \/ n = 1]
      /\ e.sel = s /\ e.ack = n
      /\ {"o", "sel", "ack", "cost"} \subseteq DOMAIN e
  BY DecisionIs, Zenon DEF B!Ends
<1>3. e.o = Decided(o, f, b)
  BY <1>1, <1>2, Zenon DEF Decided
<1>4. /\ RoundFields(e.o)
      /\ e.o.fast = f /\ e.o.committed = b
      /\ e.o.running = o.running
  <2>1. /\ RoundFields(Decided(o, f, b))
        /\ Decided(o, f, b).fast = f /\ Decided(o, f, b).committed = b
        /\ Decided(o, f, b).running = o.running
    BY DecidedIs
  <2> QED  BY <1>3, <2>1, Zenon
<1>5. e.o.committed = (o.committed \/ e.ack = 1)
  BY <1>1, <1>2, <1>4, Zenon
<1> QED
  BY <1>2, <1>4, <1>5, Zenon DEF EarlyEnd, EndsAs

\* The policy has four answers, and a round with its snapshot asks for none.
LEMMA PolicyIs ==
    ASSUME NEW o, NEW instant
    PROVE  /\ B!FastPolicy(o, instant) \in {"wait", "defer", "evaluate", "need_current"}
           /\ o.loaded = TRUE => B!FastPolicy(o, instant) # "need_current"
<1>1. o.loaded = TRUE => B!CurrentState(o) # "unknown"
  BY Zenon DEF B!CurrentState
<1> QED
  BY <1>1 DEF B!FastPolicy

\* apply_fast_selection ends so, whatever the core answers.
LEMMA ApplyFastSelectionIs ==
    ASSUME NEW o, RoundFields(o), o.committed \in BOOLEAN, NEW instant,
           NEW e \in B!ApplyFastSelection(o, instant)
    PROVE  EarlyEnd(o, e)
<1> DEFINE target == B!ChooseAutoTarget(Pools[o.gen], o.got, o.current)
<1>1. ASSUME NEW f, f # "pending", NEW t, NEW c, e = B!Ends(o, f, selector, t, 0, c)
      PROVE  EarlyEnd(o, e)
  BY <1>1, EndsIs, Zenon DEF EndsAs
<1>2. ASSUME NEW f, f # "pending", NEW s, NEW t, NEW n \in {0, 1}, NEW c,
             intent = "auto", e = B!Ends(o, f, s, t, n, c)
      PROVE  EarlyEnd(o, e)
  BY <1>2, EndsIs, Zenon DEF EndsAs
<1>3. CASE instant >= B!FastDeadline \/ intent # "auto" \/ target = "keep"
  <2>1. \/ e = B!Ends(o, "deferred", selector, instant, 0, 0)
        \/ e = B!Ends(o, "not_applicable", selector, instant, 0, 0)
        \/ e = B!Ends(o, "kept", selector, instant, 0, 0)
    BY <1>3, SMT DEF B!ApplyFastSelection
  <2> QED  BY <1>1, <2>1, Distinct, Zenon
<1>4. CASE ~(instant >= B!FastDeadline \/ intent # "auto" \/ target = "keep")
  <2>1. \/ \E r \in B!Returns(instant) : e = B!Ends(o, "switched", target, r.at, 1, r.cost)
        \/ \E s \in {selector, target}, r \in B!Returns(instant) : e = B!Ends(o, "deferred", s, r.at, 0, 1)
        \/ \E r \in B!Returns(instant) : e = B!Ends(o, "deferred", target, r.at, 1, 1)
    BY <1>4, SMT DEF B!ApplyFastSelection
  <2> QED  BY <1>2, <1>4, <2>1, Distinct, Zenon
<1> QED  BY <1>3, <1>4, Zenon

\* The policy without the snapshot ends so.
LEMMA SettleIs ==
    ASSUME NEW o, RoundFields(o), o.committed \in BOOLEAN, NEW instant,
           B!FastPolicy(o, instant) # "need_current",
           NEW e \in B!Settle(o, instant)
    PROVE  EarlyEnd(o, e)
<1>1. CASE B!FastPolicy(o, instant) = "evaluate"
  BY <1>1, ApplyFastSelectionIs, Zenon DEF B!Settle
<1>2. CASE B!FastPolicy(o, instant) = "wait"
  <2>1. e = B!Ends(o, "pending", selector, instant, 0, 0)
    BY <1>2, Zenon DEF B!Settle
  <2> QED  BY <2>1, EndsIs, Distinct, Zenon DEF EndsAs
<1>3. CASE B!FastPolicy(o, instant) = "defer"
  <2>1. e = B!Ends(o, "deferred", selector, instant, 0, 0)
    BY <1>3, Zenon DEF B!Settle
  <2> QED  BY <2>1, EndsIs, Distinct, Zenon DEF EndsAs
<1> QED
  BY <1>1, <1>2, <1>3, PolicyIs, Zenon

\* The snapshot and the policy after it end so.
LEMMA FastSelectionContextIs ==
    ASSUME NEW o, RoundFields(o), o.committed \in BOOLEAN, NEW instant,
           NEW e \in B!FastSelectionContext(o, instant)
    PROVE  EarlyEnd(o, e)
<1> DEFINE p == [o EXCEPT !.loaded = TRUE, !.current = selector]
<1>1. \/ e = B!Ends(o, "deferred", selector, instant, 0, 0)
      \/ e = B!Ends(o, "not_applicable", selector, instant, 0, 0)
      \/ \E r \in B!Returns(instant) : e = B!Ends(o, "deferred", selector, r.at, 0, 1)
      \/ \E r \in B!Returns(instant) : \E d \in B!Settle(p, r.at) :
            e = [d EXCEPT !.cost = @ + r.cost]
  BY Zenon DEF B!FastSelectionContext
<1>2. ASSUME NEW f, f # "pending", NEW t, NEW c, e = B!Ends(o, f, selector, t, 0, c)
      PROVE  EarlyEnd(o, e)
  BY <1>2, EndsIs, Zenon DEF EndsAs
<1>3. ASSUME NEW r, NEW d \in B!Settle(p, r.at), e = [d EXCEPT !.cost = @ + r.cost]
      PROVE  EarlyEnd(o, e)
  <2>1. SameRound(o, Seen(o, selector)) /\ Seen(o, selector).loaded = TRUE
    BY Written, Zenon
  <2>2. SameRound(o, p) /\ p.loaded = TRUE
    BY <2>1, Zenon DEF Seen
  <2>3. EarlyEnd(p, d)
    <3> HIDE DEF p
    <3> QED  BY <1>3, <2>2, SettleIs, PolicyIs, Zenon DEF SameRound
  <2>4. EarlyEnd(o, d)
    <3> HIDE DEF p
    <3> QED  BY <2>2, <2>3, EarlyEndOf, Zenon DEF SameRound
  <2> QED  BY <1>3, <2>4, Charged, Zenon
<1> QED
  BY <1>1, <1>2, <1>3, Distinct, Zenon

\* An early decision acknowledges one change at most, only of a round that is
\* not decided, under auto and for the generation the round measures.
LEMMA AdvanceFastIs ==
    ASSUME NEW o, RoundFields(o), o.committed \in BOOLEAN,
           NEW instant, NEW e \in B!AdvanceFast(o, instant)
    PROVE  Advanced(o, e)
<1>1. CASE o.fast # "pending"
  <2>1. e = B!Ends(o, o.fast, selector, instant, 0, 0)
    BY <1>1, Zenon DEF B!AdvanceFast
  <2>2. EndsAs(o, o.fast, selector, 0, e)
    BY <1>1, <2>1, EndsIs, Distinct, Zenon
  <2> QED  BY <2>2, Zenon DEF EndsAs, Advanced
<1>2. CASE o.fast = "pending" /\ inUse # o.gen
  <2>1. PICK late : late = (instant >= B!Deadline)
    BY Zenon
  <2>2. PICK p : p = Late(o, late)
    BY Zenon
  <2>3. e = B!Ends(p, "superseded", selector, instant, 0, 0)
    BY <1>2, <2>1, <2>2, Zenon DEF B!AdvanceFast, Late
  <2>4. SameRound(o, p)
    BY <2>2, Written, Zenon
  <2>5. RoundFields(p) /\ p.committed \in BOOLEAN
    BY <2>4, Zenon DEF SameRound
  <2>6. EndsAs(p, "superseded", selector, 0, e)
    BY <2>3, <2>5, EndsIs, Distinct, Zenon
  <2>7. EarlyEnd(o, e) /\ e.sel = selector
    BY <2>4, <2>6, EarlyEndOf, Zenon DEF EndsAs, SameRound
  <2> QED  BY <1>2, <2>7, Zenon DEF Advanced
<1>3. CASE o.fast = "pending" /\ inUse = o.gen
  <2>1. \/ e \in B!FastSelectionContext(o, instant)
        \/ B!FastPolicy(o, instant) # "need_current" /\ e \in B!Settle(o, instant)
    BY <1>3, Zenon DEF B!AdvanceFast
  <2> QED  BY <1>3, <2>1, FastSelectionContextIs, SettleIs, Zenon DEF Advanced
<1> QED
  BY <1>1, <1>2, <1>3, Zenon

\* The final decision acknowledges at most one change, none of a marked round,
\* and moves the selector only under auto and of the generation measured.
LEMMA FinalDecisionIs ==
    ASSUME NEW results, NEW d \in B!FinalDecision(results)
    PROVE  /\ d.ack \in {0, 1}
           /\ round.committed => d.ack = 0
           /\ d.sel # selector => intent = "auto" /\ inUse = round.gen
<1>1. CASE intent # "auto" \/ round.committed \/ phase >= B!Deadline \/ inUse # round.gen
  <2>1. d = [sel |-> selector, ack |-> 0, blind |-> FALSE, cost |-> 0]
    BY <1>1, Zenon DEF B!FinalDecision
  <2> QED  BY <2>1
<1>2. CASE ~(intent # "auto" \/ round.committed \/ phase >= B!Deadline \/ inUse # round.gen)
  <2>1. \E n \in {0, 1} : \E s, b, c :
           d = [sel |-> s, ack |-> n, blind |-> b, cost |-> c]
    BY <1>2, SMT DEF B!FinalDecision
  <2>2. d.ack \in {0, 1}
    BY <2>1
  <2> QED  BY <1>2, <2>2, Zenon
<1> QED
  BY <1>1, <1>2, Zenon

\* No round runs at first.
LEMMA RoundBegins == B!Init => RoundInv
<1> SUFFICES ASSUME B!Init PROVE RoundInv
  OBVIOUS
<1>1. round = [running |-> FALSE, step |-> "idle"] /\ switches = 0
  BY Zenon DEF B!Init, B!InitAt, B!NoOp
<1> QED
  BY <1>1, Ended, Distinct, Zenon DEF RoundInv

\* Progress and the early decision keep the count.
LEMMA PollKeepsCount ==
    ASSUME RoundInv, B!PollProgress
    PROVE  /\ RoundInv'
           /\ selector' # selector => intent = "auto" /\ inUse = round.gen
<1>1. round.running /\ RoundIsMarked(round, switches) /\ switches \in {0, 1}
  BY Zenon DEF B!PollProgress, RoundInv
<1>2. PICK o, e :
        /\ \E got : o = Collected(round, got)
        /\ e \in B!AdvanceFast(o, phase)
        /\ selector' = e.sel
        /\ switches' = switches + e.ack
        /\ \/ round' = [running |-> FALSE, step |-> "idle"]
           \/ round' = Polled(e.o, e.at)
  BY Zenon DEF B!PollProgress, B!Dies, B!NoOp, Collected, Polled
<1>3. /\ RoundFields(o) /\ o.running = round.running /\ o.gen = round.gen
      /\ o.committed = round.committed /\ o.fast = round.fast
      /\ o.committed \in BOOLEAN
  <2>1. RoundFields(round)
    BY <1>1, Zenon DEF RoundIsMarked
  <2>2. \A got : SameRound(round, Collected(round, got))
    BY <2>1, Written, Zenon
  <2> QED  BY <1>1, <1>2, <2>2, Zenon DEF RoundIsMarked, SameRound
<1>4. /\ EarlyEnd(o, e)
      /\ o.fast # "pending" => e.ack = 0 /\ e.o.fast = o.fast
      /\ e.sel # selector => inUse = o.gen
  <2>1. Advanced(o, e)
    BY <1>2, <1>3, AdvanceFastIs, Zenon
  <2> QED  BY <2>1, Zenon DEF Advanced
<1>5. selector' # selector => intent = "auto" /\ inUse = round.gen
  BY <1>2, <1>3, <1>4, Zenon DEF EarlyEnd
<1>6. /\ switches' \in {0, 1}
      /\ ~(o.committed \/ e.ack = 1) => switches' = 0
  <2>1. e.ack \in {0, 1} /\ (e.ack = 1 => switches = 0)
    BY <1>1, <1>3, <1>4, Distinct, Zenon DEF EarlyEnd, RoundIsMarked
  <2>2. switches' \in {0, 1} /\ (e.ack = 0 => switches' = switches)
    BY <1>1, <1>2, <2>1, Counted, Zenon
  <2>3. e.ack = 0 \/ e.ack = 1
    BY <2>1, Zenon
  <2> QED  BY <1>1, <1>3, <2>2, <2>3, Zenon DEF RoundIsMarked
<1>7. CASE round' = [running |-> FALSE, step |-> "idle"]
  BY <1>5, <1>6, <1>7, Ended, Zenon DEF RoundInv
<1>8. CASE round' = Polled(e.o, e.at)
  <2>1. /\ RoundFields(round') /\ round'.running = e.o.running
        /\ round'.committed = e.o.committed /\ round'.fast = e.o.fast
    <3>1. RoundFields(e.o)
      BY <1>4, Zenon DEF EarlyEnd
    <3>2. SameRound(e.o, Polled(e.o, e.at))
      BY <3>1, Written, Zenon
    <3> QED  BY <1>8, <3>2, Zenon DEF SameRound
  <2>2. /\ e.o.running /\ e.o.committed \in BOOLEAN
        /\ e.o.committed => e.o.fast # "pending"
        /\ ~e.o.committed => switches' = 0
    BY <1>1, <1>3, <1>4, <1>6, Zenon DEF EarlyEnd, RoundIsMarked
  <2>3. round'.running /\ RoundIsMarked(round', switches')
    BY <2>1, <2>2, Zenon DEF RoundIsMarked
  <2> QED  BY <1>5, <1>6, <2>3, Zenon DEF RoundInv
<1> QED
  BY <1>2, <1>7, <1>8, Zenon

\* The final decision keeps the count.
LEMMA CompleteKeepsCount ==
    ASSUME RoundInv, B!PollComplete
    PROVE  /\ RoundInv'
           /\ selector' # selector => intent = "auto" /\ inUse = round.gen
<1>1. round.running /\ RoundIsMarked(round, switches) /\ switches \in {0, 1}
  BY Distinct, Zenon DEF B!PollComplete, RoundInv
<1>2. CASE round' = Resting(round) /\ UNCHANGED <<selector, switches>>
  <2>1. SameRound(round, round')
    BY <1>1, <1>2, Written, Zenon DEF RoundIsMarked
  <2>2. round'.running /\ RoundIsMarked(round', switches')
    BY <1>1, <1>2, <2>1, Zenon DEF RoundIsMarked, SameRound
  <2> QED  BY <1>2, <2>2, Zenon DEF RoundInv
<1>3. ASSUME NEW results, NEW d \in B!FinalDecision(results),
             selector' = d.sel, switches' = switches + d.ack,
             round' = [running |-> FALSE, step |-> "idle"]
      PROVE  /\ RoundInv'
             /\ selector' # selector => intent = "auto" /\ inUse = round.gen
  <2>1. /\ d.ack \in {0, 1}
        /\ round.committed => d.ack = 0
        /\ d.sel # selector => intent = "auto" /\ inUse = round.gen
    BY <1>3, FinalDecisionIs, Zenon
  <2>2. d.ack = 1 => switches = 0
    BY <1>1, <2>1, Distinct, Zenon DEF RoundIsMarked
  <2>3. switches' \in {0, 1}
    BY <1>1, <1>3, <2>1, <2>2, Counted, Zenon
  <2> QED  BY <1>3, <2>1, <2>3, Ended, Zenon DEF RoundInv
<1>4. \/ round' = Resting(round) /\ UNCHANGED <<selector, switches>>
      \/ \E results : \E d \in B!FinalDecision(results) :
            /\ selector' = d.sel /\ switches' = switches + d.ack
            /\ round' = [running |-> FALSE, step |-> "idle"]
  BY Zenon DEF B!PollComplete, B!Dies, B!NoOp, Resting
<1> QED
  BY <1>2, <1>3, <1>4, Zenon

\* Every step keeps the count.
LEMMA RoundInvKept ==
    ASSUME RoundInv, [B!Next]_B!selVars
    PROVE  RoundInv'
<1>1. CASE B!StartBenchmark
  <2>1. PICK g, got :
          round' = [running |-> TRUE, gen |-> g, loaded |-> FALSE, got |-> got,
                    current |-> "none", fast |-> "pending", late |-> FALSE,
                    committed |-> FALSE, polled |-> 0, step |-> "idle"]
    BY <1>1, Zenon DEF B!StartBenchmark
  <2>2. switches' = 0
    BY <1>1, Zenon DEF B!StartBenchmark
  <2> QED  BY <2>1, <2>2, Begun, Distinct, Zenon DEF RoundInv
<1>2. CASE B!WorkerEnds
  <2>1. round' = [running |-> FALSE, step |-> "idle"] /\ switches' = switches
    BY <1>2, Zenon DEF B!WorkerEnds, B!Dies, B!NoOp
  <2> QED  BY <2>1, Ended, Zenon DEF RoundInv
<1>3. CASE B!PollProgress
  BY <1>3, PollKeepsCount, Zenon
<1>4. CASE B!PollComplete
  BY <1>4, CompleteKeepsCount, Zenon
<1>5. CASE UNCHANGED <<round, switches>>
  BY <1>5, Zenon DEF RoundInv
<1>6. ASSUME \/ \E n \in B!Nodes, r \in B!Results : B!ProbeAnswers(n, r)
             \/ B!JobEnds \/ B!Elapse \/ B!HeldUp \/ B!Resumes \/ B!Relaunch
             \/ \E n \in B!Nodes : B!SelectManual(n)
             \/ B!SelectAuto
             \/ \E g \in B!Generations : B!Activate(g)
             \/ B!Deactivate
             \/ UNCHANGED B!selVars
      PROVE  UNCHANGED <<round, switches>>
  BY <1>6, Zenon
     DEF B!ProbeAnswers, B!JobEnds, B!Elapse, B!HeldUp, B!Resumes, B!Relaunch,
         B!SelectManual, B!SelectAuto, B!Activate, B!Deactivate, B!selVars
<1> QED
  BY <1>1, <1>2, <1>3, <1>4, <1>5, <1>6, Zenon DEF B!Next, B!WorkerNext

(***************************************************************************)
(* One round of measuring moves the selector at most once with the core's  *)
(* acknowledgement (fast_mutation_committed), for every pool, tolerance    *)
(* and number of failures.                                                 *)
(***************************************************************************)
THEOREM RoundsSwitchOnce == B!Spec => []B!OneSwitchPerRound
<1>1. RoundInv => B!OneSwitchPerRound
  BY DEF RoundInv, B!OneSwitchPerRound
<1> QED
  BY <1>1, RoundBegins, RoundInvKept, PTL DEF B!Spec

\* What moves the selector while a round is measured and is not a choice of
\* the user or the start of a generation: a decision of the round.
MeantSwitch ==
    (round.running /\ seated /\ selector' # selector /\ inUse' = inUse
        /\ intent' = intent /\ round' # round)
    => intent = "auto" /\ round.gen = inUse

(***************************************************************************)
(* A decision of a round moves the selector only under an auto intent and  *)
(* only of the generation the round measures (complete_benchmark_inner,    *)
(* advance_fast_node_selection): the part of SwitchesAreEarned that does   *)
(* not rest on what choose_auto_target computes.                           *)
(***************************************************************************)
THEOREM SwitchesAreMeant == B!Spec => [][MeantSwitch]_B!selVars
<1>1. ASSUME RoundInv, [B!Next]_B!selVars
      PROVE  [MeantSwitch]_B!selVars
  <2>1. CASE B!PollProgress
    BY <1>1, <2>1, PollKeepsCount, Zenon DEF MeantSwitch
  <2>2. CASE B!PollComplete
    BY <1>1, <2>2, CompleteKeepsCount, Zenon DEF MeantSwitch
  <2>3. ASSUME ~B!PollProgress, ~B!PollComplete, ~UNCHANGED B!selVars
        PROVE  ~round.running \/ selector' = selector \/ round' = round
    BY <1>1, <2>3, Zenon
       DEF B!Next, B!WorkerNext, B!StartBenchmark, B!ProbeAnswers, B!JobEnds,
           B!Elapse, B!HeldUp, B!Resumes, B!Relaunch, B!SelectManual,
           B!SelectAuto, B!Activate, B!Deactivate, B!WorkerEnds
  <2> QED  BY <2>1, <2>2, <2>3, Zenon DEF MeantSwitch
<1> QED
  BY <1>1, RoundBegins, RoundInvKept, PTL DEF B!Spec
=============================================================================
