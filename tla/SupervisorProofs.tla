-------------------------- MODULE SupervisorProofs --------------------------
(***************************************************************************)
(* Proofs about the supervisor, for every failure window, recovery delay   *)
(* and length of run, and about its pid file, for any set of processes.    *)
(***************************************************************************)
EXTENDS Supervisor, FiniteSetTheorems, SequenceTheorems, TLAPS

\* The inductive invariant: types, and that the processes alive are the one
\* the supervisor holds.
IInv == TypeOK /\ SingleWorker

(***************************************************************************)
(* Why crash loops are throttled.  A failure answers a start when it comes *)
(* at or after it and before the next one; an answer is only forgotten     *)
(* when the start lies further back than the window.  Every start but the  *)
(* last is answered, the last one too once its worker is gone, and then    *)
(* four starts inside the window hold the next one back.                   *)
(***************************************************************************)
Answered(fails, t, start, next) ==
    \/ \E f \in fails : start <= f /\ f < next
    \/ t - start > Window

\* The last n starts come in order, and all but the last are answered.
Paced(starts, n, fails, t) ==
    /\ \A i, j \in 1..n : i <= j => starts[i] <= starts[j]
    /\ \A i \in 1..(n - 1) : Answered(fails, t, starts[i], starts[i + 1])

\* What the deadline owes to the starts while there is no worker.
Held(starts, n, fails, t, deadline) ==
    /\ n > 0 => Answered(fails, t, starts[n], deadline)
    /\ n >= 4 /\ t - starts[n - 3] <= Window => deadline >= starts[n] + Recovery

Waiting == active = NoWorker /\ ~Returned

Throttle ==
    \E n \in 0..5 :
        /\ Len(attempts) = n
        /\ Paced(attempts, n, failures, now)
        /\ Waiting => Held(attempts, n, failures, now, nextAction)

\* The failure list after record_failure is a non-empty set of past times.
LEMMA RetainedType ==
    ASSUME failures \subseteq 0..now, now \in Nat
    PROVE  /\ Retained \subseteq 0..now
           /\ Cardinality(Retained) \in Nat \ {0}
<1>0. now \in 0..now
  OBVIOUS
<1>1. Retained \subseteq 0..now
  BY <1>0, Zenon DEF Retained
<1>2. IsFiniteSet(Retained)
  <2>1. IsFiniteSet(0..now)
    BY FS_Interval
  <2> QED
    BY <1>1, <2>1, FS_Subset, Zenon
<1>3. Retained # {}
  BY DEF Retained
<1> QED
  BY <1>1, <1>2, <1>3, FS_CardinalityType, FS_EmptySet

\* record_failure keeps the types of what it assigns.
LEMMA RecordFailureType ==
    ASSUME TypeOK, RecordFailure
    PROVE  /\ state' \in SupervisorStates
           /\ failures' \subseteq 0..now
           /\ nextAction' \in 0..(now + Recovery + 4)
<1>1. Retained \subseteq 0..now /\ Cardinality(Retained) \in Nat \ {0}
  BY RetainedType DEF TypeOK
<1>2. now \in Nat /\ Recovery \in Nat
  BY PolicyAssumption DEF TypeOK
<1>3. CASE Cardinality(Retained) > 3
  BY <1>1, <1>2, <1>3 DEF RecordFailure, RestartDelays, SupervisorStates
<1>4. CASE ~(Cardinality(Retained) > 3)
  <2>1. Cardinality(Retained) \in 1..3
    BY <1>1, <1>4
  <2>2. RestartDelays[Cardinality(Retained)] \in 1..4
    BY <2>1 DEF RestartDelays
  <2> QED
    BY <1>1, <1>2, <1>4, <2>2 DEF RecordFailure, RestartDelays, SupervisorStates
<1> QED
  BY <1>3, <1>4

LEMMA InitIInv == Init => IInv
<1> SUFFICES ASSUME Init PROVE IInv
  OBVIOUS
<1>1. stopFlag \in BOOLEAN
  BY Zenon DEF Init, InitAt
<1>2. attempts \in Seq(0..now)
  BY DEF Init, InitAt
<1>3. failures \subseteq 0..now /\ alive \subseteq 1..spawned
  BY Zenon DEF Init, InitAt
<1> QED
  BY <1>1, <1>2, <1>3, PolicyAssumption
     DEF Init, InitAt, IInv, TypeOK, SingleWorker, Returned, NoWorker, SupervisorStates

\* Every step of the loop and of its environment preserves the invariant.
LEMMA NextIInv == IInv /\ [Next]_vars => IInv'
<1> SUFFICES ASSUME IInv, [Next]_vars PROVE IInv'
  OBVIOUS
<1> USE DEF IInv, Returned, NoWorker
<1>0. /\ now \in Nat /\ Recovery \in Nat /\ spawned \in Nat /\ MaxTime \in Nat
      /\ active \in Nat
  BY PolicyAssumption DEF TypeOK
<1>1. CASE TickExited
  BY <1>0, <1>1, RecordFailureType DEF TickExited, TypeOK, SingleWorker
<1>2. CASE TickRunning
  BY <1>2 DEF TickRunning, TypeOK, SingleWorker, SupervisorStates
<1>s. ASSUME StopSucceeds \/ StopFails, spawned' = spawned, now' = now
      PROVE  /\ alive' \subseteq alive /\ active' \in 0..spawned'
             /\ state' \in SupervisorStates /\ nextAction' \in 0..(now' + Recovery + 4)
  BY <1>0, <1>s DEF StopSucceeds, StopFails, TypeOK, SupervisorStates, NoDeadline
<1>t. ASSUME StopSucceeds, ~Returned PROVE alive' = {}
  BY <1>t DEF StopSucceeds, SingleWorker
<1>3. CASE TickObserveFailed
  BY <1>0, <1>3, <1>s, Zenon DEF TickObserveFailed, TypeOK, SingleWorker
<1>4. CASE TickScheduled
  BY <1>4 DEF TickScheduled, TypeOK, SingleWorker
<1>5. Attempted(now) \in Seq(0..now)
  <2>1. attempts \in Seq(0..now) /\ now \in 0..now
    BY <1>0 DEF TypeOK
  <2>2. Append(attempts, now) \in Seq(0..now) /\ Append(attempts, now) # <<>>
    BY <2>1
  <2>3. Tail(Append(attempts, now)) \in Seq(0..now)
    BY <2>2, HeadTailProperties
  <2> QED
    BY <2>2, <2>3, Zenon DEF Attempted
<1>6. CASE TickStarted
  <2>1. alive = {}
    BY <1>6 DEF TickStarted, StartDue, TypeOK, SingleWorker
  <2> QED
    BY <1>0, <1>5, <1>6, <2>1 DEF TickStarted, StartDue, TypeOK, SingleWorker, SupervisorStates,
                             NoDeadline
<1>7. CASE TickStartFailed
  BY <1>0, <1>5, <1>7, RecordFailureType DEF TickStartFailed, StartDue, TypeOK, SingleWorker
<1>8. CASE Wake
  BY <1>8 DEF Wake, TypeOK, SingleWorker
<1>9. CASE WaitStop
  <2>1. stopFlag' \in BOOLEAN
    BY <1>9, Zenon DEF WaitStop, TypeOK
  <2>2. /\ StopSucceeds \/ StopFails
        /\ pc' = "ok" => StopSucceeds
        /\ pc' \in {"ok", "error"} /\ pc = "wait"
        /\ UNCHANGED <<failures, spawned, now, attempts>>
    BY <1>9 DEF WaitStop
  <2> QED
    BY <1>0, <1>s, <1>t, <2>1, <2>2, Zenon DEF TypeOK, SingleWorker
<1>10. CASE WorkerExits
  BY <1>10 DEF WorkerExits, TypeOK, SingleWorker
<1>11. CASE Signal
  BY <1>11 DEF Signal, TypeOK, SingleWorker
<1>12. CASE Elapse
  BY <1>0, <1>12 DEF Elapse, TypeOK, SingleWorker
<1>13. CASE UNCHANGED vars
  BY <1>13 DEF vars, TypeOK, SingleWorker
<1> QED
  BY <1>1, <1>2, <1>3, <1>4, <1>6, <1>7, <1>8, <1>9, <1>10, <1>11, <1>12, <1>13
     DEF Next, Tick

LEMMA Invariance == Spec => []IInv
BY InitIInv, NextIInv, PTL DEF Spec

\* The state of the supervisor loop is always well formed.
THEOREM TypeCorrect == Spec => []TypeOK
BY Invariance, PTL DEF IInv

\* A restart never leaves two workers running, and a normal return of the
\* loop leaves none (supervisor.rs tick and stop).
THEOREM OneWorkerAtATime == Spec => []SingleWorker
BY Invariance, PTL DEF IInv

-----------------------------------------------------------------------------
(* Crash loops *)

\* An answer survives record_failure and the passing of time.
LEMMA AnswersStay ==
    ASSUME TypeOK, NEW t \in {now, now + 1}, NEW fails \in {failures, Retained},
           NEW start \in Nat, NEW next \in Nat, NEW later \in Nat, next <= later,
           Answered(failures, now, start, next)
    PROVE  Answered(fails, t, start, later)
<1>0. now \in Nat /\ Window \in Nat /\ failures \subseteq Nat
  BY PolicyAssumption DEF TypeOK
<1>1. CASE now - start > Window
  BY <1>0, <1>1 DEF Answered
<1>2. CASE ~(now - start > Window)
  <2>1. PICK f \in failures : start <= f /\ f < next
    BY <1>2 DEF Answered
  <2>2. f \in fails
    BY <1>0, <1>2, <2>1 DEF Retained
  <2>3. start <= f /\ f < later
    BY <1>0, <2>1
  <2> QED
    BY <2>2, <2>3 DEF Answered
<1> QED
  BY <1>1, <1>2

\* The starts after one more call of backend.start: the last five of them.
LEMMA AttemptedIs ==
    ASSUME TypeOK, NEW n \in 0..5, Len(attempts) = n
    PROVE  \E k \in {0, 1}, m \in 1..5 :
              /\ m = n + 1 - k /\ (k = 1 <=> n = 5)
              /\ Len(Attempted(now)) = m
              /\ Attempted(now)[m] = now
              /\ \A i \in 1..(m - 1) : Attempted(now)[i] = attempts[i + k]
<1> DEFINE S == 0..now
           all == Append(attempts, now)
<1>1. attempts \in Seq(S) /\ now \in S
  BY DEF TypeOK
<1> HIDE DEF S
<1>2. /\ all \in Seq(S) /\ all # <<>>
      /\ Len(all) = n + 1
      /\ \A i \in 1..n : all[i] = attempts[i]
      /\ all[n + 1] = now
  BY <1>1, AppendProperties
<1>3. Attempted(now) = IF Len(all) > 5 THEN Tail(all) ELSE all
  BY DEF Attempted
<1> HIDE DEF all
<1>4. CASE n = 5
  <2> DEFINE rest == Tail(all)
  <2>1. Attempted(now) = rest
    BY <1>2, <1>3, <1>4
  <2>2. /\ Len(rest) = Len(all) - 1
        /\ \A i \in 1..Len(rest) : rest[i] = all[i + 1]
    BY <1>2, HeadTailProperties
  <2> HIDE DEF rest
  <2>3. Len(rest) = 5
    BY <1>2, <1>4, <2>2
  <2>4. \A i \in 1..5 : rest[i] = all[i + 1]
    BY <2>2, <2>3, Zenon
  <2>5. rest[5] = now
    BY <2>4, <1>2, <1>4
  <2>6. \A i \in 1..4 : rest[i] = attempts[i + 1]
    BY <2>4, <1>2, <1>4
  <2> QED
    BY <1>4, <2>1, <2>3, <2>5, <2>6
<1>5. CASE n # 5
  <2>1. Attempted(now) = all
    BY <1>2, <1>3, <1>5
  <2>2. n + 1 \in 1..5 /\ (n + 1) - 1 = n
    BY <1>5
  <2>3. \A i \in 1..n : all[i] = attempts[i + 0]
    BY <1>2
  <2> QED
    BY <1>2, <1>5, <2>1, <2>2, <2>3
<1> QED
  BY <1>4, <1>5

\* record_failure sets a deadline in the future, and remembers the moment.
LEMMA RecordFailureDeadline ==
    ASSUME TypeOK, RecordFailure
    PROVE  /\ failures' = Retained /\ now \in failures'
           /\ nextAction' \in Nat /\ nextAction' > now
<1>1. now \in Nat /\ Recovery \in Nat /\ Recovery > 0
  BY PolicyAssumption DEF TypeOK
<1>2. failures' = Retained /\ now \in failures'
  BY DEF RecordFailure, Retained
<1>3. Cardinality(Retained) \in Nat \ {0}
  BY RetainedType DEF TypeOK
<1>4. CASE Cardinality(Retained) > 3
  BY <1>1, <1>2, <1>3, <1>4 DEF RecordFailure, RestartDelays
<1>5. CASE ~(Cardinality(Retained) > 3)
  <2>1. Cardinality(Retained) \in 1..3
    BY <1>3, <1>5
  <2>2. RestartDelays[Cardinality(Retained)] \in 1..4
    BY <2>1 DEF RestartDelays
  <2> QED
    BY <1>1, <1>2, <1>5, <2>2 DEF RecordFailure, RestartDelays
<1> QED
  BY <1>4, <1>5

\* Three answered starts inside the window and one more failure open the
\* circuit.
LEMMA FourFailures ==
    ASSUME TypeOK, RecordFailure,
           NEW s1 \in 0..now, NEW s2 \in 0..now, NEW s3 \in 0..now, NEW s4 \in 0..now,
           s1 <= s2, s2 <= s3, s3 <= s4, now - s1 <= Window,
           Answered(Retained, now, s1, s2), Answered(Retained, now, s2, s3),
           Answered(Retained, now, s3, s4)
    PROVE  nextAction' = now + Recovery
<1>1. now \in Nat /\ Window \in Nat /\ Recovery \in Nat
  BY PolicyAssumption DEF TypeOK
<1>2. Retained \subseteq 0..now /\ Cardinality(Retained) \in Nat
  BY RetainedType DEF TypeOK
<1>3. PICK f1 \in Retained : s1 <= f1 /\ f1 < s2
  BY <1>1 DEF Answered
<1>4. PICK f2 \in Retained : s2 <= f2 /\ f2 < s3
  BY <1>1 DEF Answered
<1>5. PICK f3 \in Retained : s3 <= f3 /\ f3 < s4
  BY <1>1 DEF Answered
<1>6. f1 < f2 /\ f2 < f3 /\ f3 < now
  BY <1>1, <1>2, <1>3, <1>4, <1>5
<1>7. f1 # f2 /\ f1 # f3 /\ f2 # f3 /\ now # f1 /\ now # f2 /\ now # f3
  BY <1>1, <1>2, <1>6
<1> DEFINE A == {f1}
           B == A \cup {f2}
           C == B \cup {f3}
           D == C \cup {now}
<1>8. IsFiniteSet(A) /\ Cardinality(A) = 1
  <2>1. IsFiniteSet({} \cup {f1}) /\ Cardinality({} \cup {f1}) = 0 + 1
    BY SMTT(30), FS_EmptySet, FS_AddElement
  <2>2. {} \cup {f1} = A
    OBVIOUS
  <2> QED
    BY <2>1, <2>2
<1>9. f2 \notin A /\ f3 \notin B /\ now \notin C /\ D \subseteq Retained
  BY <1>3, <1>4, <1>5, <1>7 DEF Retained
<1> HIDE DEF A
<1>10. IsFiniteSet(B) /\ Cardinality(B) = 2
  BY <1>8, <1>9, FS_AddElement
<1> HIDE DEF B
<1>11. IsFiniteSet(C) /\ Cardinality(C) = 3
  BY <1>9, <1>10, FS_AddElement
<1> HIDE DEF C
<1>12. IsFiniteSet(D) /\ Cardinality(D) = 4
  BY <1>9, <1>11, FS_AddElement
<1> HIDE DEF D
<1>13. IsFiniteSet(Retained)
  <2>1. IsFiniteSet(0..now)
    BY <1>1, FS_Interval
  <2> QED
    BY <1>2, <2>1, FS_Subset, Zenon
<1>14. Cardinality(D) <= Cardinality(Retained)
  BY <1>9, <1>13, FS_Subset
<1>15. Cardinality(Retained) > 3
  BY <1>2, <1>12, <1>14
<1> QED
  BY <1>15 DEF RecordFailure, RestartDelays

\* The starts are times that have passed.
LEMMA AttemptsType ==
    ASSUME TypeOK, NEW n \in 0..5, Len(attempts) = n
    PROVE  \A i \in 1..n : attempts[i] \in 0..now
<1> DEFINE S == 0..now
<1>1. attempts \in Seq(S)
  BY DEF TypeOK
<1> HIDE DEF S
<1>2. \A i \in 1..n : attempts[i] \in S
  BY <1>1, ElementOfSeq
<1> QED
  BY <1>2 DEF S

\* A step that starts nothing keeps the order of the starts and their answers.
LEMMA PacedStays ==
    ASSUME TypeOK, NEW n \in 0..5, Len(attempts) = n,
           NEW t \in {now, now + 1}, NEW fails \in {failures, Retained},
           Paced(attempts, n, failures, now)
    PROVE  Paced(attempts, n, fails, t)
<1>1. \A i \in 1..n : attempts[i] \in Nat
  BY SMTT(30), AttemptsType DEF TypeOK
<1>2. ASSUME NEW i \in 1..(n - 1) PROVE Answered(fails, t, attempts[i], attempts[i + 1])
  <2>1. Answered(failures, now, attempts[i], attempts[i + 1])
    BY DEF Paced
  <2>2. attempts[i] \in Nat /\ attempts[i + 1] \in Nat /\ attempts[i + 1] <= attempts[i + 1]
    BY <1>1
  <2> QED
    BY <2>1, <2>2, AnswersStay
<1> QED
  BY <1>2 DEF Paced

\* A start that is due: the deadline was the answer to the start before it.
LEMMA StartPaced ==
    ASSUME TypeOK, Throttle, StartDue, NEW fails \in {failures, Retained}
    PROVE  \E m \in 1..5 :
              /\ Len(Attempted(now)) = m
              /\ Attempted(now)[m] = now
              /\ \A i \in 1..m : Attempted(now)[i] \in 0..now
              /\ Paced(Attempted(now), m, fails, now)
              /\ m = 5 /\ now - Attempted(now)[1] <= Window
                   => now - Attempted(now)[4] >= Recovery
<1>0. now \in Nat /\ nextAction \in Nat /\ Recovery \in Nat /\ Window \in Nat
      /\ nextAction <= now
  BY PolicyAssumption DEF TypeOK, StartDue
<1>1. PICK n \in 0..5 : /\ Len(attempts) = n
                        /\ Paced(attempts, n, failures, now)
                        /\ Held(attempts, n, failures, now, nextAction)
  BY DEF Throttle, Waiting, Returned, StartDue
<1>2. \A i \in 1..n : attempts[i] \in 0..now
  BY <1>1, AttemptsType
<1> DEFINE b == Attempted(now)
<1>3. PICK k \in {0, 1}, m \in 1..5 :
              /\ m = n + 1 - k /\ (k = 1 <=> n = 5)
              /\ Len(b) = m
              /\ b[m] = now
              /\ \A i \in 1..(m - 1) : b[i] = attempts[i + k]
  BY <1>1, AttemptedIs
<1> HIDE DEF b
<1>4. \A i \in 1..m : b[i] \in 0..now
  BY <1>0, <1>2, <1>3
<1>5. Paced(attempts, n, fails, now)
  BY <1>1, PacedStays
<1>6. n > 0 => Answered(fails, now, attempts[n], now)
  <2> SUFFICES ASSUME n > 0 PROVE Answered(fails, now, attempts[n], now)
    OBVIOUS
  <2>1. Answered(failures, now, attempts[n], nextAction)
    BY <1>1 DEF Held
  <2>2. attempts[n] \in Nat
    BY <1>0, <1>2
  <2> QED
    BY <1>0, <2>1, <2>2, AnswersStay
<1>7. \A i, j \in 1..m : i <= j => b[i] <= b[j]
  <2> SUFFICES ASSUME NEW i \in 1..m, NEW j \in 1..m, i <= j PROVE b[i] <= b[j]
    OBVIOUS
  <2>1. CASE j = m
    BY <1>0, <1>3, <1>4, <2>1
  <2>2. CASE j # m
    <3>1. i \in 1..(m - 1) /\ j \in 1..(m - 1)
      BY <2>2
    <3>2. i + k \in 1..n /\ j + k \in 1..n /\ i + k <= j + k
      BY <1>3, <3>1
    <3> QED
      BY <1>1, <1>3, <3>1, <3>2 DEF Paced
  <2> QED
    BY <2>1, <2>2
<1>8. ASSUME NEW i \in 1..(m - 1) PROVE Answered(fails, now, b[i], b[i + 1])
  <2>1. CASE i = m - 1
    <3>1. b[i] = attempts[n] /\ b[i + 1] = now /\ n > 0
      BY <1>3, <2>1
    <3> QED
      BY <1>6, <3>1
  <2>2. CASE i # m - 1
    <3>1. /\ i + k \in 1..(n - 1) /\ i + 1 \in 1..(m - 1) /\ (i + 1) + k = (i + k) + 1
      BY <1>3, <2>2
    <3>2. b[i] = attempts[i + k] /\ b[i + 1] = attempts[(i + k) + 1]
      BY <1>3, <3>1
    <3> QED
      BY <1>5, <3>1, <3>2 DEF Paced
  <2> QED
    BY <2>1, <2>2
<1>9. m = 5 /\ now - b[1] <= Window => now - b[4] >= Recovery
  <2> SUFFICES ASSUME m = 5, now - b[1] <= Window PROVE now - b[4] >= Recovery
    OBVIOUS
  <2>1. b[4] = attempts[n] /\ b[1] = attempts[n - 3] /\ n >= 4
    BY <1>3
  <2>2. nextAction >= attempts[n] + Recovery
    BY <1>1, <2>1 DEF Held
  <2>3. attempts[n] \in Nat
    BY <1>0, <1>2, <2>1
  <2> QED
    BY <1>0, <2>1, <2>2, <2>3
<1>10. Paced(b, m, fails, now)
  BY <1>7, <1>8 DEF Paced
<1> QED
  BY <1>3, <1>4, <1>9, <1>10 DEF b

\* After record_failure the deadline owes nothing to the starts.
LEMMA FailureHolds ==
    ASSUME TypeOK, RecordFailure, NEW starts, NEW n \in 0..5,
           \A i \in 1..n : starts[i] \in 0..now,
           Paced(starts, n, Retained, now)
    PROVE  Held(starts, n, Retained, now, nextAction')
<1>0. now \in Nat /\ Recovery \in Nat
  BY PolicyAssumption DEF TypeOK
<1>1. now \in Retained /\ nextAction' \in Nat /\ nextAction' > now
  BY RecordFailureDeadline, Zenon
<1>2. ASSUME n > 0 PROVE Answered(Retained, now, starts[n], nextAction')
  <2>1. starts[n] <= now /\ now < nextAction'
    BY <1>0, <1>1, <1>2
  <2> QED
    BY <1>1, <2>1, Zenon DEF Answered
<1>3. ASSUME n >= 4, now - starts[n - 3] <= Window
      PROVE  nextAction' >= starts[n] + Recovery
  <2>1. /\ starts[n - 3] \in 0..now /\ starts[n - 2] \in 0..now
        /\ starts[n - 1] \in 0..now /\ starts[n] \in 0..now
    BY <1>3
  <2>2. /\ starts[n - 3] <= starts[n - 2] /\ starts[n - 2] <= starts[n - 1]
        /\ starts[n - 1] <= starts[n]
    BY <1>3 DEF Paced
  <2>3. /\ n - 3 \in 1..(n - 1) /\ n - 2 \in 1..(n - 1) /\ n - 1 \in 1..(n - 1)
        /\ (n - 3) + 1 = n - 2 /\ (n - 2) + 1 = n - 1 /\ (n - 1) + 1 = n
    BY <1>3
  <2>4. /\ Answered(Retained, now, starts[n - 3], starts[n - 2])
        /\ Answered(Retained, now, starts[n - 2], starts[n - 1])
        /\ Answered(Retained, now, starts[n - 1], starts[n])
    BY <2>3, Zenon DEF Paced
  <2>5. nextAction' = now + Recovery
    BY <1>3, <2>1, <2>2, <2>4, FourFailures
  <2> QED
    BY <1>0, <2>1, <2>5
<1> QED
  BY <1>2, <1>3 DEF Held

\* What is needed of a step that calls backend.start ...
LEMMA StartThrottles ==
    ASSUME TypeOK, Throttle, StartDue, attempts' = Attempted(now), now' = now,
           \/ failures' = failures /\ active' # NoWorker
           \/ RecordFailure
    PROVE  Throttle' /\ CrashLoopIsThrottled'
<1> DEFINE b == Attempted(now)
<1>0. failures' \in {failures, Retained}
  BY RecordFailureDeadline, Zenon
<1>1. PICK m \in 1..5 :
         /\ Len(b) = m /\ b[m] = now
         /\ \A i \in 1..m : b[i] \in 0..now
         /\ Paced(b, m, failures', now)
         /\ m = 5 /\ now - b[1] <= Window => now - b[4] >= Recovery
  BY <1>0, StartPaced
<1> HIDE DEF b
<1>2. attempts' = b
  BY DEF b
<1>3. Waiting' => Held(b, m, failures', now, nextAction')
  <2>1. CASE active' # NoWorker
    BY <2>1, Zenon DEF Waiting
  <2>2. CASE RecordFailure
    <3>1. failures' = Retained
      BY <2>2, RecordFailureDeadline, Zenon
    <3>2. Paced(b, m, Retained, now)
      BY <1>1, <3>1, Zenon
    <3>3. m \in 0..5
      OBVIOUS
    <3>4. Held(b, m, Retained, now, nextAction')
      BY <1>1, <2>2, <3>2, <3>3, FailureHolds
    <3> QED
      BY <3>1, <3>4, Zenon
  <2> QED
    BY <2>1, <2>2
<1>4. /\ m \in 0..5 /\ Len(attempts') = m
      /\ Paced(attempts', m, failures', now')
      /\ Waiting' => Held(attempts', m, failures', now', nextAction')
  BY <1>1, <1>2, <1>3
<1>5. Throttle'
  BY <1>4, Zenon DEF Throttle
<1>6. CrashLoopIsThrottled'
  BY <1>1, <1>2 DEF CrashLoopIsThrottled
<1> QED
  BY <1>5, <1>6

\* ... of one that records a failure without a start ...
LEMMA ExitThrottles ==
    ASSUME TypeOK, Throttle, RecordFailure, attempts' = attempts, now' = now
    PROVE  Throttle'
<1>1. PICK n \in 0..5 : Len(attempts) = n /\ Paced(attempts, n, failures, now)
  BY DEF Throttle
<1>2. failures' = Retained
  BY RecordFailureDeadline, Zenon
<1>3. Paced(attempts, n, Retained, now)
  BY <1>1, PacedStays
<1>4. \A i \in 1..n : attempts[i] \in 0..now
  BY <1>1, AttemptsType
<1>5. Held(attempts, n, Retained, now, nextAction')
  BY <1>3, <1>4, FailureHolds
<1>6. /\ Len(attempts') = n /\ Paced(attempts', n, failures', now')
      /\ Held(attempts', n, failures', now', nextAction')
  BY <1>1, <1>2, <1>3, <1>5
<1> QED
  BY <1>6, Zenon DEF Throttle

\* ... and of every other one.
LEMMA CalmThrottles ==
    ASSUME TypeOK, Throttle, attempts' = attempts, failures' = failures,
           now' \in {now, now + 1},
           Waiting' => Waiting /\ nextAction' = nextAction
    PROVE  Throttle'
<1>0. now \in Nat /\ nextAction \in Nat
  BY PolicyAssumption DEF TypeOK
<1>1. PICK n \in 0..5 : /\ Len(attempts) = n
                        /\ Paced(attempts, n, failures, now)
                        /\ Waiting => Held(attempts, n, failures, now, nextAction)
  BY DEF Throttle
<1>2. Paced(attempts, n, failures, now')
  BY <1>1, PacedStays
<1>3. \A i \in 1..n : attempts[i] \in 0..now
  BY <1>1, AttemptsType
<1>4. ASSUME Waiting PROVE Held(attempts, n, failures, now', nextAction)
  <2>1. Held(attempts, n, failures, now, nextAction)
    BY <1>1, <1>4
  <2>2. ASSUME n > 0 PROVE Answered(failures, now', attempts[n], nextAction)
    <3>1. Answered(failures, now, attempts[n], nextAction)
      BY <2>1, <2>2 DEF Held
    <3>2. attempts[n] \in Nat /\ nextAction <= nextAction
      BY <1>0, <1>3, <2>2
    <3> QED
      BY <1>0, <3>1, <3>2, AnswersStay
  <2>3. ASSUME n >= 4, now' - attempts[n - 3] <= Window
        PROVE  nextAction >= attempts[n] + Recovery
    <3>1. attempts[n - 3] \in Nat /\ Window \in Nat
      BY <1>0, <1>3, <2>3, PolicyAssumption
    <3>2. now - attempts[n - 3] <= Window
      BY <1>0, <2>3, <3>1
    <3> QED
      BY <2>1, <2>3, <3>2 DEF Held
  <2> QED
    BY <2>2, <2>3 DEF Held
<1>5. Waiting' => Held(attempts', n, failures', now', nextAction')
  BY <1>4
<1>6. Len(attempts') = n /\ Paced(attempts', n, failures', now')
  BY <1>1, <1>2
<1> QED
  BY <1>5, <1>6, Zenon DEF Throttle

LEMMA InitThrottle == Init => Throttle /\ CrashLoopIsThrottled
<1> SUFFICES ASSUME Init PROVE Throttle /\ CrashLoopIsThrottled
  OBVIOUS
<1>1. Len(attempts) = 0
  BY DEF Init, InitAt
<1>2. Paced(attempts, 0, failures, now) /\ Held(attempts, 0, failures, now, nextAction)
  BY DEF Paced, Held
<1>3. 0 \in 0..5
  OBVIOUS
<1>4. Throttle
  BY <1>1, <1>2, <1>3, Zenon DEF Throttle
<1> QED
  BY <1>1, <1>4 DEF CrashLoopIsThrottled

LEMMA NextThrottle ==
    IInv /\ Throttle /\ CrashLoopIsThrottled /\ [Next]_vars
        => Throttle' /\ CrashLoopIsThrottled'
<1> SUFFICES ASSUME TypeOK, Throttle, CrashLoopIsThrottled, [Next]_vars
             PROVE  Throttle' /\ CrashLoopIsThrottled'
  BY DEF IInv
<1>c. ASSUME attempts' = attempts PROVE CrashLoopIsThrottled'
  BY <1>c, Zenon DEF CrashLoopIsThrottled
<1>0. now \in {now, now + 1}
  OBVIOUS
<1>1. CASE TickExited
  BY <1>1, <1>c, ExitThrottles, Zenon DEF TickExited
<1>2. CASE TickStarted
  <2>1. active' # NoWorker
    BY <1>2 DEF TickStarted, NoWorker, TypeOK
  <2> QED
    BY <1>2, <2>1, StartThrottles, Zenon DEF TickStarted
<1>3. CASE TickStartFailed
  BY <1>3, StartThrottles, Zenon DEF TickStartFailed
<1>4. CASE TickRunning \/ TickScheduled \/ Wake \/ WorkerExits \/ Signal \/ UNCHANGED vars
  <2>1. UNCHANGED <<active, failures, nextAction, now, attempts>>
    BY <1>4, Zenon DEF TickRunning, TickScheduled, Wake, WorkerExits, Signal, vars
  <2>2. ~Returned' => ~Returned
    BY <1>4, Zenon DEF TickRunning, TickScheduled, Wake, WorkerExits, Signal, vars, Returned
  <2>3. Waiting' => Waiting /\ nextAction' = nextAction
    BY <2>1, <2>2, Zenon DEF Waiting
  <2> QED
    BY <1>0, <1>c, <2>1, <2>3, CalmThrottles, Zenon
<1>5. CASE TickObserveFailed \/ WaitStop
  <2>1. UNCHANGED <<failures, now, attempts>> /\ pc' \in {"ok", "error"}
    BY <1>5, Zenon DEF TickObserveFailed, WaitStop
  <2>2. ~Waiting'
    BY <2>1, Zenon DEF Waiting, Returned
  <2> QED
    BY <1>0, <1>c, <2>1, <2>2, CalmThrottles, Zenon
<1>6. CASE Elapse
  <2>1. UNCHANGED <<active, failures, nextAction, pc, attempts>> /\ now' = now + 1
    BY <1>6, Zenon DEF Elapse
  <2>2. Waiting' => Waiting /\ nextAction' = nextAction
    BY <2>1, Zenon DEF Waiting, Returned
  <2> QED
    BY <1>c, <2>1, <2>2, CalmThrottles, Zenon
<1> QED
  BY <1>1, <1>2, <1>3, <1>4, <1>5, <1>6, Zenon DEF Next, Tick

\* Five starts inside one failure window: the last is a recovery probe, at
\* least the recovery delay after the one before it, whatever the window and
\* the delay are (record_failure, and the next_action test of tick).
THEOREM CrashLoopsSlowDown == Spec => []CrashLoopIsThrottled
BY Invariance, InitThrottle, NextThrottle, PTL DEF Spec

-----------------------------------------------------------------------------
(***************************************************************************)
(* The pid file, for any set of processes.                                 *)
(***************************************************************************)
CONSTANT Procs

VARIABLES file, at, met, cut, contested, remover

P == INSTANCE PidFile

Places == P!Alive \cup {"new", "refused", "failed", "gone"}
Owning == {"mode", "write", "running"}

\* Who created the file has come as far as creating it; an empty file is
\* about to be written, unless an acquire was cut short.
FileOwner ==
    file.there =>
        /\ at[file.by] \in Owning \cup {"gone", "failed"}
        /\ ~cut /\ ~file.written => at[file.by] \in {"mode", "write"}

\* The others alive are those that a start has met, and it is they who make
\* the file appear and vanish under its hands.
Encounters ==
    \A p \in Procs :
        /\ at[p] \in P!Starting => \A q \in Procs \ {p} : at[q] \in P!Alive => q \in met[p]
        /\ at[p] \in {"inspect", "unlink"} => file.there \/ met[p] # {}
        /\ at[p] = "retry" => ~file.there \/ met[p] # {}

NoStartWhileRemoving == remover # "away" => \A p \in Procs : at[p] \notin P!Starting

\* As long as no two starts judge the same file.
Uncontested ==
    ~contested =>
        /\ \A p \in Procs :
              /\ at[p] \in Owning => file.there /\ file.by = p
              /\ at[p] = "running" => file.written
              /\ at[p] = "unlink" => file.there /\ at[file.by] \notin P!Alive
        /\ \A p, q \in Procs : at[p] = "unlink" /\ at[q] = "unlink" => p = q
        /\ remover \in {"remove", "removed"} => \A p \in Procs : at[p] \notin P!Alive

PidInv ==
    /\ P!TypeOK /\ FileOwner /\ Encounters /\ NoStartWhileRemoving /\ Uncontested
    /\ P!RefusedForAReason

\* A process that has gone on stands where it went, the others where they were.
LEMMA Went ==
    ASSUME P!TypeOK, NEW p \in Procs, NEW place \in Places, P!Go(p, place)
    PROVE  /\ at' \in [Procs -> Places]
           /\ at'[p] = place
           /\ \A q \in Procs \ {p} : at'[q] = at[q]
BY DEF P!TypeOK, P!Go, Places

\* The creator of the file is a process that has come as far as that.
LEMMA CreatorOf ==
    ASSUME P!TypeOK, FileOwner, file.there
    PROVE  file.by \in Procs /\ at[file.by] \in Owning \cup {"gone", "failed"}
<1>1. file # P!NoFile
  BY DEF P!NoFile
<1>2. file \in [there: {TRUE}, by: Procs, written: BOOLEAN]
  BY <1>1, Zenon DEF P!TypeOK
<1>3. file.by \in Procs
  BY <1>2
<1> QED
  BY <1>3, Zenon DEF FileOwner

LEMMA InitPid == P!Init => PidInv
<1> SUFFICES ASSUME P!Init PROVE PidInv
  OBVIOUS
<1>1. /\ file = P!NoFile /\ at = [p \in Procs |-> "new"] /\ met = [p \in Procs |-> {}]
      /\ cut = FALSE /\ contested = FALSE /\ remover = "away"
  BY Zenon DEF P!Init, P!InitAt
<1>2. ~file.there
  BY <1>1 DEF P!NoFile
<1>3. \A p \in Procs : at[p] = "new"
  BY <1>1
<1>4. P!TypeOK
  <2>1. cut \in BOOLEAN /\ contested \in BOOLEAN /\ file \in {P!NoFile}
    BY <1>1, Zenon
  <2>2. met \in [Procs -> SUBSET Procs]
    BY <1>1
  <2> QED
    BY <1>1, <2>1, <2>2 DEF P!TypeOK
<1>5. FileOwner
  BY <1>2, Zenon DEF FileOwner
<1>6. Encounters
  BY <1>3 DEF Encounters, P!Starting
<1>7. NoStartWhileRemoving
  BY <1>1 DEF NoStartWhileRemoving
<1>8. Uncontested
  BY <1>1, <1>3 DEF Uncontested, Owning
<1>9. P!RefusedForAReason
  BY <1>3 DEF P!RefusedForAReason
<1> QED
  BY <1>4, <1>5, <1>6, <1>7, <1>8, <1>9 DEF PidInv

LEMMA LaunchPid ==
    ASSUME PidInv, NEW p \in Procs, P!Launch(p)
    PROVE  PidInv'
<1>1. /\ at[p] = "new" /\ remover = "away" /\ P!Go(p, "create")
      /\ UNCHANGED <<file, cut, contested, remover>>
  BY Zenon DEF P!Launch
<1>2. /\ at' \in [Procs -> Places] /\ at'[p] = "create"
      /\ \A q \in Procs \ {p} : at'[q] = at[q]
  BY <1>1, Went DEF PidInv, Places, P!Alive, P!Starting
<1>3. /\ met' \in [Procs -> SUBSET Procs] /\ met'[p] = P!Living
      /\ \A q \in Procs \ {p} :
            /\ met[q] \subseteq met'[q]
            /\ at[q] \in P!Starting => p \in met'[q]
            /\ at[q] \notin P!Starting => met'[q] = met[q]
  BY DEF P!Launch, PidInv, P!TypeOK, P!Living
<1>4. P!TypeOK'
  BY <1>1, <1>2, <1>3, Zenon DEF PidInv, P!TypeOK, Places
<1>o. file.there => file.by \in Procs /\ at'[file.by] = at[file.by]
  BY <1>1, <1>2, CreatorOf DEF PidInv, Owning
<1>5. FileOwner'
  BY <1>1, <1>o, Zenon DEF PidInv, FileOwner
<1>6. Encounters'
  BY <1>1, <1>2, <1>3 DEF PidInv, Encounters, P!Living, P!Starting, P!Alive
<1>7. NoStartWhileRemoving'
  BY <1>1, Zenon DEF NoStartWhileRemoving
<1>8. Uncontested'
  BY <1>1, <1>2, <1>o DEF PidInv, Uncontested, Owning, P!Alive, P!Starting
<1>9. P!RefusedForAReason'
  BY <1>1, <1>2, <1>3 DEF PidInv, P!RefusedForAReason, P!Starting
<1> QED
  BY <1>4, <1>5, <1>6, <1>7, <1>8, <1>9 DEF PidInv

LEMMA CreatePid ==
    ASSUME PidInv, NEW p \in Procs, P!Create(p)
    PROVE  PidInv'
<1>1. at[p] \in {"create", "retry"} /\ UNCHANGED <<met, cut, contested, remover>>
  BY Zenon DEF P!Create
<1>2. CASE ~file.there
  <2>1. file' = [there |-> TRUE, by |-> p, written |-> FALSE] /\ P!Go(p, "mode")
    BY <1>2, Zenon DEF P!Create
  <2>2. /\ at' \in [Procs -> Places] /\ at'[p] = "mode"
        /\ \A q \in Procs \ {p} : at'[q] = at[q]
    BY <2>1, Went DEF PidInv, Places, P!Alive, P!Starting
  <2>3. file'.there /\ file'.by = p /\ file'.written = FALSE
    BY <2>1
  <2>4. P!TypeOK'
    BY <1>1, <2>1, <2>2 DEF PidInv, P!TypeOK, Places
  <2>5. FileOwner'
    BY <1>1, <2>2, <2>3 DEF FileOwner, Owning
  <2>6. Encounters'
    BY <1>1, <1>2, <2>2, <2>3 DEF PidInv, Encounters, P!Starting, P!Alive
  <2>7. NoStartWhileRemoving'
    BY <1>1, <2>2 DEF PidInv, NoStartWhileRemoving, P!Starting
  <2>8. Uncontested'
    BY <1>1, <1>2, <2>2, <2>3 DEF PidInv, Uncontested, NoStartWhileRemoving, Owning, P!Alive, P!Starting
  <2>9. P!RefusedForAReason'
    BY <1>1, <2>2 DEF PidInv, P!RefusedForAReason
  <2> QED
    BY <2>4, <2>5, <2>6, <2>7, <2>8, <2>9 DEF PidInv
<1>3. CASE file.there
  <2> DEFINE place == IF at[p] = "create" THEN "inspect" ELSE "refused"
  <2>1. P!Go(p, place) /\ file' = file
    BY <1>3, Zenon DEF P!Create
  <2>2. /\ at' \in [Procs -> Places] /\ at'[p] = place
        /\ \A q \in Procs \ {p} : at'[q] = at[q]
    BY <2>1, Went DEF PidInv, Places, P!Alive, P!Starting
  <2>3. P!TypeOK'
    BY <1>1, <2>1, <2>2, Zenon DEF PidInv, P!TypeOK, Places
  <2>o. file.there => file.by \in Procs /\ at'[file.by] = at[file.by]
    BY <1>1, <2>2, CreatorOf DEF PidInv, Owning
  <2>4. FileOwner'
    BY <1>1, <2>1, <2>o, Zenon DEF PidInv, FileOwner
  <2>5. Encounters'
    BY <1>1, <1>3, <2>1, <2>2 DEF PidInv, Encounters, P!Starting, P!Alive
  <2>6. NoStartWhileRemoving'
    BY <1>1, <2>2 DEF PidInv, NoStartWhileRemoving, P!Starting
  <2>7. Uncontested'
    BY <1>1, <2>1, <2>2, <2>o DEF PidInv, Uncontested, NoStartWhileRemoving, Owning, P!Alive, P!Starting
  <2>8. P!RefusedForAReason'
    BY <1>1, <1>3, <2>2 DEF PidInv, Encounters, P!RefusedForAReason
  <2> QED
    BY <2>3, <2>4, <2>5, <2>6, <2>7, <2>8 DEF PidInv
<1> QED
  BY <1>2, <1>3

LEMMA InspectPid ==
    ASSUME PidInv, NEW p \in Procs, P!Inspect(p)
    PROVE  PidInv'
<1> DEFINE stale == file.there /\ file.written /\ at[file.by] \notin P!Alive
           place == IF stale THEN "unlink" ELSE "refused"
<1>1. /\ at[p] = "inspect" /\ P!Go(p, place) /\ UNCHANGED <<file, met, cut, remover>>
      /\ contested' = (contested \/ (stale /\ \E q \in Procs : at[q] = "unlink"))
  BY Zenon DEF P!Inspect
<1>2. /\ at' \in [Procs -> Places] /\ at'[p] = place
      /\ \A q \in Procs \ {p} : at'[q] = at[q]
  BY <1>1, Went DEF PidInv, Places, P!Alive, P!Starting
<1>3. /\ contested' \in BOOLEAN
      /\ ~contested' => ~contested /\ (stale => \A q \in Procs : at[q] # "unlink")
  BY <1>1, Zenon DEF PidInv, P!TypeOK
<1>4. P!TypeOK'
  BY <1>1, <1>2, <1>3, Zenon DEF PidInv, P!TypeOK, Places
<1>o. file.there => file.by \in Procs /\ at'[file.by] = at[file.by] /\ at[file.by] # "inspect"
                    /\ file.by # p
  BY <1>1, <1>2, CreatorOf DEF PidInv, Owning
<1>5. FileOwner'
  BY <1>1, <1>o, Zenon DEF PidInv, FileOwner
<1>6. Encounters'
  BY <1>1, <1>2 DEF PidInv, Encounters, P!Starting, P!Alive
<1>7. NoStartWhileRemoving'
  BY <1>1, <1>2 DEF PidInv, NoStartWhileRemoving, P!Starting
<1>8. Uncontested'
  BY <1>1, <1>2, <1>3, <1>o DEF PidInv, Uncontested, NoStartWhileRemoving, Owning, P!Alive, P!Starting
<1>9. P!RefusedForAReason'
  <2> SUFFICES ASSUME ~cut, ~stale PROVE met[p] # {}
    BY <1>1, <1>2, Zenon DEF PidInv, P!RefusedForAReason
  <2>1. CASE ~file.there
    BY <1>1, <2>1 DEF PidInv, Encounters
  <2>2. CASE file.there
    <3>1. at[file.by] \in P!Alive
      BY <2>2 DEF PidInv, FileOwner, P!Alive, P!Starting
    <3> QED
      BY <1>1, <1>o, <2>2, <3>1 DEF PidInv, Encounters, P!Starting
  <2> QED
    BY <2>1, <2>2
<1> QED
  BY <1>4, <1>5, <1>6, <1>7, <1>8, <1>9 DEF PidInv

LEMMA UnlinkPid ==
    ASSUME PidInv, NEW p \in Procs, P!Unlink(p)
    PROVE  PidInv'
<1> DEFINE place == IF file.there THEN "retry" ELSE "refused"
<1>1. /\ at[p] = "unlink" /\ file' = P!NoFile /\ P!Go(p, place)
      /\ UNCHANGED <<met, cut, contested, remover>>
  BY Zenon DEF P!Unlink
<1>2. /\ at' \in [Procs -> Places] /\ at'[p] = place
      /\ \A q \in Procs \ {p} : at'[q] = at[q]
  BY <1>1, Went DEF PidInv, Places, P!Alive, P!Starting
<1>3. ~file'.there
  BY <1>1 DEF P!NoFile
<1>4. P!TypeOK'
  BY <1>1, <1>2, Zenon DEF PidInv, P!TypeOK, Places
<1>5. FileOwner'
  BY <1>3, Zenon DEF FileOwner
<1>6. Encounters'
  BY <1>1, <1>2, <1>3 DEF PidInv, Encounters, P!Starting, P!Alive
<1>7. NoStartWhileRemoving'
  BY <1>1, <1>2 DEF PidInv, NoStartWhileRemoving, P!Starting
<1>8. Uncontested'
  BY <1>1, <1>2, <1>3 DEF PidInv, Uncontested, NoStartWhileRemoving, Owning, P!Alive, P!Starting
<1>9. P!RefusedForAReason'
  BY <1>1, <1>2 DEF PidInv, P!RefusedForAReason, Encounters
<1> QED
  BY <1>4, <1>5, <1>6, <1>7, <1>8, <1>9 DEF PidInv

LEMMA SetModePid ==
    ASSUME PidInv, NEW p \in Procs, P!SetMode(p)
    PROVE  PidInv'
<1>1. PICK place \in {"write", "failed"} :
         /\ at[p] = "mode" /\ P!Go(p, place) /\ UNCHANGED <<file, met, contested, remover>>
         /\ IF place = "write" THEN cut' = cut ELSE cut' = TRUE
  <2>1. "write" # "failed"
    OBVIOUS
  <2> QED
    BY <2>1, Zenon DEF P!SetMode
<1>2. /\ at' \in [Procs -> Places] /\ at'[p] = place
      /\ \A q \in Procs \ {p} : at'[q] = at[q]
  BY <1>1, Went DEF PidInv, Places, P!Alive, P!Starting
<1>3. /\ cut' \in BOOLEAN /\ (~cut' => ~cut /\ place = "write")
  BY <1>1, Zenon DEF PidInv, P!TypeOK
<1>4. P!TypeOK'
  BY <1>1, <1>2, <1>3, Zenon DEF PidInv, P!TypeOK, Places
<1>o. file.there => file.by \in Procs
  BY CreatorOf DEF PidInv
<1>5. FileOwner'
  <2> SUFFICES ASSUME file.there
               PROVE  /\ at'[file.by] \in Owning \cup {"gone", "failed"}
                      /\ ~cut' /\ ~file.written => at'[file.by] \in {"mode", "write"}
    BY <1>1, Zenon DEF FileOwner
  <2>1. CASE file.by = p
    BY <1>1, <1>2, <1>3, <2>1 DEF Owning
  <2>2. CASE file.by # p
    <3>1. at'[file.by] = at[file.by]
      BY <1>2, <1>o, <2>2
    <3> QED
      BY <1>3, <3>1, Zenon DEF PidInv, FileOwner
  <2> QED
    BY <2>1, <2>2
<1>6. Encounters'
  BY <1>1, <1>2 DEF PidInv, Encounters, P!Starting, P!Alive
<1>7. NoStartWhileRemoving'
  BY <1>1, <1>2 DEF PidInv, NoStartWhileRemoving, P!Starting
<1>8. Uncontested'
  BY <1>1, <1>2 DEF PidInv, Uncontested, NoStartWhileRemoving, Owning, P!Alive, P!Starting
<1>9. P!RefusedForAReason'
  BY <1>1, <1>2, <1>3 DEF PidInv, P!RefusedForAReason
<1> QED
  BY <1>4, <1>5, <1>6, <1>7, <1>8, <1>9 DEF PidInv

\* The file is removed by a process that ends: one whose identity could not
\* be written, or a supervisor that returns.
LEMMA RemovedPid ==
    ASSUME PidInv, NEW p \in Procs, NEW place \in {"failed", "gone"},
           at[p] \in {"write", "running"}, P!Go(p, place), file' = P!NoFile,
           UNCHANGED <<met, cut, contested, remover>>
    PROVE  PidInv'
<1>2. /\ at' \in [Procs -> Places] /\ at'[p] = place
      /\ \A q \in Procs \ {p} : at'[q] = at[q]
  BY Went DEF PidInv, Places, P!Alive, P!Starting
<1>3. ~file'.there
  BY DEF P!NoFile
<1>4. P!TypeOK'
  BY <1>2, Zenon DEF PidInv, P!TypeOK, Places
<1>5. FileOwner'
  BY <1>3, Zenon DEF FileOwner
<1>6. Encounters'
  BY <1>2, <1>3 DEF PidInv, Encounters, P!Starting, P!Alive
<1>7. NoStartWhileRemoving'
  BY <1>2 DEF PidInv, NoStartWhileRemoving, P!Starting
<1>8. Uncontested'
  BY <1>2, <1>3 DEF PidInv, Uncontested, Owning, P!Alive, P!Starting
<1>9. P!RefusedForAReason'
  BY <1>2 DEF PidInv, P!RefusedForAReason
<1> QED
  BY <1>4, <1>5, <1>6, <1>7, <1>8, <1>9 DEF PidInv

LEMMA WriteIdentityPid ==
    ASSUME PidInv, NEW p \in Procs, P!WriteIdentity(p)
    PROVE  PidInv'
<1>1. at[p] = "write" /\ UNCHANGED <<met, cut, contested, remover>>
  BY Zenon DEF P!WriteIdentity
<1>2. CASE file' = P!NoFile /\ P!Go(p, "failed")
  BY <1>1, <1>2, RemovedPid, Zenon
<1>3. CASE /\ file' = IF file.there /\ file.by = p THEN [file EXCEPT !.written = TRUE] ELSE file
           /\ P!Go(p, "running")
  <2>2. /\ at' \in [Procs -> Places] /\ at'[p] = "running"
        /\ \A q \in Procs \ {p} : at'[q] = at[q]
    BY <1>3, Went DEF PidInv, Places, P!Alive, P!Starting
  <2>3. CASE file.there /\ file.by = p
    <3>1. file \in [there: {TRUE}, by: Procs, written: BOOLEAN]
      <4>1. file # P!NoFile
        BY <2>3 DEF P!NoFile
      <4> QED
        BY <4>1, Zenon DEF PidInv, P!TypeOK
    <3>2. /\ file' \in [there: {TRUE}, by: Procs, written: BOOLEAN]
          /\ file'.there /\ file'.by = p /\ file'.written
      BY <1>3, <2>3, <3>1, Zenon
    <3>3. P!TypeOK'
      BY <1>1, <2>2, <3>2, Zenon DEF PidInv, P!TypeOK, Places
    <3>4. FileOwner'
      BY <2>2, <3>2 DEF FileOwner, Owning
    <3>5. Encounters'
      BY <1>1, <2>2, <2>3, <3>2 DEF PidInv, Encounters, P!Starting, P!Alive
    <3>6. NoStartWhileRemoving'
      BY <1>1, <2>2 DEF PidInv, NoStartWhileRemoving, P!Starting
    <3>7. Uncontested'
      BY <1>1, <2>2, <2>3, <3>2 DEF PidInv, Uncontested, NoStartWhileRemoving, Owning, P!Alive,
                                    P!Starting
    <3>8. P!RefusedForAReason'
      BY <1>1, <2>2 DEF PidInv, P!RefusedForAReason
    <3> QED
      BY <3>3, <3>4, <3>5, <3>6, <3>7, <3>8 DEF PidInv
  <2>4. CASE ~(file.there /\ file.by = p)
    <3>1. file' = file
      BY <1>3, <2>4, Zenon
    <3>2. contested
      BY <1>1, <2>4 DEF PidInv, Uncontested, Owning
    <3>3. P!TypeOK'
      BY <1>1, <2>2, <3>1, Zenon DEF PidInv, P!TypeOK, Places
    <3>o. file.there => file.by \in Procs /\ at'[file.by] = at[file.by]
      BY <2>2, <2>4, CreatorOf DEF PidInv
    <3>4. FileOwner'
      BY <1>1, <3>1, <3>o, Zenon DEF PidInv, FileOwner
    <3>5. Encounters'
      BY <1>1, <2>2, <3>1 DEF PidInv, Encounters, P!Starting, P!Alive
    <3>6. NoStartWhileRemoving'
      BY <1>1, <2>2 DEF PidInv, NoStartWhileRemoving, P!Starting
    <3>7. Uncontested'
      BY <1>1, <3>2, Zenon DEF Uncontested
    <3>8. P!RefusedForAReason'
      BY <1>1, <2>2 DEF PidInv, P!RefusedForAReason
    <3> QED
      BY <3>3, <3>4, <3>5, <3>6, <3>7, <3>8 DEF PidInv
  <2> QED
    BY <2>3, <2>4
<1> QED
  BY <1>2, <1>3, Zenon DEF P!WriteIdentity

LEMMA StopPid ==
    ASSUME PidInv, NEW p \in Procs, P!Stop(p)
    PROVE  PidInv'
BY RemovedPid, Zenon DEF P!Stop

LEMMA KillPid ==
    ASSUME PidInv, NEW p \in Procs, P!Kill(p)
    PROVE  PidInv'
<1>1. /\ at[p] \in P!Alive /\ P!Go(p, "gone") /\ UNCHANGED <<file, met, contested, remover>>
      /\ cut' = (cut \/ at[p] \in {"mode", "write"})
  BY Zenon DEF P!Kill
<1>2. /\ at' \in [Procs -> Places] /\ at'[p] = "gone"
      /\ \A q \in Procs \ {p} : at'[q] = at[q]
  BY <1>1, Went DEF PidInv, Places, P!Alive, P!Starting
<1>3. cut' \in BOOLEAN /\ (~cut' => ~cut /\ at[p] \notin {"mode", "write"})
  BY <1>1, Zenon DEF PidInv, P!TypeOK
<1>4. P!TypeOK'
  BY <1>1, <1>2, <1>3, Zenon DEF PidInv, P!TypeOK, Places
<1>o. file.there => file.by \in Procs
  BY CreatorOf DEF PidInv
<1>5. FileOwner'
  <2> SUFFICES ASSUME file.there
               PROVE  /\ at'[file.by] \in Owning \cup {"gone", "failed"}
                      /\ ~cut' /\ ~file.written => at'[file.by] \in {"mode", "write"}
    BY <1>1, Zenon DEF FileOwner
  <2>1. CASE file.by = p
    BY <1>1, <1>2, <1>3, <2>1 DEF PidInv, FileOwner
  <2>2. CASE file.by # p
    <3>1. at'[file.by] = at[file.by]
      BY <1>2, <1>o, <2>2
    <3> QED
      BY <1>3, <3>1, Zenon DEF PidInv, FileOwner
  <2> QED
    BY <2>1, <2>2
<1>6. Encounters'
  BY <1>1, <1>2 DEF PidInv, Encounters, P!Starting, P!Alive
<1>7. NoStartWhileRemoving'
  BY <1>1, <1>2 DEF PidInv, NoStartWhileRemoving, P!Starting
<1>8. Uncontested'
  BY <1>1, <1>2, <1>o DEF PidInv, Uncontested, NoStartWhileRemoving, Owning, P!Alive, P!Starting
<1>9. P!RefusedForAReason'
  BY <1>1, <1>2, <1>3 DEF PidInv, P!RefusedForAReason
<1> QED
  BY <1>4, <1>5, <1>6, <1>7, <1>8, <1>9 DEF PidInv

\* uninstall.sh: it goes by a file that names the supervisor that runs.
LEMMA RemoverPid ==
    ASSUME PidInv, P!ReadIdentity \/ P!GiveUp \/ P!Ended \/ P!RemoveData
    PROVE  PidInv'
<1>1. UNCHANGED <<at, met, cut, contested>>
  BY Zenon DEF P!ReadIdentity, P!GiveUp, P!Ended, P!RemoveData
<1>2. \A p \in Procs : at[p] \notin P!Starting
  BY DEF P!ReadIdentity, P!GiveUp, P!Ended, P!RemoveData, PidInv, NoStartWhileRemoving
<1>3. \/ file' = file /\ remover' \in {"wait", "kept", "remove"}
      \/ file' = P!NoFile /\ remover = "remove" /\ remover' = "removed"
  BY Zenon DEF P!ReadIdentity, P!GiveUp, P!Ended, P!RemoveData
<1>4. P!TypeOK'
  <2>1. remover' \in {"away", "wait", "remove", "removed", "kept", "parked"}
    BY <1>3
  <2> QED
    BY <1>1, <1>3, <2>1, Zenon DEF PidInv, P!TypeOK
<1>5. FileOwner'
  <2>1. file' = P!NoFile => ~file'.there
    BY DEF P!NoFile
  <2> QED
    BY <1>1, <1>3, <2>1, Zenon DEF PidInv, FileOwner
<1>6. Encounters'
  BY <1>1, <1>2 DEF Encounters, P!Starting
<1>7. NoStartWhileRemoving'
  BY <1>1, <1>2, Zenon DEF NoStartWhileRemoving
<1>8. Uncontested'
  <2> SUFFICES ASSUME ~contested PROVE Uncontested'
    BY <1>1, Zenon DEF Uncontested
  <2>1. CASE file' = file /\ remover' \in {"wait", "kept"}
    BY <1>1, <2>1 DEF PidInv, Uncontested
  <2>2. CASE file' = file /\ remover' = "remove"
    <3>1. P!ReadIdentity \/ P!Ended
      BY <2>2 DEF P!ReadIdentity, P!GiveUp, P!Ended, P!RemoveData
    <3>2. ~(file.there /\ file.written /\ at[file.by] = "running")
      <4>1. "wait" # "remove"
        OBVIOUS
      <4> QED
        BY <2>2, <3>1, <4>1, Zenon DEF P!ReadIdentity, P!Ended
    <3>3. \A p \in Procs : at[p] # "running"
      BY <3>2 DEF PidInv, Uncontested, Owning
    <3> QED
      BY <1>1, <1>2, <2>2, <3>3 DEF PidInv, Uncontested, P!Alive
  <2>3. CASE file' = P!NoFile /\ remover = "remove" /\ remover' = "removed"
    <3>1. \A p \in Procs : at[p] \notin P!Alive
      BY <2>3 DEF PidInv, Uncontested
    <3> QED
      BY <1>1, <3>1 DEF Uncontested, Owning, P!Alive, P!Starting
  <2> QED
    BY <1>3, <2>1, <2>2, <2>3
<1>9. P!RefusedForAReason'
  BY <1>1, Zenon DEF PidInv, P!RefusedForAReason
<1> QED
  BY <1>4, <1>5, <1>6, <1>7, <1>8, <1>9 DEF PidInv

LEMMA PidStep == PidInv /\ [P!Next]_(P!vars) => PidInv'
<1> SUFFICES ASSUME PidInv, [P!Next]_(P!vars) PROVE PidInv'
  OBVIOUS
<1>1. ASSUME NEW p \in Procs,
             \/ P!Launch(p) \/ P!Create(p) \/ P!Inspect(p) \/ P!Unlink(p)
             \/ P!SetMode(p) \/ P!WriteIdentity(p) \/ P!Stop(p) \/ P!Kill(p)
      PROVE  PidInv'
  BY <1>1, LaunchPid, CreatePid, InspectPid, UnlinkPid, SetModePid, WriteIdentityPid,
     StopPid, KillPid, Zenon
<1>2. CASE UNCHANGED P!vars
  BY <1>2, Zenon DEF P!vars, PidInv, P!TypeOK, FileOwner, Encounters, NoStartWhileRemoving,
                     Uncontested, P!RefusedForAReason
<1> QED
  BY <1>1, <1>2, RemoverPid, Zenon DEF P!Next

LEMMA PidInvariance == P!Spec => []PidInv
BY InitPid, PidStep, PTL DEF P!Spec

-----------------------------------------------------------------------------
\* The file, the places and the histories keep their types.
THEOREM PidTypeCorrect == P!Spec => []P!TypeOK
BY PidInvariance, PTL DEF PidInv

(***************************************************************************)
(* However many processes are started, end and are killed: two supervisors *)
(* never run side by side, a start is refused only for a reason, and data  *)
(* are not removed under a supervisor, unless two starts have judged the   *)
(* same stale file (PidFile::acquire, remove_stale_pid_file, uninstall.sh).*)
(***************************************************************************)
THEOREM PidFileExcludes ==
    P!Spec => [](P!OneSupervisor /\ P!RefusedForAReason /\ P!DataOutlivesItsUser)
<1>1. PidInv => P!OneSupervisor
  BY DEF PidInv, Uncontested, P!OneSupervisor, Owning
<1>2. PidInv => P!DataOutlivesItsUser
  BY DEF PidInv, Uncontested, P!DataOutlivesItsUser, P!Living
<1>3. PidInv => P!RefusedForAReason
  BY DEF PidInv
<1> QED
  BY <1>1, <1>2, <1>3, PidInvariance, PTL
=============================================================================
