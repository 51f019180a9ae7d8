------------------------ MODULE WorkerRuntimeProofs ------------------------
(***************************************************************************)
(* Proofs about the worker's runtime, for every failure window, number of  *)
(* resource candidates, set of hazards and number of faults, and about the *)
(* update schedules (Scheduler), for every number of sources and resources *)
(* and every policy.                                                       *)
(***************************************************************************)
EXTENDS WorkerRuntime, FiniteSetTheorems, TLAPS

(***************************************************************************)
(* What the invariants rest on: a worker that is gone holds nothing; a     *)
(* runtime is only ever built on a candidate that was left, so there is    *)
(* one more to lose; and when nothing of the environment's worst happens,  *)
(* the worker lives, no jump is lost, and rules without a receipt are no   *)
(* rules at all.                                                           *)
(***************************************************************************)
NothingHeld ==
    ~alive => ~active /\ ~receipt /\ core \in {"none", "orphan"}

CandidateLeft == active => leaked < Candidates

CalmKernel ==
    Steady => /\ alive /\ leaked = 0
              /\ rules = "stuck" => Withdrawn(rules)
              /\ receipt \/ Withdrawn(rules)

\* A rollback of rules in this state, or none, withdraws them.
Undoes(held, from) ==
    /\ from = "stuck" => Withdrawn(from)
    /\ held \/ Withdrawn(from)

IInv == TypeOK /\ StateIsHonest /\ NothingHeld /\ CandidateLeft /\ CalmKernel

-----------------------------------------------------------------------------
\* Dropping the expired ages leaves ages, and not more of them.
LEMMA RecentType ==
    ASSUME NEW ages \in Seq(Ages)
    PROVE  Recent(ages) \in Seq(Ages) /\ Len(Recent(ages)) =< Len(ages)
<1> DEFINE old == {i \in DOMAIN ages: ages[i] >= Window}
<1>1. Len(ages) \in Nat /\ DOMAIN ages = 1..Len(ages)
  OBVIOUS
<1>2. IsFiniteSet(1..Len(ages)) /\ Cardinality(1..Len(ages)) = Len(ages)
  BY <1>1, FS_Interval
<1>3. old \subseteq 1..Len(ages)
  BY <1>1, Zenon
<1>4. IsFiniteSet(old) /\ Cardinality(old) =< Cardinality(1..Len(ages))
  BY <1>2, <1>3, FS_Subset, Zenon
<1>5. Cardinality(old) \in Nat
  BY <1>4, FS_CardinalityType, Zenon
<1> HIDE DEF old
<1> DEFINE from == Cardinality(old) + 1
<1>6. from \in Int /\ Len(ages) \in Int
  BY <1>1, <1>5
<1>7. \A i \in from..Len(ages) : ages[i] \in Ages
  <2>1. \A i \in 1..Len(ages) : ages[i] \in Ages
    OBVIOUS
  <2>2. \A i \in from..Len(ages) : i \in 1..Len(ages)
    BY <1>1, <1>5
  <2> QED
    BY <2>1, <2>2, Zenon
<1> HIDE DEF from
<1>8. /\ SubSeq(ages, from, Len(ages)) \in Seq(Ages)
      /\ Len(SubSeq(ages, from, Len(ages)))
           = IF from <= Len(ages) THEN Len(ages) - from + 1 ELSE 0
  BY <1>6, <1>7
<1>9. Recent(ages) = SubSeq(ages, from, Len(ages))
  BY Zenon DEF Recent, old, from
<1> QED
  BY <1>1, <1>5, <1>8, <1>9 DEF from

\* Growing older leaves as many ages.
LEMMA OlderType ==
    ASSUME NEW ages \in Seq(Ages)
    PROVE  Older(ages) \in Seq(Ages) /\ Len(Older(ages)) = Len(ages)
<1>1. Window \in Nat
  BY RuntimeAssumption
<1>2. DOMAIN ages = 1..Len(ages) /\ Len(ages) \in Nat
  OBVIOUS
<1>3. \A i \in 1..Len(ages):
        (IF ages[i] < Window THEN ages[i] + 1 ELSE Window) \in Ages
  BY <1>1 DEF Ages
<1> QED
  BY <1>2, <1>3 DEF Older

\* What register_failure assigns: a budget within its limit, and a state
\* that says whether a restart is scheduled.
LEMMA RegisterFailureType ==
    ASSUME TypeOK, RegisterFailure
    PROVE  /\ failures' \in Seq(Ages) /\ Len(failures') =< 3
           /\ \/ /\ state' = "circuit_open" /\ restartIn' = NoRestart
                 /\ Len(failures') = 3
              \/ /\ state' = "backoff" /\ restartIn' \in {1, 2, 4}
<1> DEFINE kept == Recent(failures)
           n == Len(kept)
<1>1. failures \in Seq(Ages) /\ Len(failures) =< 3
  BY DEF TypeOK, RESTART_DELAYS
<1>2. kept \in Seq(Ages) /\ Len(kept) =< Len(failures)
  BY <1>1, RecentType
<1>3. n \in Nat /\ Len(failures) \in Nat
  BY <1>1, <1>2
<1>4. n =< 3
  BY <1>1, <1>2, <1>3
<1>5. Len(RESTART_DELAYS) = 3
  BY DEF RESTART_DELAYS
<1>6. RegisterFailure
        => IF n = 3
           THEN failures' = kept /\ restartIn' = NoRestart /\ state' = "circuit_open"
           ELSE /\ failures' = Append(kept, 0)
                /\ restartIn' = RESTART_DELAYS[n + 1] /\ state' = "backoff"
  BY <1>5, Zenon DEF RegisterFailure
<1>7. /\ Append(kept, 0) \in Seq(Ages)
      /\ Len(Append(kept, 0)) = n + 1
  <2>1. 0 \in Ages
    BY RuntimeAssumption DEF Ages
  <2> QED
    BY <1>2, <2>1
<1>8. n = Len(kept)
  OBVIOUS
<1> HIDE DEF kept, n
<1>9. CASE n = 3
  <2>1. failures' = kept /\ restartIn' = NoRestart /\ state' = "circuit_open"
    BY <1>6, <1>9, Zenon
  <2>2. Len(failures') = 3
    BY <1>8, <1>9, <2>1, Zenon
  <2>3. 3 =< 3
    OBVIOUS
  <2> QED
    BY <1>2, <2>1, <2>2, <2>3, Zenon
<1>10. CASE n # 3
  <2>1. n \in 0..2
    BY <1>3, <1>4, <1>10
  <2>2. RESTART_DELAYS[n + 1] \in {1, 2, 4}
    BY <2>1 DEF RESTART_DELAYS
  <2>3. n + 1 =< 3
    BY <2>1
  <2> QED
    BY <1>6, <1>7, <1>10, <2>2, <2>3
<1> QED
  BY <1>9, <1>10

\* What a withdrawal may leave.  With working commands it leaves nothing,
\* unless a jump was lost or nothing of what is there was held.
LEMMA WithdrawalsType ==
    ASSUME TypeOK, leaked < Candidates,
           NEW held \in BOOLEAN, NEW from \in Rules, NEW cost,
           NEW w \in Withdrawals(held, from, cost)
    PROVE  /\ w.rules \in Rules
           /\ w.leaked \in 0..Candidates
           /\ w.failed \in BOOLEAN
           /\ w.failed => "command" \in hazards
           /\ Steady /\ Undoes(held, from)
                => Withdrawn(w.rules) /\ w.leaked = leaked
<1>0. /\ leaked \in Nat /\ Candidates \in Nat
      /\ leaked \in 0..Candidates /\ leaked + 1 \in 0..Candidates
  BY RuntimeAssumption DEF TypeOK
<1> DEFINE Fits(x) == /\ x.rules \in Rules
                      /\ x.leaked \in 0..Candidates
                      /\ x.failed \in BOOLEAN
<1>1. \A f \in BOOLEAN : \A x \in Leftovers(from, f) : Fits(x) /\ x.failed = f
  BY <1>0 DEF Leftovers, Left, Rules
<1>2. CASE held
  <2>1. CASE w = Left(IF from = "stuck" THEN "stuck" ELSE "clean", leaked, FALSE)
    <3>1. CASE from = "stuck"
      BY <1>0, <2>1, <3>1 DEF Left, Rules, Steady, Withdrawn, Undoes
    <3>2. CASE from # "stuck"
      BY <1>0, <2>1, <3>2 DEF Left, Rules, Steady, Withdrawn, Undoes
    <3> QED
      BY <3>1, <3>2
  <2>2. CASE "command" \in hazards /\ w \in Leftovers(from, TRUE)
    BY <1>1, <2>2, Zenon DEF Steady, Withdrawn, Undoes
  <2> QED
    BY <1>2, <2>1, <2>2, Zenon DEF Withdrawals
<1>3. CASE ~held /\ from = "damaged"
  <2>1. w \in Leftovers(from, FALSE)
    BY <1>3, Zenon DEF Withdrawals
  <2> QED
    BY <1>1, <1>3, <2>1, Zenon DEF Steady, Withdrawn, Undoes
<1>4. CASE ~held /\ from # "damaged"
  <2>1. w = Left(from, leaked, FALSE)
    BY <1>4, Zenon DEF Withdrawals
  <2> QED
    BY <1>0, <1>4, <2>1 DEF Left, Rules, Steady, Withdrawn, Undoes
<1> QED
  BY <1>2, <1>3, <1>4

\* Faults are only spent within their bound.
LEMMA SpendType ==
    ASSUME TypeOK, NEW n \in Nat, Spend(n)
    PROVE  faults' \in 0..MaxFaults
BY RuntimeAssumption DEF TypeOK, Spend

\* What stopping the runtime assigns.
LEMMA WithdrawnType ==
    ASSUME TypeOK, leaked < Candidates,
           NEW held \in BOOLEAN, NEW from \in Rules, NEW cost \in Nat,
           \E w \in Withdrawals(held, from, cost): StopActive(w, cost)
    PROVE  /\ rules' \in Rules
           /\ leaked' \in 0..Candidates
           /\ reported' \in BOOLEAN
           /\ faults' \in 0..MaxFaults
           /\ active' = FALSE /\ receipt' = FALSE
           /\ core' = IF core = "orphan" THEN core ELSE "none"
           /\ Steady /\ Undoes(held, from)
                => Withdrawn(rules') /\ leaked' = leaked
<1>1. PICK w \in Withdrawals(held, from, cost): StopActive(w, cost)
  OBVIOUS
<1>2. /\ w.rules \in Rules
      /\ w.leaked \in 0..Candidates
      /\ Steady /\ Undoes(held, from)
           => Withdrawn(w.rules) /\ w.leaked = leaked
  BY WithdrawalsType
<1>3. faults' \in 0..MaxFaults
  <2>1. cost + (IF w.failed THEN 1 ELSE 0) \in Nat
    OBVIOUS
  <2>2. Spend(cost + (IF w.failed THEN 1 ELSE 0))
    BY <1>1 DEF StopActive
  <2> QED
    BY <2>1, <2>2, SpendType
<1>4. reported' \in BOOLEAN
  BY <1>1, Zenon DEF StopActive
<1> QED
  BY <1>1, <1>2, <1>3, <1>4, Zenon DEF StopActive

\* A runtime that failed is stopped and its failure registered: the worker
\* then waits for a restart, or for someone to close its circuit.
LEMMA FailRuntimeIInv ==
    ASSUME IInv, alive, active,
           NEW held \in BOOLEAN, NEW from \in Rules, NEW cost \in Nat,
           Steady => Undoes(held, from),
           FailRuntime(held, from, cost), Quiet
    PROVE  IInv'
<1>1. TypeOK /\ leaked < Candidates
  BY DEF IInv, CandidateLeft
<1>2. /\ rules' \in Rules
      /\ leaked' \in 0..Candidates
      /\ reported' \in BOOLEAN
      /\ faults' \in 0..MaxFaults
      /\ active' = FALSE /\ receipt' = FALSE
      /\ core' = IF core = "orphan" THEN core ELSE "none"
      /\ Steady => Withdrawn(rules') /\ leaked' = leaked
  BY <1>1, WithdrawnType, Zenon DEF FailRuntime
<1>3. /\ failures' \in Seq(Ages) /\ Len(failures') =< 3
      /\ \/ /\ state' = "circuit_open" /\ restartIn' = NoRestart
            /\ Len(failures') = 3
         \/ /\ state' = "backoff" /\ restartIn' \in {1, 2, 4}
  BY <1>1, RegisterFailureType DEF FailRuntime
<1>4. core' = "none"
  BY <1>2 DEF IInv, StateIsHonest
<1>5. TypeOK'
  BY <1>1, <1>2, <1>3, <1>4, Zenon
     DEF TypeOK, Quiet, settings, RuntimeStates, RESTART_DELAYS
<1>6. StateIsHonest'
  BY <1>2, <1>3, <1>4 DEF StateIsHonest, RESTART_DELAYS, NoRestart
<1>7. NothingHeld' /\ CandidateLeft'
  BY <1>2, <1>4 DEF NothingHeld, CandidateLeft
<1>8. CalmKernel'
  BY <1>2 DEF IInv, CalmKernel, Quiet, settings, Steady, Withdrawn, Undoes
<1> QED
  BY <1>5, <1>6, <1>7, <1>8 DEF IInv

\* A start, whatever becomes of it.
LEMMA StartIInv ==
    ASSUME IInv, alive, ~active, Start,
           UNCHANGED <<settings, alive, scene>>,
           pending' \in BOOLEAN, restarts' \in Seq(Ages)
    PROVE  IInv'
<1>0. TypeOK /\ CandidateLeft /\ CalmKernel /\ StateIsHonest /\ Candidates \in Nat
  BY RuntimeAssumption DEF IInv
<1>f. ASSUME RegisterFailure
      PROVE  /\ failures' \in Seq(Ages) /\ Len(failures') =< 3
             /\ \/ /\ state' = "circuit_open" /\ restartIn' = NoRestart
                   /\ Len(failures') = 3
                \/ /\ state' = "backoff" /\ restartIn' \in {1, 2, 4}
  BY <1>0, <1>f, RegisterFailureType
\* Every way to fail leaves the worker without a runtime.
<1>d. ASSUME RegisterFailure,
             rules' \in Rules, leaked' \in 0..Candidates, reported' \in BOOLEAN,
             faults' \in 0..MaxFaults, active' = FALSE, receipt' = FALSE,
             core' = core,
             Steady => Withdrawn(rules') /\ leaked' = leaked
      PROVE  IInv'
  <2>1. TypeOK'
    BY <1>0, <1>d, <1>f, Zenon DEF TypeOK, settings, RuntimeStates, RESTART_DELAYS
  <2>2. StateIsHonest'
    BY <1>0, <1>d, <1>f DEF StateIsHonest, RESTART_DELAYS, NoRestart
  <2>3. NothingHeld' /\ CandidateLeft' /\ CalmKernel'
    BY <1>0, <1>d DEF NothingHeld, CandidateLeft, CalmKernel, settings,
                      Steady, Withdrawn, Undoes
  <2> QED
    BY <2>1, <2>2, <2>3 DEF IInv
<1>e. receipt = FALSE
  BY <1>0 DEF TypeOK, StateIsHonest
<1>1. CASE Recovered
  <2>1. <<>> \in Seq(Ages) /\ Len(<<>>) =< 3
    OBVIOUS
  <2>2. TypeOK'
    BY <1>0, <1>1, <2>1
       DEF Recovered, TypeOK, settings, RuntimeStates, Rules, RESTART_DELAYS
  <2>3. StateIsHonest'
    BY <1>1 DEF Recovered, StateIsHonest, NoRestart
  <2>4. NothingHeld' /\ CandidateLeft' /\ CalmKernel'
    BY <1>0, <1>1
       DEF Recovered, CanApply, CanPlan, NothingHeld, CandidateLeft,
           CalmKernel, settings, Steady, Withdrawn
  <2> QED
    BY <2>2, <2>3, <2>4 DEF IInv
<1>2. CASE NoGeneration
  <2>1. TypeOK'
    BY <1>0, <1>2
       DEF NoGeneration, TypeOK, kernel, settings, RuntimeStates, RESTART_DELAYS
  <2>2. StateIsHonest'
    BY <1>0, <1>2 DEF NoGeneration, StateIsHonest, NoRestart
  <2>3. NothingHeld' /\ CandidateLeft' /\ CalmKernel'
    BY <1>0, <1>2
       DEF NoGeneration, NothingHeld, CandidateLeft, CalmKernel, kernel, settings,
           Steady, Withdrawn, Undoes
  <2> QED
    BY <2>1, <2>2, <2>3 DEF IInv
<1>3. CASE Refused
  <2>1. faults' \in 0..MaxFaults
    BY <1>0, <1>3, SpendType DEF Refused, TypeOK
  <2>2. Steady => Withdrawn(rules)
    BY <1>0, <1>e DEF CalmKernel
  <2> QED
    BY <1>0, <1>3, <1>d, <1>e, <2>1, <2>2, Zenon DEF Refused, kernel, TypeOK
<1>4. CASE ApplyFailed
  <2>1. faults' \in 0..MaxFaults
    BY <1>0, <1>4, SpendType DEF ApplyFailed
  <2>2. rules' \in Rules /\ leaked' \in 0..Candidates
    BY <1>0, <1>4 DEF ApplyFailed, CanApply, CanPlan, kernel, TypeOK, Rules
  <2>3. reported' \in BOOLEAN
    BY <1>0, <1>4, Zenon DEF ApplyFailed, TypeOK
  <2>4. ~Steady
    BY <1>4 DEF ApplyFailed, Steady
  <2> QED
    BY <1>0, <1>4, <1>d, <1>e, <2>1, <2>2, <2>3, <2>4, Zenon
       DEF ApplyFailed, TypeOK
<1>5. CASE Unhealthy
  <2>1. TRUE \in BOOLEAN /\ "applied" \in Rules /\ 1 \in Nat
    BY DEF Rules
  <2>2. /\ rules' \in Rules
        /\ leaked' \in 0..Candidates
        /\ reported' \in BOOLEAN
        /\ faults' \in 0..MaxFaults
        /\ active' = FALSE /\ receipt' = FALSE
        /\ core' = IF core = "orphan" THEN core ELSE "none"
        /\ Steady => Withdrawn(rules') /\ leaked' = leaked
    <3>1. Undoes(TRUE, "applied")
      BY DEF Undoes
    <3> QED
      BY <1>0, <1>5, <2>1, <3>1, WithdrawnType, Zenon
         DEF Unhealthy, CanApply, CanPlan
  <2>3. core' = core
    BY <1>0, <2>2 DEF StateIsHonest, TypeOK
  <2> QED
    BY <1>5, <1>d, <2>2, <2>3, Zenon DEF Unhealthy
<1>6. CASE LeftoversMet
  <2>1. rules' \in Rules /\ leaked' \in 0..Candidates
    BY <1>0, <1>6 DEF LeftoversMet, Met, CanPlan, TypeOK, Rules
  <2>2. Steady => rules = "stuck" /\ Withdrawn(rules)
    BY <1>0, <1>e, <1>6 DEF LeftoversMet, CalmKernel, Withdrawn
  <2>3. rules = "stuck" => rules' = "stuck" /\ leaked' = leaked
    BY <1>6 DEF LeftoversMet, Met
  <2>4. Steady => Withdrawn(rules') /\ leaked' = leaked
    BY <2>2, <2>3, Zenon
  <2> QED
    BY <1>0, <1>d, <1>e, <1>6, <2>1, <2>4, Zenon DEF LeftoversMet, TypeOK
<1> QED
  BY <1>1, <1>2, <1>3, <1>4, <1>5, <1>6, Zenon DEF Start

\* WorkerApplication::stop, from a command (exits) or from core.stop.
LEMMA StopIInv ==
    ASSUME IInv, alive, NEW exits \in BOOLEAN, Stop(exits),
           UNCHANGED <<hazards, mode, stored, restarts>>,
           enabled' \in BOOLEAN, scene' \in {"none", "on", "off"}
    PROVE  IInv'
<1>0. TypeOK /\ CandidateLeft /\ CalmKernel /\ StateIsHonest /\ Candidates \in Nat
  BY RuntimeAssumption DEF IInv
<1>1. /\ rules' \in Rules
      /\ leaked' \in 0..Candidates
      /\ reported' \in BOOLEAN
      /\ faults' \in 0..MaxFaults
      /\ active' = FALSE /\ receipt' = FALSE
      /\ core' = IF core = "orphan" THEN core ELSE "none"
      /\ alive' \in BOOLEAN
      /\ Steady => Withdrawn(rules') /\ leaked' = 0 /\ alive' = TRUE
  <2>1. CASE active
    <3>1. leaked < Candidates /\ receipt \in BOOLEAN /\ rules \in Rules /\ 0 \in Nat
      BY <1>0, <2>1 DEF CandidateLeft, TypeOK
    <3>2. PICK w \in Withdrawals(receipt, rules, 0):
             StopActive(w, 0) /\ alive' = ~(exits /\ w.failed)
      BY <2>1, Zenon DEF Stop
    <3>3. w.failed => "command" \in hazards
      BY <1>0, <3>1, WithdrawalsType
    <3>4. alive' \in BOOLEAN /\ (Steady => alive' = TRUE)
      BY <3>2, <3>3, Zenon DEF Steady, Withdrawn, Undoes
    <3>5. Steady => Undoes(receipt, rules) /\ leaked = 0
      BY <1>0 DEF CalmKernel, Steady, Withdrawn, Undoes
    <3>6. \E x \in Withdrawals(receipt, rules, 0): StopActive(x, 0)
      BY <3>2
    <3> QED
      BY <1>0, <3>1, <3>4, <3>5, <3>6, WithdrawnType, Zenon
  <2>2. CASE ~active
    <3>1. /\ StopActive(Left(rules, leaked, FALSE), 0)
          /\ alive' = ~(exits /\ Left(rules, leaked, FALSE).failed)
      BY <2>2, Zenon DEF Stop
    <3>2. /\ Left(rules, leaked, FALSE).rules = rules
          /\ Left(rules, leaked, FALSE).leaked = leaked
          /\ Left(rules, leaked, FALSE).failed = FALSE
      BY DEF Left
    <3>3. /\ rules' = rules /\ leaked' = leaked
          /\ active' = FALSE /\ receipt' = FALSE
          /\ core' = IF core = "orphan" THEN core ELSE "none"
      BY <3>1, <3>2, Zenon DEF StopActive
    <3>4. reported' \in BOOLEAN /\ alive' = TRUE
      BY <3>1, <3>2, Zenon DEF StopActive
    <3>5. faults' \in 0..MaxFaults
      <4>1. Spend(0 + (IF Left(rules, leaked, FALSE).failed THEN 1 ELSE 0))
        BY <3>1, Zenon DEF StopActive
      <4>2. 0 + (IF Left(rules, leaked, FALSE).failed THEN 1 ELSE 0) \in Nat
        OBVIOUS
      <4> QED
        BY <1>0, <4>1, <4>2, SpendType, Zenon
    <3>6. Steady => Withdrawn(rules) /\ leaked = 0
      BY <1>0, <2>2 DEF CalmKernel, StateIsHonest
    <3> QED
      BY <1>0, <3>3, <3>4, <3>5, <3>6 DEF TypeOK
  <2> QED
    BY <2>1, <2>2, Zenon
<1>2. restartIn' = NoRestart /\ pending' = FALSE /\ state' = "fail_open"
      /\ failures' = failures
  BY DEF Stop
<1>3. core' \in {"none", "orphan"}
  BY <1>1
<1>4. TypeOK'
  BY <1>0, <1>1, <1>2, <1>3, Zenon DEF TypeOK, RuntimeStates, RESTART_DELAYS
<1>5. StateIsHonest'
  BY <1>1, <1>2, <1>3 DEF StateIsHonest
<1>6. NothingHeld' /\ CandidateLeft' /\ CalmKernel'
  BY <1>1, <1>3 DEF NothingHeld, CandidateLeft, CalmKernel,
                    Steady, Withdrawn, Undoes
<1> QED
  BY <1>4, <1>5, <1>6 DEF IInv

-----------------------------------------------------------------------------
LEMMA InitIInv == Init => IInv
<1> SUFFICES ASSUME Init PROVE IInv
  OBVIOUS
<1>1. <<>> \in Seq(Ages) /\ Len(<<>>) =< 3
  OBVIOUS
<1>2. /\ stored \in BOOLEAN /\ enabled \in BOOLEAN /\ alive \in BOOLEAN
      /\ active \in BOOLEAN /\ receipt \in BOOLEAN /\ pending \in BOOLEAN
      /\ reported \in BOOLEAN
  BY Zenon DEF Init
<1>4. TypeOK
  BY <1>1, <1>2, RuntimeAssumption
     DEF Init, TypeOK, Rules, RuntimeStates, RESTART_DELAYS
<1>3. StateIsHonest
  BY DEF Init, StateIsHonest
<1> QED
  BY <1>3, <1>4 DEF Init, IInv, NothingHeld, CandidateLeft, CalmKernel,
                    Steady, Withdrawn, Undoes

LEMMA NextIInv == IInv /\ [Next]_vars => IInv'
<1> SUFFICES ASSUME IInv, [Next]_vars PROVE IInv'
  OBVIOUS
<1>0. /\ TypeOK /\ StateIsHonest /\ NothingHeld /\ CandidateLeft /\ CalmKernel
      /\ Candidates \in Nat /\ 0 \in Nat /\ 1 \in Nat /\ 2 \in Nat /\ 3 \in Nat
      /\ {TRUE, FALSE} \subseteq BOOLEAN
  BY RuntimeAssumption DEF IInv
<1>1. CASE StartCommand
  <2>1. <<>> \in Seq(Ages) /\ Len(<<>>) =< 3
    OBVIOUS
  <2>2. enabled' \in BOOLEAN
    BY <1>0, <1>1, Zenon DEF StartCommand, TypeOK
  <2>3. TypeOK'
    BY <1>0, <1>1, <2>1, <2>2 DEF StartCommand, TypeOK, kernel, RESTART_DELAYS
  <2>4. StateIsHonest' /\ NothingHeld' /\ CandidateLeft' /\ CalmKernel'
    BY <1>0, <1>1
       DEF StartCommand, kernel, StateIsHonest, NothingHeld, CandidateLeft, CalmKernel,
           Steady, Withdrawn, Undoes
  <2> QED
    BY <2>3, <2>4 DEF IInv
<1>2. CASE HandleStart
  <2>1. CASE ~active /\ Start
    BY <1>0, <1>2, <2>1, StartIInv, Zenon DEF HandleStart, TypeOK
  <2>2. CASE active
    <3>0. /\ pending' \in BOOLEAN
          /\ UNCHANGED <<core, kernel, active, receipt, budget, state, reported, faults>>
          /\ UNCHANGED <<settings, alive, scene, restarts>>
      BY <1>2, <2>2, Zenon DEF HandleStart
    <3>1. TypeOK'
      BY <1>0, <3>0 DEF TypeOK, kernel, settings, budget, RESTART_DELAYS
    <3>2. StateIsHonest' /\ NothingHeld' /\ CandidateLeft' /\ CalmKernel'
      BY <1>0, <2>2, <3>0
         DEF TypeOK, kernel, settings, budget, StateIsHonest, NothingHeld,
             CandidateLeft, CalmKernel, Steady, Withdrawn, Undoes
    <3> QED
      BY <3>1, <3>2 DEF IInv
  <2> QED
    BY <1>2, <2>1, <2>2 DEF HandleStart
<1>3. CASE StopCommand
  BY <1>0, <1>3, StopIInv, Zenon DEF StopCommand, TypeOK
<1>4. CASE CoreStop
  BY <1>0, <1>4, StopIInv, Zenon DEF CoreStop, TypeOK, settings
<1>5. ASSUME NEW d \in {"none", "on", "off"}, WifiScene(d) PROVE IInv'
  <2>0. scene' \in {"none", "on", "off"}
    BY <1>5 DEF WifiScene, SceneOverride
  <2>1. CASE Stop(TRUE) /\ UNCHANGED restarts
    BY <1>0, <1>5, <2>0, <2>1, StopIInv, Zenon DEF WifiScene, TypeOK, settings
  <2>2. CASE /\ pending' = TRUE /\ failures' = <<>> /\ restarts' = <<>>
             /\ ~active
             /\ UNCHANGED <<core, kernel, alive, active, receipt, restartIn,
                            state, reported, faults>>
    <3>1. <<>> \in Seq(Ages) /\ Len(<<>>) =< 3
      OBVIOUS
    <3>2. TypeOK'
      BY <1>0, <1>5, <2>0, <2>2, <3>1
         DEF WifiScene, TypeOK, kernel, settings, RESTART_DELAYS
    <3>3. StateIsHonest' /\ NothingHeld' /\ CandidateLeft' /\ CalmKernel'
      BY <1>0, <1>5, <2>2
         DEF WifiScene, kernel, settings, StateIsHonest, NothingHeld, CandidateLeft,
             CalmKernel, Steady, Withdrawn, Undoes
    <3> QED
      BY <3>2, <3>3 DEF IInv
  <2>3. CASE UNCHANGED <<core, kernel, alive, active, receipt, budget,
                         pending, state, restarts, reported, faults>>
    <3>1. TypeOK'
      BY <1>0, <1>5, <2>0, <2>3
         DEF WifiScene, TypeOK, kernel, settings, budget, RESTART_DELAYS
    <3>2. StateIsHonest' /\ NothingHeld' /\ CandidateLeft' /\ CalmKernel'
      BY <1>0, <1>5, <2>3
         DEF WifiScene, kernel, settings, budget, StateIsHonest, NothingHeld,
             CandidateLeft, CalmKernel, Steady, Withdrawn, Undoes
    <3> QED
      BY <3>1, <3>2 DEF IInv
  <2> QED
    BY <1>5, <2>1, <2>2, <2>3, Zenon DEF WifiScene
<1>6. CASE CaptureEnable
  <2>1. faults' \in 0..MaxFaults
    BY <1>0, <1>6, SpendType DEF CaptureEnable, TypeOK
  <2>2. reported' \in BOOLEAN /\ receipt' \in BOOLEAN
    BY <1>0, <1>6, Zenon DEF CaptureEnable, TypeOK
  <2>3. TypeOK'
    BY <1>0, <1>6, <2>1, <2>2
       DEF CaptureEnable, Met, TypeOK, kernel, settings, budget, Rules,
           RESTART_DELAYS
  <2>4. StateIsHonest' /\ NothingHeld' /\ CandidateLeft'
    BY <1>0, <1>6
       DEF CaptureEnable, kernel, settings, budget, StateIsHonest, NothingHeld,
           CandidateLeft
  <2>5. CalmKernel'
    BY <1>0, <1>6
       DEF CaptureEnable, Met, kernel, settings, CalmKernel, Steady, Withdrawn
  <2> QED
    BY <2>3, <2>4, <2>5 DEF IInv
<1>7. CASE CaptureDisable
  <2>1. faults' \in 0..MaxFaults
    BY <1>0, <1>7, SpendType DEF CaptureDisable, TypeOK
  <2>2. receipt' \in BOOLEAN
    BY <1>0, <1>7, Zenon DEF CaptureDisable, TypeOK
  <2>3. TypeOK'
    BY <1>0, <1>7, <2>1, <2>2
       DEF CaptureDisable, TypeOK, kernel, settings, budget, Rules, RESTART_DELAYS
  <2>4. StateIsHonest' /\ NothingHeld' /\ CandidateLeft' /\ CalmKernel'
    BY <1>0, <1>7
       DEF CaptureDisable, kernel, settings, budget, StateIsHonest, NothingHeld,
           CandidateLeft, CalmKernel, Steady, Withdrawn, Undoes
  <2> QED
    BY <2>3, <2>4 DEF IInv
<1>c. Steady => Undoes(receipt, rules)
  BY <1>0 DEF CalmKernel, Steady, Withdrawn, Undoes
<1>t. receipt \in BOOLEAN /\ rules \in Rules /\ {"damaged", "stuck", "clean", "applied"} = Rules
  BY <1>0 DEF TypeOK, Rules
<1>8. CASE CoreExited
  BY <1>0, <1>c, <1>t, <1>8, FailRuntimeIInv DEF CoreExited
<1>9. CASE CoreObserveFailed
  BY <1>0, <1>c, <1>t, <1>9, FailRuntimeIInv DEF CoreObserveFailed
<1>10. CASE Reconcile
  <2>0. alive /\ active /\ Quiet
    BY <1>10 DEF Reconcile
  <2>1. CASE Reconciled
    <3>1. TypeOK'
      BY <1>0, <2>0, <2>1
         DEF Reconciled, Quiet, TypeOK, kernel, settings, budget, RESTART_DELAYS
    <3>2. StateIsHonest' /\ NothingHeld' /\ CandidateLeft' /\ CalmKernel'
      BY <1>0, <2>0, <2>1
         DEF Reconciled, Quiet, kernel, settings, budget, StateIsHonest, NothingHeld,
             CandidateLeft, CalmKernel, Steady, Withdrawn, Undoes
    <3> QED
      BY <3>1, <3>2 DEF IInv
  <2>2. ASSUME NEW c \in {0, 1},
               \/ TunUnhealthy(c) \/ DisabledDrift(c) \/ WithdrawFailed(c)
               \/ ReapplyFailed(c) \/ DriftPersisted(c) \/ Repaired(c)
        PROVE  IInv'
    <3>0. c \in Nat /\ c + 1 \in Nat /\ c + 2 \in Nat
      OBVIOUS
    <3>1. CASE TunUnhealthy(c)
      BY <1>0, <1>c, <1>t, <2>0, <3>0, <3>1, FailRuntimeIInv DEF TunUnhealthy
    <3>2. CASE DisabledDrift(c)
      BY <1>0, <1>c, <1>t, <2>0, <3>0, <3>2, FailRuntimeIInv, Zenon DEF DisabledDrift
    <3>3. CASE WithdrawFailed(c)
      <4> DEFINE from == IF rules = "stuck" THEN "stuck" ELSE "damaged"
      <4>1. from \in Rules
        BY DEF Rules
      <4>2. ~Steady
        BY <3>3 DEF WithdrawFailed, Steady, Withdrawn, Undoes
      <4>3. FailRuntime(TRUE, from, c + 1)
        BY <3>3, Zenon DEF WithdrawFailed
      <4> QED
        BY <1>0, <2>0, <3>0, <4>1, <4>2, <4>3, FailRuntimeIInv, Zenon
    <3>4. CASE ReapplyFailed(c)
      <4>1. CASE rules = "stuck" /\ FailRuntime(FALSE, "stuck", c)
        BY <1>0, <1>c, <1>t, <2>0, <3>0, <4>1, FailRuntimeIInv, Zenon
           DEF Steady, Withdrawn, Undoes
      <4>2. CASE "command" \in hazards /\ FailRuntime(FALSE, "clean", c + 1)
        BY <1>0, <1>t, <2>0, <3>0, <4>2, FailRuntimeIInv, Zenon
           DEF Steady, Withdrawn, Undoes
      <4>3. CASE "command" \in hazards /\ FailRuntime(FALSE, "damaged", c + 2)
        BY <1>0, <1>t, <2>0, <3>0, <4>3, FailRuntimeIInv, Zenon
           DEF Steady, Withdrawn, Undoes
      <4> QED
        BY <3>4, <4>1, <4>2, <4>3, Zenon DEF ReapplyFailed
    <3>5. CASE DriftPersisted(c)
      BY <1>0, <1>t, <2>0, <3>0, <3>5, FailRuntimeIInv, Zenon DEF DriftPersisted,
                                                                  Steady, Withdrawn, Undoes
    <3>6. CASE Repaired(c)
      <4>1. faults' \in 0..MaxFaults
        BY <1>0, <3>0, <3>6, SpendType DEF Repaired
      <4>2. TypeOK'
        BY <1>0, <2>0, <3>6, <4>1
           DEF Repaired, Quiet, TypeOK, settings, budget, Rules, RESTART_DELAYS
      <4>3. StateIsHonest' /\ NothingHeld' /\ CandidateLeft' /\ CalmKernel'
        BY <1>0, <2>0, <3>6
           DEF Repaired, Quiet, settings, budget, StateIsHonest, NothingHeld,
               CandidateLeft, CalmKernel, Steady, Withdrawn, Undoes
      <4> QED
        BY <4>2, <4>3 DEF IInv
    <3> QED
      BY <2>2, <3>1, <3>2, <3>3, <3>4, <3>5, <3>6
  <2> QED
    BY <1>10, <2>1, <2>2 DEF Reconcile
<1>11. CASE RestartDue
  <2>1. restarts' \in Seq(Ages)
    <3>1. restarts \in Seq(Ages) /\ 0 \in Ages
      BY <1>0, RuntimeAssumption DEF TypeOK, Ages
    <3>2. Append(restarts, 0) \in Seq(Ages)
      BY <3>1
    <3> QED
      BY <1>11, <3>1, <3>2, Zenon DEF RestartDue
  <2> QED
    BY <1>0, <1>11, <2>1, StartIInv DEF RestartDue, TypeOK
<1>12. CASE CoreDies
  <2>1. faults' \in 0..MaxFaults
    BY <1>0, <1>12, SpendType DEF CoreDies
  <2>2. TypeOK'
    BY <1>0, <1>12, <2>1
       DEF CoreDies, TypeOK, kernel, settings, budget, RESTART_DELAYS
  <2>3. StateIsHonest' /\ NothingHeld' /\ CandidateLeft' /\ CalmKernel'
    BY <1>0, <1>12
       DEF CoreDies, kernel, settings, budget, StateIsHonest, NothingHeld,
           CandidateLeft, CalmKernel, Steady, Withdrawn, Undoes
  <2> QED
    BY <2>2, <2>3 DEF IInv
<1>13. CASE Drift
  <2>1. faults' \in 0..MaxFaults
    BY <1>0, <1>13, SpendType DEF Drift
  <2>2. rules' \in {"damaged", "stuck"} /\ (rules' = "stuck" => "jump" \in hazards)
    BY <1>13 DEF Drift
  <2>3. TypeOK'
    BY <1>0, <1>13, <2>1, <2>2
       DEF Drift, TypeOK, settings, budget, Rules, RESTART_DELAYS
  <2>4. StateIsHonest' /\ NothingHeld' /\ CandidateLeft' /\ CalmKernel'
    BY <1>0, <1>13, <2>2
       DEF Drift, settings, budget, StateIsHonest, NothingHeld, CandidateLeft,
           CalmKernel, Steady, Withdrawn, Undoes
  <2> QED
    BY <2>3, <2>4 DEF IInv
<1>14. CASE WorkerDies
  <2>1. faults' \in 0..MaxFaults
    BY <1>0, <1>14, SpendType DEF WorkerDies
  <2>2. rules' \in Rules /\ hazards' = hazards /\ ~Steady
    BY <1>0, <1>14 DEF WorkerDies, TypeOK, Rules, settings,
                       Steady, Withdrawn, Undoes
  <2>3. core' \in {"none", "orphan"}
    BY <1>0, <1>14 DEF WorkerDies, TypeOK
  <2>4. TypeOK'
    BY <1>0, <1>14, <2>1, <2>2, <2>3, Zenon
       DEF WorkerDies, TypeOK, settings, budget, RESTART_DELAYS
  <2>5. StateIsHonest' /\ NothingHeld' /\ CandidateLeft' /\ CalmKernel'
    BY <1>14, <2>2, <2>3
       DEF WorkerDies, StateIsHonest, NothingHeld, CandidateLeft, CalmKernel,
           Steady, Withdrawn, Undoes
  <2> QED
    BY <2>4, <2>5 DEF IInv
<1>15. CASE Relaunch
  <2>1. <<>> \in Seq(Ages) /\ Len(<<>>) =< 3
    OBVIOUS
  <2>2. TypeOK'
    BY <1>0, <1>15, <2>1
       DEF Relaunch, TypeOK, kernel, settings, RuntimeStates, RESTART_DELAYS
  <2>3. StateIsHonest'
    BY <1>0, <1>15 DEF Relaunch, StateIsHonest, NothingHeld
  <2>4. NothingHeld' /\ CandidateLeft' /\ CalmKernel'
    BY <1>0, <1>15
       DEF Relaunch, kernel, settings, NothingHeld, CandidateLeft, CalmKernel,
           Steady, Withdrawn, Undoes
  <2> QED
    BY <2>2, <2>3, <2>4 DEF IInv
<1>16. CASE Tick
  <2>1. failures \in Seq(Ages) /\ restarts \in Seq(Ages)
    BY <1>0 DEF TypeOK
  <2>2. failures' \in Seq(Ages) /\ Len(failures') = Len(failures)
    BY <1>16, <2>1, OlderType DEF Tick
  <2>3. restarts' \in Seq(Ages)
    BY <1>16, <2>1, OlderType, RecentType DEF Tick
  <2>4. /\ restartIn' \in {NoRestart, 0, 1, 2, 3, 4}
        /\ restartIn' = NoRestart <=> restartIn = NoRestart
    BY <1>0, <1>16 DEF Tick, TypeOK, NoRestart
  <2>5. TypeOK'
    BY <1>0, <1>16, <2>2, <2>3, <2>4 DEF Tick, TypeOK, kernel, settings
  <2>6. StateIsHonest'
    BY <1>0, <1>16, <2>2, <2>4 DEF Tick, StateIsHonest
  <2>7. NothingHeld' /\ CandidateLeft' /\ CalmKernel'
    BY <1>0, <1>16 DEF Tick, kernel, settings, NothingHeld, CandidateLeft, CalmKernel,
                       Steady, Withdrawn, Undoes
  <2> QED
    BY <2>5, <2>6, <2>7 DEF IInv
<1>17. CASE UNCHANGED vars
  <2>1. TypeOK'
    BY <1>0, <1>17 DEF vars, TypeOK, kernel, settings, budget
  <2>2. StateIsHonest' /\ NothingHeld' /\ CandidateLeft' /\ CalmKernel'
    BY <1>0, <1>17
       DEF vars, kernel, settings, budget, StateIsHonest, NothingHeld,
           CandidateLeft, CalmKernel, Steady, Withdrawn, Undoes
  <2> QED
    BY <2>1, <2>2 DEF IInv
<1> QED
  BY <1>1, <1>2, <1>3, <1>4, <1>5, <1>6, <1>7, <1>8, <1>9, <1>10, <1>11, <1>12,
     <1>13, <1>14, <1>15, <1>16, <1>17 DEF Next

LEMMA Invariance == Spec => []IInv
BY InitIInv, NextIInv, PTL DEF Spec

\* The worker's state is always well formed: the budget never holds more than
\* three failures, and no more candidates are lost than there are.
THEOREM TypeCorrect == Spec => []TypeOK
BY Invariance, PTL DEF IInv

\* The published state is the state the worker is in, through every start,
\* stop, failure, repair, kill and relaunch.
THEOREM HonestState == Spec => []StateIsHonest
BY Invariance, PTL DEF IInv

\* While network commands work and nobody kills the worker, a worker without
\* a runtime has left nothing in the kernel, except the rules that cannot be
\* rolled back once others have removed the jump to their chain.
THEOREM DownMeansDirect == Spec => []DirectWhenDown
<1>1. IInv => DirectWhenDown
  BY DEF IInv, StateIsHonest, CalmKernel, DirectWhenDown
<1> QED
  BY <1>1, Invariance, PTL

-----------------------------------------------------------------------------
(***************************************************************************)
(* The update schedules, whatever the sources, resources and policy.       *)
(***************************************************************************)
CONSTANTS NSources, NResources, Interval, Backoff, MaxBackoff, MaxFailures,
          Cooldown, MaxTime, MaxUpsets

VARIABLES now, auto, due, store, mem, floor, pc, job, awaited, todo, ended,
          retryIn, saved, dropped, upsets

S == INSTANCE Scheduler WITH active <- due, pending <- awaited, result <- ended

IsRecord(r) ==
    \/ r = S!NoRecord
    \/ r \in [next : Nat, fails : 0..MaxFailures, seen : Nat]

\* What a source is left alone for, at the least.
Shortest == IF Backoff =< Interval THEN Backoff ELSE Interval

Wait(k) == Shortest + S!Jitter(k)

ScheduleShape ==
    /\ now \in Nat /\ due \subseteq S!Sources
    /\ store = [k \in S!Keys |-> store[k]] /\ mem = [k \in S!Keys |-> mem[k]]
    /\ saved = [k \in S!Keys |-> saved[k]]
    /\ pc \in {"down", "configuring", "idle", "queued", "running", "recording"}
    /\ awaited \subseteq S!Sources /\ todo \subseteq S!Keys
    /\ job.engine \in S!Engines
    /\ ended.failed \in BOOLEAN /\ ended.at \in Nat
    /\ pc = "recording" /\ job.engine # 0 => todo \subseteq S!Resources

\* The record s of a key in the database and m in memory, with the last result
\* saved at v and the worker at d.
KeyOK(s, m, v, d, k) ==
    /\ IsRecord(s) /\ IsRecord(m) /\ v \in Int
    /\ v >= 0 => s.next >= v + Wait(k)
    /\ d # "down" => m.seen >= s.seen
    /\ d # "down" /\ k \in S!Sources => m.next = s.next

KeyInv(k) == KeyOK(store[k], mem[k], saved[k], pc, k)

ScheduleInv == ScheduleShape /\ \A k \in S!Keys : KeyInv(k)

\* What the step does to the record in the database of a key.
SeenLater(k) == store'[k].seen >= store[k].seen

-----------------------------------------------------------------------------
LEMMA SmallerOfTwo ==
    \A a, b \in Int : S!Min({a, b}) = IF a =< b THEN a ELSE b
<1> TAKE a, b \in Int
<1>1. CASE a =< b
  BY <1>1 DEF S!Min
<1>2. CASE ~(a =< b)
  BY <1>2 DEF S!Min
<1> QED
  BY <1>1, <1>2

LEMMA PowerIs ==
    \A n \in Nat : S!Power(n) \in {1, 2, 4, 8, 16, 32, 64}
<1> TAKE n \in Nat
<1> DEFINE m == S!Min({n, 6})
<1>1. m \in 0..6
  BY SmallerOfTwo
<1>2. S!Power(n) = 2 ^ m
  BY DEF S!Power
<1> HIDE DEF m
<1>3. m = 0 \/ m = 1 \/ m = 2 \/ m = 3 \/ m = 4 \/ m = 5 \/ m = 6
  BY <1>1
<1>4. CASE m = 0
  <2>1. S!Power(n) = 2 ^ 0
    BY <1>2, <1>4, Zenon
  <2> QED  BY <2>1
<1>5. CASE m = 1
  <2>1. S!Power(n) = 2 ^ 1
    BY <1>2, <1>5, Zenon
  <2> QED  BY <2>1
<1>6. CASE m = 2
  <2>1. S!Power(n) = 2 ^ 2
    BY <1>2, <1>6, Zenon
  <2> QED  BY <2>1
<1>7. CASE m = 3
  <2>1. S!Power(n) = 2 ^ 3
    BY <1>2, <1>7, Zenon
  <2> QED  BY <2>1
<1>8. CASE m = 4
  <2>1. S!Power(n) = 2 ^ 4
    BY <1>2, <1>8, Zenon
  <2> QED  BY <2>1
<1>9. CASE m = 5
  <2>1. S!Power(n) = 2 ^ 5
    BY <1>2, <1>9, Zenon
  <2> QED  BY <2>1
<1>10. CASE m = 6
  <2>1. S!Power(n) = 2 ^ 6
    BY <1>2, <1>10, Zenon
  <2> QED  BY <2>1
<1> QED
  BY <1>3, <1>4, <1>5, <1>6, <1>7, <1>8, <1>9, <1>10

\* update: the delay is the interval, or not shorter than the first backoff.
LEMMA MarkedIs ==
    ASSUME S!PolicyAssumption, ended.failed \in BOOLEAN, ended.at \in Nat,
           NEW rec \in [next : Nat, fails : 0..MaxFailures, seen : Nat],
           NEW k \in S!Keys
    PROVE  /\ S!Marked(rec, k) \in [next : Nat, fails : 0..MaxFailures, seen : Nat]
           /\ S!Marked(rec, k).seen = ended.at
           /\ S!Marked(rec, k).next >= ended.at + Wait(k)
<1> USE DEF S!PolicyAssumption
<1>1. k \in Nat /\ S!Jitter(k) \in {0, 1}
  BY DEF S!Keys, S!Sources, S!Resources, S!Jitter
<1>2. Shortest \in Nat /\ Shortest =< Backoff /\ Shortest =< Interval
  BY DEF Shortest
<1> HIDE DEF Shortest
<1> USE DEF Wait
<1>3. CASE ended.failed = FALSE
  <2>1. S!Marked(rec, k) = [next |-> ended.at + Interval + S!Jitter(k), fails |-> 0,
                            seen |-> ended.at]
    BY <1>3 DEF S!Marked
  <2> QED  BY <1>1, <1>2, <2>1
<1>4. CASE ended.failed = TRUE
  <2> DEFINE fails == S!Min({rec.fails + 1, MaxFailures})
             power == S!Power(fails - 1)
             base == S!Min({Backoff * power, MaxBackoff})
  <2>1. S!Marked(rec, k) = [next |-> ended.at + base + S!Jitter(k), fails |-> fails,
                            seen |-> ended.at]
    BY <1>4, Zenon DEF S!Marked
  <2>2. fails \in 1..MaxFailures
    BY SmallerOfTwo
  <2> HIDE DEF fails
  <2>3. power \in {1, 2, 4, 8, 16, 32, 64}
    BY <2>2, PowerIs
  <2> HIDE DEF power
  <2>4. Backoff * power \in Nat /\ Backoff * power >= Backoff
    BY <2>3
  <2>5. base \in Nat /\ base >= Backoff
    BY <2>4, SmallerOfTwo
  <2> HIDE DEF base
  <2> QED  BY <1>1, <1>2, <2>1, <2>2, <2>5
<1> QED
  BY <1>3, <1>4, Zenon

LEMMA RecordIs ==
    ASSUME NEW r, IsRecord(r)
    PROVE  r.next \in Int /\ r.seen \in Nat
BY DEF IsRecord, S!NoRecord

\* What holds of a key's record after a step holds of it then.
LEMMA Kept ==
    ASSUME NEW k \in S!Keys, KeyOK(store'[k], mem'[k], saved'[k], pc', k),
           store'[k].seen >= store[k].seen
    PROVE  KeyInv(k)' /\ SeenLater(k)
<1>1. KeyInv(k)'
  BY Zenon DEF KeyInv, KeyOK, IsRecord, S!NoRecord, Wait, Shortest, S!Jitter, S!Sources
<1> QED
  BY <1>1, Zenon DEF SeenLater

\* The memory follows the database, or the worker is gone.
LEMMA Written ==
    ASSUME NEW k, NEW s, NEW m, NEW v \in Int, NEW d, IsRecord(s), IsRecord(m),
           v >= 0 => s.next >= v + Wait(k), d = "down" \/ m = s
    PROVE  KeyOK(s, m, v, d, k)
<1>1. s.seen \in Nat
  BY RecordIs, Zenon
<1> QED
  BY <1>1 DEF KeyOK

\* The database stays, the memory observes.
LEMMA Observed ==
    ASSUME NEW k, NEW s, NEW m, NEW v, NEW d, KeyOK(s, m, v, d, k), d # "down",
           NEW n, IsRecord(n), n.seen >= m.seen, k \in S!Sources => n.next = m.next,
           NEW e
    PROVE  KeyOK(s, n, v, e, k)
<1>1. IsRecord(s) /\ IsRecord(m) /\ m.seen >= s.seen
  BY Zenon DEF KeyOK
<1>2. s.seen \in Nat /\ m.seen \in Nat /\ n.seen \in Nat
  BY <1>1, RecordIs, Zenon
<1>3. n.seen >= s.seen
  BY <1>1, <1>2
<1> QED
  BY <1>1, <1>3, Zenon DEF KeyOK

\* A step that leaves the records of a key alone.
LEMMA RecordStays ==
    ASSUME NEW k \in S!Keys, KeyInv(k), store'[k] = store[k], mem'[k] = mem[k],
           saved'[k] = saved[k], pc # "down" \/ pc' = "down"
    PROVE  KeyInv(k)' /\ SeenLater(k)
<1>1. KeyOK(store[k], mem[k], saved[k], pc, k)
  BY Zenon DEF KeyInv
<1>2. KeyOK(store'[k], mem'[k], saved'[k], pc', k)
  BY <1>1, Zenon DEF KeyOK
<1>3. store[k].seen \in Nat
  BY <1>1, RecordIs, Zenon DEF KeyOK
<1>4. store'[k].seen >= store[k].seen
  BY <1>3
<1> QED
  BY <1>2, <1>4, Kept, Zenon

\* The worker ends: nothing is left in memory.
LEMMA MemoryGoes ==
    ASSUME NEW k \in S!Keys, KeyInv(k), UNCHANGED <<store, saved>>,
           mem' = S!Empty, pc' = "down"
    PROVE  KeyInv(k)' /\ SeenLater(k)
<1>1. KeyOK(store[k], mem[k], saved[k], pc, k)
  BY Zenon DEF KeyInv
<1>2. mem'[k] = S!NoRecord /\ IsRecord(S!NoRecord)
  BY Zenon DEF S!Empty, IsRecord
<1>3. KeyOK(store'[k], mem'[k], saved'[k], pc', k)
  BY <1>1, <1>2, Zenon DEF KeyOK
<1>4. store[k].seen \in Nat
  BY <1>1, RecordIs, Zenon DEF KeyOK
<1>5. store'[k].seen >= store[k].seen
  BY <1>4
<1> QED
  BY <1>3, <1>5, Kept, Zenon

\* ensure: a key without a record is due at once.
LEMMA FirstDueIs ==
    ASSUME now \in Nat, MaxFailures \in Nat
    PROVE  IsRecord(S!FirstDue) /\ S!FirstDue.seen >= S!NoRecord.seen
BY DEF IsRecord, S!FirstDue, S!NoRecord

\* A result that was saved has left a record.
LEMMA SavedHasRecord ==
    ASSUME S!PolicyAssumption, NEW k \in S!Keys, KeyInv(k), store[k] = S!NoRecord
    PROVE  saved[k] \in Int /\ ~(saved[k] >= 0)
<1>1. Wait(k) \in Nat
  BY DEF Wait, S!Keys, S!Sources, S!Resources, S!Jitter, Shortest, S!PolicyAssumption
<1>2. store[k].next = -1
  BY DEF S!NoRecord
<1>3. saved[k] \in Int /\ (saved[k] >= 0 => store[k].next >= saved[k] + Wait(k))
  BY Zenon DEF KeyInv, KeyOK
<1> QED
  BY <1>1, <1>2, <1>3

LEMMA LoadKeeps ==
    ASSUME S!PolicyAssumption, ScheduleInv, S!Load, NEW k \in S!Keys
    PROVE  KeyInv(k)' /\ SeenLater(k)
<1>0. KeyInv(k) /\ now \in Nat /\ MaxFailures \in Nat
  BY Zenon DEF ScheduleInv, ScheduleShape, S!PolicyAssumption
<1>1. PICK done \in S!Prefixes(S!Missing(store, S!Resources)) :
        /\ store' = S!Ensured(store, done)
        /\ mem' = store' \/ (pc' = "down" /\ mem' = mem)
  BY Zenon DEF S!Load, S!records
<1>2. saved' = saved
  BY DEF S!Load, S!history
<1>3. k \in done => store[k] = S!NoRecord
  BY <1>1 DEF S!Prefixes, S!Missing
<1>4. store'[k] = IF k \in done THEN S!FirstDue ELSE store[k]
  BY <1>1, Zenon DEF S!Ensured
<1>5. KeyOK(store[k], mem[k], saved[k], pc, k)
  BY <1>0, Zenon DEF KeyInv
<1>6. /\ IsRecord(store'[k]) /\ store'[k].seen >= store[k].seen
      /\ saved[k] \in Int
      /\ saved[k] >= 0 => store'[k].next >= saved[k] + Wait(k)
  <2>1. CASE k \in done
    BY <1>0, <1>3, <1>4, <2>1, FirstDueIs, SavedHasRecord, Zenon
  <2>2. CASE k \notin done
    <3>1. store'[k] = store[k]
      BY <1>4, <2>2, Zenon
    <3>2. store[k].seen \in Nat
      BY <1>5, RecordIs, Zenon DEF KeyOK
    <3>3. store'[k].seen >= store[k].seen
      BY <3>1, <3>2
    <3> QED  BY <1>5, <3>1, <3>3, Zenon DEF KeyOK
  <2> QED  BY <2>1, <2>2
<1>7. IsRecord(mem'[k]) /\ (pc' = "down" \/ mem'[k] = store'[k])
  BY <1>1, <1>5, <1>6, Zenon DEF KeyOK
<1>8. KeyOK(store'[k], mem'[k], saved'[k], pc', k)
  BY <1>2, <1>6, <1>7, Written, Zenon
<1> QED
  BY <1>6, <1>8, Kept, Zenon

LEMMA ConfiguredKeeps ==
    ASSUME S!PolicyAssumption, ScheduleInv, pc # "down", NEW sources,
           sources \subseteq S!Sources, NEW changes, S!Configured(sources, changes),
           NEW k \in S!Keys
    PROVE  KeyInv(k)' /\ SeenLater(k)
<1>0. KeyInv(k) /\ now \in Nat /\ MaxFailures \in Nat
  BY Zenon DEF ScheduleInv, ScheduleShape, S!PolicyAssumption
<1>1. PICK done \in S!Prefixes(S!Missing(mem, sources)) :
        store' = S!Ensured(store, done) /\ mem' = S!Ensured(mem, done)
  BY Zenon DEF S!Configured
<1>2. saved' = saved
  BY Zenon DEF S!Configured
<1>3. /\ store'[k] = IF k \in done THEN S!FirstDue ELSE store[k]
      /\ mem'[k] = IF k \in done THEN S!FirstDue ELSE mem[k]
  BY <1>1, Zenon DEF S!Ensured
<1>4. CASE k \in done
  <2>1. mem[k] = S!NoRecord /\ k \in S!Sources
    BY <1>1, <1>4, Zenon DEF S!Prefixes, S!Missing
  <2>2. IsRecord(store[k]) /\ store[k].next = S!NoRecord.next
    BY <1>0, <2>1, Zenon DEF KeyInv, KeyOK
  <2>3. store[k] = S!NoRecord
    <3>1. S!NoRecord.next \notin Nat
      BY DEF S!NoRecord
    <3>2. \A r \in [next : Nat, fails : 0..MaxFailures, seen : Nat] : r.next \in Nat
      OBVIOUS
    <3> QED  BY <2>2, <3>1, <3>2, Zenon DEF IsRecord
  <2>4. saved'[k] \in Int /\ ~(saved'[k] >= 0)
    BY <1>0, <1>2, <2>3, SavedHasRecord, Zenon
  <2>5. IsRecord(store'[k]) /\ mem'[k] = store'[k] /\ store'[k].seen >= store[k].seen
    BY <1>0, <1>3, <1>4, <2>3, FirstDueIs, Zenon
  <2>6. KeyOK(store'[k], mem'[k], saved'[k], pc', k)
    BY <2>4, <2>5, Written, Zenon
  <2> QED  BY <2>5, <2>6, Kept, Zenon
<1>5. CASE k \notin done
  <2>1. store'[k] = store[k] /\ mem'[k] = mem[k] /\ saved'[k] = saved[k]
    BY <1>2, <1>3, <1>5, Zenon
  <2> QED  BY <1>0, <2>1, RecordStays, Zenon
<1> QED
  BY <1>4, <1>5, Zenon

\* due: the clock is not behind what was seen before.
LEMMA ObserveKeeps ==
    ASSUME S!PolicyAssumption, ScheduleInv, pc # "down", NEW e, ~S!Regressed(e),
           S!Observe(e), UNCHANGED <<store, saved>>, NEW k \in S!Keys
    PROVE  KeyInv(k)' /\ SeenLater(k)
<1>0. KeyInv(k) /\ now \in Nat
  BY Zenon DEF ScheduleInv, ScheduleShape
<1>1. mem'[k] = IF k \in S!Records(e) THEN [mem[k] EXCEPT !.seen = now] ELSE mem[k]
  BY Zenon DEF S!Observe
<1>2. CASE k \in S!Records(e)
  <2>1. KeyOK(store[k], mem[k], saved[k], pc, k)
    BY <1>0, Zenon DEF KeyInv
  <2>2. ~(now < mem[k].seen) /\ mem[k] # S!NoRecord
    BY <1>2, Zenon DEF S!Regressed, S!Records
  <2>3. mem[k] \in [next : Nat, fails : 0..MaxFailures, seen : Nat]
    BY <2>1, <2>2, Zenon DEF KeyOK, IsRecord
  <2>4. PICK m, n : m = mem[k] /\ n = mem'[k] /\ n = [m EXCEPT !.seen = now]
    BY <1>1, <1>2, Zenon
  <2>5. /\ n \in [next : Nat, fails : 0..MaxFailures, seen : Nat]
        /\ n.next = m.next /\ n.seen >= m.seen
    BY <1>0, <2>2, <2>3, <2>4
  <2>6. IsRecord(mem'[k]) /\ mem'[k].next = mem[k].next /\ mem'[k].seen >= mem[k].seen
    BY <2>4, <2>5, Zenon DEF IsRecord
  <2>7. KeyOK(store'[k], mem'[k], saved'[k], pc', k)
    BY <2>1, <2>6, Observed, Zenon
  <2>8. store[k].seen \in Nat
    BY <2>1, RecordIs, Zenon DEF KeyOK
  <2>9. store'[k].seen >= store[k].seen
    BY <2>8
  <2> QED  BY <2>7, <2>9, Kept, Zenon
<1>3. CASE k \notin S!Records(e)
  BY <1>0, <1>1, <1>3, RecordStays, Zenon
<1> QED
  BY <1>2, <1>3, Zenon

\* update: the record of a key that may be marked.
LEMMA MarkableIs ==
    ASSUME S!PolicyAssumption, ScheduleShape, NEW k \in S!Keys, KeyInv(k), pc # "down",
           S!Markable(k)
    PROVE  /\ IsRecord(S!Marked(mem[k], k)) /\ ended.at \in Nat
           /\ S!Marked(mem[k], k).seen >= mem[k].seen
           /\ S!Marked(mem[k], k).seen >= store[k].seen
           /\ S!Marked(mem[k], k).next >= ended.at + Wait(k)
<1>1. KeyOK(store[k], mem[k], saved[k], pc, k)
  BY Zenon DEF KeyInv
<1>2. mem[k] # S!NoRecord /\ ended.at >= mem[k].seen
  BY Zenon DEF S!Markable
<1>3. mem[k] \in [next : Nat, fails : 0..MaxFailures, seen : Nat]
  BY <1>1, <1>2, Zenon DEF KeyOK, IsRecord
<1>4. ended.failed \in BOOLEAN /\ ended.at \in Nat
  BY Zenon DEF ScheduleShape
<1>5. PICK r : r = S!Marked(mem[k], k)
  BY Zenon
<1>6. /\ r \in [next : Nat, fails : 0..MaxFailures, seen : Nat]
      /\ r.seen = ended.at /\ r.next >= ended.at + Wait(k)
  BY <1>3, <1>4, <1>5, MarkedIs, Zenon
<1>7. IsRecord(store[k]) /\ IsRecord(mem[k]) /\ mem[k].seen >= store[k].seen
  BY <1>1, Zenon DEF KeyOK
<1>8. store[k].seen \in Nat /\ mem[k].seen \in Nat
  BY <1>7, RecordIs, Zenon
<1>9. r.seen >= mem[k].seen /\ r.seen >= store[k].seen
  BY <1>2, <1>4, <1>6, <1>7, <1>8
<1> QED
  BY <1>4, <1>5, <1>6, <1>9, Zenon DEF IsRecord

LEMMA RecordKeyKeeps ==
    ASSUME S!PolicyAssumption, ScheduleInv, S!RecordKey, NEW k \in S!Keys
    PROVE  KeyInv(k)' /\ SeenLater(k)
<1>0. KeyInv(k) /\ ScheduleShape
  BY Zenon DEF ScheduleInv
<1>1. PICK j \in todo :
        /\ S!Markable(j)
        /\ mem' = [mem EXCEPT ![j] = S!Marked(mem[j], j)]
        /\ store' = [store EXCEPT ![j] = S!Marked(mem[j], j)]
        /\ saved' = [saved EXCEPT ![j] = ended.at]
  BY Zenon DEF S!RecordKey
<1>2. pc # "down"
  BY DEF S!RecordKey
<1>3. CASE k = j
  <2>1. PICK r : r = S!Marked(mem[k], k)
    BY Zenon
  <2>2. mem'[k] = r /\ store'[k] = r /\ saved'[k] = ended.at
    BY <1>0, <1>1, <1>3, <2>1, Zenon DEF ScheduleShape
  <2>3. /\ IsRecord(r) /\ ended.at \in Int /\ r.next >= ended.at + Wait(k)
        /\ r.seen >= store[k].seen
    <3>1. IsRecord(r) /\ ended.at \in Nat /\ r.next >= ended.at + Wait(k)
          /\ r.seen >= store[k].seen
      BY <1>0, <1>1, <1>2, <1>3, <2>1, MarkableIs, Zenon
    <3> QED  BY <3>1
  <2>4. KeyOK(store'[k], mem'[k], saved'[k], pc', k)
    BY <2>2, <2>3, Written, Zenon
  <2> QED  BY <2>2, <2>3, <2>4, Kept, Zenon
<1>4. CASE k # j
  <2>1. mem'[k] = mem[k] /\ store'[k] = store[k] /\ saved'[k] = saved[k]
    BY <1>0, <1>1, <1>4, Zenon DEF ScheduleShape
  <2> QED  BY <1>0, <1>2, <2>1, RecordStays, Zenon
<1> QED
  BY <1>3, <1>4, Zenon

LEMMA RecordFailsKeeps ==
    ASSUME S!PolicyAssumption, ScheduleInv, S!RecordFails, NEW k \in S!Keys
    PROVE  KeyInv(k)' /\ SeenLater(k)
<1>0. KeyInv(k) /\ ScheduleShape
  BY Zenon DEF ScheduleInv
<1>1. pc = "recording" /\ UNCHANGED <<store, saved>>
  BY DEF S!RecordFails
<1>2. CASE job.engine = 0
  BY <1>0, <1>1, <1>2, MemoryGoes DEF S!RecordFails, S!Exit
<1>3. CASE job.engine # 0
  <2>1. PICK j \in todo :
          mem' = IF S!Markable(j) THEN [mem EXCEPT ![j] = S!Marked(mem[j], j)] ELSE mem
    BY <1>3, Zenon DEF S!RecordFails
  <2>2. j \in S!Resources /\ j \in S!Keys
    BY <1>0, <1>1, <1>3, <2>1, Zenon DEF ScheduleShape, S!Keys
  <2>3. pc # "down"
    BY <1>1
  <2>4. CASE k = j /\ S!Markable(j)
    <3>1. KeyOK(store[k], mem[k], saved[k], pc, k)
      BY <1>0, Zenon DEF KeyInv
    <3>2. mem'[k] = S!Marked(mem[k], k)
      BY <1>0, <2>1, <2>4, Zenon DEF ScheduleShape
    <3>3. IsRecord(mem'[k]) /\ mem'[k].seen >= mem[k].seen
      BY <1>0, <2>3, <2>4, <3>2, MarkableIs, Zenon
    <3>4. k \notin S!Sources
      BY <2>2, <2>4 DEF S!Sources, S!Resources, S!PolicyAssumption
    <3>5. KeyOK(store'[k], mem'[k], saved'[k], pc', k)
      BY <1>1, <2>3, <3>1, <3>3, <3>4, Observed, Zenon
    <3>6. store[k].seen \in Nat
      BY <3>1, RecordIs, Zenon DEF KeyOK
    <3>7. store'[k].seen >= store[k].seen
      BY <1>1, <3>6
    <3> QED  BY <3>5, <3>7, Kept, Zenon
  <2>5. CASE ~(k = j /\ S!Markable(j))
    <3>1. mem'[k] = mem[k]
      BY <1>0, <2>1, <2>5, Zenon DEF ScheduleShape
    <3> QED  BY <1>0, <1>1, <2>3, <3>1, RecordStays, Zenon
  <2> QED  BY <2>4, <2>5, Zenon
<1> QED
  BY <1>2, <1>3, Zenon

LEMMA OtherScheduleSteps ==
    ASSUME S!PolicyAssumption, ScheduleInv, NEW k \in S!Keys,
           \/ S!SourcesRegressed \/ S!TakeUpdate
           \/ \E r \in S!Resources : S!ResourceRegressed(r)
           \/ S!Finish \/ S!Recorded \/ S!SceneStops \/ S!Kill
           \/ \E e \in S!Engines : S!Command(e)
           \/ S!Tick \/ S!StepBack \/ UNCHANGED S!vars
    PROVE  KeyInv(k)' /\ SeenLater(k)
<1>0. KeyInv(k)
  BY Zenon DEF ScheduleInv
<1>1. CASE S!SourcesRegressed \/ S!Kill
  BY <1>0, <1>1, MemoryGoes DEF S!SourcesRegressed, S!Kill, S!Exit
<1>2. CASE \/ S!TakeUpdate \/ \E r \in S!Resources : S!ResourceRegressed(r)
           \/ S!Finish \/ S!Recorded \/ S!SceneStops
           \/ \E e \in S!Engines : S!Command(e)
  <2>1. pc # "down" /\ UNCHANGED <<store, mem, saved>>
    BY <1>2, Zenon DEF S!TakeUpdate, S!ResourceRegressed, S!CanTakeDue, S!Finish, S!Recorded,
                S!SceneStops, S!Command, S!records, S!history
  <2> QED  BY <1>0, <2>1, RecordStays, Zenon
<1>3. CASE S!Tick \/ S!StepBack \/ UNCHANGED S!vars
  <2>1. pc' = pc /\ UNCHANGED <<store, mem, saved>>
    BY <1>3 DEF S!Tick, S!StepBack, S!vars, S!records, S!history, S!run
  <2> QED  BY ZenonT(60), <1>0, <2>1, RecordStays
<1> QED
  BY <1>1, <1>2, <1>3

LEMMA ScheduleKeys ==
    ASSUME S!PolicyAssumption, ScheduleInv, [S!Next]_(S!vars), NEW k \in S!Keys
    PROVE  KeyInv(k)' /\ SeenLater(k)
<1>1. CASE S!Load
  BY <1>1, LoadKeeps
<1>2. CASE S!ConfigureAtStart
  <2>1. due \subseteq S!Sources /\ pc # "down"
    BY <1>2 DEF ScheduleInv, ScheduleShape, S!ConfigureAtStart
  <2> QED  BY <1>2, <2>1, ConfiguredKeeps DEF S!ConfigureAtStart
<1>3. CASE S!ConfigChange
  <2>1. PICK sources : sources = due' /\ sources \subseteq S!Sources
    BY <1>3 DEF S!ConfigChange
  <2>2. S!Configured(sources, 1) /\ pc # "down"
    BY <1>3, <2>1 DEF S!ConfigChange
  <2> QED  BY <2>1, <2>2, ConfiguredKeeps
<1>4. CASE S!TakeDueSources
  <2>1. /\ pc # "down" /\ ~S!Regressed(0) /\ S!Observe(0)
        /\ UNCHANGED <<store, saved>>
    BY <1>4 DEF S!TakeDueSources, S!CanTakeDue, S!history
  <2> QED  BY <2>1, ObserveKeeps
<1>5. ASSUME NEW r \in S!Resources, S!TakeDueResource(r) PROVE KeyInv(k)' /\ SeenLater(k)
  <2>1. /\ pc # "down" /\ ~S!Regressed(r) /\ S!Observe(r)
        /\ UNCHANGED <<store, saved>>
    BY <1>5, Zenon DEF S!TakeDueResource, S!CanTakeDue, S!history
  <2> QED  BY <2>1, ObserveKeeps, Zenon
<1>6. CASE S!RecordKey
  BY <1>6, RecordKeyKeeps
<1>7. CASE S!RecordFails
  BY <1>7, RecordFailsKeeps
<1>8. CASE \/ S!SourcesRegressed \/ S!TakeUpdate
           \/ \E r \in S!Resources : S!ResourceRegressed(r)
           \/ S!Finish \/ S!Recorded \/ S!SceneStops \/ S!Kill
           \/ \E e \in S!Engines : S!Command(e)
           \/ S!Tick \/ S!StepBack \/ UNCHANGED S!vars
  BY <1>8, OtherScheduleSteps
<1> QED
  BY <1>1, <1>2, <1>3, <1>4, <1>5, <1>6, <1>7, <1>8, Zenon DEF S!Next, S!Worker

LEMMA ScheduleShapeStep ==
    ASSUME S!PolicyAssumption, ScheduleShape, [S!Next]_(S!vars)
    PROVE  ScheduleShape'
<1> USE DEF ScheduleShape, S!config, S!run, S!records, S!history
<1>1. CASE S!Load
  <2>1. /\ store' = [k \in S!Keys |-> store'[k]] /\ mem' = [k \in S!Keys |-> mem'[k]]
        /\ pc' \in {"down", "configuring"}
    BY <1>1, Zenon DEF S!Load, S!Ensured
  <2> QED  BY <1>1, <2>1, Zenon DEF S!Load
<1>2. CASE S!ConfigureAtStart
  BY <1>2, Zenon DEF S!ConfigureAtStart, S!Configured, S!Ensured
<1>3. CASE S!ConfigChange
  BY <1>3, Zenon DEF S!ConfigChange, S!Configured, S!Ensured
<1>4. ASSUME S!Exit, UNCHANGED <<now, due, store, saved>> PROVE ScheduleShape'
  BY <1>4, Zenon DEF S!Exit, S!Empty, S!Idle, S!NoResult, S!Engines
<1>5. CASE S!SourcesRegressed \/ S!Kill
  BY <1>4, <1>5 DEF S!SourcesRegressed, S!Kill
<1>6. CASE S!TakeDueSources
  BY <1>6 DEF S!TakeDueSources, S!Observe, S!Due, S!CanTakeDue
<1>7. CASE S!TakeUpdate \/ S!SceneStops
  BY <1>7 DEF S!TakeUpdate, S!SceneStops, S!Idle, S!Engines
<1>8. ASSUME NEW r \in S!Resources, S!ResourceRegressed(r) \/ S!TakeDueResource(r)
      PROVE  ScheduleShape'
  <2>1. r \in S!Engines
    BY Zenon DEF S!Engines
  <2> QED  BY <1>8, <2>1 DEF S!ResourceRegressed, S!TakeDueResource, S!Observe
<1>9. ASSUME NEW e \in S!Engines, S!Command(e) PROVE ScheduleShape'
  BY <1>9, Zenon DEF S!Command
<1>10. CASE S!Finish
  <2>1. S!JobKeys \subseteq S!Keys /\ (job.engine # 0 => S!JobKeys \subseteq S!Resources)
    BY DEF S!JobKeys, S!Keys, S!Engines
  <2>2. PICK failed \in BOOLEAN : ended' = [failed |-> failed, at |-> now]
    BY <1>10, Zenon DEF S!Finish
  <2> QED  BY <1>10, <2>1, <2>2 DEF S!Finish
<1>11. CASE S!RecordKey
  <2>1. PICK j \in todo :
        /\ mem' = [mem EXCEPT ![j] = S!Marked(mem[j], j)]
        /\ store' = [store EXCEPT ![j] = S!Marked(mem[j], j)]
        /\ saved' = [saved EXCEPT ![j] = ended.at]
        /\ todo' = todo \ {j}
    BY <1>11, Zenon DEF S!RecordKey
  <2>2. UNCHANGED <<now, due, pc, job, awaited, ended>>
    BY <1>11 DEF S!RecordKey
  <2> QED  BY <2>1, <2>2, Zenon
<1>12. CASE S!RecordFails
  <2>1. UNCHANGED <<now, due, store, saved>>
    BY <1>12, Zenon DEF S!RecordFails
  <2>2. CASE job.engine = 0
    BY <1>4, <1>12, <2>1, <2>2, Zenon DEF S!RecordFails
  <2>3. CASE job.engine # 0
    <3>1. PICK j \in todo :
            mem' = IF S!Markable(j) THEN [mem EXCEPT ![j] = S!Marked(mem[j], j)] ELSE mem
      BY <1>12, <2>3, Zenon DEF S!RecordFails
    <3>2. /\ pc' = "idle" /\ job' = S!Idle /\ todo' = {} /\ ended' = S!NoResult
          /\ awaited' = awaited
      BY <1>12, <2>3, Zenon DEF S!RecordFails
    <3> QED  BY <2>1, <3>1, <3>2, Zenon DEF S!Idle, S!NoResult, S!Engines
  <2> QED  BY <2>2, <2>3, Zenon
<1>13. CASE S!Recorded
  BY <1>13, Zenon DEF S!Recorded, S!Idle, S!NoResult, S!Engines
<1>14. CASE S!Tick \/ S!StepBack \/ UNCHANGED S!vars
  <2>1. now' \in Nat
    BY <1>14 DEF S!Tick, S!StepBack, S!vars
  <2>2. UNCHANGED <<due, store, mem, saved, pc, awaited, todo, job, ended>>
    BY ZenonT(60), <1>14 DEF S!Tick, S!StepBack, S!vars
  <2> QED  BY <2>1, <2>2, Zenon
<1> QED
  BY <1>1, <1>2, <1>3, <1>5, <1>6, <1>7, <1>8, <1>9, <1>10, <1>11, <1>12, <1>13, <1>14,
     Zenon DEF S!Next, S!Worker

\* take_due: what is taken is due.
LEMMA TakenIsDue ==
    ASSUME S!PolicyAssumption, ScheduleInv, [S!Next]_(S!vars)
    PROVE  S!SpacedOut
<1> SUFFICES ASSUME NEW k \in awaited' \ awaited, saved[k] >= 0
             PROVE  now >= saved[k] + S!Min({Backoff, Interval}) + S!Jitter(k)
  BY DEF S!SpacedOut
<1>1. S!TakeDueSources
  BY Zenon DEF S!Next, S!Worker, S!Load, S!ConfigureAtStart, S!ConfigChange, S!Configured, S!Exit,
         S!SourcesRegressed, S!Kill, S!TakeUpdate, S!SceneStops, S!ResourceRegressed,
         S!TakeDueResource, S!Command, S!Finish, S!RecordKey, S!RecordFails, S!Recorded,
         S!Tick, S!StepBack, S!vars, S!run, S!config
<1>2. k \in S!Due(0) /\ pc # "down"
  BY <1>1 DEF S!TakeDueSources, S!CanTakeDue
<1>3. k \in S!Keys /\ k \in S!Sources /\ now >= mem[k].next
  BY <1>2 DEF S!Due, S!Records, S!Own, S!EngineOf, S!Resources, S!Sources, S!Keys,
              S!PolicyAssumption
<1>4. KeyInv(k) /\ now \in Nat
  BY <1>3 DEF ScheduleInv, ScheduleShape
<1>5. S!Min({Backoff, Interval}) = Shortest /\ Shortest \in Nat
  BY SmallerOfTwo DEF Shortest, S!PolicyAssumption
<1>6. S!Jitter(k) \in Nat
  BY <1>3 DEF S!Keys, S!Sources, S!Resources, S!Jitter
<1>7. /\ store[k].next \in Int /\ saved[k] \in Int
      /\ mem[k].next = store[k].next /\ store[k].next >= saved[k] + Wait(k)
  <2>1. KeyOK(store[k], mem[k], saved[k], pc, k) /\ pc # "down"
    BY <1>2, <1>4, Zenon DEF KeyInv
  <2> QED  BY <1>3, <2>1, RecordIs, Zenon DEF KeyOK
<1>8. Wait(k) = Shortest + S!Jitter(k)
  BY DEF Wait
<1> HIDE DEF Shortest
<1>9. now >= saved[k] + Shortest + S!Jitter(k)
  BY <1>3, <1>4, <1>5, <1>6, <1>7, <1>8
<1> QED
  BY <1>5, <1>9

LEMMA ScheduleInit ==
    ASSUME S!PolicyAssumption, S!Init
    PROVE  ScheduleInv
<1>1. ScheduleShape
  BY DEF S!Init, S!InitAt, ScheduleShape, S!Empty, S!Idle, S!NoResult, S!Engines
<1>2. ASSUME NEW k \in S!Keys PROVE KeyInv(k)
  <2>1. /\ store[k] = S!NoRecord /\ mem[k] = S!NoRecord /\ saved[k] = -1
        /\ pc = "down"
    BY Zenon DEF S!Init, S!InitAt, S!Empty
  <2>2. IsRecord(S!NoRecord) /\ -1 \in Int /\ ~(-1 >= 0)
    BY DEF IsRecord
  <2> QED  BY <2>1, <2>2, Zenon DEF KeyInv, KeyOK
<1> QED
  BY <1>1, <1>2, Zenon DEF ScheduleInv

(***************************************************************************)
(* SchedulerEngine::due and update: a source is not updated again by the   *)
(* schedule before its shortest delay after the last recorded result has   *)
(* passed, and the last observation kept in the database never goes back,  *)
(* whatever restarts, failed saves, reconfigurations and clock changes     *)
(* come in between.                                                        *)
(***************************************************************************)
THEOREM SchedulesAreKept ==
    ASSUME S!PolicyAssumption
    PROVE  S!Spec => [][S!SpacedOut /\ S!LaterSeen]_(S!vars)
<1>1. S!Init => ScheduleInv
  BY ScheduleInit
<1>2. ScheduleInv /\ [S!Next]_(S!vars) => ScheduleInv'
  BY ScheduleShapeStep, ScheduleKeys, Zenon DEF ScheduleInv
<1>3. ScheduleInv /\ [S!Next]_(S!vars) => S!SpacedOut /\ S!LaterSeen
  BY ScheduleKeys, TakenIsDue, Zenon DEF SeenLater, S!LaterSeen
<1> QED
  BY <1>1, <1>2, <1>3, PTL DEF S!Spec

=============================================================================
