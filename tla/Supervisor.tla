----------------------------- MODULE Supervisor -----------------------------
(***************************************************************************)
(* The root supervisor of nethopd: WorkerSupervisor (supervisor.rs) driven *)
(* by run_supervisor_loop (application.rs).  It spawns the worker process,  *)
(* notices its exits, restarts it after 1, 2 and 4 seconds, slows down to   *)
(* one recovery probe per Recovery seconds when the failures come too       *)
(* close together, and stops the worker on SIGTERM.                        *)
(*                                                                         *)
(* Time is a natural number of seconds since the supervisor started.       *)
(* Worker processes are numbered in the order they are spawned; `alive' is *)
(* what the operating system knows, `active' what the supervisor holds.    *)
(***************************************************************************)
EXTENDS Integers, Sequences, FiniteSets

CONSTANTS
    Window,     \* RestartPolicy.failure_window
    Recovery,   \* RestartPolicy.recovery_delay
    MaxTime     \* the clock stops here: the bound of the model

\* What RestartPolicy::new accepts (supervisor.rs:37-44).
ASSUME PolicyAssumption ==
    /\ Window \in 1..300
    /\ Recovery \in 1..60
    /\ MaxTime \in Nat

RestartDelays == <<1, 2, 4>>

NoWorker == 0       \* active = None
NoDeadline == 0     \* next_action = None: like a deadline of 0, it holds no start back

SupervisorStates == {"idle", "running", "backing_off", "circuit_open", "stopped"}

VARIABLES
    state,      \* WorkerSupervisor.state
    active,     \* WorkerSupervisor.active
    failures,   \* WorkerSupervisor.failures: a set, as no two fall together
    nextAction, \* WorkerSupervisor.next_action
    alive,      \* the worker processes that run
    spawned,    \* how many worker processes were ever spawned
    stopFlag,   \* STOP_REQUESTED, set by the signal handler
    pc,         \* where run_supervisor_loop is: "tick", "wait", or its result
    now,        \* the monotonic clock
    attempts    \* history: when backend.start was called, the last 5 calls

vars == <<state, active, failures, nextAction, alive, spawned, stopFlag, pc,
          now, attempts>>

InitAt(place) ==
    /\ state = "idle"
    /\ active = NoWorker
    /\ failures = {}
    /\ nextAction = 0
    /\ alive = {}
    /\ spawned = 0
    /\ stopFlag = FALSE
    /\ pc = place
    /\ now = 0
    /\ attempts = <<>>

Init == InitAt("tick")

Returned == pc \in {"ok", "error"}

-----------------------------------------------------------------------------
(* WorkerSupervisor *)

\* The failures still inside the window once one more is recorded at `now'.
Retained ==
    {f \in failures : now - f <= Window} \cup {now}

\* Mutant: the deadline is kept in place of the time of the failure.
MutRecordFailure ==
    LET kept == {f \in failures : now - f <= Window} IN
    /\ failures' = kept \cup {now + 1}
    /\ state' = "backing_off"
    /\ nextAction' = now + 1

RecordFailure ==
    LET kept == Retained IN
    /\ failures' = kept
    /\ IF Cardinality(kept) > Len(RestartDelays)
          THEN /\ state' = "circuit_open"
               /\ nextAction' = now + Recovery
          ELSE /\ state' = "backing_off"
               /\ nextAction' = now + RestartDelays[Cardinality(kept)]

\* process.stop(timeout): SIGTERM, then SIGKILL.  On success the worker is
\* gone; on an error (observe, identity, signal or kill failed) it may be
\* either.  The process is taken out of `active' before it is stopped.
StopSucceeds ==
    /\ alive' = alive \ {active}
    /\ active' = NoWorker
    /\ state' = "stopped"
    /\ nextAction' = NoDeadline

StopFails ==
    /\ active # NoWorker
    /\ alive' \in {alive, alive \ {active}}
    /\ active' = NoWorker
    /\ UNCHANGED <<state, nextAction>>

-----------------------------------------------------------------------------
(* One call of tick, with the part of the loop that follows its result *)

\* try_exit reports that the worker has exited.
TickExited ==
    /\ pc = "tick"
    /\ active # NoWorker /\ active \notin alive
    /\ active' = NoWorker
    /\ RecordFailure
    /\ pc' = "wait"
    /\ UNCHANGED <<alive, spawned, stopFlag, now, attempts>>

\* try_exit reports that the worker is still running.
TickRunning ==
    /\ pc = "tick"
    /\ active # NoWorker /\ active \in alive
    /\ state' = "running"
    /\ pc' = "wait"
    /\ UNCHANGED <<active, failures, nextAction, alive, spawned, stopFlag, now, attempts>>

\* Mutant: an unobservable worker is treated as one that has exited.
MutTickObserveFailed ==
    /\ pc = "tick"
    /\ active # NoWorker
    /\ active' = NoWorker
    /\ RecordFailure
    /\ pc' = "wait"
    /\ UNCHANGED <<alive, spawned, stopFlag, now, attempts>>

\* try_exit fails: the loop stops the worker, ignores how that went, and
\* returns the error.
TickObserveFailed ==
    /\ pc = "tick"
    /\ active # NoWorker
    /\ StopSucceeds \/ StopFails
    /\ pc' = "error"
    /\ UNCHANGED <<failures, spawned, stopFlag, now, attempts>>

TickScheduled ==
    /\ pc = "tick"
    /\ active = NoWorker /\ now < nextAction
    /\ pc' = "wait"
    /\ UNCHANGED <<state, active, failures, nextAction, alive, spawned, stopFlag, now, attempts>>

StartDue == pc = "tick" /\ active = NoWorker /\ now >= nextAction

Attempted(t) ==
    LET all == Append(attempts, t) IN
    IF Len(all) > 5 THEN Tail(all) ELSE all

\* Mutant: a successful start forgets the failures before it.
MutTickStarted ==
    /\ StartDue
    /\ spawned' = spawned + 1
    /\ active' = spawned + 1
    /\ alive' = alive \cup {spawned + 1}
    /\ state' = "running"
    /\ nextAction' = NoDeadline
    /\ attempts' = Attempted(now)
    /\ failures' = {}
    /\ pc' = "wait"
    /\ UNCHANGED <<stopFlag, now>>

TickStarted ==
    /\ StartDue
    /\ spawned' = spawned + 1
    /\ active' = spawned + 1
    /\ alive' = alive \cup {spawned + 1}
    /\ state' = "running"
    /\ nextAction' = NoDeadline
    /\ attempts' = Attempted(now)
    /\ pc' = "wait"
    /\ UNCHANGED <<failures, stopFlag, now>>

TickStartFailed ==
    /\ StartDue
    /\ RecordFailure
    /\ attempts' = Attempted(now)
    /\ pc' = "wait"
    /\ UNCHANGED <<active, alive, spawned, stopFlag, now>>

Tick ==
    \/ TickExited \/ TickRunning \/ TickObserveFailed
    \/ TickScheduled \/ TickStarted \/ TickStartFailed

\* driver.wait returns Wake.
Wake ==
    /\ pc = "wait" /\ ~stopFlag
    /\ pc' = "tick"
    /\ UNCHANGED <<state, active, failures, nextAction, alive, spawned, stopFlag, now, attempts>>

\* Mutant: the stop is only honoured while there is a worker to stop.
MutWaitStop ==
    /\ pc = "wait" /\ stopFlag /\ active # NoWorker
    /\ \/ StopSucceeds /\ pc' = "ok"
       \/ StopFails /\ pc' = "error"
    /\ UNCHANGED <<failures, spawned, stopFlag, now, attempts>>

\* driver.wait returns Stop: supervisor.stop()? and the loop returns.
WaitStop ==
    /\ pc = "wait" /\ stopFlag
    /\ \/ StopSucceeds /\ pc' = "ok"
       \/ StopFails /\ pc' = "error"
    /\ UNCHANGED <<failures, spawned, stopFlag, now, attempts>>

-----------------------------------------------------------------------------
(* The environment: the worker exits, SIGTERM arrives, time passes *)

WorkerExits ==
    /\ \E w \in alive : alive' = alive \ {w}
    /\ UNCHANGED <<state, active, failures, nextAction, spawned, stopFlag, pc, now, attempts>>

Signal ==
    /\ ~stopFlag /\ ~Returned
    /\ stopFlag' = TRUE
    /\ UNCHANGED <<state, active, failures, nextAction, alive, spawned, pc, now, attempts>>

\* Time passes while the loop sleeps; a tick is instantaneous beside it.
Elapse ==
    /\ pc = "wait" /\ now < MaxTime
    /\ now' = now + 1
    /\ UNCHANGED <<state, active, failures, nextAction, alive, spawned, stopFlag, pc, attempts>>

Next == Tick \/ Wake \/ WaitStop \/ WorkerExits \/ Signal \/ Elapse

\* The loop is one sequential thread, so each of its steps is taken once it
\* stays enabled; sleeps last, so the clock moves if the loop keeps sleeping.
Fairness == WF_vars(Tick) /\ WF_vars(Wake) /\ WF_vars(WaitStop) /\ SF_vars(Elapse)

Spec == Init /\ [][Next]_vars /\ Fairness

-----------------------------------------------------------------------------
(* Properties *)

\* The state is well formed: next_action is a time or None, worker numbers
\* are ones that were spawned, the failure list only holds past times.
TypeOK ==
    /\ state \in SupervisorStates
    /\ active \in 0..spawned
    /\ failures \subseteq 0..now
    /\ nextAction \in 0..(now + Recovery + 4)
    /\ alive \subseteq 1..spawned
    /\ spawned \in Nat
    /\ stopFlag \in BOOLEAN
    /\ pc \in {"tick", "wait", "ok", "error"}
    /\ now \in 0..MaxTime
    /\ attempts \in Seq(0..now)

\* While the loop runs, every worker process that runs is the one the
\* supervisor holds: a restart never leaves two workers fighting over the
\* data plane, and a normal return of the loop leaves none behind
\* (supervisor.rs tick, stop; application.rs run_supervisor_loop).
SingleWorker ==
    /\ ~Returned => alive \subseteq {active}
    /\ pc = "ok" => alive = {}

\* Five starts inside one failure window mean four failures inside it, so
\* the last of them is a recovery probe: it came at least Recovery after the
\* start before it (record_failure and the next_action test in tick).
CrashLoopIsThrottled ==
    Len(attempts) = 5 /\ attempts[5] - attempts[1] <= Window
        => attempts[5] - attempts[4] >= Recovery

\* A supervisor without a worker tries to start one again, unless it is told
\* to stop: no path through backoff and circuit_open parks it for ever.  The
\* horizon leaves the longest delay room before the clock's bound.
RestartsKeepComing ==
    \A t \in 0..(MaxTime - Recovery - 5) :
        (active = NoWorker /\ ~Returned /\ ~stopFlag /\ now = t)
        ~> (active # NoWorker \/ stopFlag \/ Returned
            \/ (attempts # <<>> /\ attempts[Len(attempts)] >= t))

\* SIGTERM ends the supervisor, whatever it was doing.
StopIsHonoured == stopFlag ~> Returned

=============================================================================
