---------------------------- MODULE NodeSelection ----------------------------
(***************************************************************************)
(* Which node the proxy uses: the stored intent (auto or one node), the    *)
(* selector inside the core, and the benchmark that measures the pool and  *)
(* moves the selector under auto (node_benchmark.rs, selection.rs,         *)
(* operational_control.rs, clash_api.rs and the benchmark paths of         *)
(* worker_application.rs).                                                 *)
(*                                                                         *)
(* The benchmark thread probes; the worker thread collects what it sends,  *)
(* decides early at a checkpoint and finally when the report is in.  The   *)
(* worker may be held up in other work, and every call to the core may     *)
(* fail or take long.  Time is the phase of the operation.                 *)
(***************************************************************************)
EXTENDS Integers, Sequences, FiniteSets, Functions

CONSTANTS
    Pools,          \* Pools[g] is generation g's auto pool, in order
    Members,        \* Members[g] are all the nodes of generation g's registry
    Delays,         \* the latencies a probe may measure
    Tolerance,      \* proxy.urltest.tolerance_ms
    MaxOperations,  \* bound on the operations one worker starts
    MaxEvents       \* bound on the failures, delays and choices of others

VARIABLES
    intent,     \* the selection store: "auto", a node, or "invalid"
    selector,   \* the node nethop-select uses in the core, or "none"
    gen,        \* the running generation, 0 when nothing runs
    op,         \* WorkerApplication.node_benchmark
    phase,      \* how old the operation is
    job,        \* the benchmark thread
    sequence,   \* BENCHMARK_SEQUENCE
    seated,     \* is the worker process running?
    busy,       \* is the worker held up in other work?
    switches,   \* history: acknowledged selector changes of the operation
    blind,      \* history: the round's snapshot of the selector is out of date,
                \* or its final one has failed
    events      \* failures, delays and choices so far

selVars == <<intent, selector, gen, op, phase, job, sequence, seated, busy,
             switches, blind, events>>

Generations == DOMAIN Pools
Nodes == UNION {Members[g] : g \in Generations}

(***************************************************************************)
(* The phases of an operation, by the instants the code compares with:     *)
(* 2.0 s (checks may begin), 2.8 s (last check), 3.0 s (deadline of the    *)
(* early switch), 4.5 s (probes are cut off), 4.9 s (deadline of the       *)
(* operation) and 60 s (longest time the report may state).                *)
(***************************************************************************)
Earliest == 1
Latest == 2
FastDeadline == 3
Cutoff == 4
Deadline == 5
Overlong == 6

\* A probe's result: 0 for every kind of failure, else the latency.
Failed == 0
Unmeasured == -1
Results == {Failed} \cup Delays

NoOp == [running |-> FALSE, step |-> "idle"]
NoJob == [left |-> {}, sent |-> {}, results |-> <<>>, report |-> "none"]

Spend(n) ==
    /\ events + n =< MaxEvents
    /\ events' = events + n

(***************************************************************************)
(* choose_auto_target: start from the current node if it answered, walk    *)
(* the pool in order and move only to a node that is better by more than   *)
(* the tolerance.  Returns the target, or "keep".                          *)
(***************************************************************************)
\* Mutant: the tolerance is forgotten, so equal nodes change places.
MutChooseAutoTarget(pool, results, current) ==
    LET better(chosen, n) ==
            IF results[n] > 0 /\ results[n] =< results[current]
            THEN n ELSE chosen
        walk[i \in 0 .. Len(pool)] ==
            IF i = 0 THEN current ELSE better(walk[i - 1], pool[i])
        last == walk[Len(pool)]
        known == current \in DOMAIN results
    IN IF known /\ results[current] > 0 /\ last # current THEN last ELSE "keep"

ChooseAutoTarget(pool, results, current) ==
    LET delay(n) == IF n \in DOMAIN results THEN results[n] ELSE Unmeasured
        better(chosen, n) ==
            IF /\ delay(n) > 0
               /\ (chosen = "keep" \/ delay(chosen) > delay(n) + Tolerance)
            THEN n ELSE chosen
        first == IF delay(current) > 0 THEN current ELSE "keep"
        walk[i \in 0 .. Len(pool)] ==
            IF i = 0 THEN first ELSE better(walk[i - 1], pool[i])
        last == walk[Len(pool)]
    IN IF last = current THEN "keep" ELSE last

(***************************************************************************)
(* fast_selection_policy over what the worker has collected.               *)
(***************************************************************************)
CeilDiv(a, b) == (a + b - 1) \div b

Arrived(o) == {n \in DOMAIN o.got : o.got[n] # Unmeasured}
Answered(o) == {n \in DOMAIN o.got : o.got[n] > 0}

\* current_candidate_state
CurrentState(o) ==
    IF ~o.loaded THEN "unknown"
    ELSE IF o.current \notin DOMAIN o.got THEN "not_in_pool"
    ELSE IF o.got[o.current] # Unmeasured THEN "completed" ELSE "pending"

FastPolicy(o, at) ==
    LET count == Cardinality(DOMAIN o.got)
        latest == at >= Latest
        threshold == IF latest THEN CeilDiv(count, 2) ELSE CeilDiv(2 * count, 3)
    IN IF at < Earliest THEN "wait"
       ELSE IF Cardinality(Arrived(o)) < threshold \/ Answered(o) = {}
            THEN (IF latest THEN "defer" ELSE "wait")
       ELSE CASE CurrentState(o) = "unknown" -> "need_current"
              [] CurrentState(o) = "pending" -> IF latest THEN "defer" ELSE "wait"
              [] OTHER -> "evaluate"

\* Others have moved the selector after the snapshot of a running round.
Overtakes == blind' = (blind \/ (op.running /\ op.loaded /\ selector' # selector))

(***************************************************************************)
(* The generation's first activation leaves the selector at the core's     *)
(* default; replay_selection then restores a manual intent, once.  An      *)
(* intent whose node is gone, or a store that cannot be read, falls back   *)
(* to auto.  An error of the API leaves everything as it is.               *)
(***************************************************************************)
ReplaySelection(g) ==
    \E fails \in BOOLEAN:
        /\ Spend((IF fails THEN 1 ELSE 0) + (IF gen = 0 THEN 0 ELSE 1))
        /\ CASE intent = "auto" ->
                    /\ ~fails
                    /\ selector' = Pools[g][1] /\ UNCHANGED intent
             [] intent = "invalid" \/ (intent # "auto" /\ intent \notin Members[g]) ->
                    /\ selector' = Pools[g][1]
                    /\ intent' = IF fails THEN intent ELSE "auto"
             [] OTHER ->
                    /\ selector' = IF fails THEN Pools[g][1] ELSE intent
                    /\ UNCHANGED intent

InitAt(place, spent) ==
    /\ intent \in IF place = "parked" THEN {"auto"} ELSE {"auto", "invalid"}
    /\ gen = 0
    /\ selector = "none"
    /\ op = NoOp
    /\ phase = 0
    /\ job = NoJob
    /\ sequence = 1
    /\ seated = (place # "parked")
    /\ busy = (place = "parked")
    /\ switches = 0
    /\ blind = FALSE
    /\ events = spent

Init == InitAt("start", 0)

\* The worker is between two calls of its loop.
Worker == seated /\ ~busy /\ op.step = "idle"

(***************************************************************************)
(* start_node_benchmark for a request or the periodic timer; a second      *)
(* request joins the running operation and changes nothing.  The periodic  *)
(* trigger asks for an auto intent, a request does not.                    *)
(***************************************************************************)
StartBenchmark ==
    /\ Worker /\ ~op.running /\ gen # 0
    /\ sequence =< MaxOperations
    /\ sequence' = sequence + 1
    /\ LET pool == Pools[gen] IN
       /\ op' = [running |-> TRUE, gen |-> gen, loaded |-> FALSE,
                 got |-> [n \in Range(pool) |-> Unmeasured],
                 current |-> "none", fast |-> "pending", late |-> FALSE,
                 committed |-> FALSE, polled |-> 0, step |-> "idle"]
       /\ job' = [left |-> Range(pool), sent |-> {},
                  results |-> [n \in Range(pool) |-> Unmeasured],
                  report |-> "none"]
    /\ phase' = 0
    /\ switches' = 0
    /\ blind' = FALSE
    /\ UNCHANGED <<intent, selector, gen, seated, busy, events>>

(***************************************************************************)
(* The benchmark thread.  A probe's answer goes to the progress channel;   *)
(* an answer with the wrong secret, the cutoff or the last answer ends the *)
(* run, and candidates without an answer are reported as timeouts.         *)
(***************************************************************************)
Probing == op.running /\ job.report = "none" /\ seated

ProbeAnswers(n, result) ==
    /\ Probing /\ phase < Cutoff
    /\ n \in job.left
    /\ job' = [job EXCEPT !.left = @ \ {n}, !.sent = @ \cup {n},
                          !.results[n] = result]
    /\ UNCHANGED <<intent, selector, gen, op, phase, sequence, seated, busy,
                   switches, blind, events>>

Report ==
    [n \in DOMAIN job.results |->
        IF job.results[n] = Unmeasured THEN Failed ELSE job.results[n]]

JobEnds ==
    /\ Probing
    /\ \/ (job.left = {} \/ phase >= Cutoff) /\ UNCHANGED events
       \/ job.left # {} /\ phase < Cutoff /\ Spend(1)    \* unauthorized
    /\ \/ job' = [job EXCEPT !.left = {}, !.results = Report, !.report = "ready"]
       \/ \* the report exceeds the deadline: caught as an internal error
          /\ phase >= Deadline
          /\ job' = [job EXCEPT !.left = {}, !.report = "error"]
    /\ UNCHANGED <<intent, selector, gen, op, phase, sequence, seated, busy,
                   switches, blind>>

(***************************************************************************)
(* Time.  An idle worker is woken at 2.0 s, 2.8 s and 4.9 s, by every      *)
(* result and by the report (next_wakeup_in, fast_wakeup_in, worker_wake), *)
(* so only a worker that is held up lets one of these wait.                *)
(***************************************************************************)
WakeupDue ==
    /\ op.running
    /\ \/ op.fast = "pending" /\ phase \in {Earliest, Latest} /\ op.polled < phase
       \/ phase >= Deadline
       \/ job.sent # {}
       \/ job.report # "none"

Elapse ==
    /\ op.running /\ seated /\ phase < Overlong
    /\ (busy \/ ~WakeupDue)
    /\ phase' = phase + 1
    /\ UNCHANGED <<intent, selector, gen, op, job, sequence, seated, busy,
                   switches, blind, events>>

HeldUp ==
    /\ Worker /\ Spend(1)
    /\ busy' = TRUE
    /\ UNCHANGED <<intent, selector, gen, op, phase, job, sequence, seated,
                   switches, blind>>

Resumes ==
    /\ seated /\ busy
    /\ busy' = FALSE
    /\ UNCHANGED <<intent, selector, gen, op, phase, job, sequence, seated,
                   switches, blind, events>>

(***************************************************************************)
(* What a call to the core may do to the selector and when it may return:  *)
(* nothing happened, it happened and was acknowledged, or it happened and  *)
(* the answer was lost.  The PUT has a timeout of its own, so an answer    *)
(* may come after the deadline the caller passed.                          *)
(***************************************************************************)
Ends(o, fast, sel, at, ack, cost) ==
    [o |-> [o EXCEPT !.fast = fast, !.committed = @ \/ ack = 1],
     sel |-> sel, at |-> at, ack |-> ack, cost |-> cost]

\* A call that takes long is one event.
Returns(at) == {[at |-> at, cost |-> 0]} \cup
               {[at |-> later, cost |-> 1] : later \in (at + 1) .. Deadline}

(***************************************************************************)
(* apply_fast_selection at instant at.                                     *)
(***************************************************************************)
ApplyFastSelection(o, at) ==
    LET target == ChooseAutoTarget(Pools[o.gen], o.got, o.current) IN
    IF at >= FastDeadline \/ intent = "invalid"
    THEN {Ends(o, "deferred", selector, at, 0, 0)}
    ELSE IF intent # "auto" THEN {Ends(o, "not_applicable", selector, at, 0, 0)}
    ELSE IF target = "keep" THEN {Ends(o, "kept", selector, at, 0, 0)}
    ELSE {Ends(o, "switched", target, r.at, 1, r.cost) :
              r \in {x \in Returns(at) : x.at =< FastDeadline}}
         \cup {Ends(o, "deferred", sel, r.at, 0, 1) :
                   sel \in {selector, target}, r \in Returns(at)}
         \cup {Ends(o, "deferred", target, r.at, 1, 1) : r \in Returns(at)}

(***************************************************************************)
(* advance_fast_node_selection: the policy, the snapshot of the current    *)
(* node (fast_selection_context, taken once), and the policy again.        *)
(***************************************************************************)
Settle(o, at) ==
    CASE FastPolicy(o, at) = "wait" -> {Ends(o, "pending", selector, at, 0, 0)}
      [] FastPolicy(o, at) = "defer" -> {Ends(o, "deferred", selector, at, 0, 0)}
      [] FastPolicy(o, at) = "evaluate" -> ApplyFastSelection(o, at)

FastSelectionContext(o, at) ==
    IF intent = "invalid" THEN {Ends(o, "deferred", selector, at, 0, 0)}
    ELSE IF intent # "auto" THEN {Ends(o, "not_applicable", selector, at, 0, 0)}
    ELSE {Ends(o, "deferred", selector, r.at, 0, 1) : r \in Returns(at)}
         \cup UNION {{[e EXCEPT !.cost = @ + r.cost] :
                         e \in Settle([o EXCEPT !.loaded = TRUE,
                                                 !.current = selector], r.at)} :
                      r \in Returns(at)}

AdvanceFast(o, at) ==
    IF o.fast # "pending" THEN {Ends(o, o.fast, selector, at, 0, 0)}
    ELSE IF gen # o.gen
         THEN {Ends([o EXCEPT !.late = at >= Deadline], "superseded", selector,
                    at, 0, 0)}
    ELSE IF FastPolicy(o, at) = "need_current" THEN FastSelectionContext(o, at)
    ELSE Settle(o, at)

(***************************************************************************)
(* NodeBenchmarkFastSelection::validate, which the milestone must pass: a  *)
(* switch states at most 3.0 s, everything else at most 4.9 s.  The worker *)
(* calls expect on it, so a milestone that fails ends the process.         *)
(***************************************************************************)
Milestone(before, e) ==
    before = "pending" /\ e.o.fast \notin {"pending", "superseded"}

ValidMilestone(e) ==
    IF e.o.fast = "switched" THEN e.at < FastDeadline ELSE e.at < Deadline

Dies ==
    /\ seated' = FALSE
    /\ op' = NoOp
    /\ job' = NoJob
    /\ phase' = 0

(***************************************************************************)
(* reap_node_benchmark, first half: drain and record the progress, publish *)
(* it, and take the early decision.                                        *)
(***************************************************************************)
PollProgress ==
    /\ Worker /\ op.running
    /\ LET got == [n \in DOMAIN op.got |->
                      IF n \in job.sent /\ op.got[n] = Unmeasured
                      THEN job.results[n] ELSE op.got[n]]
           o == [op EXCEPT !.got = got]
       IN \E e \in AdvanceFast(o, phase):
            /\ Spend(e.cost)
            /\ selector' = e.sel
            /\ switches' = switches + e.ack
            /\ IF Milestone(op.fast, e) /\ ~ValidMilestone(e)
               THEN Dies
               ELSE /\ op' = [e.o EXCEPT !.step = "complete", !.polled = e.at]
                    /\ job' = [job EXCEPT !.sent = {}]
                    /\ phase' = e.at
                    /\ UNCHANGED seated
    /\ UNCHANGED <<intent, gen, sequence, busy, blind>>

(***************************************************************************)
(* complete_benchmark_inner: the final decision of a round that has not    *)
(* moved the selector yet.  A snapshot that fails counts as no current     *)
(* node, unlike in the early decision.                                     *)
(***************************************************************************)
FinalDecision(results) ==
    IF intent # "auto" \/ op.committed \/ phase >= Deadline \/ gen # op.gen
    THEN {[sel |-> selector, ack |-> 0, blind |-> FALSE, cost |-> 0]}
    ELSE UNION {
        LET target == ChooseAutoTarget(Pools[gen], results,
                                       IF seen THEN selector ELSE "none")
            cost == IF seen THEN 0 ELSE 1
            switch == target # "keep"
        IN {[sel |-> IF switch THEN target ELSE selector,
             ack |-> IF switch THEN 1 ELSE 0, blind |-> ~seen, cost |-> cost]}
           \cup {[sel |-> sel, ack |-> 0, blind |-> ~seen, cost |-> cost + 1] :
                     sel \in IF switch THEN {selector, target} ELSE {}}
        : seen \in BOOLEAN}

(***************************************************************************)
(* reap_node_benchmark, second half: try_complete, the final decision and  *)
(* the report, whose validation the worker also expects to pass: an early  *)
(* decision that is only now found unneeded must not be later than 4.9 s,  *)
(* and the whole operation not longer than a minute.                       *)
(***************************************************************************)
ValidTerminal ==
    /\ ~(op.fast = "pending" /\ phase >= Deadline)
    /\ ~op.late
    /\ phase < Overlong

PollComplete ==
    /\ seated /\ ~busy /\ op.step = "complete"
    /\ IF job.report = "none" /\ phase < Deadline
       THEN /\ op' = [op EXCEPT !.step = "idle"]
            /\ UNCHANGED <<selector, phase, job, seated, switches, blind,
                           events>>
       ELSE \E d \in FinalDecision(IF job.report = "ready" THEN job.results
                                    ELSE <<>>):
              /\ Spend(d.cost)
              /\ selector' = d.sel
              /\ switches' = switches + d.ack
              /\ blind' = d.blind
              /\ IF ValidTerminal
                 THEN /\ op' = NoOp /\ job' = NoJob /\ phase' = 0
                      /\ UNCHANGED seated
                 ELSE Dies
    /\ UNCHANGED <<intent, gen, sequence, busy>>

(***************************************************************************)
(* The user's choice.  A manual choice is made in the core first and then  *)
(* stored; an auto choice is only stored.                                  *)
(***************************************************************************)
\* Mutant: a manual choice stores the node before asking whether it exists.
MutSelectManual(n) ==
    /\ Worker /\ gen # 0
    /\ selector' = n /\ intent' = "manual" /\ events < MaxEvents
    /\ UNCHANGED <<gen, op, phase, job, sequence, seated, busy, switches, blind,
                   events>>

SelectManual(n) ==
    /\ Worker /\ gen # 0 /\ n \in Members[gen]
    /\ \/ selector' = n /\ intent' = n
       \/ selector' \in {selector, n} /\ UNCHANGED intent
    /\ Spend(1)
    /\ Overtakes
    /\ UNCHANGED <<gen, op, phase, job, sequence, seated, busy, switches>>

SelectAuto ==
    /\ Worker /\ intent # "auto" /\ Spend(1)
    /\ intent' = "auto"
    /\ UNCHANGED <<selector, gen, op, phase, job, sequence, seated, busy,
                   switches, blind>>

(***************************************************************************)
(* What the rest of the worker does to the generation: start, update and   *)
(* recovery activate one and replay the selection; a stop or a dead core   *)
(* leaves none.                                                            *)
(***************************************************************************)
Activate(g) ==
    /\ Worker /\ g # gen
    /\ gen' = g
    /\ ReplaySelection(g)
    /\ Overtakes
    /\ UNCHANGED <<op, phase, job, sequence, seated, busy, switches>>

Deactivate ==
    /\ Worker /\ gen # 0 /\ Spend(1)
    /\ gen' = 0
    /\ selector' = "none"
    /\ Overtakes
    /\ UNCHANGED <<intent, op, phase, job, sequence, seated, busy, switches>>

\* shutdown cancels the thread and joins it; a kill takes it along.
WorkerEnds ==
    /\ seated /\ ~busy /\ Spend(1)
    /\ Dies
    /\ UNCHANGED <<intent, selector, gen, sequence, busy, switches, blind>>

\* The supervisor's next worker counts its operations from 1 again.
Relaunch ==
    /\ ~seated /\ ~busy
    /\ seated' = TRUE
    /\ sequence' = 1
    /\ gen' = 0
    /\ selector' = "none"
    /\ UNCHANGED <<intent, op, phase, job, busy, switches, blind, events>>

WorkerNext == PollProgress \/ PollComplete \/ Resumes \/ Relaunch

Next ==
    \/ StartBenchmark
    \/ \E n \in Nodes, r \in Results: ProbeAnswers(n, r)
    \/ JobEnds
    \/ Elapse
    \/ HeldUp
    \/ WorkerNext
    \/ \E n \in Nodes: SelectManual(n)
    \/ SelectAuto
    \/ \E g \in Generations: Activate(g)
    \/ Deactivate
    \/ WorkerEnds

(***************************************************************************)
(* Time passes, and the loop of a worker that is not held up goes on.      *)
(* Nothing is assumed of the thread, the core or the user.                 *)
(***************************************************************************)
Fairness == WF_selVars(Elapse) /\ WF_selVars(WorkerNext)

Spec == Init /\ [][Next]_selVars /\ Fairness

-----------------------------------------------------------------------------
\* Every variable has its type.
TypeOK ==
    /\ intent \in {"auto", "invalid"} \cup Nodes
    /\ selector \in {"none"} \cup Nodes
    /\ gen \in {0} \cup Generations
    /\ phase \in 0 .. Overlong
    /\ op.running =>
          /\ op.gen \in Generations
          /\ DOMAIN op.got = Range(Pools[op.gen])
          /\ \A n \in DOMAIN op.got: op.got[n] \in Results \cup {Unmeasured}
    /\ job.report \in {"none", "ready", "error"}
    /\ sequence \in 1 .. MaxOperations + 1

(***************************************************************************)
(* One round of measuring moves the selector at most once with the core's  *)
(* acknowledgement, however its early and its final decision fall together *)
(* (fast_mutation_committed).                                              *)
(***************************************************************************)
OneSwitchPerRound == switches =< 1

\* The node a decision compares with: the early one with its snapshot.
Compared == IF op.step = "idle" /\ op.loaded THEN op.current ELSE selector

(***************************************************************************)
(* A step of the benchmark that moves the selector moves it to a node of   *)
(* the running generation's pool, under an auto intent, on a measurement   *)
(* made of this same generation, and because the node it compares with has *)
(* failed, is outside the pool, or is slower by more than the tolerance.   *)
(* That node is the one the core uses, with two exceptions: the early      *)
(* decision reads it once (fast_context_loaded), so that it may have been  *)
(* overtaken by a choice or an activation since; and a final decision      *)
(* whose snapshot failed knows no node.                                    *)
(***************************************************************************)
EarnedSwitch ==
    (op.running /\ seated /\ selector' # selector /\ gen' = gen /\ intent' = intent
        /\ (op' # op))
    => /\ intent = "auto"
       /\ op.gen = gen
       /\ selector' \in Range(Pools[gen])
       /\ job.results[selector'] > 0
       /\ \/ op.step = "complete" /\ blind'
          \/ /\ Compared = selector \/ blind
             /\ \/ Compared \notin Range(Pools[gen])
                \/ job.results[Compared] = Failed
                \/ job.results[Compared] > job.results[selector'] + Tolerance

SwitchesAreEarned == [][EarnedSwitch]_selVars

(***************************************************************************)
(* What the code asserts of its own reports: a milestone and a report pass *)
(* their validation (the two calls of expect), so measuring never ends the *)
(* worker.                                                                 *)
(***************************************************************************)
MeasuringNeverKills ==
    [][PollProgress \/ PollComplete => seated']_selVars

=============================================================================
