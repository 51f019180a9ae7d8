--------------------------- MODULE NetworkExecutor ---------------------------
(***************************************************************************)
(* NetworkExecutor of nethop-android (executor.rs): a network plan is a    *)
(* list of N steps, each one command that adds rules to the kernel and one *)
(* that deletes them.  apply runs the steps in order and, when one fails,  *)
(* undoes that step and all before it; rollback undoes, from the end, what *)
(* a receipt says is done.                                                 *)
(*                                                                         *)
(* A command may be refused, or may time out, after which its effect may   *)
(* or may not be in the kernel.  Other programs may delete rules between   *)
(* any two commands, and the worker may be killed between any two.         *)
(***************************************************************************)
EXTENDS Integers

CONSTANTS
    N,          \* number of steps of the plan
    Restores,   \* the steps that are iptables-restore transactions
    MaxFaults   \* bound on failed commands, drifts and kills

ASSUME ExecutorAssumption ==
    /\ N \in Nat \ {0}
    /\ Restores \subseteq 1..N
    /\ MaxFaults \in Nat

Steps == 1..N
NoReceipt == -1

(***************************************************************************)
(* An "orphaned" step is a chain without the jump its rollback deletes     *)
(* first: the transaction is refused as a whole with "Bad rule".           *)
(***************************************************************************)
StepStates == {"absent", "present", "orphaned"}

VARIABLES
    kernel,     \* what the kernel holds of each step
    op,         \* the running operation
    caller,     \* the ActiveRuntime method that runs it
    index,      \* the step it is at
    completed,  \* ApplyReceipt.completed_steps, or NoReceipt
    failure,    \* rollback_range: first_failure, 0 for None
    result,     \* what the last operation returned
    before,     \* history: the kernel when the last apply began
    faults      \* faults so far

vars == <<kernel, op, caller, index, completed, failure, result, before,
          faults>>

Init ==
    /\ kernel = [i \in Steps |-> "absent"]
    /\ op = "idle"
    /\ caller = "stop"
    /\ index = 0
    /\ completed = NoReceipt
    /\ failure = 0
    /\ result = "none"
    /\ before = [i \in Steps |-> "absent"]
    /\ faults = 0

Fault ==
    /\ faults < MaxFaults
    /\ faults' = faults + 1

(***************************************************************************)
(* apply_steps.  A route, a rule or a chain that is already there refuses  *)
(* the command that adds it.                                               *)
(***************************************************************************)
StartApply ==
    /\ op' = "apply"
    /\ index' = 1
    /\ failure' = 0
    /\ before' = kernel
    /\ UNCHANGED <<kernel, completed, result, faults>>

\* ActiveRuntime::enable_capture, and the start of a runtime.
Enable ==
    /\ op = "idle"
    /\ completed = NoReceipt
    /\ caller' = "enable"
    /\ StartApply

ApplyStep ==
    /\ op = "apply"
    /\ kernel[index] = "absent"
    /\ kernel' = [kernel EXCEPT ![index] = "present"]
    /\ IF index = N
       THEN /\ op' = "idle"
            /\ completed' = N
            /\ result' = "applied"
            /\ UNCHANGED index
       ELSE /\ index' = index + 1
            /\ UNCHANGED <<op, completed, result>>
    /\ UNCHANGED <<caller, failure, before, faults>>

\* Mutant: rollback_range(steps, index), only the steps before it.
MutStartUndo ==
    /\ IF index = 1
       THEN /\ op' = "idle"
            /\ result' = "apply_failed"
            /\ UNCHANGED index
       ELSE /\ op' = "undo"
            /\ index' = index - 1
            /\ UNCHANGED result
    /\ UNCHANGED <<caller, completed, failure, before>>

\* rollback_range(steps, index + 1): the failed step is undone too, for it
\* may have taken effect.
StartUndo ==
    /\ op' = "undo"
    /\ UNCHANGED <<caller, index, completed, failure, result, before>>

ApplyStepFails ==
    /\ op = "apply"
    /\ \/ /\ kernel[index] # "absent"
          /\ UNCHANGED <<kernel, faults>>
       \/ /\ kernel[index] = "absent"
          /\ Fault
          /\ \/ UNCHANGED kernel
             \/ kernel' = [kernel EXCEPT ![index] = "present"]
    /\ StartUndo

(***************************************************************************)
(* execute_rollback: what a delete command does, and whether it counts as  *)
(* done.  Absence counts as done, and "Bad rule" counts as absence.        *)
(***************************************************************************)
DeleteDone(i) ==
    /\ kernel' = [kernel EXCEPT ![i] = IF @ = "present" THEN "absent" ELSE @]
    /\ UNCHANGED faults

DeleteFails(i) ==
    /\ Fault
    /\ \/ UNCHANGED kernel
       \/ /\ kernel[i] = "present"
          /\ kernel' = [kernel EXCEPT ![i] = "absent"]

\* rollback_range: every step is tried, whatever failed before.
UndoReturns ==
    IF index = 1
    THEN /\ op' = "idle"
         /\ result' = IF failure' = 0 THEN "apply_failed"
                                      ELSE "apply_rollback_failed"
         /\ UNCHANGED index
    ELSE /\ index' = index - 1
         /\ UNCHANGED <<op, result>>

Undo ==
    /\ op = "undo"
    /\ \/ DeleteDone(index) /\ UNCHANGED failure
       \/ DeleteFails(index) /\ failure' = IF failure = 0 THEN index ELSE failure
    /\ UndoReturns
    /\ UNCHANGED <<caller, completed, before>>

(***************************************************************************)
(* rollback_steps: stops at the first failure and keeps its place in the   *)
(* receipt.  A runtime that could not be rebuilt is only ever stopped      *)
(* (WorkerRuntime::tick, fail_runtime).                                    *)
(***************************************************************************)
Rollback(c) ==
    /\ op = "idle"
    /\ completed # NoReceipt
    /\ caller = "rebuild" /\ result # "applied" => c = "stop"
    /\ op' = "rollback"
    /\ caller' = c
    /\ UNCHANGED <<kernel, index, completed, failure, result, before,
                   faults>>

\* Mutant: the receipt is counted down before the command has run.
MutRollbackStep ==
    /\ op = "rollback"
    /\ completed > 0
    /\ \/ /\ DeleteDone(completed)
          /\ completed' = completed - 1
          /\ UNCHANGED <<op, result>>
       \/ /\ DeleteFails(completed)
          /\ op' = "idle"
          /\ result' = "rollback_failed"
          /\ completed' = IF caller = "stop" THEN NoReceipt ELSE completed - 1
    /\ UNCHANGED <<caller, index, failure, before>>

\* ActiveRuntime::stop consumes the runtime, and the receipt with it.
RollbackStep ==
    /\ op = "rollback"
    /\ completed > 0
    /\ \/ /\ DeleteDone(completed)
          /\ completed' = completed - 1
          /\ UNCHANGED <<op, result>>
       \/ /\ DeleteFails(completed)
          /\ op' = "idle"
          /\ result' = "rollback_failed"
          /\ completed' = IF caller = "stop" THEN NoReceipt ELSE completed
    /\ UNCHANGED <<caller, index, failure, before>>

\* disable_capture and stop drop the receipt; rebuild_network keeps it and
\* applies the plan again.
RollbackReturns ==
    /\ op = "rollback"
    /\ completed = 0
    /\ UNCHANGED caller
    /\ IF caller = "rebuild"
       THEN StartApply
       ELSE /\ op' = "idle"
            /\ result' = "rolled_back"
            /\ completed' = NoReceipt
            /\ UNCHANGED <<kernel, index, failure, before, faults>>

-----------------------------------------------------------------------------
\* Another program deletes a route or a rule, or a chain or the jump to it.
Drift(i) ==
    /\ kernel[i] = "present"
    /\ Fault
    /\ \/ kernel' = [kernel EXCEPT ![i] = "absent"]
       \/ /\ i \in Restores
          /\ kernel' = [kernel EXCEPT ![i] = "orphaned"]
    /\ UNCHANGED <<op, caller, index, completed, failure, result, before>>

\* The worker is killed and started again: the kernel keeps its rules.
Killed ==
    /\ Fault
    /\ op' = "idle"
    /\ completed' = NoReceipt
    /\ result' = "none"
    /\ UNCHANGED <<kernel, caller, index, failure, before>>

Next ==
    \/ Enable \/ ApplyStep \/ ApplyStepFails \/ Undo
    \/ \E c \in {"disable", "rebuild", "stop"}: Rollback(c)
    \/ RollbackStep \/ RollbackReturns
    \/ \E i \in Steps: Drift(i)
    \/ Killed

Spec == Init /\ [][Next]_vars

-----------------------------------------------------------------------------
TypeOK ==
    /\ kernel \in [Steps -> StepStates]
    /\ op \in {"idle", "apply", "undo", "rollback"}
    /\ caller \in {"enable", "disable", "rebuild", "stop"}
    /\ index \in 0..N
    /\ op \in {"apply", "undo"} => index \in Steps
    /\ completed \in -1..N
    /\ failure \in 0..N
    /\ result \in {"none", "applied", "apply_failed", "apply_rollback_failed",
                   "rollback_failed", "rolled_back"}
    /\ before \in [Steps -> StepStates]
    /\ faults \in 0..MaxFaults

(***************************************************************************)
(* A receipt covers what is installed: no step beyond completed_steps is   *)
(* in force, also after a rollback that failed half way, and none at all   *)
(* once a rollback has succeeded.  So retrying a failed rollback takes it  *)
(* up where it stopped and misses nothing (rollback_steps).  The exception *)
(* is a receipt that rebuild_network has spent and keeps when the apply    *)
(* that follows returns ApplyRollbackFailed: rolling it back again does    *)
(* nothing and succeeds.                                                   *)
(***************************************************************************)
ReceiptCovers ==
    (\/ completed > 0
     \/ op = "idle" /\ result = "rolled_back" /\ failure = 0)
        => \A i \in Steps: i > completed => kernel[i] # "present"

(***************************************************************************)
(* An apply that returns ApplyFailed, and not ApplyRollbackFailed, leaves  *)
(* nothing in force that was not there before it began, whichever command  *)
(* timed out after taking effect (apply_steps, rollback_range).            *)
(***************************************************************************)
FailedApplyAddsNothing ==
    (op = "idle" /\ result = "apply_failed")
        => \A i \in Steps: kernel[i] = "present" => before[i] = "present"
====
