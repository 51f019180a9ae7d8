----------------------------- MODULE CoreProcess -----------------------------
(***************************************************************************)
(* The core as a child process of the worker (nethopd/process.rs): how it  *)
(* is started on core-active.json, reloaded by SIGHUP in two phases when a *)
(* new generation differs in its content only (the reload branch of        *)
(* update_inner), observed, stopped and, whatever goes wrong, reaped; the  *)
(* short-lived process that checks a configuration (nethopd/runner.rs);    *)
(* and the TUN interface that comes and goes with the core                 *)
(* (nethopd/tun_runner.rs).                                                *)
(*                                                                         *)
(* The core handles a SIGHUP in its own time: it reads the file again, or  *)
(* exits if it cannot.  A generation is a number.                          *)
(***************************************************************************)
EXTENDS Integers

CONSTANTS
    MaxGeneration, \* bound on generations
    MaxTrouble     \* bound on failures of calls

VARIABLES
    mode,        \* "tproxy" or "tun"
    activeFile,  \* the generation core-active.json holds
    core,        \* the process: none, alive, or zombie until it is reaped
    loaded,      \* the generation the core runs on
    hup,         \* a SIGHUP the core has not handled
    tun,         \* the TUN interface is there
    handle,      \* RunningCore, as the worker holds it
    recorded,    \* ActiveGeneration.generation
    candidate,   \* the generation being started or reloaded
    place,       \* where the worker is
    checker,     \* the sing-box check process
    stray,       \* history: generations of reloads whose failure may have left
                 \* traces, since the last start or reload that succeeded
    trouble

coreVars == <<core, loaded, hup, tun>>
vars == <<mode, activeFile, core, loaded, hup, tun, handle, recorded,
          candidate, place, checker, stray, trouble>>

Generations == 1..MaxGeneration
NoHandle == [child |-> FALSE, pending |-> 0, report |-> FALSE]

InitAt(where) ==
    /\ mode \in IF where = "parked" THEN {"tun"} ELSE {"tproxy", "tun"}
    /\ activeFile = 0
    /\ core = "none" /\ loaded = 0 /\ hup = FALSE /\ tun = FALSE
    /\ handle = NoHandle
    /\ recorded = 0
    /\ candidate = 0
    /\ place = where
    /\ checker = "none"
    /\ stray = {}
    /\ trouble = 0

Init == InitAt("down")

Trouble == trouble < MaxTrouble /\ trouble' = trouble + 1
Calm == UNCHANGED trouble

-----------------------------------------------------------------------------
(***************************************************************************)
(* The core on its own.                                                    *)
(***************************************************************************)
CoreExits ==
    /\ core = "alive"
    /\ core' = "zombie"
    /\ hup' = FALSE
    /\ Trouble
    /\ UNCHANGED <<mode, activeFile, loaded, tun, handle, recorded, candidate,
                   place, checker, stray>>

CoreReloads ==
    /\ core = "alive" /\ hup
    /\ loaded' = activeFile
    /\ hup' = FALSE
    /\ UNCHANGED <<mode, activeFile, core, tun, handle, recorded, candidate,
                   place, checker, stray, trouble>>

\* The interface of a running core appears; that of a dead one goes.
TunFollows ==
    /\ mode = "tun"
    /\ tun # (core = "alive")
    /\ tun' = (core = "alive")
    /\ UNCHANGED <<mode, activeFile, core, loaded, hup, handle, recorded,
                   candidate, place, checker, stray, trouble>>

-----------------------------------------------------------------------------
(***************************************************************************)
(* SingBoxCheckRunner::check_candidate, before a start and a reload.       *)
(***************************************************************************)
Check(g) ==
    /\ place \in {"down", "ready"}
    /\ checker = "none"
    /\ candidate' = g
    /\ checker' = "alive"
    /\ UNCHANGED <<mode, activeFile, coreVars, handle, recorded, place, stray, trouble>>

\* Its output, its time or its verdict; it is killed and waited for when it
\* takes too long or cannot be observed.
Checked ==
    /\ checker = "alive"
    /\ checker' = "none"
    /\ \/ /\ place' = IF place = "down" THEN "start" ELSE "stage"
          /\ UNCHANGED candidate /\ Calm
       \/ candidate' = 0 /\ UNCHANGED place /\ Trouble
    /\ UNCHANGED <<mode, activeFile, coreVars, handle, recorded, stray>>

-----------------------------------------------------------------------------
\* CoreProcessRunner::start fails: the file, the spawn, or a reader, after
\* which the child is killed and waited for (terminate_child).
StartFails ==
    /\ place = "start"
    /\ Trouble
    /\ activeFile' \in {activeFile, candidate}
    /\ place' = "down" /\ candidate' = 0
    /\ UNCHANGED <<mode, coreVars, handle, recorded, checker, stray>>

Start ==
    /\ place = "start"
    /\ activeFile' = candidate
    /\ core' = "alive" /\ loaded' = candidate /\ hup' = FALSE
    /\ handle' = [NoHandle EXCEPT !.child = TRUE]
    /\ place' = "probe"
    /\ stray' = {}
    /\ UNCHANGED <<mode, tun, recorded, candidate, checker, trouble>>

\* try_exit: a zombie is reaped and reported.  If a reader has failed the
\* child is gone and there is no report.
Reaped ==
    /\ core' = "none"
    /\ \/ handle' = [handle EXCEPT !.child = FALSE, !.report = TRUE] /\ Calm
       \/ handle' = [handle EXCEPT !.child = FALSE] /\ Trouble

\* wait_healthy of StartupLivenessProbe and TunRunner.
Healthy ==
    /\ place = "probe"
    /\ core = "alive"
    /\ mode = "tun" => tun
    /\ place' = "ready"
    /\ recorded' = candidate /\ candidate' = 0
    /\ UNCHANGED <<mode, activeFile, coreVars, handle, checker, stray,
                   trouble>>

\* It has exited, or the time for it to be healthy is over.
Unhealthy ==
    /\ place = "probe"
    /\ \/ core = "zombie" /\ Reaped
       \/ core = "alive" /\ Trouble /\ UNCHANGED <<core, handle>>
    /\ place' = "stop" /\ candidate' = 0
    /\ UNCHANGED <<mode, activeFile, loaded, hup, tun, recorded, checker,
                   stray>>

\* A tick of the running worker finds that the core has exited.
Observe ==
    /\ place = "ready" /\ checker = "none"
    /\ core = "zombie" /\ handle.child
    /\ Reaped
    /\ place' = "stop"
    /\ UNCHANGED <<mode, activeFile, loaded, hup, tun, recorded, candidate,
                   checker, stray>>

-----------------------------------------------------------------------------
(***************************************************************************)
(* The reload.  stage_reload keeps the old file for the way back, writes   *)
(* the new one and then signals the core.  A failed write may have         *)
(* replaced the file all the same (atomic_write renames before it syncs    *)
(* the directory).                                                         *)
(***************************************************************************)
StageReload ==
    /\ place = "stage"
    /\ core = "alive" /\ handle.pending = 0
    /\ handle' = [handle EXCEPT !.pending = activeFile]
    /\ activeFile' = candidate
    /\ place' = "signal"
    /\ UNCHANGED <<mode, coreVars, recorded, candidate, checker, stray, trouble>>

\* Something is pending, the core has exited, or the file cannot be written.
StageFails ==
    /\ place = "stage"
    /\ \/ /\ handle.pending # 0 \/ core = "none"
          /\ Calm /\ UNCHANGED <<activeFile, core, handle, stray>>
       \/ core = "zombie" /\ Reaped /\ UNCHANGED <<activeFile, stray>>
       \/ /\ core = "alive" /\ Trouble
          /\ \/ UNCHANGED <<activeFile, stray>>
             \/ activeFile' = candidate /\ stray' = stray \cup {candidate}
          /\ UNCHANGED <<core, handle>>
    /\ place' = "ready" /\ candidate' = 0
    /\ UNCHANGED <<mode, loaded, hup, tun, recorded, checker>>

\* send_reload_signal; a core that has just exited is signalled in vain.
Signal ==
    /\ place = "signal"
    /\ hup' = (core = "alive")
    /\ place' = "verify"
    /\ UNCHANGED <<mode, activeFile, core, loaded, tun, handle, recorded, candidate,
                   checker, stray, trouble>>

\* The old file is written again, and a failure of that is ignored.
SignalFails ==
    /\ place = "signal"
    /\ Trouble
    /\ activeFile' \in {activeFile, handle.pending}
    /\ handle' = [handle EXCEPT !.pending = 0]
    /\ stray' = stray \cup {candidate}
    /\ place' = "ready" /\ candidate' = 0
    /\ UNCHANGED <<mode, coreVars, recorded, checker>>

\* wait_reload_healthy: the process lives and the data plane is in order.
ReloadHealthy ==
    /\ place = "verify"
    /\ core = "alive"
    /\ place' = "commit"
    /\ UNCHANGED <<mode, activeFile, coreVars, handle, recorded, candidate,
                   checker, stray, trouble>>

ReloadUnhealthy ==
    /\ place = "verify"
    /\ \/ core = "zombie" /\ Reaped
       \/ core = "alive" /\ Trouble /\ UNCHANGED <<core, handle>>
    /\ place' = "undo"
    /\ UNCHANGED <<mode, activeFile, loaded, hup, tun, recorded, candidate,
                   checker, stray>>

\* updater.commit has published the generation; commit_reload records it.
CommitReload ==
    /\ place = "commit"
    /\ handle' = [handle EXCEPT !.pending = 0]
    /\ recorded' = candidate /\ candidate' = 0
    /\ stray' = {}
    /\ place' = "ready"
    /\ UNCHANGED <<mode, activeFile, coreVars, checker, trouble>>

\* The file on disk has changed meanwhile, or updater.commit has failed.
Abandon ==
    /\ place = "commit"
    /\ Trouble
    /\ place' \in {"undo", "undoOrDie"}
    /\ UNCHANGED <<mode, activeFile, coreVars, handle, recorded, candidate,
                   checker, stray>>

\* Mutant: the core is not told that the old file is back.
MutRollbackReload ==
    /\ place \in {"undo", "undoOrDie"}
    /\ handle' = [handle EXCEPT !.pending = 0]
    /\ candidate' = 0
    /\ activeFile' = handle.pending
    /\ hup' = hup
    /\ place' = "ready"
    /\ UNCHANGED <<stray, trouble, mode, core, loaded, tun, recorded, checker>>

\* rollback_reload.  What is pending is taken first: a rollback that cannot
\* write the old file, or not signal, leaves nothing to go back to.  Its
\* failure, and that of the probe that follows, end the worker only after
\* a failed updater.commit.
RollbackReload ==
    /\ place \in {"undo", "undoOrDie"}
    /\ handle' = [handle EXCEPT !.pending = 0]
    /\ candidate' = 0
    /\ \/ /\ activeFile' = handle.pending
          /\ hup' = (core = "alive")
          /\ \/ /\ place' = IF place = "undoOrDie" /\ ~handle.child
                            THEN "quit" ELSE "ready"
                /\ Calm
             \/ place = "undoOrDie" /\ place' = "quit" /\ Trouble
          /\ UNCHANGED stray
       \/ /\ Trouble
          /\ activeFile' \in {activeFile, handle.pending}
          /\ stray' = stray \cup {candidate}
          /\ place' = IF place = "undoOrDie" THEN "quit" ELSE "ready"
          /\ UNCHANGED hup
    /\ UNCHANGED <<mode, core, loaded, tun, recorded, checker>>

-----------------------------------------------------------------------------
(***************************************************************************)
(* RunningCore::stop.  The core is asked to end, and killed if it has not  *)
(* ended in time.                                                          *)
(***************************************************************************)
Stop ==
    /\ place = "ready" /\ checker = "none"
    /\ place' = "stop"
    /\ UNCHANGED <<mode, activeFile, coreVars, handle, recorded, candidate,
                   checker, stray, trouble>>

\* The core heeds the SIGTERM.
Terminated ==
    /\ place = "stop"
    /\ core = "alive" /\ handle.child
    /\ core' = "zombie" /\ hup' = FALSE
    /\ UNCHANGED <<mode, activeFile, loaded, tun, handle, recorded, candidate,
                   place, checker, stray, trouble>>

\* Mutant: the poll goes on until the core has ended by itself.
MutStopped ==
    /\ place = "stop"
    /\ core \in {"none", "zombie"}
    /\ core' = "none" /\ hup' = FALSE
    /\ handle' = NoHandle
    /\ recorded' = 0
    /\ place' = "drain"
    /\ UNCHANGED <<mode, activeFile, loaded, tun, candidate, checker, stray, trouble>>

\* It is reaped, or killed and waited for.  stop takes the handle with it,
\* and Drop kills what is left after an error.
Stopped ==
    /\ place = "stop"
    /\ core' = "none" /\ hup' = FALSE
    /\ handle' = NoHandle
    /\ recorded' = 0
    /\ place' = "drain"
    /\ UNCHANGED <<mode, activeFile, loaded, tun, candidate, checker, stray, trouble>>

\* TunRunner::wait_stopped, by its time limit at the latest.
Drained ==
    /\ place = "drain"
    /\ \/ ~tun /\ Calm
       \/ tun /\ Trouble
    /\ place' = "down"
    /\ UNCHANGED <<mode, activeFile, coreVars, handle, recorded, candidate,
                   checker, stray>>

\* The worker ends with an error: Drop of RunningCore.
Quit ==
    /\ place = "quit"
    /\ core' = "none" /\ hup' = FALSE
    /\ handle' = NoHandle /\ recorded' = 0
    /\ place' = "gone"
    /\ UNCHANGED <<mode, activeFile, loaded, tun, candidate, checker, stray, trouble>>

Worker ==
    \/ Checked \/ StartFails \/ Start \/ Healthy \/ Unhealthy \/ Observe
    \/ StageReload \/ StageFails \/ Signal \/ SignalFails
    \/ ReloadHealthy \/ ReloadUnhealthy \/ CommitReload \/ Abandon \/ RollbackReload \/ Stopped \/ Drained \/ Quit

Next ==
    \/ CoreExits \/ CoreReloads \/ TunFollows
    \/ \E g \in Generations: Check(g)
    \/ Stop \/ Terminated \/ Worker

\* Every wait of the worker has a time limit; the core handles its signals.
Fairness == WF_vars(Worker) /\ WF_vars(CoreReloads) /\ WF_vars(TunFollows)

Spec == Init /\ [][Next]_vars /\ Fairness

-----------------------------------------------------------------------------
TypeOK ==
    /\ mode \in {"tproxy", "tun"}
    /\ activeFile \in 0..MaxGeneration
    /\ core \in {"none", "alive", "zombie"}
    /\ loaded \in 0..MaxGeneration
    /\ hup \in BOOLEAN /\ tun \in BOOLEAN
    /\ handle \in [child: BOOLEAN, pending: 0..MaxGeneration,
                   report: BOOLEAN]
    /\ recorded \in 0..MaxGeneration /\ candidate \in 0..MaxGeneration
    /\ place \in {"down", "start", "probe", "ready", "stage", "signal",
                  "verify", "commit", "undo", "undoOrDie", "stop", "drain",
                  "quit", "gone", "parked"}
    /\ checker \in {"none", "alive"}
    /\ stray \subseteq 0..MaxGeneration
    /\ trouble \in 0..MaxTrouble

(***************************************************************************)
(* NoStrayCore: a worker that holds no handle has no child, running or a   *)
(* zombie, whatever has failed on the way (the early returns of start,     *)
(* stop_inner, Drop).                                                      *)
(***************************************************************************)
NoStrayCore ==
    /\ ~handle.child => core = "none"
    /\ place \in {"down", "drain", "gone"} => handle = NoHandle

(***************************************************************************)
(* CoreRunsWhatIsRecorded: when the worker is at rest and no SIGHUP is     *)
(* under way, the core runs on the generation that ActiveGeneration names  *)
(* and would find it in the file again.  Only a reload in which a write or *)
(* a signal failed may leave its own generation instead, and no longer     *)
(* than until the next reload or start that succeeds (stage_reload,        *)
(* commit_reload, rollback_reload).                                        *)
(***************************************************************************)
CoreRunsWhatIsRecorded ==
    place = "ready" /\ core = "alive" /\ ~hup =>
        {loaded, activeFile} \subseteq {recorded} \cup stray

(***************************************************************************)
(* NothingStaysPending: between reloads nothing is pending, so that no     *)
(* reload is refused because of an earlier one (RunningCore.pending_reload)*)
(***************************************************************************)
NothingStaysPending ==
    place \in {"ready", "stage"} => handle.pending = 0

(***************************************************************************)
(* The core that runs is the recorded one, no child is left behind and no  *)
(* reload stays pending (CoreProcessRunner, RunningCore).                  *)
(***************************************************************************)
CoreIsAccountedFor == CoreRunsWhatIsRecorded /\ NoStrayCore /\ NothingStaysPending

(***************************************************************************)
(* StopComesToAnEnd: a stop ends, even if the core heeds no signal, and    *)
(* leaves no core (stop_inner kills it at the time limit).                 *)
(***************************************************************************)
StopComesToAnEnd == place = "stop" ~> core = "none"
=============================================================================
