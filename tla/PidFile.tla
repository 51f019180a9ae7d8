------------------------------- MODULE PidFile -------------------------------
(***************************************************************************)
(* The pid file of the supervisor (PidFile of nethopd/application.rs): how *)
(* processes started with --supervise create it, judge one they find, and  *)
(* leave it; and the uninstaller (module/uninstall.sh), which goes by it.  *)
(* Every system call is a step of its own.  A process may be killed at any *)
(* of them.  An identity is a pid with its start time, so that a recycled  *)
(* pid is another process.                                                 *)
(***************************************************************************)
EXTENDS Integers, FiniteSets

CONSTANT Procs  \* the processes ever started

VARIABLES
    file,      \* the pid file: who created it and whether it is written
    at,        \* where each process is
    met,       \* history: the others alive at some moment of its start
    cut,       \* history: an acquire ended between create and write
    contested, \* history: two processes judged the same file stale
    remover    \* uninstall.sh

vars == <<file, at, met, cut, contested, remover>>

NoFile == [there |-> FALSE]
Starting == {"create", "inspect", "unlink", "retry", "mode", "write"}
Alive == Starting \cup {"running"}
Living == {p \in Procs: at[p] \in Alive}

InitAt(place) ==
    /\ file = NoFile
    /\ at = [p \in Procs |-> "new"]
    /\ met = [p \in Procs |-> {}]
    /\ cut = FALSE
    /\ contested = FALSE
    /\ remover = place

Init == InitAt("away")

-----------------------------------------------------------------------------
Go(p, place) == at' = [at EXCEPT ![p] = place]

\* service.sh starts a supervisor; not while the module is being removed.
Launch(p) ==
    /\ at[p] = "new"
    /\ remover = "away"
    /\ Go(p, "create")
    /\ met' = [q \in Procs |-> IF q = p THEN Living
                               ELSE IF at[q] \in Starting
                               THEN met[q] \cup {p} ELSE met[q]]
    /\ UNCHANGED <<file, cut, contested, remover>>

\* create_new, and again after a stale file has been removed.
Create(p) ==
    /\ at[p] \in {"create", "retry"}
    /\ IF ~file.there
       THEN /\ file' = [there |-> TRUE, by |-> p, written |-> FALSE]
            /\ Go(p, "mode")
       ELSE /\ Go(p, IF at[p] = "create" THEN "inspect" ELSE "refused")
            /\ UNCHANGED file
    /\ UNCHANGED <<met, cut, contested, remover>>

\* Mutant: a file that cannot be parsed counts as stale.
MutInspect(p) ==
    /\ at[p] = "inspect"
    /\ LET stale == file.there /\ at[file.by] \notin Alive \ {"write"}
       IN  /\ Go(p, IF stale THEN "unlink" ELSE "refused")
           /\ contested' = (contested
                            \/ (stale /\ \E q \in Procs: at[q] = "unlink"))
    /\ UNCHANGED <<file, met, cut, remover>>

\* remove_stale_pid_file up to its last line.  A file that is gone, empty
\* or whose owner lives refuses the start.
Inspect(p) ==
    /\ at[p] = "inspect"
    /\ LET stale == /\ file.there
                    /\ file.written
                    /\ at[file.by] \notin Alive
       IN  /\ Go(p, IF stale THEN "unlink" ELSE "refused")
           /\ contested' = (contested
                            \/ (stale /\ \E q \in Procs: at[q] = "unlink"))
    /\ UNCHANGED <<file, met, cut, remover>>

\* Whatever file is there by now.
Unlink(p) ==
    /\ at[p] = "unlink"
    /\ file' = NoFile
    /\ Go(p, IF file.there THEN "retry" ELSE "refused")
    /\ UNCHANGED <<met, cut, contested, remover>>

\* set_private_file.  Its failure leaves the file, empty.
SetMode(p) ==
    /\ at[p] = "mode"
    /\ \/ Go(p, "write") /\ UNCHANGED cut
       \/ Go(p, "failed") /\ cut' = TRUE
    /\ UNCHANGED <<file, met, contested, remover>>

\* Written through the descriptor: the file of that name may be another.
WriteIdentity(p) ==
    /\ at[p] = "write"
    /\ \/ /\ file' = IF file.there /\ file.by = p
                     THEN [file EXCEPT !.written = TRUE] ELSE file
          /\ Go(p, "running")
       \/ /\ file' = NoFile
          /\ Go(p, "failed")
    /\ UNCHANGED <<met, cut, contested, remover>>

\* run_system_supervisor returns: Drop removes the path.
Stop(p) ==
    /\ at[p] = "running"
    /\ Go(p, "gone")
    /\ file' = NoFile
    /\ UNCHANGED <<met, cut, contested, remover>>

Kill(p) ==
    /\ at[p] \in Alive
    /\ Go(p, "gone")
    /\ cut' = (cut \/ at[p] \in {"mode", "write"})
    /\ UNCHANGED <<file, met, contested, remover>>

-----------------------------------------------------------------------------
(***************************************************************************)
(* uninstall.sh, once no start is under way: the identity is read, the     *)
(* process asked to end and waited for, then the data are removed.         *)
(***************************************************************************)
ReadIdentity ==
    /\ remover = "away"
    /\ \A p \in Procs: at[p] \notin Starting
    /\ remover' = IF file.there /\ file.written /\ at[file.by] = "running"
                  THEN "wait" ELSE "remove"
    /\ UNCHANGED <<file, at, met, cut, contested>>

\* Five seconds are over and it still runs: the data are kept.
GiveUp ==
    /\ remover = "wait"
    /\ \E p \in Procs: at[p] = "running"
    /\ remover' = "kept"
    /\ UNCHANGED <<file, at, met, cut, contested>>

\* kill -0 fails: the process waited for has ended.
Ended ==
    /\ remover = "wait"
    /\ ~(file.there /\ at[file.by] = "running")
    /\ remover' = "remove"
    /\ UNCHANGED <<file, at, met, cut, contested>>

RemoveData ==
    /\ remover = "remove"
    /\ remover' = "removed"
    /\ file' = NoFile
    /\ UNCHANGED <<at, met, cut, contested>>

Next ==
    \/ \E p \in Procs: \/ Launch(p) \/ Create(p) \/ Inspect(p) \/ Unlink(p)
                       \/ SetMode(p) \/ WriteIdentity(p) \/ Stop(p) \/ Kill(p)
    \/ ReadIdentity \/ GiveUp \/ Ended \/ RemoveData

Spec == Init /\ [][Next]_vars

-----------------------------------------------------------------------------
TypeOK ==
    /\ file \in {NoFile} \cup [there: {TRUE}, by: Procs, written: BOOLEAN]
    /\ at \in [Procs -> Alive \cup {"new", "refused", "failed", "gone"}]
    /\ met \in [Procs -> SUBSET Procs]
    /\ cut \in BOOLEAN
    /\ contested \in BOOLEAN
    /\ remover \in {"away", "wait", "remove", "removed", "kept", "parked"}

(***************************************************************************)
(* OneSupervisor: two supervisors never run side by side, however starts,  *)
(* ends and kills follow one another, unless two starts have judged the    *)
(* same stale file at the same time: then each removes what it finds       *)
(* (PidFile::acquire, remove_stale_pid_file).                              *)
(***************************************************************************)
OneSupervisor ==
    contested \/ \A p, q \in Procs:
                     at[p] = "running" /\ at[q] = "running" => p = q

(***************************************************************************)
(* RefusedForAReason: a start is refused only if another process was alive *)
(* at some moment of it, unless an acquire was cut short earlier on, which *)
(* leaves an empty file that refuses every start.                          *)
(***************************************************************************)
RefusedForAReason ==
    cut \/ \A p \in Procs: at[p] = "refused" => met[p] # {}

(***************************************************************************)
(* DataOutlivesItsUser: the uninstaller removes the data only when no      *)
(* supervisor runs on them, again unless two are running (uninstall.sh).   *)
(***************************************************************************)
DataOutlivesItsUser ==
    remover = "removed" /\ ~contested => Living = {}
=============================================================================
