---------------------------- MODULE MCSupervisor ----------------------------
(***************************************************************************)
(* The supervisor, its pid file, the events and the payloads of the        *)
(* worker's clients, each on its own: a behaviour is one of the part       *)
(* chosen in the initial state.  The supervisor has a window that holds    *)
(* the four failures of a tight crash loop (at 0, 1, 3 and 7 seconds) and  *)
(* time left for a recovery probe.                                         *)
(***************************************************************************)
EXTENDS Supervisor

VARIABLE part

\* PidFile: three processes, so that one may die, and two follow it.
Procs == 1..3

VARIABLES file, at, met, cut, contested, remover

fileVars == <<file, at, met, cut, contested, remover>>

P == INSTANCE PidFile

\* EventHub: a ring of two events, and clients that ask for all events, for
\* the runtime's or for the traffic only.
Subscribers == {1, 2}
Filters == {{}, {"runtime"}, {"traffic"}}
Capacity == 2
MAX_SUBSCRIBERS == 1
MaxSequence == 4

VARIABLES nextSequence, snapshot, events, latest, main, count, traffic, sub

hubVars == <<nextSequence, snapshot, events, latest, main, count, traffic, sub>>

E == INSTANCE EventHub

\* WebuiPayload: two uploads of two chunks.
Uploads == {1, 2}
Chunks == 2
MaxFailures == 1

VARIABLES caller, queue, store, reading, handed, lapses

payloadVars == <<caller, queue, store, reading, handed, lapses>>

W == INSTANCE WebuiPayload WITH failures <- lapses

-----------------------------------------------------------------------------
LaunchInit ==
    /\ part \in {"supervisor", "file", "events", "payloads"}
    /\ IF part = "supervisor" THEN Init ELSE InitAt("ok")
    /\ IF part = "file" THEN P!Init ELSE P!InitAt("parked")
    /\ E!Init
    /\ W!Init

LaunchNext ==
    \/ part = "supervisor" /\ Next
       /\ UNCHANGED <<part, fileVars, hubVars, payloadVars>>
    \/ part = "file" /\ P!Next
       /\ UNCHANGED <<part, vars, hubVars, payloadVars>>
    \/ part = "events" /\ E!Next
       /\ UNCHANGED <<part, vars, fileVars, payloadVars>>
    \/ part = "payloads" /\ W!Next
       /\ UNCHANGED <<part, vars, fileVars, hubVars>>

LaunchSpec ==
    /\ LaunchInit
    /\ [][LaunchNext]_<<part, vars, fileVars, hubVars, payloadVars>>
    /\ Fairness /\ E!Fairness /\ W!Fairness

-----------------------------------------------------------------------------
(***************************************************************************)
(* PidFile: two supervisors run only after two starts met over a stale     *)
(* file, a start is refused only if it met another or follows a cut one,   *)
(* and the uninstaller removes the data of no running supervisor.          *)
(***************************************************************************)
OneSupervisor ==
    P!OneSupervisor /\ P!RefusedForAReason /\ P!DataOutlivesItsUser

\* Supervisor: a worker that ends is started again until a stop is asked for,
\* and then the supervisor ends.
SupervisionGoesOn == RestartsKeepComing /\ StopIsHonoured

(***************************************************************************)
(* EventHub: an event is sent, still to be sent, or the client is told to  *)
(* resync; who waits is up to date, the counters count the live threads,   *)
(* and no client sees the runtime go back in time.                         *)
(***************************************************************************)
NothingIsLost ==
    /\ [](E!NoSilentLoss /\ E!WaitingIsUpToDate /\ E!SlotsAreCounted)
    /\ [][E!NeverBackInTime]_hubVars

\* WebuiPayload: a payload is handed on whole and once, or not at all.
UploadIsWhole == W!UploadIsWhole

\* EventHub: a client that stays catches up; WebuiPayload: no file stays.
ClientsAreServed == []<>(E!CaughtUp /\ W!NoFileStays)
=============================================================================
