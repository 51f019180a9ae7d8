------------------------------- MODULE MCControl -------------------------------
(***************************************************************************)
(* What the users of the worker ask of it, part by part: requests on the   *)
(* control socket (Control), a configuration to be put into effect         *)
(* (ConfigApply) and nodes to be read from subscriptions (NodeFormat).     *)
(*                                                                         *)
(* A behaviour is one of the part chosen in the initial state; the         *)
(* others stay as they are at first.                                       *)
(***************************************************************************)
EXTENDS Control, MCNodeCases, MCConfigCases

VARIABLE part

\* NodeFormat: a node may be listed twice, then imported.
VARIABLES base, items, pool, report

nodeVars == <<base, items, pool, report>>

N == INSTANCE NodeFormat WITH
         Bases <- MCBases, Changes <- MCChanges, MaxBodies <- 2

\* ConfigApply
CONSTANT MaxHappenings

VARIABLES file, listed, network, worker, happenings

applyVars == <<file, listed, network, worker, happenings>>

A == INSTANCE ConfigApply WITH
         Width <- MCWidth, Lower <- MCLower, BadLabels <- MCBadLabels,
         HttpsUrls <- MCHttpsUrls, BadNames <- MCBadNames, Names <- MCNames,
         Private <- MCPrivate, CnDomains <- MCCnDomains,
         CnAddresses <- MCCnAddresses, Documents <- MCDocuments,
         Starts <- MCStarts, Edits <- MCEdits, Listings <- MCListings,
         Networks <- MCNetworks, Tags <- MCTags,
         MaxEvents <- MaxHappenings, events <- happenings

-----------------------------------------------------------------------------
Parked == "parked"
ControlParked == InitAt([enabled |-> FALSE, sources |-> 1, policy |-> 1])
NodesParked == base = Parked /\ items = Parked /\ pool = Parked /\ report = Parked
ApplyParked ==
    /\ file = Parked /\ listed = Parked /\ network = Parked /\ worker = Parked
    /\ happenings = Parked

UsersInit ==
    \/ part = "control" /\ Init /\ NodesParked /\ ApplyParked
    \/ part = "nodes" /\ N!Init /\ ControlParked /\ ApplyParked
    \/ part = "apply" /\ A!Init /\ ControlParked /\ NodesParked

ControlNext ==
    part = "control" /\ Next /\ UNCHANGED <<part, nodeVars, applyVars>>
NodesNext ==
    part = "nodes" /\ N!Next /\ UNCHANGED <<part, controlVars, applyVars>>
ApplyNext ==
    part = "apply" /\ A!Next /\ UNCHANGED <<part, controlVars, nodeVars>>

UsersNext == ControlNext \/ NodesNext \/ ApplyNext

usersVars == <<part, controlVars, nodeVars, applyVars>>

UsersSpec == UsersInit /\ [][UsersNext]_usersVars

\* How a configuration is put into effect, on its own.
ApplySpec == UsersInit /\ part = "apply" /\ [][ApplyNext]_usersVars

-----------------------------------------------------------------------------
(***************************************************************************)
(* NodeFormat: whatever formats its sources are in, a node keeps its       *)
(* meaning from the listing to the outbound of the core and back.          *)
(***************************************************************************)
NodesKeepTheirMeaning == part = "nodes" => N!NodesKeepTheirMeaning

(***************************************************************************)
(* ConfigApply: a document that is accepted is composed as it is meant,    *)
(* and what runs is never at odds with the policy it was started for.      *)
(***************************************************************************)
ConfigurationIsHonoured == part = "apply" => A!ConfigurationIsHonoured

(***************************************************************************)
(* ConfigApply, docs/06: the old configuration is never reported as the    *)
(* file being in effect.                                                   *)
(***************************************************************************)
AcceptedIsInEffect == A!AcceptedIsInEffect
===============================================================================
