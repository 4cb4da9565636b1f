-------------------------------- MODULE Bridges --------------------------------
(***************************************************************************)
(* What runs beside the cloud connection: the bridges to Frigate and to    *)
(* Node-RED, each with its jobs, its store and its lock, and the licence   *)
(* plate gate of the former.  They share the event loop and, but for the   *)
(* removal of a camera, nothing else, so a behaviour follows one of them.  *)
(***************************************************************************)
EXTENDS FrigateBridge

CONSTANTS Gateway, ConfigNode, UserNode, Plans, Present, MqttReady, MaxSurprises,
  Plate, Report, Lists, First, REPEAT_SECONDS, MaxTime, Budgets, MaxUnanswered, MaxStops

VARIABLES
  followed,   \* the part that this behaviour follows
  flows, modules, up, retained, endpoint, records, mine, alive, loose,
  nrLoaded, nrWaiting, nrList, nrJobs, nrActive, nrRequest, nrStore, nrFaults,
  copy, rule, entries, settings, saved, line, web, at, note, plate, recent, asked, auto, pending,
  wanted, todo, now, pulsed, overlap, budget, unanswered, stops

NodeRed == INSTANCE NodeRedBridge WITH
  Bridge <- Gateway, MaxFaults <- MaxSurprises,
  loaded <- nrLoaded, waiting <- nrWaiting, list <- nrList, jobs <- nrJobs,
  active <- nrActive, request <- nrRequest, store <- nrStore, faults <- nrFaults
Plates == INSTANCE PlateGate WITH list <- entries

ASSUME BridgesAssumption == NodeRed!NodeRedAssumption /\ Plates!PlateAssumption

nodeRed == <<flows, modules, up, retained, endpoint, records, mine, alive, loose, nrLoaded,
             nrWaiting, nrList, nrJobs, nrActive, nrRequest, nrStore, nrFaults>>
plates == <<copy, rule, entries, settings, saved, line, web, at, note, plate, recent, asked, auto,
            pending, wanted, todo, now, pulsed, overlap, budget, unanswered, stops>>
all == <<vars, nodeRed, plates, followed>>

(* The others start in one way only. *)
BridgesInit ==
  /\ followed \in {"frigate", "node-red", "plates"} /\ Init /\ NodeRed!Init /\ Plates!Init
  /\ followed # "frigate" => \E scene \in {CHOOSE any \in Scenes : TRUE} :
                               file = scene.config /\ request = scene.request
  /\ followed # "node-red" => up = Present /\ nrRequest = (CHOOSE plan \in Plans : TRUE)
  /\ followed # "plates" => budget = (CHOOSE any \in Budgets : TRUE)
BridgesNext ==
  \/ followed = "frigate" /\ Next /\ UNCHANGED <<nodeRed, plates, followed>>
  \/ followed = "node-red" /\ NodeRed!Next /\ UNCHANGED <<vars, plates, followed>>
  \/ followed = "plates" /\ Plates!Next /\ UNCHANGED <<vars, nodeRed, followed>>
BridgesSpec == BridgesInit /\ [][BridgesNext]_all

(* The properties of FrigateBridge, NodeRedBridge and PlateGate. *)
BridgesTypeOK ==
  CASE followed = "frigate" -> TypeOK
    [] followed = "node-red" -> NodeRed!TypeOK
    [] followed = "plates" -> Plates!TypeOK
UserNodesKept == NodeRed!UserNodesKept
InstalledIsListed == NodeRed!InstalledIsListed
NoStaleConfig == NodeRed!NoStaleConfig
JobsTellTheTruth == CompletedIsTrue /\ NodeRed!CompletedIsTrue
PulsesApart == Plates!PulsesApart
SettledIsTrue == Plates!SettledIsTrue
PlatformListCounts == Plates!PlatformListCounts
=============================================================================
