---------------------------- MODULE Bridges_proofs ----------------------------
(***************************************************************************)
(* What is proved about each bridge alone, for the composition that the    *)
(* runs check: each invariant is preserved by the steps of its own bridge, *)
(* and by those of the others, which leave its variables alone.  Two       *)
(* instances of a module have the same definitions, so each of them only   *)
(* has to be expanded on either side.                                      *)
(***************************************************************************)
EXTENDS Bridges, TLAPS

Cameras == INSTANCE FrigateBridge_proofs
Proved == INSTANCE NodeRedBridge_proofs WITH
  Bridge <- Gateway, MaxFaults <- MaxSurprises,
  loaded <- nrLoaded, waiting <- nrWaiting, list <- nrList, jobs <- nrJobs,
  active <- nrActive, request <- nrRequest, store <- nrStore, faults <- nrFaults
Gates == INSTANCE PlateGate_proofs WITH list <- entries
----------------------------------------------------------------------------
(* The Frigate bridge *)

LEMMA CameraAssumption == Cameras!FrigateAssumption
  BY FrigateAssumption
     DEF Key, Cameras!Key, Stream, Cameras!Stream, Camera, Cameras!Camera, NoCamera,
        Cameras!NoCamera, Config, Cameras!Config, Request, Cameras!Request, Own,
        Cameras!Own, Works, Cameras!Works, FrigateAssumption, Cameras!FrigateAssumption

LEMMA CameraInit == Init => Cameras!Init
  BY DEF Key, Cameras!Key, Placeholder, Cameras!Placeholder, Stream, Cameras!Stream, Piece,
     Cameras!Piece, NoCamera, Cameras!NoCamera, NoConfig, Cameras!NoConfig, Idle,
     Cameras!Idle, Streams, Cameras!Streams, Doing, Cameras!Doing, Init, Cameras!Init

LEMMA CameraNext == Next => Cameras!Next
  BY DEF Key, Cameras!Key, Placeholder, Cameras!Placeholder, Stream, Cameras!Stream,
     NoCamera, Cameras!NoCamera, Own, Cameras!Own, frigate, Cameras!frigate, data,
     Cameras!data, seen, Cameras!seen, vars, Cameras!vars, NoConfig, Cameras!NoConfig, Idle,
     Cameras!Idle, Has, Cameras!Has, Streams, Cameras!Streams, CameraHosts,
     Cameras!CameraHosts, CameraKeys, Cameras!CameraKeys, CameraKey, Cameras!CameraKey,
     Wanted, Cameras!Wanted, CameraConfig, Cameras!CameraConfig, Owned, Cameras!Owned,
     Without, Cameras!Without, With, Cameras!With, Section, Cameras!Section, Settings,
     Cameras!Settings, Doing, Cameras!Doing, Live, Cameras!Live, Strike, Cameras!Strike,
     Calm, Cameras!Calm, Read, Cameras!Read, ConfigSet, Cameras!ConfigSet, Kind,
     Cameras!Kind, At, Cameras!At, Go, Cameras!Go, Finish, Cameras!Finish, Touched,
     Cameras!Touched, Undone, Cameras!Undone, Unanswered, Cameras!Unanswered, Saved,
     Cameras!Saved, Save, Cameras!Save,
     Latest, Cameras!Latest, Start, Cameras!Start, Ask, Cameras!Ask, Load, Cameras!Load,
     SaveStarted, Cameras!SaveStarted, SaveFinished, Cameras!SaveFinished, ReadFails,
     Cameras!ReadFails, BeginAdd, Cameras!BeginAdd, CheckStreams, Cameras!CheckStreams,
     AddStream, Cameras!AddStream, DropPlaceholder, Cameras!DropPlaceholder, WriteCamera,
     Cameras!WriteCamera, RemoveAdded, Cameras!RemoveAdded, Restarted, Cameras!Restarted,
     Broken, Cameras!Broken, Restart, Cameras!Restart, WaitBack, Cameras!WaitBack, WaitFps,
     Cameras!WaitFps, RecordManaged, Cameras!RecordManaged, RememberAdded,
     Cameras!RememberAdded, TakenOut, Cameras!TakenOut, ReadBefore, Cameras!ReadBefore,
     Drain, Cameras!Drain, ReadDrained, Cameras!ReadDrained, WriteOut, Cameras!WriteOut,
     RemoveStreams, Cameras!RemoveStreams, RestartWithout, Cameras!RestartWithout,
     WaitBackWithout, Cameras!WaitBackWithout, BeginRemove, Cameras!BeginRemove,
     RememberRemoved, Cameras!RememberRemoved, ForgetManaged, Cameras!ForgetManaged,
     BeginConfigure, Cameras!BeginConfigure, Set, Cameras!Set, SetAll, Cameras!SetAll,
     SetSection, Cameras!SetSection, ReadSettings, Cameras!ReadSettings, Poll, Cameras!Poll,
     Expire, Cameras!Expire, Crash, Cameras!Crash, JobStep, Cameras!JobStep, Next,
     Cameras!Next, Min, Cameras!Min

(* A step of the composition is a step of the Frigate bridge or leaves it alone. *)
LEMMA CameraStep == [BridgesNext]_all => [Cameras!Next]_Cameras!vars
<1>1. UNCHANGED vars => UNCHANGED Cameras!vars
  BY DEF frigate, Cameras!frigate, data, Cameras!data, seen, Cameras!seen, vars,
     Cameras!vars
<1>2. UNCHANGED all => UNCHANGED vars
  BY DEF all
<1> QED
  BY <1>1, <1>2, CameraNext DEF BridgesNext

LEMMA CameraInvariant == BridgesSpec => []Cameras!WholeInv
<1>1. BridgesInit => Cameras!WholeInv
  BY CameraAssumption, CameraInit, Cameras!WholeInit DEF BridgesInit
<1>2. Cameras!WholeInv /\ [BridgesNext]_all => Cameras!WholeInv'
  BY CameraAssumption, CameraStep, Cameras!WholeStep
<1> QED
  BY <1>1, <1>2, PTL DEF BridgesSpec

LEMMA CameraTypeOK == Cameras!WholeInv => TypeOK
<1>1. Cameras!WholeInv => Cameras!TypeOK
  BY CameraAssumption, Cameras!TypesHold DEF Cameras!WholeInv
<1>2. Cameras!TypeOK => TypeOK
  BY DEF Key, Cameras!Key, Stream, Cameras!Stream, Piece, Cameras!Piece, Camera,
     Cameras!Camera, Config, Cameras!Config, TypeOK, Cameras!TypeOK
<1> QED
  BY <1>1, <1>2

LEMMA CameraJobs == Cameras!WholeInv /\ [BridgesNext]_all =>
                      [\A op \in Op : jobs[op] = "running" /\ jobs'[op] = "completed"
                         => Fulfilled(op)]_vars
<1>1. Cameras!WholeInv /\ [BridgesNext]_all =>
        [\A op \in Op : jobs[op] = "running" /\ jobs'[op] = "completed"
           => Cameras!Fulfilled(op)]_Cameras!vars
  BY CameraAssumption, CameraStep, Cameras!Completed DEF Cameras!WholeInv
<1>2. \A op \in Op : Cameras!Fulfilled(op) => Fulfilled(op)
  BY DEF NoCamera, Cameras!NoCamera, Has, Cameras!Has, Key, Cameras!Key, Stream, Cameras!Stream,
     Streams, Cameras!Streams, Own, Cameras!Own, Troubled, Cameras!Troubled, Fulfilled,
     Cameras!Fulfilled
<1>3. UNCHANGED Cameras!vars => UNCHANGED vars
  BY DEF frigate, Cameras!frigate, data, Cameras!data, seen, Cameras!seen, vars,
     Cameras!vars
<1> QED
  BY <1>1, <1>2, <1>3
----------------------------------------------------------------------------
(* The Node-RED bridge *)

LEMMA SameAssumption == Proved!NodeRedAssumption
  BY BridgesAssumption
     DEF NodeRed!Server, Proved!Server, NodeRed!Request, Proved!Request,
        NodeRed!NodeRedAssumption, Proved!NodeRedAssumption

LEMMA SameInit == NodeRed!Init => Proved!Init
  BY DEF NodeRed!Server, Proved!Server, NodeRed!NoServer, Proved!NoServer, NodeRed!NoRecord,
     Proved!NoRecord, NodeRed!Silent, Proved!Silent, NodeRed!NoFlows, Proved!NoFlows,
     NodeRed!Idle, Proved!Idle, NodeRed!Init, Proved!Init

LEMMA SameNext == NodeRed!Next => Proved!Next
  BY DEF NodeRed!Server, Proved!Server, NodeRed!NoServer, Proved!NoServer, NodeRed!NoRecord,
     Proved!NoRecord, NodeRed!outside, Proved!outside, NodeRed!data, Proved!data,
     NodeRed!seen, Proved!seen, NodeRed!vars, Proved!vars, NodeRed!Silent, Proved!Silent,
     NodeRed!NoFlows, Proved!NoFlows, NodeRed!Idle, Proved!Idle, NodeRed!Strike,
     Proved!Strike, NodeRed!Calm, Proved!Calm, NodeRed!Located, Proved!Located,
     NodeRed!Ready, Proved!Ready, NodeRed!MergeFlows, Proved!MergeFlows, NodeRed!Kept,
     Proved!Kept, NodeRed!Health, Proved!Health, NodeRed!Job, Proved!Job, NodeRed!At,
     Proved!At, NodeRed!Go, Proved!Go, NodeRed!Finish, Proved!Finish, NodeRed!Saved,
     Proved!Saved, NodeRed!Save, Proved!Save, NodeRed!Latest, Proved!Latest, NodeRed!Others,
     Proved!Others, NodeRed!Start, Proved!Start, NodeRed!Ask, Proved!Ask, NodeRed!Load,
     Proved!Load, NodeRed!Configure, Proved!Configure, NodeRed!StartAddon,
     Proved!StartAddon, NodeRed!SaveStarted, Proved!SaveStarted, NodeRed!SaveFinished,
     Proved!SaveFinished, NodeRed!Fails, Proved!Fails, NodeRed!Connect, Proved!Connect,
     NodeRed!Modules, Proved!Modules, NodeRed!BrokerSettings, Proved!BrokerSettings,
     NodeRed!GetFlows, Proved!GetFlows, NodeRed!Written, Proved!Written, NodeRed!SetFlows,
     Proved!SetFlows, NodeRed!Record, Proved!Record, NodeRed!Noticed, Proved!Noticed,
     NodeRed!Subscribe, Proved!Subscribe, NodeRed!WaitHealth, Proved!WaitHealth,
     NodeRed!ClearRetained, Proved!ClearRetained, NodeRed!Heartbeat, Proved!Heartbeat,
     NodeRed!Age, Proved!Age, NodeRed!Edit, Proved!Edit, NodeRed!DeleteTab,
     Proved!DeleteTab, NodeRed!Crash, Proved!Crash, NodeRed!JobStep, Proved!JobStep,
     NodeRed!Next, Proved!Next

(* A step of the composition is a step of the Node-RED bridge or leaves it alone. *)
LEMMA SameStep == [BridgesNext]_all => [Proved!Next]_Proved!vars
<1>1. UNCHANGED nodeRed => UNCHANGED Proved!vars
  BY DEF nodeRed, Proved!vars, Proved!outside, Proved!data, Proved!seen
<1>2. UNCHANGED all => UNCHANGED nodeRed
  BY DEF all
<1> QED
  BY <1>1, <1>2, SameNext DEF BridgesNext

LEMMA NodeRedInvariant == BridgesSpec => []Proved!WholeInv
<1>1. BridgesInit => Proved!WholeInv
  BY SameAssumption, SameInit, Proved!WholeInit DEF BridgesInit
<1>2. Proved!WholeInv /\ [BridgesNext]_all => Proved!WholeInv'
  BY SameAssumption, SameStep, Proved!WholeStep
<1> QED
  BY <1>1, <1>2, PTL DEF BridgesSpec

LEMMA NodeRedTypeOK == Proved!WholeInv => NodeRed!TypeOK
<1>1. Proved!WholeInv => Proved!TypeOK
  BY Proved!WholeTypes
<1>2. Proved!TypeOK => NodeRed!TypeOK
  BY DEF NodeRed!Server, Proved!Server, NodeRed!NoServer, Proved!NoServer, NodeRed!Flows,
     Proved!Flows, NodeRed!TypeOK, Proved!TypeOK
<1> QED
  BY <1>1, <1>2

LEMMA NodeRedJobs == Proved!WholeInv /\ [BridgesNext]_all =>
                       [\A op \in Op : nrJobs[op] = "running" /\ nrJobs'[op] = "completed"
                          => NodeRed!Fulfilled(op)]_NodeRed!vars
<1>1. Proved!WholeInv /\ [BridgesNext]_all =>
        \A op \in Op : nrJobs[op] = "running" /\ nrJobs'[op] = "completed" => Proved!Fulfilled(op)
  BY SameAssumption, SameStep, Proved!WholeTruth
<1>2. \A op \in Op : Proved!Fulfilled(op) => NodeRed!Fulfilled(op)
  BY DEF NodeRed!NoRecord, Proved!NoRecord, NodeRed!Fulfilled, Proved!Fulfilled
<1> QED
  BY <1>1, <1>2
----------------------------------------------------------------------------
(* The licence plate gate *)

LEMMA GateAssumption == Gates!PlateAssumption
  BY BridgesAssumption
     DEF Plates!Verdict, Gates!Verdict, Plates!Operation, Gates!Operation,
        Plates!PlateAssumption, Gates!PlateAssumption

LEMMA GateInit == Plates!Init => Gates!Init
  BY DEF Plates!Operation, Gates!Operation, Plates!Task, Gates!Task, Plates!Never,
     Gates!Never, Plates!Nothing, Gates!Nothing, Plates!Unset, Gates!Unset, Plates!Init,
     Gates!Init

LEMMA GateNext == Plates!Next => Gates!Next
  BY DEF Plates!Operation, Gates!Operation, Plates!Task, Gates!Task, Plates!Never,
     Gates!Never, Plates!camera, Gates!camera, Plates!memory, Gates!memory, Plates!locals,
     Gates!locals, Plates!bounds, Gates!bounds, Plates!vars, Gates!vars, Plates!Value,
     Gates!Value, Plates!Merge, Gates!Merge, Plates!Differences, Gates!Differences,
     Plates!Removals, Gates!Removals, Plates!Changed, Gates!Changed, Plates!Holds,
     Gates!Holds, Plates!Nothing, Gates!Nothing, Plates!SetList, Gates!SetList,
     Plates!SetCamera, Gates!SetCamera, Plates!Waits, Gates!Waits, Plates!Overlaps,
     Gates!Overlaps, Plates!Spend, Gates!Spend, Plates!Unanswered, Gates!Unanswered,
     Plates!Written, Gates!Written, Plates!Save, Gates!Save, Plates!Recent, Gates!Recent,
     Plates!Remembered, Gates!Remembered, Plates!Recognised, Gates!Recognised,
     Plates!Repeated, Gates!Repeated, Plates!HubOpens, Gates!HubOpens, Plates!Decide,
     Gates!Decide, Plates!Opened, Gates!Opened, Plates!Reported, Gates!Reported,
     Plates!Visit, Gates!Visit, Plates!SwitchGate, Gates!SwitchGate, Plates!SwitchedGate,
     Gates!SwitchedGate, Plates!Switched, Gates!Switched, Plates!Apply, Gates!Apply,
     Plates!Requests, Gates!Requests, Plates!Withdrawn, Gates!Withdrawn, Plates!SyncLater,
     Gates!SyncLater, Plates!SyncStarts, Gates!SyncStarts, Plates!SyncSaved,
     Gates!SyncSaved, Plates!SyncReads, Gates!SyncReads, Plates!SyncCompares,
     Gates!SyncCompares, Plates!SyncApplies, Gates!SyncApplies, Plates!SyncEnds,
     Gates!SyncEnds, Plates!SaveList, Gates!SaveList, Plates!ListSaved, Gates!ListSaved,
     Plates!Setup, Gates!Setup, Plates!SetupLogin, Gates!SetupLogin, Plates!SetupGate,
     Gates!SetupGate, Plates!SetupEnds, Gates!SetupEnds, Plates!SetupRows, Gates!SetupRows,
     Plates!SetupGoesOn, Gates!SetupGoesOn, Plates!Tick, Gates!Tick, Plates!Stop,
     Gates!Stop, Plates!Next, Gates!Next

(* A step of the composition is a step of the gate or leaves it alone. *)
LEMMA GateStep == [BridgesNext]_all => [Gates!Next]_Gates!vars
<1>1. UNCHANGED plates => UNCHANGED Gates!vars
  BY DEF plates, Gates!vars, Gates!camera, Gates!memory, Gates!locals, Gates!bounds
<1>2. UNCHANGED all => UNCHANGED plates
  BY DEF all
<1> QED
  BY <1>1, <1>2, GateNext DEF BridgesNext

LEMMA GateInvariant == BridgesSpec => []Gates!WholeInv
<1>1. BridgesInit => Gates!WholeInv
  BY GateAssumption, GateInit, Gates!WholeInit DEF BridgesInit
<1>2. Gates!WholeInv /\ [BridgesNext]_all => Gates!WholeInv'
  BY GateAssumption, GateStep, Gates!WholeStep
<1> QED
  BY <1>1, <1>2, PTL DEF BridgesSpec

LEMMA GateTypeOK == Gates!WholeInv => Plates!TypeOK
<1>1. Gates!WholeInv => Gates!TypeOK
  BY GateAssumption, Gates!TypesHold DEF Gates!WholeInv
<1>2. Gates!TypeOK => Plates!TypeOK
  BY DEF Plates!Verdict, Gates!Verdict, Plates!Operation, Gates!Operation, Plates!Task,
     Gates!Task, Plates!Never, Gates!Never, Plates!Settings, Gates!Settings, Plates!Holds,
     Gates!Holds, Plates!TypeOK, Gates!TypeOK, Plates!Range, Gates!Range,
     Plates!IsInjective, Gates!IsInjective
<1> QED
  BY <1>1, <1>2
----------------------------------------------------------------------------
(* The theorems *)

(* The composition's variables keep their types, whichever part it follows  *)
(* (BridgesTypeOK).                                                         *)
THEOREM BridgesTypes == BridgesSpec => []BridgesTypeOK
<1> DEFINE Followed == followed \in {"frigate", "node-red", "plates"}
<1>1. BridgesInit => Followed
  BY DEF BridgesInit
<1>2. Followed /\ [BridgesNext]_all => Followed'
  BY DEF BridgesNext, all
<1>3. Followed /\ Cameras!WholeInv /\ Proved!WholeInv /\ Gates!WholeInv => BridgesTypeOK
  <2>1. Cameras!WholeInv => TypeOK
    BY CameraTypeOK
  <2>2. Proved!WholeInv => NodeRed!TypeOK
    BY NodeRedTypeOK
  <2>3. Gates!WholeInv => Plates!TypeOK
    BY GateTypeOK
  <2> QED
    BY <2>1, <2>2, <2>3 DEF BridgesTypeOK
<1> QED
  BY <1>1, <1>2, <1>3, CameraInvariant, NodeRedInvariant, GateInvariant, PTL DEF BridgesSpec

(* Every camera of Frigate's file finds the restreams it reads, however old *)
(* the answers are that the jobs act on (ReadStreamsExist).                 *)
THEOREM StreamsSafe == BridgesSpec => []ReadStreamsExist
<1>1. Cameras!WholeInv => Cameras!ReadStreamsExist
  BY CameraAssumption, Cameras!WorkingReads DEF Cameras!WholeInv, Cameras!IInv
<1>2. Cameras!ReadStreamsExist => ReadStreamsExist
  BY DEF Key, Cameras!Key, Stream, Cameras!Stream, Streams, Cameras!Streams,
     ReadStreamsExist, Cameras!ReadStreamsExist
<1> QED
  BY <1>1, <1>2, CameraInvariant, PTL

(* What is left of an addition in Frigate is of the job that runs, of one   *)
(* that got no answer when it created something (lost), of one whose        *)
(* undoing or removal met a failure or a stop (spoilt), or of one that was  *)
(* told what the file was before a write (stale): HalfAddedIsExplained.     *)
THEOREM LeftoversSafe == BridgesSpec => []HalfAddedIsExplained
<1>1. Cameras!WholeInv => Cameras!HalfAddedIsExplained
  BY DEF Cameras!WholeInv, Cameras!LeftInv, Cameras!HalfInv, Cameras!HalfAddedIsExplained,
         Cameras!Explained, Cameras!Mine
<1>2. Cameras!HalfAddedIsExplained => HalfAddedIsExplained
  BY DEF Key, Cameras!Key, Stream, Cameras!Stream, Piece, Cameras!Piece, NoCamera,
     Cameras!NoCamera, Has, Cameras!Has, Streams, Cameras!Streams, There, Cameras!There,
     Leftover, Cameras!Leftover, HalfAddedIsExplained, Cameras!HalfAddedIsExplained
<1> QED
  BY <1>1, <1>2, CameraInvariant, PTL

(* A camera that records is not taken from a running Frigate unless a call  *)
(* failed (DrainedBeforeRemoval).                                           *)
THEOREM DrainingSafe == BridgesSpec => DrainedBeforeRemoval
<1>1. Cameras!WholeInv /\ [BridgesNext]_all =>
        [\A k \in Cameras!Key : "record" \in running[k] /\ running'[k] = {}
           /\ k # Cameras!Placeholder => faults' > 0]_Cameras!vars
  BY CameraAssumption, CameraStep, Cameras!Drained DEF Cameras!WholeInv
<1>2. [\A k \in Cameras!Key : "record" \in running[k] /\ running'[k] = {}
         /\ k # Cameras!Placeholder => faults' > 0]_Cameras!vars
      => [\A k \in Key : "record" \in running[k] /\ running'[k] = {} /\ k # Placeholder
            => faults' > 0]_vars
  BY DEF Key, Cameras!Key, Placeholder, Cameras!Placeholder, frigate, Cameras!frigate, data,
     Cameras!data, seen, Cameras!seen, vars, Cameras!vars
<1> QED
  BY <1>1, <1>2, CameraInvariant, PTL DEF BridgesSpec, DrainedBeforeRemoval

(* A job that is reported completed has done what it was asked, for cameras *)
(* and for Node-RED alike (JobsTellTheTruth).                               *)
THEOREM JobsTrue == BridgesSpec => JobsTellTheTruth
<1>1. BridgesSpec => CompletedIsTrue
  BY CameraJobs, CameraInvariant, PTL DEF BridgesSpec, CompletedIsTrue
<1>2. BridgesSpec => NodeRed!CompletedIsTrue
  BY NodeRedJobs, NodeRedInvariant, PTL DEF BridgesSpec, NodeRed!CompletedIsTrue
<1> QED
  BY <1>1, <1>2 DEF JobsTellTheTruth

(* What the user of Node-RED builds is never written over, whatever else    *)
(* runs: flows that were read before an edit meet another revision          *)
(* (UserNodesKept).                                                         *)
THEOREM UserNodesSafe == BridgesSpec => []UserNodesKept
<1>1. Proved!WholeInv => UserNodesKept
  BY DEF Proved!WholeInv, Proved!IInv, UserNodesKept, Proved!UserNodesKept, NodeRed!UserNodesKept,
         NodeRed!Server, Proved!Server
<1> QED
  BY <1>1, NodeRedInvariant, PTL

(* Installed flows can be found again to be removed: they are on record but *)
(* where a failure or a stop came between (InstalledIsListed).              *)
THEOREM InstalledSafe == BridgesSpec => []InstalledIsListed
<1>1. Proved!WholeInv => InstalledIsListed
  BY DEF Proved!WholeInv, Proved!IInv, Proved!ListedInv, Proved!Recorded, Proved!Recording,
         Proved!At, Proved!Job, Proved!NoRecord, Proved!Server, InstalledIsListed,
         NodeRed!InstalledIsListed, NodeRed!At, NodeRed!Job, NodeRed!NoRecord, NodeRed!Server
<1> QED
  BY <1>1, NodeRedInvariant, PTL

(* Node-RED keeps no configuration node of a gateway's earlier deployment,  *)
(* but where a failure or a stop came between (NoStaleConfig).              *)
THEOREM StaleSafe == BridgesSpec => []NoStaleConfig
<1>1. Proved!WholeInv => Proved!NoStaleConfig
  BY SameAssumption, Proved!StaleImplies DEF Proved!WholeInv
<1>2. Proved!NoStaleConfig => NoStaleConfig
  BY DEF NoStaleConfig,
     NodeRed!Server, Proved!Server, NodeRed!ConfigsOf, Proved!ConfigsOf,
        NodeRed!NoStaleConfig, Proved!NoStaleConfig
<1> QED
  BY <1>1, <1>2, NodeRedInvariant, PTL

(* The hub opens a gate again for a plate only once the window of repeats   *)
(* has passed since it last began to, until Home Assistant starts again     *)
(* (PulsesApart).                                                           *)
THEOREM OpeningsApart == BridgesSpec => PulsesApart
<1>1. Gates!WholeInv /\ [BridgesNext]_all =>
        [\A p \in Plate : (pulsed[p] # Gates!Never /\ pulsed'[p] \notin {pulsed[p], Gates!Never})
           => pulsed'[p] - pulsed[p] >= REPEAT_SECONDS]_Gates!vars
  BY GateAssumption, GateStep, Gates!OpensApart DEF Gates!WholeInv
<1>2. [\A p \in Plate : (pulsed[p] # Gates!Never /\ pulsed'[p] \notin {pulsed[p], Gates!Never})
         => pulsed'[p] - pulsed[p] >= REPEAT_SECONDS]_Gates!vars
      => [\A p \in Plate : (pulsed[p] # Plates!Never /\ pulsed'[p] \notin {pulsed[p], Plates!Never})
            => pulsed'[p] - pulsed[p] >= REPEAT_SECONDS]_Plates!vars
  BY DEF Plates!Never, Gates!Never, Plates!camera, Gates!camera, Plates!memory,
     Gates!memory, Plates!locals, Gates!locals, Plates!bounds, Gates!bounds, Plates!vars,
     Gates!vars
<1> QED
  BY <1>1, <1>2, GateInvariant, PTL DEF BridgesSpec, PulsesApart, Plates!PulsesApart

(* With no operation of the gate under way the camera does what the platform*)
(* shows, but where operations overlapped, were cut off or an answer to the *)
(* switch was lost (SettledIsTrue).                                         *)
THEOREM SettledSafe == BridgesSpec => []SettledIsTrue
<1>1. Gates!WholeInv => Gates!SettledIsTrue
  BY Gates!Settled DEF Gates!WholeInv
<1>2. Gates!SettledIsTrue => SettledIsTrue
  BY DEF SettledIsTrue,
     Plates!Operation, Gates!Operation, Plates!Value, Gates!Value, Plates!SettledIsTrue,
        Gates!SettledIsTrue
<1> QED
  BY <1>1, <1>2, GateInvariant, PTL
=============================================================================
