# A verification of the REXLiTE integration

TLA+ models of `rexlite-home-assistant`, a Home Assistant custom integration
(`src/custom_components/rexlite/`), checked with TLC on small instances and
proved with TLAPS for every instance. `PROJECT.json` maps every definition to
the lines it models and lists the runs, the mutants that show that each property
can fail, the findings, the hazards and the theorems.

## The system

Everything runs in Home Assistant's one event loop; blocking work goes to a
thread pool (`async_add_executor_job`). So between two `await`s nothing else of
the integration runs, and at every `await` anything else may.

| Part | State it keeps | Operations | What is hard |
|---|---|---|---|
| KNX deployment, `knx_project_deployment.py` | five files under `.rexlite_knx`, the activation file (`configuration.yaml` or a package file), the KNX project store, the entity registry, one `asyncio.Lock` | `process_project`, `deploy`, `recover`, `_rollback`, `status` | crashes and failures between any two writes, the user's edits and choices in between |
| ETS uploads, `knx_project_upload.py` | at most two sessions, a file each in a temporary directory, one thread lock | `request` (start, chunk, seal, discard), `open_sealed`, `consume`, `close` | lost and repeated chunks, failing writes, expiry while a file is read outside the lock |
| Cloud tunnel, `runtime.py`, `coordinator.py`, `switch.py`, `__init__.py` | a supervisor task, the session, handler tasks, the stream table, the access mode | `async_start`, `async_stop`, `async_set_remote_admin`, `_run_forever`, message handlers | tearing a session down while tasks are at every `await`; overlapping toggles; unloading |
| Node-RED bridge, `node_red_bridge.py`, `node_red_client.py` | a stored record, the flows in Node-RED with their revision, one job | load, configure, deploy, remove, heartbeats | flows written before the record; somebody else's revision |
| Frigate bridge, `frigate_bridge.py` | a stored record, the cameras in Frigate, one job, remembered cameras, VIGI logins | add, remove, configure, VIGI setup and control, plate list | half-added cameras, races of setup with the owner |
| Plate gate, `lpr_gate.py` | the plate list, cameras' flags, last decision per camera, a log | `report`, `replace`, `set_camera`, `log_manual` | repeated reports during a slow opening |
| VIGI cameras, `vigi_web.py`, `vigi_openapi.py`, `vigi_setup.py` | access tokens | login, list and rule synchronisation | expiring tokens, merging lists |
| Network traffic, `network_traffic.py`, `network_traffic_api.py`, `deco_traffic.py` | previous counters, subscriptions | `sample`, subscribe | wrapping and resetting counters |
| RS-485, `rs485_protocol.py` | a TCP stream | Modbus scan, blinds, locks | late and foreign frames |
| Discovery, probes, HACS, config flow, entities, diagnostics | none or little | | see `PROJECT.json` |

How they interact: an administrator's browser uploads an ETS file in chunks
(`project_upload`), checks its password, imports it (`process_project` consumes
the upload, saves the parsed project in the KNX store and binds it to the file's
fingerprint) and deploys it. `async_setup` schedules `recover` for after the
start. All these commands may arrive locally or through the tunnel, whose
sessions come and go under them. `deploy` plans with `knx_project_mapper.py` and keeps what
earlier deployments, the installer and the user have decided. The bridges use the
same event loop but share no state with these parts and none with each other,
except that the VIGI commands of the Frigate bridge write the plate gate's data
and that the removal of a camera forgets its.

What makes each part correct:

- **Deployment** is atomic across failures and restarts; a request after a
  failure starts from a settled state; the user's files and registry choices
  are not overwritten; disabled entities stay on record; the lock is released.
- **Uploads** are bounded; an acknowledged byte is stored; a sealed file is the
  announced one and stays so for whoever reads it.
- **Tunnel**: one session's tasks never meet the next session; the stored option
  decides the access mode; an unloaded client is silent; Home Assistant's work
  is not cut off by a teardown.
- **Node-RED**: everything installed is on record or removed; others' flows are
  kept. **Frigate**: a camera is either working and remembered, or taken out.
  **Plate gate**: one opening for one vehicle; a switched-off gate stays closed;
  the owner's list is not reverted.
- **Mapper and plans**: nothing is planned that the project does not prove; what
  people approved or own comes first; an entity keeps its identity, and with it
  its name, room and automations.

## The modules

Order of work: deployment (the part that can break an installation), uploads and
tunnel came first, with their proofs; then the two bridges and the plate gate,
the mapper, and the plans made from it; then the theorems about all of these, so that
every safety property that a passing run checks is also proved. What is left, in this order: a power failure that brings the
journal back as a variant of `Crash`, a module for the sampler of network traffic, and
one for the HACS binding.

| Module | What it is |
|---|---|
| `AtomicDeployment` | abstract specification: a deployment starts, and settles on its project or the previous one |
| `KnxDeployment` | the journaled deployment; implements `AtomicDeployment` |
| `ProjectUploads` | the staging of uploads |
| `TunnelClient` | one client of the cloud tunnel |
| `FrigateBridge` | the camera jobs of the Frigate bridge |
| `NodeRedBridge` | the deployments of the Node-RED bridge |
| `PlateGate` | the plate gate and the VIGI commands that use it |
| `Bridges` | the three together |
| `KnxPlanner` | the mapper, a function from a project to entities |
| `KnxPlans` | the plans that follow one another in an installation |
| `MC…` | values for the constants of each |
| `KnxDeployment_proofs`, `ProjectUploads_proofs`, `TunnelClient_proofs`, `FrigateBridge_proofs`, `NodeRedBridge_proofs`, `PlateGate_proofs`, `KnxPlans_proofs` | theorems about each |
| `Bridges_proofs` | the theorems about the two bridges and the gate, for the composition that the runs check |

Definitions named in a comment beginning with "Mutant:" are faulty variants of
the definition that follows them; no specification uses them.

### KnxDeployment

`gen`, `root`, `manifest`, `journal`, `last` and `assoc` are files (`GENERATED`,
the activation file, `MANIFEST`, `JOURNAL`, `LAST_ATTEMPT`,
`IMPORT_ASSOCIATION`); `store`, `registry` and `runtime` are Home Assistant's
project store, the disabler of each entity, and what KNX has loaded. `pc` is the
step that the lock's holder takes next, `"idle"` when the lock is free; the
other locals of `deploy` are `mode`, `want`, `prev`, `mem` (the journal in
memory) and `retired`. Each `await` of `deploy` and `_rollback` that changes or
reads shared state is one action; the reading of a file and its replacement are
two (`CheckGen`, `WriteGen`). `SafeFiles.write` replaces a file atomically, so a
write is one step that happens or does not.

A plan is a value. `Project` stands for all a plan is made from (project file,
mapper revision, selected scenes, manual rows); `EntitiesOf` and `AddressOf` say
which entities it has and what they share, which is all that `Retirements` and
`Restorations` look at. The activation file is its text, a number that every
edit changes, and whether it includes the package. `Edit` is any package that no
deployment wrote.

`Crash` is possible in every state; it loses the locals, loads what is on disk
and schedules recovery. `TransactionFails` and `RollbackFails` stand for
anything that raises. `User` actions happen at any time, during every step.
`exposed` and `reenabled` only observe. `OwnFile` is the form of the installation: the
activation file is one of a directory of packages, and among the files of every
transaction, or it is `configuration.yaml`, which changes only if the include is missing.

Left out: `check_only`, `status` and `capabilities` (they change nothing),
identity modes, deletion of managed files by the user, cancellation of a request
(`CancelledError` is no `Exception`, so it leaves like a stop, but without a
restart: the journal stays for the next request), and a lost `unlink` of the
journal in a power failure.

### ProjectUploads

A request is one action, for it runs under the thread lock; the import
(`Consume`, `CheckHash`, `Parse`, `CheckHash`, `EndConsume`) and a password
check (`OpenSealed`, `CloseReader`) work outside it. Files are inodes with a few
positions, so that a reader keeps its inode when the name is gone (`Freed`), and
a chunk may overlap, repeat or precede another. `Leave` is the part that every
action shares: the sessions in `gone` are removed with their files. A
fingerprint is the content it belongs to; two different files do not share one.
`Tick` ages the sessions up to the time to live.

`ChunkFails` is the failing write: any prefix of the piece may have reached the
file, and the offset may or may not have been advanced, since a piece smaller
than the stream's buffer is written when the file is closed. Left out: failing
`unlink` and `chmod`, which leave a file without a session.

### TunnelClient

`main` is the supervisor (`_run_forever` and `_run_once`), `ws` the number of
the current session, `toggle` the holder of the access-mode lock and `waiting`
its queue, `unload` the progress of `async_stop`. `phase[r]` is where the task
of a request is: `connecting`, `awaiting` Home Assistant's answer, `answering`
the gateway, `copying` a body, `closing` the local connection, or `detached`.
`streams` is the stream table, `cancelled` the handlers that have been cancelled
and not yet ended, `local` the connections to Home Assistant.

Everything between two `await`s is one action. `StopSession` is the synchronous
part of `_async_stop_session`: it cancels the handlers and the supervisor, and a
supervisor that was in the middle of a teardown ends at once, since a second
cancellation interrupts the `gather` in its `finally`. A message that the
receiver handles between that cancellation and its own end is not distinguished
from one that came just before it. `SessionLost` covers the receiver's end and a
failed heartbeat.

Left out: sizes and contents, the limits on streams and simultaneous exchanges
(a refusal may happen at any time), `stream_data` that succeeds, request
identifiers used twice, and the next client: a reload of the entry is `Unload`
followed by a new `Init`.

### FrigateBridge

`active` is the job that runs, with the `await` it is at (`at`) and its locals;
`jobs` is `self.jobs`, `list`, `managed` and `known` are the stored data (`jobs`,
`managed`, `credentials`) in memory, `store` what was saved last. Outside are
Frigate's `file`, the answer that nginx repeats for five seconds (`cached`), what
the `running` Frigate does for each camera and the streams of go2rtc (`live`);
`Poll` is the platform's `status()`, which fills the cache. A camera is reduced to
where its streams come from and the two settings that a job may change, a name to
a number.

`BeginAdd` to `RememberAdded` are `_add`, `ReadBefore` to `WaitBackWithout` are
`_take_out` and `_drain` (used by a removal and by the undoing of an addition),
`BeginRemove`, `RememberRemoved` and `ForgetManaged` the rest of `_remove`, and
`BeginConfigure` to `ReadSettings` are `_configure`. Every call has three ends:
answered, refused, and applied although the answer is lost. `Load` is the reading
of the store: requests that arrive before it is done each replace the data, as in
the code. `author`, `shown`, `lost`, `spoilt` and `stale` only observe: who created what
(a restream, or the camera in the file: a `Piece` each, since two jobs may have made
them), which cameras delivered frames, which additions got no answer to a call that
created something, which undoings and removals met a failure, a lost answer or a stop,
and which jobs were told by an old answer that a camera is not there, or that a name is
free that has since been taken.

The module's description promises that a half-added camera never lingers
(`frigate_bridge.py:6-8`). Taken as it is written, with the only exception that the
undoing itself met a failure, this is `HalfAddedNeverLingers`, and it is violated
(`frigate_half_added`), in two ways. If the last `config_set` of an addition is applied
although its answer is lost, `_add` removes the restreams from go2rtc and nothing from
the file, where the camera stays. And an undoing that reads the file through the cache
may be told that the camera is not there. `HalfAddedIsExplained` says what does hold:
what is left of an addition has one of three named reasons, `lost`, `spoilt` or
`stale`, and an addition without them leaves nothing, however it ends. What such an
addition left can be removed later: a removal that completes has taken the camera out
with the restreams that an addition wrote under its name (`JobsTellTheTruth`), unless
that addition took the name by an old answer.

One more behaviour follows from the calls as they are and breaks no property,
because no document promises more: if the restart that switches recording on fails, a
second request finds recording on in the file, applies it live, and Frigate records
nothing until it is restarted.

Left out: that `_drain` also disables the camera while it is drained (`enabled`, which
its removal from the file ends), and that a removal makes the plate gate forget the
camera (the two modules follow separate behaviours in `Bridges`).

### NodeRedBridge

`flows[s]` is what a server has: the user's nodes, a tab for each gateway with the
job that deployed it, and configuration nodes; a revision is a hash of the flows,
so a job that writes compares what it read (`active.read`) with what is there.
`Connect` chooses the server, `Modules`, `BrokerSettings`, `GetFlows`, `SetFlows`,
`Record`, `Subscribe` and `WaitHealth` are the deployment up to the next `await`
each, and a removal shares them up to `ClearRetained`. `Configure` changes the
server between and during jobs. `retained` is a bridge's last heartbeat; `Noticed`
is what `_wait_health` makes of one. `Edit` and `DeleteTab` are the user of
Node-RED at work. `mine`, `alive` and `loose` observe: the user's nodes as the user
left them, the deployments that reported their gateway, and installations whose
job failed or was cut off at the record, or that are on another server than the
record's owner last used.

`loose` names what `InstalledIsListed` does not promise. A record does not say
which server it is about, so flows on a server that is no longer the configured
one are forgotten with it; a job that stops between the writing of the flows and
the saving of the record leaves flows that a second deployment or nobody removes.
A first save that fails leaves the job `running` in memory for good, since nothing
guards it (`SaveStarted`): requests with the same identifier then do nothing.

Left out of `MergeFlows`: nodes that the user put on a bridge's own tab (they go with
it), a node of the user's that has the identifier of a new one (identifiers are
hashes of the gateway's), and the node of the MQTT broker that all bridges share and
each deployment writes again. `UserNodesKept` is about the user's other tabs.

### PlateGate

`line` is `PlateGate.lock`, its holder first, then its waiters in order; `web` the
lock of a camera's web session; `at[t]` the `await` that a task is at. Tasks are
webhook reports and four operations: the one-tap setup (`vigi_setup`), the switch
of automatic opening (`vigi_control`), a list saved (`lpr_list_save`), and the copy
of the list to the camera in the background (`_sync_plates`), which a later save
cancels. `copy` and `rule` are in the camera, and outlive a stop.

`SettledIsTrue` does not speak of operations that overlapped a setup (`overlap`),
because the setup reads the list and the switch, asks the camera, and writes what
it read: a list saved in between is overwritten or not copied, and a switch is
undone on one of the two sides. Nor does it promise that only one of the hub and
the camera opens: a second setup whose call fails sets `cameraGate` to false while
the camera's rule may still be on. `PulsesApart` measures from the beginning of an
opening, as the code does: an opening that takes as long as `REPEAT_SECONDS` lets
a queued repeat open again as soon as it ends.

### Bridges

The composition of the three. They share nothing that one could see of another, so
a behaviour follows one of them (`followed`) and the state space is a sum, not a
product; the others rest in one initial state. `Bridges` states the properties of
the three under the names that the runs use.

### KnxPlanner

`PlanProject` is `plan_project`: `Load` is what ETS says of each group address,
`FunctionGroups`, `ClimateGroups`, `AbbreviatedGroups`, `SceneMetadata`,
`NamedGroups` and `Fallback` are the passes in the code's order, each over the
addresses that the ones before it left, and `Accepted` drops what touches a blocked
address or is claimed twice. The planner's state is a record of the code's
dictionaries (`dpts`, `blocked`, `used`, `reserved`, `candidates`).

A name is what the patterns see in it, a role is the YAML field it fills, and the
datapoint types are those that a pass tells apart, one for each kind of measurement.
Left out: the patterns themselves, the names and categories of entities, the
reasons given for addresses that are left over (but for conflicting types, which
decide whether a feedback can be read), datapoint types that cannot be read at all, the
limit on the number of entities, and the roles `angle` and `operation_mode` of ETS
functions.

The loops over name prefixes are taken at once (`Settle` for all the groups of a pass,
`NamedGroups` for all the names): the groups are made before the loop, and no two share an
address, so that what the code does for one is the same whatever it did for others. ETS
functions do depend on their order, and `FunctionGroups` goes through them by a recursive
function. The words of the dialects have underscores for hyphens, since they are field names.

`NothingIsGuessed` allows an address in two entities only where ETS functions or
scene numbers say so. The claims at the end compare primary addresses: two
functions that use each other's command as a second address are both accepted.

### KnxPlans

What `deploy` plans, over the life of an installation: `imported` projects follow
one another, the `core` (Home Assistant's way of identifying a row) is upgraded or
rolled back, `revision` is the mapper's, `hand` and `ui` are the user's own rows
and interface entities, `package` and `manifest` what the last deployment wrote,
`checked` the last preflight of a manual plan. A deployment is one step here, since
`KnxDeployment` shows that it happens or does not. `Deploy` composes, in the
code's order, the choice of the identity mode, `adapt_plan_identity`, scene
selection, `preserve_manual_plan`, `filter_existing` and `indexed_rows`; `AddManual` is the
path of `manual_yaml_plan` and `append_manual_plan`; `ImportProject` has the guards of
`_validate_import_identity`. A row's identity is computed as Home Assistant would
(`RowIdentity`); how it writes addresses there is external, taken from
`row_identity`.

`ApprovalsHold` says what people can rely on, which is less than that approved rows
are always there. An approved row that a row of the user's displaced returns only
when the mapper plans again: a manual plan in between adds to the package as it
stands, and `taken` notes what was the user's at the last planning. And an approved
scene may share its address with an automatic row until then, because
`append_manual_plan` does not compare the addresses of scenes.

Some refusals are final, and the model shows them without a property against them:
manual rows refuse every later project, since they are bound to the project they were approved for;
and after an upgrade from an identity with two-level addresses the identities on
record are no longer those of the rows (`Noted`), so that manual plans fail with
`deployment_failed` from then on.

## What is checked

| Run | Result | Shows |
|---|---|---|
| `knx_deployment` | passes, 455,842 states | atomicity, consistency at rest, edits and choices survive, recovery, the lock is released |
| `knx_edited_package` | violated | an edit after the digest check is taken for the package and overwritten |
| `knx_reenabled` | violated | a rollback disables an entity that the user enabled meanwhile |
| `project_uploads` | passes, 68,796 states (with symmetry) | bounded, faithful, undisturbed staging |
| `upload_retry` | violated | a failed last chunk cannot be sent again |
| `tunnel_client` | passes, 547,879 states | clean sessions, access mode, silence after unloading, liveness |
| `tunnel_reply` | violated | a `stream_close` of an old session goes out on the new one |
| `tunnel_give_up` | violated | a `stream_close` that comes too early is lost |
| `bridges` | passes, 1,414,263 states | nothing half done is left unexplained, nobody's work is lost, jobs report the truth, one opening for one vehicle |
| `frigate_half_added` | violated | an addition whose last write is applied but not answered leaves its camera |
| `plate_comes_back` | violated | a second setup brings a removed plate back |
| `knx_plans` | passes, 60,755 states | plans guess nothing, approvals hold, identities are kept |

The violated properties state what a comment or a document says; `findings` in
`PROJECT.json` quotes it. They are kept as runs so that a repair shows.
`tunnel_give_up` was also reproduced with the classes of
`tests/test_runtime.py`: closing the stream before its connection is open lets
Home Assistant receive, run and answer the request.

**Bounds.** Deployment: two projects that share one entity and replace another
by the same group address, three requests (install, replace, and one more after
a failure), one stop, one failure, one intervention. One of each is enough for
every pair of them to meet in every order, and three requests for an entity to
be retired, wanted again and retired again; the passing run activates in
`configuration.yaml`, `knx_reenabled` in a file of its own. Uploads: three keys for a capacity
of two, so that one must wait or replace; two owners; files of one and two
positions, so that a chunk may be the whole, a half, or too long; three inodes,
so that a reader may hold a third one; the time to live is zero, so that one
`Tick` makes a session old; one failing write. Tunnel: a stream and an exchange,
which meet all teardowns together; three sessions (before, between and after two
restarts); three toggles, so that a toggle may overtake a queued one.
Bridges: two jobs, since one runs at a time and the second meets all that the
first left; one job kept in the store, so that the second pushes the first out;
Frigate as it is installed (a sample camera) and with two cameras of which one
reads the other's stream; four names, so that the ones that are taken leave a
choice; one failing call and one stop in Frigate, two surprises in Node-RED (a
failure, a stop, an edit or a new endpoint), because an attempt after a conflict
meets a second one; two configuration nodes, so that a deployment changes its own.
Plates: one on the camera's list, one on the platform's; the four budgets are the
meetings that can go wrong (switch and reports, setup and saves, two setups and a
save, setup, switch and report); repeats count for 2 units of a clock of 3, where
the code has 8 seconds, so that a repeat may come within, at and after the limit.
Plans: all projects of three addresses with shapes out of 18, alone and with three
lists of functions (6,000 of them: three addresses are a command, its feedback and
something that competes with either), each imported and deployed; and eleven longer
histories of a home: nine of six steps over two projects and up to three versions of
Home Assistant, one of eight steps in which an approved row gives way to the
user's, who removes it again, and one of seven in which the user's rows have identities
of their own, one of them that of an approved row. Where the proofs reach, the bounds do not matter.

Deadlock is not checked: the bounds let every instance stop.

**Fairness.** Deployment: the operation that holds the lock goes on
(`WF` of all its steps together), because the event loop runs what is ready and
each of its waits has a timeout; `Recover` is strongly fair because
`asyncio.Lock` serves its waiters in order. Nothing is assumed of the user or of
failures. Tunnel: a cancelled task ends, a detached one and a closing connection
have timeouts (5 s and 60 s), and the holder of the lock goes on; nothing is
assumed of the gateway, of Home Assistant's answers or of the supervisor's luck.
The bridges and the plans have safety properties only, and no fairness.

## What is proved

Assumed are only the `ASSUME`s of each module: types of the constants and that
the null values are none of the others. The theorems hold for any number of
projects, entities, keys, requests, sessions, crashes and faults.

**KnxDeployment.** `TypeOK`, `ConsistentAtRest`, `NoDanglingInclude`,
`OnlyRecordedDisablers`, `EditsSurvive`, `DeployedIsStored`, `UserDisablingSurvives` and the
refinement `Spec => Atomic!Spec`. None of them is inductive. The inductive
invariant adds, for every value of `pc`,

- `FileInv`: which of its two images each file holds. While a journal is pending,
  the package is one of its two images or edited, the manifest is the old one or
  the one being written, and what `mem` holds is the journal on disk; without
  one, the manifest is a finished deployment. This gives `ConsistentAtRest` and,
  with the order of the writes (package before include; include removed before
  the package), `NoDanglingInclude`.
- `DisablerInv`: an entity disabled by the integration is on the retired list of
  the manifest, or of the journal's previous manifest, or among the changes of
  the journal that a rollback undoes.
- `EditInv`: an edit can only be in the place of an image if it is `exposed`, and after
  the last look at the project store only an exposed import can have changed it.

Every step of the program keeps the invariant; the steps of the user change
files and the registry only in ways the invariant allows. The refinement follows
step by step: writing the journal is `Begin`, clearing it is `Settle`, an edit
at rest is `EditByHand`, and all other steps stutter.

**ProjectUploads.** `TypeOK`, `Bounded`, `SealedHasFingerprint`,
`AcknowledgedIsStored`, `ReaderUndisturbed`, `ImportUndisturbed` and
`ParsedIsRequested`. The invariant says that a key has a file exactly if it has a
session, that no two keys share an inode, that the offset bounds what was
acknowledged, that a sealed session is complete, and that the reader and the
import see a file that no other session can write. `Leave` is proved once to
keep it when sessions are removed; each action then only has to show what it
changes.

**TunnelClient.** `TypeOK`, `GateFollowsOption`, `DisabledServesNothing`,
`UnloadedStaysSilent`, `SupervisorLives`, `OwnSessionOnly`, `LocalWorkGoesOn` and
`ReauthOncePerSession`. The invariant ties the requests to the supervisor: with
no session open the handlers left are the cancelled ones, and requests exist
only while a session is open, is being closed, or is being stopped
(`SessionInv`); the last toggle in the queue is the stored option (`QueueInv`);
the supervisor and the session it opens follow the gate outside a restart
(`ModeInv`). `CloseAll` shows that streams closed after the handlers have ended
cut off nothing, which is why the order of the two in the teardown matters.

**NodeRedBridge.** `TypeOK`, `UserNodesKept`, `InstalledIsListed` and `CompletedIsTrue`,
which the runs check too, and `NoStaleConfig`, which is only proved, under `NodeRedAssumption`,
which says that configuration nodes of different gateways are different: their
identifiers are derived from the gateway's. The revision keeps the user's nodes: what is
written is what was read, and only if that is still there. Around it the invariant says
that a job that runs has its data loaded and, from the connection on, its server
(`JobInv`); that what is installed is in the record in memory and in the saved one, each
of which may be the only one left after a stop or a failed save (`ListedInv`); that a
server has of a gateway exactly what the saved record says, or what the job that has just
written it is about to record (`StaleInv`, whose exception is `loose`); that a heartbeat
on the broker is of a deployment that was alive (`HeardInv`); and that a job past its
record finds it saved (`EndingInv`). A job completes in two steps and nowhere else
(`CompletesOnly`), which together give `CompletedIsTrue`.

**FrigateBridge.** All of its safety properties: `TypeOK`, `ReadStreamsExist`,
`HalfAddedIsExplained`, `CompletedIsTrue` and `DrainedBeforeRemoval`, under
`FrigateAssumption`: at first every camera finds the restreams it reads, shows live only
streams of its own or that it reads, and has an input (`Works`). The second of these
restricts what users may have set up themselves; the proof needs it, no run has shown
that the code does. The third holds of every camera Frigate loads, the sample included.

- `IInv`: a job decides on an answer that nginx may have kept, and writes to the file as
  it is now, so the invariant says what the file can have become of every answer that is
  kept (`Became`): a camera reads what it read or its own streams, and a new stream comes
  with its camera. With that, a name that an answer shows free is free in the file
  (`Free`, `StillFree`), no other camera reads what a removal takes along (`RemoveInv`),
  and what a job knows when it writes a camera out is either the file itself or lacks
  every stream that the camera reads (`OutInv`). It gives `ReadStreamsExist`.
- `HistoryInv` bounds the stored lists, which are sequences that a load, a start and a
  save each rebuild; `WorldInv` says that a camera does something only when Frigate
  loaded it.
- `DrainInv`: as long as no call failed, a camera that the file lacks does not record,
  and no cached answer has it but while Frigate restarts without it (`Between`). It is
  why `_drain` reads the file once more, and gives `DrainedBeforeRemoval`.
- `PromiseInv`: what a job has done at every `await` of what it will report: the camera
  it added is loaded from the restart on (`AddedInv`), the one it took out is out
  (`RemovedInv`), and the settings it has not yet to write are in the file (`SetInv`).
- `LeftInv`: what of an addition is there without having delivered frames is its job's
  that may still undo it (`Mine`), or explained (`HalfInv`); what only go2rtc has is about
  to be cleared (`LiveInv`); a cached answer that lacks a camera of the file lacks only
  explained pieces, or those the running job has just written (`CopyInv`); nobody but
  its own camera reads a restream that an addition made (`ReaderInv`); and an addition
  knows whether its camera is in the file, unless it is explained (`NewInv`).
- `GoneInv`: what a removal takes along `Covers` all restreams that additions wrote under
  the camera's name, for every answer that shows the camera shows them with it
  (`CacheInv`), and an addition that has yet to write has a name that no answer shows
  taken (`NameInv`). It gives the part of `CompletedIsTrue` about leftovers.

**PlateGate.** All of its safety properties but the violated one: `TypeOK`, `PulsesApart` and
`SettledIsTrue`, under `PlateAssumption`. `DataInv` and `LockInv` are types, stages and the
two locks: `line` holds each waiting task once and in order, only its head writes or
opens, and who is on the camera's page holds `web`, a setup from its login to its end.
`PulseInv` is what the repeats rest on: while the window since an opening lasts, the plate
is remembered, or the report that opened still has the lock, so that another report
of the plate waits until it is remembered. `TruthInv` says, for each operation at each of
its stages, which of the list, the switch and the camera it has already made agree, until an
operation overlaps a setup. The gate's lock alone would not do: a setup reads under no
lock and writes under two, and what it read stays true because whoever changed it would
have overlapped.

**Bridges.** The runs check the composition, so `Bridges_proofs` states each of these for
`BridgesSpec`: `BridgesTypeOK`, `ReadStreamsExist`, `HalfAddedIsExplained`,
`DrainedBeforeRemoval`, `UserNodesKept`, `InstalledIsListed`, `NoStaleConfig`, `JobsTellTheTruth`,
`PulsesApart` and `SettledIsTrue`. Every step of the composition is a step of one part or
leaves its variables alone, so that each part's invariant holds whichever one a behaviour
follows.

**KnxPlans.** `PlansTypeOK`, `NothingIsGuessed`, `ApprovalsHold` and `IdentityKept`, and
one thing that no run states, `PlanIsIndexed`. The assumptions: `PlanOf` is what the mapper
makes of each project; the functions of a project are a sequence, and 0, which an identity
has for an address that is not there, is none of its addresses (`ProjectsAssumption`); and
`HistoriesAssumption`: manual rows
name at least one address and no identity of their own, as `manual_yaml_plan` requires.
`PlansTypeOK` is three invariants: what the record says of its own kind (`RecordTypes`),
what the user has and the preflight noted of it (`PeopleInv`), and what the record notes
of both (`RecordedInv`).
`ApprovalsHold` is inductive: a deployment keeps the rows that were approved and tests
all it plans against what the user has now (`TakenIsAll`), and a manual plan is added to
rows it was tested against. The other two need what the record says of its rows
(`RecordInv`): its mode and its format belong together, rows have identities of their own
exactly in the mode that gives them (`IdentifiedAs` says which), and a row of the mapper
is never one that was approved and had to give way. These three are about the rows of any
planner.

`NothingIsGuessed` is about the mapper, and the proof goes through the passes in the code's
order. `Sound` is what each of them keeps: a candidate's addresses are used, two candidates
are `Apart`, and each is on one channel and has the types that the project proves. That holds
of all candidates, those included that `result` drops in the end. What a pass may rely on
changes on the way:

- `SettledTypes`, before the dialects: an address that is not blocked has one type. ETS
  functions keep it, by induction over their sequence (`FunctionsSound`).
- `Half`, through the dialects: or it is a feedback of mixed one-bit types that a dialect has
  read. `DialectSound` rests on the groups of one pass sharing no address and on two
  commands of a group having different channels (`JoinedApart`): what was joined to one is
  on its channel, so nothing can be joined to both.
- `Known`, after them: an address that is free and not blocked has one type. It holds because
  what a dialect reads is used in the end, which is not obvious: the climate dialect unblocks
  a feedback whose air-conditioner may then turn out to lack its temperatures and become no
  entity. `BothDialects` shows that the abbreviated dialect then finds the same command with
  the same feedback again and makes an entity of them, or blocks the feedback (`StillOnly`).
  Without it a feedback of an unclear type could become a sensor of its own in `fallback`.

`PlanIsIndexed` (`PlansAreIndexed`) joins the mapper to the deployment: `indexed_rows`, which
fails a deployment of two rows with one identity, never does so for the mapper's own rows,
whichever way Home Assistant identifies them. The mapper compares primary addresses, and
`row_identity` other fields, so this needs to know which fields an entity of each platform
has (`Shaped`): with one identity two entities have one claim (`SameClaim`), and `result`
has dropped those that differ. One pair escapes the claims, two air-conditioners without a
command for their setpoint; they would share an address, and are apart by `Sound`. That
`result` compares is needed: without it two ETS functions on one command give one identity
twice.

**What the proofs found.** Four attempts failed because the model or the property said
something else than was meant. The mapper's choices of a platform were `CASE`s whose guards
overlap, of which TLA+ takes any and only TLC the first; they are `IF`s in the code's order
now. The sample camera once had no input in the model, and an addition that replaced it could
complete without being loaded; Frigate's sample has one.
The leavings of an addition were attributed to the job that made the restream, but a
second job may write the camera over the restreams of a first one, and may choose its
name by an old answer: `author` now speaks of pieces, and `stale` of such a choice.
And `IdentityKept` held only for the histories of the run. Identities do change in two
ways that it now names: a project of another id renames the rows that it gives
(`OfOneProject`), and after going back to a version of Home Assistant that writes addresses
as the project does, the rows on record are no longer identified as recorded
(`AsOnRecord`). `docs/KNX_AUTO_DEPLOYMENT.md:32` says that an upload that changes the
address format is rejected; after such a return from a native deployment it is not, if
the upload writes the way the record does.

**Only model-checked.** Liveness (`LockReleased`, `InterruptedSettles`, `OptionApplied`,
`ConnectionsReleased`): the prover has no rule for fairness. And the seven violations.

## Not modelled

- Pure functions on text and bytes: tunnel envelopes and HTTP framing, RS-485
  frames, the patterns of the mapper, flows as JSON, VIGI's encryption.
- Requests that keep nothing between calls: the gateway scan, camera discovery and
  control, device discovery, diagnostics, snapshots and pictures.
- Network traffic: one pure sampler of counters behind a lock.
- HACS binding: one flow through another integration's internals, whose behaviour
  this repository does not show.
- Of the modelled parts, what their sections above leave out.
