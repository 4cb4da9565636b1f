---------------------------- MODULE KnxDeployment ----------------------------
(***************************************************************************)
(* The journaled KNX deployment of knx_project_deployment.py: one deployer *)
(* under one lock imports projects, deploys them, rolls a failed or        *)
(* interrupted deployment back, and recovers at boot, while the user edits *)
(* files and the entity registry and Home Assistant may stop at any point. *)
(*                                                                         *)
(* A "project" stands for a plan: the project file together with the       *)
(* mapper revision and the scene selection that the plan is made from.     *)
(* What a plan maps to which entity is data here (EntitiesOf, AddressOf).  *)
(***************************************************************************)
EXTENDS Naturals

CONSTANTS
  Project, None, Edit,
  Entity,          \* registry identities the projects map to
  EntitiesOf,      \* the entities of a project's plan
  AddressOf,       \* the group addresses an entity uses, as one value
  OwnFile,         \* the activation file is one of a directory of packages
  MaxDeploys,      \* bounds: deployments requested,
  MaxCrashes,      \*   stops of Home Assistant,
  MaxFaults,       \*   failing steps (I/O, reload, timeout, exception),
  MaxDisturbances  \*   edits, registry changes and imports of the user

ASSUME ConstantsAssumption ==
  /\ None \notin Project /\ Edit \notin Project /\ Edit # None
  /\ EntitiesOf \in [Project -> SUBSET Entity] /\ OwnFile \in BOOLEAN
  /\ {MaxDeploys, MaxCrashes, MaxFaults, MaxDisturbances} \subseteq Nat

VARIABLES
  \* files of the managed directory and the activation file
  gen,       \* GENERATED: None, a project's package, or hand-edited
  root,      \* the activation file: the user's text and whether it includes gen
  manifest,  \* MANIFEST: the deployment on record
  journal,   \* JOURNAL: the transaction to undo, if one is pending
  last,      \* LAST_ATTEMPT: the outcome of the last request
  assoc,     \* IMPORT_ASSOCIATION: the project bound to an upload
  \* Home Assistant
  store,     \* the project in the KNX project store
  registry,  \* disabled_by of every entity, "absent" before its first load
  runtime,   \* the project whose entities KNX has loaded
  \* the deployer, lost at a stop
  pc,        \* the step the lock's holder is about to take, "idle" if free
  mode,      \* why the running rollback runs
  want,      \* the requested project
  prev,      \* the manifest read at the start
  mem,       \* the journal in memory
  retired,   \* the retired entities that the new manifest will list
  recoverDue,\* boot recovery is scheduled and has not run
  \* observation only
  exposed,   \* what changed between a check and the write it guards
  reenabled, \* entities the user enabled since the transaction began
  \* bounds
  deploys, crashes, faults, disturbances

diskVars == <<gen, root, manifest, journal, last, assoc>>
haVars == <<store, registry, runtime>>
localVars == <<mode, want, prev, mem, retired, recoverDue>>
ghostVars == <<exposed, reenabled>>
countVars == <<deploys, crashes, faults, disturbances>>
vars == <<diskVars, haVars, pc, localVars, ghostVars, countVars>>

----------------------------------------------------------------------------
(* States and types *)

Texts == 0 .. MaxDisturbances
Roots == [text : Texts, active : BOOLEAN]
Disabled == {"absent", "enabled", "integration", "user"}

Manifests == [project : Project \cup {None}, done : BOOLEAN, retired : SUBSET Entity]
NoManifest == [project |-> None, done |-> FALSE, retired |-> {}]

(* before images of the two files, whether the activation file changes, and *)
(* the registry changes of the transaction.                                 *)
Journals == [project : Project \cup {None}, prev : Manifests,
             gen : Project \cup {None, Edit}, root : Roots, activates : BOOLEAN,
             restore : SUBSET Entity, retire : SUBSET Entity]
NoJournal == [project |-> None, prev |-> NoManifest, gen |-> None,
              root |-> [text |-> 0, active |-> FALSE], activates |-> FALSE,
              restore |-> {}, retire |-> {}]

Pending == journal.project # None

ImportSteps == {"import_save", "import_bind"}
Preflight == {"read_previous", "check_project", "plan"}
Transaction == {"write_journal", "write_manifest", "check_gen", "write_gen",
                "check_root", "write_root", "validate", "reload", "wait", "verify",
                "journal_retired", "retire", "commit", "note_success", "clear"}
Rollback == {"rb_root", "rb_gen", "rb_manifest", "rb_registry", "rb_reload", "rb_clear"}
Steps == {"idle", "note_failure"} \cup ImportSteps \cup Preflight \cup Transaction
           \cup Rollback

Init ==
  /\ gen = None /\ root = [text |-> 0, active |-> FALSE]
  /\ manifest = NoManifest /\ journal = NoJournal
  /\ last = [project |-> None, result |-> "none"]
  /\ assoc = None /\ store = None /\ runtime = None
  /\ registry = [e \in Entity |-> "absent"]
  /\ pc = "idle" /\ mode = "none" /\ want = None
  /\ prev = NoManifest /\ mem = NoJournal /\ retired = {}
  /\ recoverDue = FALSE /\ exposed = {} /\ reenabled = {}
  /\ deploys = 0 /\ crashes = 0 /\ faults = 0 /\ disturbances = 0

----------------------------------------------------------------------------
(* Reading the configuration *)

Entities(p) == IF p = None THEN {} ELSE EntitiesOf[p]

(* The managed rows Home Assistant gets when it resolves its YAML. *)
Effective == IF root.active /\ gen # Edit THEN gen ELSE None

(* The registry after KNX loaded project p: new entities get an entry. *)
RegistryLoading(p) ==
  [e \in Entity |-> IF registry[e] = "absent" /\ e \in Entities(p)
                    THEN "enabled" ELSE registry[e]]

(* _counts: every entity of p is loaded. *)
AllLoaded(p) == runtime = p /\ \A e \in Entities(p) : registry[e] = "enabled"

(* _read_previous raises unless the managed package is the manifest's. *)
PreviousReadable == gen = manifest.project

(* _verify_configuration of a manifest of p. *)
ConfigurationVerified(p) == gen = p /\ Effective = p /\ runtime = p

----------------------------------------------------------------------------
(* Leaving an operation: the lock is released and its locals are gone. *)

(* Mutant: the journal in memory survives the operation. *)
IdleKeepingJournal ==
  /\ pc' = "idle" /\ mode' = "none" /\ want' = None
  /\ prev' = NoManifest /\ retired' = {} /\ UNCHANGED mem

Idle ==
  /\ pc' = "idle" /\ mode' = "none" /\ want' = None
  /\ prev' = NoManifest /\ mem' = NoJournal /\ retired' = {}

KeepLocals == UNCHANGED <<mode, want, prev, mem, retired, recoverDue>>

Goto(step) == pc' = step /\ KeepLocals

(* process_project: check, save to the KNX store, load, bind to the upload. *)

StartImport(p) ==
  /\ pc = "idle" /\ PreviousReadable
  /\ <<assoc, store>> # <<p, p>>
  /\ pc' = "import_save" /\ want' = p
  /\ UNCHANGED <<diskVars, haVars, ghostVars, countVars, mode, prev, mem, retired, recoverDue>>

ImportSave ==
  /\ pc = "import_save"
  /\ store' = want
  /\ Goto("import_bind")
  /\ UNCHANGED <<diskVars, registry, runtime, ghostVars, countVars>>

ImportBind ==
  /\ pc = "import_bind"
  /\ assoc' = IF store = want THEN want ELSE assoc
  /\ Idle
  /\ UNCHANGED <<gen, root, manifest, journal, last, haVars, recoverDue, ghostVars, countVars>>

----------------------------------------------------------------------------
(* deploy *)

(* Mutant: a request does not look for the journal of an interrupted one. *)
StartDeployIgnoringJournal(p) ==
  /\ pc = "idle" /\ deploys < MaxDeploys
  /\ deploys' = deploys + 1
  /\ want' = p /\ pc' = "read_previous"
  /\ UNCHANGED <<diskVars, haVars, ghostVars, mode, mem, prev, retired, recoverDue,
                 crashes, faults, disturbances>>

StartDeploy(p) ==
  /\ pc = "idle" /\ deploys < MaxDeploys
  /\ deploys' = deploys + 1
  /\ want' = p
  /\ IF Pending
       THEN pc' = "rb_root" /\ mode' = "pending" /\ mem' = journal
       ELSE pc' = "read_previous" /\ UNCHANGED <<mode, mem>>
  /\ UNCHANGED <<diskVars, haVars, ghostVars, prev, retired, recoverDue,
                 crashes, faults, disturbances>>

PreflightFails ==
  /\ pc' = "note_failure"
  /\ KeepLocals
  /\ UNCHANGED <<diskVars, haVars, ghostVars, countVars>>

ReadPrevious ==
  /\ pc = "read_previous"
  /\ \/ /\ PreviousReadable
        /\ prev' = manifest
        /\ pc' = "check_project"
        /\ exposed' = {}
        /\ UNCHANGED <<diskVars, haVars, reenabled, countVars, mode, want, mem, retired,
                       recoverDue>>
     \/ ~PreviousReadable /\ PreflightFails

(* The request must name the upload the KNX project was imported from; an *)
(* unchanged and verified deployment is only reported again.              *)
CheckProject ==
  /\ pc = "check_project"
  /\ \/ ~(assoc = want /\ store = want) /\ PreflightFails
     \/ /\ assoc = want /\ store = want
        /\ prev.project = want /\ ConfigurationVerified(want) /\ AllLoaded(want)
        /\ last' = [project |-> want, result |-> "completed"]
        /\ Idle
        /\ UNCHANGED <<gen, root, manifest, journal, assoc, haVars, recoverDue, ghostVars,
                       countVars>>
     \/ /\ assoc = want /\ store = want
        /\ ~(prev.project = want /\ ConfigurationVerified(want) /\ AllLoaded(want))
        /\ Goto("plan")
        /\ UNCHANGED <<diskVars, haVars, ghostVars, countVars>>

(* Nothing could be mapped: the active deployment stays as it is. *)
NeedsReview ==
  /\ pc = "plan"
  /\ last' = [project |-> want, result |-> "needs_review"]
  /\ Idle
  /\ UNCHANGED <<gen, root, manifest, journal, assoc, haVars, recoverDue, ghostVars, countVars>>

(* A configuration conflict or a plan the KNX schema refuses. *)
PlanRejected == pc = "plan" /\ PreflightFails

(* _registry_restorations: retired earlier, wanted again, still ours. *)
Restorations(p) ==
  {e \in prev.retired \cap Entities(p) : registry[e] = "integration"}

(* The before images and the registry changes are collected; the activation *)
(* file is among them when it does not include the package yet, and where   *)
(* it is a file of its own always.                                          *)
Prepare ==
  /\ pc = "plan"
  /\ mem' = [project |-> want, prev |-> prev, gen |-> gen, root |-> root,
             activates |-> OwnFile \/ ~root.active, restore |-> Restorations(want), retire |-> {}]
  /\ pc' = "write_journal"
  /\ reenabled' = {}
  /\ UNCHANGED <<diskVars, haVars, exposed, countVars, mode, want, prev, retired, recoverDue>>

WriteJournal ==
  /\ pc \in {"write_journal", "journal_retired"}
  /\ journal' = mem
  /\ Goto(IF pc = "write_journal" THEN "write_manifest" ELSE "retire")
  /\ UNCHANGED <<gen, root, manifest, last, assoc, haVars, ghostVars, countVars>>

WriteManifest ==
  /\ pc = "write_manifest"
  /\ manifest' = [project |-> want, done |-> FALSE, retired |-> {}]
  /\ Goto("check_gen")
  /\ UNCHANGED <<gen, root, journal, last, assoc, haVars, ghostVars, countVars>>

StartRollback(why) ==
  /\ pc' = "rb_root" /\ mode' = why
  /\ UNCHANGED <<diskVars, haVars, ghostVars, countVars, want, prev, mem, retired, recoverDue>>

(* Mutant: the package is not compared with its before image. *)
CheckGenBlindly ==
  /\ pc = "check_gen" /\ Goto("write_gen")
  /\ UNCHANGED <<diskVars, haVars, ghostVars, countVars>>

(* Every file is compared with its before image and then replaced. *)
CheckGen ==
  /\ pc = "check_gen"
  /\ \/ /\ gen = mem.gen /\ Goto("write_gen")
        /\ UNCHANGED <<diskVars, haVars, ghostVars, countVars>>
     \/ gen # mem.gen /\ StartRollback("failed")

WriteGen ==
  /\ pc = "write_gen"
  /\ gen' = want
  /\ Goto(IF mem.activates THEN "check_root" ELSE "validate")
  /\ UNCHANGED <<root, manifest, journal, last, assoc, haVars, ghostVars, countVars>>

CheckRoot ==
  /\ pc = "check_root"
  /\ \/ /\ root = mem.root /\ Goto("write_root")
        /\ UNCHANGED <<diskVars, haVars, ghostVars, countVars>>
     \/ root # mem.root /\ StartRollback("failed")

AfterRoot(j) == [j.root EXCEPT !.active = TRUE]

WriteRoot ==
  /\ pc = "write_root"
  /\ root' = AfterRoot(mem)
  /\ Goto("validate")
  /\ UNCHANGED <<gen, manifest, journal, last, assoc, haVars, ghostVars, countVars>>

(* Mutant: an entity is set whatever its disabler is. *)
SwappedBlindly(reg, es, before, after) ==
  [e \in Entity |-> IF e \in es THEN after ELSE reg[e]]

(* _registry_change: compare and swap our own disabler only. *)
Swapped(reg, es, before, after) ==
  [e \in Entity |-> IF e \in es /\ reg[e] \in {before, after} THEN after ELSE reg[e]]

(* The resolved configuration must hold the plan; then the entities it *)
(* brings back are enabled again.                                      *)
Validate ==
  /\ pc = "validate"
  /\ \/ /\ Effective = want
        /\ registry' = Swapped(registry, mem.restore, "integration", "enabled")
        /\ Goto("reload")
        /\ UNCHANGED <<diskVars, store, runtime, ghostVars, countVars>>
     \/ Effective # want /\ StartRollback("failed")

Reload ==
  /\ pc = "reload"
  /\ runtime' = Effective
  /\ registry' = RegistryLoading(Effective)
  /\ Goto("wait")
  /\ UNCHANGED <<diskVars, store, ghostVars, countVars>>

(* Mutant: the wait has no timeout. *)
WaitLoadedForever ==
  /\ pc = "wait" /\ AllLoaded(want) /\ Goto("verify")
  /\ UNCHANGED <<diskVars, haVars, ghostVars, countVars>>

(* Up to 20 s for all entities to load. *)
WaitLoaded ==
  /\ pc = "wait"
  /\ \/ /\ AllLoaded(want) /\ Goto("verify")
        /\ UNCHANGED <<diskVars, haVars, ghostVars, countVars>>
     \/ ~AllLoaded(want) /\ StartRollback("failed")

(* _registry_retirements: entities of the replaced deployment whose group *)
(* addresses a new entity took over.                                      *)
Retirements(p) ==
  {e \in Entities(prev.project) \ Entities(p) :
     /\ registry[e] = "enabled"
     /\ \E new \in Entities(p) : AddressOf[new] = AddressOf[e]}

(* Mutant: the retirements are not added to the journal. *)
VerifyUnjournaled ==
  /\ pc = "verify"
  /\ ConfigurationVerified(want) /\ store = want
  /\ mem' = [mem EXCEPT !.retire = Retirements(want)]
  /\ pc' = "retire"
  /\ UNCHANGED <<diskVars, haVars, ghostVars, countVars, mode, want, prev, retired,
                 recoverDue>>

(* Mutant: the project is not looked at again after the reload. *)
VerifyOldProject ==
  /\ pc = "verify"
  /\ \/ /\ ConfigurationVerified(want)
        /\ mem' = [mem EXCEPT !.retire = Retirements(want)]
        /\ pc' = IF Retirements(want) = {} THEN "retire" ELSE "journal_retired"
        /\ UNCHANGED <<diskVars, haVars, ghostVars, countVars, mode, want, prev, retired,
                       recoverDue>>
     \/ ~ConfigurationVerified(want) /\ StartRollback("failed")

Verify ==
  /\ pc = "verify"
  /\ \/ /\ ConfigurationVerified(want) /\ store = want
        /\ mem' = [mem EXCEPT !.retire = Retirements(want)]
        /\ pc' = IF Retirements(want) = {} THEN "retire" ELSE "journal_retired"
        /\ UNCHANGED <<diskVars, haVars, ghostVars, countVars, mode, want, prev, retired,
                       recoverDue>>
     \/ ~(ConfigurationVerified(want) /\ store = want) /\ StartRollback("failed")

Retire ==
  /\ pc = "retire"
  /\ LET ours == {e \in mem.retire : registry[e] \in {"enabled", "integration"}}
     IN /\ registry' = Swapped(registry, ours, "enabled", "integration")
        /\ retired' = (prev.retired \ Entities(want)) \cup ours
  /\ pc' = "commit"
  /\ UNCHANGED <<diskVars, store, runtime, ghostVars, countVars, mode, want, prev, mem,
                 recoverDue>>

Commit ==
  /\ pc = "commit"
  /\ manifest' = [project |-> want, done |-> TRUE, retired |-> retired]
  /\ Goto("note_success")
  /\ UNCHANGED <<gen, root, journal, last, assoc, haVars, ghostVars, countVars>>

NoteSuccess ==
  /\ pc = "note_success"
  /\ last' = [project |-> want, result |-> "completed"]
  /\ Goto("clear")
  /\ UNCHANGED <<gen, root, manifest, journal, assoc, haVars, ghostVars, countVars>>

ClearJournal ==
  /\ pc = "clear"
  /\ journal' = NoJournal
  /\ Idle
  /\ UNCHANGED <<gen, root, manifest, last, assoc, haVars, recoverDue, ghostVars, countVars>>

(* Any step of the transaction may raise; a reload may also return False or *)
(* time out, which leaves KNX without a configuration.                      *)
TransactionFails ==
  /\ pc \in Transaction /\ faults < MaxFaults
  /\ faults' = faults + 1
  /\ runtime' = IF pc = "reload" THEN None ELSE runtime
  /\ pc' = "rb_root" /\ mode' = "failed"
  /\ UNCHANGED <<diskVars, store, registry, ghostVars, deploys, crashes, disturbances,
                 want, prev, mem, retired, recoverDue>>

NoteFailure ==
  /\ pc = "note_failure"
  /\ last' = [project |-> want, result |-> "failed"]
  /\ Idle
  /\ UNCHANGED <<gen, root, manifest, journal, assoc, haVars, recoverDue, ghostVars, countVars>>

----------------------------------------------------------------------------
(* _rollback: the files in reverse order, each only if it still is what the *)
(* transaction left; then the manifest, the registry and KNX.  A rollback   *)
(* that cannot go on leaves the journal for the next request or boot.       *)

AbandonRollback ==
  /\ IF mode = "recover" THEN Idle ELSE pc' = "note_failure" /\ UNCHANGED <<mode, want, prev,
                                                                            mem, retired>>
  /\ UNCHANGED recoverDue

(* Mutant: the activation file is not rolled back. *)
RollbackRootForgotten ==
  /\ pc = "rb_root" /\ Goto("rb_gen")
  /\ UNCHANGED <<diskVars, haVars, ghostVars, countVars>>

RollbackRoot ==
  /\ pc = "rb_root"
  /\ \/ /\ mem.activates /\ root \notin {mem.root, AfterRoot(mem)}
        /\ AbandonRollback
        /\ UNCHANGED root
     \/ /\ mem.activates => root \in {mem.root, AfterRoot(mem)}
        /\ root' = IF mem.activates THEN mem.root ELSE root
        /\ Goto("rb_gen")
  /\ UNCHANGED <<gen, manifest, journal, last, assoc, haVars, ghostVars, countVars>>

RollbackGen ==
  /\ pc = "rb_gen"
  /\ \/ gen \notin {mem.gen, mem.project} /\ AbandonRollback /\ UNCHANGED gen
     \/ gen \in {mem.gen, mem.project} /\ gen' = mem.gen /\ Goto("rb_manifest")
  /\ UNCHANGED <<root, manifest, journal, last, assoc, haVars, ghostVars, countVars>>

(* Mutant: the manifest of the failed deployment stays on record. *)
RollbackManifestForgotten ==
  /\ pc = "rb_manifest" /\ Goto("rb_registry")
  /\ UNCHANGED <<diskVars, haVars, ghostVars, countVars>>

RollbackManifest ==
  /\ pc = "rb_manifest"
  /\ manifest' = mem.prev
  /\ Goto("rb_registry")
  /\ UNCHANGED <<gen, root, journal, last, assoc, haVars, ghostVars, countVars>>

RollbackRegistry ==
  /\ pc = "rb_registry"
  /\ LET undone == Swapped(registry, mem.retire, "integration", "enabled")
     IN registry' = Swapped(undone, mem.restore, "enabled", "integration")
  /\ Goto("rb_reload")
  /\ UNCHANGED <<diskVars, store, runtime, ghostVars, countVars>>

RollbackReload ==
  /\ pc = "rb_reload"
  /\ runtime' = Effective
  /\ registry' = RegistryLoading(Effective)
  /\ Goto("rb_clear")
  /\ UNCHANGED <<diskVars, store, ghostVars, countVars>>

RollbackClear ==
  /\ pc = "rb_clear"
  /\ journal' = NoJournal
  /\ \/ mode = "recover" /\ Idle
     \/ mode = "failed" /\ pc' = "note_failure" /\ UNCHANGED <<mode, want, prev, mem, retired>>
     \/ /\ mode = "pending" /\ pc' = "read_previous" /\ mode' = "none" /\ mem' = NoJournal
        /\ UNCHANGED <<want, prev, retired>>
  /\ UNCHANGED <<gen, root, manifest, last, assoc, haVars, recoverDue, ghostVars, countVars>>

RollbackFails ==
  /\ pc \in Rollback /\ faults < MaxFaults
  /\ faults' = faults + 1
  /\ runtime' = IF pc = "rb_reload" THEN None ELSE runtime
  /\ AbandonRollback
  /\ UNCHANGED <<diskVars, store, registry, ghostVars, deploys, crashes, disturbances>>

----------------------------------------------------------------------------
(* Home Assistant stops, starts with what is on disk and, once started,    *)
(* recovers (async_setup schedules recover).                               *)

Crash ==
  /\ crashes < MaxCrashes
  /\ crashes' = crashes + 1
  /\ runtime' = Effective
  /\ registry' = RegistryLoading(Effective)
  /\ recoverDue' = TRUE
  /\ Idle
  /\ UNCHANGED <<diskVars, store, ghostVars, deploys, faults, disturbances>>

(* Mutant: recovery does not look for a journal. *)
RecoverNothing ==
  /\ pc = "idle" /\ recoverDue
  /\ recoverDue' = FALSE
  /\ UNCHANGED <<diskVars, haVars, ghostVars, countVars, pc, mode, mem, want, prev, retired>>

Recover ==
  /\ pc = "idle" /\ recoverDue
  /\ recoverDue' = FALSE
  /\ IF Pending
       THEN pc' = "rb_root" /\ mode' = "recover" /\ mem' = journal
       ELSE UNCHANGED <<pc, mode, mem>>
  /\ UNCHANGED <<diskVars, haVars, ghostVars, countVars, want, prev, retired>>

----------------------------------------------------------------------------
(* The user, at any time. *)

Disturb == disturbances < MaxDisturbances /\ disturbances' = disturbances + 1

(* Changes that fall between a check and the write it guards. *)
Exposing(thing) ==
  LET unguarded == CASE thing = "gen" -> {"check_project", "plan", "write_gen"}
                     [] thing = "root" -> {"write_root"}
                     [] thing = "store" -> {"journal_retired", "retire", "commit"}
  IN exposed' = IF pc \in unguarded THEN exposed \cup {thing} ELSE exposed

EditGen ==
  /\ Disturb /\ gen # None
  /\ gen' = Edit
  /\ Exposing("gen")
  /\ UNCHANGED <<root, manifest, journal, last, assoc, haVars, pc, localVars, reenabled,
                 deploys, crashes, faults>>

(* A new text, which may also drop the include. *)
EditRoot ==
  /\ Disturb
  /\ \E keep \in BOOLEAN :
       root' = [text |-> disturbances + 1, active |-> root.active /\ keep]
  /\ Exposing("root")
  /\ UNCHANGED <<gen, manifest, journal, last, assoc, haVars, pc, localVars, reenabled,
                 deploys, crashes, faults>>

UserDisables(e) ==
  /\ Disturb /\ registry[e] \in {"enabled", "integration"}
  /\ registry' = [registry EXCEPT ![e] = "user"]
  /\ reenabled' = reenabled \ {e}
  /\ UNCHANGED <<diskVars, store, runtime, pc, localVars, exposed, deploys, crashes, faults>>

UserEnables(e) ==
  /\ Disturb /\ registry[e] \in {"user", "integration"}
  /\ registry' = [registry EXCEPT ![e] = "enabled"]
  /\ reenabled' = reenabled \cup {e}
  /\ UNCHANGED <<diskVars, store, runtime, pc, localVars, exposed, deploys, crashes, faults>>

(* A project imported through Home Assistant's own KNX panel. *)
OtherImport(p) ==
  /\ Disturb
  /\ store' = p
  /\ Exposing("store")
  /\ UNCHANGED <<diskVars, registry, runtime, pc, localVars, reenabled, deploys, crashes, faults>>

----------------------------------------------------------------------------
Deployment ==
  \/ ReadPrevious \/ CheckProject \/ NeedsReview \/ PlanRejected \/ Prepare
  \/ WriteJournal \/ WriteManifest \/ CheckGen \/ WriteGen \/ CheckRoot \/ WriteRoot
  \/ Validate \/ Reload \/ WaitLoaded \/ Verify \/ Retire \/ Commit \/ NoteSuccess
  \/ ClearJournal \/ NoteFailure

RollingBack ==
  \/ RollbackRoot \/ RollbackGen \/ RollbackManifest \/ RollbackRegistry
  \/ RollbackReload \/ RollbackClear

Importing == ImportSave \/ ImportBind

User ==
  \/ EditGen \/ EditRoot
  \/ \E e \in Entity : UserDisables(e) \/ UserEnables(e)
  \/ \E p \in Project : OtherImport(p)

Next ==
  \/ \E p \in Project : StartImport(p) \/ StartDeploy(p)
  \/ Importing \/ Deployment \/ RollingBack
  \/ TransactionFails \/ RollbackFails
  \/ Crash \/ Recover
  \/ User

Spec == Init /\ [][Next]_vars

(* The event loop keeps running the operation that holds the lock, whose    *)
(* waits all have a timeout.  Recovery waits for the lock, which wakes its  *)
(* waiters in order: requests that come and go cannot starve it.            *)
FairSpec ==
  /\ Spec
  /\ WF_vars(Importing \/ Deployment \/ RollingBack)
  /\ SF_vars(Recover)
----------------------------------------------------------------------------
(* Properties *)

(* Every variable has its type, and the deployer holds nothing over from *)
(* one request to the next.                                              *)
TypeOK ==
  /\ gen \in Project \cup {None, Edit} /\ root \in Roots
  /\ manifest \in Manifests /\ journal \in Journals
  /\ last \in [project : Project \cup {None},
               result : {"none", "completed", "failed", "needs_review"}]
  /\ assoc \in Project \cup {None} /\ store \in Project \cup {None}
  /\ runtime \in Project \cup {None} /\ registry \in [Entity -> Disabled]
  /\ pc \in Steps /\ mode \in {"none", "failed", "pending", "recover"}
  /\ want \in Project \cup {None} /\ prev \in Manifests /\ mem \in Journals
  /\ retired \subseteq Entity /\ recoverDue \in BOOLEAN
  /\ exposed \subseteq {"gen", "root", "store"} /\ reenabled \subseteq Entity
  /\ deploys \in Nat /\ crashes \in Nat /\ faults \in Nat
  /\ disturbances \in 0 .. MaxDisturbances
  /\ pc = "idle" => want = None /\ mem = NoJournal /\ mode = "none"

(* Without a pending journal the manifest is a finished deployment (or there *)
(* is none) and the managed package is exactly its package, unless somebody  *)
(* edited it: whatever failed, stopped or was rolled back in between, no     *)
(* mixture of an old and a new deployment stays behind.                      *)
ConsistentAtRest ==
  ~Pending => /\ gen \in {manifest.project, Edit}
              /\ manifest.done <=> manifest.project # None

(* The activation file includes the package only while the package exists: a *)
(* stop between two writes never leaves Home Assistant with a configuration  *)
(* that it cannot load.                                                      *)
NoDanglingInclude == root.active => gen # None

(* At rest an entity is disabled by the integration only if the manifest     *)
(* lists it as retired, so a later deployment can enable it again, and no    *)
(* entity of the active deployment is.                                       *)
OnlyRecordedDisablers ==
  ~Pending => \A e \in Entity :
                registry[e] = "integration" =>
                  e \in manifest.retired \ Entities(manifest.project)

(* A step of the program never replaces an edit of the user: neither the    *)
(* hand-edited package nor the text of the activation file, unless the edit *)
(* fell between a check and the write it guards.                            *)
EditsSurvive ==
  [][disturbances' = disturbances =>
       /\ gen = Edit /\ "gen" \notin exposed => gen' = Edit
       /\ "root" \notin exposed => root'.text = root.text]_vars

(* A deployment is never put on record as finished for a project that KNX   *)
(* no longer has: whatever is imported through Home Assistant's own panel   *)
(* since the request, while the plan is made, written, loaded or waited     *)
(* for, it is seen, unless it fell between the last look at the store and   *)
(* the writing of the record.                                               *)
DeployedIsStored ==
  [][manifest' # manifest /\ manifest'.done /\ pc = "commit" =>
       store = manifest'.project \/ "store" \in exposed]_vars

(* An entity that the user disabled is never enabled by a deployment, a     *)
(* rollback or a recovery.                                                  *)
UserDisablingSurvives ==
  [][disturbances' = disturbances =>
       \A e \in Entity : registry[e] = "user" => registry'[e] = "user"]_vars

(* The lock is always released: every request and every recovery ends.      *)
LockReleased == pc # "idle" ~> pc = "idle"

Blocked ==
  \/ gen \notin {journal.gen, journal.project}
  \/ journal.activates /\ root \notin {journal.root, AfterRoot(journal)}

(* A transaction interrupted by a stop is settled after the next start,     *)
(* unless an edit of one of its files blocks that or another step fails.    *)
InterruptedSettles ==
  \A f \in 0 .. MaxFaults :
    Pending /\ recoverDue /\ faults = f ~> ~Pending \/ Blocked \/ faults # f

(* The deployment is atomic for an observer who looks at the manifest, the  *)
(* journal and the package at rest.                                         *)
Atomic == INSTANCE AtomicDeployment WITH
  installed <- IF Pending THEN journal.prev.project ELSE manifest.project,
  target <- journal.project,
  busy <- Pending,
  view <- IF Pending THEN "unsettled" ELSE gen

ImplementsAtomic == Atomic!Spec

(* docs/KNX_AUTO_DEPLOYMENT.md:98-101: modified managed files are rejected. *)
(* A transaction never starts from a hand-edited package.                   *)
ModifiedPackageRejected == journal.gen # Edit

(* The comment of _registry_change: compare-and-swap only our disabler,     *)
(* preserving user registry choices.  Only the retirement of a finished     *)
(* deployment disables an entity that the user enabled meanwhile.           *)
UserEnablingSurvives ==
  [][\A e \in reenabled :
       registry[e] = "enabled" /\ registry'[e] = "integration" => pc = "retire"]_vars
=============================================================================
