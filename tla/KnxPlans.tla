------------------------------- MODULE KnxPlans -------------------------------
(***************************************************************************)
(* What knx_project_deployment.py plans: from one ETS project after        *)
(* another, beside the rows that the user keeps in other files, the        *)
(* entities of the KNX user interface and the rows an installer had        *)
(* approved by hand, over versions of Home Assistant that identify an      *)
(* entity in different ways.                                               *)
(*                                                                         *)
(* How a plan is written, recorded and undone is KnxDeployment's; here a   *)
(* deployment that succeeds is one step and one that is refused is none.   *)
(***************************************************************************)
EXTENDS KnxPlanner

CONSTANTS
  Projects,    \* ETS projects, by name
  PlanOf,      \* what the mapper makes of each
  Histories    \* what may happen: the projects imported in turn and the rest,
               \* with a bound on its steps

(* The functions of a project come in an order, and 0 is no address. *)
ASSUME ProjectsAssumption ==
  \A t \in DOMAIN Projects :
    /\ Projects[t].functions \in Seq(Range(Projects[t].functions))
    /\ 0 \notin DOMAIN Projects[t].groups

ASSUME PlansAssumption == PlanOf = [t \in DOMAIN Projects |-> PlanProject(Projects[t])]

VARIABLES
  history,     \* the history that is being played
  imported,    \* how many of its projects were imported
  core,        \* how the running version of Home Assistant identifies rows
  upgrades,    \* how often that version changed
  revision,    \* MAPPER_REVISION
  hand, ui,    \* the user's own rows, and addresses of entities in the interface
  package,     \* the rows of the generated package
  manifest,    \* the deployment on record
  checked,     \* the last preflight of a manual plan
  changes      \* counts deployments and changes

vars == <<history, imported, core, upgrades, revision, hand, ui, package, manifest, checked, changes>>

(* core_compatibility *)
Modes == {"legacy", "native", "custom"}
NoUid == [by |-> "none", ids |-> <<>>]

NoManifest == [project |-> 0, mode |-> "none", format |-> "none", manual |-> {}, excluded |-> {},
               revision |-> 0, hand |-> {}, ui |-> {}, taken |-> {}]
NotChecked == [yaml |-> {}, project |-> 0, hand |-> {}, ui |-> {}, package |-> {}]

Init ==
  /\ history \in Histories
  /\ imported = 0 /\ core = Head(history.cores) /\ upgrades = 0 /\ revision = 1
  /\ hand = {} /\ ui = {} /\ package = {}
  /\ manifest = NoManifest /\ checked = NotChecked /\ changes = 0

Count == changes < history.steps /\ changes' = changes + 1
Project == Projects[history.projects[imported]]
ProjectId(i) == Projects[history.projects[i]].id

----------------------------------------------------------------------------
(* Identities *)

(* _identity_format: before 2026.8 Home Assistant writes the addresses of an *)
(* identity the way the loaded project does.                                *)
FormatOf(i, mode) ==
  IF mode = "legacy" /\ i > 0 THEN Projects[history.projects[i]].style ELSE "LONG"
Format == FormatOf(imported, core)

(* row_identity, of a row without an identity of its own. *)
At(config, field) == IF field \in DOMAIN config THEN config[field] ELSE 0
Canonical(row) ==
  LET c == row.config IN
  CASE row.platform \in {"light", "switch", "button"} -> <<At(c, "address")>>
    [] row.platform \in {"sensor", "binary_sensor"} -> <<At(c, "state")>>
    [] row.platform = "fan" -> <<First(c, <<"address", "switch">>)>>
    [] row.platform = "cover" -> <<At(c, "move_long"), At(c, "position")>>
    [] row.platform = "climate" -> <<At(c, "temperature"), At(c, "target_state"), At(c, "target")>>
    [] row.platform = "scene" -> <<At(c, "address"), At(c, "scene_number")>>
RowIdentity(row, format) ==
  <<row.platform, IF row.uid = NoUid THEN [by |-> format, ids |-> Canonical(row)] ELSE row.uid>>

(* indexed_rows: two rows of one identity are refused. *)
Indexed(rows, format) == \A r, s \in rows : RowIdentity(r, format) = RowIdentity(s, format) => r = s

(* Mutant: a row keeps the identity it came with. *)
AdaptNothing(rows, mode, format) == {[r EXCEPT !.noted = RowIdentity(r, format)] : r \in rows}

(* adapt_plan_identity: the rows with their entities' identities, noted.  *)
(* Versions before 2026.9 take no identity from a row.                    *)
AdaptPlanIdentity(rows, mode, format) ==
  {LET row == [r EXCEPT !.uid = IF mode = "custom" THEN @ ELSE NoUid]
   IN [row EXCEPT !.noted = RowIdentity(row, format)] : r \in rows}

Row(platform, config, uid) ==
  [platform |-> platform, config |-> config, uid |-> uid, noted |-> <<platform, uid>>]

(* manual_yaml_plan takes rows that name an address and no identity. *)
ASSUME HistoriesAssumption ==
  \A h \in Histories :
    /\ h.projects \in Seq(DOMAIN Projects)
    /\ h.cores \in Seq(Modes) /\ h.cores # <<>> /\ h.steps \in Nat
    /\ \A yaml \in h.yaml : \A r \in yaml :
         r = Row(r.platform, r.config, NoUid) /\ Addresses(r.config) # {}

AutoRows == {Row(e.platform, e.config, e.uid) : e \in PlanOf[history.projects[imported]]}

(* Mutant: the identities follow the version of Home Assistant. *)
ModeOf(previous) == core

(* deploy: a deployment on record keeps the identities it was made with. *)
Mode(previous) ==
  IF previous.mode \in {"native", "legacy"} THEN IF core = "legacy" THEN "legacy" ELSE "native"
  ELSE core
IdentityAllowed(previous) ==
  /\ previous.mode = "custom" => core = "custom"
  /\ previous.mode = "legacy" /\ core = "legacy" => previous.format = Format

----------------------------------------------------------------------------
(* Whose address it is *)

AllAddresses(rows) == UNION {Addresses(r.config) : r \in rows}

SceneKey(row) == <<row.config["address"], row.config["scene_number"]>>
SelectScenes(rows, excluded) == {r \in rows : r.platform = "scene" => SceneKey(r) \notin excluded}

(* append_manual_plan *)
Appendable(base, addition) ==
  \A r \in addition :
    /\ r.noted \notin {b.noted : b \in base}
    /\ r.platform # "scene" => Addresses(r.config) \cap AllAddresses(base) = {}

(* Mutant: approved rows are added to whatever the mapper finds. *)
PreserveNothing(rows, manual) == rows \cup manual

(* preserve_manual_plan: an approved row comes before one of the mapper's. *)
PreserveManual(rows, manual) ==
  LET Scenes(r, m) == r.platform = "scene" /\ m.platform = "scene"
                      /\ r.config["scene_number"] # m.config["scene_number"]
  IN {r \in rows : \A m \in manual :
        /\ r.noted # m.noted
        /\ Addresses(r.config) \cap Addresses(m.config) = {} \/ Scenes(r, m)} \cup manual

(* filter_existing: rows of the user and entities of the interface come *)
(* before either.  A row whose identity is not the one noted for its     *)
(* entity fails the deployment.                                          *)
Owned == {RowIdentity(r, Format) : r \in package}
Taken == ui \cup AllAddresses({h \in hand : RowIdentity(h, Format) \notin Owned})

(* Mutant: entities of the interface are not asked for. *)
FilterRows(rows) == {r \in rows : Addresses(r.config) \cap AllAddresses(hand) = {}}

FilterExisting(rows) == {r \in rows : Addresses(r.config) \cap Taken = {}}
Noted(rows) == \A r \in rows : r.noted = RowIdentity(r, Format)

(* The rows Home Assistant reads: neither a user's row nor a managed one *)
(* may have the identity of another.                                     *)
Separate(rows) ==
  /\ Indexed(hand, Format) /\ Indexed(rows, Format)
  /\ \A h \in hand, r \in rows : RowIdentity(h, Format) # RowIdentity(r, Format)

(* With it is noted what was the user's, now and when the mapper last planned. *)
Write(rows, mode, manual, excluded, rev, taken) ==
  /\ package' = rows
  /\ manifest' = [project |-> imported, mode |-> mode, format |-> Format, manual |-> manual,
                  excluded |-> excluded, revision |-> rev, hand |-> hand, ui |-> ui, taken |-> taken]

----------------------------------------------------------------------------
(* deploy *)

(* Nothing is new and the configuration verifies: the deployment stands. *)
Unchanged(excluded) ==
  /\ manifest.project = imported /\ manifest.revision = revision /\ manifest.excluded = excluded

Deploy(selection, verified) ==
  LET mode == Mode(manifest)
      excluded == IF selection = "kept" THEN manifest.excluded ELSE history.excluded
      adapted == AdaptPlanIdentity(AutoRows, mode, Format)
      automatic == SelectScenes(adapted, excluded)
      planned == IF manifest.manual = {} THEN automatic ELSE PreserveManual(automatic, manifest.manual)
      rows == FilterExisting(planned)
  IN /\ Count /\ imported > 0 /\ IdentityAllowed(manifest)
     /\ ~(verified /\ Unchanged(excluded))
     /\ manifest.manual # {} => manifest.project = imported
     /\ Indexed(adapted, Format) /\ Separate(package)
     /\ rows # {} /\ Noted(rows) /\ Separate(rows)
     /\ Write(rows, mode, manifest.manual, excluded, revision, Taken)
     /\ UNCHANGED <<history, imported, core, upgrades, revision, hand, ui, checked>>

(* The rows an installer wrote: manual_yaml_plan. *)
ManualRows(yaml, mode) ==
  AdaptPlanIdentity({[r EXCEPT !.uid = [by |-> "manual", ids |-> Canonical(r)]] : r \in yaml}, mode, Format)

(* They are added to the rows on record, all of which must still stand. *)
ManualAllowed(yaml) ==
  LET addition == ManualRows(yaml, Mode(manifest))
      rows == package \cup addition
  IN /\ imported > 0 /\ yaml # {} /\ IdentityAllowed(manifest)
     /\ manifest.project \in {0, imported}
     /\ Separate(package) /\ Appendable(package, addition) /\ Appendable(manifest.manual, addition)
     /\ FilterExisting(rows) = rows /\ Noted(rows) /\ Separate(rows)
Snapshot(yaml) ==
  [yaml |-> yaml, project |-> imported, hand |-> hand, ui |-> ui, package |-> package]

CheckManual(yaml) ==
  /\ Count /\ ManualAllowed(yaml) /\ checked' = Snapshot(yaml)
  /\ UNCHANGED <<history, imported, core, upgrades, revision, hand, ui, package, manifest>>

AddManual(yaml) ==
  /\ Count /\ checked = Snapshot(yaml) /\ ManualAllowed(yaml)
  /\ LET addition == ManualRows(yaml, Mode(manifest))
     IN Write(package \cup addition, Mode(manifest), manifest.manual \cup addition,
              manifest.excluded, manifest.revision, manifest.taken)
  /\ UNCHANGED <<history, imported, core, upgrades, revision, hand, ui, checked>>

(* Mutant: a project is taken whatever identities it would change. *)
ImportUnchecked(migrated) == TRUE

(* process_project, with _validate_import_identity: a project that writes *)
(* its addresses in another way would rename what is on record.           *)
ImportAllowed(migrated) ==
  LET style == Projects[history.projects[imported + 1]].style IN
  /\ manifest.mode = "custom" => core = "custom"
  /\ manifest.mode = "native" /\ core = "legacy" => style = "LONG"
  /\ manifest.mode = "legacy" /\ style # manifest.format =>
       core # "legacy" /\ (migrated \/ manifest.format = "LONG")

ImportProject(migrated) ==
  /\ imported < Len(history.projects) /\ ImportAllowed(migrated)
  /\ imported' = imported + 1
  /\ Count
  /\ UNCHANGED <<history, core, upgrades, revision, hand, ui, package, manifest, checked>>

----------------------------------------------------------------------------
(* The user, and new versions *)

EditHand(row) ==
  /\ hand' = IF row \in hand THEN hand \ {row} ELSE hand \cup {row}
  /\ Count /\ UNCHANGED <<history, imported, core, upgrades, revision, ui, package, manifest, checked>>
AddInterface(a) ==
  /\ a \notin ui /\ ui' = ui \cup {a}
  /\ Count /\ UNCHANGED <<history, imported, core, upgrades, revision, hand, package, manifest, checked>>
ChangeCore ==
  /\ upgrades + 1 < Len(history.cores)
  /\ upgrades' = upgrades + 1 /\ core' = history.cores[upgrades + 2]
  /\ Count /\ UNCHANGED <<history, imported, revision, hand, ui, package, manifest, checked>>
NewMapper ==
  /\ revision = 1 /\ revision' = 2
  /\ Count /\ UNCHANGED <<history, imported, core, upgrades, hand, ui, package, manifest, checked>>

Next ==
  \/ \E migrated \in BOOLEAN : ImportProject(migrated)
  \/ \E selection \in {"kept", "chosen"}, verified \in BOOLEAN : Deploy(selection, verified)
  \/ \E yaml \in history.yaml : CheckManual(yaml)
  \/ \E yaml \in history.yaml : AddManual(yaml)
  \/ \E row \in history.hand : EditHand(row)
  \/ \E a \in history.ui : AddInterface(a)
  \/ ChangeCore \/ NewMapper
Spec == Init /\ [][Next]_vars

----------------------------------------------------------------------------
(* Properties *)

(* Types: of what the user has, of what the record and the last preflight   *)
(* say that the user had, and of the record's other fields.  And the rows of *)
(* the package are identified the way the record says, in the kind of        *)
(* identity and in the one noted for each: deployments in any order, of      *)
(* rows and of manual plans, leave no package that is half of one kind       *)
(* (adapt_plan_identity, deploy's choice of the mode).                       *)
PlansTypeOK ==
  /\ imported \in 0 .. Len(history.projects) /\ core \in Modes /\ revision \in 1 .. 2
  /\ hand \subseteq history.hand /\ ui \subseteq history.ui /\ changes \in 0 .. history.steps
  /\ checked.yaml \in history.yaml \cup {{}} /\ checked.project \in 0 .. imported
  /\ checked.hand \subseteq history.hand /\ checked.ui \subseteq history.ui
  /\ manifest.project \in 0 .. imported /\ manifest.revision \in 0 .. revision
  /\ manifest.excluded \in {{}, history.excluded}
  /\ manifest.hand \subseteq history.hand /\ manifest.ui \subseteq history.ui
  /\ package = {} <=> manifest.mode = "none"
  /\ \A r \in package : /\ r.uid = NoUid <=> manifest.mode # "custom"
                        /\ r.noted = RowIdentity(r, manifest.format)

(* A plan only says what the project proves: an address is in two entities *)
(* only if ETS functions say so or they are two scenes; what a dialect      *)
(* joined is all on the one channel of its command; and where the project   *)
(* leaves the type of an address open, it is a scene's or the feedback of   *)
(* mixed one-bit types.                                                     *)
NothingIsGuessed ==
  LET project == Project
      plan == PlanOf[history.projects[imported]]
      Channel(e, f) == Channels(project, e.config[f], f \in States)
  IN imported > 0 =>
       /\ \A e, f \in plan :
            e = f \/ Addresses(e.config) \cap Addresses(f.config) = {}
            \/ (e.source = "function" /\ f.source = "function")
            \/ (e.source = "scene" /\ f.source = "scene" /\ Number(e.config) # Number(f.config))
       /\ \A e \in plan : e.source = "channel" =>
            \A f, g \in DOMAIN e.config : Channel(e, f) = Channel(e, g) /\ Cardinality(Channel(e, f)) = 1
       /\ \A e \in plan : \A a \in Addresses(e.config) :
            \/ Settled(Group(project, a)) \/ e.source = "scene"
            \/ e.source = "channel" /\ DptChoices(Group(project, a)) \subseteq Bits

(* What people decided comes first, through every sequence of uploads, new *)
(* mappers and manual plans: nothing in the package used an address of the  *)
(* user's rows or of the interface when it was written; an approved row is  *)
(* there unless one of those was in its way when the mapper last planned;   *)
(* and no row of the mapper shares an address with an approved one, other   *)
(* than a scene (filter_existing, append_manual_plan, preserve_manual_plan).*)
ApprovalsHold ==
  /\ AllAddresses(package) \cap (manifest.ui \cup AllAddresses(manifest.hand)) = {}
  /\ \A m \in manifest.manual :
       /\ m \in package \/ Addresses(m.config) \cap manifest.taken # {}
       /\ m.platform # "scene" =>
            \A r \in package \ manifest.manual : Addresses(r.config) \cap Addresses(m.config) = {}

(* A row that a step leaves as it is keeps the identity under which Home   *)
(* Assistant registered it, and with it the user's name, room and           *)
(* automations: no upload, deployment or manual plan renames it, whatever   *)
(* versions of Home Assistant came before (deploy, _validate_import_identity). *)
(* Two things rename rows on purpose: a project of another id, which is in  *)
(* the identities of the rows it gives; and going back to a version that    *)
(* writes addresses otherwise than they are on record, from which an upload *)
(* in the recorded style leads back.  A scene that was also approved by     *)
(* hand has two identities.                                                 *)
OfOneProject == manifest.mode = "custom" => ProjectId(manifest.project) = ProjectId(imported)
AsOnRecord == core = "legacy" => Format = manifest.format
IdentityKept ==
  [][core' = core /\ OfOneProject /\ AsOnRecord =>
       \A r \in package, s \in package' :
         LET Same(x) == x.platform = r.platform /\ x.config = r.config IN
         Same(s) /\ (\A x \in package : Same(x) => x = r) /\ (\A x \in package' : Same(x) => x = s) =>
           RowIdentity(r, Format) = RowIdentity(s, Format')]_vars
=============================================================================
