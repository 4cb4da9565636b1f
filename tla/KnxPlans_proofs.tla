---------------------------- MODULE KnxPlans_proofs ----------------------------
(***************************************************************************)
(* Proofs about KnxPlans for any projects, plans, rows and histories.      *)
(* ApprovalsHold is inductive: what a deployment keeps from the one before *)
(* it is only that its package and its approved rows stand apart.          *)
(*                                                                         *)
(* NothingIsGuessed is about the mapper alone.  Each of its passes keeps   *)
(* Sound: candidates use their addresses, stand apart, are each on one     *)
(* channel and have the types that the project proves.  What a pass may    *)
(* rely on changes on the way: SettledTypes before the dialects, Half      *)
(* between them, and Known after both, when the feedbacks whose type a     *)
(* dialect only read are all used.                                         *)
(*                                                                         *)
(* PlanIsIndexed joins the two: the mapper's entities have the fields of   *)
(* their platform (Shaped), with which one identity is one claim.          *)
(***************************************************************************)
EXTENDS KnxPlans, FiniteSetTheorems, WellFoundedInduction, TLAPS

(* Rows that each avoid a set of addresses avoid it together. *)
LEMMA RowsApart ==
  ASSUME NEW rows, NEW S, \A r \in rows : Addresses(r.config) \cap S = {}
  PROVE  AllAddresses(rows) \cap S = {}
  BY DEF AllAddresses

(* Where no row of the user's has the identity of one of the package, every *)
(* address of the user's rows is taken.                                     *)
LEMMA TakenIsAll ==
  ASSUME Separate(package)
  PROVE  Taken = ui \cup AllAddresses(hand)
<1>1. \A h \in hand : RowIdentity(h, Format) \notin Owned
  BY DEF Separate, Owned
<1>2. {h \in hand : RowIdentity(h, Format) \notin Owned} = hand
  BY <1>1
<1> QED
  BY <1>2 DEF Taken

(* What filter_existing leaves is nobody else's. *)
LEMMA FilteredIsFree ==
  ASSUME Separate(package), NEW rows, \A r \in rows : Addresses(r.config) \cap Taken = {}
  PROVE  AllAddresses(rows) \cap (ui \cup AllAddresses(hand)) = {}
  BY TakenIsAll, RowsApart

(* A row of the package that is not approved stands apart from an approved  *)
(* one that is no scene, after preserve_manual_plan.                        *)
LEMMA PreservedApart ==
  ASSUME NEW rows, NEW manual, NEW r \in PreserveManual(rows, manual), r \notin manual,
         NEW m \in manual, m.platform # "scene"
  PROVE  Addresses(r.config) \cap Addresses(m.config) = {}
  BY DEF PreserveManual

(* And so does every row that append_manual_plan finds. *)
LEMMA AppendedApart ==
  ASSUME NEW base, NEW addition, Appendable(base, addition),
         NEW r \in base, NEW m \in addition, m.platform # "scene"
  PROVE  Addresses(r.config) \cap Addresses(m.config) = {}
<1>1. Addresses(m.config) \cap AllAddresses(base) = {}
  BY DEF Appendable
<1>2. Addresses(r.config) \subseteq AllAddresses(base)
  BY DEF AllAddresses
<1> QED
  BY <1>1, <1>2
----------------------------------------------------------------------------
LEMMA ApprovalsInit == Init => ApprovalsHold
  BY DEF Init, ApprovalsHold, AllAddresses, NoManifest

(* deploy, of what the mapper finds. *)
LEMMA ApprovalsDeploy ==
  ASSUME ApprovalsHold, NEW selection, NEW verified, Deploy(selection, verified)
  PROVE  ApprovalsHold'
<1> DEFINE excluded == IF selection = "kept" THEN manifest.excluded ELSE history.excluded
           automatic == SelectScenes(AdaptPlanIdentity(AutoRows, Mode(manifest), Format), excluded)
           planned == IF manifest.manual = {} THEN automatic
                      ELSE PreserveManual(automatic, manifest.manual)
           rows == FilterExisting(planned)
<1>1. /\ Separate(package) /\ package' = rows
      /\ manifest'.manual = manifest.manual /\ manifest'.taken = Taken
      /\ manifest'.ui = ui /\ manifest'.hand = hand
  BY Zenon DEF Deploy, Write
<1>2. \A r \in rows : r \in planned /\ Addresses(r.config) \cap Taken = {}
  BY DEF FilterExisting
<1> HIDE DEF rows
<1>3. AllAddresses(package') \cap (manifest'.ui \cup AllAddresses(manifest'.hand)) = {}
  BY <1>1, <1>2, FilteredIsFree
<1>4. ASSUME NEW m \in manifest.manual
      PROVE  m \in rows \/ Addresses(m.config) \cap Taken # {}
  BY DEF rows, FilterExisting, PreserveManual
<1>5. ASSUME NEW m \in manifest.manual, m.platform # "scene", NEW r \in rows \ manifest.manual
      PROVE  Addresses(r.config) \cap Addresses(m.config) = {}
  <2>1. r \in PreserveManual(automatic, manifest.manual)
    BY <1>2, <1>5
  <2> QED
    BY <1>5, <2>1, PreservedApart
<1> QED
  BY <1>1, <1>3, <1>4, <1>5 DEF ApprovalsHold, AllAddresses

(* deploy, of rows an installer wrote. *)
LEMMA ApprovalsManual ==
  ASSUME ApprovalsHold, NEW yaml, AddManual(yaml)
  PROVE  ApprovalsHold'
<1> DEFINE addition == ManualRows(yaml, Mode(manifest))
           rows == package \cup addition
<1>1. /\ package' = rows /\ manifest'.manual = manifest.manual \cup addition
      /\ manifest'.taken = manifest.taken /\ manifest'.ui = ui /\ manifest'.hand = hand
  BY Zenon DEF AddManual, Write
<1>2. /\ Separate(package) /\ Appendable(package, addition) /\ FilterExisting(rows) = rows
  BY DEF AddManual, ManualAllowed
<1> HIDE DEF addition
<1>3. AllAddresses(package') \cap (manifest'.ui \cup AllAddresses(manifest'.hand)) = {}
  <2>1. \A r \in rows : Addresses(r.config) \cap Taken = {}
    BY <1>2 DEF FilterExisting
  <2> QED
    BY <1>1, <1>2, <2>1, FilteredIsFree
<1>4. ASSUME NEW m \in manifest.manual \cup addition
      PROVE  m \in rows \/ Addresses(m.config) \cap manifest.taken # {}
  BY DEF ApprovalsHold
<1>5. ASSUME NEW m \in manifest.manual \cup addition, m.platform # "scene",
             NEW r \in rows \ (manifest.manual \cup addition)
      PROVE  Addresses(r.config) \cap Addresses(m.config) = {}
  <2>1. CASE m \in manifest.manual
    BY <1>5, <2>1 DEF ApprovalsHold
  <2>2. CASE m \in addition
    BY <1>2, <1>5, <2>2, AppendedApart
  <2> QED
    BY <2>1, <2>2
<1> QED
  BY <1>1, <1>3, <1>4, <1>5 DEF ApprovalsHold, AllAddresses

LEMMA ApprovalsStep == ApprovalsHold /\ [Next]_vars => ApprovalsHold'
<1> SUFFICES ASSUME ApprovalsHold, [Next]_vars PROVE ApprovalsHold'
  OBVIOUS
<1>1. ASSUME UNCHANGED <<package, manifest>> PROVE ApprovalsHold'
  BY <1>1 DEF ApprovalsHold, AllAddresses
<1>2. ASSUME NEW selection, NEW verified, Deploy(selection, verified) PROVE ApprovalsHold'
  BY <1>2, ApprovalsDeploy
<1>3. ASSUME NEW yaml, AddManual(yaml) PROVE ApprovalsHold'
  BY <1>3, ApprovalsManual
<1>4. ASSUME NEW migrated, ImportProject(migrated) PROVE UNCHANGED <<package, manifest>>
  BY <1>4 DEF ImportProject
<1>5. ASSUME NEW yaml, CheckManual(yaml) PROVE UNCHANGED <<package, manifest>>
  BY <1>5 DEF CheckManual
<1>6. ASSUME NEW row, EditHand(row) PROVE UNCHANGED <<package, manifest>>
  BY <1>6 DEF EditHand
<1>7. ASSUME NEW a, AddInterface(a) PROVE UNCHANGED <<package, manifest>>
  BY <1>7 DEF AddInterface
<1>8. CASE ChangeCore
  BY <1>1, <1>8 DEF ChangeCore
<1>9. CASE NewMapper
  BY <1>1, <1>9 DEF NewMapper
<1>10. CASE UNCHANGED vars
  BY <1>1, <1>10 DEF vars
<1> QED
  BY <1>1, <1>2, <1>3, <1>4, <1>5, <1>6, <1>7, <1>8, <1>9, <1>10 DEF Next

(* Nothing that people approved or own is overruled by a plan of the mapper, *)
(* whatever is uploaded, upgraded or written by hand (filter_existing,        *)
(* append_manual_plan, preserve_manual_plan).                                 *)
THEOREM Approvals == Spec => []ApprovalsHold
<1>1. Init => ApprovalsHold
  BY ApprovalsInit
<1>2. ApprovalsHold /\ [Next]_vars => ApprovalsHold'
  BY ApprovalsStep
<1> QED
  BY <1>1, <1>2, PTL DEF Spec
----------------------------------------------------------------------------
(* The identities on record *)

(* The identity of a managed row where rows have one of their own: an        *)
(* approved row's follows from the row, the mapper's from the project it was  *)
(* made from.                                                                 *)
IdentifiedAs(r) ==
  IF r \in manifest.manual THEN [by |-> "manual", ids |-> Canonical(r)]
  ELSE UniqueId(Projects[history.projects[manifest.project]], r)

(* The parts of it that are inductive only together: what the record says of  *)
(* the way its rows are identified, and that a row of the mapper is never an   *)
(* approved one that had to give way to the user.                              *)
RecordOK ==
  /\ manifest.mode \in Modes \cup {"none"}
  /\ manifest.mode = "none" <=> manifest.project = 0
  /\ manifest.mode = "none" => manifest.manual = {}
  /\ manifest.mode = "native" => manifest.format = "LONG"
RecordTypes ==
  /\ imported \in 0 .. Len(history.projects) /\ core \in Modes /\ revision \in 1 .. 2
  /\ manifest.project \in 0 .. imported /\ manifest.revision \in 0 .. revision
  /\ package = {} <=> manifest.mode = "none"
  /\ \A r \in package : r.uid = NoUid <=> manifest.mode # "custom"
RowsOK ==
  /\ \A m \in manifest.manual : Addresses(m.config) # {} /\ (m.uid = NoUid <=> manifest.mode # "custom")
  /\ manifest.mode = "custom" => \A r \in package \cup manifest.manual : r.uid = IdentifiedAs(r)
  /\ \A r \in package \ manifest.manual : Addresses(r.config) \cap manifest.taken = {}
RecordInv == history \in Histories /\ upgrades \in Nat /\ RecordTypes /\ RecordOK /\ RowsOK

IsRow(r) == r = [platform |-> r.platform, config |-> r.config, uid |-> r.uid, noted |-> r.noted]

LEMMA SameCanonical ==
  ASSUME NEW r, NEW s, r.platform = s.platform, r.config = s.config
  PROVE  Canonical(r) = Canonical(s)
  BY DEF Canonical

LEMMA SameUniqueId ==
  ASSUME NEW project, NEW r, NEW s, r.config = s.config
  PROVE  UniqueId(project, r) = UniqueId(project, s)
  BY DEF UniqueId, Claim

(* adapt_plan_identity touches nothing but the identity. *)
LEMMA AdaptedRow ==
  ASSUME NEW rows, \A x \in rows : IsRow(x), NEW mode, NEW format,
         NEW r \in AdaptPlanIdentity(rows, mode, format)
  PROVE  \E x \in rows : /\ r.platform = x.platform /\ r.config = x.config
                         /\ r.uid = IF mode = "custom" THEN x.uid ELSE NoUid
<1>1. PICK x \in rows :
        LET row == [x EXCEPT !.uid = IF mode = "custom" THEN @ ELSE NoUid]
        IN  r = [row EXCEPT !.noted = RowIdentity(row, format)]
  BY DEF AdaptPlanIdentity
<1>2. IsRow(x)
  BY <1>1
<1> QED
  BY <1>1, <1>2 DEF IsRow

(* manual_yaml_plan *)
LEMMA ManualRow ==
  ASSUME history \in Histories, NEW yaml \in history.yaml, NEW mode, NEW r \in ManualRows(yaml, mode)
  PROVE  /\ Addresses(r.config) # {}
         /\ r.uid = IF mode = "custom" THEN [by |-> "manual", ids |-> Canonical(r)] ELSE NoUid
<1> DEFINE own == {[x EXCEPT !.uid = [by |-> "manual", ids |-> Canonical(x)]] : x \in yaml}
<1>1. ASSUME NEW y \in own
      PROVE  IsRow(y) /\ Addresses(y.config) # {} /\ y.uid = [by |-> "manual", ids |-> Canonical(y)]
  <2>1. PICK x \in yaml : y = [x EXCEPT !.uid = [by |-> "manual", ids |-> Canonical(x)]]
    BY <1>1
  <2>2. x = Row(x.platform, x.config, NoUid) /\ Addresses(x.config) # {}
    BY HistoriesAssumption
  <2>3. /\ IsRow(y) /\ y.platform = x.platform /\ y.config = x.config
        /\ y.uid = [by |-> "manual", ids |-> Canonical(x)]
    BY <2>1, <2>2 DEF Row, IsRow
  <2>4. Canonical(y) = Canonical(x)
    BY <2>3, SameCanonical
  <2> QED
    BY <2>2, <2>3, <2>4
<1>2. r \in AdaptPlanIdentity(own, mode, Format)
  BY DEF ManualRows
<1> HIDE DEF own
<1>3. PICK y \in own : /\ r.platform = y.platform /\ r.config = y.config
                       /\ r.uid = IF mode = "custom" THEN y.uid ELSE NoUid
  <2>1. \A x \in own : IsRow(x)
    BY <1>1
  <2> QED
    BY <1>2, <2>1, AdaptedRow
<1>4. Canonical(r) = Canonical(y)
  BY <1>3, SameCanonical
<1> QED
  BY <1>1, <1>3, <1>4

(* plan_project *)
LEMMA AutomaticRow ==
  ASSUME history \in Histories, imported \in 1 .. Len(history.projects), NEW mode, NEW format,
         NEW r \in AdaptPlanIdentity(AutoRows, mode, format)
  PROVE  r.uid = IF mode = "custom" THEN UniqueId(Project, r) ELSE NoUid
<1> DEFINE t == history.projects[imported]
<1>1. t \in DOMAIN Projects
  BY HistoriesAssumption
<1>2. PlanOf[t] = PlanProject(Projects[t])
  BY <1>1, PlansAssumption
<1>3. ASSUME NEW x \in AutoRows PROVE IsRow(x) /\ x.uid = UniqueId(Project, x)
  <2>1. PICK e \in PlanProject(Project) : x = Row(e.platform, e.config, e.uid)
    BY <1>2, <1>3 DEF AutoRows, Project
  <2>2. PICK c \in Accepted(Planned(Project)) :
          e = [uid |-> UniqueId(Project, c), source |-> c.source, platform |-> c.platform,
               config |-> c.config]
    BY <2>1 DEF PlanProject
  <2>3. IsRow(x) /\ x.uid = UniqueId(Project, c) /\ x.config = c.config
    BY <2>1, <2>2 DEF Row, IsRow
  <2> QED
    BY <2>3, SameUniqueId
<1>4. PICK x \in AutoRows : r.config = x.config /\ r.uid = IF mode = "custom" THEN x.uid ELSE NoUid
  BY <1>3, AdaptedRow
<1>5. UniqueId(Project, x) = UniqueId(Project, r)
  BY <1>4, SameUniqueId
<1> QED
  BY <1>3, <1>4, <1>5

(* An identity of one kind is never one of another. *)
LEMMA SomeUid ==
  ASSUME NEW project, NEW r
  PROVE  UniqueId(project, r) # NoUid /\ [by |-> "manual", ids |-> Canonical(r)] # NoUid
<1>1. UniqueId(project, r).by = "ets" /\ NoUid.by = "none"
  BY DEF UniqueId, NoUid
<1>2. [by |-> "manual", ids |-> Canonical(r)].by = "manual"
  OBVIOUS
<1> QED
  BY <1>1, <1>2
----------------------------------------------------------------------------
(* Steps on the record *)

LEMMA ModesOfHistory ==
  ASSUME history \in Histories
  PROVE  /\ Len(history.projects) \in Nat
         /\ Head(history.cores) \in Modes
         /\ \A i \in 1 .. Len(history.cores) : history.cores[i] \in Modes
<1>1. /\ history.projects \in Seq(DOMAIN Projects)
      /\ history.cores \in Seq(Modes) /\ history.cores # <<>>
  BY HistoriesAssumption
<1> HIDE DEF Modes
<1> QED
  BY <1>1

LEMMA RecordInit == Init => RecordInv
<1> SUFFICES ASSUME Init PROVE RecordInv
  OBVIOUS
<1>1. Len(history.projects) \in Nat /\ Head(history.cores) \in Modes
  BY ModesOfHistory DEF Init
<1>2. /\ manifest.project = 0 /\ manifest.mode = "none" /\ manifest.manual = {}
      /\ manifest.revision = 0 /\ package = {}
  BY DEF Init, NoManifest
<1>3. RecordTypes
  BY <1>1, <1>2 DEF Init, RecordTypes
<1>4. RecordOK /\ RowsOK
  BY <1>2 DEF RecordOK, RowsOK
<1> QED
  BY <1>3, <1>4 DEF Init, RecordInv

(* Steps that deploy nothing. *)
LEMMA RecordQuiet ==
  ASSUME RecordInv, UNCHANGED <<history, package, manifest>>,
         imported' \in imported .. Len(history.projects), core' \in Modes,
         revision' \in revision .. 2, upgrades' \in Nat
  PROVE  RecordInv'
<1>1. RecordTypes'
  BY ModesOfHistory DEF RecordInv, RecordTypes
<1>2. RecordOK' /\ RowsOK'
  BY DEF RecordInv, RecordOK, RowsOK, IdentifiedAs
<1> QED
  BY <1>1, <1>2 DEF RecordInv

(* What both kinds of deployment write. *)
Written(rows, manual, taken) ==
  /\ package' = rows
  /\ manifest'.project = imported /\ manifest'.mode = Mode(manifest) /\ manifest'.format = Format
  /\ manifest'.manual = manual /\ manifest'.taken = taken

(* A deployment keeps the identities of the one on record. *)
LEMMA ModeKept ==
  ASSUME RecordInv, IdentityAllowed(manifest)
  PROVE  /\ Mode(manifest) \in Modes
         /\ Mode(manifest) = "native" => Format = "LONG"
         /\ manifest.mode # "none" => (Mode(manifest) = "custom" <=> manifest.mode = "custom")
  BY DEF RecordInv, RecordTypes, RecordOK, IdentityAllowed, Mode, Modes, Format, FormatOf

LEMMA RecordWritten ==
  ASSUME RecordInv, IdentityAllowed(manifest), imported > 0,
         NEW rows, NEW manual, NEW taken, Written(rows, manual, taken)
  PROVE  RecordOK'
  BY ModeKept DEF RecordInv, RecordOK, Written, Modes, RecordTypes

LEMMA RecordDeploy ==
  ASSUME RecordInv, NEW selection, NEW verified, Deploy(selection, verified)
  PROVE  RecordInv'
<1> DEFINE excluded == IF selection = "kept" THEN manifest.excluded ELSE history.excluded
           automatic == SelectScenes(AdaptPlanIdentity(AutoRows, Mode(manifest), Format), excluded)
           planned == IF manifest.manual = {} THEN automatic
                      ELSE PreserveManual(automatic, manifest.manual)
           rows == FilterExisting(planned)
<1>1. /\ imported > 0 /\ IdentityAllowed(manifest) /\ rows # {}
      /\ manifest.manual # {} => manifest.project = imported
      /\ UNCHANGED <<history, imported, core, upgrades, revision>>
  BY DEF Deploy
<1>2. /\ Written(rows, manifest.manual, Taken) /\ manifest'.revision = revision
  BY Zenon DEF Deploy, Write, Written
<1>3. ASSUME NEW r \in rows
      PROVE  /\ r \in manifest.manual \/ r \in AdaptPlanIdentity(AutoRows, Mode(manifest), Format)
             /\ Addresses(r.config) \cap Taken = {}
  BY DEF FilterExisting, PreserveManual, SelectScenes
<1> HIDE DEF rows
<1>4. imported \in 1 .. Len(history.projects)
  BY <1>1, ModesOfHistory DEF RecordInv, RecordTypes
<1>5. ASSUME NEW r \in rows, r \notin manifest.manual
      PROVE  r.uid = IF Mode(manifest) = "custom" THEN UniqueId(Project, r) ELSE NoUid
  BY <1>3, <1>4, <1>5, AutomaticRow DEF RecordInv
<1>6. ASSUME NEW m \in manifest.manual
      PROVE  /\ Addresses(m.config) # {}
             /\ m.uid = IF Mode(manifest) = "custom" THEN [by |-> "manual", ids |-> Canonical(m)] ELSE NoUid
  <2>1. manifest.mode # "none"
    BY DEF RecordInv, RecordOK
  <2>2. Mode(manifest) = "custom" <=> manifest.mode = "custom"
    BY <1>1, <2>1, ModeKept
  <2>3. Addresses(m.config) # {} /\ (m.uid = NoUid <=> manifest.mode # "custom")
    BY DEF RecordInv, RowsOK
  <2>4. manifest.mode = "custom" => m.uid = IdentifiedAs(m)
    BY DEF RecordInv, RowsOK
  <2> QED
    BY <2>2, <2>3, <2>4 DEF IdentifiedAs
<1>7. RecordOK'
  BY <1>1, <1>2, RecordWritten
<1>8. RecordTypes'
  <2>1. \A r \in rows : r.uid = NoUid <=> Mode(manifest) # "custom"
    BY <1>5, <1>6, SomeUid
  <2>2. Mode(manifest) # "none"
    BY <1>1, ModeKept DEF Modes
  <2> QED
    BY <1>1, <1>2, <1>4, <2>1, <2>2 DEF RecordTypes, Written, RecordInv
<1>9. RowsOK'
  <2>1. \A m \in manifest.manual : Addresses(m.config) # {} /\ (m.uid = NoUid <=> Mode(manifest) # "custom")
    BY <1>6, SomeUid
  <2>2. ASSUME Mode(manifest) = "custom", NEW r \in rows \cup manifest.manual
        PROVE  r.uid = IF r \in manifest.manual THEN [by |-> "manual", ids |-> Canonical(r)]
                       ELSE UniqueId(Project, r)
    BY <1>5, <1>6, <2>2
  <2>3. \A r \in rows \ manifest.manual : Addresses(r.config) \cap Taken = {}
    BY <1>3
  <2>4. /\ package' = rows /\ manifest'.manual = manifest.manual /\ manifest'.taken = Taken
        /\ manifest'.mode = Mode(manifest) /\ manifest'.project = imported /\ history' = history
    BY <1>1, <1>2 DEF Written
  <2>5. ASSUME NEW r, Mode(manifest) = "custom", r \in rows \cup manifest.manual
        PROVE  r.uid = (IF r \in manifest'.manual THEN [by |-> "manual", ids |-> Canonical(r)]
                        ELSE UniqueId(Projects[history'.projects[manifest'.project]], r))
    BY <2>2, <2>4, <2>5 DEF Project
  <2> QED
    BY <2>1, <2>3, <2>4, <2>5 DEF RowsOK, IdentifiedAs
<1> QED
  BY <1>1, <1>7, <1>8, <1>9 DEF RecordInv
----------------------------------------------------------------------------
(* Rows an installer wrote, and the rest *)

LEMMA AdaptedSome ==
  ASSUME NEW rows, NEW x \in rows, NEW mode, NEW format
  PROVE  AdaptPlanIdentity(rows, mode, format) # {}
<1> DEFINE row == [x EXCEPT !.uid = IF mode = "custom" THEN @ ELSE NoUid]
           r == [row EXCEPT !.noted = RowIdentity(row, format)]
<1>1. r \in AdaptPlanIdentity(rows, mode, format)
  BY DEF AdaptPlanIdentity
<1> QED
  BY <1>1

LEMMA RecordManual ==
  ASSUME RecordInv, NEW yaml \in history.yaml, AddManual(yaml)
  PROVE  RecordInv'
<1> DEFINE addition == ManualRows(yaml, Mode(manifest))
           rows == package \cup addition
           manual == manifest.manual \cup addition
<1>1. /\ imported > 0 /\ IdentityAllowed(manifest) /\ manifest.project \in {0, imported}
      /\ UNCHANGED <<history, imported, core, upgrades, revision>>
  BY DEF AddManual, ManualAllowed
<1>2. Written(rows, manual, manifest.taken) /\ manifest'.revision = manifest.revision
  BY Zenon DEF AddManual, Write, Written
<1>3. addition # {}
  <2> DEFINE own == {[x EXCEPT !.uid = [by |-> "manual", ids |-> Canonical(x)]] : x \in yaml}
  <2>1. PICK x : x \in own
    <3>1. PICK y : y \in yaml
      BY DEF AddManual, ManualAllowed
    <3>2. [y EXCEPT !.uid = [by |-> "manual", ids |-> Canonical(y)]] \in own
      BY <3>1
    <3> QED
      BY <3>2
  <2>2. addition = AdaptPlanIdentity(own, Mode(manifest), Format)
    BY DEF ManualRows
  <2> HIDE DEF own, addition
  <2> QED
    BY <2>1, <2>2, AdaptedSome
<1>4. ASSUME NEW r \in addition
      PROVE  /\ Addresses(r.config) # {}
             /\ r.uid = IF Mode(manifest) = "custom" THEN [by |-> "manual", ids |-> Canonical(r)] ELSE NoUid
  BY <1>4, ManualRow DEF RecordInv
<1> HIDE DEF addition
<1>5. manifest.mode = "none" => package = {} /\ manifest.manual = {}
  BY DEF RecordInv, RecordTypes, RecordOK
<1>6. manifest.mode # "none" => /\ Mode(manifest) = "custom" <=> manifest.mode = "custom"
                                /\ manifest.project = imported
  BY <1>1, ModeKept DEF RecordInv, RecordOK
<1>7. RecordOK'
  BY <1>1, <1>2, RecordWritten
<1>8. RecordTypes'
  <2>1. ASSUME NEW r \in rows PROVE r.uid = NoUid <=> Mode(manifest) # "custom"
    <3>1. CASE r \in addition
      BY <1>4, <3>1, SomeUid
    <3>2. CASE r \in package
      BY <1>5, <1>6, <3>2 DEF RecordInv, RecordTypes
    <3> QED
      BY <2>1, <3>1, <3>2
  <2>2. Mode(manifest) # "none"
    BY <1>1, ModeKept DEF Modes
  <2>3. rows # {}
    BY <1>3
  <2> QED
    BY <1>1, <1>2, <2>1, <2>2, <2>3 DEF RecordTypes, Written, RecordInv
<1>9. RowsOK'
  <2>1. ASSUME NEW m \in manual
        PROVE  Addresses(m.config) # {} /\ (m.uid = NoUid <=> Mode(manifest) # "custom")
    <3>1. CASE m \in addition
      BY <1>4, <3>1, SomeUid
    <3>2. CASE m \in manifest.manual
      BY <1>5, <1>6, <3>2 DEF RecordInv, RowsOK
    <3> QED
      BY <2>1, <3>1, <3>2
  <2>2. ASSUME Mode(manifest) = "custom", NEW r, r \in rows \cup manual
        PROVE  r.uid = IF r \in manual THEN [by |-> "manual", ids |-> Canonical(r)]
                       ELSE UniqueId(Project, r)
    <3>1. CASE r \in addition
      BY <1>4, <2>2, <3>1
    <3>2. CASE r \notin addition
      <4>1. r \in package \cup manifest.manual
        BY <2>2, <3>2
      <4>2. manifest.mode = "custom" /\ manifest.project = imported
        BY <1>5, <1>6, <2>2, <4>1
      <4>3. r.uid = IdentifiedAs(r)
        BY <4>1, <4>2 DEF RecordInv, RowsOK
      <4> QED
        BY <3>2, <4>2, <4>3 DEF IdentifiedAs, Project
    <3> QED
      BY <3>1, <3>2
  <2>3. \A r \in rows \ manual : Addresses(r.config) \cap manifest.taken = {}
    BY DEF RecordInv, RowsOK
  <2>4. /\ package' = rows /\ manifest'.manual = manual /\ manifest'.taken = manifest.taken
        /\ manifest'.mode = Mode(manifest) /\ manifest'.project = imported /\ history' = history
    BY <1>1, <1>2 DEF Written
  <2> HIDE DEF rows, manual
  <2>5. ASSUME NEW r, Mode(manifest) = "custom", r \in rows \cup manual
        PROVE  r.uid = (IF r \in manifest'.manual THEN [by |-> "manual", ids |-> Canonical(r)]
                        ELSE UniqueId(Projects[history'.projects[manifest'.project]], r))
    BY <2>2, <2>4, <2>5 DEF Project
  <2> QED
    BY <2>1, <2>3, <2>4, <2>5 DEF RowsOK, IdentifiedAs
<1> QED
  BY <1>1, <1>7, <1>8, <1>9 DEF RecordInv

LEMMA RecordStep == RecordInv /\ [Next]_vars => RecordInv'
<1> SUFFICES ASSUME RecordInv, [Next]_vars PROVE RecordInv'
  OBVIOUS
<1>1. /\ imported \in 0 .. Len(history.projects) /\ Len(history.projects) \in Nat
      /\ core \in Modes /\ revision \in 1 .. 2 /\ upgrades \in Nat
  BY ModesOfHistory DEF RecordInv, RecordTypes
<1>2. ASSUME UNCHANGED <<history, imported, core, upgrades, revision, package, manifest>>
      PROVE  RecordInv'
  BY <1>1, <1>2, RecordQuiet
<1>3. ASSUME NEW migrated, ImportProject(migrated) PROVE RecordInv'
  BY <1>1, <1>3, RecordQuiet DEF ImportProject
<1>4. ASSUME NEW selection, NEW verified, Deploy(selection, verified) PROVE RecordInv'
  BY <1>4, RecordDeploy
<1>5. ASSUME NEW yaml \in history.yaml, AddManual(yaml) PROVE RecordInv'
  BY <1>5, RecordManual
<1>6. ASSUME NEW yaml, CheckManual(yaml) PROVE RecordInv'
  BY <1>2, <1>6 DEF CheckManual
<1>7. ASSUME NEW row, EditHand(row) PROVE RecordInv'
  BY <1>2, <1>7 DEF EditHand
<1>8. ASSUME NEW a, AddInterface(a) PROVE RecordInv'
  BY <1>2, <1>8 DEF AddInterface
<1>9. CASE ChangeCore
  <2>1. core' \in Modes /\ upgrades' \in Nat
    <3>1. history.cores \in Seq(Modes)
      BY HistoriesAssumption DEF RecordInv
    <3>2. upgrades + 2 \in 1 .. Len(history.cores)
      BY <1>1, <1>9, <3>1 DEF ChangeCore
    <3> HIDE DEF Modes
    <3> QED
      BY <1>1, <1>9, <3>1, <3>2 DEF ChangeCore
  <2> QED
    BY <1>1, <1>9, <2>1, RecordQuiet DEF ChangeCore
<1>10. CASE NewMapper
  BY <1>1, <1>10, RecordQuiet DEF NewMapper
<1>11. CASE UNCHANGED vars
  BY <1>2, <1>11 DEF vars
<1> QED
  BY <1>3, <1>4, <1>5, <1>6, <1>7, <1>8, <1>9, <1>10, <1>11 DEF Next

LEMMA RecordHolds == Spec => []RecordInv
<1> QED
  BY RecordInit, RecordStep, PTL DEF Spec

(* The rest of the types: of what the user has and of what was the user's     *)
(* when a plan was checked or written, with the identities noted for the rows. *)
PeopleInv ==
  /\ hand \subseteq history.hand /\ ui \subseteq history.ui /\ changes \in 0 .. history.steps
  /\ checked.yaml \in history.yaml \cup {{}} /\ checked.project \in 0 .. imported
  /\ checked.hand \subseteq history.hand /\ checked.ui \subseteq history.ui
RecordedInv ==
  /\ manifest.hand \subseteq history.hand /\ manifest.ui \subseteq history.ui
  /\ manifest.excluded \in {{}, history.excluded}
  /\ \A r \in package : r.noted = RowIdentity(r, manifest.format)

LEMMA PeopleInit == Init => PeopleInv /\ RecordedInv
<1> SUFFICES ASSUME Init PROVE PeopleInv /\ RecordedInv
  OBVIOUS
<1>1. history.steps \in Nat
  BY HistoriesAssumption DEF Init
<1> QED
  BY <1>1 DEF Init, NotChecked, NoManifest, PeopleInv, RecordedInv

(* Steps leave the user's rows alone or take one of them in or out. *)
LEMMA PeopleStep == RecordInv /\ PeopleInv /\ [Next]_vars => PeopleInv'
<1> SUFFICES ASSUME RecordInv, PeopleInv, [Next]_vars PROVE PeopleInv'
  OBVIOUS
<1>1. imported \in Nat /\ history.steps \in Nat
  BY HistoriesAssumption, ModesOfHistory DEF RecordInv, RecordTypes
<1>2. ASSUME Count PROVE changes' \in 0 .. history.steps
  BY <1>1, <1>2 DEF Count, PeopleInv
<1>3. ASSUME NEW migrated, ImportProject(migrated) PROVE PeopleInv'
  BY <1>1, <1>2, <1>3 DEF ImportProject, PeopleInv
<1>4. ASSUME NEW selection, NEW verified, Deploy(selection, verified) PROVE PeopleInv'
  <2>1. Count /\ UNCHANGED <<history, imported, hand, ui, checked>>
    BY <1>4 DEF Deploy
  <2> QED
    BY <1>2, <2>1 DEF PeopleInv
<1>5. ASSUME NEW yaml \in history.yaml, AddManual(yaml) PROVE PeopleInv'
  BY <1>2, <1>5 DEF AddManual, PeopleInv
<1>6. ASSUME NEW yaml \in history.yaml, CheckManual(yaml) PROVE PeopleInv'
  <2>1. checked' = Snapshot(yaml) /\ Count /\ UNCHANGED <<history, imported, hand, ui>>
    BY <1>6 DEF CheckManual
  <2> QED
    BY <1>1, <1>2, <2>1 DEF Snapshot, PeopleInv
<1>7. ASSUME NEW row \in history.hand, EditHand(row) PROVE PeopleInv'
  BY <1>2, <1>7 DEF EditHand, PeopleInv
<1>8. ASSUME NEW a \in history.ui, AddInterface(a) PROVE PeopleInv'
  BY <1>2, <1>8 DEF AddInterface, PeopleInv
<1>9. CASE ChangeCore
  BY <1>2, <1>9 DEF ChangeCore, PeopleInv
<1>10. CASE NewMapper
  BY <1>2, <1>10 DEF NewMapper, PeopleInv
<1>11. CASE UNCHANGED vars
  BY <1>11 DEF vars, PeopleInv
<1> QED
  BY <1>3, <1>4, <1>5, <1>6, <1>7, <1>8, <1>9, <1>10, <1>11 DEF Next

(* A deployment notes what was the user's and what it gave to each row. *)
LEMMA RecordedWritten ==
  ASSUME PeopleInv, RecordedInv, NEW rows, Noted(rows), NEW mode, NEW manual, NEW excluded,
         excluded \in {manifest.excluded, history.excluded}, NEW rev, NEW taken,
         Write(rows, mode, manual, excluded, rev, taken), history' = history
  PROVE  RecordedInv'
<1>1. /\ package' = rows /\ manifest'.format = Format /\ manifest'.excluded = excluded
      /\ manifest'.hand = hand /\ manifest'.ui = ui
  BY DEF Write
<1>2. \A r \in rows : r.noted = RowIdentity(r, Format)
  BY DEF Noted
<1>3. \A r \in package' : r.noted = RowIdentity(r, manifest'.format)
  BY <1>1, <1>2
<1> QED
  BY <1>1, <1>3 DEF PeopleInv, RecordedInv, RowIdentity, Canonical, First, At

LEMMA RecordedStep == PeopleInv /\ RecordedInv /\ [Next]_vars => RecordedInv'
<1> SUFFICES ASSUME PeopleInv, RecordedInv, [Next]_vars PROVE RecordedInv'
  OBVIOUS
<1>1. ASSUME UNCHANGED <<history, package, manifest>> PROVE RecordedInv'
  BY <1>1 DEF RecordedInv, RowIdentity, Canonical, First, At
<1>2. ASSUME NEW selection, NEW verified, Deploy(selection, verified) PROVE RecordedInv'
  <2> DEFINE excluded == IF selection = "kept" THEN manifest.excluded ELSE history.excluded
             adapted == AdaptPlanIdentity(AutoRows, Mode(manifest), Format)
             automatic == SelectScenes(adapted, excluded)
             planned == IF manifest.manual = {} THEN automatic
                        ELSE PreserveManual(automatic, manifest.manual)
             rows == FilterExisting(planned)
  <2>1. /\ Noted(rows) /\ history' = history
        /\ Write(rows, Mode(manifest), manifest.manual, excluded, revision, Taken)
    BY Zenon, <1>2 DEF Deploy
  <2>2. excluded \in {manifest.excluded, history.excluded}
    OBVIOUS
  <2> HIDE DEF rows, excluded
  <2> QED
    BY <2>1, <2>2, RecordedWritten
<1>3. ASSUME NEW yaml, AddManual(yaml) PROVE RecordedInv'
  <2> DEFINE addition == ManualRows(yaml, Mode(manifest))
             rows == package \cup addition
             manual == manifest.manual \cup addition
  <2>1. /\ Noted(rows) /\ history' = history
        /\ Write(rows, Mode(manifest), manual, manifest.excluded, manifest.revision, manifest.taken)
    BY Zenon, <1>3 DEF AddManual, ManualAllowed
  <2> HIDE DEF rows, manual
  <2> QED
    BY <2>1, RecordedWritten
<1>4. ASSUME NEW migrated, ImportProject(migrated) PROVE RecordedInv'
  BY <1>1, <1>4 DEF ImportProject
<1>5. ASSUME NEW yaml, CheckManual(yaml) PROVE RecordedInv'
  BY <1>1, <1>5 DEF CheckManual
<1>6. ASSUME NEW row, EditHand(row) PROVE RecordedInv'
  BY <1>1, <1>6 DEF EditHand
<1>7. ASSUME NEW a, AddInterface(a) PROVE RecordedInv'
  BY <1>1, <1>7 DEF AddInterface
<1>8. CASE ChangeCore
  BY <1>1, <1>8 DEF ChangeCore
<1>9. CASE NewMapper
  BY <1>1, <1>9 DEF NewMapper
<1>10. CASE UNCHANGED vars
  BY <1>1, <1>10 DEF vars
<1> QED
  BY <1>2, <1>3, <1>4, <1>5, <1>6, <1>7, <1>8, <1>9, <1>10 DEF Next

(* What the user has and what is on record of it keep their types through     *)
(* uploads, deployments, manual plans, the user's own changes and new          *)
(* versions, in any order; and the package is never half of one kind: its      *)
(* rows have identities of their own exactly where the record says so, and     *)
(* the one noted for each is what the recorded format makes of it              *)
(* (adapt_plan_identity, deploy).                                              *)
THEOREM PlansTypes == Spec => []PlansTypeOK
<1>1. RecordInv /\ PeopleInv /\ RecordedInv => PlansTypeOK
  BY DEF RecordInv, RecordTypes, PeopleInv, RecordedInv, PlansTypeOK
<1>2. Init => PeopleInv /\ RecordedInv
  BY PeopleInit
<1>3. RecordInv /\ PeopleInv /\ [Next]_vars => PeopleInv'
  BY PeopleStep
<1>4. PeopleInv /\ RecordedInv /\ [Next]_vars => RecordedInv'
  BY RecordedStep
<1> QED
  BY <1>1, <1>2, <1>3, <1>4, RecordHolds, PTL DEF Spec
----------------------------------------------------------------------------
(* Identities through a step *)

(* The same row before and after a step, and no other like it. *)
Alike(r, s) == s.platform = r.platform /\ s.config = r.config
OnlyOne(r, s) ==
  /\ r \in package /\ s \in package' /\ Alike(r, s)
  /\ \A x \in package : Alike(r, x) => x = r
  /\ \A x \in package' : Alike(r, x) => x = s
Excepted == core' = core /\ OfOneProject /\ AsOnRecord

LEMMA IdentityOf ==
  ASSUME NEW r, NEW s, Alike(r, s), r.uid = s.uid, NEW f, NEW g, r.uid = NoUid => f = g
  PROVE  RowIdentity(r, f) = RowIdentity(s, g)
<1>1. Canonical(r) = Canonical(s)
  BY SameCanonical DEF Alike
<1> QED
  BY <1>1 DEF RowIdentity, Alike

(* An upload leaves the addresses of identities written the way they are. *)
LEMMA FormatKept ==
  ASSUME RecordInv, Excepted, manifest.mode # "none", manifest.mode # "custom",
         NEW migrated, ImportProject(migrated)
  PROVE  Format' = Format
<1>1. /\ imported \in Nat /\ imported' = imported + 1 /\ history' = history /\ core' = core
      /\ manifest.mode \in {"legacy", "native"}
  BY DEF ImportProject, Excepted, RecordInv, RecordTypes, RecordOK, Modes
<1>2. CASE core # "legacy"
  BY <1>1, <1>2 DEF Format, FormatOf
<1>3. CASE core = "legacy"
  <2>1. Format = manifest.format
    BY <1>3 DEF Excepted, AsOnRecord
  <2>2. Format' = Projects[history.projects[imported + 1]].style
    BY <1>1, <1>3 DEF Format, FormatOf
  <2>3. CASE manifest.mode = "native"
    BY <1>3, <2>1, <2>2, <2>3 DEF ImportProject, ImportAllowed, RecordInv, RecordOK
  <2>4. CASE manifest.mode = "legacy"
    BY <1>3, <2>1, <2>2, <2>4 DEF ImportProject, ImportAllowed
  <2> QED
    BY <1>1, <2>3, <2>4
<1> QED
  BY <1>2, <1>3

LEMMA KeptQuietly ==
  ASSUME RecordInv, Excepted, package' = package, NEW r, NEW s, OnlyOne(r, s),
         UNCHANGED <<history, imported>> \/ \E migrated : ImportProject(migrated)
  PROVE  RowIdentity(r, Format) = RowIdentity(s, Format')
<1>1. s = r /\ r \in package /\ Alike(r, s)
  BY DEF OnlyOne
<1>2. r.uid = NoUid => manifest.mode # "none" /\ manifest.mode # "custom"
  BY <1>1 DEF RecordInv, RecordTypes
<1>3. r.uid = NoUid => Format' = Format
  <2>1. UNCHANGED <<history, imported>> => Format' = Format
    BY DEF Excepted, Format, FormatOf
  <2> QED
    BY <1>2, <2>1, FormatKept
<1> QED
  BY <1>1, <1>3, IdentityOf

LEMMA KeptByManual ==
  ASSUME Excepted, NEW yaml, AddManual(yaml), NEW r, NEW s, OnlyOne(r, s)
  PROVE  RowIdentity(r, Format) = RowIdentity(s, Format')
<1>1. package \subseteq package' /\ UNCHANGED <<history, imported, core>>
  BY Zenon DEF AddManual, Write
<1>2. s = r /\ Alike(r, s)
  BY <1>1 DEF OnlyOne, Alike
<1>3. Format' = Format
  BY <1>1 DEF Format, FormatOf
<1> QED
  BY <1>2, <1>3, IdentityOf

(* deploy, where rows have identities of their own: neither do an approved    *)
(* row and one of the mapper's change places.                                 *)
LEMMA KeptByDeploy ==
  ASSUME RecordInv, RecordInv', ApprovalsHold, Excepted,
         NEW selection, NEW verified, Deploy(selection, verified), NEW r, NEW s, OnlyOne(r, s)
  PROVE  RowIdentity(r, Format) = RowIdentity(s, Format')
<1> DEFINE excluded == IF selection = "kept" THEN manifest.excluded ELSE history.excluded
           automatic == SelectScenes(AdaptPlanIdentity(AutoRows, Mode(manifest), Format), excluded)
           planned == IF manifest.manual = {} THEN automatic
                      ELSE PreserveManual(automatic, manifest.manual)
           rows == FilterExisting(planned)
<1>1. /\ IdentityAllowed(manifest) /\ UNCHANGED <<history, imported, core>>
  BY DEF Deploy
<1>2. /\ package' = rows /\ manifest'.mode = Mode(manifest)
      /\ manifest'.project = imported /\ manifest'.manual = manifest.manual
  BY Zenon DEF Deploy, Write
<1>3. /\ r \in package /\ s \in package' /\ Alike(r, s) /\ \A x \in package : Alike(r, x) => x = r
  BY DEF OnlyOne
<1>4. Format' = Format
  BY <1>1 DEF Format, FormatOf
<1>5. manifest.mode # "none"
  BY <1>3 DEF RecordInv, RecordTypes
<1>6. s \in planned
  BY <1>2, <1>3 DEF FilterExisting
<1>7. manifest'.mode = "custom" <=> manifest.mode = "custom"
  BY <1>1, <1>2, <1>5, ModeKept
<1> HIDE DEF rows, automatic
<1>8. CASE manifest.mode # "custom"
  <2>1. r.uid = NoUid /\ s.uid = NoUid
    BY <1>3, <1>7, <1>8 DEF RecordInv, RecordTypes
  <2> QED
    BY <1>3, <1>4, <2>1, IdentityOf
<1>9. CASE manifest.mode = "custom"
  <2>1. r.uid = IF r \in manifest.manual THEN [by |-> "manual", ids |-> Canonical(r)]
                ELSE UniqueId(Projects[history.projects[manifest.project]], r)
    BY <1>3, <1>9 DEF RecordInv, RowsOK, IdentifiedAs
  <2>2. s.uid = IF s \in manifest.manual THEN [by |-> "manual", ids |-> Canonical(s)]
                ELSE UniqueId(Project, s)
    BY <1>1, <1>2, <1>3, <1>7, <1>9 DEF RecordInv, RowsOK, IdentifiedAs, Project
  <2>3. ASSUME r \in manifest.manual, s \notin manifest.manual PROVE FALSE
    <3>1. \/ Addresses(s.config) \cap Addresses(r.config) = {}
          \/ s.config["scene_number"] # r.config["scene_number"]
      BY <1>6, <2>3 DEF PreserveManual
    <3>2. Addresses(r.config) # {}
      BY <2>3 DEF RecordInv, RowsOK
    <3> QED
      BY <1>3, <3>1, <3>2 DEF Alike
  <2>4. ASSUME r \notin manifest.manual, s \in manifest.manual PROVE FALSE
    <3>1. s \notin package
      BY <1>3, <2>4
    <3>2. Addresses(s.config) \cap manifest.taken # {}
      BY <2>4, <3>1 DEF ApprovalsHold
    <3>3. Addresses(r.config) \cap manifest.taken = {}
      BY <1>3, <2>4 DEF RecordInv, RowsOK
    <3> QED
      BY <1>3, <3>2, <3>3 DEF Alike
  <2>5. ASSUME r \in manifest.manual, s \in manifest.manual PROVE r.uid = s.uid
    <3>1. Canonical(r) = Canonical(s)
      BY <1>3, SameCanonical DEF Alike
    <3> QED
      BY <2>1, <2>2, <2>5, <3>1
  <2>6. ASSUME r \notin manifest.manual, s \notin manifest.manual PROVE r.uid = s.uid
    <3>1. Projects[history.projects[manifest.project]].id = Project.id
      BY <1>9 DEF Excepted, OfOneProject, ProjectId, Project
    <3>2. UniqueId(Projects[history.projects[manifest.project]], r) = UniqueId(Project, s)
      BY <1>3, <3>1 DEF Alike, UniqueId, Claim
    <3> QED
      BY <2>1, <2>2, <2>6, <3>2
  <2>7. r.uid = s.uid
    BY <2>3, <2>4, <2>5, <2>6
  <2> QED
    BY <1>3, <1>4, <2>7, IdentityOf
<1> QED
  BY <1>8, <1>9

LEMMA KeptByStep ==
  ASSUME RecordInv, RecordInv', ApprovalsHold, Next, Excepted, NEW r, NEW s, OnlyOne(r, s)
  PROVE  RowIdentity(r, Format) = RowIdentity(s, Format')
<1>1. ASSUME UNCHANGED <<history, imported, package>>
      PROVE  RowIdentity(r, Format) = RowIdentity(s, Format')
  BY <1>1, KeptQuietly
<1>2. ASSUME NEW migrated, ImportProject(migrated)
      PROVE  RowIdentity(r, Format) = RowIdentity(s, Format')
  <2>1. package' = package
    BY <1>2 DEF ImportProject
  <2> QED
    BY <1>2, <2>1, KeptQuietly
<1>3. ASSUME NEW selection, NEW verified, Deploy(selection, verified)
      PROVE  RowIdentity(r, Format) = RowIdentity(s, Format')
  BY <1>3, KeptByDeploy
<1>4. ASSUME NEW yaml, AddManual(yaml)
      PROVE  RowIdentity(r, Format) = RowIdentity(s, Format')
  BY <1>4, KeptByManual
<1>5. ASSUME NEW yaml, CheckManual(yaml) PROVE UNCHANGED <<history, imported, package>>
  BY <1>5 DEF CheckManual
<1>6. ASSUME NEW row, EditHand(row) PROVE UNCHANGED <<history, imported, package>>
  BY <1>6 DEF EditHand
<1>7. ASSUME NEW a, AddInterface(a) PROVE UNCHANGED <<history, imported, package>>
  BY <1>7 DEF AddInterface
<1>8. ChangeCore \/ NewMapper => UNCHANGED <<history, imported, package>>
  BY DEF ChangeCore, NewMapper
<1> QED
  BY <1>1, <1>2, <1>3, <1>4, <1>5, <1>6, <1>7, <1>8 DEF Next

(* No upload, deployment, manual plan or edit gives a row that stays another  *)
(* identity, over any history of projects and versions of Home Assistant      *)
(* (deploy, _validate_import_identity, preserve_manual_plan).                 *)
THEOREM IdentitiesKept == Spec => IdentityKept
<1> DEFINE Kept == core' = core /\ OfOneProject /\ AsOnRecord =>
             \A r \in package, s \in package' :
               LET Same(x) == x.platform = r.platform /\ x.config = r.config IN
               Same(s) /\ (\A x \in package : Same(x) => x = r) /\ (\A x \in package' : Same(x) => x = s) =>
                 RowIdentity(r, Format) = RowIdentity(s, Format')
<1>1. RecordInv /\ RecordInv' /\ ApprovalsHold /\ [Next]_vars => [Kept]_vars
  <2> SUFFICES ASSUME RecordInv, RecordInv', ApprovalsHold, Next PROVE Kept
    OBVIOUS
  <2>1. ASSUME Excepted, NEW r, NEW s, OnlyOne(r, s)
        PROVE  RowIdentity(r, Format) = RowIdentity(s, Format')
    BY <2>1, KeptByStep
  <2> QED
    BY <2>1 DEF Excepted, OnlyOne, Alike
<1> QED
  BY <1>1, RecordHolds, Approvals, PTL DEF Spec, IdentityKept
----------------------------------------------------------------------------
(* The mapper: the functions of a project, one after another *)

LEMMA Induction ==
  ASSUME NEW T, 0 \in T, \A n \in Nat : n \in T => n + 1 \in T
  PROVE  \A n \in Nat : n \in T
<1> DEFINE Less == {pair \in Nat \X Nat : pair[1] < pair[2]}
           left == Nat \ T
<1>1. IsWellFoundedOn(Less, Nat)
  BY NatLessThanWellFounded DEF OpToRel
<1>2. \A x, y \in Nat : y < x => <<y, x>> \in Less
  OBVIOUS
<1>3. ASSUME left # {} PROVE FALSE
  <2> HIDE DEF Less
  <2>1. PICK x \in left : \A y \in left : <<y, x>> \notin Less
    BY <1>1, <1>3, WFMin
  <2>2. x \in Nat /\ x # 0 /\ x \notin T
    BY <2>1
  <2>3. x - 1 \in Nat /\ x - 1 < x /\ (x - 1) + 1 = x
    BY <2>2
  <2>4. x - 1 \in left
    BY <2>2, <2>3
  <2> QED
    BY <1>2, <2>1, <2>2, <2>3, <2>4
<1> QED
  BY <1>3

GroupOf(project, f) == [kind |-> f.kind, refs |-> Refs(project, f), scene |-> f.scene]
AfterFunction(project, q, i) == Grouped(q, project, "function", GroupOf(project, project.functions[i]))

(* The recursive function of FunctionGroups is one. *)
LEMMA FunctionsInOrder ==
  ASSUME NEW p, NEW project, Len(project.functions) \in Nat
  PROVE  \E after :
           /\ after[0] = p
           /\ \A i \in 0 .. Len(project.functions) - 1 : after[i + 1] = AfterFunction(project, after[i], i + 1)
           /\ FunctionGroups(p, project) = after[Len(project.functions)]
<1> DEFINE len == Len(project.functions)
           Is(g, n) == g = [i \in 0 .. n |-> IF i = 0 THEN p ELSE AfterFunction(project, g[i - 1], i)]
           T == {n \in Nat : \E g : Is(g, n)}
<1>1. 0 \in T
  <2> DEFINE g == [i \in 0 .. 0 |-> p]
  <2>1. Is(g, 0)
    OBVIOUS
  <2> QED
    BY <2>1
<1>2. ASSUME NEW n \in Nat, n \in T PROVE n + 1 \in T
  <2>1. PICK g : Is(g, n)
    BY <1>2
  <2> DEFINE h == [i \in 0 .. n + 1 |-> IF i = n + 1 THEN AfterFunction(project, g[n], n + 1) ELSE g[i]]
  <2>2. ASSUME NEW i \in 0 .. n + 1
        PROVE  h[i] = IF i = 0 THEN p ELSE AfterFunction(project, h[i - 1], i)
    <3>1. CASE i = n + 1
      <4>1. i - 1 = n /\ n \in 0 .. n + 1 /\ n # n + 1 /\ i # 0
        BY <3>1
      <4>2. h[n] = g[n]
        BY <4>1
      <4> QED
        BY <3>1, <4>1, <4>2
    <3>2. CASE i # n + 1
      <4>1. i \in 0 .. n /\ i - 1 # n + 1
        BY <3>2
      <4>2. h[i] = g[i]
        BY <3>2
      <4>3. i # 0 => i - 1 \in 0 .. n + 1 /\ h[i - 1] = g[i - 1]
        BY <4>1
      <4>4. g[i] = IF i = 0 THEN p ELSE AfterFunction(project, g[i - 1], i)
        BY <2>1, <4>1
      <4> QED
        BY <4>2, <4>3, <4>4
    <3> QED
      BY <3>1, <3>2
  <2>3. Is(h, n + 1)
    <3>1. h = [i \in 0 .. n + 1 |-> h[i]]
      OBVIOUS
    <3> HIDE DEF h
    <3> QED
      BY <2>2, <3>1
  <2>4. \E x : Is(x, n + 1)
    <3> HIDE DEF h, Is
    <3> QED
      BY <2>3
  <2> QED
    BY <2>4
<1>3. PICK g : Is(g, len)
  <2> HIDE DEF T
  <2>1. len \in T
    BY <1>1, <1>2, Induction
  <2> QED
    BY <2>1 DEF T
<1> DEFINE after == CHOOSE h : Is(h, len)
<1>4. Is(after, len)
  BY <1>3
<1>5. FunctionGroups(p, project) = after[len]
  BY DEF FunctionGroups, AfterFunction, GroupOf
<1> HIDE DEF after
<1>6. after[0] = p
  BY <1>4
<1>7. ASSUME NEW i \in 0 .. len - 1
      PROVE  after[i + 1] = AfterFunction(project, after[i], i + 1)
  <2>1. i + 1 \in 0 .. len /\ i + 1 # 0 /\ (i + 1) - 1 = i
    BY <1>7
  <2> QED
    BY <1>4, <2>1
<1> QED
  BY <1>5, <1>6, <1>7
----------------------------------------------------------------------------
(* What a group adds *)

IsPlan(p) ==
  p \in [dpts : {p.dpts}, blocked : {p.blocked}, conflicting : {p.conflicting},
         used : {p.used}, reserved : {p.reserved}, candidates : {p.candidates}]

(* A pass blocks and uses more, and adds candidates to those there are. *)
Grows(p, q) ==
  /\ IsPlan(q) /\ q.dpts = p.dpts
  /\ p.blocked \subseteq q.blocked /\ p.used \subseteq q.used /\ p.reserved \subseteq q.reserved
  /\ p.candidates \subseteq q.candidates

(* Which fields an entity of a platform has, as far as its identity needs. *)
Shaped(e) ==
  /\ \/ e.platform \in {"light", "switch", "button", "fan"} /\ "address" \in DOMAIN e.config
     \/ e.platform = "scene" /\ {"address", "scene_number"} \subseteq DOMAIN e.config
     \/ e.platform \in {"sensor", "binary_sensor"} /\ DOMAIN e.config = {"state"}
     \/ /\ e.platform = "cover" /\ "address" \notin DOMAIN e.config
        /\ {"move_long", "position"} \cap DOMAIN e.config # {}
     \/ /\ e.platform = "climate" /\ {"address", "move_long", "position"} \cap DOMAIN e.config = {}
        /\ \/ "target" \in DOMAIN e.config
           \/ e.source = "channel" /\ {"temperature", "target_state"} \subseteq DOMAIN e.config
  /\ "scene_number" \in DOMAIN e.config => e.platform = "scene"

(* The new ones are on addresses of a set, each on its own. *)
Gives(p, q, source, S) ==
  /\ Grows(p, q)
  /\ \A e \in q.candidates \ p.candidates :
       /\ e.source = source /\ Shaped(e)
       /\ Addresses(e.config) \subseteq S /\ Addresses(e.config) \subseteq q.used
  /\ \A e, f \in q.candidates \ p.candidates : e = f \/ Addresses(e.config) \cap Addresses(f.config) = {}

LEMMA AddAllIs ==
  ASSUME NEW p, IsPlan(p), NEW entities
  PROVE  LET q == AddAll(p, entities) IN
         /\ IsPlan(q) /\ q.dpts = p.dpts /\ q.blocked = p.blocked /\ q.reserved = p.reserved
         /\ q.candidates = p.candidates \cup entities
         /\ q.used = p.used \cup UNION {Addresses(e.config) : e \in entities}
  BY DEF IsPlan, AddAll

LEMMA BlockIs ==
  ASSUME NEW p, IsPlan(p), NEW S
  PROVE  Grows(p, Block(p, S)) /\ Block(p, S).candidates = p.candidates
  BY DEF IsPlan, Block, Grows

LEMMA AddAllGives ==
  ASSUME NEW p, IsPlan(p), NEW q, Grows(p, q), q.candidates = p.candidates,
         NEW source, NEW S, NEW entities,
         \A e \in entities : e.source = source /\ Shaped(e) /\ Addresses(e.config) \subseteq S,
         \A e, f \in entities : e = f \/ Addresses(e.config) \cap Addresses(f.config) = {}
  PROVE  Gives(p, AddAll(q, entities), source, S)
<1>1. IsPlan(q)
  BY DEF Grows
<1> DEFINE r == AddAll(q, entities)
<1>2. /\ IsPlan(r) /\ r.dpts = q.dpts /\ r.blocked = q.blocked /\ r.reserved = q.reserved
      /\ r.candidates = q.candidates \cup entities
      /\ r.used = q.used \cup UNION {Addresses(e.config) : e \in entities}
  BY <1>1, AddAllIs
<1> HIDE DEF r
<1>3. \A e \in r.candidates \ p.candidates : e \in entities
  BY <1>2
<1>4. Grows(p, r)
  BY <1>2 DEF Grows
<1>5. \A e \in entities : Addresses(e.config) \subseteq r.used
  BY <1>2
<1>6. \A e \in r.candidates \ p.candidates :
        e.source = source /\ Shaped(e) /\ Addresses(e.config) \subseteq S /\ Addresses(e.config) \subseteq r.used
  BY <1>3, <1>5
<1>7. \A e, f \in r.candidates \ p.candidates : e = f \/ Addresses(e.config) \cap Addresses(f.config) = {}
  BY <1>3
<1>8. Gives(p, r, source, S)
  BY <1>4, <1>6, <1>7 DEF Gives
<1> QED
  BY <1>8 DEF r

LEMMA AddressesIn ==
  ASSUME NEW config, NEW S, Range(config) \subseteq S
  PROVE  Addresses(config) \subseteq S
  BY DEF Addresses, Range

LEMMA RestrictIs ==
  ASSUME NEW f, NEW S, S \subseteq DOMAIN f
  PROVE  /\ DOMAIN Restrict(f, S) = S /\ \A x \in S : Restrict(f, S)[x] = f[x]
         /\ Range(Restrict(f, S)) \subseteq Range(f)
  BY DEF Restrict, Range

LEMMA KeepIs ==
  ASSUME NEW f, NEW S
  PROVE  /\ DOMAIN Keep(f, S) = DOMAIN f \cap S /\ \A x \in DOMAIN f \cap S : Keep(f, S)[x] = f[x]
         /\ Range(Keep(f, S)) \subseteq Range(f)
  BY RestrictIs, DOMAIN f \cap S \subseteq DOMAIN f DEF Keep

LEMMA DropIs ==
  ASSUME NEW f, NEW S
  PROVE  /\ DOMAIN Drop(f, S) = DOMAIN f \ S /\ \A x \in DOMAIN f \ S : Drop(f, S)[x] = f[x]
         /\ Range(Drop(f, S)) \subseteq Range(f)
  BY RestrictIs, DOMAIN f \ S \subseteq DOMAIN f DEF Drop

LEMMA WithIs ==
  ASSUME NEW f, NEW x, NEW a
  PROVE  /\ DOMAIN With(f, x, a) = DOMAIN f \cup {x} /\ With(f, x, a)[x] = a
         /\ \A y \in DOMAIN f \ {x} : With(f, x, a)[y] = f[y]
         /\ Range(With(f, x, a)) \subseteq Range(f) \cup {a}
  BY DEF With, Range

LEMMA RenameRange ==
  ASSUME NEW f, NEW old, NEW new
  PROVE  Range(Rename(f, old, new)) \subseteq Range(f)
<1>1. CASE old \in DOMAIN f
  <2>1. f[old] \in Range(f)
    BY <1>1 DEF Range
  <2>2. Range(With(Drop(f, {old}), new, f[old])) \subseteq Range(f)
    <3>1. Range(Drop(f, {old})) \subseteq Range(f)
      BY DropIs
    <3>2. Range(With(Drop(f, {old}), new, f[old])) \subseteq Range(Drop(f, {old})) \cup {f[old]}
      BY WithIs
    <3> QED
      BY <2>1, <3>1, <3>2
  <2> QED
    BY <1>1, <2>2 DEF Rename
<1> QED
  BY <1>1 DEF Rename

(* An entity has the addresses of its fields. *)
LEMMA EntityFields ==
  ASSUME NEW p, NEW kind, NEW fields, NEW scene
  PROVE  Addresses(EntityOf(p, kind, fields, scene).config) \subseteq Range(fields)
<1> DEFINE Good(e) == Addresses(e.config) \subseteq Range(fields)
<1>1. ASSUME NEW platform, NEW config, Addresses(config) \subseteq Range(fields)
      PROVE  Good(Entity(platform, config))
  BY <1>1 DEF Entity, Refused, Addresses
<1>2. Good(Nothing) /\ Good(Refused)
  BY DEF Nothing, Refused, Addresses
<1>3. Addresses(fields) \subseteq Range(fields)
  BY AddressesIn
<1>4. Good(Climate(p, fields))
  <2> DEFINE named == Rename(Rename(fields, "address", "on_off"), "state", "on_off_state")
  <2>1. Addresses(named) \subseteq Range(fields)
    BY RenameRange, AddressesIn
  <2> HIDE DEF named, Good
  <2>2. Good(Entity("climate", named))
    BY <1>1, <2>1
  <2> QED
    BY <1>2, <2>2 DEF Climate, named
<1>5. Good(Fan(fields))
  <2> DEFINE named == Rename(Rename(fields, "address", "switch"), "state", "switch_state")
             whole == Rename(Rename(named, "step", "address"), "step_state", "state")
  <2>1. Range(named) \subseteq Range(fields)
    BY RenameRange
  <2> HIDE DEF named
  <2>2. Range(whole) \subseteq Range(named)
    BY RenameRange
  <2> HIDE DEF whole
  <2>3. Good(Entity("fan", whole))
    BY <1>1, <2>1, <2>2, AddressesIn
  <2> HIDE DEF Good
  <2> QED
    BY <2>3 DEF Fan, named, whole
<1>6. Good(Switch(p, kind, fields))
  <2> HIDE DEF Good
  <2>1. Good(Entity("light", fields)) /\ Good(Entity("switch", fields)) /\ Good(Entity("cover", fields))
    BY <1>1, <1>3
  <2> QED
    BY <1>2, <2>1 DEF Switch
<1>7. Good(Entity("cover", fields))
  BY <1>1, <1>3
<1>8. Good(Entity("scene", With(fields, "scene_number", scene)))
  <2>1. Addresses(With(fields, "scene_number", scene)) \subseteq Range(fields)
    <3> DEFINE c == With(fields, "scene_number", scene)
    <3>1. \A f \in DOMAIN c \ {"scene_number"} : f \in DOMAIN fields /\ c[f] = fields[f]
      BY DEF With
    <3> HIDE DEF c
    <3>2. Addresses(c) \subseteq Range(fields)
      BY <3>1 DEF Addresses, Numbers, Range
    <3> QED
      BY <3>2 DEF c
  <2> QED
    BY <1>1, <2>1
<1> HIDE DEF Good
<1>9. Good(EntityOf(p, kind, fields, scene))
  BY <1>2, <1>4, <1>5, <1>6, <1>7, <1>8, Zenon DEF EntityOf
<1> QED
  BY <1>9 DEF Good

LEMMA RenameDomain ==
  ASSUME NEW f, NEW old, NEW new
  PROVE  DOMAIN Rename(f, old, new) = IF old \in DOMAIN f THEN (DOMAIN f \ {old}) \cup {new} ELSE DOMAIN f
<1>1. CASE old \in DOMAIN f
  <2>1. DOMAIN Drop(f, {old}) = DOMAIN f \ {old}
    BY DropIs
  <2>2. DOMAIN With(Drop(f, {old}), new, f[old]) = DOMAIN Drop(f, {old}) \cup {new}
    BY WithIs
  <2> QED
    BY <1>1, <2>1, <2>2 DEF Rename
<1> QED
  BY <1>1 DEF Rename

(* And it has the fields that its platform needs. *)
LEMMA EntityShape ==
  ASSUME NEW p, NEW kind, NEW fields, NEW scene, NEW source,
         EntityOf(p, kind, fields, scene).platform \notin {"none", "refused"}
  PROVE  Shaped(Candidate(source, EntityOf(p, kind, fields, scene).platform, EntityOf(p, kind, fields, scene).config))
<1> DEFINE Good(e) == e.platform \in {"none", "refused"} \/ Shaped(Candidate(source, e.platform, e.config))
<1>1. Good(Nothing) /\ Good(Refused)
  BY DEF Nothing, Refused
<1>2. ASSUME NEW platform, NEW config, Shaped(Candidate(source, platform, config))
      PROVE  Good(Entity(platform, config))
  BY <1>2 DEF Entity, Refused
<1>3. ASSUME NEW platform \in DOMAIN Allowed, NEW config, ~(DOMAIN config \subseteq Allowed[platform])
      PROVE  Good(Entity(platform, config))
  BY <1>3 DEF Entity, Refused
<1>4. Good(Climate(p, fields))
  <2> DEFINE once == Rename(fields, "address", "on_off")
             named == Rename(once, "state", "on_off_state")
  <2>1. ASSUME "target" \in DOMAIN fields PROVE "target" \in DOMAIN named
    <3>1. DOMAIN once = IF "address" \in DOMAIN fields THEN (DOMAIN fields \ {"address"}) \cup {"on_off"}
                        ELSE DOMAIN fields
      BY RenameDomain
    <3> HIDE DEF once
    <3>2. DOMAIN named = IF "state" \in DOMAIN once THEN (DOMAIN once \ {"state"}) \cup {"on_off_state"}
                         ELSE DOMAIN once
      BY RenameDomain
    <3> QED
      BY <2>1, <3>1, <3>2
  <2>2. Climate(p, fields) \in {Nothing, Refused}
        \/ ("target" \in DOMAIN fields /\ Climate(p, fields) = Entity("climate", named))
    BY DEF Climate
  <2> HIDE DEF named, once
  <2>3. ASSUME "target" \in DOMAIN named PROVE Good(Entity("climate", named))
    <3>1. CASE DOMAIN named \subseteq Allowed["climate"]
      BY <1>2, <2>3, <3>1 DEF Shaped, Candidate, Allowed
    <3>2. CASE ~(DOMAIN named \subseteq Allowed["climate"])
      BY <1>3, <3>2 DEF Allowed
    <3> QED
      BY <3>1, <3>2
  <2> HIDE DEF Good
  <2> QED
    BY <1>1, <2>1, <2>2, <2>3
<1>5. ASSUME "step" \in DOMAIN fields PROVE Good(Fan(fields))
  <2> DEFINE once == Rename(fields, "address", "switch")
             named == Rename(once, "state", "switch_state")
             moved == Rename(named, "step", "address")
             whole == Rename(moved, "step_state", "state")
  <2>1. Fan(fields) = Entity("fan", whole)
    BY DEF Fan
  <2>2. "step" \in DOMAIN once
    <3>1. DOMAIN once = IF "address" \in DOMAIN fields THEN (DOMAIN fields \ {"address"}) \cup {"switch"}
                        ELSE DOMAIN fields
      BY RenameDomain
    <3> QED
      BY <1>5, <3>1
  <2> HIDE DEF once
  <2>3. "step" \in DOMAIN named
    <3>1. DOMAIN named = IF "state" \in DOMAIN once THEN (DOMAIN once \ {"state"}) \cup {"switch_state"}
                         ELSE DOMAIN once
      BY RenameDomain
    <3> QED
      BY <2>2, <3>1
  <2> HIDE DEF named
  <2>4. "address" \in DOMAIN moved
    <3>1. DOMAIN moved = IF "step" \in DOMAIN named THEN (DOMAIN named \ {"step"}) \cup {"address"}
                         ELSE DOMAIN named
      BY RenameDomain
    <3> QED
      BY <2>3, <3>1
  <2> HIDE DEF moved
  <2>5. "address" \in DOMAIN whole
    <3>1. DOMAIN whole = IF "step_state" \in DOMAIN moved THEN (DOMAIN moved \ {"step_state"}) \cup {"state"}
                         ELSE DOMAIN moved
      BY RenameDomain
    <3> QED
      BY <2>4, <3>1
  <2> HIDE DEF whole
  <2>6. Good(Entity("fan", whole))
    <3>1. CASE DOMAIN whole \subseteq Allowed["fan"]
      BY <1>2, <2>5, <3>1 DEF Shaped, Candidate, Allowed
    <3>2. CASE ~(DOMAIN whole \subseteq Allowed["fan"])
      BY <1>3, <3>2 DEF Allowed
    <3> QED
      BY <3>1, <3>2
  <2> QED
    BY <2>1, <2>6
<1>6. ASSUME "address" \in DOMAIN fields, NEW platform \in {"light", "switch"}
      PROVE  Good(Entity(platform, fields))
  <2>1. CASE DOMAIN fields \subseteq Allowed[platform]
    BY <1>2, <1>6, <2>1 DEF Shaped, Candidate, Allowed
  <2>2. CASE ~(DOMAIN fields \subseteq Allowed[platform])
    BY <1>3, <1>6, <2>2 DEF Allowed
  <2> QED
    BY <2>1, <2>2
<1>7. ASSUME "address" \in DOMAIN fields PROVE Good(Switch(p, kind, fields))
  <2>1. Good(Entity("light", fields)) /\ Good(Entity("switch", fields))
    BY <1>6, <1>7
  <2> HIDE DEF Good
  <2> QED
    BY <1>1, <2>1 DEF Switch
<1>8. ASSUME {"move_long", "position"} \cap DOMAIN fields # {} PROVE Good(Entity("cover", fields))
  <2>1. CASE DOMAIN fields \subseteq Allowed["cover"]
    BY <1>2, <1>8, <2>1 DEF Shaped, Candidate, Allowed
  <2>2. CASE ~(DOMAIN fields \subseteq Allowed["cover"])
    BY <1>3, <2>2 DEF Allowed
  <2> QED
    BY <2>1, <2>2
<1>9. ASSUME "address" \in DOMAIN fields PROVE Good(Entity("scene", With(fields, "scene_number", scene)))
  <2>1. DOMAIN With(fields, "scene_number", scene) = DOMAIN fields \cup {"scene_number"}
    BY DEF With
  <2> QED
    BY <1>2, <1>9, <2>1 DEF Shaped, Candidate
<1> HIDE DEF Good
<1>10. Good(EntityOf(p, kind, fields, scene))
  BY <1>1, <1>4, <1>5, <1>7, <1>8, <1>9, Zenon DEF EntityOf
<1> QED
  BY <1>10 DEF Good

(* The addresses of a group that no check refuses. *)
Fit(p, project, group) ==
  {a \in DOMAIN project.groups \ p.blocked : \E ref \in group.refs : ref[2] = a}

LEMMA CurtainGives ==
  ASSUME NEW p, IsPlan(p), NEW source, NEW fields, NEW mentioned
  PROVE  Gives(p, Curtain(p, source, fields, mentioned), source, Range(fields))
<1> DEFINE walls == Keep(fields, Walls)
           relays == Drop(fields, Walls)
           apart == [p EXCEPT !.reserved = @ \cup Range(walls)]
           taken == [p EXCEPT !.reserved = @ \cup Range(relays)]
           wall == Candidate(source, "cover", Rename(walls, "move_short", "stop"))
           buttons == {Candidate(source, "button", [address |-> a]) : a \in Range(relays)}
<1>1. Range(walls) \subseteq Range(fields) /\ Range(relays) \subseteq Range(fields)
  BY KeepIs, DropIs
<1>2. Grows(p, apart) /\ apart.candidates = p.candidates
  BY DEF IsPlan, Grows
<1>3. Grows(p, taken) /\ taken.candidates = p.candidates
  BY DEF IsPlan, Grows
<1>4. /\ wall.source = source /\ Addresses(wall.config) \subseteq Range(fields)
      /\ DOMAIN walls = Walls => Shaped(wall)
  <2>1. Range(Rename(walls, "move_short", "stop")) \subseteq Range(fields)
    BY <1>1, RenameRange
  <2>2. Addresses(Rename(walls, "move_short", "stop")) \subseteq Range(fields)
    BY <2>1, AddressesIn
  <2>3. ASSUME DOMAIN walls = Walls PROVE DOMAIN Rename(walls, "move_short", "stop") = {"move_long", "stop"}
    <3>1. DOMAIN Rename(walls, "move_short", "stop") =
            IF "move_short" \in DOMAIN walls THEN (DOMAIN walls \ {"move_short"}) \cup {"stop"} ELSE DOMAIN walls
      BY RenameDomain
    <3> QED
      BY <2>3, <3>1 DEF Walls
  <2> HIDE DEF walls
  <2> QED
    BY <2>2, <2>3 DEF Candidate, Shaped
<1>5. ASSUME NEW e \in buttons
      PROVE  /\ e.source = source /\ Shaped(e)
             /\ \E a \in Range(fields) :
                  Addresses(e.config) = {a} /\ e = Candidate(source, "button", [address |-> a])
  <2>1. PICK a \in Range(relays) : e = Candidate(source, "button", [address |-> a])
    BY <1>5
  <2>2. Addresses([address |-> a]) = {a}
    BY DEF Addresses, Numbers
  <2> QED
    BY <1>1, <2>1, <2>2 DEF Candidate, Shaped
<1> HIDE DEF walls, relays, apart, taken, wall, buttons
<1>6. ASSUME DOMAIN walls = Walls PROVE Gives(p, Add(taken, wall), source, Range(fields))
  BY <1>3, <1>4, <1>6, AddAllGives DEF Add
<1>7. Gives(p, AddAll(apart, buttons), source, Range(fields))
  BY <1>2, <1>5, AddAllGives
<1>8. Gives(p, Block(apart, mentioned), source, Range(fields))
  <2>1. IsPlan(apart)
    BY <1>2 DEF Grows
  <2>2. Grows(apart, Block(apart, mentioned)) /\ Block(apart, mentioned).candidates = apart.candidates
    BY <2>1, BlockIs
  <2> QED
    BY <1>2, <2>2 DEF Gives, Grows
<1> QED
  BY <1>6, <1>7, <1>8, Zenon DEF Curtain, walls, relays, apart, taken, wall, buttons

LEMMA GroupedGives ==
  ASSUME NEW p, IsPlan(p), NEW project, NEW source, NEW group
  PROVE  Gives(p, Grouped(p, project, source, group), source, Fit(p, project, group))
<1> DEFINE known == {ref \in group.refs : IsRole(ref[1])}
           mentioned == {ref[2] : ref \in group.refs} \cap DOMAIN project.groups
           fields == [f \in {Field(ref[1]) : ref \in known} |-> The({ref \in known : Field(ref[1]) = f})[2]]
           entity == EntityOf(p, group.kind, fields, group.scene)
           whole == Candidate(source, entity.platform, entity.config)
           S == Fit(p, project, group)
<1>1. Gives(p, p, source, S)
  BY DEF Gives, Grows
<1>2. Gives(p, Block(p, mentioned), source, S)
  BY BlockIs DEF Gives
<1>3. ASSUME ~Contradicted(p, project, known) PROVE Range(fields) \subseteq S
  <2>1. ASSUME NEW f \in DOMAIN fields PROVE fields[f] \in S
    <3>1. PICK ref \in known : ref = The({r \in known : Field(r[1]) = f})
      BY DEF The
    <3>2. ref \in group.refs /\ ref[2] \in DOMAIN project.groups \ p.blocked
      BY <1>3, <3>1 DEF Contradicted
    <3> QED
      BY <3>1, <3>2 DEF Fit
  <2> HIDE DEF fields, S
  <2> QED
    BY <2>1 DEF Range
<1>4. ASSUME Range(fields) \subseteq S
      PROVE  Gives(p, Curtain(p, source, fields, mentioned), source, S)
  <2> HIDE DEF fields, S, mentioned
  <2>1. Gives(p, Curtain(p, source, fields, mentioned), source, Range(fields))
    BY CurtainGives
  <2> QED
    BY <1>4, <2>1 DEF Gives
<1>5. ASSUME Range(fields) \subseteq S, entity.platform \notin {"none", "refused"}
      PROVE  Gives(p, Add(p, whole), source, S)
  <2>1. whole.source = source /\ whole.config = entity.config
    BY DEF Candidate
  <2>2. Shaped(whole)
    BY <1>5, EntityShape
  <2>3. Addresses(entity.config) \subseteq Range(fields)
    BY EntityFields
  <2>4. Grows(p, p)
    BY DEF Grows
  <2> HIDE DEF entity, fields, S, whole
  <2>5. Addresses(whole.config) \subseteq S
    BY <1>5, <2>1, <2>3
  <2> QED
    BY <2>1, <2>2, <2>4, <2>5, AddAllGives DEF Add
<1> DEFINE q == Grouped(p, project, source, group)
<1>6. \/ q = Block(p, mentioned) \/ q = p
      \/ ~Contradicted(p, project, known) /\ q = Curtain(p, source, fields, mentioned)
      \/ /\ ~Contradicted(p, project, known) /\ q = Add(p, whole)
         /\ entity.platform # "none" /\ entity.platform # "refused"
  BY Zenon DEF Grouped
<1> HIDE DEF q, S, known, mentioned, fields, whole, entity
<1>7. Gives(p, q, source, S)
  BY <1>1, <1>2, <1>3, <1>4, <1>5, <1>6
<1> QED
  BY <1>7 DEF q, S
----------------------------------------------------------------------------
(* The invariant of the passes, and the first of them *)

Apart(e, f) ==
  \/ e = f \/ Addresses(e.config) \cap Addresses(f.config) = {}
  \/ e.source = "function" /\ f.source = "function"
  \/ e.source = "scene" /\ f.source = "scene" /\ Number(e.config) # Number(f.config)
OneChannel(project, e) ==
  e.source = "channel" =>
    \A f, g \in DOMAIN e.config :
      /\ Channels(project, e.config[f], f \in States) = Channels(project, e.config[g], g \in States)
      /\ Cardinality(Channels(project, e.config[f], f \in States)) = 1
Evident(project, e) ==
  \A a \in Addresses(e.config) :
    \/ Settled(Group(project, a)) \/ e.source = "scene"
    \/ e.source = "channel" /\ DptChoices(Group(project, a)) \subseteq Bits
Formed(project, e) == Shaped(e) /\ Addresses(e.config) \subseteq DOMAIN project.groups

Sound(p, project) ==
  /\ IsPlan(p)
  /\ \A e \in p.candidates : /\ Addresses(e.config) \subseteq p.used /\ Formed(project, e)
                              /\ OneChannel(project, e) /\ Evident(project, e)
  /\ \A e, f \in p.candidates : Apart(e, f)

(* What is not blocked has a settled type: before the dialects, everywhere; *)
(* and after them, where an address is still free.                         *)
SettledTypes(p, project) ==
  \A a \in DOMAIN project.groups \ p.blocked : Settled(Group(project, a)) /\ a \in DOMAIN p.dpts
Known(p, project) == \A a \in Free(p, project) \ p.blocked : Settled(Group(project, a))

(* A pass over addresses that nothing uses. *)
LEMMA PassSound ==
  ASSUME NEW project, NEW p, Sound(p, project), NEW q, IsPlan(q), p.used \subseteq q.used,
         NEW new, q.candidates \subseteq p.candidates \cup new,
         \A e \in new : /\ Addresses(e.config) \subseteq q.used /\ Addresses(e.config) \cap p.used = {}
                        /\ Formed(project, e) /\ OneChannel(project, e) /\ Evident(project, e),
         \A e, f \in new : Apart(e, f)
  PROVE  Sound(q, project)
<1>1. ASSUME NEW e \in p.candidates \cup new
      PROVE  /\ Addresses(e.config) \subseteq q.used /\ Formed(project, e)
             /\ OneChannel(project, e) /\ Evident(project, e)
  BY DEF Sound
<1>2. ASSUME NEW e \in p.candidates \cup new, NEW f \in p.candidates \cup new
      PROVE  Apart(e, f)
  <2>1. CASE e \in p.candidates /\ f \in p.candidates
    BY <2>1 DEF Sound
  <2>2. CASE e \in new /\ f \in new
    BY <2>2
  <2>3. CASE e \in p.candidates /\ f \in new
    BY <2>3 DEF Sound, Apart
  <2>4. CASE e \in new /\ f \in p.candidates
    BY <2>4 DEF Sound, Apart
  <2> QED
    BY <1>2, <2>1, <2>2, <2>3, <2>4
<1> QED
  BY <1>1, <1>2 DEF Sound

FunctionsInv(p, project) ==
  /\ IsPlan(p) /\ SettledTypes(p, project)
  /\ \A e \in p.candidates :
       /\ e.source = "function" /\ Addresses(e.config) \subseteq p.used /\ Formed(project, e)
       /\ \A a \in Addresses(e.config) : Settled(Group(project, a))

LEMMA LoadInv == ASSUME NEW project PROVE FunctionsInv(Load(project), project)
<1>1. IsPlan(Load(project)) /\ Load(project).candidates = {}
  BY DEF Load, IsPlan
<1>2. SettledTypes(Load(project), project)
  BY DEF Load, SettledTypes, Group
<1> QED
  BY <1>1, <1>2 DEF FunctionsInv

LEMMA AfterFunctionInv ==
  ASSUME NEW project, NEW p, FunctionsInv(p, project), NEW i
  PROVE  FunctionsInv(AfterFunction(project, p, i), project)
<1> DEFINE group == GroupOf(project, project.functions[i])
           q == AfterFunction(project, p, i)
<1>1. Gives(p, q, "function", Fit(p, project, group))
  BY GroupedGives DEF FunctionsInv, AfterFunction
<1> HIDE DEF q, group
<1>2. Grows(p, q)
  BY <1>1 DEF Gives
<1>3. SettledTypes(q, project)
  BY <1>2 DEF Grows, SettledTypes, FunctionsInv
<1>4. ASSUME NEW e \in q.candidates
      PROVE  /\ e.source = "function" /\ Addresses(e.config) \subseteq q.used /\ Formed(project, e)
             /\ \A a \in Addresses(e.config) : Settled(Group(project, a))
  <2>1. CASE e \in p.candidates
    BY <1>2, <2>1 DEF FunctionsInv, Grows
  <2>2. CASE e \notin p.candidates
    <3>1. /\ e.source = "function" /\ Addresses(e.config) \subseteq q.used /\ Shaped(e)
          /\ Addresses(e.config) \subseteq Fit(p, project, group)
      BY <1>1, <1>4, <2>2 DEF Gives
    <3>2. \A a \in Fit(p, project, group) : Settled(Group(project, a))
      BY DEF Fit, FunctionsInv, SettledTypes
    <3>3. Formed(project, e)
      BY <3>1 DEF Formed, Fit
    <3> QED
      BY <3>1, <3>2, <3>3
  <2> QED
    BY <2>1, <2>2
<1>5. FunctionsInv(q, project)
  BY <1>2, <1>3, <1>4 DEF FunctionsInv, Grows
<1> QED
  BY <1>5 DEF q

LEMMA FunctionsSound ==
  ASSUME NEW project, Len(project.functions) \in Nat
  PROVE  LET p == FunctionGroups(Load(project), project) IN
         Sound(p, project) /\ SettledTypes(p, project)
<1> DEFINE len == Len(project.functions)
           p == FunctionGroups(Load(project), project)
<1>1. PICK after :
        /\ after[0] = Load(project)
        /\ \A i \in 0 .. len - 1 : after[i + 1] = AfterFunction(project, after[i], i + 1)
        /\ p = after[len]
  BY FunctionsInOrder
<1> HIDE DEF p
<1> DEFINE T == {n \in Nat : n <= len => FunctionsInv(after[n], project)}
<1>2. 0 \in T
  BY <1>1, LoadInv
<1>3. ASSUME NEW n \in Nat, n \in T PROVE n + 1 \in T
  <2>1. CASE n + 1 <= len
    <3>1. n \in 0 .. len - 1 /\ n <= len
      BY <2>1
    <3>2. FunctionsInv(AfterFunction(project, after[n], n + 1), project)
      BY <1>3, <3>1, AfterFunctionInv
    <3> QED
      BY <1>1, <3>1, <3>2
  <2> QED
    BY <2>1
<1> HIDE DEF T
<1>4. len \in T
  BY <1>2, <1>3, Induction
<1>5. FunctionsInv(p, project)
  BY <1>1, <1>4 DEF T
<1>6. Sound(p, project) /\ SettledTypes(p, project)
  BY <1>5 DEF FunctionsInv, Sound, Apart, OneChannel, Evident
<1> QED
  BY <1>6 DEF p
----------------------------------------------------------------------------
(* The dialects: what a group is, and the bonds of its commands *)

PrefixAt(project, a) == Prefix(Group(project, a))
WordAt(project, dialect, a) == Alias(Group(project, a).name.word, dialect)

LEMMA FiniteTriple == ASSUME NEW a, NEW b, NEW c PROVE IsFiniteSet({a, b, c})
<1>1. IsFiniteSet({a}) /\ IsFiniteSet({b}) /\ IsFiniteSet({c})
  BY FS_Singleton
<1>2. IsFiniteSet({a} \cup {b})
  BY <1>1, FS_Union
<1>3. IsFiniteSet(({a} \cup {b}) \cup {c})
  BY <1>1, <1>2, FS_Union
<1>4. ({a} \cup {b}) \cup {c} = {a, b, c}
  OBVIOUS
<1> QED
  BY <1>3, <1>4

LEMMA FieldFacts ==
  ASSUME NEW dialect
  PROVE  LET field == FieldOf(dialect) IN
         /\ IsFiniteSet(Range(field)) /\ {"SW", "SW_FB"} \subseteq DOMAIN field
         /\ field["SW"] \notin States
         /\ \A w \in DOMAIN field \ {"SW"} : field[w] # field["SW"] /\ (w \in Feedback <=> field[w] \in States)
         /\ \A w \in DOMAIN field : field[w] = field["SW_FB"] => w = "SW_FB"
<1>1. CASE dialect = "climate"
  <2>1. FieldOf(dialect) = ClimateField
    BY <1>1 DEF FieldOf
  <2>2. Range(ClimateField) \subseteq {"on_off", "on_off_state", "mode", "mode_state", "fan", "fan_state",
                                       "target", "target_state", "temperature"}
    BY DEF ClimateField, Range
  <2>3. IsFiniteSet({"on_off", "on_off_state", "mode"} \cup {"mode_state", "fan", "fan_state"}
                     \cup {"target", "target_state", "temperature"})
    BY FiniteTriple, FS_Union
  <2>4. IsFiniteSet(Range(ClimateField))
    BY <2>2, <2>3, FS_Subset
  <2> QED
    BY <2>1, <2>4 DEF ClimateField, Feedback, States
<1>2. CASE dialect # "climate"
  <2>1. FieldOf(dialect) = AbbreviatedField
    BY <1>2 DEF FieldOf
  <2>2. Range(AbbreviatedField) \subseteq {"address", "state", "brightness", "brightness_state",
                                           "color", "color_state"}
    BY DEF AbbreviatedField, Range
  <2>3. IsFiniteSet({"address", "state", "brightness"} \cup {"brightness_state", "color", "color_state"})
    BY FiniteTriple, FS_Union
  <2>4. IsFiniteSet(Range(AbbreviatedField))
    BY <2>2, <2>3, FS_Subset
  <2> QED
    BY <2>1, <2>4 DEF AbbreviatedField, Feedback, States
<1> QED
  BY <1>1, <1>2

LEMMA GroupingIs ==
  ASSUME NEW p, NEW project, NEW x, NEW dialect
  PROVE  LET g == Grouping(p, project, x, dialect) IN
         /\ g.prefix = x /\ g.field = FieldOf(dialect) /\ DOMAIN g.roles = DOMAIN FieldOf(dialect)
         /\ \A w \in DOMAIN FieldOf(dialect) : \A a :
              a \in g.roles[w] <=> a \in Free(p, project) /\ PrefixAt(project, a) = x
                                   /\ WordAt(project, dialect, a) = w
  BY DEF Grouping, PrefixAt, WordAt

(* The addresses that a command could take for a word. *)
Near(project, g, c, w, a) ==
  w \in DOMAIN g.roles \ {"SW"} /\ a \in g.roles[w] \ Rivals(g) /\ SameChannel(project, c, a, w)

LEMMA BondIs ==
  ASSUME NEW p, NEW project, NEW g, NEW b \in Bonds(p, project, g)
  PROVE  /\ b.command \in Commands(p, project, g.roles["SW"])
         /\ Near(project, g, b.command, b.word, b.address)
         /\ \A a : Near(project, g, b.command, b.word, a) => a = b.address
<1> DEFINE C == Commands(p, project, g.roles["SW"])
           all == [command : C, word : DOMAIN g.roles \ {"SW"}, address : UNION Range(g.roles)]
           near == {o \in all : /\ o.address \in g.roles[o.word] \ Rivals(g)
                                /\ SameChannel(project, o.command, o.address, o.word)}
<1>1. b \in near /\ \A o \in near : o.command = b.command /\ o.word = b.word => o = b
  BY DEF Bonds
<1>2. b.command \in C /\ Near(project, g, b.command, b.word, b.address)
  BY <1>1 DEF Near
<1>3. ASSUME NEW a, Near(project, g, b.command, b.word, a) PROVE a = b.address
  <2> DEFINE o == [command |-> b.command, word |-> b.word, address |-> a]
  <2>1. a \in UNION Range(g.roles)
    BY <1>3 DEF Near, Range
  <2>2. o \in near
    BY <1>2, <1>3, <2>1 DEF Near
  <2>3. o = b
    BY <1>1, <2>2
  <2> QED
    BY <2>3
<1> QED
  BY <1>2, <1>3

LEMMA IsBond ==
  ASSUME NEW p, NEW project, NEW g, NEW c \in Commands(p, project, g.roles["SW"]), NEW w, NEW a,
         Near(project, g, c, w, a), \A o : Near(project, g, c, w, o) => o = a
  PROVE  \E b \in Bonds(p, project, g) : b.command = c /\ b.word = w /\ b.address = a
<1> DEFINE C == Commands(p, project, g.roles["SW"])
           all == [command : C, word : DOMAIN g.roles \ {"SW"}, address : UNION Range(g.roles)]
           near == {o \in all : /\ o.address \in g.roles[o.word] \ Rivals(g)
                                /\ SameChannel(project, o.command, o.address, o.word)}
           b == [command |-> c, word |-> w, address |-> a]
<1>1. a \in UNION Range(g.roles)
  BY DEF Near, Range
<1>2. b \in near
  BY <1>1 DEF Near
<1>3. ASSUME NEW o \in near, o.command = b.command, o.word = b.word PROVE o = b
  <2>1. o.command = c /\ o.word = w /\ o \in all
    BY <1>3
  <2>2. Near(project, g, c, w, o.address)
    BY <1>3, <2>1 DEF Near
  <2>3. o.address = a
    BY <2>2
  <2>4. o = [command |-> o.command, word |-> o.word, address |-> o.address]
    BY <2>1
  <2> QED
    BY <2>1, <2>3, <2>4
<1>4. b \in Bonds(p, project, g)
  BY <1>2, <1>3 DEF Bonds
<1> QED
  BY <1>4

(* The fields of a command are the bonds that fit. *)
Fitting(p, project, g, c, b) ==
  /\ b \in Bonds(p, project, g) /\ b.command = c /\ b.address \notin p.blocked
  /\ p.dpts[b.address] \in Expected(g.field[b.word])

LEMMA FieldsAre ==
  ASSUME NEW s, NEW project, NEW p, NEW x, NEW dialect, NEW g, g = Grouping(p, project, x, dialect), NEW c
  PROVE  LET F == FieldsOf(s, project, g, c) IN
         /\ g.field["SW"] \in DOMAIN F /\ F[g.field["SW"]] = c
         /\ DOMAIN F \subseteq Range(FieldOf(dialect)) /\ IsFiniteSet(DOMAIN F)
         /\ \A f \in DOMAIN F \ {g.field["SW"]} :
              \E b : Fitting(s, project, g, c, b) /\ g.field[b.word] = f /\ F[f] = b.address
         /\ \A b : Fitting(s, project, g, c, b) => g.field[b.word] \in DOMAIN F
<1> DEFINE fitting == {b \in Bonds(s, project, g) :
                         /\ b.command = c /\ b.address \notin s.blocked
                         /\ s.dpts[b.address] \in Expected(g.field[b.word])}
           bound == [f \in {g.field[b.word] : b \in fitting} |->
                       The({b \in fitting : g.field[b.word] = f}).address]
           F == FieldsOf(s, project, g, c)
<1>1. F = With(bound, g.field["SW"], c)
  BY DEF FieldsOf
<1>2. \A b : b \in fitting <=> Fitting(s, project, g, c, b)
  BY DEF Fitting
<1>3. ASSUME NEW f \in DOMAIN bound
      PROVE  \E b \in fitting : g.field[b.word] = f /\ bound[f] = b.address
  <2>1. \E o : o \in {b \in fitting : g.field[b.word] = f}
    OBVIOUS
  <2>2. The({b \in fitting : g.field[b.word] = f}) \in {b \in fitting : g.field[b.word] = f}
    BY <2>1 DEF The
  <2> QED
    BY <2>2
<1>4. \A b \in fitting : g.field[b.word] \in DOMAIN bound
  OBVIOUS
<1> HIDE DEF bound, F, fitting
<1>5. /\ DOMAIN F = DOMAIN bound \cup {g.field["SW"]} /\ F[g.field["SW"]] = c
      /\ \A f \in DOMAIN bound \ {g.field["SW"]} : F[f] = bound[f]
  <2> DEFINE sw == g.field["SW"]
  <2> HIDE DEF sw
  <2>1. /\ DOMAIN With(bound, sw, c) = DOMAIN bound \cup {sw} /\ With(bound, sw, c)[sw] = c
        /\ \A f \in DOMAIN bound \ {sw} : With(bound, sw, c)[f] = bound[f]
    BY DEF With
  <2> QED
    BY <1>1, <2>1 DEF sw
<1>6. DOMAIN F \subseteq Range(FieldOf(dialect)) /\ IsFiniteSet(DOMAIN F)
  <2>1. /\ g.field = FieldOf(dialect) /\ DOMAIN g.roles = DOMAIN FieldOf(dialect)
        /\ IsFiniteSet(Range(FieldOf(dialect))) /\ "SW" \in DOMAIN FieldOf(dialect)
    BY GroupingIs, FieldFacts
  <2>2. \A b \in fitting : b.word \in DOMAIN FieldOf(dialect)
    <3> TAKE b \in fitting
    <3>1. b \in Bonds(s, project, g)
      BY DEF fitting
    <3>2. Near(project, g, b.command, b.word, b.address)
      BY <3>1, BondIs
    <3> QED
      BY <2>1, <3>2 DEF Near
  <2>3. DOMAIN F \subseteq Range(FieldOf(dialect))
    BY <1>3, <1>5, <2>1, <2>2 DEF Range
  <2> QED
    BY <2>1, <2>3, FS_Subset
<1>7. ASSUME NEW f \in DOMAIN F \ {g.field["SW"]}
      PROVE  \E b : Fitting(s, project, g, c, b) /\ g.field[b.word] = f /\ F[f] = b.address
  BY <1>2, <1>3, <1>5
<1>8. \A b : Fitting(s, project, g, c, b) => g.field[b.word] \in DOMAIN F
  BY <1>2, <1>4, <1>5
<1> QED
  BY <1>5, <1>6, <1>7, <1>8 DEF F
----------------------------------------------------------------------------
(* What a dialect makes of a command *)

(* A part of the fields, each as it is. *)
PartOf(config, F) == \A f \in DOMAIN config : f \in DOMAIN F /\ config[f] = F[f]

LEMMA PartsOf ==
  ASSUME NEW F, NEW S
  PROVE  /\ PartOf(F, F) /\ PartOf(Drop(F, S), F) /\ PartOf(Keep(F, S), F)
         /\ DOMAIN Drop(F, S) = DOMAIN F \ S /\ DOMAIN Keep(F, S) = DOMAIN F \cap S
<1>1. DOMAIN Drop(F, S) = DOMAIN F \ S /\ \A x \in DOMAIN F \ S : Drop(F, S)[x] = F[x]
  BY DropIs
<1>2. DOMAIN Keep(F, S) = DOMAIN F \cap S /\ \A x \in DOMAIN F \cap S : Keep(F, S)[x] = F[x]
  BY KeepIs
<1> QED
  BY <1>1, <1>2 DEF PartOf

LEMMA FinishIs ==
  ASSUME NEW dialect, NEW s, NEW prefix, NEW F, NEW e \in Finish(dialect, s, prefix, F)
  PROVE  /\ e.source = "channel" /\ PartOf(e.config, F)
         /\ \A o \in Finish(dialect, s, prefix, F) : o = e
<1>1. CASE dialect = "climate"
  <2> DEFINE config == IF FanMode(s, F) THEN F ELSE Drop(F, {"fan", "fan_state"})
  <2>1. PartOf(F, F) /\ PartOf(Drop(F, {"fan", "fan_state"}), F)
    BY PartsOf
  <2>2. PartOf(config, F)
    BY <2>1
  <2>3. Finish(dialect, s, prefix, F) \in {{}, {Candidate("channel", "climate", config)}}
    BY <1>1, Zenon DEF Finish, FinishClimate
  <2> HIDE DEF config
  <2> QED
    BY <2>2, <2>3 DEF Candidate
<1>2. CASE dialect # "climate"
  <2> DEFINE orphans == {t \in {"brightness_state", "color_state"} :
                    (IF t = "color_state" THEN "color" ELSE "brightness") \notin DOMAIN F}
             light == prefix.unit \in LightUnits \/ {"brightness", "color"} \cap DOMAIN F # {}
             kept == IF light THEN Drop(F, orphans) ELSE Keep(F, {"address", "state"})
             color == {s.dpts[kept[f]] : f \in DOMAIN kept \cap {"color", "color_state"}}
             agreed == IF Cardinality(color) > 1 THEN Drop(kept, {"color_state"}) ELSE kept
             whole == Candidate("channel", IF light THEN "light" ELSE "switch", agreed)
  <2>1. PartOf(kept, F)
    <3>1. PartOf(Drop(F, orphans), F) /\ PartOf(Keep(F, {"address", "state"}), F)
      BY PartsOf
    <3> HIDE DEF orphans
    <3> QED
      BY <3>1
  <2>2. Finish(dialect, s, prefix, F) \in {{}, {whole}}
    BY <1>2, Zenon DEF Finish, FinishAbbreviated
  <2> HIDE DEF kept
  <2>3. PartOf(Drop(kept, {"color_state"}), kept)
    BY PartsOf
  <2>4. PartOf(agreed, F)
    BY <2>1, <2>3 DEF PartOf
  <2>5. whole.source = "channel" /\ whole.config = agreed
    BY DEF Candidate
  <2> HIDE DEF whole, agreed
  <2> QED
    BY <2>2, <2>4, <2>5
<1> QED
  BY <1>1, <1>2

(* And it has the fields that its platform needs. *)
LEMMA FinishShape ==
  ASSUME NEW dialect, NEW s, NEW prefix, NEW F, NEW e \in Finish(dialect, s, prefix, F),
         DOMAIN F \subseteq Range(FieldOf(dialect)), FieldOf(dialect)["SW"] \in DOMAIN F
  PROVE  Shaped(e)
<1>1. CASE dialect = "climate"
  <2>1. /\ {"temperature", "target_state"} \subseteq DOMAIN F
        /\ \/ e = Candidate("channel", "climate", F)
           \/ e = Candidate("channel", "climate", Drop(F, {"fan", "fan_state"}))
    BY <1>1 DEF Finish, FinishClimate
  <2>2. DOMAIN Drop(F, {"fan", "fan_state"}) = DOMAIN F \ {"fan", "fan_state"}
    BY DropIs
  <2>3. /\ e.platform = "climate" /\ e.source = "channel"
        /\ {"temperature", "target_state"} \subseteq DOMAIN e.config /\ DOMAIN e.config \subseteq DOMAIN F
    BY <2>1, <2>2 DEF Candidate
  <2>4. {"address", "move_long", "position", "scene_number"} \cap DOMAIN F = {}
    BY <1>1 DEF FieldOf, ClimateField, Range
  <2> QED
    BY <2>3, <2>4 DEF Shaped
<1>2. CASE dialect # "climate"
  <2> DEFINE orphans == {t \in {"brightness_state", "color_state"} :
                    (IF t = "color_state" THEN "color" ELSE "brightness") \notin DOMAIN F}
             light == prefix.unit \in LightUnits \/ {"brightness", "color"} \cap DOMAIN F # {}
             kept == IF light THEN Drop(F, orphans) ELSE Keep(F, {"address", "state"})
             color == {s.dpts[kept[f]] : f \in DOMAIN kept \cap {"color", "color_state"}}
             agreed == IF Cardinality(color) > 1 THEN Drop(kept, {"color_state"}) ELSE kept
             platform == IF light THEN "light" ELSE "switch"
  <2>1. "address" \in DOMAIN F /\ "scene_number" \notin DOMAIN F
    BY <1>2 DEF FieldOf, AbbreviatedField, Range
  <2>2. "address" \in DOMAIN kept /\ DOMAIN kept \subseteq DOMAIN F
    <3>1. DOMAIN Drop(F, orphans) = DOMAIN F \ orphans
      BY PartsOf
    <3>2. DOMAIN Keep(F, {"address", "state"}) = DOMAIN F \cap {"address", "state"}
      BY PartsOf
    <3>3. "address" \notin orphans
      OBVIOUS
    <3> HIDE DEF orphans
    <3> QED
      BY <2>1, <3>1, <3>2, <3>3
  <2>3. e = Candidate("channel", platform, agreed)
    BY <1>2, Zenon DEF Finish, FinishAbbreviated
  <2> HIDE DEF kept, color
  <2>4. DOMAIN Drop(kept, {"color_state"}) = DOMAIN kept \ {"color_state"}
    BY DropIs
  <2>5. "address" \in DOMAIN agreed /\ DOMAIN agreed \subseteq DOMAIN F
    BY <2>2, <2>4
  <2>6. platform \in {"light", "switch"}
    OBVIOUS
  <2> HIDE DEF agreed, platform
  <2> QED
    BY <2>1, <2>3, <2>5, <2>6 DEF Candidate, Shaped
<1> QED
  BY <1>1, <1>2

(* What is finished in the climate dialect has the power and its feedback. *)
LEMMA ClimateKeeps ==
  ASSUME NEW s, NEW prefix, NEW F, NEW e \in Finish("climate", s, prefix, F),
         NEW f \in DOMAIN F, f \notin {"fan", "fan_state"}
  PROVE  f \in DOMAIN e.config
<1>1. f \in DOMAIN Drop(F, {"fan", "fan_state"})
  BY DropIs
<1>2. e.config = F \/ e.config = Drop(F, {"fan", "fan_state"})
  BY DEF Finish, FinishClimate, Candidate
<1> QED
  BY <1>1, <1>2

(* A command with its feedback is finished in the other. *)
LEMMA AbbreviatedKeeps ==
  ASSUME NEW s, NEW prefix, NEW F, IsFiniteSet(DOMAIN F), {"address", "state"} \subseteq DOMAIN F
  PROVE  \E e \in Finish("abbreviated", s, prefix, F) : "state" \in DOMAIN e.config
<1> DEFINE orphans == {t \in {"brightness_state", "color_state"} :
                    (IF t = "color_state" THEN "color" ELSE "brightness") \notin DOMAIN F}
           light == prefix.unit \in LightUnits \/ {"brightness", "color"} \cap DOMAIN F # {}
           kept == IF light THEN Drop(F, orphans) ELSE Keep(F, {"address", "state"})
           color == {s.dpts[kept[f]] : f \in DOMAIN kept \cap {"color", "color_state"}}
           agreed == IF Cardinality(color) > 1 THEN Drop(kept, {"color_state"}) ELSE kept
           whole == Candidate("channel", IF light THEN "light" ELSE "switch", agreed)
<1>1. {"address", "state"} \subseteq DOMAIN kept /\ DOMAIN kept \subseteq DOMAIN F
  <2>1. DOMAIN Drop(F, orphans) = DOMAIN F \ orphans
    BY PartsOf
  <2>2. DOMAIN Keep(F, {"address", "state"}) = DOMAIN F \cap {"address", "state"}
    BY PartsOf
  <2>3. orphans \cap {"address", "state"} = {}
    OBVIOUS
  <2> HIDE DEF orphans
  <2> QED
    BY <2>1, <2>2, <2>3
<1>2. Cardinality(DOMAIN agreed) # 1 => whole \in Finish("abbreviated", s, prefix, F)
  BY Zenon DEF Finish, FinishAbbreviated
<1> HIDE DEF kept, color
<1>3. DOMAIN Drop(kept, {"color_state"}) = DOMAIN kept \ {"color_state"}
  BY DropIs
<1>4. {"address", "state"} \subseteq DOMAIN agreed /\ DOMAIN agreed \subseteq DOMAIN F
  BY <1>1, <1>3
<1>5. whole.config = agreed
  BY DEF Candidate
<1> HIDE DEF agreed, whole
<1>6. Cardinality(DOMAIN agreed) # 1
  <2>1. IsFiniteSet(DOMAIN agreed)
    BY <1>4, FS_Subset
  <2>2. ASSUME NEW x PROVE DOMAIN agreed # {x}
    BY <1>4
  <2> QED
    BY <2>1, <2>2, FS_Singleton
<1> QED
  BY <1>2, <1>4, <1>5, <1>6
----------------------------------------------------------------------------
(* What a pass over a dialect blocks *)

GroupsOf(p, project, prefixes, dialect) == {Grouping(p, project, x, dialect) : x \in prefixes}
ReadIn(p, project, groups) ==
  {b.address : b \in {b \in UNION {Bonds(p, project, g) : g \in groups} : Readable(p, project, b)}}
TwinsIn(p, project, groups) == UNION {Twins(project, Able(p, project, g.roles["SW"])) : g \in groups}
RivalsIn(p, project, groups) ==
  UNION {Rivals(g) : g \in {g \in groups : Commands(p, project, g.roles["SW"]) # {}}}

LEMMA SettleIs ==
  ASSUME NEW p, IsPlan(p), NEW project, NEW groups
  PROVE  LET s == Settle(p, project, groups)
             R == ReadIn(p, project, groups) IN
         /\ IsPlan(s) /\ s.used = p.used /\ s.reserved = p.reserved /\ s.candidates = p.candidates
         /\ s.blocked = (p.blocked \ R) \cup TwinsIn(p, project, groups) \cup RivalsIn(p, project, groups)
         /\ DOMAIN s.dpts = R \cup DOMAIN p.dpts
         /\ \A a \in R : s.dpts[a] = <<1, 11>>
         /\ \A a \in DOMAIN p.dpts \ R : s.dpts[a] = p.dpts[a]
  BY DEF IsPlan, Settle, ReadIn, TwinsIn, RivalsIn

(* The addresses that are blocked or read, each for a reason. *)
LEMMA ReadWhy ==
  ASSUME NEW p, NEW project, NEW prefixes, NEW dialect,
         NEW a \in ReadIn(p, project, GroupsOf(p, project, prefixes, dialect))
  PROVE  /\ DptChoices(Group(project, a)) \subseteq Bits
         /\ a \in Free(p, project) /\ WordAt(project, dialect, a) = "SW_FB"
         /\ \E x \in prefixes : \E b \in Bonds(p, project, Grouping(p, project, x, dialect)) :
              b.word = "SW_FB" /\ b.address = a
<1>1. PICK x \in prefixes : \E b \in Bonds(p, project, Grouping(p, project, x, dialect)) :
                              b.address = a /\ Readable(p, project, b)
  BY DEF ReadIn, GroupsOf
<1> DEFINE g == Grouping(p, project, x, dialect)
<1> HIDE DEF g
<1>2. PICK b \in Bonds(p, project, g) : b.address = a /\ Readable(p, project, b)
  BY <1>1 DEF g
<1>3. Near(project, g, b.command, b.word, b.address)
  BY BondIs
<1>4. /\ DOMAIN g.roles = DOMAIN FieldOf(dialect)
      /\ \A w \in DOMAIN FieldOf(dialect) : \A o :
           o \in g.roles[w] => o \in Free(p, project) /\ WordAt(project, dialect, o) = w
  BY GroupingIs DEF g
<1>5. b.word = "SW_FB" /\ DptChoices(Group(project, a)) \subseteq Bits
  BY <1>2 DEF Readable
<1> QED
  BY <1>2, <1>3, <1>4, <1>5 DEF Near, g

(* Two groups that share an address are one. *)
LEMMA TwinsWhy ==
  ASSUME NEW p, NEW project, NEW prefixes, NEW dialect, NEW x \in prefixes,
         NEW a, PrefixAt(project, a) = x, a \in TwinsIn(p, project, GroupsOf(p, project, prefixes, dialect))
  PROVE  a \in Twins(project, Able(p, project, Grouping(p, project, x, dialect).roles["SW"]))
<1>1. PICK y \in prefixes : a \in Twins(project, Able(p, project, Grouping(p, project, y, dialect).roles["SW"]))
  BY DEF TwinsIn, GroupsOf
<1>2. a \in Grouping(p, project, y, dialect).roles["SW"]
  BY <1>1 DEF Twins, Able
<1>3. PrefixAt(project, a) = y
  BY <1>2, GroupingIs, FieldFacts
<1> QED
  BY <1>1, <1>3

LEMMA RivalsWhy ==
  ASSUME NEW p, NEW project, NEW prefixes, NEW dialect, NEW x \in prefixes,
         NEW a, PrefixAt(project, a) = x, a \in RivalsIn(p, project, GroupsOf(p, project, prefixes, dialect))
  PROVE  a \in Rivals(Grouping(p, project, x, dialect))
<1>1. PICK y \in prefixes : a \in Rivals(Grouping(p, project, y, dialect))
  BY DEF RivalsIn, GroupsOf
<1> DEFINE g == Grouping(p, project, y, dialect)
<1>2. PICK w \in DOMAIN g.roles : a \in g.roles[w]
  BY <1>1 DEF Rivals
<1>3. DOMAIN g.roles = DOMAIN FieldOf(dialect)
  BY GroupingIs
<1>4. PrefixAt(project, a) = y
  BY <1>2, <1>3, GroupingIs
<1> QED
  BY <1>1, <1>4

(* A rival is one of several addresses of its word, and no command. *)
LEMMA RivalIs ==
  ASSUME NEW p, NEW project, NEW x, NEW dialect, NEW a, NEW w,
         a \in Rivals(Grouping(p, project, x, dialect)), WordAt(project, dialect, a) = w
  PROVE  /\ Alone(Grouping(p, project, x, dialect)) /\ w \in DOMAIN FieldOf(dialect) \ {"SW"}
         /\ Cardinality(Grouping(p, project, x, dialect).roles[w]) > 1
<1> DEFINE g == Grouping(p, project, x, dialect)
<1>1. Alone(g) /\ \E v \in DOMAIN g.roles : a \in g.roles[v] /\ Cardinality(g.roles[v]) > 1
  BY DEF Rivals
<1>2. PICK v \in DOMAIN g.roles : a \in g.roles[v] /\ Cardinality(g.roles[v]) > 1
  BY <1>1
<1>3. DOMAIN g.roles = DOMAIN FieldOf(dialect) /\ v = w
  BY <1>2, GroupingIs
<1>4. w # "SW"
  BY <1>1, <1>2, <1>3 DEF Alone
<1> QED
  BY <1>1, <1>2, <1>3, <1>4
----------------------------------------------------------------------------
(* A pass over a dialect keeps the invariant *)

Half(p, project) ==
  \A a \in DOMAIN project.groups \ p.blocked :
    a \in DOMAIN p.dpts /\ (Settled(Group(project, a)) \/ DptChoices(Group(project, a)) \subseteq Bits)

LEMMA RoleIs ==
  ASSUME NEW p, NEW project, NEW x, NEW dialect, NEW w \in DOMAIN FieldOf(dialect),
         NEW a \in Grouping(p, project, x, dialect).roles[w]
  PROVE  /\ a \in Free(p, project) /\ PrefixAt(project, a) = x /\ WordAt(project, dialect, a) = w
         /\ a \in DOMAIN project.groups /\ a \notin p.used /\ a \notin p.reserved
  BY GroupingIs DEF Free

LEMMA CommandsStay ==
  ASSUME NEW p, IsPlan(p), NEW project, Half(p, project), NEW prefixes, NEW dialect, NEW x \in prefixes,
         NEW s, s = Settle(p, project, GroupsOf(p, project, prefixes, dialect)),
         NEW R, R = Grouping(p, project, x, dialect).roles["SW"]
  PROVE  /\ Able(s, project, R) \subseteq Able(p, project, R)
         /\ Commands(p, project, R) \subseteq Commands(s, project, R)
<1> DEFINE groups == GroupsOf(p, project, prefixes, dialect)
           read == ReadIn(p, project, groups)
<1>1. /\ s.blocked = (p.blocked \ read) \cup TwinsIn(p, project, groups) \cup RivalsIn(p, project, groups)
      /\ \A a \in DOMAIN p.dpts \ read : s.dpts[a] = p.dpts[a]
  BY SettleIs
<1>2. ASSUME NEW c \in R
      PROVE  /\ c \notin read /\ c \notin RivalsIn(p, project, groups) /\ c \in DOMAIN project.groups
             /\ c \in TwinsIn(p, project, groups) => c \in Twins(project, Able(p, project, R))
  <2>1. /\ PrefixAt(project, c) = x /\ WordAt(project, dialect, c) = "SW" /\ c \in DOMAIN project.groups
    BY <1>2, RoleIs, FieldFacts
  <2>2. c \notin read
    BY <2>1, ReadWhy
  <2>3. c \notin RivalsIn(p, project, groups)
    BY <2>1, RivalsWhy, RivalIs
  <2> QED
    BY <2>1, <2>2, <2>3, TwinsWhy
<1> HIDE DEF read, groups
<1>3. ASSUME NEW c \in Able(s, project, R) PROVE c \in Able(p, project, R)
  <2>1. c \in R /\ c \notin s.blocked /\ s.dpts[c] = <<1, 1>> /\ Cardinality(Channels(project, c, FALSE)) = 1
    BY <1>3 DEF Able
  <2>2. c \notin p.blocked /\ c \in DOMAIN project.groups /\ c \notin read
    BY <1>1, <1>2, <2>1
  <2>3. p.dpts[c] = <<1, 1>>
    BY <1>1, <2>1, <2>2 DEF Half
  <2> QED
    BY <2>1, <2>2, <2>3 DEF Able
<1>4. ASSUME NEW c \in Commands(p, project, R) PROVE c \in Commands(s, project, R)
  <2>1. c \in Able(p, project, R) /\ c \notin Twins(project, Able(p, project, R))
    BY <1>4 DEF Commands
  <2>2. c \in R /\ c \notin p.blocked /\ p.dpts[c] = <<1, 1>> /\ Cardinality(Channels(project, c, FALSE)) = 1
    BY <2>1 DEF Able
  <2>3. c \notin s.blocked /\ s.dpts[c] = <<1, 1>>
    BY <1>1, <1>2, <2>1, <2>2 DEF Half
  <2>4. c \in Able(s, project, R)
    BY <2>2, <2>3 DEF Able
  <2>5. c \notin Twins(project, Able(s, project, R))
    BY <1>3, <2>1 DEF Twins
  <2> QED
    BY <2>4, <2>5 DEF Commands
<1> QED
  BY <1>3, <1>4

(* The group of a prefix. *)
Found(g, p, project, x, dialect) == g = Grouping(p, project, x, dialect)

LEMMA FoundRole ==
  ASSUME NEW p, NEW project, NEW x, NEW dialect, NEW g, Found(g, p, project, x, dialect),
         NEW w \in DOMAIN FieldOf(dialect), NEW a \in g.roles[w]
  PROVE  a \in Free(p, project) /\ PrefixAt(project, a) = x /\ WordAt(project, dialect, a) = w
<1>1. a \in Grouping(p, project, x, dialect).roles[w]
  BY DEF Found
<1> QED
  BY <1>1, RoleIs

LEMMA FoundIs ==
  ASSUME NEW p, NEW project, NEW x, NEW dialect, NEW g, Found(g, p, project, x, dialect)
  PROVE  /\ g.prefix = x /\ g.field = FieldOf(dialect) /\ DOMAIN g.roles = DOMAIN FieldOf(dialect)
         /\ {"SW", "SW_FB"} \subseteq DOMAIN FieldOf(dialect)
  BY GroupingIs, FieldFacts DEF Found

(* What a candidate of a dialect consists of: a command and its bonds. *)
Joined(s, project, g, e, c) ==
  /\ c \in Commands(s, project, g.roles["SW"]) /\ e.source = "channel"
  /\ \A f \in DOMAIN e.config :
       \/ f = g.field["SW"] /\ e.config[f] = c
       \/ \E b : Fitting(s, project, g, c, b) /\ g.field[b.word] = f /\ e.config[f] = b.address

LEMMA FinishedIs ==
  ASSUME NEW p, NEW project, NEW x, NEW dialect, NEW s, NEW g, Found(g, p, project, x, dialect),
         NEW e \in Finished(s, project, g, dialect)
  PROVE  \E c : Joined(s, project, g, e, c) /\ e \in Finish(dialect, s, x, FieldsOf(s, project, g, c))
<1>1. g.prefix = x
  BY FoundIs
<1>2. PICK c \in Commands(s, project, g.roles["SW"]) : e \in Finish(dialect, s, x, FieldsOf(s, project, g, c))
  BY <1>1 DEF Finished
<1> DEFINE F == FieldsOf(s, project, g, c)
<1>3. e.source = "channel" /\ PartOf(e.config, F)
  BY <1>2, FinishIs
<1>4. /\ F[g.field["SW"]] = c
      /\ \A f \in DOMAIN F \ {g.field["SW"]} :
           \E b : Fitting(s, project, g, c, b) /\ g.field[b.word] = f /\ F[f] = b.address
  BY FieldsAre DEF Found
<1> HIDE DEF F
<1>5. Joined(s, project, g, e, c)
  BY <1>3, <1>4 DEF Joined, PartOf
<1> QED
  BY <1>2, <1>5

LEMMA FitIs ==
  ASSUME NEW p, NEW project, NEW x, NEW dialect, NEW s, NEW g, Found(g, p, project, x, dialect),
         NEW c, NEW b, Fitting(s, project, g, c, b)
  PROVE  /\ b.word \in DOMAIN FieldOf(dialect) \ {"SW"} /\ b.address \in g.roles[b.word]
         /\ SameChannel(project, c, b.address, b.word) /\ b.address \notin s.blocked
<1>1. Near(project, g, b.command, b.word, b.address) /\ b.command = c /\ b.address \notin s.blocked
  BY BondIs DEF Fitting
<1>2. DOMAIN g.roles = DOMAIN FieldOf(dialect)
  BY FoundIs
<1> QED
  BY <1>1, <1>2 DEF Near

(* All that is joined is on the channel of the command. *)
LEMMA JoinedChannel ==
  ASSUME NEW p, NEW project, NEW x, NEW dialect, NEW s, NEW g, Found(g, p, project, x, dialect),
         NEW e, NEW c, Joined(s, project, g, e, c)
  PROVE  OneChannel(project, e)
<1>1. Cardinality(Channels(project, c, FALSE)) = 1
  BY DEF Joined, Commands, Able
<1>2. ASSUME NEW f \in DOMAIN e.config
      PROVE  Channels(project, e.config[f], f \in States) = Channels(project, c, FALSE)
  <2>1. CASE f = g.field["SW"] /\ e.config[f] = c
    <3>1. (f \in States) = FALSE
      BY <2>1, FoundIs, FieldFacts
    <3> QED
      BY <2>1, <3>1
  <2>2. CASE \E b : Fitting(s, project, g, c, b) /\ g.field[b.word] = f /\ e.config[f] = b.address
    <3>1. PICK b : Fitting(s, project, g, c, b) /\ g.field[b.word] = f /\ e.config[f] = b.address
      BY <2>2
    <3>2. b.word \in DOMAIN FieldOf(dialect) \ {"SW"} /\ SameChannel(project, c, b.address, b.word)
      BY <3>1, FitIs
    <3>3. g.field = FieldOf(dialect)
      BY FoundIs
    <3>4. b.word \in Feedback <=> f \in States
      BY <3>1, <3>2, <3>3, FieldFacts
    <3>5. (b.word \in Feedback) = (f \in States)
      BY <3>4
    <3> QED
      BY <3>1, <3>2, <3>5 DEF SameChannel
  <2> QED
    BY <1>2, <2>1, <2>2 DEF Joined
<1> QED
  BY <1>1, <1>2 DEF OneChannel

(* Where an address of a candidate comes from. *)
Belongs(s, p, project, x, dialect, c, a) ==
  /\ a \notin s.blocked /\ a \in Free(p, project) /\ PrefixAt(project, a) = x
  /\ \/ a = c /\ WordAt(project, dialect, a) = "SW"
     \/ WordAt(project, dialect, a) # "SW" /\ SameChannel(project, c, a, WordAt(project, dialect, a))

LEMMA JoinedAddress ==
  ASSUME NEW p, NEW project, NEW x, NEW dialect, NEW s, NEW g, Found(g, p, project, x, dialect),
         NEW e, NEW c, Joined(s, project, g, e, c), NEW a \in Addresses(e.config)
  PROVE  Belongs(s, p, project, x, dialect, c, a)
<1>1. PICK f \in DOMAIN e.config : a = e.config[f]
  BY DEF Addresses
<1>2. CASE a = c
  <2>1. a \notin s.blocked /\ a \in g.roles["SW"]
    BY <1>2 DEF Joined, Commands, Able
  <2>2. "SW" \in DOMAIN FieldOf(dialect)
    BY FoundIs
  <2>3. a \in Free(p, project) /\ PrefixAt(project, a) = x /\ WordAt(project, dialect, a) = "SW"
    BY <2>1, <2>2, FoundRole
  <2> QED
    BY <1>2, <2>1, <2>3 DEF Belongs
<1>3. CASE a # c
  <2>1. PICK b : Fitting(s, project, g, c, b) /\ a = b.address
    BY <1>1, <1>3 DEF Joined
  <2>2. /\ b.word \in DOMAIN FieldOf(dialect) \ {"SW"} /\ a \in g.roles[b.word] /\ a \notin s.blocked
        /\ SameChannel(project, c, a, b.word)
    BY <2>1, FitIs
  <2>3. a \in Free(p, project) /\ PrefixAt(project, a) = x /\ WordAt(project, dialect, a) = b.word
    BY <2>2, FoundRole
  <2> QED
    BY <2>2, <2>3 DEF Belongs
<1> QED
  BY <1>2, <1>3

(* Two commands have no address in common, for they would be twins. *)
LEMMA JoinedApart ==
  ASSUME NEW p, NEW project, NEW x, NEW dialect, NEW s, NEW g, Found(g, p, project, x, dialect),
         NEW e, NEW c, Joined(s, project, g, e, c), NEW f, NEW d, Joined(s, project, g, f, d), c # d
  PROVE  Apart(e, f)
<1> SUFFICES ASSUME NEW a \in Addresses(e.config), a \in Addresses(f.config) PROVE FALSE
  BY DEF Apart
<1>1. Belongs(s, p, project, x, dialect, c, a)
  BY JoinedAddress
<1>2. Belongs(s, p, project, x, dialect, d, a)
  BY JoinedAddress
<1>3. Channels(project, c, FALSE) = Channels(project, d, FALSE)
  BY <1>1, <1>2 DEF Belongs, SameChannel
<1>4. /\ c \in Able(s, project, g.roles["SW"]) /\ c \notin Twins(project, Able(s, project, g.roles["SW"]))
      /\ d \in Able(s, project, g.roles["SW"])
  BY DEF Joined, Commands
<1> QED
  BY <1>3, <1>4 DEF Twins

LEMMA DialectSound ==
  ASSUME NEW p, NEW project, Sound(p, project), Half(p, project), NEW prefixes, NEW dialect,
         NEW q, q = Dialect(p, project, prefixes, dialect)
  PROVE  Sound(q, project) /\ Half(q, project)
<1> DEFINE groups == GroupsOf(p, project, prefixes, dialect)
           s == Settle(p, project, groups)
           new == UNION {Finished(s, project, g, dialect) : g \in groups}
           read == ReadIn(p, project, groups)
<1>1. q = AddAll(s, new)
  BY DEF Dialect, GroupsOf
<1>2. /\ IsPlan(s) /\ s.used = p.used /\ s.reserved = p.reserved /\ s.candidates = p.candidates
      /\ p.blocked \ read \subseteq s.blocked /\ DOMAIN s.dpts = read \cup DOMAIN p.dpts
  BY SettleIs DEF Sound
<1>3. Half(s, project)
  <2>1. ASSUME NEW a \in DOMAIN project.groups \ s.blocked
        PROVE  /\ a \in DOMAIN s.dpts
               /\ Settled(Group(project, a)) \/ DptChoices(Group(project, a)) \subseteq Bits
    <3>1. CASE a \in read
      BY <1>2, <3>1, ReadWhy
    <3>2. CASE a \notin read
      BY <1>2, <2>1, <3>2 DEF Half
    <3> QED
      BY <3>1, <3>2
  <2> HIDE DEF s
  <2> QED
    BY <2>1 DEF Half
<1>4. ASSUME NEW e \in new
      PROVE  \E x : \E g : \E c : /\ x \in prefixes /\ Found(g, p, project, x, dialect)
                                  /\ Joined(s, project, g, e, c)
                                  /\ e \in Finish(dialect, s, x, FieldsOf(s, project, g, c))
  <2>1. PICK x \in prefixes : e \in Finished(s, project, Grouping(p, project, x, dialect), dialect)
    BY <1>4 DEF GroupsOf
  <2>2. Found(Grouping(p, project, x, dialect), p, project, x, dialect)
    BY DEF Found
  <2> QED
    BY <2>1, <2>2, FinishedIs
<1> HIDE DEF s, new, read, groups
<1>5. /\ IsPlan(q) /\ q.candidates = s.candidates \cup new /\ q.blocked = s.blocked /\ q.dpts = s.dpts
      /\ q.used = s.used \cup UNION {Addresses(e.config) : e \in new}
  BY <1>1, <1>2, AddAllIs
<1>6. ASSUME NEW e \in new
      PROVE  /\ Addresses(e.config) \subseteq q.used /\ Addresses(e.config) \cap p.used = {}
             /\ Formed(project, e) /\ OneChannel(project, e) /\ Evident(project, e)
  <2>1. PICK x, g, c : /\ Found(g, p, project, x, dialect) /\ Joined(s, project, g, e, c)
                       /\ e \in Finish(dialect, s, x, FieldsOf(s, project, g, c))
    BY <1>4
  <2>2. ASSUME NEW a \in Addresses(e.config) PROVE a \notin s.blocked /\ a \in Free(p, project)
    <3>1. Belongs(s, p, project, x, dialect, c, a)
      BY <2>1, JoinedAddress
    <3> QED
      BY <3>1 DEF Belongs
  <2>3. e.source = "channel"
    BY <2>1 DEF Joined
  <2>4. OneChannel(project, e)
    BY <2>1, JoinedChannel
  <2>5. Evident(project, e)
    BY <1>3, <2>2, <2>3 DEF Evident, Half, Free
  <2>6. Addresses(e.config) \subseteq q.used
    BY <1>5
  <2>7. Shaped(e)
    <3> DEFINE F == FieldsOf(s, project, g, c)
    <3>1. g.field = FieldOf(dialect)
      BY <2>1, FoundIs
    <3>2. g.field["SW"] \in DOMAIN F /\ DOMAIN F \subseteq Range(FieldOf(dialect))
      BY <2>1, FieldsAre DEF Found
    <3> QED
      BY <2>1, <3>1, <3>2, FinishShape
  <2> QED
    BY <2>2, <2>4, <2>5, <2>6, <2>7 DEF Free, Formed
<1>7. ASSUME NEW e \in new, NEW f \in new PROVE Apart(e, f)
  <2>1. PICK x, g, c : /\ Found(g, p, project, x, dialect) /\ Joined(s, project, g, e, c)
                       /\ e \in Finish(dialect, s, x, FieldsOf(s, project, g, c))
    BY <1>4
  <2>2. PICK y, h, d : /\ Found(h, p, project, y, dialect) /\ Joined(s, project, h, f, d)
                       /\ f \in Finish(dialect, s, y, FieldsOf(s, project, h, d))
    BY <1>4
  <2>3. CASE x # y
    <3>1. ASSUME NEW a \in Addresses(e.config) PROVE Belongs(s, p, project, x, dialect, c, a)
      BY <2>1, <3>1, JoinedAddress
    <3>2. ASSUME NEW a \in Addresses(f.config) PROVE Belongs(s, p, project, y, dialect, d, a)
      BY <2>2, <3>2, JoinedAddress
    <3> QED
      BY <2>3, <3>1, <3>2 DEF Apart, Belongs
  <2>4. CASE x = y
    <3>1. h = g
      BY <2>1, <2>2, <2>4 DEF Found
    <3>2. CASE c = d
      <4>1. e = f
        BY <2>1, <2>2, <2>4, <3>1, <3>2, FinishIs
      <4> QED
        BY <4>1 DEF Apart
    <3>3. CASE c # d
      <4>1. Found(g, p, project, x, dialect) /\ Joined(s, project, g, e, c) /\ Joined(s, project, g, f, d)
        BY <2>1, <2>2, <3>1
      <4> QED
        BY <3>3, <4>1, JoinedApart
    <3> QED
      BY <3>2, <3>3
  <2> QED
    BY <2>3, <2>4
<1>8. Sound(q, project)
  BY <1>2, <1>5, <1>6, <1>7, PassSound
<1>9. Half(q, project)
  BY <1>3, <1>5 DEF Half
<1> QED
  BY <1>8, <1>9
----------------------------------------------------------------------------
(* What the dialects read is used when they are done *)

Pass(p, s, q, project, prefixes, dialect) ==
  /\ s = Settle(p, project, GroupsOf(p, project, prefixes, dialect))
  /\ q = Dialect(p, project, prefixes, dialect)

LEMMA PassIs ==
  ASSUME NEW p, IsPlan(p), NEW project, NEW prefixes, NEW dialect, NEW s, NEW q,
         Pass(p, s, q, project, prefixes, dialect)
  PROVE  /\ q.blocked = s.blocked /\ q.dpts = s.dpts /\ q.reserved = p.reserved /\ s.used = p.used
         /\ q.used = p.used \cup
              UNION {Addresses(e.config) :
                     e \in UNION {Finished(s, project, g, dialect) :
                                  g \in GroupsOf(p, project, prefixes, dialect)}}
         /\ Free(q, project) \subseteq Free(p, project)
<1> DEFINE groups == GroupsOf(p, project, prefixes, dialect)
           new == UNION {Finished(s, project, g, dialect) : g \in groups}
<1>1. q = AddAll(s, new)
  BY DEF Pass, Dialect, GroupsOf
<1>2. IsPlan(s) /\ s.used = p.used /\ s.reserved = p.reserved
  BY SettleIs DEF Pass
<1> HIDE DEF new
<1>3. /\ q.blocked = s.blocked /\ q.dpts = s.dpts /\ q.reserved = s.reserved
      /\ q.used = s.used \cup UNION {Addresses(e.config) : e \in new}
  BY <1>1, <1>2, AddAllIs
<1>4. Free(q, project) \subseteq Free(p, project)
  BY <1>2, <1>3 DEF Free
<1> QED
  BY <1>2, <1>3, <1>4 DEF new

(* An address that a finished command took. *)
LEMMA FinishUses ==
  ASSUME NEW p, IsPlan(p), NEW project, NEW prefixes, NEW dialect, NEW s, NEW q,
         Pass(p, s, q, project, prefixes, dialect), NEW x \in prefixes, NEW g, Found(g, p, project, x, dialect),
         NEW c \in Commands(s, project, g.roles["SW"]),
         NEW e \in Finish(dialect, s, x, FieldsOf(s, project, g, c)),
         NEW f \in DOMAIN e.config, f \notin Numbers
  PROVE  FieldsOf(s, project, g, c)[f] \in q.used
<1>1. e.config[f] = FieldsOf(s, project, g, c)[f]
  BY FinishIs DEF PartOf
<1>2. e.config[f] \in Addresses(e.config)
  BY DEF Addresses
<1>3. g.prefix = x
  BY FoundIs
<1>4. e \in Finished(s, project, g, dialect)
  BY <1>3 DEF Finished
<1>5. g \in GroupsOf(p, project, prefixes, dialect)
  BY DEF Found, GroupsOf
<1> QED
  BY <1>1, <1>2, <1>4, <1>5, PassIs

(* The only feedback on the channel of a command, and of the type it needs, *)
(* is a field of the command.                                               *)
Only(project, g, c, a) ==
  Near(project, g, c, "SW_FB", a) /\ \A o : Near(project, g, c, "SW_FB", o) => o = a

Reported(s, project, g, c, dialect, a) ==
  LET field == FieldOf(dialect)
      F == FieldsOf(s, project, g, c) IN
  /\ c \in Commands(s, project, g.roles["SW"]) /\ IsFiniteSet(DOMAIN F)
  /\ {field["SW"], field["SW_FB"]} \subseteq DOMAIN F /\ F[field["SW_FB"]] = a

LEMMA FeedbackField ==
  ASSUME NEW p, IsPlan(p), NEW project, Half(p, project), NEW prefixes,
         NEW dialect \in {"climate", "abbreviated"}, NEW s, NEW q, Pass(p, s, q, project, prefixes, dialect),
         NEW x \in prefixes, NEW g, Found(g, p, project, x, dialect),
         NEW c \in Commands(p, project, g.roles["SW"]), NEW a, Only(project, g, c, a),
         a \notin s.blocked, s.dpts[a] = <<1, 11>>
  PROVE  Reported(s, project, g, c, dialect, a)
<1> DEFINE field == FieldOf(dialect)
           F == FieldsOf(s, project, g, c)
<1>1. c \in Commands(s, project, g.roles["SW"])
  <2>1. g.roles["SW"] = Grouping(p, project, x, dialect).roles["SW"]
    BY DEF Found
  <2> QED
    BY <2>1, CommandsStay DEF Pass
<1>2. PICK b \in Bonds(s, project, g) : b.command = c /\ b.word = "SW_FB" /\ b.address = a
  <2>1. Near(project, g, c, "SW_FB", a) /\ \A o : Near(project, g, c, "SW_FB", o) => o = a
    BY DEF Only
  <2> QED
    BY <1>1, <2>1, IsBond
<1>3. g.field = field
  BY FoundIs
<1>4. <<1, 11>> \in Expected(field["SW_FB"])
  BY DEF FieldOf, ClimateField, AbbreviatedField, Expected, Status
<1>5. Fitting(s, project, g, c, b)
  BY <1>2, <1>3, <1>4 DEF Fitting
<1>6. /\ g.field["SW"] \in DOMAIN F /\ IsFiniteSet(DOMAIN F)
      /\ \A f \in DOMAIN F \ {g.field["SW"]} :
           \E o : Fitting(s, project, g, c, o) /\ g.field[o.word] = f /\ F[f] = o.address
      /\ \A o : Fitting(s, project, g, c, o) => g.field[o.word] \in DOMAIN F
  BY FieldsAre DEF Found
<1> HIDE DEF F
<1>7. field["SW_FB"] \in DOMAIN F /\ field["SW_FB"] # field["SW"]
  BY <1>2, <1>3, <1>5, <1>6, FieldFacts
<1>8. PICK o : Fitting(s, project, g, c, o) /\ g.field[o.word] = field["SW_FB"] /\ F[field["SW_FB"]] = o.address
  BY <1>3, <1>6, <1>7
<1>9. o.word \in DOMAIN field
  BY <1>8, FitIs
<1>10. o.word = "SW_FB"
  BY <1>3, <1>8, <1>9, FieldFacts
<1>11. o \in Bonds(s, project, g) /\ o.command = c
  BY <1>8 DEF Fitting
<1>12. Near(project, g, c, "SW_FB", o.address)
  BY <1>10, <1>11, BondIs
<1>13. o.address = a
  BY <1>12 DEF Only
<1>14. /\ {field["SW"], field["SW_FB"]} \subseteq DOMAIN F /\ F[field["SW_FB"]] = a
  BY <1>3, <1>6, <1>7, <1>8, <1>13
<1> QED
  BY <1>1, <1>6, <1>14 DEF F, Reported

LEMMA AbbreviatedUses ==
  ASSUME NEW p, IsPlan(p), NEW project, Half(p, project), NEW prefixes, NEW s, NEW q,
         Pass(p, s, q, project, prefixes, "abbreviated"),
         NEW x \in prefixes, NEW g, Found(g, p, project, x, "abbreviated"),
         NEW c \in Commands(p, project, g.roles["SW"]), NEW a, Only(project, g, c, a),
         a \notin s.blocked, s.dpts[a] = <<1, 11>>
  PROVE  a \in q.used
<1> DEFINE F == FieldsOf(s, project, g, c)
<1>1. FieldOf("abbreviated")["SW"] = "address" /\ FieldOf("abbreviated")["SW_FB"] = "state"
  BY DEF FieldOf, AbbreviatedField
<1>2. Reported(s, project, g, c, "abbreviated", a)
  <2>1. "abbreviated" \in {"climate", "abbreviated"}
    OBVIOUS
  <2> QED
    BY <2>1, FeedbackField
<1>3. /\ c \in Commands(s, project, g.roles["SW"]) /\ IsFiniteSet(DOMAIN F)
      /\ {"address", "state"} \subseteq DOMAIN F /\ F["state"] = a
  BY <1>1, <1>2 DEF Reported
<1>4. PICK e \in Finish("abbreviated", s, x, F) : "state" \in DOMAIN e.config
  BY <1>3, AbbreviatedKeeps
<1>5. F["state"] \in q.used
  BY <1>3, <1>4, FinishUses DEF Numbers
<1> QED
  BY <1>3, <1>5

(* So it is in the climate dialect, if anything comes of the command. *)
LEMMA ClimateUses ==
  ASSUME NEW p, IsPlan(p), NEW project, Half(p, project), NEW prefixes, NEW s, NEW q,
         Pass(p, s, q, project, prefixes, "climate"),
         NEW x \in prefixes, NEW g, Found(g, p, project, x, "climate"),
         NEW c \in Commands(p, project, g.roles["SW"]), NEW a, Only(project, g, c, a),
         a \notin s.blocked, s.dpts[a] = <<1, 11>>, c \in q.used
  PROVE  a \in q.used
<1> DEFINE F == FieldsOf(s, project, g, c)
<1>1. FieldOf("climate")["SW_FB"] = "on_off_state"
  BY DEF FieldOf, ClimateField
<1>2. Reported(s, project, g, c, "climate", a)
  <2>1. "climate" \in {"climate", "abbreviated"}
    OBVIOUS
  <2> QED
    BY <2>1, FeedbackField
<1>3. c \in Commands(s, project, g.roles["SW"]) /\ "on_off_state" \in DOMAIN F /\ F["on_off_state"] = a
  BY <1>1, <1>2 DEF Reported
<1>4. c \in g.roles["SW"] /\ {"SW", "SW_FB"} \subseteq DOMAIN FieldOf("climate")
  BY FoundIs DEF Commands, Able
<1>5. PrefixAt(project, c) = x /\ WordAt(project, "climate", c) = "SW" /\ c \in Free(p, project)
  BY <1>4, FoundRole
<1>6. PICK h \in GroupsOf(p, project, prefixes, "climate") :
        \E e \in Finished(s, project, h, "climate") : c \in Addresses(e.config)
  BY <1>5, PassIs DEF Free
<1>7. PICK y : Found(h, p, project, y, "climate")
  BY <1>6 DEF GroupsOf, Found
<1>8. PICK e \in Finished(s, project, h, "climate") : c \in Addresses(e.config)
  BY <1>6
<1>9. PICK d : Joined(s, project, h, e, d) /\ e \in Finish("climate", s, y, FieldsOf(s, project, h, d))
  BY <1>7, <1>8, FinishedIs
<1>10. Belongs(s, p, project, y, "climate", d, c)
  BY <1>7, <1>8, <1>9, JoinedAddress
<1>11. y = x /\ d = c
  BY <1>5, <1>10 DEF Belongs
<1>12. h = g
  BY <1>7, <1>11 DEF Found
<1>13. e \in Finish("climate", s, x, F)
  BY <1>9, <1>11, <1>12
<1>14. "on_off_state" \in DOMAIN e.config
  BY <1>3, <1>13, ClimateKeeps
<1>15. F["on_off_state"] \in q.used
  BY <1>3, <1>13, <1>14, FinishUses DEF Numbers
<1> QED
  BY <1>3, <1>15

(* What the abbreviated dialect finds under a climate prefix is some of what *)
(* the climate dialect found there.                                         *)
LEMMA LaterRoles ==
  ASSUME NEW p, NEW q, NEW project, Free(q, project) \subseteq Free(p, project), NEW x,
         NEW g, Found(g, p, project, x, "climate"), NEW h, Found(h, q, project, x, "abbreviated")
  PROVE  \A w \in {"SW", "SW_FB"} : \A a :
           a \in h.roles[w] <=> a \in g.roles[w] /\ a \in Free(q, project)
<1> SUFFICES ASSUME NEW w \in {"SW", "SW_FB"}, NEW a
             PROVE  a \in h.roles[w] <=> a \in g.roles[w] /\ a \in Free(q, project)
  OBVIOUS
<1>1. w \in DOMAIN FieldOf("climate") /\ w \in DOMAIN FieldOf("abbreviated")
  BY FieldFacts
<1>2. WordAt(project, "climate", a) = w <=> WordAt(project, "abbreviated", a) = w
  BY DEF WordAt, Alias
<1>3. a \in g.roles[w] <=> a \in Free(p, project) /\ PrefixAt(project, a) = x
                           /\ WordAt(project, "climate", a) = w
  BY <1>1, GroupingIs DEF Found
<1>4. a \in h.roles[w] <=> a \in Free(q, project) /\ PrefixAt(project, a) = x
                           /\ WordAt(project, "abbreviated", a) = w
  BY <1>1, GroupingIs DEF Found
<1> QED
  BY <1>2, <1>3, <1>4

(* A feedback that the climate dialect read and left is the only one of its *)
(* command again, unless it is one of several then.                        *)
LEMMA StillOnly ==
  ASSUME NEW p, IsPlan(p), NEW project, Half(p, project), NEW prefixes, NEW s, NEW q,
         Pass(p, s, q, project, prefixes, "climate"),
         NEW x \in prefixes, NEW g, Found(g, p, project, x, "climate"),
         NEW h, Found(h, q, project, x, "abbreviated"),
         NEW c \in Commands(p, project, g.roles["SW"]), NEW a, Only(project, g, c, a),
         a \in Free(q, project), c \notin q.used
  PROVE  /\ c \in Commands(q, project, h.roles["SW"])
         /\ a \in Rivals(h) \/ Only(project, h, c, a)
<1>1. /\ q.blocked = s.blocked /\ q.dpts = s.dpts /\ q.reserved = p.reserved
      /\ Free(q, project) \subseteq Free(p, project)
  BY PassIs
<1>2. /\ g.prefix = x /\ h.prefix = x /\ DOMAIN g.roles = DOMAIN FieldOf("climate")
      /\ DOMAIN h.roles = DOMAIN FieldOf("abbreviated")
      /\ {"SW", "SW_FB"} \subseteq DOMAIN FieldOf("climate") \cap DOMAIN FieldOf("abbreviated")
  BY FoundIs
<1>3. /\ \A o : o \in h.roles["SW"] <=> o \in g.roles["SW"] /\ o \in Free(q, project)
      /\ \A o : o \in h.roles["SW_FB"] <=> o \in g.roles["SW_FB"] /\ o \in Free(q, project)
  BY <1>1, LaterRoles
<1>4. c \in Commands(q, project, h.roles["SW"])
  <2>1. /\ Able(s, project, g.roles["SW"]) \subseteq Able(p, project, g.roles["SW"])
        /\ c \in Commands(s, project, g.roles["SW"])
    <3>1. g.roles["SW"] = Grouping(p, project, x, "climate").roles["SW"]
      BY DEF Found
    <3> QED
      BY <3>1, CommandsStay DEF Pass
  <2>2. /\ c \in g.roles["SW"] /\ c \in Able(s, project, g.roles["SW"])
        /\ c \notin Twins(project, Able(p, project, g.roles["SW"]))
    BY <2>1 DEF Commands, Able
  <2>3. c \in h.roles["SW"]
    <3>1. c \in Free(p, project)
      BY <1>2, <2>2, FoundRole
    <3>2. c \in Free(q, project)
      BY <1>1, <3>1 DEF Free
    <3> QED
      BY <1>3, <2>2, <3>2
  <2>4. Able(q, project, h.roles["SW"]) \subseteq Able(s, project, g.roles["SW"])
    BY <1>1, <1>3 DEF Able
  <2>5. c \in Able(q, project, h.roles["SW"])
    BY <1>1, <2>2, <2>3 DEF Able
  <2>6. c \notin Twins(project, Able(q, project, h.roles["SW"]))
    BY <2>1, <2>2, <2>4 DEF Twins
  <2> QED
    BY <2>5, <2>6 DEF Commands
<1>5. a \in g.roles["SW_FB"] /\ a \notin Rivals(g) /\ SameChannel(project, c, a, "SW_FB")
  BY DEF Only, Near
<1>6. ASSUME a \notin Rivals(h) PROVE Near(project, h, c, "SW_FB", a)
  BY <1>2, <1>3, <1>5, <1>6 DEF Near
<1>7. ASSUME NEW o, Near(project, h, c, "SW_FB", o) PROVE o = a
  <2>1. o \in g.roles["SW_FB"] /\ SameChannel(project, c, o, "SW_FB")
    BY <1>3, <1>7 DEF Near
  <2>2. o \notin Rivals(g)
    <3> SUFFICES ASSUME o \in Rivals(g) PROVE a \in Rivals(g)
      BY <1>5
    <3>1. WordAt(project, "climate", o) = "SW_FB"
      BY <1>2, <2>1, FoundRole
    <3>2. o \in Rivals(Grouping(p, project, x, "climate"))
      BY DEF Found
    <3>3. Alone(g) /\ Cardinality(g.roles["SW_FB"]) > 1
      BY <3>1, <3>2, RivalIs DEF Found
    <3> QED
      BY <1>2, <1>5, <3>3 DEF Rivals
  <2>3. Near(project, g, c, "SW_FB", o)
    BY <1>2, <2>1, <2>2 DEF Near
  <2> QED
    BY <2>3 DEF Only
<1> QED
  BY <1>4, <1>6, <1>7 DEF Only

LEMMA BothDialects ==
  ASSUME NEW project, NEW p, Sound(p, project), SettledTypes(p, project)
  PROVE  LET q == AbbreviatedGroups(ClimateGroups(p, project), project) IN
         Sound(q, project) /\ Known(q, project)
<1> DEFINE all == NamePrefixes(project)
           some == {x \in all : x.climate}
           s == Settle(p, project, GroupsOf(p, project, some, "climate"))
           q == ClimateGroups(p, project)
           t == Settle(q, project, GroupsOf(q, project, all, "abbreviated"))
           r == AbbreviatedGroups(q, project)
           first == ReadIn(p, project, GroupsOf(p, project, some, "climate"))
           second == ReadIn(q, project, GroupsOf(q, project, all, "abbreviated"))
<1>1. /\ q = Dialect(p, project, some, "climate") /\ Pass(p, s, q, project, some, "climate")
      /\ r = Dialect(q, project, all, "abbreviated") /\ Pass(q, t, r, project, all, "abbreviated")
  BY DEF ClimateGroups, AbbreviatedGroups, Pass
<1>2. some \subseteq all
  OBVIOUS
<1>3. /\ s.blocked = (p.blocked \ first) \cup TwinsIn(p, project, GroupsOf(p, project, some, "climate"))
                     \cup RivalsIn(p, project, GroupsOf(p, project, some, "climate"))
      /\ DOMAIN s.dpts = first \cup DOMAIN p.dpts /\ \A a \in first : s.dpts[a] = <<1, 11>>
  <2>1. IsPlan(p)
    BY DEF Sound
  <2> HIDE DEF some
  <2> QED
    BY <2>1, SettleIs
<1>4. Half(p, project)
  BY DEF SettledTypes, Half
<1> HIDE DEF q, s
<1>5. Sound(q, project) /\ Half(q, project)
  BY <1>1, <1>4, DialectSound
<1>6. /\ t.blocked = (q.blocked \ second) \cup TwinsIn(q, project, GroupsOf(q, project, all, "abbreviated"))
                     \cup RivalsIn(q, project, GroupsOf(q, project, all, "abbreviated"))
      /\ DOMAIN t.dpts = second \cup DOMAIN q.dpts /\ \A a \in second : t.dpts[a] = <<1, 11>>
      /\ \A a \in DOMAIN q.dpts \ second : t.dpts[a] = q.dpts[a]
  BY <1>5, SettleIs DEF Sound
<1> HIDE DEF r, t
<1>7. Sound(r, project)
  BY <1>1, <1>5, DialectSound
<1>8. q.blocked = s.blocked /\ q.dpts = s.dpts
  BY <1>1, PassIs DEF Sound
<1>9. r.blocked = t.blocked /\ Free(r, project) \subseteq Free(q, project)
  <2>1. IsPlan(q) /\ Pass(q, t, r, project, all, "abbreviated")
    BY <1>1, <1>5 DEF Sound
  <2> HIDE DEF all
  <2> QED
    BY <2>1, PassIs
<1> HIDE DEF all, some
<1>10. Known(r, project)
  <2> SUFFICES ASSUME NEW a \in Free(r, project), a \notin t.blocked PROVE Settled(Group(project, a))
    BY <1>9 DEF Known
  <2>1. a \in DOMAIN project.groups /\ a \notin r.used /\ a \in Free(q, project)
    BY <1>9 DEF Free
  <2>2. CASE a \in second
    <3>1. PICK x \in all : \E b \in Bonds(q, project, Grouping(q, project, x, "abbreviated")) :
                             b.word = "SW_FB" /\ b.address = a
      BY <2>2, ReadWhy
    <3>2. PICK h : Found(h, q, project, x, "abbreviated")
      BY DEF Found
    <3>3. PICK b \in Bonds(q, project, h) : b.word = "SW_FB" /\ b.address = a
      BY <3>1, <3>2 DEF Found
    <3>4. b.command \in Commands(q, project, h.roles["SW"]) /\ Only(project, h, b.command, a)
      BY <3>3, BondIs DEF Only
    <3>5. a \in r.used
      BY <1>1, <1>5, <1>6, <2>2, <3>2, <3>4, AbbreviatedUses DEF Sound
    <3> QED
      BY <2>1, <3>5
  <2>3. CASE a \notin second /\ a \in first
    <3>1. PICK x \in some : \E b \in Bonds(p, project, Grouping(p, project, x, "climate")) :
                              b.word = "SW_FB" /\ b.address = a
      BY <2>3, ReadWhy
    <3>2. PICK g : Found(g, p, project, x, "climate")
      BY DEF Found
    <3>3. PICK h : Found(h, q, project, x, "abbreviated")
      BY DEF Found
    <3>4. PICK b \in Bonds(p, project, g) : b.word = "SW_FB" /\ b.address = a
      BY <3>1, <3>2 DEF Found
    <3>5. b.command \in Commands(p, project, g.roles["SW"]) /\ Only(project, g, b.command, a)
      BY <3>4, BondIs DEF Only
    <3>6. a \notin s.blocked /\ s.dpts[a] = <<1, 11>>
      BY <1>3, <1>6, <1>8, <2>3
    <3>7. b.command \notin q.used
      BY <1>1, <1>4, <2>1, <3>2, <3>5, <3>6, ClimateUses DEF Sound, Free
    <3>8. /\ b.command \in Commands(q, project, h.roles["SW"])
          /\ a \in Rivals(h) \/ Only(project, h, b.command, a)
      BY <1>1, <1>4, <2>1, <3>2, <3>3, <3>5, <3>7, StillOnly DEF Sound
    <3>9. h \in GroupsOf(q, project, all, "abbreviated")
      BY <1>2, <3>3 DEF GroupsOf, Found
    <3>10. a \notin Rivals(h)
      BY <1>6, <3>8, <3>9 DEF RivalsIn
    <3>11. t.dpts[a] = <<1, 11>>
      BY <1>3, <1>6, <1>8, <2>3, <3>6
    <3>12. a \in r.used
      BY <1>1, <1>2, <1>5, <3>3, <3>8, <3>10, <3>11, AbbreviatedUses DEF Sound
    <3> QED
      BY <2>1, <3>12
  <2>4. CASE a \notin second /\ a \notin first
    BY <1>3, <1>6, <1>8, <2>1, <2>4 DEF SettledTypes
  <2> QED
    BY <2>2, <2>3, <2>4
<1> QED
  BY <1>7, <1>10 DEF r, q
----------------------------------------------------------------------------
(* The passes over what the dialects leave *)

LEMMA ScenesSound ==
  ASSUME NEW project, NEW p, Sound(p, project), Known(p, project)
  PROVE  Sound(SceneMetadata(p, project), project) /\ Known(SceneMetadata(p, project), project)
<1> DEFINE scenes == {a \in Free(p, project) : SceneAt(p, project, a)}
           r == [p EXCEPT !.blocked = @ \ scenes, !.conflicting = @ \ scenes]
           Scene(a, n) == Candidate("scene", "scene", [address |-> a, scene_number |-> n])
           new == UNION {{Scene(a, n) : n \in Group(project, a).scene.numbers} : a \in scenes}
           q == SceneMetadata(p, project)
<1>1. q = AddAll(r, new)
  BY DEF SceneMetadata
<1>2. /\ IsPlan(r) /\ r.blocked = p.blocked \ scenes /\ r.used = p.used
      /\ r.reserved = p.reserved /\ r.candidates = p.candidates
  BY DEF IsPlan, Sound
<1>3. \A a, n : /\ Scene(a, n).source = "scene" /\ Addresses(Scene(a, n).config) = {a}
                /\ Number(Scene(a, n).config) = n /\ Shaped(Scene(a, n))
  BY DEF Candidate, Addresses, Numbers, Number, Shaped
<1>4. ASSUME NEW e \in new PROVE \E a \in scenes : \E n : e = Scene(a, n)
  OBVIOUS
<1>5. \A a \in scenes : \E e \in new : Addresses(e.config) = {a}
  <2> SUFFICES ASSUME NEW a \in scenes PROVE \E e \in new : Addresses(e.config) = {a}
    OBVIOUS
  <2>1. PICK n : n \in Group(project, a).scene.numbers
    BY DEF SceneAt
  <2>2. Scene(a, n) \in new
    BY <2>1
  <2> QED
    BY <1>3, <2>2
<1>6. \A a \in scenes : a \in Free(p, project)
  OBVIOUS
<1> HIDE DEF q, r, new, Scene, scenes
<1>7. /\ IsPlan(q) /\ q.blocked = r.blocked /\ q.reserved = r.reserved
      /\ q.candidates = r.candidates \cup new
      /\ q.used = r.used \cup UNION {Addresses(e.config) : e \in new}
  BY <1>1, <1>2, AddAllIs
<1>8. ASSUME NEW e \in new
      PROVE  /\ Addresses(e.config) \subseteq q.used /\ Addresses(e.config) \cap p.used = {}
             /\ Formed(project, e) /\ OneChannel(project, e) /\ Evident(project, e)
  <2>0. PICK a \in scenes : \E n : e = Scene(a, n)
    BY <1>4
  <2>1. PICK n : e = Scene(a, n)
    BY <2>0
  <2>2. e.source = "scene" /\ Addresses(e.config) = {a} /\ a \in Free(p, project) /\ Shaped(e)
    BY <1>3, <1>6, <2>1
  <2>3. Addresses(e.config) \subseteq q.used
    BY <1>7
  <2> QED
    BY <2>2, <2>3 DEF Free, Formed, OneChannel, Evident
<1>9. ASSUME NEW e \in new, NEW f \in new PROVE Apart(e, f)
  <2>1. PICK a \in scenes : \E n : e = Scene(a, n)
    BY <1>4
  <2>2. PICK b \in scenes : \E n : f = Scene(b, n)
    BY <1>4
  <2>3. PICK n : e = Scene(a, n)
    BY <2>1
  <2>4. PICK m : f = Scene(b, m)
    BY <2>2
  <2>5. /\ e.source = "scene" /\ Addresses(e.config) = {a} /\ Number(e.config) = n
        /\ f.source = "scene" /\ Addresses(f.config) = {b} /\ Number(f.config) = m
    BY <1>3, <2>3, <2>4
  <2> QED
    BY <2>3, <2>4, <2>5 DEF Apart
<1>10. Sound(q, project)
  BY <1>2, <1>7, <1>8, <1>9, PassSound
<1>11. Known(q, project)
  <2> SUFFICES ASSUME NEW a \in Free(q, project) \ q.blocked PROVE Settled(Group(project, a))
    BY DEF Known
  <2>1. a \in DOMAIN project.groups /\ a \notin q.used /\ a \notin q.reserved
    BY DEF Free
  <2>2. a \notin scenes
    BY <1>5, <1>7, <2>1
  <2>3. a \in Free(p, project) \ p.blocked
    BY <1>2, <1>7, <2>1, <2>2 DEF Free
  <2> QED
    BY <2>3 DEF Known
<1> QED
  BY <1>10, <1>11 DEF q

LEMMA NamedSound ==
  ASSUME NEW project, NEW p, Sound(p, project), Known(p, project)
  PROVE  Sound(NamedGroups(p, project), project) /\ Known(NamedGroups(p, project), project)
<1> DEFINE free == {a \in Free(p, project) : IsRole(Group(project, a).name.word)}
           group(x) == [kind |-> IF x.unit \in LightUnits THEN "light" ELSE "switch",
                        refs |-> {<<Group(project, a).name.word, a>> : a \in {a \in free : PrefixAt(project, a) = x}},
                        scene |-> 0]
           Named(x) == Grouped(p, project, "name", group(x))
           each == {Named(PrefixAt(project, a)) : a \in free}
           q == NamedGroups(p, project)
           new == UNION {r.candidates \ p.candidates : r \in each}
<1>1. /\ q = [p EXCEPT !.candidates = @ \cup UNION {r.candidates : r \in each},
                       !.used = @ \cup UNION {r.used : r \in each},
                       !.reserved = @ \cup UNION {r.reserved : r \in each},
                       !.blocked = @ \cup UNION {r.blocked : r \in each}]
      /\ IsPlan(p)
  BY DEF NamedGroups, Sound, PrefixAt
<1>2. \A x : Gives(p, Named(x), "name", Fit(p, project, group(x)))
  BY <1>1, GroupedGives
<1>3. ASSUME NEW x, NEW a \in Fit(p, project, group(x))
      PROVE  PrefixAt(project, a) = x /\ a \in Free(p, project) \ p.blocked
  <2>1. PICK ref \in group(x).refs : ref[2] = a
    BY DEF Fit
  <2>2. PICK b \in free : PrefixAt(project, b) = x /\ ref = <<Group(project, b).name.word, b>>
    BY <2>1
  <2>3. b = a
    BY <2>1, <2>2
  <2> QED
    BY <2>2, <2>3 DEF Fit
<1>4. ASSUME NEW r \in each PROVE \E x : r = Named(x)
  OBVIOUS
<1> HIDE DEF Named, each, group, q
<1>5. /\ IsPlan(q) /\ q.candidates = p.candidates \cup UNION {r.candidates : r \in each}
      /\ q.used = p.used \cup UNION {r.used : r \in each}
      /\ q.reserved = p.reserved \cup UNION {r.reserved : r \in each}
      /\ q.blocked = p.blocked \cup UNION {r.blocked : r \in each}
  BY <1>1 DEF IsPlan
<1>6. ASSUME NEW e \in new
      PROVE  \E x : /\ e \in Named(x).candidates \ p.candidates
                    /\ \A a \in Addresses(e.config) : PrefixAt(project, a) = x
                    /\ Addresses(e.config) \subseteq Free(p, project) \ p.blocked
                    /\ Addresses(e.config) \subseteq q.used /\ e.source = "name" /\ Shaped(e)
  <2>1. PICK r \in each : e \in r.candidates \ p.candidates
    BY <1>6
  <2>2. PICK x : r = Named(x)
    BY <1>4
  <2>3. /\ Addresses(e.config) \subseteq Fit(p, project, group(x))
        /\ Addresses(e.config) \subseteq r.used /\ e.source = "name" /\ Shaped(e)
    BY <1>2, <2>1, <2>2 DEF Gives
  <2> QED
    BY <1>3, <1>5, <2>1, <2>2, <2>3
<1> HIDE DEF new
<1>7. ASSUME NEW e \in new
      PROVE  /\ Addresses(e.config) \subseteq q.used /\ Addresses(e.config) \cap p.used = {}
             /\ Formed(project, e) /\ OneChannel(project, e) /\ Evident(project, e)
  BY <1>6 DEF Known, Free, Formed, OneChannel, Evident
<1>8. ASSUME NEW e \in new, NEW f \in new PROVE Apart(e, f)
  <2>1. PICK x : /\ e \in Named(x).candidates \ p.candidates
                 /\ \A a \in Addresses(e.config) : PrefixAt(project, a) = x
    BY <1>6
  <2>2. PICK y : /\ f \in Named(y).candidates \ p.candidates
                 /\ \A a \in Addresses(f.config) : PrefixAt(project, a) = y
    BY <1>6
  <2>3. CASE x = y
    BY <1>2, <2>1, <2>2, <2>3 DEF Gives, Apart
  <2>4. CASE x # y
    BY <2>1, <2>2, <2>4 DEF Apart
  <2> QED
    BY <2>3, <2>4
<1>9. q.candidates \subseteq p.candidates \cup new
  BY <1>5 DEF new
<1>10. Sound(q, project)
  BY <1>5, <1>7, <1>8, <1>9, PassSound
<1>11. Known(q, project)
  BY <1>5 DEF Known, Free
<1> QED
  BY <1>10, <1>11 DEF q

LEMMA SingleIs ==
  ASSUME NEW p, NEW project, NEW a, NEW e \in Single(p, project, a)
  PROVE  /\ e.source = "flags" /\ Addresses(e.config) = {a} /\ Shaped(e)
         /\ \A f \in Single(p, project, a) : e = f
<1> DEFINE b == Candidate("flags", "binary_sensor", [state |-> a])
           w == Candidate("flags", "switch", [address |-> a])
           s == Candidate("flags", "sensor", [state |-> a])
<1>1. /\ b.source = "flags" /\ Addresses(b.config) = {a} /\ Shaped(b)
      /\ w.source = "flags" /\ Addresses(w.config) = {a} /\ Shaped(w)
      /\ s.source = "flags" /\ Addresses(s.config) = {a} /\ Shaped(s)
  BY DEF Candidate, Addresses, Numbers, Shaped
<1>2. Single(p, project, a) \in {{}, {b}, {w}, {s}}
  BY Zenon DEF Single
<1> HIDE DEF b, w, s
<1> QED
  BY <1>1, <1>2

LEMMA FallbackSound ==
  ASSUME NEW project, NEW p, Sound(p, project), Known(p, project)
  PROVE  Sound(Fallback(p, project), project)
<1> DEFINE left == Free(p, project) \ p.blocked
           new == UNION {Single(p, project, a) : a \in left}
           q == AddAll(p, new)
<1>1. /\ IsPlan(q) /\ q.candidates = p.candidates \cup new
      /\ q.used = p.used \cup UNION {Addresses(e.config) : e \in new}
  BY AddAllIs DEF Sound
<1>2. ASSUME NEW e \in new PROVE \E a \in left : e \in Single(p, project, a)
  OBVIOUS
<1> HIDE DEF q, new
<1>3. ASSUME NEW e \in new
      PROVE  /\ Addresses(e.config) \subseteq q.used /\ Addresses(e.config) \cap p.used = {}
             /\ Formed(project, e) /\ OneChannel(project, e) /\ Evident(project, e)
  <2>1. PICK a \in left : e \in Single(p, project, a)
    BY <1>2
  <2>2. e.source = "flags" /\ Addresses(e.config) = {a} /\ Shaped(e)
    BY <2>1, SingleIs
  <2>3. Addresses(e.config) \subseteq q.used
    BY <1>1
  <2> QED
    BY <2>2, <2>3 DEF Free, Known, Formed, OneChannel, Evident
<1>4. ASSUME NEW e \in new, NEW f \in new PROVE Apart(e, f)
  <2>1. PICK a \in left : e \in Single(p, project, a)
    BY <1>2
  <2>2. PICK b \in left : f \in Single(p, project, b)
    BY <1>2
  <2>3. Addresses(e.config) = {a} /\ Addresses(f.config) = {b} /\ (a = b => e = f)
    BY <2>1, <2>2, SingleIs
  <2> QED
    BY <2>3 DEF Apart
<1>5. Sound(q, project)
  BY <1>1, <1>3, <1>4, PassSound
<1> QED
  BY <1>5 DEF q, new, Fallback
----------------------------------------------------------------------------
(* The passes one after another, and what is planned of them *)

LEMMA PlannedSound ==
  ASSUME NEW project, Len(project.functions) \in Nat
  PROVE  Sound(Planned(project), project)
<1> DEFINE explicit == FunctionGroups(Load(project), project)
           joined == AbbreviatedGroups(ClimateGroups(explicit, project), project)
           scenes == SceneMetadata(joined, project)
           named == NamedGroups(scenes, project)
<1>1. Sound(explicit, project) /\ SettledTypes(explicit, project)
  BY FunctionsSound
<1>2. Planned(project) = Fallback(named, project)
  BY DEF Planned
<1> HIDE DEF explicit
<1>3. Sound(joined, project) /\ Known(joined, project)
  BY <1>1, BothDialects
<1> HIDE DEF joined
<1>4. Sound(scenes, project) /\ Known(scenes, project)
  BY <1>3, ScenesSound
<1> HIDE DEF scenes
<1>5. Sound(named, project) /\ Known(named, project)
  BY <1>4, NamedSound
<1> HIDE DEF named
<1>6. Sound(Fallback(named, project), project)
  BY <1>5, FallbackSound
<1> QED
  BY <1>2, <1>6

InPlan(project, e, c) ==
  e = [uid |-> UniqueId(project, c), source |-> c.source, platform |-> c.platform, config |-> c.config]

LEMMA PlanProjectIs ==
  ASSUME NEW project, NEW e \in PlanProject(project)
  PROVE  \E c \in Planned(project).candidates : InPlan(project, e, c)
<1>1. Accepted(Planned(project)) \subseteq Planned(project).candidates
  BY DEF Accepted, Alive
<1> QED
  BY <1>1 DEF PlanProject, InPlan

LEMMA PlanSays ==
  ASSUME RecordInv
  PROVE  NothingIsGuessed
<1> SUFFICES ASSUME imported > 0 PROVE NothingIsGuessed
  BY DEF NothingIsGuessed
<1> DEFINE project == Project
           plan == PlanOf[history.projects[imported]]
<1>1. history.projects \in Seq(DOMAIN Projects) /\ imported \in 0 .. Len(history.projects)
  BY HistoriesAssumption DEF RecordInv, RecordTypes
<1>2. history.projects[imported] \in DOMAIN Projects
  BY <1>1
<1>3. project = Projects[history.projects[imported]] /\ plan = PlanProject(project)
  BY <1>2, PlansAssumption DEF Project
<1>4. Len(project.functions) \in Nat
  <2>1. project.functions \in Seq(Range(project.functions))
    BY <1>2, <1>3, ProjectsAssumption
  <2> QED
    BY <2>1
<1> HIDE DEF project, plan
<1>5. Sound(Planned(project), project)
  BY <1>4, PlannedSound
<1>6. ASSUME NEW e \in plan PROVE \E c \in Planned(project).candidates : InPlan(project, e, c)
  BY <1>3, <1>6, PlanProjectIs
<1>7. ASSUME NEW e \in plan, NEW f \in plan PROVE Apart(e, f)
  <2>1. PICK c \in Planned(project).candidates : InPlan(project, e, c)
    BY <1>6
  <2>2. PICK d \in Planned(project).candidates : InPlan(project, f, d)
    BY <1>6
  <2>3. Apart(c, d)
    BY <1>5 DEF Sound
  <2>4. CASE c = d
    BY <2>1, <2>2, <2>4 DEF InPlan, Apart
  <2>5. e.source = c.source /\ e.config = c.config /\ f.source = d.source /\ f.config = d.config
    BY <2>1, <2>2 DEF InPlan
  <2>6. CASE c # d
    BY <2>3, <2>5, <2>6 DEF Apart
  <2> QED
    BY <2>4, <2>6
<1>8. ASSUME NEW e \in plan PROVE OneChannel(project, e) /\ Evident(project, e)
  <2>1. PICK c \in Planned(project).candidates : InPlan(project, e, c)
    BY <1>6
  <2>2. OneChannel(project, c) /\ Evident(project, c)
    BY <1>5 DEF Sound
  <2>3. e.source = c.source /\ e.config = c.config
    BY <2>1 DEF InPlan
  <2> QED
    BY <2>2, <2>3 DEF OneChannel, Evident
<1>9. \A e, f \in plan :
        e = f \/ Addresses(e.config) \cap Addresses(f.config) = {}
        \/ (e.source = "function" /\ f.source = "function")
        \/ (e.source = "scene" /\ f.source = "scene" /\ Number(e.config) # Number(f.config))
  BY <1>7 DEF Apart
<1>10. \A e \in plan : e.source = "channel" =>
         \A f, g \in DOMAIN e.config :
           /\ Channels(project, e.config[f], f \in States) = Channels(project, e.config[g], g \in States)
           /\ Cardinality(Channels(project, e.config[f], f \in States)) = 1
  BY <1>8 DEF OneChannel
<1>11. \A e \in plan : \A a \in Addresses(e.config) :
         \/ Settled(Group(project, a)) \/ e.source = "scene"
         \/ e.source = "channel" /\ DptChoices(Group(project, a)) \subseteq Bits
  BY <1>8 DEF Evident
<1> QED
  BY <1>9, <1>10, <1>11 DEF NothingIsGuessed, project, plan

(* Of any ETS projects, imported in any order, the mapper plans what they   *)
(* prove and nothing else: no pass takes an address that another has given  *)
(* to an entity, a command and what was joined to it are on one channel,    *)
(* and a datapoint type that the project leaves open makes no entity but a  *)
(* scene or a one-bit feedback (plan_project's passes, _bind_optional_role). *)
THEOREM NothingGuessed == Spec => []NothingIsGuessed
<1>1. RecordInv => NothingIsGuessed
  BY PlanSays
<1> QED
  BY <1>1, RecordHolds, PTL
----------------------------------------------------------------------------
(* No two rows of a plan have one identity *)

(* The field that First takes, by the fields that are there. *)
LEMMA PrimaryIs ==
  ASSUME NEW config
  PROVE  /\ "address" \in DOMAIN config => Primary(config) = config["address"]
         /\ "address" \notin DOMAIN config =>
              /\ "move_long" \in DOMAIN config => Primary(config) = config["move_long"]
              /\ "move_long" \notin DOMAIN config =>
                   /\ "position" \in DOMAIN config => Primary(config) = config["position"]
                   /\ "position" \notin DOMAIN config /\ "target" \in DOMAIN config =>
                        Primary(config) = config["target"]
<1> DEFINE fields == <<"address", "move_long", "position", "target", "on_off", "state", "temperature">>
           Least(i) == fields[i] \in DOMAIN config /\ \A j \in 1 .. i - 1 : fields[j] \notin DOMAIN config
<1>1. Primary(config) = config[fields[CHOOSE i \in DOMAIN fields : Least(i)]]
  BY DEF Primary, First
<1>2. DOMAIN fields = 1 .. 7
  OBVIOUS
<1>3. ASSUME NEW i \in 1 .. 7, Least(i) PROVE Primary(config) = config[fields[i]]
  <2>1. \A k \in 1 .. 7 : Least(k) => k = i
    <3> SUFFICES ASSUME NEW k \in 1 .. 7, Least(k), k # i PROVE FALSE
      OBVIOUS
    <3>1. k < i \/ i < k
      OBVIOUS
    <3> HIDE DEF fields
    <3>2. CASE k < i
      BY <1>3, <3>2
    <3>3. CASE i < k
      BY <1>3, <3>3
    <3> QED
      BY <3>1, <3>2, <3>3
  <2> HIDE DEF Least
  <2>2. (CHOOSE k \in DOMAIN fields : Least(k)) = i
    BY <1>2, <1>3, <2>1
  <2> QED
    BY <1>1, <2>2
<1>4. /\ fields[1] = "address" /\ fields[2] = "move_long" /\ fields[3] = "position" /\ fields[4] = "target"
  OBVIOUS
<1> HIDE DEF fields
<1>5. ASSUME "address" \in DOMAIN config PROVE Primary(config) = config["address"]
  <2>1. Least(1)
    BY <1>4, <1>5
  <2> QED
    BY <1>3, <1>4, <2>1
<1>6. ASSUME "address" \notin DOMAIN config, "move_long" \in DOMAIN config
      PROVE  Primary(config) = config["move_long"]
  <2>1. Least(2)
    BY <1>4, <1>6
  <2> QED
    BY <1>3, <1>4, <2>1
<1>7. ASSUME "address" \notin DOMAIN config, "move_long" \notin DOMAIN config, "position" \in DOMAIN config
      PROVE  Primary(config) = config["position"]
  <2>1. Least(3)
    BY <1>4, <1>7
  <2> QED
    BY <1>3, <1>4, <2>1
<1>8. ASSUME "address" \notin DOMAIN config, "move_long" \notin DOMAIN config, "position" \notin DOMAIN config,
             "target" \in DOMAIN config
      PROVE  Primary(config) = config["target"]
  <2>1. Least(4)
    BY <1>4, <1>8
  <2> QED
    BY <1>3, <1>4, <2>1
<1> QED
  BY <1>5, <1>6, <1>7, <1>8

(* A fan is identified by the address that it claims. *)
LEMMA FanIdentity ==
  ASSUME NEW config, "address" \in DOMAIN config
  PROVE  First(config, <<"address", "switch">>) = config["address"]
<1> DEFINE fields == <<"address", "switch">>
           Least(i) == fields[i] \in DOMAIN config /\ \A j \in 1 .. i - 1 : fields[j] \notin DOMAIN config
<1>1. First(config, fields) = config[fields[CHOOSE i \in DOMAIN fields : Least(i)]]
  BY DEF First
<1>2. DOMAIN fields = 1 .. 2 /\ fields[1] = "address"
  OBVIOUS
<1> HIDE DEF fields
<1>3. Least(1) /\ ~Least(2)
  BY <1>2
<1> HIDE DEF Least
<1>4. (CHOOSE i \in DOMAIN fields : Least(i)) = 1
  <2>1. \A i \in 1 .. 2 : Least(i) => i = 1
    <3> SUFFICES ASSUME NEW i \in 1 .. 2, Least(i) PROVE i = 1
      OBVIOUS
    <3>1. i = 1 \/ i = 2
      OBVIOUS
    <3> QED
      BY <1>3, <3>1
  <2> QED
    BY <1>2, <1>3, <2>1
<1> QED
  BY <1>1, <1>2, <1>4 DEF fields

(* What has a field where another has none, and 0 stands for none. *)
LEMMA SameAt ==
  ASSUME NEW S, 0 \notin S, NEW c, NEW d, NEW f, f \notin Numbers,
         Addresses(c) \subseteq S, Addresses(d) \subseteq S, At(c, f) = At(d, f)
  PROVE  (f \in DOMAIN c <=> f \in DOMAIN d) /\ (f \in DOMAIN c => c[f] = d[f])
<1>1. f \in DOMAIN c => c[f] \in S
  BY DEF Addresses
<1>2. f \in DOMAIN d => d[f] \in S
  BY DEF Addresses
<1> QED
  BY <1>1, <1>2 DEF At

(* An entity that has a state alone claims its address. *)
LEMMA OnlyState ==
  ASSUME NEW config, DOMAIN config = {"state"}
  PROVE  Primary(config) = config["state"]
<1> DEFINE fields == <<"address", "move_long", "position", "target", "on_off", "state", "temperature">>
           Least(i) == fields[i] \in DOMAIN config /\ \A j \in 1 .. i - 1 : fields[j] \notin DOMAIN config
<1>1. Primary(config) = config[fields[CHOOSE i \in DOMAIN fields : Least(i)]]
  BY DEF Primary, First
<1>2. /\ DOMAIN fields = 1 .. 7 /\ fields[6] = "state"
      /\ \A i \in 1 .. 7 : i # 6 => fields[i] # "state"
  <2>1. \A i \in 1 .. 7 : i = 1 \/ i = 2 \/ i = 3 \/ i = 4 \/ i = 5 \/ i = 6 \/ i = 7
    OBVIOUS
  <2> QED
    BY <2>1
<1> HIDE DEF fields
<1>3. \A i \in 1 .. 7 : Least(i) <=> i = 6
  BY <1>2
<1> HIDE DEF Least
<1>4. (CHOOSE i \in DOMAIN fields : Least(i)) = 6
  BY <1>2, <1>3
<1> QED
  BY <1>1, <1>2, <1>4

(* Two entities of one platform and identity claim the same. *)
Identified(e, f) == e.platform = f.platform /\ Canonical(e) = Canonical(f)
Claims(e, f) == Claim(e) = Claim(f)

LEMMA SameClaim ==
  ASSUME NEW project, 0 \notin DOMAIN project.groups, NEW e, NEW f,
         Formed(project, e), Formed(project, f), Apart(e, f), Identified(e, f)
  PROVE  Claims(e, f)
<1> DEFINE c == e.config
           d == f.config
<1>1. ASSUME NEW x, x \notin Numbers, At(c, x) = At(d, x)
      PROVE  (x \in DOMAIN c <=> x \in DOMAIN d) /\ (x \in DOMAIN c => c[x] = d[x])
  BY <1>1, SameAt DEF Formed
<1>2. \A x \in {"address", "move_long", "position", "target", "state", "temperature"} : x \notin Numbers
  BY DEF Numbers
<1>3. Shaped(e) /\ Shaped(f) /\ e.platform = f.platform
  BY DEF Formed, Identified
<1>4. CASE e.platform \in {"light", "switch", "button"}
  <2>1. At(c, "address") = At(d, "address")
    BY <1>3, <1>4 DEF Canonical, Identified
  <2>2. "address" \in DOMAIN c /\ "address" \in DOMAIN d
    BY <1>3, <1>4 DEF Shaped
  <2>3. Number(c) = 0 /\ Number(d) = 0
    BY <1>3, <1>4 DEF Shaped, Number
  <2> QED
    BY <1>1, <1>2, <2>1, <2>2, <2>3, PrimaryIs DEF Claims, Claim
<1>5. CASE e.platform \in {"sensor", "binary_sensor"}
  <2>1. At(c, "state") = At(d, "state")
    BY <1>3, <1>5 DEF Canonical, Identified
  <2>2. DOMAIN c = {"state"} /\ DOMAIN d = {"state"}
    BY <1>3, <1>5 DEF Shaped
  <2>3. Number(c) = 0 /\ Number(d) = 0
    BY <2>2 DEF Number
  <2> QED
    BY <1>1, <1>2, <2>1, <2>2, <2>3, OnlyState DEF Claims, Claim
<1>6. CASE e.platform = "fan"
  <2>1. "address" \in DOMAIN c /\ "address" \in DOMAIN d
    BY <1>3, <1>6 DEF Shaped
  <2>2. Canonical(e) = <<First(c, <<"address", "switch">>)>> /\ Canonical(f) = <<First(d, <<"address", "switch">>)>>
    BY <1>3, <1>6 DEF Canonical
  <2>3. c["address"] = d["address"]
    <3>1. First(c, <<"address", "switch">>) = First(d, <<"address", "switch">>)
      <4>1. \A x, y : <<x>> = <<y>> => x = y
        OBVIOUS
      <4>2. Canonical(e) = Canonical(f)
        BY DEF Identified
      <4> HIDE DEF c, d
      <4> QED
        BY <2>2, <4>1, <4>2
    <3> QED
      BY <2>1, <3>1, FanIdentity
  <2>4. Number(c) = 0 /\ Number(d) = 0
    BY <1>3, <1>6 DEF Shaped, Number
  <2> QED
    BY <2>1, <2>3, <2>4, PrimaryIs DEF Claims, Claim
<1>7. CASE e.platform = "cover"
  <2>1. At(c, "move_long") = At(d, "move_long") /\ At(c, "position") = At(d, "position")
    BY <1>3, <1>7 DEF Canonical, Identified
  <2>2. /\ "address" \notin DOMAIN c /\ {"move_long", "position"} \cap DOMAIN c # {}
        /\ "address" \notin DOMAIN d /\ {"move_long", "position"} \cap DOMAIN d # {}
    BY <1>3, <1>7 DEF Shaped
  <2>3. Number(c) = 0 /\ Number(d) = 0
    BY <1>3, <1>7 DEF Shaped, Number
  <2>4. \A x \in {"move_long", "position"} : (x \in DOMAIN c <=> x \in DOMAIN d) /\ (x \in DOMAIN c => c[x] = d[x])
    BY <1>1, <1>2, <2>1
  <2>5. Primary(c) = Primary(d)
    <3>1. CASE "move_long" \in DOMAIN c
      BY <2>2, <2>4, <3>1, PrimaryIs
    <3>2. CASE "move_long" \notin DOMAIN c
      BY <2>2, <2>4, <3>2, PrimaryIs
    <3> QED
      BY <3>1, <3>2
  <2> QED
    BY <2>3, <2>5 DEF Claims, Claim
<1>8. CASE e.platform = "climate"
  <2>1. At(c, "temperature") = At(d, "temperature") /\ At(c, "target") = At(d, "target")
    BY <1>3, <1>8 DEF Canonical, Identified
  <2>2. /\ {"address", "move_long", "position"} \cap DOMAIN c = {}
        /\ {"address", "move_long", "position"} \cap DOMAIN d = {}
    BY <1>3, <1>8 DEF Shaped
  <2>3. \A x \in {"temperature", "target"} : (x \in DOMAIN c <=> x \in DOMAIN d) /\ (x \in DOMAIN c => c[x] = d[x])
    BY <1>1, <1>2, <2>1
  <2>4. Number(c) = 0 /\ Number(d) = 0
    BY <1>3, <1>8 DEF Shaped, Number
  <2>5. CASE "target" \in DOMAIN c
    BY <2>2, <2>3, <2>4, <2>5, PrimaryIs DEF Claims, Claim
  <2>6. CASE "target" \notin DOMAIN c
    <3>1. /\ e.source = "channel" /\ "temperature" \in DOMAIN c
          /\ f.source = "channel" /\ "temperature" \in DOMAIN d
      BY <1>3, <1>8, <2>3, <2>6 DEF Shaped
    <3>2. c["temperature"] \in Addresses(c) \cap Addresses(d)
      BY <1>2, <2>3, <3>1 DEF Addresses
    <3>3. e = f
      BY <3>1, <3>2 DEF Apart
    <3> QED
      BY <3>3 DEF Claims
  <2> QED
    BY <2>5, <2>6
<1>9. CASE e.platform = "scene"
  <2>1. {"address", "scene_number"} \subseteq DOMAIN c /\ {"address", "scene_number"} \subseteq DOMAIN d
    BY <1>3, <1>9 DEF Shaped
  <2>2. At(c, "address") = At(d, "address") /\ At(c, "scene_number") = At(d, "scene_number")
    BY <1>3, <1>9 DEF Canonical, Identified
  <2>3. c["address"] = d["address"] /\ c["scene_number"] = d["scene_number"]
    BY <2>1, <2>2 DEF At
  <2>4. Number(c) = Number(d)
    BY <2>1, <2>3 DEF Number
  <2> QED
    BY <2>1, <2>3, <2>4, PrimaryIs DEF Claims, Claim
<1> QED
  BY <1>3, <1>4, <1>5, <1>6, <1>7, <1>8, <1>9 DEF Shaped

(* What is planned of a project, one entity to a claim. *)
LEMMA AcceptedIs ==
  ASSUME NEW project, NEW c \in Accepted(Planned(project)), NEW d \in Accepted(Planned(project)), Claims(c, d)
  PROVE  c.platform = d.platform /\ c.config = d.config
<1>1. c \in Alive(Planned(project)) /\ d \in Alive(Planned(project)) /\ c \notin Disputed(Alive(Planned(project)))
  BY DEF Accepted
<1> QED
  BY <1>1 DEF Disputed, Claims

AdaptedOf(x, mode, format) ==
  LET row == [x EXCEPT !.uid = IF mode = "custom" THEN @ ELSE NoUid]
  IN  [row EXCEPT !.noted = RowIdentity(row, format)]
RowOf(project, c) == Row(c.platform, c.config, UniqueId(project, c))

LEMMA AdaptedIs ==
  ASSUME NEW project, NEW c, NEW mode, NEW format
  PROVE  LET r == AdaptedOf(RowOf(project, c), mode, format) IN
         /\ r.platform = c.platform /\ r.config = c.config
         /\ r.uid = IF mode = "custom" THEN UniqueId(project, c) ELSE NoUid
  BY DEF AdaptedOf, RowOf, Row

LEMMA SameIdentity ==
  ASSUME NEW project, 0 \notin DOMAIN project.groups, NEW mode, NEW format, NEW c, NEW d,
         Formed(project, c), Formed(project, d), Apart(c, d),
         RowIdentity(AdaptedOf(RowOf(project, c), mode, format), format)
           = RowIdentity(AdaptedOf(RowOf(project, d), mode, format), format)
  PROVE  Claims(c, d)
<1> DEFINE r == AdaptedOf(RowOf(project, c), mode, format)
           s == AdaptedOf(RowOf(project, d), mode, format)
<1>1. /\ r.platform = c.platform /\ r.config = c.config
      /\ r.uid = IF mode = "custom" THEN UniqueId(project, c) ELSE NoUid
  BY AdaptedIs
<1>2. /\ s.platform = d.platform /\ s.config = d.config
      /\ s.uid = IF mode = "custom" THEN UniqueId(project, d) ELSE NoUid
  BY AdaptedIs
<1>3. RowIdentity(r, format) = RowIdentity(s, format)
  OBVIOUS
<1> HIDE DEF r, s
<1>4. CASE mode = "custom"
  <2>1. UniqueId(project, c) # NoUid /\ UniqueId(project, d) # NoUid
    BY SomeUid
  <2>2. UniqueId(project, c) = UniqueId(project, d)
    BY <1>1, <1>2, <1>3, <1>4, <2>1 DEF RowIdentity
  <2>3. <<project.id, Claim(c)>> = <<project.id, Claim(d)>>
    BY <2>2 DEF UniqueId
  <2>4. \A i, x, y : <<i, x>> = <<i, y>> => x = y
    OBVIOUS
  <2> QED
    BY <2>3, <2>4 DEF Claims
<1>5. CASE mode # "custom"
  <2>1. r.uid = NoUid /\ s.uid = NoUid
    BY <1>1, <1>2, <1>5
  <2>2. /\ RowIdentity(r, format) = <<r.platform, [by |-> format, ids |-> Canonical(r)]>>
        /\ RowIdentity(s, format) = <<s.platform, [by |-> format, ids |-> Canonical(s)]>>
    BY <2>1 DEF RowIdentity
  <2>3. r.platform = s.platform /\ Canonical(r) = Canonical(s)
    <3>1. \A x, y, u, v : <<x, u>> = <<y, v>> => x = y /\ u = v
      OBVIOUS
    <3>2. \A x, y : [by |-> format, ids |-> x] = [by |-> format, ids |-> y] => x = y
      OBVIOUS
    <3>3. <<r.platform, [by |-> format, ids |-> Canonical(r)]>> = <<s.platform, [by |-> format, ids |-> Canonical(s)]>>
      BY <1>3, <2>2
    <3>4. /\ r.platform = s.platform
          /\ [by |-> format, ids |-> Canonical(r)] = [by |-> format, ids |-> Canonical(s)]
      BY <3>1, <3>3
    <3> QED
      BY <3>2, <3>4
  <2>4. Canonical(r) = Canonical(c) /\ Canonical(s) = Canonical(d)
    BY <1>1, <1>2, SameCanonical
  <2>5. Identified(c, d)
    BY <1>1, <1>2, <2>3, <2>4 DEF Identified
  <2> QED
    BY <2>5, SameClaim
<1> QED
  BY <1>4, <1>5

(* indexed_rows takes what the mapper planned. *)
PlanIsIndexed ==
  imported > 0 => \A mode \in Modes : Indexed(AdaptPlanIdentity(AutoRows, mode, Format), Format)

LEMMA PlanIndexed ==
  ASSUME RecordInv
  PROVE  PlanIsIndexed
<1> DEFINE format == Format
<1> SUFFICES ASSUME imported > 0, NEW mode \in Modes,
                    NEW r \in AdaptPlanIdentity(AutoRows, mode, format),
                    NEW s \in AdaptPlanIdentity(AutoRows, mode, format),
                    RowIdentity(r, format) = RowIdentity(s, format)
             PROVE  r = s
  BY DEF PlanIsIndexed, Indexed
<1> HIDE DEF format
<1> DEFINE project == Project
<1>1. history.projects \in Seq(DOMAIN Projects) /\ imported \in 0 .. Len(history.projects)
  BY HistoriesAssumption DEF RecordInv, RecordTypes
<1>2. history.projects[imported] \in DOMAIN Projects
  BY <1>1
<1>3. project = Projects[history.projects[imported]] /\ PlanOf[history.projects[imported]] = PlanProject(project)
  BY <1>2, PlansAssumption DEF Project
<1>4. Len(project.functions) \in Nat /\ 0 \notin DOMAIN project.groups
  <2>1. project.functions \in Seq(Range(project.functions)) /\ 0 \notin DOMAIN project.groups
    BY <1>2, <1>3, ProjectsAssumption
  <2> QED
    BY <2>1
<1> HIDE DEF project
<1>5. Sound(Planned(project), project)
  BY <1>4, PlannedSound
<1>6. ASSUME NEW x \in AutoRows PROVE \E c \in Accepted(Planned(project)) : x = RowOf(project, c)
  <2>1. PICK e \in PlanProject(project) : x = Row(e.platform, e.config, e.uid)
    BY <1>3, <1>6 DEF AutoRows
  <2>2. PICK c \in Accepted(Planned(project)) : InPlan(project, e, c)
    BY <2>1 DEF PlanProject, InPlan
  <2>3. x = RowOf(project, c)
    BY <2>1, <2>2 DEF InPlan, RowOf
  <2> QED
    BY <2>3
<1>7. ASSUME NEW x \in AdaptPlanIdentity(AutoRows, mode, format)
      PROVE  \E c \in Accepted(Planned(project)) : x = AdaptedOf(RowOf(project, c), mode, format)
  <2>1. PICK y \in AutoRows : x = AdaptedOf(y, mode, format)
    BY <1>7 DEF AdaptPlanIdentity, AdaptedOf
  <2>2. PICK c \in Accepted(Planned(project)) : y = RowOf(project, c)
    BY <1>6
  <2> QED
    BY <2>1, <2>2
<1>8. PICK c \in Accepted(Planned(project)) : r = AdaptedOf(RowOf(project, c), mode, format)
  BY <1>7
<1>9. PICK d \in Accepted(Planned(project)) : s = AdaptedOf(RowOf(project, d), mode, format)
  BY <1>7
<1>10. c \in Planned(project).candidates /\ d \in Planned(project).candidates
  BY DEF Accepted, Alive
<1>11. Formed(project, c) /\ Formed(project, d) /\ Apart(c, d)
  BY <1>5, <1>10 DEF Sound
<1>12. Claims(c, d)
  BY <1>4, <1>8, <1>9, <1>11, SameIdentity
<1>13. c.platform = d.platform /\ c.config = d.config
  BY <1>12, AcceptedIs
<1>14. UniqueId(project, c) = UniqueId(project, d)
  BY <1>13, SameUniqueId
<1>15. RowOf(project, c) = RowOf(project, d)
  BY <1>13, <1>14 DEF RowOf
<1> QED
  BY <1>8, <1>9, <1>15

(* Of whatever ETS project was imported last, whichever way the running     *)
(* version of Home Assistant identifies entities, the mapper's rows are     *)
(* told apart: two entities of one platform are never given one unique_id,  *)
(* nor addresses from which Home Assistant computes one.  What the mapper   *)
(* planned is never refused by indexed_rows on its own account (result's    *)
(* claims, row_identity, indexed_rows).                                     *)
THEOREM PlansAreIndexed == Spec => []PlanIsIndexed
<1>1. RecordInv => PlanIsIndexed
  BY PlanIndexed
<1> QED
  BY <1>1, RecordHolds, PTL
=============================================================================
