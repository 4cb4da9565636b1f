------------------------ MODULE KnxDeployment_proofs ------------------------
(***************************************************************************)
(* Proofs about KnxDeployment for every set of projects and entities and   *)
(* any number of deployments, stops, faults and user actions.              *)
(*                                                                         *)
(* ConsistentAtRest is not inductive: what is at rest follows from what    *)
(* every phase of a transaction or a rollback has already done, and from   *)
(* the journal of a stopped one.  FileInv says that for the files,         *)
(* DisablerInv for the registry and EditInv for the user's edits.          *)
(***************************************************************************)
EXTENDS KnxDeployment, TLAPS

(* A before image worth returning to: a finished deployment or none, its    *)
(* package or a hand-edited one, and an include only with a package.        *)
GoodJournal(j) ==
  /\ j.project \in Project
  /\ j.prev.done <=> j.prev.project # None
  /\ j.gen \in {j.prev.project, Edit}
  /\ ~j.activates => j.root.active
  /\ j.root.active => j.gen # None

SameImages(j, k) ==
  /\ j.project = k.project /\ j.prev = k.prev /\ j.gen = k.gen
  /\ j.root = k.root /\ j.activates = k.activates /\ j.restore = k.restore

PackageWritten == {"check_root", "write_root", "validate", "reload", "wait", "verify",
                   "journal_retired", "retire", "commit", "note_success", "clear"}

FileInv ==
  /\ ConsistentAtRest
  /\ NoDanglingInclude
  /\ Pending => GoodJournal(journal)
  /\ pc \in Transaction \cup Rollback =>
       GoodJournal(mem) /\ (Pending => SameImages(mem, journal))
  /\ pc \in Preflight \cup {"write_journal"} => ~Pending
  /\ pc \in Transaction \ {"write_journal"} => Pending
  /\ pc \in Transaction => mem.project = want /\ mem.prev = prev
  /\ pc \in {"check_project", "plan", "write_journal"} => manifest = prev
  /\ pc \in Preflight \cup Transaction => want \in Project
  /\ pc \in Rollback => /\ mode \in {"failed", "pending", "recover"}
                        /\ mode # "recover" => want \in Project
  /\ pc \in Rollback /\ ~Pending => manifest = mem.prev
  /\ pc \in PackageWritten => gen \in {want, Edit}
  /\ pc \in {"note_success", "clear"} => manifest.project = want /\ manifest.done
  /\ pc = "rb_gen" /\ mem.activates => (root.active => mem.root.active)
  /\ pc \in {"rb_manifest", "rb_registry", "rb_reload", "rb_clear"} => gen \in {mem.gen, Edit}
  /\ pc \in {"rb_registry", "rb_reload", "rb_clear"} => manifest = mem.prev

(* The integration's disablers, and those that a manifest accounts for. *)
Disablers == {e \in Entity : registry[e] = "integration"}
Recorded(m) == m.retired \ Entities(m.project)

BeforeRestoring == {"write_journal", "write_manifest", "check_gen", "write_gen",
                    "check_root", "write_root", "validate"}
BeforeRetiring == {"reload", "wait", "verify", "journal_retired", "retire"}

DisablerInv ==
  /\ OnlyRecordedDisablers
  /\ Pending => /\ journal.restore \subseteq Recorded(journal.prev)
                /\ Disablers \subseteq Recorded(journal.prev) \cup journal.retire
  /\ pc \in Transaction \cup Rollback =>
       /\ mem.restore \subseteq Recorded(mem.prev)
       /\ Disablers \subseteq Recorded(mem.prev) \cup mem.retire
       /\ Pending => journal.retire \subseteq mem.retire
  /\ pc \in BeforeRestoring \cup {"reload", "wait", "verify"} =>
       mem.retire = {} /\ (Pending => journal.retire = {})
  /\ pc \in BeforeRestoring =>
       /\ Disablers \subseteq Recorded(prev)
       /\ Disablers \cap Entities(want) \subseteq mem.restore
  /\ pc \in BeforeRetiring =>
       /\ Disablers \subseteq Recorded(prev)
       /\ Disablers \cap Entities(want) = {}
       /\ mem.retire \cap Entities(want) = {}
  /\ pc = "retire" => journal.retire = mem.retire
  /\ pc = "commit" => Disablers \subseteq retired \ Entities(want)
  /\ pc \in {"note_success", "clear"} => Disablers \subseteq Recorded(manifest)
  /\ pc \in {"rb_reload", "rb_clear"} => Disablers \subseteq Recorded(mem.prev)

EditInv ==
  /\ pc \in {"check_project", "plan"} => (gen = Edit => "gen" \in exposed)
  /\ pc \in Transaction /\ mem.gen = Edit => "gen" \in exposed
  /\ pc = "write_gen" /\ gen = Edit => "gen" \in exposed
  /\ pc = "write_root" => root = mem.root \/ "root" \in exposed
  /\ pc \in {"journal_retired", "retire", "commit"} => store = want \/ "store" \in exposed

----------------------------------------------------------------------------
(* Types *)

LEMMA InitTypeOK == Init => TypeOK
<1> SUFFICES ASSUME Init PROVE TypeOK
  OBVIOUS
<1>1. NoManifest \in Manifests
  BY DEF NoManifest, Manifests
<1>2. [text |-> 0, active |-> FALSE] \in Roots
  BY ConstantsAssumption DEF Roots, Texts
<1>3. NoJournal \in Journals
  BY <1>1, <1>2 DEF NoJournal, Journals
<1>4. [e \in Entity |-> "absent"] \in [Entity -> Disabled]
  BY DEF Disabled
<1>5. /\ 0 \in 0 .. MaxDisturbances
      /\ [project |-> None, result |-> "none"] \in
           [project : Project \cup {None},
            result : {"none", "completed", "failed", "needs_review"}]
  BY ConstantsAssumption
<1> QED
  BY <1>1, <1>2, <1>3, <1>4, <1>5 DEF Init, TypeOK, Steps

(* What the shared operators of the actions do to the types. *)
LEMMA SwappedType ==
  ASSUME NEW reg \in [Entity -> Disabled], NEW es, NEW before, NEW after \in Disabled
  PROVE  Swapped(reg, es, before, after) \in [Entity -> Disabled]
  BY DEF Swapped

LEMMA Types ==
  ASSUME TypeOK
  PROVE  /\ Effective \in Project \cup {None}
         /\ \A p : RegistryLoading(p) \in [Entity -> Disabled]
         /\ NoManifest \in Manifests /\ NoJournal \in Journals
         /\ AfterRoot(mem) \in Roots
<1>1. Effective \in Project \cup {None}
  BY DEF TypeOK, Effective
<1>2. \A p : RegistryLoading(p) \in [Entity -> Disabled]
  BY DEF TypeOK, RegistryLoading, Disabled
<1>3. NoManifest \in Manifests
  BY DEF NoManifest, Manifests
<1>4. NoJournal \in Journals
  <2>1. [text |-> 0, active |-> FALSE] \in Roots
    BY ConstantsAssumption DEF Roots, Texts
  <2> QED
    BY <1>3, <2>1 DEF NoJournal, Journals
<1>5. AfterRoot(mem) \in Roots
  BY DEF TypeOK, Journals, Roots, AfterRoot
<1> QED
  BY <1>1, <1>2, <1>3, <1>4, <1>5

LEMMA StepTypeOK == TypeOK /\ [Next]_vars => TypeOK'
<1> SUFFICES ASSUME TypeOK, [Next]_vars PROVE TypeOK'
  OBVIOUS
<1> USE ConstantsAssumption, Types DEF TypeOK, Idle, Goto, KeepLocals, vars, diskVars, haVars,
        localVars, ghostVars, countVars
<1>1. ASSUME NEW p \in Project, StartImport(p) PROVE TypeOK'
  BY <1>1 DEF StartImport, Steps, ImportSteps, Preflight, Transaction, Rollback
<1>2. ASSUME NEW p \in Project, StartDeploy(p) PROVE TypeOK'
  BY <1>2 DEF StartDeploy, Steps, ImportSteps, Preflight, Transaction, Rollback
<1>3. ASSUME NEW e \in Entity, UserDisables(e) PROVE TypeOK'
  BY <1>3 DEF UserDisables, Disturb, Disabled, Steps, ImportSteps, Preflight, Transaction, Rollback
<1>4. ASSUME NEW e \in Entity, UserEnables(e) PROVE TypeOK'
  BY <1>4 DEF UserEnables, Disturb, Disabled, Steps, ImportSteps, Preflight, Transaction, Rollback
<1>5. ASSUME NEW p \in Project, OtherImport(p) PROVE TypeOK'
  BY <1>5 DEF OtherImport, Disturb, Exposing, Steps, ImportSteps, Preflight, Transaction, Rollback
<1>6. CASE ImportSave
  BY <1>6 DEF ImportSave, Steps, ImportSteps, Preflight, Transaction, Rollback
<1>7. CASE ImportBind
  BY <1>7 DEF ImportBind, Steps, ImportSteps, Preflight, Transaction, Rollback
<1>8. CASE ReadPrevious
  BY <1>8 DEF ReadPrevious, PreflightFails, Steps, ImportSteps, Preflight, Transaction, Rollback
<1>9. CASE CheckProject
  <2>1. last' \in [project : Project \cup {None},
                   result : {"none", "completed", "failed", "needs_review"}]
    <3>1. \/ last' = last
          \/ last' = [project |-> want, result |-> "completed"]
      BY <1>9 DEF CheckProject, PreflightFails
    <3> QED
      BY <3>1
  <2> QED
    BY <1>9, <2>1 DEF CheckProject, PreflightFails, Steps, Preflight, Transaction, Rollback
<1>10. CASE NeedsReview
  BY <1>10 DEF NeedsReview, Steps, ImportSteps, Preflight, Transaction, Rollback
<1>11. CASE PlanRejected
  BY <1>11 DEF PlanRejected, PreflightFails, Steps, ImportSteps, Preflight, Transaction, Rollback
<1>12. CASE Prepare
  BY <1>12 DEF Prepare, Journals, Manifests, Restorations, Steps, ImportSteps, Preflight, Transaction, Rollback
<1>13. CASE WriteJournal
  BY <1>13 DEF WriteJournal, Steps, ImportSteps, Preflight, Transaction, Rollback
<1>14. CASE WriteManifest
  BY <1>14 DEF WriteManifest, Manifests, Steps, ImportSteps, Preflight, Transaction, Rollback
<1>15. CASE CheckGen
  BY <1>15 DEF CheckGen, StartRollback, Steps, ImportSteps, Preflight, Transaction, Rollback
<1>16. CASE WriteGen
  BY <1>16 DEF WriteGen, Journals, Steps, ImportSteps, Preflight, Transaction, Rollback
<1>17. CASE CheckRoot
  BY <1>17 DEF CheckRoot, StartRollback, Steps, ImportSteps, Preflight, Transaction, Rollback
<1>18. CASE WriteRoot
  BY <1>18 DEF WriteRoot, Steps, ImportSteps, Preflight, Transaction, Rollback
<1>19. CASE Validate
  <2>1. registry' \in [Entity -> Disabled]
    BY <1>19, SwappedType DEF Validate, StartRollback, Disabled
  <2> QED
    BY <1>19, <2>1 DEF Validate, StartRollback, Steps, Preflight, Transaction, Rollback
<1>20. CASE Reload
  BY <1>20 DEF Reload, Steps, ImportSteps, Preflight, Transaction, Rollback
<1>21. CASE WaitLoaded
  BY <1>21 DEF WaitLoaded, StartRollback, Steps, ImportSteps, Preflight, Transaction, Rollback
<1>22. CASE Verify
  <2>1. Retirements(want) \subseteq Entity
    BY DEF Retirements, Entities, Manifests
  <2>2. mem' \in Journals
    BY <1>22, <2>1 DEF Verify, StartRollback, Journals
  <2> QED
    BY <1>22, <2>2 DEF Verify, StartRollback, Steps, Preflight, Transaction, Rollback
<1>23. CASE Retire
  <2>1. registry' \in [Entity -> Disabled]
    BY <1>23, SwappedType DEF Retire, Disabled
  <2>2. retired' \subseteq Entity
    BY <1>23, SwappedType DEF Retire, Manifests, Journals
  <2> QED
    BY <1>23, <2>1, <2>2 DEF Retire, Steps, Preflight, Transaction, Rollback
<1>24. CASE Commit
  BY <1>24 DEF Commit, Manifests, Steps, ImportSteps, Preflight, Transaction, Rollback
<1>25. CASE NoteSuccess
  BY <1>25 DEF NoteSuccess, Steps, ImportSteps, Preflight, Transaction, Rollback
<1>26. CASE ClearJournal
  BY <1>26 DEF ClearJournal, Steps, ImportSteps, Preflight, Transaction, Rollback
<1>27. CASE NoteFailure
  BY <1>27 DEF NoteFailure, Steps, ImportSteps, Preflight, Transaction, Rollback
<1>28. CASE RollbackRoot
  BY <1>28 DEF RollbackRoot, AbandonRollback, Journals, Steps, ImportSteps, Preflight, Transaction, Rollback
<1>29. CASE RollbackGen
  BY <1>29 DEF RollbackGen, AbandonRollback, Journals, Steps, ImportSteps, Preflight, Transaction, Rollback
<1>30. CASE RollbackManifest
  BY <1>30 DEF RollbackManifest, Journals, Steps, ImportSteps, Preflight, Transaction, Rollback
<1>31. CASE RollbackRegistry
  <2>1. registry' \in [Entity -> Disabled]
    BY <1>31, SwappedType DEF RollbackRegistry, Disabled
  <2> QED
    BY <1>31, <2>1 DEF RollbackRegistry, Steps, Preflight, Transaction, Rollback
<1>32. CASE RollbackReload
  BY <1>32 DEF RollbackReload, Steps, ImportSteps, Preflight, Transaction, Rollback
<1>33. CASE RollbackClear
  BY <1>33 DEF RollbackClear, Steps, Preflight, Transaction, Rollback
<1>34. CASE TransactionFails
  BY <1>34 DEF TransactionFails, Steps, ImportSteps, Preflight, Transaction, Rollback
<1>35. CASE RollbackFails
  BY <1>35 DEF RollbackFails, AbandonRollback, Steps, ImportSteps, Preflight, Transaction, Rollback
<1>36. CASE Crash
  BY <1>36 DEF Crash, Steps, ImportSteps, Preflight, Transaction, Rollback
<1>37. CASE Recover
  BY <1>37 DEF Recover, Steps, ImportSteps, Preflight, Transaction, Rollback
<1>38. CASE EditGen
  BY <1>38 DEF EditGen, Disturb, Exposing, Steps, ImportSteps, Preflight, Transaction, Rollback
<1>39. CASE EditRoot
  BY <1>39 DEF EditRoot, Disturb, Exposing, Roots, Texts, Steps, ImportSteps, Preflight, Transaction, Rollback
<1>40. CASE UNCHANGED vars
  BY <1>40 DEF Steps, ImportSteps, Preflight, Transaction, Rollback
<1> QED
  BY <1>1, <1>2, <1>3, <1>4, <1>5, <1>6, <1>7, <1>8, <1>9, <1>10, <1>11, <1>12, <1>13,
     <1>14, <1>15, <1>16, <1>17, <1>18, <1>19, <1>20, <1>21, <1>22, <1>23, <1>24, <1>25,
     <1>26, <1>27, <1>28, <1>29, <1>30, <1>31, <1>32, <1>33, <1>34, <1>35, <1>36, <1>37,
     <1>38, <1>39, <1>40 DEF Next, Importing, Deployment, RollingBack, User

----------------------------------------------------------------------------
(* Files *)

LEMMA InitFileInv == Init => FileInv
  BY ConstantsAssumption DEF Init, FileInv, ConsistentAtRest, NoDanglingInclude, Pending, NoJournal,
     NoManifest, Transaction, Rollback, Preflight, PackageWritten

LEMMA StepFileInv == TypeOK /\ FileInv /\ [Next]_vars => FileInv'
<1> SUFFICES ASSUME TypeOK, FileInv, [Next]_vars PROVE FileInv'
  OBVIOUS
<1> USE ConstantsAssumption DEF TypeOK, FileInv, ConsistentAtRest, NoDanglingInclude, GoodJournal,
        SameImages, Pending, PackageWritten, Transaction, Rollback, Preflight, Journals, Manifests,
        Roots, Idle, Goto, KeepLocals, vars, diskVars, haVars, localVars, ghostVars, countVars
<1>1. ASSUME NEW p \in Project, StartImport(p) PROVE FileInv'
  BY <1>1 DEF StartImport
<1>2. ASSUME NEW p \in Project, StartDeploy(p) PROVE FileInv'
  BY <1>2 DEF StartDeploy
<1>3. ASSUME NEW e \in Entity, UserDisables(e) PROVE FileInv'
  BY <1>3 DEF UserDisables, Disturb
<1>4. ASSUME NEW e \in Entity, UserEnables(e) PROVE FileInv'
  BY <1>4 DEF UserEnables, Disturb
<1>5. ASSUME NEW p \in Project, OtherImport(p) PROVE FileInv'
  BY <1>5 DEF OtherImport, Disturb, Exposing
<1>6. CASE ImportSave
  BY <1>6 DEF ImportSave
<1>7. CASE ImportBind
  BY <1>7 DEF ImportBind
<1>8. CASE ReadPrevious
  BY <1>8 DEF ReadPrevious, PreflightFails, PreviousReadable
<1>9. CASE CheckProject
  BY <1>9 DEF CheckProject, PreflightFails
<1>10. CASE NeedsReview
  BY <1>10 DEF NeedsReview
<1>11. CASE PlanRejected
  BY <1>11 DEF PlanRejected, PreflightFails
<1>12. CASE Prepare
  <2>1. GoodJournal(mem)' /\ mem'.project = want /\ mem'.prev = prev
    BY <1>12 DEF Prepare
  <2> QED
    BY <1>12, <2>1 DEF Prepare
<1>13. CASE WriteJournal
  BY <1>13 DEF WriteJournal
<1>14. CASE WriteManifest
  BY <1>14 DEF WriteManifest
<1>15. CASE CheckGen
  BY <1>15 DEF CheckGen, StartRollback
<1>16. CASE WriteGen
  BY <1>16 DEF WriteGen
<1>17. CASE CheckRoot
  BY <1>17 DEF CheckRoot, StartRollback
<1>18. CASE WriteRoot
  BY <1>18 DEF WriteRoot, AfterRoot
<1>19. CASE Validate
  BY <1>19 DEF Validate, StartRollback
<1>20. CASE Reload
  BY <1>20 DEF Reload
<1>21. CASE WaitLoaded
  BY <1>21 DEF WaitLoaded, StartRollback
<1>22. CASE Verify
  BY <1>22 DEF Verify, StartRollback
<1>23. CASE Retire
  BY <1>23 DEF Retire
<1>24. CASE Commit
  BY <1>24 DEF Commit
<1>25. CASE NoteSuccess
  BY <1>25 DEF NoteSuccess
<1>26. CASE ClearJournal
  BY <1>26 DEF ClearJournal, NoJournal
<1>27. CASE NoteFailure
  BY <1>27 DEF NoteFailure
<1>28. CASE RollbackRoot
  BY <1>28 DEF RollbackRoot, AbandonRollback, AfterRoot
<1>29. CASE RollbackGen
  BY <1>29 DEF RollbackGen, AbandonRollback
<1>30. CASE RollbackManifest
  BY <1>30 DEF RollbackManifest
<1>31. CASE RollbackRegistry
  BY <1>31 DEF RollbackRegistry
<1>32. CASE RollbackReload
  BY <1>32 DEF RollbackReload
<1>33. CASE RollbackClear
  BY <1>33 DEF RollbackClear, NoJournal
<1>34. CASE TransactionFails
  BY <1>34 DEF TransactionFails
<1>35. CASE RollbackFails
  BY <1>35 DEF RollbackFails, AbandonRollback
<1>36. CASE Crash
  BY <1>36 DEF Crash
<1>37. CASE Recover
  BY <1>37 DEF Recover
<1>38. CASE EditGen
  BY <1>38 DEF EditGen, Disturb, Exposing
<1>39. CASE EditRoot
  BY <1>39 DEF EditRoot, Disturb, Exposing
<1>40. CASE UNCHANGED vars
  BY <1>40
<1> QED
  BY <1>1, <1>2, <1>3, <1>4, <1>5, <1>6, <1>7, <1>8, <1>9, <1>10, <1>11, <1>12, <1>13,
     <1>14, <1>15, <1>16, <1>17, <1>18, <1>19, <1>20, <1>21, <1>22, <1>23, <1>24, <1>25,
     <1>26, <1>27, <1>28, <1>29, <1>30, <1>31, <1>32, <1>33, <1>34, <1>35, <1>36, <1>37,
     <1>38, <1>39, <1>40 DEF Next, Importing, Deployment, RollingBack, User

----------------------------------------------------------------------------
(* Registry *)

LEMMA InitDisablerInv == Init => DisablerInv
  BY DEF Init, DisablerInv, OnlyRecordedDisablers, Disablers, Pending, NoJournal, Transaction,
     Rollback, BeforeRestoring, BeforeRetiring

LEMMA StepDisablerInv == TypeOK /\ FileInv /\ DisablerInv /\ [Next]_vars => DisablerInv'
<1> SUFFICES ASSUME TypeOK, FileInv, DisablerInv, [Next]_vars PROVE DisablerInv'
  OBVIOUS
<1> USE ConstantsAssumption DEF TypeOK, FileInv, DisablerInv, OnlyRecordedDisablers, Disablers,
        Recorded, Pending, SameImages, Transaction, Rollback, Preflight, BeforeRestoring,
        BeforeRetiring, Journals, Manifests, Idle, Goto, KeepLocals, vars, diskVars, haVars,
        localVars, ghostVars, countVars
<1>1. ASSUME NEW p \in Project, StartImport(p) PROVE DisablerInv'
  BY <1>1 DEF StartImport
<1>2. ASSUME NEW p \in Project, StartDeploy(p) PROVE DisablerInv'
  BY <1>2 DEF StartDeploy
<1>3. ASSUME NEW e \in Entity, UserDisables(e) PROVE DisablerInv'
  BY <1>3 DEF UserDisables, Disturb
<1>4. ASSUME NEW e \in Entity, UserEnables(e) PROVE DisablerInv'
  BY <1>4 DEF UserEnables, Disturb
<1>5. ASSUME NEW p \in Project, OtherImport(p) PROVE DisablerInv'
  BY <1>5 DEF OtherImport, Disturb, Exposing
<1>6. CASE ImportSave
  BY <1>6 DEF ImportSave
<1>7. CASE ImportBind
  BY <1>7 DEF ImportBind
<1>8. CASE ReadPrevious
  BY <1>8 DEF ReadPrevious, PreflightFails, PreviousReadable
<1>9. CASE CheckProject
  BY <1>9 DEF CheckProject, PreflightFails
<1>10. CASE NeedsReview
  BY <1>10 DEF NeedsReview
<1>11. CASE PlanRejected
  BY <1>11 DEF PlanRejected, PreflightFails
<1>12. CASE Prepare
  BY <1>12 DEF Prepare, Restorations
<1>13. CASE WriteJournal
  BY <1>13 DEF WriteJournal
<1>14. CASE WriteManifest
  BY <1>14 DEF WriteManifest
<1>15. CASE CheckGen
  BY <1>15 DEF CheckGen, StartRollback
<1>16. CASE WriteGen
  BY <1>16 DEF WriteGen
<1>17. CASE CheckRoot
  BY <1>17 DEF CheckRoot, StartRollback
<1>18. CASE WriteRoot
  BY <1>18 DEF WriteRoot, AfterRoot
<1>19. CASE Validate
  BY <1>19 DEF Validate, StartRollback, Swapped
<1>20. CASE Reload
  BY <1>20 DEF Reload, RegistryLoading
<1>21. CASE WaitLoaded
  BY <1>21 DEF WaitLoaded, StartRollback
<1>22. CASE Verify
  <2>1. CASE StartRollback("failed")
    BY <1>22, <2>1 DEF Verify, StartRollback
  <2>2. CASE /\ mem' = [mem EXCEPT !.retire = Retirements(want)]
             /\ pc' = IF Retirements(want) = {} THEN "retire" ELSE "journal_retired"
             /\ UNCHANGED <<diskVars, haVars, ghostVars, countVars, mode, want, prev, retired,
                            recoverDue>>
    <3>1. Retirements(want) \cap Entities(want) = {}
      BY DEF Retirements
    <3>2. /\ mem'.retire = Retirements(want) /\ mem'.restore = mem.restore
          /\ mem'.prev = mem.prev
      BY <2>2
    <3>3. Disablers' = Disablers /\ Disablers \subseteq Recorded(prev)
      BY <1>22, <2>2 DEF Verify
    <3>4. OnlyRecordedDisablers' /\ (Pending => journal.retire = {})
      BY <1>22, <2>2 DEF Verify
    <3> QED
      BY <1>22, <2>2, <3>1, <3>2, <3>3, <3>4 DEF Verify
  <2> QED
    BY <1>22, <2>1, <2>2 DEF Verify
<1>23. CASE Retire
  BY <1>23 DEF Retire, Swapped
<1>24. CASE Commit
  BY <1>24 DEF Commit
<1>25. CASE NoteSuccess
  BY <1>25 DEF NoteSuccess
<1>26. CASE ClearJournal
  BY <1>26 DEF ClearJournal, NoJournal
<1>27. CASE NoteFailure
  BY <1>27 DEF NoteFailure
<1>28. CASE RollbackRoot
  BY <1>28 DEF RollbackRoot, AbandonRollback, AfterRoot
<1>29. CASE RollbackGen
  BY <1>29 DEF RollbackGen, AbandonRollback
<1>30. CASE RollbackManifest
  BY <1>30 DEF RollbackManifest
<1>31. CASE RollbackRegistry
  BY <1>31 DEF RollbackRegistry, Swapped
<1>32. CASE RollbackReload
  BY <1>32 DEF RollbackReload, RegistryLoading
<1>33. CASE RollbackClear
  BY <1>33 DEF RollbackClear, NoJournal
<1>34. CASE TransactionFails
  BY <1>34 DEF TransactionFails
<1>35. CASE RollbackFails
  BY <1>35 DEF RollbackFails, AbandonRollback
<1>36. CASE Crash
  BY <1>36 DEF Crash, RegistryLoading
<1>37. CASE Recover
  BY <1>37 DEF Recover
<1>38. CASE EditGen
  BY <1>38 DEF EditGen, Disturb, Exposing
<1>39. CASE EditRoot
  BY <1>39 DEF EditRoot, Disturb, Exposing
<1>40. CASE UNCHANGED vars
  BY <1>40
<1> QED
  BY <1>1, <1>2, <1>3, <1>4, <1>5, <1>6, <1>7, <1>8, <1>9, <1>10, <1>11, <1>12, <1>13,
     <1>14, <1>15, <1>16, <1>17, <1>18, <1>19, <1>20, <1>21, <1>22, <1>23, <1>24, <1>25,
     <1>26, <1>27, <1>28, <1>29, <1>30, <1>31, <1>32, <1>33, <1>34, <1>35, <1>36, <1>37,
     <1>38, <1>39, <1>40 DEF Next, Importing, Deployment, RollingBack, User

----------------------------------------------------------------------------
(* Edits *)

LEMMA InitEditInv == Init => EditInv
  BY DEF Init, EditInv, Transaction

LEMMA StepEditInv == TypeOK /\ FileInv /\ EditInv /\ [Next]_vars => EditInv'
<1> SUFFICES ASSUME TypeOK, FileInv, EditInv, [Next]_vars PROVE EditInv'
  OBVIOUS
<1> USE ConstantsAssumption DEF TypeOK, FileInv, ConsistentAtRest, EditInv, Transaction, Rollback,
        Preflight, Idle, Goto, KeepLocals, vars, diskVars, haVars, localVars, ghostVars, countVars
<1>1. ASSUME NEW p \in Project, StartImport(p) PROVE EditInv'
  BY <1>1 DEF StartImport
<1>2. ASSUME NEW p \in Project, StartDeploy(p) PROVE EditInv'
  BY <1>2 DEF StartDeploy
<1>3. ASSUME NEW e \in Entity, UserDisables(e) PROVE EditInv'
  BY <1>3 DEF UserDisables, Disturb
<1>4. ASSUME NEW e \in Entity, UserEnables(e) PROVE EditInv'
  BY <1>4 DEF UserEnables, Disturb
<1>5. ASSUME NEW p \in Project, OtherImport(p) PROVE EditInv'
  BY <1>5 DEF OtherImport, Disturb, Exposing
<1>6. CASE ImportSave
  BY <1>6 DEF ImportSave
<1>7. CASE ImportBind
  BY <1>7 DEF ImportBind
<1>8. CASE ReadPrevious
  BY <1>8 DEF ReadPrevious, PreflightFails, PreviousReadable, Manifests
<1>9. CASE CheckProject
  BY <1>9 DEF CheckProject, PreflightFails
<1>10. CASE NeedsReview
  BY <1>10 DEF NeedsReview
<1>11. CASE PlanRejected
  BY <1>11 DEF PlanRejected, PreflightFails
<1>12. CASE Prepare
  BY <1>12 DEF Prepare, Journals, Manifests
<1>13. CASE WriteJournal
  BY <1>13 DEF WriteJournal
<1>14. CASE WriteManifest
  BY <1>14 DEF WriteManifest
<1>15. CASE CheckGen
  BY <1>15 DEF CheckGen, StartRollback
<1>16. CASE WriteGen
  BY <1>16 DEF WriteGen
<1>17. CASE CheckRoot
  BY <1>17 DEF CheckRoot, StartRollback
<1>18. CASE WriteRoot
  BY <1>18 DEF WriteRoot, AfterRoot
<1>19. CASE Validate
  BY <1>19 DEF Validate, StartRollback
<1>20. CASE Reload
  BY <1>20 DEF Reload
<1>21. CASE WaitLoaded
  BY <1>21 DEF WaitLoaded, StartRollback
<1>22. CASE Verify
  BY <1>22 DEF Verify, StartRollback, Journals
<1>23. CASE Retire
  BY <1>23 DEF Retire
<1>24. CASE Commit
  BY <1>24 DEF Commit
<1>25. CASE NoteSuccess
  BY <1>25 DEF NoteSuccess
<1>26. CASE ClearJournal
  BY <1>26 DEF ClearJournal, NoJournal
<1>27. CASE NoteFailure
  BY <1>27 DEF NoteFailure
<1>28. CASE RollbackRoot
  BY <1>28 DEF RollbackRoot, AbandonRollback, AfterRoot
<1>29. CASE RollbackGen
  BY <1>29 DEF RollbackGen, AbandonRollback
<1>30. CASE RollbackManifest
  BY <1>30 DEF RollbackManifest
<1>31. CASE RollbackRegistry
  BY <1>31 DEF RollbackRegistry
<1>32. CASE RollbackReload
  BY <1>32 DEF RollbackReload
<1>33. CASE RollbackClear
  BY <1>33 DEF RollbackClear, NoJournal
<1>34. CASE TransactionFails
  BY <1>34 DEF TransactionFails
<1>35. CASE RollbackFails
  BY <1>35 DEF RollbackFails, AbandonRollback
<1>36. CASE Crash
  BY <1>36 DEF Crash
<1>37. CASE Recover
  BY <1>37 DEF Recover
<1>38. CASE EditGen
  BY <1>38 DEF EditGen, Disturb, Exposing
<1>39. CASE EditRoot
  BY <1>39 DEF EditRoot, Disturb, Exposing
<1>40. CASE UNCHANGED vars
  BY <1>40
<1> QED
  BY <1>1, <1>2, <1>3, <1>4, <1>5, <1>6, <1>7, <1>8, <1>9, <1>10, <1>11, <1>12, <1>13,
     <1>14, <1>15, <1>16, <1>17, <1>18, <1>19, <1>20, <1>21, <1>22, <1>23, <1>24, <1>25,
     <1>26, <1>27, <1>28, <1>29, <1>30, <1>31, <1>32, <1>33, <1>34, <1>35, <1>36, <1>37,
     <1>38, <1>39, <1>40 DEF Next, Importing, Deployment, RollingBack, User

----------------------------------------------------------------------------
(* Theorems *)

Inv == TypeOK /\ FileInv /\ DisablerInv /\ EditInv

(* Inv holds in every reachable state. *)
THEOREM Invariance == Spec => []Inv
<1>1. Init => Inv
  BY InitTypeOK, InitFileInv, InitDisablerInv, InitEditInv DEF Inv
<1>2. Inv /\ [Next]_vars => Inv'
  BY StepTypeOK, StepFileInv, StepDisablerInv, StepEditInv DEF Inv
<1> QED
  BY <1>1, <1>2, PTL DEF Spec

(* Every variable keeps its type and the deployer holds nothing over. *)
THEOREM TypeCorrect == Spec => []TypeOK
<1>1. Inv => TypeOK
  BY DEF Inv
<1> QED
  BY <1>1, Invariance, PTL

(* Nothing but a finished deployment, or the previous one, is ever at rest: *)
(* stops, faults and rollbacks never leave a mixture behind.                *)
THEOREM AtomicAtRest == Spec => []ConsistentAtRest
<1>1. Inv => ConsistentAtRest
  BY DEF Inv, FileInv
<1> QED
  BY <1>1, Invariance, PTL

(* The configuration can be loaded at every moment Home Assistant may stop. *)
THEOREM IncludeSafe == Spec => []NoDanglingInclude
<1>1. Inv => NoDanglingInclude
  BY DEF Inv, FileInv
<1> QED
  BY <1>1, Invariance, PTL

(* No disabler of the integration is left over by a stopped or failed      *)
(* deployment, and none hits an entity of the active one.                  *)
THEOREM DisablersRecorded == Spec => []OnlyRecordedDisablers
<1>1. Inv => OnlyRecordedDisablers
  BY DEF Inv, DisablerInv
<1> QED
  BY <1>1, Invariance, PTL

(* What EditsSurvive says of one step. *)
EditsKept ==
  disturbances' = disturbances =>
    /\ gen = Edit /\ "gen" \notin exposed => gen' = Edit
    /\ "root" \notin exposed => root'.text = root.text

LEMMA StepEditsKept == Inv /\ [Next]_vars => EditsKept
<1> SUFFICES ASSUME Inv, [Next]_vars PROVE EditsKept
  OBVIOUS
<1> USE ConstantsAssumption DEF Inv, TypeOK, FileInv, EditInv, EditsKept, GoodJournal, Transaction,
        Rollback, Journals, Roots, Idle, Goto, KeepLocals, vars, diskVars, haVars, localVars,
        ghostVars, countVars
<1>1. ASSUME NEW p \in Project, StartImport(p) PROVE EditsKept
  BY <1>1 DEF StartImport
<1>2. ASSUME NEW p \in Project, StartDeploy(p) PROVE EditsKept
  BY <1>2 DEF StartDeploy
<1>3. ASSUME NEW e \in Entity, UserDisables(e) PROVE EditsKept
  BY <1>3 DEF UserDisables, Disturb
<1>4. ASSUME NEW e \in Entity, UserEnables(e) PROVE EditsKept
  BY <1>4 DEF UserEnables, Disturb
<1>5. ASSUME NEW p \in Project, OtherImport(p) PROVE EditsKept
  BY <1>5 DEF OtherImport, Disturb, Exposing
<1>6. CASE ImportSave
  BY <1>6 DEF ImportSave
<1>7. CASE ImportBind
  BY <1>7 DEF ImportBind
<1>8. CASE ReadPrevious
  BY <1>8 DEF ReadPrevious, PreflightFails, PreviousReadable
<1>9. CASE CheckProject
  BY <1>9 DEF CheckProject, PreflightFails
<1>10. CASE NeedsReview
  BY <1>10 DEF NeedsReview
<1>11. CASE PlanRejected
  BY <1>11 DEF PlanRejected, PreflightFails
<1>12. CASE Prepare
  BY <1>12 DEF Prepare, Journals, Manifests
<1>13. CASE WriteJournal
  BY <1>13 DEF WriteJournal
<1>14. CASE WriteManifest
  BY <1>14 DEF WriteManifest
<1>15. CASE CheckGen
  BY <1>15 DEF CheckGen, StartRollback
<1>16. CASE WriteGen
  BY <1>16 DEF WriteGen
<1>17. CASE CheckRoot
  BY <1>17 DEF CheckRoot, StartRollback
<1>18. CASE WriteRoot
  BY <1>18 DEF WriteRoot, AfterRoot
<1>19. CASE Validate
  BY <1>19 DEF Validate, StartRollback
<1>20. CASE Reload
  BY <1>20 DEF Reload
<1>21. CASE WaitLoaded
  BY <1>21 DEF WaitLoaded, StartRollback
<1>22. CASE Verify
  BY <1>22 DEF Verify, StartRollback
<1>23. CASE Retire
  BY <1>23 DEF Retire
<1>24. CASE Commit
  BY <1>24 DEF Commit
<1>25. CASE NoteSuccess
  BY <1>25 DEF NoteSuccess
<1>26. CASE ClearJournal
  BY <1>26 DEF ClearJournal, NoJournal
<1>27. CASE NoteFailure
  BY <1>27 DEF NoteFailure
<1>28. CASE RollbackRoot
  BY <1>28 DEF RollbackRoot, AbandonRollback, AfterRoot
<1>29. CASE RollbackGen
  BY <1>29 DEF RollbackGen, AbandonRollback
<1>30. CASE RollbackManifest
  BY <1>30 DEF RollbackManifest
<1>31. CASE RollbackRegistry
  BY <1>31 DEF RollbackRegistry
<1>32. CASE RollbackReload
  BY <1>32 DEF RollbackReload
<1>33. CASE RollbackClear
  BY <1>33 DEF RollbackClear, NoJournal
<1>34. CASE TransactionFails
  BY <1>34 DEF TransactionFails
<1>35. CASE RollbackFails
  BY <1>35 DEF RollbackFails, AbandonRollback
<1>36. CASE Crash
  BY <1>36 DEF Crash
<1>37. CASE Recover
  BY <1>37 DEF Recover
<1>38. CASE EditGen
  BY <1>38 DEF EditGen, Disturb, Exposing
<1>39. CASE EditRoot
  BY <1>39 DEF EditRoot, Disturb, Exposing
<1>40. CASE UNCHANGED vars
  BY <1>40
<1> QED
  BY <1>1, <1>2, <1>3, <1>4, <1>5, <1>6, <1>7, <1>8, <1>9, <1>10, <1>11, <1>12, <1>13,
     <1>14, <1>15, <1>16, <1>17, <1>18, <1>19, <1>20, <1>21, <1>22, <1>23, <1>24, <1>25,
     <1>26, <1>27, <1>28, <1>29, <1>30, <1>31, <1>32, <1>33, <1>34, <1>35, <1>36, <1>37,
     <1>38, <1>39, <1>40 DEF Next, Importing, Deployment, RollingBack, User

(* No step of the program replaces an edit that it had the chance to see.  *)
THEOREM EditsSafe == Spec => EditsSurvive
<1>1. Inv /\ [Next]_vars => [EditsKept]_vars
  BY StepEditsKept
<1> QED
  BY <1>1, Invariance, PTL DEF Spec, EditsSurvive, EditsKept

(* What DeployedIsStored says of one step. *)
StoredThen ==
  manifest' # manifest /\ manifest'.done /\ pc = "commit" =>
    store = manifest'.project \/ "store" \in exposed

LEMMA StepStoredThen == Inv /\ [Next]_vars => StoredThen
<1> SUFFICES ASSUME Inv, [Next]_vars PROVE StoredThen
  OBVIOUS
<1> USE ConstantsAssumption DEF Inv, TypeOK, FileInv, EditInv, StoredThen, GoodJournal, Transaction,
        Rollback, Journals, Roots, Idle, Goto, KeepLocals, vars, diskVars, haVars, localVars,
        ghostVars, countVars
<1>1. ASSUME NEW p \in Project, StartImport(p) PROVE StoredThen
  BY <1>1 DEF StartImport
<1>2. ASSUME NEW p \in Project, StartDeploy(p) PROVE StoredThen
  BY <1>2 DEF StartDeploy
<1>3. ASSUME NEW e \in Entity, UserDisables(e) PROVE StoredThen
  BY <1>3 DEF UserDisables, Disturb
<1>4. ASSUME NEW e \in Entity, UserEnables(e) PROVE StoredThen
  BY <1>4 DEF UserEnables, Disturb
<1>5. ASSUME NEW p \in Project, OtherImport(p) PROVE StoredThen
  BY <1>5 DEF OtherImport, Disturb, Exposing
<1>6. CASE ImportSave
  BY <1>6 DEF ImportSave
<1>7. CASE ImportBind
  BY <1>7 DEF ImportBind
<1>8. CASE ReadPrevious
  BY <1>8 DEF ReadPrevious, PreflightFails, PreviousReadable
<1>9. CASE CheckProject
  BY <1>9 DEF CheckProject, PreflightFails
<1>10. CASE NeedsReview
  BY <1>10 DEF NeedsReview
<1>11. CASE PlanRejected
  BY <1>11 DEF PlanRejected, PreflightFails
<1>12. CASE Prepare
  BY <1>12 DEF Prepare, Journals, Manifests
<1>13. CASE WriteJournal
  BY <1>13 DEF WriteJournal
<1>14. CASE WriteManifest
  BY <1>14 DEF WriteManifest
<1>15. CASE CheckGen
  BY <1>15 DEF CheckGen, StartRollback
<1>16. CASE WriteGen
  BY <1>16 DEF WriteGen
<1>17. CASE CheckRoot
  BY <1>17 DEF CheckRoot, StartRollback
<1>18. CASE WriteRoot
  BY <1>18 DEF WriteRoot, AfterRoot
<1>19. CASE Validate
  BY <1>19 DEF Validate, StartRollback
<1>20. CASE Reload
  BY <1>20 DEF Reload
<1>21. CASE WaitLoaded
  BY <1>21 DEF WaitLoaded, StartRollback
<1>22. CASE Verify
  BY <1>22 DEF Verify, StartRollback
<1>23. CASE Retire
  BY <1>23 DEF Retire
<1>24. CASE Commit
  BY <1>24 DEF Commit
<1>25. CASE NoteSuccess
  BY <1>25 DEF NoteSuccess
<1>26. CASE ClearJournal
  BY <1>26 DEF ClearJournal, NoJournal
<1>27. CASE NoteFailure
  BY <1>27 DEF NoteFailure
<1>28. CASE RollbackRoot
  BY <1>28 DEF RollbackRoot, AbandonRollback, AfterRoot
<1>29. CASE RollbackGen
  BY <1>29 DEF RollbackGen, AbandonRollback
<1>30. CASE RollbackManifest
  BY <1>30 DEF RollbackManifest
<1>31. CASE RollbackRegistry
  BY <1>31 DEF RollbackRegistry
<1>32. CASE RollbackReload
  BY <1>32 DEF RollbackReload
<1>33. CASE RollbackClear
  BY <1>33 DEF RollbackClear, NoJournal
<1>34. CASE TransactionFails
  BY <1>34 DEF TransactionFails
<1>35. CASE RollbackFails
  BY <1>35 DEF RollbackFails, AbandonRollback
<1>36. CASE Crash
  BY <1>36 DEF Crash
<1>37. CASE Recover
  BY <1>37 DEF Recover
<1>38. CASE EditGen
  BY <1>38 DEF EditGen, Disturb, Exposing
<1>39. CASE EditRoot
  BY <1>39 DEF EditRoot, Disturb, Exposing
<1>40. CASE UNCHANGED vars
  BY <1>40
<1> QED
  BY <1>1, <1>2, <1>3, <1>4, <1>5, <1>6, <1>7, <1>8, <1>9, <1>10, <1>11, <1>12, <1>13,
     <1>14, <1>15, <1>16, <1>17, <1>18, <1>19, <1>20, <1>21, <1>22, <1>23, <1>24, <1>25,
     <1>26, <1>27, <1>28, <1>29, <1>30, <1>31, <1>32, <1>33, <1>34, <1>35, <1>36, <1>37,
     <1>38, <1>39, <1>40 DEF Next, Importing, Deployment, RollingBack, User

(* No finished deployment is put on record for another project than KNX has, *)
(* but for an import after the last look at the store.                       *)
THEOREM DeployedStored == Spec => DeployedIsStored
<1>1. Inv /\ [Next]_vars => [StoredThen]_vars
  BY StepStoredThen
<1> QED
  BY <1>1, Invariance, PTL DEF Spec, DeployedIsStored, StoredThen

(* What UserDisablingSurvives says of one step. *)
DisablingKept ==
  disturbances' = disturbances =>
    \A e \in Entity : registry[e] = "user" => registry'[e] = "user"

LEMMA StepDisablingKept == TypeOK /\ [Next]_vars => DisablingKept
<1> SUFFICES ASSUME TypeOK, [Next]_vars PROVE DisablingKept
  OBVIOUS
<1> USE ConstantsAssumption DEF TypeOK, DisablingKept, Idle, Goto, KeepLocals, vars, diskVars, haVars,
        localVars, ghostVars, countVars
<1>1. ASSUME NEW p \in Project, StartImport(p) PROVE DisablingKept
  BY <1>1 DEF StartImport
<1>2. ASSUME NEW p \in Project, StartDeploy(p) PROVE DisablingKept
  BY <1>2 DEF StartDeploy
<1>3. ASSUME NEW e \in Entity, UserDisables(e) PROVE DisablingKept
  BY <1>3 DEF UserDisables, Disturb
<1>4. ASSUME NEW e \in Entity, UserEnables(e) PROVE DisablingKept
  BY <1>4 DEF UserEnables, Disturb
<1>5. ASSUME NEW p \in Project, OtherImport(p) PROVE DisablingKept
  BY <1>5 DEF OtherImport, Disturb, Exposing
<1>6. CASE ImportSave
  BY <1>6 DEF ImportSave
<1>7. CASE ImportBind
  BY <1>7 DEF ImportBind
<1>8. CASE ReadPrevious
  BY <1>8 DEF ReadPrevious, PreflightFails, PreviousReadable
<1>9. CASE CheckProject
  BY <1>9 DEF CheckProject, PreflightFails
<1>10. CASE NeedsReview
  BY <1>10 DEF NeedsReview
<1>11. CASE PlanRejected
  BY <1>11 DEF PlanRejected, PreflightFails
<1>12. CASE Prepare
  BY <1>12 DEF Prepare, Journals, Manifests
<1>13. CASE WriteJournal
  BY <1>13 DEF WriteJournal
<1>14. CASE WriteManifest
  BY <1>14 DEF WriteManifest
<1>15. CASE CheckGen
  BY <1>15 DEF CheckGen, StartRollback
<1>16. CASE WriteGen
  BY <1>16 DEF WriteGen
<1>17. CASE CheckRoot
  BY <1>17 DEF CheckRoot, StartRollback
<1>18. CASE WriteRoot
  BY <1>18 DEF WriteRoot, AfterRoot
<1>19. CASE Validate
  BY <1>19 DEF Validate, StartRollback, Swapped
<1>20. CASE Reload
  BY <1>20 DEF Reload, RegistryLoading
<1>21. CASE WaitLoaded
  BY <1>21 DEF WaitLoaded, StartRollback
<1>22. CASE Verify
  BY <1>22 DEF Verify, StartRollback
<1>23. CASE Retire
  BY <1>23 DEF Retire, Swapped
<1>24. CASE Commit
  BY <1>24 DEF Commit
<1>25. CASE NoteSuccess
  BY <1>25 DEF NoteSuccess
<1>26. CASE ClearJournal
  BY <1>26 DEF ClearJournal, NoJournal
<1>27. CASE NoteFailure
  BY <1>27 DEF NoteFailure
<1>28. CASE RollbackRoot
  BY <1>28 DEF RollbackRoot, AbandonRollback, AfterRoot
<1>29. CASE RollbackGen
  BY <1>29 DEF RollbackGen, AbandonRollback
<1>30. CASE RollbackManifest
  BY <1>30 DEF RollbackManifest
<1>31. CASE RollbackRegistry
  BY <1>31 DEF RollbackRegistry, Swapped
<1>32. CASE RollbackReload
  BY <1>32 DEF RollbackReload, RegistryLoading
<1>33. CASE RollbackClear
  BY <1>33 DEF RollbackClear, NoJournal
<1>34. CASE TransactionFails
  BY <1>34 DEF TransactionFails
<1>35. CASE RollbackFails
  BY <1>35 DEF RollbackFails, AbandonRollback
<1>36. CASE Crash
  BY <1>36 DEF Crash, RegistryLoading
<1>37. CASE Recover
  BY <1>37 DEF Recover
<1>38. CASE EditGen
  BY <1>38 DEF EditGen, Disturb, Exposing
<1>39. CASE EditRoot
  BY <1>39 DEF EditRoot, Disturb, Exposing
<1>40. CASE UNCHANGED vars
  BY <1>40
<1> QED
  BY <1>1, <1>2, <1>3, <1>4, <1>5, <1>6, <1>7, <1>8, <1>9, <1>10, <1>11, <1>12, <1>13,
     <1>14, <1>15, <1>16, <1>17, <1>18, <1>19, <1>20, <1>21, <1>22, <1>23, <1>24, <1>25,
     <1>26, <1>27, <1>28, <1>29, <1>30, <1>31, <1>32, <1>33, <1>34, <1>35, <1>36, <1>37,
     <1>38, <1>39, <1>40 DEF Next, Importing, Deployment, RollingBack, User

(* The user's choice to disable an entity outlives everything the program   *)
(* does.                                                                    *)
THEOREM UserDisablingSafe == Spec => UserDisablingSurvives
<1>1. TypeOK /\ [Next]_vars => [DisablingKept]_vars
  BY StepDisablingKept
<1> QED
  BY <1>1, TypeCorrect, PTL DEF Spec, UserDisablingSurvives, DisablingKept

(* A step of the deployment is a step of the atomic one, or none at all. *)
LEMMA StepAtomic == Inv /\ Inv' /\ [Next]_vars => [Atomic!Next]_(Atomic!abstractVars)
<1> SUFFICES ASSUME Inv, Inv', [Next]_vars PROVE [Atomic!Next]_(Atomic!abstractVars)
  OBVIOUS
<1> USE ConstantsAssumption DEF Inv, TypeOK, FileInv, ConsistentAtRest, GoodJournal, SameImages,
        Pending, Transaction, Rollback, Preflight, PackageWritten, Manifests, Journals, Idle, Goto,
        KeepLocals, vars, diskVars, haVars, localVars, ghostVars, countVars, Atomic!Next,
        Atomic!abstractVars, Atomic!Begin, Atomic!Settle, Atomic!EditByHand, Atomic!Unsettled
<1>1. ASSUME NEW p \in Project, StartImport(p) PROVE [Atomic!Next]_(Atomic!abstractVars)
  BY <1>1 DEF StartImport
<1>2. ASSUME NEW p \in Project, StartDeploy(p) PROVE [Atomic!Next]_(Atomic!abstractVars)
  BY <1>2 DEF StartDeploy
<1>3. ASSUME NEW e \in Entity, UserDisables(e) PROVE [Atomic!Next]_(Atomic!abstractVars)
  BY <1>3 DEF UserDisables, Disturb
<1>4. ASSUME NEW e \in Entity, UserEnables(e) PROVE [Atomic!Next]_(Atomic!abstractVars)
  BY <1>4 DEF UserEnables, Disturb
<1>5. ASSUME NEW p \in Project, OtherImport(p) PROVE [Atomic!Next]_(Atomic!abstractVars)
  BY <1>5 DEF OtherImport, Disturb, Exposing
<1>6. CASE ImportSave
  BY <1>6 DEF ImportSave
<1>7. CASE ImportBind
  BY <1>7 DEF ImportBind
<1>8. CASE ReadPrevious
  BY <1>8 DEF ReadPrevious, PreflightFails, PreviousReadable
<1>9. CASE CheckProject
  BY <1>9 DEF CheckProject, PreflightFails
<1>10. CASE NeedsReview
  BY <1>10 DEF NeedsReview
<1>11. CASE PlanRejected
  BY <1>11 DEF PlanRejected, PreflightFails
<1>12. CASE Prepare
  BY <1>12 DEF Prepare, Journals, Manifests
<1>13. CASE WriteJournal
  BY <1>13 DEF WriteJournal
<1>14. CASE WriteManifest
  BY <1>14 DEF WriteManifest
<1>15. CASE CheckGen
  BY <1>15 DEF CheckGen, StartRollback
<1>16. CASE WriteGen
  BY <1>16 DEF WriteGen
<1>17. CASE CheckRoot
  BY <1>17 DEF CheckRoot, StartRollback
<1>18. CASE WriteRoot
  BY <1>18 DEF WriteRoot, AfterRoot
<1>19. CASE Validate
  BY <1>19 DEF Validate, StartRollback
<1>20. CASE Reload
  BY <1>20 DEF Reload
<1>21. CASE WaitLoaded
  BY <1>21 DEF WaitLoaded, StartRollback
<1>22. CASE Verify
  BY <1>22 DEF Verify, StartRollback
<1>23. CASE Retire
  BY <1>23 DEF Retire
<1>24. CASE Commit
  BY <1>24 DEF Commit
<1>25. CASE NoteSuccess
  BY <1>25 DEF NoteSuccess
<1>26. CASE ClearJournal
  BY <1>26 DEF ClearJournal, NoJournal
<1>27. CASE NoteFailure
  BY <1>27 DEF NoteFailure
<1>28. CASE RollbackRoot
  BY <1>28 DEF RollbackRoot, AbandonRollback, AfterRoot
<1>29. CASE RollbackGen
  BY <1>29 DEF RollbackGen, AbandonRollback
<1>30. CASE RollbackManifest
  BY <1>30 DEF RollbackManifest
<1>31. CASE RollbackRegistry
  BY <1>31 DEF RollbackRegistry
<1>32. CASE RollbackReload
  BY <1>32 DEF RollbackReload
<1>33. CASE RollbackClear
  BY <1>33 DEF RollbackClear, NoJournal
<1>34. CASE TransactionFails
  BY <1>34 DEF TransactionFails
<1>35. CASE RollbackFails
  BY <1>35 DEF RollbackFails, AbandonRollback
<1>36. CASE Crash
  BY <1>36 DEF Crash
<1>37. CASE Recover
  BY <1>37 DEF Recover
<1>38. CASE EditGen
  BY <1>38 DEF EditGen, Disturb, Exposing
<1>39. CASE EditRoot
  BY <1>39 DEF EditRoot, Disturb, Exposing
<1>40. CASE UNCHANGED vars
  BY <1>40
<1> QED
  BY <1>1, <1>2, <1>3, <1>4, <1>5, <1>6, <1>7, <1>8, <1>9, <1>10, <1>11, <1>12, <1>13,
     <1>14, <1>15, <1>16, <1>17, <1>18, <1>19, <1>20, <1>21, <1>22, <1>23, <1>24, <1>25,
     <1>26, <1>27, <1>28, <1>29, <1>30, <1>31, <1>32, <1>33, <1>34, <1>35, <1>36, <1>37,
     <1>38, <1>39, <1>40 DEF Next, Importing, Deployment, RollingBack, User

(* The journaled deployment implements the atomic one. *)
THEOREM Refinement == Spec => ImplementsAtomic
<1>1. Init => Atomic!Init
  BY DEF Init, Atomic!Init, Pending, NoJournal, NoManifest
<1>2. Inv /\ Inv' /\ [Next]_vars => [Atomic!Next]_(Atomic!abstractVars)
  BY StepAtomic
<1> QED
  BY <1>1, <1>2, Invariance, PTL DEF Spec, ImplementsAtomic, Atomic!Spec
=============================================================================
