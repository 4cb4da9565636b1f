-------------------------- MODULE AtomicDeployment --------------------------
(***************************************************************************)
(* What a KNX deployment promises its user, whatever fails in between: the *)
(* managed configuration is installed as a whole or the previous one comes *)
(* back.  An observer sees the project that is installed, whether a        *)
(* deployment is busy, and the managed package while nothing is busy.      *)
(* KnxDeployment implements this specification.                            *)
(***************************************************************************)
CONSTANTS
  Project,   \* deployment plans, one per project file and plan options
  None,      \* no project, or no file
  Edit       \* a managed package somebody edited by hand

VARIABLES
  installed,  \* the project of the last deployment that succeeded
  target,     \* the project that a busy deployment wants to install
  busy,       \* a deployment has started and is neither finished nor undone
  view        \* the managed package at rest; nothing is promised while busy

abstractVars == <<installed, target, busy, view>>

Unsettled == "unsettled"

Init ==
  /\ installed = None
  /\ target = None
  /\ busy = FALSE
  /\ view = None

(* A deployment starts; from here on the package is in flux. *)
Begin ==
  /\ ~busy
  /\ busy' = TRUE
  /\ target' \in Project
  /\ view' = Unsettled
  /\ UNCHANGED installed

(* It ends with its project installed, or with the one it began with;      *)
(* the package is that project's, unless it was edited by hand meanwhile.  *)
Settle ==
  /\ busy
  /\ busy' = FALSE
  /\ installed' \in {target, installed}
  /\ target' = None
  /\ view' \in {installed', Edit}

EditByHand ==
  /\ ~busy
  /\ view' = Edit
  /\ UNCHANGED <<installed, target, busy>>

Next == Begin \/ Settle \/ EditByHand

Spec == Init /\ [][Next]_abstractVars
=============================================================================
