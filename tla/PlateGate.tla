------------------------------- MODULE PlateGate -------------------------------
(***************************************************************************)
(* A VIGI licence plate camera and this hub: the platform's list of plates *)
(* (lpr_gate.py), the copy of it the camera keeps and its own rule for the *)
(* barrier (vigi_web.py), and the four operations of frigate_bridge.py     *)
(* that keep them together: the one-tap setup, the automatic opening       *)
(* switched, a list saved, and the background copy to the camera.          *)
(*                                                                         *)
(* A plate is listed with a verdict; "idle" is an entry switched off or    *)
(* not valid today.  The log, times of contact and pictures are left out,  *)
(* and so are senders that are no camera of Frigate's: nothing opens then. *)
(***************************************************************************)
EXTENDS Naturals, Sequences, Functions

CONSTANTS
  Plate,
  Report,          \* the webhook requests under way at once
  Lists,           \* the lists somebody saves
  First,           \* the camera's and the platform's list at first
  REPEAT_SECONDS,  \* 8 in the code
  MaxTime,         \* bounds: the clock,
  Budgets,         \*   how often each of the operations starts: one of these,
  MaxUnanswered,   \*   requests to the camera that fail or lose their answer,
  MaxStops         \*   and times Home Assistant stops

Verdict == {"none", "allow", "block", "idle"}
Operation == {"setup", "switch", "save", "sync"}
Task == Report \cup Operation
Never == MaxTime + 1

Settings == [autoGate : {"unset", "on", "off"}, cameraGate : BOOLEAN, cameraList : BOOLEAN,
             listSync : {"none", "running", "ok", "failed"}, setupAt : BOOLEAN]

(* What the constants are; assumed where they have values, in Bridges. *)
PlateAssumption ==
  /\ First \in [copy : [Plate -> Verdict], list : [Plate -> Verdict]]
  /\ Lists \subseteq [Plate -> Verdict] /\ Report \cap Operation = {}
  /\ Plate # {} /\ {REPEAT_SECONDS, MaxTime, MaxUnanswered, MaxStops} \subseteq Nat
  /\ Budgets \subseteq [{"setup", "switch", "save", "plate"} -> Nat]

VARIABLES
  copy, rule,      \* the camera: its list, and whether its rule opens for an allowed plate
  list, settings,  \* data["entries"], and data["cameras"] of the camera
  saved,           \* both as they were saved last
  line,            \* PlateGate.lock: its holder, and who waits for it in turn
  web,             \* web_locks[camera]: its holder, or "free"
  at,              \* the await a task is at
  note,            \* what a task writes once it has the lock, and what follows
  plate,           \* the plate of a report
  recent,          \* self.recent: when a plate was decided on
  asked,           \* what the switch asks for
  auto, pending,   \* vigi_setup's variables of these names
  wanted, todo,    \* _sync_plates': entries, and the plates that differ
  now,
  pulsed,          \* observation: when the hub last began to open for a plate, and whether
  overlap,         \*   operations overlapped, were cut off, or an answer to a switch was lost
  budget, unanswered, stops   \* bounds

camera == <<copy, rule>>
memory == <<list, settings>>
locals == <<plate, asked, auto, pending, wanted, todo>>
bounds == <<budget, unanswered, stops>>
vars == <<camera, memory, saved, line, web, at, note, recent, locals, now, pulsed, overlap, bounds>>

----------------------------------------------------------------------------
(* Lists and locks *)

Value(enabled) == IF enabled THEN "on" ELSE "off"

(* merge_rows: the platform's list and what the camera has beyond it. *)
Merge(entries, rows) == [p \in Plate |-> IF entries[p] = "none" THEN rows[p] ELSE entries[p]]

(* plan_sync: the plates to remove, to change and to add. *)
Differences(entries, rows) == {p \in Plate : entries[p] # rows[p]}
Removals(entries, ps) == {p \in ps : entries[p] = "none"}

Changed(values, changes) ==
  [name \in DOMAIN values |-> IF name \in DOMAIN changes THEN changes[name] ELSE values[name]]

(* Mutant: the lock is not waited for. *)
HoldsNone(t) == t \in Range(line)
Holds(t) == line # <<>> /\ Head(line) = t

Nothing == [changes |-> <<>>, then |-> "done"]
SetList(entries, then) == [list |-> entries, changes |-> <<>>, then |-> then]
SetCamera(changes, then) == [changes |-> changes, then |-> then]

(* The others give way: a task waits for the lock behind queue. *)
Waits(t, what, queue) ==
  /\ line' = Append(queue, t) /\ note' = [note EXCEPT ![t] = what]
  /\ at' = [at EXCEPT ![t] = "queued"]

Overlaps(op, with) == overlap' = (overlap \/ \E other \in with : at[other] # "idle")
Spend(what) == budget[what] > 0 /\ budget' = [budget EXCEPT ![what] = @ - 1]
Unanswered == unanswered < MaxUnanswered /\ unanswered' = unanswered + 1

(* set_camera and replace, once they have the lock. *)
Written(t) ==
  /\ t \in Operation /\ at[t] = "queued" /\ Holds(t)
  /\ settings' = Changed(settings, note[t].changes)
  /\ list' = IF "list" \in DOMAIN note[t] THEN note[t].list ELSE list
  /\ at' = [at EXCEPT ![t] = "saving"]
  /\ UNCHANGED <<camera, saved, line, web, note, recent, locals, now, pulsed, overlap, bounds>>

Save == saved' = [list |-> list, settings |-> settings]

----------------------------------------------------------------------------
(* PlateGate.report *)

Recent(p) == recent[p] # Never /\ now - recent[p] < REPEAT_SECONDS
Remembered(p, time) ==
  [q \in Plate |-> IF q = p THEN time ELSE IF Recent(q) THEN recent[q] ELSE Never]

(* A camera recognises a plate: _camera_for_host found it. *)
Recognised(r, p) ==
  /\ at[r] = "idle" /\ Spend("plate")
  /\ plate' = [plate EXCEPT ![r] = p]
  /\ Waits(r, Nothing, line)
  /\ UNCHANGED <<camera, memory, saved, web, recent, asked, auto, pending, wanted, todo, now,
                 pulsed, overlap, unanswered, stops>>

Repeated(r) ==
  /\ at[r] = "queued" /\ Holds(r) /\ Recent(plate[r])
  /\ line' = Tail(line) /\ at' = [at EXCEPT ![r] = "idle"]
  /\ UNCHANGED <<camera, memory, saved, web, note, recent, locals, now, pulsed, overlap, bounds>>

HubOpens(p) == list[p] = "allow" /\ settings.autoGate = "on" /\ ~settings.cameraGate

Decide(r) ==
  /\ at[r] = "queued" /\ Holds(r) /\ ~Recent(plate[r])
  /\ IF HubOpens(plate[r])
     THEN /\ at' = [at EXCEPT ![r] = "opening"]
          /\ pulsed' = [pulsed EXCEPT ![plate[r]] = now]
          /\ UNCHANGED recent
     ELSE /\ at' = [at EXCEPT ![r] = "saving"]
          /\ recent' = Remembered(plate[r], now)
          /\ UNCHANGED pulsed
  /\ UNCHANGED <<camera, memory, saved, line, web, note, locals, now, overlap, bounds>>

(* The camera answered or failed; the clock was read before. *)
Opened(r) ==
  /\ at[r] = "opening"
  /\ recent' = Remembered(plate[r], pulsed[plate[r]])
  /\ at' = [at EXCEPT ![r] = "saving"]
  /\ UNCHANGED <<camera, memory, saved, line, web, note, locals, now, pulsed, overlap, bounds>>

Reported(r) ==
  /\ at[r] = "saving" /\ Save
  /\ line' = Tail(line) /\ at' = [at EXCEPT ![r] = "idle"]
  /\ UNCHANGED <<camera, memory, web, note, recent, locals, now, pulsed, overlap, bounds>>

----------------------------------------------------------------------------
(* The web page of the camera, one session at a time *)

Visit(t) ==
  /\ at[t] = "web" /\ web = "free" /\ web' = t
  /\ at' = [at EXCEPT ![t] = IF t = "switch" THEN "set_gate" ELSE "login"]
  /\ UNCHANGED <<camera, memory, saved, line, note, recent, locals, now, pulsed, overlap, bounds>>

(* vigi_control, op auto_gate *)
SwitchGate(enabled) ==
  /\ at["switch"] = "idle" /\ Spend("switch") /\ asked' = enabled
  /\ Overlaps("switch", {"setup"})
  /\ IF settings.cameraGate
     THEN at' = [at EXCEPT !["switch"] = "web"] /\ UNCHANGED <<line, note>>
     ELSE Waits("switch", SetCamera([autoGate |-> Value(enabled)], "done"), line)
  /\ UNCHANGED <<camera, memory, saved, web, recent, plate, auto, pending, wanted, todo, now,
                 pulsed, unanswered, stops>>

SwitchedGate ==
  /\ at["switch"] = "set_gate" /\ web' = "free"
  /\ \/ rule' = asked /\ Waits("switch", SetCamera([autoGate |-> Value(asked)], "done"), line)
        /\ UNCHANGED <<overlap, unanswered>>
     \/ /\ Unanswered /\ rule' \in {rule, asked}
        /\ overlap' = (overlap \/ rule' # rule)
        /\ at' = [at EXCEPT !["switch"] = "idle"] /\ UNCHANGED <<line, note>>
  /\ UNCHANGED <<copy, memory, saved, recent, locals, now, pulsed, budget, stops>>

Switched ==
  /\ at["switch"] = "saving" /\ Save
  /\ line' = Tail(line) /\ at' = [at EXCEPT !["switch"] = "idle"]
  /\ UNCHANGED <<camera, memory, web, note, recent, locals, now, pulsed, overlap, bounds>>

----------------------------------------------------------------------------
(* _sync_plates *)

Apply(ps) == copy' = [p \in Plate |-> IF p \in ps THEN wanted[p] ELSE copy[p]]
(* apply_plates: the removals first, then one plate a request. *)
Requests == LET gone == Removals(wanted, todo) IN IF gone # {} THEN {gone} ELSE {{p} : p \in todo}

(* A task that is cancelled waits no more. *)
Withdrawn(queue, t) ==
  LET places == {i \in DOMAIN queue : queue[i] = t}
      i == CHOOSE i \in places : TRUE
  IN IF places = {} THEN queue ELSE SubSeq(queue, 1, i - 1) \o SubSeq(queue, i + 1, Len(queue))

(* Mutant: a copy that is under way goes on. *)
SyncUnlessRunning(queue, t, stage) ==
  /\ line' = queue /\ UNCHANGED <<web, copy>>
  /\ at' = [at EXCEPT ![t] = stage, !["sync"] = IF @ = "idle" THEN "start" ELSE @]
(* _sync_plates_later, called by t, which goes on to stage: a copy under  *)
(* way is cancelled; what it asked the camera for last may still be done. *)
SyncLater(queue, t, stage) ==
  /\ line' = Withdrawn(queue, "sync")
  /\ web' = IF web = "sync" THEN "free" ELSE web
  /\ UNCHANGED copy \/ (at["sync"] = "apply" /\ \E ps \in Requests : Apply(ps))
  /\ at' = [at EXCEPT ![t] = stage, !["sync"] = "start"]

SyncStarts ==
  /\ at["sync"] = "start"
  /\ Waits("sync", SetCamera([listSync |-> "running"], "web"), line)
  /\ UNCHANGED <<camera, memory, saved, web, recent, locals, now, pulsed, overlap, bounds>>

SyncSaved ==
  /\ at["sync"] = "saving" /\ Save
  /\ line' = Tail(line)
  /\ at' = [at EXCEPT !["sync"] = IF note["sync"].then = "web" THEN "web" ELSE "idle"]
  /\ UNCHANGED <<camera, memory, web, note, recent, locals, now, pulsed, overlap, bounds>>

SyncReads ==
  /\ at["sync"] = "login"
  /\ wanted' = list
  /\ at' = [at EXCEPT !["sync"] = "rows"]
  /\ UNCHANGED <<camera, memory, saved, line, web, note, recent, plate, asked, auto, pending, todo,
                 now, pulsed, overlap, bounds>>

SyncCompares ==
  /\ at["sync"] = "rows"
  /\ todo' = Differences(wanted, copy)
  /\ at' = [at EXCEPT !["sync"] = "apply"]
  /\ UNCHANGED <<camera, memory, saved, line, web, note, recent, plate, asked, auto, pending,
                 wanted, now, pulsed, overlap, bounds>>

SyncApplies ==
  /\ at["sync"] = "apply" /\ \E ps \in Requests : Apply(ps) /\ todo' = todo \ ps
  /\ UNCHANGED <<rule, memory, saved, line, web, at, note, recent, plate, asked, auto, pending,
                 wanted, now, pulsed, overlap, bounds>>

SyncEnds ==
  /\ \/ at["sync"] = "apply" /\ todo = {} /\ UNCHANGED <<copy, unanswered>>
        /\ Waits("sync", SetCamera([listSync |-> "ok"], "done"), line)
     \/ at["sync"] \in {"login", "rows", "apply"} /\ Unanswered
        /\ (UNCHANGED copy \/ (at["sync"] = "apply" /\ \E ps \in Requests : Apply(ps)))
        /\ Waits("sync", SetCamera([listSync |-> "failed"], "done"), line)
  /\ web' = "free"
  /\ UNCHANGED <<rule, memory, saved, recent, locals, now, pulsed, overlap, budget, stops>>

(* lpr_list_save *)
SaveList(entries) ==
  /\ at["save"] = "idle" /\ Spend("save")
  /\ Waits("save", SetList(entries, "done"), line)
  /\ Overlaps("save", {"setup"})
  /\ UNCHANGED <<camera, memory, saved, web, recent, locals, now, pulsed, unanswered, stops>>

ListSaved ==
  /\ at["save"] = "saving" /\ Save
  /\ IF settings.cameraList THEN SyncLater(Tail(line), "save", "idle")
     ELSE line' = Tail(line) /\ at' = [at EXCEPT !["save"] = "idle"] /\ UNCHANGED <<web, copy>>
  /\ UNCHANGED <<rule, memory, note, recent, locals, now, pulsed, overlap, bounds>>

----------------------------------------------------------------------------
(* vigi_setup: it holds the web lock from its first request to its end *)

Setup ==
  /\ at["setup"] = "idle" /\ Spend("setup") /\ Overlaps("setup", {"save", "switch"})
  /\ at' = [at EXCEPT !["setup"] = "web"]
  /\ UNCHANGED <<camera, memory, saved, line, web, note, recent, locals, now, pulsed,
                 unanswered, stops>>

(* The steps before the gate only report how they went, except the login. *)
SetupLogin ==
  /\ at["setup"] = "login"
  /\ \/ auto' = (settings.autoGate # "off") /\ at' = [at EXCEPT !["setup"] = "set_gate"]
        /\ UNCHANGED <<web, unanswered>>
     \/ Unanswered /\ web' = "free" /\ at' = [at EXCEPT !["setup"] = "idle"] /\ UNCHANGED auto
  /\ UNCHANGED <<camera, memory, saved, line, note, recent, plate, asked, pending, wanted, todo,
                 now, pulsed, overlap, budget, stops>>

SetupGate ==
  /\ at["setup"] = "set_gate"
  /\ \/ rule' = auto /\ UNCHANGED unanswered
        /\ Waits("setup", SetCamera([autoGate |-> Value(auto), cameraGate |-> TRUE], "rows"), line)
     \/ rule' \in {rule, auto} /\ Unanswered
        /\ Waits("setup", SetCamera([cameraGate |-> FALSE], "rows"), line)
  /\ UNCHANGED <<copy, memory, saved, web, recent, locals, now, pulsed, overlap, budget, stops>>

SetupEnds(queue) == Waits("setup", SetCamera([setupAt |-> TRUE], "done"), queue)

SetupRows ==
  /\ at["setup"] = "rows"
  /\ \/ LET merged == Merge(list, copy) IN
        /\ pending' = (Differences(merged, copy) # {}) /\ UNCHANGED unanswered
        /\ Waits("setup", IF merged # list THEN SetList(merged, "list")
                          ELSE SetCamera([cameraList |-> TRUE, listSync |-> "ok"], "sync"), line)
     \/ Unanswered /\ UNCHANGED pending /\ SetupEnds(line)
  /\ UNCHANGED <<camera, memory, saved, web, recent, plate, asked, auto, wanted, todo, now, pulsed,
                 overlap, budget, stops>>

(* After each of its writes, up to the next await. *)
SetupGoesOn ==
  /\ at["setup"] = "saving" /\ Save
  /\ CASE note["setup"].then = "rows" ->
            line' = Tail(line) /\ at' = [at EXCEPT !["setup"] = "rows"] /\ UNCHANGED <<note, web, copy>>
       [] note["setup"].then = "list" ->
            /\ Waits("setup", SetCamera([cameraList |-> TRUE, listSync |-> "ok"], "sync"), Tail(line))
            /\ UNCHANGED <<web, copy>>
       [] note["setup"].then = "sync" /\ pending ->
            /\ SyncLater(Append(Tail(line), "setup"), "setup", "queued")
            /\ note' = [note EXCEPT !["setup"] = SetCamera([setupAt |-> TRUE], "done")]
       [] note["setup"].then = "sync" /\ ~pending -> SetupEnds(Tail(line)) /\ UNCHANGED <<web, copy>>
       [] note["setup"].then = "done" ->
            /\ line' = Tail(line) /\ at' = [at EXCEPT !["setup"] = "idle"] /\ web' = "free"
            /\ UNCHANGED <<note, copy>>
  /\ UNCHANGED <<rule, memory, recent, locals, now, pulsed, overlap, bounds>>

----------------------------------------------------------------------------

(* Nothing sees the clock before the first opening or decision. *)
Tick ==
  /\ \E p \in Plate : {recent[p], pulsed[p]} # {Never}
  /\ now < MaxTime /\ now' = now + 1
  /\ UNCHANGED <<camera, memory, saved, line, web, at, note, recent, locals, pulsed, overlap, bounds>>

(* Home Assistant stops and starts again: what was not saved is lost. *)
Stop ==
  /\ stops < MaxStops /\ stops' = stops + 1
  /\ list' = saved.list /\ settings' = saved.settings
  /\ line' = <<>> /\ web' = "free" /\ at' = [t \in Task |-> "idle"]
  /\ recent' = [p \in Plate |-> Never] /\ pulsed' = recent'
  /\ overlap' = (overlap \/ \E t \in Operation : at[t] # "idle")
  /\ UNCHANGED <<camera, saved, note, locals, now, budget, unanswered>>

Unset == [autoGate |-> "unset", cameraGate |-> FALSE, cameraList |-> FALSE, listSync |-> "none",
          setupAt |-> FALSE]
Init ==
  /\ copy = First.copy /\ list = First.list /\ rule = FALSE /\ settings = Unset
  /\ saved = [list |-> list, settings |-> settings]
  /\ line = <<>> /\ web = "free" /\ at = [t \in Task |-> "idle"] /\ note = [t \in Task |-> Nothing]
  /\ plate \in [Report -> {CHOOSE p \in Plate : TRUE}]
  /\ recent = [p \in Plate |-> Never] /\ pulsed = recent
  /\ asked = FALSE /\ auto = FALSE /\ pending = FALSE /\ wanted = list /\ todo = {}
  /\ now = 0 /\ overlap = FALSE /\ budget \in Budgets /\ unanswered = 0 /\ stops = 0

Next ==
  \/ \E r \in Report :
       \/ \E p \in Plate : Recognised(r, p)
       \/ Repeated(r) \/ Decide(r) \/ Opened(r) \/ Reported(r)
  \/ \E t \in Operation : Written(t) \/ Visit(t)
  \/ \E enabled \in BOOLEAN : SwitchGate(enabled)
  \/ SwitchedGate \/ Switched
  \/ SyncStarts \/ SyncSaved \/ SyncReads \/ SyncCompares \/ SyncApplies \/ SyncEnds
  \/ \E entries \in Lists : SaveList(entries)
  \/ ListSaved \/ Setup \/ SetupLogin \/ SetupGate \/ SetupRows \/ SetupGoesOn
  \/ Tick \/ Stop
Spec == Init /\ [][Next]_vars

----------------------------------------------------------------------------
(* Properties *)

(* The variables stay in their types; who writes or decides holds the lock. *)
TypeOK ==
  /\ {copy, list, saved.list, wanted} \subseteq [Plate -> Verdict]
  /\ {settings, saved.settings} \subseteq Settings /\ {rule, asked, auto, pending} \subseteq BOOLEAN
  /\ Range(line) \subseteq Task /\ IsInjective(line) /\ web \in Operation \cup {"free"}
  /\ \A t \in Task : (at[t] \in {"saving", "opening"}) => Holds(t)
  /\ \A t \in Task : at[t] = "queued" <=> (t \in Range(line) /\ at[t] \notin {"saving", "opening"})
  /\ {recent, pulsed} \subseteq [Plate -> 0 .. Never] /\ now \in 0 .. MaxTime
  /\ todo \subseteq Plate /\ plate \in [Report -> Plate]

(* A car that is reported again and again while its gate is being opened,  *)
(* for longer than the window of repeats even, has the hub open it again   *)
(* only once the window has passed since the opening began (lpr_gate.py's  *)
(* lock and recent), until Home Assistant starts again.                    *)
PulsesApart ==
  [][\A p \in Plate : (pulsed[p] # Never /\ pulsed'[p] \notin {pulsed[p], Never})
       => pulsed'[p] - pulsed[p] >= REPEAT_SECONDS]_vars

(* With no operation under way the camera does what the platform shows: it *)
(* opens for allowed plates exactly when the switch is on (cameraGate), and*)
(* its list is the platform's when the last copy is said to have gone well *)
(* (cameraList and listSync), unless operations overlapped a setup, were   *)
(* cut off by a stop, or a switch took effect although its answer was lost.*)
SettledIsTrue ==
  ((\A t \in Operation : at[t] = "idle") /\ ~overlap) =>
    /\ settings.cameraGate => (settings.autoGate = Value(rule))
    /\ (settings.cameraList /\ settings.listSync = "ok") => copy = list

(* What merge_rows and the documentation say: the camera's plates enter the*)
(* platform's list in the first setup only, and then the platform's list   *)
(* is what counts: only somebody who saves it changes it.                  *)
PlatformListCounts ==
  [][(settings.cameraList /\ list' # list) =>
       (at["save"] = "queued" /\ Holds("save")) \/ stops' # stops]_vars
=============================================================================
