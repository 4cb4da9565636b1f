----------------------------- MODULE FrigateBridge -----------------------------
(***************************************************************************)
(* The camera jobs of frigate_bridge.py: one job at a time adds a camera   *)
(* to the Frigate NVR beside Home Assistant, takes one out or changes its  *)
(* settings, in calls that fail, that are applied although their answer is *)
(* lost, and that Home Assistant may not live to see answered.             *)
(*                                                                         *)
(* A job's stage is the await it is at; an action is what runs up to the   *)
(* next one.  A camera's name is a number: the first free one of its label.*)
(* Frigate and go2rtc are external, known by what the bridge relies on.    *)
(***************************************************************************)
EXTENDS Naturals, Sequences, FiniteSetsExt

CONSTANTS
  Op, NoOp,      \* identifiers of jobs, and none
  Host, NoHost,  \* camera addresses, and none
  Scenes,        \* Frigate's configuration at first, and what every job asks for
  MaxKey,        \* bounds: names of cameras,
  MaxJobs,       \*   jobs kept in the store (10 in the code),
  MaxFaults,     \*   calls that fail and
  MaxCrashes     \*   times Home Assistant stops

Key == 0 .. MaxKey
Placeholder == 0   \* Frigate's sample camera
Stream == Key \X {"main", "sub"}
Piece == Stream \cup (Key \X {"camera"})   \* what an addition leaves: streams, and the camera

Camera == [host : Host \cup {NoHost}, reads : SUBSET Stream, live : SUBSET Stream,
           record : BOOLEAN, detect : BOOLEAN]
NoCamera == [host |-> NoHost, reads |-> {}, live |-> {}, record |-> FALSE, detect |-> FALSE]
Config == [cameras : [Key -> Camera], streams : [Stream -> Host \cup {NoHost}]]

Request ==
  [kind : {"add"}, host : Host, sub : BOOLEAN, record : BOOLEAN, typed : BOOLEAN]
    \cup [kind : {"remove"}, key : Key]
    \cup [kind : {"configure"}, key : Key,
          changes : UNION {[names -> BOOLEAN] : names \in SUBSET {"record", "detect"}}]

(* A configuration that works: a camera finds the restreams it reads, shows  *)
(* live its own or what it reads, and has an input.                          *)
Own(k) == {<<k, "main">>, <<k, "sub">>}
Works(config) ==
  /\ config \in Config
  /\ \A k \in Key :
       LET c == config.cameras[k] IN
       /\ \A s \in c.reads : config.streams[s] # NoHost
       /\ c.live \subseteq Own(k) \cup c.reads
       /\ c # NoCamera => c.host # NoHost \/ c.reads # {}

ASSUME FrigateAssumption ==
  /\ NoOp \notin Op /\ NoHost \notin Host
  /\ \A scene \in Scenes : Works(scene.config) /\ scene.request \in [Op -> Request]
  /\ {MaxKey, MaxJobs, MaxFaults, MaxCrashes} \subseteq Nat

VARIABLES
  file,      \* Frigate's configuration file
  cached,    \* the answer to a read of it that nginx repeats for 5 s: at most one
  running,   \* what the running Frigate does for every camera
  live,      \* the streams of the running go2rtc
  loaded,    \* the stored data was read
  waiting,   \* the requests that wait for it
  list,      \* data["jobs"]: the latest jobs, "live" for one that is in jobs
  jobs,      \* self.jobs
  managed,   \* data["managed"]: the cameras this hub added
  known,     \* data["credentials"]: the addresses with a remembered password
  store,     \* the data as it was saved last
  active,    \* the job that runs
  request,   \* what every identifier asks for
  author,    \* observation: the job that created a stream or a camera,
  shown,     \*   the cameras that delivered frames since they were added,
  lost,      \*   additions that created something and got no answer to it,
  spoilt,    \*   jobs whose undoing or removal met a failure, a lost answer or a stop,
  stale,     \*   and jobs that a cached configuration told a taken name is free, or
             \*   that undid by one
  faults, crashes  \* bounds

frigate == <<file, cached, running, live>>
data == <<list, managed, known>>
seen == <<author, shown, lost, spoilt, stale>>
vars == <<frigate, loaded, waiting, data, jobs, store, active, request, seen, faults, crashes>>

NoConfig == [cameras |-> [k \in Key |-> NoCamera], streams |-> [s \in Stream |-> NoHost]]
Idle == [op |-> NoOp, at |-> "idle", key |-> Placeholder, added |-> {}, config |-> NoConfig,
         access |-> FALSE, drop |-> FALSE, todo |-> {}]

----------------------------------------------------------------------------
(* Configurations *)

Has(config, k) == config.cameras[k] # NoCamera
Streams(config) == {s \in Stream : config.streams[s] # NoHost}

CameraHosts(config, k) ==
  LET c == config.cameras[k]
      names == c.reads \cup c.live \cup {<<k, "main">>}
  IN ({c.host} \cup {config.streams[s] : s \in names}) \ {NoHost}

(* The placeholder's name is no label's. *)
CameraKeys(config) ==
  {k \in Key \ {Placeholder} :
     ~Has(config, k) /\ Own(k) \cap Streams(config) = {}}
CameraKey(config) == Min(CameraKeys(config))

Wanted(k, r) == {<<k, "main">>} \cup (IF r.sub THEN {<<k, "sub">>} ELSE {})

CameraConfig(k, r, restream) ==
  [host |-> IF restream THEN NoHost ELSE r.host,
   reads |-> IF restream THEN Wanted(k, r) ELSE {},
   live |-> IF restream THEN Wanted(k, r) ELSE {},
   record |-> r.record, detect |-> TRUE]

(* Mutant: streams that other cameras read are taken along. *)
OwnedAndShared(config, k) ==
  {s \in ({k} \X {"main", "sub"}) \cup config.cameras[k].live : s \in Streams(config)}
(* The restreams only this camera reads. *)
Owned(config, k) ==
  {s \in ({k} \X {"main", "sub"}) \cup config.cameras[k].live :
     s \in Streams(config) /\ \A other \in Key \ {k} : s \notin config.cameras[other].reads}

Without(config, ks, names) ==
  [cameras |-> [k \in Key |-> IF k \in ks THEN NoCamera ELSE config.cameras[k]],
   streams |-> [s \in Stream |-> IF s \in names THEN NoHost ELSE config.streams[s]]]

With(config, k, camera, names, h) ==
  [cameras |-> [config.cameras EXCEPT ![k] = camera],
   streams |-> [s \in Stream |-> IF s \in names THEN h ELSE config.streams[s]]]

(* camera_settings and settings_patch: the sections of a request in place. *)
Section(camera, name, value) ==
  IF name = "record" THEN [camera EXCEPT !.record = value]
                     ELSE [camera EXCEPT !.detect = value]
Settings(camera, changes) ==
  [camera EXCEPT !.record = IF "record" \in DOMAIN changes THEN changes.record ELSE @,
                 !.detect = IF "detect" \in DOMAIN changes THEN changes.detect ELSE @]

(* What Frigate does for a camera it loads: recording needs the output that *)
(* ffmpeg only gets when recording was on at the start.                     *)
Doing(camera) ==
  IF camera = NoCamera THEN {}
  ELSE {"loaded"} \cup (IF camera.record THEN {"record", "output"} ELSE {})
                  \cup (IF camera.detect THEN {"detect"} ELSE {})
Live(does, name, value) ==
  IF does = {} THEN {} ELSE IF value THEN does \cup {name} ELSE does \ {name}

Init ==
  /\ \E scene \in Scenes : file = scene.config /\ request = scene.request
  /\ cached = {}
  /\ running = [k \in Key |-> Doing(file.cameras[k])] /\ live = Streams(file)
  /\ loaded = FALSE /\ waiting = {}
  /\ list = <<>> /\ managed = {} /\ known = {}
  /\ store = [list |-> <<>>, managed |-> {}, known |-> {}]
  /\ jobs = [op \in Op |-> "none"] /\ active = Idle
  /\ author = [p \in Piece |-> NoOp] /\ shown = {}
  /\ lost = {} /\ spoilt = {} /\ stale = {}
  /\ faults = 0 /\ crashes = 0


----------------------------------------------------------------------------
(* Calls and jobs *)

Strike(n) == faults' = faults + n /\ faults' <= MaxFaults
Calm == Strike(0)

(* api() and config(): the copy that nginx kept, or the file. *)
Read(config) ==
  /\ config \in IF cached = {} THEN {file} ELSE cached
  /\ cached' = {config}

(* config_set without an update topic: applied and answered, refused, or *)
(* applied although no answer comes.                                     *)
ConfigSet(config, answer) ==
  /\ answer \in {"ok", "refused", "lost"}
  /\ Strike(IF answer = "ok" THEN 0 ELSE 1)
  /\ file' = IF answer = "refused" THEN file ELSE config

Kind == request[active.op].kind
At(stage) == active.at = stage
Go(stage) == active' = [active EXCEPT !.at = stage] /\ UNCHANGED jobs
Finish(state) ==
  /\ jobs' = [jobs EXCEPT ![active.op] = state]
  /\ active' = [active EXCEPT !.at = "end"]
Touched == ({active.op} \cup {author[<<active.key, s>>] : s \in {"main", "sub", "camera"}}) \ {NoOp}
Undone == spoilt' = spoilt \cup Touched
Unanswered == lost' = lost \cup {active.op}

(* The data as a save writes it; a fault is a save that raises. *)
Saved(l, m, c, j) ==
  [list |-> [i \in DOMAIN l |-> [op |-> l[i].op,
               state |-> IF l[i].state = "live" THEN j[l[i].op] ELSE l[i].state]],
   managed |-> m, known |-> c]
Save(l, m, c, j, ok) ==
  /\ ok \in BOOLEAN /\ Strike(IF ok THEN 0 ELSE 1)
  /\ store' = IF ok THEN Saved(l, m, c, j) ELSE store

Latest(l) == SubSeq(l, (IF Len(l) > MaxJobs THEN Len(l) - MaxJobs ELSE 0) + 1, Len(l))

(* _start, with the jobs the data lists. *)
Start(op, l, c) ==
  IF jobs[op] # "none" \/ (\E i \in DOMAIN l : l[i].op = op) \/ active # Idle
  THEN list' = l /\ UNCHANGED <<jobs, active>>
  ELSE /\ jobs' = [jobs EXCEPT ![op] = "running"]
       /\ list' = Latest(Append(l, [op |-> op, state |-> "live"]))
       /\ active' = [Idle EXCEPT !.op = op, !.at = "save",
                       !.access = request[op].kind = "add"
                                  /\ (request[op].typed \/ request[op].host \in c)]

(* start_add, start_remove, start_configure: at once when the data is there. *)
Ask(op) ==
  /\ IF loaded THEN Start(op, list, known) /\ UNCHANGED waiting
     ELSE waiting' = waiting \cup {op} /\ UNCHANGED <<list, jobs, active>>
  /\ UNCHANGED <<frigate, loaded, managed, known, store, request, seen, faults, crashes>>

(* Every request that began before the data was there replaces the data. *)
Load(op) ==
  /\ op \in waiting /\ waiting' = waiting \ {op} /\ loaded' = TRUE
  /\ managed' = store.managed /\ known' = store.known
  /\ Start(op, [i \in DOMAIN Latest(store.list) |->
                  [Latest(store.list)[i] EXCEPT !.state = IF @ = "running" THEN "interrupted" ELSE @]],
           store.known)
  /\ UNCHANGED <<frigate, store, request, seen, faults, crashes>>

SaveStarted ==
  /\ At("save") /\ (\E ok \in BOOLEAN : Save(list, managed, known, jobs, ok)) /\ Go("begin")
  /\ UNCHANGED <<frigate, loaded, waiting, data, request, seen, crashes>>

SaveFinished ==
  /\ At("end") /\ (\E ok \in BOOLEAN : Save(list, managed, known, jobs, ok))
  /\ active' = Idle
  /\ UNCHANGED <<frigate, loaded, waiting, data, jobs, request, seen, crashes>>

(* The first read of a job does not answer, or a later one of a removal. *)
ReadFails ==
  /\ active.at \in {"begin", "out", "outRead", "after"} /\ Strike(1) /\ Finish("failed")
  /\ IF active.at \in {"out", "outRead"} THEN Undone ELSE UNCHANGED spoilt
  /\ UNCHANGED <<frigate, loaded, waiting, data, store, request, author, shown, lost, stale, crashes>>

----------------------------------------------------------------------------
(* Adding *)

BeginAdd ==
  LET r == request[active.op] IN
  /\ At("begin") /\ Kind = "add" /\ Calm
  /\ \E config \in {file} \cup cached :
       /\ Read(config)
       /\ IF \E k \in Key : r.host \in CameraHosts(config, k)
          THEN Finish("failed") /\ UNCHANGED <<shown, stale>>
          ELSE /\ CameraKeys(config) # {}
               /\ LET k == CameraKey(config) IN
                  /\ active' = [active EXCEPT !.at = "streams", !.key = k, !.config = config]
                  /\ shown' = shown \ {k}
                  /\ stale' = IF Has(file, k) THEN stale \cup {active.op} ELSE stale
               /\ UNCHANGED jobs
  /\ UNCHANGED <<file, running, live, loaded, waiting, data, store, request, author, lost, spoilt,
                 crashes>>

(* The camera answers and has a codec for recording, or not; without go2rtc *)
(* Frigate reads the camera directly.                                       *)
CheckStreams ==
  /\ At("streams")
  /\ \/ Calm /\ Finish("failed")
     \/ Calm /\ Go("addMain")
     \/ Strike(1) /\ Go("placeholder")
  /\ UNCHANGED <<frigate, loaded, waiting, data, store, request, seen, crashes>>

(* go2rtc may have created the stream when the check of its list fails. *)
AddStream ==
  LET s == <<active.key, IF At("addMain") THEN "main" ELSE "sub">>
      next == IF At("addMain") /\ request[active.op].sub THEN "addSub" ELSE "placeholder"
  IN
  /\ active.at \in {"addMain", "addSub"}
  /\ \/ /\ Calm /\ live' = live \cup {s} /\ UNCHANGED lost
        /\ active' = [active EXCEPT !.at = next, !.added = @ \cup {s}]
     \/ s \notin live /\ Strike(1) /\ UNCHANGED <<live, lost>>
        /\ active' = [active EXCEPT !.at = "undo"]
     \/ Strike(1) /\ live' = live \cup {s} /\ Unanswered /\ active' = [active EXCEPT !.at = "undo"]
  /\ author' = [author EXCEPT ![s] = active.op]
  /\ UNCHANGED <<file, cached, running, loaded, waiting, data, jobs, store, request, shown, spoilt,
                 stale, crashes>>

DropPlaceholder ==
  /\ At("placeholder") /\ Go("write")
  /\ IF Has(active.config, Placeholder)
     THEN \E answer \in {"ok", "refused", "lost"} :
            ConfigSet(Without(file, {Placeholder}, {}), answer)
     ELSE Calm /\ UNCHANGED file
  /\ UNCHANGED <<cached, running, live, loaded, waiting, data, store, request, seen, crashes>>

WriteCamera ==
  LET r == request[active.op]
      block == CameraConfig(active.key, r, active.added # {})
  IN
  /\ At("write")
  /\ \E answer \in {"ok", "refused", "lost"} :
       /\ ConfigSet(With(file, active.key, block, active.added, r.host), answer)
       /\ Go(IF answer = "ok" THEN "restart" ELSE "undo")
       /\ IF answer = "lost" THEN Unanswered ELSE UNCHANGED lost
       /\ author' = IF answer = "refused" THEN author
                    ELSE [author EXCEPT ![<<active.key, "camera">>] = active.op]
  /\ UNCHANGED <<cached, running, live, loaded, waiting, data, store, request, shown, spoilt, stale,
                 crashes>>

(* Before the restart only go2rtc is put back; its answers do not matter. *)
RemoveAdded ==
  /\ At("undo") /\ Finish("failed")
  /\ \E left \in SUBSET active.added :
       /\ live' = (live \ active.added) \cup (left \cap live)
       /\ IF left = {} THEN Calm /\ UNCHANGED spoilt ELSE Strike(1) /\ Undone
  /\ UNCHANGED <<file, cached, running, loaded, waiting, data, store, request, author, shown, lost,
                 stale, crashes>>

(* Frigate restarts with its file and go2rtc with the streams in it. *)
Restarted == running' = [k \in Key |-> Doing(file.cameras[k])] /\ live' = Streams(file)
(* Mutant: a failed restart ends the job and leaves the camera. *)
BrokenForGood == Finish("failed")
Broken == IF Kind = "add" THEN Go("out") ELSE Finish("failed")

Restart ==
  /\ At("restart")
  /\ \/ Calm /\ Restarted /\ Go("back")
     \/ Strike(1) /\ UNCHANGED <<running, live>> /\ Broken
     \/ Strike(1) /\ Restarted /\ Broken
  /\ UNCHANGED <<file, cached, loaded, waiting, data, store, request, seen, crashes>>

(* _wait_back sleeps first, for longer than nginx repeats an answer. *)
WaitBack ==
  /\ At("back") /\ cached' = {}
  /\ \/ Calm /\ Go("verify")
     \/ Strike(1) /\ Broken
  /\ UNCHANGED <<file, running, live, loaded, waiting, data, store, request, seen, crashes>>

(* Frames, or none within verify_seconds: the end of an addition only. *)
WaitFps ==
  /\ At("verify") /\ Calm
  /\ \/ /\ "loaded" \in running[active.key] /\ shown' = shown \cup {active.key}
        /\ Go(IF Kind = "add" THEN "record" ELSE "after")
     \/ UNCHANGED shown /\ Go(IF Kind = "add" THEN "out" ELSE "after")
  /\ UNCHANGED <<frigate, loaded, waiting, data, store, request, author, lost, spoilt, stale,
                 crashes>>

RecordManaged ==
  /\ At("record") /\ managed' = managed \cup {active.key}
  /\ \E ok \in BOOLEAN :
       /\ Save(list, managed', known, jobs, ok)
       /\ IF ok THEN Go("password") ELSE Finish("failed")
  /\ UNCHANGED <<frigate, loaded, waiting, list, known, request, seen, crashes>>

RememberAdded ==
  /\ At("password")
  /\ IF active.access
     THEN /\ known' = known \cup {request[active.op].host}
          /\ \E ok \in BOOLEAN : Save(list, managed, known', jobs, ok)
                               /\ Finish(IF ok THEN "completed" ELSE "failed")
     ELSE Calm /\ UNCHANGED <<known, store>> /\ Finish("completed")
  /\ UNCHANGED <<frigate, loaded, waiting, list, managed, request, seen, crashes>>

----------------------------------------------------------------------------
(* Taking out: a removal, and the undoing of an addition after its restart *)

TakenOut == IF Kind = "add" THEN Finish("failed") ELSE Go("forget")

(* Mutant: recording is not stopped before the camera is taken out. *)
ReadBeforeUndrained ==
  /\ At("out") /\ Calm
  /\ \E config \in {file} \cup cached :
       /\ Read(config)
       /\ active' = [active EXCEPT !.at = "outWrite", !.config = config]
       /\ stale' = IF config = file THEN stale ELSE stale \cup {active.op}
  /\ UNCHANGED <<file, running, live, loaded, waiting, data, jobs, store, request, author, shown,
                 lost, spoilt, crashes>>
ReadBefore ==
  /\ At("out") /\ Calm
  /\ \E config \in {file} \cup cached :
       /\ Read(config)
       /\ active' = [active EXCEPT !.at = IF Has(config, active.key) THEN "drain" ELSE "outWrite",
                                   !.config = config]
       /\ stale' = IF config = file THEN stale ELSE stale \cup {active.op}
  /\ UNCHANGED <<file, running, live, loaded, waiting, data, jobs, store, request, author, shown,
                 lost, spoilt, crashes>>

(* Recording stops live, if Frigate answers, and its cached segments go. *)
Drain ==
  /\ At("drain") /\ cached' = {} /\ Go("outRead")
  /\ \/ /\ Calm
        /\ file' = IF Has(file, active.key)
                   THEN [file EXCEPT !.cameras[active.key].record = FALSE] ELSE file
        /\ running' = [running EXCEPT ![active.key] = Live(@, "record", FALSE)]
     \/ Strike(1) /\ UNCHANGED <<file, running>>
  /\ UNCHANGED <<live, loaded, waiting, data, store, request, seen, crashes>>

ReadDrained ==
  /\ At("outRead") /\ Calm
  /\ \E config \in {file} \cup cached :
       Read(config) /\ active' = [active EXCEPT !.at = "outWrite", !.config = config]
  /\ UNCHANGED <<file, running, live, loaded, waiting, data, jobs, store, request, seen, crashes>>

WriteOut ==
  LET drop == IF Has(active.config, active.key) THEN {active.key} ELSE {}
      names == active.added \cap Streams(active.config)
  IN
  /\ At("outWrite")
  /\ \E answer \in {"ok", "refused", "lost"} :
       /\ IF drop = {} /\ names = {} THEN answer = "ok" /\ Calm /\ UNCHANGED file
          ELSE ConfigSet(Without(file, drop, names), answer)
       /\ IF answer = "ok"
          THEN /\ active' = [active EXCEPT !.at = "outStreams", !.drop = drop # {}]
               /\ UNCHANGED <<jobs, spoilt>>
          ELSE Finish("failed") /\ Undone
  /\ UNCHANGED <<cached, running, live, loaded, waiting, data, store, request, author, shown, lost,
                 stale, crashes>>

RemoveStreams ==
  /\ At("outStreams") /\ (IF active.drop THEN Go("outRestart") ELSE TakenOut)
  /\ \E left \in SUBSET active.added :
       /\ live' = (live \ active.added) \cup (left \cap live)
       /\ IF left = {} THEN Calm /\ UNCHANGED spoilt ELSE Strike(1) /\ Undone
  /\ UNCHANGED <<file, cached, running, loaded, waiting, data, store, request, author, shown, lost,
                 stale, crashes>>

RestartWithout ==
  /\ At("outRestart")
  /\ \/ Calm /\ Restarted /\ Go("outBack")
     \/ Strike(1) /\ UNCHANGED <<running, live>> /\ Finish("failed")
     \/ Strike(1) /\ Restarted /\ Finish("failed")
  /\ UNCHANGED <<file, cached, loaded, waiting, data, store, request, seen, crashes>>

WaitBackWithout ==
  /\ At("outBack") /\ cached' = {}
  /\ \/ Calm /\ TakenOut
     \/ Strike(1) /\ Finish("failed")
  /\ UNCHANGED <<file, running, live, loaded, waiting, data, store, request, seen, crashes>>

BeginRemove ==
  LET k == request[active.op].key IN
  /\ At("begin") /\ Kind = "remove" /\ Calm
  /\ \E config \in {file} \cup cached :
       /\ Read(config)
       /\ IF Has(config, k)
          THEN /\ active' = [active EXCEPT !.at = "access", !.key = k, !.added = Owned(config, k)]
               /\ UNCHANGED jobs
          ELSE Finish("failed")
  /\ UNCHANGED <<file, running, live, loaded, waiting, data, store, request, seen, crashes>>

(* The password is kept for a later addition, when the file shows it. *)
RememberRemoved ==
  /\ At("access")
  /\ \/ /\ (Strike(1) \/ (CameraHosts(file, active.key) = {} /\ Calm))
        /\ Go("out") /\ UNCHANGED <<known, store>>
     \/ \E h \in CameraHosts(file, active.key), ok \in BOOLEAN :
          /\ known' = known \cup {h} /\ Save(list, managed, known', jobs, ok)
          /\ IF ok THEN Go("out") ELSE Finish("failed")
  /\ UNCHANGED <<frigate, loaded, waiting, list, managed, request, seen, crashes>>

ForgetManaged ==
  /\ At("forget") /\ managed' = managed \ {active.key}
  /\ \E ok \in BOOLEAN :
       Save(list, managed', known, jobs, ok) /\ Finish(IF ok THEN "completed" ELSE "failed")
  /\ UNCHANGED <<frigate, loaded, waiting, list, known, request, seen, crashes>>

----------------------------------------------------------------------------
(* Settings *)

BeginConfigure ==
  LET r == request[active.op] IN
  /\ At("begin") /\ Kind = "configure" /\ Calm
  /\ \E config \in {file} \cup cached :
       /\ Read(config)
       /\ IF ~Has(config, r.key) THEN Finish("failed")
          ELSE /\ active' = [active EXCEPT !.key = r.key, !.todo = DOMAIN r.changes,
                      !.at = IF "record" \in DOMAIN r.changes /\ r.changes.record
                                /\ ~config.cameras[r.key].record
                             THEN "setAll" ELSE "set"]
               /\ UNCHANGED jobs
  /\ UNCHANGED <<file, running, live, loaded, waiting, data, store, request, seen, crashes>>

Set(changed) == [file EXCEPT !.cameras[active.key] = IF @ = NoCamera THEN @ ELSE changed]

(* Switching recording on takes a restart. *)
SetAll ==
  /\ At("setAll")
  /\ \E answer \in {"ok", "refused", "lost"} :
       /\ ConfigSet(Set(Settings(file.cameras[active.key], request[active.op].changes)), answer)
       /\ IF answer = "ok" THEN Go("restart") ELSE Finish("failed")
  /\ UNCHANGED <<cached, running, live, loaded, waiting, data, store, request, seen, crashes>>

(* Anything else is applied live, a section at a time, recording first. *)
SetSection ==
  LET name == IF "record" \in active.todo THEN "record" ELSE "detect"
      value == request[active.op].changes[name]
  IN
  /\ At("set") /\ active.todo # {}
  /\ \E answer \in {"ok", "refused", "lost"} :
       /\ ConfigSet(Set(Section(file.cameras[active.key], name, value)), answer)
       /\ running' = IF answer = "refused" THEN running
                     ELSE [running EXCEPT ![active.key] = Live(@, name, value)]
       /\ IF answer = "ok"
          THEN active' = [active EXCEPT !.todo = @ \ {name}] /\ UNCHANGED jobs
          ELSE Finish("failed")
  /\ UNCHANGED <<cached, live, loaded, waiting, data, store, request, seen, crashes>>

(* The last read goes past nginx, which keeps its answer. *)
ReadSettings ==
  /\ At("after") \/ (At("set") /\ active.todo = {})
  /\ Calm /\ cached' = {file} /\ Finish("completed")
  /\ UNCHANGED <<file, running, live, loaded, waiting, data, store, request, seen, crashes>>

----------------------------------------------------------------------------
(* Around the jobs *)

(* status(), asked for by the platform at any time; nginx forgets within 5 s, *)
(* less than a start of Home Assistant takes.                                 *)
Poll ==
  /\ cached = {} /\ cached' = {file}
  /\ UNCHANGED <<file, running, live, loaded, waiting, data, jobs, store, active, request, seen,
                 faults, crashes>>

Expire ==
  /\ cached # {} /\ cached' = {}
  /\ UNCHANGED <<file, running, live, loaded, waiting, data, jobs, store, active, request, seen,
                 faults, crashes>>

Crash ==
  /\ crashes < MaxCrashes /\ crashes' = crashes + 1
  /\ IF active = Idle THEN UNCHANGED spoilt ELSE Undone
  /\ loaded' = FALSE /\ waiting' = {} /\ list' = <<>> /\ managed' = {} /\ known' = {}
  /\ jobs' = [op \in Op |-> "none"] /\ active' = Idle /\ cached' = {}
  /\ UNCHANGED <<file, running, live, store, request, author, shown, lost, stale, faults>>

JobStep ==
  \/ SaveStarted \/ SaveFinished \/ ReadFails
  \/ BeginAdd \/ CheckStreams \/ AddStream \/ DropPlaceholder \/ WriteCamera \/ RemoveAdded
  \/ Restart \/ WaitBack \/ WaitFps \/ RecordManaged \/ RememberAdded
  \/ ReadBefore \/ Drain \/ ReadDrained \/ WriteOut \/ RemoveStreams
  \/ RestartWithout \/ WaitBackWithout
  \/ BeginRemove \/ RememberRemoved \/ ForgetManaged
  \/ BeginConfigure \/ SetAll \/ SetSection \/ ReadSettings

Next ==
  \/ \E op \in Op : Ask(op) \/ Load(op)
  \/ JobStep
  \/ Poll \/ Expire \/ Crash

Spec == Init /\ [][Next]_vars

----------------------------------------------------------------------------
(* Properties *)

TypeOK ==
  /\ file \in Config /\ cached \in SUBSET Config /\ live \subseteq Stream
  /\ running \in [Key -> SUBSET {"loaded", "record", "output", "detect"}]
  /\ loaded \in BOOLEAN /\ waiting \subseteq Op
  /\ managed \subseteq Key /\ known \subseteq Host
  /\ jobs \in [Op -> {"none", "running", "completed", "failed"}]
  /\ Len(list) <= MaxJobs /\ Len(store.list) <= MaxJobs
  /\ active.op \in Op \cup {NoOp} /\ active.key \in Key /\ active.added \subseteq Stream
  /\ author \in [Piece -> Op \cup {NoOp}] /\ shown \subseteq Key
  /\ {lost, spoilt, stale} \subseteq SUBSET Op

(* What is left of an addition: a camera that never delivered a frame, or  *)
(* one of its restreams.                                                   *)
There(p) == p \in live \cup Streams(file) \/ (p[2] = "camera" /\ Has(file, p[1]))
Leftover(p) == author[p] # NoOp /\ p[1] \notin shown /\ There(p)

(* frigate_bridge.py:6-8: a half-added camera never lingers.  It is there   *)
(* only while its job runs, unless the undoing itself failed: a call of it  *)
(* met an error or no answer, or Home Assistant stopped.                    *)
HalfAddedNeverLingers ==
  \A k \in Key : Leftover(<<k, "camera">>) => author[<<k, "camera">>] \in {active.op} \cup spoilt

(* What is left of an addition, the camera or a restream, is of the job that *)
(* runs, or of one that                                                      *)
(*   - was not answered when it created something (lost): before the restart *)
(*     only the restreams it knows of are removed, and only from go2rtc;     *)
(*   - could not undo, because a call of the undoing or of a later removal   *)
(*     failed or Home Assistant stopped (spoilt);                            *)
(*   - took a name, or undid, by an answer from before a write (stale).      *)
(* An addition of which none is true leaves nothing, however it ends.        *)
HalfAddedIsExplained ==
  \A p \in Piece : Leftover(p) => author[p] \in {active.op} \cup lost \cup spoilt \cup stale

(* Every camera finds the restreams it reads in the configuration: no job  *)
(* on one camera takes a stream that another one reads.                    *)
ReadStreamsExist ==
  \A k \in Key : file.cameras[k].reads \subseteq Streams(file)

(* A job that completes is true: an added camera is in the file, runs and  *)
(* delivered frames, a password it has is known; a removed one is in the   *)
(* file no more, and no restream under its name that an addition wrote and *)
(* left there, but for one that took the name by an old answer; settings   *)
(* are applied.  As long as no call failed before, the removed camera does *)
(* not run and recording switched on has its output.                       *)
Troubled == faults > 0 \/ crashes > 0
Fulfilled(op) ==
  LET r == request[op]
      k == active.key
  IN CASE r.kind = "add" ->
            /\ Has(file, k) /\ "loaded" \in running[k] /\ k \in shown
            /\ k \in managed' /\ (active.access => r.host \in known')
       [] r.kind = "remove" ->
            /\ ~Has(file, k) /\ k \notin managed'
            /\ \A s \in Own(k) \cap Streams(file) : author[s] \in {NoOp} \cup stale
            /\ running[k] = {} \/ Troubled
       [] r.kind = "configure" ->
            /\ \A f \in DOMAIN r.changes : Has(file, k) => file.cameras[k][f] = r.changes[f]
            /\ "record" \in DOMAIN r.changes /\ r.changes.record /\ running[k] # {}
                 => "output" \in running[k] \/ Troubled
CompletedIsTrue ==
  [][\A op \in Op : jobs[op] = "running" /\ jobs'[op] = "completed" => Fulfilled(op)]_vars

(* A camera whose recording still runs is not taken from a running Frigate: *)
(* its cached segments would stop the recording of every other camera.      *)
DrainedBeforeRemoval ==
  [][\A k \in Key : "record" \in running[k] /\ running'[k] = {} /\ k # Placeholder => faults' > 0]_vars
=============================================================================
