------------------------- MODULE FrigateBridge_proofs -------------------------
(***************************************************************************)
(* Proofs about FrigateBridge for any configurations, jobs, lost answers   *)
(* and stops.  That no camera loses a restream it reads depends on what a  *)
(* job may conclude from an old answer about the file as it is now, so the *)
(* invariant relates every cached answer to the file (IInv).  On it rest   *)
(* the bounds of the stored history (HistoryInv), what Frigate and go2rtc  *)
(* run (WorldInv), the recording that stops before its camera goes         *)
(* (DrainInv), what a job has done so far of what it will report           *)
(* (PromiseInv), whose the leavings of an addition are (LeftInv), and what  *)
(* a removal clears of them (GoneInv).                                     *)
(***************************************************************************)
EXTENDS FrigateBridge, TLAPS, WellFoundedInduction

Working == {"begin", "streams", "addMain", "addSub", "placeholder", "write", "undo", "restart",
            "back", "verify", "record", "password", "out", "drain", "outRead", "outWrite",
            "outStreams", "outRestart", "outBack", "forget", "access", "setAll", "set", "after"}
Active == [op : Op \cup {NoOp}, at : {"idle", "save", "end"} \cup Working, key : Key,
           added : SUBSET Stream, config : Config, access : BOOLEAN, drop : BOOLEAN,
           todo : SUBSET {"record", "detect"}]

TypeInv ==
  /\ file \in Config /\ cached \subseteq Config /\ active \in Active
  /\ request \in [Op -> Request]
  /\ active.at # "idle" => active.op \in Op
  /\ active.at \in {"save", "begin"} => active.added = {}

(* The stages that only one kind of job, or two, come to. *)
StageInv ==
  /\ active.at \in {"streams", "addMain", "addSub", "placeholder", "write", "undo", "record",
                    "password"} => Kind = "add"
  /\ active.at \in {"access", "forget"} => Kind = "remove"
  /\ active.at \in {"restart", "back", "verify"} => Kind \in {"add", "configure"}
  /\ active.at \in {"out", "drain", "outRead", "outWrite", "outStreams", "outRestart", "outBack"} =>
       Kind \in {"add", "remove"}
  /\ active.at \in {"setAll", "set"} => Kind = "configure"
  /\ active.at = "set" => active.todo \subseteq DOMAIN request[active.op].changes

(* What the file can have become of an answer: a camera reads what it read, *)
(* or its own streams; and a stream is there that was, or it is new and so  *)
(* is its camera.                                                           *)
Became(old, new) ==
  /\ \A k \in Key : \A s \in new.cameras[k].reads : s[1] = k \/ s \in old.cameras[k].reads
  /\ \A j, k \in Key : \A s \in old.cameras[j].reads :
       j # k /\ s[1] = k /\ s \in new.cameras[k].reads => s \in old.cameras[k].reads
  /\ \A s \in Stream : new.streams[s] # NoHost =>
       old.streams[s] # NoHost \/ (s[1] # Placeholder /\ new.cameras[s[1]] # NoCamera)

FileInv == Works(file) /\ \A c \in cached : Works(c) /\ Became(c, file)

(* No other camera reads a stream of the name a job has chosen, and one is  *)
(* only there together with the camera.                                     *)
Free(config, k) ==
  /\ \A j \in Key \ {k} : config.cameras[j].reads \cap Own(k) = {}
  /\ \A s \in Own(k) : config.streams[s] # NoHost => config.cameras[k] # NoCamera

Adding == {"streams", "addMain", "addSub", "placeholder", "write", "undo", "restart", "back",
           "verify", "record", "password"}
Out == {"out", "drain", "outRead", "outWrite"}
AddInv ==
  active.at \in Adding \cup Out /\ Kind = "add" =>
    /\ active.key # Placeholder /\ active.added \subseteq Own(active.key)
    /\ \A c \in cached \cup {file} : Free(c, active.key)
    /\ active.at \in {"streams", "addMain"} => active.added = {}
    /\ At("addSub") => active.added = {<<active.key, "main">>} /\ request[active.op].sub
    /\ active.at \in {"placeholder", "write"} =>
         active.added \in {{}, Wanted(active.key, request[active.op])}

(* No other camera reads what a removal takes along. *)
RemoveInv ==
  active.at \in {"access"} \cup Out /\ Kind = "remove" =>
    /\ \A k \in Key \ {active.key} : active.added \cap file.cameras[k].reads = {}
    /\ active.at \in {"access", "out"} =>
         \A c \in cached : c = file \/ Has(c, active.key)

(* What a job knows when it takes a camera out. *)
OutInv ==
  /\ At("outRead") => cached \subseteq {file}
  /\ At("outWrite") /\ Has(active.config, active.key) =>
       active.config = file /\ cached \subseteq {file}
  /\ At("outWrite") /\ ~Has(active.config, active.key) =>
       \A s \in active.added \cap file.cameras[active.key].reads : active.config.streams[s] = NoHost

(* The inductive invariant. *)
IInv == TypeInv /\ StageInv /\ FileInv /\ AddInv /\ RemoveInv /\ OutInv
----------------------------------------------------------------------------
(* Names and configurations *)

LEMMA MinIn == ASSUME NEW S \in SUBSET Nat, S # {} PROVE Min(S) \in S
<1> DEFINE Less == {pair \in Nat \X Nat : pair[1] < pair[2]}
<1>1. IsWellFoundedOn(Less, Nat)
  BY NatLessThanWellFounded DEF OpToRel
<1>2. \A x, y \in Nat : y < x => <<y, x>> \in Less
  OBVIOUS
<1> HIDE DEF Less
<1>3. PICK x \in S : \A y \in S : <<y, x>> \notin Less
  BY <1>1, WFMin
<1>4. ASSUME NEW y \in S PROVE x <= y
  <2>1. x \in Nat /\ y \in Nat /\ ~(y < x)
    BY <1>2, <1>3
  <2> QED
    BY <2>1
<1> QED
  BY <1>4 DEF Min

(* A chosen name is free: nobody has it and no stream does. *)
LEMMA ChosenName ==
  ASSUME NEW config, CameraKeys(config) # {}
  PROVE  /\ CameraKey(config) \in Key \ {Placeholder} /\ ~Has(config, CameraKey(config))
         /\ \A s \in Own(CameraKey(config)) : s \notin Streams(config)
<1>1. CameraKeys(config) \in SUBSET Nat
  BY FrigateAssumption DEF CameraKeys, Key
<1>2. CameraKey(config) \in CameraKeys(config)
  BY <1>1, MinIn DEF CameraKey
<1> QED
  BY <1>2 DEF CameraKeys

LEMMA OwnStreams ==
  ASSUME NEW k \in Key
  PROVE  Own(k) \subseteq Stream /\ \A s \in Own(k) : s[1] = k
  BY DEF Own, Stream

LEMMA BecameItself == ASSUME NEW config PROVE Became(config, config)
  BY DEF Became

(* Cameras and streams taken out, when no other camera reads the streams. *)
Removal(f, ks, names) ==
  /\ Works(f) /\ ks \in SUBSET Key /\ names \in SUBSET Stream
  /\ \A k \in Key \ ks : names \cap f.cameras[k].reads = {}

LEMMA WithoutWorks ==
  ASSUME NEW f, NEW ks, NEW names, Removal(f, ks, names)
  PROVE  LET g == Without(f, ks, names) IN
         /\ Works(g)
         /\ \A k \in Key : g.cameras[k].reads \subseteq f.cameras[k].reads
         /\ \A s \in Stream : g.streams[s] # NoHost => f.streams[s] # NoHost
         /\ \A k \in Key \ ks : g.cameras[k] = f.cameras[k]
<1> DEFINE g == Without(f, ks, names)
<1> USE DEF Removal
<1>1. f \in Config /\ NoCamera \in Camera /\ NoCamera.reads = {} /\ NoCamera.live = {}
  BY DEF Works, NoCamera, Camera
<1>2. /\ g = [cameras |-> g.cameras, streams |-> g.streams]
      /\ g.cameras = [k \in Key |-> IF k \in ks THEN NoCamera ELSE f.cameras[k]]
      /\ g.streams = [s \in Stream |-> IF s \in names THEN NoHost ELSE f.streams[s]]
  BY DEF Without
<1> HIDE DEF g
<1>3. g.cameras \in [Key -> Camera] /\ g.streams \in [Stream -> Host \cup {NoHost}]
  BY <1>1, <1>2 DEF Config
<1>4. g \in Config
  BY <1>2, <1>3 DEF Config
<1>5. \A k \in Key : f.cameras[k].reads \subseteq Stream
  BY <1>1 DEF Config, Camera
<1>6. Works(g)
  BY <1>1, <1>2, <1>4, <1>5 DEF Works
<1> QED
  BY <1>1, <1>2, <1>6 DEF g

(* A camera written with streams of its own, or with none. *)
Addition(f, k, camera, names, h) ==
  /\ Works(f) /\ k \in Key /\ camera \in Camera /\ names \subseteq Own(k) /\ h \in Host
  /\ camera.reads = names /\ camera.live = names
  /\ camera.host # NoHost \/ names # {}

LEMMA WithWorks ==
  ASSUME NEW f, NEW k, NEW camera, NEW names, NEW h, Addition(f, k, camera, names, h)
  PROVE  LET g == With(f, k, camera, names, h) IN
         /\ Works(g) /\ g.cameras[k] = camera /\ camera # NoCamera
         /\ \A j \in Key \ {k} : g.cameras[j] = f.cameras[j]
         /\ \A s \in Stream : g.streams[s] # NoHost => f.streams[s] # NoHost \/ s \in names
<1> DEFINE g == With(f, k, camera, names, h)
<1> USE DEF Addition
<1>1. f \in Config /\ h # NoHost /\ names \subseteq Stream
  BY FrigateAssumption, OwnStreams DEF Works
<1>2. /\ g = [cameras |-> g.cameras, streams |-> g.streams]
      /\ g.cameras = [f.cameras EXCEPT ![k] = camera]
      /\ g.streams = [s \in Stream |-> IF s \in names THEN h ELSE f.streams[s]]
  BY DEF With
<1> HIDE DEF g
<1>3. g.cameras \in [Key -> Camera] /\ g.streams \in [Stream -> Host \cup {NoHost}]
  BY <1>1, <1>2 DEF Config
<1>4. g \in Config
  BY <1>2, <1>3 DEF Config
<1>5. \A j \in Key : g.cameras[j] = IF j = k THEN camera ELSE f.cameras[j]
  BY <1>1, <1>2 DEF Config
<1>6. \A j \in Key : f.cameras[j].reads \subseteq Stream
  BY <1>1 DEF Config, Camera
<1>7. Works(g)
  BY <1>1, <1>2, <1>4, <1>5, <1>6 DEF Works
<1>8. camera # NoCamera
  BY DEF NoCamera
<1> QED
  BY <1>1, <1>2, <1>5, <1>7, <1>8 DEF g

(* Another setting of a camera: its inputs and streams stay. *)
Setting(f, k, camera, g) ==
  /\ Works(f) /\ k \in Key /\ camera \in Camera /\ g = [f EXCEPT !.cameras[k] = camera]
  /\ camera.host = f.cameras[k].host /\ camera.reads = f.cameras[k].reads
  /\ camera.live = f.cameras[k].live /\ (f.cameras[k] = NoCamera => camera = NoCamera)

LEMMA SetWorks ==
  ASSUME NEW f, NEW k, NEW camera, NEW g, Setting(f, k, camera, g)
  PROVE  /\ Works(g) /\ g.streams = f.streams
         /\ \A j \in Key : g.cameras[j].reads = f.cameras[j].reads
         /\ \A j \in Key \ {Placeholder} : f.cameras[j] # NoCamera => g.cameras[j] # NoCamera
<1> USE DEF Setting
<1>1. f \in Config
  BY DEF Works
<1>2. /\ g = [cameras |-> g.cameras, streams |-> g.streams]
      /\ g.cameras = [f.cameras EXCEPT ![k] = camera] /\ g.streams = f.streams
  BY <1>1 DEF Config
<1>3. g.cameras \in [Key -> Camera]
  BY <1>1, <1>2 DEF Config
<1>4. g \in Config
  BY <1>1, <1>2, <1>3 DEF Config
<1>5. \A j \in Key : g.cameras[j] = IF j = k THEN camera ELSE f.cameras[j]
  BY <1>1, <1>2 DEF Config
<1>6. k # Placeholder /\ f.cameras[k] # NoCamera => camera # NoCamera
  BY DEF Works, NoCamera
<1>7. Works(g)
  BY <1>2, <1>4, <1>5, <1>6 DEF Works
<1> QED
  BY <1>2, <1>5, <1>6, <1>7
----------------------------------------------------------------------------
(* Initial state and steps *)

LEMMA IdleType == Idle \in Active /\ NoConfig \in Config
<1>1. NoConfig \in Config
  BY DEF NoConfig, Config, NoCamera, Camera
<1> QED
  BY <1>1, FrigateAssumption DEF Idle, Active, Key, Placeholder

LEMMA FrigateInit == Init => IInv
<1> SUFFICES ASSUME Init PROVE IInv
  OBVIOUS
<1>1. Works(file) /\ request \in [Op -> Request] /\ cached = {} /\ active = Idle
  BY FrigateAssumption DEF Init
<1>2. TypeInv
  BY <1>1, IdleType DEF TypeInv, Works, Idle
<1>3. StageInv /\ AddInv /\ RemoveInv /\ OutInv
  BY <1>1 DEF StageInv, AddInv, RemoveInv, OutInv, At, Idle, Adding, Out
<1> QED
  BY <1>1, <1>2, <1>3 DEF IInv, FileInv

(* Answers about the file as it is are as good as those before. *)
LEMMA SameFile ==
  ASSUME FileInv, file' = file, cached' \subseteq cached \cup {file}
  PROVE  FileInv'
  BY BecameItself DEF FileInv

(* From each of these stages a job comes to the other with what it knew. *)
Moves == {<<"streams", "addMain">>, <<"streams", "placeholder">>, <<"placeholder", "write">>,
          <<"restart", "back">>, <<"restart", "out">>, <<"back", "verify">>, <<"back", "out">>,
          <<"verify", "record">>, <<"verify", "out">>, <<"record", "password">>,
          <<"access", "out">>}
Elsewhere == {"idle", "save", "begin", "end", "after", "setAll", "set", "outStreams", "outRestart",
              "outBack", "forget"}

(* A step that leaves the file alone, and takes a job elsewhere or on. *)
LEMMA Quiet ==
  ASSUME IInv, TypeInv', StageInv', file' = file, request' = request,
         cached' \subseteq cached \cup {file},
         \/ active' = active
         \/ active'.at \in Elsewhere
         \/ \E at \in Working :
              <<active.at, at>> \in Moves /\ active' = [active EXCEPT !.at = at]
  PROVE  IInv'
<1>1. FileInv'
  BY SameFile DEF IInv
<1>2. CASE active' = active
  <2>1. AddInv' /\ RemoveInv' /\ OutInv'
    BY <1>2 DEF IInv, AddInv, RemoveInv, OutInv, Kind, At
  <2> QED
    BY <1>1, <2>1 DEF IInv
<1>3. CASE active'.at \in Elsewhere
  <2>1. AddInv' /\ RemoveInv' /\ OutInv'
    BY <1>3 DEF AddInv, RemoveInv, OutInv, At, Elsewhere, Adding, Out
  <2> QED
    BY <1>1, <2>1 DEF IInv
<1>4. ASSUME NEW at \in Working, <<active.at, at>> \in Moves,
             active' = [active EXCEPT !.at = at]
      PROVE  IInv'
  <2>1. /\ active'.at = at /\ active'.op = active.op /\ active'.key = active.key
        /\ active'.added = active.added /\ Kind' = Kind
    BY <1>4 DEF IInv, TypeInv, Active, Kind
  <2>2. AddInv'
    <3> SUFFICES ASSUME (active.at \in Adding \cup Out)', Kind = "add" PROVE AddInv'
      BY <2>1 DEF AddInv
    <3>1. active.at \in Adding \cup Out
      BY <1>4 DEF IInv, StageInv, Moves, Adding, Out
    <3>2. \A c \in (cached \cup {file})' : Free(c, active.key)
      BY <3>1 DEF IInv, AddInv
    <3>3. active'.at \notin {"addSub"} /\ (active'.at \in {"streams", "addMain", "placeholder"} => active.added = {})
      BY <1>4, <3>1 DEF IInv, AddInv, Moves
    <3>4. active'.at = "write" => active.added \in {{}, Wanted(active.key, request[active.op])}
      BY <1>4, <3>1 DEF IInv, AddInv, Moves
    <3> QED
      BY <2>1, <3>1, <3>2, <3>3, <3>4 DEF IInv, AddInv, At
  <2>3. RemoveInv'
    BY <1>4, <2>1 DEF IInv, RemoveInv, StageInv, At, Moves, Adding, Out
  <2>4. OutInv'
    BY <1>4, <2>1 DEF OutInv, At, Moves
  <2> QED
    BY <1>1, <2>2, <2>3, <2>4 DEF IInv
<1> QED
  BY <1>2, <1>3, <1>4
----------------------------------------------------------------------------
(* The steps that leave the file alone *)

(* A job that goes on, as above, keeps its types and its stage's kind. *)
LEMMA Going ==
  ASSUME IInv, active.at # "idle", file' = file, request' = request,
         cached' \subseteq cached \cup {file}, NEW at, active' = [active EXCEPT !.at = at],
         \/ at \in {"end", "after"} \/ (at = "begin" /\ active.at = "save")
         \/ active.at \in {"outStreams", "outRestart"} /\ at \in {"outRestart", "outBack"}
         \/ at = "forget" /\ Kind = "remove"
         \/ <<active.at, at>> \in Moves
            /\ (at \in {"out", "record"} => Kind = "add" \/ active.at = "access")
  PROVE  IInv'
<1>1. at \in Working \cup {"end"} /\ at # "idle"
  BY DEF Moves, Working
<1>2. active \in Active /\ active.op \in Op /\ file \in Config /\ cached \subseteq Config
  BY DEF IInv, TypeInv
<1>3. active' \in Active /\ active'.at = at /\ active'.op = active.op
      /\ active'.added = active.added
  BY <1>1, <1>2 DEF Active
<1>4. TypeInv'
  BY <1>2, <1>3 DEF IInv, TypeInv, Moves
<1>5. StageInv'
  BY <1>3 DEF IInv, StageInv, Kind, Moves
<1>6. active'.at \in Elsewhere \/ (at \in Working /\ <<active.at, at>> \in Moves)
  BY <1>1, <1>3 DEF Elsewhere
<1> QED
  BY <1>4, <1>5, <1>6, Quiet

(* No job, or a job at its first save. *)
LEMMA Starting ==
  ASSUME IInv, file' = file, request' = request, cached' \subseteq cached \cup {file},
         active' \in Active, active'.at = "idle" \/ (active'.at = "save" /\ active'.op \in Op /\ active'.added = {})
  PROVE  IInv'
<1>1. TypeInv'
  BY DEF IInv, TypeInv
<1>2. StageInv'
  BY DEF StageInv
<1> QED
  BY <1>1, <1>2, Quiet DEF Elsewhere

LEMMA StandingStill ==
  ASSUME IInv, file' = file, request' = request, cached' \subseteq cached \cup {file},
         active' = active
  PROVE  IInv'
<1>1. TypeInv' /\ StageInv'
  BY DEF IInv, TypeInv, StageInv, Kind
<1> QED
  BY <1>1, Quiet

(* A request, at once or after the data is read. *)
LEMMA StartSteps ==
  ASSUME IInv, NEW op \in Op, Ask(op) \/ Load(op)
  PROVE  IInv'
<1>1. /\ file' = file /\ cached' = cached /\ request' = request
      /\ active' = active \/ active' = [Idle EXCEPT !.op = op, !.at = "save",
                               !.access = request[op].kind = "add"
                                          /\ (request[op].typed \/ request[op].host \in known)]
         \/ active' = [Idle EXCEPT !.op = op, !.at = "save",
                               !.access = request[op].kind = "add"
                                          /\ (request[op].typed \/ request[op].host \in store.known)]
  BY DEF Ask, Load, Start, frigate
<1>2. ASSUME NEW access \in BOOLEAN
      PROVE  LET a == [Idle EXCEPT !.op = op, !.at = "save", !.access = access] IN
             a \in Active /\ a.at = "save" /\ a.op = op /\ a.added = {}
  BY IdleType DEF Active, Idle
<1>3. request[op].kind = "add" => request[op].typed \in BOOLEAN
  BY DEF IInv, TypeInv, Request
<1>4. ASSUME NEW c
      PROVE  (request[op].kind = "add" /\ (request[op].typed \/ request[op].host \in c)) \in BOOLEAN
  OBVIOUS
<1> QED
  BY <1>1, <1>2, <1>4, Starting, StandingStill

LEMMA SaveSteps == ASSUME IInv, SaveStarted \/ SaveFinished PROVE IInv'
<1>1. CASE SaveStarted
  BY <1>1, Going DEF SaveStarted, Go, At, frigate
<1>2. CASE SaveFinished
  BY <1>2, Starting, IdleType DEF SaveFinished, Idle, frigate
<1> QED
  BY <1>1, <1>2

LEMMA FailingSteps == ASSUME IInv, ReadFails \/ RemoveAdded PROVE IInv'
  BY Going DEF ReadFails, RemoveAdded, Finish, At, frigate

LEMMA CheckStep == ASSUME IInv, CheckStreams PROVE IInv'
  BY Going DEF CheckStreams, Finish, Go, At, Moves, frigate

LEMMA RestartSteps ==
  ASSUME IInv, Restart \/ WaitBack \/ WaitFps \/ RestartWithout \/ WaitBackWithout
  PROVE  IInv'
<1>1. CASE Restart
  BY <1>1, Going DEF Restart, Broken, Restarted, Finish, Go, At, Moves
<1>2. CASE WaitBack
  BY <1>2, Going DEF WaitBack, Broken, Finish, Go, At, Moves
<1>3. CASE WaitFps
  BY <1>3, Going DEF WaitFps, Go, At, Moves, frigate
<1>4. CASE RestartWithout
  BY <1>4, Going DEF RestartWithout, Restarted, Finish, Go, At
<1>5. CASE WaitBackWithout
  <2>1. active'= [active EXCEPT !.at = "end"] \/ (active' = [active EXCEPT !.at = "forget"] /\ Kind = "remove")
    BY <1>5 DEF WaitBackWithout, TakenOut, Finish, Go, IInv, StageInv, At
  <2> QED
    BY <1>5, <2>1, Going DEF WaitBackWithout, At
<1> QED
  BY <1>1, <1>2, <1>3, <1>4, <1>5

LEMMA RecordSteps ==
  ASSUME IInv, RecordManaged \/ RememberAdded \/ RememberRemoved \/ ForgetManaged \/ RemoveStreams
  PROVE  IInv'
<1>1. CASE RecordManaged
  BY <1>1, Going DEF RecordManaged, Finish, Go, At, Moves, frigate
<1>2. CASE RememberAdded
  BY <1>2, Going DEF RememberAdded, Finish, At, frigate
<1>3. CASE RememberRemoved
  BY <1>3, Going DEF RememberRemoved, Finish, Go, At, Moves, frigate
<1>4. CASE ForgetManaged
  BY <1>4, Going DEF ForgetManaged, Finish, At, frigate
<1>5. CASE RemoveStreams
  <2>1. \/ active' = [active EXCEPT !.at = "end"] \/ active' = [active EXCEPT !.at = "outRestart"]
        \/ (active' = [active EXCEPT !.at = "forget"] /\ Kind = "remove")
    BY <1>5 DEF RemoveStreams, TakenOut, Finish, Go, IInv, StageInv, At
  <2> QED
    BY <1>5, <2>1, Going DEF RemoveStreams, At
<1> QED
  BY <1>1, <1>2, <1>3, <1>4, <1>5

LEMMA OtherSteps ==
  ASSUME IInv, Poll \/ Expire \/ Crash \/ UNCHANGED vars
  PROVE  IInv'
<1>1. CASE Poll \/ Expire \/ UNCHANGED vars
  BY <1>1, StandingStill DEF Poll, Expire, vars, frigate
<1>2. CASE Crash
  BY <1>2, Starting, IdleType DEF Crash, Idle
<1> QED
  BY <1>1, <1>2
----------------------------------------------------------------------------
(* Adding a camera *)

LEMMA Away ==
  ASSUME TypeInv', StageInv', FileInv', active'.at \in Elsewhere
  PROVE  IInv'
<1>1. AddInv' /\ RemoveInv' /\ OutInv'
  BY DEF AddInv, RemoveInv, OutInv, At, Elsewhere, Adding, Out
<1> QED
  BY <1>1 DEF IInv

(* A name that an answer shows free is free in the file as well. *)
LEMMA StillFree ==
  ASSUME Works(file), NEW c, Works(c), Became(c, file),
         NEW k \in Key, ~Has(c, k), \A s \in Own(k) : s \notin Streams(c)
  PROVE  Free(c, k) /\ Free(file, k)
<1>1. \A s \in Own(k) : s \in Stream /\ s[1] = k /\ c.streams[s] = NoHost
  BY OwnStreams DEF Streams
<1>2. \A j \in Key : \A s \in c.cameras[j].reads : c.streams[s] # NoHost
  BY DEF Works
<1>3. Free(c, k)
  BY <1>1, <1>2 DEF Free
<1>4. ASSUME NEW j \in Key \ {k}, NEW s \in file.cameras[j].reads, s \in Own(k) PROVE FALSE
  BY <1>1, <1>2, <1>4 DEF Became
<1>5. ASSUME NEW s \in Own(k), file.streams[s] # NoHost PROVE file.cameras[k] # NoCamera
  BY <1>1, <1>5 DEF Became
<1> QED
  BY <1>3, <1>4, <1>5 DEF Free

LEMMA BeginAddStep == ASSUME IInv, BeginAdd PROVE IInv'
<1> USE DEF BeginAdd
<1>1. PICK config \in {file} \cup cached :
        /\ Read(config)
        /\ \/ Finish("failed")
           \/ /\ CameraKeys(config) # {}
              /\ active' = [active EXCEPT !.at = "streams", !.key = CameraKey(config),
                                          !.config = config]
  BY Zenon
<1>2. cached' = {config} /\ file' = file /\ request' = request /\ At("begin") /\ Kind = "add"
  BY <1>1 DEF Read
<1>3. CASE Finish("failed")
  BY <1>2, <1>3, Going DEF Finish, At
<1>4. CASE /\ CameraKeys(config) # {}
           /\ active' = [active EXCEPT !.at = "streams", !.key = CameraKey(config),
                                       !.config = config]
  <2> DEFINE k == CameraKey(config)
  <2>1. Works(file) /\ Works(config) /\ Became(config, file)
    BY BecameItself DEF IInv, FileInv
  <2>2. k \in Key \ {Placeholder} /\ Free(config, k) /\ Free(file, k)
    BY <1>4, <2>1, ChosenName, StillFree
  <2> HIDE DEF k
  <2>3. active \in Active /\ active.op \in Op /\ config \in Config
    BY <1>2, <2>1 DEF IInv, TypeInv, At, Works
  <2>4. /\ active' \in Active /\ active'.at = "streams" /\ active'.op = active.op
        /\ active'.key = k /\ active'.added = active.added
    BY <1>4, <2>2, <2>3 DEF Active, Working, k
  <2>5. TypeInv' /\ StageInv'
    BY <1>2, <2>3, <2>4 DEF IInv, TypeInv, StageInv, Kind
  <2>6. active.added = {}
    BY <1>2 DEF IInv, TypeInv, At
  <2>7. AddInv' /\ RemoveInv' /\ OutInv'
    BY <1>2, <2>2, <2>4, <2>6 DEF AddInv, RemoveInv, OutInv, At, Kind, Out, Adding
  <2> QED
    BY <1>2, <2>5, <2>7, SameFile DEF IInv
<1> QED
  BY <1>1, <1>3, <1>4

(* A step of an addition up to its write, given what it adds. *)
LEMMA AddStreamStep == ASSUME IInv, AddStream PROVE IInv'
<1> DEFINE s == <<active.key, IF At("addMain") THEN "main" ELSE "sub">>
           r == request[active.op]
<1> USE DEF AddStream
<1>1. /\ active.at \in {"addMain", "addSub"} /\ Kind = "add"
      /\ active \in Active /\ active.op \in Op /\ r \in Request /\ r.sub \in BOOLEAN
    BY DEF IInv, TypeInv, StageInv, Kind, Request
<1>2. /\ file' = file /\ cached' = cached /\ request' = request
      /\ \/ \E next \in {"addSub", "placeholder"} :
              /\ next = "addSub" <=> At("addMain") /\ r.sub
              /\ active' = [active EXCEPT !.at = next, !.added = @ \cup {s}]
         \/ active' = [active EXCEPT !.at = "undo"]
  OBVIOUS
<1>3. /\ active.key \in Key \ {Placeholder} /\ s \in Own(active.key)
      /\ active.added \subseteq Own(active.key)
      /\ \A c \in cached \cup {file} : Free(c, active.key)
      /\ At("addMain") => active.added = {}
      /\ At("addSub") => active.added = {<<active.key, "main">>} /\ r.sub
  BY <1>1 DEF IInv, AddInv, Adding, Own, Active, At
<1>4. active.added \cup {s} \subseteq Own(active.key) /\ Own(active.key) \subseteq Stream
  BY <1>3, OwnStreams
<1>5. /\ active' \in Active /\ active'.at \in {"addSub", "placeholder", "undo"}
      /\ active'.op = active.op /\ active'.key = active.key
      /\ active'.added \subseteq Own(active.key)
  <2> HIDE DEF s
  <2>1. active.added \cup {s} \in SUBSET Stream
    BY <1>4
  <2>2. ASSUME NEW next \in {"addSub", "placeholder"},
               active' = [active EXCEPT !.at = next, !.added = active.added \cup {s}]
        PROVE  /\ active' \in Active /\ active'.at = next /\ active'.op = active.op
               /\ active'.key = active.key /\ active'.added = active.added \cup {s}
    BY <1>1, <2>1, <2>2 DEF Active, Working
  <2>3. ASSUME active' = [active EXCEPT !.at = "undo"]
        PROVE  /\ active' \in Active /\ active'.at = "undo" /\ active'.op = active.op
               /\ active'.key = active.key /\ active'.added = active.added
    BY <1>1, <2>3 DEF Active, Working
  <2>4. \/ \E next \in {"addSub", "placeholder"} :
             active' = [active EXCEPT !.at = next, !.added = active.added \cup {s}]
        \/ active' = [active EXCEPT !.at = "undo"]
    BY <1>2
  <2> QED
    BY <1>3, <1>4, <2>2, <2>3, <2>4
<1>6. TypeInv' /\ StageInv'
  BY <1>1, <1>2, <1>5 DEF IInv, TypeInv, StageInv, Kind
<1>7. ~At("undo")' => active'.added = active.added \cup {s}
  BY <1>1, <1>2 DEF Active, At
<1>8. At("addSub")' => At("addMain") /\ r.sub
  BY <1>1, <1>2 DEF Active, At
<1>9. At("placeholder")' => (At("addMain") /\ ~r.sub) \/ At("addSub")
  BY <1>1, <1>2 DEF Active, At
<1>10. At("placeholder")' => active'.added = Wanted(active.key, r)
  BY <1>3, <1>7, <1>9 DEF Wanted, At
<1>11. At("addSub")' => active'.added = {<<active.key, "main">>}
  BY <1>3, <1>7, <1>8 DEF At
<1>12. AddInv'
  BY <1>2, <1>3, <1>5, <1>8, <1>10, <1>11 DEF AddInv, At
<1>13. RemoveInv' /\ OutInv'
  BY <1>5 DEF RemoveInv, OutInv, At, Out
<1> QED
  BY <1>2, <1>6, <1>12, <1>13, SameFile DEF IInv

(* A write that only takes the sample camera out. *)
LEMMA DropPlaceholderStep == ASSUME IInv, DropPlaceholder PROVE IInv'
<1> DEFINE g == Without(file, {Placeholder}, {})
<1> USE DEF DropPlaceholder
<1>1. /\ At("placeholder") /\ cached' = cached /\ request' = request
      /\ active' = [active EXCEPT !.at = "write"]
      /\ file' \in {file, g}
  BY DEF ConfigSet, Go
<1>2. CASE file' = file
  BY <1>1, <1>2, Going DEF At, Moves
<1>3. CASE file' = g
  <2>1. Placeholder \in Key /\ Works(file)
    BY FrigateAssumption DEF IInv, FileInv, Placeholder, Key
  <2>2. /\ Works(g)
        /\ \A k \in Key : g.cameras[k].reads \subseteq file.cameras[k].reads
        /\ \A s \in Stream : g.streams[s] # NoHost => file.streams[s] # NoHost
        /\ \A k \in Key \ {Placeholder} : g.cameras[k] = file.cameras[k]
    <3>1. Removal(file, {Placeholder}, {})
      BY <2>1 DEF Removal
    <3> QED
      BY <3>1, WithoutWorks
  <2> HIDE DEF g
  <2>3. \A c \in cached : Became(c, g)
    BY <2>2 DEF IInv, FileInv, Became, Stream
  <2>4. FileInv'
    BY <1>1, <1>3, <2>2, <2>3 DEF IInv, FileInv
  <2>5. active \in Active /\ active.op \in Op /\ Kind = "add"
    BY <1>1 DEF IInv, TypeInv, StageInv, At
  <2>6. /\ active' \in Active /\ active'.at = "write" /\ active'.op = active.op
        /\ active'.key = active.key /\ active'.added = active.added
    BY <1>1, <2>5 DEF Active, Working
  <2>7. TypeInv' /\ StageInv'
    BY <1>1, <1>3, <2>2, <2>5, <2>6 DEF IInv, TypeInv, StageInv, Kind, Works
  <2>8. /\ active.key \in Key \ {Placeholder} /\ active.added \subseteq Own(active.key)
        /\ \A c \in cached \cup {file} : Free(c, active.key)
        /\ active.added \in {{}, Wanted(active.key, request[active.op])}
    BY <1>1, <2>5 DEF IInv, AddInv, Adding, At, Active
  <2>9. Free(g, active.key)
    BY <2>2, <2>8, OwnStreams DEF Free
  <2>10. AddInv'
    BY <1>1, <1>3, <2>6, <2>8, <2>9 DEF AddInv, At
  <2>11. RemoveInv' /\ OutInv'
    BY <2>6 DEF RemoveInv, OutInv, At, Out
  <2> QED
    BY <2>4, <2>7, <2>10, <2>11 DEF IInv
<1> QED
  BY <1>1, <1>2, <1>3

(* The camera and its streams are written under a name that is free. *)
LEMMA WriteCameraStep == ASSUME IInv, WriteCamera PROVE IInv'
<1> DEFINE r == request[active.op]
           k == active.key
           block == CameraConfig(k, r, active.added # {})
           g == With(file, k, block, active.added, r.host)
<1> USE DEF WriteCamera
<1>1. /\ At("write") /\ cached' = cached /\ request' = request
      /\ \E at \in {"restart", "undo"} : active' = [active EXCEPT !.at = at]
      /\ file' \in {file, g}
  BY DEF ConfigSet, Go
<1>2. active \in Active /\ active.op \in Op /\ Kind = "add" /\ r \in Request /\ Works(file)
  BY <1>1 DEF IInv, TypeInv, StageInv, FileInv, At
<1>3. r.host \in Host /\ r.sub \in BOOLEAN /\ r.record \in BOOLEAN
  BY <1>2 DEF Request, Kind
<1>4. /\ k \in Key \ {Placeholder} /\ active.added \subseteq Own(k)
      /\ \A c \in cached \cup {file} : Free(c, k)
      /\ active.added \in {{}, Wanted(k, r)}
  BY <1>1, <1>2 DEF IInv, AddInv, Adding, At, Active
<1>5. /\ block \in Camera /\ block.reads = active.added /\ block.live = active.added
      /\ block.host # NoHost \/ active.added # {}
  BY <1>3, <1>4, OwnStreams, FrigateAssumption DEF CameraConfig, Camera
<1>6. /\ Works(g) /\ g.cameras[k] = block /\ block # NoCamera
      /\ \A j \in Key \ {k} : g.cameras[j] = file.cameras[j]
      /\ \A s \in Stream : g.streams[s] # NoHost => file.streams[s] # NoHost \/ s \in active.added
  <2>1. Addition(file, k, block, active.added, r.host)
    BY <1>2, <1>3, <1>4, <1>5 DEF Addition
  <2> HIDE DEF block
  <2> QED
    BY <2>1, WithWorks
<1>7. \A s \in active.added : s \in Stream /\ s[1] = k
  BY <1>4, OwnStreams
<1> HIDE DEF g, block
<1>8. ASSUME NEW c \in cached PROVE Became(c, g)
  <2>1. Became(c, file) /\ Works(c) /\ Free(c, k)
    BY <1>4 DEF IInv, FileInv
  <2>2. \A j \in Key : \A s \in g.cameras[j].reads : s[1] = j \/ s \in c.cameras[j].reads
    BY <1>5, <1>6, <1>7, <2>1 DEF Became
  <2>3. ASSUME NEW j \in Key, NEW i \in Key, NEW s \in c.cameras[j].reads, j # i, s[1] = i,
               s \in g.cameras[i].reads
        PROVE  s \in c.cameras[i].reads
    BY <1>4, <1>5, <1>6, <2>1, <2>3 DEF Became, Free
  <2>4. ASSUME NEW s \in Stream, g.streams[s] # NoHost
        PROVE  c.streams[s] # NoHost \/ (s[1] # Placeholder /\ g.cameras[s[1]] # NoCamera)
    BY <1>4, <1>6, <1>7, <2>1, <2>4 DEF Became, Stream
  <2> QED
    BY <2>2, <2>3, <2>4 DEF Became
<1>9. Free(g, k)
  BY <1>4, <1>6 DEF Free
<1>10. FileInv'
  BY <1>1, <1>6, <1>8 DEF IInv, FileInv
<1>11. /\ active' \in Active /\ active'.at \in {"restart", "undo"} /\ active'.op = active.op
       /\ active'.key = k /\ active'.added = active.added
  BY <1>1, <1>2 DEF Active, Working
<1>12. TypeInv' /\ StageInv'
  BY <1>1, <1>2, <1>6, <1>11 DEF IInv, TypeInv, StageInv, Kind, Works
<1>13. AddInv'
  BY <1>1, <1>4, <1>9, <1>11 DEF AddInv, At
<1>14. RemoveInv' /\ OutInv'
  BY <1>11 DEF RemoveInv, OutInv, At, Out
<1> QED
  BY <1>10, <1>12, <1>13, <1>14 DEF IInv
----------------------------------------------------------------------------
(* Taking a camera out *)

LEMMA BeginRemoveStep == ASSUME IInv, BeginRemove PROVE IInv'
<1> DEFINE k == request[active.op].key
<1> USE DEF BeginRemove
<1>1. PICK config \in {file} \cup cached :
        /\ Read(config)
        /\ \/ Finish("failed")
           \/ /\ Has(config, k)
              /\ active' = [active EXCEPT !.at = "access", !.key = k, !.added = Owned(config, k)]
  BY Zenon
<1>2. cached' = {config} /\ file' = file /\ request' = request /\ At("begin") /\ Kind = "remove"
  BY <1>1 DEF Read
<1>3. CASE Finish("failed")
  BY <1>2, <1>3, Going DEF Finish, At
<1>4. CASE /\ Has(config, k)
           /\ active' = [active EXCEPT !.at = "access", !.key = k, !.added = Owned(config, k)]
  <2>1. Works(file) /\ Works(config) /\ Became(config, file)
    BY BecameItself DEF IInv, FileInv
  <2>2. active \in Active /\ active.op \in Op /\ k \in Key
    BY <1>2 DEF IInv, TypeInv, At, Request, Kind
  <2>3. /\ Owned(config, k) \subseteq Stream
        /\ \A s \in Owned(config, k) : s[1] = k \/ s \in config.cameras[k].reads
        /\ \A s \in Owned(config, k) : \A j \in Key \ {k} : s \notin config.cameras[j].reads
    BY <2>1, <2>2, OwnStreams DEF Owned, Works, Streams
  <2> HIDE DEF k
  <2>4. /\ active' \in Active /\ active'.at = "access" /\ active'.op = active.op
        /\ active'.key = k /\ active'.added = Owned(config, k)
    BY <1>4, <2>2, <2>3 DEF Active, Working
  <2>5. TypeInv' /\ StageInv'
    BY <1>2, <2>1, <2>2, <2>4 DEF IInv, TypeInv, StageInv, Kind, Works
  <2>6. ASSUME NEW j \in Key \ {k}, NEW s \in Owned(config, k), s \in file.cameras[j].reads
        PROVE  FALSE
    BY <2>1, <2>2, <2>3, <2>6 DEF Became
  <2>7. RemoveInv'
    BY <1>2, <1>4, <2>4, <2>6 DEF RemoveInv, Out
  <2>8. AddInv' /\ OutInv'
    BY <2>4 DEF AddInv, OutInv, At, Adding, Out
  <2> QED
    BY <1>2, <2>5, <2>7, <2>8, SameFile DEF IInv
<1> QED
  BY <1>1, <1>3, <1>4

(* A job that reads, or clears, on its way to the write that takes out. *)
LEMMA OnTheWayOut ==
  ASSUME IInv, file' = file, request' = request, cached' \subseteq cached \cup {file},
         active.at \in Out \ {"outWrite"}, NEW at \in Out \ {"out"}, NEW config \in Config,
         active' = [active EXCEPT !.at = at, !.config = config], OutInv'
  PROVE  IInv'
<1>1. active \in Active /\ active.op \in Op /\ Kind \in {"add", "remove"}
  BY DEF IInv, TypeInv, StageInv, Out
<1>2. /\ active' \in Active /\ active'.at = at /\ active'.op = active.op
      /\ active'.key = active.key /\ active'.added = active.added
  BY <1>1 DEF Active, Working, Out
<1>3. TypeInv' /\ StageInv'
  BY <1>1, <1>2 DEF IInv, TypeInv, StageInv, Kind, Out
<1>4. AddInv'
  <2> SUFFICES ASSUME Kind = "add" PROVE AddInv'
    BY <1>2 DEF AddInv, Kind
  <2>1. /\ active.key # Placeholder /\ active.added \subseteq Own(active.key)
        /\ \A c \in cached \cup {file} : Free(c, active.key)
    BY DEF IInv, AddInv
  <2> QED
    BY <1>2, <2>1 DEF AddInv, Out, At
<1>5. RemoveInv'
  BY <1>2 DEF IInv, RemoveInv, Kind, Out
<1> QED
  BY <1>3, <1>4, <1>5, SameFile DEF IInv

LEMMA NothingToRead ==
  ASSUME NEW config, NEW k, ~Has(config, k)
  PROVE  config.cameras[k].reads = {}
  BY DEF Has, NoCamera

LEMMA ReadBeforeStep == ASSUME IInv, ReadBefore PROVE IInv'
<1> USE DEF ReadBefore
<1>1. PICK config \in {file} \cup cached :
        /\ Read(config)
        /\ active' = [active EXCEPT !.at = IF Has(config, active.key) THEN "drain" ELSE "outWrite",
                                    !.config = config]
  BY Zenon
<1>2. /\ cached' = {config} /\ file' = file /\ request' = request /\ At("out")
      /\ active \in Active /\ config \in Config /\ Kind \in {"add", "remove"}
  BY <1>1 DEF Read, IInv, TypeInv, StageInv, At
<1>3. /\ active'.at = (IF Has(config, active.key) THEN "drain" ELSE "outWrite")
      /\ active'.config = config /\ active'.key = active.key /\ active'.added = active.added
  BY <1>1, <1>2 DEF Active
<1>4. ASSUME ~Has(config, active.key), NEW s \in active.added, s \in file.cameras[active.key].reads
      PROVE  config.streams[s] = NoHost
  <2>1. CASE Kind = "add"
    BY <1>2, <1>4, <2>1 DEF IInv, AddInv, Free, Has, At, Out
  <2>2. CASE Kind = "remove"
    <3>1. config = file
      BY <1>2, <1>4, <2>2 DEF IInv, RemoveInv, At, Out
    <3> QED
      BY <1>4, <3>1, NothingToRead
  <2> QED
    BY <1>2, <2>1, <2>2
<1>5. OutInv'
  BY <1>2, <1>3, <1>4 DEF OutInv, At, Has
<1> QED
  BY <1>1, <1>2, <1>5, OnTheWayOut DEF At, Out

LEMMA ReadDrainedStep == ASSUME IInv, ReadDrained PROVE IInv'
<1> USE DEF ReadDrained
<1>1. PICK config \in {file} \cup cached :
        Read(config) /\ active' = [active EXCEPT !.at = "outWrite", !.config = config]
  BY Zenon
<1>2. /\ config = file /\ cached' = {config} /\ file' = file /\ request' = request /\ At("outRead")
      /\ active \in Active /\ config \in Config
  BY <1>1 DEF Read, IInv, TypeInv, OutInv
<1>3. active'.config = config /\ active'.key = active.key /\ active'.added = active.added
      /\ active'.at = "outWrite"
  BY <1>1, <1>2 DEF Active
<1>4. OutInv'
  BY <1>2, <1>3, NothingToRead DEF OutInv, At
<1> QED
  BY <1>1, <1>2, <1>4, OnTheWayOut DEF At, Out

(* What a new setting of a camera leaves as it was. *)
LEMMA SetKeeps ==
  ASSUME FileInv, NEW k, NEW camera, NEW g, Setting(file, k, camera, g)
  PROVE  /\ Works(g) /\ \A c \in cached : Became(c, g)
         /\ \A j \in Key : g.cameras[j].reads = file.cameras[j].reads
         /\ \A j \in Key \ {Placeholder} : Free(file, j) => Free(g, j)
<1>2. /\ Works(g) /\ g.streams = file.streams
      /\ \A j \in Key : g.cameras[j].reads = file.cameras[j].reads
      /\ \A j \in Key \ {Placeholder} : file.cameras[j] # NoCamera => g.cameras[j] # NoCamera
  BY SetWorks
<1>3. \A c \in cached : Became(c, g)
  BY <1>2 DEF FileInv, Became, Stream
<1> QED
  BY <1>2, <1>3 DEF Free

LEMMA DrainStep == ASSUME IInv, Drain PROVE IInv'
<1> DEFINE k == active.key
           camera == [file.cameras[k] EXCEPT !.record = FALSE]
           g == [file EXCEPT !.cameras[k] = camera]
<1> USE DEF Drain
<1>1. /\ At("drain") /\ cached' = {} /\ request' = request
      /\ active' = [active EXCEPT !.at = "outRead"]
      /\ file' = file \/ (Has(file, k) /\ file' = g)
  BY DEF Go
<1>2. active \in Active /\ active.op \in Op /\ k \in Key /\ file \in Config
  BY <1>1 DEF IInv, TypeInv, Active, At
<1>3. /\ active'.at = "outRead" /\ active'.key = k /\ active'.added = active.added
      /\ active'.op = active.op /\ active'.config = active.config /\ active' \in Active
  BY <1>1, <1>2 DEF Active, Working
<1>4. OutInv'
  BY <1>1, <1>3 DEF OutInv, At
<1>5. CASE file' = file
  <2>1. active' = [active EXCEPT !.at = "outRead", !.config = active.config]
    BY <1>1, <1>2 DEF Active
  <2>2. active.config \in Config /\ active.at \in Out \ {"outWrite"} /\ cached' \subseteq cached \cup {file}
    BY <1>1, <1>2 DEF Active, At, Out
  <2>3. "outRead" \in Out \ {"out"}
    BY DEF Out
  <2> QED
    BY <1>1, <1>4, <1>5, <2>1, <2>2, <2>3, OnTheWayOut
<1>6. CASE Has(file, k) /\ file' = g
  <2>1. file.cameras[k] \in Camera
    BY <1>2 DEF Config
  <2>2. /\ camera \in Camera /\ camera.host = file.cameras[k].host
        /\ camera.reads = file.cameras[k].reads /\ camera.live = file.cameras[k].live
    BY <2>1 DEF Camera
  <2> HIDE DEF camera
  <2>8. Setting(file, k, camera, g)
    BY <1>2, <1>6, <2>2 DEF Setting, IInv, FileInv, Has
  <2>3. /\ Works(g) /\ \A c \in cached : Became(c, g)
        /\ \A j \in Key : g.cameras[j].reads = file.cameras[j].reads
        /\ \A j \in Key \ {Placeholder} : Free(file, j) => Free(g, j)
    <3>1. FileInv
      BY DEF IInv
    <3> QED
      BY <2>8, <3>1, SetKeeps
  <2> HIDE DEF g
  <2>4. FileInv'
    BY <1>1, <1>6, <2>3 DEF FileInv
  <2>5. TypeInv' /\ StageInv'
    BY <1>1, <1>2, <1>3, <1>6, <2>3 DEF IInv, TypeInv, StageInv, Kind, At, Works
  <2>6. AddInv'
    BY <1>1, <1>2, <1>3, <1>6, <2>3 DEF IInv, AddInv, Kind, At, Out
  <2>7. RemoveInv'
    BY <1>1, <1>3, <1>6, <2>3 DEF IInv, RemoveInv, Kind, At, Out
  <2> QED
    BY <1>4, <2>4, <2>5, <2>6, <2>7 DEF IInv
<1> QED
  BY <1>1, <1>5, <1>6

(* The write that takes a camera out, and what only it reads. *)
LEMMA WriteOutStep == ASSUME IInv, WriteOut PROVE IInv'
<1> DEFINE k == active.key
           drop == IF Has(active.config, k) THEN {k} ELSE {}
           names == active.added \cap Streams(active.config)
           g == Without(file, drop, names)
<1> USE DEF WriteOut
<1>1. /\ At("outWrite") /\ cached' = cached /\ request' = request
      /\ file' \in {file, g}
      /\ \/ active' = [active EXCEPT !.at = "outStreams", !.drop = drop # {}]
         \/ active' = [active EXCEPT !.at = "end"]
  BY DEF ConfigSet, Finish
<1>2. /\ active \in Active /\ active.op \in Op /\ k \in Key /\ Works(file)
      /\ Kind \in {"add", "remove"}
  BY <1>1 DEF IInv, TypeInv, StageInv, FileInv, Active, At
<1>3. drop \in SUBSET Key /\ names \in SUBSET Stream
  BY <1>2 DEF Streams
<1>4. active' \in Active /\ active'.at \in {"outStreams", "end"} /\ active'.op = active.op
  BY <1>1, <1>2 DEF Active, Working
<1>5. ASSUME NEW j \in Key \ drop PROVE names \cap file.cameras[j].reads = {}
  <2>1. CASE j = k
    BY <1>1, <1>5, <2>1 DEF IInv, OutInv, Streams
  <2>2. CASE j # k /\ Kind = "add"
    BY <1>1, <2>2 DEF IInv, AddInv, Free, At, Out
  <2>3. CASE j # k /\ Kind = "remove"
    BY <1>1, <2>3 DEF IInv, RemoveInv, At, Out
  <2> QED
    BY <1>2, <2>1, <2>2, <2>3
<1>6. drop # {} => cached \subseteq {file}
  BY <1>1 DEF IInv, OutInv
<1>7. drop = {} \/ drop = {k}
  OBVIOUS
<1> HIDE DEF drop, names
<1>8. /\ Works(g) /\ \A j \in Key : g.cameras[j].reads \subseteq file.cameras[j].reads
      /\ \A s \in Stream : g.streams[s] # NoHost => file.streams[s] # NoHost
      /\ \A j \in Key \ drop : g.cameras[j] = file.cameras[j]
  <2>1. Removal(file, drop, names)
    BY <1>2, <1>3, <1>5 DEF Removal
  <2> QED
    BY <2>1, WithoutWorks
<1> HIDE DEF g
<1>9. ASSUME NEW c \in cached PROVE Became(c, g)
  <2>1. Became(c, file) /\ (drop # {} => c = file)
    BY <1>6 DEF IInv, FileInv
  <2>2. ASSUME NEW s \in Stream, g.streams[s] # NoHost
        PROVE  c.streams[s] # NoHost \/ (s[1] # Placeholder /\ g.cameras[s[1]] # NoCamera)
    BY <1>8, <2>1, <2>2 DEF Became, Stream
  <2> QED
    BY <1>8, <2>1, <2>2 DEF Became
<1>10. FileInv'
  BY <1>1, <1>8, <1>9 DEF IInv, FileInv
<1>11. TypeInv' /\ StageInv'
  BY <1>1, <1>2, <1>4, <1>8 DEF IInv, TypeInv, StageInv, Kind, Works
<1> QED
  BY <1>4, <1>10, <1>11, Away DEF Elsewhere
----------------------------------------------------------------------------
(* Settings *)

(* A setting is applied to the file, or not, and the job goes on or ends. *)
LEMMA SettingApplied ==
  ASSUME IInv, NEW k, NEW camera, NEW g, Setting(file, k, camera, g),
         file' \in {file, g}, cached' = cached, request' = request,
         active' \in Active, active'.op = active.op, active.op \in Op,
         active'.at \in {"end", "set"} \/ (active'.at = "restart" /\ Kind = "configure"),
         active'.at = "set" => Kind = "configure"
                               /\ active'.todo \subseteq DOMAIN request[active.op].changes
  PROVE  IInv'
<1>1. Works(g) /\ \A c \in cached : Became(c, g)
  <2>1. FileInv
    BY DEF IInv
  <2> QED
    BY <2>1, SetKeeps
<1>2. FileInv'
  BY <1>1 DEF IInv, FileInv
<1>3. TypeInv' /\ StageInv'
  BY <1>1 DEF IInv, TypeInv, StageInv, Kind, Works
<1>4. Kind' = Kind
  BY DEF Kind
<1>5. active'.at \notin Out /\ active'.at # "access"
  BY DEF Out
<1>6. active'.at \in Adding => Kind = "configure"
  BY DEF Adding
<1>7. AddInv' /\ RemoveInv' /\ OutInv'
  BY <1>4, <1>5, <1>6 DEF AddInv, RemoveInv, OutInv, At, Out
<1> QED
  BY <1>2, <1>3, <1>7 DEF IInv

LEMMA BeginConfigureStep == ASSUME IInv, BeginConfigure PROVE IInv'
<1> DEFINE r == request[active.op]
<1> USE DEF BeginConfigure
<1>1. /\ file' = file /\ request' = request /\ cached' \subseteq cached \cup {file}
      /\ At("begin") /\ Kind = "configure"
      /\ \/ Finish("failed")
         \/ \E at \in {"setAll", "set"} :
              active' = [active EXCEPT !.key = r.key, !.todo = DOMAIN r.changes, !.at = at]
  BY DEF Read
<1>2. active \in Active /\ active.op \in Op /\ r \in Request
  BY <1>1 DEF IInv, TypeInv, At
<1>3. CASE Finish("failed")
  BY <1>1, <1>3, Going DEF Finish, At
<1>4. ASSUME NEW at \in {"setAll", "set"},
             active' = [active EXCEPT !.key = r.key, !.todo = DOMAIN r.changes, !.at = at]
      PROVE  IInv'
  <2>1. r.key \in Key /\ DOMAIN r.changes \in SUBSET {"record", "detect"}
    BY <1>1, <1>2 DEF Request, Kind
  <2>2. active' \in Active /\ active'.at = at /\ active'.op = active.op
        /\ active'.todo = DOMAIN r.changes
    BY <1>2, <1>4, <2>1 DEF Active, Working
  <2>3. TypeInv' /\ StageInv'
    BY <1>1, <1>2, <2>2 DEF IInv, TypeInv, StageInv, Kind
  <2>4. FileInv'
    BY <1>1, SameFile DEF IInv
  <2> QED
    BY <2>2, <2>3, <2>4, Away DEF Elsewhere
<1> QED
  BY <1>1, <1>3, <1>4

(* A camera whose sections change keeps what it reads. *)
LEMMA Changed ==
  ASSUME FileInv, NEW k \in Key, NEW changed, changed \in Camera,
         changed.host = file.cameras[k].host, changed.reads = file.cameras[k].reads,
         changed.live = file.cameras[k].live, active.key = k
  PROVE  \E camera : Setting(file, k, camera, Set(changed))
<1> DEFINE camera == IF file.cameras[k] = NoCamera THEN NoCamera ELSE changed
<1>1. Works(file) /\ file \in Config
  BY DEF FileInv, Works
<1>2. NoCamera \in Camera
  BY DEF NoCamera, Camera
<1>3. /\ camera \in Camera /\ camera.host = file.cameras[k].host
      /\ camera.reads = file.cameras[k].reads /\ camera.live = file.cameras[k].live
      /\ file.cameras[k] = NoCamera => camera = NoCamera
  BY <1>2
<1>4. Set(changed) = [file EXCEPT !.cameras[k] = camera]
  BY <1>1 DEF Set, Config
<1> HIDE DEF camera
<1>5. Setting(file, k, camera, Set(changed))
  BY <1>1, <1>3, <1>4 DEF Setting
<1> QED
  BY <1>5

LEMMA SetAllStep == ASSUME IInv, SetAll PROVE IInv'
<1> DEFINE k == active.key
           changes == request[active.op].changes
           changed == Settings(file.cameras[k], changes)
           g == Set(changed)
<1> USE DEF SetAll
<1>1. /\ At("setAll") /\ cached' = cached /\ request' = request /\ file' \in {file, g}
      /\ \E at \in {"restart", "end"} : active' = [active EXCEPT !.at = at]
  BY DEF ConfigSet, Finish, Go
<1>2. /\ active \in Active /\ active.op \in Op /\ k \in Key /\ FileInv /\ file \in Config
      /\ Kind = "configure" /\ request[active.op] \in Request
  BY <1>1 DEF IInv, TypeInv, StageInv, Active, At
<1>3. /\ "record" \in DOMAIN changes => changes.record \in BOOLEAN
      /\ "detect" \in DOMAIN changes => changes.detect \in BOOLEAN
  BY <1>2 DEF Request, Kind
<1>4. /\ changed \in Camera /\ changed.host = file.cameras[k].host
      /\ changed.reads = file.cameras[k].reads /\ changed.live = file.cameras[k].live
  <2>1. file.cameras[k] \in Camera
    BY <1>2 DEF Config
  <2> HIDE DEF changes
  <2> QED
    BY <1>3, <2>1 DEF Settings, Camera
<1> HIDE DEF changed
<1>5. \E camera : Setting(file, k, camera, g)
  BY <1>2, <1>4, Changed
<1> HIDE DEF g
<1>6. active' \in Active /\ active'.op = active.op /\ active'.at \in {"restart", "end"}
  BY <1>1, <1>2 DEF Active, Working
<1> QED
  BY <1>1, <1>2, <1>5, <1>6, SettingApplied

LEMMA SetSectionStep == ASSUME IInv, SetSection PROVE IInv'
<1> DEFINE k == active.key
           changes == request[active.op].changes
           name == IF "record" \in active.todo THEN "record" ELSE "detect"
           changed == Section(file.cameras[k], name, changes[name])
           g == Set(changed)
<1> USE DEF SetSection
<1>1. /\ At("set") /\ cached' = cached /\ request' = request /\ file' \in {file, g}
      /\ \/ active' = [active EXCEPT !.todo = @ \ {name}]
         \/ active' = [active EXCEPT !.at = "end"]
  BY DEF ConfigSet, Finish
<1>2. /\ active \in Active /\ active.op \in Op /\ k \in Key /\ FileInv /\ file \in Config
      /\ Kind = "configure" /\ request[active.op] \in Request
  BY <1>1 DEF IInv, TypeInv, StageInv, Active, At
<1>3. name \in {"record", "detect"} /\ name \in DOMAIN changes
  BY <1>1, <1>2 DEF IInv, StageInv, Active, At
<1>4. changes[name] \in BOOLEAN
  BY <1>2, <1>3 DEF Request, Kind
<1>5. /\ changed \in Camera /\ changed.host = file.cameras[k].host
      /\ changed.reads = file.cameras[k].reads /\ changed.live = file.cameras[k].live
  <2>1. file.cameras[k] \in Camera
    BY <1>2 DEF Config
  <2> HIDE DEF changes, name
  <2> QED
    BY <1>3, <1>4, <2>1 DEF Section, Camera
<1>6. /\ active' \in Active /\ active'.op = active.op /\ active'.at \in {"set", "end"}
      /\ active'.at = "set" => active'.todo \subseteq DOMAIN changes
  <2>1. active.todo \subseteq DOMAIN changes
    BY <1>1 DEF IInv, StageInv, At
  <2> HIDE DEF name
  <2> QED
    BY <1>1, <1>2, <2>1 DEF Active, Working, At
<1> HIDE DEF changed
<1>7. \E camera : Setting(file, k, camera, g)
  BY <1>2, <1>5, Changed
<1> HIDE DEF g
<1> QED
  BY <1>1, <1>2, <1>6, <1>7, SettingApplied

LEMMA ReadSettingsStep == ASSUME IInv, ReadSettings PROVE IInv'
  BY Going DEF ReadSettings, Finish, At
----------------------------------------------------------------------------
(* All steps together *)

LEMMA JobSteps == ASSUME IInv, JobStep PROVE IInv'
  BY SaveSteps, FailingSteps, BeginAddStep, CheckStep, AddStreamStep, DropPlaceholderStep,
     WriteCameraStep, RestartSteps, RecordSteps, ReadBeforeStep, DrainStep, ReadDrainedStep,
     WriteOutStep, BeginRemoveStep, BeginConfigureStep, SetAllStep, SetSectionStep,
     ReadSettingsStep
  DEF JobStep

LEMMA FrigateStep == IInv /\ [Next]_vars => IInv'
  BY StartSteps, JobSteps, OtherSteps DEF Next

LEMMA WorkingReads == FileInv => ReadStreamsExist
<1> SUFFICES ASSUME FileInv, NEW k \in Key, NEW s \in file.cameras[k].reads
             PROVE  s \in Streams(file)
  BY DEF ReadStreamsExist
<1>1. file.cameras[k] \in Camera /\ file.streams[s] # NoHost
  BY DEF FileInv, Works, Config
<1> QED
  BY <1>1 DEF Streams, Camera

----------------------------------------------------------------------------
(* The stored data and the history of jobs *)

Entry == [op : Op, state : {"live", "none", "running", "completed", "failed", "interrupted"}]
States == {"none", "running", "completed", "failed"}

(* Histories are sequences of jobs that do not outgrow their bound. *)
HistoryInv ==
  /\ loaded \in BOOLEAN /\ waiting \subseteq Op
  /\ managed \subseteq Key /\ known \subseteq Host
  /\ store.managed \subseteq Key /\ store.known \subseteq Host
  /\ jobs \in [Op -> States]
  /\ list \in Seq(Entry) /\ Len(list) <= MaxJobs
  /\ store.list \in Seq(Entry) /\ Len(store.list) <= MaxJobs

LEMMA LatestBound ==
  ASSUME NEW l \in Seq(Entry)
  PROVE  Latest(l) \in Seq(Entry) /\ Len(Latest(l)) <= MaxJobs
<1>1. MaxJobs \in Nat /\ Len(l) \in Nat
  BY FrigateAssumption
<1>2. CASE Len(l) > MaxJobs
  <2>1. Latest(l) = SubSeq(l, Len(l) - MaxJobs + 1, Len(l))
    BY <1>2 DEF Latest
  <2> QED
    BY <1>1, <1>2, <2>1
<1>3. CASE ~(Len(l) > MaxJobs)
  <2>1. Latest(l) = SubSeq(l, 0 + 1, Len(l))
    BY <1>3 DEF Latest
  <2> QED
    BY <1>1, <1>3, <2>1
<1> QED
  BY <1>2, <1>3

(* A start, whatever comes of it. *)
LEMMA StartHistory ==
  ASSUME HistoryInv, NEW op \in Op, NEW l \in Seq(Entry), Len(l) <= MaxJobs, NEW c,
         Start(op, l, c)
  PROVE  /\ list' \in Seq(Entry) /\ Len(list') <= MaxJobs
         /\ jobs' \in [Op -> States] /\ \A o \in Op : jobs'[o] \in {jobs[o], "running"}
<1>1. CASE list' = l /\ jobs' = jobs
  BY <1>1 DEF HistoryInv
<1>2. CASE /\ jobs' = [jobs EXCEPT ![op] = "running"]
           /\ list' = Latest(Append(l, [op |-> op, state |-> "live"]))
  <2>1. [op |-> op, state |-> "live"] \in Entry
    BY DEF Entry
  <2>2. Append(l, [op |-> op, state |-> "live"]) \in Seq(Entry)
    BY <2>1
  <2>3. list' \in Seq(Entry) /\ Len(list') <= MaxJobs
    BY <1>2, <2>2, LatestBound
  <2>4. jobs' \in [Op -> States] /\ \A o \in Op : jobs'[o] \in {jobs[o], "running"}
    BY <1>2 DEF HistoryInv, States
  <2> QED
    BY <2>3, <2>4
<1> QED
  BY <1>1, <1>2 DEF Start

(* What a save leaves in the store is data again. *)
LEMMA SaveHistory ==
  ASSUME HistoryInv, NEW m, m \subseteq Key, NEW c, c \subseteq Host, NEW ok \in BOOLEAN,
         Save(list, m, c, jobs, ok)
  PROVE  /\ store'.list \in Seq(Entry) /\ Len(store'.list) <= MaxJobs
         /\ store'.managed \subseteq Key /\ store'.known \subseteq Host
         /\ ok => store'.managed = m
<1> DEFINE entry(i) == [op |-> list[i].op,
                        state |-> IF list[i].state = "live" THEN jobs[list[i].op] ELSE list[i].state]
           saved == [i \in DOMAIN list |-> entry(i)]
<1>1. DOMAIN list = 1 .. Len(list) /\ Len(list) \in Nat /\ Len(list) <= MaxJobs
  BY DEF HistoryInv
<1>2. \A i \in 1 .. Len(list) : entry(i) \in Entry
  <2>1. \A i \in 1 .. Len(list) : list[i] \in Entry
    BY DEF HistoryInv
  <2> QED
    BY <2>1 DEF HistoryInv, Entry, States
<1>3. store' = IF ok THEN [list |-> saved, managed |-> m, known |-> c] ELSE store
  BY DEF Save, Saved
<1> HIDE DEF entry
<1>4. saved \in [1 .. Len(list) -> Entry]
  BY <1>1, <1>2
<1> HIDE DEF saved
<1>5. saved \in Seq(Entry) /\ Len(saved) = Len(list)
  BY <1>1, <1>4
<1> QED
  BY <1>1, <1>3, <1>5 DEF HistoryInv

(* The history that is loaded: what ran when it was saved was interrupted. *)
LEMMA LoadedHistory ==
  ASSUME HistoryInv, NEW l,
         l = [i \in DOMAIN Latest(store.list) |->
                [Latest(store.list)[i] EXCEPT !.state = IF @ = "running" THEN "interrupted" ELSE @]]
  PROVE  l \in Seq(Entry) /\ Len(l) <= MaxJobs
<1> DEFINE past == Latest(store.list)
           entry(i) == [past[i] EXCEPT !.state = IF @ = "running" THEN "interrupted" ELSE @]
<1>1. past \in Seq(Entry) /\ Len(past) <= MaxJobs
  BY LatestBound DEF HistoryInv
<1>2. l = [i \in DOMAIN past |-> entry(i)]
  OBVIOUS
<1> HIDE DEF past
<1>3. DOMAIN past = 1 .. Len(past) /\ Len(past) \in Nat
  BY <1>1
<1>4. \A i \in 1 .. Len(past) : entry(i) \in Entry
  <2>1. \A i \in 1 .. Len(past) : past[i] \in Entry
    BY <1>1
  <2> QED
    BY <2>1 DEF Entry
<1> HIDE DEF entry
<1>5. l \in [1 .. Len(past) -> Entry]
  BY <1>2, <1>3, <1>4
<1>6. \A f \in [1 .. Len(past) -> Entry] : f \in Seq(Entry) /\ Len(f) = Len(past)
  BY <1>3
<1> QED
  BY <1>1, <1>5, <1>6

LEMMA HistoryInit == Init => HistoryInv
<1> SUFFICES ASSUME Init PROVE HistoryInv
  OBVIOUS
<1>1. list = <<>> /\ store.list = <<>> /\ store.managed = {} /\ store.known = {}
  BY DEF Init
<1>2. <<>> \in Seq(Entry) /\ Len(<<>>) <= MaxJobs
  BY FrigateAssumption
<1> QED
  BY <1>1, <1>2 DEF Init, HistoryInv, States

(* Every address a configuration names is one. *)
LEMMA HostsOf ==
  ASSUME NEW config \in Config, NEW k \in Key
  PROVE  CameraHosts(config, k) \subseteq Host
<1>1. /\ config.cameras[k] \in Camera /\ config.streams \in [Stream -> Host \cup {NoHost}]
      /\ <<k, "main">> \in Stream
  BY DEF Config, Stream
<1> QED
  BY <1>1 DEF CameraHosts, Camera

(* A job completes in the three steps that end one, and nowhere else. *)
CompletesOnly ==
  \A op \in Op : jobs[op] = "running" /\ jobs'[op] = "completed" =>
                   op = active.op /\ (RememberAdded \/ ForgetManaged \/ ReadSettings)

(* Steps that save nothing and change none of the data. *)
SavesNothing ==
  \/ ReadFails \/ BeginAdd \/ CheckStreams \/ AddStream \/ DropPlaceholder \/ WriteCamera
  \/ RemoveAdded \/ Restart \/ WaitBack \/ WaitFps \/ ReadBefore \/ Drain \/ ReadDrained
  \/ WriteOut \/ RemoveStreams \/ RestartWithout \/ WaitBackWithout \/ BeginRemove
  \/ BeginConfigure \/ SetAll \/ SetSection

LEMMA NothingSaved ==
  ASSUME SavesNothing
  PROVE  /\ UNCHANGED <<loaded, waiting, list, managed, known, store>>
         /\ jobs' = jobs \/ jobs' = [jobs EXCEPT ![active.op] = "failed"]
<1>1. CASE \/ ReadFails \/ BeginAdd \/ CheckStreams \/ AddStream \/ DropPlaceholder \/ WriteCamera
           \/ RemoveAdded
  BY <1>1 DEF ReadFails, BeginAdd, CheckStreams, AddStream, DropPlaceholder, WriteCamera,
              RemoveAdded, Finish, Go, data
<1>2. CASE Restart \/ WaitBack \/ WaitFps \/ RestartWithout \/ WaitBackWithout
  BY <1>2 DEF Restart, WaitBack, WaitFps, RestartWithout, WaitBackWithout, Broken, TakenOut,
              Finish, Go, data
<1>3. CASE ReadBefore \/ Drain \/ ReadDrained \/ WriteOut \/ RemoveStreams
  BY <1>3 DEF ReadBefore, Drain, ReadDrained, WriteOut, RemoveStreams, TakenOut, Finish, Go, data
<1>4. CASE BeginRemove \/ BeginConfigure \/ SetAll \/ SetSection
  BY <1>4 DEF BeginRemove, BeginConfigure, SetAll, SetSection, Finish, Go, data
<1> QED
  BY <1>1, <1>2, <1>3, <1>4 DEF SavesNothing

LEMMA HistoryStep == IInv /\ HistoryInv /\ [Next]_vars => HistoryInv' /\ CompletesOnly
<1> SUFFICES ASSUME IInv, HistoryInv, [Next]_vars PROVE HistoryInv' /\ CompletesOnly
  OBVIOUS
<1>t. /\ TypeInv /\ StageInv /\ jobs \in [Op -> States] /\ active \in Active
      /\ active.key \in Key
  BY DEF IInv, TypeInv, HistoryInv, Active
<1>1. ASSUME NEW op \in Op, Ask(op) PROVE HistoryInv' /\ CompletesOnly
  <2>1. CASE loaded
    <3>1. Start(op, list, known)
      BY <1>1, <2>1 DEF Ask
    <3>2. /\ list' \in Seq(Entry) /\ Len(list') <= MaxJobs
          /\ jobs' \in [Op -> States] /\ \A o \in Op : jobs'[o] \in {jobs[o], "running"}
      BY <3>1, StartHistory DEF HistoryInv
    <3> QED
      BY <1>1, <2>1, <3>2 DEF HistoryInv, CompletesOnly, Ask
  <2>2. CASE ~loaded
    BY <1>1, <2>2 DEF HistoryInv, CompletesOnly, Ask
  <2> QED
    BY <2>1, <2>2
<1>2. ASSUME NEW op \in Op, Load(op) PROVE HistoryInv' /\ CompletesOnly
  <2> DEFINE l == [i \in DOMAIN Latest(store.list) |->
                     [Latest(store.list)[i] EXCEPT !.state = IF @ = "running" THEN "interrupted" ELSE @]]
  <2>1. l \in Seq(Entry) /\ Len(l) <= MaxJobs
    BY LoadedHistory
  <2>2. Start(op, l, store.known)
    BY <1>2 DEF Load
  <2> HIDE DEF l
  <2>3. /\ list' \in Seq(Entry) /\ Len(list') <= MaxJobs
        /\ jobs' \in [Op -> States] /\ \A o \in Op : jobs'[o] \in {jobs[o], "running"}
    BY <2>1, <2>2, StartHistory
  <2> QED
    BY <1>2, <2>3 DEF HistoryInv, CompletesOnly, Load
<1>3. ASSUME SaveStarted \/ SaveFinished PROVE HistoryInv' /\ CompletesOnly
  <2>1. \E ok \in BOOLEAN : Save(list, managed, known, jobs, ok)
    BY <1>3 DEF SaveStarted, SaveFinished
  <2>2. /\ store'.list \in Seq(Entry) /\ Len(store'.list) <= MaxJobs
        /\ store'.managed \subseteq Key /\ store'.known \subseteq Host
    BY <2>1, SaveHistory DEF HistoryInv
  <2>3. UNCHANGED <<loaded, waiting, list, managed, known, jobs>>
    BY <1>3 DEF SaveStarted, SaveFinished, Go, data
  <2> QED
    BY <2>2, <2>3 DEF HistoryInv, CompletesOnly
<1>4. ASSUME RecordManaged \/ ForgetManaged PROVE HistoryInv' /\ CompletesOnly
  <2>1. /\ managed' \subseteq Key
        /\ \E ok \in BOOLEAN : Save(list, managed', known, jobs, ok)
        /\ UNCHANGED <<loaded, waiting, list, known>>
    BY <1>t, <1>4 DEF RecordManaged, ForgetManaged, HistoryInv
  <2>2. /\ store'.list \in Seq(Entry) /\ Len(store'.list) <= MaxJobs
        /\ store'.managed \subseteq Key /\ store'.known \subseteq Host
    BY <2>1, SaveHistory DEF HistoryInv
  <2>3. \/ RecordManaged /\ \E s \in {jobs[active.op], "failed"} : jobs' = [jobs EXCEPT ![active.op] = s]
        \/ ForgetManaged /\ \E s \in {"failed", "completed"} : jobs' = [jobs EXCEPT ![active.op] = s]
    BY <1>t, <1>4 DEF RecordManaged, ForgetManaged, Finish, Go
  <2>4. jobs' \in [Op -> States] /\ CompletesOnly
    BY <1>t, <2>3 DEF States, CompletesOnly
  <2> QED
    BY <2>1, <2>2, <2>4 DEF HistoryInv
<1>5. ASSUME RememberAdded \/ RememberRemoved PROVE HistoryInv' /\ CompletesOnly
  <2>1. known' \subseteq Host
    <3>1. CASE RememberAdded
      <4>1. active.op \in Op /\ Kind = "add" /\ request[active.op] \in Request
        BY <1>t, <3>1 DEF RememberAdded, TypeInv, StageInv, At
      <4>2. request[active.op].host \in Host
        BY <4>1 DEF Request, Kind
      <4> QED
        BY <3>1, <4>2 DEF RememberAdded, HistoryInv
    <3>2. CASE RememberRemoved
      <4>1. file \in Config
        BY <1>t DEF TypeInv
      <4>2. CameraHosts(file, active.key) \subseteq Host
        BY <1>t, <4>1, HostsOf
      <4> QED
        BY <3>2, <4>2 DEF RememberRemoved, HistoryInv
    <3> QED
      BY <1>5, <3>1, <3>2
  <2>2. /\ store' = store \/ \E ok \in BOOLEAN : Save(list, managed, known', jobs, ok)
        /\ UNCHANGED <<loaded, waiting, list, managed>>
    BY <1>5 DEF RememberAdded, RememberRemoved
  <2>3. /\ store'.list \in Seq(Entry) /\ Len(store'.list) <= MaxJobs
        /\ store'.managed \subseteq Key /\ store'.known \subseteq Host
    BY <2>1, <2>2, SaveHistory DEF HistoryInv
  <2>4. \/ RememberRemoved /\ \E s \in {jobs[active.op], "failed"} : jobs' = [jobs EXCEPT ![active.op] = s]
        \/ RememberAdded /\ \E s \in {"failed", "completed"} : jobs' = [jobs EXCEPT ![active.op] = s]
    BY <1>t, <1>5 DEF RememberAdded, RememberRemoved, Finish, Go
  <2>5. jobs' \in [Op -> States] /\ CompletesOnly
    BY <1>t, <2>4 DEF States, CompletesOnly
  <2> QED
    BY <2>1, <2>2, <2>3, <2>5 DEF HistoryInv
<1>6. ASSUME ReadSettings PROVE HistoryInv' /\ CompletesOnly
  <2>1. UNCHANGED <<loaded, waiting, list, managed, known, store>>
    BY <1>6 DEF ReadSettings, data
  <2>2. jobs' = [jobs EXCEPT ![active.op] = "completed"]
    BY <1>6 DEF ReadSettings, Finish
  <2>3. jobs' \in [Op -> States] /\ CompletesOnly
    BY <1>t, <1>6, <2>2 DEF States, CompletesOnly
  <2> QED
    BY <2>1, <2>3 DEF HistoryInv
<1>7. ASSUME SavesNothing PROVE HistoryInv' /\ CompletesOnly
  <2>1. /\ UNCHANGED <<loaded, waiting, list, managed, known, store>>
        /\ jobs' = jobs \/ jobs' = [jobs EXCEPT ![active.op] = "failed"]
    BY <1>7, NothingSaved
  <2>2. jobs' \in [Op -> States] /\ CompletesOnly
    BY <1>t, <2>1 DEF States, CompletesOnly
  <2> QED
    BY <2>1, <2>2 DEF HistoryInv
<1>8. ASSUME Poll \/ Expire \/ UNCHANGED vars PROVE HistoryInv' /\ CompletesOnly
  BY <1>8 DEF Poll, Expire, vars, data, HistoryInv, CompletesOnly
<1>9. ASSUME Crash PROVE HistoryInv' /\ CompletesOnly
  <2>1. list' = <<>> /\ <<>> \in Seq(Entry) /\ Len(<<>>) <= MaxJobs
    BY <1>9, FrigateAssumption DEF Crash
  <2> QED
    BY <1>9, <2>1 DEF Crash, HistoryInv, States, CompletesOnly
<1> QED
  BY <1>1, <1>2, <1>3, <1>4, <1>5, <1>6, <1>7, <1>8, <1>9 DEF Next, JobStep, SavesNothing
----------------------------------------------------------------------------
(* What runs, and what was observed *)

Does == {"loaded", "record", "output", "detect"}

(* A camera does something only when Frigate loaded it. *)
WorldInv ==
  /\ running \in [Key -> SUBSET Does] /\ \A k \in Key : running[k] # {} => "loaded" \in running[k]
  /\ live \subseteq Stream /\ author \in [Piece -> Op \cup {NoOp}]
  /\ shown \subseteq Key /\ lost \subseteq Op /\ spoilt \subseteq Op /\ stale \subseteq Op
  /\ faults \in Nat /\ crashes \in Nat

LEMMA DoingType ==
  ASSUME NEW camera
  PROVE  /\ Doing(camera) \subseteq Does
         /\ (Doing(camera) = {}) <=> (camera = NoCamera)
         /\ Doing(camera) # {} => "loaded" \in Doing(camera)
         /\ camera # NoCamera /\ camera.record => "output" \in Doing(camera)
         /\ camera = NoCamera => Doing(camera) = {}
  BY DEF Doing, Does

LEMMA LiveType ==
  ASSUME NEW does, does \subseteq Does, does # {} => "loaded" \in does,
         NEW name \in {"record", "detect"}, NEW value \in BOOLEAN
  PROVE  /\ Live(does, name, value) \subseteq Does
         /\ (Live(does, name, value) = {}) <=> (does = {})
         /\ Live(does, name, value) # {} => "loaded" \in Live(does, name, value)
         /\ "output" \in does => "output" \in Live(does, name, value)
         /\ name # "record" \/ ~value =>
              ("record" \in Live(does, name, value) => "record" \in does)
         /\ name = "record" /\ ~value => "record" \notin Live(does, name, value)
<1>1. CASE does = {}
  BY <1>1 DEF Live
<1>2. CASE does # {} /\ value
  BY <1>2 DEF Live, Does
<1>3. CASE does # {} /\ ~value
  <2>1. Live(does, name, value) = does \ {name}
    BY <1>3 DEF Live
  <2>2. "loaded" \in does \ {name} /\ name # "output"
    BY <1>3
  <2> QED
    BY <1>3, <2>1, <2>2
<1> QED
  BY <1>1, <1>2, <1>3

LEMMA WorldInit == Init => WorldInv
<1> SUFFICES ASSUME Init PROVE WorldInv
  OBVIOUS
<1>1. running = [k \in Key |-> Doing(file.cameras[k])]
  BY DEF Init
<1>2. running \in [Key -> SUBSET Does] /\ \A k \in Key : running[k] # {} => "loaded" \in running[k]
  BY <1>1, DoingType
<1> QED
  BY <1>2 DEF Init, WorldInv, Streams

LEMMA TouchedType ==
  ASSUME TypeInv, WorldInv
  PROVE  Touched \subseteq Op
<1>1. active.op \in Op \cup {NoOp} /\ active.key \in Key
  BY DEF TypeInv, Active
<1>2. \A s \in {"main", "sub", "camera"} : <<active.key, s>> \in Piece
  BY <1>1 DEF Piece, Stream
<1> QED
  BY <1>1, <1>2 DEF Touched, WorldInv

(* A step meets one failure or none. *)
Counts == \E n \in {0, 1} : Strike(n)

LEMMA SetCounts == ASSUME NEW config, NEW answer, ConfigSet(config, answer) PROVE Counts
<1>1. (IF answer = "ok" THEN 0 ELSE 1) \in {0, 1}
  OBVIOUS
<1> QED
  BY <1>1 DEF ConfigSet, Counts

LEMMA SaveCounts ==
  ASSUME NEW l, NEW m, NEW c, NEW j, NEW ok, Save(l, m, c, j, ok) PROVE Counts
<1>1. (IF ok THEN 0 ELSE 1) \in {0, 1}
  OBVIOUS
<1> QED
  BY <1>1 DEF Save, Counts

LEMMA Counting == JobStep => Counts
<1>0. Calm \/ Strike(1) => Counts
  BY DEF Calm, Counts
<1>1. CASE \/ SaveStarted \/ SaveFinished \/ ReadFails \/ RecordManaged \/ RememberAdded
           \/ RememberRemoved \/ ForgetManaged
  BY <1>0, <1>1, SaveCounts
  DEF SaveStarted, SaveFinished, ReadFails, RecordManaged, RememberAdded, RememberRemoved,
      ForgetManaged
<1>2. CASE BeginAdd \/ CheckStreams \/ AddStream \/ RemoveAdded
  BY <1>0, <1>2 DEF BeginAdd, CheckStreams, AddStream, RemoveAdded
<1>3. CASE Restart \/ WaitBack \/ WaitFps \/ RestartWithout \/ WaitBackWithout
  BY <1>0, <1>3 DEF Restart, WaitBack, WaitFps, RestartWithout, WaitBackWithout
<1>4. CASE ReadBefore \/ Drain \/ ReadDrained \/ RemoveStreams
  BY <1>0, <1>4 DEF ReadBefore, Drain, ReadDrained, RemoveStreams
<1>5. CASE DropPlaceholder \/ WriteCamera \/ WriteOut \/ SetAll \/ SetSection
  BY <1>0, <1>5, SetCounts DEF DropPlaceholder, WriteCamera, WriteOut, SetAll, SetSection
<1>6. CASE BeginRemove \/ BeginConfigure \/ ReadSettings
  BY <1>0, <1>6 DEF BeginRemove, BeginConfigure, ReadSettings
<1> QED
  BY <1>1, <1>2, <1>3, <1>4, <1>5, <1>6 DEF JobStep

(* Steps that neither change what runs nor are seen to. *)
OutOfSight ==
  \/ \E op \in Op : Ask(op) \/ Load(op)
  \/ SaveStarted \/ SaveFinished \/ CheckStreams \/ DropPlaceholder \/ WaitBack \/ RecordManaged
  \/ RememberAdded \/ ReadDrained \/ WaitBackWithout \/ BeginRemove \/ RememberRemoved
  \/ ForgetManaged \/ BeginConfigure \/ SetAll \/ ReadSettings \/ Poll \/ Expire

LEMMA NothingSeen ==
  ASSUME OutOfSight
  PROVE  UNCHANGED <<running, live, author, shown, lost, spoilt, stale, crashes, request>>
<1>1. CASE \/ \E op \in Op : Ask(op) \/ Load(op)
           \/ Poll \/ Expire \/ SaveStarted \/ SaveFinished
  BY <1>1 DEF Ask, Load, Poll, Expire, SaveStarted, SaveFinished, frigate, seen
<1>2. CASE \/ CheckStreams \/ DropPlaceholder \/ WaitBack \/ RecordManaged \/ RememberAdded
           \/ ReadDrained \/ WaitBackWithout
  BY <1>2 DEF CheckStreams, DropPlaceholder, WaitBack, RecordManaged, RememberAdded, ReadDrained,
              WaitBackWithout, frigate, seen
<1>3. CASE \/ BeginRemove \/ RememberRemoved \/ ForgetManaged \/ BeginConfigure \/ SetAll
           \/ ReadSettings
  BY <1>3 DEF BeginRemove, RememberRemoved, ForgetManaged, BeginConfigure, SetAll, ReadSettings,
              frigate, seen
<1> QED
  BY <1>1, <1>2, <1>3 DEF OutOfSight

(* A step counts its failures, if it is a job's, and no other step does. *)
LEMMA FaultsGrow ==
  ASSUME WorldInv, [Next]_vars
  PROVE  /\ faults' \in Nat /\ faults' >= faults
         /\ crashes' \in Nat /\ crashes' >= crashes
<1>1. faults \in Nat /\ crashes \in Nat
  BY DEF WorldInv
<1>2. CASE JobStep
  <2>1. faults' \in Nat /\ faults' >= faults
    BY <1>1, <1>2, Counting DEF Counts, Strike
  <2>2. crashes' = crashes
    <3>1. CASE \/ ReadFails \/ BeginAdd \/ AddStream \/ WriteCamera \/ RemoveAdded \/ Restart
               \/ WaitFps \/ ReadBefore
      BY <3>1 DEF ReadFails, BeginAdd, AddStream, WriteCamera, RemoveAdded, Restart, WaitFps,
                  ReadBefore
    <3>2. CASE Drain \/ WriteOut \/ RemoveStreams \/ RestartWithout \/ SetSection
      BY <3>2 DEF Drain, WriteOut, RemoveStreams, RestartWithout, SetSection
    <3> QED
      BY <1>2, <3>1, <3>2, NothingSeen DEF JobStep, OutOfSight
  <2> QED
    BY <1>1, <2>1, <2>2
<1>3. CASE Crash
  BY <1>1, <1>3 DEF Crash
<1>4. CASE Poll \/ Expire \/ (\E op \in Op : Ask(op) \/ Load(op)) \/ UNCHANGED vars
  <2>1. faults' = faults /\ crashes' = crashes
    BY <1>4 DEF Poll, Expire, Ask, Load, vars
  <2> QED
    BY <1>1, <2>1
<1> QED
  BY <1>2, <1>3, <1>4 DEF Next

(* Another thing one camera does. *)
LEMMA RunningType ==
  ASSUME WorldInv, NEW k \in Key, NEW name \in {"record", "detect"}, NEW value \in BOOLEAN,
         running' = [running EXCEPT ![k] = Live(@, name, value)]
  PROVE  /\ running' \in [Key -> SUBSET Does]
         /\ \A j \in Key : running'[j] # {} => "loaded" \in running'[j]
         /\ running'[k] = Live(running[k], name, value)
         /\ \A j \in Key \ {k} : running'[j] = running[j]
<1>1. running \in [Key -> SUBSET Does] /\ \A j \in Key : running[j] # {} => "loaded" \in running[j]
  BY DEF WorldInv
<1>2. /\ Live(running[k], name, value) \subseteq Does
      /\ Live(running[k], name, value) # {} => "loaded" \in Live(running[k], name, value)
  BY <1>1, LiveType
<1> QED
  BY <1>1, <1>2

LEMMA WorldStep == IInv /\ WorldInv /\ [Next]_vars => WorldInv'
<1> SUFFICES ASSUME IInv, WorldInv, [Next]_vars PROVE WorldInv'
  OBVIOUS
<1>t. /\ TypeInv /\ StageInv /\ active \in Active /\ active.key \in Key /\ active.added \subseteq Stream
      /\ file \in Config /\ Streams(file) \subseteq Stream /\ request \in [Op -> Request]
      /\ Touched \subseteq Op
  BY TouchedType DEF IInv, TypeInv, Active, Streams
<1>u. /\ faults' \in Nat /\ crashes' \in Nat
  BY FaultsGrow
<1>1. ASSUME OutOfSight \/ UNCHANGED vars PROVE WorldInv'
  <2>1. UNCHANGED <<running, live, author, shown, lost, spoilt, stale>>
    BY <1>1, NothingSeen DEF vars, frigate, seen
  <2> QED
    BY <1>u, <2>1 DEF WorldInv
<1>2. ASSUME ReadFails \/ RemoveAdded \/ RemoveStreams \/ WriteOut \/ Crash PROVE WorldInv'
  <2>1. /\ UNCHANGED <<running, author, shown, lost, stale>>
        /\ live' \subseteq live /\ spoilt' \in {spoilt, spoilt \cup Touched}
    <3>1. CASE ReadFails \/ WriteOut \/ Crash
      BY <3>1 DEF ReadFails, WriteOut, Crash, Undone, frigate
    <3>2. CASE RemoveAdded \/ RemoveStreams
      BY <3>2 DEF RemoveAdded, RemoveStreams, Undone
    <3> QED
      BY <1>2, <3>1, <3>2
  <2> QED
    BY <1>t, <1>u, <2>1 DEF WorldInv
<1>3. ASSUME AddStream PROVE WorldInv'
  <2> DEFINE s == <<active.key, IF At("addMain") THEN "main" ELSE "sub">>
  <2>1. s \in Stream /\ s \in Piece /\ active.op \in Op
    BY <1>t, <1>3 DEF AddStream, Stream, Piece, TypeInv
  <2>2. /\ UNCHANGED <<running, shown, spoilt, stale>>
        /\ live' \in {live, live \cup {s}} /\ lost' \in {lost, lost \cup {active.op}}
        /\ author' = [author EXCEPT ![s] = active.op]
    BY <1>3 DEF AddStream, Unanswered
  <2> HIDE DEF s
  <2>3. author' \in [Piece -> Op \cup {NoOp}] /\ live' \subseteq Stream
    BY <2>1, <2>2 DEF WorldInv
  <2> QED
    BY <1>t, <1>u, <2>1, <2>2, <2>3 DEF WorldInv
<1>4. ASSUME WriteCamera PROVE WorldInv'
  <2>1. <<active.key, "camera">> \in Piece /\ active.op \in Op
    BY <1>t, <1>4 DEF WriteCamera, At, Piece, TypeInv
  <2>2. /\ UNCHANGED <<running, live, shown, spoilt, stale>> /\ lost' \in {lost, lost \cup {active.op}}
        /\ author' = author \/ author' = [author EXCEPT ![<<active.key, "camera">>] = active.op]
    BY <1>4 DEF WriteCamera, Unanswered
  <2>3. author' \in [Piece -> Op \cup {NoOp}]
    BY <2>1, <2>2 DEF WorldInv
  <2> QED
    BY <1>t, <1>u, <2>1, <2>2, <2>3 DEF WorldInv
<1>5. ASSUME Restart \/ RestartWithout PROVE WorldInv'
  <2>1. /\ UNCHANGED <<author, shown, lost, spoilt, stale>>
        /\ Restarted \/ UNCHANGED <<running, live>>
    BY <1>5 DEF Restart, RestartWithout, seen
  <2>2. /\ running' \in [Key -> SUBSET Does]
        /\ \A k \in Key : running'[k] # {} => "loaded" \in running'[k]
        /\ live' \subseteq Stream
    BY <1>t, <2>1, DoingType DEF Restarted, WorldInv
  <2> QED
    BY <1>u, <2>1, <2>2 DEF WorldInv
<1>6. ASSUME Drain \/ SetSection PROVE WorldInv'
  <2>1. /\ UNCHANGED <<live, author, shown, lost, spoilt, stale>>
        /\ \/ running' = running
           \/ \E name \in {"record", "detect"}, value \in BOOLEAN :
                running' = [running EXCEPT ![active.key] = Live(@, name, value)]
    <3>1. CASE Drain
      BY <3>1 DEF Drain, seen
    <3>2. CASE SetSection
      <4> DEFINE name == IF "record" \in active.todo THEN "record" ELSE "detect"
      <4>1. /\ UNCHANGED <<live, author, shown, lost, spoilt, stale>>
            /\ \/ running' = running
               \/ running' = [running EXCEPT ![active.key] =
                                Live(@, name, request[active.op].changes[name])]
        BY <3>2 DEF SetSection, seen
      <4>2. name \in {"record", "detect"} /\ request[active.op].changes[name] \in BOOLEAN
        <5>1. /\ Kind = "configure" /\ active.op \in Op /\ request[active.op] \in Request
              /\ name \in DOMAIN request[active.op].changes
          BY <1>t, <3>2 DEF SetSection, StageInv, TypeInv, At, Active
        <5> QED
          BY <5>1 DEF Request, Kind
      <4> QED
        BY <4>1, <4>2
    <3> QED
      BY <1>6, <3>1, <3>2
  <2>2. /\ running' \in [Key -> SUBSET Does]
        /\ \A k \in Key : running'[k] # {} => "loaded" \in running'[k]
    BY <1>t, <2>1, RunningType DEF WorldInv
  <2> QED
    BY <1>u, <2>1, <2>2 DEF WorldInv
<1>7. ASSUME BeginAdd \/ ReadBefore \/ WaitFps PROVE WorldInv'
  <2>1. /\ UNCHANGED <<running, live, author, lost, spoilt>> /\ active.op \in Op
        /\ shown' \subseteq shown \cup {active.key} /\ stale' \in {stale, stale \cup {active.op}}
    <3>1. CASE BeginAdd
      BY <1>t, <3>1 DEF BeginAdd, TypeInv, At
    <3>2. CASE ReadBefore
      BY <1>t, <3>2 DEF ReadBefore, TypeInv, At
    <3>3. CASE WaitFps
      BY <1>t, <3>3 DEF WaitFps, TypeInv, At, frigate
    <3> QED
      BY <1>7, <3>1, <3>2, <3>3
  <2> QED
    BY <1>t, <1>u, <2>1 DEF WorldInv
<1> QED
  BY <1>1, <1>2, <1>3, <1>4, <1>5, <1>6, <1>7 DEF Next, JobStep, OutOfSight

LEMMA TypesHold == IInv /\ HistoryInv /\ WorldInv => TypeOK
<1> SUFFICES ASSUME IInv, HistoryInv, WorldInv PROVE TypeOK
  OBVIOUS
<1>1. /\ file \in Config /\ cached \in SUBSET Config /\ active.op \in Op \cup {NoOp}
      /\ active.key \in Key /\ active.added \subseteq Stream
  BY DEF IInv, TypeInv, Active
<1> QED
  BY <1>1 DEF TypeOK, HistoryInv, WorldInv, States, Does
----------------------------------------------------------------------------
(* Recording stops before a camera goes *)

(* While a camera that was taken out of the file is taken out of go2rtc and *)
(* Frigate restarts, an answer from before may still be repeated.           *)
Between ==
  active.at \in {"outRestart", "outBack"} \/ (At("outStreams") /\ active.drop)

(* As long as no call failed: what the file does not have does not record,  *)
(* and no cached answer has it.                                             *)
DrainInv ==
  faults = 0 =>
    /\ \A k \in Key \ {Placeholder} : ~Has(file, k) =>
         "record" \notin running[k] /\ (Between \/ \A c \in cached : ~Has(c, k))
    /\ At("set") => active.key = Placeholder \/ Has(file, active.key)
    /\ At("outRead") => "record" \notin running[active.key]
    /\ At("outWrite") /\ Has(active.config, active.key) => "record" \notin running[active.key]

LEMMA DrainInit == Init => DrainInv
<1> SUFFICES ASSUME Init PROVE DrainInv
  OBVIOUS
<1>1. \A k \in Key : ~Has(file, k) => running[k] = {}
  BY DoingType DEF Init, Has
<1> QED
  BY <1>1 DEF Init, DrainInv, At, Idle

LEMMA DrainStill ==
  ASSUME DrainInv, faults' = faults, UNCHANGED <<file, running, active>>,
         cached' \subseteq cached \cup {file}
  PROVE  DrainInv'
  BY DEF DrainInv, At, Between

(* A step after which nothing is known of one camera in particular. *)
LEMMA DrainGoing ==
  ASSUME DrainInv, faults' = 0 => faults = 0,
         faults' = 0 =>
           /\ \A k \in Key \ {Placeholder} : ~Has(file', k) =>
                ~Has(file, k) /\ ("record" \in running'[k] => "record" \in running[k])
           /\ Between => Between' \/ cached' = {},
         cached' \subseteq cached \cup {file'},
         active'.at \notin {"set", "outRead", "outWrite"}
  PROVE  DrainInv'
<1> SUFFICES ASSUME faults' = 0
             PROVE  \A k \in Key \ {Placeholder} : ~Has(file', k) =>
                      "record" \notin running'[k] /\ (Between' \/ \A c \in cached' : ~Has(c, k))
  BY DEF DrainInv, At
<1> QED
  BY DEF DrainInv

LEMMA NoFaults ==
  ASSUME WorldInv, [Next]_vars
  PROVE  (faults' = 0 => faults = 0) /\ (Strike(1) => faults' # 0)
<1>1. faults \in Nat /\ faults' \in Nat /\ faults' >= faults
  BY FaultsGrow DEF WorldInv
<1> QED
  BY <1>1 DEF Strike

(* Steps that leave the file and what runs alone, and are calm. *)
LEMMA DrainOutOfSight ==
  ASSUME IInv, WorldInv, DrainInv, [Next]_vars, OutOfSight,
         ~ReadDrained, ~BeginConfigure, ~DropPlaceholder, ~SetAll
  PROVE  DrainInv'
<1>t. active \in Active /\ (faults' = 0 => faults = 0)
  BY NoFaults DEF IInv, TypeInv
<1>r. running' = running
  BY NothingSeen
<1>1. ASSUME NEW op \in Op, Ask(op) \/ Load(op) PROVE DrainInv'
  <2>1. file' = file /\ cached' = cached /\ faults' = faults
    BY <1>1 DEF Ask, Load, frigate
  <2>2. CASE active' = active
    BY <1>r, <2>1, <2>2, DrainStill
  <2>3. CASE active' # active
    <3>1. active = Idle /\ active'.at = "save"
      BY <1>1, <2>3 DEF Ask, Load, Start, Idle
    <3> QED
      BY <1>r, <2>1, <3>1, DrainGoing DEF Between, At, Idle
  <2> QED
    BY <2>2, <2>3
<1>2. ASSUME Poll \/ Expire PROVE DrainInv'
  BY <1>2, <1>r, DrainStill DEF Poll, Expire
<1>3. ASSUME SaveStarted \/ SaveFinished \/ CheckStreams \/ WaitBack \/ RecordManaged \/ RememberAdded
      PROVE  DrainInv'
  <2>1. /\ file' = file /\ cached' \subseteq cached
        /\ active.at \in {"save", "end", "streams", "back", "record", "password"}
        /\ \/ active' = Idle
           \/ \E at \in {"begin", "end", "addMain", "placeholder", "verify", "out", "password"} :
                active' = [active EXCEPT !.at = at]
    <3>1. CASE SaveStarted \/ SaveFinished \/ CheckStreams
      BY <3>1 DEF SaveStarted, SaveFinished, CheckStreams, Go, Finish, At, frigate
    <3>2. CASE WaitBack \/ RecordManaged \/ RememberAdded
      BY <3>2 DEF WaitBack, RecordManaged, RememberAdded, Broken, Go, Finish, At, frigate
    <3> QED
      BY <1>3, <3>1, <3>2
  <2>2. ~Between /\ active'.at \notin {"set", "outRead", "outWrite"}
    BY <1>t, <2>1 DEF Between, At, Active, Idle
  <2> QED
    BY <1>t, <1>r, <2>1, <2>2, DrainGoing
<1>4. ASSUME BeginRemove \/ RememberRemoved \/ ForgetManaged \/ ReadSettings
      PROVE  DrainInv'
  <2>1. /\ file' = file /\ cached' \subseteq cached \cup {file}
        /\ active.at \in {"begin", "access", "forget", "after", "set"}
        /\ \/ \E at \in {"end", "out"} : active' = [active EXCEPT !.at = at]
           \/ \E key, added : active' = [active EXCEPT !.at = "access", !.key = key, !.added = added]
    <3>1. CASE BeginRemove
      BY <3>1 DEF BeginRemove, Read, Finish, At
    <3>2. CASE RememberRemoved \/ ForgetManaged \/ ReadSettings
      BY <3>2 DEF RememberRemoved, ForgetManaged, ReadSettings, Go, Finish, At, frigate
    <3> QED
      BY <1>4, <3>1, <3>2
  <2>2. ~Between /\ active'.at \notin {"set", "outRead", "outWrite"}
    BY <1>t, <2>1 DEF Between, At, Active
  <2> QED
    BY <1>t, <1>r, <2>1, <2>2, DrainGoing
<1>5. ASSUME WaitBackWithout PROVE DrainInv'
  <2>1. /\ file' = file /\ cached' = {}
        /\ \E at \in {"end", "forget"} : active' = [active EXCEPT !.at = at]
    BY <1>5 DEF WaitBackWithout, TakenOut, Go, Finish
  <2>2. active'.at \notin {"set", "outRead", "outWrite"}
    BY <1>t, <2>1 DEF Active
  <2> QED
    BY <1>t, <1>r, <2>1, <2>2, DrainGoing
<1> QED
  BY <1>1, <1>2, <1>3, <1>4, <1>5 DEF OutOfSight

(* What the file has after a write. *)
LEMMA AfterWithout ==
  ASSUME NEW f, NEW ks, NEW names
  PROVE  /\ \A k \in Key : Without(f, ks, names).cameras[k] = IF k \in ks THEN NoCamera ELSE f.cameras[k]
         /\ \A k \in Key : Has(Without(f, ks, names), k) <=> Has(f, k) /\ k \notin ks
         /\ Streams(Without(f, ks, names)) = Streams(f) \ names
  BY DEF Without, Has, Streams

Written(f, k, camera, names, h) ==
  f \in Config /\ k \in Key /\ camera # NoCamera /\ names \subseteq Stream /\ h \in Host

LEMMA AfterWith ==
  ASSUME NEW f, NEW k, NEW camera, NEW names, NEW h, Written(f, k, camera, names, h)
  PROVE  /\ \A j \in Key : With(f, k, camera, names, h).cameras[j] = IF j = k THEN camera ELSE f.cameras[j]
         /\ \A j \in Key : Has(With(f, k, camera, names, h), j) <=> Has(f, j) \/ j = k
         /\ Streams(With(f, k, camera, names, h)) = Streams(f) \cup names
<1>1. f.cameras \in [Key -> Camera] /\ h # NoHost
  BY FrigateAssumption DEF Config, Written
<1>2. \A j \in Key : With(f, k, camera, names, h).cameras[j] = IF j = k THEN camera ELSE f.cameras[j]
  BY <1>1 DEF With, Written
<1>3. \A s \in Stream : With(f, k, camera, names, h).streams[s] = IF s \in names THEN h ELSE f.streams[s]
  BY DEF With
<1> QED
  BY <1>1, <1>2, <1>3 DEF Has, Streams, Written

(* The write of the camera: nothing happens to the others. *)
LEMMA AfterWrite ==
  ASSUME IInv, WriteCamera
  PROVE  \/ file' = file
         \/ /\ \A j \in Key : Has(file', j) <=> Has(file, j) \/ j = active.key
            /\ \A j \in Key \ {active.key} : file'.cameras[j] = file.cameras[j]
            /\ Streams(file') = Streams(file) \cup active.added
<1> DEFINE r == request[active.op]
           block == CameraConfig(active.key, r, active.added # {})
           g == With(file, active.key, block, active.added, r.host)
<1>1. /\ active.op \in Op /\ Kind = "add" /\ r \in Request /\ file \in Config
      /\ active.key \in Key /\ active.added \subseteq Stream
  BY DEF IInv, TypeInv, StageInv, WriteCamera, At, Active
<1>2. r.host \in Host /\ block # NoCamera
  BY <1>1 DEF Request, Kind, CameraConfig, NoCamera
<1>3. file' = file \/ file' = g
  BY DEF WriteCamera, ConfigSet
<1> HIDE DEF block, r
<1>4. /\ \A j \in Key : g.cameras[j] = IF j = active.key THEN block ELSE file.cameras[j]
      /\ \A j \in Key : Has(g, j) <=> Has(file, j) \/ j = active.key
      /\ Streams(g) = Streams(file) \cup active.added
  <2>1. Written(file, active.key, block, active.added, r.host)
    BY <1>1, <1>2 DEF Written
  <2> QED
    BY <2>1, AfterWith
<1> QED
  BY <1>3, <1>4

(* A setting leaves every camera where it is, and every stream. *)
LEMMA AfterSetting ==
  ASSUME NEW f, NEW k, NEW camera, NEW g, Setting(f, k, camera, g)
  PROVE  /\ \A j \in Key : g.cameras[j] = IF j = k THEN camera ELSE f.cameras[j]
         /\ \A j \in Key : Has(g, j) <=> Has(f, j)
         /\ \A j \in Key : g.cameras[j].reads = f.cameras[j].reads
         /\ Streams(g) = Streams(f)
<1>1. f \in Config /\ g.cameras = [f.cameras EXCEPT ![k] = camera] /\ g.streams = f.streams
  BY DEF Setting, Works, Config
<1>2. \A j \in Key : g.cameras[j] = IF j = k THEN camera ELSE f.cameras[j]
  BY <1>1 DEF Config
<1>3. f.cameras[k] # NoCamera => camera # NoCamera
  BY DEF Setting, Works, NoCamera
<1> QED
  BY <1>1, <1>2, <1>3 DEF Setting, Has, Streams

(* What a step applies to the file of settings. *)
LEMMA SettingSteps ==
  ASSUME IInv, SetAll \/ SetSection \/ Drain
  PROVE  /\ \A j \in Key : Has(file', j) <=> Has(file, j)
         /\ \A j \in Key : file'.cameras[j].reads = file.cameras[j].reads
         /\ \A j \in Key \ {active.key} : file'.cameras[j] = file.cameras[j]
         /\ Streams(file') = Streams(file)
<1>t. /\ TypeInv /\ StageInv /\ FileInv /\ active.key \in Key /\ file.cameras[active.key] \in Camera
  BY DEF IInv, TypeInv, Active, Config
<1> DEFINE k == active.key
           changes == request[active.op].changes
<1>1. CASE file' = file
  BY <1>1
<1>2. CASE \E camera : Setting(file, k, camera, file')
  BY <1>2, AfterSetting
<1>3. CASE Drain /\ file' # file
  <2> DEFINE camera == [file.cameras[k] EXCEPT !.record = FALSE]
  <2>1. Has(file, k) /\ file' = [file EXCEPT !.cameras[k] = camera]
    BY <1>3 DEF Drain, Strike
  <2>2. /\ camera \in Camera /\ camera.host = file.cameras[k].host
        /\ camera.reads = file.cameras[k].reads /\ camera.live = file.cameras[k].live
    BY <1>t DEF Camera
  <2> HIDE DEF camera
  <2>3. Setting(file, k, camera, file')
    BY <1>t, <2>1, <2>2 DEF Setting, FileInv, Has
  <2> QED
    BY <1>2, <2>3
<1>4. CASE SetAll /\ file' # file
  <2> DEFINE changed == Settings(file.cameras[k], changes)
  <2>1. file' = Set(changed)
    BY <1>4 DEF SetAll, ConfigSet
  <2>2. Kind = "configure" /\ request[active.op] \in Request
    BY <1>t, <1>4 DEF SetAll, At, TypeInv, StageInv
  <2>3. /\ "record" \in DOMAIN changes => changes.record \in BOOLEAN
        /\ "detect" \in DOMAIN changes => changes.detect \in BOOLEAN
    BY <2>2 DEF Request, Kind
  <2> HIDE DEF changes
  <2>4. /\ changed \in Camera /\ changed.host = file.cameras[k].host
        /\ changed.reads = file.cameras[k].reads /\ changed.live = file.cameras[k].live
    BY <1>t, <2>3 DEF Settings, Camera
  <2> HIDE DEF changed
  <2>5. \E camera : Setting(file, k, camera, Set(changed))
    BY <1>t, <2>4, Changed
  <2> QED
    BY <1>2, <2>1, <2>5
<1>5. CASE SetSection /\ file' # file
  <2> DEFINE name == IF "record" \in active.todo THEN "record" ELSE "detect"
             changed == Section(file.cameras[k], name, changes[name])
  <2>1. file' = Set(changed)
    BY <1>5 DEF SetSection, ConfigSet
  <2>2. Kind = "configure" /\ request[active.op] \in Request
    BY <1>t, <1>5 DEF SetSection, At, TypeInv, StageInv
  <2>3. name \in {"record", "detect"} /\ name \in DOMAIN changes
    BY <1>t, <1>5 DEF SetSection, StageInv, TypeInv, Active, At
  <2>4. changes[name] \in BOOLEAN
    BY <2>2, <2>3 DEF Request, Kind
  <2> HIDE DEF changes, name
  <2>5. /\ changed \in Camera /\ changed.host = file.cameras[k].host
        /\ changed.reads = file.cameras[k].reads /\ changed.live = file.cameras[k].live
    BY <1>t, <2>3, <2>4 DEF Section, Camera
  <2> HIDE DEF changed
  <2>6. \E camera : Setting(file, k, camera, Set(changed))
    BY <1>t, <2>5, Changed
  <2> QED
    BY <1>2, <2>1, <2>6
<1> QED
  BY <1>1, <1>3, <1>4, <1>5

(* What a restart leaves running is in the file. *)
LEMMA DrainRestart ==
  ASSUME IInv, WorldInv, DrainInv, [Next]_vars, Restart \/ RestartWithout
  PROVE  DrainInv'
<1>t. active \in Active /\ (faults' = 0 => faults = 0) /\ (Strike(1) => faults' # 0)
  BY NoFaults DEF IInv, TypeInv
<1>1. /\ file' = file /\ cached' = cached
      /\ \/ running' = running
         \/ \A k \in Key : running'[k] = Doing(file.cameras[k])
  BY DEF Restart, RestartWithout, Restarted
<1>2. \A k \in Key : ~Has(file, k) => running'[k] = running[k] \/ running'[k] = {}
  BY <1>1, DoingType DEF Has
<1>3. \/ RestartWithout /\ active' = [active EXCEPT !.at = "outBack"]
      \/ RestartWithout /\ Strike(1) /\ active' = [active EXCEPT !.at = "end"]
      \/ Restart /\ \E at \in {"back", "out", "end"} : active' = [active EXCEPT !.at = at]
  BY DEF Restart, RestartWithout, Broken, Go, Finish
<1>4. active'.at \notin {"set", "outRead", "outWrite"}
  BY <1>t, <1>3 DEF Active
<1>5. faults' = 0 /\ Between => Between'
  BY <1>t, <1>3 DEF Between, Active, Restart, At
<1> QED
  BY <1>t, <1>1, <1>2, <1>4, <1>5, DrainGoing

(* The reads and writes on the way out. *)
LEMMA DrainOut ==
  ASSUME IInv, WorldInv, DrainInv, [Next]_vars,
         ReadBefore \/ Drain \/ ReadDrained \/ WriteOut \/ RemoveStreams
  PROVE  DrainInv'
<1>t. /\ TypeInv /\ active \in Active /\ active.key \in Key /\ running \in [Key -> SUBSET Does]
      /\ (faults' = 0 => faults = 0) /\ (Strike(1) => faults' # 0)
  BY NoFaults DEF IInv, TypeInv, Active, WorldInv
<1>1. ASSUME ReadBefore PROVE DrainInv'
  <2> USE <1>1 DEF ReadBefore
  <2>1. PICK config \in {file} \cup cached :
          /\ Read(config)
          /\ active' = [active EXCEPT !.at = IF Has(config, active.key) THEN "drain" ELSE "outWrite",
                                      !.config = config]
    BY Zenon
  <2>2. /\ file' = file /\ running' = running /\ cached' = {config} /\ At("out")
    BY <2>1 DEF Read
  <2>3. /\ active'.config = config /\ active'.key = active.key
        /\ active'.at = IF Has(config, active.key) THEN "drain" ELSE "outWrite"
    BY <1>t, <2>1 DEF Active
  <2>4. active'.at = "outWrite" => ~Has(config, active.key)
    BY <2>3
  <2>5. active'.at \in {"drain", "outWrite"}
    BY <2>3
  <2> QED
    BY <1>t, <2>1, <2>2, <2>3, <2>4, <2>5 DEF DrainInv, At, Between
<1>2. ASSUME Drain PROVE DrainInv'
  <2> USE <1>2 DEF Drain
  <2>1. /\ active' = [active EXCEPT !.at = "outRead"] /\ cached' = {}
        /\ \A k \in Key : Has(file', k) <=> Has(file, k)
    BY SettingSteps DEF Go
  <2>2. active'.at = "outRead" /\ active'.key = active.key
    BY <1>t, <2>1 DEF Active
  <2>3. faults' = 0 => running' = [running EXCEPT ![active.key] = Live(@, "record", FALSE)]
    BY <1>t
  <2>4. ASSUME faults' = 0 
        PROVE  /\ "record" \notin running'[active.key]
               /\ \A k \in Key \ {active.key} : running'[k] = running[k]
    <3>1. /\ running'[active.key] = Live(running[active.key], "record", FALSE)
          /\ \A k \in Key \ {active.key} : running'[k] = running[k]
      BY <1>t, <2>3, <2>4
    <3> QED
      BY <3>1, LiveType DEF Live
  <2> QED
    BY <1>t, <2>1, <2>2, <2>4 DEF DrainInv, At
<1>3. ASSUME ReadDrained PROVE DrainInv'
  <2> USE <1>3 DEF ReadDrained
  <2>1. PICK config \in {file} \cup cached :
          Read(config) /\ active' = [active EXCEPT !.at = "outWrite", !.config = config]
    BY Zenon
  <2>2. /\ file' = file /\ running' = running /\ cached' = {config} /\ At("outRead")
    BY <2>1 DEF Read
  <2>3. active'.key = active.key /\ active'.at = "outWrite"
    BY <1>t, <2>1 DEF Active
  <2> QED
    BY <1>t, <2>1, <2>2, <2>3 DEF DrainInv, At, Between
<1>4. ASSUME WriteOut PROVE DrainInv'
  <2> DEFINE drop == IF Has(active.config, active.key) THEN {active.key} ELSE {}
             names == active.added \cap Streams(active.config)
  <2>1. /\ running' = running /\ cached' = cached /\ At("outWrite")
        /\ (file' = file /\ drop = {}) \/ faults' # 0 \/ file' = Without(file, drop, names)
        /\ \/ active' = [active EXCEPT !.at = "outStreams", !.drop = drop # {}]
           \/ active' = [active EXCEPT !.at = "end"] /\ faults' # 0
    BY <1>t, <1>4 DEF WriteOut, ConfigSet, Finish, Strike, WorldInv
  <2> HIDE DEF drop, names
  <2>2. \A k \in Key : faults' = 0 => (Has(file', k) <=> Has(file, k) /\ k \notin drop)
    BY <2>1, AfterWithout
  <2>3. faults' = 0 => active'.at = "outStreams" /\ active'.drop = (drop # {})
    BY <1>t, <2>1 DEF Active
  <2>4. active'.at \in {"outStreams", "end"}
    BY <1>t, <2>1 DEF Active
  <2>5. drop = {} \/ (drop = {active.key} /\ Has(active.config, active.key))
    BY DEF drop
  <2> QED
    BY <1>t, <2>1, <2>2, <2>3, <2>4, <2>5 DEF DrainInv, Between, At
<1>5. ASSUME RemoveStreams PROVE DrainInv'
  <2>1. /\ file' = file /\ running' = running /\ cached' = cached /\ At("outStreams")
        /\ IF active.drop THEN active' = [active EXCEPT !.at = "outRestart"]
           ELSE \E at \in {"end", "forget"} : active' = [active EXCEPT !.at = at]
    BY <1>5 DEF RemoveStreams, TakenOut, Go, Finish
  <2>2. /\ active'.at \notin {"set", "outRead", "outWrite"}
        /\ Between => Between'
    BY <1>t, <2>1 DEF Active, Between, At
  <2> QED
    BY <1>t, <2>1, <2>2, DrainGoing
<1> QED
  BY <1>1, <1>2, <1>3, <1>4, <1>5

(* Settings: recording is switched on only for a camera the file has. *)
LEMMA DrainSettings ==
  ASSUME IInv, WorldInv, DrainInv, [Next]_vars, BeginConfigure \/ SetAll \/ SetSection
  PROVE  DrainInv'
<1>t. /\ TypeInv /\ StageInv /\ active \in Active /\ active.key \in Key
      /\ running \in [Key -> SUBSET Does] /\ (faults' = 0 => faults = 0) /\ (Strike(1) => faults' # 0)
  BY NoFaults DEF IInv, TypeInv, Active, WorldInv
<1>1. ASSUME BeginConfigure PROVE DrainInv'
  <2> DEFINE r == request[active.op]
  <2> USE <1>1 DEF BeginConfigure
  <2>1. PICK config \in {file} \cup cached :
          /\ Read(config)
          /\ \/ active' = [active EXCEPT !.at = "end"]
             \/ Has(config, r.key) /\ \E at \in {"setAll", "set"} :
                  active' = [active EXCEPT !.key = r.key, !.todo = DOMAIN r.changes, !.at = at]
    <3>1. PICK config \in {file} \cup cached :
            /\ Read(config)
            /\ IF ~Has(config, r.key) THEN Finish("failed")
               ELSE active' = [active EXCEPT !.key = r.key, !.todo = DOMAIN r.changes,
                      !.at = IF "record" \in DOMAIN r.changes /\ r.changes.record
                                /\ ~config.cameras[r.key].record
                             THEN "setAll" ELSE "set"]
      BY Zenon
    <3>2. \/ active' = [active EXCEPT !.at = "end"]
          \/ Has(config, r.key) /\ \E at \in {"setAll", "set"} :
                  active' = [active EXCEPT !.key = r.key, !.todo = DOMAIN r.changes, !.at = at]
      <4> DEFINE next == IF "record" \in DOMAIN r.changes /\ r.changes.record
                            /\ ~config.cameras[r.key].record
                         THEN "setAll" ELSE "set"
      <4>1. CASE ~Has(config, r.key)
        BY <3>1, <4>1 DEF Finish
      <4>2. CASE Has(config, r.key)
        <5>1. active' = [active EXCEPT !.key = r.key, !.todo = DOMAIN r.changes, !.at = next]
          BY <3>1, <4>2
        <5>2. next \in {"setAll", "set"}
          OBVIOUS
        <5> HIDE DEF next, r
        <5> QED
          BY ONLY <4>2, <5>1, <5>2
      <4> QED
        BY <4>1, <4>2
    <3> QED
      BY <3>1, <3>2
  <2>2. /\ file' = file /\ running' = running /\ cached' = {config} /\ At("begin")
    BY <2>1 DEF Read
  <2>3. /\ active'.at \in {"end", "setAll", "set"}
        /\ active'.at = "set" => active'.key = r.key /\ Has(config, r.key)
    BY <1>t, <2>1 DEF Active
  <2>4. r.key \in Key
    BY <1>t DEF TypeInv, Request, Kind, At
  <2> HIDE DEF r
  <2> QED
    BY <1>t, <2>1, <2>2, <2>3, <2>4 DEF DrainInv, At, Between
<1>2. ASSUME SetAll PROVE DrainInv'
  <2>1. /\ running' = running /\ cached' = cached /\ At("setAll")
        /\ \A k \in Key : Has(file', k) <=> Has(file, k)
        /\ \E at \in {"restart", "end"} : active' = [active EXCEPT !.at = at]
    BY <1>2, SettingSteps DEF SetAll, Go, Finish
  <2>2. ~Between /\ active'.at \notin {"set", "outRead", "outWrite"}
    BY <1>t, <2>1 DEF Active, Between, At
  <2> QED
    BY <1>t, <2>1, <2>2, DrainGoing
<1>3. ASSUME SetSection PROVE DrainInv'
  <2> DEFINE name == IF "record" \in active.todo THEN "record" ELSE "detect"
             value == request[active.op].changes[name]
  <2>1. /\ cached' = cached /\ At("set")
        /\ \A k \in Key : Has(file', k) <=> Has(file, k)
        /\ \/ running' = running
           \/ running' = [running EXCEPT ![active.key] = Live(@, name, value)]
        /\ \/ active' = [active EXCEPT !.todo = @ \ {name}]
           \/ active' = [active EXCEPT !.at = "end"]
    BY <1>3, SettingSteps DEF SetSection, Finish
  <2> HIDE DEF name, value
  <2>2. active'.at \in {"set", "end"} /\ active'.key = active.key
    BY <1>t, <2>1 DEF Active, At
  <2>3. \A k \in Key \ {active.key} : running'[k] = running[k]
    BY <1>t, <2>1
  <2> QED
    BY <1>t, <2>1, <2>2, <2>3 DEF DrainInv, At, Between
<1> QED
  BY <1>1, <1>2, <1>3

(* The writes of an addition, and the steps that end a job or begin one. *)
LEMMA DrainAdding ==
  ASSUME IInv, WorldInv, DrainInv, [Next]_vars,
         \/ DropPlaceholder \/ WriteCamera \/ AddStream \/ RemoveAdded \/ BeginAdd \/ WaitFps
         \/ ReadFails
  PROVE  DrainInv'
<1>t. active \in Active /\ (faults' = 0 => faults = 0) /\ (Strike(1) => faults' # 0)
  BY NoFaults DEF IInv, TypeInv
<1>1. CASE DropPlaceholder \/ WriteCamera
  <2>1. /\ running' = running /\ cached' = cached /\ active.at \in {"placeholder", "write"}
        /\ \E at \in {"write", "restart", "undo"} : active' = [active EXCEPT !.at = at]
    BY <1>1 DEF DropPlaceholder, WriteCamera, Go, At
  <2>2. \A k \in Key \ {Placeholder} : ~Has(file', k) => ~Has(file, k)
    <3>1. CASE DropPlaceholder
      <4>1. file' = file \/ file' = Without(file, {Placeholder}, {})
        BY <3>1 DEF DropPlaceholder, ConfigSet
      <4> QED
        BY <4>1, AfterWithout
    <3>2. CASE WriteCamera
      BY <3>2, AfterWrite
    <3> QED
      BY <1>1, <3>1, <3>2
  <2>3. ~Between /\ active'.at \notin {"set", "outRead", "outWrite"}
    BY <1>t, <2>1 DEF Active, Between, At
  <2> QED
    BY <1>t, <2>1, <2>2, <2>3, DrainGoing
<1>2. CASE AddStream \/ RemoveAdded \/ BeginAdd
  <2>1. /\ running' = running /\ file' = file /\ cached' \subseteq cached \cup {file}
        /\ active.at \in {"addMain", "addSub", "undo", "begin"}
        /\ active'.at \in {"addSub", "placeholder", "undo", "end", "streams"}
    <3>1. CASE AddStream
      <4>1. /\ running' = running /\ file' = file /\ cached' = cached
            /\ active.at \in {"addMain", "addSub"}
            /\ \/ \E next \in {"addSub", "placeholder"} : \E added :
                    active' = [active EXCEPT !.at = next, !.added = added]
               \/ active' = [active EXCEPT !.at = "undo"]
        BY <3>1 DEF AddStream
      <4> QED
        BY <1>t, <4>1 DEF Active
    <3>2. CASE RemoveAdded
      BY <1>t, <3>2 DEF RemoveAdded, Finish, Active, At
    <3>3. CASE BeginAdd
      <4>1. /\ running' = running /\ file' = file /\ cached' \subseteq cached \cup {file} /\ At("begin")
            /\ \/ Finish("failed")
               \/ \E k, config : active' = [active EXCEPT !.at = "streams", !.key = k, !.config = config]
        BY <3>3 DEF BeginAdd, Read
      <4> QED
        BY <1>t, <4>1 DEF Active, Finish, At
    <3> QED
      BY <1>2, <3>1, <3>2, <3>3
  <2> QED
    BY <1>t, <2>1, DrainGoing DEF Between, At
<1>3. CASE WaitFps
  <2>1. /\ running' = running /\ file' = file /\ cached' = cached /\ At("verify")
        /\ \E at \in {"record", "after", "out"} : active' = [active EXCEPT !.at = at]
    BY <1>3 DEF WaitFps, Go, frigate
  <2> QED
    BY <1>t, <2>1, DrainGoing DEF Between, At, Active
<1>4. CASE ReadFails
  BY <1>t, <1>4 DEF ReadFails, DrainInv
<1> QED
  BY <1>1, <1>2, <1>3, <1>4

LEMMA DrainInvStep == IInv /\ WorldInv /\ DrainInv /\ [Next]_vars => DrainInv'
<1> SUFFICES ASSUME IInv, WorldInv, DrainInv, [Next]_vars PROVE DrainInv'
  OBVIOUS
<1>1. CASE UNCHANGED vars
  BY <1>1, DrainStill DEF vars, frigate
<1>2. CASE Crash
  <2>1. /\ UNCHANGED <<file, running, faults>> /\ cached' = {} /\ active' = Idle
    BY <1>2 DEF Crash
  <2> QED
    BY <2>1, DrainGoing DEF Idle
<1>3. CASE \/ ReadDrained \/ BeginConfigure \/ DropPlaceholder \/ SetAll \/ SetSection \/ ReadBefore
           \/ Drain \/ WriteOut \/ RemoveStreams
  BY <1>3, DrainOut, DrainSettings, DrainAdding
<1>4. CASE Restart \/ RestartWithout
  BY <1>4, DrainRestart
<1>5. CASE WriteCamera \/ AddStream \/ RemoveAdded \/ BeginAdd \/ WaitFps \/ ReadFails
  BY <1>5, DrainAdding
<1>6. CASE OutOfSight /\ ~ReadDrained /\ ~BeginConfigure /\ ~DropPlaceholder /\ ~SetAll
  BY <1>6, DrainOutOfSight
<1>7. \/ UNCHANGED vars \/ Crash \/ SetSection \/ ReadBefore \/ Drain \/ WriteOut \/ RemoveStreams
      \/ Restart \/ RestartWithout \/ WriteCamera \/ AddStream \/ RemoveAdded \/ BeginAdd \/ WaitFps
      \/ ReadFails \/ OutOfSight
  BY DEF Next, JobStep, OutOfSight
<1> QED
  BY <1>1, <1>2, <1>3, <1>4, <1>5, <1>6, <1>7

(* What ran and runs no more was not recording, or a call failed. *)
LEMMA Drained ==
  ASSUME IInv, WorldInv, DrainInv, [Next]_vars, NEW k \in Key \ {Placeholder},
         "record" \in running[k], running'[k] = {}
  PROVE  faults' > 0
<1>t. /\ TypeInv /\ StageInv /\ active \in Active /\ active.key \in Key
      /\ running \in [Key -> SUBSET Does] /\ (faults' = 0 => faults = 0) /\ faults' \in Nat
      /\ running[k] # {} => "loaded" \in running[k]
  BY NoFaults, FaultsGrow DEF IInv, TypeInv, Active, WorldInv
<1>1. running'[k] # running[k]
  OBVIOUS
<1>2. CASE Restart \/ RestartWithout
  <2>1. running' = [j \in Key |-> Doing(file.cameras[j])] /\ UNCHANGED file
    BY <1>1, <1>2 DEF Restart, RestartWithout, Restarted
  <2>2. ~Has(file, k)
    BY <2>1, DoingType DEF Has
  <2> QED
    BY <1>t, <2>2 DEF DrainInv
<1>3. CASE Drain \/ SetSection
  <2> DEFINE name == IF "record" \in active.todo THEN "record" ELSE "detect"
             value == request[active.op].changes[name]
  <2>1. /\ active.key = k
        /\ \/ running'[k] = Live(running[k], "record", FALSE)
           \/ SetSection /\ running'[k] = Live(running[k], name, value)
    <3>1. \/ running' = [running EXCEPT ![active.key] = Live(@, "record", FALSE)]
          \/ SetSection /\ running' = [running EXCEPT ![active.key] = Live(@, name, value)]
      BY <1>1, <1>3 DEF Drain, SetSection
    <3> HIDE DEF name, value
    <3> QED
      BY <1>t, <1>1, <3>1
  <2>2. ASSUME SetSection PROVE name \in {"record", "detect"} /\ value \in BOOLEAN
    <3>1. /\ Kind = "configure" /\ active.op \in Op /\ request[active.op] \in Request
          /\ name \in DOMAIN request[active.op].changes
      BY <1>t, <2>2 DEF SetSection, StageInv, TypeInv, At, Active
    <3> QED
      BY <3>1 DEF Request, Kind
  <2> HIDE DEF name, value
  <2>3. running[k] \subseteq Does /\ running[k] # {} /\ "loaded" \in running[k]
    BY <1>t
  <2>4. running'[k] # {}
    <3>1. PICK n \in {"record", "detect"}, v \in BOOLEAN : running'[k] = Live(running[k], n, v)
      BY <2>1, <2>2
    <3>2. running[k] # {} => "loaded" \in running[k]
      BY <2>3
    <3>3. (Live(running[k], n, v) = {}) <=> (running[k] = {})
      BY <2>3, <3>2, LiveType
    <3> QED
      BY <2>3, <3>1, <3>3
  <2> QED
    BY <2>4
<1>4. ASSUME \/ ReadFails \/ RemoveAdded \/ RemoveStreams \/ WriteOut \/ Crash \/ AddStream \/ WriteCamera
             \/ BeginAdd \/ ReadBefore \/ WaitFps \/ UNCHANGED vars
      PROVE  FALSE
  <2>1. running' = running
    <3>1. CASE ReadFails \/ RemoveAdded \/ RemoveStreams \/ WriteOut \/ Crash
      BY <3>1 DEF ReadFails, RemoveAdded, RemoveStreams, WriteOut, Crash, frigate
    <3>2. CASE AddStream \/ WriteCamera \/ BeginAdd \/ ReadBefore \/ WaitFps \/ UNCHANGED vars
      BY <3>2 DEF AddStream, WriteCamera, BeginAdd, ReadBefore, WaitFps, vars, frigate
    <3> QED
      BY <1>4, <3>1, <3>2
  <2> QED
    BY <1>1, <2>1
<1>5. ~OutOfSight
  BY <1>1, NothingSeen
<1> QED
  BY <1>2, <1>3, <1>4, <1>5 DEF Next, JobStep, OutOfSight
----------------------------------------------------------------------------
(* A job that completes is true *)

(* While it has written, or dropped, a camera and Frigate did not restart. *)
Loose ==
  active.at \in {"write", "restart", "outRestart"} \/ (At("outStreams") /\ active.drop)

(* As long as nothing failed: Frigate runs what its file has, and a camera  *)
(* whose recording is on, in the file or in an answer, has its output.      *)
RunInv ==
  ~Troubled =>
    \A k \in Key :
      /\ ~Has(file, k) => running[k] = {} \/ Loose
      /\ file.cameras[k].record /\ running[k] # {} => "output" \in running[k] \/ At("restart")
      /\ \A c \in cached : c.cameras[k].record /\ running[k] # {} =>
           "output" \in running[k] \/ active.at \in {"restart", "back", "outBack"}

Changes == request[active.op].changes
Applied(names) ==
  \A f \in names : Has(file, active.key) => file.cameras[active.key][f] = Changes[f]
Switched ==
  "record" \in DOMAIN Changes /\ Changes.record /\ running[active.key] # {}
    => "output" \in running[active.key]

(* What a job has achieved at each stage. *)
AddedInv ==
  /\ active.at \in {"restart", "back", "verify", "record", "password"} /\ Kind = "add" =>
       Has(file, active.key)
  /\ active.at \in {"record", "password"} =>
       active.key \in shown /\ "loaded" \in running[active.key]
  /\ At("password") => active.key \in managed /\ active.key \in store.managed
RemovedInv ==
  /\ At("outWrite") /\ Kind = "remove" /\ ~Has(active.config, active.key) => ~Has(file, active.key)
  /\ active.at \in {"outStreams", "outRestart", "outBack", "forget"} /\ Kind = "remove" =>
       ~Has(file, active.key)
SetInv ==
  /\ At("after") => Kind = "configure"
  /\ active.at \in {"restart", "back", "verify", "after"} /\ Kind = "configure" =>
       Applied(DOMAIN Changes)
  /\ At("set") => Applied(DOMAIN Changes \ active.todo)
  /\ ~Troubled /\ (At("set") \/ (active.at \in {"back", "verify", "after"} /\ Kind = "configure")) =>
       Switched
PromiseInv == RunInv /\ AddedInv /\ RemovedInv /\ SetInv

LEMMA PromiseInit == Init => PromiseInv
<1> SUFFICES ASSUME Init PROVE PromiseInv
  OBVIOUS
<1>1. \A k \in Key : running[k] = Doing(file.cameras[k])
  BY DEF Init
<1>2. cached = {} /\ active.at = "idle"
  BY DEF Init, Idle
<1>3. RunInv
  BY <1>1, <1>2, DoingType DEF RunInv, Has
<1> QED
  BY <1>2, <1>3 DEF PromiseInv, AddedInv, RemovedInv, SetInv, At

(* Without trouble there was none before. *)
LEMMA NoTrouble ==
  ASSUME WorldInv, [Next]_vars
  PROVE  (~Troubled' => ~Troubled) /\ (Strike(1) => Troubled') /\ (Crash => Troubled')
<1>1. /\ faults \in Nat /\ faults' \in Nat /\ faults' >= faults
      /\ crashes \in Nat /\ crashes' \in Nat /\ crashes' >= crashes
  BY FaultsGrow DEF WorldInv
<1>2. Crash => crashes' = crashes + 1
  BY DEF Crash
<1> QED
  BY <1>1, <1>2 DEF Troubled, Strike

(* A step of a job that has not written yet. *)
LEMMA RunQuiet ==
  ASSUME RunInv, file' = file, running' = running, cached' \subseteq cached \cup {file},
         ~Troubled' => ~Troubled,
         ~Troubled' =>
           /\ Loose => Loose'
           /\ At("restart") => At("restart")'
           /\ active.at \in {"restart", "back", "outBack"} =>
                (active.at \in {"restart", "back", "outBack"})' \/ cached' = {}
  PROVE  RunInv'
<1> SUFFICES ASSUME ~Troubled', NEW k \in Key
    PROVE  /\ ~Has(file, k) => running[k] = {} \/ Loose'
           /\ file.cameras[k].record /\ running[k] # {} => "output" \in running[k] \/ At("restart")'
           /\ \A c \in cached' : c.cameras[k].record /\ running[k] # {} =>
                "output" \in running[k] \/ (active.at \in {"restart", "back", "outBack"})'
  BY DEF RunInv, Has
<1>1. /\ ~Has(file, k) => running[k] = {} \/ Loose
      /\ file.cameras[k].record /\ running[k] # {} => "output" \in running[k] \/ At("restart")
      /\ \A c \in cached : c.cameras[k].record /\ running[k] # {} =>
           "output" \in running[k] \/ active.at \in {"restart", "back", "outBack"}
  BY DEF RunInv
<1> QED
  BY <1>1 DEF At

(* Stages at which nothing is unsettled. *)
Settled == active.at \notin {"write", "restart", "outRestart", "outStreams", "back", "outBack"}

LEMMA RunSettled ==
  ASSUME RunInv, file' = file, running' = running, cached' \subseteq cached \cup {file},
         ~Troubled' => ~Troubled, Settled
  PROVE  RunInv'
  BY RunQuiet DEF Settled, Loose, At

LEMMA RunQuietSteps ==
  ASSUME IInv, WorldInv, RunInv, [Next]_vars,
         \/ \E op \in Op : Ask(op) \/ Load(op)
         \/ Poll \/ Expire \/ UNCHANGED vars \/ SaveStarted \/ SaveFinished \/ CheckStreams
         \/ RecordManaged \/ RememberAdded \/ ReadDrained \/ BeginRemove \/ RememberRemoved
         \/ ForgetManaged \/ BeginConfigure \/ ReadSettings \/ AddStream \/ RemoveAdded \/ BeginAdd
         \/ WaitFps \/ ReadFails \/ ReadBefore
  PROVE  RunInv'
<1>t. ~Troubled' => ~Troubled
  BY NoTrouble
<1>1. ASSUME \/ \E op \in Op : Ask(op) \/ Load(op)
             \/ Poll \/ Expire \/ UNCHANGED vars
      PROVE  RunInv'
  <2>1. file' = file /\ running' = running /\ cached' \subseteq cached \cup {file}
    BY <1>1 DEF Ask, Load, Poll, Expire, vars, frigate
  <2>2. active' = active \/ active = Idle
    BY <1>1 DEF Ask, Load, Start, Poll, Expire, vars
  <2>3. CASE active' = active
    BY <1>t, <2>1, <2>3, RunQuiet DEF Loose, At
  <2>4. CASE active = Idle
    BY <1>t, <2>1, <2>4, RunSettled DEF Settled, Idle
  <2> QED
    BY <2>2, <2>3, <2>4
<1>2. ASSUME \/ SaveStarted \/ SaveFinished \/ CheckStreams \/ RecordManaged \/ RememberAdded
             \/ ReadDrained \/ BeginRemove
      PROVE  RunInv'
  <2>1. /\ file' = file /\ running' = running /\ cached' \subseteq cached \cup {file}
        /\ Settled
    <3>1. CASE SaveStarted \/ SaveFinished \/ CheckStreams \/ RecordManaged \/ RememberAdded
      BY <3>1 DEF SaveStarted, SaveFinished, CheckStreams, RecordManaged, RememberAdded, frigate,
                  At, Settled
    <3>2. CASE ReadDrained \/ BeginRemove
      BY <3>2 DEF ReadDrained, BeginRemove, Read, At, Settled
    <3> QED
      BY <1>2, <3>1, <3>2
  <2> QED
    BY <1>t, <2>1, RunSettled
<1>3. ASSUME \/ RememberRemoved \/ ForgetManaged \/ BeginConfigure \/ ReadSettings \/ AddStream
             \/ RemoveAdded
      PROVE  RunInv'
  <2>1. /\ file' = file /\ running' = running /\ cached' \subseteq cached \cup {file}
        /\ Settled
    <3>1. CASE RememberRemoved \/ ForgetManaged \/ AddStream \/ RemoveAdded
      BY <3>1 DEF RememberRemoved, ForgetManaged, AddStream, RemoveAdded, frigate, At, Settled
    <3>2. CASE BeginConfigure \/ ReadSettings
      BY <3>2 DEF BeginConfigure, ReadSettings, Read, At, Settled
    <3> QED
      BY <1>3, <3>1, <3>2
  <2> QED
    BY <1>t, <2>1, RunSettled
<1>4. ASSUME BeginAdd \/ WaitFps \/ ReadFails \/ ReadBefore PROVE RunInv'
  <2>1. /\ file' = file /\ running' = running /\ cached' \subseteq cached \cup {file}
        /\ Settled
    <3>1. CASE BeginAdd \/ ReadBefore
      BY <3>1 DEF BeginAdd, ReadBefore, Read, At, Settled
    <3>2. CASE WaitFps \/ ReadFails
      BY <3>2 DEF WaitFps, ReadFails, frigate, At, Settled
    <3> QED
      BY <1>4, <3>1, <3>2
  <2> QED
    BY <1>t, <2>1, RunSettled
<1> QED
  BY <1>1, <1>2, <1>3, <1>4

(* Restarts, and the waiting after them. *)
LEMMA RunRestarts ==
  ASSUME IInv, WorldInv, RunInv, [Next]_vars,
         Restart \/ RestartWithout \/ WaitBack \/ WaitBackWithout
  PROVE  RunInv'
<1>t. active \in Active /\ (~Troubled' => ~Troubled) /\ (Strike(1) => Troubled')
  BY NoTrouble DEF IInv, TypeInv
<1>1. ASSUME Restart \/ RestartWithout PROVE RunInv'
  <2> SUFFICES ASSUME ~Troubled' PROVE RunInv'
    BY DEF RunInv
  <2>1. /\ file' = file /\ running' = [k \in Key |-> Doing(file.cameras[k])]
        /\ \E at \in {"back", "outBack"} : active' = [active EXCEPT !.at = at]
    BY <1>t, <1>1 DEF Restart, RestartWithout, Restarted, Go
  <2>2. active'.at \in {"back", "outBack"}
    BY <1>t, <2>1 DEF Active
  <2>3. \A k \in Key : /\ ~Has(file, k) => running'[k] = {}
                       /\ file.cameras[k].record /\ running'[k] # {} => "output" \in running'[k]
    BY <2>1, DoingType DEF Has
  <2> QED
    BY <2>1, <2>2, <2>3 DEF RunInv, Has
<1>2. ASSUME WaitBack \/ WaitBackWithout PROVE RunInv'
  <2>1. /\ file' = file /\ running' = running /\ cached' = {} /\ active.at \in {"back", "outBack"}
    BY <1>2 DEF WaitBack, WaitBackWithout, At
  <2> QED
    BY <1>t, <2>1, RunQuiet DEF Loose, At
<1> QED
  BY <1>1, <1>2

(* The writes that add a camera, take one out, or clear its streams. *)
LEMMA RunWrites ==
  ASSUME IInv, WorldInv, RunInv, [Next]_vars,
         DropPlaceholder \/ WriteCamera \/ WriteOut \/ RemoveStreams
  PROVE  RunInv'
<1>t. active \in Active /\ (~Troubled' => ~Troubled) /\ (Strike(1) => Troubled')
  BY NoTrouble DEF IInv, TypeInv
<1>n. ~NoCamera.record
  BY DEF NoCamera
<1>1. ASSUME WriteCamera PROVE RunInv'
  <2> SUFFICES ASSUME ~Troubled' PROVE RunInv'
    BY DEF RunInv
  <2>1. active' = [active EXCEPT !.at = "restart"]
    BY <1>t, <1>1 DEF WriteCamera, ConfigSet, Go
  <2>2. active'.at = "restart"
    BY <1>t, <2>1 DEF Active
  <2> QED
    BY <2>2 DEF RunInv, Loose, At
<1>2. ASSUME DropPlaceholder PROVE RunInv'
  <2> SUFFICES ASSUME ~Troubled' PROVE RunInv'
    BY DEF RunInv
  <2>1. /\ active' = [active EXCEPT !.at = "write"] /\ At("placeholder")
        /\ cached' = cached /\ running' = running
        /\ file' = file \/ file' = Without(file, {Placeholder}, {})
    BY <1>2 DEF DropPlaceholder, ConfigSet, Go
  <2>2. active'.at = "write"
    BY <1>t, <2>1 DEF Active
  <2>3. \A k \in Key : file'.cameras[k] \in {NoCamera, file.cameras[k]}
    BY <2>1, AfterWithout
  <2> QED
    BY <1>t, <1>n, <2>1, <2>2, <2>3 DEF RunInv, Loose, At
<1>3. ASSUME WriteOut PROVE RunInv'
  <2> SUFFICES ASSUME ~Troubled' PROVE RunInv'
    BY DEF RunInv
  <2> DEFINE drop == IF Has(active.config, active.key) THEN {active.key} ELSE {}
             names == active.added \cap Streams(active.config)
  <2>1. /\ running' = running /\ cached' = cached /\ At("outWrite")
        /\ (file' = file /\ drop = {}) \/ file' = Without(file, drop, names)
        /\ active' = [active EXCEPT !.at = "outStreams", !.drop = drop # {}]
    BY <1>t, <1>3 DEF WriteOut, ConfigSet
  <2> HIDE DEF drop, names
  <2>2. active'.at = "outStreams" /\ active'.drop = (drop # {})
    BY <1>t, <2>1 DEF Active
  <2>3. \A k \in Key : file'.cameras[k] = IF k \in drop THEN NoCamera ELSE file.cameras[k]
    BY <2>1, AfterWithout
  <2> QED
    BY <1>t, <1>n, <2>1, <2>2, <2>3 DEF RunInv, Loose, At, Has
<1>4. ASSUME RemoveStreams PROVE RunInv'
  <2>1. /\ file' = file /\ running' = running /\ cached' = cached /\ At("outStreams")
        /\ active.drop => active' = [active EXCEPT !.at = "outRestart"]
    BY <1>4 DEF RemoveStreams, Go
  <2>2. Loose => Loose'
    BY <1>t, <2>1 DEF Active, Loose, At
  <2> QED
    BY <1>t, <2>1, <2>2, RunQuiet DEF At
<1> QED
  BY <1>1, <1>2, <1>3, <1>4

(* Settings applied live, or with a restart to come. *)
LEMMA RunSettings ==
  ASSUME IInv, WorldInv, RunInv, SetInv, [Next]_vars, SetAll \/ SetSection \/ Drain
  PROVE  RunInv'
<1>t. /\ TypeInv /\ StageInv /\ active \in Active /\ active.key \in Key /\ file \in Config
      /\ (~Troubled' => ~Troubled) /\ (Strike(1) => Troubled')
      /\ running \in [Key -> SUBSET Does] /\ (running[active.key] # {} => "loaded" \in running[active.key])
  BY NoTrouble DEF IInv, TypeInv, Active, WorldInv
<1>h. \A k \in Key : Has(file', k) <=> Has(file, k)
  BY SettingSteps
<1>o. \A k \in Key \ {active.key} : file'.cameras[k] = file.cameras[k]
  BY SettingSteps
<1> SUFFICES ASSUME ~Troubled' PROVE RunInv'
  BY DEF RunInv
<1>1. CASE SetAll
  <2>1. active' = [active EXCEPT !.at = "restart"] /\ cached' = cached /\ running' = running
    BY <1>t, <1>1 DEF SetAll, ConfigSet, Go
  <2>2. active'.at = "restart"
    BY <1>t, <2>1 DEF Active
  <2> QED
    BY <2>2 DEF RunInv, Loose, At
<1>2. CASE Drain
  <2>1. /\ active' = [active EXCEPT !.at = "outRead"] /\ cached' = {} /\ At("drain")
        /\ running' = [running EXCEPT ![active.key] = Live(@, "record", FALSE)]
        /\ file' = IF Has(file, active.key)
                   THEN [file EXCEPT !.cameras[active.key].record = FALSE] ELSE file
    BY <1>t, <1>2 DEF Drain, Go
  <2>2. /\ running'[active.key] = Live(running[active.key], "record", FALSE)
        /\ \A k \in Key \ {active.key} : running'[k] = running[k]
    BY <1>t, <2>1
  <2>6. running[active.key] \subseteq Does /\ "record" \in {"record", "detect"} /\ FALSE \in BOOLEAN
    BY <1>t
  <2>7. running[active.key] # {} => "loaded" \in running[active.key]
    BY <1>t
  <2>8. /\ (Live(running[active.key], "record", FALSE) = {}) <=> (running[active.key] = {})
        /\ "output" \in running[active.key]
             => "output" \in Live(running[active.key], "record", FALSE)
    BY <2>6, <2>7, LiveType
  <2>3. /\ (running'[active.key] = {}) <=> (running[active.key] = {})
        /\ "output" \in running[active.key] => "output" \in running'[active.key]
    BY <2>2, <2>8
  <2>4. ~file'.cameras[active.key].record \/ file'.cameras[active.key] = file.cameras[active.key]
    BY <1>t, <2>1 DEF Config, Camera
  <2>5. ~Loose /\ ~At("restart")
    BY <2>1 DEF Loose, At
  <2> QED
    BY <1>t, <1>h, <1>o, <2>1, <2>2, <2>3, <2>4, <2>5 DEF RunInv
<1>3. CASE SetSection
  <2> DEFINE name == IF "record" \in active.todo THEN "record" ELSE "detect"
             value == request[active.op].changes[name]
             changed == Section(file.cameras[active.key], name, value)
  <2>1. /\ cached' = cached /\ At("set")
        /\ running' = [running EXCEPT ![active.key] = Live(@, name, value)]
        /\ file' = Set(changed)
    BY <1>t, <1>3 DEF SetSection, ConfigSet
  <2>2. /\ Kind = "configure" /\ request[active.op] \in Request /\ name \in {"record", "detect"}
        /\ name \in DOMAIN request[active.op].changes
    BY <1>t, <1>3 DEF SetSection, StageInv, TypeInv, Active, At
  <2>3. value \in BOOLEAN
    BY <2>2 DEF Request, Kind
  <2>4. file'.cameras[active.key] = IF file.cameras[active.key] = NoCamera THEN NoCamera ELSE changed
    BY <1>t, <2>1 DEF Set, Config
  <2>5. file.cameras[active.key] \in Camera
    BY <1>t DEF Config
  <2>6. name = "record" /\ value /\ running[active.key] # {} => "output" \in running[active.key]
    BY <1>t, <2>1, <2>2 DEF SetInv, Switched, Changes
  <2> HIDE DEF name, value
  <2>7. changed.record => file.cameras[active.key].record \/ (name = "record" /\ value)
    BY <2>2, <2>3, <2>5 DEF Section, Camera
  <2> HIDE DEF changed
  <2>8. /\ running'[active.key] = Live(running[active.key], name, value)
        /\ \A k \in Key \ {active.key} : running'[k] = running[k]
    BY <1>t, <2>1
  <2>9. running[active.key] \subseteq Does
    BY <1>t
  <2>10. /\ (running'[active.key] = {}) <=> (running[active.key] = {})
         /\ "output" \in running[active.key] => "output" \in running'[active.key]
    BY <1>t, <2>2, <2>3, <2>8, <2>9, LiveType
  <2>11. ~Loose /\ active.at \notin {"restart", "back", "outBack"}
    BY <2>1 DEF Loose, At
  <2>12. ~NoCamera.record
    BY DEF NoCamera
  <2> QED
    BY <1>t, <1>h, <1>o, <2>1, <2>4, <2>6, <2>7, <2>8, <2>10, <2>11, <2>12 DEF RunInv, At
<1> QED
  BY <1>1, <1>2, <1>3

(* A job that is at no stage of which anything is promised. *)
Promised == {"restart", "back", "verify", "record", "password", "outWrite", "outStreams",
             "outRestart", "outBack", "forget", "after", "set"}

LEMMA PromiseElsewhere ==
  ASSUME active'.at \notin Promised
  PROVE  AddedInv' /\ RemovedInv' /\ SetInv'
  BY DEF Promised, AddedInv, RemovedInv, SetInv, At

LEMMA PromiseStill ==
  ASSUME AddedInv, RemovedInv, SetInv, active' = active, file' = file, running' = running,
         request' = request, shown' = shown, store'.managed = store.managed,
         managed' \in {managed, store.managed}, ~Troubled' => ~Troubled
  PROVE  AddedInv' /\ RemovedInv' /\ SetInv'
<1>1. AddedInv'
  BY DEF AddedInv, At, Kind, Has
<1>2. RemovedInv'
  BY DEF RemovedInv, At, Kind, Has
<1>3. SetInv'
  BY DEF SetInv, At, Kind, Has, Applied, Switched, Changes
<1> QED
  BY <1>1, <1>2, <1>3

LEMMA PromiseAround ==
  ASSUME IInv, WorldInv, PromiseInv, [Next]_vars,
         (\E op \in Op : Ask(op) \/ Load(op)) \/ Poll \/ Expire \/ Crash \/ UNCHANGED vars
  PROVE  AddedInv' /\ RemovedInv' /\ SetInv'
<1>t. ~Troubled' => ~Troubled
  BY NoTrouble
<1>1. active' = active \/ active'.at \in {"idle", "save"}
  <2>1. CASE \E op \in Op : Ask(op) \/ Load(op)
    BY <2>1 DEF Ask, Load, Start, Idle
  <2>2. CASE Poll \/ Expire \/ Crash \/ UNCHANGED vars
    BY <2>2 DEF Poll, Expire, Crash, vars, Idle
  <2> QED
    BY <2>1, <2>2
<1>2. CASE active'.at \in {"idle", "save"}
  BY <1>2, PromiseElsewhere DEF Promised
<1>3. CASE active' = active /\ ~Crash
  <2>1. /\ file' = file /\ running' = running /\ request' = request /\ shown' = shown
        /\ store' = store /\ managed' \in {managed, store.managed}
    <3>1. CASE \E op \in Op : Ask(op) \/ Load(op)
      BY <3>1 DEF Ask, Load, frigate, seen
    <3>2. CASE Poll \/ Expire \/ UNCHANGED vars
      BY <3>2 DEF Poll, Expire, vars, frigate, seen, data
    <3> QED
      BY <1>3, <3>1, <3>2
  <2> QED
    BY <1>t, <1>3, <2>1, PromiseStill DEF PromiseInv
<1>4. CASE Crash
  BY <1>4, PromiseElsewhere DEF Crash, Idle, Promised
<1> QED
  BY <1>1, <1>2, <1>3, <1>4

(* The steps that come to no such stage. *)
LEMMA PromiseNowhere ==
  ASSUME IInv,
         \/ SaveStarted \/ SaveFinished \/ ReadFails \/ BeginAdd \/ CheckStreams \/ AddStream
         \/ DropPlaceholder \/ RemoveAdded \/ RememberAdded \/ Drain \/ BeginRemove
         \/ RememberRemoved \/ ForgetManaged \/ ReadSettings
  PROVE  AddedInv' /\ RemovedInv' /\ SetInv'
<1>t. active \in Active
  BY DEF IInv, TypeInv
<1>1. active'.at \notin Promised
  <2>1. CASE SaveStarted \/ SaveFinished \/ ReadFails
    BY <1>t, <2>1 DEF SaveStarted, SaveFinished, ReadFails, Finish, Go, Active, Idle, Promised
  <2>2. CASE BeginAdd \/ CheckStreams
    BY <1>t, <2>2 DEF BeginAdd, CheckStreams, Finish, Go, Active, Promised
  <2>3. CASE AddStream
    BY <1>t, <2>3 DEF AddStream, Active, Promised
  <2>4. CASE DropPlaceholder \/ RemoveAdded \/ RememberAdded \/ Drain
    BY <1>t, <2>4 DEF DropPlaceholder, RemoveAdded, RememberAdded, Drain, Finish, Go, Active, Promised
  <2>5. CASE BeginRemove \/ RememberRemoved \/ ForgetManaged \/ ReadSettings
    BY <1>t, <2>5 DEF BeginRemove, RememberRemoved, ForgetManaged, ReadSettings, Finish, Go, Active,
                      Promised
  <2> QED
    BY <2>1, <2>2, <2>3, <2>4, <2>5
<1> QED
  BY <1>1, PromiseElsewhere

(* The write of an addition: the camera is in the file. *)
LEMMA PromiseWrite ==
  ASSUME IInv, WriteCamera
  PROVE  AddedInv' /\ RemovedInv' /\ SetInv'
<1>t. /\ active \in Active /\ active.key \in Key /\ request' = request /\ Kind = "add"
  BY DEF IInv, TypeInv, StageInv, Active, WriteCamera, At
<1>1. CASE active' = [active EXCEPT !.at = "undo"]
  BY <1>t, <1>1, PromiseElsewhere DEF Active, Promised
<1>2. CASE active' = [active EXCEPT !.at = "restart"] /\ file' # file
  <2>1. Has(file', active.key)
    BY <1>t, <1>2, AfterWrite
  <2>2. active'.at = "restart" /\ active'.key = active.key /\ active'.op = active.op
    BY <1>t, <1>2 DEF Active
  <2>3. Kind' = "add" /\ Has(file, active.key)'
    BY <1>t, <2>1, <2>2 DEF Kind, Has
  <2> QED
    BY <2>2, <2>3 DEF AddedInv, RemovedInv, SetInv, At
<1>3. CASE active' = [active EXCEPT !.at = "restart"] /\ file' = file
  <2> DEFINE block == CameraConfig(active.key, request[active.op], active.added # {})
  <2>1. file = With(file, active.key, block, active.added, request[active.op].host)
    <3>1. active'.at = "restart"
      BY <1>t, <1>3 DEF Active
    <3> QED
      BY <1>3, <3>1 DEF WriteCamera, ConfigSet, Go
  <2>2. request[active.op] \in Request /\ file \in Config
    BY DEF IInv, TypeInv, WriteCamera, At
  <2>3. block # NoCamera
    BY <1>t, <2>2 DEF Request, Kind, CameraConfig, NoCamera
  <2> HIDE DEF block
  <2>4. Has(file, active.key)
    BY <1>t, <2>1, <2>2, <2>3 DEF With, Config, Has
  <2>5. active'.at = "restart" /\ active'.key = active.key /\ active'.op = active.op
    BY <1>t, <1>3 DEF Active
  <2>6. Kind' = "add" /\ Has(file, active.key)'
    BY <1>t, <1>3, <2>4, <2>5 DEF Kind, Has
  <2> QED
    BY <2>5, <2>6 DEF AddedInv, RemovedInv, SetInv, At
<1> QED
  BY <1>1, <1>2, <1>3 DEF WriteCamera, Go

(* A step of a job at which its camera stays what it is. *)
LEMMA PromiseKept ==
  ASSUME NEW at, active \in Active, active' = [active EXCEPT !.at = at], at \in Promised,
         file' = file, request' = request
  PROVE  /\ active'.at = at /\ active'.key = active.key /\ active'.op = active.op
         /\ active'.config = active.config /\ active'.todo = active.todo
         /\ active'.drop = active.drop
         /\ Kind' = Kind /\ Changes' = Changes
         /\ Has(file, active.key)' = Has(file, active.key)
         /\ Applied(DOMAIN Changes)' = Applied(DOMAIN Changes)
<1>1. /\ active'.at = at /\ active'.key = active.key /\ active'.op = active.op
      /\ active'.config = active.config /\ active'.todo = active.todo /\ active'.drop = active.drop
  BY DEF Active
<1> QED
  BY <1>1 DEF Kind, Changes, Has, Applied

LEMMA PromiseRestart ==
  ASSUME IInv, WorldInv, PromiseInv, [Next]_vars, Restart \/ WaitBack
  PROVE  AddedInv' /\ RemovedInv' /\ SetInv'
<1>t. /\ active \in Active /\ active.key \in Key /\ file \in Config
      /\ (~Troubled' => ~Troubled) /\ (Strike(1) => Troubled') /\ Kind \in {"add", "configure"}
  BY NoTrouble DEF IInv, TypeInv, StageInv, Active, Restart, WaitBack, At
<1>1. CASE \E at \in {"out", "end"} : active' = [active EXCEPT !.at = at]
  BY <1>t, <1>1, PromiseElsewhere DEF Active, Promised
<1>2. CASE Restart /\ active' = [active EXCEPT !.at = "back"]
  <2>1. file' = file /\ request' = request /\ "back" \in Promised /\ active.at = "restart"
    BY <1>2 DEF Restart, Promised, At
  <2>2. /\ active'.at = "back" /\ active'.key = active.key /\ active'.op = active.op
        /\ Kind' = Kind /\ Changes' = Changes
        /\ Has(file, active.key)' = Has(file, active.key)
        /\ Applied(DOMAIN Changes)' = Applied(DOMAIN Changes)
    BY <1>t, <1>2, <2>1, PromiseKept
  <2>3. AddedInv'
    BY <2>1, <2>2 DEF AddedInv, At, PromiseInv
  <2>4. RemovedInv'
    BY <1>t, <2>2 DEF RemovedInv, At
  <2>5. Kind = "configure" => Applied(DOMAIN Changes)
    BY <2>1 DEF SetInv, PromiseInv
  <2>6. ASSUME Kind = "configure" PROVE Switched'
    <3>1. running'[active.key] = Doing(file.cameras[active.key])
      <4>1. Restarted
        BY <1>t, <1>2 DEF Restart, Broken, Go, Finish, Active
      <4> QED
        BY <1>t, <4>1 DEF Restarted
    <3>2. SUFFICES ASSUME "record" \in DOMAIN Changes, Changes.record, running'[active.key] # {}
                   PROVE  "output" \in running'[active.key]
      BY <2>2 DEF Switched
    <3>3. Has(file, active.key)
      BY <3>1, <3>2 DEF Doing, Has
    <3>4. file.cameras[active.key].record
      BY <2>5, <2>6, <3>2, <3>3 DEF Applied
    <3> QED
      BY <3>1, <3>3, <3>4 DEF Doing, Has
  <2>7. SetInv'
    BY <2>2, <2>5, <2>6 DEF SetInv, At
  <2> QED
    BY <2>3, <2>4, <2>7
<1>3. CASE WaitBack /\ active' = [active EXCEPT !.at = "verify"]
  <2>1. /\ file' = file /\ request' = request /\ "verify" \in Promised /\ active.at = "back"
        /\ running' = running
    BY <1>3 DEF WaitBack, Promised, At
  <2>2. /\ active'.at = "verify" /\ active'.key = active.key /\ active'.op = active.op
        /\ Kind' = Kind /\ Changes' = Changes
        /\ Has(file, active.key)' = Has(file, active.key)
        /\ Applied(DOMAIN Changes)' = Applied(DOMAIN Changes)
    BY <1>t, <1>3, <2>1, PromiseKept
  <2>3. AddedInv'
    BY <2>1, <2>2 DEF AddedInv, At, PromiseInv
  <2>4. RemovedInv'
    BY <1>t, <2>2 DEF RemovedInv, At
  <2>5. Switched' = Switched
    BY <2>1, <2>2 DEF Switched
  <2>6. SetInv'
    BY <1>t, <2>1, <2>2, <2>5 DEF SetInv, At, PromiseInv
  <2> QED
    BY <2>3, <2>4, <2>6
<1> QED
  BY <1>1, <1>2, <1>3 DEF Restart, WaitBack, Broken, Go, Finish

(* Frames were seen, and the camera is recorded as one of this hub. *)
LEMMA PromiseVerified ==
  ASSUME IInv, WorldInv, PromiseInv, [Next]_vars, WaitFps \/ RecordManaged
  PROVE  AddedInv' /\ RemovedInv' /\ SetInv'
<1>t. /\ active \in Active /\ active.key \in Key /\ file' = file /\ request' = request
      /\ (~Troubled' => ~Troubled) /\ running' = running
  BY NoTrouble DEF IInv, TypeInv, Active, WaitFps, RecordManaged, frigate
<1>1. CASE \E at \in {"out", "end"} : active' = [active EXCEPT !.at = at]
  BY <1>t, <1>1, PromiseElsewhere DEF Active, Promised
<1>w. ASSUME WaitFps
      PROVE  \/ /\ "loaded" \in running[active.key] /\ shown' = shown \cup {active.key}
                /\ active'.at = IF Kind = "add" THEN "record" ELSE "after"
             \/ active'.at = IF Kind = "add" THEN "out" ELSE "after"
  <2>1. \/ /\ "loaded" \in running[active.key] /\ shown' = shown \cup {active.key}
           /\ Go(IF Kind = "add" THEN "record" ELSE "after")
        \/ Go(IF Kind = "add" THEN "out" ELSE "after")
    BY <1>w DEF WaitFps
  <2>2. ASSUME NEW at, Go(at) PROVE active'.at = at
    BY <1>t, <2>2 DEF Go, Active
  <2> QED
    BY <2>1, <2>2
<1>2. CASE WaitFps /\ active' = [active EXCEPT !.at = "record"]
  <2>1. "record" \in Promised /\ active.at = "verify"
    BY <1>2 DEF WaitFps, Promised, At
  <2>2. /\ active'.at = "record" /\ active'.key = active.key /\ active'.op = active.op
        /\ Kind' = Kind /\ Has(file, active.key)' = Has(file, active.key)
    BY <1>t, <1>2, <2>1, PromiseKept
  <2>3. Kind = "add" /\ "loaded" \in running[active.key] /\ shown' = shown \cup {active.key}
    BY <1>w, <1>2, <2>2
  <2>4. AddedInv'
    BY <1>t, <2>1, <2>2, <2>3 DEF AddedInv, At, PromiseInv
  <2> QED
    BY <2>2, <2>3, <2>4 DEF RemovedInv, SetInv, At
<1>3. CASE WaitFps /\ active' = [active EXCEPT !.at = "after"]
  <2>1. "after" \in Promised /\ active.at = "verify" /\ Kind \in {"add", "configure"}
    BY <1>3 DEF WaitFps, Promised, At, IInv, StageInv
  <2>2. /\ active'.at = "after" /\ active'.key = active.key /\ active'.op = active.op
        /\ Kind' = Kind /\ Changes' = Changes
        /\ Applied(DOMAIN Changes)' = Applied(DOMAIN Changes)
    BY <1>t, <1>3, <2>1, PromiseKept
  <2>3. Kind = "configure"
    BY <1>w, <1>3, <2>1, <2>2
  <2>4. Switched' = Switched
    BY <1>t, <2>2 DEF Switched
  <2>5. SetInv'
    BY <1>t, <2>1, <2>2, <2>3, <2>4 DEF SetInv, At, PromiseInv
  <2> QED
    BY <2>2, <2>5 DEF AddedInv, RemovedInv, At
<1>4. CASE RecordManaged /\ active' = [active EXCEPT !.at = "password"]
  <2>1. "password" \in Promised /\ active.at = "record" /\ Kind = "add"
    BY <1>4 DEF RecordManaged, Promised, At, IInv, StageInv
  <2>2. /\ active'.at = "password" /\ active'.key = active.key /\ active'.op = active.op
        /\ Kind' = Kind /\ Has(file, active.key)' = Has(file, active.key)
    BY <1>t, <1>4, <2>1, PromiseKept
  <2>3. active.key \in managed' /\ store'.managed = managed' /\ shown' = shown
    <3>1. \E ok \in BOOLEAN : Save(list, managed', known, jobs, ok) /\ ok
      BY <1>t, <1>4, <2>2 DEF RecordManaged, Finish, Active
    <3> QED
      BY <1>4, <3>1 DEF RecordManaged, Save, Saved, seen
  <2>4. AddedInv'
    BY <1>t, <2>1, <2>2, <2>3 DEF AddedInv, At, PromiseInv
  <2> QED
    BY <2>1, <2>2, <2>4 DEF RemovedInv, SetInv, At
<1> QED
  BY <1>1, <1>2, <1>3, <1>4 DEF WaitFps, RecordManaged, Go, Finish

(* What a removal reads, and the write that takes the camera out. *)
LEMMA PromiseOut ==
  ASSUME IInv, WorldInv, PromiseInv, [Next]_vars, ReadBefore \/ ReadDrained \/ WriteOut
  PROVE  AddedInv' /\ RemovedInv' /\ SetInv'
<1>t. /\ active \in Active /\ active.key \in Key /\ request' = request
      /\ Kind \in {"add", "remove"}
  BY DEF IInv, TypeInv, StageInv, Active, ReadBefore, ReadDrained, WriteOut, At
<1>1. CASE active'.at \in {"drain", "end"}
  BY <1>1, PromiseElsewhere DEF Promised
<1>2. ASSUME ReadBefore \/ ReadDrained, active'.at = "outWrite" PROVE AddedInv' /\ RemovedInv' /\ SetInv'
  <2>1. /\ file' = file /\ active'.key = active.key /\ active'.op = active.op
    BY <1>t, <1>2 DEF ReadBefore, ReadDrained, Active
  <2>2. /\ active'.config \in {file} \cup cached
        /\ ReadDrained => active'.config = file
    <3>1. PICK config \in {file} \cup cached, at \in {"drain", "outWrite"} :
            active' = [active EXCEPT !.at = at, !.config = config]
      BY <1>2 DEF ReadBefore, ReadDrained
    <3>2. active'.config = config
      BY <1>t, <3>1 DEF Active
    <3>3. ReadDrained => cached \subseteq {file}
      BY DEF ReadDrained, IInv, OutInv, At
    <3> QED
      BY <3>1, <3>2, <3>3
  <2>3. Kind = "remove" => (ReadBefore => active'.config = file \/ Has(active'.config, active.key))
    BY <2>2 DEF ReadBefore, IInv, RemoveInv, At, Out
  <2>4. Kind' = Kind /\ (Has(file, active.key)' <=> Has(file, active.key))
        /\ (Has(active.config, active.key)' <=> Has(active'.config, active.key))
    BY <1>t, <2>1 DEF Kind, Has
  <2>5. RemovedInv'
    BY <1>2, <2>2, <2>3, <2>4 DEF RemovedInv, At
  <2> QED
    BY <1>2, <2>5 DEF AddedInv, SetInv, At
<1>3. CASE WriteOut /\ active'.at # "end"
  <2> DEFINE drop == IF Has(active.config, active.key) THEN {active.key} ELSE {}
             names == active.added \cap Streams(active.config)
  <2>1. /\ active.at = "outWrite"
        /\ (file' = file /\ drop = {}) \/ file' = Without(file, drop, names)
        /\ active' = [active EXCEPT !.at = "outStreams", !.drop = drop # {}]
    BY <1>t, <1>3 DEF WriteOut, ConfigSet, Finish, Active, At
  <2>2. active'.at = "outStreams" /\ active'.key = active.key /\ active'.op = active.op
    BY <1>t, <2>1 DEF Active
  <2>3. Kind = "remove" => Has(active.config, active.key) \/ ~Has(file, active.key)
    BY <2>1 DEF PromiseInv, RemovedInv, At
  <2>4. Kind = "remove" => ~Has(file', active.key)
    <3>1. ASSUME file' = Without(file, drop, names) PROVE Has(file', active.key) => Has(file, active.key) /\ drop = {}
      <4> HIDE DEF names
      <4>1. Has(file', active.key) <=> Has(file, active.key) /\ active.key \notin drop
        <5> HIDE DEF drop
        <5> QED
          BY <1>t, <3>1, AfterWithout
      <4> QED
        BY <4>1
    <3> QED
      BY <2>1, <2>3, <3>1
  <2>5. Kind' = Kind /\ (Has(file, active.key)' <=> Has(file', active.key))
    BY <1>t, <2>2 DEF Kind, Has
  <2> QED
    BY <2>2, <2>4, <2>5 DEF AddedInv, RemovedInv, SetInv, At
<1> QED
  <2>1. ReadBefore \/ ReadDrained => active'.at \in {"drain", "outWrite"}
    BY <1>t DEF ReadBefore, ReadDrained, Active
  <2> QED
    BY <1>1, <1>2, <1>3, <2>1

(* The camera is out of the file: its restreams go, and Frigate restarts. *)
LEMMA PromiseRemoved ==
  ASSUME IInv, WorldInv, PromiseInv, [Next]_vars, RemoveStreams \/ RestartWithout \/ WaitBackWithout
  PROVE  AddedInv' /\ RemovedInv' /\ SetInv'
<1>t. /\ active \in Active /\ active.key \in Key /\ request' = request /\ file' = file
      /\ active.at \in {"outStreams", "outRestart", "outBack"}
  BY DEF IInv, TypeInv, Active, RemoveStreams, RestartWithout, WaitBackWithout, At
<1>1. CASE active' = [active EXCEPT !.at = "end"]
  BY <1>t, <1>1, PromiseElsewhere DEF Active, Promised
<1>2. ASSUME NEW at \in {"outRestart", "outBack", "forget"}, active' = [active EXCEPT !.at = at]
      PROVE  AddedInv' /\ RemovedInv' /\ SetInv'
  <2>1. at \in Promised
    BY DEF Promised
  <2>2. /\ active'.at = at /\ Kind' = Kind /\ Has(file, active.key)' = Has(file, active.key)
    BY <1>t, <1>2, <2>1, PromiseKept
  <2>3. Kind = "remove" => ~Has(file, active.key)
    BY <1>t DEF PromiseInv, RemovedInv
  <2>4. RemovedInv'
    BY <2>2, <2>3 DEF RemovedInv, At
  <2>5. Kind # "configure" \/ at = "forget"
    BY <1>t DEF IInv, StageInv
  <2> QED
    BY <2>2, <2>4 DEF AddedInv, SetInv, At
<1> QED
  BY <1>1, <1>2 DEF RemoveStreams, RestartWithout, WaitBackWithout, TakenOut, Go, Finish

(* Settings: what is asked for live has its output, as far as it is on. *)
LEMMA PromiseConfigure ==
  ASSUME IInv, WorldInv, PromiseInv, [Next]_vars, BeginConfigure
  PROVE  AddedInv' /\ RemovedInv' /\ SetInv'
<1>t. /\ active \in Active /\ request' = request /\ file' = file /\ running' = running
      /\ active.op \in Op /\ request[active.op] \in Request /\ Kind = "configure" /\ At("begin")
      /\ (~Troubled' => ~Troubled)
  BY NoTrouble DEF IInv, TypeInv, BeginConfigure, At
<1>k. Changes = request[active.op].changes /\ request[active.op].key \in Key
      /\ DOMAIN Changes \subseteq {"record", "detect"}
  BY <1>t DEF Changes, Kind, Request
<1>1. CASE active'.at \in {"setAll", "end"}
  BY <1>1, PromiseElsewhere DEF Promised
<1>2. CASE active'.at \notin {"setAll", "end"}
  <2> DEFINE k == request[active.op].key
  <2>1. PICK config \in {file} \cup cached, at \in {"setAll", "set"} :
          /\ active' = [active EXCEPT !.key = k, !.todo = DOMAIN Changes, !.at = at]
          /\ ("record" \in DOMAIN Changes /\ Changes.record /\ ~config.cameras[k].record) => at = "setAll"
    BY <1>t, <1>k, <1>2 DEF BeginConfigure, Finish, Active
  <2>2. /\ active'.at = "set" /\ active'.key = k /\ active'.op = active.op
        /\ active'.todo = DOMAIN Changes
    BY <1>t, <1>2, <2>1 DEF Active
  <2> HIDE DEF k
  <2>3. Changes' = Changes /\ Kind' = Kind
    BY <1>t, <2>2 DEF Changes, Kind
  <2>4. (Applied(DOMAIN Changes \ active.todo))'
    BY <2>2, <2>3 DEF Applied
  <2>5. ~Troubled' => Switched'
    <3>1. SUFFICES ASSUME ~Troubled', "record" \in DOMAIN Changes, Changes.record, running[k] # {}
                   PROVE  "output" \in running[k]
      BY <1>t, <2>2, <2>3 DEF Switched
    <3>2. config.cameras[k].record
      BY <1>t, <2>1, <2>2, <3>1 DEF Active
    <3>3. k \in Key
      BY <1>k DEF k
    <3> QED
      BY <1>t, <3>1, <3>2, <3>3 DEF PromiseInv, RunInv, At
  <2>6. SetInv'
    BY <2>2, <2>4, <2>5 DEF SetInv, At
  <2> QED
    BY <2>2, <2>6 DEF AddedInv, RemovedInv, At
<1> QED
  BY <1>1, <1>2

LEMMA PromiseSet ==
  ASSUME IInv, WorldInv, PromiseInv, [Next]_vars, SetAll \/ SetSection
  PROVE  AddedInv' /\ RemovedInv' /\ SetInv'
<1>t. /\ active \in Active /\ active.key \in Key /\ request' = request /\ file \in Config
      /\ active.op \in Op /\ request[active.op] \in Request /\ Kind = "configure"
      /\ file.cameras[active.key] \in Camera
      /\ (~Troubled' => ~Troubled)
  BY NoTrouble DEF IInv, TypeInv, StageInv, SetAll, SetSection, At, Active, Config
<1>k. /\ DOMAIN Changes \subseteq {"record", "detect"}
      /\ \A f \in DOMAIN Changes : Changes[f] \in BOOLEAN
  <2>1. PICK names \in SUBSET {"record", "detect"} : Changes \in [names -> BOOLEAN]
    BY <1>t DEF Changes, Kind, Request
  <2> QED
    BY <2>1
<1>h. Has(file', active.key) <=> Has(file, active.key)
  BY <1>t, SettingSteps
<1>1. CASE active'.at = "end"
  BY <1>1, PromiseElsewhere DEF Promised
<1>2. CASE SetAll /\ active'.at # "end"
  <2> DEFINE changed == Settings(file.cameras[active.key], Changes)
  <2>1. file' = Set(changed) /\ active' = [active EXCEPT !.at = "restart"]
    BY <1>t, <1>2 DEF SetAll, ConfigSet, Go, Finish, Active, Changes
  <2>2. active'.at = "restart" /\ active'.key = active.key /\ active'.op = active.op
    BY <1>t, <2>1 DEF Active
  <2>3. Changes' = Changes /\ Kind' = Kind
    BY <1>t, <2>2 DEF Changes, Kind
  <2>4. ASSUME NEW f \in DOMAIN Changes PROVE changed[f] = Changes[f]
    <3>1. f = "record" \/ f = "detect"
      BY <1>k
    <3> QED
      BY <1>t, <1>k, <3>1 DEF Settings, Camera
  <2> HIDE DEF changed
  <2>5. Has(file, active.key) => file'.cameras[active.key] = changed
    BY <1>t, <2>1 DEF Set, Config, Has
  <2>6. Applied(DOMAIN Changes)'
    BY <1>h, <2>2, <2>3, <2>4, <2>5 DEF Applied
  <2>7. SetInv'
    BY <2>2, <2>6 DEF SetInv, At
  <2> QED
    BY <1>t, <2>2, <2>3, <2>7 DEF AddedInv, RemovedInv, At
<1>3. CASE SetSection /\ active'.at # "end"
  <2> DEFINE name == IF "record" \in active.todo THEN "record" ELSE "detect"
             value == Changes[name]
             changed == Section(file.cameras[active.key], name, value)
  <2>1. /\ file' = Set(changed) /\ active' = [active EXCEPT !.todo = @ \ {name}]
        /\ running' = [running EXCEPT ![active.key] = Live(@, name, value)] /\ At("set")
    BY <1>t, <1>3 DEF SetSection, ConfigSet, Finish, Active, Changes
  <2>2. /\ active'.at = "set" /\ active'.key = active.key /\ active'.op = active.op
        /\ active'.todo = active.todo \ {name}
    BY <1>t, <2>1 DEF Active, At
  <2>3. Changes' = Changes /\ Kind' = Kind
    BY <1>t, <2>2 DEF Changes, Kind
  <2>4. name \in {"record", "detect"} /\ name \in DOMAIN Changes /\ value \in BOOLEAN
    <3>1. name \in active.todo /\ active.todo \subseteq DOMAIN Changes
      BY <1>t, <1>3, <2>1 DEF IInv, StageInv, At, Changes, Active, SetSection
    <3> QED
      BY <1>k, <3>1
  <2>5. Applied(DOMAIN Changes \ active.todo) /\ (~Troubled => Switched)
    BY <2>1 DEF PromiseInv, SetInv, At
  <2> HIDE DEF name, value
  <2>6. /\ changed[name] = value
        /\ \A f \in {"record", "detect"} \ {name} : changed[f] = file.cameras[active.key][f]
    BY <1>t, <2>4 DEF Section, Camera
  <2> HIDE DEF changed
  <2>7. Has(file, active.key) => file'.cameras[active.key] = changed
    BY <1>t, <2>1 DEF Set, Config, Has
  <2>8. (Applied(DOMAIN Changes \ active.todo))'
    <3>1. ASSUME NEW f \in DOMAIN Changes, f \notin active.todo \/ f = name, Has(file, active.key)
          PROVE  changed[f] = Changes[f]
      <4>1. CASE f = name
        BY <2>6, <4>1 DEF value
      <4>2. CASE f # name
        BY <1>k, <2>5, <2>6, <3>1, <4>2 DEF Applied
      <4> QED
        BY <4>1, <4>2
    <3>2. \A f \in DOMAIN Changes \ (active.todo \ {name}) :
             Has(file', active.key) => file'.cameras[active.key][f] = Changes[f]
      BY <1>h, <2>7, <3>1
    <3> QED
      BY <2>2, <2>3, <3>2 DEF Applied
  <2>9. ~Troubled' => Switched'
    <3>1. running[active.key] \subseteq Does /\ (running[active.key] # {} => "loaded" \in running[active.key])
          /\ running'[active.key] = Live(running[active.key], name, value)
      BY <1>t, <2>1 DEF WorldInv
    <3>2. running[active.key] # {} => "loaded" \in running[active.key]
      BY <3>1
    <3>3. /\ (Live(running[active.key], name, value) = {}) <=> (running[active.key] = {})
          /\ "output" \in running[active.key] => "output" \in Live(running[active.key], name, value)
      BY <2>4, <3>1, <3>2, LiveType
    <3> QED
      BY <1>t, <2>2, <2>3, <2>5, <3>1, <3>3 DEF Switched
  <2>10. SetInv'
    BY <2>2, <2>8, <2>9 DEF SetInv, At
  <2> QED
    BY <2>2, <2>10 DEF AddedInv, RemovedInv, At
<1> QED
  BY <1>1, <1>2, <1>3

LEMMA PromiseStep == IInv /\ WorldInv /\ PromiseInv /\ [Next]_vars => PromiseInv'
<1> SUFFICES ASSUME IInv, WorldInv, PromiseInv, [Next]_vars PROVE PromiseInv'
  OBVIOUS
<1>p. RunInv /\ SetInv
  BY DEF PromiseInv
<1>1. CASE (\E op \in Op : Ask(op) \/ Load(op)) \/ Poll \/ Expire \/ UNCHANGED vars
  BY <1>1, <1>p, RunQuietSteps, PromiseAround DEF PromiseInv
<1>2. CASE Crash
  <2>1. RunInv'
    BY <1>2, NoTrouble DEF RunInv
  <2> QED
    BY <1>2, <2>1, PromiseAround DEF PromiseInv
<1>3. CASE \/ SaveStarted \/ SaveFinished \/ ReadFails \/ BeginAdd \/ CheckStreams \/ AddStream
           \/ RemoveAdded \/ RememberAdded \/ BeginRemove \/ RememberRemoved \/ ForgetManaged
           \/ ReadSettings
  BY <1>3, <1>p, RunQuietSteps, PromiseNowhere DEF PromiseInv
<1>4. CASE RecordManaged \/ WaitFps
  BY <1>4, <1>p, RunQuietSteps, PromiseVerified DEF PromiseInv
<1>5. CASE ReadDrained \/ ReadBefore
  BY <1>5, <1>p, RunQuietSteps, PromiseOut DEF PromiseInv
<1>6. CASE BeginConfigure
  BY <1>6, <1>p, RunQuietSteps, PromiseConfigure DEF PromiseInv
<1>7. CASE Restart \/ WaitBack
  BY <1>7, <1>p, RunRestarts, PromiseRestart DEF PromiseInv
<1>8. CASE RestartWithout \/ WaitBackWithout
  BY <1>8, <1>p, RunRestarts, PromiseRemoved DEF PromiseInv
<1>9. CASE DropPlaceholder
  BY <1>9, <1>p, RunWrites, PromiseNowhere DEF PromiseInv
<1>10. CASE WriteCamera
  BY <1>10, <1>p, RunWrites, PromiseWrite DEF PromiseInv
<1>11. CASE WriteOut
  BY <1>11, <1>p, RunWrites, PromiseOut DEF PromiseInv
<1>12. CASE RemoveStreams
  BY <1>12, <1>p, RunWrites, PromiseRemoved DEF PromiseInv
<1>13. CASE SetAll \/ SetSection
  BY <1>13, <1>p, RunSettings, PromiseSet DEF PromiseInv
<1>14. CASE Drain
  BY <1>14, <1>p, RunSettings, PromiseNowhere DEF PromiseInv
<1> QED
  BY <1>1, <1>2, <1>3, <1>4, <1>5, <1>6, <1>7, <1>8, <1>9, <1>10, <1>11, <1>12, <1>13, <1>14
  DEF Next, JobStep

----------------------------------------------------------------------------
(* What is left of an addition *)

Ahead == {"streams", "addMain", "addSub", "placeholder", "write", "undo"}
Behind == {"restart", "back", "verify"} \cup Out
Undoing(stages) == active.at \in stages /\ Kind = "add"
Authored(p) == author[p] # NoOp
Explained(op) == op \in lost \cup spoilt \cup stale

(* What the running addition has there that it may still have to undo. *)
Mine(p) ==
  /\ author[p] = active.op /\ p[1] = active.key
  /\ \/ p \in active.added /\ Undoing((Ahead \ {"streams", "addMain"}) \cup Behind)
     \/ p \in active.added \ Streams(file) /\ Undoing({"outStreams"})
     \/ p[2] = "camera" /\ Undoing(Behind)
HalfInv == \A p \in Piece : Leftover(p) => Explained(author[p]) \/ Mine(p)

(* Streams that only go2rtc has are those a job is about to clear. *)
Held(s) ==
  s \in active.added /\ (Undoing({"addSub", "placeholder", "write", "undo"}) \/ At("outStreams"))
LiveInv == \A s \in live \ Streams(file) : Authored(s) => Explained(author[s]) \/ Held(s)

(* A name that a cached answer shows free and the file has taken is one of   *)
(* pieces that are explained, or of the addition that has just written it.   *)
Copying(k) == k = active.key /\ Undoing({"restart", "back", "out"})
PiecesExplained(k) ==
  \A p \in Piece : p[1] = k /\ Authored(p) /\ There(p) => Explained(author[p])
CopyInv ==
  \A c \in cached, k \in Key : Has(file, k) /\ ~Has(c, k) => PiecesExplained(k) \/ Copying(k)

(* A restream that an addition created is read by its own camera only. *)
ReaderInv ==
  /\ \A s \in Stream, c \in cached \cup {file}, k \in Key :
       Authored(s) /\ s[1] # k => s \notin c.cameras[k].reads
  /\ active.at \in Out \cup {"access", "outStreams"} =>
       \A s \in active.added : Authored(s) => s[1] = active.key

(* An addition, before and after it writes its camera. *)
NewInv ==
  Undoing(Ahead \cup Behind) =>
    /\ active.key \notin shown
    /\ \A s \in active.added : author[s] = active.op
    /\ active.at \in Ahead => Explained(active.op) \/ ~Has(file, active.key)
    /\ active.at \in Behind \ {"outWrite"} => Explained(active.op) \/ Has(file, active.key)
    /\ At("outWrite") => Explained(active.op) \/ Has(active.config, active.key)

LeftInv == HalfInv /\ LiveInv /\ CopyInv /\ ReaderInv /\ NewInv

LEMMA LeftInit == Init => LeftInv
<1> SUFFICES ASSUME Init PROVE LeftInv
  OBVIOUS
<1>1. /\ cached = {} /\ active.at = "idle" /\ live = Streams(file)
      /\ \A p \in Piece : author[p] = NoOp
  BY DEF Init, Idle
<1>2. Stream \subseteq Piece
  BY DEF Piece
<1>3. HalfInv /\ LiveInv /\ CopyInv
  BY <1>1, <1>2 DEF HalfInv, LiveInv, CopyInv, Leftover
<1>4. ReaderInv /\ NewInv
  BY <1>1, <1>2 DEF ReaderInv, NewInv, Undoing, Ahead, Behind, Out, Authored
<1> QED
  BY <1>3, <1>4 DEF LeftInv

(* What is explained stays so. *)
LEMMA ExplainedStays ==
  ASSUME [Next]_vars
  PROVE  spoilt \subseteq spoilt' /\ lost \subseteq lost' /\ stale \subseteq stale' /\ request' = request
<1>1. CASE UNCHANGED vars \/ Poll \/ Expire \/ Crash \/ \E op \in Op : Ask(op) \/ Load(op)
  BY <1>1 DEF vars, seen, Poll, Expire, Crash, Undone, Ask, Load
<1>2. CASE SaveStarted \/ SaveFinished \/ ReadFails \/ BeginAdd \/ CheckStreams \/ AddStream
  BY <1>2 DEF SaveStarted, SaveFinished, ReadFails, BeginAdd, CheckStreams, AddStream, seen, Undone,
              Unanswered
<1>3. CASE DropPlaceholder \/ WriteCamera \/ RemoveAdded \/ Restart \/ WaitBack \/ WaitFps
  BY <1>3 DEF DropPlaceholder, WriteCamera, RemoveAdded, Restart, WaitBack, WaitFps, seen, Undone,
              Unanswered
<1>4. CASE RecordManaged \/ RememberAdded \/ ReadBefore \/ Drain \/ ReadDrained \/ WriteOut
  BY <1>4 DEF RecordManaged, RememberAdded, ReadBefore, Drain, ReadDrained, WriteOut, seen, Undone
<1>5. CASE RemoveStreams \/ RestartWithout \/ WaitBackWithout \/ BeginRemove \/ RememberRemoved
  BY <1>5 DEF RemoveStreams, RestartWithout, WaitBackWithout, BeginRemove, RememberRemoved, seen, Undone
<1>6. CASE ForgetManaged \/ BeginConfigure \/ SetAll \/ SetSection \/ ReadSettings
  BY <1>6 DEF ForgetManaged, BeginConfigure, SetAll, SetSection, ReadSettings, seen
<1> QED
  BY <1>1, <1>2, <1>3, <1>4, <1>5, <1>6 DEF Next, JobStep

(* A step that creates nothing and forgets no frames. *)
Fades ==
  /\ author' = author /\ shown \subseteq shown'
  /\ spoilt \subseteq spoilt' /\ lost \subseteq lost' /\ stale \subseteq stale'
  /\ \A k \in Key : Has(file', k) => Has(file, k)
  /\ Streams(file') \subseteq Streams(file) /\ live' \subseteq live \cup Streams(file)
  /\ cached' \subseteq cached \cup {file'}

(* It needs a look only at what the running job keeps. *)
LEMMA Fading ==
  ASSUME HalfInv, LiveInv, CopyInv, Fades,
         \A p \in Piece : Mine(p) /\ Leftover(p)' => Explained(author[p])' \/ Mine(p)',
         \A s \in live' \ Streams(file') : Authored(s) /\ (Held(s) \/ s \in Streams(file)) =>
           Explained(author[s])' \/ Held(s)',
         \A k \in Key : Copying(k) /\ (\E c \in cached' : Has(file', k) /\ ~Has(c, k)) =>
           Copying(k)' \/ PiecesExplained(k)'
  PROVE  HalfInv' /\ LiveInv' /\ CopyInv'
<1>1. ASSUME NEW p \in Piece, There(p)' PROVE There(p)
  <2>1. p \in live \cup Streams(file) \/ (p[2] = "camera" /\ Has(file', p[1]))
    BY <1>1 DEF Fades, There, Has
  <2>2. p \in Stream \/ p[1] \in Key
    BY DEF Piece
  <2>3. p \notin live \cup Streams(file) => p[1] \in Key
    BY <2>1, <2>2 DEF Stream
  <2> QED
    BY <2>1, <2>3 DEF Fades, There
<1>2. HalfInv'
  <2> SUFFICES ASSUME NEW p \in Piece, Leftover(p)' PROVE Explained(author[p])' \/ Mine(p)'
    BY DEF HalfInv
  <2>1. Leftover(p)
    BY <1>1 DEF Leftover, Fades
  <2>2. Explained(author[p]) => Explained(author[p])'
    BY DEF Fades, Explained
  <2> QED
    BY <2>1, <2>2 DEF HalfInv
<1>3. LiveInv'
  <2> SUFFICES ASSUME NEW s \in live' \ Streams(file'), Authored(s)'
               PROVE  Explained(author[s])' \/ Held(s)'
    BY DEF LiveInv
  <2>1. Authored(s)
    BY DEF Authored, Fades
  <2>2. Explained(author[s]) => Explained(author[s])'
    BY DEF Fades, Explained
  <2>3. s \in live \ Streams(file) \/ s \in Streams(file)
    BY DEF Fades
  <2> QED
    BY <2>1, <2>2, <2>3 DEF LiveInv
<1>4. CopyInv'
  <2> SUFFICES ASSUME NEW c \in cached', NEW k \in Key, Has(file', k), ~Has(c, k)
               PROVE  PiecesExplained(k)' \/ Copying(k)'
    BY DEF CopyInv, Has
  <2>1. c \in cached /\ Has(file, k)
    BY DEF Fades
  <2>2. PiecesExplained(k) => PiecesExplained(k)'
    BY <1>1 DEF PiecesExplained, Fades, Explained, Authored
  <2> QED
    BY <2>1, <2>2 DEF CopyInv
<1> QED
  BY <1>2, <1>3, <1>4

(* Stages at which a job has something to undo, or to clear. *)
Keeping == {"addSub", "placeholder", "write", "undo", "restart", "back", "verify", "outStreams"}
             \cup Out
Keeps == active.at \in Keeping /\ (Kind = "add" \/ At("outStreams"))

LEMMA FadingFree ==
  ASSUME HalfInv, LiveInv, CopyInv, Fades, ~Keeps, Streams(file) \subseteq Streams(file')
  PROVE  HalfInv' /\ LiveInv' /\ CopyInv'
<1>1. \A p \in Piece : ~Mine(p)
  BY DEF Keeps, Mine, Undoing, Keeping, Ahead, Behind, At
<1>2. \A s : ~Held(s)
  BY DEF Keeps, Held, Undoing, Keeping, At
<1>3. \A k : ~Copying(k)
  BY DEF Keeps, Copying, Undoing, Keeping, Out, At
<1> QED
  BY <1>1, <1>2, <1>3, Fading

(* An undoing that fails, or a stop, explains what the job keeps. *)
LEMMA UndoneExplains ==
  ASSUME WorldInv, Undone, active.key \in Key
  PROVE  /\ \A p \in Piece : p[1] = active.key /\ Authored(p) => author[p] \in spoilt'
         /\ active.op # NoOp => active.op \in spoilt'
<1>1. active.op # NoOp => active.op \in spoilt'
  BY DEF Undone, Touched
<1>2. ASSUME NEW p \in Piece, p[1] = active.key, Authored(p) PROVE author[p] \in spoilt'
  <2>1. p = <<active.key, p[2]>> /\ p[2] \in {"main", "sub", "camera"}
    BY <1>2 DEF Piece, Stream
  <2>2. author[p] \in {author[<<active.key, s>>] : s \in {"main", "sub", "camera"}}
    BY <2>1
  <2> QED
    BY <1>2, <2>2 DEF Undone, Touched, Authored
<1> QED
  BY <1>1, <1>2

LEMMA FadingUndone ==
  ASSUME IInv, WorldInv, LeftInv, Fades, Undone, active.at # "idle",
         \A s \in Streams(file) : s \in Streams(file') \/ s \in active.added,
         active.at = "outWrite" \/ Streams(file) \subseteq Streams(file')
  PROVE  HalfInv' /\ LiveInv' /\ CopyInv'
<1>t. /\ active \in Active /\ active.key \in Key /\ active.added \subseteq Stream /\ active.op \in Op
      /\ author' = author /\ Stream \subseteq Piece /\ active.op # NoOp
  BY FrigateAssumption DEF IInv, TypeInv, Active, Fades, Piece
<1>1. /\ \A p \in Piece : p[1] = active.key /\ Authored(p) => Explained(author[p])'
      /\ active.op \in spoilt'
  <2>1. /\ \A p \in Piece : p[1] = active.key /\ Authored(p) => author[p] \in spoilt'
        /\ active.op \in spoilt'
    BY <1>t, UndoneExplains
  <2> QED
    BY <1>t, <2>1 DEF Explained
<1>2. \A p \in Piece : Mine(p) => Explained(author[p])'
  <2> SUFFICES ASSUME NEW p \in Piece, Mine(p) PROVE Explained(author[p])'
    OBVIOUS
  <2>1. author'[p] = active.op
    BY <1>t DEF Mine
  <2> QED
    BY <1>1, <2>1 DEF Explained
<1>3. ASSUME NEW s \in live' \ Streams(file'), Authored(s), Held(s) \/ s \in Streams(file)
      PROVE  Explained(author[s])'
  <2>1. s \in active.added
    BY <1>3 DEF Held
  <2>2. Undoing({"addSub", "placeholder", "write", "undo"}) \/ active.at \in {"outStreams", "outWrite"}
    BY <1>3 DEF Held, At
  <2>3. s[1] = active.key
    <3>1. CASE Undoing({"addSub", "placeholder", "write", "undo"})
      <4>1. active.added \subseteq Own(active.key)
        BY <3>1 DEF IInv, AddInv, Undoing, Adding
      <4> QED
        BY <2>1, <4>1 DEF Own
    <3>2. CASE active.at \in {"outStreams", "outWrite"}
      BY <1>3, <2>1, <3>2 DEF LeftInv, ReaderInv, Out
    <3> QED
      BY <2>2, <3>1, <3>2
  <2> QED
    BY <1>t, <1>1, <1>3, <2>1, <2>3
<1>4. ASSUME NEW k \in Key, Copying(k) PROVE PiecesExplained(k)'
  BY <1>t, <1>1, <1>4 DEF Copying, PiecesExplained, Authored
<1> QED
  BY <1>2, <1>3, <1>4, Fading DEF LeftInv

(* Every step but three fades. *)
LEMMA Outside ==
  ASSUME \/ \E op \in Op : Ask(op) \/ Load(op)
         \/ Poll \/ Expire \/ Crash \/ UNCHANGED vars
  PROVE  /\ UNCHANGED <<file, live, running, author, shown>> /\ cached' \subseteq cached \cup {file}
         /\ active' = active \/ active = Idle \/ Crash
<1>1. CASE \E op \in Op : Ask(op) \/ Load(op)
  BY <1>1 DEF Ask, Load, Start, frigate, seen
<1>2. CASE Poll \/ Expire \/ Crash \/ UNCHANGED vars
  BY <1>2 DEF Poll, Expire, Crash, vars, frigate, seen
<1> QED
  BY <1>1, <1>2

(* Steps of a job that leave Frigate's file and go2rtc as they are. *)
Plain ==
  \/ SaveStarted \/ SaveFinished \/ ReadFails \/ CheckStreams \/ WaitBack \/ WaitFps \/ RecordManaged
  \/ RememberAdded \/ ReadBefore \/ ReadDrained \/ WaitBackWithout \/ BeginRemove \/ RememberRemoved
  \/ ForgetManaged \/ BeginConfigure \/ ReadSettings

LEMMA PlainSteps ==
  ASSUME Plain
  PROVE  /\ UNCHANGED <<file, live, author>> /\ shown \subseteq shown'
         /\ cached' \subseteq cached \cup {file}
<1>1. CASE SaveStarted \/ SaveFinished \/ ReadFails \/ CheckStreams \/ WaitBack
  BY <1>1 DEF SaveStarted, SaveFinished, ReadFails, CheckStreams, WaitBack, frigate, seen
<1>2. CASE RecordManaged \/ RememberAdded \/ RememberRemoved \/ ForgetManaged \/ WaitBackWithout
  BY <1>2 DEF RecordManaged, RememberAdded, RememberRemoved, ForgetManaged, WaitBackWithout, frigate,
              seen
<1>3. CASE ReadBefore \/ ReadDrained \/ BeginRemove \/ BeginConfigure \/ ReadSettings
  BY <1>3 DEF ReadBefore, ReadDrained, BeginRemove, BeginConfigure, ReadSettings, Read, seen
<1>4. CASE WaitFps
  BY <1>4 DEF WaitFps, frigate
<1> QED
  BY <1>1, <1>2, <1>3, <1>4 DEF Plain

LEMMA FadesPlain == ASSUME [Next]_vars, Plain PROVE Fades /\ Streams(file') = Streams(file)
  BY PlainSteps, ExplainedStays DEF Fades

(* What a write leaves in the file, and its streams. *)
LEMMA FadesWrite ==
  ASSUME IInv, [Next]_vars, DropPlaceholder \/ WriteOut \/ SetAll \/ SetSection \/ Drain
  PROVE  /\ Fades /\ live' = live
         /\ ~WriteOut => Streams(file') = Streams(file)
         /\ \A s \in Streams(file) : s \in Streams(file') \/ s \in active.added
         /\ \A k \in Key : file'.cameras[k].reads \subseteq file.cameras[k].reads
<1>1. CASE SetAll \/ SetSection \/ Drain
  <2>1. /\ \A k \in Key : Has(file', k) <=> Has(file, k)
        /\ \A k \in Key : file'.cameras[k].reads = file.cameras[k].reads
        /\ Streams(file') = Streams(file)
    BY <1>1, SettingSteps
  <2>2. /\ author' = author /\ shown' = shown /\ live' = live
        /\ cached' \subseteq cached \cup {file'} /\ ~WriteOut
    BY <1>1 DEF SetAll, SetSection, Drain, seen, WriteOut, At
  <2> QED
    BY <2>1, <2>2, ExplainedStays DEF Fades
<1>2. CASE DropPlaceholder \/ WriteOut
  <2>1. \/ file' = file
        \/ \E ks \in SUBSET Key, names \in SUBSET active.added :
             file' = Without(file, ks, names) /\ (~WriteOut => names = {})
    <3>1. CASE DropPlaceholder
      <4>1. {Placeholder} \in SUBSET Key
        BY FrigateAssumption DEF Placeholder, Key
      <4>2. file' = file \/ file' = Without(file, {Placeholder}, {})
        BY <3>1 DEF DropPlaceholder, ConfigSet
      <4> QED
        BY <4>1, <4>2
    <3>2. CASE WriteOut
      <4> DEFINE drop == IF Has(active.config, active.key) THEN {active.key} ELSE {}
                 names == active.added \cap Streams(active.config)
      <4>1. drop \in SUBSET Key /\ names \in SUBSET active.added
        BY DEF IInv, TypeInv, Active
      <4>2. file' = file \/ file' = Without(file, drop, names)
        BY <3>2 DEF WriteOut, ConfigSet
      <4> HIDE DEF drop, names
      <4> QED
        BY <3>2, <4>1, <4>2
    <3> QED
      BY <1>2, <3>1, <3>2
  <2>2. /\ \A k \in Key : Has(file', k) => Has(file, k)
        /\ Streams(file') \subseteq Streams(file)
        /\ ~WriteOut => Streams(file') = Streams(file)
        /\ \A s \in Streams(file) : s \in Streams(file') \/ s \in active.added
        /\ \A k \in Key : file'.cameras[k].reads \subseteq file.cameras[k].reads
    <3>1. CASE file' = file
      BY <3>1
    <3>2. CASE \E ks \in SUBSET Key, names \in SUBSET active.added :
                 file' = Without(file, ks, names) /\ (~WriteOut => names = {})
      <4>1. PICK ks \in SUBSET Key, names \in SUBSET active.added :
              file' = Without(file, ks, names) /\ (~WriteOut => names = {})
        BY <3>2
      <4>2. /\ \A k \in Key : file'.cameras[k] = IF k \in ks THEN NoCamera ELSE file.cameras[k]
            /\ \A k \in Key : Has(file', k) <=> Has(file, k) /\ k \notin ks
            /\ Streams(file') = Streams(file) \ names
        BY <4>1, AfterWithout
      <4>3. NoCamera.reads = {}
        BY DEF NoCamera
      <4> QED
        BY <4>1, <4>2, <4>3
    <3> QED
      BY <2>1, <3>1, <3>2
  <2>3. author' = author /\ shown' = shown /\ live' = live /\ cached' = cached
    BY <1>2 DEF DropPlaceholder, WriteOut, seen
  <2> QED
    BY <2>2, <2>3, ExplainedStays DEF Fades
<1> QED
  BY <1>1, <1>2

LEMMA FadesClear ==
  ASSUME [Next]_vars, RemoveAdded \/ RemoveStreams \/ Restart \/ RestartWithout
  PROVE  Fades /\ file' = file
<1>1. UNCHANGED <<file, cached, author, shown>>
  BY DEF RemoveAdded, RemoveStreams, Restart, RestartWithout, seen
<1>2. live' \subseteq live \cup Streams(file)
  BY DEF RemoveAdded, RemoveStreams, Restart, RestartWithout, Restarted
<1> QED
  BY <1>1, <1>2, ExplainedStays DEF Fades

(* A job that goes on keeps what it keeps. *)
LEMMA FadingGoes ==
  ASSUME HalfInv, LiveInv, CopyInv, Fades, Streams(file') = Streams(file), request' = request,
         active'.op = active.op, active'.key = active.key, active'.added = active.added,
         active.at \in (Ahead \ {"streams", "addMain"}) \cup Behind =>
           active'.at \in (Ahead \ {"streams", "addMain"}) \cup Behind,
         active.at \in Behind => active'.at \in Behind,
         active.at \in {"addSub", "placeholder", "write", "undo"} =>
           active'.at \in {"addSub", "placeholder", "write", "undo"},
         active.at = "outStreams" => active'.at = "outStreams",
         active.at \in {"restart", "back", "out"} =>
           active'.at \in {"restart", "back", "out"} \/ cached' = {}
  PROVE  HalfInv' /\ LiveInv' /\ CopyInv'
<1>1. ASSUME NEW p \in Piece, Mine(p) PROVE Mine(p)'
  <2>1. author' = author /\ Kind' = Kind
    BY DEF Fades, Kind
  <2> QED
    BY <1>1, <2>1 DEF Mine, Undoing
<1>2. ASSUME NEW s, Held(s) PROVE Held(s)'
  BY <1>2 DEF Held, Undoing, Kind, At
<1>3. ASSUME NEW k \in Key, Copying(k), cached' # {} PROVE Copying(k)'
  BY <1>3 DEF Copying, Undoing, Kind
<1> QED
  BY <1>1, <1>2, <1>3, Fading

LEMMA LeftOutside ==
  ASSUME IInv, WorldInv, LeftInv, [Next]_vars,
         \/ \E op \in Op : Ask(op) \/ Load(op)
         \/ Poll \/ Expire \/ Crash \/ UNCHANGED vars
  PROVE  HalfInv' /\ LiveInv' /\ CopyInv'
<1>1. Fades /\ file' = file /\ request' = request
  BY Outside, ExplainedStays DEF Fades
<1>2. CASE active' = active
  BY <1>1, <1>2, FadingGoes DEF LeftInv
<1>3. CASE active.at = "idle"
  BY <1>1, <1>3, FadingFree DEF LeftInv, Keeps, Keeping, Out
<1>4. CASE Crash /\ active.at # "idle"
  <2>1. Undone
    BY <1>4 DEF Crash, Idle
  <2> QED
    BY <1>1, <1>4, <2>1, FadingUndone
<1>5. active = Idle => active.at = "idle"
  BY DEF Idle
<1> QED
  BY <1>2, <1>3, <1>4, <1>5, Outside

(* The steps of jobs that keep nothing. *)
LEMMA LeftPlain ==
  ASSUME IInv, WorldInv, LeftInv, [Next]_vars,
         \/ SaveStarted \/ SaveFinished \/ ReadFails \/ CheckStreams \/ RecordManaged \/ RememberAdded
         \/ WaitBackWithout \/ BeginRemove \/ RememberRemoved \/ ForgetManaged \/ BeginConfigure
         \/ ReadSettings
  PROVE  HalfInv' /\ LiveInv' /\ CopyInv'
<1>1. Fades /\ Streams(file') = Streams(file)
  BY FadesPlain DEF Plain
<1>2. CASE ReadFails /\ active.at \in {"out", "outRead"}
  <2>1. Undone
    BY <1>2 DEF ReadFails
  <2> QED
    BY <1>1, <1>2, <2>1, FadingUndone
<1>3. CASE ~(ReadFails /\ active.at \in {"out", "outRead"})
  <2>1. active.at \notin Keeping
    <3>1. CASE ReadFails
      BY <1>3, <3>1 DEF ReadFails, Keeping, Out
    <3>2. CASE SaveStarted \/ SaveFinished \/ CheckStreams \/ RecordManaged \/ RememberAdded
      BY <3>2 DEF SaveStarted, SaveFinished, CheckStreams, RecordManaged, RememberAdded, Keeping, Out,
                  At
    <3>3. CASE \/ WaitBackWithout \/ BeginRemove \/ RememberRemoved \/ ForgetManaged
               \/ BeginConfigure \/ ReadSettings
      BY <3>3 DEF WaitBackWithout, BeginRemove, RememberRemoved, ForgetManaged, BeginConfigure,
                  ReadSettings, Keeping, Out, At
    <3> QED
      BY <3>1, <3>2, <3>3
  <2> QED
    BY <1>1, <2>1, FadingFree DEF LeftInv, Keeps
<1> QED
  BY <1>2, <1>3

(* Frigate restarts, and comes back. *)
LEMMA LeftRestart ==
  ASSUME IInv, WorldInv, LeftInv, [Next]_vars, Restart \/ RestartWithout \/ WaitBack \/ WaitFps
  PROVE  HalfInv' /\ LiveInv' /\ CopyInv'
<1>t. active \in Active /\ request' = request
  BY ExplainedStays DEF IInv, TypeInv
<1>1. Fades /\ Streams(file') = Streams(file)
  BY FadesClear, FadesPlain DEF Plain
<1>2. CASE RestartWithout \/ Kind # "add"
  <2>1. ~Keeps
    BY <1>2 DEF Keeps, Keeping, Out, RestartWithout, Restart, WaitBack, WaitFps, At
  <2> QED
    BY <1>1, <2>1, FadingFree DEF LeftInv
<1>3. CASE (Restart \/ WaitBack) /\ Kind = "add"
  <2>1. \/ /\ active.at = "restart"
           /\ \E at \in {"back", "out"} : active' = [active EXCEPT !.at = at]
        \/ /\ active.at = "back" /\ cached' = {}
           /\ \E at \in {"verify", "out"} : active' = [active EXCEPT !.at = at]
    BY <1>3 DEF Restart, WaitBack, Broken, Go, At
  <2>2. /\ active'.op = active.op /\ active'.key = active.key /\ active'.added = active.added
        /\ \/ active.at = "restart" /\ active'.at \in {"back", "out"}
           \/ active.at = "back" /\ active'.at \in {"verify", "out"} /\ cached' = {}
    BY <1>t, <2>1 DEF Active
  <2> QED
    BY <1>t, <1>1, <2>2, FadingGoes DEF LeftInv, Ahead, Behind, Out
<1>4. CASE WaitFps /\ Kind = "add"
  <2>1. active.at = "verify"
    BY <1>4 DEF WaitFps, At
  <2>2. \/ Go("record") /\ shown' = shown \cup {active.key}
        \/ Go("out")
    BY <1>4 DEF WaitFps
  <2>3. CASE Go("out")
    <3>1. /\ active'.op = active.op /\ active'.key = active.key /\ active'.added = active.added
          /\ active'.at = "out"
      BY <1>t, <2>3 DEF Active, Go
    <3> QED
      BY <1>t, <1>1, <2>1, <3>1, FadingGoes DEF LeftInv, Ahead, Behind, Out
  <2>4. CASE shown' = shown \cup {active.key}
    <3>1. \A p \in Piece : Mine(p) => ~Leftover(p)'
      BY <2>4 DEF Mine, Leftover
    <3>2. \A s : ~Held(s)
      BY <2>1 DEF Held, Undoing, At
    <3>3. \A k : ~Copying(k)
      BY <2>1 DEF Copying, Undoing
    <3> QED
      BY <1>1, <3>1, <3>2, <3>3, Fading DEF LeftInv
  <2> QED
    BY <2>2, <2>3, <2>4
<1> QED
  BY <1>2, <1>3, <1>4

(* On the way out, and the write. *)
LEMMA LeftDrained ==
  ASSUME IInv, WorldInv, LeftInv, [Next]_vars,
         Drain \/ ReadDrained \/ DropPlaceholder \/ SetAll \/ SetSection
  PROVE  HalfInv' /\ LiveInv' /\ CopyInv'
<1>t. active \in Active /\ request' = request
  BY ExplainedStays DEF IInv, TypeInv
<1>1. Fades /\ Streams(file') = Streams(file)
  <2>1. CASE ReadDrained
    BY <2>1, FadesPlain DEF Plain
  <2>2. CASE Drain \/ DropPlaceholder \/ SetAll \/ SetSection
    BY <2>2, FadesWrite DEF WriteOut, Drain, DropPlaceholder, SetAll, SetSection, At
  <2> QED
    BY <2>1, <2>2
<1>2. CASE SetAll \/ SetSection
  BY <1>1, <1>2, FadingFree DEF LeftInv, Keeps, Keeping, Out, SetAll, SetSection, At
<1>3. CASE Drain \/ DropPlaceholder
  <2>1. \/ active.at = "drain" /\ active' = [active EXCEPT !.at = "outRead"]
        \/ active.at = "placeholder" /\ active' = [active EXCEPT !.at = "write"]
    BY <1>3 DEF Drain, DropPlaceholder, Go, At
  <2>2. /\ active'.op = active.op /\ active'.key = active.key /\ active'.added = active.added
        /\ \/ active.at = "drain" /\ active'.at = "outRead"
           \/ active.at = "placeholder" /\ active'.at = "write"
    BY <1>t, <2>1 DEF Active
  <2> QED
    BY <1>t, <1>1, <2>2, FadingGoes DEF LeftInv, Ahead, Behind, Out
<1>4. CASE ReadDrained
  <2>1. /\ active'.op = active.op /\ active'.key = active.key /\ active'.added = active.added
        /\ active.at = "outRead" /\ active'.at = "outWrite"
    BY <1>t, <1>4 DEF Active, ReadDrained, At
  <2> QED
    BY <1>t, <1>1, <2>1, FadingGoes DEF LeftInv, Ahead, Behind, Out
<1> QED
  BY <1>2, <1>3, <1>4

LEMMA LeftReadBefore ==
  ASSUME IInv, WorldInv, LeftInv, [Next]_vars, ReadBefore
  PROVE  HalfInv' /\ LiveInv' /\ CopyInv'
<1>t. /\ active \in Active /\ request' = request /\ At("out") /\ Fades
      /\ Streams(file') = Streams(file) /\ author' = author
  BY ExplainedStays, FadesPlain DEF IInv, TypeInv, ReadBefore, Plain, Fades
<1>1. CASE Kind # "add"
  BY <1>t, <1>1, FadingFree DEF LeftInv, Keeps, At
<1>2. CASE Kind = "add"
  <2>1. PICK config \in {file} \cup cached :
          /\ cached' = {config} /\ (config = file \/ active.op \in stale')
          /\ \E at \in {"drain", "outWrite"} : active' = [active EXCEPT !.at = at, !.config = config]
    BY DEF ReadBefore, Read
  <2>2. /\ active'.op = active.op /\ active'.key = active.key /\ active'.added = active.added
        /\ active'.at \in {"drain", "outWrite"}
    BY <1>t, <2>1 DEF Active
  <2>3. ASSUME NEW p \in Piece, Mine(p) PROVE Mine(p)'
    <3>1. Kind' = Kind
      BY <1>t, <2>2 DEF Kind
    <3> QED
      BY <1>t, <2>2, <2>3, <3>1 DEF Mine, Undoing, Behind, Out, At
  <2>4. \A s : ~Held(s)
    BY <1>t DEF Held, Undoing, At
  <2>5. ASSUME NEW k \in Key, Copying(k), NEW c \in cached', Has(file', k), ~Has(c, k)
        PROVE  PiecesExplained(k)'
    <3>1. k = active.key /\ active.op \in stale'
      BY <1>t, <2>1, <2>5, PlainSteps DEF Copying, Plain, ReadBefore
    <3>2. k \notin shown
      BY <1>t, <1>2, <3>1 DEF LeftInv, NewInv, Undoing, Behind, Out, At
    <3>3. ASSUME NEW p \in Piece, p[1] = k, Authored(p), There(p) PROVE Explained(author[p])'
      <4>1. Explained(author[p]) \/ author[p] = active.op
        BY <3>2, <3>3 DEF LeftInv, HalfInv, Leftover, Authored, Mine
      <4> QED
        BY <1>t, <3>1, <4>1 DEF Explained, Fades
    <3>4. file' = file /\ live' = live
      BY DEF ReadBefore
    <3> QED
      BY <1>t, <3>3, <3>4 DEF PiecesExplained, Authored, There, Has
  <2> QED
    BY <1>t, <2>3, <2>4, <2>5, Fading DEF LeftInv
<1> QED
  BY <1>1, <1>2

LEMMA LeftWriteOut ==
  ASSUME IInv, WorldInv, LeftInv, [Next]_vars, WriteOut
  PROVE  HalfInv' /\ LiveInv' /\ CopyInv'
<1>t. /\ active \in Active /\ active.key \in Key /\ active.added \subseteq Stream /\ request' = request
      /\ At("outWrite") /\ Fades /\ author' = author /\ live' = live /\ live \subseteq Stream
      /\ \A s \in Streams(file) : s \in Streams(file') \/ s \in active.added
  BY ExplainedStays, FadesWrite DEF IInv, TypeInv, Active, WriteOut, Fades, WorldInv
<1>1. CASE Undone
  BY <1>t, <1>1, FadingUndone DEF At
<1>2. CASE ~Undone
  <2> DEFINE drop == IF Has(active.config, active.key) THEN {active.key} ELSE {}
             names == active.added \cap Streams(active.config)
  <2>1. /\ active' = [active EXCEPT !.at = "outStreams", !.drop = drop # {}]
        /\ file' = Without(file, drop, names) \/ drop = {}
    BY <1>2 DEF WriteOut, ConfigSet
  <2>2. /\ active'.op = active.op /\ active'.key = active.key /\ active'.added = active.added
        /\ active'.at = "outStreams"
    <3> HIDE DEF drop
    <3> QED
      BY <1>t, <2>1 DEF Active
  <2>3. ASSUME NEW p \in Piece, Mine(p), Leftover(p)' PROVE Explained(author[p])' \/ Mine(p)'
    <3>1. Kind = "add" /\ Kind' = Kind /\ author[p] = active.op /\ p[1] = active.key
          /\ (p \in active.added \/ p[2] = "camera")
      BY <1>t, <2>2, <2>3 DEF Mine, Undoing, Kind
    <3>2. CASE Explained(active.op)
      BY <1>t, <3>1, <3>2 DEF Explained, Fades
    <3>3. CASE ~Explained(active.op)
      <4>1. Has(active.config, active.key) /\ active.config = file
        BY <1>t, <3>1, <3>3 DEF LeftInv, NewInv, Undoing, Behind, Out, IInv, OutInv, At
      <4>2. file' = Without(file, {active.key}, active.added \cap Streams(file))
        BY <2>1, <4>1
      <4>3. /\ ~Has(file', active.key)
            /\ Streams(file') = Streams(file) \ (active.added \cap Streams(file))
        BY <1>t, <4>2, AfterWithout
      <4>4. p \in active.added
        <5>1. SUFFICES ASSUME p[2] = "camera" PROVE FALSE
          BY <3>1
        <5>2. p \notin Stream
          BY <5>1 DEF Stream
        <5>3. p \in live' \cup Streams(file') \/ Has(file', p[1])
          BY <2>3 DEF Leftover, There, Has
        <5> QED
          BY <1>t, <3>1, <4>3, <5>2, <5>3 DEF Streams
      <4>5. p \notin Streams(file')
        BY <4>3, <4>4
      <4> QED
        BY <1>t, <2>2, <3>1, <4>4, <4>5 DEF Mine, Undoing
    <3> QED
      BY <3>2, <3>3
  <2>4. ASSUME NEW s \in live' \ Streams(file'), Held(s) \/ s \in Streams(file) PROVE Held(s)'
    <3>1. s \in active.added
      BY <1>t, <2>4 DEF Held
    <3> QED
      BY <2>2, <3>1 DEF Held, At
  <2>5. \A k : ~Copying(k)
    BY <1>t DEF Copying, Undoing, At
  <2> QED
    BY <1>t, <2>3, <2>4, <2>5, Fading DEF LeftInv
<1> QED
  BY <1>1, <1>2

(* Go2rtc is put back: what a job still has there went, or it is explained. *)
LEMMA LeftCleared ==
  ASSUME IInv, WorldInv, LeftInv, [Next]_vars, RemoveAdded \/ RemoveStreams
  PROVE  HalfInv' /\ LiveInv' /\ CopyInv'
<1>t. /\ active \in Active /\ active.key \in Key /\ active.added \subseteq Stream /\ request' = request
      /\ active.at \in {"undo", "outStreams"} /\ Fades /\ author' = author /\ file' = file
      /\ RemoveAdded => Kind = "add" /\ At("undo")
  BY ExplainedStays, FadesClear DEF IInv, TypeInv, StageInv, Active, RemoveAdded, RemoveStreams, At, Fades
<1>1. CASE Undone
  BY <1>t, <1>1, FadingUndone
<1>2. CASE ~Undone
  <2>1. live' = live \ active.added
    BY <1>2 DEF RemoveAdded, RemoveStreams
  <2>2. ASSUME NEW p \in Piece, Mine(p), Leftover(p)' PROVE Explained(author[p])'
    <3>1. p \in active.added /\ author[p] = active.op /\ Kind = "add"
      BY <1>t, <2>2 DEF Mine, Undoing, Behind, Out
    <3>2. p \in Streams(file)
      <4>1. p \in Stream
        BY <1>t, <3>1
      <4>2. p[2] # "camera"
        BY <4>1 DEF Stream
      <4> QED
        BY <1>t, <2>1, <2>2, <3>1, <4>2 DEF Leftover, There
    <3>3. At("undo")
      BY <1>t, <2>2, <3>2 DEF Mine, Undoing, Ahead, Behind, Out, At
    <3>4. Free(file, active.key) /\ active.added \subseteq Own(active.key)
      BY <3>1, <3>3 DEF IInv, AddInv, Adding, At
    <3>5. Has(file, active.key)
      BY <3>1, <3>2, <3>4 DEF Free, Has, Streams
    <3>6. Explained(active.op)
      BY <3>1, <3>3, <3>5 DEF LeftInv, NewInv, Undoing, Ahead, At
    <3> QED
      BY <1>t, <3>1, <3>6 DEF Explained, Fades
  <2>3. \A s \in live' \ Streams(file') : ~Held(s) /\ s \notin Streams(file)
    BY <1>t, <2>1 DEF Held
  <2>4. \A k : ~Copying(k)
    BY <1>t DEF Copying, Undoing
  <2> QED
    BY <1>t, <2>2, <2>3, <2>4, Fading DEF LeftInv
<1> QED
  BY <1>1, <1>2

(* An addition chooses a name: what is left under it was explained. *)
LEMMA LeftBeginAdd ==
  ASSUME IInv, WorldInv, LeftInv, [Next]_vars, BeginAdd
  PROVE  HalfInv' /\ LiveInv' /\ CopyInv'
<1>1. PICK config \in {file} \cup cached :
        /\ Read(config)
        /\ \/ shown' = shown
           \/ CameraKeys(config) # {} /\ shown' = shown \ {CameraKey(config)}
  BY Zenon DEF BeginAdd
<1>t. /\ cached' = {config} /\ file' = file /\ live' = live /\ author' = author /\ At("begin")
      /\ spoilt \subseteq spoilt' /\ lost \subseteq lost' /\ stale \subseteq stale' /\ live \subseteq Stream
      /\ Stream \subseteq Piece
  BY <1>1, ExplainedStays DEF BeginAdd, Read, WorldInv, Piece
<1>2. CASE shown' = shown
  <2>1. Fades
    BY <1>t, <1>2 DEF Fades
  <2> QED
    BY <1>t, <2>1, FadingFree DEF LeftInv, Keeps, Keeping, Out, At
<1>3. CASE CameraKeys(config) # {} /\ shown' = shown \ {CameraKey(config)}
  <2> DEFINE k == CameraKey(config)
  <2>1. Works(file) /\ Works(config) /\ Became(config, file)
    BY BecameItself DEF IInv, FileInv
  <2>2. /\ k \in Key \ {Placeholder} /\ Free(file, k) /\ ~Has(config, k) /\ shown' = shown \ {k}
    BY <1>3, <2>1, ChosenName, StillFree
  <2> HIDE DEF k
  <2>3. /\ \A p \in Piece : Leftover(p) => Explained(author[p])
        /\ \A s \in live \ Streams(file) : Authored(s) => Explained(author[s])
        /\ \A c \in cached, j \in Key : Has(file, j) /\ ~Has(c, j) => PiecesExplained(j)
    BY <1>t DEF LeftInv, HalfInv, LiveInv, CopyInv, Mine, Held, Copying, Undoing, Ahead, Behind, Out, At
  <2>4. PiecesExplained(k)
    <3>1. CASE Has(file, k)
      <4>1. config \in cached
        BY <2>2, <3>1
      <4> QED
        BY <2>2, <2>3, <3>1, <4>1
    <3>2. CASE ~Has(file, k)
      <4> SUFFICES ASSUME NEW p \in Piece, p[1] = k, Authored(p), There(p) PROVE Explained(author[p])
        BY DEF PiecesExplained
      <4>1. p \in live \cup Streams(file) /\ p \in Stream
        BY <1>t, <3>2 DEF There, Streams
      <4>2. p \in Own(k)
        BY <4>1 DEF Own, Stream
      <4>3. p \notin Streams(file)
        BY <2>2, <3>2, <4>2 DEF Free, Streams, Has
      <4> QED
        BY <2>3, <4>1, <4>3
    <3> QED
      BY <3>1, <3>2
  <2>5. ASSUME NEW op, Explained(op) PROVE Explained(op)'
    BY <1>t, <2>5 DEF Explained
  <2>6. HalfInv'
    <3> SUFFICES ASSUME NEW p \in Piece, Leftover(p)' PROVE Explained(author[p])'
      BY DEF HalfInv
    <3>1. There(p) /\ Authored(p) /\ (p[1] \notin shown \/ p[1] = k)
      BY <1>t, <2>2 DEF Leftover, There, Has, Authored
    <3>2. Explained(author[p])
      BY <2>3, <2>4, <3>1 DEF Leftover, PiecesExplained, Authored
    <3> QED
      BY <1>t, <3>2 DEF Explained
  <2>7. LiveInv'
    BY <1>t, <2>3 DEF LiveInv, Explained, Authored
  <2>8. CopyInv'
    <3> SUFFICES ASSUME NEW j \in Key, Has(file, j), ~Has(config, j) PROVE PiecesExplained(j)'
      BY <1>t DEF CopyInv, Has
    <3>1. PiecesExplained(j)
      BY <2>3
    <3> QED
      BY <1>t, <3>1 DEF PiecesExplained, There, Has, Explained, Authored
  <2> QED
    BY <2>6, <2>7, <2>8
<1> QED
  BY <1>1, <1>2, <1>3

(* Go2rtc gets a stream, or may have got one. *)
LEMMA LeftAddStream ==
  ASSUME IInv, WorldInv, LeftInv, [Next]_vars, AddStream
  PROVE  HalfInv' /\ LiveInv' /\ CopyInv'
<1> DEFINE s == <<active.key, IF At("addMain") THEN "main" ELSE "sub">>
<1>t. /\ active \in Active /\ active.key \in Key /\ active.op \in Op /\ Kind = "add"
      /\ active.at \in {"addMain", "addSub"} /\ request' = request
      /\ spoilt \subseteq spoilt' /\ lost \subseteq lost' /\ stale \subseteq stale'
      /\ file' = file /\ cached' = cached /\ shown' = shown /\ Stream \subseteq Piece
      /\ live \subseteq Stream /\ author \in [Piece -> Op \cup {NoOp}]
  BY ExplainedStays DEF IInv, TypeInv, StageInv, Active, AddStream, WorldInv, Piece
<1>s. s \in Piece /\ s \in Stream /\ s \in Own(active.key) /\ s[1] = active.key
  BY <1>t DEF Stream, Own, Piece
<1>1. /\ author' = [author EXCEPT ![s] = active.op]
      /\ \/ /\ live' = live \cup {s}
            /\ \E at \in {"addSub", "placeholder"} :
                 active' = [active EXCEPT !.at = at, !.added = @ \cup {s}]
         \/ s \notin live /\ live' = live /\ active' = [active EXCEPT !.at = "undo"]
         \/ live' = live \cup {s} /\ Unanswered /\ active' = [active EXCEPT !.at = "undo"]
  BY DEF AddStream
<1> HIDE DEF s
<1>2. /\ author'[s] = active.op /\ \A p \in Piece \ {s} : author'[p] = author[p]
      /\ live' \subseteq live \cup {s}
      /\ active'.op = active.op /\ active'.key = active.key /\ active.added \subseteq active'.added
      /\ \/ live' = live \cup {s} /\ s \in active'.added /\ active'.at \in {"addSub", "placeholder"}
         \/ s \notin live' /\ active'.at = "undo"
         \/ active.op \in lost' /\ active'.at = "undo"
  <2>1. /\ author'[s] = active.op /\ \A p \in Piece \ {s} : author'[p] = author[p]
        /\ live' \subseteq live \cup {s}
    BY <1>t, <1>s, <1>1
  <2>2. CASE /\ live' = live \cup {s}
             /\ \E at \in {"addSub", "placeholder"} :
                  active' = [active EXCEPT !.at = at, !.added = @ \cup {s}]
    <3>1. /\ active'.op = active.op /\ active'.key = active.key
          /\ active'.added = active.added \cup {s} /\ active'.at \in {"addSub", "placeholder"}
      BY <1>t, <2>2 DEF Active
    <3> QED
      BY <2>1, <2>2, <3>1
  <2>3. CASE active' = [active EXCEPT !.at = "undo"]
    <3>1. /\ active'.op = active.op /\ active'.key = active.key
          /\ active'.added = active.added /\ active'.at = "undo"
      BY <1>t, <2>3 DEF Active
    <3>2. Unanswered => active.op \in lost'
      BY DEF Unanswered
    <3>3. (s \notin live /\ live' = live) \/ Unanswered
      BY <1>t, <1>1, <3>1 DEF Active
    <3> QED
      BY <2>1, <3>1, <3>2, <3>3
  <2> QED
    BY <1>1, <2>2, <2>3
<1>3. Has(file, active.key) => Explained(active.op)
  BY <1>t DEF LeftInv, NewInv, Undoing, Ahead
<1>4. s \in Streams(file) => Has(file, active.key)
  BY <1>t, <1>s DEF IInv, AddInv, Adding, Free, Streams, Has
<1>k. Kind' = Kind
  BY <1>t, <1>2 DEF Kind
<1>5. HalfInv'
  <2> SUFFICES ASSUME NEW p \in Piece, Leftover(p)' PROVE Explained(author[p])' \/ Mine(p)'
    BY DEF HalfInv
  <2>1. CASE p = s
    <3>1. CASE s \in active'.added /\ active'.at \in {"addSub", "placeholder"}
      BY <1>t, <1>k, <1>s, <1>2, <2>1, <3>1 DEF Mine, Undoing, Ahead
    <3>2. CASE active.op \in lost'
      BY <1>2, <2>1, <3>2 DEF Explained
    <3>3. CASE s \notin live'
      <4>1. p[2] # "camera"
        BY <1>s, <2>1 DEF Stream
      <4>2. Explained(active.op)
        BY <1>t, <1>3, <1>4, <2>1, <3>3, <4>1 DEF Leftover, There
      <4> QED
        BY <1>t, <1>2, <2>1, <4>2 DEF Explained
    <3> QED
      BY <1>2, <3>1, <3>2, <3>3
  <2>2. CASE p # s
    <3>1. Leftover(p)
      BY <1>t, <1>2, <2>2 DEF Leftover, There, Has
    <3>2. ASSUME Mine(p) PROVE Mine(p)'
      <4>1. p \in active.added /\ active.at = "addSub"
        BY <1>t, <3>2 DEF Mine, Undoing, Ahead, Behind, Out
      <4>2. p[1] = active.key /\ author[p] = active.op
        BY <3>2 DEF Mine
      <4> QED
        BY <1>t, <1>k, <1>2, <2>2, <4>1, <4>2 DEF Mine, Undoing, Ahead
    <3> QED
      BY <1>t, <1>2, <2>2, <3>1, <3>2 DEF LeftInv, HalfInv, Explained
  <2> QED
    BY <2>1, <2>2
<1>6. LiveInv'
  <2> SUFFICES ASSUME NEW x \in live' \ Streams(file), Authored(x)'
               PROVE  Explained(author[x])' \/ Held(x)'
    BY <1>t DEF LiveInv
  <2>1. CASE x = s
    BY <1>t, <1>k, <1>2, <2>1 DEF Held, Undoing, Explained
  <2>2. CASE x # s
    <3>1. x \in live \ Streams(file) /\ x \in Piece /\ author'[x] = author[x]
      BY <1>t, <1>2, <2>2
    <3>2. Explained(author[x]) \/ Held(x)
      BY <3>1 DEF LeftInv, LiveInv, Authored
    <3>3. Held(x) => Held(x)'
      BY <1>t, <1>k, <1>2 DEF Held, Undoing, At
    <3> QED
      BY <1>t, <3>1, <3>2, <3>3 DEF Explained
  <2> QED
    BY <2>1, <2>2
<1>7. CopyInv'
  <2> SUFFICES ASSUME NEW c \in cached, NEW k \in Key, Has(file, k), ~Has(c, k),
                      NEW p \in Piece, p[1] = k, Authored(p)', There(p)'
               PROVE  Explained(author[p])'
    BY <1>t DEF CopyInv, Has, PiecesExplained
  <2>1. CASE p = s
    BY <1>t, <1>s, <1>2, <1>3, <2>1 DEF Explained
  <2>2. CASE p # s
    <3>1. There(p) /\ Authored(p) /\ author'[p] = author[p]
      BY <1>t, <1>2, <2>2 DEF There, Has, Authored
    <3>2. PiecesExplained(k)
      BY <1>t DEF LeftInv, CopyInv, Copying, Undoing
    <3> QED
      BY <1>t, <3>1, <3>2 DEF PiecesExplained, Explained
  <2> QED
    BY <2>1, <2>2
<1> QED
  BY <1>5, <1>6, <1>7

(* The file with the camera of an addition and its restreams. *)
WithCamera ==
  LET r == request[active.op]
  IN With(file, active.key, CameraConfig(active.key, r, active.added # {}), active.added, r.host)

LEMMA WithCameraHas ==
  ASSUME IInv, At("write")
  PROVE  /\ \A j \in Key : Has(WithCamera, j) <=> Has(file, j) \/ j = active.key
         /\ \A j \in Key \ {active.key} : WithCamera.cameras[j] = file.cameras[j]
         /\ WithCamera.cameras[active.key].reads \subseteq Own(active.key)
         /\ Streams(WithCamera) = Streams(file) \cup active.added
<1> DEFINE r == request[active.op]
           block == CameraConfig(active.key, r, active.added # {})
<1>1. /\ active.op \in Op /\ Kind = "add" /\ r \in Request /\ file \in Config
      /\ active.key \in Key /\ active.added \subseteq Stream
  BY DEF IInv, TypeInv, StageInv, At, Active
<1>2. r.host \in Host /\ block # NoCamera /\ block.reads \subseteq Own(active.key)
  BY <1>1 DEF Request, Kind, CameraConfig, NoCamera, Wanted, Own
<1>3. WithCamera = With(file, active.key, block, active.added, r.host)
  BY DEF WithCamera
<1> HIDE DEF block, r
<1>4. Written(file, active.key, block, active.added, r.host)
  BY <1>1, <1>2 DEF Written
<1> QED
  BY <1>1, <1>2, <1>3, <1>4, AfterWith

LEMMA LeftWriteCamera ==
  ASSUME IInv, WorldInv, LeftInv, [Next]_vars, WriteCamera
  PROVE  HalfInv' /\ LiveInv' /\ CopyInv'
<1> DEFINE piece == <<active.key, "camera">>
<1>t. /\ active \in Active /\ active.key \in Key /\ active.op \in Op /\ Kind = "add"
      /\ At("write") /\ request' = request
      /\ spoilt \subseteq spoilt' /\ lost \subseteq lost' /\ stale \subseteq stale'
      /\ live' = live /\ cached' = cached /\ shown' = shown /\ Stream \subseteq Piece
      /\ live \subseteq Stream /\ author \in [Piece -> Op \cup {NoOp}]
      /\ active.added \subseteq Own(active.key) /\ active.added \subseteq Stream
      /\ active.key \notin shown /\ \A s \in active.added : author[s] = active.op
      /\ piece \in Piece /\ piece \notin Stream /\ active.op # NoOp
  <2>1. /\ active \in Active /\ active.key \in Key /\ active.op \in Op /\ Kind = "add" /\ At("write")
        /\ active.added \subseteq Stream
    BY DEF IInv, TypeInv, StageInv, Active, WriteCamera, At
  <2>2. /\ active.key \notin shown /\ \A s \in active.added : author[s] = active.op
    BY <2>1 DEF LeftInv, NewInv, Undoing, Ahead, At
  <2>3. active.added \subseteq Own(active.key)
    BY <2>1 DEF IInv, AddInv, Adding, At
  <2>4. piece \in Piece /\ piece \notin Stream /\ active.op # NoOp /\ Stream \subseteq Piece
    BY <2>1, FrigateAssumption DEF Piece, Stream
  <2> QED
    BY <2>1, <2>2, <2>3, <2>4, ExplainedStays DEF WriteCamera, WorldInv
<1>1. CASE file' = file /\ author' = author /\ active' = [active EXCEPT !.at = "undo"]
  <2>1. Fades /\ Streams(file') = Streams(file)
    BY <1>t, <1>1 DEF Fades
  <2>2. /\ active'.op = active.op /\ active'.key = active.key /\ active'.added = active.added
        /\ active'.at = "undo"
    BY <1>t, <1>1 DEF Active
  <2> QED
    BY <1>t, <2>1, <2>2, FadingGoes DEF LeftInv, Ahead, Behind, Out, At
<1>2. ASSUME file' = WithCamera, author' = [author EXCEPT ![piece] = active.op],
             \/ active' = [active EXCEPT !.at = "restart"]
             \/ active' = [active EXCEPT !.at = "undo"] /\ Unanswered
      PROVE  HalfInv' /\ LiveInv' /\ CopyInv'
  <2> HIDE DEF piece
  <2>1. /\ active'.op = active.op /\ active'.key = active.key /\ active'.added = active.added
        /\ active'.at = "restart" \/ Unanswered
    BY <1>t, <1>2 DEF Active
  <2>2. Kind' = Kind
    BY <1>t, <2>1 DEF Kind
  <2>3. /\ author'[piece] = active.op /\ \A p \in Piece \ {piece} : author'[p] = author[p]
        /\ \A s \in Stream : author'[s] = author[s]
    BY <1>t, <1>2
  <2>4. /\ \A j \in Key : Has(file', j) <=> Has(file, j) \/ j = active.key
        /\ Streams(file') = Streams(file) \cup active.added
    BY <1>t, <1>2, WithCameraHas
  <2>5. Unanswered => active.op \in lost'
    BY DEF Unanswered
  <2>6. \A p \in Piece : ~Mine(p) \/ p \in active.added
    BY <1>t DEF Mine, Undoing, Behind, Out, At
  <2>7. ASSUME NEW p \in Piece, p # piece, p \notin active.added, There(p)' PROVE There(p)
    <3>1. p \in live \cup Streams(file) \/ (p[2] = "camera" /\ Has(file', p[1]))
      BY <1>t, <2>4, <2>7 DEF There, Has
    <3>2. CASE p[2] = "camera" /\ Has(file', p[1])
      <4>1. p \in Key \X {"camera"}
        BY <3>2 DEF Piece, Stream
      <4>2. p[1] # active.key
        BY <2>7, <4>1 DEF piece
      <4> QED
        BY <2>4, <3>2, <4>1, <4>2 DEF There
    <3> QED
      BY <3>1, <3>2 DEF There
  <2>8. HalfInv'
    <3> SUFFICES ASSUME NEW p \in Piece, Leftover(p)' PROVE Explained(author[p])' \/ Mine(p)'
      BY DEF HalfInv
    <3>1. CASE p = piece \/ p \in active.added
      <4>1. author'[p] = active.op /\ p[1] = active.key /\ (p[2] = "camera" \/ p \in active.added)
        BY <1>t, <2>3, <3>1 DEF Own, piece
      <4>2. CASE active'.at = "restart"
        BY <1>t, <2>1, <2>2, <4>1, <4>2 DEF Mine, Undoing, Behind
      <4>3. CASE Unanswered
        BY <2>5, <4>1, <4>3 DEF Explained
      <4> QED
        BY <2>1, <4>2, <4>3
    <3>2. CASE p # piece /\ p \notin active.added
      <4>1. Leftover(p)
        BY <1>t, <2>3, <2>7, <3>2 DEF Leftover
      <4>2. Explained(author[p])
        BY <2>6, <3>2, <4>1 DEF LeftInv, HalfInv
      <4> QED
        BY <1>t, <2>3, <3>2, <4>2 DEF Explained
    <3> QED
      BY <3>1, <3>2
  <2>9. LiveInv'
    <3> SUFFICES ASSUME NEW s \in live' \ Streams(file'), Authored(s)' PROVE Explained(author[s])'
      BY DEF LiveInv
    <3>1. s \in live \ Streams(file) /\ s \in Stream /\ s \notin active.added
      BY <1>t, <2>4
    <3>2. Explained(author[s])
      BY <2>3, <3>1 DEF LeftInv, LiveInv, Held, Authored
    <3> QED
      BY <1>t, <2>3, <3>1, <3>2 DEF Explained
  <2>10. CopyInv'
    <3> SUFFICES ASSUME NEW c \in cached, NEW k \in Key, Has(file', k), ~Has(c, k)
                 PROVE  PiecesExplained(k)' \/ Copying(k)'
      BY <1>t DEF CopyInv, Has
    <3>1. CASE k = active.key /\ active'.at = "restart"
      BY <1>t, <2>1, <2>2, <3>1 DEF Copying, Undoing
    <3>2. CASE k = active.key /\ Unanswered
      <4> SUFFICES ASSUME NEW p \in Piece, p[1] = active.key, Authored(p)', There(p)'
                   PROVE  Explained(author[p])'
        BY <3>2 DEF PiecesExplained
      <4>1. CASE p = piece \/ p \in active.added
        BY <1>t, <2>3, <2>5, <3>2, <4>1 DEF Explained
      <4>2. CASE p # piece /\ p \notin active.added
        <5>1. Authored(p) /\ There(p) /\ author'[p] = author[p]
          BY <2>3, <2>7, <4>2 DEF Authored
        <5>2. Explained(author[p])
          <6>1. CASE Has(file, active.key)
            <7>1. PiecesExplained(active.key)
              BY <1>t, <3>2, <6>1 DEF LeftInv, CopyInv, Copying, Undoing, At
            <7> QED
              BY <5>1, <7>1 DEF PiecesExplained
          <6>2. CASE ~Has(file, active.key)
            <7>1. p \in live \cup Streams(file) /\ p \in Stream
              BY <1>t, <5>1, <6>2 DEF There, Streams
            <7>2. p \in Own(active.key)
              BY <7>1 DEF Own, Stream
            <7>3. p \notin Streams(file)
              BY <1>t, <6>2, <7>2 DEF IInv, AddInv, Adding, Free, Streams, Has, At
            <7> QED
              BY <4>2, <5>1, <7>1, <7>3 DEF LeftInv, LiveInv, Held
          <6> QED
            BY <6>1, <6>2
        <5> QED
          BY <1>t, <5>1, <5>2 DEF Explained
      <4> QED
        BY <4>1, <4>2
    <3>3. CASE k # active.key
      <4>1. PiecesExplained(k)
        BY <2>4, <3>3 DEF LeftInv, CopyInv, Copying
      <4> SUFFICES ASSUME NEW p \in Piece, p[1] = k, Authored(p)', There(p)' PROVE Explained(author[p])'
        BY DEF PiecesExplained
      <4>2. p # piece /\ p \notin active.added
        BY <1>t, <3>3 DEF Own, piece
      <4>3. Authored(p) /\ There(p) /\ author'[p] = author[p]
        BY <2>3, <2>7, <4>2 DEF Authored
      <4> QED
        BY <1>t, <4>1, <4>3 DEF PiecesExplained, Explained
    <3> QED
      BY <2>1, <3>1, <3>2, <3>3
  <2> QED
    BY <2>8, <2>9, <2>10
<1>3. \/ file' = file /\ author' = author /\ active' = [active EXCEPT !.at = "undo"]
      \/ /\ file' = WithCamera /\ author' = [author EXCEPT ![piece] = active.op]
         /\ \/ active' = [active EXCEPT !.at = "restart"]
            \/ active' = [active EXCEPT !.at = "undo"] /\ Unanswered
  BY DEF WriteCamera, ConfigSet, WithCamera, Go
<1> QED
  BY <1>1, <1>2, <1>3

LEMMA LeftThree ==
  ASSUME IInv, WorldInv, LeftInv, [Next]_vars
  PROVE  HalfInv' /\ LiveInv' /\ CopyInv'
<1>1. CASE (\E op \in Op : Ask(op) \/ Load(op)) \/ Poll \/ Expire \/ Crash \/ UNCHANGED vars
  BY <1>1, LeftOutside
<1>2. CASE \/ SaveStarted \/ SaveFinished \/ ReadFails \/ CheckStreams \/ RecordManaged
           \/ RememberAdded \/ WaitBackWithout \/ BeginRemove \/ RememberRemoved \/ ForgetManaged
           \/ BeginConfigure \/ ReadSettings
  BY <1>2, LeftPlain
<1>3. CASE Restart \/ RestartWithout \/ WaitBack \/ WaitFps
  BY <1>3, LeftRestart
<1>4. CASE Drain \/ ReadDrained \/ DropPlaceholder \/ SetAll \/ SetSection
  BY <1>4, LeftDrained
<1>5. CASE ReadBefore \/ WriteOut \/ RemoveAdded \/ RemoveStreams
  BY <1>5, LeftReadBefore, LeftWriteOut, LeftCleared
<1>6. CASE BeginAdd \/ AddStream \/ WriteCamera
  BY <1>6, LeftBeginAdd, LeftAddStream, LeftWriteCamera
<1> QED
  BY <1>1, <1>2, <1>3, <1>4, <1>5, <1>6 DEF Next, JobStep

(* Where a job that takes something out comes from. *)
Taking == Out \cup {"access", "outStreams"}

LEMMA TakingFrom ==
  ASSUME IInv, [Next]_vars, active'.at \in Taking
  PROVE  \/ active.at \in Taking /\ active'.key = active.key /\ active'.added = active.added
         \/ active'.at = "out" /\ Kind' = "add"
         \/ BeginRemove
<1>t. active \in Active /\ request' = request
  BY ExplainedStays DEF IInv, TypeInv
<1>1. CASE (\E op \in Op : Ask(op) \/ Load(op)) \/ Poll \/ Expire \/ Crash \/ UNCHANGED vars
  <2>1. active' = active \/ active'.at \in {"idle", "save"}
    <3>1. CASE \E op \in Op : Ask(op) \/ Load(op)
      BY <3>1 DEF Ask, Load, Start, Idle
    <3>2. CASE Poll \/ Expire \/ Crash \/ UNCHANGED vars
      BY <3>2 DEF Poll, Expire, Crash, vars, Idle
    <3> QED
      BY <1>1, <3>1, <3>2
  <2> QED
    BY <2>1 DEF Taking, Out
<1>2. CASE \/ SaveStarted \/ SaveFinished \/ ReadFails \/ BeginAdd \/ CheckStreams \/ DropPlaceholder
           \/ WriteCamera \/ RemoveAdded \/ RecordManaged \/ RememberAdded
  <2>1. active'.at \notin Taking
    <3>1. CASE SaveStarted \/ SaveFinished \/ ReadFails
      BY <1>t, <3>1 DEF SaveStarted, SaveFinished, ReadFails, Idle, Go, Finish, Active, Taking, Out
    <3>5. CASE BeginAdd
      <4>1. \/ Finish("failed")
            \/ \E k, config : active' = [active EXCEPT !.at = "streams", !.key = k, !.config = config]
        BY <3>5 DEF BeginAdd
      <4> QED
        BY <1>t, <4>1 DEF Finish, Active, Taking, Out
    <3>2. CASE CheckStreams \/ DropPlaceholder \/ RemoveAdded
      BY <1>t, <3>2 DEF CheckStreams, DropPlaceholder, RemoveAdded, Go, Finish, Active, Taking, Out
    <3>3. CASE WriteCamera
      <4>1. \E at \in {"restart", "undo"} : Go(at)
        BY <3>3 DEF WriteCamera
      <4> QED
        BY <1>t, <4>1 DEF Go, Active, Taking, Out
    <3>4. CASE RecordManaged \/ RememberAdded
      BY <1>t, <3>4 DEF RecordManaged, RememberAdded, Go, Finish, Active, Taking, Out
    <3> QED
      BY <1>2, <3>1, <3>2, <3>3, <3>4, <3>5
  <2> QED
    BY <2>1
<1>3. CASE AddStream
  BY <1>t, <1>3 DEF AddStream, Active, Taking, Out
<1>4. CASE \/ ForgetManaged \/ WaitBackWithout \/ BeginConfigure \/ SetAll \/ SetSection
           \/ ReadSettings \/ RestartWithout
  BY <1>t, <1>4 DEF ForgetManaged, WaitBackWithout, BeginConfigure, SetAll, SetSection, ReadSettings,
     RestartWithout, TakenOut, Go, Finish, Active, Taking, Out
<1>5. CASE Restart \/ WaitBack \/ WaitFps
  <2>1. Kind = "add" /\ Go("out")
    <3>1. CASE Restart \/ WaitBack
      BY <1>t, <3>1 DEF Restart, WaitBack, Broken, Go, Finish, Active, Taking, Out
    <3>2. CASE WaitFps
      <4>1. \E at \in {"record", "after", "out"} : Go(at) /\ (at = "out" => Kind = "add")
        BY <3>2 DEF WaitFps
      <4> QED
        BY <1>t, <4>1 DEF Go, Active, Taking, Out
    <3> QED
      BY <1>5, <3>1, <3>2
  <2>2. active'.at = "out" /\ active'.op = active.op
    BY <1>t, <2>1 DEF Go, Active
  <2> QED
    BY <1>t, <2>1, <2>2 DEF Kind
<1>6. CASE ReadBefore \/ Drain \/ ReadDrained \/ WriteOut \/ RemoveStreams \/ RememberRemoved
  <2>1. active.at \in Taking
    BY <1>6 DEF ReadBefore, Drain, ReadDrained, WriteOut, RemoveStreams, RememberRemoved, At, Taking, Out
  <2>2. active'.key = active.key /\ active'.added = active.added
    BY <1>t, <1>6 DEF ReadBefore, Drain, ReadDrained, WriteOut, RemoveStreams, RememberRemoved,
       TakenOut, Go, Finish, Active
  <2> QED
    BY <2>1, <2>2
<1> QED
  BY <1>1, <1>2, <1>3, <1>4, <1>5, <1>6 DEF Next, JobStep

(* Steps that create no stream keep their authors; no step but the write of  *)
(* a camera lets one read more.                                              *)
LEMMA AuthorStays ==
  ASSUME WorldInv, IInv, [Next]_vars, ~AddStream
  PROVE  \A s \in Stream : author'[s] = author[s]
<1>1. CASE WriteCamera
  <2>1. /\ author' = author \/ author' = [author EXCEPT ![<<active.key, "camera">>] = active.op]
        /\ author \in [Piece -> Op \cup {NoOp}] /\ Stream \subseteq Piece
    BY <1>1 DEF WriteCamera, WorldInv, Piece
  <2>2. <<active.key, "camera">> \notin Stream
    BY DEF Stream
  <2> QED
    BY <2>1, <2>2
<1>2. CASE (\E op \in Op : Ask(op) \/ Load(op)) \/ Poll \/ Expire \/ Crash \/ UNCHANGED vars
  BY <1>2, Outside
<1>3. CASE Plain
  BY <1>3, PlainSteps
<1>4. CASE DropPlaceholder \/ WriteOut \/ SetAll \/ SetSection \/ Drain
  BY <1>4, FadesWrite DEF Fades
<1>5. CASE RemoveAdded \/ RemoveStreams \/ Restart \/ RestartWithout
  BY <1>5, FadesClear DEF Fades
<1>6. CASE BeginAdd
  BY <1>6 DEF BeginAdd
<1> QED
  BY <1>1, <1>2, <1>3, <1>4, <1>5, <1>6 DEF Next, JobStep, Plain

LEMMA ReadsShrink ==
  ASSUME IInv, [Next]_vars, ~WriteCamera
  PROVE  /\ \A k \in Key : file'.cameras[k].reads \subseteq file.cameras[k].reads
         /\ cached' \subseteq cached \cup {file'}
<1>1. CASE (\E op \in Op : Ask(op) \/ Load(op)) \/ Poll \/ Expire \/ Crash \/ UNCHANGED vars
  BY <1>1, Outside
<1>2. CASE Plain
  BY <1>2, PlainSteps
<1>3. CASE DropPlaceholder \/ WriteOut \/ SetAll \/ SetSection \/ Drain
  BY <1>3, FadesWrite DEF Fades
<1>4. CASE RemoveAdded \/ RemoveStreams \/ Restart \/ RestartWithout
  BY <1>4, FadesClear DEF Fades
<1>5. CASE BeginAdd \/ AddStream
  BY <1>5 DEF BeginAdd, Read, AddStream
<1> QED
  BY <1>1, <1>2, <1>3, <1>4, <1>5 DEF Next, JobStep, Plain

LEMMA ReaderStep ==
  ASSUME IInv, WorldInv, LeftInv, [Next]_vars
  PROVE  ReaderInv'
<1>t. /\ ReaderInv /\ IInv' /\ active \in Active /\ active.key \in Key /\ active.op \in Op \cup {NoOp}
  BY FrigateStep DEF LeftInv, IInv, TypeInv, Active
<1>1. \A s \in Stream, c \in (cached \cup {file})', k \in Key :
         Authored(s)' /\ s[1] # k => s \notin c.cameras[k].reads
  <2> SUFFICES ASSUME NEW s \in Stream, NEW c \in cached' \cup {file'}, NEW k \in Key,
                      Authored(s)', s[1] # k
               PROVE  s \notin c.cameras[k].reads
    OBVIOUS
  <2>1. CASE AddStream
    <3>1. /\ c \in cached \cup {file} /\ Kind = "add" /\ active.at \in {"addMain", "addSub"}
          /\ \E x \in {"main", "sub"} : author' = [author EXCEPT ![<<active.key, x>>] = active.op]
      BY <2>1 DEF AddStream, IInv, StageInv
    <3>2. s \in Own(active.key) \/ author'[s] = author[s]
      BY <1>t, <3>1 DEF WorldInv, Own
    <3>3. s \in Own(active.key) => s \notin c.cameras[k].reads
      <4>1. Free(c, active.key)
        BY <3>1 DEF IInv, AddInv, Adding
      <4>2. s \in Own(active.key) => k # active.key
        BY DEF Own
      <4> QED
        BY <4>1, <4>2 DEF Free
    <3> QED
      BY <1>t, <3>1, <3>2, <3>3 DEF ReaderInv, Authored
  <2>2. CASE WriteCamera
    <3>1. author'[s] = author[s] /\ cached' = cached /\ file' \in {file, WithCamera} /\ At("write")
      BY <2>2, AuthorStays DEF AddStream, WriteCamera, ConfigSet, WithCamera, At
    <3>2. CASE c \in cached \cup {file}
      BY <1>t, <3>1, <3>2 DEF ReaderInv, Authored
    <3>3. CASE c = WithCamera
      <4>1. k # active.key => c.cameras[k] = file.cameras[k]
        BY <3>1, <3>3, WithCameraHas
      <4>2. k = active.key => c.cameras[k].reads \subseteq Own(k)
        BY <3>1, <3>3, WithCameraHas
      <4> QED
        BY <1>t, <3>1, <4>1, <4>2 DEF ReaderInv, Authored, Own
    <3> QED
      BY <3>1, <3>2, <3>3
  <2>3. CASE ~AddStream /\ ~WriteCamera
    <3>1. author'[s] = author[s] /\ cached' \subseteq cached \cup {file'}
          /\ file'.cameras[k].reads \subseteq file.cameras[k].reads
      BY <2>3, AuthorStays, ReadsShrink
    <3> QED
      BY <1>t, <3>1 DEF ReaderInv, Authored
  <2> QED
    BY <2>1, <2>2, <2>3
<1>2. ASSUME active'.at \in Taking, NEW s \in active'.added, Authored(s)'
      PROVE  s[1] = active'.key
  <2>1. CASE active.at \in Taking /\ active'.key = active.key /\ active'.added = active.added
    <3>1. ~AddStream /\ s \in Stream
      BY <1>2, <2>1 DEF AddStream, Taking, Out, IInv, TypeInv, Active
    <3>2. author'[s] = author[s]
      BY <3>1, AuthorStays
    <3> QED
      BY <1>t, <1>2, <2>1, <3>2 DEF ReaderInv, Authored, Taking
  <2>2. CASE active'.at = "out" /\ Kind' = "add"
    <3>1. active'.added \subseteq Own(active'.key)
      BY <1>t, <2>2 DEF IInv, AddInv, Out
    <3> QED
      BY <1>2, <3>1 DEF Own
  <2>3. CASE BeginRemove
    <3> DEFINE k == request[active.op].key
    <3>1. PICK config \in {file} \cup cached :
            \/ Finish("failed")
            \/ active' = [active EXCEPT !.at = "access", !.key = k, !.added = Owned(config, k)]
      BY <2>3 DEF BeginRemove
    <3>2. request[active.op] \in Request /\ Kind = "remove" /\ author' = author
      BY <2>3 DEF BeginRemove, IInv, TypeInv, At, seen
    <3>3. k \in Key
      BY <3>2 DEF Request, Kind
    <3> HIDE DEF k
    <3>4. active'.key = k /\ active'.added = Owned(config, k)
      BY <1>t, <1>2, <3>1 DEF Finish, Active, Taking, Out
    <3>5. s \in Own(k) \/ s \in config.cameras[k].live
      BY <1>2, <3>4 DEF Owned, Own
    <3>6. CASE s \in config.cameras[k].live /\ s \notin Own(k)
      <4>1. Works(config)
        BY DEF IInv, FileInv
      <4>2. s \in config.cameras[k].reads /\ s \in Stream
        BY <3>3, <3>6, <4>1 DEF Works, Config, Camera
      <4> QED
        BY <1>t, <1>2, <3>2, <3>3, <3>4, <4>2 DEF ReaderInv, Authored
    <3> QED
      BY <3>4, <3>5, <3>6 DEF Own
  <2> QED
    BY <1>2, <2>1, <2>2, <2>3, TakingFrom
<1> QED
  BY <1>1, <1>2 DEF ReaderInv, Taking

(* An addition goes on. *)
LEMMA NewGoes ==
  ASSUME NewInv, request' = request, shown' = shown, author' = author,
         spoilt \subseteq spoilt', lost \subseteq lost', stale \subseteq stale',
         active'.op = active.op, active'.key = active.key, active'.added = active.added,
         \/ /\ active.at \in Ahead /\ active'.at \in Ahead
            /\ Has(file', active.key) => Has(file, active.key)
         \/ /\ active.at \in Behind \ {"outWrite"} /\ active'.at \in Behind \ {"outWrite"}
            /\ Has(file, active.key) => Has(file', active.key)
         \/ active.at = "outWrite" /\ active'.at = "outWrite" /\ active'.config = active.config
  PROVE  NewInv'
<1> SUFFICES ASSUME Undoing(Ahead \cup Behind)'
             PROVE  (/\ active.key \notin shown
                     /\ \A s \in active.added : author[s] = active.op
                     /\ active.at \in Ahead => Explained(active.op) \/ ~Has(file, active.key)
                     /\ active.at \in Behind \ {"outWrite"} => Explained(active.op) \/ Has(file, active.key)
                     /\ At("outWrite") => Explained(active.op) \/ Has(active.config, active.key))'
  BY DEF NewInv
<1>1. Kind = "add" /\ Undoing(Ahead \cup Behind)
  BY DEF Undoing, Kind, Behind, Out
<1>2. /\ active.key \notin shown
      /\ \A s \in active.added : author[s] = active.op
      /\ active.at \in Ahead => Explained(active.op) \/ ~Has(file, active.key)
      /\ active.at \in Behind \ {"outWrite"} => Explained(active.op) \/ Has(file, active.key)
      /\ At("outWrite") => Explained(active.op) \/ Has(active.config, active.key)
  BY <1>1 DEF NewInv
<1>3. /\ Explained(active.op) => Explained(active.op)'
      /\ Has(file, active.key)' <=> Has(file', active.key)
      /\ active'.config = active.config => (Has(active.config, active.key)' <=> Has(active.config, active.key))
  BY DEF Explained, Has
<1>4. Ahead \cap Behind = {} /\ "outWrite" \notin Ahead
  BY DEF Ahead, Behind, Out
<1> QED
  BY <1>2, <1>3, <1>4 DEF At

(* The steps that leave additions, or are none of theirs. *)
LEMMA NewElsewhere ==
  ASSUME IInv, [Next]_vars,
         \/ SaveStarted \/ SaveFinished \/ ReadFails \/ RemoveAdded \/ RecordManaged \/ RememberAdded
         \/ WriteOut \/ RemoveStreams \/ RestartWithout \/ WaitBackWithout \/ BeginRemove
         \/ RememberRemoved \/ ForgetManaged \/ BeginConfigure \/ SetAll \/ SetSection \/ ReadSettings
  PROVE  NewInv'
<1>t. active \in Active /\ request' = request
  BY ExplainedStays DEF IInv, TypeInv
<1>1. CASE SaveStarted \/ SaveFinished \/ ReadFails \/ RemoveAdded \/ RecordManaged \/ RememberAdded
  <2>1. active'.at \notin Ahead \cup Behind
    BY <1>t, <1>1 DEF SaveStarted, SaveFinished, ReadFails, RemoveAdded, RecordManaged, RememberAdded,
       Idle, Go, Finish, Active, Ahead, Behind, Out
  <2> QED
    BY <2>1 DEF NewInv, Undoing
<1>2. CASE \/ WriteOut \/ RemoveStreams \/ RestartWithout \/ WaitBackWithout \/ BeginRemove
           \/ ForgetManaged \/ BeginConfigure \/ ReadSettings
  <2>1. active'.at \notin Ahead \cup Behind
    <3>1. CASE WriteOut \/ RemoveStreams \/ RestartWithout \/ WaitBackWithout \/ ForgetManaged
      BY <1>t, <3>1 DEF WriteOut, RemoveStreams, RestartWithout, WaitBackWithout, ForgetManaged,
         TakenOut, Go, Finish, Active, Ahead, Behind, Out
    <3>2. CASE BeginRemove \/ BeginConfigure \/ ReadSettings
      BY <1>t, <3>2 DEF BeginRemove, BeginConfigure, ReadSettings, Finish, Active, Ahead, Behind, Out
    <3> QED
      BY <1>2, <3>1, <3>2
  <2> QED
    BY <2>1 DEF NewInv, Undoing
<1>3. CASE RememberRemoved \/ SetAll \/ SetSection
  <2>1. Kind # "add"
    BY <1>3 DEF RememberRemoved, SetAll, SetSection, IInv, StageInv, At
  <2>2. active'.op = active.op
    BY <1>t, <1>3 DEF RememberRemoved, SetAll, SetSection, Go, Finish, Active
  <2> QED
    BY <1>t, <2>1, <2>2 DEF NewInv, Undoing, Kind
<1> QED
  BY <1>1, <1>2, <1>3

LEMMA NewGoesOn ==
  ASSUME IInv, WorldInv, LeftInv, [Next]_vars,
         \/ \E op \in Op : Ask(op) \/ Load(op)
         \/ Poll \/ Expire \/ Crash \/ UNCHANGED vars
         \/ CheckStreams \/ DropPlaceholder \/ Restart \/ WaitBack \/ WaitFps \/ Drain
  PROVE  NewInv'
<1>t. /\ active \in Active /\ active.key \in Key /\ request' = request
      /\ spoilt \subseteq spoilt' /\ lost \subseteq lost' /\ stale \subseteq stale' /\ NewInv
  BY ExplainedStays DEF IInv, TypeInv, Active, LeftInv
<1>1. CASE (\E op \in Op : Ask(op) \/ Load(op)) \/ Poll \/ Expire \/ Crash \/ UNCHANGED vars
  <2>1. /\ file' = file /\ author' = author /\ shown' = shown
        /\ active' = active \/ active'.at \in {"idle", "save"}
    <3>1. CASE \E op \in Op : Ask(op) \/ Load(op)
      BY <3>1 DEF Ask, Load, Start, Idle, frigate, seen
    <3>2. CASE Poll \/ Expire \/ Crash \/ UNCHANGED vars
      BY <3>2 DEF Poll, Expire, Crash, vars, Idle, frigate, seen
    <3> QED
      BY <1>1, <3>1, <3>2
  <2>2. CASE active'.at \in {"idle", "save"}
    BY <2>2 DEF NewInv, Undoing, Ahead, Behind, Out
  <2>3. CASE active' = active
    <3>1. CASE active.at \in Ahead \cup Behind
      BY <1>t, <2>1, <2>3, <3>1, NewGoes
    <3>2. CASE active.at \notin Ahead \cup Behind
      BY <2>3, <3>2 DEF NewInv, Undoing
    <3> QED
      BY <3>1, <3>2
  <2> QED
    BY <2>1, <2>2, <2>3
<1>2. CASE CheckStreams \/ DropPlaceholder
  <2>1. /\ author' = author /\ shown' = shown /\ active.at \in Ahead
        /\ Has(file', active.key) => Has(file, active.key)
    <3>1. CASE CheckStreams
      BY <3>1 DEF CheckStreams, frigate, seen, Ahead, At
    <3>2. CASE DropPlaceholder
      BY <1>t, <3>2, FadesWrite DEF DropPlaceholder, seen, Ahead, At, Fades
    <3> QED
      BY <1>2, <3>1, <3>2
  <2>2. \E at \in {"end", "addMain", "placeholder", "write"} : active' = [active EXCEPT !.at = at]
    BY <1>2 DEF CheckStreams, DropPlaceholder, Go, Finish
  <2>3. /\ active'.op = active.op /\ active'.key = active.key /\ active'.added = active.added
        /\ active'.at \in {"end", "addMain", "placeholder", "write"}
    BY <1>t, <2>2 DEF Active
  <2>4. CASE active'.at = "end"
    BY <2>4 DEF NewInv, Undoing, Ahead, Behind, Out
  <2>5. CASE active'.at # "end"
    <3>1. active'.at \in Ahead
      BY <2>3, <2>5 DEF Ahead
    <3> QED
      BY <1>t, <2>1, <2>3, <3>1, NewGoes
  <2> QED
    BY <2>4, <2>5
<1>3. CASE Restart \/ WaitBack \/ WaitFps \/ Drain
  <2>1. /\ author' = author /\ (~WaitFps => shown' = shown) /\ active.at \in Behind \ {"outWrite"}
        /\ Has(file, active.key) => Has(file', active.key)
    <3>1. CASE Restart \/ WaitBack \/ WaitFps
      BY <3>1 DEF Restart, WaitBack, WaitFps, frigate, seen, Behind, Out, At
    <3>2. CASE Drain
      BY <1>t, <3>2, SettingSteps DEF Drain, seen, Behind, Out, At
    <3> QED
      BY <1>3, <3>1, <3>2
  <2>2. \E at \in {"end", "back", "verify", "record", "after", "out", "outRead"} :
          active' = [active EXCEPT !.at = at] /\ (at = "out" => shown' = shown)
    <3>1. CASE Restart \/ WaitBack \/ Drain
      BY <2>1, <3>1 DEF Restart, WaitBack, Drain, Broken, Go, Finish, WaitFps, At
    <3>2. CASE WaitFps
      BY <3>2 DEF WaitFps, Go
    <3> QED
      BY <1>3, <3>1, <3>2
  <2>3. /\ active'.op = active.op /\ active'.key = active.key /\ active'.added = active.added
        /\ active'.at \in {"end", "back", "verify", "record", "after", "out", "outRead"}
        /\ active'.at = "out" => shown' = shown
    BY <1>t, <2>2 DEF Active
  <2>4. CASE active'.at \in {"end", "record", "after"}
    BY <2>4 DEF NewInv, Undoing, Ahead, Behind, Out
  <2>5. CASE active'.at \notin {"end", "record", "after"}
    <3>1. active'.at \in Behind \ {"outWrite"}
      BY <2>3, <2>5 DEF Behind, Out
    <3>2. shown' = shown
      <4>1. WaitFps => active'.at \in {"out", "record", "after"}
        <5>1. WaitFps => \E at \in {"out", "record", "after"} : Go(at)
          BY DEF WaitFps
        <5> QED
          BY <1>t, <5>1 DEF Go, Active
      <4> QED
        BY <2>1, <2>3, <2>5, <4>1
    <3> QED
      BY <1>t, <2>1, <2>3, <3>1, <3>2, NewGoes
  <2> QED
    BY <2>4, <2>5
<1> QED
  BY <1>1, <1>2, <1>3

(* The reads before a camera is taken out: an older answer is remembered. *)
LEMMA NewReads ==
  ASSUME IInv, WorldInv, LeftInv, [Next]_vars, ReadBefore \/ ReadDrained
  PROVE  NewInv'
<1>t. /\ active \in Active /\ active.key \in Key /\ request' = request /\ file' = file
      /\ spoilt \subseteq spoilt' /\ lost \subseteq lost' /\ stale \subseteq stale' /\ author' = author /\ shown' = shown
      /\ active.at \in {"out", "outRead"}
  BY ExplainedStays DEF IInv, TypeInv, Active, ReadBefore, ReadDrained, At, seen
<1>1. PICK config \in {file} \cup cached, at \in {"drain", "outWrite"} :
        /\ active' = [active EXCEPT !.at = at, !.config = config]
        /\ at = "drain" \/ ReadDrained \/ ~Has(config, active.key)
        /\ config = file \/ active.op \in stale'
  <2>1. ReadDrained => cached \subseteq {file}
    BY DEF ReadDrained, IInv, OutInv, At
  <2> QED
    BY <2>1 DEF ReadBefore, ReadDrained
<1>2. /\ active'.op = active.op /\ active'.key = active.key /\ active'.added = active.added
      /\ active'.at = at /\ active'.config = config
  BY <1>t, <1>1 DEF Active
<1> SUFFICES ASSUME Undoing(Ahead \cup Behind)'
             PROVE  (/\ active.key \notin shown
                     /\ \A s \in active.added : author[s] = active.op
                     /\ active.at \in Ahead => Explained(active.op) \/ ~Has(file, active.key)
                     /\ active.at \in Behind \ {"outWrite"} => Explained(active.op) \/ Has(file, active.key)
                     /\ At("outWrite") => Explained(active.op) \/ Has(active.config, active.key))'
  BY DEF NewInv
<1>3. Kind = "add"
  BY <1>t, <1>2 DEF Undoing, Kind
<1>4. /\ active.key \notin shown
      /\ \A s \in active.added : author[s] = active.op
      /\ Explained(active.op) \/ Has(file, active.key)
  BY <1>t, <1>3 DEF LeftInv, NewInv, Undoing, Behind, Out
<1>5. /\ Explained(active.op) => Explained(active.op)'
      /\ Has(file, active.key)' <=> Has(file, active.key)
      /\ Has(active.config, active.key)' <=> Has(config, active.key)
      /\ active'.at \notin Ahead
  BY <1>t, <1>1, <1>2 DEF Explained, Has, Ahead
<1>6. Explained(active.op)' \/ Has(config, active.key)
  <2>1. CASE config = file
    BY <1>4, <1>5, <2>1
  <2>2. CASE active.op \in stale'
    BY <1>2, <2>2 DEF Explained
  <2> QED
    BY <1>1, <2>1, <2>2
<1> QED
  BY <1>t, <1>2, <1>4, <1>5, <1>6 DEF At

(* An addition chooses its name, adds its streams and writes its camera. *)
LEMMA NewBegins ==
  ASSUME IInv, WorldInv, LeftInv, [Next]_vars, BeginAdd
  PROVE  NewInv'
<1>t. /\ active \in Active /\ file' = file /\ At("begin") /\ active.added = {}
  BY DEF IInv, TypeInv, BeginAdd, At
<1>1. PICK config \in {file} \cup cached :
        \/ Finish("failed")
        \/ /\ CameraKeys(config) # {}
           /\ active' = [active EXCEPT !.at = "streams", !.key = CameraKey(config), !.config = config]
           /\ shown' = shown \ {CameraKey(config)}
           /\ Has(file, CameraKey(config)) => active.op \in stale'
  BY DEF BeginAdd
<1>2. CASE Finish("failed")
  BY <1>t, <1>2 DEF Finish, Active, NewInv, Undoing, Ahead, Behind, Out
<1>3. CASE ~Finish("failed")
  <2> DEFINE k == CameraKey(config)
  <2>1. /\ active'.at = "streams" /\ active'.key = k /\ active'.op = active.op
        /\ active'.added = {} /\ k \notin shown' /\ (Has(file, k) => active.op \in stale')
    BY <1>t, <1>1, <1>3 DEF Active
  <2> HIDE DEF k
  <2>2. Explained(active.op)' \/ ~Has(file, active.key)'
    BY <1>t, <2>1 DEF Explained, Has
  <2> QED
    BY <2>1, <2>2 DEF NewInv, Behind, Out, At
<1> QED
  BY <1>2, <1>3

LEMMA NewAdds ==
  ASSUME IInv, WorldInv, LeftInv, [Next]_vars, AddStream \/ WriteCamera
  PROVE  NewInv'
<1>t. /\ active \in Active /\ active.key \in Key /\ request' = request
      /\ spoilt \subseteq spoilt' /\ lost \subseteq lost' /\ stale \subseteq stale' /\ shown' = shown
      /\ Kind = "add" /\ active.at \in {"addMain", "addSub", "write"}
      /\ active.added \subseteq Stream /\ active.op # NoOp
  BY ExplainedStays, FrigateAssumption DEF IInv, TypeInv, StageInv, Active, AddStream, WriteCamera, At
<1>n. /\ active.key \notin shown /\ \A s \in active.added : author[s] = active.op
      /\ Explained(active.op) \/ ~Has(file, active.key)
  BY <1>t DEF LeftInv, NewInv, Undoing, Ahead
<1>1. CASE AddStream
  <2> DEFINE s == <<active.key, IF At("addMain") THEN "main" ELSE "sub">>
  <2>1. /\ author' = [author EXCEPT ![s] = active.op] /\ file' = file
        /\ \/ \E at \in {"addSub", "placeholder"} :
                active' = [active EXCEPT !.at = at, !.added = @ \cup {s}]
           \/ active' = [active EXCEPT !.at = "undo"]
    BY <1>1 DEF AddStream
  <2>2. s \in Piece /\ author \in [Piece -> Op \cup {NoOp}] /\ Stream \subseteq Piece
    BY <1>t DEF Piece, Stream, WorldInv
  <2> HIDE DEF s
  <2>3. /\ active'.op = active.op /\ active'.key = active.key
        /\ active'.added \subseteq active.added \cup {s}
        /\ active'.at \in {"addSub", "placeholder", "undo"}
    BY <1>t, <2>1 DEF Active
  <2>4. \A x \in active'.added : author'[x] = active'.op
    BY <1>t, <1>n, <2>1, <2>2, <2>3
  <2>5. Explained(active.op)' \/ ~Has(file, active.key)'
    BY <1>t, <1>n, <2>1, <2>3 DEF Explained, Has
  <2> QED
    BY <1>t, <1>n, <2>3, <2>4, <2>5 DEF NewInv, Behind, Out, At
<1>2. CASE WriteCamera
  <2>1. \/ file' = file /\ active' = [active EXCEPT !.at = "undo"]
        \/ active' = [active EXCEPT !.at = "undo"] /\ Unanswered
        \/ file' = WithCamera /\ active' = [active EXCEPT !.at = "restart"]
    BY <1>2 DEF WriteCamera, ConfigSet, WithCamera, Go
  <2>2. /\ active'.op = active.op /\ active'.key = active.key /\ active'.added = active.added
        /\ active'.at \in {"undo", "restart"}
        /\ active'.at = "undo" => file' = file \/ Unanswered
        /\ active'.at = "restart" => file' = WithCamera
    BY <1>t, <2>1 DEF Active
  <2>3. \A x \in active'.added : author'[x] = active'.op
    BY <1>t, <1>n, <1>2, <2>2, AuthorStays DEF AddStream, WriteCamera, At
  <2>4. active'.at = "undo" => Explained(active.op)' \/ ~Has(file, active.key)'
    <3>1. Unanswered => active.op \in lost'
      BY DEF Unanswered
    <3> QED
      BY <1>t, <1>n, <2>2, <3>1 DEF Explained, Has
  <2>5. active'.at = "restart" => Has(file, active.key)'
    <3>1. At("write") /\ (file' = WithCamera => Has(file', active.key))
      BY <1>t, <1>2, WithCameraHas DEF WriteCamera
    <3> QED
      BY <2>2, <3>1 DEF Has
  <2> QED
    BY <1>t, <1>n, <2>2, <2>3, <2>4, <2>5 DEF NewInv, Ahead, Behind, Out, At
<1> QED
  BY <1>t, <1>1, <1>2

LEMMA LeftStep == IInv /\ WorldInv /\ LeftInv /\ [Next]_vars => LeftInv'
<1> SUFFICES ASSUME IInv, WorldInv, LeftInv, [Next]_vars PROVE LeftInv'
  OBVIOUS
<1>1. NewInv'
  BY NewElsewhere, NewGoesOn, NewReads, NewBegins, NewAdds DEF Next, JobStep
<1>2. HalfInv' /\ LiveInv' /\ CopyInv' /\ ReaderInv'
  BY LeftThree, ReaderStep
<1> QED
  BY <1>1, <1>2 DEF LeftInv
----------------------------------------------------------------------------
(* What a removal clears *)

(* The restreams of additions under a camera's name are among the given ones, *)
(* but for those of an addition that took the name by an old answer.          *)
Covers(names, k) ==
  \A s \in Own(k) \cap Streams(file) : Authored(s) => s \in names \/ author[s] \in stale

(* An answer that shows a camera shows its restreams. *)
CacheInv == \A c \in cached : \A k \in Key : Has(c, k) => Covers(Streams(c), k)

(* An addition that has yet to write has a name that no answer shows taken.  *)
Naming == Ahead \ {"undo"}
Untaken == active.op \in stale \/ \A c \in cached \cup {file} : ~Has(c, active.key)
NameInv == Undoing(Naming) => Untaken

(* What a removal knows of them up to its write, and what is left then.      *)
Removing(stages) == active.at \in stages /\ Kind = "remove"
Cleared == {"outStreams", "outRestart", "outBack", "forget"}
ClearInv ==
  /\ Removing({"access"} \cup Out) => Covers(active.added, active.key)
  /\ Removing({"access", "out", "drain", "outRead"}) =>
       \A c \in cached : Covers(Streams(c), active.key)
  /\ Removing({"outWrite"}) => Covers(Streams(active.config), active.key)
  /\ Removing(Cleared) => Covers({}, active.key)

GoneInv == CacheInv /\ NameInv /\ ClearInv

LEMMA GoneInit == Init => GoneInv
<1> SUFFICES ASSUME Init PROVE GoneInv
  OBVIOUS
<1>1. cached = {} /\ active.at = "idle"
  BY DEF Init, Idle
<1> QED
  BY <1>1 DEF GoneInv, CacheInv, NameInv, ClearInv, Undoing, Naming, Ahead, Removing, Out, Cleared

(* Every step but the write of a camera and the creation of a stream. *)
Wanes ==
  /\ \A s \in Stream : author'[s] = author[s]
  /\ stale \subseteq stale' /\ request' = request
  /\ Streams(file') \subseteq Streams(file) /\ cached' \subseteq cached \cup {file'}

LEMMA Waning ==
  ASSUME IInv, WorldInv, [Next]_vars, ~AddStream, ~WriteCamera
  PROVE  /\ Wanes /\ \A k \in Key : Has(file', k) => Has(file, k)
<1>1. CASE BeginAdd
  <2>1. file' = file /\ cached' \subseteq cached \cup {file} /\ author' = author
    BY <1>1 DEF BeginAdd, Read
  <2> QED
    BY <2>1, ExplainedStays DEF Wanes
<1>2. CASE ~BeginAdd
  <2>1. Fades
    <3>1. CASE (\E op \in Op : Ask(op) \/ Load(op)) \/ Poll \/ Expire \/ Crash \/ UNCHANGED vars
      BY <3>1, Outside, ExplainedStays DEF Fades
    <3>2. CASE Plain
      BY <3>2, FadesPlain
    <3>3. CASE DropPlaceholder \/ WriteOut \/ SetAll \/ SetSection \/ Drain
      BY <3>3, FadesWrite
    <3>4. CASE RemoveAdded \/ RemoveStreams \/ Restart \/ RestartWithout
      BY <3>4, FadesClear
    <3> QED
      BY <1>2, <3>1, <3>2, <3>3, <3>4 DEF Next, JobStep, Plain
  <2> QED
    BY <2>1, ExplainedStays DEF Fades, Wanes
<1> QED
  BY <1>1, <1>2

LEMMA CoversStay ==
  ASSUME Wanes, NEW names, NEW k \in Key, Covers(names, k)
  PROVE  Covers(names, k)'
<1> SUFFICES ASSUME NEW s \in Own(k) \cap Streams(file'), Authored(s)'
             PROVE  s \in names \/ author'[s] \in stale'
  BY DEF Covers
<1>1. s \in Stream /\ s \in Streams(file) /\ author'[s] = author[s]
  BY DEF Streams, Wanes
<1>2. s \in names \/ author[s] \in stale
  BY <1>1 DEF Covers, Authored
<1> QED
  BY <1>1, <1>2 DEF Wanes

LEMMA CoversItself == ASSUME NEW k PROVE Covers(Streams(file), k)
  BY DEF Covers

(* An addition writes under the name it has chosen. *)
LEMMA CacheWritten ==
  ASSUME IInv, WorldInv, LeftInv, NameInv, [Next]_vars, AddStream \/ WriteCamera,
         NEW c \in cached, NEW k \in Key, Has(c, k), Covers(Streams(c), k)
  PROVE  Covers(Streams(c), k)'
<1>t. /\ active.key \in Key /\ active.op \in Op /\ active.added \subseteq Own(active.key)
      /\ Untaken /\ stale \subseteq stale' /\ author \in [Piece -> Op \cup {NoOp}]
      /\ Stream \subseteq Piece
  <2>1. active.at \in {"addMain", "addSub", "write"} /\ Kind = "add"
    BY DEF AddStream, WriteCamera, IInv, StageInv, At
  <2> QED
    BY <2>1, ExplainedStays
    DEF IInv, TypeInv, Active, AddInv, Adding, NameInv, Undoing, Naming, Ahead, WorldInv, Piece
<1> SUFFICES ASSUME NEW s \in Own(k) \cap Streams(file'), Authored(s)'
             PROVE  s \in Streams(c) \/ author'[s] \in stale'
  BY DEF Covers
<1>1. s \in Stream /\ s[1] = k
  BY DEF Own, Streams
<1>2. CASE author'[s] = active.op /\ s[1] = active.key
  BY <1>t, <1>1, <1>2 DEF Untaken
<1>3. CASE author'[s] = author[s] /\ s \in Streams(file)
  <2>1. s \in Streams(c) \/ author[s] \in stale
    BY <1>3 DEF Covers, Authored
  <2> QED
    BY <1>t, <1>3, <2>1
<1>4. CASE AddStream
  <2>1. PICK x \in Stream : x[1] = active.key /\ author' = [author EXCEPT ![x] = active.op]
    <3>1. <<active.key, "main">> \in Stream /\ <<active.key, "sub">> \in Stream
      BY <1>t DEF Stream
    <3> QED
      BY <1>4, <3>1 DEF AddStream
  <2>2. author'[s] = IF s = x THEN active.op ELSE author[s]
    BY <1>t, <1>1, <2>1
  <2>3. file' = file
    BY <1>4 DEF AddStream
  <2> QED
    BY <1>2, <1>3, <2>1, <2>2, <2>3
<1>5. CASE WriteCamera
  <2>1. author'[s] = author[s]
    BY <1>1, <1>5, AuthorStays DEF AddStream, WriteCamera, At
  <2>2. file' = file \/ file' = WithCamera
    BY <1>5 DEF WriteCamera, ConfigSet, WithCamera
  <2>3. s \in Streams(file) \/ s \in active.added
    <3>1. At("write")
      BY <1>5 DEF WriteCamera
    <3>2. Streams(WithCamera) = Streams(file) \cup active.added
      BY <3>1, WithCameraHas
    <3> QED
      BY <2>2, <3>2
  <2>4. CASE s \in active.added
    <3>1. author[s] = active.op
      BY <1>5, <2>4 DEF LeftInv, NewInv, Undoing, Ahead, WriteCamera, IInv, StageInv, At
    <3> QED
      BY <1>t, <1>2, <2>1, <2>4, <3>1 DEF Own
  <2> QED
    BY <1>3, <2>1, <2>3, <2>4
<1> QED
  BY <1>4, <1>5

LEMMA CacheStep == IInv /\ WorldInv /\ LeftInv /\ CacheInv /\ NameInv /\ [Next]_vars => CacheInv'
<1> SUFFICES ASSUME IInv, WorldInv, LeftInv, CacheInv, NameInv, [Next]_vars,
                    NEW c \in cached', NEW k \in Key, Has(c, k)
             PROVE  Covers(Streams(c), k)'
  BY DEF CacheInv, Has
<1>1. CASE AddStream \/ WriteCamera
  <2>1. c \in cached
    BY <1>1 DEF AddStream, WriteCamera
  <2> QED
    BY <1>1, <2>1, CacheWritten DEF CacheInv
<1>2. CASE ~AddStream /\ ~WriteCamera
  <2>1. Wanes
    BY <1>2, Waning
  <2>2. CASE c \in cached
    <3>1. Covers(Streams(c), k)
      BY <2>2 DEF CacheInv
    <3> QED
      BY <2>1, <3>1, CoversStay
  <2>3. CASE c = file'
    BY <2>3 DEF Covers
  <2> QED
    BY <2>1, <2>2, <2>3 DEF Wanes
<1> QED
  BY <1>1, <1>2

(* How an addition comes to the stages before its write. *)
LEMMA NamingFrom ==
  ASSUME IInv, [Next]_vars, active'.at \in Naming
  PROVE  \/ BeginAdd
         \/ /\ active'.op = active.op /\ active'.key = active.key /\ active.at \in Naming
            /\ ~WriteCamera
<1>t. active \in Active
  BY DEF IInv, TypeInv
<1>1. CASE (\E op \in Op : Ask(op) \/ Load(op)) \/ Poll \/ Expire \/ Crash \/ UNCHANGED vars
  <2>1. active' = active \/ active'.at \in {"idle", "save"}
    <3>1. CASE \E op \in Op : Ask(op) \/ Load(op)
      BY <3>1 DEF Ask, Load, Start, Idle
    <3>2. CASE Poll \/ Expire \/ Crash \/ UNCHANGED vars
      BY <3>2 DEF Poll, Expire, Crash, vars, Idle
    <3> QED
      BY <1>1, <3>1, <3>2
  <2>2. active' = active
    BY <2>1 DEF Naming, Ahead
  <2>3. WriteCamera => active'.at # active.at
    <3>1. WriteCamera => At("write") /\ \E at \in {"restart", "undo"} : Go(at)
      BY DEF WriteCamera
    <3> QED
      BY <1>t, <3>1 DEF Go, Active, At
  <2> QED
    BY <2>2, <2>3
<1>2. CASE \/ SaveStarted \/ SaveFinished \/ ReadFails \/ RemoveAdded \/ RecordManaged \/ RememberAdded
           \/ WriteOut \/ RemoveStreams \/ RestartWithout \/ WaitBackWithout \/ BeginRemove
  <2>1. CASE \/ SaveStarted \/ SaveFinished \/ ReadFails \/ RemoveAdded \/ RecordManaged
             \/ RememberAdded
    BY <1>t, <2>1 DEF SaveStarted, SaveFinished, ReadFails, RemoveAdded, RecordManaged, RememberAdded,
       Idle, Go, Finish, Active, Naming, Ahead
  <2>2. CASE WriteOut \/ RemoveStreams \/ RestartWithout \/ WaitBackWithout
    BY <1>t, <2>2 DEF WriteOut, RemoveStreams, RestartWithout, WaitBackWithout, TakenOut, Go, Finish,
       Active, Naming, Ahead
  <2>3. CASE BeginRemove
    BY <1>t, <2>3 DEF BeginRemove, Finish, Active, Naming, Ahead
  <2> QED
    BY <1>2, <2>1, <2>2, <2>3
<1>3. CASE \/ RememberRemoved \/ ForgetManaged \/ BeginConfigure \/ SetAll \/ SetSection \/ ReadSettings
           \/ Restart \/ WaitBack \/ Drain
  BY <1>t, <1>3 DEF RememberRemoved, ForgetManaged, BeginConfigure, SetAll, SetSection, ReadSettings,
     Restart, WaitBack, Drain, Broken, Go, Finish, Active, Naming, Ahead, At
<1>4. CASE WaitFps \/ WriteCamera \/ ReadBefore \/ ReadDrained
  <2>1. \E at \in {"record", "after", "out", "restart", "undo", "drain", "outWrite"} : \E config :
          active' = [active EXCEPT !.at = at] \/ active' = [active EXCEPT !.at = at, !.config = config]
    BY <1>4 DEF WaitFps, WriteCamera, ReadBefore, ReadDrained, Go
  <2> QED
    BY <1>t, <2>1 DEF Active, Naming, Ahead
<1>5. CASE CheckStreams \/ DropPlaceholder \/ AddStream
  <2>1. active.at \in Naming /\ ~WriteCamera
    BY <1>5 DEF CheckStreams, DropPlaceholder, AddStream, WriteCamera, Naming, Ahead, At
  <2>2. active'.op = active.op /\ active'.key = active.key
    BY <1>t, <1>5 DEF CheckStreams, DropPlaceholder, AddStream, Go, Finish, Active
  <2> QED
    BY <2>1, <2>2
<1> QED
  BY <1>1, <1>2, <1>3, <1>4, <1>5 DEF Next, JobStep

LEMMA NameStep == IInv /\ WorldInv /\ NameInv /\ [Next]_vars => NameInv'
<1> SUFFICES ASSUME IInv, WorldInv, NameInv, [Next]_vars, Undoing(Naming)' PROVE Untaken'
  BY DEF NameInv
<1>t. active \in Active /\ active.key \in Key /\ active'.at \in Naming /\ request' = request
      /\ stale \subseteq stale'
  BY ExplainedStays DEF IInv, TypeInv, Active, Undoing
<1>1. CASE BeginAdd
  <2>1. PICK config \in {file} \cup cached :
          /\ cached' = {config}
          /\ \/ Finish("failed")
             \/ /\ CameraKeys(config) # {}
                /\ active' = [active EXCEPT !.at = "streams", !.key = CameraKey(config), !.config = config]
                /\ Has(file, CameraKey(config)) => active.op \in stale'
    BY <1>1 DEF BeginAdd, Read
  <2>2. ~Finish("failed")
    BY <1>t DEF Finish, Active, Naming, Ahead
  <2> DEFINE k == CameraKey(config)
  <2>3. ~Has(config, k)
    <3>1. CameraKeys(config) \subseteq Nat
      BY FrigateAssumption DEF CameraKeys, Key
    <3>2. k \in CameraKeys(config)
      BY <2>1, <2>2, <3>1, MinIn DEF CameraKey
    <3> QED
      BY <3>2 DEF CameraKeys
  <2>4. active'.key = k /\ active'.op = active.op /\ (Has(file, k) => active.op \in stale')
    BY <1>t, <2>1, <2>2 DEF Active
  <2>5. file' = file
    BY <1>1 DEF BeginAdd
  <2> HIDE DEF k
  <2> QED
    BY <2>1, <2>3, <2>4, <2>5 DEF Untaken, Has
<1>2. CASE ~BeginAdd
  <2>1. active'.op = active.op /\ active'.key = active.key /\ active.at \in Naming /\ ~WriteCamera
    BY <1>t, <1>2, NamingFrom
  <2>2. Untaken
    BY <1>t, <2>1 DEF NameInv, Undoing, Kind
  <2>3. cached' \subseteq cached \cup {file'} /\ \A k \in Key : Has(file', k) => Has(file, k)
    <3>1. CASE AddStream
      BY <3>1 DEF AddStream
    <3>2. CASE ~AddStream
      BY <2>1, <3>2, Waning DEF Wanes
    <3> QED
      BY <3>1, <3>2
  <2>4. CASE active.op \in stale
    BY <1>t, <2>1, <2>4 DEF Untaken
  <2>5. CASE \A c \in cached \cup {file} : ~Has(c, active.key)
    <3>1. ASSUME NEW c \in cached' \cup {file'} PROVE ~Has(c, active.key)
      BY <1>t, <2>3, <2>5
    <3> QED
      BY <2>1, <3>1 DEF Untaken, Has
  <2> QED
    BY <2>2, <2>4, <2>5 DEF Untaken
<1> QED
  BY <1>1, <1>2

(* A removal goes on with what it knows. *)
Stages == {"access"} \cup Out \cup Cleared
Reading == {"access", "out", "drain", "outRead"}

LEMMA ClearElsewhere ==
  ASSUME active'.at \notin Stages \/ Kind' # "remove"
  PROVE  ClearInv'
  BY DEF ClearInv, Removing, Stages, Out, Cleared

LEMMA ClearGoes ==
  ASSUME Wanes, ClearInv, active.key \in Key,
         active'.op = active.op, active'.key = active.key, active'.added = active.added,
         active'.at \in {"access"} \cup Out => active.at \in {"access"} \cup Out,
         active'.at \in Reading => active.at \in Reading,
         active'.at = "outWrite" =>
           \/ active.at = "outWrite" /\ active'.config = active.config
           \/ active.at \in Reading /\ active'.config \in cached \cup {file'},
         active'.at \in Cleared => active.at \in Cleared \/ Covers({}, active.key)'
  PROVE  ClearInv'
<1>k. Kind' = Kind
  BY DEF Kind, Wanes
<1>1. ASSUME Removing({"access"} \cup Out)' PROVE Covers(active.added, active.key)'
  <2>1. Covers(active.added, active.key)
    BY <1>k, <1>1 DEF Removing, ClearInv
  <2> DEFINE names == active.added
             k == active.key
  <2>2. Covers(active.added, active.key)' <=>
          \A s \in Own(k) \cap Streams(file') : Authored(s)' => s \in names \/ author'[s] \in stale'
    BY DEF Covers
  <2>3. ASSUME NEW s \in Own(k) \cap Streams(file'), Authored(s)'
        PROVE  s \in names \/ author'[s] \in stale'
    <3>1. s \in Stream /\ s \in Streams(file) /\ author'[s] = author[s]
      BY <2>3 DEF Streams, Wanes
    <3> QED
      BY <2>1, <2>3, <3>1 DEF Covers, Authored, Wanes
  <2> QED
    BY <2>2, <2>3
<1>2. ASSUME active.at \in Reading, Kind = "remove", NEW c \in cached \cup {file'}
      PROVE  Covers(Streams(c), active.key)'
  <2>1. CASE c \in cached
    <3> DEFINE k == active.key
    <3>1. Covers(Streams(c), k)
      BY <1>2, <2>1 DEF ClearInv, Removing, Reading
    <3>2. ASSUME NEW s \in Own(k) \cap Streams(file'), Authored(s)'
          PROVE  s \in Streams(c) \/ author'[s] \in stale'
      <4>1. s \in Stream /\ s \in Streams(file) /\ author'[s] = author[s]
        BY <3>2 DEF Streams, Wanes
      <4> QED
        BY <3>1, <3>2, <4>1 DEF Covers, Authored, Wanes
    <3> QED
      BY <3>2 DEF Covers
  <2>2. CASE c = file'
    BY <2>2 DEF Covers
  <2> QED
    BY <1>2, <2>1, <2>2
<1>3. ASSUME Removing(Reading)', NEW c \in cached' PROVE Covers(Streams(c), active.key)'
  BY <1>k, <1>2, <1>3 DEF Removing, Wanes
<1>4. ASSUME Removing({"outWrite"})' PROVE Covers(Streams(active.config), active.key)'
  <2>1. CASE active.at = "outWrite" /\ active'.config = active.config
    <3>1. Covers(Streams(active.config), active.key)
      BY <1>k, <1>4, <2>1 DEF ClearInv, Removing
    <3>2. ASSUME NEW s \in Own(active.key) \cap Streams(file'), Authored(s)'
          PROVE  s \in Streams(active.config) \/ author'[s] \in stale'
      <4>1. s \in Stream /\ s \in Streams(file) /\ author'[s] = author[s]
        BY <3>2 DEF Streams, Wanes
      <4> QED
        BY <3>1, <3>2, <4>1 DEF Covers, Authored, Wanes
    <3> QED
      BY <2>1, <3>2 DEF Covers
  <2>2. CASE active.at \in Reading /\ active'.config \in cached \cup {file'}
    <3>1. Kind = "remove"
      BY <1>k, <1>4 DEF Removing
    <3>2. PICK c \in cached \cup {file'} : active'.config = c
      BY <2>2
    <3>3. Covers(Streams(c), active.key)'
      BY <1>2, <2>2, <3>1
    <3> QED
      BY <3>2, <3>3 DEF Covers
  <2> QED
    BY <1>4, <2>1, <2>2 DEF Removing
<1>5. ASSUME Removing(Cleared)' PROVE Covers({}, active.key)'
  <2>1. CASE active.at \in Cleared
    <3>1. Covers({}, active.key)
      BY <1>k, <1>5, <2>1 DEF ClearInv, Removing
    <3>2. ASSUME NEW s \in Own(active.key) \cap Streams(file'), Authored(s)'
          PROVE  author'[s] \in stale'
      <4>1. s \in Stream /\ s \in Streams(file) /\ author'[s] = author[s]
        BY <3>2 DEF Streams, Wanes
      <4> QED
        BY <3>1, <3>2, <4>1 DEF Covers, Authored, Wanes
    <3> QED
      BY <3>2 DEF Covers
  <2> QED
    BY <1>5, <2>1 DEF Removing
<1> QED
  BY <1>1, <1>3, <1>4, <1>5 DEF ClearInv, Reading

(* It begins with the restreams that no other camera reads, by an answer     *)
(* that shows them all.                                                      *)
LEMMA ClearBegins ==
  ASSUME IInv, WorldInv, LeftInv, CacheInv, [Next]_vars, BeginRemove
  PROVE  ClearInv'
<1>t. /\ active \in Active /\ Wanes /\ file' = file /\ author' = author /\ stale' = stale
      /\ request[active.op].kind = "remove" /\ request[active.op].key \in Key
  <2>1. active \in Active /\ request \in [Op -> Request] /\ active.op \in Op /\ Kind = "remove"
    BY DEF IInv, TypeInv, BeginRemove, At
  <2>2. file' = file /\ author' = author /\ stale' = stale
    BY DEF BeginRemove, seen
  <2> QED
    BY <2>1, <2>2, Waning DEF BeginRemove, AddStream, WriteCamera, At, Request, Kind
<1>k. PICK k \in Key : request[active.op].key = k
  BY <1>t
<1>1. PICK config \in {file} \cup cached :
        /\ cached' = {config}
        /\ \/ Finish("failed")
           \/ /\ Has(config, k)
              /\ active' = [active EXCEPT !.at = "access", !.key = k, !.added = Owned(config, k)]
  BY <1>k DEF BeginRemove, Read
<1>2. CASE Finish("failed")
  <2>1. active'.at = "end"
    BY <1>t, <1>2 DEF Finish, Active
  <2> QED
    BY <2>1, ClearElsewhere DEF Stages, Out, Cleared
<1>3. CASE ~Finish("failed")
  <2>1. /\ active'.key = k /\ active'.added = Owned(config, k) /\ active'.at = "access"
        /\ Has(config, k)
    BY <1>t, <1>1, <1>3 DEF Active
  <2>2. Covers(Streams(config), k)
    BY <2>1 DEF CacheInv, Covers
  <2>3. Covers(Streams(config), k)'
    BY <1>t, <2>1, <2>2, CoversStay
  <2>4. ASSUME NEW s \in Own(k) \cap Streams(file), Authored(s)
        PROVE  s \in Owned(config, k) \/ author[s] \in stale
    <3>1. s \in Stream /\ s[1] = k /\ s \in {k} \X {"main", "sub"}
      BY <2>4 DEF Own, Streams
    <3>2. \A other \in Key \ {k} : s \notin config.cameras[other].reads
      BY <2>4, <3>1 DEF LeftInv, ReaderInv
    <3>3. s \in Streams(config) \/ author[s] \in stale
      BY <2>2, <2>4 DEF Covers
    <3> QED
      BY <3>1, <3>2, <3>3 DEF Owned
  <2>5. Covers(active.added, active.key)'
    BY <1>t, <2>1, <2>4 DEF Covers, Authored
  <2>6. \A c \in cached' : Covers(Streams(c), active.key)'
    BY <1>1, <2>1, <2>3 DEF Covers
  <2> QED
    BY <2>1, <2>5, <2>6 DEF ClearInv, Removing, Out, Cleared
<1> QED
  BY <1>2, <1>3

(* It writes without those it takes along, as far as its last read shows     *)
(* them: that is all of them.                                                *)
LEMMA ClearWrites ==
  ASSUME IInv, WorldInv, ClearInv, [Next]_vars, WriteOut
  PROVE  ClearInv'
<1> DEFINE drop == IF Has(active.config, active.key) THEN {active.key} ELSE {}
           names == active.added \cap Streams(active.config)
<1>t. /\ active \in Active /\ active.key \in Key /\ Wanes /\ At("outWrite")
  BY Waning DEF IInv, TypeInv, Active, WriteOut, AddStream, WriteCamera, At
<1>1. \/ Finish("failed")
      \/ /\ active' = [active EXCEPT !.at = "outStreams", !.drop = drop # {}]
         /\ file' = Without(file, drop, names) \/ names = {}
  BY DEF WriteOut, ConfigSet
<1> HIDE DEF drop
<1>2. CASE Finish("failed")
  <2>1. active'.at = "end"
    BY <1>t, <1>2 DEF Finish, Active
  <2> QED
    BY <2>1, ClearElsewhere DEF Stages, Out, Cleared
<1>3. CASE ~Finish("failed")
  <2>1. /\ active'.op = active.op /\ active'.key = active.key /\ active'.added = active.added
        /\ active'.at = "outStreams"
    BY <1>t, <1>1, <1>3 DEF Active
  <2>2. CASE Kind # "remove"
    BY <1>t, <2>1, <2>2, ClearElsewhere DEF Kind, Wanes
  <2>3. CASE Kind = "remove"
    <3>1. Covers(active.added, active.key) /\ Covers(Streams(active.config), active.key)
      BY <1>t, <2>3 DEF ClearInv, Removing, Out, At
    <3>2. ASSUME NEW s \in Own(active.key) \cap Streams(file'), Authored(s)'
          PROVE  author'[s] \in stale'
      <4>1. s \in Stream /\ s \in Streams(file) /\ author'[s] = author[s]
        BY <1>t, <3>2 DEF Streams, Wanes
      <4>2. author[s] \in stale \/ s \in names
        BY <3>1, <3>2, <4>1 DEF Covers, Authored
      <4>3. s \notin names
        BY <1>1, <1>3, <3>2, AfterWithout
      <4> QED
        BY <1>t, <4>1, <4>2, <4>3 DEF Wanes
    <3>3. Covers({}, active.key)'
      BY <2>1, <3>2 DEF Covers
    <3> QED
      BY <2>1, <3>3 DEF ClearInv, Removing, Out, Cleared
  <2> QED
    BY <2>2, <2>3
<1> QED
  BY <1>2, <1>3

LEMMA ClearReads ==
  ASSUME IInv, WorldInv, ClearInv, [Next]_vars, ReadBefore \/ ReadDrained
  PROVE  ClearInv'
<1>t. active \in Active /\ active.key \in Key /\ Wanes /\ active.at \in {"out", "outRead"}
  BY Waning DEF IInv, TypeInv, Active, ReadBefore, ReadDrained, AddStream, WriteCamera, At
<1>1. PICK config \in {file'} \cup cached, at \in {"drain", "outWrite"} :
        active' = [active EXCEPT !.at = at, !.config = config]
  BY DEF ReadBefore, ReadDrained
<1>2. /\ active'.op = active.op /\ active'.key = active.key /\ active'.added = active.added
      /\ active'.at \in {"drain", "outWrite"} /\ active'.config = config
  BY <1>t, <1>1 DEF Active
<1>3. active.at \in Reading /\ active.at \in {"access"} \cup Out
  BY <1>t DEF Reading, Out
<1>4. active'.at \notin Cleared /\ active'.config \in cached \cup {file'}
  BY <1>1, <1>2 DEF Cleared
<1> QED
  BY <1>t, <1>2, <1>3, <1>4, ClearGoes

LEMMA ClearGoesOn ==
  ASSUME IInv, WorldInv, ClearInv, [Next]_vars,
         \/ \E op \in Op : Ask(op) \/ Load(op)
         \/ Poll \/ Expire \/ Crash \/ UNCHANGED vars
         \/ Drain \/ RemoveStreams \/ RestartWithout \/ WaitBackWithout \/ RememberRemoved
  PROVE  ClearInv'
<1>t. active \in Active /\ active.key \in Key
  BY DEF IInv, TypeInv, Active
<1>1. CASE (\E op \in Op : Ask(op) \/ Load(op)) \/ Poll \/ Expire \/ Crash \/ UNCHANGED vars
  <2>1. active' = active \/ active'.at \in {"idle", "save"}
    <3>1. CASE \E op \in Op : Ask(op) \/ Load(op)
      BY <3>1 DEF Ask, Load, Start, Idle
    <3>2. CASE Poll \/ Expire \/ Crash \/ UNCHANGED vars
      BY <3>2 DEF Poll, Expire, Crash, vars, Idle
    <3> QED
      BY <1>1, <3>1, <3>2
  <2>2. Wanes
    <3>1. UNCHANGED <<file, author>> /\ cached' \subseteq cached \cup {file}
      BY <1>1, Outside
    <3> QED
      BY <3>1, ExplainedStays DEF Wanes
  <2>3. CASE active' = active
    BY <1>t, <2>2, <2>3, ClearGoes
  <2>4. CASE active'.at \in {"idle", "save"}
    BY <2>4, ClearElsewhere DEF Stages, Out, Cleared
  <2> QED
    BY <2>1, <2>3, <2>4
<1>2. CASE Drain \/ RemoveStreams \/ RestartWithout \/ WaitBackWithout \/ RememberRemoved
  <2>1. Wanes
    BY <1>2, Waning DEF Drain, RemoveStreams, RestartWithout, WaitBackWithout, RememberRemoved,
       AddStream, WriteCamera, At
  <2>2. \/ active'.at = "end"
        \/ /\ active'.op = active.op /\ active'.key = active.key /\ active'.added = active.added
           /\ \/ active.at = "drain" /\ active'.at = "outRead"
              \/ active.at = "access" /\ active'.at = "out"
              \/ active.at \in Cleared /\ active'.at \in Cleared
    <3>1. CASE Drain \/ RestartWithout \/ RememberRemoved
      BY <1>t, <3>1 DEF Drain, RestartWithout, RememberRemoved, Go, Finish, Active, At, Cleared
    <3>2. CASE RemoveStreams \/ WaitBackWithout
      BY <1>t, <3>2 DEF RemoveStreams, WaitBackWithout, TakenOut, Go, Finish, Active, At, Cleared
    <3> QED
      BY <1>2, <3>1, <3>2
  <2>3. CASE active'.at = "end"
    BY <2>3, ClearElsewhere DEF Stages, Out, Cleared
  <2>4. CASE active'.at # "end"
    <3>1. /\ active'.at \in {"access"} \cup Out => active.at \in {"access"} \cup Out
          /\ active'.at \in Reading => active.at \in Reading
          /\ active'.at # "outWrite"
          /\ active'.at \in Cleared => active.at \in Cleared
      BY <2>2, <2>4 DEF Reading, Out, Cleared
    <3> QED
      BY <1>t, <2>1, <2>2, <2>4, <3>1, ClearGoes
  <2> QED
    BY <2>3, <2>4
<1> QED
  BY <1>1, <1>2

(* No other step is one of a removal. *)
LEMMA ClearNot ==
  ASSUME IInv, [Next]_vars,
         \/ SaveStarted \/ SaveFinished \/ ReadFails \/ BeginAdd \/ CheckStreams \/ AddStream
         \/ DropPlaceholder \/ WriteCamera \/ RemoveAdded \/ Restart \/ WaitBack \/ WaitFps
         \/ RecordManaged \/ RememberAdded \/ ForgetManaged \/ BeginConfigure \/ SetAll \/ SetSection
         \/ ReadSettings
  PROVE  ClearInv'
<1>t. active \in Active /\ request' = request
  BY ExplainedStays DEF IInv, TypeInv
<1>1. CASE \/ SaveStarted \/ SaveFinished \/ ReadFails \/ CheckStreams \/ AddStream \/ DropPlaceholder
           \/ RemoveAdded \/ RecordManaged \/ RememberAdded \/ ForgetManaged
  <2>1. active'.at \notin Stages
    <3>1. CASE SaveStarted \/ SaveFinished \/ ReadFails \/ CheckStreams \/ DropPlaceholder
      BY <1>t, <3>1 DEF SaveStarted, SaveFinished, ReadFails, CheckStreams, DropPlaceholder, Idle, Go,
         Finish, Active, Stages, Out, Cleared
    <3>2. CASE RemoveAdded \/ RecordManaged \/ RememberAdded \/ ForgetManaged
      BY <1>t, <3>2 DEF RemoveAdded, RecordManaged, RememberAdded, ForgetManaged, Go, Finish, Active,
         Stages, Out, Cleared
    <3>3. CASE AddStream
      <4>1. \/ active' = [active EXCEPT !.at = "undo"]
            \/ \E at \in {"addSub", "placeholder"}, s \in {"main", "sub"} :
                 active' = [active EXCEPT !.at = at, !.added = @ \cup {<<active.key, s>>}]
        BY <3>3 DEF AddStream
      <4> QED
        BY <1>t, <4>1 DEF Active, Stages, Out, Cleared
    <3> QED
      BY <1>1, <3>1, <3>2, <3>3
  <2> QED
    BY <2>1, ClearElsewhere
<1>2. CASE BeginAdd \/ BeginConfigure \/ SetAll \/ SetSection \/ ReadSettings \/ WriteCamera
  <2>1. active'.at \notin Stages
    <3>1. CASE BeginAdd
      <4>1. \/ Finish("failed")
            \/ \E k, config : active' = [active EXCEPT !.at = "streams", !.key = k, !.config = config]
        BY <3>1 DEF BeginAdd
      <4> QED
        BY <1>t, <4>1 DEF Finish, Active, Stages, Out, Cleared
    <3>2. CASE BeginConfigure \/ SetAll \/ SetSection \/ ReadSettings
      BY <1>t, <3>2 DEF BeginConfigure, SetAll, SetSection, ReadSettings, Go, Finish, Active, Stages,
         Out, Cleared, At
    <3>3. CASE WriteCamera
      <4>1. \E at \in {"restart", "undo"} : Go(at)
        BY <3>3 DEF WriteCamera
      <4> QED
        BY <1>t, <4>1 DEF Go, Active, Stages, Out, Cleared
    <3> QED
      BY <1>2, <3>1, <3>2, <3>3
  <2> QED
    BY <2>1, ClearElsewhere
<1>3. CASE Restart \/ WaitBack \/ WaitFps
  <2>1. Kind # "remove"
    BY <1>3 DEF Restart, WaitBack, WaitFps, IInv, StageInv, At
  <2>2. active'.op = active.op
    <3>1. CASE Restart \/ WaitBack
      BY <1>t, <3>1 DEF Restart, WaitBack, Broken, Go, Finish, Active
    <3>2. CASE WaitFps
      <4>1. \E at : Go(at)
        BY <3>2 DEF WaitFps
      <4> QED
        BY <1>t, <4>1 DEF Go, Active
    <3> QED
      BY <1>3, <3>1, <3>2
  <2> QED
    BY <1>t, <2>1, <2>2, ClearElsewhere DEF Kind
<1> QED
  BY <1>1, <1>2, <1>3

LEMMA GoneStep == IInv /\ WorldInv /\ LeftInv /\ GoneInv /\ [Next]_vars => GoneInv'
<1> SUFFICES ASSUME IInv, WorldInv, LeftInv, GoneInv, [Next]_vars PROVE GoneInv'
  OBVIOUS
<1>1. CacheInv' /\ NameInv'
  BY CacheStep, NameStep DEF GoneInv
<1>2. ClearInv'
  BY ClearBegins, ClearWrites, ClearReads, ClearGoesOn, ClearNot DEF GoneInv, Next, JobStep
<1> QED
  BY <1>1, <1>2 DEF GoneInv

(* What a job promised when it completes is so. *)
LEMMA Completed ==
  ASSUME IInv, HistoryInv, WorldInv, PromiseInv, GoneInv, [Next]_vars, NEW op \in Op,
         jobs[op] = "running", jobs'[op] = "completed"
  PROVE  Fulfilled(op)
<1>t. /\ active \in Active /\ active.key \in Key /\ jobs \in [Op -> States]
      /\ op = active.op /\ (RememberAdded \/ ForgetManaged \/ ReadSettings)
  BY HistoryStep DEF IInv, TypeInv, HistoryInv, CompletesOnly, Active
<1>1. CASE RememberAdded
  <2>1. Kind = "add" /\ (active.access => request[op].host \in known') /\ managed' = managed
        /\ At("password")
    BY <1>t, <1>1 DEF RememberAdded, IInv, StageInv, At
  <2>2. /\ Has(file, active.key) /\ "loaded" \in running[active.key] /\ active.key \in shown
        /\ active.key \in managed
    BY <2>1 DEF PromiseInv, AddedInv, At
  <2> QED
    BY <1>t, <2>1, <2>2 DEF Fulfilled, Kind
<1>2. CASE ForgetManaged
  <2>1. Kind = "remove" /\ managed' = managed \ {active.key} /\ At("forget")
    BY <1>2 DEF ForgetManaged, IInv, StageInv, At
  <2>2. ~Has(file, active.key)
    BY <2>1 DEF PromiseInv, RemovedInv, At
  <2>3. running[active.key] = {} \/ Troubled
    BY <1>t, <2>1, <2>2 DEF PromiseInv, RunInv, Loose, At
  <2>4. \A s \in Own(active.key) \cap Streams(file) : author[s] \in {NoOp} \cup stale
    BY <2>1 DEF GoneInv, ClearInv, Removing, Cleared, Covers, Authored, At
  <2> QED
    BY <1>t, <2>1, <2>2, <2>3, <2>4 DEF Fulfilled, Kind
<1>3. CASE ReadSettings
  <2>1. Kind = "configure"
    BY <1>3 DEF ReadSettings, IInv, StageInv, PromiseInv, SetInv, At
  <2>2. Applied(DOMAIN Changes)
    BY <1>3, <2>1 DEF ReadSettings, PromiseInv, SetInv, At
  <2>3. Troubled \/ Switched
    BY <1>3, <2>1 DEF ReadSettings, PromiseInv, SetInv, At
  <2> QED
    BY <1>t, <2>1, <2>2, <2>3 DEF Fulfilled, Kind, Applied, Switched, Changes
<1> QED
  BY <1>t, <1>1, <1>2, <1>3
----------------------------------------------------------------------------
(* The theorems *)

(* What the proofs below establish together. *)
WholeInv ==
  IInv /\ HistoryInv /\ WorldInv /\ DrainInv /\ PromiseInv /\ LeftInv /\ GoneInv

LEMMA WholeInit == Init => WholeInv
  BY FrigateInit, HistoryInit, WorldInit, DrainInit, PromiseInit, LeftInit, GoneInit DEF WholeInv

LEMMA WholeStep == WholeInv /\ [Next]_vars => WholeInv'
  BY FrigateStep, HistoryStep, WorldStep, DrainInvStep, PromiseStep, LeftStep, GoneStep
  DEF WholeInv

LEMMA WholeAlways == Spec => []WholeInv
  BY WholeInit, WholeStep, PTL DEF Spec

(* Every variable keeps its type, and the histories their bound: not even a  *)
(* job that is asked for before the data is read outgrows it.                *)
THEOREM FrigateTypes == Spec => []TypeOK
<1>1. WholeInv => TypeOK
  BY TypesHold DEF WholeInv
<1> QED
  BY <1>1, WholeAlways, PTL

(* Every camera of the file finds the restreams it reads, whatever jobs were *)
(* asked for, fail half-way or are cut short, and however old the answers    *)
(* are they act on.                                                          *)
THEOREM StreamsStay == Spec => []ReadStreamsExist
<1>1. WholeInv => ReadStreamsExist
  BY WorkingReads DEF WholeInv, IInv
<1> QED
  BY <1>1, WholeAlways, PTL

(* What is left of an addition, in Frigate's file or in go2rtc, is of the    *)
(* job that runs, or of one in lost (no answer when it created something),   *)
(* spoilt (its undoing or a removal met a failure or a stop) or stale (it    *)
(* acted on an answer from before a write): HalfAddedIsExplained.            *)
THEOREM LeftoversExplained == Spec => []HalfAddedIsExplained
<1>1. WholeInv => HalfAddedIsExplained
  BY DEF WholeInv, LeftInv, HalfInv, HalfAddedIsExplained, Explained, Mine
<1> QED
  BY <1>1, WholeAlways, PTL

(* A job that completes is true: the camera it added delivers frames, the    *)
(* one it removed is gone with the restreams an addition wrote for it, and   *)
(* what it set is set.                                                       *)
THEOREM CameraJobsAreTrue == Spec => CompletedIsTrue
<1>1. WholeInv /\ [Next]_vars =>
        [\A op \in Op : jobs[op] = "running" /\ jobs'[op] = "completed" => Fulfilled(op)]_vars
  BY Completed DEF WholeInv
<1> QED
  BY <1>1, WholeAlways, PTL DEF Spec, CompletedIsTrue

(* A camera that records is not taken from a running Frigate, unless a call  *)
(* failed: the recordings of the other cameras depend on it.                 *)
THEOREM RecordingStopsFirst == Spec => DrainedBeforeRemoval
<1>1. WholeInv /\ [Next]_vars =>
        [\A k \in Key : "record" \in running[k] /\ running'[k] = {} /\ k # Placeholder => faults' > 0]_vars
  BY Drained DEF WholeInv
<1> QED
  BY <1>1, WholeAlways, PTL DEF Spec, DrainedBeforeRemoval
=============================================================================
