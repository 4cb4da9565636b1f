--------------------------- MODULE PlateGate_proofs ---------------------------
(***************************************************************************)
(* Proofs about PlateGate for any plates, lists, reports, clock and number *)
(* of operations.  The inductive invariant says who waits for either lock  *)
(* and what for, and, until operations overlap, how far the camera is from *)
(* what the platform shows.                                                *)
(***************************************************************************)
EXTENDS PlateGate, SequenceTheorems, TLAPS

InLine == {"queued", "saving", "opening"}

(* A line of tasks: each once, and who writes or opens is the first. *)
LineOf(s, stage) ==
  /\ s \in Seq(Task)
  /\ \A i, j \in 1 .. Len(s) : s[i] = s[j] => i = j
  /\ \A t \in Task : stage[t] \in InLine <=> \E i \in 1 .. Len(s) : s[i] = t
  /\ \A t \in Task : stage[t] \in {"saving", "opening"} => s # <<>> /\ Head(s) = t

LEMMA Joins ==
  ASSUME NEW s, NEW stage, DOMAIN stage = Task, LineOf(s, stage), NEW t \in Task, stage[t] \notin InLine
  PROVE  LineOf(Append(s, t), [stage EXCEPT ![t] = "queued"])
<1> DEFINE l == Append(s, t)
           new == [stage EXCEPT ![t] = "queued"]
<1>1. /\ s \in Seq(Task) /\ Len(s) \in Nat /\ l \in Seq(Task) /\ Len(l) = Len(s) + 1
      /\ \A i \in 1 .. Len(s) : l[i] = s[i]
      /\ l[Len(s) + 1] = t
  BY DEF LineOf
<1>2. \A i \in 1 .. Len(s) : s[i] # t
  BY DEF LineOf
<1>3. new[t] = "queued" /\ \A u \in Task : u # t => new[u] = stage[u]
  OBVIOUS
<1>4. s # <<>> => l # <<>> /\ Head(l) = Head(s)
  BY <1>1
<1> HIDE DEF l, new
<1>5. \A i, j \in 1 .. Len(l) : l[i] = l[j] => i = j
  BY <1>1, <1>2 DEF LineOf
<1>6. \A u \in Task : new[u] \in InLine <=> \E i \in 1 .. Len(l) : l[i] = u
  <2>1. \A u \in Task : (\E i \in 1 .. Len(l) : l[i] = u) <=> u = t \/ \E i \in 1 .. Len(s) : s[i] = u
    BY <1>1
  <2> QED
    BY <1>3, <2>1 DEF LineOf, InLine
<1>7. \A u \in Task : new[u] \in {"saving", "opening"} => l # <<>> /\ Head(l) = u
  BY <1>3, <1>4 DEF LineOf
<1> QED
  BY <1>1, <1>5, <1>6, <1>7 DEF LineOf, l, new

LEMMA Leaves ==
  ASSUME NEW s, NEW stage, DOMAIN stage = Task, LineOf(s, stage), NEW t \in Task,
         s # <<>>, Head(s) = t, NEW x, x \notin InLine
  PROVE  /\ LineOf(Tail(s), [stage EXCEPT ![t] = x])
         /\ \A u \in Task : u # t => stage[u] \notin {"saving", "opening"}
<1> DEFINE l == Tail(s)
           new == [stage EXCEPT ![t] = x]
<1>1. /\ s \in Seq(Task) /\ Len(s) \in Nat /\ Len(s) > 0 /\ l \in Seq(Task) /\ Len(l) = Len(s) - 1
      /\ \A i \in 1 .. Len(l) : l[i] = s[i + 1]
      /\ s[1] = t
  BY DEF LineOf
<1>2. \A i \in 1 .. Len(s) : s[i] = t => i = 1
  BY <1>1 DEF LineOf
<1>3. new[t] = x /\ \A u \in Task : u # t => new[u] = stage[u]
  OBVIOUS
<1> HIDE DEF l, new
<1>4. \A i, j \in 1 .. Len(l) : l[i] = l[j] => i = j
  <2> SUFFICES ASSUME NEW i \in 1 .. Len(l), NEW j \in 1 .. Len(l), l[i] = l[j] PROVE i = j
    OBVIOUS
  <2>1. i + 1 \in 1 .. Len(s) /\ j + 1 \in 1 .. Len(s) /\ s[i + 1] = s[j + 1]
    BY <1>1
  <2>2. i + 1 = j + 1
    BY <2>1 DEF LineOf
  <2> QED
    BY <2>2
<1>5. \A u \in Task : (\E i \in 1 .. Len(l) : l[i] = u) <=> u # t /\ \E i \in 1 .. Len(s) : s[i] = u
  <2>1. ASSUME NEW u \in Task, NEW i \in 1 .. Len(l), l[i] = u
        PROVE  u # t /\ \E j \in 1 .. Len(s) : s[j] = u
    BY <1>1, <1>2, <2>1
  <2>2. ASSUME NEW u \in Task, u # t, NEW i \in 1 .. Len(s), s[i] = u
        PROVE  \E j \in 1 .. Len(l) : l[j] = u
    <3>1. i - 1 \in 1 .. Len(l) /\ l[i - 1] = s[i]
      BY <1>1, <2>2
    <3> QED
      BY <2>2, <3>1
  <2> QED
    BY <2>1, <2>2
<1>6. \A u \in Task : new[u] \in InLine <=> \E i \in 1 .. Len(l) : l[i] = u
  BY <1>3, <1>5 DEF LineOf
<1>7. \A u \in Task : u # t => stage[u] \notin {"saving", "opening"}
  BY DEF LineOf
<1>8. \A u \in Task : new[u] \in {"saving", "opening"} => l # <<>> /\ Head(l) = u
  BY <1>3, <1>7 DEF InLine
<1> QED
  BY <1>1, <1>4, <1>6, <1>7, <1>8 DEF LineOf, l, new

LEMMA Turns ==
  ASSUME NEW s, NEW stage, DOMAIN stage = Task, LineOf(s, stage), NEW t \in Task,
         s # <<>>, Head(s) = t, NEW x \in InLine
  PROVE  LineOf(s, [stage EXCEPT ![t] = x])
<1> DEFINE new == [stage EXCEPT ![t] = x]
<1>1. new[t] = x /\ \A u \in Task : u # t => new[u] = stage[u]
  OBVIOUS
<1>2. \E i \in 1 .. Len(s) : s[i] = t
  <2>1. s \in Seq(Task) /\ Len(s) \in Nat /\ Len(s) > 0 /\ s[1] = t
    BY DEF LineOf
  <2> QED
    BY <2>1
<1> HIDE DEF new
<1> QED
  BY <1>1, <1>2 DEF LineOf, new

LEMMA Elsewhere ==
  ASSUME NEW s, NEW stage, DOMAIN stage = Task, LineOf(s, stage), NEW t \in Task,
         stage[t] \notin InLine, NEW x, x \notin InLine
  PROVE  LineOf(s, [stage EXCEPT ![t] = x])
<1> DEFINE new == [stage EXCEPT ![t] = x]
<1>1. new[t] = x /\ \A u \in Task : u # t => new[u] = stage[u]
  OBVIOUS
<1> HIDE DEF new
<1> QED
  BY <1>1 DEF LineOf, InLine, new

LEMMA Withdraws ==
  ASSUME NEW s, NEW stage, DOMAIN stage = Task, LineOf(s, stage), NEW t \in Task,
         stage[t] \notin {"saving", "opening"}, NEW x, x \notin InLine
  PROVE  LineOf(Withdrawn(s, t), [stage EXCEPT ![t] = x])
<1> DEFINE places == {i \in DOMAIN s : s[i] = t}
           k == CHOOSE i \in places : TRUE
           l == SubSeq(s, 1, k - 1) \o SubSeq(s, k + 1, Len(s))
           new == [stage EXCEPT ![t] = x]
<1>1. s \in Seq(Task) /\ Len(s) \in Nat /\ DOMAIN s = 1 .. Len(s)
  BY DEF LineOf
<1>2. new[t] = x /\ \A u \in Task : u # t => new[u] = stage[u]
  OBVIOUS
<1> HIDE DEF new
<1>3. CASE places = {}
  <2>1. Withdrawn(s, t) = s /\ stage[t] \notin InLine
    BY <1>1, <1>3 DEF Withdrawn, LineOf
  <2> QED
    BY <1>2, <2>1, Elsewhere DEF new
<1>4. CASE places # {}
  <2>1. k \in 1 .. Len(s) /\ s[k] = t /\ Withdrawn(s, t) = l
    <3>1. k \in places
      BY <1>4
    <3>2. Withdrawn(s, t) = l
      BY <1>4 DEF Withdrawn
    <3> QED
      BY <1>1, <3>1, <3>2
  <2>2. \A i \in 1 .. Len(s) : s[i] = t => i = k
    BY <2>1 DEF LineOf
  <2> HIDE DEF k
  <2>3. /\ SubSeq(s, 1, k - 1) \in Seq(Task) /\ SubSeq(s, k + 1, Len(s)) \in Seq(Task)
        /\ Len(SubSeq(s, 1, k - 1)) = k - 1 /\ Len(SubSeq(s, k + 1, Len(s))) = Len(s) - k
        /\ \A i \in 1 .. k - 1 : SubSeq(s, 1, k - 1)[i] = s[i]
        /\ \A i \in 1 .. Len(s) - k : SubSeq(s, k + 1, Len(s))[i] = s[i + k]
    <3>1. \A i \in 1 .. Len(s) : s[i] \in Task
      BY <1>1
    <3>2. \A i \in 1 .. k - 1 : s[i] \in Task
      BY <2>1, <3>1
    <3>3. \A i \in k + 1 .. Len(s) : s[i] \in Task
      BY <2>1, <3>1
    <3>4. k - 1 \in Int /\ k + 1 \in Int /\ Len(s) \in Int /\ 1 \in Int
      BY <1>1, <2>1
    <3>5. /\ SubSeq(s, 1, k - 1) \in Seq(Task)
          /\ Len(SubSeq(s, 1, k - 1)) = (IF 1 <= k - 1 THEN k - 1 - 1 + 1 ELSE 0)
          /\ \A i \in 1 .. k - 1 - 1 + 1 : SubSeq(s, 1, k - 1)[i] = s[1 + i - 1]
      BY <3>2, <3>4, SubSeqProperties
    <3>6. /\ SubSeq(s, k + 1, Len(s)) \in Seq(Task)
          /\ Len(SubSeq(s, k + 1, Len(s))) = (IF k + 1 <= Len(s) THEN Len(s) - (k + 1) + 1 ELSE 0)
          /\ \A i \in 1 .. Len(s) - (k + 1) + 1 : SubSeq(s, k + 1, Len(s))[i] = s[k + 1 + i - 1]
      BY <3>3, <3>4, SubSeqProperties
    <3>7. \A i \in 1 .. Len(s) - k : SubSeq(s, k + 1, Len(s))[i] = s[i + k]
      BY <1>1, <2>1, <3>6
    <3>8. Len(SubSeq(s, 1, k - 1)) = k - 1
      BY <2>1, <3>5
    <3>9. Len(SubSeq(s, k + 1, Len(s))) = Len(s) - k
      <4>1. Len(SubSeq(s, k + 1, Len(s))) = IF k + 1 <= Len(s) THEN Len(s) - (k + 1) + 1 ELSE 0
        BY <3>6
      <4>2. k \in Int /\ Len(s) \in Int /\ k <= Len(s)
        BY <1>1, <2>1
      <4> QED
        BY <4>1, <4>2
    <3>10. \A i \in 1 .. k - 1 : SubSeq(s, 1, k - 1)[i] = s[i]
      BY <2>1, <3>5
    <3> QED
      BY <3>5, <3>6, <3>7, <3>8, <3>9, <3>10
  <2>4. /\ l \in Seq(Task) /\ Len(l) = Len(s) - 1
        /\ \A i \in 1 .. Len(l) : l[i] = s[IF i < k THEN i ELSE i + 1]
    <3> DEFINE front == SubSeq(s, 1, k - 1)
               back == SubSeq(s, k + 1, Len(s))
    <3>1. /\ l \in Seq(Task) /\ Len(l) = Len(front) + Len(back)
          /\ \A i \in 1 .. Len(front) + Len(back) :
               l[i] = IF i <= Len(front) THEN front[i] ELSE back[i - Len(front)]
      BY <2>3, ConcatProperties
    <3>a. /\ Len(front) = k - 1 /\ Len(back) = Len(s) - k
          /\ \A i \in 1 .. k - 1 : front[i] = s[i]
          /\ \A i \in 1 .. Len(s) - k : back[i] = s[i + k]
      BY <2>3
    <3> HIDE DEF front, back, l
    <3>b. Len(l) = Len(s) - 1
      BY <1>1, <2>1, <3>1, <3>a
    <3>2. ASSUME NEW i \in 1 .. Len(l) PROVE l[i] = s[IF i < k THEN i ELSE i + 1]
      <4>2. CASE i < k
        BY <1>1, <2>1, <3>1, <3>a, <3>b, <4>2
      <4>3. CASE ~(i < k)
        <5>1. i - (k - 1) \in 1 .. Len(s) - k /\ ~(i <= k - 1)
          BY <1>1, <2>1, <3>b, <4>3
        <5>2. back[i - (k - 1)] = s[i - (k - 1) + k]
          BY <3>a, <5>1
        <5>3. l[i] = back[i - (k - 1)]
          BY <1>1, <2>1, <3>1, <3>a, <5>1
        <5> QED
          BY <1>1, <2>1, <4>3, <5>2, <5>3
      <4> QED
        BY <4>2, <4>3
    <3> QED
      BY <3>1, <3>2, <3>b
  <2> HIDE DEF l
  <2>5. \A i, j \in 1 .. Len(l) : l[i] = l[j] => i = j
    <3> SUFFICES ASSUME NEW i \in 1 .. Len(l), NEW j \in 1 .. Len(l), l[i] = l[j] PROVE i = j
      OBVIOUS
    <3> DEFINE a == IF i < k THEN i ELSE i + 1
               b == IF j < k THEN j ELSE j + 1
    <3>1. a \in 1 .. Len(s) /\ b \in 1 .. Len(s) /\ s[a] = s[b]
      BY <1>1, <2>1, <2>4
    <3>2. a = b
      BY <3>1 DEF LineOf
    <3> QED
      BY <2>1, <3>2
  <2>6. \A u \in Task : (\E i \in 1 .. Len(l) : l[i] = u) <=> u # t /\ \E i \in 1 .. Len(s) : s[i] = u
    <3>1. ASSUME NEW u \in Task, NEW i \in 1 .. Len(l), l[i] = u
          PROVE  u # t /\ \E j \in 1 .. Len(s) : s[j] = u
      <4> DEFINE a == IF i < k THEN i ELSE i + 1
      <4>1. a \in 1 .. Len(s) /\ a # k /\ s[a] = u
        BY <1>1, <2>1, <2>4, <3>1
      <4> QED
        BY <2>2, <4>1
    <3>2. ASSUME NEW u \in Task, u # t, NEW i \in 1 .. Len(s), s[i] = u
          PROVE  \E j \in 1 .. Len(l) : l[j] = u
      <4> DEFINE a == IF i < k THEN i ELSE i - 1
      <4>1. i # k
        BY <2>1, <3>2
      <4>2. a \in 1 .. Len(l) /\ l[a] = s[i]
        BY <1>1, <2>1, <2>4, <4>1
      <4> QED
        BY <3>2, <4>2
    <3> QED
      BY <3>1, <3>2
  <2>7. \A u \in Task : new[u] \in InLine <=> \E i \in 1 .. Len(l) : l[i] = u
    BY <1>2, <2>6 DEF LineOf
  <2>8. ASSUME NEW u \in Task, new[u] \in {"saving", "opening"} PROVE l # <<>> /\ Head(l) = u
    <3>1. u # t /\ s # <<>> /\ Head(s) = u
      BY <1>2, <2>8 DEF LineOf, InLine
    <3>2. s[1] = u /\ k # 1
      BY <1>1, <2>1, <3>1
    <3>3. Len(l) > 0 /\ l[1] = u
      BY <1>1, <2>1, <2>4, <3>2
    <3> QED
      BY <2>4, <3>3
  <2> QED
    BY <2>1, <2>4, <2>5, <2>7, <2>8 DEF LineOf, new
<1> QED
  BY <1>3, <1>4
----------------------------------------------------------------------------
(* Types, stages and locks *)

PlateList == [Plate -> Verdict]
OnOff == {"on", "off"}
SwitchNote(v) == SetCamera([autoGate |-> v], "done")
SyncNote(outcome, then) == SetCamera([listSync |-> outcome], then)
OpensNote(v) == SetCamera([autoGate |-> v, cameraGate |-> TRUE], "rows")
ShutNote == SetCamera([cameraGate |-> FALSE], "rows")
ListedNote == SetCamera([cameraList |-> TRUE, listSync |-> "ok"], "sync")
EndNote == SetCamera([setupAt |-> TRUE], "done")

SwitchNotes == {SwitchNote(v) : v \in OnOff}
SaveNotes == {SetList(entries, "done") : entries \in PlateList}
SyncNotes == {SyncNote("running", "web"), SyncNote("ok", "done"), SyncNote("failed", "done")}
SetupNotes == {OpensNote(v) : v \in OnOff} \cup {ShutNote, ListedNote, EndNote}
                \cup {SetList(entries, "list") : entries \in PlateList}
NotesOf(t) == CASE t = "switch" -> SwitchNotes [] t = "save" -> SaveNotes
                [] t = "sync" -> SyncNotes [] t = "setup" -> SetupNotes

Stages(t) == CASE t = "switch" -> {"idle", "queued", "saving", "web", "set_gate"}
               [] t = "save" -> {"idle", "queued", "saving"}
               [] t = "sync" -> {"idle", "queued", "saving", "start", "web", "login", "rows", "apply"}
               [] t = "setup" -> {"idle", "queued", "saving", "web", "login", "set_gate", "rows"}
               [] OTHER -> {"idle", "queued", "saving", "opening"}

DataInv ==
  /\ copy \in PlateList /\ list \in PlateList /\ wanted \in PlateList
  /\ saved.list \in PlateList /\ settings \in Settings /\ saved.settings \in Settings
  /\ rule \in BOOLEAN /\ asked \in BOOLEAN /\ auto \in BOOLEAN /\ pending \in BOOLEAN
  /\ recent \in [Plate -> 0 .. Never] /\ pulsed \in [Plate -> 0 .. Never] /\ now \in 0 .. MaxTime
  /\ todo \subseteq Plate /\ plate \in [Report -> Plate]
(* What waits to be written or is being saved is what the operation writes. *)
Writing(t) == at[t] \in {"queued", "saving"}
NoteInv == DOMAIN note = Task /\ \A t \in Operation : Writing(t) => note[t] \in NotesOf(t)
StageInv == DOMAIN at = Task /\ \A t \in Task : at[t] \in Stages(t)
LineInv == LineOf(line, at)
(* Who is on the camera's page has its lock, and has it for all of a setup. *)
WebInv ==
  /\ web \in {"free", "setup", "sync", "switch"}
  /\ web = "setup" <=> at["setup"] \notin {"idle", "web"}
  /\ web = "sync" <=> at["sync"] \in {"login", "rows", "apply"}
  /\ web = "switch" <=> at["switch"] = "set_gate"

LockInv == NoteInv /\ StageInv /\ LineInv /\ WebInv

LEMMA Tasks ==
  ASSUME PlateAssumption
  PROVE  /\ Operation \subseteq Task /\ Report \subseteq Task
         /\ \A r \in Report : r \notin Operation
  BY DEF PlateAssumption, Task

LEMMA LockInit == ASSUME PlateAssumption PROVE Init => LockInv
<1> SUFFICES ASSUME Init PROVE LockInv
  OBVIOUS
<1>1. line = <<>> /\ web = "free" /\ at = [t \in Task |-> "idle"] /\ note = [t \in Task |-> Nothing]
  BY DEF Init
<1>2. \A t \in Task : at[t] = "idle"
  BY <1>1
<1>3. NoteInv /\ StageInv
  BY <1>1, <1>2, Tasks DEF NoteInv, StageInv, Stages, Writing
<1>4. LineInv
  BY <1>1, <1>2 DEF LineInv, LineOf, InLine
<1>5. WebInv
  BY <1>1, <1>2, Tasks DEF WebInv, Operation
<1> QED
  BY <1>3, <1>4, <1>5 DEF LockInv

(* A task that waits behind a queue it is not in. *)
LEMMA WaitsLine ==
  ASSUME PlateAssumption, StageInv, NEW t \in Task, NEW what, NEW queue, LineOf(queue, at),
         at[t] \notin InLine, Waits(t, what, queue)
  PROVE  LineInv' /\ at' = [at EXCEPT ![t] = "queued"] /\ note' = [note EXCEPT ![t] = what]
<1>1. at' = [at EXCEPT ![t] = "queued"] /\ line' = Append(queue, t) /\ note' = [note EXCEPT ![t] = what]
  BY DEF Waits
<1> QED
  BY <1>1, Joins DEF StageInv, LineInv

(* The holder of the lock goes. *)
LEMMA LeavesLine ==
  ASSUME StageInv, LineInv, NEW t \in Task, Holds(t), NEW x, x \notin InLine,
         line' = Tail(line), at' = [at EXCEPT ![t] = x]
  PROVE  LineInv'
<1>1. line # <<>> /\ Head(line) = t
  BY DEF Holds
<1> QED
  BY <1>1, Leaves DEF StageInv, LineInv

(* The holder of the lock goes on with it. *)
LEMMA TurnsLine ==
  ASSUME StageInv, LineInv, NEW t \in Task, Holds(t), NEW x \in InLine, line' = line,
         at' = [at EXCEPT ![t] = x]
  PROVE  LineInv'
<1>1. line # <<>> /\ Head(line) = t
  BY DEF Holds
<1> QED
  BY <1>1, Turns DEF StageInv, LineInv

(* A task that has no part in the line. *)
LEMMA ElsewhereLine ==
  ASSUME StageInv, LineInv, NEW t \in Task, at[t] \notin InLine, NEW x, x \notin InLine,
         line' = line, at' = [at EXCEPT ![t] = x]
  PROVE  LineInv'
  BY Elsewhere DEF StageInv, LineInv

(* Who saves has the lock, and is alone in that. *)
LEMMA Holder ==
  ASSUME LineInv, NEW t \in Task, at[t] \in {"saving", "opening"}
  PROVE  Holds(t) /\ \A u \in Task : u # t => at[u] \notin {"saving", "opening"}
  BY DEF LineInv, LineOf, Holds

(* A report changes neither lock of the operations nor what they write. *)
LEMMA ReportLocks ==
  ASSUME PlateAssumption, LockInv, LineInv', NEW r \in Report, NEW x \in Stages(r),
         at' = [at EXCEPT ![r] = x], web' = web,
         note' = note \/ (\E what : note' = [note EXCEPT ![r] = what])
  PROVE  LockInv' /\ \A t \in Operation : at'[t] = at[t] /\ note'[t] = note[t]
<1>1. r \in Task /\ r \notin Operation
  BY Tasks
<1>2. \A t \in Operation : at'[t] = at[t] /\ note'[t] = note[t]
  BY <1>1, Tasks DEF LockInv, NoteInv, StageInv
<1>3. NoteInv'
  BY <1>1, <1>2, Tasks DEF LockInv, NoteInv, Writing
<1>4. StageInv'
  BY <1>1 DEF LockInv, StageInv
<1>5. WebInv'
  BY <1>2 DEF LockInv, WebInv, Operation
<1> QED
  BY <1>2, <1>3, <1>4, <1>5 DEF LockInv

LEMMA ReportSteps ==
  ASSUME PlateAssumption, LockInv, NEW r \in Report,
         (\E p \in Plate : Recognised(r, p)) \/ Repeated(r) \/ Decide(r) \/ Opened(r) \/ Reported(r)
  PROVE  LockInv' /\ \A t \in Operation : at'[t] = at[t] /\ note'[t] = note[t]
<1>t. /\ r \in Task /\ r \notin Operation /\ StageInv /\ LineInv
      /\ Stages(r) = {"idle", "queued", "saving", "opening"}
  BY Tasks DEF LockInv, Stages, Operation
<1>1. ASSUME NEW p \in Plate, Recognised(r, p) PROVE LockInv' /\ \A t \in Operation : at'[t] = at[t] /\ note'[t] = note[t]
  <2>1. /\ at[r] = "idle" /\ Waits(r, Nothing, line) /\ web' = web /\ LineOf(line, at)
    BY <1>t, <1>1 DEF Recognised, LineInv
  <2>2. LineInv' /\ at' = [at EXCEPT ![r] = "queued"] /\ note' = [note EXCEPT ![r] = Nothing]
    BY <1>t, <2>1, WaitsLine DEF InLine
  <2> QED
    BY <1>t, <2>1, <2>2, ReportLocks
<1>2. ASSUME Repeated(r) \/ Reported(r) PROVE LockInv' /\ \A t \in Operation : at'[t] = at[t] /\ note'[t] = note[t]
  <2>1. Holds(r) /\ line' = Tail(line) /\ at' = [at EXCEPT ![r] = "idle"] /\ web' = web /\ note' = note
    BY <1>t, <1>2, Holder DEF Repeated, Reported
  <2>2. LineInv'
    BY <1>t, <2>1, LeavesLine DEF InLine
  <2> QED
    BY <1>t, <2>1, <2>2, ReportLocks
<1>3. ASSUME Decide(r) \/ Opened(r) PROVE LockInv' /\ \A t \in Operation : at'[t] = at[t] /\ note'[t] = note[t]
  <2>1. Holds(r) /\ line' = line /\ web' = web /\ note' = note
    BY <1>t, <1>3, Holder DEF Decide, Opened
  <2>2. PICK x \in {"opening", "saving"} : at' = [at EXCEPT ![r] = x]
    BY <1>3 DEF Decide, Opened
  <2>3. LineInv'
    BY <1>t, <2>1, <2>2, TurnsLine DEF InLine
  <2> QED
    BY <1>t, <2>1, <2>2, <2>3, ReportLocks
<1> QED
  BY <1>1, <1>2, <1>3
----------------------------------------------------------------------------
(* Operations and their locks *)

LEMMA OperationLocks ==
  ASSUME PlateAssumption, LockInv, LineInv', WebInv', NEW t \in Operation, NEW x \in Stages(t),
         at' = [at EXCEPT ![t] = x],
         note' = note \/ (\E what : note' = [note EXCEPT ![t] = what]),
         x \in {"queued", "saving"} => note'[t] \in NotesOf(t)
  PROVE  LockInv'
<1>1. t \in Task
  BY Tasks
<1>2. NoteInv'
  BY <1>1, Tasks DEF LockInv, NoteInv, StageInv, Writing
<1>3. StageInv'
  BY <1>1 DEF LockInv, StageInv
<1> QED
  BY <1>2, <1>3 DEF LockInv

(* An operation that waits for the line with what it writes, *)
LEMMA OperationWaits ==
  ASSUME PlateAssumption, LockInv, WebInv', NEW t \in Operation, NEW what \in NotesOf(t),
         at[t] \notin InLine, Waits(t, what, line)
  PROVE  LockInv'
<1>1. t \in Task /\ "queued" \in Stages(t)
  BY Tasks DEF Operation, Stages
<1>2. LineInv' /\ at' = [at EXCEPT ![t] = "queued"] /\ note' = [note EXCEPT ![t] = what]
  BY <1>1, WaitsLine DEF LockInv, LineInv
<1>3. note'[t] = what
  BY <1>1, <1>2 DEF LockInv, NoteInv
<1> QED
  BY <1>2, <1>3, <1>1, OperationLocks

(* leaves it, *)
LEMMA OperationLeaves ==
  ASSUME PlateAssumption, LockInv, WebInv', NEW t \in Operation, at[t] = "saving",
         NEW x \in Stages(t), x \notin InLine, line' = Tail(line), at' = [at EXCEPT ![t] = x], note' = note
  PROVE  LockInv'
<1>1. t \in Task /\ Holds(t)
  BY Tasks, Holder DEF LockInv
<1>2. LineInv'
  BY <1>1, LeavesLine DEF LockInv
<1> QED
  BY <1>2, OperationLocks DEF InLine

(* or has no part in it. *)
LEMMA OperationElsewhere ==
  ASSUME PlateAssumption, LockInv, WebInv', NEW t \in Operation, at[t] \notin InLine,
         NEW x \in Stages(t), x \notin InLine, line' = line, at' = [at EXCEPT ![t] = x], note' = note
  PROVE  LockInv'
<1>1. t \in Task
  BY Tasks
<1>2. LineInv'
  BY <1>1, ElsewhereLine DEF LockInv
<1> QED
  BY <1>2, OperationLocks DEF InLine

(* What does not matter to the locks. *)
LEMMA LocksSame == ASSUME LockInv, UNCHANGED <<line, at, note, web>> PROVE LockInv'
  BY DEF LockInv, NoteInv, StageInv, LineInv, WebInv, Writing

LEMMA AtOf ==
  ASSUME PlateAssumption, LockInv, NEW t \in Operation, NEW x, at' = [at EXCEPT ![t] = x]
  PROVE  at'[t] = x /\ \A u \in Operation : u # t => at'[u] = at[u]
  BY Tasks DEF LockInv, StageInv

LEMMA SimpleSteps ==
  ASSUME PlateAssumption, LockInv,
         \/ \E t \in Operation : Written(t) \/ Visit(t)
         \/ \E enabled \in BOOLEAN : SwitchGate(enabled)
         \/ Switched \/ SyncStarts \/ SyncSaved \/ SyncReads \/ SyncCompares \/ SyncApplies
         \/ \E entries \in Lists : SaveList(entries)
         \/ Setup
  PROVE  LockInv'
<1>t. /\ StageInv /\ LineInv /\ WebInv /\ NoteInv
      /\ "switch" \in Operation /\ "sync" \in Operation /\ "save" \in Operation /\ "setup" \in Operation
      /\ \A t \in Operation : t \in Task
  BY Tasks DEF LockInv, Operation
<1>1. ASSUME NEW t \in Operation, Written(t) PROVE LockInv'
  <2>1. Holds(t) /\ at[t] = "queued" /\ line' = line /\ note' = note /\ web' = web /\ at' = [at EXCEPT ![t] = "saving"]
    BY <1>1 DEF Written
  <2>2. LineInv'
    BY <1>t, <2>1, TurnsLine DEF InLine
  <2>3. note'[t] \in NotesOf(t) /\ "saving" \in Stages(t)
    BY <1>t, <2>1 DEF NoteInv, Writing, Stages, Operation
  <2>4. WebInv'
    <3> USE AtOf DEF WebInv
    <3>1. CASE t = "switch"
      BY <1>t, <2>1, <3>1
    <3>2. CASE t = "sync"
      BY <1>t, <2>1, <3>2
    <3>3. CASE t = "setup"
      BY <1>t, <2>1, <3>3
    <3>4. CASE t = "save"
      BY <1>t, <2>1, <3>4
    <3> QED
      BY <3>1, <3>2, <3>3, <3>4 DEF Operation
  <2> QED
    BY <2>1, <2>2, <2>3, <2>4, OperationLocks
<1>2. ASSUME NEW t \in Operation, Visit(t) PROVE LockInv'
  <2> DEFINE x == IF t = "switch" THEN "set_gate" ELSE "login"
  <2>1. /\ at[t] = "web" /\ at[t] \notin InLine /\ x \notin InLine /\ web = "free" /\ web' = t /\ line' = line
        /\ note' = note /\ at' = [at EXCEPT ![t] = x] /\ t # "save"
    BY <1>t, <1>2 DEF Visit, InLine, StageInv, Stages
  <2>2. x \in Stages(t)
    BY <2>1 DEF Stages, Operation
  <2>3. at'[t] = x /\ \A u \in Operation : u # t => at'[u] = at[u]
    BY <2>1, AtOf
  <2>4. WebInv'
    <3>1. CASE t = "switch"
      BY <1>t, <2>1, <2>3, <3>1 DEF WebInv
    <3>2. CASE t = "sync"
      BY <1>t, <2>1, <2>3, <3>2 DEF WebInv
    <3>3. CASE t = "setup"
      BY <1>t, <2>1, <2>3, <3>3 DEF WebInv
    <3> QED
      BY <2>1, <3>1, <3>2, <3>3 DEF Operation
  <2> QED
    BY <2>1, <2>2, <2>4, OperationElsewhere
<1>3. ASSUME NEW enabled \in BOOLEAN, SwitchGate(enabled) PROVE LockInv'
  <2>1. at["switch"] = "idle" /\ web' = web
    BY <1>3 DEF SwitchGate
  <2>2. CASE Waits("switch", SetCamera([autoGate |-> Value(enabled)], "done"), line)
    <3>1. SetCamera([autoGate |-> Value(enabled)], "done") \in NotesOf("switch")
      BY DEF NotesOf, SwitchNotes, SwitchNote, Value, OnOff
    <3>2. WebInv'
      BY <1>t, <2>1, <2>2, AtOf DEF WebInv, Waits
    <3> QED
      BY <1>t, <2>1, <2>2, <3>1, <3>2, OperationWaits DEF InLine
  <2>3. CASE at' = [at EXCEPT !["switch"] = "web"] /\ line' = line /\ note' = note
    <3>1. WebInv'
      BY <1>t, <2>1, <2>3, AtOf DEF WebInv
    <3> QED
      BY <1>t, <2>1, <2>3, <3>1, OperationElsewhere DEF InLine, Stages
  <2> QED
    BY <1>3, <2>2, <2>3 DEF SwitchGate
<1>4. ASSUME Switched PROVE LockInv'
  <2>1. WebInv'
    BY <1>t, <1>4, AtOf DEF Switched, WebInv
  <2> QED
    BY <1>t, <1>4, <2>1, OperationLeaves DEF Switched, Stages, InLine
<1>5. ASSUME SyncStarts PROVE LockInv'
  <2>1. at["sync"] = "start" /\ web' = web /\ Waits("sync", SyncNote("running", "web"), line)
    BY <1>5 DEF SyncStarts, SyncNote
  <2>2. WebInv'
    BY <1>t, <2>1, AtOf DEF WebInv, Waits
  <2>3. SyncNote("running", "web") \in NotesOf("sync")
    BY DEF NotesOf, SyncNotes
  <2> QED
    BY <1>t, <2>1, <2>2, <2>3, OperationWaits DEF InLine
<1>6. ASSUME SyncSaved PROVE LockInv'
  <2> DEFINE x == IF note["sync"].then = "web" THEN "web" ELSE "idle"
  <2>1. /\ at["sync"] = "saving" /\ line' = Tail(line) /\ at' = [at EXCEPT !["sync"] = x] /\ note' = note
        /\ web' = web
    BY <1>6 DEF SyncSaved
  <2>2. WebInv'
    BY <1>t, <2>1, AtOf DEF WebInv
  <2>3. x \in Stages("sync") /\ x \notin InLine
    BY DEF Stages, InLine
  <2> QED
    BY <1>t, <2>1, <2>2, <2>3, OperationLeaves
<1>7. ASSUME SyncReads \/ SyncCompares PROVE LockInv'
  <2>1. PICK x \in {"rows", "apply"} : at' = [at EXCEPT !["sync"] = x]
    BY <1>7 DEF SyncReads, SyncCompares
  <2>2. at["sync"] \in {"login", "rows"} /\ UNCHANGED <<line, note, web>>
    BY <1>7 DEF SyncReads, SyncCompares
  <2>3. WebInv'
    BY <1>t, <2>1, <2>2, AtOf DEF WebInv
  <2> QED
    BY <1>t, <2>1, <2>2, <2>3, OperationElsewhere DEF Stages, InLine
<1>8. ASSUME SyncApplies PROVE LockInv'
  BY <1>8, LocksSame DEF SyncApplies
<1>9. ASSUME NEW entries \in Lists, SaveList(entries) PROVE LockInv'
  <2>1. at["save"] = "idle" /\ web' = web /\ Waits("save", SetList(entries, "done"), line)
    BY <1>9 DEF SaveList
  <2>2. WebInv'
    BY <1>t, <2>1, AtOf DEF WebInv, Waits
  <2>3. SetList(entries, "done") \in NotesOf("save")
    BY DEF NotesOf, SaveNotes, PlateAssumption, PlateList
  <2> QED
    BY <1>t, <2>1, <2>2, <2>3, OperationWaits DEF InLine
<1>10. ASSUME Setup PROVE LockInv'
  <2>1. WebInv'
    BY <1>t, <1>10, AtOf DEF Setup, WebInv
  <2> QED
    BY <1>t, <1>10, <2>1, OperationElsewhere DEF Setup, Stages, InLine
<1> QED
  BY <1>1, <1>2, <1>3, <1>4, <1>5, <1>6, <1>7, <1>8, <1>9, <1>10
----------------------------------------------------------------------------
(* Steps on the page and in the background *)

LEMMA PageSteps ==
  ASSUME PlateAssumption, LockInv, DataInv,
         SwitchedGate \/ SyncEnds \/ SetupLogin \/ SetupGate \/ SetupRows
  PROVE  LockInv'
<1>t. /\ StageInv /\ LineInv /\ WebInv /\ NoteInv
      /\ "switch" \in Operation /\ "sync" \in Operation /\ "save" \in Operation /\ "setup" \in Operation
  BY DEF LockInv, Operation
<1>1. CASE SwitchedGate
  <2>1. at["switch"] = "set_gate" /\ web' = "free" /\ web = "switch"
    BY <1>t, <1>1 DEF SwitchedGate, WebInv
  <2>2. CASE Waits("switch", SetCamera([autoGate |-> Value(asked)], "done"), line)
    <3>1. SetCamera([autoGate |-> Value(asked)], "done") \in NotesOf("switch")
      BY DEF NotesOf, SwitchNotes, SwitchNote, Value, OnOff
    <3>2. WebInv'
      BY <1>t, <2>1, <2>2, AtOf DEF WebInv, Waits
    <3> QED
      BY <1>t, <2>1, <2>2, <3>1, <3>2, OperationWaits DEF InLine
  <2>3. CASE at' = [at EXCEPT !["switch"] = "idle"] /\ line' = line /\ note' = note
    <3>1. WebInv'
      BY <1>t, <2>1, <2>3, AtOf DEF WebInv
    <3> QED
      BY <1>t, <2>1, <2>3, <3>1, OperationElsewhere DEF InLine, Stages
  <2> QED
    BY <1>1, <2>2, <2>3 DEF SwitchedGate
<1>2. CASE SyncEnds
  <2>1. at["sync"] \in {"login", "rows", "apply"} /\ web' = "free" /\ web = "sync"
    BY <1>t, <1>2 DEF SyncEnds, WebInv
  <2>2. PICK outcome \in {"ok", "failed"} : Waits("sync", SyncNote(outcome, "done"), line)
    BY <1>2 DEF SyncEnds, SyncNote
  <2>3. WebInv'
    <3>1. at' = [at EXCEPT !["sync"] = "queued"]
      BY <2>2 DEF Waits
    <3>2. at'["sync"] = "queued" /\ at'["setup"] = at["setup"] /\ at'["switch"] = at["switch"]
      BY <1>t, <3>1, AtOf
    <3> QED
      BY <1>t, <2>1, <3>2 DEF WebInv
  <2>4. SyncNote(outcome, "done") \in NotesOf("sync")
    BY DEF NotesOf, SyncNotes
  <2> QED
    BY <1>t, <2>1, <2>2, <2>3, <2>4, OperationWaits DEF InLine
<1>3. CASE SetupLogin
  <2>1. at["setup"] = "login" /\ UNCHANGED <<line, note>>
    BY <1>3 DEF SetupLogin
  <2>2. CASE at' = [at EXCEPT !["setup"] = "set_gate"] /\ web' = web
    <3>1. WebInv'
      BY <1>t, <2>1, <2>2, AtOf DEF WebInv
    <3> QED
      BY <1>t, <2>1, <2>2, <3>1, OperationElsewhere DEF InLine, Stages
  <2>3. CASE at' = [at EXCEPT !["setup"] = "idle"] /\ web' = "free"
    <3>1. WebInv'
      BY <1>t, <2>1, <2>3, AtOf DEF WebInv
    <3> QED
      BY <1>t, <2>1, <2>3, <3>1, OperationElsewhere DEF InLine, Stages
  <2> QED
    BY <1>3, <2>2, <2>3 DEF SetupLogin
<1>4. CASE SetupGate
  <2>1. at["setup"] = "set_gate" /\ web' = web
    BY <1>4 DEF SetupGate
  <2>2. PICK what \in {OpensNote(Value(auto)), ShutNote} : Waits("setup", what, line)
    BY <1>4 DEF SetupGate, OpensNote, ShutNote
  <2>3. what \in NotesOf("setup")
    BY DEF NotesOf, SetupNotes, Value, OnOff
  <2>4. WebInv'
    BY <1>t, <2>1, <2>2, AtOf DEF WebInv, Waits
  <2> QED
    BY <1>t, <2>1, <2>2, <2>3, <2>4, OperationWaits DEF InLine
<1>5. CASE SetupRows
  <2>1. at["setup"] = "rows" /\ web' = web
    BY <1>5 DEF SetupRows
  <2>2. PICK what \in {SetList(Merge(list, copy), "list"), ListedNote, EndNote} : Waits("setup", what, line)
    BY <1>5 DEF SetupRows, SetupEnds, ListedNote, EndNote
  <2>3. what \in NotesOf("setup")
    <3>1. Merge(list, copy) \in PlateList
      BY DEF DataInv, Merge, PlateList
    <3> QED
      BY <3>1 DEF NotesOf, SetupNotes
  <2>4. WebInv'
    BY <1>t, <2>1, <2>2, AtOf DEF WebInv, Waits
  <2> QED
    BY <1>t, <2>1, <2>2, <2>3, <2>4, OperationWaits DEF InLine
<1> QED
  BY <1>1, <1>2, <1>3, <1>4, <1>5

(* The copy starts again when whoever asks for it has left the line, *)
(* or waits in it once more.                                         *)
LEMMA SyncLaterLocks ==
  ASSUME PlateAssumption, LockInv, NEW t \in {"save", "setup"}, at[t] = "saving",
         NEW stage \in Stages(t), NEW queue,
         \/ queue = Tail(line) /\ stage \notin InLine
         \/ queue = Append(Tail(line), t) /\ stage = "queued",
         t = "setup" => stage = "queued",
         SyncLater(queue, t, stage), DOMAIN note' = Task,
         \A u \in Operation : u # t => note'[u] = note[u],
         stage = "queued" => note'[t] \in NotesOf(t)
  PROVE  LockInv' /\ at'["sync"] = "start" /\ at'[t] = stage /\ at'["switch"] = at["switch"]
         /\ \A u \in Operation : u \notin {t, "sync"} => at'[u] = at[u]
<1>t. /\ StageInv /\ LineInv /\ WebInv /\ NoteInv /\ DOMAIN at = Task
      /\ t \in Task /\ "sync" \in Task /\ t \in Operation /\ Operation \subseteq Task
  BY Tasks DEF LockInv, Operation, StageInv
<1>1. /\ line # <<>> /\ Head(line) = t /\ at["sync"] \notin {"saving", "opening"}
  BY <1>t, Holder DEF Holds
<1> DEFINE left == [at EXCEPT ![t] = "idle"]
           moved == [at EXCEPT ![t] = stage]
<1>2. LineOf(Tail(line), left)
  BY <1>t, <1>1, Leaves DEF LineInv, InLine
<1>3. DOMAIN left = Task /\ DOMAIN moved = Task /\ left[t] = "idle" /\ moved["sync"] = at["sync"]
  BY <1>t
<1>4. LineOf(queue, moved)
  <2>1. CASE queue = Tail(line) /\ stage \notin InLine
    BY <1>t, <1>1, <2>1, Leaves DEF LineInv
  <2>2. CASE queue = Append(Tail(line), t) /\ stage = "queued"
    <3>1. LineOf(Append(Tail(line), t), [left EXCEPT ![t] = "queued"])
      <4> HIDE DEF left
      <4> QED
        BY <1>t, <1>2, <1>3, Joins DEF InLine
    <3>2. [left EXCEPT ![t] = "queued"] = [at EXCEPT ![t] = "queued"]
      BY <1>t
    <3> QED
      BY <2>2, <3>1, <3>2
  <2> QED
    BY <2>1, <2>2
<1>5. LineOf(Withdrawn(queue, "sync"), [moved EXCEPT !["sync"] = "start"])
  <2> HIDE DEF moved
  <2> QED
    BY <1>t, <1>1, <1>3, <1>4, Withdraws DEF InLine
<1>6. at' = [moved EXCEPT !["sync"] = "start"] /\ line' = Withdrawn(queue, "sync")
  BY DEF SyncLater
<1>7. LineInv'
  BY <1>5, <1>6 DEF LineInv
<1>8. /\ at'["sync"] = "start" /\ at'[t] = stage
      /\ \A u \in Task : u \notin {t, "sync"} => at'[u] = at[u]
  BY <1>t, <1>6
<1>9. StageInv'
  BY <1>t, <1>6, <1>8 DEF StageInv, Stages
<1>10. NoteInv'
  BY <1>t, <1>8 DEF NoteInv, Writing, InLine
<1>11. WebInv'
  <2>1. web' = IF web = "sync" THEN "free" ELSE web
    BY DEF SyncLater
  <2>2. at'["switch"] = at["switch"] /\ (t = "save" => at'["setup"] = at["setup"])
    BY <1>t, <1>8 DEF Operation
  <2>3. t = "setup" => at["setup"] = "saving" /\ at'["setup"] = "queued"
    BY <1>8
  <2> QED
    BY <1>t, <1>8, <2>1, <2>2, <2>3 DEF WebInv
<1> QED
  BY <1>t, <1>7, <1>8, <1>9, <1>10, <1>11 DEF LockInv, Operation

LEMMA SavedSteps ==
  ASSUME PlateAssumption, LockInv, ListSaved \/ SetupGoesOn
  PROVE  LockInv'
<1>t. /\ StageInv /\ LineInv /\ WebInv /\ NoteInv
      /\ "switch" \in Operation /\ "sync" \in Operation /\ "save" \in Operation /\ "setup" \in Operation
  BY DEF LockInv, Operation
<1>1. CASE ListSaved
  <2>1. at["save"] = "saving" /\ note' = note
    BY <1>1 DEF ListSaved
  <2>2. CASE SyncLater(Tail(line), "save", "idle")
    BY <1>t, <2>1, <2>2, SyncLaterLocks DEF Stages, InLine, NoteInv
  <2>3. CASE line' = Tail(line) /\ at' = [at EXCEPT !["save"] = "idle"] /\ web' = web
    <3>1. WebInv'
      BY <1>t, <2>1, <2>3, AtOf DEF WebInv
    <3> QED
      BY <1>t, <2>1, <2>3, <3>1, OperationLeaves DEF Stages, InLine
  <2> QED
    BY <1>1, <2>2, <2>3 DEF ListSaved
<1>2. CASE SetupGoesOn
  <2>1. at["setup"] = "saving" /\ note["setup"] \in SetupNotes /\ web = "setup"
    BY <1>t, <1>2 DEF SetupGoesOn, NoteInv, Writing, NotesOf, WebInv
  <2>2. note["setup"].then \in {"rows", "list", "sync", "done"}
    BY <2>1 DEF SetupNotes, OpensNote, ShutNote, ListedNote, EndNote, SetList, SetCamera
  <2>3. CASE \E x \in {"rows", "idle"} : /\ line' = Tail(line) /\ at' = [at EXCEPT !["setup"] = x] /\ note' = note
                                         /\ web' = IF x = "rows" THEN web ELSE "free"
    <3>1. PICK x \in {"rows", "idle"} : /\ line' = Tail(line) /\ at' = [at EXCEPT !["setup"] = x] /\ note' = note
                                        /\ web' = IF x = "rows" THEN web ELSE "free"
      BY <2>3
    <3>2. WebInv'
      BY <1>t, <2>1, <3>1, AtOf DEF WebInv
    <3> QED
      BY <1>t, <2>1, <3>1, <3>2, OperationLeaves DEF Stages, InLine
  <2>4. CASE \E what \in {ListedNote, EndNote} : Waits("setup", what, Tail(line)) /\ web' = web
    <3>1. PICK what \in {ListedNote, EndNote} : Waits("setup", what, Tail(line)) /\ web' = web
      BY <2>4
    <3>2. at' = [at EXCEPT !["setup"] = "queued"] /\ note' = [note EXCEPT !["setup"] = what]
          /\ line' = Append(Tail(line), "setup")
      BY <3>1 DEF Waits
    <3>3. WebInv'
      BY <1>t, <2>1, <3>1, <3>2, AtOf DEF WebInv
    <3>4. LineInv'
      <4> DEFINE left == [at EXCEPT !["setup"] = "idle"]
      <4>1. DOMAIN at = Task /\ "setup" \in Task /\ line # <<>> /\ Head(line) = "setup"
        BY <1>t, <2>1, Tasks, Holder DEF StageInv, Holds
      <4>2. LineOf(Tail(line), left) /\ DOMAIN left = Task /\ left["setup"] = "idle"
        BY <1>t, <4>1, Leaves DEF LineInv, InLine
      <4>3. [left EXCEPT !["setup"] = "queued"] = at'
        BY <3>2, <4>1
      <4> HIDE DEF left
      <4>4. LineOf(Append(Tail(line), "setup"), [left EXCEPT !["setup"] = "queued"])
        BY <4>1, <4>2, Joins DEF InLine
      <4> QED
        BY <3>2, <4>3, <4>4 DEF LineInv
    <3>5. note'["setup"] = what /\ what \in NotesOf("setup") /\ "queued" \in Stages("setup")
      BY <1>t, <3>2, Tasks DEF NoteInv, NotesOf, SetupNotes, Stages
    <3> QED
      BY <1>t, <3>2, <3>3, <3>4, <3>5, OperationLocks
  <2>5. CASE /\ SyncLater(Append(Tail(line), "setup"), "setup", "queued")
             /\ note' = [note EXCEPT !["setup"] = EndNote]
    <3>1. note'["setup"] = EndNote /\ DOMAIN note' = Task /\ \A u \in Operation : u # "setup" => note'[u] = note[u]
      BY <1>t, <2>5, Tasks DEF NoteInv
    <3>2. EndNote \in NotesOf("setup") /\ "queued" \in Stages("setup")
      BY DEF NotesOf, SetupNotes, Stages
    <3> QED
      BY <1>t, <2>1, <2>5, <3>1, <3>2, SyncLaterLocks
  <2> QED
    BY <1>2, <2>2, <2>3, <2>4, <2>5 DEF SetupGoesOn, SetupEnds, ListedNote, EndNote
<1> QED
  BY <1>1, <1>2

LEMMA LockStep == ASSUME PlateAssumption PROVE DataInv /\ LockInv /\ [Next]_vars => LockInv'
<1> SUFFICES ASSUME DataInv, LockInv, [Next]_vars PROVE LockInv'
  OBVIOUS
<1>1. ASSUME Tick \/ UNCHANGED vars PROVE LockInv'
  BY <1>1, LocksSame DEF Tick, vars, camera, memory, locals
<1>2. ASSUME Stop PROVE LockInv'
  <2>1. line' = <<>> /\ web' = "free" /\ at' = [t \in Task |-> "idle"] /\ note' = note
    BY <1>2 DEF Stop
  <2>2. \A t \in Task : at'[t] = "idle"
    BY <2>1
  <2>3. NoteInv' /\ StageInv'
    BY <2>1, <2>2, Tasks DEF LockInv, NoteInv, StageInv, Stages, Writing
  <2>4. LineInv'
    BY <2>1, <2>2 DEF LineInv, LineOf, InLine
  <2>5. WebInv'
    BY <2>1, <2>2, Tasks DEF WebInv, Operation
  <2> QED
    BY <2>3, <2>4, <2>5 DEF LockInv
<1> QED
  BY <1>1, <1>2, ReportSteps, SimpleSteps, PageSteps, SavedSteps DEF Next
----------------------------------------------------------------------------
(* What is written *)

(* A note changes the fields it names, and only a list replaces the list. *)
LEMMA Writes ==
  ASSUME NEW s \in Settings, NEW v
  PROVE  /\ LET new == Changed(s, SwitchNote(v).changes) IN
              /\ v \in OnOff => new \in Settings
              /\ new.autoGate = v /\ new.cameraGate = s.cameraGate
              /\ new.cameraList = s.cameraList /\ new.listSync = s.listSync
         /\ LET new == Changed(s, OpensNote(v).changes) IN
              /\ v \in OnOff => new \in Settings
              /\ new.autoGate = v /\ new.cameraGate
              /\ new.cameraList = s.cameraList /\ new.listSync = s.listSync
         /\ LET new == Changed(s, ShutNote.changes) IN
              /\ new \in Settings /\ ~new.cameraGate /\ new.autoGate = s.autoGate
              /\ new.cameraList = s.cameraList /\ new.listSync = s.listSync
         /\ LET new == Changed(s, ListedNote.changes) IN
              /\ new \in Settings /\ new.cameraList /\ new.listSync = "ok"
              /\ new.autoGate = s.autoGate /\ new.cameraGate = s.cameraGate
         /\ LET new == Changed(s, EndNote.changes) IN
              /\ new \in Settings /\ new.autoGate = s.autoGate /\ new.cameraGate = s.cameraGate
              /\ new.cameraList = s.cameraList /\ new.listSync = s.listSync
<1> USE DEF Settings, Changed, OnOff
<1>2. LET new == Changed(s, SwitchNote(v).changes) IN
              /\ v \in OnOff => new \in Settings
              /\ new.autoGate = v /\ new.cameraGate = s.cameraGate
              /\ new.cameraList = s.cameraList /\ new.listSync = s.listSync
  BY DEF SwitchNote, SetCamera
<1>3. LET new == Changed(s, OpensNote(v).changes) IN
              /\ v \in OnOff => new \in Settings
              /\ new.autoGate = v /\ new.cameraGate
              /\ new.cameraList = s.cameraList /\ new.listSync = s.listSync
  BY DEF OpensNote, SetCamera
<1>4. LET new == Changed(s, ShutNote.changes) IN
              /\ new \in Settings /\ ~new.cameraGate /\ new.autoGate = s.autoGate
              /\ new.cameraList = s.cameraList /\ new.listSync = s.listSync
  BY DEF ShutNote, SetCamera
<1>5. LET new == Changed(s, ListedNote.changes) IN
              /\ new \in Settings /\ new.cameraList /\ new.listSync = "ok"
              /\ new.autoGate = s.autoGate /\ new.cameraGate = s.cameraGate
  BY DEF ListedNote, SetCamera
<1>6. LET new == Changed(s, EndNote.changes) IN
              /\ new \in Settings /\ new.autoGate = s.autoGate /\ new.cameraGate = s.cameraGate
              /\ new.cameraList = s.cameraList /\ new.listSync = s.listSync
  BY DEF EndNote, SetCamera
<1> HIDE DEF Settings, Changed, OnOff
<1> QED
  BY <1>2, <1>3, <1>4, <1>5, <1>6

LEMMA SyncWrites ==
  ASSUME NEW s \in Settings, NEW v \in {"none", "running", "ok", "failed"}, NEW then
  PROVE  LET new == Changed(s, SyncNote(v, then).changes) IN
           /\ new \in Settings /\ new.autoGate = s.autoGate /\ new.cameraGate = s.cameraGate
           /\ new.cameraList = s.cameraList /\ new.listSync = v
  BY DEF Settings, Changed, SyncNote, SetCamera

LEMMA ListWrites == ASSUME NEW s \in Settings, NEW entries, NEW then
                    PROVE  Changed(s, SetList(entries, then).changes) = s
  BY DEF Settings, Changed, SetList

LEMMA DataInit == ASSUME PlateAssumption PROVE Init => DataInv
<1> SUFFICES ASSUME Init PROVE DataInv
  OBVIOUS
<1>1. First.copy \in PlateList /\ First.list \in PlateList
  BY DEF PlateAssumption, PlateList
<1>2. Unset \in Settings
  BY DEF Unset, Settings
<1>3. MaxTime \in Nat /\ Never \in 0 .. Never /\ 0 \in 0 .. MaxTime /\ (CHOOSE p \in Plate : TRUE) \in Plate
  BY DEF PlateAssumption, Never
<1> QED
  BY <1>1, <1>2, <1>3 DEF Init, DataInv

LEMMA DataStep == ASSUME PlateAssumption PROVE DataInv /\ LockInv /\ [Next]_vars => DataInv'
<1> SUFFICES ASSUME DataInv, LockInv, [Next]_vars PROVE DataInv'
  OBVIOUS
<1>n. MaxTime \in Nat /\ Never = MaxTime + 1
  BY DEF PlateAssumption, Never
<1>s. Save => saved'.list \in PlateList /\ saved'.settings \in Settings
  BY DEF Save, DataInv
<1>c. \A ps : Apply(ps) => copy' \in PlateList
  BY DEF Apply, DataInv, PlateList
<1>1. ASSUME NEW r \in Report, NEW p \in Plate, Recognised(r, p) PROVE DataInv'
  BY <1>1 DEF Recognised, DataInv, camera, memory
<1>2. ASSUME NEW r \in Report, Repeated(r) \/ Reported(r) PROVE DataInv'
  BY <1>2, <1>s DEF Repeated, Reported, DataInv, camera, memory, locals
<1>3. ASSUME NEW r \in Report, Decide(r) PROVE DataInv'
  <2>1. now \in 0 .. Never /\ plate[r] \in Plate
    BY <1>n DEF DataInv
  <2>2. recent' \in [Plate -> 0 .. Never] /\ pulsed' \in [Plate -> 0 .. Never]
    BY <1>3, <1>n, <2>1 DEF Decide, DataInv, Remembered
  <2> QED
    BY <1>3, <2>2 DEF Decide, DataInv, camera, memory, locals
<1>4. ASSUME NEW r \in Report, Opened(r) PROVE DataInv'
  <2>1. recent' \in [Plate -> 0 .. Never]
    BY <1>4, <1>n DEF Opened, DataInv, Remembered
  <2> QED
    BY <1>4, <2>1 DEF Opened, DataInv, camera, memory, locals
<1>5. ASSUME NEW t \in Operation, Written(t) PROVE DataInv'
  <2>1. note[t] \in NotesOf(t) /\ settings \in Settings /\ list \in PlateList
    BY <1>5 DEF Written, LockInv, NoteInv, Writing, DataInv
  <2>2. settings' = Changed(settings, note[t].changes)
        /\ list' = IF "list" \in DOMAIN note[t] THEN note[t].list ELSE list
    BY <1>5 DEF Written
  <2>3. settings' \in Settings
    <3>1. CASE t = "switch"
      BY <2>1, <2>2, <3>1, Writes DEF NotesOf, SwitchNotes
    <3>2. CASE t = "save"
      <4>1. PICK entries \in PlateList : note[t] = SetList(entries, "done")
        BY <2>1, <3>2 DEF NotesOf, SaveNotes
      <4>2. Changed(settings, SetList(entries, "done").changes) = settings
        BY <2>1, ListWrites
      <4> QED
        BY <2>1, <2>2, <4>1, <4>2
    <3>3. CASE t = "sync"
      <4>1. PICK outcome \in {"none", "running", "ok", "failed"}, then \in {"web", "done"} :
              note[t] = SyncNote(outcome, then)
        BY <2>1, <3>3 DEF NotesOf, SyncNotes
      <4>2. Changed(settings, SyncNote(outcome, then).changes) \in Settings
        BY <2>1, SyncWrites
      <4> QED
        BY <2>2, <4>1, <4>2
    <3>4. CASE t = "setup"
      <4>1. \/ \E v \in OnOff : note[t] = OpensNote(v)
            \/ note[t] \in {ShutNote, ListedNote, EndNote}
            \/ \E entries \in PlateList : note[t] = SetList(entries, "list")
        BY <2>1, <3>4 DEF NotesOf, SetupNotes
      <4>2. CASE \E v \in OnOff : note[t] = OpensNote(v)
        BY <2>1, <2>2, <4>2, Writes
      <4>3. CASE note[t] \in {ShutNote, ListedNote, EndNote}
        BY <2>1, <2>2, <4>3, Writes
      <4>4. CASE \E entries \in PlateList : note[t] = SetList(entries, "list")
        <5>1. PICK entries \in PlateList : note[t] = SetList(entries, "list")
          BY <4>4
        <5>2. Changed(settings, SetList(entries, "list").changes) = settings
          BY <2>1, ListWrites
        <5> QED
          BY <2>1, <2>2, <5>1, <5>2
      <4> QED
        BY <4>1, <4>2, <4>3, <4>4
    <3> QED
      BY <3>1, <3>2, <3>3, <3>4 DEF Operation
  <2>4. list' \in PlateList
    BY <2>1, <2>2 DEF NotesOf, SwitchNotes, SaveNotes, SyncNotes, SetupNotes, SwitchNote, SyncNote,
       OpensNote, ShutNote, ListedNote, EndNote, SetCamera, SetList, Operation
  <2> QED
    BY <1>5, <2>3, <2>4 DEF Written, DataInv, camera, locals
<1>6. ASSUME \/ \E t \in Operation : Visit(t)
             \/ \E enabled \in BOOLEAN : SwitchGate(enabled)
             \/ SwitchedGate \/ Switched \/ SyncStarts \/ SyncSaved
             \/ \E entries \in Lists : SaveList(entries)
             \/ Setup \/ SetupLogin \/ SetupGate \/ SetupRows
      PROVE  DataInv'
  <2>1. CASE \E t \in Operation : Visit(t)
    BY <2>1 DEF Visit, DataInv, camera, memory, locals
  <2>2. CASE \E enabled \in BOOLEAN : SwitchGate(enabled)
    BY <2>2 DEF SwitchGate, DataInv, camera, memory
  <2>3. CASE SwitchedGate
    BY <2>3 DEF SwitchedGate, DataInv, memory, locals
  <2>4. CASE Switched \/ SyncSaved
    BY <2>4, <1>s DEF Switched, SyncSaved, DataInv, camera, memory, locals
  <2>5. CASE SyncStarts \/ (\E entries \in Lists : SaveList(entries)) \/ Setup
    BY <2>5 DEF SyncStarts, SaveList, Setup, DataInv, camera, memory, locals
  <2>6. CASE SetupLogin
    BY <2>6 DEF SetupLogin, DataInv, camera, memory
  <2>7. CASE SetupGate
    BY <2>7 DEF SetupGate, DataInv, memory, locals
  <2>8. CASE SetupRows
    BY <2>8 DEF SetupRows, DataInv, camera, memory
  <2> QED
    BY <1>6, <2>1, <2>2, <2>3, <2>4, <2>5, <2>6, <2>7, <2>8
<1>7. ASSUME SyncReads \/ SyncCompares PROVE DataInv'
  BY <1>7 DEF SyncReads, SyncCompares, Differences, DataInv, camera, memory
<1>8. ASSUME SyncApplies \/ SyncEnds PROVE DataInv'
  <2>1. copy' \in PlateList
    BY <1>8, <1>c DEF SyncApplies, SyncEnds, DataInv
  <2>2. todo' \subseteq Plate
    BY <1>8 DEF SyncApplies, SyncEnds, DataInv, locals
  <2> QED
    BY <1>8, <2>1, <2>2 DEF SyncApplies, SyncEnds, DataInv, memory, locals
<1>9. ASSUME ListSaved \/ SetupGoesOn PROVE DataInv'
  <2>1. CASE ListSaved
    <3>1. copy' \in PlateList
      BY <2>1, <1>c DEF ListSaved, SyncLater, DataInv
    <3> QED
      BY <2>1, <1>s, <3>1 DEF ListSaved, DataInv, memory, locals
  <2>2. CASE SetupGoesOn
    <3>1. note["setup"] \in SetupNotes
      BY <2>2 DEF SetupGoesOn, LockInv, NoteInv, Writing, NotesOf, Operation
    <3>2. note["setup"].then \in {"rows", "list", "sync", "done"}
      BY <3>1 DEF SetupNotes, OpensNote, ShutNote, ListedNote, EndNote, SetList, SetCamera
    <3>3. UNCHANGED copy \/ \E ps : Apply(ps)
      BY <2>2, <3>2 DEF SetupGoesOn, SyncLater
    <3>4. copy' \in PlateList
      BY <1>c, <3>3 DEF DataInv
    <3> QED
      BY <2>2, <1>s, <3>4 DEF SetupGoesOn, DataInv, memory, locals
  <2> QED
    BY <1>9, <2>1, <2>2
<1>10. ASSUME Tick PROVE DataInv'
  BY <1>10, <1>n DEF Tick, DataInv, camera, memory, locals
<1>11. ASSUME Stop PROVE DataInv'
  BY <1>11, <1>n DEF Stop, DataInv, camera, locals
<1>12. CASE UNCHANGED vars
  BY <1>12 DEF vars, camera, memory, locals, DataInv
<1> QED
  BY <1>1, <1>2, <1>3, <1>4, <1>5, <1>6, <1>7, <1>8, <1>9, <1>10, <1>11, <1>12 DEF Next
----------------------------------------------------------------------------
(* The type invariant *)

LEMMA TypesHold == ASSUME PlateAssumption, DataInv, LockInv PROVE TypeOK
<1>1. LineOf(line, at) /\ DOMAIN line = 1 .. Len(line) /\ Range(line) = {line[i] : i \in 1 .. Len(line)}
  BY DEF LockInv, LineInv, LineOf, Range
<1>2. Range(line) \subseteq Task /\ IsInjective(line)
  BY <1>1 DEF LineOf, IsInjective
<1>3. \A t \in Task : t \in Range(line) <=> at[t] \in InLine
  BY <1>1 DEF LineOf
<1>4. web \in Operation \cup {"free"}
  BY DEF LockInv, WebInv, Operation
<1>5. \A t \in Task : (at[t] \in {"saving", "opening"}) => Holds(t)
  BY <1>1 DEF LineOf, Holds
<1> QED
  BY <1>2, <1>3, <1>4, <1>5 DEF TypeOK, DataInv, PlateList, InLine

----------------------------------------------------------------------------
(* Openings of a gate *)

(* While the window since an opening lasts, its plate is remembered or its *)
(* report still has the lock.                                              *)
PulseInv ==
  \A p \in Plate :
    /\ recent[p] = Never \/ recent[p] <= now
    /\ pulsed[p] = Never \/ pulsed[p] <= now
    /\ \/ pulsed[p] = Never \/ now - pulsed[p] >= REPEAT_SECONDS
       \/ recent[p] # Never /\ recent[p] >= pulsed[p]
       \/ \E r \in Report : at[r] = "opening" /\ plate[r] = p

(* An operation changes nothing of the reports. *)
OperationStep ==
  \/ \E t \in Operation : Written(t) \/ Visit(t)
  \/ \E enabled \in BOOLEAN : SwitchGate(enabled)
  \/ SwitchedGate \/ Switched
  \/ SyncStarts \/ SyncSaved \/ SyncReads \/ SyncCompares \/ SyncApplies \/ SyncEnds
  \/ \E entries \in Lists : SaveList(entries)
  \/ ListSaved \/ Setup \/ SetupLogin \/ SetupGate \/ SetupRows \/ SetupGoesOn

LEMMA ReportsStay ==
  ASSUME PlateAssumption, LockInv, OperationStep
  PROVE  (\A r \in Report : at'[r] = at[r]) /\ UNCHANGED <<recent, pulsed, now, plate>>
<1>t. /\ \A r \in Report : r \in Task /\ r \notin {"setup", "switch", "save", "sync"}
      /\ DOMAIN at = Task
  BY Tasks DEF Operation, LockInv, StageInv
<1>1. CASE \E t \in Operation : Written(t) \/ Visit(t)
  BY <1>1, <1>t DEF Written, Visit, locals, Operation
<1>2. CASE (\E enabled \in BOOLEAN : SwitchGate(enabled)) \/ SwitchedGate \/ Switched
  BY <1>2, <1>t DEF SwitchGate, SwitchedGate, Switched, Waits, locals
<1>3. CASE SyncStarts \/ SyncSaved \/ SyncReads \/ SyncCompares \/ SyncApplies \/ SyncEnds
  BY <1>3, <1>t DEF SyncStarts, SyncSaved, SyncReads, SyncCompares, SyncApplies, SyncEnds, Waits, locals
<1>4. CASE (\E entries \in Lists : SaveList(entries)) \/ ListSaved \/ Setup
  BY <1>4, <1>t DEF SaveList, ListSaved, Setup, SyncLater, Waits, locals
<1>5. CASE SetupLogin \/ SetupGate \/ SetupRows
  BY <1>5, <1>t DEF SetupLogin, SetupGate, SetupRows, SetupEnds, Waits, locals
<1>6. CASE SetupGoesOn
  <2>1. note["setup"] \in SetupNotes
    BY <1>6 DEF SetupGoesOn, LockInv, NoteInv, Writing, NotesOf, Operation
  <2>2. note["setup"].then \in {"rows", "list", "sync", "done"}
    BY <2>1 DEF SetupNotes, OpensNote, ShutNote, ListedNote, EndNote, SetList, SetCamera
  <2> QED
    BY <1>6, <1>t, <2>2 DEF SetupGoesOn, SetupEnds, SyncLater, Waits, locals
<1> QED
  BY <1>1, <1>2, <1>3, <1>4, <1>5, <1>6 DEF OperationStep

LEMMA PulseInit == ASSUME PlateAssumption PROVE Init => PulseInv
  BY DEF Init, PulseInv, PlateAssumption

LEMMA PulseStep ==
  ASSUME PlateAssumption PROVE DataInv /\ LockInv /\ PulseInv /\ [Next]_vars => PulseInv'
<1> SUFFICES ASSUME DataInv, LockInv, PulseInv, [Next]_vars PROVE PulseInv'
  OBVIOUS
<1>n. /\ MaxTime \in Nat /\ Never = MaxTime + 1 /\ REPEAT_SECONDS \in Nat /\ now \in 0 .. MaxTime
      /\ \A p \in Plate : recent[p] \in 0 .. Never /\ pulsed[p] \in 0 .. Never
      /\ recent \in [Plate -> 0 .. Never] /\ pulsed \in [Plate -> 0 .. Never]
      /\ DOMAIN at = Task /\ Report \subseteq Task /\ \A r \in Report : plate[r] \in Plate
      /\ plate \in [Report -> Plate]
  BY Tasks DEF PlateAssumption, Never, DataInv, LockInv, StageInv
<1>s. ASSUME UNCHANGED <<recent, pulsed, now>>, \A r \in Report : at[r] = "opening" =>
              at'[r] = "opening" /\ plate'[r] = plate[r]
      PROVE  PulseInv'
  BY <1>s DEF PulseInv, Never
<1>1. ASSUME NEW r \in Report, NEW p \in Plate, Recognised(r, p) PROVE PulseInv'
  BY <1>1, <1>n, <1>s DEF Recognised, Waits
<1>2. ASSUME NEW r \in Report, Repeated(r) \/ Reported(r) PROVE PulseInv'
  BY <1>2, <1>n, <1>s DEF Repeated, Reported, locals
<1>3. ASSUME NEW r \in Report, Decide(r) PROVE PulseInv'
  <2>1. CASE HubOpens(plate[r])
    <3>1. /\ at' = [at EXCEPT ![r] = "opening"] /\ pulsed' = [pulsed EXCEPT ![plate[r]] = now]
          /\ recent' = recent /\ now' = now /\ plate' = plate
      BY <1>3, <2>1 DEF Decide, locals
    <3>2. at'[r] = "opening" /\ \A u \in Report : at[u] = "opening" => at'[u] = "opening"
      BY <1>n, <3>1
    <3>3. pulsed'[plate[r]] = now /\ \A q \in Plate : q # plate[r] => pulsed'[q] = pulsed[q]
      BY <1>n, <3>1
    <3> QED
      BY <1>n, <3>1, <3>2, <3>3 DEF PulseInv, Never
  <2>2. CASE ~HubOpens(plate[r])
    <3>1. /\ at' = [at EXCEPT ![r] = "saving"] /\ pulsed' = pulsed /\ at[r] = "queued"
          /\ recent' = Remembered(plate[r], now) /\ now' = now /\ plate' = plate
      BY <1>3, <2>2 DEF Decide, locals
    <3>2. \A u \in Report : at[u] = "opening" => at'[u] = "opening"
      BY <1>n, <3>1
    <3>3. \A q \in Plate : recent'[q] = IF q = plate[r] THEN now ELSE IF Recent(q) THEN recent[q] ELSE Never
      BY <3>1 DEF Remembered
    <3>4. ASSUME NEW q \in Plate, q # plate[r], pulsed[q] # Never, now - pulsed[q] < REPEAT_SECONDS,
                 recent[q] # Never, recent[q] >= pulsed[q]
          PROVE  recent'[q] = recent[q]
      <4>1. recent[q] \in Int /\ pulsed[q] \in Int /\ now \in Int /\ REPEAT_SECONDS \in Int
        BY <1>n
      <4>2. Recent(q)
        BY <3>4, <4>1 DEF Recent
      <4> QED
        BY <3>3, <3>4, <4>2
    <3>5. ASSUME NEW q \in Plate PROVE recent'[q] = Never \/ recent'[q] <= now
      BY <1>n, <3>3 DEF PulseInv
    <3>6. ASSUME NEW q \in Plate
          PROVE  \/ pulsed[q] = Never \/ now - pulsed[q] >= REPEAT_SECONDS
                 \/ recent'[q] # Never /\ recent'[q] >= pulsed[q]
                 \/ \E u \in Report : at'[u] = "opening" /\ plate[u] = q
      <4>1. CASE q = plate[r]
        <5>1. recent'[q] = now /\ now # Never /\ (pulsed[q] = Never \/ pulsed[q] <= now)
          BY <1>n, <3>3, <4>1 DEF PulseInv
        <5> QED
          BY <1>n, <5>1
      <4>2. CASE q # plate[r]
        <5>1. \/ pulsed[q] = Never \/ now - pulsed[q] >= REPEAT_SECONDS
              \/ recent[q] # Never /\ recent[q] >= pulsed[q]
              \/ \E u \in Report : at[u] = "opening" /\ plate[u] = q
          BY DEF PulseInv
        <5>2. now - pulsed[q] >= REPEAT_SECONDS \/ now - pulsed[q] < REPEAT_SECONDS
          BY <1>n
        <5> QED
          BY <3>2, <3>4, <4>2, <5>1, <5>2
      <4> QED
        BY <4>1, <4>2
    <3>7. \A q \in Plate : pulsed[q] = Never \/ pulsed[q] <= now
      BY DEF PulseInv
    <3> QED
      BY <3>1, <3>5, <3>6, <3>7 DEF PulseInv, Never
  <2> QED
    BY <2>1, <2>2
<1>4. ASSUME NEW r \in Report, Opened(r) PROVE PulseInv'
  <2>1. /\ at[r] = "opening" /\ at' = [at EXCEPT ![r] = "saving"] /\ pulsed' = pulsed /\ now' = now
        /\ recent' = Remembered(plate[r], pulsed[plate[r]]) /\ plate' = plate
    BY <1>4 DEF Opened, locals
  <2>2. \A u \in Report : u # r => at'[u] = at[u]
    BY <1>n, <2>1
  <2>3. \A q \in Plate : recent'[q] = IF q = plate[r] THEN pulsed[q]
                                      ELSE IF Recent(q) THEN recent[q] ELSE Never
    BY <2>1 DEF Remembered
  <2>4. ASSUME NEW q \in Plate, q # plate[r], pulsed[q] # Never, now - pulsed[q] < REPEAT_SECONDS,
               recent[q] # Never, recent[q] >= pulsed[q]
        PROVE  recent'[q] = recent[q]
    <3>1. recent[q] \in Int /\ pulsed[q] \in Int /\ now \in Int /\ REPEAT_SECONDS \in Int
      BY <1>n
    <3>2. Recent(q)
      BY <2>4, <3>1 DEF Recent
    <3> QED
      BY <2>3, <2>4, <3>2
  <2>5. ASSUME NEW q \in Plate PROVE recent'[q] = Never \/ recent'[q] <= now
    BY <1>n, <2>3 DEF PulseInv
  <2>6. ASSUME NEW q \in Plate
        PROVE  \/ pulsed[q] = Never \/ now - pulsed[q] >= REPEAT_SECONDS
               \/ recent'[q] # Never /\ recent'[q] >= pulsed[q]
               \/ \E u \in Report : at'[u] = "opening" /\ plate[u] = q
    <3>1. CASE q = plate[r]
      BY <1>n, <2>3, <3>1
    <3>2. CASE q # plate[r]
      <4>1. \/ pulsed[q] = Never \/ now - pulsed[q] >= REPEAT_SECONDS
            \/ recent[q] # Never /\ recent[q] >= pulsed[q]
            \/ \E u \in Report : at[u] = "opening" /\ plate[u] = q
        BY DEF PulseInv
      <4>2. now - pulsed[q] >= REPEAT_SECONDS \/ now - pulsed[q] < REPEAT_SECONDS
        BY <1>n
      <4>3. (\E u \in Report : at[u] = "opening" /\ plate[u] = q)
              => \E u \in Report : at'[u] = "opening" /\ plate[u] = q
        BY <2>2, <3>2
      <4> QED
        BY <2>4, <3>2, <4>1, <4>2, <4>3
    <3> QED
      BY <3>1, <3>2
  <2>7. \A q \in Plate : pulsed[q] = Never \/ pulsed[q] <= now
    BY DEF PulseInv
  <2> QED
    BY <2>1, <2>5, <2>6, <2>7 DEF PulseInv, Never
<1>5. ASSUME OperationStep PROVE PulseInv'
  BY <1>5, <1>s, ReportsStay
<1>6. ASSUME Tick PROVE PulseInv'
  <2>1. now' = now + 1 /\ recent' = recent /\ pulsed' = pulsed /\ at' = at /\ plate' = plate
    BY <1>6 DEF Tick, locals
  <2>2. now \in Int /\ REPEAT_SECONDS \in Int
    BY <1>n
  <2>3. ASSUME NEW p \in Plate
        PROVE  /\ recent'[p] = Never \/ recent'[p] <= now'
               /\ pulsed'[p] = Never \/ pulsed'[p] <= now'
               /\ \/ pulsed'[p] = Never \/ now' - pulsed'[p] >= REPEAT_SECONDS
                  \/ recent'[p] # Never /\ recent'[p] >= pulsed'[p]
                  \/ \E r \in Report : at'[r] = "opening" /\ plate'[r] = p
    <3>1. recent[p] \in Int /\ pulsed[p] \in Int
      BY <1>n
    <3>2. now - pulsed[p] >= REPEAT_SECONDS => now' - pulsed'[p] >= REPEAT_SECONDS
      BY <2>1, <2>2, <3>1
    <3>3. (recent[p] <= now => recent'[p] <= now') /\ (pulsed[p] <= now => pulsed'[p] <= now')
      BY <2>1, <2>2, <3>1
    <3>4. (\E r \in Report : at[r] = "opening" /\ plate[r] = p)
            => \E r \in Report : at'[r] = "opening" /\ plate'[r] = p
      BY <2>1
    <3>5. /\ recent[p] = Never \/ recent[p] <= now
          /\ pulsed[p] = Never \/ pulsed[p] <= now
          /\ \/ pulsed[p] = Never \/ now - pulsed[p] >= REPEAT_SECONDS
             \/ recent[p] # Never /\ recent[p] >= pulsed[p]
             \/ \E r \in Report : at[r] = "opening" /\ plate[r] = p
      BY DEF PulseInv
    <3>6. recent'[p] = recent[p] /\ pulsed'[p] = pulsed[p]
      BY <2>1
    <3> QED
      BY <3>2, <3>3, <3>4, <3>5, <3>6
  <2> QED
    BY <2>3 DEF PulseInv, Never
<1>7. ASSUME Stop PROVE PulseInv'
  BY <1>7, <1>n DEF Stop, PulseInv, Never
<1>8. CASE UNCHANGED vars
  BY <1>8, <1>s DEF vars, locals
<1> QED
  BY <1>1, <1>2, <1>3, <1>4, <1>5, <1>6, <1>7, <1>8 DEF Next, OperationStep

LEMMA OpensApart ==
  ASSUME PlateAssumption
  PROVE  DataInv /\ LockInv /\ PulseInv /\ [Next]_vars =>
           [\A p \in Plate : (pulsed[p] # Never /\ pulsed'[p] \notin {pulsed[p], Never})
              => pulsed'[p] - pulsed[p] >= REPEAT_SECONDS]_vars
<1> SUFFICES ASSUME DataInv, LockInv, PulseInv, Next, NEW p \in Plate, pulsed[p] # Never,
                    pulsed'[p] \notin {pulsed[p], Never}
             PROVE  pulsed'[p] - pulsed[p] >= REPEAT_SECONDS
  OBVIOUS
<1>1. \E r \in Report : Decide(r)
  <2>1. ASSUME NEW r \in Report, (\E q \in Plate : Recognised(r, q)) \/ Repeated(r) \/ Opened(r) \/ Reported(r)
        PROVE  FALSE
    BY <2>1 DEF Recognised, Repeated, Opened, Reported
  <2>2. ~Tick
    BY DEF Tick
  <2>3. ~Stop
    BY DEF Stop
  <2>4. ~OperationStep
    BY ReportsStay
  <2> QED
    BY <2>1, <2>2, <2>3, <2>4 DEF Next, OperationStep
<1>2. PICK r \in Report : Decide(r)
  BY <1>1
<1>3. /\ at[r] = "queued" /\ Holds(r) /\ ~Recent(plate[r]) /\ r \in Task /\ plate[r] \in Plate
      /\ pulsed' = [pulsed EXCEPT ![plate[r]] = now]
  BY <1>2, Tasks DEF Decide, DataInv
<1>4. plate[r] = p /\ pulsed'[p] = now
  BY <1>3 DEF DataInv
<1>5. \A u \in Report : at[u] # "opening"
  <2> SUFFICES ASSUME NEW u \in Report, at[u] = "opening" PROVE FALSE
    OBVIOUS
  <2>1. Holds(u)
    BY Tasks, Holder DEF LockInv
  <2> QED
    BY <1>3, <2>1 DEF Holds
<1>6. /\ now \in Nat /\ recent[p] \in Nat /\ pulsed[p] \in Nat /\ REPEAT_SECONDS \in Nat
      /\ recent[p] = Never \/ now - recent[p] >= REPEAT_SECONDS
  BY <1>3, <1>4 DEF DataInv, PlateAssumption, Never, Recent
<1>7. now - pulsed[p] >= REPEAT_SECONDS \/ (recent[p] # Never /\ recent[p] >= pulsed[p])
  BY <1>5 DEF PulseInv
<1> QED
  BY <1>4, <1>6, <1>7

----------------------------------------------------------------------------
(* The camera and what the platform shows *)

(* What a stop loses is what somebody is about to save. *)
SavedInv == (saved.list = list /\ saved.settings = settings) \/ \E t \in Operation : at[t] = "saving"
OverlapInv == at["setup"] # "idle" /\ (at["save"] # "idle" \/ at["switch"] # "idle") => overlap

(* The rule is the switch, or the write that makes it so waits for the line. *)
RuleWaits == at["setup"] = "queued" /\ note["setup"].then = "rows"
GateInv ==
  ~overlap =>
    /\ at["switch"] = "queued" =>
         note["switch"] = SwitchNote(Value(asked)) /\ (settings.cameraGate => rule = asked)
    /\ RuleWaits => note["setup"] \in {OpensNote(Value(rule)), ShutNote}
    /\ settings.cameraGate => settings.autoGate = Value(rule) \/ at["switch"] = "queued" \/ RuleWaits

(* A setup between the camera's list it read and the copy it asks for; a   *)
(* copy that is asked for and has not said so; one that has gone well.     *)
Listing == Writing("setup") /\ note["setup"].then \in {"list", "sync"}
Starting == at["sync"] = "start" \/ (at["sync"] = "queued" /\ note["sync"].then = "web")
Copied == at["sync"] = "queued" /\ note["sync"].changes.listSync = "ok"

SettledInv ==
  settings.cameraList /\ settings.listSync = "ok" =>
    copy = list \/ at["save"] = "saving" \/ Starting \/ Listing
CopyingInv ==
  /\ at["sync"] # "idle" => settings.cameraList
  /\ at["sync"] = "saving" /\ note["sync"].then = "web" => settings.listSync = "running"
  /\ at["sync"] \in {"rows", "apply"} => wanted = list \/ at["save"] = "saving"
  /\ at["sync"] = "apply" => todo = Differences(wanted, copy)
  /\ Copied => copy = list \/ at["save"] = "saving"
ListingInv ==
  /\ Writing("setup") /\ note["setup"].then = "list" =>
       /\ ~Copied /\ pending = (Differences(note["setup"].list, copy) # {})
       /\ at["setup"] = "saving" => list = note["setup"].list
  /\ Writing("setup") /\ note["setup"].then = "sync" =>
       /\ pending = (Differences(list, copy) # {})
       /\ at["setup"] = "saving" => settings.cameraList
CopyInv == ~overlap => SettledInv /\ CopyingInv /\ ListingInv

TruthInv == SavedInv /\ OverlapInv /\ GateInv /\ CopyInv

LEMMA NoDifference ==
  ASSUME NEW x \in PlateList, NEW y \in PlateList PROVE Differences(x, y) = {} <=> x = y
<1>1. Differences(x, y) = {} => \A p \in Plate : x[p] = y[p]
  BY DEF Differences
<1>2. (\A p \in Plate : x[p] = y[p]) => x = y
  BY DEF PlateList
<1>3. x = y => Differences(x, y) = {}
  BY DEF Differences
<1> QED
  BY <1>1, <1>2, <1>3

LEMMA NoteOf ==
  ASSUME PlateAssumption, LockInv, NEW t \in Operation, NEW what, note' = [note EXCEPT ![t] = what]
  PROVE  note'[t] = what /\ \A u \in Operation : u # t => note'[u] = note[u]
  BY Tasks DEF LockInv, NoteInv

(* What the switch is not concerned with, *)
LEMMA GateKept ==
  ASSUME GateInv, overlap => overlap', rule' = rule, asked' = asked,
         settings'.autoGate = settings.autoGate, settings'.cameraGate = settings.cameraGate,
         at'["switch"] = "queued" <=> at["switch"] = "queued", note'["switch"] = note["switch"],
         RuleWaits' <=> RuleWaits, RuleWaits => note'["setup"] = note["setup"]
  PROVE  GateInv'
  BY DEF GateInv

(* and the copy. *)
LEMMA CopyKept ==
  ASSUME CopyInv, overlap => overlap', UNCHANGED <<copy, list, wanted, todo, pending>>,
         settings'.cameraList = settings.cameraList, settings'.listSync = settings.listSync,
         at'["sync"] = at["sync"], note'["sync"] = note["sync"],
         at'["save"] = "saving" <=> at["save"] = "saving",
         \/ at'["setup"] = at["setup"] /\ note'["setup"] = note["setup"]
         \/ ~Listing /\ ~Listing'
  PROVE  CopyInv'
<1>1. Starting' <=> Starting
  BY DEF Starting
<1>2. Copied' <=> Copied
  BY DEF Copied
<1>3. ASSUME at'["setup"] = at["setup"], note'["setup"] = note["setup"] PROVE CopyInv'
  BY <1>1, <1>2, <1>3 DEF CopyInv, SettledInv, CopyingInv, ListingInv, Listing, Writing, Differences
<1>4. ASSUME ~Listing, ~Listing' PROVE CopyInv'
  <2>1. ListingInv'
    BY <1>4 DEF ListingInv, Listing
  <2> QED
    BY <1>1, <1>2, <1>4, <2>1 DEF CopyInv, SettledInv, CopyingInv, Differences
<1> QED
  BY <1>3, <1>4

LEMMA TruthSame ==
  ASSUME TruthInv, \A t \in Operation : at'[t] = at[t] /\ note'[t] = note[t],
         UNCHANGED <<copy, rule, list, settings, asked, pending, wanted, todo>>, overlap' = overlap,
         saved' = saved \/ Save
  PROVE  TruthInv'
<1>1. "switch" \in Operation /\ "save" \in Operation /\ "sync" \in Operation /\ "setup" \in Operation
  BY DEF Operation
<1>2. SavedInv'
  BY DEF TruthInv, SavedInv, Save
<1>3. OverlapInv'
  BY <1>1 DEF TruthInv, OverlapInv
<1>4. RuleWaits' <=> RuleWaits
  BY <1>1 DEF RuleWaits
<1>5. GateInv'
  BY <1>1, <1>4, GateKept DEF TruthInv
<1>6. CopyInv'
  BY <1>1, CopyKept DEF TruthInv
<1> QED
  BY <1>2, <1>3, <1>5, <1>6 DEF TruthInv

LEMMA TruthInit == ASSUME PlateAssumption PROVE Init => TruthInv
<1> SUFFICES ASSUME Init PROVE TruthInv
  OBVIOUS
<1>1. /\ \A t \in Operation : at[t] = "idle"
      /\ settings = Unset /\ saved = [list |-> list, settings |-> settings]
  BY Tasks DEF Init
<1>2. at["setup"] = "idle" /\ at["switch"] = "idle" /\ at["save"] = "idle" /\ at["sync"] = "idle"
  BY <1>1 DEF Operation
<1> QED
  BY <1>1, <1>2 DEF TruthInv, SavedInv, OverlapInv, GateInv, RuleWaits, CopyInv, SettledInv, CopyingInv,
     ListingInv, Writing, Copied, Unset

LEMMA TruthReports ==
  ASSUME PlateAssumption, LockInv, TruthInv, NEW r \in Report,
         (\E p \in Plate : Recognised(r, p)) \/ Repeated(r) \/ Decide(r) \/ Opened(r) \/ Reported(r)
  PROVE  TruthInv'
<1>1. /\ UNCHANGED <<copy, rule, list, settings, asked, pending, wanted, todo>> /\ overlap' = overlap
      /\ saved' = saved \/ Save
  BY DEF Recognised, Repeated, Decide, Opened, Reported, camera, memory, locals
<1> QED
  BY <1>1, ReportSteps, TruthSame

LEMMA Four == /\ "switch" \in Operation /\ "save" \in Operation /\ "sync" \in Operation /\ "setup" \in Operation
              /\ Operation = {"setup", "switch", "save", "sync"}
  BY DEF Operation

(* Whoever has the lock: nobody else is saving. *)
LEMMA NobodySaves ==
  ASSUME PlateAssumption, LockInv, NEW t \in Operation, Holds(t) PROVE \A u \in Operation : u # t => at[u] # "saving"
<1>1. ASSUME NEW u \in Operation, u # t, at[u] = "saving" PROVE FALSE
  <2>1. Holds(u)
    BY <1>1, Tasks, Holder DEF LockInv
  <2> QED
    BY <1>1, <2>1 DEF Holds
<1> QED
  BY <1>1

LEMMA TruthWritten ==
  ASSUME PlateAssumption, DataInv, LockInv, TruthInv, NEW t \in Operation, Written(t)
  PROVE  TruthInv'
<1>1. /\ at[t] = "queued" /\ at' = [at EXCEPT ![t] = "saving"] /\ note' = note /\ Holds(t)
      /\ UNCHANGED <<copy, rule, saved, asked, pending, wanted, todo, overlap>>
      /\ settings' = Changed(settings, note[t].changes)
      /\ list' = IF "list" \in DOMAIN note[t] THEN note[t].list ELSE list
  BY DEF Written, camera, locals
<1>2. at'[t] = "saving" /\ \A u \in Operation : u # t => at'[u] = at[u] /\ at[u] # "saving"
  BY <1>1, AtOf, NobodySaves
<1>3. note[t] \in NotesOf(t) /\ settings \in Settings /\ LineInv /\ WebInv
  BY <1>1 DEF LockInv, NoteInv, Writing, DataInv
<1>4. SavedInv'
  BY <1>2 DEF SavedInv
<1>5. OverlapInv'
  BY <1>1, <1>2, Four DEF TruthInv, OverlapInv
<1>6. CASE t = "switch"
  <2>1. PICK v \in OnOff : note[t] = SwitchNote(v)
    BY <1>3, <1>6 DEF NotesOf, SwitchNotes
  <2>2. /\ settings'.autoGate = v /\ settings'.cameraGate = settings.cameraGate
        /\ settings'.cameraList = settings.cameraList /\ settings'.listSync = settings.listSync
    BY <1>1, <1>3, <2>1, Writes
  <2>3. list' = list
    BY <1>1, <2>1 DEF SwitchNote, SetCamera
  <2>4. /\ at'["switch"] = "saving" /\ at["switch"] = "queued" /\ at'["setup"] = at["setup"]
        /\ at'["save"] = at["save"] /\ at'["sync"] = at["sync"]
    BY <1>1, <1>2, <1>6, Four
  <2>5. v = Value(asked) \/ overlap
    BY <1>6, <2>1, <2>4 DEF TruthInv, GateInv, SwitchNote, SetCamera
  <2>6. GateInv'
    BY <1>1, <2>2, <2>4, <2>5 DEF TruthInv, GateInv, OverlapInv, RuleWaits
  <2>7. CopyInv'
    BY <1>1, <2>2, <2>3, <2>4, CopyKept DEF TruthInv
  <2> QED
    BY <1>4, <1>5, <2>6, <2>7 DEF TruthInv
<1>7. CASE t = "save"
  <2>1. PICK entries \in PlateList : note[t] = SetList(entries, "done")
    BY <1>3, <1>7 DEF NotesOf, SaveNotes
  <2>2. settings' = settings
    BY <1>1, <1>3, <2>1, ListWrites
  <2>3. /\ at'["save"] = "saving" /\ at["save"] = "queued" /\ at'["setup"] = at["setup"]
        /\ at'["switch"] = at["switch"] /\ at'["sync"] = at["sync"]
    BY <1>1, <1>2, <1>7, Four
  <2>4. RuleWaits' <=> RuleWaits
    BY <1>1, <2>3 DEF RuleWaits
  <2>5. GateInv'
    BY <1>1, <2>2, <2>3, <2>4, GateKept DEF TruthInv
  <2>6. at["setup"] = "idle" \/ overlap
    BY <2>3 DEF TruthInv, OverlapInv
  <2>7. CopyInv'
    BY <1>1, <2>2, <2>3, <2>6 DEF TruthInv, CopyInv, SettledInv, CopyingInv, ListingInv, Writing, Differences
  <2> QED
    BY <1>4, <1>5, <2>5, <2>7 DEF TruthInv
<1>8. CASE t = "sync"
  <2>1. /\ at'["sync"] = "saving" /\ at["sync"] = "queued" /\ at'["setup"] = at["setup"]
        /\ at'["switch"] = at["switch"] /\ at'["save"] = at["save"]
        /\ at["setup"] # "saving" /\ at["save"] # "saving"
    BY <1>1, <1>2, <1>8, Four
  <2>2. PICK outcome \in {"running", "ok", "failed"}, then \in {"web", "done"} :
          note["sync"] = SyncNote(outcome, then) /\ (then = "web" <=> outcome = "running")
    BY <1>3, <1>8 DEF NotesOf, SyncNotes
  <2>3. /\ settings'.autoGate = settings.autoGate /\ settings'.cameraGate = settings.cameraGate
        /\ settings'.cameraList = settings.cameraList /\ settings'.listSync = outcome
    <3>1. LET new == Changed(settings, SyncNote(outcome, then).changes) IN
            /\ new.autoGate = settings.autoGate /\ new.cameraGate = settings.cameraGate
            /\ new.cameraList = settings.cameraList /\ new.listSync = outcome
      BY <1>3, SyncWrites
    <3> QED
      BY <1>1, <1>8, <2>2, <3>1
  <2>4. list' = list /\ note["sync"].then = then /\ note["sync"].changes.listSync = outcome
    BY <1>1, <1>8, <2>2 DEF SyncNote, SetCamera
  <2>5. RuleWaits' <=> RuleWaits
    BY <1>1, <2>1 DEF RuleWaits
  <2>6. GateInv'
    BY <1>1, <2>1, <2>3, <2>5, GateKept DEF TruthInv
  <2>7. ASSUME ~overlap PROVE SettledInv' /\ CopyingInv' /\ ListingInv'
    <3>1. SettledInv'
      BY <1>1, <2>1, <2>3, <2>4, <2>7 DEF TruthInv, CopyInv, CopyingInv, SettledInv, Copied
    <3>2. CopyingInv'
      BY <1>1, <2>1, <2>2, <2>3, <2>4, <2>7 DEF TruthInv, CopyInv, CopyingInv, Copied
    <3>3. ListingInv'
      BY <1>1, <2>1, <2>3, <2>4, <2>7 DEF TruthInv, CopyInv, ListingInv, Copied, Writing, Differences
    <3> QED
      BY <3>1, <3>2, <3>3
  <2>8. CopyInv'
    BY <1>1, <2>7 DEF CopyInv
  <2> QED
    BY <1>4, <1>5, <2>6, <2>8 DEF TruthInv
<1>9. CASE t = "setup"
  <2>1. /\ at'["setup"] = "saving" /\ at["setup"] = "queued" /\ at'["switch"] = at["switch"]
        /\ at'["save"] = at["save"] /\ at'["sync"] = at["sync"]
        /\ at["sync"] # "saving" /\ at["save"] # "saving"
        /\ at["sync"] \notin {"login", "rows", "apply"}
    BY <1>1, <1>2, <1>3, <1>9, Four DEF WebInv
  <2>2. ~overlap => at["switch"] = "idle" /\ at["save"] = "idle"
    BY <2>1 DEF TruthInv, OverlapInv
  <2>3. \/ \E v \in OnOff : note[t] = OpensNote(v)
        \/ note[t] \in {ShutNote, ListedNote, EndNote}
        \/ \E entries \in PlateList : note[t] = SetList(entries, "list")
    BY <1>3, <1>9 DEF NotesOf, SetupNotes
  <2>4. ~RuleWaits'
    BY <2>1 DEF RuleWaits
  <2>5. CASE \E v \in OnOff : note[t] = OpensNote(v)
    <3>1. PICK v \in OnOff : note[t] = OpensNote(v)
      BY <2>5
    <3>2. /\ settings'.autoGate = v /\ settings'.cameraGate /\ settings'.cameraList = settings.cameraList
          /\ settings'.listSync = settings.listSync
      BY <1>1, <1>3, <3>1, Writes
    <3>3. list' = list /\ note["setup"].then = "rows" /\ note["setup"].changes.autoGate = v
          /\ note["setup"].changes.cameraGate
      BY <1>1, <1>9, <3>1 DEF OpensNote, SetCamera
    <3>4. ~overlap => v = Value(rule)
      <4>1. ~overlap => note["setup"] = OpensNote(Value(rule)) \/ note["setup"] = ShutNote
        BY <2>1, <3>3 DEF TruthInv, GateInv, RuleWaits
      <4>2. note["setup"] # ShutNote
        BY <3>3 DEF ShutNote, SetCamera
      <4>3. note["setup"] = OpensNote(Value(rule)) => v = Value(rule)
        BY <3>3 DEF OpensNote, SetCamera
      <4> QED
        BY <4>1, <4>2, <4>3
    <3>5. GateInv'
      BY <1>1, <2>1, <2>2, <2>4, <3>2, <3>4 DEF GateInv
    <3>6. ~Listing /\ ~Listing'
      BY <1>1, <3>3 DEF Listing
    <3>7. CopyInv'
      BY <1>1, <2>1, <3>2, <3>3, <3>6, CopyKept DEF TruthInv
    <3> QED
      BY <1>4, <1>5, <3>5, <3>7 DEF TruthInv
  <2>6. CASE note[t] = ShutNote
    <3>1. /\ ~settings'.cameraGate /\ settings'.cameraList = settings.cameraList
          /\ settings'.listSync = settings.listSync
      BY <1>1, <1>3, <2>6, Writes
    <3>2. list' = list /\ note["setup"].then = "rows"
      BY <1>1, <1>9, <2>6 DEF ShutNote, SetCamera
    <3>3. GateInv'
      BY <1>1, <2>1, <2>2, <2>4, <3>1 DEF GateInv
    <3>4. ~Listing /\ ~Listing'
      BY <1>1, <3>2 DEF Listing
    <3>5. CopyInv'
      BY <1>1, <2>1, <3>1, <3>2, <3>4, CopyKept DEF TruthInv
    <3> QED
      BY <1>4, <1>5, <3>3, <3>5 DEF TruthInv
  <2>7. CASE note[t] = EndNote
    <3>1. /\ settings'.autoGate = settings.autoGate /\ settings'.cameraGate = settings.cameraGate
          /\ settings'.cameraList = settings.cameraList /\ settings'.listSync = settings.listSync
      BY <1>1, <1>3, <2>7, Writes
    <3>2. list' = list /\ note["setup"].then = "done"
      BY <1>1, <1>9, <2>7 DEF EndNote, SetCamera
    <3>3. ~RuleWaits /\ ~Listing /\ ~Listing'
      BY <1>1, <3>2 DEF Listing, RuleWaits
    <3>4. GateInv'
      BY <1>1, <2>1, <2>4, <3>1, <3>3, GateKept DEF TruthInv
    <3>5. CopyInv'
      BY <1>1, <2>1, <3>1, <3>2, <3>3, CopyKept DEF TruthInv
    <3> QED
      BY <1>4, <1>5, <3>4, <3>5 DEF TruthInv
  <2>8. CASE note[t] = ListedNote
    <3>1. /\ settings'.autoGate = settings.autoGate /\ settings'.cameraGate = settings.cameraGate
          /\ settings'.cameraList /\ settings'.listSync = "ok"
      BY <1>1, <1>3, <2>8, Writes
    <3>2. list' = list /\ note["setup"].then = "sync"
      BY <1>1, <1>9, <2>8 DEF ListedNote, SetCamera
    <3>3. ~RuleWaits
      BY <3>2 DEF RuleWaits
    <3>4. GateInv'
      BY <1>1, <2>1, <2>4, <3>1, <3>3, GateKept DEF TruthInv
    <3>5. CopyInv'
      BY <1>1, <2>1, <3>1, <3>2 DEF TruthInv, CopyInv, SettledInv, CopyingInv, ListingInv, Copied, Listing, Writing, Differences
    <3> QED
      BY <1>4, <1>5, <3>4, <3>5 DEF TruthInv
  <2>9. CASE \E entries \in PlateList : note[t] = SetList(entries, "list")
    <3>1. PICK entries \in PlateList : note[t] = SetList(entries, "list")
      BY <2>9
    <3>2. settings' = settings
      BY <1>1, <1>3, <3>1, ListWrites
    <3>3. list' = entries /\ note["setup"].then = "list" /\ note["setup"].list = entries
      BY <1>1, <1>9, <3>1 DEF SetList
    <3>4. ~RuleWaits
      BY <3>3 DEF RuleWaits
    <3>5. GateInv'
      BY <1>1, <2>1, <2>4, <3>2, <3>4, GateKept DEF TruthInv
    <3>6. CopyInv'
      BY <1>1, <2>1, <3>2, <3>3 DEF TruthInv, CopyInv, SettledInv, CopyingInv, ListingInv, Copied, Listing, Writing, Differences
    <3> QED
      BY <1>4, <1>5, <3>5, <3>6 DEF TruthInv
  <2> QED
    BY <2>3, <2>5, <2>6, <2>7, <2>8, <2>9
<1> QED
  BY <1>6, <1>7, <1>8, <1>9, Four

LEMMA SavedKept ==
  ASSUME SavedInv, UNCHANGED <<list, settings>>,
         \/ Save
         \/ saved' = saved /\ \A u \in Operation : at[u] = "saving" => at'[u] = "saving"
  PROVE  SavedInv'
  BY DEF SavedInv, Save

LEMMA TruthSwitch ==
  ASSUME PlateAssumption, DataInv, LockInv, TruthInv,
         (\E enabled \in BOOLEAN : SwitchGate(enabled)) \/ SwitchedGate \/ Switched
  PROVE  TruthInv'
<1>1. ASSUME NEW enabled \in BOOLEAN, SwitchGate(enabled) PROVE TruthInv'
  <2>1. PICK x \in {"web", "queued"} : at' = [at EXCEPT !["switch"] = x]
    BY <1>1 DEF SwitchGate, Waits
  <2>2. /\ at["switch"] = "idle" /\ asked' = enabled
        /\ UNCHANGED <<copy, rule, list, settings, saved, pending, wanted, todo>>
        /\ overlap' = (overlap \/ at["setup"] # "idle")
    BY <1>1 DEF SwitchGate, Overlaps, camera, memory
  <2>3. /\ at'["switch"] = x /\ at'["setup"] = at["setup"] /\ at'["save"] = at["save"] /\ at'["sync"] = at["sync"]
        /\ \A u \in Operation : at[u] = "saving" => at'[u] = "saving"
    BY <2>1, <2>2, AtOf, Four
  <2>4. /\ note'["setup"] = note["setup"] /\ note'["sync"] = note["sync"]
        /\ x = "queued" => note'["switch"] = SwitchNote(Value(enabled)) /\ ~settings.cameraGate
    <3>1. CASE settings.cameraGate
      BY <1>1, <2>3, <3>1, AtOf, Four DEF SwitchGate
    <3>2. CASE ~settings.cameraGate
      <4>1. note' = [note EXCEPT !["switch"] = SwitchNote(Value(enabled))]
        BY <1>1, <3>2 DEF SwitchGate, Waits, SwitchNote
      <4> QED
        BY <3>2, <4>1, NoteOf, Four
    <3> QED
      BY <3>1, <3>2
  <2>5. SavedInv'
    BY <2>2, <2>3, SavedKept DEF TruthInv
  <2>6. OverlapInv'
    BY <2>2, <2>3 DEF TruthInv, OverlapInv
  <2>7. RuleWaits' <=> RuleWaits
    BY <2>3, <2>4 DEF RuleWaits
  <2>8. GateInv'
    BY <2>2, <2>3, <2>4, <2>7 DEF TruthInv, GateInv
  <2>9. CopyInv'
    BY <2>2, <2>3, <2>4, CopyKept DEF TruthInv
  <2> QED
    BY <2>5, <2>6, <2>8, <2>9 DEF TruthInv
<1>2. ASSUME SwitchedGate PROVE TruthInv'
  <2>1. PICK x \in {"idle", "queued"} : at' = [at EXCEPT !["switch"] = x]
    BY <1>2 DEF SwitchedGate, Waits
  <2>2. /\ at["switch"] = "set_gate" /\ (overlap => overlap')
        /\ UNCHANGED <<copy, list, settings, saved, asked, pending, wanted, todo>>
    <3>1. overlap => overlap'
      BY <1>2, Zenon DEF SwitchedGate
    <3> QED
      BY <1>2, <3>1 DEF SwitchedGate, memory, locals
  <2>3. /\ at'["switch"] = x /\ at'["setup"] = at["setup"] /\ at'["save"] = at["save"] /\ at'["sync"] = at["sync"]
        /\ \A u \in Operation : at[u] = "saving" => at'[u] = "saving"
    BY <2>1, <2>2, AtOf, Four
  <2>4. at["setup"] \in {"idle", "web"}
    BY <2>2 DEF LockInv, WebInv
  <2>5. \/ x = "queued" /\ rule' = asked /\ note' = [note EXCEPT !["switch"] = SwitchNote(Value(asked))]
        \/ x = "idle" /\ note' = note /\ (overlap' \/ rule' = rule)
    <3>1. CASE rule' = asked /\ Waits("switch", SetCamera([autoGate |-> Value(asked)], "done"), line)
      BY <2>1, <2>3, <3>1, AtOf, Four DEF Waits, SwitchNote
    <3>2. CASE /\ overlap' = (overlap \/ rule' # rule) /\ at' = [at EXCEPT !["switch"] = "idle"]
               /\ UNCHANGED note
      BY <2>3, <3>2, AtOf, Four
    <3> QED
      BY <1>2, <3>1, <3>2 DEF SwitchedGate
  <2>6. /\ note'["setup"] = note["setup"] /\ note'["sync"] = note["sync"]
        /\ x = "queued" => note'["switch"] = SwitchNote(Value(asked))
    BY <2>5, NoteOf, Four
  <2>7. SavedInv'
    BY <2>2, <2>3, SavedKept DEF TruthInv
  <2>8. OverlapInv'
    BY <2>2, <2>3 DEF TruthInv, OverlapInv
  <2>9. ~RuleWaits /\ ~RuleWaits'
    BY <2>3, <2>4 DEF RuleWaits
  <2>10. GateInv'
    BY <2>2, <2>3, <2>5, <2>6, <2>9 DEF TruthInv, GateInv
  <2>11. CopyInv'
    BY <2>2, <2>3, <2>6, CopyKept DEF TruthInv
  <2> QED
    BY <2>7, <2>8, <2>10, <2>11 DEF TruthInv
<1>3. ASSUME Switched PROVE TruthInv'
  <2>1. /\ at["switch"] = "saving" /\ at' = [at EXCEPT !["switch"] = "idle"] /\ note' = note /\ Save
        /\ UNCHANGED <<copy, rule, list, settings, asked, pending, wanted, todo, overlap>>
    BY <1>3 DEF Switched, camera, memory, locals
  <2>2. at'["switch"] = "idle" /\ at'["setup"] = at["setup"] /\ at'["save"] = at["save"] /\ at'["sync"] = at["sync"]
    BY <2>1, AtOf, Four
  <2>3. SavedInv'
    BY <2>1, SavedKept DEF TruthInv
  <2>4. OverlapInv'
    BY <2>1, <2>2 DEF TruthInv, OverlapInv
  <2>5. RuleWaits' <=> RuleWaits
    BY <2>1, <2>2 DEF RuleWaits
  <2>6. GateInv'
    BY <2>1, <2>2, <2>5, GateKept DEF TruthInv
  <2>7. CopyInv'
    BY <2>1, <2>2, CopyKept DEF TruthInv
  <2> QED
    BY <2>3, <2>4, <2>6, <2>7 DEF TruthInv
<1> QED
  BY <1>1, <1>2, <1>3

LEMMA RequestsDiffer == (todo = {} => Requests = {}) /\ \A ps \in Requests : ps \subseteq todo
  BY DEF Requests, Removals

(* A request to the camera brings it nearer to the list it copies, and     *)
(* there is none while the camera has the platform's list.                 *)
LEMMA Applies ==
  ASSUME DataInv, LockInv, TruthInv, ~overlap, at["sync"] = "apply", NEW ps \in Requests, Apply(ps)
  PROVE  /\ Differences(wanted, copy') = todo \ ps
         /\ settings.cameraList /\ settings.listSync = "ok" => at["save"] = "saving"
<1>1. at["setup"] \in {"idle", "web"} /\ ~Listing /\ ~Starting
  BY DEF LockInv, WebInv, Listing, Writing, Starting
<1>2. /\ copy' = [p \in Plate |-> IF p \in ps THEN wanted[p] ELSE copy[p]]
      /\ todo = Differences(wanted, copy) /\ (wanted = list \/ at["save"] = "saving")
  BY DEF Apply, TruthInv, CopyInv, CopyingInv
<1>3. Differences(wanted, copy') = todo \ ps
  BY <1>2 DEF Differences
<1>4. ASSUME copy = list, wanted = list PROVE FALSE
  <2>1. todo = {}
    BY <1>2, <1>4 DEF Differences
  <2> QED
    BY <2>1, RequestsDiffer
<1> QED
  BY <1>1, <1>2, <1>3, <1>4 DEF TruthInv, CopyInv, SettledInv

LEMMA TruthSync ==
  ASSUME PlateAssumption, DataInv, LockInv, TruthInv,
         \/ \E t \in Operation : Visit(t)
         \/ SyncStarts \/ SyncSaved \/ SyncReads \/ SyncCompares \/ SyncApplies \/ SyncEnds
  PROVE  TruthInv'
<1>0. ASSUME NEW x, at' = [at EXCEPT !["sync"] = x], saved' = saved, at["sync"] # "saving",
             note' = note \/ \E what : note' = [note EXCEPT !["sync"] = what],
             UNCHANGED <<rule, list, settings, asked, overlap>>, CopyInv'
      PROVE  TruthInv'
  <2>1. /\ at'["switch"] = at["switch"] /\ at'["setup"] = at["setup"] /\ at'["save"] = at["save"]
        /\ \A u \in Operation : at[u] = "saving" => at'[u] = "saving"
    BY <1>0, AtOf, Four
  <2>2. note'["switch"] = note["switch"] /\ note'["setup"] = note["setup"]
    BY <1>0, NoteOf, Four
  <2>3. SavedInv'
    BY <1>0, <2>1, SavedKept DEF TruthInv
  <2>4. OverlapInv'
    BY <1>0, <2>1 DEF TruthInv, OverlapInv
  <2>5. RuleWaits' <=> RuleWaits
    BY <2>1, <2>2 DEF RuleWaits
  <2>6. GateInv'
    BY <1>0, <2>1, <2>2, <2>5, GateKept DEF TruthInv
  <2> QED
    BY <1>0, <2>3, <2>4, <2>6 DEF TruthInv
<1>1. ASSUME NEW t \in Operation, Visit(t) PROVE TruthInv'
  <2>1. /\ at[t] = "web" /\ note' = note /\ saved' = saved
        /\ at' = [at EXCEPT ![t] = IF t = "switch" THEN "set_gate" ELSE "login"]
        /\ UNCHANGED <<copy, rule, list, settings, asked, pending, wanted, todo, overlap>>
    BY <1>1 DEF Visit, camera, memory, locals
  <2>2. /\ at'[t] = IF t = "switch" THEN "set_gate" ELSE "login"
        /\ \A u \in Operation : u # t => at'[u] = at[u]
    BY <2>1, AtOf
  <2>3. SavedInv'
    BY <2>1, <2>2, SavedKept DEF TruthInv
  <2>4. \A u \in Operation : (at'[u] = "queued" <=> at[u] = "queued") /\ (at'[u] = "saving" <=> at[u] = "saving")
                             /\ (at'[u] = "idle" <=> at[u] = "idle")
    BY <2>1, <2>2
  <2>5. OverlapInv'
    BY <2>1, <2>4, Four DEF TruthInv, OverlapInv
  <2>6. RuleWaits' <=> RuleWaits
    BY <2>1, <2>4, Four DEF RuleWaits
  <2>7. GateInv'
    BY <2>1, <2>4, <2>6, GateKept, Four DEF TruthInv
  <2>8. CASE t = "sync"
    <3>1. /\ at["sync"] = "web" /\ at'["sync"] = "login" /\ at'["setup"] = at["setup"]
          /\ at'["save"] = at["save"]
      BY <2>1, <2>2, <2>8, Four
    <3>2. CopyInv'
      BY <2>1, <3>1 DEF TruthInv, CopyInv, SettledInv, CopyingInv, ListingInv, Starting, Copied, Listing, Writing, Differences
    <3> QED
      BY <2>3, <2>5, <2>7, <3>2 DEF TruthInv
  <2>9. CASE t # "sync"
    <3>1. at'["sync"] = at["sync"] /\ (at'["setup"] = at["setup"] \/ (at["setup"] = "web" /\ at'["setup"] = "login"))
      BY <2>1, <2>2, <2>9, Four
    <3>2. at'["setup"] = at["setup"] \/ (~Listing /\ ~Listing')
      BY <3>1 DEF Listing, Writing
    <3>3. CopyInv'
      BY <2>1, <2>4, <3>1, <3>2, CopyKept, Four DEF TruthInv
    <3> QED
      BY <2>3, <2>5, <2>7, <3>3 DEF TruthInv
  <2> QED
    BY <2>8, <2>9
<1>2. ASSUME SyncStarts PROVE TruthInv'
  <2>1. /\ at["sync"] = "start" /\ at' = [at EXCEPT !["sync"] = "queued"] /\ saved' = saved
        /\ note' = [note EXCEPT !["sync"] = SyncNote("running", "web")]
        /\ UNCHANGED <<copy, rule, list, settings, asked, pending, wanted, todo, overlap>>
    BY <1>2 DEF SyncStarts, Waits, SyncNote, camera, memory, locals
  <2>2. /\ at'["sync"] = "queued" /\ at'["setup"] = at["setup"] /\ at'["save"] = at["save"]
        /\ note'["sync"] = SyncNote("running", "web") /\ note'["setup"] = note["setup"]
    BY <2>1, AtOf, NoteOf, Four
  <2>3. note'["sync"].then = "web" /\ note'["sync"].changes.listSync = "running"
    BY <2>2 DEF SyncNote, SetCamera
  <2>4. CopyInv'
    BY <2>1, <2>2, <2>3 DEF TruthInv, CopyInv, SettledInv, CopyingInv, ListingInv, Starting, Copied, Listing, Writing, Differences
  <2> QED
    BY <1>0, <2>1, <2>4
<1>3. ASSUME SyncSaved PROVE TruthInv'
  <2>1. /\ at["sync"] = "saving" /\ note' = note /\ Save
        /\ at' = [at EXCEPT !["sync"] = IF note["sync"].then = "web" THEN "web" ELSE "idle"]
        /\ UNCHANGED <<copy, rule, list, settings, asked, pending, wanted, todo, overlap>>
    BY <1>3 DEF SyncSaved, camera, memory, locals
  <2>2. /\ at'["sync"] \in {"web", "idle"} /\ at'["setup"] = at["setup"] /\ at'["save"] = at["save"]
        /\ at'["switch"] = at["switch"]
    BY <2>1, AtOf, Four
  <2>3. SavedInv'
    BY <2>1, SavedKept DEF TruthInv
  <2>4. OverlapInv'
    BY <2>1, <2>2 DEF TruthInv, OverlapInv
  <2>5. RuleWaits' <=> RuleWaits
    BY <2>1, <2>2 DEF RuleWaits
  <2>6. GateInv'
    BY <2>1, <2>2, <2>5, GateKept DEF TruthInv
  <2>7. CopyInv'
    BY <2>1, <2>2 DEF TruthInv, CopyInv, SettledInv, CopyingInv, ListingInv, Starting, Copied, Listing, Writing, Differences
  <2> QED
    BY <2>3, <2>4, <2>6, <2>7 DEF TruthInv
<1>4. ASSUME SyncReads PROVE TruthInv'
  <2>1. /\ at["sync"] = "login" /\ at' = [at EXCEPT !["sync"] = "rows"] /\ saved' = saved /\ note' = note
        /\ wanted' = list /\ UNCHANGED <<copy, rule, list, settings, asked, pending, todo, overlap>>
    BY <1>4 DEF SyncReads, camera, memory
  <2>2. at'["sync"] = "rows" /\ at'["setup"] = at["setup"] /\ at'["save"] = at["save"]
    BY <2>1, AtOf, Four
  <2>3. CopyInv'
    BY <2>1, <2>2 DEF TruthInv, CopyInv, SettledInv, CopyingInv, ListingInv, Starting, Copied, Listing, Writing, Differences
  <2> QED
    BY <1>0, <2>1, <2>3
<1>5. ASSUME SyncCompares PROVE TruthInv'
  <2>1. /\ at["sync"] = "rows" /\ at' = [at EXCEPT !["sync"] = "apply"] /\ saved' = saved /\ note' = note
        /\ todo' = Differences(wanted, copy) /\ UNCHANGED <<copy, rule, list, settings, asked, pending, wanted, overlap>>
    BY <1>5 DEF SyncCompares, camera, memory
  <2>2. at'["sync"] = "apply" /\ at'["setup"] = at["setup"] /\ at'["save"] = at["save"]
    BY <2>1, AtOf, Four
  <2>3. CopyInv'
    BY <2>1, <2>2 DEF TruthInv, CopyInv, SettledInv, CopyingInv, ListingInv, Starting, Copied, Listing, Writing, Differences
  <2> QED
    BY <1>0, <2>1, <2>3
<1>6. ASSUME SyncApplies PROVE TruthInv'
  <2>1. /\ at["sync"] = "apply" /\ at' = at /\ saved' = saved /\ note' = note
        /\ UNCHANGED <<rule, list, settings, asked, pending, wanted, overlap>>
    BY <1>6 DEF SyncApplies, memory
  <2>2. PICK ps \in Requests : Apply(ps) /\ todo' = todo \ ps
    BY <1>6 DEF SyncApplies
  <2>3. at["setup"] \in {"idle", "web"}
    BY <2>1 DEF LockInv, WebInv
  <2>4. ASSUME ~overlap PROVE SettledInv' /\ CopyingInv' /\ ListingInv'
    <3>1. /\ Differences(wanted, copy') = todo \ ps
          /\ settings.cameraList /\ settings.listSync = "ok" => at["save"] = "saving"
      BY <2>1, <2>2, <2>4, Applies
    <3>2. Differences(wanted', copy') = todo'
      BY <2>1, <2>2, <3>1
    <3>3. SettledInv'
      BY <2>1, <3>1 DEF SettledInv
    <3>4. CopyingInv'
      BY <2>1, <2>4, <3>2 DEF TruthInv, CopyInv, CopyingInv, Copied
    <3>5. ListingInv'
      BY <2>1, <2>3 DEF ListingInv, Writing
    <3> QED
      BY <3>3, <3>4, <3>5
  <2>5. CopyInv'
    BY <2>1, <2>4 DEF CopyInv
  <2>6. SavedInv' /\ OverlapInv'
    BY <2>1 DEF TruthInv, SavedInv, OverlapInv
  <2>7. RuleWaits' <=> RuleWaits
    BY <2>1 DEF RuleWaits
  <2>8. GateInv'
    BY <2>1, <2>7, GateKept DEF TruthInv
  <2> QED
    BY <2>5, <2>6, <2>8 DEF TruthInv
<1>7. ASSUME SyncEnds PROVE TruthInv'
  <2>1. /\ at["sync"] \in {"login", "rows", "apply"} /\ saved' = saved
        /\ at' = [at EXCEPT !["sync"] = "queued"]
        /\ UNCHANGED <<rule, list, settings, asked, pending, wanted, todo, overlap>>
    BY <1>7 DEF SyncEnds, Waits, memory, locals
  <2>2. PICK outcome \in {"ok", "failed"} :
          /\ note' = [note EXCEPT !["sync"] = SyncNote(outcome, "done")]
          /\ outcome = "ok" => at["sync"] = "apply" /\ todo = {} /\ copy' = copy
          /\ outcome = "failed" => copy' = copy \/ (at["sync"] = "apply" /\ \E ps \in Requests : Apply(ps))
    <3>1. CASE /\ at["sync"] = "apply" /\ todo = {} /\ UNCHANGED copy
               /\ Waits("sync", SetCamera([listSync |-> "ok"], "done"), line)
      BY <3>1 DEF Waits, SyncNote
    <3>2. CASE /\ UNCHANGED copy \/ (at["sync"] = "apply" /\ \E ps \in Requests : Apply(ps))
               /\ Waits("sync", SetCamera([listSync |-> "failed"], "done"), line)
      BY <3>2 DEF Waits, SyncNote
    <3> QED
      BY <1>7, <3>1, <3>2 DEF SyncEnds
  <2>3. /\ at'["sync"] = "queued" /\ at'["setup"] = at["setup"] /\ at'["save"] = at["save"]
        /\ note'["sync"] = SyncNote(outcome, "done") /\ note'["setup"] = note["setup"]
        /\ at["setup"] \in {"idle", "web"}
    BY <2>1, <2>2, AtOf, NoteOf, Four DEF LockInv, WebInv
  <2>4. note'["sync"].then = "done" /\ note'["sync"].changes.listSync = outcome
    BY <2>3 DEF SyncNote, SetCamera
  <2>5. ASSUME ~overlap PROVE SettledInv' /\ CopyingInv' /\ ListingInv'
    <3>1. settings.cameraList /\ settings.listSync = "ok" => (copy' = copy /\ copy = list) \/ at["save"] = "saving"
      <4>1. settings.cameraList /\ settings.listSync = "ok" => copy = list \/ at["save"] = "saving"
        BY <2>1, <2>3, <2>5 DEF TruthInv, CopyInv, SettledInv, Starting, Listing, Writing
      <4>2. copy' = copy \/ (settings.cameraList /\ settings.listSync = "ok" => at["save"] = "saving")
        BY <2>2, <2>5, Applies
      <4> QED
        BY <4>1, <4>2
    <3>2. outcome = "ok" => copy' = list \/ at["save"] = "saving"
      <4>1. ASSUME outcome = "ok" PROVE copy' = list \/ at["save"] = "saving"
        <5>1. Differences(wanted, copy) = {} /\ copy' = copy /\ (wanted = list \/ at["save"] = "saving")
          BY <2>2, <2>5, <4>1 DEF TruthInv, CopyInv, CopyingInv
        <5>2. wanted = copy
          BY <5>1, NoDifference DEF DataInv
        <5> QED
          BY <5>1, <5>2
      <4> QED
        BY <4>1
    <3>3. SettledInv'
      BY <2>1, <2>3, <3>1 DEF SettledInv
    <3>4. CopyingInv'
      BY <2>1, <2>3, <2>4, <2>5, <3>2 DEF TruthInv, CopyInv, CopyingInv, Copied
    <3>5. ListingInv'
      BY <2>3 DEF ListingInv, Writing
    <3> QED
      BY <3>3, <3>4, <3>5
  <2>6. CopyInv'
    BY <2>1, <2>5 DEF CopyInv
  <2> QED
    BY <1>0, <2>1, <2>2, <2>6
<1> QED
  BY <1>1, <1>2, <1>3, <1>4, <1>5, <1>6, <1>7

LEMMA TruthSave ==
  ASSUME PlateAssumption, DataInv, LockInv, TruthInv, (\E entries \in Lists : SaveList(entries)) \/ ListSaved
  PROVE  TruthInv'
<1>1. ASSUME NEW entries \in Lists, SaveList(entries) PROVE TruthInv'
  <2>1. /\ at["save"] = "idle" /\ at' = [at EXCEPT !["save"] = "queued"] /\ saved' = saved
        /\ note' = [note EXCEPT !["save"] = SetList(entries, "done")]
        /\ overlap' = (overlap \/ at["setup"] # "idle")
        /\ UNCHANGED <<copy, rule, list, settings, asked, pending, wanted, todo>>
    BY <1>1 DEF SaveList, Waits, Overlaps, camera, memory, locals
  <2>2. /\ at'["save"] = "queued" /\ at'["setup"] = at["setup"] /\ at'["switch"] = at["switch"]
        /\ at'["sync"] = at["sync"] /\ \A u \in Operation : at[u] = "saving" => at'[u] = "saving"
    BY <2>1, AtOf, Four
  <2>3. note'["switch"] = note["switch"] /\ note'["setup"] = note["setup"] /\ note'["sync"] = note["sync"]
    BY <2>1, NoteOf, Four
  <2>4. SavedInv'
    BY <2>1, <2>2, SavedKept DEF TruthInv
  <2>5. OverlapInv'
    BY <2>1, <2>2 DEF TruthInv, OverlapInv
  <2>6. RuleWaits' <=> RuleWaits
    BY <2>2, <2>3 DEF RuleWaits
  <2>7. overlap => overlap'
    BY <2>1
  <2>8. GateInv'
    BY <2>1, <2>2, <2>3, <2>6, <2>7, GateKept DEF TruthInv
  <2>9. CopyInv'
    BY <2>1, <2>2, <2>3, <2>7, CopyKept DEF TruthInv
  <2> QED
    BY <2>4, <2>5, <2>8, <2>9 DEF TruthInv
<1>2. ASSUME ListSaved PROVE TruthInv'
  <2>1. /\ at["save"] = "saving" /\ Save /\ note' = note
        /\ UNCHANGED <<rule, list, settings, asked, pending, wanted, todo, overlap>>
    BY <1>2 DEF ListSaved, memory, locals
  <2>2. at'["save"] = "idle" /\ at'["setup"] = at["setup"] /\ at'["switch"] = at["switch"]
    <3>1. CASE settings.cameraList
      BY <1>2, <3>1, Tasks, Four DEF ListSaved, SyncLater, LockInv, StageInv
    <3>2. CASE ~settings.cameraList
      BY <1>2, <3>2, AtOf, Four DEF ListSaved
    <3> QED
      BY <3>1, <3>2
  <2>3. \/ settings.cameraList /\ at'["sync"] = "start"
        \/ ~settings.cameraList /\ at'["sync"] = at["sync"]
    <3>1. CASE settings.cameraList
      BY <1>2, <3>1, Tasks, Four DEF ListSaved, SyncLater, LockInv, StageInv
    <3>2. CASE ~settings.cameraList
      BY <1>2, <3>2, AtOf, Four DEF ListSaved
    <3> QED
      BY <3>1, <3>2
  <2>4. SavedInv'
    BY <2>1, SavedKept DEF TruthInv
  <2>5. OverlapInv'
    BY <2>1, <2>2 DEF TruthInv, OverlapInv
  <2>6. RuleWaits' <=> RuleWaits
    BY <2>1, <2>2 DEF RuleWaits
  <2>7. GateInv'
    BY <2>1, <2>2, <2>6, GateKept DEF TruthInv
  <2>8. ASSUME ~overlap PROVE SettledInv' /\ CopyingInv' /\ ListingInv'
    <3>1. at["setup"] = "idle"
      BY <2>1, <2>8 DEF TruthInv, OverlapInv
    <3>2. ListingInv'
      BY <2>2, <3>1 DEF ListingInv, Writing
    <3>3. SettledInv'
      BY <2>1, <2>3 DEF SettledInv, Starting
    <3>4. ~settings.cameraList => at["sync"] = "idle"
      BY <2>8 DEF TruthInv, CopyInv, CopyingInv
    <3>5. CopyingInv'
      BY <2>1, <2>3, <3>4 DEF CopyingInv, Copied
    <3> QED
      BY <3>2, <3>3, <3>5
  <2>9. CopyInv'
    BY <2>1, <2>8 DEF CopyInv
  <2> QED
    BY <2>4, <2>5, <2>7, <2>9 DEF TruthInv
<1> QED
  BY <1>1, <1>2

LEMMA TruthSetup ==
  ASSUME PlateAssumption, DataInv, LockInv, TruthInv, Setup \/ SetupLogin \/ SetupGate \/ SetupRows
  PROVE  TruthInv'
<1>0. ASSUME NEW x, at' = [at EXCEPT !["setup"] = x], at["setup"] \notin {"idle", "saving"}, saved' = saved,
             UNCHANGED <<list, settings, overlap>>
      PROVE  /\ SavedInv' /\ OverlapInv' /\ at'["setup"] = x /\ at'["switch"] = at["switch"]
             /\ at'["save"] = at["save"] /\ at'["sync"] = at["sync"]
             /\ ~overlap => at["switch"] = "idle" /\ at["save"] = "idle"
  <2>1. /\ at'["setup"] = x /\ at'["switch"] = at["switch"] /\ at'["save"] = at["save"]
        /\ at'["sync"] = at["sync"] /\ \A u \in Operation : at[u] = "saving" => at'[u] = "saving"
    BY <1>0, AtOf, Four
  <2>2. SavedInv'
    BY <1>0, <2>1, SavedKept DEF TruthInv
  <2> QED
    BY <1>0, <2>1, <2>2 DEF TruthInv, OverlapInv
<1>1. ASSUME Setup PROVE TruthInv'
  <2>1. /\ at["setup"] = "idle" /\ at' = [at EXCEPT !["setup"] = "web"] /\ note' = note /\ saved' = saved
        /\ overlap' = (overlap \/ at["save"] # "idle" \/ at["switch"] # "idle")
        /\ UNCHANGED <<copy, rule, list, settings, asked, pending, wanted, todo>>
    BY <1>1 DEF Setup, Overlaps, camera, memory, locals
  <2>2. /\ at'["setup"] = "web" /\ at'["switch"] = at["switch"] /\ at'["save"] = at["save"]
        /\ at'["sync"] = at["sync"] /\ \A u \in Operation : at[u] = "saving" => at'[u] = "saving"
    BY <2>1, AtOf, Four
  <2>3. (overlap => overlap') /\ ~RuleWaits /\ ~RuleWaits' /\ ~Listing /\ ~Listing'
    BY <2>1, <2>2 DEF RuleWaits, Listing, Writing
  <2>4. SavedInv'
    BY <2>1, <2>2, SavedKept DEF TruthInv
  <2>5. OverlapInv'
    BY <2>1, <2>2 DEF OverlapInv
  <2>6. GateInv'
    BY <2>1, <2>2, <2>3, GateKept DEF TruthInv
  <2>7. CopyInv'
    BY <2>1, <2>2, <2>3, CopyKept DEF TruthInv
  <2> QED
    BY <2>4, <2>5, <2>6, <2>7 DEF TruthInv
<1>2. ASSUME SetupLogin PROVE TruthInv'
  <2>1. PICK x \in {"set_gate", "idle"} : at' = [at EXCEPT !["setup"] = x]
    BY <1>2 DEF SetupLogin
  <2>2. /\ at["setup"] = "login" /\ note' = note /\ saved' = saved
        /\ UNCHANGED <<copy, rule, list, settings, asked, pending, wanted, todo, overlap>>
    BY <1>2 DEF SetupLogin, camera, memory
  <2>3. /\ SavedInv' /\ OverlapInv' /\ at'["setup"] = x /\ at'["switch"] = at["switch"]
        /\ at'["save"] = at["save"] /\ at'["sync"] = at["sync"]
    BY <1>0, <2>1, <2>2
  <2>4. ~RuleWaits /\ ~RuleWaits' /\ ~Listing /\ ~Listing'
    BY <2>2, <2>3 DEF RuleWaits, Listing, Writing
  <2>5. GateInv'
    BY <2>2, <2>3, <2>4, GateKept DEF TruthInv
  <2>6. CopyInv'
    BY <2>2, <2>3, <2>4, CopyKept DEF TruthInv
  <2> QED
    BY <2>3, <2>5, <2>6 DEF TruthInv
<1>3. ASSUME SetupGate PROVE TruthInv'
  <2>1. PICK what \in {OpensNote(Value(auto)), ShutNote} :
          /\ note' = [note EXCEPT !["setup"] = what] /\ at' = [at EXCEPT !["setup"] = "queued"]
          /\ what = OpensNote(Value(auto)) => rule' = auto
    <3>1. CASE /\ rule' = auto
               /\ Waits("setup", SetCamera([autoGate |-> Value(auto), cameraGate |-> TRUE], "rows"), line)
      BY <3>1 DEF Waits, OpensNote
    <3>2. CASE Waits("setup", SetCamera([cameraGate |-> FALSE], "rows"), line)
      <4>1. ShutNote # OpensNote(Value(auto))
        <5>1. ~ShutNote.changes.cameraGate /\ OpensNote(Value(auto)).changes.cameraGate
          BY DEF ShutNote, OpensNote, SetCamera
        <5> QED
          BY <5>1
      <4> QED
        BY <3>2, <4>1 DEF Waits, ShutNote
    <3> QED
      BY <1>3, <3>1, <3>2 DEF SetupGate
  <2>2. /\ at["setup"] = "set_gate" /\ saved' = saved
        /\ UNCHANGED <<copy, list, settings, asked, pending, wanted, todo, overlap>>
    BY <1>3 DEF SetupGate, memory, locals
  <2>3. /\ SavedInv' /\ OverlapInv' /\ at'["setup"] = "queued" /\ at'["switch"] = at["switch"]
        /\ at'["save"] = at["save"] /\ at'["sync"] = at["sync"]
        /\ ~overlap => at["switch"] = "idle" /\ at["save"] = "idle"
    BY <1>0, <2>1, <2>2
  <2>4. /\ note'["setup"] = what /\ note'["switch"] = note["switch"] /\ note'["sync"] = note["sync"]
        /\ what.then = "rows"
    <3>1. what.then = "rows"
      BY DEF OpensNote, ShutNote, SetCamera
    <3> QED
      BY <2>1, <3>1, NoteOf, Four
  <2>5. RuleWaits' /\ ~Listing /\ ~Listing'
    BY <2>2, <2>3, <2>4 DEF RuleWaits, Listing, Writing
  <2>6. GateInv'
    BY <2>1, <2>2, <2>3, <2>4, <2>5 DEF GateInv
  <2>7. CopyInv'
    BY <2>2, <2>3, <2>4, <2>5, CopyKept DEF TruthInv
  <2> QED
    BY <2>3, <2>6, <2>7 DEF TruthInv
<1>4. ASSUME SetupRows PROVE TruthInv'
  <2> DEFINE merged == Merge(list, copy)
  <2>1. PICK what :
          /\ note' = [note EXCEPT !["setup"] = what] /\ at' = [at EXCEPT !["setup"] = "queued"]
          /\ \/ /\ pending' = (Differences(merged, copy) # {})
                /\ \/ merged # list /\ what = SetList(merged, "list")
                   \/ merged = list /\ what = ListedNote
             \/ pending' = pending /\ what = EndNote
    <3>1. CASE Unanswered /\ UNCHANGED pending /\ SetupEnds(line)
      BY <3>1 DEF SetupEnds, Waits, EndNote
    <3>2. CASE /\ pending' = (Differences(merged, copy) # {})
               /\ Waits("setup", IF merged # list THEN SetList(merged, "list")
                                 ELSE SetCamera([cameraList |-> TRUE, listSync |-> "ok"], "sync"), line)
      <4>1. CASE merged # list
        BY <3>2, <4>1 DEF Waits
      <4>2. CASE merged = list
        BY <3>2, <4>2 DEF Waits, ListedNote
      <4> QED
        BY <4>1, <4>2
    <3> QED
      BY <1>4, <3>1, <3>2 DEF SetupRows
  <2>2. /\ at["setup"] = "rows" /\ saved' = saved
        /\ UNCHANGED <<copy, rule, list, settings, asked, wanted, todo, overlap>>
    BY <1>4 DEF SetupRows, camera, memory
  <2>3. /\ SavedInv' /\ OverlapInv' /\ at'["setup"] = "queued" /\ at'["switch"] = at["switch"]
        /\ at'["save"] = at["save"] /\ at'["sync"] = at["sync"]
        /\ ~overlap => at["switch"] = "idle" /\ at["save"] = "idle"
    BY <1>0, <2>1, <2>2
  <2>4. note'["setup"] = what /\ note'["switch"] = note["switch"] /\ note'["sync"] = note["sync"]
    BY <2>1, NoteOf, Four
  <2>5. /\ what = SetList(merged, "list") => what.then = "list" /\ what.list = merged
        /\ what = ListedNote => what.then = "sync"
        /\ what = EndNote => what.then = "done"
    BY DEF SetList, ListedNote, EndNote, SetCamera
  <2>6. ~RuleWaits /\ ~RuleWaits' /\ ~Listing
    BY <2>1, <2>2, <2>3, <2>4, <2>5 DEF RuleWaits, Listing, Writing
  <2>7. GateInv'
    BY <2>2, <2>3, <2>4, <2>6, GateKept DEF TruthInv
  <2>8. copy = list => merged = list
    BY DEF Merge, DataInv, PlateList
  <2> HIDE DEF merged
  <2>9. Starting' <=> Starting
    BY <2>3, <2>4 DEF Starting
  <2>10. Copied' <=> Copied
    BY <2>3, <2>4 DEF Copied
  <2>11. ASSUME ~overlap PROVE SettledInv' /\ CopyingInv' /\ ListingInv'
    <3>1. SettledInv'
      BY <2>2, <2>3, <2>6, <2>9, <2>11 DEF TruthInv, CopyInv, SettledInv
    <3>2. CopyingInv'
      <4>1. at["sync"] \notin {"rows", "apply", "login"}
        BY <2>2 DEF LockInv, WebInv
      <4> QED
        BY <2>2, <2>3, <2>4, <2>10, <2>11, <4>1 DEF TruthInv, CopyInv, CopyingInv
    <3>3. Copied => copy = list
      BY <2>3, <2>11 DEF TruthInv, CopyInv, CopyingInv
    <3>4. CASE merged # list /\ what = SetList(merged, "list") /\ pending' = (Differences(merged, copy) # {})
      <4>1. ~Copied'
        BY <2>8, <2>10, <3>3, <3>4
      <4>2. Differences(note'["setup"].list, copy') = Differences(merged, copy) /\ note'["setup"].then = "list"
        BY <2>2, <2>4, <2>5, <3>4
      <4>3. ListingInv'
        BY <2>3, <3>4, <4>1, <4>2 DEF ListingInv
      <4> QED
        BY <3>1, <3>2, <4>3
    <3>5. CASE merged = list /\ what = ListedNote /\ pending' = (Differences(merged, copy) # {})
      <4>1. Differences(list', copy') = Differences(merged, copy) /\ note'["setup"].then = "sync"
        BY <2>2, <2>4, <2>5, <3>5
      <4>2. ListingInv'
        BY <2>3, <3>5, <4>1 DEF ListingInv
      <4> QED
        BY <3>1, <3>2, <4>2
    <3>6. CASE what = EndNote
      <4>1. ListingInv'
        BY <2>4, <2>5, <3>6 DEF ListingInv
      <4> QED
        BY <3>1, <3>2, <4>1
    <3> QED
      BY <2>1, <3>4, <3>5, <3>6
  <2>12. CopyInv'
    BY <2>2, <2>11 DEF CopyInv
  <2> QED
    BY <2>3, <2>7, <2>12 DEF TruthInv
<1> QED
  BY <1>1, <1>2, <1>3, <1>4

LEMMA TruthGoesOn ==
  ASSUME PlateAssumption, DataInv, LockInv, TruthInv, SetupGoesOn PROVE TruthInv'
<1>1. /\ at["setup"] = "saving" /\ Save
      /\ UNCHANGED <<rule, list, settings, asked, pending, wanted, todo, overlap>>
  BY DEF SetupGoesOn, memory, locals
<1>2. /\ at["sync"] \notin {"login", "rows", "apply"} /\ note["setup"] \in SetupNotes
      /\ ~overlap => at["switch"] = "idle" /\ at["save"] = "idle"
  BY <1>1, Four DEF LockInv, WebInv, NoteInv, Writing, NotesOf, TruthInv, OverlapInv
<1>3. note["setup"].then \in {"rows", "list", "sync", "done"}
  BY <1>2 DEF SetupNotes, OpensNote, ShutNote, ListedNote, EndNote, SetList, SetCamera
<1>4. SavedInv' /\ ~RuleWaits
  BY <1>1, SavedKept DEF TruthInv, RuleWaits
<1>5. CASE note["setup"].then \in {"rows", "done"}
  <2>1. PICK x \in {"rows", "idle"} : at' = [at EXCEPT !["setup"] = x]
    BY <1>5 DEF SetupGoesOn
  <2>2. note' = note /\ copy' = copy
    BY <1>5 DEF SetupGoesOn
  <2>3. at'["setup"] = x /\ at'["switch"] = at["switch"] /\ at'["save"] = at["save"] /\ at'["sync"] = at["sync"]
    BY <2>1, AtOf, Four
  <2>4. ~RuleWaits' /\ ~Listing /\ ~Listing'
    BY <1>5, <2>2, <2>3 DEF RuleWaits, Listing, Writing
  <2>5. OverlapInv'
    BY <1>1, <2>3 DEF TruthInv, OverlapInv
  <2>6. GateInv'
    BY <1>1, <1>4, <2>2, <2>3, <2>4, GateKept DEF TruthInv
  <2>7. CopyInv'
    BY <1>1, <2>2, <2>3, <2>4, CopyKept DEF TruthInv
  <2> QED
    BY <1>4, <2>5, <2>6, <2>7 DEF TruthInv
<1>6. CASE note["setup"].then = "list"
  <2>1. /\ at' = [at EXCEPT !["setup"] = "queued"] /\ note' = [note EXCEPT !["setup"] = ListedNote] /\ copy' = copy
    BY <1>6 DEF SetupGoesOn, Waits, ListedNote
  <2>2. /\ at'["setup"] = "queued" /\ at'["switch"] = at["switch"] /\ at'["save"] = at["save"]
        /\ at'["sync"] = at["sync"] /\ note'["setup"] = ListedNote /\ note'["switch"] = note["switch"]
        /\ note'["sync"] = note["sync"]
    BY <2>1, AtOf, NoteOf, Four
  <2>3. note'["setup"].then = "sync"
    BY <2>2 DEF ListedNote, SetCamera
  <2>4. ~RuleWaits' /\ Listing'
    BY <2>2, <2>3 DEF RuleWaits, Listing, Writing
  <2>5. OverlapInv'
    BY <1>1, <2>2 DEF TruthInv, OverlapInv
  <2>6. GateInv'
    BY <1>1, <1>4, <2>2, <2>4, GateKept DEF TruthInv
  <2>7. Copied' <=> Copied
    BY <2>2 DEF Copied
  <2>8. ASSUME ~overlap PROVE SettledInv' /\ CopyingInv' /\ ListingInv'
    <3>1. SettledInv'
      BY <2>4 DEF SettledInv
    <3>2. CopyingInv'
      BY <1>1, <1>2, <2>1, <2>2, <2>7, <2>8 DEF TruthInv, CopyInv, CopyingInv
    <3>3. list = note["setup"].list /\ pending = (Differences(note["setup"].list, copy) # {})
      BY <1>1, <1>6, <2>8 DEF TruthInv, CopyInv, ListingInv, Writing
    <3>4. Differences(list', copy') = Differences(note["setup"].list, copy)
      BY <1>1, <2>1, <3>3
    <3>5. ListingInv'
      BY <1>1, <2>2, <2>3, <3>3, <3>4 DEF ListingInv
    <3> QED
      BY <3>1, <3>2, <3>5
  <2>9. CopyInv'
    BY <1>1, <2>8 DEF CopyInv
  <2> QED
    BY <1>4, <2>5, <2>6, <2>9 DEF TruthInv
<1>7. CASE note["setup"].then = "sync"
  <2>1. /\ at' = IF pending THEN [at EXCEPT !["setup"] = "queued", !["sync"] = "start"]
                 ELSE [at EXCEPT !["setup"] = "queued"]
        /\ note' = [note EXCEPT !["setup"] = EndNote] /\ copy' = copy
    <3>1. CASE pending
      BY <1>2, <1>7, <3>1 DEF SetupGoesOn, SyncLater, EndNote
    <3>2. CASE ~pending
      BY <1>7, <3>2 DEF SetupGoesOn, SetupEnds, Waits, EndNote
    <3> QED
      BY <3>1, <3>2
  <2>2. /\ at'["setup"] = "queued" /\ at'["switch"] = at["switch"] /\ at'["save"] = at["save"]
        /\ at'["sync"] = IF pending THEN "start" ELSE at["sync"]
    BY <2>1, Tasks, Four DEF LockInv, StageInv
  <2>3. /\ note'["setup"] = EndNote /\ note'["switch"] = note["switch"] /\ note'["sync"] = note["sync"]
        /\ EndNote.then = "done"
    BY <2>1, NoteOf, Four DEF EndNote, SetCamera
  <2>4. ~RuleWaits' /\ ListingInv'
    BY <2>3 DEF RuleWaits, ListingInv
  <2>5. OverlapInv'
    BY <1>1, <2>2 DEF TruthInv, OverlapInv
  <2>6. GateInv'
    BY <1>1, <1>4, <2>2, <2>3, <2>4, GateKept DEF TruthInv
  <2>7. ASSUME ~overlap PROVE SettledInv' /\ CopyingInv'
    <3>1. pending = (Differences(list, copy) # {}) /\ settings.cameraList
      BY <1>1, <1>7, <2>7 DEF TruthInv, CopyInv, ListingInv, Writing
    <3>2. CASE pending
      BY <1>1, <2>2, <3>1, <3>2 DEF SettledInv, CopyingInv, Starting, Copied
    <3>3. CASE ~pending
      <4>1. list = copy
        BY <3>1, <3>3, NoDifference DEF DataInv
      <4>2. Copied' <=> Copied
        BY <2>2, <2>3, <3>3 DEF Copied
      <4>3. SettledInv'
        BY <1>1, <2>1, <4>1 DEF SettledInv
      <4>4. CopyingInv'
        BY <1>1, <1>2, <2>1, <2>2, <2>3, <2>7, <3>3, <4>1, <4>2 DEF TruthInv, CopyInv, CopyingInv
      <4> QED
        BY <4>3, <4>4
    <3> QED
      BY <3>2, <3>3
  <2>8. CopyInv'
    BY <1>1, <2>4, <2>7 DEF CopyInv
  <2> QED
    BY <1>4, <2>5, <2>6, <2>8 DEF TruthInv
<1> QED
  BY <1>3, <1>5, <1>6, <1>7

LEMMA TruthStop == ASSUME PlateAssumption, DataInv, LockInv, TruthInv, Stop PROVE TruthInv'
<1>1. /\ list' = saved.list /\ settings' = saved.settings /\ saved' = saved /\ at' = [t \in Task |-> "idle"]
      /\ UNCHANGED <<copy, rule, asked, pending, wanted, todo>> /\ note' = note
      /\ overlap' = (overlap \/ \E t \in Operation : at[t] # "idle")
  BY DEF Stop, camera, locals
<1>2. \A t \in Operation : at'[t] = "idle"
  BY <1>1, Tasks
<1>3. SavedInv' /\ OverlapInv'
  BY <1>1, <1>2, Four DEF SavedInv, OverlapInv
<1>4. ASSUME ~overlap' PROVE ~overlap /\ (\A t \in Operation : at[t] = "idle") /\ list' = list /\ settings' = settings
  <2>1. ~overlap /\ \A t \in Operation : at[t] = "idle"
    BY <1>1, <1>4
  <2> QED
    BY <1>1, <2>1 DEF TruthInv, SavedInv
<1>5. GateInv'
  BY <1>1, <1>2, <1>4, Four DEF TruthInv, GateInv, RuleWaits
<1>6. CopyInv'
  BY <1>1, <1>2, <1>4, Four DEF TruthInv, CopyInv, SettledInv, CopyingInv, ListingInv, Starting, Copied, Listing, Writing
<1> QED
  BY <1>3, <1>5, <1>6 DEF TruthInv

LEMMA TruthStep ==
  ASSUME PlateAssumption PROVE DataInv /\ LockInv /\ TruthInv /\ [Next]_vars => TruthInv'
<1> SUFFICES ASSUME DataInv, LockInv, TruthInv, [Next]_vars PROVE TruthInv'
  OBVIOUS
<1>1. ASSUME Tick \/ UNCHANGED vars PROVE TruthInv'
  BY <1>1, TruthSame DEF Tick, vars, camera, memory, locals
<1> QED
  BY <1>1, TruthReports, TruthWritten, TruthSwitch, TruthSync, TruthSave, TruthSetup, TruthGoesOn, TruthStop
     DEF Next

LEMMA Settled == ASSUME DataInv, LockInv, TruthInv PROVE SettledIsTrue
<1> SUFFICES ASSUME \A t \in Operation : at[t] = "idle", ~overlap
             PROVE  /\ settings.cameraGate => (settings.autoGate = Value(rule))
                    /\ (settings.cameraList /\ settings.listSync = "ok") => copy = list
  BY DEF SettledIsTrue
<1>1. at["setup"] = "idle" /\ at["switch"] = "idle" /\ at["save"] = "idle" /\ at["sync"] = "idle"
  BY Four
<1> QED
  BY <1>1 DEF TruthInv, GateInv, RuleWaits, CopyInv, SettledInv, Starting, Listing, Writing
----------------------------------------------------------------------------
(* The theorems *)

WholeInv == DataInv /\ LockInv /\ PulseInv /\ TruthInv

LEMMA WholeInit == ASSUME PlateAssumption PROVE Init => WholeInv
  BY DataInit, LockInit, PulseInit, TruthInit DEF WholeInv

LEMMA WholeStep == ASSUME PlateAssumption PROVE WholeInv /\ [Next]_vars => WholeInv'
  BY DataStep, LockStep, PulseStep, TruthStep DEF WholeInv

(* The variables of the camera, the list and the locks keep their types,   *)
(* each task is in the line of PlateGate.lock once, and exactly those that *)
(* wait for the lock or hold it are; who writes or opens is its head.      *)
THEOREM PlateTypes == ASSUME PlateAssumption PROVE Spec => []TypeOK
<1>1. WholeInv => TypeOK
  BY TypesHold DEF WholeInv
<1> QED
  BY <1>1, WholeInit, WholeStep, PTL DEF Spec

(* However many reports and operations there are, and however long an      *)
(* opening takes: the hub opens again for a plate only once REPEAT_SECONDS *)
(* have passed since it last began to, until Home Assistant starts again.  *)
THEOREM GateOpensApart == ASSUME PlateAssumption PROVE Spec => PulsesApart
<1>1. WholeInv /\ [Next]_vars =>
        [\A p \in Plate : (pulsed[p] # Never /\ pulsed'[p] \notin {pulsed[p], Never})
           => pulsed'[p] - pulsed[p] >= REPEAT_SECONDS]_vars
  BY OpensApart DEF WholeInv
<1> QED
  BY <1>1, WholeInit, WholeStep, PTL DEF Spec, PulsesApart

(* With no operation under way, and unless operations overlapped a setup,  *)
(* were cut off, or a switch took effect although its answer was lost: the *)
(* camera opens exactly when the switch the platform shows says so, and has*)
(* the platform's list when the last copy is said to have gone well.       *)
THEOREM SettledTrue == ASSUME PlateAssumption PROVE Spec => []SettledIsTrue
<1>1. WholeInv => SettledIsTrue
  BY Settled DEF WholeInv
<1> QED
  BY <1>1, WholeInit, WholeStep, PTL DEF Spec
=============================================================================
