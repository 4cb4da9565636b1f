------------------------- MODULE NodeRedBridge_proofs -------------------------
(***************************************************************************)
(* Proofs about NodeRedBridge for any gateways, plans, edits, failures and *)
(* stops.  The inductive invariant has the types without the job history,  *)
(* what a job may still hold, and both records of what is installed.       *)
(***************************************************************************)
EXTENDS NodeRedBridge, TLAPS

Records == [Bridge -> [op : Op \cup {NoOp}, configs : SUBSET ConfigNode]]
Working == {"modules", "broker", "read", "write", "record", "verify", "verifying", "clear"}
Active == [op : Op \cup {NoOp}, at : {"idle", "save", "connect", "end"} \cup Working,
           server : Server \cup {NoServer}, read : Flows, attempt : {1, 2},
           mqtt : BOOLEAN, gateway : BOOLEAN]

TypeInv ==
  /\ flows \in [Server -> Flows] /\ mine \in [Server -> SUBSET UserNode]
  /\ retained \in [Bridge -> [op : Op \cup {NoOp}, gateway : BOOLEAN]]
  /\ request \in [Op -> Request] /\ loaded \in BOOLEAN
  /\ records \in Records /\ store.records \in Records
  /\ active \in Active

(* A job that runs has its data, and its server from the connection on. *)
JobInv ==
  /\ active.at # "idle" => active.op \in Op /\ loaded
  /\ active.at \in Working => active.server \in Server

(* What is installed is in the record, the one in memory and the saved one; *)
(* a removal that is about to be recorded has removed its tab.              *)
Recorded(b) == store.records[b] # NoRecord /\ (loaded => records[b] # NoRecord)
Recording(s, b) == At("record") /\ active.server = s /\ Job.bridge = b
ListedInv ==
  /\ \A s \in Server, b \in Bridge :
       flows[s].tab[b] # NoOp => Recorded(b) \/ Recording(s, b) \/ <<s, b>> \in loose
  /\ At("record") /\ Job.kind = "remove" => flows[active.server].tab[Job.bridge] = NoOp

(* The inductive invariant. *)
IInv == TypeInv /\ JobInv /\ UserNodesKept /\ ListedInv
----------------------------------------------------------------------------
LEMMA NodeRedInit == ASSUME NodeRedAssumption PROVE Init => IInv
<1> SUFFICES ASSUME Init PROVE IInv
  OBVIOUS
<1> USE DEF Init, NodeRedAssumption
<1>1. NoFlows \in Flows /\ Idle \in Active
  BY DEF NoFlows, Flows, Idle, Active, Server, NoServer
<1>2. TypeInv
  BY <1>1 DEF TypeInv, Records, NoRecord, Silent
<1>3. JobInv
  BY DEF JobInv, Idle, Working
<1>4. UserNodesKept
  BY DEF UserNodesKept, NoFlows
<1>5. ListedInv
  BY DEF ListedInv, NoFlows, At, Idle
<1> QED
  BY <1>2, <1>3, <1>4, <1>5 DEF IInv

(* A step that keeps the flows, a job about to record and what is recorded *)
(* keeps the invariant.                                                    *)
LEMMA Quiet ==
  ASSUME IInv, TypeInv', JobInv', flows' = flows, mine' = mine, UNCHANGED request,
         loose \subseteq loose', At("record") \/ At("record")' => active' = active,
         \A b \in Bridge : Recorded(b) => Recorded(b)'
  PROVE  IInv'
<1>1. UserNodesKept'
  BY DEF IInv, UserNodesKept
<1>2. At("record") <=> At("record")'
  BY DEF At
<1>3. At("record") => active' = active /\ Job' = Job
  BY DEF Job
<1>4. \A s \in Server, b \in Bridge : Recording(s, b) => Recording(s, b)'
  BY <1>2, <1>3 DEF Recording
<1> QED
  BY <1>1, <1>2, <1>3, <1>4 DEF IInv, ListedInv

(* The job's request. *)
LEMMA JobType ==
  ASSUME TypeInv, JobInv, active.at # "idle"
  PROVE  /\ active.op \in Op /\ loaded
         /\ Job.bridge \in Bridge /\ Job.configs \in SUBSET ConfigNode
  BY DEF TypeInv, JobInv, Request, Job

(* What is written into a server is flows again, with the user's nodes read. *)
LEMMA WrittenType ==
  ASSUME TypeInv, JobInv, active.at # "idle"
  PROVE  /\ Written \in Flows /\ Written.user = active.read.user
         /\ \A b \in Bridge : b # Job.bridge => Written.tab[b] = active.read.tab[b]
         /\ Job.kind = "remove" => Written.tab[Job.bridge] = NoOp
<1> USE JobType
<1>1. active.read \in Flows /\ records[Job.bridge].configs \in SUBSET ConfigNode
  BY DEF TypeInv, Active, Records
<1>2. active.read.tab \in [Bridge -> Op \cup {NoOp}]
  BY <1>1 DEF Flows
<1> QED
  BY <1>1, <1>2 DEF Written, MergeFlows, Kept, Flows

(* Records that memory and store come to share list what both of them list. *)
LEMMA SaveRecords ==
  ASSUME TypeInv, loaded, NEW e, NEW l, NEW j, NEW ok \in BOOLEAN, Save(e, l, records, j, ok),
         UNCHANGED <<records, loaded>>
  PROVE  /\ store'.records \in Records
         /\ \A b \in Bridge : Recorded(b) => Recorded(b)'
  BY DEF TypeInv, Save, Saved, Recorded

(* A job that starts, or does not, disturbs no job that runs. *)
LEMMA StartKeeps ==
  ASSUME TypeInv, JobInv, NEW op \in Op, NEW l, NEW r, Start(op, l, r)
  PROVE  /\ active' \in Active
         /\ active' = active \/ (active = Idle /\ active'.at = "save" /\ active'.op = op
                                 /\ active'.server = NoServer /\ ~active'.gateway)
<1>1. Idle \in Active
  BY DEF Idle, Active, NoFlows, Flows
<1> QED
  BY <1>1 DEF Start, TypeInv, Active, Idle

LEMMA NodeRedStep == ASSUME NodeRedAssumption PROVE IInv /\ [Next]_vars => IInv'
<1> SUFFICES ASSUME IInv, [Next]_vars PROVE IInv'
  OBVIOUS
<1> USE DEF NodeRedAssumption
<1>t. TypeInv /\ JobInv /\ UserNodesKept /\ ListedInv
  BY DEF IInv
<1>i. Idle \in Active
  BY DEF Idle, Active, NoFlows, Flows
<1>1. ASSUME NEW op \in Op, Ask(op) PROVE IInv'
  <2> USE <1>1 DEF Ask, outside, seen
  <2>1. active' \in Active /\ (active' = active \/ (loaded /\ active'.at = "save" /\ active'.op = op))
    BY <1>t, StartKeeps DEF TypeInv
  <2>2. At("record") \/ At("record")' => active' = active
    BY <1>t, StartKeeps DEF At, Idle
  <2>3. TypeInv' /\ JobInv'
    BY <1>t, <2>1 DEF TypeInv, JobInv, Working
  <2> QED
    BY <2>2, <2>3, Quiet DEF Recorded
<1>2. ASSUME NEW op \in Op, Load(op) PROVE IInv'
  <2> USE <1>2 DEF Load, outside, seen
  <2>1. /\ active' \in Active
        /\ active' = active \/ (active'.at = "save" /\ active'.op = op)
        /\ At("record") \/ At("record")' => active' = active
    BY <1>t, StartKeeps DEF At, Idle
  <2>2. TypeInv' /\ JobInv'
    BY <1>t, <2>1 DEF TypeInv, JobInv, Working
  <2> QED
    BY <2>1, <2>2, Quiet DEF Recorded
<1>3. ASSUME NEW e \in {"auto", "url"}, Configure(e) PROVE IInv'
  <2> USE <1>3 DEF Configure, outside, seen
  <2>1. store'.records \in Records /\ \A b \in Bridge : Recorded(b) => Recorded(b)'
    BY <1>t DEF TypeInv, Saved, Recorded
  <2>2. TypeInv' /\ JobInv'
    BY <1>t, <2>1 DEF TypeInv, JobInv
  <2> QED
    BY <2>1, <2>2, Quiet
<1>4. ASSUME StartAddon \/ UNCHANGED vars PROVE IInv'
  <2> USE <1>4 DEF StartAddon, vars, outside, data, seen
  <2>1. TypeInv' /\ JobInv'
    BY <1>t DEF TypeInv, JobInv
  <2> QED
    BY <2>1, Quiet DEF Recorded
<1>5. ASSUME SaveStarted PROVE IInv'
  <2> USE <1>5 DEF SaveStarted, outside, data, seen
  <2>1. PICK ok \in BOOLEAN :
          /\ Save(endpoint, list, records, jobs, ok)
          /\ active' = IF ok THEN [active EXCEPT !.at = "connect"] ELSE Idle
    OBVIOUS
  <2>2. store'.records \in Records /\ \A b \in Bridge : Recorded(b) => Recorded(b)'
    BY <1>t, <2>1, JobType, SaveRecords DEF At
  <2>3. active' \in Active /\ active'.at \in {"connect", "idle"} /\ ~At("record")
        /\ (active'.at = "connect" => active'.op = active.op)
    BY <1>t, <1>i, <2>1 DEF TypeInv, Active, Idle, At
  <2>4. TypeInv' /\ JobInv'
    BY <1>t, <2>2, <2>3, JobType DEF TypeInv, JobInv, Working, At
  <2> QED
    BY <2>2, <2>3, <2>4, Quiet DEF At
<1>6. ASSUME SaveFinished PROVE IInv'
  <2> USE <1>6 DEF SaveFinished, outside, data, seen
  <2>1. store'.records \in Records /\ \A b \in Bridge : Recorded(b) => Recorded(b)'
    BY <1>t, JobType, SaveRecords DEF At
  <2>2. TypeInv' /\ JobInv'
    BY <1>t, <1>i, <2>1 DEF TypeInv, JobInv, Working, Idle
  <2> QED
    BY <2>1, <2>2, Quiet DEF At, Idle
<1>7. ASSUME Connect \/ Modules \/ BrokerSettings \/ GetFlows \/ Subscribe \/ WaitHealth
             \/ ClearRetained
      PROVE  IInv'
  <2> USE DEF outside, data, seen
  <2>1. /\ UNCHANGED <<flows, mine, request, records, store, loaded>> /\ loose' = loose
        /\ active'.op = active.op /\ active'.at \notin {"idle", "record"}
        /\ active' \in Active /\ (active'.at \in Working => active'.server \in Server)
        /\ active.at \notin {"idle", "record"}
        /\ retained' \in [Bridge -> [op : Op \cup {NoOp}, gateway : BOOLEAN]]
    <3>a. active \in Active /\ flows \in [Server -> Flows]
          /\ retained \in [Bridge -> [op : Op \cup {NoOp}, gateway : BOOLEAN]]
      BY <1>t DEF TypeInv
    <3>1. CASE Connect
      <4>1. \A supervised \in BOOLEAN : Located(supervised) \in Server
        BY DEF Located, Server
      <4>2. \/ active' = [active EXCEPT !.at = "end"]
            \/ \E t \in Server, at \in {"modules", "read"} :
                 active' = [active EXCEPT !.server = t, !.at = at]
        BY <3>1, <4>1 DEF Connect, Fails, Finish
      <4>3. active' \in Active /\ active'.op = active.op /\ active'.at \in {"end", "modules", "read"}
            /\ (active'.at # "end" => active'.server \in Server)
        BY <3>a, <4>2 DEF Active, Working
      <4> QED
        BY <3>a, <3>1, <4>3 DEF Connect, At, Working
    <3>2. CASE Modules
      BY <1>t, <3>a, <3>2 DEF Modules, Fails, Finish, Go, At, Active, Working, JobInv
    <3>3. CASE BrokerSettings
      BY <1>t, <3>a, <3>3 DEF BrokerSettings, Finish, Go, At, Active, Working, JobInv
    <3>4. CASE GetFlows
      BY <1>t, <3>a, <3>4 DEF GetFlows, Fails, Finish, Go, At, Active, Working, JobInv
    <3>5. CASE Subscribe
      BY <1>t, <3>a, <3>5 DEF Subscribe, Noticed, Health, At, Active, Working, JobInv
    <3>6. CASE WaitHealth
      BY <1>t, <3>a, <3>6 DEF WaitHealth, Finish, At, Active, Working, JobInv
    <3>7. CASE ClearRetained
      <4>1. retained' \in [Bridge -> [op : Op \cup {NoOp}, gateway : BOOLEAN]]
        <5>1. retained' = retained \/ retained' = [retained EXCEPT ![Job.bridge] = Silent]
          BY <3>7 DEF ClearRetained
        <5>2. Silent \in [op : Op \cup {NoOp}, gateway : BOOLEAN]
          BY DEF Silent
        <5> HIDE DEF Job
        <5> QED
          BY <3>a, <5>1, <5>2
      <4> QED
        BY <1>t, <3>a, <3>7, <4>1 DEF ClearRetained, Finish, At, Active, Working, JobInv
    <3> QED
      BY <1>7, <3>1, <3>2, <3>3, <3>4, <3>5, <3>6, <3>7
  <2>2. TypeInv' /\ JobInv'
    BY <1>t, <2>1 DEF TypeInv, JobInv
  <2>3. \A b \in Bridge : Recorded(b) => Recorded(b)'
    BY <2>1 DEF Recorded
  <2> QED
    BY <2>1, <2>2, <2>3, Quiet DEF At
<1>8. ASSUME SetFlows PROVE IInv'
  <2> DEFINE s == active.server
  <2> USE <1>8 DEF SetFlows, data, seen
  <2>a. /\ At("write") /\ active \in Active /\ s \in Server /\ active.op \in Op
        /\ active.read \in Flows /\ Written \in Flows /\ Job.bridge \in Bridge
    BY <1>t, JobType, WrittenType DEF At, JobInv, TypeInv, Active, Working
  <2>b. UNCHANGED <<retained, request, records, store, loaded, mine>> /\ loose \subseteq loose'
    OBVIOUS
  <2>c. /\ active' \in Active /\ active'.op = active.op /\ active'.server = s
        /\ active'.at \in {"read", "record", "end"}
    BY <2>a DEF Fails, Finish, Go, Active, Working
  <2>d. flows' \in [Server -> Flows]
    BY <1>t, <2>a DEF TypeInv
  <2>1. TypeInv' /\ JobInv'
    BY <1>t, <2>a, <2>b, <2>c, <2>d DEF TypeInv, JobInv, Working, At
  <2>2. CASE flows' = flows /\ active'.at # "record"
    <3>1. \A b \in Bridge : Recorded(b) => Recorded(b)'
      BY <2>b DEF Recorded
    <3> QED
      BY <2>a, <2>b, <2>1, <2>2, <3>1, Quiet DEF At
  <2>3. CASE active.read = flows[s] /\ flows' = [flows EXCEPT ![s] = Written]
             /\ (active'.at = "record" \/ <<s, Job.bridge>> \in loose')
    <3>1. /\ flows'[s] = Written /\ \A t \in Server \ {s} : flows'[t] = flows[t]
      BY <1>t, <2>a, <2>3 DEF TypeInv
    <3>2. UserNodesKept'
      BY <1>t, <2>a, <2>b, <2>3, <3>1, WrittenType DEF UserNodesKept, At
    <3>3. ASSUME NEW t \in Server, NEW b \in Bridge, (flows[t].tab[b] # NoOp)'
          PROVE  Recorded(b)' \/ Recording(t, b)' \/ <<t, b>> \in loose'
      <4>1. CASE t = s /\ b = Job.bridge
        BY <2>b, <2>c, <2>3, <4>1 DEF Recording, At, Job
      <4>2. CASE ~(t = s /\ b = Job.bridge)
        <5>1. flows[t].tab[b] # NoOp
          BY <2>a, <2>3, <3>1, <3>3, <4>2, <1>t, WrittenType DEF At
        <5>2. ~Recording(t, b)
          BY <2>a DEF Recording, At
        <5> QED
          BY <1>t, <2>b, <5>1, <5>2 DEF ListedInv, Recorded
      <4> QED
        BY <4>1, <4>2
    <3>4. (At("record") /\ Job.kind = "remove" => flows[active.server].tab[Job.bridge] = NoOp)'
      BY <1>t, <2>a, <2>b, <2>c, <3>1, WrittenType DEF At, Job
    <3> QED
      BY <2>1, <3>2, <3>3, <3>4 DEF IInv, ListedInv
  <2> QED
    BY <2>a, <2>2, <2>3 DEF Fails, Finish, Go, Active, At
<1>9. ASSUME Record PROVE IInv'
  <2> USE <1>9 DEF Record, outside, seen
  <2> DEFINE b == Job.bridge
             s == active.server
             kept == IF Job.kind = "deploy"
                     THEN [op |-> active.op, configs |-> Job.configs] ELSE NoRecord
  <2>a. /\ active \in Active /\ s \in Server /\ active.op \in Op /\ loaded
        /\ b \in Bridge /\ Job.configs \in SUBSET ConfigNode
    BY <1>t, JobType DEF At, JobInv, TypeInv, Working
  <2>b. PICK ok \in BOOLEAN :
          /\ Save(endpoint, list, records', jobs, ok)
          /\ IF ok THEN Go(IF Job.kind = "deploy" THEN "verify" ELSE "clear")
                   ELSE Finish("failed")
          /\ loose' = loose \cup {<<t, b>> : t \in Server \ {s}}
                        \cup (IF ok THEN {} ELSE {<<s, b>>})
    OBVIOUS
  <2>c. records' = [records EXCEPT ![b] = kept] /\ kept \in [op : Op \cup {NoOp}, configs : SUBSET ConfigNode]
    BY <2>a DEF NoRecord
  <2>d. records' \in Records /\ store'.records = IF ok THEN records' ELSE store.records
    <3>1. records' \in Records
      BY <1>t, <2>c DEF TypeInv, Records
    <3>2. store' = IF ok THEN Saved(endpoint, list, records', jobs) ELSE store
      BY <2>b DEF Save
    <3> QED
      BY <3>1, <3>2 DEF Saved
  <2>e. active' \in Active /\ active'.op = active.op /\ active'.server = s
        /\ active'.at \in {"verify", "clear", "end"}
    BY <2>a, <2>b DEF Go, Finish, Active, Working
  <2>1. TypeInv' /\ JobInv'
    BY <1>t, <2>a, <2>d, <2>e DEF TypeInv, JobInv
  <2>2. UserNodesKept'
    BY <1>t DEF UserNodesKept
  <2>3. ASSUME NEW t \in Server, NEW d \in Bridge, flows[t].tab[d] # NoOp
        PROVE  Recorded(d)' \/ <<t, d>> \in loose'
    <3>1. CASE d # b
      <4>1. records'[d] = records[d]
        BY <1>t, <2>a, <2>c, <3>1 DEF TypeInv, Records
      <4>2. Recorded(d) \/ <<t, d>> \in loose
        BY <1>t, <2>3, <3>1 DEF ListedInv, Recording
      <4> QED
        BY <2>a, <2>b, <2>d, <4>1, <4>2 DEF Recorded
    <3>2. CASE d = b /\ (t # s \/ ~ok)
      BY <2>b, <3>2
    <3>3. CASE d = b /\ t = s /\ ok
      <4>1. Job.kind = "deploy"
        BY <1>t, <2>a, <2>3, <3>3 DEF ListedInv, TypeInv, Request, Job
      <4>2. records'[b] # NoRecord
        BY <1>t, <2>a, <2>c, <4>1 DEF TypeInv, Records, NoRecord
      <4> QED
        BY <2>d, <3>3, <4>2 DEF Recorded
    <3> QED
      BY <3>1, <3>2, <3>3
  <2> QED
    BY <2>1, <2>2, <2>3, <2>e DEF IInv, ListedInv, At
<1>10. ASSUME NEW s \in Server, NEW b \in Bridge, NEW g \in BOOLEAN, Heartbeat(s, b, g)
       PROVE  IInv'
  <2> USE <1>10 DEF Heartbeat
  <2>1. active' = active \/ (At("verifying") /\ active' = Noticed([op |-> flows[s].tab[b], gateway |-> g]))
    OBVIOUS
  <2>2. /\ active' \in Active /\ active'.op = active.op /\ active'.server = active.server
        /\ active' = active \/ (active.at = "verifying" /\ active'.at = "verifying")
    BY <1>t, <2>1 DEF TypeInv, Noticed, Health, Active, Working, At
  <2>3. retained' \in [Bridge -> [op : Op \cup {NoOp}, gateway : BOOLEAN]]
    BY <1>t DEF TypeInv, Flows
  <2>4. TypeInv' /\ JobInv'
    BY <1>t, <2>2, <2>3 DEF TypeInv, JobInv, Working, data
  <2> QED
    <3>1. \A d \in Bridge : Recorded(d) => Recorded(d)'
      BY DEF Recorded, data
    <3> QED
      BY <2>2, <2>4, <3>1, Quiet DEF At
<1>11. ASSUME NEW b \in Bridge, Age(b) PROVE IInv'
  <2> USE <1>11 DEF Age, seen
  <2>1. TypeInv' /\ JobInv'
    BY <1>t DEF TypeInv, JobInv, Silent, data
  <2> QED
    BY <2>1, Quiet DEF Recorded, data
<1>12. ASSUME NEW s \in Server, NEW n \in UserNode, Edit(s, n) PROVE IInv'
  <2> USE <1>12 DEF Edit, data
  <2>1. PICK u \in SUBSET UserNode :
          flows' = [flows EXCEPT ![s] = [flows[s] EXCEPT !.user = u]] /\ mine' = [mine EXCEPT ![s] = u]
    <3> DEFINE u == IF n \in flows[s].user THEN flows[s].user \ {n} ELSE flows[s].user \cup {n}
    <3>1. flows[s] \in Flows
      BY <1>t DEF TypeInv
    <3>2. u \in SUBSET UserNode
      BY <3>1 DEF Flows
    <3>3. flows' = [flows EXCEPT ![s] = [flows[s] EXCEPT !.user = u]]
      BY <1>t DEF TypeInv
    <3>4. flows'[s].user = u
      BY <1>t, <3>1, <3>3 DEF TypeInv, Flows
    <3>5. mine' = [mine EXCEPT ![s] = u]
      BY <3>4
    <3> QED
      BY <3>2, <3>3, <3>5
  <2>2. /\ flows' \in [Server -> Flows] /\ mine' \in [Server -> SUBSET UserNode]
        /\ \A t \in Server : flows'[t].user = (IF t = s THEN u ELSE flows[t].user)
                             /\ flows'[t].tab = flows[t].tab
    <3>1. flows \in [Server -> Flows]
      BY <1>t DEF TypeInv
    <3>2. /\ [flows[s] EXCEPT !.user = u] \in Flows
          /\ [flows[s] EXCEPT !.user = u].user = u
          /\ [flows[s] EXCEPT !.user = u].tab = flows[s].tab
      BY <3>1 DEF Flows
    <3> DEFINE edited == [flows[s] EXCEPT !.user = u]
    <3>3. flows' = [flows EXCEPT ![s] = edited]
      BY <2>1
    <3>4. mine \in [Server -> SUBSET UserNode] /\ mine' \in [Server -> SUBSET UserNode]
      BY <1>t, <2>1 DEF TypeInv
    <3> HIDE <1>12 DEF edited
    <3>5. \A t \in Server : flows'[t] = IF t = s THEN edited ELSE flows[t]
      BY <3>1, <3>3
    <3>6. flows' \in [Server -> Flows]
      BY <3>1, <3>2, <3>3 DEF edited
    <3> QED
      BY <3>2, <3>4, <3>5, <3>6 DEF edited
  <2>3. TypeInv' /\ JobInv'
    BY <1>t, <2>2 DEF TypeInv, JobInv
  <2>4. UserNodesKept'
    BY <1>t, <2>1, <2>2 DEF UserNodesKept, TypeInv
  <2>5. ListedInv'
    <3>1. \A t \in Server, b \in Bridge :
            (Recorded(b)' <=> Recorded(b)) /\ (Recording(t, b)' <=> Recording(t, b))
      BY DEF Recorded, Recording, At, Job
    <3>2. At("record") => active.server \in Server
      BY <1>t DEF JobInv, At, Working
    <3> QED
      BY <1>t, <2>2, <3>1, <3>2 DEF ListedInv, At, Job
  <2> QED
    BY <2>3, <2>4, <2>5 DEF IInv
<1>13. ASSUME NEW s \in Server, NEW b \in Bridge, DeleteTab(s, b) PROVE IInv'
  <2> USE <1>13 DEF DeleteTab, data
  <2>1. /\ flows' \in [Server -> Flows]
        /\ \A t \in Server : flows'[t].user = flows[t].user
        /\ \A t \in Server, d \in Bridge : flows'[t].tab[d] \in {flows[t].tab[d], NoOp}
    <3> DEFINE left == [flows[s] EXCEPT !.tab = [flows[s].tab EXCEPT ![b] = NoOp]]
    <3>1. flows \in [Server -> Flows]
      BY <1>t DEF TypeInv
    <3>2. flows[s].tab \in [Bridge -> Op \cup {NoOp}]
      BY <3>1 DEF Flows
    <3>3. /\ left \in Flows /\ left.user = flows[s].user
          /\ \A d \in Bridge : left.tab[d] \in {flows[s].tab[d], NoOp}
      BY <3>1, <3>2 DEF Flows
    <3>4. flows' = [flows EXCEPT ![s] = left]
      OBVIOUS
    <3> HIDE DEF left
    <3> QED
      BY <3>1, <3>3, <3>4
  <2>2. TypeInv' /\ JobInv'
    BY <1>t, <2>1 DEF TypeInv, JobInv
  <2>3. UserNodesKept'
    BY <1>t, <2>1 DEF UserNodesKept
  <2>4. ListedInv'
    <3>1. \A t \in Server, d \in Bridge :
            (Recorded(d)' <=> Recorded(d)) /\ (Recording(t, d)' <=> Recording(t, d))
      BY DEF Recorded, Recording, At, Job
    <3>2. At("record") => active.server \in Server /\ Job.bridge \in Bridge
      BY <1>t, JobType DEF JobInv, At, Working
    <3> QED
      BY <1>t, <2>1, <3>1, <3>2 DEF ListedInv, At, Job
  <2> QED
    BY <2>2, <2>3, <2>4 DEF IInv
<1>14. ASSUME Crash PROVE IInv'
  <2> USE <1>14 DEF Crash, outside
  <2>1. TypeInv' /\ JobInv'
    BY <1>t, <1>i DEF TypeInv, JobInv, Working, Idle, Records, NoRecord
  <2>2. UserNodesKept'
    BY <1>t DEF UserNodesKept
  <2>3. ASSUME NEW t \in Server, NEW d \in Bridge, flows[t].tab[d] # NoOp
        PROVE  Recorded(d)' \/ <<t, d>> \in loose'
    BY <1>t, <2>3 DEF ListedInv, Recorded, Recording
  <2> QED
    BY <2>1, <2>2, <2>3 DEF IInv, ListedInv, At, Idle
<1> QED
  BY <1>1, <1>2, <1>3, <1>4, <1>5, <1>6, <1>7, <1>8, <1>9, <1>10, <1>11, <1>12, <1>13, <1>14
     DEF Next, JobStep
----------------------------------------------------------------------------
(* What the user of Node-RED builds is never written over: flows that were *)
(* read before an edit meet another revision (UserNodesKept).              *)
THEOREM UserNodes == ASSUME NodeRedAssumption PROVE Spec => []UserNodesKept
<1>1. IInv => UserNodesKept
  BY DEF IInv
<1> QED
  BY <1>1, NodeRedInit, NodeRedStep, PTL DEF Spec

(* Installed flows can be found again to be removed: they are on record but *)
(* where a failure or a stop came between (InstalledIsListed).              *)
THEOREM Installed == ASSUME NodeRedAssumption PROVE Spec => []InstalledIsListed
<1>1. IInv => InstalledIsListed
  BY DEF IInv, ListedInv, Recorded, Recording, InstalledIsListed
<1> QED
  BY <1>1, NodeRedInit, NodeRedStep, PTL DEF Spec
----------------------------------------------------------------------------
(* What is installed is what the record says *)

RecordsOf(b) == {NoRecord} \cup {[op |-> op, configs |-> request[op].configs] :
                                  op \in {o \in Op : request[o].bridge = b}}
Matches(s, b, record) ==
  flows[s].tab[b] = record.op /\ flows[s].configs \cap ConfigsOf(b) = record.configs
Agreeing(b) == loaded => records[b] = store.records[b]
(* What a job is about to record. *)
Asked == IF Job.kind = "deploy" THEN [op |-> active.op, configs |-> Job.configs] ELSE NoRecord

(* Where no job was cut off, a server has of a bridge what the saved record  *)
(* says, or what the job that has just written it is about to record.        *)
StaleInv ==
  /\ request \in Plans
  /\ \A b \in Bridge : records[b] \in RecordsOf(b) /\ store.records[b] \in RecordsOf(b)
  /\ \A s \in Server, b \in Bridge :
       \/ <<s, b>> \in loose
       \/ Recording(s, b) /\ Matches(s, b, Asked)
       \/ ~Recording(s, b) /\ Matches(s, b, store.records[b]) /\ Agreeing(b)

LEMMA StaleInit == ASSUME NodeRedAssumption PROVE Init => StaleInv
<1> SUFFICES ASSUME Init PROVE StaleInv
  OBVIOUS
<1> USE DEF Init
<1>1. \A b \in Bridge : records[b] = NoRecord /\ store.records[b] = NoRecord
  OBVIOUS
<1>2. \A s \in Server, b \in Bridge : ~Recording(s, b) /\ Matches(s, b, NoRecord)
  BY DEF Recording, At, Idle, Matches, NoFlows, NoRecord
<1> QED
  BY <1>1, <1>2 DEF StaleInv, RecordsOf, Agreeing

(* Steps that leave what they find, or note that they do not. *)
Undisturbed(s, b) ==
  /\ flows'[s].tab[b] = flows[s].tab[b] /\ flows'[s].configs = flows[s].configs
  /\ Recording(s, b)' <=> Recording(s, b)
  /\ Recording(s, b) => Asked' = Asked
RecordsKept ==
  \A b \in Bridge :
    /\ records'[b] \in {records[b], store.records[b], NoRecord}
    /\ store'.records[b] \in {records[b], store.records[b]}
    /\ Agreeing(b) => store'.records[b] = store.records[b] /\ Agreeing(b)'

LEMMA StaleQuiet ==
  ASSUME StaleInv, request' = request, loose \subseteq loose', RecordsKept,
         \A s \in Server, b \in Bridge : <<s, b>> \in loose' \/ Undisturbed(s, b)
  PROVE  StaleInv'
<1>1. \A b \in Bridge : RecordsOf(b)' = RecordsOf(b) /\ ConfigsOf(b)' = ConfigsOf(b)
  BY DEF RecordsOf, ConfigsOf
<1>2. \A b \in Bridge : records'[b] \in RecordsOf(b) /\ store'.records[b] \in RecordsOf(b)
  BY DEF StaleInv, RecordsKept, RecordsOf
<1>3. ASSUME NEW s \in Server, NEW b \in Bridge, <<s, b>> \notin loose'
      PROVE  \/ Recording(s, b)' /\ Matches(s, b, Asked)'
             \/ ~Recording(s, b)' /\ Matches(s, b, store.records[b])' /\ Agreeing(b)'
  <2>1. Undisturbed(s, b) /\ <<s, b>> \notin loose
    BY <1>3
  <2>2. CASE Recording(s, b)
    <3>1. Matches(s, b, Asked) /\ Recording(s, b)' /\ Asked' = Asked
      BY <2>1, <2>2 DEF StaleInv, Undisturbed
    <3> QED
      BY <1>1, <2>1, <3>1 DEF Matches, Undisturbed
  <2>3. CASE ~Recording(s, b)
    <3>1. Matches(s, b, store.records[b]) /\ Agreeing(b) /\ ~Recording(s, b)'
      BY <2>1, <2>3 DEF StaleInv, Undisturbed
    <3>2. store'.records[b] = store.records[b] /\ Agreeing(b)'
      BY <3>1 DEF RecordsKept
    <3> QED
      BY <1>1, <2>1, <3>1, <3>2 DEF Matches, Undisturbed
  <2> QED
    BY <2>2, <2>3
<1> QED
  BY <1>1, <1>2, <1>3 DEF StaleInv

(* Where no job records before or after. *)
LEMMA StaleCalm ==
  ASSUME StaleInv, UNCHANGED <<flows, request>>, loose \subseteq loose', RecordsKept,
         At("record") \/ At("record")' => active' = active
  PROVE  StaleInv'
<1>1. \A s \in Server, b \in Bridge : Undisturbed(s, b)
  BY DEF Undisturbed, Recording, Asked, At, Job
<1> QED
  BY <1>1, StaleQuiet

(* A save, and no other change of what is recorded. *)
LEMMA SaveKeeps ==
  ASSUME IInv, loaded, NEW e, NEW l, NEW j, NEW ok \in BOOLEAN, Save(e, l, records, j, ok),
         UNCHANGED <<records, loaded>>
  PROVE  RecordsKept
  BY DEF Save, Saved, RecordsKept, Agreeing
----------------------------------------------------------------------------
(* Steps on what is installed *)

(* The configuration nodes of two bridges are different ones. *)
LEMMA ConfigsApart ==
  ASSUME NodeRedAssumption, StaleInv, NEW b \in Bridge, NEW d \in Bridge, b # d
  PROVE  ConfigsOf(b) \cap ConfigsOf(d) = {}
  BY DEF NodeRedAssumption, StaleInv, ConfigsOf

LEMMA RecordConfigs ==
  ASSUME StaleInv, NEW b \in Bridge
  PROVE  records[b].configs \subseteq ConfigsOf(b)
  BY DEF StaleInv, RecordsOf, ConfigsOf, NoRecord

(* What a job writes has of its bridge what it is about to record, if it had *)
(* what the record says, and has of the others what it had.                  *)
LEMMA WrittenConfigs ==
  ASSUME NodeRedAssumption, IInv, StaleInv, active.at # "idle"
  PROVE  /\ active.read.configs \cap ConfigsOf(Job.bridge) = records[Job.bridge].configs =>
              Written.configs \cap ConfigsOf(Job.bridge) = Asked.configs
         /\ Written.tab[Job.bridge] = Asked.op
         /\ \A b \in Bridge : b # Job.bridge =>
              Written.configs \cap ConfigsOf(b) = active.read.configs \cap ConfigsOf(b)
<1> DEFINE d == Job.bridge
           old == records[d].configs
<1>1. TypeInv /\ JobInv
  BY DEF IInv
<1>2. active.op \in Op /\ d \in Bridge
  BY <1>1, JobType
<1>3. active.read \in Flows /\ active.read.tab \in [Bridge -> Op \cup {NoOp}]
  BY <1>1 DEF TypeInv, Active, Flows
<1>4. Job.configs \subseteq ConfigsOf(d)
  BY <1>2 DEF ConfigsOf, Job
<1>5. old \subseteq ConfigsOf(d)
  BY <1>2, RecordConfigs
<1>6. \/ /\ Job.kind = "deploy" /\ Asked = [op |-> active.op, configs |-> Job.configs]
         /\ Written.configs = (active.read.configs \ ((old \ Job.configs) \cup Job.configs)) \cup Job.configs
         /\ Written.tab[d] = active.op
      \/ /\ Asked = NoRecord
         /\ Written.configs = active.read.configs \ old /\ Written.tab[d] = NoOp
  BY <1>2, <1>3 DEF Written, MergeFlows, Kept, Asked, Flows
<1>7. ASSUME NEW b \in Bridge, b # d
      PROVE  Written.configs \cap ConfigsOf(b) = active.read.configs \cap ConfigsOf(b)
  <2>1. ConfigsOf(b) \cap ConfigsOf(d) = {}
    BY <1>2, <1>7, ConfigsApart
  <2> HIDE DEF d
  <2> QED
    BY <1>4, <1>5, <1>6, <2>1
<1> HIDE DEF d
<1>8. active.read.configs \cap ConfigsOf(d) = old => Written.configs \cap ConfigsOf(d) = Asked.configs
  BY <1>4, <1>6 DEF NoRecord
<1>9. Written.tab[d] = Asked.op
  BY <1>6 DEF NoRecord
<1> QED
  BY <1>7, <1>8, <1>9 DEF d

LEMMA StaleSetFlows ==
  ASSUME NodeRedAssumption, IInv, StaleInv, SetFlows
  PROVE  StaleInv'
<1> DEFINE s == active.server
           d == Job.bridge
<1>1. /\ At("write") /\ active.at # "idle" /\ active \in Active /\ s \in Server /\ loaded
      /\ d \in Bridge /\ flows \in [Server -> Flows]
      /\ UNCHANGED <<request, records, store, loaded>> /\ loose \subseteq loose'
  BY JobType DEF SetFlows, At, IInv, JobInv, TypeInv, Working, data
<1>2. RecordsKept
  BY <1>1 DEF RecordsKept, Agreeing
<1>3. CASE flows' = flows /\ active'.at # "record"
  BY <1>1, <1>2, <1>3, StaleCalm DEF At
<1>4. CASE /\ active.read = flows[s] /\ flows' = [flows EXCEPT ![s] = Written]
           /\ \/ active' = [active EXCEPT !.at = "record"]
              \/ active'.at # "record" /\ <<s, d>> \in loose'
  <2>1. flows'[s] = Written /\ \A t \in Server \ {s} : flows'[t] = flows[t]
    BY <1>1, <1>4
  <2>2. \A b \in Bridge : RecordsOf(b)' = RecordsOf(b) /\ ConfigsOf(b)' = ConfigsOf(b)
    BY <1>1 DEF RecordsOf, ConfigsOf
  <2>3. \A t \in Server, b \in Bridge : ~Recording(t, b)
    BY <1>1 DEF Recording, At
  <2>4. ASSUME NEW t \in Server, NEW b \in Bridge, t # s \/ b # d
        PROVE  ~Recording(t, b)'
    BY <1>1, <1>4, <2>4 DEF Recording, At, Job, Active
  <2>5. ASSUME NEW t \in Server, NEW b \in Bridge, t # s \/ b # d, <<t, b>> \notin loose'
        PROVE  Matches(t, b, store.records[b])' /\ Agreeing(b)'
    <3>1. Matches(t, b, store.records[b]) /\ Agreeing(b)
      BY <1>1, <2>3, <2>5 DEF StaleInv
    <3>2. CASE t # s
      BY <1>1, <2>1, <2>2, <3>1, <3>2 DEF Matches, Agreeing
    <3>3. CASE t = s /\ b # d
      <4>1. /\ Written.configs \cap ConfigsOf(b) = flows[s].configs \cap ConfigsOf(b)
            /\ Written.tab[b] = flows[s].tab[b]
        BY <1>1, <1>4, <3>3, WrittenConfigs, WrittenType DEF IInv
      <4> QED
        BY <1>1, <2>1, <2>2, <3>1, <3>3, <4>1 DEF Matches, Agreeing
    <3> QED
      BY <2>5, <3>2, <3>3
  <2>6. ASSUME NEW t \in Server, NEW b \in Bridge, t = s, b = d, <<t, b>> \notin loose'
        PROVE  Recording(t, b)' /\ Matches(t, b, Asked)'
    <3>1. active' = [active EXCEPT !.at = "record"]
      BY <1>4, <2>6
    <3>2. Recording(t, b)' /\ Asked' = Asked
      BY <1>1, <2>6, <3>1 DEF Recording, At, Job, Asked, Active
    <3>3. Matches(t, b, store.records[b]) /\ Agreeing(b)
      BY <1>1, <2>3, <2>6 DEF StaleInv
    <3>4. flows[s].configs \cap ConfigsOf(d) = records[d].configs
      BY <1>1, <2>6, <3>3 DEF Matches, Agreeing
    <3>5. Written.configs \cap ConfigsOf(d) = Asked.configs /\ Written.tab[d] = Asked.op
      BY <1>1, <1>4, <3>4, WrittenConfigs
    <3>6. flows'[t] = Written /\ ConfigsOf(b)' = ConfigsOf(d)
      BY <2>1, <2>2, <2>6
    <3> QED
      BY <2>6, <3>2, <3>5, <3>6 DEF Matches
  <2>7. ASSUME NEW t \in Server, NEW b \in Bridge, <<t, b>> \notin loose'
        PROVE  \/ Recording(t, b)' /\ Matches(t, b, Asked)'
               \/ ~Recording(t, b)' /\ Matches(t, b, store.records[b])' /\ Agreeing(b)'
    <3>1. CASE t = s /\ b = d
      BY <2>6, <2>7, <3>1
    <3>2. CASE t # s \/ b # d
      BY <2>4, <2>5, <2>7, <3>2
    <3> QED
      BY <3>1, <3>2
  <2> QED
    BY <1>1, <2>2, <2>7 DEF StaleInv
<1> QED
  BY <1>1, <1>3, <1>4 DEF SetFlows, Fails, Finish, Go, Active, At

LEMMA StaleRecord ==
  ASSUME NodeRedAssumption, IInv, StaleInv, Record
  PROVE  StaleInv'
<1> DEFINE s == active.server
           d == Job.bridge
<1>1. /\ At("record") /\ active \in Active /\ s \in Server /\ loaded /\ active.op \in Op
      /\ d \in Bridge /\ records \in Records
      /\ UNCHANGED <<flows, request, loaded>>
      /\ records' = [records EXCEPT ![d] = Asked]
  BY JobType DEF Record, At, IInv, JobInv, TypeInv, Working, Asked, outside
<1>2. PICK ok \in BOOLEAN :
        /\ Save(endpoint, list, records', jobs, ok)
        /\ IF ok THEN Go(IF Job.kind = "deploy" THEN "verify" ELSE "clear") ELSE Finish("failed")
        /\ loose' = loose \cup {<<t, d>> : t \in Server \ {s}} \cup (IF ok THEN {} ELSE {<<s, d>>})
  BY DEF Record
<1>3. store'.records = IF ok THEN records' ELSE store.records
  <2>1. store' = IF ok THEN Saved(endpoint, list, records', jobs) ELSE store
    BY <1>2 DEF Save
  <2> QED
    BY <2>1 DEF Saved
<1>4. \A b \in Bridge : RecordsOf(b)' = RecordsOf(b) /\ ConfigsOf(b)' = ConfigsOf(b)
  BY <1>1 DEF RecordsOf, ConfigsOf
<1>5. Asked \in RecordsOf(d)
  BY <1>1 DEF Asked, RecordsOf, Job
<1>6. \A b \in Bridge : records'[b] = IF b = d THEN Asked ELSE records[b]
  BY <1>1 DEF Records
<1>7. \A b \in Bridge : records'[b] \in RecordsOf(b) /\ store'.records[b] \in RecordsOf(b)
  BY <1>3, <1>5, <1>6 DEF StaleInv
<1>8. \A t \in Server, b \in Bridge : ~Recording(t, b)'
  BY <1>1, <1>2 DEF Go, Finish, Recording, At, Active
<1>9. ASSUME NEW t \in Server, NEW b \in Bridge, <<t, b>> \notin loose'
      PROVE  Matches(t, b, store.records[b])' /\ Agreeing(b)'
  <2>1. CASE b # d
    <3>1. ~Recording(t, b) /\ <<t, b>> \notin loose
      BY <1>2, <1>9, <2>1 DEF Recording
    <3>2. Matches(t, b, store.records[b]) /\ records[b] = store.records[b]
      BY <1>1, <3>1 DEF StaleInv, Agreeing
    <3>3. records'[b] = records[b] /\ store'.records[b] = records[b]
      BY <1>3, <1>6, <2>1, <3>2
    <3> QED
      BY <1>1, <1>4, <3>2, <3>3 DEF Matches, Agreeing
  <2>2. CASE b = d
    <3>1. t = s /\ ok /\ <<t, b>> \notin loose
      BY <1>2, <1>9, <2>2
    <3>2. Matches(s, d, Asked)
      BY <1>1, <2>2, <3>1 DEF StaleInv, Recording
    <3>3. records'[d] = Asked /\ store'.records[d] = Asked
      BY <1>1, <1>3, <1>6, <3>1
    <3> QED
      BY <1>1, <1>4, <2>2, <3>1, <3>2, <3>3 DEF Matches, Agreeing
  <2> QED
    BY <2>1, <2>2
<1> QED
  BY <1>1, <1>4, <1>7, <1>8, <1>9 DEF StaleInv
----------------------------------------------------------------------------
(* Every step *)

(* What is installed stays what the record says, whatever happens. *)
LEMMA StaleStep ==
  ASSUME NodeRedAssumption
  PROVE  IInv /\ StaleInv /\ [Next]_vars => StaleInv'
<1> SUFFICES ASSUME IInv, StaleInv, [Next]_vars PROVE StaleInv'
  OBVIOUS
<1>t. TypeInv /\ JobInv
  BY DEF IInv
<1>r. UNCHANGED <<records, store, loaded>> => RecordsKept
  BY DEF RecordsKept, Agreeing
<1>1. ASSUME NEW op \in Op, Ask(op) PROVE StaleInv'
  <2>1. active' = active \/ (active = Idle /\ active'.at = "save")
    BY <1>t, <1>1, StartKeeps DEF Ask
  <2> QED
    BY <1>r, <1>1, <2>1, StaleCalm DEF Ask, At, Idle, outside, seen
<1>2. ASSUME NEW op \in Op, Load(op) PROVE StaleInv'
  <2>1. active' = active \/ (active = Idle /\ active'.at = "save")
    BY <1>t, <1>2, StartKeeps DEF Load
  <2>2. RecordsKept
    BY <1>2 DEF Load, RecordsKept, Agreeing
  <2> QED
    BY <1>2, <2>1, <2>2, StaleCalm DEF Load, At, Idle, outside, seen
<1>3. ASSUME NEW e \in {"auto", "url"}, Configure(e) PROVE StaleInv'
  <2>1. RecordsKept
    BY <1>3 DEF Configure, Saved, RecordsKept, Agreeing
  <2> QED
    BY <1>3, <2>1, StaleCalm DEF Configure, outside, seen
<1>4. ASSUME StartAddon \/ UNCHANGED vars PROVE StaleInv'
  BY <1>r, <1>4, StaleCalm DEF StartAddon, vars, outside, data, seen
<1>5. ASSUME SaveStarted \/ SaveFinished PROVE StaleInv'
  <2>1. At("save") \/ At("end")
    BY <1>5 DEF SaveStarted, SaveFinished
  <2>2. RecordsKept
    BY <1>t, <1>5, <2>1, JobType, SaveKeeps DEF SaveStarted, SaveFinished, At, data
  <2>3. active'.at \in {"connect", "idle"}
    BY <1>t, <1>5 DEF SaveStarted, SaveFinished, Idle, TypeInv, Active
  <2> QED
    BY <1>5, <2>1, <2>2, <2>3, StaleCalm DEF SaveStarted, SaveFinished, At, outside, seen
<1>6. ASSUME Connect \/ Modules \/ BrokerSettings \/ GetFlows \/ Subscribe \/ WaitHealth
             \/ ClearRetained
      PROVE  StaleInv'
  <2>1. /\ UNCHANGED <<flows, request, records, store, loaded>> /\ loose' = loose
        /\ active.at # "record" /\ active'.at # "record"
    BY <1>t, <1>6 DEF Connect, Modules, BrokerSettings, GetFlows, Subscribe, WaitHealth, ClearRetained,
       Fails, Finish, Go, Noticed, At, TypeInv, Active, outside, data, seen
  <2> QED
    BY <1>r, <2>1, StaleCalm DEF At
<1>7. ASSUME SetFlows PROVE StaleInv'
  BY <1>7, StaleSetFlows
<1>8. ASSUME Record PROVE StaleInv'
  BY <1>8, StaleRecord
<1>9. ASSUME NEW s \in Server, NEW b \in Bridge, NEW g \in BOOLEAN, Heartbeat(s, b, g)
      PROVE  StaleInv'
  <2>1. active' = active \/ (active.at = "verifying" /\ active'.at = "verifying")
    BY <1>t, <1>9 DEF Heartbeat, Noticed, TypeInv, Active, At
  <2> QED
    BY <1>r, <1>9, <2>1, StaleCalm DEF Heartbeat, At, data
<1>10. ASSUME NEW b \in Bridge, Age(b) PROVE StaleInv'
  BY <1>r, <1>10, StaleCalm DEF Age, data, seen
<1>11. ASSUME NEW s \in Server, NEW n \in UserNode, Edit(s, n) PROVE StaleInv'
  <2>1. \A t \in Server : flows'[t].tab = flows[t].tab /\ flows'[t].configs = flows[t].configs
    <3>1. flows[s] \in Flows /\ flows \in [Server -> Flows]
      BY <1>t DEF TypeInv
    <3>2. PICK u : flows' = [flows EXCEPT ![s] = [flows[s] EXCEPT !.user = u]]
      BY <1>11 DEF Edit
    <3> DEFINE edited == [flows[s] EXCEPT !.user = u]
    <3>3. edited.tab = flows[s].tab /\ edited.configs = flows[s].configs
      BY <3>1 DEF Flows
    <3> HIDE DEF edited
    <3> QED
      BY <3>1, <3>2, <3>3 DEF edited
  <2>2. /\ UNCHANGED <<active, request, records, store, loaded>> /\ loose' = loose
    BY <1>11 DEF Edit, data
  <2>3. \A t \in Server, b \in Bridge : Undisturbed(t, b)
    BY <2>1, <2>2 DEF Undisturbed, Recording, Asked, At, Job
  <2> QED
    BY <1>r, <2>2, <2>3, StaleQuiet
<1>12. ASSUME NEW s \in Server, NEW d \in Bridge, DeleteTab(s, d) PROVE StaleInv'
  <2>1. ASSUME NEW t \in Server, NEW b \in Bridge, <<t, b>> # <<s, d>>
        PROVE  flows'[t].tab[b] = flows[t].tab[b] /\ flows'[t].configs = flows[t].configs
    <3> DEFINE left == [flows[s] EXCEPT !.tab = [flows[s].tab EXCEPT ![d] = NoOp]]
    <3>1. flows \in [Server -> Flows] /\ flows[s] \in Flows /\ flows[s].tab \in [Bridge -> Op \cup {NoOp}]
      BY <1>t DEF TypeInv, Flows
    <3>2. left.configs = flows[s].configs /\ (b # d => left.tab[b] = flows[s].tab[b])
      BY <3>1 DEF Flows
    <3>3. flows' = [flows EXCEPT ![s] = left]
      BY <1>12 DEF DeleteTab
    <3> HIDE DEF left
    <3> QED
      BY <2>1, <3>1, <3>2, <3>3
  <2>2. /\ UNCHANGED <<active, request, records, store, loaded>> /\ loose' = loose \cup {<<s, d>>}
    BY <1>12 DEF DeleteTab, data
  <2>3. \A t \in Server, b \in Bridge : <<t, b>> \in loose' \/ Undisturbed(t, b)
    BY <2>1, <2>2 DEF Undisturbed, Recording, Asked, At, Job
  <2> QED
    BY <1>r, <2>2, <2>3, StaleQuiet
<1>13. ASSUME Crash PROVE StaleInv'
  <2>1. /\ UNCHANGED <<flows, request, store>> /\ ~loaded' /\ active' = Idle
        /\ records' = [b \in Bridge |-> NoRecord]
        /\ loose' = IF At("record") THEN loose \cup {<<active.server, Job.bridge>>} ELSE loose
    BY <1>13 DEF Crash, outside
  <2>2. RecordsKept
    BY <2>1 DEF RecordsKept, Agreeing
  <2>3. \A t \in Server, b \in Bridge : <<t, b>> \in loose' \/ Undisturbed(t, b)
    BY <2>1 DEF Undisturbed, Recording, At, Idle
  <2> QED
    BY <2>1, <2>2, <2>3, StaleQuiet
<1> QED
  BY <1>1, <1>2, <1>3, <1>4, <1>5, <1>6, <1>7, <1>8, <1>9, <1>10, <1>11, <1>12, <1>13 DEF Next, JobStep

LEMMA StaleImplies ==
  ASSUME NodeRedAssumption PROVE IInv /\ StaleInv => NoStaleConfig
<1> SUFFICES ASSUME IInv, StaleInv, NEW s \in Server, NEW b \in Bridge, <<s, b>> \notin loose
             PROVE  flows[s].configs \cap ConfigsOf(b)
                      = (IF flows[s].tab[b] = NoOp THEN {} ELSE request[flows[s].tab[b]].configs)
  BY DEF NoStaleConfig
<1>1. CASE Recording(s, b) /\ Matches(s, b, Asked)
  <2>1. active.op \in Op
    BY <1>1 DEF IInv, JobInv, Recording, At
  <2> QED
    BY <1>1, <2>1 DEF Matches, Asked, NoRecord, Job, NodeRedAssumption
<1>2. CASE Matches(s, b, store.records[b])
  <2>1. store.records[b] \in RecordsOf(b)
    BY DEF StaleInv
  <2>2. CASE store.records[b] = NoRecord
    BY <1>2, <2>2 DEF Matches, NoRecord
  <2>3. CASE store.records[b] # NoRecord
    <3>1. PICK op \in Op : store.records[b] = [op |-> op, configs |-> request[op].configs]
      BY <2>1, <2>3 DEF RecordsOf
    <3> QED
      BY <1>2, <3>1 DEF Matches, NodeRedAssumption
  <2> QED
    BY <2>2, <2>3
<1> QED
  BY <1>1, <1>2 DEF StaleInv

LEMMA StaleHolds == ASSUME NodeRedAssumption PROVE Spec => [](IInv /\ StaleInv)
<1> QED
  BY NodeRedInit, NodeRedStep, StaleInit, StaleStep, PTL DEF Spec

(* A server has of a bridge the configuration nodes of what is installed of  *)
(* it, and none of an earlier deployment, in whatever order gateways are      *)
(* deployed, moved, removed and edited (NoStaleConfig).                        *)
THEOREM NothingStale == ASSUME NodeRedAssumption PROVE Spec => []NoStaleConfig
<1> QED
  BY StaleHolds, StaleImplies, PTL
----------------------------------------------------------------------------
(* What a job that completes has seen *)

Ending == {"verify", "verifying", "clear"}

(* A gateway is heard only by the deployment that it reports, ... *)
HeardInv ==
  /\ \A b \in Bridge : retained[b].gateway => retained[b].op \in alive
  /\ active.gateway => active.mqtt /\ active.op \in alive
(* ... and from its record on a job finds it saved, and a removal no tab. *)
EndingInv ==
  /\ active.at \in {"verify", "verifying"} =>
       Job.kind = "deploy" /\ records[Job.bridge].op = active.op /\ store.records[Job.bridge].op = active.op
  /\ active.at = "clear" =>
       /\ Job.kind = "remove" /\ records[Job.bridge] = NoRecord /\ store.records[Job.bridge] = NoRecord
       /\ flows[active.server].tab[Job.bridge] = NoOp

LEMMA TruthInit == Init => HeardInv /\ EndingInv
  BY DEF Init, HeardInv, EndingInv, Silent, Idle

(* Steps that hear nothing, *)
LEMMA HeardQuiet ==
  ASSUME HeardInv, alive \subseteq alive',
         \A b \in Bridge : retained'[b] = retained[b] \/ retained'[b] = Silent,
         active'.gateway => active.gateway /\ active'.mqtt = active.mqtt /\ active'.op = active.op
  PROVE  HeardInv'
  BY DEF HeardInv, Silent

(* and steps that change no record while a job ends. *)
LEMMA EndingQuiet ==
  ASSUME EndingInv, IInv, request' = request,
         active'.at \in Ending =>
           /\ active'.at = active.at /\ active'.op = active.op /\ active'.server = active.server
           /\ \A b \in Bridge : records'[b] \in {records[b], store.records[b]}
                                /\ store'.records[b] \in {records[b], store.records[b]}
           /\ \A s \in Server, b \in Bridge : flows'[s].tab[b] \in {flows[s].tab[b], NoOp}
  PROVE  EndingInv'
<1>1. CASE active'.at \notin Ending
  BY <1>1 DEF EndingInv, Ending
<1>2. CASE active'.at \in Ending
  <2>1. Job' = Job
    BY <1>2 DEF Job
  <2>2. Job.bridge \in Bridge /\ active.server \in Server
    BY <1>2, JobType DEF IInv, JobInv, Ending, Working
  <2> HIDE DEF Job
  <2> QED
    BY <1>2, <2>1, <2>2 DEF EndingInv
<1> QED
  BY <1>1, <1>2

LEMMA TruthStep ==
  ASSUME NodeRedAssumption
  PROVE  IInv /\ HeardInv /\ EndingInv /\ [Next]_vars => HeardInv' /\ EndingInv'
<1> SUFFICES ASSUME IInv, HeardInv, EndingInv, [Next]_vars PROVE HeardInv' /\ EndingInv'
  OBVIOUS
<1>t. TypeInv /\ JobInv /\ active \in Active /\ records \in Records
  BY DEF IInv, TypeInv
<1>s. \A e, l, j : \A ok \in BOOLEAN :
        Save(e, l, records, j, ok) => \A b \in Bridge : store'.records[b] \in {records[b], store.records[b]}
  BY DEF Save, Saved
<1>1. ASSUME NEW op \in Op, Ask(op) \/ Load(op) PROVE HeardInv' /\ EndingInv'
  <2>1. active' = active \/ (active'.at = "save" /\ ~active'.gateway)
    BY <1>t, <1>1, StartKeeps DEF Ask, Load
  <2>2. HeardInv'
    BY <1>1, <2>1, HeardQuiet DEF Ask, Load, outside, seen
  <2>3. EndingInv'
    BY <1>1, <2>1, EndingQuiet DEF Ask, Load, outside, Ending
  <2> QED
    BY <2>2, <2>3
<1>2. ASSUME NEW e \in {"auto", "url"}, Configure(e) PROVE HeardInv' /\ EndingInv'
  <2>1. \A b \in Bridge : store'.records[b] \in {records[b], store.records[b]}
    BY <1>2 DEF Configure, Saved
  <2>2. HeardInv'
    BY <1>2, HeardQuiet DEF Configure, outside, seen
  <2>3. EndingInv'
    BY <1>2, <2>1, EndingQuiet DEF Configure, outside, seen
  <2> QED
    BY <2>2, <2>3
<1>3. ASSUME StartAddon \/ UNCHANGED vars PROVE HeardInv' /\ EndingInv'
  <2>1. HeardInv'
    BY <1>3, HeardQuiet DEF StartAddon, vars, outside, seen
  <2>2. EndingInv'
    BY <1>3, EndingQuiet DEF StartAddon, vars, outside, data, seen
  <2> QED
    BY <2>1, <2>2
<1>4. ASSUME \/ SaveStarted \/ SaveFinished \/ Connect \/ Modules \/ BrokerSettings \/ GetFlows
             \/ SetFlows \/ WaitHealth \/ ClearRetained
      PROVE  HeardInv' /\ EndingInv'
  <2>1. /\ active'.at \notin Ending /\ request' = request /\ alive' = alive
        /\ active'.gateway => active.gateway /\ active'.mqtt = active.mqtt /\ active'.op = active.op
    <3>1. CASE SaveStarted \/ SaveFinished
      BY <1>t, <3>1 DEF SaveStarted, SaveFinished, Idle, Active, Ending, outside, seen
    <3>2. CASE Connect
      <4>1. \/ active' = [active EXCEPT !.at = "end"]
            \/ \E s \in Server, at \in {"modules", "read"} :
                 active' = [active EXCEPT !.server = s, !.at = at]
        BY <3>2 DEF Connect, Fails, Finish, Located, Server
      <4> QED
        BY <1>t, <3>2, <4>1 DEF Connect, Active, Ending, seen
    <3>3. CASE Modules \/ BrokerSettings \/ GetFlows
      BY <1>t, <3>3 DEF Modules, BrokerSettings, GetFlows, Fails, Finish, Go, Active, Ending, outside, seen
    <3>4. CASE SetFlows
      BY <1>t, <3>4 DEF SetFlows, Fails, Finish, Go, Active, Ending
    <3>5. CASE WaitHealth \/ ClearRetained
      BY <1>t, <3>5 DEF WaitHealth, ClearRetained, Finish, Active, Ending, outside, seen
    <3> QED
      BY <1>4, <3>1, <3>2, <3>3, <3>4, <3>5
  <2>2. \A b \in Bridge : retained'[b] = retained[b] \/ retained'[b] = Silent
    BY <1>t, <1>4 DEF SaveStarted, SaveFinished, Connect, Modules, BrokerSettings, GetFlows, SetFlows,
       WaitHealth, ClearRetained, outside, TypeInv
  <2> QED
    BY <2>1, <2>2, HeardQuiet, EndingQuiet
<1>5. ASSUME Record PROVE HeardInv' /\ EndingInv'
  <2> DEFINE d == Job.bridge
             s == active.server
             kept == IF Job.kind = "deploy"
                     THEN [op |-> active.op, configs |-> Job.configs] ELSE NoRecord
  <2>1. /\ s \in Server /\ d \in Bridge /\ active.at = "record" /\ request' = request /\ flows' = flows
        /\ records' = [records EXCEPT ![d] = kept] /\ retained' = retained /\ alive' = alive
    BY <1>t, <1>5, JobType DEF Record, JobInv, Working, At, outside
  <2>2. PICK ok \in BOOLEAN :
          /\ Save(endpoint, list, records', jobs, ok)
          /\ IF ok THEN Go(IF Job.kind = "deploy" THEN "verify" ELSE "clear") ELSE Finish("failed")
    BY <1>5 DEF Record
  <2>3. /\ active' = [active EXCEPT !.at = IF ok THEN IF Job.kind = "deploy" THEN "verify" ELSE "clear"
                                             ELSE "end"]
        /\ ok => store'.records = records'
    BY <2>2 DEF Go, Finish, Save, Saved
  <2>4. HeardInv'
    BY <1>t, <2>1, <2>3, HeardQuiet DEF Active
  <2>5. Job' = Job /\ active'.op = active.op /\ active'.server = s
    BY <1>t, <2>1, <2>3 DEF Job, Active
  <2>6. records'[d] = kept
    BY <1>t, <2>1 DEF Records
  <2>7. Job.kind \in {"deploy", "remove"}
    BY <1>t, JobType, <2>1 DEF TypeInv, Request, Job
  <2>8. Job.kind = "remove" => flows[s].tab[d] = NoOp
    BY <2>1 DEF IInv, ListedInv, At
  <2> HIDE DEF Job
  <2>9. CASE ok /\ Job.kind = "deploy"
    <3>1. active'.at = "verify"
      BY <1>t, <2>3, <2>9 DEF Active
    <3> QED
      BY <2>3, <2>4, <2>5, <2>6, <2>9, <3>1 DEF EndingInv
  <2>10. CASE ok /\ Job.kind = "remove"
    <3>1. active'.at = "clear" /\ flows' = flows
      BY <1>t, <2>1, <2>3, <2>10 DEF Active
    <3> QED
      BY <2>3, <2>4, <2>5, <2>6, <2>8, <2>10, <3>1 DEF EndingInv
  <2>11. CASE ~ok
    BY <1>t, <2>3, <2>4, <2>11 DEF EndingInv, Active
  <2> QED
    BY <2>4, <2>7, <2>9, <2>10, <2>11
<1>6. ASSUME Subscribe PROVE HeardInv' /\ EndingInv'
  <2>1. /\ active.at = "verify" /\ active' = Noticed(retained[Job.bridge]) /\ Job.bridge \in Bridge
        /\ UNCHANGED <<retained, alive, request, records, store, flows>>
    BY <1>t, <1>6, JobType DEF Subscribe, At, outside, data, seen
  <2>2. active'.at = "verifying" /\ active'.op = active.op
    BY <1>t, <2>1 DEF Noticed, Active
  <2>3. HeardInv'
    BY <1>t, <2>1 DEF HeardInv, Noticed, Health, Active
  <2>4. Job' = Job
    BY <2>1, <2>2 DEF Job
  <2> HIDE DEF Job
  <2> QED
    BY <2>1, <2>2, <2>3, <2>4 DEF EndingInv
<1>7. ASSUME NEW s \in Server, NEW b \in Bridge, NEW g \in BOOLEAN, Heartbeat(s, b, g)
      PROVE  HeardInv' /\ EndingInv'
  <2> DEFINE message == [op |-> flows[s].tab[b], gateway |-> g]
  <2>1. /\ retained' = [retained EXCEPT ![b] = message]
        /\ alive \subseteq alive' /\ (g => flows[s].tab[b] \in alive')
        /\ active' = active \/ (active.at = "verifying" /\ active' = Noticed(message))
        /\ UNCHANGED <<request, records, store, flows>>
    BY <1>7 DEF Heartbeat, At, data
  <2>2. \A d \in Bridge : retained'[d].gateway => retained'[d].op \in alive'
    BY <1>t, <2>1 DEF HeardInv, TypeInv
  <2>3. /\ active'.at = active.at /\ active'.op = active.op /\ active'.server = active.server
        /\ active'.gateway => active'.mqtt /\ active'.op \in alive'
    BY <1>t, <2>1 DEF HeardInv, Noticed, Health, Active
  <2> QED
    BY <2>1, <2>2, <2>3, EndingQuiet DEF HeardInv
<1>8. ASSUME NEW b \in Bridge, Age(b) PROVE HeardInv' /\ EndingInv'
  <2>1. HeardInv'
    BY <1>t, <1>8, HeardQuiet DEF Age, seen, TypeInv
  <2>2. EndingInv'
    BY <1>8, EndingQuiet DEF Age, data
  <2> QED
    BY <2>1, <2>2
<1>9. ASSUME NEW s \in Server, NEW n, Edit(s, n) PROVE HeardInv' /\ EndingInv'
  <2>1. \A t \in Server : flows'[t].tab = flows[t].tab
    <3>1. flows[s] \in Flows /\ flows \in [Server -> Flows]
      BY <1>t DEF TypeInv
    <3>2. PICK u : flows' = [flows EXCEPT ![s] = [flows[s] EXCEPT !.user = u]]
      BY <1>9 DEF Edit
    <3> DEFINE edited == [flows[s] EXCEPT !.user = u]
    <3>3. edited.tab = flows[s].tab
      BY <3>1 DEF Flows
    <3> HIDE DEF edited
    <3> QED
      BY <3>1, <3>2, <3>3 DEF edited
  <2>2. UNCHANGED <<active, request, records, store, loaded, retained, alive>>
    BY <1>9 DEF Edit, data
  <2> QED
    BY <2>1, <2>2, HeardQuiet, EndingQuiet
<1>10. ASSUME NEW s \in Server, NEW d \in Bridge, DeleteTab(s, d) PROVE HeardInv' /\ EndingInv'
  <2>1. \A t \in Server, b \in Bridge : flows'[t].tab[b] \in {flows[t].tab[b], NoOp}
    <3> DEFINE left == [flows[s] EXCEPT !.tab = [flows[s].tab EXCEPT ![d] = NoOp]]
    <3>1. flows \in [Server -> Flows] /\ flows[s] \in Flows /\ flows[s].tab \in [Bridge -> Op \cup {NoOp}]
      BY <1>t DEF TypeInv, Flows
    <3>2. \A b \in Bridge : left.tab[b] \in {flows[s].tab[b], NoOp}
      BY <3>1 DEF Flows
    <3>3. flows' = [flows EXCEPT ![s] = left]
      BY <1>10 DEF DeleteTab
    <3> HIDE DEF left
    <3> QED
      BY <3>1, <3>2, <3>3
  <2>2. UNCHANGED <<active, request, records, store, loaded, retained, alive>>
    BY <1>10 DEF DeleteTab, data
  <2> QED
    BY <2>1, <2>2, HeardQuiet, EndingQuiet
<1>11. ASSUME Crash PROVE HeardInv' /\ EndingInv'
  <2>1. active' = Idle /\ request' = request /\ UNCHANGED <<retained, alive>>
    BY <1>11 DEF Crash, outside
  <2> QED
    BY <2>1, HeardQuiet DEF EndingInv, Idle
<1> QED
  BY <1>1, <1>2, <1>3, <1>4, <1>5, <1>6, <1>7, <1>8, <1>9, <1>10, <1>11 DEF Next, JobStep
----------------------------------------------------------------------------
(* The history of jobs *)

Entry == [op : Op, state : {"live", "none", "running", "completed", "failed", "interrupted"}]
States == {"none", "running", "completed", "failed"}

(* Histories are sequences of jobs that do not outgrow their bound. *)
HistoryInv ==
  /\ modules \subseteq Server /\ up \subseteq Server /\ waiting \subseteq Op
  /\ endpoint \in {"auto", "url"} /\ store.endpoint \in {"auto", "url"}
  /\ jobs \in [Op -> States]
  /\ list \in Seq(Entry) /\ Len(list) <= MaxJobs
  /\ store.list \in Seq(Entry) /\ Len(store.list) <= MaxJobs

LEMMA LatestBound ==
  ASSUME NEW S, NEW l \in Seq(S), NodeRedAssumption
  PROVE  Latest(l) \in Seq(S) /\ Len(Latest(l)) <= MaxJobs
<1>1. MaxJobs \in Nat /\ Len(l) \in Nat
  BY DEF NodeRedAssumption
<1>2. CASE Len(l) > MaxJobs
  <2>1. Latest(l) = SubSeq(l, Len(l) - MaxJobs + 1, Len(l))
    BY <1>2 DEF Latest
  <2> QED
    BY <1>1, <1>2, <2>1
<1>3. CASE ~(Len(l) > MaxJobs)
  <2>1. Latest(l) = SubSeq(l, 0 + 1, Len(l))
    BY <1>3 DEF Latest
  <2> QED
    BY <1>1, <1>3, <2>1
<1> QED
  BY <1>2, <1>3

LEMMA OthersType ==
  ASSUME NEW l \in Seq(Entry), NEW op
  PROVE  Others(l, op) \in Seq(Entry)
<1> DEFINE at == {i \in DOMAIN l : l[i].op = op}
           i == CHOOSE i \in at : TRUE
<1>1. CASE at = {}
  BY <1>1 DEF Others
<1>2. CASE at # {}
  <2>1. i \in 1 .. Len(l)
    BY <1>2
  <2>2. Others(l, op) = SubSeq(l, 1, i - 1) \o SubSeq(l, i + 1, Len(l))
    BY <1>2 DEF Others
  <2> HIDE DEF i
  <2>3. SubSeq(l, 1, i - 1) \in Seq(Entry) /\ SubSeq(l, i + 1, Len(l)) \in Seq(Entry)
    BY <2>1
  <2> QED
    BY <2>2, <2>3
<1> QED
  BY <1>1, <1>2

(* A start, whatever comes of it. *)
LEMMA StartHistory ==
  ASSUME NodeRedAssumption, HistoryInv, NEW op \in Op, NEW l \in Seq(Entry), Len(l) <= MaxJobs,
         NEW r, Start(op, l, r)
  PROVE  /\ list' \in Seq(Entry) /\ Len(list') <= MaxJobs
         /\ jobs' \in [Op -> States] /\ \A o \in Op : jobs'[o] \in {jobs[o], "running"}
<1>1. CASE list' = l /\ jobs' = jobs
  BY <1>1 DEF HistoryInv
<1>2. CASE /\ jobs' = [jobs EXCEPT ![op] = "running"]
           /\ list' = Latest(Append(Others(l, op), [op |-> op, state |-> "live"]))
  <2>1. Append(Others(l, op), [op |-> op, state |-> "live"]) \in Seq(Entry)
    <3>1. Others(l, op) \in Seq(Entry)
      BY OthersType
    <3>2. [op |-> op, state |-> "live"] \in Entry
      BY DEF Entry
    <3> QED
      BY <3>1, <3>2
  <2>2. list' \in Seq(Entry) /\ Len(list') <= MaxJobs
    BY <1>2, <2>1, LatestBound
  <2>3. jobs' \in [Op -> States] /\ \A o \in Op : jobs'[o] \in {jobs[o], "running"}
    BY <1>2 DEF HistoryInv, States
  <2> QED
    BY <2>2, <2>3
<1> QED
  BY <1>1, <1>2 DEF Start

(* What is saved is a history again. *)
LEMMA SavedHistory ==
  ASSUME HistoryInv, NEW e \in {"auto", "url"}, NEW r
  PROVE  /\ Saved(e, list, r, jobs).list \in Seq(Entry)
         /\ Len(Saved(e, list, r, jobs).list) <= MaxJobs
         /\ Saved(e, list, r, jobs).endpoint = e
<1> DEFINE entry(i) == [op |-> list[i].op,
                        state |-> IF list[i].state = "live" THEN jobs[list[i].op] ELSE list[i].state]
           saved == [i \in DOMAIN list |-> entry(i)]
<1>1. DOMAIN list = 1 .. Len(list) /\ Len(list) \in Nat /\ Len(list) <= MaxJobs
  BY DEF HistoryInv
<1>2. \A i \in 1 .. Len(list) : entry(i) \in Entry
  <2>1. \A i \in 1 .. Len(list) : list[i] \in Entry
    BY DEF HistoryInv
  <2> QED
    BY <2>1 DEF HistoryInv, Entry, States
<1>3. Saved(e, list, r, jobs).list = saved /\ Saved(e, list, r, jobs).endpoint = e
  BY DEF Saved
<1> HIDE DEF entry
<1>4. saved \in [1 .. Len(list) -> Entry]
  BY <1>1, <1>2
<1> HIDE DEF saved
<1>5. saved \in Seq(Entry) /\ Len(saved) = Len(list)
  BY <1>1, <1>4
<1> QED
  BY <1>1, <1>3, <1>5

LEMMA SaveHistory ==
  ASSUME HistoryInv, NEW r, NEW ok \in BOOLEAN, Save(endpoint, list, r, jobs, ok)
  PROVE  store'.list \in Seq(Entry) /\ Len(store'.list) <= MaxJobs /\ store'.endpoint \in {"auto", "url"}
<1>1. endpoint \in {"auto", "url"}
  BY DEF HistoryInv
<1>2. store' = IF ok THEN Saved(endpoint, list, r, jobs) ELSE store
  BY DEF Save
<1> QED
  BY <1>1, <1>2, SavedHistory DEF HistoryInv

(* The history that is loaded: what ran when it was saved was interrupted. *)
LEMMA LoadedHistory ==
  ASSUME HistoryInv
  PROVE  LET l == [i \in DOMAIN store.list |->
                     [store.list[i] EXCEPT !.state = IF @ = "running" THEN "interrupted" ELSE @]]
         IN l \in Seq(Entry) /\ Len(l) <= MaxJobs
<1> DEFINE entry(i) == [store.list[i] EXCEPT !.state = IF @ = "running" THEN "interrupted" ELSE @]
           l == [i \in DOMAIN store.list |-> entry(i)]
<1>1. /\ DOMAIN store.list = 1 .. Len(store.list) /\ Len(store.list) \in Nat
      /\ Len(store.list) <= MaxJobs
  BY DEF HistoryInv
<1>2. \A i \in 1 .. Len(store.list) : entry(i) \in Entry
  <2>1. \A i \in 1 .. Len(store.list) : store.list[i] \in Entry
    BY DEF HistoryInv
  <2> QED
    BY <2>1 DEF Entry
<1> HIDE DEF entry
<1>3. l \in [1 .. Len(store.list) -> Entry]
  BY <1>1, <1>2
<1>4. l \in Seq(Entry) /\ Len(l) = Len(store.list)
  <2> HIDE DEF l
  <2> QED
    BY <1>1, <1>3
<1> QED
  BY <1>1, <1>4 DEF entry

LEMMA HistoryInit == ASSUME NodeRedAssumption PROVE Init => HistoryInv
<1> SUFFICES ASSUME Init PROVE HistoryInv
  OBVIOUS
<1>1. list = <<>> /\ store.list = <<>> /\ store.endpoint = "auto"
  BY DEF Init
<1>2. <<>> \in Seq(Entry) /\ Len(<<>>) <= MaxJobs
  BY DEF NodeRedAssumption
<1> QED
  BY <1>1, <1>2 DEF Init, HistoryInv, States, NodeRedAssumption

(* A job completes in the two steps that end one, and nowhere else. *)
CompletesOnly ==
  \A op \in Op : jobs[op] = "running" /\ jobs'[op] = "completed" =>
                   op = active.op /\ (WaitHealth \/ ClearRetained)

LEMMA HistoryStep ==
  ASSUME NodeRedAssumption
  PROVE  IInv /\ HistoryInv /\ [Next]_vars => HistoryInv' /\ CompletesOnly
<1> SUFFICES ASSUME IInv, HistoryInv, [Next]_vars PROVE HistoryInv' /\ CompletesOnly
  OBVIOUS
<1>t. TypeInv /\ JobInv /\ jobs \in [Op -> States] /\ active.op \in Op \cup {NoOp}
  BY DEF IInv, TypeInv, HistoryInv, Active
<1>1. ASSUME NEW op \in Op, Ask(op) PROVE HistoryInv' /\ CompletesOnly
  <2>1. CASE loaded
    <3>1. Start(op, list, records)
      BY <1>1, <2>1 DEF Ask
    <3>2. /\ list' \in Seq(Entry) /\ Len(list') <= MaxJobs
          /\ jobs' \in [Op -> States] /\ \A o \in Op : jobs'[o] \in {jobs[o], "running"}
      BY <3>1, StartHistory DEF HistoryInv
    <3> QED
      BY <1>1, <2>1, <3>2 DEF HistoryInv, CompletesOnly, Ask, outside
  <2>2. CASE ~loaded
    BY <1>1, <2>2 DEF HistoryInv, CompletesOnly, Ask, outside
  <2> QED
    BY <2>1, <2>2
<1>2. ASSUME NEW op \in Op, Load(op) PROVE HistoryInv' /\ CompletesOnly
  <2> DEFINE l == [i \in DOMAIN store.list |->
                     [store.list[i] EXCEPT !.state = IF @ = "running" THEN "interrupted" ELSE @]]
  <2>1. l \in Seq(Entry) /\ Len(l) <= MaxJobs
    BY LoadedHistory
  <2>2. Start(op, l, store.records)
    BY <1>2 DEF Load
  <2> HIDE DEF l
  <2>3. /\ list' \in Seq(Entry) /\ Len(list') <= MaxJobs
        /\ jobs' \in [Op -> States] /\ \A o \in Op : jobs'[o] \in {jobs[o], "running"}
    BY <2>1, <2>2, StartHistory
  <2> QED
    BY <1>2, <2>3 DEF HistoryInv, CompletesOnly, Load, outside
<1>3. ASSUME NEW e \in {"auto", "url"}, Configure(e) PROVE HistoryInv' /\ CompletesOnly
  <2>1. /\ store' = store \/ store' = Saved(e, list, records, jobs)
        /\ UNCHANGED <<modules, up, waiting, list, jobs>> /\ endpoint' = e
    BY <1>3 DEF Configure, outside
  <2>2. store'.list \in Seq(Entry) /\ Len(store'.list) <= MaxJobs /\ store'.endpoint \in {"auto", "url"}
    BY <1>3, <2>1, SavedHistory DEF HistoryInv
  <2> QED
    BY <1>3, <2>1, <2>2 DEF HistoryInv, CompletesOnly
<1>4. ASSUME StartAddon \/ UNCHANGED vars PROVE HistoryInv' /\ CompletesOnly
  BY <1>4 DEF StartAddon, vars, outside, data, HistoryInv, CompletesOnly, Server
<1>5. ASSUME SaveStarted \/ SaveFinished PROVE HistoryInv' /\ CompletesOnly
  <2>1. \E ok \in BOOLEAN : Save(endpoint, list, records, jobs, ok)
    BY <1>5 DEF SaveStarted, SaveFinished
  <2>2. store'.list \in Seq(Entry) /\ Len(store'.list) <= MaxJobs /\ store'.endpoint \in {"auto", "url"}
    BY <2>1, SaveHistory
  <2> QED
    BY <1>5, <2>2 DEF SaveStarted, SaveFinished, outside, data, HistoryInv, CompletesOnly
<1>6. ASSUME Record PROVE HistoryInv' /\ CompletesOnly
  <2>1. \E ok \in BOOLEAN : Save(endpoint, list, records', jobs, ok)
    BY <1>6 DEF Record
  <2>2. store'.list \in Seq(Entry) /\ Len(store'.list) <= MaxJobs /\ store'.endpoint \in {"auto", "url"}
    BY <2>1, SaveHistory
  <2>3. jobs' \in [Op -> States] /\ \A op \in Op : jobs'[op] \in {jobs[op], "failed"}
    BY <1>t, <1>6 DEF Record, Go, Finish, States
  <2> QED
    BY <1>6, <2>2, <2>3 DEF Record, outside, HistoryInv, CompletesOnly
<1>7. ASSUME Connect \/ Modules \/ BrokerSettings \/ GetFlows \/ SetFlows
      PROVE  HistoryInv' /\ CompletesOnly
  <2>1. jobs' \in [Op -> States] /\ \A op \in Op : jobs'[op] \in {jobs[op], "failed"}
    BY <1>t, <1>7 DEF Connect, Modules, BrokerSettings, GetFlows, SetFlows, Fails, Go, Finish, States
  <2>2. UNCHANGED <<up, waiting, endpoint, list, store>>
    BY <1>7 DEF Connect, Modules, BrokerSettings, GetFlows, SetFlows, outside, data
  <2>3. modules' \subseteq Server
    BY <1>t, <1>7 DEF Connect, Modules, BrokerSettings, GetFlows, SetFlows, outside, HistoryInv,
       JobInv, At, Working
  <2> QED
    BY <2>1, <2>2, <2>3 DEF HistoryInv, CompletesOnly
<1>8. ASSUME WaitHealth \/ ClearRetained PROVE HistoryInv' /\ CompletesOnly
  <2>1. jobs' = [jobs EXCEPT ![active.op] = "completed"]
    BY <1>8 DEF WaitHealth, ClearRetained, Finish
  <2>2. jobs' \in [Op -> States] /\ \A op \in Op : op # active.op => jobs'[op] = jobs[op]
    BY <1>t, <2>1 DEF States
  <2>3. UNCHANGED <<modules, up, waiting, endpoint, list, store>>
    BY <1>8 DEF WaitHealth, ClearRetained, outside, data
  <2> QED
    BY <1>8, <2>2, <2>3 DEF HistoryInv, CompletesOnly
<1>9. ASSUME \/ Subscribe
             \/ \E s \in Server, b \in Bridge, g \in BOOLEAN : Heartbeat(s, b, g)
             \/ \E b \in Bridge : Age(b)
             \/ \E s \in Server, n \in UserNode : Edit(s, n)
             \/ \E s \in Server, b \in Bridge : DeleteTab(s, b)
      PROVE  HistoryInv' /\ CompletesOnly
  <2>1. UNCHANGED <<modules, up, waiting, endpoint, list, store, jobs>>
    BY <1>9 DEF Subscribe, Heartbeat, Age, Edit, DeleteTab, outside, data
  <2> QED
    BY <2>1 DEF HistoryInv, CompletesOnly
<1>10. ASSUME Crash PROVE HistoryInv' /\ CompletesOnly
  <2>1. /\ list' = <<>> /\ endpoint' = "auto" /\ waiting' = {} /\ jobs' = [op \in Op |-> "none"]
        /\ UNCHANGED <<modules, up, store>>
    BY <1>10 DEF Crash, outside
  <2>2. <<>> \in Seq(Entry) /\ Len(<<>>) <= MaxJobs
    BY DEF NodeRedAssumption
  <2> QED
    BY <2>1, <2>2 DEF HistoryInv, CompletesOnly, States
<1> QED
  BY <1>1, <1>2, <1>3, <1>4, <1>5, <1>6, <1>7, <1>8, <1>9, <1>10 DEF Next, JobStep
----------------------------------------------------------------------------
(* What is proved from all of it *)

WholeInv == IInv /\ StaleInv /\ HeardInv /\ EndingInv /\ HistoryInv

LEMMA WholeInit == ASSUME NodeRedAssumption PROVE Init => WholeInv
  BY NodeRedInit, StaleInit, TruthInit, HistoryInit DEF WholeInv

LEMMA WholeStep == ASSUME NodeRedAssumption PROVE WholeInv /\ [Next]_vars => WholeInv'
  BY NodeRedStep, StaleStep, TruthStep, HistoryStep DEF WholeInv

LEMMA WholeTypes == WholeInv => TypeOK
  BY DEF WholeInv, IInv, TypeInv, HistoryInv, TypeOK, Active, Records, States

(* What a job has to have done where it completes. *)
LEMMA WholeTruth ==
  ASSUME NodeRedAssumption
  PROVE  WholeInv /\ [Next]_vars =>
           \A op \in Op : jobs[op] = "running" /\ jobs'[op] = "completed" => Fulfilled(op)
<1> SUFFICES ASSUME WholeInv, [Next]_vars, NEW op \in Op,
                    jobs[op] = "running", jobs'[op] = "completed"
             PROVE  Fulfilled(op)
  OBVIOUS
<1>1. op = active.op /\ (WaitHealth \/ ClearRetained)
  BY HistoryStep DEF WholeInv, CompletesOnly
<1>2. CASE WaitHealth
  BY <1>1, <1>2 DEF WaitHealth, At, WholeInv, EndingInv, HeardInv, Fulfilled, Job
<1>3. CASE ClearRetained
  BY <1>1, <1>3 DEF ClearRetained, At, WholeInv, EndingInv, Fulfilled, Job
<1> QED
  BY <1>1, <1>2, <1>3

(* The variables have their types and no history outgrows its bound (TypeOK). *)
THEOREM NodeRedTypes == ASSUME NodeRedAssumption PROVE Spec => []TypeOK
<1> QED
  BY WholeInit, WholeStep, WholeTypes, PTL DEF Spec

(* A deployment that completes is in the saved record, and a gateway that it   *)
(* reports was heard by it alone; what a removal took away is neither on record *)
(* nor in Node-RED (CompletedIsTrue).                                           *)
THEOREM JobsAreTrue == ASSUME NodeRedAssumption PROVE Spec => CompletedIsTrue
<1> QED
  BY WholeInit, WholeStep, WholeTruth, PTL DEF Spec, CompletedIsTrue
=============================================================================
