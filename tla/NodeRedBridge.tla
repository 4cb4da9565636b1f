----------------------------- MODULE NodeRedBridge -----------------------------
(***************************************************************************)
(* The deployments of node_red_bridge.py through node_red_client.py: one   *)
(* job at a time installs the flows of a gateway, one tab each, or removes *)
(* them, in a Node-RED that its user edits at the same time.  Flows are    *)
(* read, merged and written back under a revision; the record of what is   *)
(* installed is saved in Home Assistant, which may stop in between.        *)
(*                                                                         *)
(* A revision is a hash that Node-RED makes of its flows, so here it is    *)
(* the flows.  Node-RED, the Supervisor and MQTT are external.             *)
(***************************************************************************)
EXTENDS Naturals, Sequences, FiniteSets

CONSTANTS
  Op, NoOp,      \* identifiers of jobs, and none
  Bridge,        \* gateways: each has a tab
  ConfigNode,    \* configuration nodes of gateways
  UserNode,      \* what the user of Node-RED builds
  Plans,         \* what the jobs can be asked for
  Present,       \* the servers that exist
  MqttReady,     \* Home Assistant's MQTT is set up
  MaxJobs,       \* bounds: jobs kept in the store (10 in the code),
  MaxFaults      \*   and, together, calls that fail, stops of Home Assistant, edits by
                 \*   the user and changes of the endpoint

Server == {"addon", "local", "url"}
NoServer == "none"
NoRecord == [op |-> NoOp, configs |-> {}]
Flows == [user : SUBSET UserNode, tab : [Bridge -> Op \cup {NoOp}], configs : SUBSET ConfigNode]
Request == [kind : {"deploy", "remove"}, bridge : Bridge, configs : SUBSET ConfigNode,
            modbus : BOOLEAN, custom : BOOLEAN]

(* What the constants are; assumed where they have values, in Bridges.     *)
(* validate_flow takes configuration nodes of the declared gateway only.   *)
NodeRedAssumption ==
  /\ NoOp \notin Op /\ Plans \subseteq [Op -> Request]
  /\ \A plan \in Plans : \A o, p \in Op :
       plan[o].bridge # plan[p].bridge => plan[o].configs \cap plan[p].configs = {}
  /\ Present \subseteq Server /\ MqttReady \in BOOLEAN
  /\ {MaxJobs, MaxFaults} \subseteq Nat

VARIABLES
  flows,     \* the flows of every server
  modules,   \* the servers that have the Modbus nodes
  up,        \* the servers that run
  retained,  \* the retained heartbeat of every bridge
  endpoint,  \* data["endpoint"]: "auto" or "url"
  loaded, waiting, list, jobs, active, request,   \* as in FrigateBridge
  records,   \* data["bridges"]
  store,     \* the data as it was saved last
  mine,      \* observation: the user's nodes, as the user left them,
  alive,     \*   the deployments that reported their gateway
  loose,     \*   and installations whose job met a failure, a lost answer or a stop
  faults     \* bound

outside == <<flows, modules, up, retained>>
data == <<endpoint, list, records>>
seen == <<mine, alive, loose>>
vars == <<outside, data, loaded, waiting, jobs, active, request, store, seen, faults>>

(* None, or one that is older than two minutes. *)
Silent == [op |-> NoOp, gateway |-> FALSE]
NoFlows == [user |-> {}, tab |-> [b \in Bridge |-> NoOp], configs |-> {}]
Idle == [op |-> NoOp, at |-> "idle", server |-> NoServer, read |-> NoFlows, attempt |-> 1,
         mqtt |-> FALSE, gateway |-> FALSE]

Init ==
  /\ flows = [s \in Server |-> NoFlows] /\ modules = {} /\ up \in {Present, Present \ {"addon"}}
  /\ retained = [b \in Bridge |-> Silent]
  /\ endpoint = "auto" /\ loaded = FALSE /\ waiting = {} /\ list = <<>>
  /\ records = [b \in Bridge |-> NoRecord]
  /\ store = [endpoint |-> "auto", list |-> <<>>, records |-> records]
  /\ jobs = [op \in Op |-> "none"] /\ active = Idle /\ request \in Plans
  /\ mine = [s \in Server |-> {}] /\ alive = {} /\ loose = {}
  /\ faults = 0

----------------------------------------------------------------------------
(* Helpers *)

Strike(n) == faults' = faults + n /\ faults' <= MaxFaults
Calm == Strike(0)

(* _locate: the configured address; else the add-on, running or not; else, *)
(* and when the Supervisor does not answer, the addresses of this host.    *)
Located(supervised) ==
  IF endpoint = "url" THEN "url"
  ELSE IF supervised /\ "addon" \in Present THEN "addon" ELSE "local"
Ready(s) == s \in up

(* merge_flows: this bridge's tab and configuration nodes are replaced. *)
MergeFlows(current, b, op, configs, stale) ==
  [current EXCEPT !.tab[b] = op, !.configs = (@ \ (stale \cup configs)) \cup configs]
(* Mutant: the tab itself stays. *)
KeptTab(current, b, configs) == [current EXCEPT !.configs = @ \ configs]
Kept(current, b, configs) ==
  [current EXCEPT !.tab[b] = NoOp, !.configs = @ \ configs]

(* Mutant: a heartbeat of any deployment counts. *)
HealthOfAny(message, op) ==
  [mqtt |-> message.op # NoOp, gateway |-> message.op # NoOp /\ message.gateway]
(* heartbeat_health: only the deployment's own message, and a fresh one. *)
Health(message, op) ==
  [mqtt |-> message.op = op, gateway |-> message.op = op /\ message.gateway]

Job == request[active.op]
At(stage) == active.at = stage
Go(stage) == active' = [active EXCEPT !.at = stage] /\ UNCHANGED jobs
Finish(state) ==
  /\ jobs' = [jobs EXCEPT ![active.op] = state]
  /\ active' = [active EXCEPT !.at = "end"]

Saved(e, l, r, j) ==
  [endpoint |-> e,
   list |-> [i \in DOMAIN l |-> [op |-> l[i].op,
               state |-> IF l[i].state = "live" THEN j[l[i].op] ELSE l[i].state]],
   records |-> r]
Save(e, l, r, j, ok) ==
  /\ Strike(IF ok THEN 0 ELSE 1)
  /\ store' = IF ok THEN Saved(e, l, r, j) ELSE store

(* Mutant: the history of jobs grows for ever. *)
LatestOfAll(l) == l
Latest(l) == SubSeq(l, (IF Len(l) > MaxJobs THEN Len(l) - MaxJobs ELSE 0) + 1, Len(l))
(* A job is listed once. *)
Others(l, op) ==
  LET at == {i \in DOMAIN l : l[i].op = op}
      i == CHOOSE i \in at : TRUE
  IN IF at = {} THEN l ELSE SubSeq(l, 1, i - 1) \o SubSeq(l, i + 1, Len(l))

----------------------------------------------------------------------------
(* Requests *)

(* start_deploy and start_remove: a job that is unknown here starts, also *)
(* when its record says that it was interrupted.                          *)
Start(op, l, r) ==
  IF jobs[op] # "none" \/ active # Idle
     \/ (request[op].kind = "remove" /\ r[request[op].bridge] = NoRecord)
  THEN list' = l /\ UNCHANGED <<jobs, active>>
  ELSE /\ jobs' = [jobs EXCEPT ![op] = "running"]
       /\ list' = Latest(Append(Others(l, op), [op |-> op, state |-> "live"]))
       /\ active' = [Idle EXCEPT !.op = op, !.at = "save"]

Ask(op) ==
  /\ IF loaded THEN Start(op, list, records) /\ UNCHANGED waiting
     ELSE waiting' = waiting \cup {op} /\ UNCHANGED <<list, jobs, active>>
  /\ UNCHANGED <<outside, endpoint, records, loaded, request, store, seen, faults>>

Load(op) ==
  /\ op \in waiting /\ waiting' = waiting \ {op} /\ loaded' = TRUE
  /\ endpoint' = store.endpoint /\ records' = store.records
  /\ Start(op, [i \in DOMAIN store.list |->
                  [store.list[i] EXCEPT !.state = IF @ = "running" THEN "interrupted" ELSE @]],
           store.records)
  /\ UNCHANGED <<outside, request, store, seen, faults>>

(* configure: the server that all later jobs use; an address must answer. *)
Configure(e) ==
  /\ loaded /\ e # endpoint
  /\ e = "url" => Ready("url")
  /\ endpoint' = e
  /\ Strike(1) /\ store' \in {store, Saved(e, list, records, jobs)}
  /\ UNCHANGED <<outside, list, records, loaded, waiting, jobs, active, request, seen>>

StartAddon ==
  /\ "addon" \in Present \ up /\ up' = up \cup {"addon"}
  /\ UNCHANGED <<flows, modules, retained, data, loaded, waiting, jobs, active, request, store, seen,
                 faults>>

(* The first save is not guarded: when it raises, nothing else runs, and *)
(* the job stays as it is.                                               *)
SaveStarted ==
  /\ At("save")
  /\ \E ok \in BOOLEAN :
       /\ Save(endpoint, list, records, jobs, ok)
       /\ active' = IF ok THEN [active EXCEPT !.at = "connect"] ELSE Idle
  /\ UNCHANGED <<outside, data, loaded, waiting, jobs, request, seen>>

SaveFinished ==
  /\ At("end") /\ (\E ok \in BOOLEAN : Save(endpoint, list, records, jobs, ok))
  /\ active' = Idle
  /\ UNCHANGED <<outside, data, loaded, waiting, jobs, request, seen>>

----------------------------------------------------------------------------
(* Jobs *)

Fails == Strike(1) /\ Finish("failed")

Connect ==
  /\ At("connect")
  /\ \/ Fails
     \/ \E supervised \in BOOLEAN :
          LET s == Located(supervised) IN
          /\ Strike(IF supervised THEN 0 ELSE 1)
          /\ IF Ready(s)
             THEN /\ active' = [active EXCEPT !.server = s,
                                  !.at = IF Job.kind = "deploy" THEN "modules" ELSE "read"]
                  /\ UNCHANGED jobs
             ELSE Finish("failed")
  /\ UNCHANGED <<outside, data, loaded, waiting, request, store, seen>>

(* Missing node types are installed before anything is written. *)
Modules ==
  /\ At("modules")
  /\ \/ Fails /\ UNCHANGED modules
     \/ /\ Calm /\ Go("broker")
        /\ modules' = IF Job.modbus THEN modules \cup {active.server} ELSE modules
  /\ UNCHANGED <<flows, up, retained, data, loaded, waiting, request, store, seen>>

(* The broker Node-RED can reach, from Home Assistant's or given. *)
BrokerSettings ==
  /\ At("broker") /\ Calm
  /\ IF MqttReady \/ Job.custom THEN Go("read") ELSE Finish("failed")
  /\ UNCHANGED <<outside, data, loaded, waiting, request, store, seen>>

GetFlows ==
  /\ At("read")
  /\ \/ Fails
     \/ /\ Calm /\ UNCHANGED jobs
        /\ active' = [active EXCEPT !.at = "write", !.read = flows[active.server]]
  /\ UNCHANGED <<outside, data, loaded, waiting, request, store, seen>>

Written ==
  LET b == Job.bridge IN
  IF Job.kind = "deploy"
  THEN MergeFlows(active.read, b, active.op, Job.configs, records[b].configs \ Job.configs)
  ELSE Kept(active.read, b, records[b].configs)

(* Mutant: flows are written without their revision. *)
SetFlowsForced ==
  LET s == active.server IN
  /\ At("write") /\ flows' = [flows EXCEPT ![s] = Written]
  /\ \/ Calm /\ Go("record") /\ UNCHANGED loose
     \/ Fails /\ loose' = loose \cup {<<s, Job.bridge>>}
  /\ UNCHANGED <<modules, up, retained, data, loaded, waiting, request, store, mine, alive>>
(* A conflict is answered with one more attempt. *)
SetFlows ==
  LET s == active.server IN
  /\ At("write")
  /\ \/ /\ active.read # flows[s] /\ Calm /\ UNCHANGED <<flows, loose>>
        /\ IF active.attempt = 1
           THEN active' = [active EXCEPT !.at = "read", !.attempt = 2] /\ UNCHANGED jobs
           ELSE Finish("failed")
     \/ /\ active.read = flows[s] /\ flows' = [flows EXCEPT ![s] = Written]
        /\ \/ Calm /\ Go("record") /\ UNCHANGED loose
           \/ Fails /\ loose' = loose \cup {<<s, Job.bridge>>}
     \/ Fails /\ UNCHANGED <<flows, loose>>
  /\ UNCHANGED <<modules, up, retained, data, loaded, waiting, request, store, mine, alive>>

(* The record of a bridge does not say on which server it is. *)
Record ==
  LET b == Job.bridge
      elsewhere == {<<s, b>> : s \in Server \ {active.server}}
      next == IF Job.kind = "deploy" THEN "verify" ELSE "clear"
  IN
  /\ At("record")
  /\ records' = [records EXCEPT ![b] = IF Job.kind = "deploy"
                   THEN [op |-> active.op, configs |-> Job.configs] ELSE NoRecord]
  /\ \E ok \in BOOLEAN :
       /\ Save(endpoint, list, records', jobs, ok)
       /\ IF ok THEN Go(next) ELSE Finish("failed")
       /\ loose' = loose \cup elsewhere \cup (IF ok THEN {} ELSE {<<active.server, b>>})
  /\ UNCHANGED <<outside, endpoint, list, loaded, waiting, request, mine, alive>>

Noticed(message) ==
  LET health == Health(message, active.op) IN
  [active EXCEPT !.at = "verifying",
     !.mqtt = @ \/ health.mqtt, !.gateway = IF health.mqtt THEN health.gateway ELSE @]

(* The retained message comes with the subscription. *)
Subscribe ==
  /\ At("verify") /\ active' = Noticed(retained[Job.bridge])
  /\ UNCHANGED <<outside, data, loaded, waiting, jobs, request, store, seen, faults>>

(* 35 seconds, or less when the gateway is seen; without it the job completes, too. *)
WaitHealth ==
  /\ At("verifying") /\ Finish("completed")
  /\ UNCHANGED <<outside, data, loaded, waiting, request, store, seen, faults>>

ClearRetained ==
  /\ At("clear") /\ Finish("completed")
  /\ \/ Calm /\ retained' = [retained EXCEPT ![Job.bridge] = Silent]
     \/ Strike(1) /\ UNCHANGED retained
  /\ UNCHANGED <<flows, modules, up, data, loaded, waiting, request, store, seen>>

----------------------------------------------------------------------------
(* Around the jobs *)

(* A deployed flow reports itself, with or without its gateway. *)
Heartbeat(s, b, gateway) ==
  LET message == [op |-> flows[s].tab[b], gateway |-> gateway] IN
  /\ s \in up /\ flows[s].tab[b] # NoOp
  /\ retained' = [retained EXCEPT ![b] = message]
  /\ alive' = IF gateway THEN alive \cup {flows[s].tab[b]} ELSE alive
  /\ active' = IF At("verifying") /\ Job.bridge = b THEN Noticed(message) ELSE active
  /\ UNCHANGED <<flows, modules, up, data, loaded, waiting, jobs, request, store, mine, loose, faults>>

Age(b) ==
  /\ retained' = [retained EXCEPT ![b] = Silent]
  /\ UNCHANGED <<flows, modules, up, data, loaded, waiting, jobs, active, request, store, seen, faults>>

(* The user of Node-RED adds a node, removes one, or removes a bridge's tab. *)
Edit(s, n) ==
  /\ s \in up /\ Strike(1)
  /\ flows' = [flows EXCEPT ![s].user = IF n \in @ THEN @ \ {n} ELSE @ \cup {n}]
  /\ mine' = [mine EXCEPT ![s] = flows'[s].user]
  /\ UNCHANGED <<modules, up, retained, data, loaded, waiting, jobs, active, request, store, alive,
                 loose>>

DeleteTab(s, b) ==
  /\ s \in up /\ Strike(1)
  /\ flows[s].tab[b] # NoOp /\ flows' = [flows EXCEPT ![s].tab[b] = NoOp]
  /\ loose' = loose \cup {<<s, b>>}
  /\ UNCHANGED <<modules, up, retained, data, loaded, waiting, jobs, active, request, store, mine,
                 alive>>

Crash ==
  /\ Strike(1)
  /\ loose' = IF At("record") THEN loose \cup {<<active.server, Job.bridge>>} ELSE loose
  /\ endpoint' = "auto" /\ list' = <<>> /\ records' = [b \in Bridge |-> NoRecord]
  /\ loaded' = FALSE /\ waiting' = {} /\ jobs' = [op \in Op |-> "none"] /\ active' = Idle
  /\ UNCHANGED <<outside, request, store, mine, alive>>

JobStep ==
  \/ SaveStarted \/ SaveFinished
  \/ Connect \/ Modules \/ BrokerSettings \/ GetFlows \/ SetFlows \/ Record
  \/ Subscribe \/ WaitHealth \/ ClearRetained

Next ==
  \/ \E op \in Op : Ask(op) \/ Load(op)
  \/ \E e \in {"auto", "url"} : Configure(e)
  \/ StartAddon
  \/ JobStep
  \/ \E s \in Server, b \in Bridge : DeleteTab(s, b) \/ \E g \in BOOLEAN : Heartbeat(s, b, g)
  \/ \E b \in Bridge : Age(b)
  \/ \E s \in Server, n \in UserNode : Edit(s, n)
  \/ Crash

Spec == Init /\ [][Next]_vars

----------------------------------------------------------------------------
(* Properties *)

TypeOK ==
  /\ flows \in [Server -> Flows] /\ modules \subseteq Server /\ up \subseteq Server
  /\ retained \in [Bridge -> [op : Op \cup {NoOp}, gateway : BOOLEAN]]
  /\ endpoint \in {"auto", "url"} /\ loaded \in BOOLEAN /\ waiting \subseteq Op
  /\ records \in [Bridge -> [op : Op \cup {NoOp}, configs : SUBSET ConfigNode]]
  /\ jobs \in [Op -> {"none", "running", "completed", "failed"}]
  /\ Len(list) <= MaxJobs /\ Len(store.list) <= MaxJobs
  /\ active.server \in Server \cup {NoServer} /\ active.read \in Flows

(* What the user of Node-RED builds beside the bridges' own tabs stays       *)
(* exactly as the user left it: a job that read the flows before an edit     *)
(* never writes them back over it.                                           *)
UserNodesKept == \A s \in Server : flows[s].user = mine[s]

(* Flows that are installed are on record, so that they can be removed: but *)
(* while the job is about to record them, or after it was interrupted then. *)
InstalledIsListed ==
  \A s \in Server, b \in Bridge :
    flows[s].tab[b] # NoOp =>
      \/ (IF loaded THEN records ELSE store.records)[b] # NoRecord
      \/ At("record") /\ active.server = s /\ Job.bridge = b
      \/ <<s, b>> \in loose

(* A bridge has the configuration nodes of what is installed of it, and no *)
(* others are left of what was installed before.                           *)
ConfigsOf(b) == UNION {request[op].configs : op \in {o \in Op : request[o].bridge = b}}
NoStaleConfig ==
  \A s \in Server, b \in Bridge :
    flows[s].configs \cap ConfigsOf(b)
      = (IF flows[s].tab[b] = NoOp THEN {} ELSE request[flows[s].tab[b]].configs)
    \/ <<s, b>> \in loose

(* A job that completes is true: the store lists the deployment, and a gateway *)
(* that is reported was heard by this very deployment; what was removed is on  *)
(* record no more, nor in the server it was removed from.                      *)
Fulfilled(op) ==
  LET b == request[op].bridge IN
  IF request[op].kind = "deploy"
  THEN store.records[b].op = op /\ (active.gateway => active.mqtt /\ op \in alive)
  ELSE store.records[b] = NoRecord /\ flows[active.server].tab[b] = NoOp
CompletedIsTrue ==
  [][\A op \in Op : jobs[op] = "running" /\ jobs'[op] = "completed" => Fulfilled(op)]_vars
=============================================================================
