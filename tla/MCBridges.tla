------------------------------- MODULE MCBridges -------------------------------
(* Two jobs for either bridge.  Frigate has its sample camera, or two cameras *)
(* that share a restream; Node-RED has one gateway, whose deployments need a  *)
(* different configuration node each.  The camera knows a plate, the platform  *)
(* another one; each budget is one meeting of operations and reports.         *)
EXTENDS Bridges

CONSTANTS j1, j2, near, far, gate, c1, c2, p1, p2

Sample == [NoCamera EXCEPT !.host = far, !.detect = TRUE]
Yard == [host |-> NoHost, reads |-> {<<1, "main">>}, live |-> {<<1, "main">>, <<1, "sub">>},
         record |-> TRUE, detect |-> FALSE]
Lane == [host |-> far, reads |-> {<<1, "sub">>}, live |-> {}, record |-> FALSE, detect |-> FALSE]
Fresh == [cameras |-> [k \in Key |-> IF k = Placeholder THEN Sample ELSE NoCamera],
          streams |-> [s \in Stream |-> NoHost]]
Shared == [cameras |-> [k \in Key |-> CASE k = 1 -> Yard [] k = 2 -> Lane [] OTHER -> NoCamera],
           streams |-> [s \in Stream |-> IF s[1] = 1 THEN far ELSE NoHost]]

Both(first, second) == [op \in Op |-> IF op = j1 THEN first ELSE second]
Add(sub, typed) == [kind |-> "add", host |-> near, sub |-> sub, record |-> sub, typed |-> typed]
Remove == [kind |-> "remove", key |-> 1]
Configure(changes) == [kind |-> "configure", key |-> 1, changes |-> changes]
MCScenes == {
  [config |-> Fresh, request |-> Both(Add(TRUE, TRUE), Add(FALSE, FALSE))],
  [config |-> Fresh, request |-> Both(Add(TRUE, TRUE), Remove)],
  [config |-> Shared, request |-> Both(Remove, Add(FALSE, TRUE))],
  [config |-> Shared, request |-> Both(Configure([record |-> FALSE]),
                                       Configure([record |-> TRUE, detect |-> TRUE]))]}

Deploy(config) == [kind |-> "deploy", bridge |-> gate, configs |-> {config}, modbus |-> TRUE,
                   custom |-> FALSE]
Withdraw == [kind |-> "remove", bridge |-> gate, configs |-> {}, modbus |-> FALSE, custom |-> FALSE]
MCPlans == {Both(Deploy(c1), Deploy(c2)), Both(Deploy(c1), Withdraw)}

Listed(x, y) == [p \in Plate |-> IF p = p1 THEN x ELSE y]
MCFirst == [copy |-> Listed("allow", "none"), list |-> Listed("none", "allow")]
MCLists == {Listed("none", "allow"), Listed("allow", "block")}
Upto(setups, switches, saves, reports) ==
  [setup |-> setups, switch |-> switches, save |-> saves, plate |-> reports]
MCBudgets == {Upto(0, 1, 0, 2), Upto(1, 0, 2, 0), Upto(2, 0, 1, 0), Upto(1, 1, 0, 1)}
=============================================================================
