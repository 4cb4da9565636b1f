------------------------------ MODULE KnxPlanner ------------------------------
(***************************************************************************)
(* knx_project_mapper.py: what an ETS project says of its group addresses  *)
(* turned into Home Assistant entities, pass by pass, each pass over the   *)
(* addresses that the passes before it left.                               *)
(*                                                                         *)
(* A name is what the mapper's patterns see in it: a unit, whether         *)
(* "climate" stands before the last word, and that word.  A role is named  *)
(* by the YAML field it fills.  The reasons given for the addresses left   *)
(* over are not modelled, but for the one that decides something, and      *)
(* neither are the names given to entities.                                *)
(***************************************************************************)
EXTENDS Naturals, Sequences, FiniteSets, Functions

CONSTANTS
  LightUnits,   \* the units whose name says that they are lights
  NoDpt, NoChannel

(* A datapoint type is a main number and a subnumber, 0 when it has none. *)
Bits == {<<1, 1>>, <<1, 2>>, <<1, 11>>}
Status == {<<1, 1>>, <<1, 11>>}
Percent == <<5, 1>>
FAN_STAGE == <<5, 100>>
FAN_STEP == <<5, 10>>
Celsius == <<9, 1>>
Recall == {<<17, 1>>, <<18, 1>>}
Measured == {Celsius}
Telemetry == {Celsius, Percent, FAN_STEP, <<7, 600>>}

Impulses == {"open_impulse", "close_impulse", "stop_impulse"}
Walls == {"move_long", "move_short"}

(* ROLE_FIELDS and the fields of the two dialects: the types a field takes. *)
Expected(field) ==
  CASE field \in {"address", "open_impulse", "stop_impulse"} -> {<<1, 1>>}
    [] field = "close_impulse" -> {<<1, 1>>, <<1, 8>>}
    [] field \in {"state", "on_off_state"} -> Status
    [] field \in {"brightness", "brightness_state", "position", "position_state"} -> {Percent}
    [] field \in {"color", "color_state"} -> {<<7, 600>>, Percent}
    [] field = "move_long" -> {<<1, 8>>}
    [] field = "move_short" -> {<<1, 7>>}
    [] field = "stop" -> {<<1, 10>>}
    [] field \in {"temperature", "target", "target_state"} -> {Celsius}
    [] field \in {"mode", "mode_state"} -> {<<20, 105>>}
    [] field \in {"fan", "fan_state"} -> {Percent, FAN_STAGE}
    [] field \in {"step", "step_state"} -> {FAN_STEP}
    [] field = "scene" -> Recall
    [] OTHER -> {}
(* No role names on_off_state: climates get it from a state later. *)
IsRole(role) == Expected(role) # {} /\ role # "on_off_state"
States == {"state", "on_off_state", "brightness_state", "position_state", "color_state",
           "temperature", "target_state", "mode_state", "fan_state", "step_state"}

(* NAME_ROLES is the fields themselves.  ABBREVIATED_ROLES and             *)
(* CLIMATE_ROLE_FIELDS give a field to a word of their dialect; a word's    *)
(* hyphen is written as an underscore.                                     *)
AbbreviatedField ==
  [SW |-> "address", SW_FB |-> "state", VAL |-> "brightness", VAL_FB |-> "brightness_state",
   CT |-> "color", CT_FB |-> "color_state"]
ClimateField ==
  [SW |-> "on_off", SW_FB |-> "on_off_state", MODE |-> "mode", MODE_FB |-> "mode_state",
   FAN |-> "fan", FAN_FB |-> "fan_state", VAL |-> "target", VAL_FB |-> "target_state",
   VAL_REAL_FB |-> "temperature"]
Feedback == {"SW_FB", "VAL_FB", "CT_FB", "MODE_FB", "FAN_FB", "VAL_REAL_FB"}
Alias(word, dialect) == IF dialect = "abbreviated" /\ word = "brightness" THEN "VAL" ELSE word

----------------------------------------------------------------------------
(* What the project says: project.groups, by address *)

The(s) == CHOOSE x \in s : TRUE
Group(project, a) == project.groups[a]
Objects(project, a) == Group(project, a).objects
Flag(project, a, flag) == \E o \in Objects(project, a) : flag \in o.flags

(* dpt_choices *)
DptChoices(g) == ({g.dpt} \ {NoDpt}) \cup UNION {o.dpts : o \in g.objects}
Declared(g) ==
  g.dpt # NoDpt /\ g.dpt[2] # 0
  /\ \A o \in g.objects : o.dpts = {} \/ o.dpts \cap {g.dpt, <<g.dpt[1], 0>>} # {}
Exact(g) == IF Declared(g) THEN {g.dpt} ELSE {d \in DptChoices(g) : d[2] # 0}
Mains(g) == {d[1] : d \in IF Declared(g) THEN {g.dpt} ELSE DptChoices(g)}
Settled(g) == Cardinality(Exact(g)) = 1 /\ Cardinality(Mains(g)) = 1

(* _load: the planner at first; conflicting are the addresses whose issue *)
(* is conflicting_datapoint_type.                                          *)
Load(project) ==
  LET groups == project.groups
      settled == {a \in DOMAIN groups : Settled(groups[a])}
      several == {a \in DOMAIN groups : Cardinality(Exact(groups[a])) > 1 \/ Cardinality(Mains(groups[a])) > 1}
  IN [dpts |-> [a \in settled |-> The(Exact(groups[a]))], blocked |-> DOMAIN groups \ settled,
      conflicting |-> several \ settled, used |-> {}, reserved |-> {}, candidates |-> {}]

(* _actuator_keys: the channels that act on an address, or report on it. *)
Channels(project, a, feedback) ==
  {o.channel : o \in {o \in Objects(project, a) :
     IF feedback THEN {"read", "transmit"} \subseteq o.flags /\ "write" \notin o.flags
     ELSE "write" \in o.flags /\ "transmit" \notin o.flags}} \ {NoChannel}

Free(p, project) == DOMAIN project.groups \ (p.used \cup p.reserved)

----------------------------------------------------------------------------
(* Entities *)

Numbers == {"scene_number"}
Addresses(config) == {config[f] : f \in DOMAIN config \ Numbers}
First(config, fields) ==
  config[fields[CHOOSE i \in DOMAIN fields :
           fields[i] \in DOMAIN config /\ \A j \in 1 .. i - 1 : fields[j] \notin DOMAIN config]]
Primary(config) == First(config, <<"address", "move_long", "position", "target", "on_off", "state",
                                   "temperature">>)
Number(config) == IF "scene_number" \in DOMAIN config THEN config["scene_number"] ELSE 0

Candidate(source, platform, config) == [source |-> source, platform |-> platform, config |-> config]

AddAll(p, entities) ==
  [p EXCEPT !.candidates = @ \cup entities,
            !.used = @ \cup UNION {Addresses(e.config) : e \in entities}]
Add(p, entity) == AddAll(p, {entity})
Block(p, addresses) == [p EXCEPT !.blocked = @ \cup addresses]
With(fields, f, a) == [x \in DOMAIN fields \cup {f} |-> IF x = f THEN a ELSE fields[x]]
Keep(fields, names) == Restrict(fields, DOMAIN fields \cap names)
Drop(fields, names) == Restrict(fields, DOMAIN fields \ names)
Rename(fields, old, new) ==
  IF old \in DOMAIN fields THEN With(Drop(fields, {old}), new, fields[old]) ELSE fields

(* _fan_mode: a command and its feedback agree on the type. *)
FanMode(p, fields) ==
  Cardinality({p.dpts[fields[f]] = FAN_STAGE : f \in DOMAIN fields \cap {"fan", "fan_state"}}) <= 1

----------------------------------------------------------------------------
(* _group: addresses with a role each become an entity or are blocked *)

Allowed ==
  [light |-> {"address", "state", "brightness", "brightness_state", "color", "color_state"},
   switch |-> {"address", "state"},
   fan |-> {"address", "state", "switch", "switch_state"},
   cover |-> {"move_long", "move_short", "stop", "position", "position_state"},
   scene |-> {"address", "scene_number"},
   climate |-> {"temperature", "target", "target_state", "on_off", "on_off_state", "mode",
                "mode_state", "fan", "fan_state"}]

Nothing == [platform |-> "none", config |-> <<>>]
Refused == [platform |-> "refused", config |-> <<>>]
Entity(platform, config) ==
  IF DOMAIN config \subseteq Allowed[platform] THEN [platform |-> platform, config |-> config]
  ELSE Refused

Field(role) == IF role = "scene" THEN "address" ELSE role
(* The checks of the loop over the references. *)
Contradicted(p, project, refs) ==
  \/ \E ref \in refs :
       \/ ref[2] \notin DOMAIN project.groups \/ ref[2] \in p.blocked
       \/ p.dpts[ref[2]] \notin Expected(ref[1])
       \/ /\ Field(ref[1]) \notin States
          /\ Objects(project, ref[2]) # {} /\ ~Flag(project, ref[2], "write")
  \/ \E r, s \in refs : Field(r[1]) = Field(s[1]) /\ r[2] # s[2]

Climate(p, fields) ==
  LET named == Rename(Rename(fields, "address", "on_off"), "state", "on_off_state") IN
  CASE {"temperature", "target", "target_state"} \subseteq DOMAIN fields ->
         IF FanMode(p, fields) THEN Entity("climate", named) ELSE Refused
    [] OTHER -> IF {"target", "target_state"} \cap DOMAIN fields # {} THEN Refused ELSE Nothing

Fan(fields) ==
  LET named == Rename(Rename(fields, "address", "switch"), "state", "switch_state")
  IN Entity("fan", Rename(Rename(named, "step", "address"), "step_state", "state"))

Switch(p, kind, fields) ==
  LET color == {p.dpts[fields[f]] : f \in DOMAIN fields \cap {"color", "color_state"}} IN
  IF "color_state" \in DOMAIN fields /\ ("color" \notin DOMAIN fields \/ Cardinality(color) > 1) THEN Refused
  ELSE IF kind = "light" THEN Entity("light", fields)
  ELSE IF {"brightness", "color"} \cap DOMAIN fields # {} THEN Nothing ELSE Entity("switch", fields)

EntityOf(p, kind, fields, scene) ==
  IF kind = "climate" \/ "target" \in DOMAIN fields THEN Climate(p, fields)
  ELSE IF kind = "cover" \/ "move_long" \in DOMAIN fields
  THEN IF {"move_long", "position"} \cap DOMAIN fields # {} THEN Entity("cover", fields) ELSE Nothing
  ELSE IF kind = "scene"
  THEN IF "address" \in DOMAIN fields /\ scene # 0
       THEN Entity("scene", With(fields, "scene_number", scene)) ELSE Refused
  ELSE IF "step" \in DOMAIN fields THEN Fan(fields)
  ELSE IF "address" \in DOMAIN fields THEN Switch(p, kind, fields) ELSE Nothing

(* A curtain of three relays is a cover on its wall buttons' addresses, or *)
(* three buttons; part of one is refused.                                  *)
Curtain(p, source, fields, mentioned) ==
  LET walls == Keep(fields, Walls)
      relays == Drop(fields, Walls)
      apart == [p EXCEPT !.reserved = @ \cup Range(walls)]
  IN CASE DOMAIN relays = Impulses /\ DOMAIN walls = Walls ->
            Add([p EXCEPT !.reserved = @ \cup Range(relays)],
                Candidate(source, "cover", Rename(walls, "move_short", "stop")))
       [] DOMAIN relays # Impulses -> Block(apart, mentioned)
       [] OTHER -> AddAll(apart, {Candidate(source, "button", [address |-> a]) : a \in Range(relays)})

Grouped(p, project, source, group) ==
  LET known == {ref \in group.refs : IsRole(ref[1])}
      mentioned == {ref[2] : ref \in group.refs} \cap DOMAIN project.groups
      fields == [f \in {Field(ref[1]) : ref \in known} |-> The({ref \in known : Field(ref[1]) = f})[2]]
      entity == EntityOf(p, group.kind, fields, group.scene)
  IN IF Contradicted(p, project, known) THEN Block(p, mentioned)
     ELSE IF DOMAIN fields \cap Impulses # {} THEN Curtain(p, source, fields, mentioned)
     ELSE IF entity.platform = "refused" THEN Block(p, mentioned)
     ELSE IF entity.platform = "none" THEN p
     ELSE Add(p, Candidate(source, entity.platform, entity.config))

----------------------------------------------------------------------------
(* functions: what an ETS function says.  A member's role is one of ETS's,   *)
(* "setpoint", which is a command or a state, "hidden", which is no field of *)
(* an entity, or "unnamed", which leaves it to the name of the address.      *)

(* _function_member_role: the address's own name is the function's. *)
MemberRole(project, function, member) ==
  LET named == member[1] = "unnamed" /\ member[2] \in DOMAIN project.groups
      name == Group(project, member[2]).name
  IN IF named /\ IsRole(name.word) /\ name.unit = function.name /\ ~name.climate
     THEN name.word ELSE member[1]

Refs(project, function) ==
  UNION {LET role == MemberRole(project, function, m) IN
         CASE IsRole(role) -> {<<role, m[2]>>}
           [] /\ role = "setpoint" /\ m[2] \in DOMAIN project.groups
              /\ Flag(project, m[2], "write") /\ Flag(project, m[2], "read") ->
                {<<"target", m[2]>>, <<"target_state", m[2]>>}
           [] OTHER -> {} : m \in function.members}

(* One function after another, in the order of the project. *)
FunctionGroups(p, project) ==
  LET after[i \in 0 .. Len(project.functions)] ==
        IF i = 0 THEN p
        ELSE LET f == project.functions[i] IN
             Grouped(after[i - 1], project, "function",
                     [kind |-> f.kind, refs |-> Refs(project, f), scene |-> f.scene])
  IN after[Len(project.functions)]

----------------------------------------------------------------------------
(* The installer's dialects: a command and what shares its actuator channel *)

(* What a pass finds under one prefix: the addresses of each word, with the *)
(* field that the dialect gives to the word.                                *)
Prefix(g) == [unit |-> g.name.unit, climate |-> g.name.climate]
NamePrefixes(project) == {Prefix(Group(project, a)) : a \in DOMAIN project.groups}
FieldOf(dialect) == IF dialect = "climate" THEN ClimateField ELSE AbbreviatedField
Grouping(p, project, prefix, dialect) ==
  [prefix |-> prefix, field |-> FieldOf(dialect),
   roles |-> [w \in DOMAIN FieldOf(dialect) |-> {a \in Free(p, project) :
                Prefix(Group(project, a)) = prefix /\ Alias(Group(project, a).name.word, dialect) = w}]]

Able(p, project, addresses) ==
  {c \in addresses \ p.blocked : p.dpts[c] = <<1, 1>> /\ Cardinality(Channels(project, c, FALSE)) = 1}
Twins(project, commands) ==
  {c \in commands : \E d \in commands \ {c} : Channels(project, c, FALSE) = Channels(project, d, FALSE)}
Commands(p, project, addresses) ==
  {c \in Able(p, project, addresses) : c \notin Twins(project, Able(p, project, addresses))}

(* One command alone refuses a role with several addresses. *)
Alone(group) == Cardinality(group.roles["SW"]) = 1
Rivals(group) ==
  IF Alone(group)
  THEN UNION {group.roles[w] : w \in {w \in DOMAIN group.roles : Cardinality(group.roles[w]) > 1}} ELSE {}

(* Mutant: the channels only have to overlap. *)
OverlappingChannel(project, command, a, word) ==
  Channels(project, a, word \in Feedback) \cap Channels(project, command, FALSE) # {}

SameChannel(project, command, a, word) ==
  Channels(project, a, word \in Feedback) = Channels(project, command, FALSE)

(* A command takes the only address of a word on its own channel. *)
Bonds(p, project, group) ==
  LET near == {b \in [command : Commands(p, project, group.roles["SW"]), word : DOMAIN group.roles \ {"SW"},
                       address : UNION Range(group.roles)] :
                 /\ b.address \in group.roles[b.word] \ Rivals(group)
                 /\ SameChannel(project, b.command, b.address, b.word)}
  IN {b \in near : \A o \in near : o.command = b.command /\ o.word = b.word => o = b}

(* _bind_optional_role: a feedback of mixed one-bit types may be read. *)
Readable(p, project, bond) ==
  LET choices == DptChoices(Group(project, bond.address)) IN
  /\ bond.word = "SW_FB" /\ bond.address \in p.conflicting
  /\ choices \subseteq Bits /\ choices \cap Status # {}

(* The addresses that the loop over the prefixes blocks, and those it      *)
(* unblocks.  The prefixes share no address, so that what it does for one  *)
(* of them is the same whatever it has done for others before.             *)
Settle(p, project, groups) ==
  LET refused == UNION {Rivals(g) : g \in {g \in groups : Commands(p, project, g.roles["SW"]) # {}}}
      twins == UNION {Twins(project, Able(p, project, g.roles["SW"])) : g \in groups}
      bonds == UNION {Bonds(p, project, g) : g \in groups}
      readable == {b.address : b \in {b \in bonds : Readable(p, project, b)}}
  IN [p EXCEPT !.dpts = [a \in readable \cup DOMAIN @ |-> IF a \in readable THEN <<1, 11>> ELSE @[a]],
               !.blocked = (@ \ readable) \cup twins \cup refused,
               !.conflicting = @ \ (readable \cup refused)]

(* The fields of a command, from the roles of the type they need. *)
FieldsOf(p, project, group, c) ==
  LET fitting == {b \in Bonds(p, project, group) :
                    /\ b.command = c /\ b.address \notin p.blocked
                    /\ p.dpts[b.address] \in Expected(group.field[b.word])}
  IN With([f \in {group.field[b.word] : b \in fitting} |->
             The({b \in fitting : group.field[b.word] = f}).address], group.field["SW"], c)

(* _finish_climate *)
FinishClimate(p, fields) ==
  IF {"temperature", "target_state"} \subseteq DOMAIN fields
  THEN {Candidate("channel", "climate",
                  IF FanMode(p, fields) THEN fields ELSE Drop(fields, {"fan", "fan_state"}))}
  ELSE {}

(* _finish_abbreviated *)
FinishAbbreviated(p, prefix, fields) ==
  LET orphans == {s \in {"brightness_state", "color_state"} :
                    (IF s = "color_state" THEN "color" ELSE "brightness") \notin DOMAIN fields}
      light == prefix.unit \in LightUnits \/ {"brightness", "color"} \cap DOMAIN fields # {}
      kept == IF light THEN Drop(fields, orphans) ELSE Keep(fields, {"address", "state"})
      color == {p.dpts[kept[f]] : f \in DOMAIN kept \cap {"color", "color_state"}}
      agreed == IF Cardinality(color) > 1 THEN Drop(kept, {"color_state"}) ELSE kept
  IN IF Cardinality(DOMAIN agreed) = 1 THEN {}
     ELSE {Candidate("channel", IF light THEN "light" ELSE "switch", agreed)}

Finish(dialect, p, prefix, fields) ==
  IF dialect = "climate" THEN FinishClimate(p, fields) ELSE FinishAbbreviated(p, prefix, fields)
Finished(p, project, group, dialect) ==
  UNION {Finish(dialect, p, group.prefix, FieldsOf(p, project, group, c)) :
         c \in Commands(p, project, group.roles["SW"])}
Dialect(p, project, prefixes, dialect) ==
  LET groups == {Grouping(p, project, prefix, dialect) : prefix \in prefixes}
      settled == Settle(p, project, groups)
  IN AddAll(settled, UNION {Finished(settled, project, group, dialect) : group \in groups})
ClimateGroups(p, project) ==
  Dialect(p, project, {x \in NamePrefixes(project) : x.climate}, "climate")
AbbreviatedGroups(p, project) == Dialect(p, project, NamePrefixes(project), "abbreviated")

----------------------------------------------------------------------------
(* The other passes *)

(* scene_metadata: the numbers that a sender in the archive is set to. *)
SceneAt(p, project, a) ==
  LET g == Group(project, a) IN
  /\ g.scene.numbers # {} /\ g.scene.senders # {}
  /\ \A o \in g.scene.senders : o \in g.objects /\ "transmit" \in o.flags
  /\ Flag(project, a, "write") \/ g.scene.wall
  /\ DptChoices(g) # {} /\ DptChoices(g) \subseteq Recall
  /\ a \in p.blocked => a \in p.conflicting
SceneMetadata(p, project) ==
  LET scenes == {a \in Free(p, project) : SceneAt(p, project, a)} IN
  AddAll([p EXCEPT !.blocked = @ \ scenes, !.conflicting = @ \ scenes],
         UNION {{Candidate("scene", "scene", [address |-> a, scene_number |-> n]) :
                 n \in Group(project, a).scene.numbers} : a \in scenes})

(* Prefixes share no address here either. *)
NamedGroups(p, project) ==
  LET free == {a \in Free(p, project) : IsRole(Group(project, a).name.word)}
      Named(prefix) ==
        Grouped(p, project, "name",
                [kind |-> IF prefix.unit \in LightUnits THEN "light" ELSE "switch",
                 refs |-> {<<Group(project, a).name.word, a>> : a \in {a \in free : Prefix(Group(project, a)) = prefix}},
                 scene |-> 0])
      each == {Named(Prefix(Group(project, a))) : a \in free}
  IN [p EXCEPT !.candidates = @ \cup UNION {q.candidates : q \in each},
               !.used = @ \cup UNION {q.used : q \in each},
               !.reserved = @ \cup UNION {q.reserved : q \in each},
               !.blocked = @ \cup UNION {q.blocked : q \in each}]

(* fallback: an address of its own. *)
Single(p, project, a) ==
  LET dpt == p.dpts[a]
      named == Group(project, a).name.word \in Feedback \cup {"FB"}
      telemetry == Flag(project, a, "transmit") /\ (named \/ ~Flag(project, a, "write"))
  IN IF dpt \in Recall THEN {}
     ELSE IF \/ dpt = <<1, 11>> \/ (dpt \in Bits /\ telemetry)
             \/ (named /\ Objects(project, a) = {} /\ dpt \in Status)
     THEN {Candidate("flags", "binary_sensor", [state |-> a])}
     ELSE IF dpt = <<1, 1>> /\ Flag(project, a, "write") /\ ~named
     THEN {Candidate("flags", "switch", [address |-> a])}
     ELSE IF dpt \in Measured \/ (dpt \in Telemetry /\ telemetry)
     THEN {Candidate("flags", "sensor", [state |-> a])}
     ELSE {}
Fallback(p, project) ==
  AddAll(p, UNION {Single(p, project, a) : a \in Free(p, project) \ p.blocked})

(* result: a candidate that touches a blocked address is dropped, and so *)
(* are those that claim the same address and are not the same.           *)
Claim(entity) == <<Primary(entity.config), Number(entity.config)>>
Alive(p) == p.candidates \ {c \in p.candidates : Addresses(c.config) \cap p.blocked # {}}

Disputed(entities) ==
  {c \in entities : \E d \in entities :
     Claim(d) = Claim(c) /\ (d.platform # c.platform \/ d.config # c.config)}
Accepted(p) == Alive(p) \ Disputed(Alive(p))

(* plan_project *)
Planned(project) ==
  LET explicit == FunctionGroups(Load(project), project)
      joined == AbbreviatedGroups(ClimateGroups(explicit, project), project)
  IN Fallback(NamedGroups(SceneMetadata(joined, project), project), project)
UniqueId(project, entity) == [by |-> "ets", ids |-> <<project.id, Claim(entity)>>]
PlanProject(project) ==
  {[uid |-> UniqueId(project, e), source |-> e.source, platform |-> e.platform, config |-> e.config] :
   e \in Accepted(Planned(project))}
=============================================================================
