------------------------------ MODULE MCKnxPlans ------------------------------
(* Every project of three addresses out of a table of shapes, with an ETS    *)
(* function or without, imported and deployed; and a few projects of a home  *)
(* over longer histories.                                                    *)
EXTENDS KnxPlans, TLC

Out(c) == [channel |-> c, flags |-> {"write"}, dpts |-> {}]
In(c) == [channel |-> c, flags |-> {"read", "transmit"}, dpts |-> {}]
Sends(c) == [channel |-> c, flags |-> {"transmit"}, dpts |-> {}]
Typed(o, dpt) == [o EXCEPT !.dpts = {dpt}]

NoScene == [numbers |-> {}, senders |-> {}, wall |-> FALSE]
Shaped(word, dpt, objects) ==
  [name |-> [unit |-> "hall", climate |-> FALSE, word |-> word], dpt |-> dpt, objects |-> objects,
   scene |-> NoScene]
Cool(word, dpt, objects) == [Shaped(word, dpt, objects) EXCEPT !.name.climate = TRUE]
SceneOf(numbers) ==
  [Shaped("other", <<17, 1>>, {Sends("c1")}) EXCEPT
     !.scene = [numbers |-> numbers, senders |-> {Sends("c1")}, wall |-> TRUE]]

Shapes == <<
  Shaped("SW", <<1, 1>>, {Out("c1")}), Shaped("SW", <<1, 1>>, {Out("c2")}),
  Shaped("SW", <<1, 1>>, {Out("c1"), Out("c2")}),
  Shaped("SW_FB", <<1, 1>>, {In("c1")}), Shaped("SW_FB", <<1, 11>>, {In("c1"), In("c2")}),
  Shaped("SW_FB", NoDpt, {Typed(In("c1"), <<1, 1>>), Typed(Out("c2"), <<1, 2>>)}),
  Shaped("VAL", <<5, 1>>, {Out("c1")}), Shaped("VAL_FB", <<5, 1>>, {In("c1")}),
  Shaped("CT", <<7, 600>>, {Out("c1")}), Shaped("CT_FB", <<5, 1>>, {In("c1")}),
  Shaped("address", <<1, 1>>, {Out("c1")}), Shaped("state", <<1, 11>>, {In("c1")}),
  Shaped("brightness", <<5, 1>>, {Out("c1")}), Shaped("temperature", <<9, 1>>, {}),
  SceneOf({1, 2}),
  Cool("SW", <<1, 1>>, {Out("c1")}), Cool("VAL_FB", <<9, 1>>, {In("c1")}),
  Cool("VAL_REAL_FB", <<9, 1>>, {In("c1")})>>

Function(kind, members) == [name |-> "hall", kind |-> kind, scene |-> 0, members |-> members]
FunctionLists == <<
  <<>>,
  <<Function("light", {<<"address", 1>>, <<"state", 2>>})>>,
  <<Function("light", {<<"address", 1>>, <<"state", 2>>}), Function("light", {<<"address", 1>>, <<"brightness", 3>>})>>,
  <<Function("switch", {<<"unnamed", 1>>, <<"unnamed", 2>>, <<"unnamed", 3>>})>>>>

Small == {t \in (1 .. 18) \X (1 .. 18) \X (1 .. 18) \X (1 .. 4) :
            IF t[4] = 1 THEN t[1] <= t[2] /\ t[2] <= t[3] ELSE t[1] \in {1, 4, 7, 11, 13}}

(* The home: a light and two scenes; then a brighter light and a reading;   *)
(* each also as a project of two-level addresses; and the same home as a    *)
(* project of its own.                                                      *)
Base == <<0, 0, 0, 1>>
More == <<0, 0, 0, 2>>
BaseShort == <<0, 0, 0, 3>>
MoreShort == <<0, 0, 0, 4>>
Other == <<0, 0, 0, 5>>
Homes == {Base, More, BaseShort, MoreShort, Other}

ShapesOf(t) ==
  IF t \notin Homes THEN <<t[1], t[2], t[3]>>
  ELSE <<1, 4, 15>> \o IF t \in {More, MoreShort} THEN <<7, 14>> ELSE <<>>
MCProjects ==
  [t \in Small \cup Homes |->
     [id |-> IF t = Other THEN 3 ELSE IF t \in Homes THEN 2 ELSE 1,
      style |-> IF t \in {BaseShort, MoreShort} THEN "SHORT" ELSE "LONG",
      groups |-> [a \in DOMAIN ShapesOf(t) |-> Shapes[ShapesOf(t)[a]]],
      functions |-> IF t \in Homes THEN <<>> ELSE FunctionLists[t[4]]]]

(* TLC keeps the value of a definition, but not of one that a constant is. *)
Plans == [t \in DOMAIN MCProjects |-> PlanProject(MCProjects[t])]
MCPlanOf == Plans

Own(platform, config) == Row(platform, config, NoUid)
Still == [projects |-> <<>>, cores |-> <<"custom">>, hand |-> {}, ui |-> {}, yaml |-> {}, excluded |-> {}, steps |-> 2]
Living(projects, cores) ==
  [projects |-> projects, cores |-> cores, hand |-> {Own("sensor", "state" :> 2)}, ui |-> {3},
   yaml |-> {{Own("switch", "address" :> 1)},
             {Own("scene", ("address" :> 3) @@ ("scene_number" :> 1)), Own("switch", "address" :> 9)}},
   excluded |-> {<<3, 2>>}, steps |-> 6]
(* An approved row gives way to the user's, who removes it again. *)
Reconsidered ==
  [Still EXCEPT !.projects = <<Base>>, !.hand = {Own("sensor", "state" :> 9)}, !.steps = 8,
                !.yaml = {{Own("switch", "address" :> 9)},
                          {Own("scene", ("address" :> 1) @@ ("scene_number" :> 2))}}]
(* A row of the user's has the identity of one that is approved, another has *)
(* one of its own.                                                          *)
Copied ==
  [Still EXCEPT !.projects = <<Base>>, !.steps = 7, !.yaml = {{Own("switch", "address" :> 9)}},
                !.hand = {Row("switch", "address" :> 9, [by |-> "manual", ids |-> <<9>>]),
                          Row("sensor", "state" :> 2, [by |-> "user", ids |-> <<2>>])}]
MCHistories ==
  {Reconsidered, Copied} \cup {[Still EXCEPT !.projects = <<t>>] : t \in Small}
  \cup {Living(<<Base, More>>, cores) : cores \in {<<"custom">>, <<"native", "custom">>,
                                                     <<"custom", "native">>, <<"native", "legacy">>}}
  \cup {Living(<<BaseShort, MoreShort>>, <<"legacy", "native", "custom">>),
        Living(<<Base, MoreShort>>, <<"legacy", "native">>), Living(<<BaseShort, More>>, <<"legacy", "native">>),
        Living(<<BaseShort, More>>, <<"native", "legacy">>), Living(<<Base, Other>>, <<"custom">>)}
=============================================================================
