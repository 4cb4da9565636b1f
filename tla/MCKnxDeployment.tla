--------------------------- MODULE MCKnxDeployment ---------------------------
(* Two projects whose entities share their group addresses, so that each    *)
(* deployment replaces the entities of the other one, and a third entity    *)
(* that both keep.                                                          *)
EXTENDS KnxDeployment, TLC

CONSTANTS p1, p2, old, new, kept

MCEntitiesOf == (p1 :> {old, kept}) @@ (p2 :> {new, kept})
MCAddressOf == (old :> "shared") @@ (new :> "shared") @@ (kept :> "own")
=============================================================================
