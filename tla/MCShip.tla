------------------------------- MODULE MCShip -------------------------------
(***************************************************************************)
(* Instances of Ship for TLC: a gated and an ungated postVerify hook, or   *)
(* none.                                                                   *)
(***************************************************************************)
EXTENDS Ship

Hooks2 == {"propose", "notify"}
GatedHook == {"propose"}
HookOrder == [h \in Hooks2 |-> IF h = "propose" THEN 1 ELSE 2]

NoHooks == {}
NoOrder == [h \in NoHooks |-> 0]

\* A plan may mix the branch strategies of its units.
AnyPlan == Plan
Distributing == [distributes : {TRUE}, branches : {{}}]
=============================================================================
