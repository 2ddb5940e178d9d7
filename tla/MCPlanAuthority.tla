--------------------------- MODULE MCPlanAuthority ---------------------------
(***************************************************************************)
(* Instances of PlanAuthority for TLC.                                     *)
(***************************************************************************)
EXTENDS PlanAuthority

CONSTANTS c1, c2, c3, p1, p2, b1, b2

ThreeCommands == {c1, c2, c3}
TwoPlans == {p1, p2}
TwoBreakers == {b1, b2}

\* Commands, plans and operators are names: which of them comes first makes no
\* difference, so only one order is followed.  (Symmetry would not be sound with
\* liveness.)
OneOrder ==
    /\ pc'[c2] # "idle" => pc'[c1] # "idle"
    /\ pc'[c3] # "idle" => pc'[c2] # "idle"
    /\ inspected[b1] = NoCommand => inspected'[b2] \in {inspected[b2], NoCommand}

\* Nobody breaks the lock of a process that lives.
OnlyDead == {}
=============================================================================
