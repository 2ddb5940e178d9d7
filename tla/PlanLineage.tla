----------------------------- MODULE PlanLineage -----------------------------
(***************************************************************************)
(* What the plan authority promises to the rest of release-skill about all *)
(* plans frozen for one set of units and versions: of the tested ones at   *)
(* most one is current, and it comes into force beside no other plan; a    *)
(* plan is given up for good, and a plan with a release run is never given *)
(* up.  Plans frozen without tests may come beside anything, and stay.     *)
(***************************************************************************)
CONSTANTS Plans, NoPlan

VARIABLES
    current,    \* the tested plan that may be approved and published, or NoPlan
    untested,   \* the plans frozen without tests: all of them may be published
    retired,    \* the plans that were replaced
    released    \* the plans some publish has started to release

vars == <<current, untested, retired, released>>

Init == /\ current \in Plans \cup {NoPlan}
        /\ untested \in SUBSET (Plans \ {current})
        /\ retired = {}
        /\ released = {}

Known == {current} \cup untested \cup retired

\* A tested plan is frozen: the first one, or one that replaces the current plan.
Freeze(p) ==
    /\ p \notin Known
    /\ untested = {}
    /\ current \notin released
    /\ current' = p
    /\ retired' = retired \cup ({current} \ {NoPlan})
    /\ UNCHANGED <<untested, released>>

\* A plan is frozen without tests.
Add(p) ==
    /\ p \notin Known
    /\ untested' = untested \cup {p}
    /\ UNCHANGED <<current, retired, released>>

\* A publish writes its first state.
Release(p) ==
    /\ p \in untested \cup ({current} \ {NoPlan})
    /\ released' = released \cup {p}
    /\ UNCHANGED <<current, untested, retired>>

Next == \E p \in Plans : Freeze(p) \/ Add(p) \/ Release(p)

Spec == Init /\ [][Next]_vars
=============================================================================
