------------------------------ MODULE Delivery ------------------------------
(***************************************************************************)
(* What postPublish distribution promises to the rest of release-skill: a  *)
(* run says DISTRIBUTED only when every mirror has received the release    *)
(* (or carries its tag), and what a mirror received is not taken back.     *)
(***************************************************************************)
CONSTANTS Mirrors, Runs

VARIABLES
    received,   \* mirrors whose branch has carried the release
    tagged,     \* mirrors that have the release's tag
    told        \* runs that reported DISTRIBUTED

vars == <<received, tagged, told>>

\* A payload that did not change since the last release is there already.
Init == /\ received \subseteq Mirrors
        /\ tagged = {}
        /\ told = {}

Receive(m) == received' = received \cup {m} /\ UNCHANGED <<tagged, told>>

Tag(m) == tagged' = tagged \cup {m} /\ UNCHANGED <<received, told>>

Tell(r) ==
    /\ Mirrors \subseteq received \cup tagged
    /\ told' = told \cup {r}
    /\ UNCHANGED <<received, tagged>>

Next == \/ \E m \in Mirrors : Receive(m) \/ Tag(m)
        \/ \E r \in Runs : Tell(r)

Spec == Init /\ [][Next]_vars
=============================================================================
