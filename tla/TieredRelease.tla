---------------------------- MODULE TieredRelease ----------------------------
(***************************************************************************)
(* What a release promises to whoever reads the remotes, whatever          *)
(* commands, crashes and third parties it takes to get there: an object    *)
(* comes into being only after its write was admitted on the durable       *)
(* record, a write is admitted only when everything on the levels below    *)
(* has been in place, and a command calls the release published only when  *)
(* every object has been.                                                  *)
(***************************************************************************)
EXTENDS Integers

CONSTANTS
    Objects,    \* what the plan creates or moves on the remotes
    Level,      \* Objects -> Int, the dependency tier
    Commands    \* who may call the release published

VARIABLES
    present,    \* objects that are as planned now
    ever,       \* objects that have been as planned
    admitted,   \* objects whose write the durable record admits
    told        \* commands whose result says PUBLISHED

vars == <<present, ever, admitted, told>>

Below(a) == {b \in Objects : Level[b] < Level[a]}

\* An earlier attempt may have left the objects of some complete lower levels.
Init ==
    /\ ever \in SUBSET Objects
    /\ \A a \in ever : Below(a) \subseteq ever
    /\ present = ever
    /\ admitted = {}
    /\ told = {}

Admit ==
    /\ admitted \subseteq admitted'
    /\ \A a \in admitted' \ admitted : a \in Objects /\ Below(a) \subseteq ever
    /\ UNCHANGED <<present, ever, told>>

Appear(a) ==
    /\ a \in admitted
    /\ present' = present \cup {a}
    /\ ever' = ever \cup {a}
    /\ UNCHANGED <<admitted, told>>

\* A third party deletes or replaces an object.
Vanish(a) ==
    /\ present' = present \ {a}
    /\ UNCHANGED <<ever, admitted, told>>

Tell(r) ==
    /\ ever = Objects
    /\ told' = told \cup {r}
    /\ UNCHANGED <<present, ever, admitted>>

Next ==
    \/ Admit
    \/ \E a \in Objects : Appear(a) \/ Vanish(a)
    \/ \E r \in Commands : Tell(r)

Spec == Init /\ [][Next]_vars

\* What a reader of the remotes and of the results may rely on at any time:
\* whatever has been in place, or may be written, has all levels below it
\* behind it, and nobody called the release published before all of it was.
Promise ==
    /\ \A a \in ever \cup admitted : Below(a) \subseteq ever
    /\ told # {} => ever = Objects

=============================================================================
