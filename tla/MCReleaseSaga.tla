--------------------------- MODULE MCReleaseSaga ---------------------------
(***************************************************************************)
(* Instances of ReleaseSaga for TLC: plans of one release unit under the   *)
(* branch strategies, two or three runs.                                   *)
(***************************************************************************)
EXTENDS ReleaseSaga, TLC

CONSTANTS r1, r2, r3, r4

TwoRuns   == {r1, r2}
ThreeRuns == {r1, r2, r3}
FourRuns  == {r1, r2, r3, r4}
Symmetry2 == Permutations(TwoRuns)

TypeOf ==
    [advance |-> "push-snapshot",
     push    |-> "push-snapshot",
     default |-> "set-default-branch",
     tag     |-> "create-tag",
     npm     |-> "npm-publish",
     release |-> "github-release"]

\* two units: one advances its branch, the other creates a branch, a tag and a
\* GitHub Release
CreatePlan  == {"advance", "push", "tag", "release"}
\* initialize-default-branch
DefaultPlan == {"push", "default"}
\* the same with an npm package
MixedPlan == {"push", "default", "npm"}

CreateTypes  == [a \in CreatePlan |-> TypeOf[a]]
DefaultTypes == [a \in DefaultPlan |-> TypeOf[a]]
MixedTypes == [a \in MixedPlan |-> TypeOf[a]]

\* Two pushes share a place in the order of types: the plan breaks the tie.
Position(plan) == [a \in plan |-> IF a = "advance" THEN 0 ELSE CheckpointOrder[TypeOf[a]]]
CreateOrder  == Position(CreatePlan)
DefaultOrder == Position(DefaultPlan)
MixedOrder == Position(MixedPlan)

\* The default branch is read with the tip of the pushed branch, the release
\* with its tag.
NeedsIn(plan) ==
    [a \in plan |-> CASE a = "default" -> {"push"}
                      [] a = "release" -> {"tag"}
                      [] OTHER         -> {}]
CreateNeeds  == NeedsIn(CreatePlan)
DefaultNeeds == NeedsIn(DefaultPlan)
MixedNeeds == NeedsIn(MixedPlan)

NoneAdvance == {}
OneAdvances == {"advance"}

\* Runs are names: which of them starts first makes no difference, so only one
\* order is followed.  (Symmetry would not be sound with liveness.)
RunOrder == <<r1, r2, r3, r4>>
StartedInOrder ==
    \A i \in 1..3 : pc'[RunOrder[i + 1]] # "idle" => pc'[RunOrder[i]] # "idle"

\* Bound of the overlapping runs: one interference, a fault or a foreign write.
OneInterference == faults + tampers <= 1
=============================================================================
