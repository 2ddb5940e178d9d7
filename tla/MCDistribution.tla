--------------------------- MODULE MCDistribution ---------------------------
(***************************************************************************)
(* Instances of Distribution for TLC: a payload mirror, the marketplace    *)
(* index that points to it, and a hook behind them.                        *)
(***************************************************************************)
EXTENDS Distribution

CONSTANTS r1, r2

TwoRuns == {r1, r2}

PayloadAndIndex == {"payload", "index"}
PointsTo == [m \in PayloadAndIndex |-> IF m = "index" THEN "payload" ELSE "none"]

Propose == {"propose"}
Nothing == {}

Chain == [i \in PayloadAndIndex \cup Propose |->
            CASE i = "payload" -> 1 [] i = "index" -> 2 [] OTHER -> 3]
\* One mirror, a lenient hook and a blocking one.
PayloadOnly == {"payload"}
PointsNowhere == [m \in PayloadOnly |-> "none"]
NotifyAndPropose == {"notify", "propose"}
Notify == {"notify"}
LenientFirst == [i \in PayloadOnly \cup NotifyAndPropose |->
                   CASE i = "payload" -> 1 [] i = "notify" -> 2 [] OTHER -> 3]
MirrorChain == [m \in PayloadAndIndex |-> Chain[m]]
=============================================================================
