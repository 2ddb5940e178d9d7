------------------------ MODULE MCArtifactTransaction ------------------------
(***************************************************************************)
(* Instances of ArtifactTransaction for TLC.                               *)
(***************************************************************************)
EXTENDS ArtifactTransaction, TLC

CONSTANTS t1, t2, x1, x2

OneTxn == {t1}
TwoTxns == {t1, t2}
TwoTargets == {x1, x2}
OnlyLast == {t2}
None == {}

\* Every transaction writes all its targets.
WritesAll == [t \in Txns |-> {}]

\* The first transaction removes one target and writes the other.
RemovesOne == [t \in Txns |-> IF t = t1 THEN {x2} ELSE {}]
=============================================================================
