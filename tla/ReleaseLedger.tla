---------------------------- MODULE ReleaseLedger ----------------------------
(***************************************************************************)
(* What a resumable release promises to whoever reads its ledger between   *)
(* two calls: only a frozen plan is released, the ledger never says more   *)
(* than was done, a verified release stays so in it, and neither the plan  *)
(* is thawed nor the baseline of the next release moved before the         *)
(* verification is on record.                                              *)
(***************************************************************************)
EXTENDS Naturals

CONSTANTS
    Published, Verified,    \* the last two of the stages 0 .. Verified
    Start                   \* the baseline of the release itself

VARIABLES
    made,       \* the stage the release has reached
    told,       \* the stage its ledger says; 0 when it says nothing
    frozen,     \* the plan is frozen
    baseline    \* what the next release would compare with

vars == <<made, told, frozen, baseline>>

\* The release may have been made before there was a ledger.
Init ==
    /\ made \in 0 .. Verified
    /\ told = 0
    /\ frozen = (made \in 1 .. Published)
    /\ baseline = Start

Freeze ==
    /\ made = 0
    /\ frozen' = TRUE
    /\ UNCHANGED <<made, told, baseline>>

\* Commands get further, whether or not they live to tell.
Make ==
    /\ frozen
    /\ made' \in made + 1 .. Verified
    /\ UNCHANGED <<told, frozen, baseline>>

Tell ==
    /\ told # Verified
    /\ told' \in 0 .. made
    /\ UNCHANGED <<made, frozen, baseline>>

Thaw ==
    /\ made = Verified
    /\ frozen' = FALSE
    /\ UNCHANGED <<made, told, baseline>>

MoveBaseline ==
    /\ made = Verified
    /\ baseline' # baseline
    /\ UNCHANGED <<made, told, frozen>>

Next == Freeze \/ Make \/ Tell \/ Thaw \/ MoveBaseline

Spec == Init /\ [][Next]_vars

\* The ledger lags, the freeze holds until the end, the baseline waits for it.
Promise ==
    /\ made \in 0 .. Verified /\ told \in 0 .. made
    /\ made \in 1 .. Published => frozen
    /\ baseline # Start => made = Verified
=============================================================================
