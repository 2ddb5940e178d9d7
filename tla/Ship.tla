-------------------------------- MODULE Ship --------------------------------
(***************************************************************************)
(* `ship`, the resumable composition: one state file, advanced by repeated *)
(* calls from a candidate to a VERIFIED release, through prepare, approve, *)
(* publish, reconcile, distribute, verify and postverify.                  *)
(*                                                                         *)
(* A call may be killed anywhere.  What it has done outside stays done; of *)
(* what it knew only the state file survives.  The commands it calls are   *)
(* modelled by what they return and leave behind (publish and reconcile in *)
(* ReleaseSaga, distribute in Distribution); verify's own writes and the   *)
(* hooks of a postverify run are steps here.                               *)
(***************************************************************************)
EXTENDS Integers, FiniteSets

CONSTANTS
    PostHooks,   \* the plan's hooks of phase postVerify
    Gated,       \* those that need a checkpoint approval
    Rank,        \* their frozen order
    Plans,       \* the plans it may be about
    MaxFaults    \* bound on crashes and errors

VARIABLES
    plan,        \* distributes: requiresPostPublishDistribution(plan);
                 \* branches: whether a unit advances its branch, and whether
                 \* one creates its new default branch
    file,        \* .release-skill/ships/current.json, durable
    mem,         \* the running call's state
    pc,          \* where the call is; "idle" when there is none
    opt,         \* its options: --approve and --hook-approval
    ranPost,     \* postVerifyRanThisCall
    hook,        \* checkpoints of the postverify run it drives
    pub,         \* how far the plan's external actions got
    tips,        \* what publish and reconcile find of its branches
    record,      \* a VERIFIED verify run exists
    frozen,      \* the FROZEN marker
    config,      \* previousPublicBaseline in project.yaml
    head,        \* the same in the last commit
    faults,
    posts,       \* history: postverify runs of this call
    torn         \* history: a call was killed before it had written and
                 \* validated or restored config, or failed to write it

remote == <<pub, tips>>
world == <<remote, record, frozen, config, head>>
call  == <<mem, pc, opt, ranPost, hook, posts>>
vars  == <<plan, file, call, world, faults, torn>>

Plan == [distributes : BOOLEAN, branches : SUBSET {"advance", "default"}]

ASSUME ShipAssumption ==
    /\ Gated \subseteq PostHooks
    /\ Rank \in [PostHooks -> Nat]
    /\ \A h, k \in PostHooks : Rank[h] = Rank[k] => h = k
    /\ Plans \subseteq Plan
    /\ MaxFaults \in Nat

-----------------------------------------------------------------------------
(* The state file.                                                         *)

Statuses == {"absent", "NEW", "NEEDS_PLAN_APPROVAL", "APPROVED", "PUBLISHING", "PARTIAL",
             "PUBLISHED", "DISTRIBUTING", "DISTRIBUTED", "NEEDS_INPUT",
             "NEEDS_MANUAL_ATTESTATIONS", "VERIFIED"}

PostStatuses == {"none", "FAILED", "DISTRIBUTED", "PARTIAL", "NEEDS_INPUT", "BLOCKED"}

\* source: status of the run sourceRunPath names; verify: verifyRunPath is
\* set; post and closed: outcome of the last postverify run, and its hooks
\* that need not run again.
State == [status : Statuses, candidate : BOOLEAN, source : {"none", "PARTIAL", "PUBLISHED"},
          verify : BOOLEAN, post : PostStatuses, closed : SUBSET PostHooks]

NoState == [status |-> "absent", candidate |-> FALSE, source |-> "none",
            verify |-> FALSE, post |-> "none", closed |-> {}]

Fresh == [NoState EXCEPT !.status = "NEW"]

Store(s) == mem' = s /\ file' = s

HookStatus == {"pending", "succeeded", "no_change", "skipped", "awaiting", "failed"}

NoHook == [h \in PostHooks |-> "pending"]

Points == {"idle", "prepare", "approve", "publish", "publishing", "reconcile",
           "reconciling", "published", "distributing", "verify", "marker", "baseline",
           "validate", "verified", "posting", "reentry"}

Goto(point) == pc' = point

Fault == faults < MaxFaults /\ faults' = faults + 1

NoFault == UNCHANGED faults

\* moved: an advancing branch was written, so the previous public baseline of
\* the plan is not on the remote any more.  absent: a branch that is to become
\* the default branch is not there yet.
Tips == [moved : BOOLEAN, absent : BOOLEAN]

\* What they may be when that much is released.
TipsOf(done) ==
    CASE done = "none" -> {[moved |-> FALSE, absent |-> "default" \in plan.branches]}
      [] done = "published" -> {[moved |-> "advance" \in plan.branches, absent |-> FALSE]}
      [] OTHER -> {t \in Tips : /\ t.moved => "advance" \in plan.branches
                                /\ t.absent => "default" \in plan.branches}

\* The call returns or throws.
Exit == Goto("idle") /\ UNCHANGED <<mem, file>>

\* The plan may have been released before, by a call that lost its state file
\* or by the commands one by one; then prepare reattaches to it.
Init ==
    /\ plan \in Plans
    /\ \/ file = NoState /\ pub = "none" /\ record = FALSE
       \/ /\ file = [Fresh EXCEPT !.candidate = TRUE]
          /\ pub \in {"none", "partial", "published"}
          /\ record \in {FALSE, pub = "published"}
    /\ tips \in TipsOf(pub)
    /\ mem = NoState
    /\ pc = "idle"
    /\ opt = [approve |-> FALSE, hooks |-> {}]
    /\ ranPost = FALSE
    /\ hook = NoHook
    /\ frozen = (pub # "none" /\ ~record)
    /\ config = "old" /\ head = "old"
    /\ faults = 0
    /\ posts = 0
    /\ torn = FALSE

-----------------------------------------------------------------------------
(* From the call to the published release.                                 *)

\* variant: a call that waited for attestations goes on behind the verification
Attested(status) ==
    CASE status = "NEW" -> "prepare"
      [] status = "NEEDS_PLAN_APPROVAL" -> "approve"
      [] status \in {"APPROVED", "PUBLISHING"} -> "publish"
      [] status = "PARTIAL" -> "reconcile"
      [] status = "PUBLISHED" -> "published"
      [] status = "NEEDS_MANUAL_ATTESTATIONS" -> "marker"
      [] status = "VERIFIED" -> "reentry"
      [] OTHER -> "idle"

\* variant: a call killed in publish is not resumed
NoResume(status) ==
    CASE status = "NEW" -> "prepare"
      [] status = "NEEDS_PLAN_APPROVAL" -> "approve"
      [] status = "APPROVED" -> "publish"
      [] status = "PARTIAL" -> "reconcile"
      [] status \in {"PUBLISHED", "NEEDS_MANUAL_ATTESTATIONS"} -> "published"
      [] status = "VERIFIED" -> "reentry"
      [] OTHER -> "idle"

\* The block of advanceShip a status enters; the rest only return.
Block(status) ==
    CASE status = "NEW" -> "prepare"
      [] status = "NEEDS_PLAN_APPROVAL" -> "approve"
      [] status \in {"APPROVED", "PUBLISHING"} -> "publish"
      [] status = "PARTIAL" -> "reconcile"
      [] status \in {"PUBLISHED", "NEEDS_MANUAL_ATTESTATIONS"} -> "published"
      [] status = "VERIFIED" -> "reentry"
      [] OTHER -> "idle"

Call(o) ==
    /\ pc = "idle"
    /\ opt' = o
    /\ Store(IF file.status = "absent" THEN Fresh ELSE file)
    /\ Goto(Block(mem'.status))
    /\ ranPost' = FALSE
    /\ posts' = 0
    /\ UNCHANGED <<plan, hook, world, faults, torn>>

\* prepare freezes a plan, asks for test evidence, or refuses.
Prepare ==
    /\ pc = "prepare" /\ pub = "none"
    /\ \/ /\ Store([mem EXCEPT !.status = "NEEDS_PLAN_APPROVAL", !.candidate = FALSE])
          /\ frozen' = TRUE
          /\ Goto("approve")
          /\ NoFault
       \/ /\ Store([mem EXCEPT !.candidate = TRUE])
          /\ Goto("idle")
          /\ Fault
          /\ UNCHANGED frozen
       \/ Exit /\ Fault /\ UNCHANGED frozen
    /\ UNCHANGED <<plan, opt, ranPost, hook, posts, remote, record, config, head, torn>>

\* A VERIFIED release found with its verify run and the one postverify run that
\* counts, of whose hooks done need not run again.
Carried(done) ==
    [mem EXCEPT !.status = "VERIFIED", !.verify = TRUE, !.closed = done,
                !.post = IF done = PostHooks THEN "DISTRIBUTED" ELSE "PARTIAL"]

\* A candidate that was released already: the state takes the status of that
\* release and the call returns.
Reattach ==
    /\ pc = "prepare" /\ pub # "none"
    /\ \/ /\ \/ record /\ \E done \in SUBSET PostHooks : Store(Carried(done))
             \/ Store(CASE record            -> [mem EXCEPT !.status = "VERIFIED"]
                        [] pub = "published" -> [mem EXCEPT !.status = "PUBLISHED"]
                        [] OTHER             -> [mem EXCEPT !.status = "PARTIAL"])
          /\ Goto("idle")
          /\ NoFault
       \/ Exit /\ Fault
    /\ UNCHANGED <<plan, opt, ranPost, hook, posts, world, torn>>

Approve ==
    /\ pc = "approve"
    /\ \/ /\ opt.approve
          /\ Store([mem EXCEPT !.status = "APPROVED"])
          /\ Goto("publish")
          /\ NoFault
       \/ ~opt.approve /\ Exit /\ NoFault
       \/ opt.approve /\ Exit /\ Fault
    /\ UNCHANGED <<plan, opt, ranPost, hook, posts, world, torn>>

\* publish compares the previous baseline with the remote once more (Gate 9b)
\* and refuses a plan that has moved it itself.
StartPublish ==
    /\ pc = "publish"
    /\ Store([mem EXCEPT !.status = "PUBLISHING"])
    /\ Goto(IF tips.moved THEN "idle" ELSE "publishing")
    /\ UNCHANGED <<plan, opt, ranPost, hook, posts, world, faults, torn>>

\* The saga changes the remotes long before the command returns.
Release ==
    /\ pc \in {"publishing", "reconciling"}
    /\ pub # "published" /\ pub' \in {"partial", "published"}
    /\ tips' \in TipsOf(pub')
    /\ (tips.moved => tips'.moved) /\ (tips'.absent => tips.absent)
    /\ UNCHANGED <<plan, file, call, record, frozen, config, head, faults, torn>>

\* variant: anything released counts as published
Hasty == IF pub = "none" THEN "PARTIAL" ELSE "PUBLISHED"

\* variant: the saga's own word is stored
Untranslated == pub

RunStatus == IF pub = "published" THEN "PUBLISHED" ELSE "PARTIAL"

\* publish returns PUBLISHED or PARTIAL, or throws.
PublishReturns ==
    /\ pc = "publishing"
    /\ \/ /\ RunStatus # "PARTIAL"
          /\ Store([mem EXCEPT !.status = RunStatus, !.source = RunStatus])
          /\ Goto("published")
          /\ NoFault
       \/ /\ Fault
          /\ Store([mem EXCEPT !.status = "PARTIAL", !.source = "PARTIAL"])
          /\ Goto("reconcile")
       \/ Exit /\ Fault
    /\ UNCHANGED <<plan, opt, ranPost, hook, posts, world, torn>>

\* reconcile takes a PARTIAL run only, and takes the absent branch of a
\* set-default-branch action for a remote conflict.
StartReconcile ==
    /\ pc = "reconcile"
    /\ Goto(IF mem.source = "PARTIAL" /\ ~tips.absent THEN "reconciling" ELSE "idle")
    /\ UNCHANGED <<plan, file, mem, opt, ranPost, hook, posts, world, faults, torn>>

ReconcileReturns ==
    /\ pc = "reconciling"
    /\ \/ /\ RunStatus # "PARTIAL"
          /\ Store([mem EXCEPT !.status = RunStatus, !.source = RunStatus])
          /\ Goto("published")
          /\ NoFault
       \/ Fault /\ Store([mem EXCEPT !.status = "PARTIAL", !.source = "PARTIAL"]) /\ Goto("idle")
       \/ Exit /\ Fault
    /\ UNCHANGED <<plan, opt, ranPost, hook, posts, world, torn>>

-----------------------------------------------------------------------------
(* Distribution and verification.                                          *)

\* A reattached PUBLISHED release has no source run: nothing more is done.
EnterPublished ==
    /\ pc = "published"
    /\ \/ mem.source = "none" /\ Exit
       \/ /\ mem.source # "none" /\ plan.distributes
          /\ Store([mem EXCEPT !.status = "DISTRIBUTING"])
          /\ Goto("distributing")
       \/ /\ mem.source # "none" /\ ~plan.distributes
          /\ Goto("verify")
          /\ UNCHANGED <<mem, file>>
    /\ UNCHANGED <<plan, opt, ranPost, hook, posts, world, faults, torn>>

\* distribute returns its run's status; a failed checkpoint or an error makes
\* the state PARTIAL and ends the call (the run's own status, which a failed
\* checkpoint leaves in the file for a moment, is passed over).
DistributeReturns ==
    /\ pc = "distributing"
    /\ \/ /\ \E status \in {"DISTRIBUTED", "NEEDS_INPUT", "PARTIAL"} :
               Store([mem EXCEPT !.status = status])
          /\ Goto("verify")
          /\ NoFault
       \/ /\ Fault
          /\ Store([mem EXCEPT !.status = "PARTIAL"])
          /\ Goto("idle")
    /\ UNCHANGED <<plan, opt, ranPost, hook, posts, world, torn>>

\* What ship hands verify: the distribute run of a plan that needs one.
VerifySource == IF plan.distributes THEN "distribute" ELSE mem.source

\* verify accepts a PUBLISHED publish or reconcile run and nothing else.  It
\* writes its record before anything that follows from it.
Verify ==
    /\ pc = "verify"
    /\ \/ VerifySource # "PUBLISHED" /\ Exit /\ NoFault /\ UNCHANGED record
       \/ /\ VerifySource = "PUBLISHED"
          /\ record' = TRUE
          /\ Goto("marker")
          /\ NoFault
          /\ UNCHANGED <<mem, file>>
       \/ /\ VerifySource = "PUBLISHED"
          /\ Fault
          /\ Store([mem EXCEPT !.status = "NEEDS_MANUAL_ATTESTATIONS"])
          /\ Goto("idle")
          /\ UNCHANGED record
       \/ VerifySource = "PUBLISHED" /\ Exit /\ Fault /\ UNCHANGED record
    /\ UNCHANGED <<plan, opt, ranPost, hook, posts, remote, frozen, config, head, torn>>

\* The marker goes, or its removal fails; the release is VERIFIED either way.
ClearMarker ==
    /\ pc = "marker"
    /\ \/ frozen' = FALSE /\ NoFault
       \/ UNCHANGED frozen /\ Fault
    /\ Goto("baseline")
    /\ UNCHANGED <<plan, file, mem, opt, ranPost, hook, posts, remote, record, config, head, torn>>

\* A write of the config that does not end: it truncates the file in place.
Tear ==
    /\ config' \in IF config = "old" THEN {"old", "broken"} ELSE {config}
    /\ torn' = (torn \/ config' # config)

\* The baseline of the next release is written into the config, unless it is
\* there already or the config can not be read; a failed write is passed over.
WriteBaseline ==
    /\ pc = "baseline"
    /\ \/ config = "old" /\ config' = "new" /\ Goto("validate") /\ NoFault /\ UNCHANGED torn
       \/ config = "old" /\ config' = "broken" /\ Goto("validate") /\ Fault /\ UNCHANGED torn
       \/ config # "old" /\ UNCHANGED <<config, torn>> /\ Goto("verified") /\ NoFault
       \/ Tear /\ Goto("verified") /\ Fault
    /\ UNCHANGED <<plan, file, mem, opt, ranPost, hook, posts, remote, record, frozen, head>>

\* variant: a config that fails validation is left as it was written
KeepsBroken == config

Restored == IF config = "broken" THEN "old" ELSE config

\* The new text is validated where it is; when it fails the old text is put
\* back, if it can be written; when it holds it is committed, if git can.
Validate ==
    /\ pc = "validate"
    /\ \/ config = "new" /\ head' = "new" /\ NoFault /\ UNCHANGED <<config, torn>>
       \/ config = "new" /\ Fault /\ UNCHANGED <<config, head, torn>>
       \/ config # "new" /\ config' = Restored /\ NoFault /\ UNCHANGED <<head, torn>>
       \/ config = "broken" /\ torn' = TRUE /\ Fault /\ UNCHANGED <<config, head>>
    /\ Goto("verified")
    /\ UNCHANGED <<plan, file, mem, opt, ranPost, hook, posts, remote, record, frozen>>

\* Step 3: the independent postverify run, when the plan has such hooks.
StoreVerified ==
    /\ pc = "verified"
    /\ Store([mem EXCEPT !.status = "VERIFIED", !.verify = TRUE])
    /\ IF PostHooks # {}
       THEN Goto("posting") /\ ranPost' = TRUE /\ posts' = posts + 1 /\ hook' = NoHook
       ELSE Goto("idle") /\ UNCHANGED <<ranPost, posts, hook>>
    /\ UNCHANGED <<plan, opt, world, faults, torn>>

-----------------------------------------------------------------------------
(* The postverify run.                                                     *)

OpenHooks == {h \in PostHooks : hook[h] = "pending"}

Turn(h) == h \in OpenHooks /\ \A k \in OpenHooks : Rank[h] <= Rank[k]

HookFailed == \E h \in PostHooks : hook[h] = "failed"

\* A failure skips the rest; a gated hook without approval parks.
RunHook(h) ==
    /\ pc = "posting" /\ Turn(h)
    /\ \/ HookFailed /\ hook' = [hook EXCEPT ![h] = "skipped"] /\ NoFault
       \/ /\ ~HookFailed /\ h \in Gated \ opt.hooks
          /\ hook' = [hook EXCEPT ![h] = "awaiting"]
          /\ NoFault
       \/ /\ ~HookFailed /\ h \notin Gated \ opt.hooks
          /\ \/ \E s \in {"succeeded", "no_change"} : hook' = [hook EXCEPT ![h] = s] /\ NoFault
             \/ hook' = [hook EXCEPT ![h] = "failed"] /\ Fault
    /\ UNCHANGED <<plan, file, mem, pc, opt, ranPost, posts, world, torn>>

Closed == {h \in PostHooks : hook[h] \in {"succeeded", "no_change"}}

PostStatus ==
    LET parked == \E h \in PostHooks : hook[h] = "awaiting"
    IN  CASE ~HookFailed /\ ~parked -> "DISTRIBUTED"
          [] Closed # {}            -> "PARTIAL"
          [] HookFailed             -> "BLOCKED"
          [] OTHER                  -> "NEEDS_INPUT"

\* variant: a postverify run that is not complete takes the release's status back
Demoted(outcome) ==
    IF outcome.post = "DISTRIBUTED" THEN outcome ELSE [outcome EXCEPT !.status = "PARTIAL"]

\* Its outcome is recorded; the release stays VERIFIED.
Kept(outcome) == outcome

PostReturns ==
    /\ pc = "posting"
    /\ \/ /\ OpenHooks = {}
          /\ Store(Kept([mem EXCEPT !.post = PostStatus, !.closed = Closed]))
          /\ NoFault
       \/ /\ Fault
          /\ Store(Kept([mem EXCEPT !.post = "FAILED", !.closed = {}]))
    /\ Goto("reentry")
    /\ UNCHANGED <<plan, opt, ranPost, hook, posts, world, torn>>

\* variant: the run of step 3 is forgotten
ByOutcome == mem.post # "DISTRIBUTED"

\* A run of this very call is not repeated.
Reenters == ~ranPost /\ mem.post # "DISTRIBUTED"

\* A later call runs the phase again when it brings an approval, or when no
\* hook that is still open needs one.
Reenter ==
    /\ pc = "reentry"
    /\ LET still == PostHooks \ mem.closed
           goes  == /\ mem.verify /\ Reenters /\ PostHooks # {}
                    /\ opt.hooks # {} \/ (still # {} /\ still \cap Gated = {})
       IN  \/ /\ goes
              /\ Goto("posting")
              /\ posts' = posts + 1
              /\ ranPost' = TRUE
              /\ hook' = NoHook
              /\ UNCHANGED <<mem, file>>
           \/ ~goes /\ Exit /\ UNCHANGED <<ranPost, posts, hook>>
    /\ UNCHANGED <<plan, opt, world, faults, torn>>

Crash ==
    /\ pc # "idle"
    /\ Fault
    /\ Exit
    /\ IF pc = "baseline" THEN Tear
       ELSE torn' = (torn \/ pc = "validate") /\ UNCHANGED config
    /\ UNCHANGED <<plan, opt, ranPost, hook, posts, remote, record, frozen, head>>

-----------------------------------------------------------------------------
Options == [approve : BOOLEAN, hooks : SUBSET Gated]

Everything == [approve |-> TRUE, hooks |-> Gated]

Run ==
    \/ Prepare \/ Reattach \/ Approve
    \/ StartPublish \/ PublishReturns \/ StartReconcile \/ ReconcileReturns
    \/ EnterPublished \/ DistributeReturns
    \/ Verify \/ ClearMarker \/ WriteBaseline \/ Validate \/ StoreVerified
    \/ PostReturns \/ Reenter
    \/ \E h \in PostHooks : RunHook(h)

Next == (\E o \in Options : Call(o)) \/ Release \/ Run \/ Crash

Spec == Init /\ [][Next]_vars

\* A call runs on, the remotes get there, and whoever ships calls again, now
\* and then with every approval.
FairSpec ==
    /\ Spec
    /\ WF_vars(Run)
    /\ WF_vars(Release)
    /\ SF_vars(Call(Everything))

(***************************************************************************)
(* Properties                                                              *)
(***************************************************************************)
\* The type invariant.
TypeOK ==
    /\ plan \in Plan
    /\ file \in State /\ mem \in State
    /\ pc \in Points
    /\ opt \in Options
    /\ ranPost \in BOOLEAN
    /\ hook \in [PostHooks -> HookStatus]
    /\ pub \in {"none", "partial", "published"} /\ tips \in Tips
    /\ record \in BOOLEAN /\ frozen \in BOOLEAN
    /\ config \in {"old", "new", "broken"} /\ head \in {"old", "new"}
    /\ faults \in 0 .. MaxFaults
    /\ posts \in Nat
    /\ torn \in BOOLEAN

\* The state file never runs ahead of the release: what it says of the
\* release is so, wherever a call was killed.
TellsTruth ==
    /\ file.status \in {"PUBLISHED", "DISTRIBUTING", "DISTRIBUTED", "NEEDS_INPUT",
                        "NEEDS_MANUAL_ATTESTATIONS", "VERIFIED"} => pub = "published"
    /\ file.source = "PUBLISHED" => pub = "published"
    /\ file.status = "VERIFIED" \/ file.verify => record

\* The FROZEN marker stands from the freeze until a VERIFIED run is on disk,
\* and the next release's baseline is not moved before that.
FrozenUntilVerified ==
    /\ file.status \notin {"absent", "NEW"} /\ ~frozen => record
    /\ config # "old" \/ head # "old" => record

\* A config that would fail its validation is only ever on disk while the call
\* that wrote it is about to restore it, or after a call was killed over it or
\* failed half-way in writing or restoring it: no write that ends leaves it so.
ConfigRestored == config = "broken" => pc = "validate" \/ torn

\* A postverify run that fails, parks or throws does not take VERIFIED back.
VerifiedStays == [][file.status = "VERIFIED" => file'.status = "VERIFIED"]_vars

\* One call starts at most one postverify run: the hooks that just ran are not
\* run again because their outcome is open.
PostVerifyOnce == posts <= 1

Finished == file.status = "VERIFIED" /\ (PostHooks = {} \/ file.post = "DISTRIBUTED")

\* Two ends from which no call leads on: ship publishes again what was killed
\* while PUBLISHING and never reconciles it, and only reconciles what is PARTIAL.
Stuck ==
    /\ pc = "idle"
    /\ \/ file.status = "PUBLISHING" /\ tips.moved
       \/ file.status = "PARTIAL" /\ tips.absent

\* A release that needs no distribution gets there, wherever calls were killed
\* or commands failed, or comes to one of these two ends: where publish and
\* reconcile do not refuse the plan for good, calling again resumes it.
ShipFinishes == file.status = "APPROVED" /\ ~plan.distributes ~> Finished \/ Stuck

\* The same of every plan: ship.mjs:451 says that re-running resumes.
ShipResumes == file.status = "APPROVED" ~> file.status = "VERIFIED"

\* The stages of a release: nothing, something, everything on the remotes, and
\* a VERIFIED run on disk.
Stage ==
    IF record THEN 3
    ELSE CASE pub = "none" -> 0 [] pub = "partial" -> 1 [] OTHER -> 2

\* The stage the state file says; PARTIAL says nothing of the remotes.
Said ==
    IF file.status = "VERIFIED" THEN 3
    ELSE IF \/ file.source = "PUBLISHED"
            \/ file.status \in {"PUBLISHED", "DISTRIBUTING", "DISTRIBUTED", "NEEDS_INPUT",
                                "NEEDS_MANUAL_ATTESTATIONS"}
    THEN 2 ELSE 0

Ledger == INSTANCE ReleaseLedger WITH
    Published <- 2, Verified <- 3, Start <- <<"old", "old">>,
    made <- Stage, told <- Said, baseline <- <<config, head>>

\* The calls together, killed anywhere, keep such a ledger.
ImplementsLedger == Ledger!Spec
=============================================================================
