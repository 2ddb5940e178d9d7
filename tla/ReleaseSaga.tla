---------------------------- MODULE ReleaseSaga ----------------------------
(***************************************************************************)
(* The release saga: `publish` and `reconcile` runs driving the external   *)
(* actions of one frozen, approved plan against remotes that other parties *)
(* also write to.                                                          *)
(*                                                                         *)
(* A run is one invocation of a command.  It keeps its checkpoints in      *)
(* memory, appends immutable snapshots to its own states/ journal, and     *)
(* ends by writing release-run.json.  Only the journal and that file       *)
(* survive a crash.  Writes travel to the remote: a request may be applied *)
(* although its answer is lost, may be dropped, and may still be applied   *)
(* after the run that sent it gave up or died.                             *)
(***************************************************************************)
EXTENDS Integers, Sequences, FiniteSets

CONSTANTS
    Runs,        \* command invocations; each owns a fresh run directory
    Actions,     \* the plan's remote-write actions
    Type,        \* Actions -> ActionTypes
    PlanOrder,   \* Actions -> Nat, position in the plan (the stable sort's tie break)
    Advancing,   \* push-snapshots with branchStrategy advance-existing-branch
    Needs,       \* Actions -> SUBSET Actions, remote objects an action reads besides its own
    Overlap,     \* TRUE: commands may run concurrently; FALSE: one at a time
    MaxFaults,   \* bound on crashes, lost messages and failed or stale reads
    MaxTampers   \* bound on third-party writes

VARIABLES
    cmd,         \* run -> command it executes
    pc,          \* run -> control point of the command
    cp,          \* run -> in-memory checkpoint statuses
    local,       \* run -> progress of each action inside executeCheckpoint
    todo,        \* run -> actions still to be observed in the current read-only pass
    retry,       \* run -> reconcile's actionsToRetry
    src,         \* run -> the PARTIAL authority a reconcile started from
    journal,     \* run -> states/NNNNNN.json, durable
    runFile,     \* run -> release-run.json, durable
    remote,      \* action -> what the remote holds for it
    inflight,    \* write requests on their way to the remote
    faults, tampers,
    sent,        \* history: run -> actions it issued a write request for
    drift,       \* history: run -> actions a third party touched since the run last saw them match
    planned      \* history: actions whose planned object has existed on the remote

memory  == <<cmd, pc, cp, local, todo, retry, src>>
durable == <<journal, runFile>>
world   == <<remote, inflight, faults, tampers>>
history == <<sent, drift, planned>>
vars    == <<memory, durable, world, history>>

-----------------------------------------------------------------------------
(* Action types, their order and their dependency tiers (checkpoints.mjs). *)

ActionTypes == {"push-snapshot", "set-default-branch", "create-tag",
                "npm-publish", "github-release"}

\* CHECKPOINT_ORDER: the serial order both commands sort a plan into.
CheckpointOrder ==
    [t \in ActionTypes |-> CASE t = "push-snapshot"      -> 1
                             [] t = "set-default-branch" -> 2
                             [] t = "create-tag"         -> 3
                             [] t = "npm-publish"        -> 4
                             [] t = "github-release"     -> 5]

\* TIER_TABLE: the barrier groups publish executes.
TierTable ==
    [t \in ActionTypes |-> CASE t = "push-snapshot"  -> 0
                             [] t = "github-release" -> 2
                             [] OTHER                -> 1]

Tier(a) == TierTable[Type[a]]

Precedes(a, b) ==
    \/ CheckpointOrder[Type[a]] < CheckpointOrder[Type[b]]
    \/ /\ CheckpointOrder[Type[a]] = CheckpointOrder[Type[b]]
       /\ PlanOrder[a] < PlanOrder[b]

\* Variants, here and below, change a definition the way a mistake in the code
\* would; each makes one of the properties fail.
AnyOf(a, S) == a \in S                     \* variant: plan order ignored

IsFirst(a, S) == a \in S /\ \A b \in S \ {a} : Precedes(a, b)

EveryTier(S) == S                          \* variant: no barrier between tiers

\* The actions of the next unfinished tier.
TierOf(S) == {a \in S : \A b \in S : Tier(a) <= Tier(b)}

ASSUME PlanAssumption ==
    /\ Type \in [Actions -> ActionTypes]
    /\ PlanOrder \in [Actions -> Nat]
    /\ \A a, b \in Actions : PlanOrder[a] = PlanOrder[b] => a = b
    /\ Advancing \subseteq {a \in Actions : Type[a] = "push-snapshot"}
    /\ Needs \in [Actions -> SUBSET Actions]
    /\ \A a \in Actions : \A b \in Needs[a] : Tier(b) < Tier(a)

ASSUME BoundAssumption ==
    MaxFaults \in Nat /\ MaxTampers \in Nat /\ Overlap \in BOOLEAN

-----------------------------------------------------------------------------
(* What the remote holds, and what an adapter's observe reports of it.     *)

\* "old" is the frozen predecessor tip or the old default branch name;
\* "partial" a GitHub Release that lacks some of the planned assets.
RemoteValues == {"absent", "old", "planned", "partial", "foreign"}

Initial(a) == IF a \in Advancing \/ Type[a] = "set-default-branch" THEN "old" ELSE "absent"

NeedsPlanned(a) == \A b \in Needs[a] : remote[b] = "planned"
NeedsAbsent(a)  == \E b \in Needs[a] : remote[b] = "absent"

\* An observation relative to the frozen plan: it matches, shows the safe
\* pre-state, carries an explicit absence marker, or shows something else.
PushView(a) ==
    CASE remote[a] = "planned" -> "match"
      [] remote[a] = "absent"  -> "missing"
      [] a \in Advancing /\ remote[a] = "old" -> "pre"
      [] OTHER -> "conflict"

\* The observation is the pair (default branch, tip of the new branch).
DefaultBranchView(a) ==
    CASE ~ NeedsPlanned(a)     -> "conflict"
      [] remote[a] = "planned" -> "match"
      [] remote[a] = "old"     -> "pre"
      [] OTHER                 -> "conflict"

\* variant: a release that lacks assets is taken for the planned one
AssetsIgnored(a) ==
    CASE remote[a] = "absent" \/ NeedsAbsent(a)                          -> "missing"
      [] remote[a] \in {"planned", "partial"} /\ NeedsPlanned(a)         -> "match"
      [] OTHER                                                           -> "conflict"

\* The release is read together with the tag it names: a 404 on either, or a
\* missing asset, is reported as exists:false.
ReleaseView(a) ==
    CASE remote[a] \in {"absent", "partial"} \/ NeedsAbsent(a) -> "missing"
      [] remote[a] = "planned" /\ NeedsPlanned(a)              -> "match"
      [] OTHER                                                 -> "conflict"

View(a) == CASE Type[a] = "set-default-branch" -> DefaultBranchView(a)
             [] Type[a] = "github-release"     -> ReleaseView(a)
             [] OTHER                          -> PushView(a)

\* Remotes whose reads may still miss an object after it was written, for
\* longer than the five attempts of observeWithRetry.
Lagging == {"npm-publish", "github-release"}

\* A read costs a fault when it does not show the truth.
Reads(a) ==
    {[view |-> View(a), cost |-> 0]} \cup
    (IF faults = MaxFaults THEN {} ELSE
        {[view |-> "unobservable", cost |-> 1]} \cup
        {[view |-> "missing", cost |-> 1] : t \in {Type[a]} \cap Lagging})

\* Adapter preflight: a create-only target must not exist, an advancing branch
\* must sit at its frozen predecessor, the default branch must still be the old
\* one, a release may exist only with planned assets missing.
PreflightPasses(a) ==
    CASE a \in Advancing               -> remote[a] = "old"
      [] Type[a] = "set-default-branch" ->
            /\ remote[a] = "old"
            /\ \A b \in Needs[a] : remote[b] \in {"absent", "planned"}
      [] Type[a] = "github-release" ->
            \/ remote[a] = "absent" \/ NeedsAbsent(a)
            \/ remote[a] = "partial" /\ NeedsPlanned(a)
      [] OTHER -> remote[a] = "absent"

\* What execute decides to do from its own reads right before it writes.
Attempt(a) ==
    CASE Type[a] = "set-default-branch" ->
            IF remote[a] = "old" /\ NeedsPlanned(a) THEN "write" ELSE "refuse"
      [] Type[a] = "github-release" ->
            CASE remote[a] = "absent" \/ NeedsAbsent(a)     -> "write"
              [] ~ NeedsPlanned(a) \/ remote[a] = "foreign" -> "refuse"
              [] remote[a] = "partial"                      -> "upload"
              [] OTHER                                      -> "noop"
      [] OTHER -> "write"

\* What the remote makes of a request.  Pushes carry a create-only lease, an
\* advancing push is a plain fast-forward, a ref already at the pushed commit is
\* up to date, npm versions are immutable, a release create verifies its tag and
\* may stop half way; the default-branch PATCH is unconditional.
Effects(a, op) ==
    LET accepted(v) == [value |-> v, ok |-> TRUE, cost |-> 0]
        rejected    == [value |-> remote[a], ok |-> FALSE, cost |-> 0]
        cutShort    == [value |-> "partial", ok |-> FALSE, cost |-> 1]
    IN  CASE Type[a] = "set-default-branch" -> {accepted("planned")}
          [] a \in Advancing ->
                {IF remote[a] = "foreign" THEN rejected ELSE accepted("planned")}
          [] Type[a] = "github-release" ->
                IF \/ op = "write" /\ remote[a] = "absent" /\ ~ NeedsAbsent(a)
                   \/ op = "upload" /\ remote[a] = "partial"
                THEN {accepted("planned")} \cup {cutShort : f \in faults..MaxFaults - 1}
                ELSE {rejected}
          [] OTHER ->
                {IF \/ remote[a] = "absent"
                    \/ remote[a] = "planned" /\ Type[a] # "npm-publish"
                 THEN accepted("planned") ELSE rejected}

\* What a third party can leave behind.
TamperValues(a) ==
    CASE a \in Advancing                -> {"absent", "old", "foreign"}
      [] Type[a] = "set-default-branch" -> {"old", "foreign"}
      [] Type[a] = "github-release"     -> {"absent", "partial", "foreign"}
      [] OTHER                          -> {"absent", "foreign"}

-----------------------------------------------------------------------------
(* Checkpoints, snapshots and runs.                                        *)

CpStatus == {"pending", "uncertain", "succeeded", "skipped", "failed"}
Done     == {"succeeded", "skipped"}
Pending  == [a \in Actions |-> "pending"]

RunStatus == {"NONE", "PUBLISHING", "PARTIAL", "PUBLISHED"}
Snapshot  == [status : RunStatus, cp : [Actions -> CpStatus]]
NoRun     == [status |-> "NONE", cp |-> Pending]

\* The status the checkpoints of a finishing run add up to.
OverallStatus(command, c) ==
    CASE \A a \in Actions : c[a] \in Done -> "PUBLISHED"
      [] \E a \in Actions : c[a] \in {"failed", "uncertain"} -> "PARTIAL"
      [] OTHER -> IF command = "publish" THEN "PUBLISHING" ELSE "PARTIAL"

\* Everything a later reconcile can be pointed at.
Authorities(r) == {journal[r][i] : i \in DOMAIN journal[r]} \cup ({runFile[r]} \ {NoRun})

LocalSteps == {"idle", "preobserve", "preflight", "execute", "waiting", "executed",
               "errored"} \cup (CpStatus \ {"pending"})
Settled == CpStatus \ {"pending"}

Ended    == {"ended", "refused", "crashed"}
Controls == {"idle", "first", "tier", "run", "scan", "preflight", "retry",
             "check", "append", "write"} \cup Ended

Request == [run : Runs, action : Actions, op : {"write", "upload"}]

\* appendRunState: one more immutable snapshot in the run's own journal.
AppendState(r, status, c) ==
    journal' = [journal EXCEPT ![r] = Append(@, [status |-> status, cp |-> c])]

MarkedLate(c, S) == c                      \* variant: snapshot taken before marking

\* Checkpoints with the actions about to execute marked UNCERTAIN.
Marked(c, S) == [a \in Actions |-> IF a \in S THEN "uncertain" ELSE c[a]]

BranchTypes == {"push-snapshot", "set-default-branch"}

\* variant: the default branch is not read again
PushedBranches == {a \in Actions : Type[a] = "push-snapshot"}

\* The final pass re-reads branches and the default branch.
BranchActions == {a \in Actions : Type[a] \in BranchTypes}

\* From here on, only what happens to S after this step excuses the run.
Fresh(r, S) == drift' = [drift EXCEPT ![r] = @ \ S]
Saw(r, a, view) == Fresh(r, {b \in {a} : view = "match"})

StartCheck(r) ==
    /\ todo' = [todo EXCEPT ![r] = BranchActions]
    /\ Fresh(r, {a \in Actions : Type[a] \in BranchTypes})

Init ==
    /\ cmd = [r \in Runs |-> "none"]
    /\ pc = [r \in Runs |-> "idle"]
    /\ cp = [r \in Runs |-> Pending]
    /\ local = [r \in Runs |-> [a \in Actions |-> "idle"]]
    /\ todo = [r \in Runs |-> {}]
    /\ retry = [r \in Runs |-> {}]
    /\ src = [r \in Runs |-> NoRun]
    /\ journal = [r \in Runs |-> <<>>]
    /\ runFile = [r \in Runs |-> NoRun]
    \* an earlier attempt whose evidence is gone may have written a prefix of the tiers
    /\ \E done \in SUBSET Actions :
         /\ \A a \in done, b \in Actions : Tier(b) < Tier(a) => b \in done
         /\ remote = [a \in Actions |-> IF a \in done THEN "planned" ELSE Initial(a)]
         /\ planned = done
    /\ inflight = {}
    /\ faults = 0
    /\ tampers = 0
    /\ sent = [r \in Runs |-> {}]
    /\ drift = [r \in Runs |-> {}]

-----------------------------------------------------------------------------
(* publish                                                                 *)

MayStart(r) ==
    /\ pc[r] = "idle"
    /\ Overlap \/ \A q \in Runs : pc[q] \in Ended \cup {"idle"}

\* The predecessor of an advancing branch is its unit's previous public baseline.
\* publish wants it where it was frozen; reconcile takes the planned commit too.
FrozenTips   == {"old"}
AcceptedTips == {"old", "planned"}
BaselineHolds(tips) == \A a \in Advancing : remote[a] \in tips

\* The two gates that read what the plan writes: every unit's previous public
\* baseline is where it was frozen, exactly, and every action either passes its
\* preflight or is already consistent.  So once an advancing branch was pushed no
\* publish of the plan starts again.  A gate that fails throws before anything
\* is recorded.
StartPublish(r) ==
    /\ MayStart(r)
    /\ BaselineHolds(FrozenTips)
    /\ \A a \in Actions : PreflightPasses(a) \/ View(a) = "match"
    /\ cmd' = [cmd EXCEPT ![r] = "publish"]
    /\ pc' = [pc EXCEPT ![r] = "first"]
    /\ UNCHANGED <<cp, local, todo, retry, src, durable, world, history>>

\* Snapshot 0 is PUBLISHING with every checkpoint pending.
PersistFirst(r) ==
    /\ pc[r] = "first"
    /\ AppendState(r, "PUBLISHING", cp[r])
    /\ pc' = [pc EXCEPT ![r] = "tier"]
    /\ UNCHANGED <<cmd, cp, local, todo, retry, src, runFile, world, history>>

\* The next tier: all its actions become UNCERTAIN in one durable snapshot
\* before any of them may write.
StartTier(r) ==
    /\ pc[r] = "tier"
    /\ LET tier == TierOf({a \in Actions : cp[r][a] = "pending"})
           cps  == Marked(cp[r], tier)
       IN  /\ cp' = [cp EXCEPT ![r] = cps]
           /\ local' = [local EXCEPT ![r] =
                 [a \in Actions |-> IF a \in tier THEN "preobserve" ELSE "idle"]]
           /\ AppendState(r, "PARTIAL", cps)
    /\ pc' = [pc EXCEPT ![r] = "run"]
    /\ UNCHANGED <<cmd, todo, retry, src, runFile, world, history>>

Step(r, a, next) == local' = [local EXCEPT ![r][a] = next]

\* Observe before execute: consistent is skipped, a conflict fails, anything
\* else goes on to the action's own preflight.
PreObserve(r, a) ==
    /\ pc[r] = "run" /\ local[r][a] = "preobserve"
    /\ \E read \in Reads(a) :
         /\ Step(r, a, CASE read.view = "match"    -> "skipped"
                         [] read.view = "conflict" -> "failed"
                         [] OTHER                  -> "preflight")
         /\ Saw(r, a, read.view)
         /\ faults' = faults + read.cost
    /\ UNCHANGED <<cmd, pc, cp, todo, retry, src, durable, remote, inflight, tampers,
                   sent, planned>>

Preflight(r, a) ==
    /\ pc[r] = "run" /\ local[r][a] = "preflight"
    /\ \/ /\ Step(r, a, IF PreflightPasses(a) THEN "execute" ELSE "failed")
          /\ UNCHANGED faults
       \/ /\ faults < MaxFaults
          /\ Step(r, a, "failed")
          /\ faults' = faults + 1
    /\ UNCHANGED <<cmd, pc, cp, todo, retry, src, durable, remote, inflight, tampers, history>>

\* The tier's results are folded in and persisted together.  Any action that
\* neither succeeded nor was skipped stops the saga.
SettleTier(r) ==
    /\ pc[r] = "run" /\ cmd[r] = "publish"
    /\ \A a \in Actions : local[r][a] \in Settled \cup {"idle"}
    /\ LET cps == [a \in Actions |-> IF local[r][a] \in Settled THEN local[r][a] ELSE cp[r][a]]
           failed == \E a \in Actions : local[r][a] \in Settled \ Done
           complete == \A a \in Actions : cps[a] \in Done
       IN  /\ cp' = [cp EXCEPT ![r] = cps]
           /\ AppendState(r, "PARTIAL", cps)
           /\ pc' = [pc EXCEPT ![r] = IF failed THEN "append"
                                      ELSE IF complete THEN "check" ELSE "tier"]
           /\ IF complete THEN StartCheck(r) ELSE UNCHANGED <<todo, drift>>
    /\ local' = [local EXCEPT ![r] = [a \in Actions |-> "idle"]]
    /\ UNCHANGED <<cmd, retry, src, runFile, world, sent, planned>>

-----------------------------------------------------------------------------
(* Writing: shared by both commands.                                       *)

Send(r, a) ==
    /\ pc[r] = "run" /\ local[r][a] = "execute"
    /\ LET attempt == Attempt(a)
       IN  \/ /\ attempt \in {"write", "upload"}
             /\ inflight' = inflight \cup {[run |-> r, action |-> a, op |-> attempt]}
             /\ sent' = [sent EXCEPT ![r] = @ \cup {a}]
             /\ Step(r, a, "waiting")
          \/ /\ attempt = "noop"
             /\ Step(r, a, "executed")
             /\ UNCHANGED <<inflight, sent>>
          \/ /\ attempt = "refuse"
             /\ Step(r, a, "errored")
             /\ UNCHANGED <<inflight, sent>>
    /\ UNCHANGED <<cmd, pc, cp, todo, retry, src, durable, remote, faults, tampers,
                   drift, planned>>

\* The remote handles a request and answers the run, if it still waits.
Apply(req) ==
    /\ req \in inflight
    /\ \E effect \in Effects(req.action, req.op) :
         /\ remote' = [remote EXCEPT ![req.action] = effect.value]
         /\ planned' = IF effect.value = "planned" THEN planned \cup {req.action} ELSE planned
         /\ local' = IF local[req.run][req.action] = "waiting"
                     THEN [local EXCEPT ![req.run][req.action] =
                             IF effect.ok THEN "executed" ELSE "errored"]
                     ELSE local
         /\ faults' = faults + effect.cost
    /\ inflight' = inflight \ {req}
    /\ UNCHANGED <<cmd, pc, cp, todo, retry, src, durable, tampers, sent, drift>>

\* The run gives up waiting; its request was dropped or is still on its way.
LoseAnswer(req) ==
    /\ req \in inflight
    /\ local[req.run][req.action] = "waiting"
    /\ faults < MaxFaults
    /\ faults' = faults + 1
    /\ Step(req.run, req.action, "errored")
    /\ \/ inflight' = inflight \ {req}
       \/ UNCHANGED inflight
    /\ UNCHANGED <<cmd, pc, cp, todo, retry, src, durable, remote, tampers, history>>

\* variant: the observation's class is recorded as the status
RawOutcome(reply, view) == IF view = "match" THEN "succeeded" ELSE view

\* The observation decides, never the answer of execute alone.
Outcome(reply, view) ==
    CASE view = "match" -> "succeeded"
      [] view = "missing" \/ (reply = "executed" /\ view # "unobservable") -> "failed"
      [] OTHER -> "uncertain"

PublishObserve(r, a) ==
    /\ pc[r] = "run" /\ cmd[r] = "publish"
    /\ local[r][a] \in {"executed", "errored"}
    /\ \E read \in Reads(a) :
         /\ Step(r, a, Outcome(local[r][a], read.view))
         /\ Saw(r, a, read.view)
         /\ faults' = faults + read.cost
    /\ UNCHANGED <<cmd, pc, cp, todo, retry, src, durable, remote, inflight, tampers,
                   sent, planned>>

-----------------------------------------------------------------------------
(* reconcile                                                               *)

ProtectsNothing(r, a) == FALSE             \* variant: successes are retried too
ProtectsStarted(r, a) == src[r].cp[a] # "pending" \* variant: nothing started is retried

\* Any PARTIAL authority of the plan's lineage will do: a finished run, or a
\* journal snapshot of a run that died or is still running.
StartReconcile(r) ==
    /\ MayStart(r)
    /\ BaselineHolds(AcceptedTips)
    /\ \E q \in Runs : \E authority \in Authorities(q) :
         /\ authority.status = "PARTIAL"
         /\ src' = [src EXCEPT ![r] = authority]
    /\ cmd' = [cmd EXCEPT ![r] = "reconcile"]
    /\ todo' = [todo EXCEPT ![r] = Actions]
    /\ pc' = [pc EXCEPT ![r] = "scan"]
    /\ UNCHANGED <<cp, local, retry, durable, world, history>>

\* A retry is safe when the object is explicitly absent (an advancing branch
\* must still exist) or the remote shows the frozen pre-state.
Retryable(a, view) == view = "pre" \/ (view = "missing" /\ a \notin Advancing)

Protected(r, a) == src[r].cp[a] = "succeeded"

\* Phase 1, one action: a source checkpoint that succeeded must still match and
\* is never retried; everything else is decided by what the remote shows.
Scan(r) ==
    /\ pc[r] = "scan"
    /\ \E a \in todo[r] :
         /\ IsFirst(a, todo[r])
         /\ \E read \in Reads(a) :
              LET protected == Protected(r, a)
                  conflict  == read.view # "match" /\ (protected \/ ~ Retryable(a, read.view))
              IN  /\ cp' = IF read.view = "match"
                           THEN [cp EXCEPT ![r][a] = IF protected THEN "succeeded" ELSE "skipped"]
                           ELSE cp
                  /\ retry' = IF read.view = "match" \/ conflict
                              THEN retry ELSE [retry EXCEPT ![r] = @ \cup {a}]
                  /\ todo' = [todo EXCEPT ![r] = IF conflict THEN {} ELSE @ \ {a}]
                  /\ pc' = [pc EXCEPT ![r] = IF conflict THEN "refused"
                                             ELSE IF todo[r] = {a} THEN "preflight" ELSE "scan"]
                  /\ Saw(r, a, read.view)
                  /\ faults' = faults + read.cost
    /\ UNCHANGED <<cmd, local, src, durable, remote, inflight, tampers, sent, planned>>

\* Phase 2: all retries pass their preflight before the first of them runs, or
\* all of them are failed.  Only a reconcile that will write opens a journal.
PreflightRetries(r) ==
    /\ pc[r] = "preflight"
    /\ \/ /\ retry[r] = {}
          /\ pc' = [pc EXCEPT ![r] = "check"]
          /\ StartCheck(r)
          /\ UNCHANGED <<cp, journal, faults>>
       \/ /\ retry[r] # {}
          /\ \A a \in retry[r] : PreflightPasses(a)
          /\ AppendState(r, "PUBLISHING", cp[r])
          /\ pc' = [pc EXCEPT ![r] = "retry"]
          /\ UNCHANGED <<cp, todo, faults, drift>>
       \/ /\ retry[r] # {}
          /\ \/ \E a \in retry[r] : ~ PreflightPasses(a)
                /\ UNCHANGED faults
             \/ faults < MaxFaults /\ faults' = faults + 1
          /\ cp' = [cp EXCEPT ![r] =
                [a \in Actions |-> IF a \in retry[r] THEN "failed" ELSE cp[r][a]]]
          /\ pc' = [pc EXCEPT ![r] = "append"]
          /\ UNCHANGED <<todo, journal, drift>>
    /\ UNCHANGED <<cmd, local, retry, src, runFile, remote, inflight, tampers, sent, planned>>

\* Phase 3, next retry in plan order: UNCERTAIN is durable before execute.
StartRetry(r) ==
    /\ pc[r] = "retry"
    /\ \E a \in retry[r] :
         /\ IsFirst(a, {b \in retry[r] : cp[r][b] = "pending"})
         /\ LET cps == [cp[r] EXCEPT ![a] = "uncertain"]
            IN  cp' = [cp EXCEPT ![r] = cps] /\ AppendState(r, "PARTIAL", cps)
         /\ Step(r, a, "execute")
    /\ pc' = [pc EXCEPT ![r] = "run"]
    /\ UNCHANGED <<cmd, todo, retry, src, runFile, world, history>>

\* The retry's observation, its snapshot, and the stop at the first failure.
RetryObserve(r, a) ==
    /\ pc[r] = "run" /\ cmd[r] = "reconcile"
    /\ local[r][a] \in {"executed", "errored"}
    /\ \E read \in Reads(a) :
         LET outcome  == Outcome(local[r][a], read.view)
             cps      == [cp[r] EXCEPT ![a] = outcome]
             complete == \A b \in Actions : cps[b] \in Done
         IN  /\ cp' = [cp EXCEPT ![r] = cps]
             /\ AppendState(r, "PARTIAL", cps)
             /\ Step(r, a, "idle")
             /\ pc' = [pc EXCEPT ![r] = IF outcome # "succeeded" THEN "append"
                                        ELSE IF complete THEN "check" ELSE "retry"]
             /\ todo' = [todo EXCEPT ![r] = IF complete THEN BranchActions ELSE {}]
             /\ Fresh(r, {b \in Actions : \/ b = a /\ read.view = "match"
                                          \/ complete /\ Type[b] \in BranchTypes})
             /\ faults' = faults + read.cost
    /\ UNCHANGED <<cmd, retry, src, runFile, remote, inflight, tampers, sent, planned>>

-----------------------------------------------------------------------------
(* Finishing: shared by both commands.                                     *)

\* Final branch consistency: branches and the default branch are read again in
\* plan order; the first that no longer matches loses its success.
CheckBranches(r) ==
    /\ pc[r] = "check"
    /\ \/ /\ todo[r] = {}
          /\ pc' = [pc EXCEPT ![r] = "append"]
          /\ UNCHANGED <<cp, todo, faults, drift>>
       \/ \E a \in todo[r] :
            /\ IsFirst(a, todo[r])
            /\ \E read \in Reads(a) :
                 /\ IF read.view = "match"
                    THEN /\ todo' = [todo EXCEPT ![r] = @ \ {a}]
                         /\ UNCHANGED <<cp, pc>>
                    ELSE /\ todo' = [todo EXCEPT ![r] = {}]
                         /\ cp' = [cp EXCEPT ![r][a] =
                               IF read.view = "unobservable" THEN "uncertain" ELSE "failed"]
                         /\ pc' = [pc EXCEPT ![r] = "append"]
                 /\ Saw(r, a, read.view)
                 /\ faults' = faults + read.cost
    /\ UNCHANGED <<cmd, local, retry, src, durable, remote, inflight, tampers, sent, planned>>

\* The final snapshot.  A reconcile that opened no journal goes without.
AppendFinal(r) ==
    /\ pc[r] = "append"
    /\ IF journal[r] = <<>> THEN UNCHANGED journal
       ELSE AppendState(r, OverallStatus(cmd[r], cp[r]), cp[r])
    /\ pc' = [pc EXCEPT ![r] = "write"]
    /\ UNCHANGED <<cmd, cp, local, todo, retry, src, runFile, world, history>>

WriteRun(r) ==
    /\ pc[r] = "write"
    /\ runFile' = [runFile EXCEPT ![r] = [status |-> OverallStatus(cmd[r], cp[r]), cp |-> cp[r]]]
    /\ pc' = [pc EXCEPT ![r] = "ended"]
    /\ UNCHANGED <<cmd, cp, local, todo, retry, src, journal, world, history>>

-----------------------------------------------------------------------------
(* The environment.                                                        *)

\* The process dies: memory is gone, requests on their way are not.
Crash(r) ==
    /\ pc[r] \notin Ended \cup {"idle"}
    /\ faults < MaxFaults
    /\ faults' = faults + 1
    /\ pc' = [pc EXCEPT ![r] = "crashed"]
    /\ cp' = [cp EXCEPT ![r] = Pending]
    /\ local' = [local EXCEPT ![r] = [a \in Actions |-> "idle"]]
    /\ todo' = [todo EXCEPT ![r] = {}]
    /\ retry' = [retry EXCEPT ![r] = {}]
    /\ UNCHANGED <<cmd, src, durable, remote, inflight, tampers, history>>

\* Someone else deletes, moves or replaces what the remote holds.
Tamper(a) ==
    /\ tampers < MaxTampers
    /\ tampers' = tampers + 1
    /\ \E v \in TamperValues(a) \ {remote[a]} : remote' = [remote EXCEPT ![a] = v]
    /\ drift' = [r \in Runs |-> drift[r] \cup {a}]
    /\ UNCHANGED <<memory, durable, inflight, faults, sent, planned>>

-----------------------------------------------------------------------------

RunStep(r) ==
    \/ PersistFirst(r) \/ StartTier(r) \/ SettleTier(r)
    \/ Scan(r) \/ PreflightRetries(r) \/ StartRetry(r)
    \/ CheckBranches(r) \/ AppendFinal(r) \/ WriteRun(r)
    \/ \E a \in Actions : \/ PreObserve(r, a) \/ Preflight(r, a) \/ Send(r, a)
                          \/ PublishObserve(r, a) \/ RetryObserve(r, a)

Next ==
    \/ \E r \in Runs : StartPublish(r) \/ StartReconcile(r) \/ RunStep(r) \/ Crash(r)
    \/ \E req \in inflight : Apply(req) \/ LoseAnswer(req)
    \/ \E a \in Actions : Tamper(a)

Spec == Init /\ [][Next]_vars

\* The operator starts the next command, a started command keeps going, and
\* the remote handles the requests it received.
Fairness ==
    /\ \A r \in Runs : /\ WF_vars(StartPublish(r) \/ StartReconcile(r))
                       /\ WF_vars(RunStep(r))
    /\ WF_vars(\E req \in inflight : Apply(req))

FairSpec == Spec /\ Fairness

-----------------------------------------------------------------------------
(* Properties.                                                             *)

TypeOK ==
    /\ cmd \in [Runs -> {"none", "publish", "reconcile"}]
    /\ pc \in [Runs -> Controls]
    /\ cp \in [Runs -> [Actions -> CpStatus]]
    /\ local \in [Runs -> [Actions -> LocalSteps]]
    /\ todo \in [Runs -> SUBSET Actions]
    /\ retry \in [Runs -> SUBSET Actions]
    /\ src \in [Runs -> Snapshot]
    /\ journal \in [Runs -> Seq(Snapshot)]
    /\ runFile \in [Runs -> Snapshot]
    /\ remote \in [Actions -> RemoteValues]
    /\ inflight \subseteq Request
    /\ faults \in 0..MaxFaults
    /\ tampers \in 0..MaxTampers
    /\ sent \in [Runs -> SUBSET Actions]
    /\ drift \in [Runs -> SUBSET Actions]
    /\ planned \subseteq Actions

Latest(r) == journal[r][Len(journal[r])]

\* Whenever a run has asked the remote to write, its latest durable snapshot
\* already is a PARTIAL or PUBLISHED authority that does not call the action
\* pending: a process killed at any instant leaves a run reconcile can pick up,
\* never only PUBLISHING state.
WriteAhead ==
    \A r \in Runs : \A a \in sent[r] :
        /\ journal[r] # <<>>
        /\ Latest(r).status \in {"PARTIAL", "PUBLISHED"}
        /\ Latest(r).cp[a] # "pending"

\* Dependency tiers hold against the remote, not only inside one command: no run
\* of any kind, started from any authority, issues a write whose lower tiers
\* have never been in place on the remote.
TiersRespected ==
    \A r \in Runs : \A a \in sent[r] :
        \A b \in Actions : Tier(b) < Tier(a) => b \in planned

\* A PUBLISHED run tells the truth: each action's planned object is on the
\* remote, unless a third party touched it after this very run last saw it
\* match (for branches: after the final consistency pass).
PublishedIsTrue ==
    \A r \in Runs :
        runFile[r].status = "PUBLISHED" =>
            \A a \in Actions : remote[a] = "planned" \/ a \in drift[r]

\* Reconcile never executes again what its source recorded as succeeded,
\* whatever the remote shows by now.
SucceededNeverResent ==
    \A r \in Runs : \A a \in Actions :
        cmd[r] = "reconcile" /\ src[r].cp[a] = "succeeded" => a \notin sent[r]

\* Reconcile stops for a human only over a remote conflict: with nobody else
\* writing to the remotes, a run refuses only on a read that went wrong.
RefusesOnlyOnConflict ==
    [][\A r \in Runs : pc[r] = "scan" /\ pc'[r] = "refused"
                          => tampers > 0 \/ faults' > faults]_vars

\* With nobody else writing, an operator who keeps starting commands gets the
\* release published, whatever of it is there already, as long as the first
\* publish finds the branches to advance where they were frozen: without a run
\* directory only publish can start, and it accepts nothing else.
EventuallyPublished ==
    BaselineHolds(FrozenTips) => <>(\E r \in Runs : runFile[r].status = "PUBLISHED")

-----------------------------------------------------------------------------
(* The release as the remotes and the durable record show it.              *)

\* The snapshots a reconcile can start from, or that end the release.
AuthorityStatus == {"PARTIAL", "PUBLISHED"}

\* Actions whose write some run's journal admits: an authority there no longer
\* calls them pending.
Admitted ==
    {a \in Actions : \E r \in Runs : \E i \in DOMAIN journal[r] :
        journal[r][i].status \in AuthorityStatus /\ journal[r][i].cp[a] # "pending"}

InPlace == {a \in Actions : remote[a] = "planned"}
Told    == {r \in Runs : runFile[r].status = "PUBLISHED"}

Release == INSTANCE TieredRelease
    WITH Objects <- Actions, Level <- [a \in Actions |-> Tier(a)], Commands <- Runs,
         present <- InPlace, ever <- planned, admitted <- Admitted, told <- Told

\* All commands together, however they crash, overlap and recover, implement a
\* release that comes into being tier by tier: a request of any age is applied
\* only after its action was admitted on some durable snapshot, and no snapshot
\* admits an action whose lower tiers have not been on the remote.
ImplementsTieredRelease == Release!Spec

=============================================================================
