---------------------------- MODULE Distribution ----------------------------
(***************************************************************************)
(* postPublish distribution: `distribute` runs walk the frozen chain of    *)
(* mirrors and hooks of a published plan, against Git mirrors other        *)
(* parties push to, and `verify` reads the records they leave.             *)
(*                                                                         *)
(* There is no lock and no resumption: a rerun is the reconcile.  It looks *)
(* at every mirror again and must complete what an earlier run left, of    *)
(* which it knows only what the mirrors show.  The branch and the tag of a *)
(* mirror are two separate pushes.                                         *)
(***************************************************************************)
EXTENDS Integers, FiniteSets

CONSTANTS
    Runs,        \* distribute commands; each owns a fresh run directory
    Mirrors,     \* the plan's targets
    Hooks,       \* its distribute-phase hooks
    Rank,        \* Mirrors \cup Hooks -> Nat, the frozen order of the chain
    DependsOn,   \* mirror -> the payload mirror a marketplace index points to
    Gated,       \* hooks that need a checkpoint approval
    Lenient,     \* hooks declared blocksVerified: false
    MayRehearse, \* TRUE: commands may carry --dry-run
    Overlap,     \* TRUE: commands may run concurrently
    MaxFaults,   \* bound on crashes, errors, lost pushes and failed hooks
    MaxTampers   \* bound on third-party pushes

VARIABLES
    step,        \* run -> control point
    dry,         \* run -> --dry-run
    approved,    \* run -> approvedHookIds, validated when the run starts
    cp,          \* run -> in-memory checkpoint statuses
    probe,       \* run -> mirror -> tag seen by the reachability probe
    sha,         \* run -> mirror -> mirrorResults: the commit dependents name
    journal,     \* run -> newest snapshot in states/, durable
    runFile,     \* run -> release-run.json, durable
    tip, tag,    \* mirror -> commit at the branch, commit at the release tag
    log,         \* mirror -> commits the branch has carried
    inflight,    \* pushes on their way
    verified,    \* some verify run reported VERIFIED
    faults, tampers,
    ran,         \* history: run -> hooks it started
    calm         \* history: run -> undisturbed since it started

memory  == <<step, dry, approved, cp, probe, sha>>
durable == <<journal, runFile>>
mirrors == <<tip, tag, log>>
bounds  == <<faults, tampers>>
vars    == <<memory, durable, mirrors, inflight, verified, bounds, ran, calm>>

-----------------------------------------------------------------------------
(* Commits and content.                                                    *)

Items == Mirrors \cup Hooks

NoCommit == "none"

\* A run makes at most one commit per mirror, so the run names it.  "old" and
\* "same" were there before: another content, or the very payload of this
\* release; "foreign" is somebody else's.
Commits == Runs \cup {"old", "same", "foreign"}

ASSUME ChainAssumption ==
    /\ Mirrors \cap Hooks = {}
    /\ Rank \in [Items -> Nat]
    /\ \A i, j \in Items : Rank[i] = Rank[j] => i = j
    /\ DependsOn \in [Mirrors -> Mirrors \cup {NoCommit}]
    /\ \A m \in Mirrors : DependsOn[m] # NoCommit => Rank[DependsOn[m]] < Rank[m]
    /\ Gated \subseteq Hooks /\ Lenient \subseteq Hooks

ASSUME NameAssumption ==
    /\ Runs \cap {NoCommit, "old", "same", "foreign", "unread"} = {}
    /\ NoCommit \notin Mirrors

ASSUME LimitAssumption ==
    /\ MayRehearse \in BOOLEAN /\ Overlap \in BOOLEAN
    /\ MaxFaults \in Nat /\ MaxTampers \in Nat

IsIndex(m) == DependsOn[m] # NoCommit

\* The payload commit the index r renders for m names; NoCommit in a rehearsal.
Named(r, m) == sha[r][DependsOn[m]]

\* Commit c has the tree that run r stages for m.
SameTree(r, m, c) ==
    IF IsIndex(m) THEN c \in Runs /\ Named(c, m) = Named(r, m)
                  ELSE c \in Runs \cup {"same"}

\* A mirror a run leaves alone: its branch tip is the release tag.
Consistent(m) == tag[m] # NoCommit /\ tip[m] = tag[m]

-----------------------------------------------------------------------------
(* Checkpoints and records.                                                *)

CpStatus == {"pending", "uncertain", "succeeded", "skipped", "no_change",
             "awaiting", "failed"}

Untouched == [i \in Items |-> "pending"]

Good == {"succeeded", "skipped", "no_change", "awaiting"}

Stopped(r) == \E i \in Items : cp[r][i] = "failed"

Open(r) == {i \in Items : cp[r][i] \in {"pending", "uncertain"}}

AnyOpen(r, i) == i \in Open(r)             \* variant: frozen order ignored

\* The item of the chain a run is at.
At(r, i) == i \in Open(r) /\ \A j \in Open(r) : Rank[i] <= Rank[j]

\* pushedWrites and hookSuccesses: what the run knows to have landed.
Landed(r, cps) ==
    \/ \E m \in Mirrors : sha[r][m] = r
    \/ \E h \in Hooks : cps[h] \in {"succeeded", "no_change"}

\* variant: failures are counted only when nothing landed
Optimist(r, cps) ==
    CASE Landed(r, cps) -> "DISTRIBUTED"
      [] OTHER          -> "BLOCKED"

\* variant: what was found in place does not count as delivered
OwnOnly(r, cps) ==
    IF \A i \in Items : cps[i] = "succeeded" THEN "DISTRIBUTED"
    ELSE IF Landed(r, cps) THEN "PARTIAL" ELSE "BLOCKED"

Overall(r, cps) ==
    LET failed == \E i \in Items : cps[i] = "failed"
        parked == \E i \in Items : cps[i] = "awaiting"
    IN  CASE ~failed /\ ~parked -> "DISTRIBUTED"
          [] Landed(r, cps)     -> "PARTIAL"
          [] failed             -> "BLOCKED"
          [] OTHER              -> "NEEDS_INPUT"

\* variant: a run that throws leaves a status of its own
Fails(r) == IF Landed(r, cp[r]) THEN "PARTIAL" ELSE "FAILED"

\* recordFailure: what a run that throws leaves.
Broken(r) == IF Landed(r, cp[r]) THEN "PARTIAL" ELSE "BLOCKED"

Statuses == {"none", "DISTRIBUTING", "DISTRIBUTED", "PARTIAL", "BLOCKED", "NEEDS_INPUT"}

Record == [status : Statuses, cp : [Items -> CpStatus]]

Absent == [status |-> "none", cp |-> Untouched]

\* variant: the snapshot shows the checkpoints as they were
Belated(r, status, cps) ==
    journal' = [journal EXCEPT ![r] = [status |-> status, cp |-> cp[r]]]

Snapshot(r, status, cps) ==
    journal' = [journal EXCEPT ![r] = [status |-> status, cp |-> cps]]

\* A checkpoint of r is settled and persisted.
Settle(r, i, status) ==
    /\ cp' = [cp EXCEPT ![r][i] = status]
    /\ Snapshot(r, "PARTIAL", cp'[r])
    /\ step' = [step EXCEPT ![r] = "next"]

Steps == {"idle", "gates", "next", "clone", "branch", "tag", "confirm", "hook",
          "close", "ended", "dead"}

Active(r) == step[r] \notin {"idle", "ended", "dead"}

Push == [run : Runs, mirror : Mirrors, ref : {"branch", "tag"}, base : Commits]

\* An error the environment causes; no run counts as undisturbed after it.
Fault ==
    /\ faults < MaxFaults
    /\ faults' = faults + 1
    /\ calm' = [r \in Runs |-> FALSE]

NoFault == UNCHANGED <<faults, calm>>

Init ==
    /\ step = [r \in Runs |-> "idle"]
    /\ dry = [r \in Runs |-> FALSE]
    /\ approved = [r \in Runs |-> {}]
    /\ cp = [r \in Runs |-> Untouched]
    /\ probe = [r \in Runs |-> [m \in Mirrors |-> NoCommit]]
    /\ sha = [r \in Runs |-> [m \in Mirrors |-> NoCommit]]
    /\ journal = [r \in Runs |-> Absent]
    /\ runFile = [r \in Runs |-> Absent]
    /\ tip \in [Mirrors -> {"old", "same"}]
    /\ \A m \in Mirrors : IsIndex(m) => tip[m] = "old"
    /\ tag = [m \in Mirrors |-> NoCommit]
    /\ log = [m \in Mirrors |-> {tip[m]}]
    /\ inflight = {}
    /\ verified = FALSE
    /\ faults = 0 /\ tampers = 0
    /\ ran = [r \in Runs |-> {}]
    /\ calm = [r \in Runs |-> FALSE]

-----------------------------------------------------------------------------
(* A run before its first write.                                           *)

Quiet == inflight = {} /\ tampers = 0 /\ \A r \in Runs : ~Active(r)

\* The plan, its approval, the source run and the hook approvals are validated
\* and snapshot 0 written.  A rehearsal has no use for approvals.
Start(r) ==
    /\ step[r] = "idle"
    /\ Overlap \/ \A x \in Runs : ~Active(x)
    /\ \E d \in {FALSE, MayRehearse}, granted \in SUBSET Gated :
         /\ d => granted = {}
         /\ dry' = [dry EXCEPT ![r] = d]
         /\ approved' = [approved EXCEPT ![r] = granted]
    /\ Snapshot(r, "DISTRIBUTING", cp[r])
    /\ step' = [step EXCEPT ![r] = "gates"]
    /\ calm' = [x \in Runs |-> x = r /\ Quiet]
    /\ UNCHANGED <<cp, probe, sha, runFile, mirrors, inflight, verified, bounds, ran>>

\* Every mirror is probed before any is written.  Only the tag is kept, and of
\* each mirror it is used alone: reading them in one step loses nothing.
Probe(r) ==
    /\ step[r] = "gates"
    /\ probe' = [probe EXCEPT ![r] = tag]
    /\ step' = [step EXCEPT ![r] = "next"]
    /\ UNCHANGED <<dry, approved, cp, sha, durable, mirrors, inflight, verified, bounds,
                   ran, calm>>

\* A gate, the tag worktree, the payload, a declared step, a snapshot or
\* another local file fails: the record is written and the error rethrown.
Throw(r) ==
    /\ step[r] \in {"gates", "next", "clone", "close"}
    /\ runFile' = [runFile EXCEPT ![r] = [status |-> Broken(r), cp |-> cp[r]]]
    /\ step' = [step EXCEPT ![r] = "ended"]
    /\ Fault
    /\ UNCHANGED <<dry, approved, cp, probe, sha, journal, mirrors, inflight, verified,
                   tampers, ran>>

-----------------------------------------------------------------------------
(* A mirror.                                                               *)

\* variant: a mirror found consistent leaves no commit for its dependents
Forgets(r, m) == sha' = sha

Remember(r, m) == sha' = [sha EXCEPT ![r][m] = tag[m]]

\* Observe before write: a consistent mirror is skipped.  Otherwise, also when
\* it cannot be read, the checkpoint is UNCERTAIN on disk before the adapter
\* may write.
Observe(r, m) ==
    /\ step[r] = "next" /\ At(r, m) /\ ~Stopped(r)
    /\ \/ /\ Consistent(m)
          /\ cp' = [cp EXCEPT ![r][m] = "skipped"]
          /\ Remember(r, m)
          /\ NoFault
          /\ UNCHANGED <<step, journal>>
       \/ /\ IF Consistent(m) THEN Fault ELSE NoFault
          /\ cp' = [cp EXCEPT ![r][m] = "uncertain"]
          /\ Snapshot(r, "DISTRIBUTING", cp'[r])
          /\ step' = [step EXCEPT ![r] = "clone"]
          /\ UNCHANGED sha
    /\ UNCHANGED <<dry, approved, probe, runFile, mirrors, inflight, verified, tampers, ran>>

\* The adapter clones the mirror, stages the content and commits.
NoChange(r, m) ==
    /\ step[r] = "clone" /\ At(r, m)
    /\ SameTree(r, m, tip[m])
    /\ Settle(r, m, "no_change")
    /\ sha' = [sha EXCEPT ![r][m] = IF probe[r][m] # NoCommit THEN probe[r][m] ELSE tip[m]]
    /\ UNCHANGED <<dry, approved, probe, runFile, mirrors, inflight, verified, bounds, ran, calm>>

\* Changed content under a tag that exists, or an error of git.
MirrorFails(r, m) ==
    /\ step[r] = "clone" /\ At(r, m)
    /\ IF ~SameTree(r, m, tip[m]) /\ tag[m] # NoCommit THEN NoFault ELSE Fault
    /\ Settle(r, m, "failed")
    /\ UNCHANGED <<dry, approved, probe, sha, runFile, mirrors, inflight, verified, tampers, ran>>

\* A rehearsal stops at its local commit and tag.
Rehearse(r, m) ==
    /\ step[r] = "clone" /\ At(r, m) /\ dry[r]
    /\ ~SameTree(r, m, tip[m]) /\ tag[m] = NoCommit
    /\ Settle(r, m, "succeeded")
    /\ UNCHANGED <<dry, approved, probe, sha, runFile, mirrors, inflight, verified, bounds, ran, calm>>

PushOf(r, m, ref) == [run |-> r, mirror |-> m, ref |-> ref, base |-> tip[m]]

SendBranch(r, m) ==
    /\ step[r] = "clone" /\ At(r, m) /\ ~dry[r]
    /\ ~SameTree(r, m, tip[m]) /\ tag[m] = NoCommit
    /\ inflight' = inflight \cup {PushOf(r, m, "branch")}
    /\ step' = [step EXCEPT ![r] = "branch"]
    /\ UNCHANGED <<dry, approved, cp, probe, sha, durable, mirrors, verified, bounds, ran, calm>>

\* Neither push is forced: a branch only moves on from the commit the clone
\* saw, an existing tag stays.
Accepts(q) == IF q.ref = "branch" THEN tip[q.mirror] = q.base ELSE tag[q.mirror] = NoCommit

Waits(q) == step[q.run] = q.ref /\ At(q.run, q.mirror)

\* The mirror handles a push.  When the branch went through, the run, if it
\* still waits, pushes the tag; when that went through it looks at both.
Accept(q) ==
    /\ q \in inflight /\ Accepts(q)
    /\ IF q.ref = "branch"
       THEN /\ tip' = [tip EXCEPT ![q.mirror] = q.run]
            /\ log' = [log EXCEPT ![q.mirror] = @ \cup {q.run}]
            /\ UNCHANGED <<tag, sha>>
            /\ IF Waits(q)
               THEN /\ inflight' = (inflight \ {q}) \cup {[q EXCEPT !.ref = "tag"]}
                    /\ step' = [step EXCEPT ![q.run] = "tag"]
               ELSE /\ inflight' = inflight \ {q}
                    /\ UNCHANGED step
       ELSE /\ tag' = [tag EXCEPT ![q.mirror] = q.run]
            /\ inflight' = inflight \ {q}
            /\ UNCHANGED <<tip, log>>
            /\ IF Waits(q)
               THEN /\ sha' = [sha EXCEPT ![q.run][q.mirror] = q.run]
                    /\ step' = [step EXCEPT ![q.run] = "confirm"]
               ELSE UNCHANGED <<sha, step>>
    /\ UNCHANGED <<dry, approved, cp, probe, durable, verified, bounds, ran, calm>>

\* A push is refused, or lost on its way.
Reject(q) ==
    /\ q \in inflight
    /\ IF Accepts(q) THEN Fault ELSE NoFault
    /\ inflight' = inflight \ {q}
    /\ IF Waits(q) THEN Settle(q.run, q.mirror, "failed") ELSE UNCHANGED <<step, cp, journal>>
    /\ UNCHANGED <<dry, approved, probe, sha, runFile, mirrors, verified, tampers, ran>>

\* The push takes longer than the command's timeout; it may still arrive.
TimeOut(q) ==
    /\ q \in inflight /\ Waits(q)
    /\ Fault
    /\ Settle(q.run, q.mirror, "failed")
    /\ UNCHANGED <<dry, approved, probe, sha, runFile, mirrors, inflight, verified, tampers, ran>>

\* verify: branch and tag must both be the pushed commit.
Confirm(r, m) ==
    /\ step[r] = "confirm" /\ At(r, m)
    /\ \/ /\ tip[m] = r /\ tag[m] = r
          /\ Settle(r, m, "succeeded")
          /\ NoFault
       \/ /\ IF tip[m] = r /\ tag[m] = r THEN Fault ELSE NoFault
          /\ Settle(r, m, "failed")
    /\ UNCHANGED <<dry, approved, probe, sha, runFile, mirrors, inflight, verified, tampers, ran>>

-----------------------------------------------------------------------------
(* A hook, and the end of a run.                                           *)

\* A rehearsal runs no hook; a gated hook without approval parks and does not
\* stop the chain.
PassHook(r, h) ==
    /\ step[r] = "next" /\ At(r, h) /\ ~Stopped(r)
    /\ \/ /\ dry[r]
          /\ cp' = [cp EXCEPT ![r][h] = "skipped"]
       \/ /\ ~dry[r] /\ h \in Gated \ approved[r]
          /\ cp' = [cp EXCEPT ![r][h] = "awaiting"]
    /\ UNCHANGED <<step, dry, approved, probe, sha, durable, mirrors, inflight, verified,
                   bounds, ran, calm>>

StartHook(r, h) ==
    /\ step[r] = "next" /\ At(r, h) /\ ~Stopped(r)
    /\ ~dry[r] /\ h \notin Gated \ approved[r]
    /\ ran' = [ran EXCEPT ![r] = @ \cup {h}]
    /\ step' = [step EXCEPT ![r] = "hook"]
    /\ UNCHANGED <<dry, approved, cp, probe, sha, durable, mirrors, inflight, verified, bounds, calm>>

\* Exit code, timeout, or a preset that found its proposal in place.
EndHook(r, h) ==
    /\ step[r] = "hook" /\ At(r, h)
    /\ \/ \E status \in {"succeeded", "no_change"} : Settle(r, h, status) /\ NoFault
       \/ Settle(r, h, "failed") /\ Fault
    /\ UNCHANGED <<dry, approved, probe, sha, runFile, mirrors, inflight, verified, tampers, ran>>

\* After a failure the rest of the chain is skipped; then the run is
\* classified, in the journal first.
Close(r) ==
    /\ step[r] = "next"
    /\ Stopped(r) \/ Open(r) = {}
    /\ cp' = [cp EXCEPT ![r] =
                [i \in Items |-> IF i \in Open(r) THEN "skipped" ELSE cp[r][i]]]
    /\ Snapshot(r, Overall(r, cp'[r]), cp'[r])
    /\ step' = [step EXCEPT ![r] = "close"]
    /\ UNCHANGED <<dry, approved, probe, sha, runFile, mirrors, inflight, verified, bounds, ran, calm>>

WriteRecord(r) ==
    /\ step[r] = "close"
    /\ runFile' = [runFile EXCEPT ![r] = [status |-> Overall(r, cp[r]), cp |-> cp[r]]]
    /\ step' = [step EXCEPT ![r] = "ended"]
    /\ UNCHANGED <<dry, approved, cp, probe, sha, journal, mirrors, inflight, verified,
                   bounds, ran, calm>>

Crash(r) ==
    /\ Active(r)
    /\ Fault
    /\ step' = [step EXCEPT ![r] = "dead"]
    /\ UNCHANGED <<dry, approved, cp, probe, sha, durable, mirrors, inflight, verified, tampers, ran>>

-----------------------------------------------------------------------------
(* verify, and third parties.                                              *)

\* variant: NEEDS_INPUT and BLOCKED are looked at like PARTIAL
AnyStatus(rec) ==
    \/ rec.status = "DISTRIBUTED"
    \/ \A i \in Items : \/ rec.cp[i] \in {"succeeded", "skipped"}
                        \/ rec.cp[i] = "failed"

\* evaluateDistributeGateRun
Passes(rec) ==
    \/ rec.status = "DISTRIBUTED"
    \/ /\ rec.status = "PARTIAL"
       /\ \A i \in Items : \/ rec.cp[i] \in {"succeeded", "skipped"}
                           \/ rec.cp[i] = "failed" /\ i \in Lenient

\* Any record of the plan that passes will do.
Verify ==
    /\ ~verified
    /\ \E r \in Runs : Passes(runFile[r])
    /\ verified' = TRUE
    /\ UNCHANGED <<memory, durable, mirrors, inflight, bounds, ran, calm>>

\* Somebody pushes a commit, or a tag of the release's name, to a mirror.
Tamper(m) ==
    /\ tampers < MaxTampers
    /\ tampers' = tampers + 1
    /\ calm' = [r \in Runs |-> FALSE]
    /\ \/ /\ tip' = [tip EXCEPT ![m] = "foreign"]
          /\ log' = [log EXCEPT ![m] = @ \cup {"foreign"}]
          /\ UNCHANGED tag
       \/ /\ tag[m] = NoCommit
          /\ tag' = [tag EXCEPT ![m] = "foreign"]
          /\ UNCHANGED <<tip, log>>
    /\ UNCHANGED <<memory, durable, inflight, verified, faults, ran>>

-----------------------------------------------------------------------------
OnMirror(r, m) ==
    Observe(r, m) \/ NoChange(r, m) \/ MirrorFails(r, m) \/ Rehearse(r, m)
    \/ SendBranch(r, m) \/ Confirm(r, m)

OnHook(r, h) == PassHook(r, h) \/ StartHook(r, h) \/ EndHook(r, h)

Walk(r) ==
    \/ Probe(r) \/ Throw(r) \/ Close(r) \/ WriteRecord(r)
    \/ \E m \in Mirrors : OnMirror(r, m)
    \/ \E h \in Hooks : OnHook(r, h)

Handle(q) == Accept(q) \/ Reject(q) \/ TimeOut(q)

Next ==
    \/ \E r \in Runs : Start(r) \/ Walk(r) \/ Crash(r)
    \/ \E q \in inflight : Handle(q)
    \/ \E m \in Mirrors : Tamper(m)
    \/ Verify

Spec == Init /\ [][Next]_vars

\* A command that was started runs on; a push it waits for is answered or the
\* command times out.
Progress(r) == Walk(r) \/ \E q \in inflight : q.run = r /\ Waits(q) /\ Handle(q)

FairSpec == Spec /\ \A r \in Runs : WF_vars(Progress(r))

(***************************************************************************)
(* Properties                                                              *)
(***************************************************************************)
\* The type invariant.
TypeOK ==
    /\ step \in [Runs -> Steps]
    /\ dry \in [Runs -> BOOLEAN]
    /\ approved \in [Runs -> SUBSET Gated]
    /\ cp \in [Runs -> [Items -> CpStatus]]
    /\ probe \in [Runs -> [Mirrors -> Commits \cup {NoCommit}]]
    /\ sha \in [Runs -> [Mirrors -> Commits \cup {NoCommit}]]
    /\ journal \in [Runs -> Record]
    /\ runFile \in [Runs -> Record]
    /\ tip \in [Mirrors -> Commits]
    /\ tag \in [Mirrors -> Commits \cup {NoCommit}]
    /\ log \in [Mirrors -> SUBSET Commits]
    /\ inflight \subseteq Push
    /\ verified \in BOOLEAN
    /\ faults \in 0 .. MaxFaults /\ tampers \in 0 .. MaxTampers
    /\ ran \in [Runs -> SUBSET Hooks]
    /\ calm \in [Runs -> BOOLEAN]

\* What run r has done, or may still be doing, to the outside at item i.
Touched(r, i) ==
    \/ i \in ran[r]
    \/ i \in Mirrors /\ r \in log[i]
    \/ \E q \in inflight : q.run = r /\ q.mirror = i

\* Whatever was pushed, or may still arrive, the journal of its run admits:
\* the checkpoint is uncertain or settled there before the first push.
WriteAhead ==
    \A r \in Runs, m \in Mirrors : Touched(r, m) => journal[r].cp[m] # "pending"

\* A failure stops the whole chain, over the borders of targets, hooks and
\* declarations: nothing is pushed and no hook started behind it.
ChainStops ==
    \A r \in Runs, i, j \in Items :
        Touched(r, i) /\ Rank[j] < Rank[i] => cp[r][j] \in Good

\* The release's content has been on the branch of m, or somebody else holds
\* the tag.
Received(m) ==
    \/ \E c \in log[m] : c \in Runs \cup {"same"}
    \/ tag[m] = "foreign"

\* DISTRIBUTED is said only of a release every mirror received and whose
\* every hook the run started, whatever of it earlier or concurrent runs did.
DistributedIsTrue ==
    \A r \in Runs :
        runFile[r].status = "DISTRIBUTED" /\ ~dry[r] =>
            /\ \A m \in Mirrors : Received(m)
            /\ Hooks \subseteq ran[r]

\* A marketplace index names a commit that is on the branch of its payload
\* mirror and has the release's payload, although the commit may be another
\* run's and the mirrors change between the reads of one run.
IndexNamesPayload ==
    \A m \in Mirrors, r \in Runs :
        IsIndex(m) /\ r \in log[m] /\ tag[DependsOn[m]] # "foreign" =>
            Named(r, m) \in log[DependsOn[m]] \cap (Runs \cup {"same"})

Delivered ==
    /\ \A m \in Mirrors : Received(m)
    /\ \A h \in Hooks \ Lenient : \E r \in Runs : h \in ran[r]

LenientLast == \A h \in Lenient, i \in Items \ Lenient : Rank[i] < Rank[h]

Rehearsed == \E r \in Runs : dry[r] /\ Passes(runFile[r])

\* VERIFIED is only said of a delivered release, whichever of the records of
\* several runs verify went by, unless one is a rehearsal's, which verify does
\* not tell from the others, or a lenient hook stands in front of others.
VerifiedIsDelivered == verified /\ ~Rehearsed /\ LenientLast => Delivered

\* The same of every plan: 01-state-machine.md:83 knows no way to VERIFIED past
\* a hook that neither succeeded nor is exempt.
VerifiedNeedsDelivery == verified => Delivered

\* DISTRIBUTED of a branch that distribute moved means that the tag is there
\* too (05-evidence-and-errors.md:270).
DistributedIsTagged ==
    \A r \in Runs, m \in Mirrors :
        runFile[r].status = "DISTRIBUTED" /\ ~dry[r] /\ tip[m] \in Runs =>
            tag[m] # NoCommit

\* A rerun is the reconcile: an approved run that nothing disturbs ends
\* DISTRIBUTED from whatever state earlier runs left the mirrors in.
Reconciles ==
    \A r \in Runs :
        calm[r] /\ ~dry[r] /\ Gated \subseteq approved[r]
            ~> ~calm[r] \/ runFile[r].status = "DISTRIBUTED"

Contract == INSTANCE Delivery WITH
    received <- {m \in Mirrors : \E c \in log[m] : c \in Runs \cup {"same"}},
    tagged   <- {m \in Mirrors : tag[m] # NoCommit},
    told     <- {r \in Runs : runFile[r].status = "DISTRIBUTED" /\ ~dry[r]}

\* The runs together keep the promise of Delivery.
ImplementsDelivery == Contract!Spec
=============================================================================
