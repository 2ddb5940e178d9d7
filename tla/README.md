# Verification of release-skill

TLA+ specifications of the protocols inside *release-skill*, the TLC
configurations that check them on small instances and the TLAPS proofs that
hold for every instance.  Paths are relative to the repository root, which is
written `src/` in `PROJECT.json` (so the code in `src/commands/publish.mjs` is
`src/src/commands/publish.mjs` there).

1. [The system](#1-the-system)
2. [Modules](#2-modules)
3. [How the models correspond to the code](#3-how-the-models-correspond-to-the-code)
4. [Properties and runs](#4-properties-and-runs)
5. [Fairness](#5-fairness)
6. [Proofs](#6-proofs)
7. [Where code, comments and documentation disagree](#7-where-code-comments-and-documentation-disagree)
8. [What is not modelled](#8-what-is-not-modelled)
9. [Plan](#9-plan)

## 1. The system

release-skill releases plugins and packages: it freezes a release plan, has a
human approve its digest, writes branches, tags, npm packages and GitHub
Releases, verifies them, mirrors them, and moves the project's baseline.  Each
command is one process; everything commands share is on disk or on a remote.

| component | state it keeps | operations | talks to |
|---|---|---|---|
| release saga (`commands/publish.mjs`, `commands/reconcile.mjs`, `core/checkpoints.mjs`) | checkpoint per action in memory; `states/NNNNNN.json` and `release-run.json` in the run's own directory | publish: gate, tiers of UNCERTAIN → observe → preflight → execute → observe; reconcile: read-only scan, preflight of all retries, serial retries; both: final branch pass, overall status | adapters, run authority, project lock, plan authority |
| adapters (`adapters/push-snapshot.mjs`, `git-github.mjs`, `npm.mjs`, `plugin-marketplace.mjs`) | none | preflight, execute, observe | Git host, npm registry, GitHub |
| observation retry (`core/observe-retry.mjs`) | attempt counter | bounded re-read of propagating "missing" answers | adapters |
| run authority (`core/run.mjs`) | run directories, snapshot sequence, predecessor links | create a run directory, append a snapshot, write the final run, load an authority and walk its lineage | saga, verify, distribute |
| run states (`core/state-machine.mjs`) | – | which status may follow which | saga, verify |
| plan authority (`core/plan-replacement.mjs`, `commands/approve.mjs`, `core/approval.mjs`) | frozen plan, immutable approvals, replacement binding | freeze, replace, approve, "not replaced" check at publish's first state | project lock |
| project lock (`artifacts/project-lock.mjs`) | one exclusive record file | acquire, assert owner, capture, release by token, audited break | every writing command |
| artifact transaction (`artifacts/transaction.mjs`, `transaction-journal.mjs`) | write-ahead journal, backups, marker, receipt | preflight compare-and-swap, per-entry pending → backup → write → applied, verify, commit, converge, prune | project lock, safe filesystem |
| document refresh (`docs/refresh-*.mjs`) | confirmed refresh digest | plan, replan under the lock, apply, restore old bytes | artifact transaction |
| artifact algebra (`artifacts/state.mjs`, `merge/*`, `adoption.mjs`) | – | classify an artifact from its source, base and target, three-way merge | document refresh |
| hooks and hook cache (`core/hooks.mjs`, `core/hook-cache.mjs`) | cached result per closure digest | run a hook, replay a cached success | prepare, distribute |
| prepare (`commands/prepare.mjs`) | candidate plan | gates, tests, freeze | plan authority, hooks |
| verify, postverify (`commands/verify.mjs`, `postverify.mjs`) | verification records, attestations | check the source run, pass the distribute gate, write the VERIFIED record, clear the FROZEN marker, advance the baseline; postverify: walk the postVerify hooks | run authority, distribute records, adapters (read only) |
| distribute (`commands/distribute.mjs`, `adapters/distribute-git.mjs`, `core/postpublish*.mjs`) | distribution run, target and hook checkpoints, hook approvals | probe every mirror, then walk the frozen chain: observe, UNCERTAIN on disk, commit, push branch, push tag, confirm; run or park hooks; a rerun is the reconcile | mirrors, hooks |
| ship (`commands/ship.mjs`) | one persisted state file | one block per status: prepare or reattach, approve, publish, reconcile, distribute, verify, postverify, re-entry | all commands |
| baseline advance (`core/baseline-advance.mjs`, `commands/post-release-*.mjs`) | `.release-skill` configuration | write, validate, restore | verify |
| evidence (`core/evidence.mjs`) | append-only event stream | serialised append, seal | saga |

The behaviours that are hard to get right, and hard to test, are listed with
their lines under `hazards` in `PROJECT.json`.  The ones that shaped the core:

* a process may die between a remote accepting a write and the run noting it;
* an answer may be lost, a write may be applied after the run gave up, and a
  registry may deny for a while that an object exists;
* the actions of one tier run concurrently, and an action of a later tier must
  not run on an object that never arrived;
* other people write to the same remotes, between any read and any write;
* two commands may run over the same plan, since no lock is held while they
  write to remotes, and a reconcile may start from a snapshot of a run that is
  still alive;
* a run file that says PUBLISHED is the authority of everything that follows;
* a mirror is written by two pushes, and the only way to finish a distribution
  is to run it again over whatever is there;
* `ship` is killed and called again; only its state file knows what it did.

What would make each component correct: a saga run always leaves something a
later run can resume from, never writes out of order, never repeats what is
recorded as done, and says PUBLISHED only when it is true; a replaced plan never
publishes; at most one owner mutates a project; a transaction is all or
recoverable, never half and silent; a cached hook success is replayed only for
identical inputs; a release advances its baseline only once VERIFIED; DISTRIBUTED
and VERIFIED are only said of a release that every mirror received; a ship
state never says more than is so and always leads on; an evidence stream loses
nothing before its seal.

## 2. Modules

| module | what it is |
|---|---|
| `ReleaseSaga` | state machine of publish and reconcile runs, the remotes, the network, other writers; all properties |
| `MCReleaseSaga` | the plans and run sets TLC instantiates |
| `TieredRelease` | the abstract specification `ReleaseSaga` implements |
| `ReleaseSagaProofs` | type correctness of `ReleaseSaga`, for every plan, every number of runs, every bound; what each action does to the run that takes it and leaves alone in the others |
| `ReleaseSagaSafety` | the inductive invariant and the safety theorems |
| `ReleaseSagaRefinement` | what the durable record says of the remotes: why a reconcile refuses, and the refinement |
| `PlanAuthority` | state machine of saving, freezing, approving and starting to publish plans, the project lock they share and break-lock; all properties |
| `PlanLineage` | the abstract specification `PlanAuthority` implements |
| `MCPlanAuthority` | the commands, plans and operators TLC instantiates |
| `PlanAuthorityProofs` | the inductive invariants, the safety theorems and the refinement |
| `ArtifactTransaction` | state machine of the write transaction of `artifacts apply` and `docs refresh --write`: files, journals, backups, markers, the recovery protocol, pruning, the lock and who breaks it, other people's edits; all properties |
| `UndoableUpdate` | the abstract specification `ArtifactTransaction` implements |
| `MCArtifactTransaction` | the transactions and targets TLC instantiates |
| `ArtifactTransactionProofs` | type correctness of `ArtifactTransaction`, for any number of transactions and targets |
| `ArtifactTransactionSafety` | its inductive invariants, the safety theorems and the refinement |
| `Distribution` | state machine of distribute runs, the mirrors and who else pushes to them, and verify's gate over the records; all properties |
| `Delivery` | the abstract specification `Distribution` implements |
| `MCDistribution` | the chains TLC instantiates |
| `DistributionProofs` | type correctness, the two inductive invariants, the safety theorems and the refinement |
| `Ship` | state machine of the resumable composition: the state file, calls that are killed, verify's own writes and the postverify run; all properties |
| `ReleaseLedger` | the abstract specification `Ship` implements |
| `MCShip` | the hooks TLC instantiates |
| `ShipProofs` | type correctness, the inductive invariants, the safety theorems and the refinement |

The first two state machines meet at one point: `FirstState` of `PlanAuthority` is
`PersistFirst` of `ReleaseSaga`, the first snapshot of a publish.  What happens
before it is about files and a lock and knows no remotes; what happens after it
is about remotes and one run's files and holds no lock.  So they are two modules
and not one: `PlanAuthority` says whether a run may start, and stops there.
`ArtifactTransaction` shares only the project lock with them.  `PlanAuthority`
shows how the lock is taken, given back and broken when several operators race;
`ArtifactTransaction` takes that for granted (a lock is taken when there is none,
and at any moment somebody may break it, rightly or not) and asks what a
transaction does about it.

`Distribution` begins where a run of `ReleaseSaga` is PUBLISHED and knows only the
mirrors and its own records.  `Ship` sits on top: publish and reconcile are two
points at which the remotes move on at their own pace (`Release`) and a status
comes back, as `ReleaseSaga` says it may; distribute is one outcome, as
`Distribution` says; verify and postverify are there in steps, since what they write,
and in which order, is what a killed `ship` call leaves.

## 3. How the models correspond to the code

### ReleaseSaga: constants

`Runs` are command invocations: a run identifier is one command with a fresh run
directory, never reused.  `Actions`, `Type`, `PlanOrder`, `Advancing` and `Needs`
describe a frozen plan: the remote-write actions, their types, their place in
the plan, which push actions use `advance-existing-branch`, and which remote
objects an action reads besides its own (`set-default-branch` reads the tip of
the pushed branch, a GitHub Release is read together with its tag).
`PlanAssumption` says what plans look like: an action only reads objects of
lower tiers.  `Overlap` allows or forbids two commands at once.  `MaxFaults` and
`MaxTampers` are the two bounds; both sit in guards, nothing else is capped (the
run with overlapping commands adds a constraint, see section 4).

### ReleaseSaga: state

| variables | stand for | survive a crash |
|---|---|---|
| `cmd`, `pc` | the command and where it is | no |
| `cp` | `checkpoints[].status` in memory | no |
| `local` | how far each action is inside `executeCheckpoint` | no |
| `todo`, `retry` | rest of a read-only pass; `actionsToRetry` | no |
| `src` | the authority a reconcile loaded | no |
| `journal` | `states/NNNNNN.json` of each run | yes |
| `runFile` | `release-run.json` of each run | yes |
| `remote` | what the remote holds for each action | yes |
| `inflight` | write requests under way | yes |
| `faults`, `tampers` | how much of the two budgets is used | – |
| `sent`, `drift`, `planned` | history, read by no guard | – |

The content of an object is abstracted to how it compares with the plan:
`"absent"`, `"old"` (the frozen predecessor tip, or the old default branch),
`"planned"`, `"partial"` (a release with assets missing) or `"foreign"`.  An
advancing tip is foreign when it is not an ancestor of the planned commit.

### ReleaseSaga: actions

| action | code | remarks |
|---|---|---|
| `StartPublish` | publish 985–1012, 1136–1198 | the two gates that read what the plan itself writes: the previous public baseline, exactly where it was frozen, and the global preflight; they are read in one step, and a gate that fails throws before anything is on disk, so only the passing gate is a step |
| `PersistFirst` | publish 1252–1267 | snapshot 0, PUBLISHING |
| `StartTier` | publish 1317–1339 | the whole tier becomes UNCERTAIN in one durable snapshot |
| `PreObserve`, `Preflight`, `Send`, `PublishObserve` | `executeCheckpoint`, publish 267–444 | one action of the tier; actions of a tier interleave |
| `SettleTier` | publish 1364–1430 | `Promise.all` has returned: results folded in, snapshot, stop or go on |
| `Apply`, `LoseAnswer` | the network and the remote | a request may be applied although nobody waits any more |
| `StartReconcile` | reconcile 257–345, 455–497 | picks any PARTIAL authority: the run file or any snapshot of any run, alive or dead; accepts the planned commit for the previous public baseline |
| `Scan` | reconcile phase 1, 597–898 | one action in plan order; a conflict refuses |
| `PreflightRetries` | reconcile phase 2, 900–1017 | all retries pass or all fail; only a reconcile that writes opens a journal |
| `StartRetry`, `RetryObserve` | `executeRetryGroup`, reconcile 1019–1218 | snapshot UNCERTAIN, write, observe, snapshot, stop at the first failure |
| `CheckBranches` | the final branch pass: reconcile 1220–1257, publish 1424–1470 | the first branch that no longer matches loses its success |
| `AppendFinal`, `WriteRun` | last snapshot, `release-run.json` | |
| `Crash`, `Tamper` | environment | |

`Reads` says what an observation may show: the truth, or at the price of one
fault nothing usable, or, for the registries whose reads lag (npm, GitHub
Releases), "missing".  One such step stands for the five attempts of
`observeWithRetry`.  `View`, `PreflightPasses`, `Attempt` and `Effects` are the
adapters: how an observation is classified, what preflight demands, what
execute reads before it writes, and what the remote makes of the request.
Pairs that an adapter reads back to back (default branch and tip, release and
tag) are read in one step.

`BaselineHolds` is the re-observation of the previous public baselines
(`core/previous-public-baseline.mjs` 91–150).  An advancing branch *is* the previous
baseline of its unit: a plan must bind it to the branch's ref
(`core/plan.mjs` 617), so pushing the branch moves it.  publish wants it where it was
frozen (`FrozenTips`); reconcile also takes the commit of the plan itself
(`AcceptedTips`).  Once an advancing branch was pushed, no publish of that plan starts
again, and only a reconcile leads on.  The other strategies write no baseline of
their own: `create-release-branch` demands mode `none` (`core/plan.mjs` 608), which is
consistent at once, and `initialize-default-branch` creates a branch that was absent, while
a bound baseline is a ref that was observed at the freeze.

`Init` allows any prefix of the tiers to be on the remotes already: an earlier
attempt whose run directory was deleted may have written them.  When that includes
an advancing branch no command can start: publish refuses, and reconcile has no
authority.  `EventuallyPublished` says so in its premise.

### PlanAuthority

One command is one process.  With `testIntake` declared `prepare` without
`--candidate` *saves* a candidate and `prepare --candidate` *freezes* a formal plan
from it; without the declaration `prepare` freezes *directly* (prepare 5483–5492):
no candidate, no look at other plans, no predecessor.  The declaration is read
by each prepare from the configuration, which somebody may change in between, so
both kinds meet.  `approve` writes an approval, `publish` goes as far as its first
snapshot.  A plan name stands for what the code addresses by digest: the candidate
and the plan frozen from it, whose content fixes the plan it replaces; a plan
without a candidate is one frozen directly, which carries no test acceptance and
so is never replaced (plan-replacement 365).  All plans of the model are for the
same units and versions; plans for others never meet in these checks.

| variables | stand for | survive a crash |
|---|---|---|
| `job`, `pc` | what a command was asked to do, and where it is | no |
| `lock` | whose record is in `.release-skill`'s lock file | yes |
| `candidates`, `pred` | saved candidates and their `replacesPlanDigest` | yes |
| `plans`, `approvals` | `plans/<digest>.json`, `approvals/<digest>/` | yes |
| `run` | what the run directory of a publish shows to `verifyHistory` | yes |
| `inspected` | the lock record a break-lock has read | no |

| action | code | remarks |
|---|---|---|
| `Begin` | approve 200–282, prepare 3700–3792 | up to the lock; only reads |
| `BeginPublish`, `OpenRun` | publish 484–503, 506–524 | the plan is looked at, and the run directory opened with its first event, *before* the lock |
| `PassGates`, `FailGates` | publish 527–1110; pre-authority-failure.mjs | a failing gate seals the directory, which later proves that nothing was released, or does not prove it |
| `Acquire`, `FindLocked`, `Release` | project-lock 592–645, 733–745 | `O_EXCL` creation; no waiting; release removes only the owner's own record and otherwise throws |
| `Inspect`, `Recover` | project-lock 764–855 | break-lock reads a record, and later removes that record or nothing |
| `Decide` | test-candidate 396–520 | no other basis in force, not frozen before, the replacement binds |
| `Bind` | prepare 3626–3629, plan-replacement 353–371 | the same question again, right before the write |
| `Check` | approve 282–285, publish 1252–1260 | `assertPlanNotReplaced` under the lock |
| `Write` | prepare 5427–5445, 5483–5492, plan.mjs 326–388, approve 286–318, publish 1252–1260 | one of `Save`, `Freeze`, `FreezeDirectly`, `Approve`, `FirstState` |
| `Refuse` | the `finally` of each command, e.g. prepare 5580–5609 | a check, a gate or a write under the lock fails |
| `Crash` | the process dies | its lock stays |

`Lawful` is what every reader of the plan files demands of them (no fork, no
missing predecessor); a file set that breaks it makes every command refuse.
`HistoryClean` is `verifyHistory`: a plan may only be replaced when every run
directory is a sealed failure that is proven to have written nothing.  It is
fail-closed, and so is the model: a publish that found the lock held, or died
before its first snapshot, leaves a directory that proves nothing and blocks
replacement until somebody removes it.

`Init` allows what commands that ended before may have left without a release:
any candidates, at most one plan, frozen either way, candidates that replace it when
it was tested, an approval.
A reconcile does not appear: it only acts on a run that already has a snapshot,
which is where this module ends.

`BreakableKinds` says which commands may lose their lock *while they live*.
break-lock is an operator's decision, audited but not verified by the program,
so the model lets the operator be wrong, and the properties say how wrong is
too wrong.  With `{}` all properties hold.  With every kind but `"freeze"` and `"direct"`,
`ReleasedNotReplaced`, `OneInForce` and the refinement still hold (proved), since
a publish opens its run directory before it takes the lock, and every freeze
counts it; `Exclusive` and `ApprovesInForce` do not.  With `"freeze"` included
`ReleasedNotReplaced` fails: prepare does not ask whether it still owns the lock
between `Bind` and the write, so a publish that was checked in between releases
a plan that is replaced a moment later.  With `"direct"` included a plan may be frozen
directly beside one that a freeze has just been decided for.  The repository does not
promise more.

### ArtifactTransaction

One transaction is one command and one process: `artifacts apply` on a plan
somebody made earlier, or `docs refresh --write` with the digest of a dry run
somebody confirmed.  A target is a file of the write set; its content is one of
the contents it may have had at first, what some transaction wrote, or what
somebody saved.  Line numbers are of `src/artifacts/` (`transaction` is
`transaction.mjs`, `journal` is `transaction-journal.mjs`, `lock` is
`project-lock.mjs`) and of `src/docs/refresh-service.mjs` (`refresh`).

| variables | stand for | survive a crash |
|---|---|---|
| `files` | the targets | yes |
| `lock` | whose record is in the lock file | yes |
| `journal`, `entries` | state and entry statuses of `journal.json` | yes |
| `backup` | `backups/<i>.bak` | yes |
| `receipt`, `marker` | the small terminal receipt; `RECOVERY_REQUIRED` | yes |
| `born` | `createdAt`, which pruning sorts by | yes |
| `pc`, `at`, `todo`, `old` | where the process is; its plan's old content of each target | no |
| `sure` | the lock was asserted for the write that comes next | no |
| `outcome` | the answer the caller gets | – |
| `wrote`, `since`, `late`, `committed` | history, read by no guard | – |

| action | code | remarks |
|---|---|---|
| `Begin` | refresh 427–457, or the plan handed to apply | what is there is read without the lock |
| `Acquire`, `FindLocked` | lock 592–645 | no waiting |
| `Preflight` | transaction 654–725, refresh 457–520 | every target against the plan; may also refuse for the plan's form |
| `AssertOwner` | transaction 1084–1092 | a step of its own, so that anything may happen between it and the write it guards; a lost lock ends the command without a recovery protocol |
| `Create` | journal 1517–1602, 1623–1720 | prunes terminal records (some or all of those beyond the cap: it is best effort) and writes PREPARED |
| `Start`, `Applied`, `Verifying`, `Commit` | transaction 1139–1263 | one `Advance` each: the journal is read back, compared and replaced |
| `MarkPending`, `Compare`, `BackUp`, `Mutate`, `RecordApplied` | transaction 1158–1228, 365–440, 760–797 | one entry; entries in any order, since the plan's order is free |
| `Verify` | transaction 826–847 | all targets once more |
| `Converge`, `Clean` | journal 1336–1470 | receipt, then marker and backups removed |
| `Recheck` | refresh 619–634 | docs refresh plans again and wants nothing to do |
| `Recover`, `Tell` | transaction 901–951, journal 1982–2004 | RECOVERY_REQUIRED in the journal, then the marker file |
| `Restore` | refresh 271–345 | old bytes back, whatever is there, first failure ends it |
| `Leave` | lock 689–745 | capture and release |
| `Crash`, `BreakLock`, `Edit` | environment | |

Every durable write has three outcomes (`Answers`): done and reported, not done,
or done and reported as failed, as when the directory sync after a rename fails.
`Changes` is a change of a target: it is bound to what was read (`Replaceable`)
when it replaces a file, since the backend checks the identity of the file it
opened, and bound to nothing when it removes one (`unlink` by name).

`Init` is a project without transaction records; what earlier transactions leave
is reached by the model itself, since a second transaction meets every record
the first can leave.

### Distribution

`Runs` are distribute commands over one plan, `Mirrors` and `Hooks` its targets
and distribute-phase hooks, and `Rank` their frozen order, which runs across
declarations: targets of the first, its hooks, targets of the second, and so on.
`DependsOn` gives the payload mirror a marketplace index names.  Line numbers are
of `commands/distribute.mjs`, those marked *git* of `adapters/distribute-git.mjs`.

| variables | stand for | survive a crash |
|---|---|---|
| `step`, `dry`, `approved` | where a run is, `--dry-run`, the validated hook approvals | no |
| `cp` | the checkpoints in memory | no |
| `probe` | `probeObservations`: the tag each mirror showed at the start | no |
| `sha` | `mirrorResults`: the commit a dependent index will name | no |
| `journal`, `runFile` | the newest snapshot in `states/`, `release-run.json` | yes |
| `tip`, `tag`, `log` | branch and release tag of each mirror, and what the branch has carried | yes |
| `inflight` | pushes under way | yes |
| `verified` | some verify reported VERIFIED | yes |
| `faults`, `tampers` | how much of the two budgets is used | – |
| `ran`, `calm` | history, read by no guard | – |

A run makes at most one commit per mirror, so the commit bears the run's name.
`"old"` and `"same"` are what the mirror had before, another content or the very
payload; `"foreign"` is somebody else's.  `SameTree` is the comparison of staged
trees: payload commits of all runs have the same tree, an index commit has the
tree of the commit it names.

| action | code | remarks |
|---|---|---|
| `Start` | 649–760 | approvals validated, snapshot 0 |
| `Probe` | 925–985 | one step: only the tag is kept, and used for each mirror alone |
| `Throw` | 436–446, 1910–1941 | what fails outside the checkpoints, snapshots and evidence included, up to the write of the record: the record says PARTIAL or BLOCKED |
| `Observe` | 1413–1453 | SKIPPED when branch and tag agree; else UNCERTAIN on disk before the adapter is called |
| `NoChange`, `MirrorFails`, `Rehearse`, `SendBranch` | git 399–508, 1492–1542 | what clone and comparison lead to |
| `Accept`, `Reject`, `TimeOut` | git 502–514 and the Git host | neither push is forced; the tag is pushed when the branch went through; a push may arrive after the run gave up |
| `Confirm` | git 580–629, 1558–1605 | branch and tag are both the pushed commit |
| `PassHook`, `StartHook`, `EndHook` | 1648–1863 | rehearsed, parked, run |
| `Close`, `WriteRecord` | 1652–1663, 1870–1893 | what lies behind a failure is skipped; classification; journal before record |
| `Verify` | verify 1040–1167, 1350–1395 | any record of the plan may open the gate |
| `Crash`, `Tamper` | environment | |

Declared steps run inside `Throw`'s reach: they leave nothing that distribute reads
again, and one that fails ends the run.  What the adapter, a preset or a hook throws is
caught and becomes a failed checkpoint (1495, 1558, 1692, 1799), so there is no
`Throw` inside a push or a hook.  When it is a snapshot that fails, the
journal stays one snapshot behind the record; the model throws right after the
snapshot, so its journal does not, and nothing reads the journal of a run that
has a record.  A failing confirmation costs a fault only
when the mirror is as it should be.

### Ship

| variables | stand for | survive a kill |
|---|---|---|
| `plan` | whether the plan has targets or distribute hooks, and whether a unit advances its branch or initialises its default branch | yes |
| `file` | `.release-skill/ships/current.json` | yes |
| `mem`, `pc`, `opt`, `ranPost` | the call: its copy, its place, its options, `postVerifyRanThisCall` | no |
| `hook` | checkpoints of the postverify run the call drives | no |
| `pub`, `tips` | how far the plan's external actions got; what that means for the gates of publish and reconcile that look at branches | yes |
| `record`, `frozen` | a VERIFIED run, the FROZEN marker | yes |
| `config`, `head` | `previousPublicBaseline` in `project.yaml`, and in the last commit | yes |
| `posts`, `torn` | history, read by no guard | – |

`State` keeps of the file what later calls decide by: `status`, whether there is a
test candidate, of what status the run in `sourceRunPath` is, whether
`verifyRunPath` is set, and outcome and closed hooks of the last postverify run.
`Block` is the chain of `if (state.status === …)` in `advanceShip`; after it control
falls through the blocks as the code does, so a call goes as far as it can.

| action | code (`commands/ship.mjs`) | remarks |
|---|---|---|
| `Call` | 471–530 | reads the state or writes a new one |
| `Prepare`, `Reattach` | 555–735 | a candidate that was released before takes over the status of that release and returns |
| `Approve` | 737–765 | |
| `StartPublish`, `Release`, `PublishReturns` | 767–787, publish 985–1012 | PUBLISHING is on disk first; PUBLISHING enters the block again, and publish refuses when the plan has moved the previous baseline already |
| `StartReconcile`, `ReconcileReturns` | 789–807 | reconcile takes a PARTIAL source only (reconcile 330) and refuses a default branch that is to come and is not there (reconcile 793) |
| `EnterPublished`, `DistributeReturns` | 814–859 | |
| `Verify`, `ClearMarker`, `WriteBaseline`, `Validate` | 861–893, verify 1290–1396, 2481–2590, baseline-advance 78–153 | the record, then the marker, then the config, each of which may fail or be the last thing done; the config is truncated and written in place, so a write may also fail half-way (`Tear`) |
| `StoreVerified`, `RunHook`, `PostReturns` | 873–932, postverify 614–932 | |
| `Reenter` | 946–991 | |
| `Crash` | the call is killed | |

`Init` is a project without a state file, or one whose candidate was released
before by other means, so that `Reattach` meets every outcome.  A config that stays
damaged is not mended by later calls, and does not stop them: ship reads the
configuration only while its state is NEW, verify only in the step that advances
the baseline, whose errors it records and passes over (verify 2568).

## 4. Properties and runs

* `TypeOK`: the type invariant; among other things a checkpoint is one of the
  five statuses `buildPersistedState` writes, which a mapping of observation
  classes to statuses could break.
* `WriteAhead`: when a run has asked a remote to write, its latest durable
  snapshot is an authority reconcile accepts, and does not call the action
  pending.  This is the point of the "UNCERTAIN before execute" snapshots: a
  process killed at any instant is recoverable from disk.
* `TiersRespected`: a write is issued only when every lower-tier object has been
  on the remote at some time, whichever run put it there.  It relates runs:
  a reconcile inherits the order from the statuses of its source.
* `PublishedIsTrue`: every object of a PUBLISHED run is on the remote, unless a
  third party touched it after that run last saw it match.  Requests that arrive
  late, replies that lie, other runs and stale reads must not break it.
* `SucceededNeverResent`: reconcile does not write what its source recorded as
  succeeded, whatever the remote shows.
* `RefusesOnlyOnConflict`: without third parties, reconcile refuses only on a
  read that went wrong.
* `ImplementsTieredRelease`: publish and reconcile runs together implement
  `TieredRelease`.  An object of the release appears only after its write was
  admitted by a durable snapshot that a reconcile accepts, is admitted only when every lower tier
  has been there, and the release is told PUBLISHED only when all of it has been.
  It says of all runs at once, requests of dead ones included, what `WriteAhead`,
  `TiersRespected` and `PublishedIsTrue` say of one.
* `EventuallyPublished`: without third parties, an operator who keeps starting
  commands gets the release published, when the branches to advance are where they
  were frozen as the first command starts.  Every fault after that is recovered
  from, by reconcile alone once such a branch has moved.

Of the plan authority:

* `TypeOK`: the type invariant; it says that every approval has a plan.
* `Exclusive`: never two processes between acquire and release.  The hard case
  is two operators who break the same dead lock while a third command takes it.
* `ReleasedNotReplaced`: a plan with a run state is not replaced, before or after.
  Publish looks at its plan, opens its run and passes its gates without the lock,
  so it races a freeze that has already read the history.
* `OneInForce`: candidates saved side by side are not frozen side by side, and no
  plan frozen directly is taken for a predecessor.  While `testIntake` stays declared
  this means one plan in force; without it there is no such promise: two prepares
  that freeze directly leave two plans that can both be approved and published.
* `ApprovesInForce`: no approval is written for a plan that is replaced by then.
* `ImplementsLineage`: the three commands together implement `PlanLineage`, in
  which a plan is given up only for its tested successor, for good, and never once it
  is released (`README.md` 984 and 990 promise this to the user), a tested plan comes
  into force beside no other, and an untested one touches nothing.
* `LockComesFree`: whatever fails under it, the lock is given back.

Of the write transaction:

* `TypeOK`: the type invariant; it says that what a plan removes is absent
  afterwards and nothing else.
* `Recoverable`: a target changed by a transaction that is not committed is named
  in its journal and has a backup of the planned old content.  It relates four
  files on disk at every instant, across crashes, lost locks, writes that are
  reported wrongly, and the pruning done by other transactions.
* `CommittedIsTrue`: what a committed apply wrote is there, or somebody changed it
  after the verification.  (Verification and commit are two steps, and there is a
  time between an entry's write and the verification.)
* `OneLateChange`: how much a transaction can still do when its lock was taken away.
  The lock is asserted before every write, so it is one target.
* `Honest`: no success without a commit, no recovery that is not recorded, no
  refusal after something was touched, no journal left open by a command that
  does not say so.
* `EditsKept`: nobody's save is replaced by a transaction that has not seen it.
* `ImplementsUndoableUpdate`: the transactions together implement `UndoableUpdate`.
  A file is replaced only when it holds what an open record would put back (a
  removal needs the backup only), no transaction loses the record of a file it
  changed before it is committed, pruning by others included, and it is committed
  only when it has changed every target.  The restore of docs refresh appears there as
  what it is, a writer that puts files back without a record.
* `EveryCommandAnswers`: the answer comes, whatever fails.

Of distribution:

* `TypeOK`: the type invariant; it says that a run that throws leaves one of the
  statuses a record may have.
* `WriteAhead`: whatever a run pushed, or may still push, its journal admits.
* `ChainStops`: nothing is pushed and no hook started behind a failure, over the
  borders of targets, hooks and declarations.
* `DistributedIsTrue`: DISTRIBUTED is decided from the counters of one run; it has to
  be so of mirrors that several runs and third parties wrote.
* `IndexNamesPayload`: the commit a marketplace index names is on the payload
  mirror and has the payload, whichever run made it and however old the probe is.
* `VerifiedIsDelivered`: the same of VERIFIED, whichever record verify went by.
* `Reconciles`: an approved run nobody disturbs ends DISTRIBUTED from whatever
  state earlier runs left, half a push included.
* `ImplementsDelivery`: the runs together implement `Delivery`: DISTRIBUTED is said
  only when every mirror has received the release or carries its tag, and what a
  mirror has received is not taken back.

Of ship:

* `TypeOK`: the type invariant; it says that what is stored is a status of the file.
* `TellsTruth`: the state file never runs ahead of the release.
* `FrozenUntilVerified`: the FROZEN marker and the previous baseline stand until a
  VERIFIED run is on disk, across kills, and attestations that come calls later.
* `ConfigRestored`: an unvalidated config outlives its writer only when that was
  killed over it, or one of its writes, the restoring one included, failed half-way.
* `VerifiedStays`: no later call, hook or failure takes VERIFIED back.
* `PostVerifyOnce`: the re-entry block does not repeat step 3 of the same call.
* `ImplementsLedger`: `Ship` implements `ReleaseLedger`.  The state file tells a stage
  of the release that has been reached, stays at VERIFIED once it says so, the
  freeze stands until the last stage, and only then does the next baseline move; a plan
  that is not frozen is never released.
* `ShipFinishes`: calling again finishes a release that needs no distribution,
  wherever calls were killed, or comes to one of two named ends (`Stuck`) at which
  publish or reconcile refuse the plan each time (section 7).  From every other state calls
  lead on.

Three of these name exceptions.  `VerifiedIsDelivered` leaves out plans in which a
lenient hook stands in front of others (section 7) and rehearsals: a
`distribute --dry-run` record says DISTRIBUTED, and verify does not look whether it was a
rehearsal.  `IndexNamesPayload` leaves out a payload mirror whose release tag
somebody else took: an unchanged payload then makes the index name that tag's
commit (`distribute.mjs` 1533 prefers the probed tag to the branch tip).  `ShipFinishes`
leaves out plans that need distribution and names two ends (section 7).

Of the write transaction three name exceptions, because without them the code violates them:
`CommittedIsTrue` and `OneLateChange` speak of `artifacts apply` only, and
`EditsKept` excepts removals and the restore of docs refresh.  The restore writes
old bytes without comparing (a save in between is lost) and without asserting
the lock (so it may write over another transaction's work); `unlink` removes by
name what somebody may have saved since the comparison.  No line of the
repository promises otherwise (`refresh-service.mjs` 594 calls the lock "still-held",
which it is unless an operator broke it by mistake), so these are exceptions here
and no findings.

| run | instance | states | shows |
|---|---|---|---|
| `saga_overlap` | branch, then default branch and npm package at once: two tiers; two overlapping runs; 1 fault or 1 tamper | 1.0 M | types, `WriteAhead`, `PublishedIsTrue`, `SucceededNeverResent` and the refinement, which includes the order of the tiers |
| `saga_recovers` | two units, one with an advancing branch, one with a new branch, a tag and a release: three tiers; four runs one after the other, fair; 1 fault | 0.3 M | recovery after any single fault, where the retry must be recognised from the frozen predecessor; `TiersRespected` and `PublishedIsTrue` along the chain |
| `saga_default_refused` | branch and default branch, 1 fault | – | the first disagreement of section 7 |
| `plan_careful` | three commands, with or without test intake, two plans, two operators who break dead locks, 1 crash, fair | 1.0 M | all safety, the refinement, `LockComesFree` |
| `artifact_faults` | an apply that writes one file and removes another, a refresh of both, fair; 1 fault, 1 edit, no terminal record kept | 0.6 M | all safety, the refinement and `EveryCommandAnswers` |
| `artifact_marker` | one transaction | – | the second disagreement of section 7 |
| `artifact_restored` | one refresh | – | the third |
| `distribution` | payload mirror, index, gated and lenient hook; two overlapping runs or rehearsals, fair; 1 fault, 1 tamper | 1.0 M | all of distribution |
| `distribution_untagged` | payload mirror and index, two runs one after the other, 1 fault | – | the fourth disagreement |
| `distribution_lenient` | payload mirror, lenient hook, blocking hook, 1 fault | – | the fifth |
| `ship` | a gated and an ungated postVerify hook, plans with and without distribution, with and without a branch that advances and one that becomes the default, fair; 3 faults | 0.07 M | all of ship, the refinement included |
| `ship_stuck` | a plan that needs distribution, no fault | – | the sixth |

Bounds.  Two runs are what an interleaving of two commands needs; more add
the chain publish → reconcile → reconcile, checked without overlap.  One fault
can be a crash, a lost answer, an applied request without an answer, a stale or
failed read, a failed preflight or half a release: each happens in the runs at
every place it can.  Four runs suffice for liveness with one fault, and three do not: a
publish that dies over a tier of two actions leaves two requests, each of which can
land late and spoil one further command, and the command after those finds the
truth.  Two actions that run at once
within a tier occur in `saga_overlap`, all three tiers in `saga_recovers`, a
barrier between tiers in both.  `CHECK_DEADLOCK FALSE` is set because every run ends
and the model then has nothing left to do; `ship` has no such line, since a ship
can always be called again.  In `saga_overlap` runs are interchangeable, so it uses
symmetry on them; the runs with liveness instead follow one order of the names
(`StartedInOrder`, `OneOrder`: action constraints that forbid the second name to be used
before the first).  Its constraint `OneInterference`
cuts off states with both a fault and a foreign write: two commands with three
actions and either of the two is what fits.  The proofs know no such bound.

Two plans are a plan and its successor or rival; three commands are a
publish, a freeze and an approval under way at once.  Two operators and one
crash are what a late break needs: one lock broken twice, and a new owner in
between.  `BreakableKinds` is `{}` there; what the run directory of a publish
protects when an operator breaks the lock of a living command is proved
(`ReleasedNotReplacedHolds`, for every value with neither kind of freeze in it) and
not run.

Two targets are one that is done and one that is not; removing one and writing
the other is the plan in which a half-done state matters.  Two transactions over
the same targets are an old record and a new one, or an owner and the one who
took its lock.  One fault is a failed write, a crash or a broken lock at every
place; the failure of a recovery, which takes two, is covered by the proofs, which
hold for every budget.  `RetentionMax` is 0 so that every terminal
record is beyond the cap and pruning meets every state of the other record.

In `distribution` one mirror depends on the other, and the hook behind them is
parked, run, failed or rehearsed.  One fault leaves each of the states a rerun has to
complete (nothing, a branch without its tag, both, a late push), and one
third-party push puts a foreign commit or a foreign tag in front of any step.
Two runs are an earlier and a later one, or two at once.  In `ship` three faults are a
kill, a failure after it and one more: a config stays broken after one (a write that fails
half-way) or two (a restore that fails), a parked postverify run that later fails takes
three.  The eight plans of `Plan` are all there are for what the gates on branches look at.
The number of calls is not bounded.

Every property of every passing run has a mutant, a plausible slip in one
definition under which TLC finds the property violated: `MarkedLate` persists
before marking, `EveryTier` drops the barrier, `AnyOf` retries in any order,
`AssetsIgnored` overlooks missing release assets, `PushedBranches` forgets the default branch in the final pass,
`FrozenTips` makes reconcile as strict about the previous baseline as publish is,
`ProtectsNothing` and `ProtectsStarted` change
which checkpoints a source protects, `RawOutcome` records an observation class as a status.
(`EveryTier` breaks the refinement, and so do `AnyBeyond` and `Hasty` below.)
In `PlanAuthority`: `AskedEarly` approves a candidate, `CheckedBefore` trusts the look
before the lock, `SameSubject` looks for plans in force too narrowly, `TakesOver`
ignores a held lock, `SealedOnly` overlooks run directories,
`RecoverAny` removes whatever lock is there, `ReturnsEarly` skips the `finally`.
In `ArtifactTransaction`: `Tombstone` leaves something where a file was removed,
`AnyBeyond` prunes records by age alone, `RecordedNew` trusts the entries instead of
the files, `AssertsOnce` asserts the lock for the journal only, `ClaimsRecovery` names
a recovery before it is recorded, `Overwrites` does not bind the write to what was
read, `WaitsForLock` waits for a lock it lost.
In `Distribution`: `Fails` gives a run that throws a status of its own, `Belated`
snapshots the old checkpoints, `AnyOpen` ignores the frozen order, `Optimist` counts
failures only when nothing landed, `Forgets` keeps no commit of a mirror found in
place, `AnyStatus` opens verify's gate to blocked and parked records, `OwnOnly` does
not count what was found in place.  In `Ship`: `Untranslated` stores the saga's own
word, `Hasty` calls a half-published release published, `Attested` goes on behind a
verification that did not happen, `KeepsBroken` restores nothing, `ByOutcome` forgets
that step 3 ran, `Demoted` takes VERIFIED back, `NoResume` has no block for
PUBLISHING.

## 5. Fairness

Only the specifications named `FairSpec` are fair.  In `ReleaseSaga`, `WF(RunStep(r))`: a process that was started runs on;
it never waits for anything but a remote's answer, and its own steps are enabled
until it ends.  `WF(StartPublish(r) \/ StartReconcile(r))`: the operator starts
another command as long as one can start.  This is what the liveness property is
about (an operator who gives up gets nothing), and no strong fairness is
assumed.  `WF(\E req : Apply(req))`: the remote handles what it received.  Crash,
LoseAnswer, failing reads and Tamper have no fairness.

In `PlanAuthority`, `WF(Step(c))`: a process that was started runs on; there is no
waiting for the lock, so each of its steps is enabled until it ends.  Starting a
command, breaking a lock and crashing have no fairness.

In `ArtifactTransaction`, `WF(Step(t))` for each transaction, for the same reason:
nothing in the transaction waits for anybody, and every point of the process has
a step, whatever the journal holds.  Edits, broken locks, crashes and the start
of a command have no fairness.

In `Distribution`, `WF(Progress(r))`: a command that was started runs on, and a push it
waits for is answered or given up; every `git` call of the adapter has a timeout.
A push nobody waits for, crashes, third parties and the start of a command have
no fairness; `Reconciles` only speaks of runs that nothing disturbs.

In `Ship`, `WF(Run)`: a call that was made runs on.  `WF(Release)`: a publish or
reconcile that the gates on the plan's branches let through gets its actions to the remotes in
the end, which `EventuallyPublished` of `ReleaseSaga` shows under its own assumptions; one
they refuse never comes to `Release`, and a plan that is refused each time ends in `Stuck`.  `SF(Call(Everything))`: whoever ships
calls again, now and then with the approvals at hand; strong, because a call
disables the next one until it returns.  Kills and failures have no fairness.

## 6. Proofs

What is proved holds for every value of the constants that satisfies the named
assumptions of the module; TLC evaluates the same assumptions in every run.

### ReleaseSaga

For every plan that satisfies `PlanAssumption`, every set of runs and every value
of the two bounds (`BoundAssumption` says only that they are naturals).

| theorem | module | says |
|---|---|---|
| `TypeCorrect` | `ReleaseSagaProofs` | `[]TypeOK` |
| `WriteAheadHolds` | `ReleaseSagaSafety` | `[]WriteAhead` |
| `SucceededNeverResentHolds` | `ReleaseSagaSafety` | `[]SucceededNeverResent` |
| `TiersRespectedHolds` | `ReleaseSagaSafety` | `[]TiersRespected` |
| `PublishedIsTrueHolds` | `ReleaseSagaSafety` | `[]PublishedIsTrue` |

None of the four safety invariants is inductive.  What is inductive has two
layers.

*A run by itself* (`RunInv`).  `Phase`: where a run stands limits what its
checkpoints and its journal can be.  `AtWork`: an action inside
`executeCheckpoint` belongs to the tier or the retry under way.  `Progress`: what
the passes still have to visit.  `Recorded`: memory and the last snapshot agree
but for the results not folded in yet, which is what makes the disk say at least
UNCERTAIN before a request leaves.  `Conclusive`: a run on its way to PUBLISHED
has no unsettled checkpoint.  `SkipsSucceeded`: a reconcile's retries avoid what
its source protects.  `LowerTiersDone`: when a tier starts, all below it succeeded.

*A run against the remotes* (`WorldInv`).  `PlannedSeen`: an object that is as
planned has been noted in `planned`.  `DoneWasPlanned`: a succeeded checkpoint,
in memory or in any snapshot, is of an object that was once as planned.  It is
what carries the order of writes from a dead run to the reconcile that picks up
its snapshot.  `SentAfterTiers` is the order itself.  `DoneIsTrue`: a checkpoint
that succeeded is still true unless drift was noted.  `RunFileIsTrue`: the same
for what was written to the run file.

An action of a run touches only that run's variables, the remotes' requests and
the fault budget, so the proof has four kinds of step: a run's own step (one
lemma per part of the invariant and action, over the facts about actions that
`ReleaseSagaProofs` states without EXCEPT), the same step seen by every other run
(`OthersUntouched`, `OnlyAnswers`), a step of the remote (`RemoteStep`: a request
makes an object more as planned, never less) and `Tamper`, which pays with `drift`.

*The record against the remotes* (`RecordInv`), in `ReleaseSagaRefinement`.  The
invariants above look at what a run holds now; why a later reconcile refuses, and
what all runs admit together, depends on everything that was ever recorded.
`RecordTruthful`: no snapshot, result or source of any run calls an action done
that was never in place.  `StartedAfterTiers`: in a run that keeps a journal,
whatever has left the pending state has all lower tiers behind it, which makes
admission respect the tiers.  `Unopened`: no journal before the run is about to
write.  `RequestsSent` ties every request, of dead runs too, to one that was
issued, so that an object appears only when admitted.  `TierByTier`: what was in place
at some time had the tiers below it in place before.  `Undisturbed`: with nobody else
writing an object is as planned, or as the first attempt found it, or a
release without its assets; so a true read is a match or can be retried.

| theorem | says |
|---|---|
| `SnapshotsTruthful` | no authority a reconcile can be given calls done what never was |
| `RefusalsExplained` | for every plan: reconcile's scan refuses only when somebody else wrote, a read went wrong, or the plan sets a default branch whose branch is not there (section 7) |
| `RefusesOnlyOnConflictHolds` | `RefusesOnlyOnConflict`, for plans without a `set-default-branch` action |
| `ImplementsTieredReleaseHolds` | `ImplementsTieredRelease` |
| `PromiseHolds` | hence the invariant `Promise` of `TieredRelease`, of every execution of the commands |

The hypothesis of `RefusesOnlyOnConflictHolds` is needed: `saga_default_refused` is a run
without it.  Frozen plans with and without such an action both exist.

Only model-checked: `EventuallyPublished` (liveness).

### PlanAuthority

Proved in `PlanAuthorityProofs` for any number of commands, plans, operators and
crashes.  The constants satisfy `NamesAssumption`, `CrashAssumption` and
`BreakableAssumption`; the theorems need besides what `BreakableKinds` may be.

| theorem | assumes of `BreakableKinds` | says |
|---|---|---|
| `TypesHold` | – | `[]TypeOK` |
| `ReleasedNotReplacedHolds` | no live freeze, direct or not, loses its lock | `[]ReleasedNotReplaced` |
| `OneInForceHolds` | the same | `[]OneInForce` |
| `ImplementsLineageHolds` | the same | the refinement of `PlanLineage` |
| `ExclusiveHolds` | only dead locks are broken | `[]Exclusive` |
| `ApprovesInForceHolds` | the same | `ApprovesInForce` |

None of these is inductive.  `Inv` strengthens them with what each step relies on.
`Asks`: what a command was asked for exists.  `Standing`: where a command stands
says what it does and what its run directory shows; a publish past its first
event always shows evidence.  `Names`: a candidate keeps its predecessor, since
its name was fresh when its only save began.  `Locked`: a freeze that lives owns
the lock it took.  `Basis`: what such a freeze has seen of the plans is still so
when it writes, because nobody else writes plans meanwhile.  It has seen more than the
property needs: every plan but its predecessor is replaced, so there is no plan
without a candidate beside the tested ones when it writes (`FreezeReads`).  `Untouched`: while a replacement
is about to be written no publish is past the point where it takes the lock; one
that has merely opened its directory will be refused by its own check.
`Standard`: a publish that may write its first state, or has, is of a plan in
force.  There is one lemma per part and in it one step per action; `HowReached`
and `OnlyFreezeChanges` say once which actions matter.  The refinement then needs
one step per action and that `Current` is well defined, which is `OneInForce`.
A direct freeze adds a plan
without a candidate, which no part of the invariant takes for a plan in force.
`Exclusive` rests on `Owned` (whoever is inside owns the lock, and an inspected
owner is dead), `ApprovesInForce` on that and `Approving`.

Only model-checked: `LockComesFree` (liveness).

### ArtifactTransaction

For any finite set of transactions, any set of targets, whatever each transaction
removes or refreshes (`PlansAssumption`: a refresh removes nothing), and any
retention limit and budgets.

| theorem | module | says |
|---|---|---|
| `TransactionTyped` | `ArtifactTransactionSafety` | `[]TypeOK` |
| `TransactionSound` | `ArtifactTransactionSafety` | `[]Sound`, the inductive invariant |
| `TransactionRecoverable` | `ArtifactTransactionSafety` | `[]Recoverable` |
| `TransactionCommittedIsTrue` | `ArtifactTransactionSafety` | `[]CommittedIsTrue` |
| `TransactionOneLateChange` | `ArtifactTransactionSafety` | `[]OneLateChange` |
| `TransactionHonest` | `ArtifactTransactionSafety` | `[]Honest` |
| `TransactionEditsKept` | `ArtifactTransactionSafety` | `EditsKept` |
| `TransactionOnRecord` | `ArtifactTransactionSafety` | `[]OnRecord`, the second inductive invariant |
| `TransactionReports` | `ArtifactTransactionSafety` | `[]Reports`, the third |
| `TransactionAppliedAsTold` | `ArtifactTransactionSafety` | `[]AppliedAsTold` when nothing is a docs refresh: the positive side of `artifact_restored` |
| `TransactionImplementsUpdate` | `ArtifactTransactionSafety` | `ImplementsUndoableUpdate` |
| `UpdatePromiseHolds` | `ArtifactTransactionSafety` | hence `Promise` of `UndoableUpdate` |

`Sound` says five things of each transaction.  `PlacedIn`: where its process stands
limits what its record can be (before the journal is created nothing was
touched, between there and the commit the journal is open, an entry under way is
named in the journal, and backed up when it is about to change).  Even type
correctness needs it, since an entry under way must be a target.
`RecoverableIn` is the property itself.  `ToldIn` is `Honest` with the
unfinished-journal clause already from the recovery protocol on.  `LateIn`: after
a late change the lock is somebody else's for good and no assertion is left to
use, so there is no second one.  `TrueIn`: what a commit needs is already true when
the process stands before it, and stays true because everybody else's change is
noted in `since`.

The invariant is per transaction, so the proof has three parts.  `OthersStand` and
`WorldStands`: a step of another transaction, an edit or a broken lock leaves a
transaction *standing* (`Stands`: its process as it was, its record as it was or
pruned when committed, every changed file noted); `StandsSound`: that keeps
`SoundIn`; `OwnSound`: so does each of its own steps, one case per action.
`EditsKept` needs only the types and one look at the two actions that change files.

`OnRecord` says what `Sound` leaves open and the refinement needs: a record is opened
empty, the commit closes it for good, and an entry that was visited has been
written, so that a commit means every target was changed.  The refinement then has one
lemma for each action that does more than stutter (`MarkRefines`, `BackUpRefines`,
`MutateRefines`, `CommitRefines`, `RestoreRefines`); creation refines a stutter because
what it prunes is terminal, and a terminal record has nothing left to undo.
`Reports` relates answers and markers: a failed convergence is reported of a
committed transaction only, and a marker RECOVERY_REQUIRED lies only where its command
named a recovery, one that could not be recorded, or a lost lock.  A success is
therefore never reported beside a marker, even where `artifact_marker` finds one
beside a commit.

Only model-checked: `EveryCommandAnswers` (liveness).

### Distribution

For any finite or infinite sets of runs, mirrors and hooks, any injective frozen
order in which an index comes after its payload (`ChainAssumption`), overlap or
not, rehearsals or not, and any budgets.

| theorem | says |
|---|---|
| `DistributionTyped` | `[]TypeOK` |
| `DistributionWriteAhead` | `[]WriteAhead` |
| `DistributionChainStops` | `[]ChainStops` |
| `DistributionTruth` | `[]DistributedIsTrue` |
| `DistributionIndex` | `[]IndexNamesPayload` |
| `DistributionVerified` | `[]VerifiedIsDelivered` |
| `DistributionImplementsDelivery` | the refinement of `Delivery` |

There are two inductive invariants.  `Orderly` says of each run by itself: `Walked`,
everything before the item it is at is settled, everything behind it untouched,
and a failure is followed by nothing; `Busy`, a run in the middle of an item has it
UNCERTAIN; `Admits`, the journal shows every item that is not pending; `Behind`, what
the run sent to a mirror it has reached.  `WriteAhead` and `ChainStops` follow.

`Truthful` ties runs and mirrors together: `Recorded`, a settled checkpoint says
what it should of the mirror; `Knows`, a commit in `sha` has been on its mirror and
is the payload, unless the tag is foreign; `Sent`, a push under way carries
what its run was to push; `OnRemote`, the branch tip has been on the branch and a
run's index commit names what `IndexNamesPayload` wants; `TagsFollow`, a tag of a run
follows its commit on the branch; `Judged`, a record of DISTRIBUTED is of a run that
saw every mirror served and every hook started.  All of it only grows with
`log` and `ran`, which is why other runs and third parties cannot spoil it.  The
refinement needs one step per action and `Judged`.

Only model-checked: `Reconciles` (liveness).

### Ship

For any set of postVerify hooks with an injective order, any gated subset and any
fault budget.

| theorem | says |
|---|---|
| `ShipTyped` | `[]TypeOK` |
| `ShipTellsTruth` | `[]TellsTruth` |
| `ShipFrozen` | `[]FrozenUntilVerified` |
| `ShipVerifiedStays` | `VerifiedStays` |
| `ShipConfigRestored` | `[]ConfigRestored` |
| `ShipPostVerifyOnce` | `[]PostVerifyOnce` |
| `ShipImplementsLedger` | `ImplementsLedger` |
| `ShipPromiseHolds` | hence the invariant `Promise` of `ReleaseLedger` |

`Sound` is the inductive invariant of the first four: `Synced`, a call that is under
way has in memory what is in the file (every change is stored at once);
`Placed`, where a call stands limits the stored status; `Released`, what the world
must look like there (the plan is published from the distribution on, a record
exists from the marker on); then `TellsTruth` and `FrozenUntilVerified` themselves.
`ConfigRestored` is inductive: whatever leaves the config broken outside the
validation notes it in `torn`.  `PostVerifyOnce` needs `Counted`: the flag of the call
tells how many runs there were.  The refinement maps the state file to the stage it
says (`Said`) and the world to the stage it has reached (`Stage`).  A step that stores
the file tells, and `TellsTruth` bounds what it can tell; a step of publish, reconcile or
verify makes, and `Released` says that the plan is frozen there; the marker and
the config move behind the record, which is `Placed`.  The branches of the plan decide
only which calls are refused, so every theorem holds for each set of plans.

Only model-checked: `ShipFinishes` (liveness).

## 7. Where code, comments and documentation disagree

`README.md` line 496 says that reconcile "skips already-consistent steps, and
retries only safe incomplete actions. Remote conflicts require human decision".
For an `initialize-default-branch` plan whose branch push failed, phase 1 of
reconcile compares `newBranchCommit` of the `set-default-branch` action with the
frozen commit before it looks at anything else; the branch does not exist yet,
so it throws REMOTE_CONFLICT.  No other party wrote, nothing conflicts, and the
missing push is never retried.  `saga_default_refused` shows the run,
and `RefusalsExplained` that no other plan and no other state has this trouble.  A new
publish of the same plan goes through, so nothing is lost but the recovery path.

`transaction.mjs` 1300 says of errors after the commit that the "RECOVERY_REQUIRED
protocol must NOT run — COMMITTED has no outgoing transitions, the target must
never be reported as needing rollback", and the test below it lets a flagged
convergence error out before the protocol.  But the error of a COMMITTED write that happened and was
reported as failed is not of that kind, and neither is that of a read of the
committed journal that fails right after.  Both reach `tryRecoveryProtocol`,
which leaves the journal alone and then writes a `RECOVERY_REQUIRED` marker beside
it.  `artifact_marker` shows the run.

`transaction-journal.mjs` 1385 describes the error of a failed convergence: "the
target WAS applied+verified", only the record is not in its final form.  In docs refresh that error
carries a recovery command, which `refresh-service.mjs` 598 takes for a sign that
the transaction did not go through, and it writes the old bytes back.  The
error the caller gets still says `targetApplied`, and so does the journal, which
is COMMITTED; the documents are as before.  `artifact_restored` shows the run.  Of
`artifacts apply`, which has no restore, the claim is proved (`TransactionAppliedAsTold`).

`05-evidence-and-errors.md` 270 says of DISTRIBUTED that commit, tag and push
succeeded and branch and tag are the pushed commit, and `README.md` 124 that the "tag
commitment guarantees version consistency".  The adapter compares the staged tree
with the branch tip (`distribute-git.mjs` 452) before it looks for the tag (465), and
pushes branch and tag one after the other (502, 509).  When the branch arrives and
the tag does not, every rerun finds the tree in place and reports NO_CHANGE, the
run ends DISTRIBUTED, and the tag is never pushed.  `distribution_untagged` shows it.

`01-state-machine.md` 83 forbids VERIFIED while there is a hook that neither succeeded
nor is exempt through `blocksVerified: false`.  The failure of an exempt hook stops
the chain (`distribute.mjs` 1844), the hooks behind it are recorded as skipped, and the
gate of verify takes a skipped checkpoint as passed (`verify.mjs` 1156).  So a lenient
hook that fails in front of a blocking one brings VERIFIED without the blocking one.
`distribution_lenient` shows it.

`ship.mjs` 451 says that re-running is safe and resumes, and `README.md` 141 names ship as a
way to consume a hook approval.  For a plan with postPublish targets or
distribute hooks, ship hands verify the distribute run (862), which verify refuses
by name (`verify.mjs` 1303).  The stored status then is one `advanceShip` has no block for
(DISTRIBUTED, NEEDS_INPUT, DISTRIBUTING), or PARTIAL with a PUBLISHED source, which
reconcile refuses (`reconcile.mjs` 330).  `ship_stuck` shows a release without a single
fault that no number of calls brings to VERIFIED.  The commands one by one do:
`distribute` and `verify --run` with the publish run.

Beside these, remarks that no run can show.  A failed transaction names
`release-skill artifacts recover`, which `commands/artifacts.mjs` 36 does not have
among its subcommands; and the journal states ROLLING_BACK, ROLLED_BACK and
RECOVERY_CONFLICT are declared and validated, but nothing ever enters them.
When the branch push of the only mirror lands and its tag push fails, the run
counts no success and says BLOCKED, although a write landed (`distribute.mjs` 1880).
A release that was reattached as PARTIAL or PUBLISHED has no source run in the ship
state, and ship only repeats its status (792, 815); publish or verify have to be
called by themselves.

Two more ends of ship, the ones `Stuck` names and `ShipFinishes` has to except (with
either of the two left out TLC finds it violated).  A call killed in publish after an advancing
branch was pushed leaves PUBLISHING; every later call publishes again (767), and
Gate 9b (`publish.mjs` 985) refuses since the branch is no longer the previous
baseline.  `reconcile` called by itself leads on, ship does not call it there.  And a
publish of an `initialize-default-branch` plan that ends PARTIAL before its branch is
there leaves what reconcile refuses each time (`reconcile.mjs` 793, the first
disagreement above), and from PARTIAL ship only reconciles (789).  The claim of `ship.mjs` 451
is meant for both; they stand here and in the property because the run `ship_stuck`
refutes it already.

The arbitration of the global preflight lets a failing action through when it is
consistent already, "to its SKIPPED path" (`publish.mjs` 1165).  For an advancing branch
that path is never taken: Gate 9b has refused the run before.

`baseline-advance.mjs` 73 says that "the advance must never corrupt the config", and 143
restores a text that fails its validation.  The write itself (136) truncates in place and
stands outside that `try`; when it fails half-way nothing restores, and verify notes the
error and goes on (`verify.mjs` 2568).  `ConfigRestored` names this case.

## 8. What is not modelled

Inside the saga: `push-commit` actions (prepare never plans them), marketplace
actions (always DEFERRED here), the local validation of tarballs and assets, the
text and digests of records, the delays between attempts, and the gates before
the first write that read nothing the plan writes (approval, plan digest, evidence of
prepare, source authority).  Bound baselines of units that do not advance their branch are
taken as unchanged; somebody who changes one only keeps commands from starting.
The approval and replacement gates belong to `PlanAuthority`, which leaves out plans that
a non-production prepare writes elsewhere (`--output`).

Inside the transaction: the validation of plan and journal schemas, the probe of
the filesystem backend, the temporary files below a rename (a rename happens or
does not), the bytes of the journal, and a refresh that finds nothing to do.
A tampered journal is not modelled: nobody but the transactions writes records.

Inside distribution: the gates before snapshot 0 (they leave no state), the detached
worktree, bundle and payload, what a hook, step or preset does outside, the
proposal inbox of presets, the validity window of an approval (wall-clock time), and
distributions of other plans to the same mirrors.  Those matter to people: an older
plan's distribute run after a newer one's puts the old content on top, since a
mirror has one branch.

Inside ship: the legacy status NEEDS_HOOK_AUTHORIZATION, the checks of unit scope and
target version, a changed config digest of a NEW state (it is stored and prepare
runs as before), the checklist a finished call prints, two ship processes on one
state file, and edits of `project.yaml` by somebody else during verify's baseline
step (a config that was changed before is advanced and not committed, which is
one of the failures of `Validate`).  Of verify, the adapter checks, consumer
gates and attestations before the record are one outcome.

Not at all, and why: rendering, producers, platforms, schemas and configuration
parsing (layout and text); snapshot export and scan, host observation and the
native filesystem backend (pure I/O); the read-only commands (assess, route,
lineage) and recovery hints (a table); the artifact algebra and three-way merge and
the hook cache (functions of contents and digests, without order or state); the
evidence stream (no modelled command decides by it).  The seven
`release-skill.bundle.mjs` files are generated from the code modelled here and make up
nine tenths of the lines of the repository; nothing in them is modelled on its own.

## 9. Plan

The five state machines in which an order of steps, a crash or another actor decides
are done, proofs included: `ReleaseSaga`, `PlanAuthority`, `ArtifactTransaction`,
`Distribution`, and `Ship` on top of them, each with an
abstract specification it implements.  What could follow, most useful first:

| module | about | properties |
|---|---|---|
| `EvidenceStream` | serialised appends and a seal, below all commands | nothing lost before the seal, nothing after it |
| `HookCache` | closure digest, read, write | a replayed success is of an identical closure |
| `ArtifactAlgebra` | classification and three-way merge as operators | agreement with a reference definition over keys and values of size 2 |
| `RecoveryHints` | state → action code as an operator | every failing state of the other modules maps to a command that is enabled there |

All safety and action properties of the passing runs, and the five refinements, are
proved (`RefusesOnlyOnConflict` for plans without a `set-default-branch` action, as the one
of `saga_recovers`); what a proof cannot reach here is the liveness of each component, whose
properties TLC checks under the fairness of section 5.
