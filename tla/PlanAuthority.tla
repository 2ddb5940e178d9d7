---------------------------- MODULE PlanAuthority ----------------------------
(***************************************************************************)
(* Frozen plans, their replacement, approvals and the first state of a     *)
(* publish: what prepare, approve and publish do to the files below        *)
(* .release-skill for one set of units and target versions, with the       *)
(* project lock they share and the audited break-lock.                     *)
(*                                                                         *)
(* A plan name stands for a candidate and for the formal plan frozen from  *)
(* it: both are addressed by digests of their content, and the candidate   *)
(* already holds the digest of the plan it replaces.  A plan frozen while  *)
(* the project declared no testIntake has no candidate.                    *)
(***************************************************************************)
EXTENDS Naturals, FiniteSets

CONSTANTS
    Commands,       \* invocations; each is one process and runs once
    Plans,          \* names of candidates and plans
    Breakers,       \* operators who run break-lock
    NoPlan,
    NoCommand,
    BreakableKinds, \* kinds whose lock is also broken while they are alive
    MaxCrashes      \* bound on crashes

ASSUME NamesAssumption == NoPlan \notin Plans /\ NoCommand \notin Commands

ASSUME CrashAssumption == MaxCrashes \in Nat

\* With testIntake declared, prepare saves a candidate and prepare --candidate
\* freezes a plan from it; without, prepare freezes directly.  The declaration
\* is in the configuration and may come and go between two commands.
Kinds == {"save", "freeze", "direct", "approve", "publish"}

ASSUME BreakableAssumption == BreakableKinds \subseteq Kinds

VARIABLES
    job,            \* job[c]: what command c was asked to do
    pc,             \* pc[c]: where it is
    lock,           \* the command whose record is in the lock file
    candidates,     \* candidates saved below runs/
    pred,           \* pred[p]: replacesPlanDigest of candidate p
    plans,          \* plans/<digest>.json
    approvals,      \* plans with an approval below approvals/<digest>/
    run,            \* run[c]: what the run directory of publish c shows
    inspected,      \* inspected[b]: the owner break-lock b has inspected
    crashes

vars == <<job, pc, lock, candidates, pred, plans, approvals, run, inspected,
          crashes>>

Job == [kind : Kinds, plan : Plans, pred : Plans \cup {NoPlan}]
Idle == [kind |-> "none", plan |-> NoPlan, pred |-> NoPlan]

\* Nothing; evidence of gates that passed so far; a sealed failure that proves
\* nothing was written; a failure or a dead process that does not prove it; a
\* run state.
RunFiles == {"none", "evidence", "proven", "unproven", "state"}

\* The points at which a command holds the lock as far as it knows.
Holding == {"deciding", "binding", "checking", "writing", "releasing"}

Points == {"idle", "opening", "gates", "locking", "open", "ended", "dead"}
              \cup Holding

(***************************************************************************)
(* What readers make of the plan files                                     *)
(***************************************************************************)
Replaced(p) == \E q \in plans : pred[q] = p

\* Every reader refuses a relation that is forked or misses a predecessor.
Lawful ==
    \A q \in plans : pred[q] # NoPlan =>
        /\ pred[q] \in plans
        /\ \A s \in plans : pred[s] = pred[q] => s = q

NotReplaced(p) == Lawful /\ ~Replaced(p)

\* Slip: only a sealed run counts, a state alone does not.
SealedOnly == \A c \in Commands : run[c] \in {"none", "proven", "state"}

\* A plan may be replaced when no run directory could hold a release of it.
HistoryClean == \A c \in Commands : run[c] \in {"none", "proven"}

\* bindReplacement: a candidate without predecessor is not even looked at, and
\* only a plan with a test acceptance is replaced.
Binds(q) ==
    q # NoPlan =>
        /\ q \in plans \cap candidates
        /\ NotReplaced(q)
        /\ HistoryClean

\* Slip: plans in force are looked for under the candidate's own subject.
SameSubject(p) == {q \in plans \cap {p} : ~Replaced(q)}

\* Plans in force for the same targets other than p and the one it replaces.
DifferentBasis(p) ==
    {q \in plans \ {p, pred[p]} : ~Replaced(q)}

Acceptable(p) ==
    /\ Lawful
    /\ DifferentBasis(p) = {}
    /\ p \notin plans
    /\ Binds(pred[p])

(***************************************************************************)
(* Initial states: what commands that ended before may have left, without  *)
(* any release yet: at most one plan, frozen either way, and candidates    *)
(* that replace it when it was tested.                                     *)
(***************************************************************************)
Init ==
    /\ job = [c \in Commands |-> Idle]
    /\ pc = [c \in Commands |-> "idle"]
    /\ lock = NoCommand
    /\ candidates \in SUBSET Plans
    /\ plans \in SUBSET Plans
    /\ \A p, q \in plans : p = q
    /\ pred \in [Plans -> (plans \cap candidates) \cup {NoPlan}]
    /\ \A p \in Plans : p \in plans \/ p \notin candidates => pred[p] = NoPlan
    /\ approvals \in SUBSET plans
    /\ run = [c \in Commands |-> "none"]
    /\ inspected = [b \in Breakers |-> NoCommand]
    /\ crashes = 0

Goto(c, point) == pc' = [pc EXCEPT ![c] = point]

\* What a publish that ends without a state leaves in its run directory.
LeaveUnproven(c) ==
    run' = [run EXCEPT ![c] = IF @ = "evidence" THEN "unproven" ELSE @]

(***************************************************************************)
(* Starting a command                                                      *)
(***************************************************************************)
Assign(c, kind, p, q) ==
    job' = [job EXCEPT ![c] = [kind |-> kind, plan |-> p, pred |-> q]]

\* Two saves differ in their run directory at least, so the name is fresh.
Fresh(p) ==
    p \notin candidates \cup plans /\ \A c \in Commands : job[c].plan # p

\* A plan frozen directly carries no acceptance, so its digest is no
\* candidate's; the same content prepared twice has one digest.
Direct(p) ==
    p \notin candidates /\ \A c \in Commands : job[c].kind = "save" => job[c].plan # p

\* Slip: approve takes a candidate for a plan.
AskedEarly(c) ==
    \/ \E p \in Plans, q \in Plans \cup {NoPlan} :
          Fresh(p) /\ q # p /\ Assign(c, "save", p, q)
    \/ \E p \in Plans : Direct(p) /\ Assign(c, "direct", p, NoPlan)
    \/ \E p \in candidates, kind \in {"freeze", "approve"} :
          Assign(c, kind, p, pred[p])

Asked(c) ==
    \/ \E p \in Plans, q \in Plans \cup {NoPlan} :
          Fresh(p) /\ q # p /\ Assign(c, "save", p, q)
    \/ \E p \in candidates : Assign(c, "freeze", p, pred[p])
    \/ \E p \in Plans : Direct(p) /\ Assign(c, "direct", p, NoPlan)
    \/ \E p \in plans : Assign(c, "approve", p, pred[p])

Begin(c) ==
    /\ pc[c] = "idle"
    /\ Asked(c)
    /\ Goto(c, "locking")
    /\ UNCHANGED <<lock, candidates, pred, plans, approvals, run, inspected,
                   crashes>>

\* publish looks at the plan before it holds the lock ...
BeginPublish(c) ==
    /\ pc[c] = "idle"
    /\ \E p \in plans : NotReplaced(p) /\ Assign(c, "publish", p, pred[p])
    /\ Goto(c, "opening")
    /\ UNCHANGED <<lock, candidates, pred, plans, approvals, run, inspected,
                   crashes>>

\* ... and then opens its run directory with the first event.
OpenRun(c) ==
    /\ pc[c] = "opening"
    /\ run' = [run EXCEPT ![c] = "evidence"]
    /\ Goto(c, "gates")
    /\ UNCHANGED <<job, lock, candidates, pred, plans, approvals, inspected,
                   crashes>>

PassGates(c) ==
    /\ pc[c] = "gates"
    /\ job[c].plan \in approvals
    /\ Goto(c, "locking")
    /\ UNCHANGED <<job, lock, candidates, pred, plans, approvals, run,
                   inspected, crashes>>

FailGates(c) ==
    /\ pc[c] = "gates"
    /\ \E left \in {"proven", "unproven"} : run' = [run EXCEPT ![c] = left]
    /\ Goto(c, "ended")
    /\ UNCHANGED <<job, lock, candidates, pred, plans, approvals, inspected,
                   crashes>>

(***************************************************************************)
(* The project lock                                                        *)
(***************************************************************************)
FirstPoint(kind) ==
    CASE kind = "freeze" -> "deciding"
      [] kind = "save" -> "binding"
      [] kind = "direct" -> "writing"
      [] OTHER -> "checking"

\* Slip: a held lock is taken over.
TakesOver(c) ==
    /\ pc[c] = "locking"
    /\ lock' = c
    /\ Goto(c, FirstPoint(job[c].kind))
    /\ UNCHANGED <<job, candidates, pred, plans, approvals, run, inspected,
                   crashes>>

Acquire(c) ==
    /\ pc[c] = "locking"
    /\ lock = NoCommand
    /\ lock' = c
    /\ Goto(c, FirstPoint(job[c].kind))
    /\ UNCHANGED <<job, candidates, pred, plans, approvals, run, inspected,
                   crashes>>

\* There is no waiting and no time limit: a held lock is an error.
FindLocked(c) ==
    /\ pc[c] = "locking"
    /\ lock # NoCommand
    /\ Goto(c, "ended")
    /\ LeaveUnproven(c)
    /\ UNCHANGED <<job, lock, candidates, pred, plans, approvals, inspected,
                   crashes>>

\* Only its owner's record is removed; otherwise release throws, and a
\* publish whose release throws does not go on to its remotes.
Release(c) ==
    /\ pc[c] = "releasing"
    /\ lock' = IF lock = c THEN NoCommand ELSE lock
    /\ Goto(c, IF lock = c /\ run[c] = "state" THEN "open" ELSE "ended")
    /\ UNCHANGED <<job, candidates, pred, plans, approvals, run, inspected,
                   crashes>>

\* break-lock compares the record it was given with the one on disk ...
Inspect(b) ==
    /\ inspected[b] = NoCommand
    /\ lock # NoCommand
    /\ pc[lock] = "dead" \/ job[lock].kind \in BreakableKinds
    /\ inspected' = [inspected EXCEPT ![b] = lock]
    /\ UNCHANGED <<job, pc, lock, candidates, pred, plans, approvals, run,
                   crashes>>

\* Slip: the lock file is removed whatever it holds by now.
RecoverAny(b) ==
    /\ inspected[b] # NoCommand
    /\ lock' = NoCommand
    /\ inspected' = [inspected EXCEPT ![b] = NoCommand]
    /\ UNCHANGED <<job, pc, candidates, pred, plans, approvals, run, crashes>>

\* ... writes its audit record, and removes that record and no other.
Recover(b) ==
    /\ inspected[b] # NoCommand
    /\ lock' = IF lock = inspected[b] THEN NoCommand ELSE lock
    /\ inspected' = [inspected EXCEPT ![b] = NoCommand]
    /\ UNCHANGED <<job, pc, candidates, pred, plans, approvals, run, crashes>>

(***************************************************************************)
(* Under the lock                                                          *)
(***************************************************************************)
\* decideTestCandidateHandoff: no other basis, not accepted before, binds.
Decide(c) ==
    /\ pc[c] = "deciding"
    /\ Acceptable(job[c].plan)
    /\ Goto(c, "binding")
    /\ UNCHANGED <<job, lock, candidates, pred, plans, approvals, run,
                   inspected, crashes>>

\* bindReplacement, once more right before the write.
Bind(c) ==
    /\ pc[c] = "binding"
    /\ Binds(job[c].pred)
    /\ Goto(c, "writing")
    /\ UNCHANGED <<job, lock, candidates, pred, plans, approvals, run,
                   inspected, crashes>>

\* Slip: the look at the plan before the lock is thought to be enough.
CheckedBefore(c) ==
    /\ pc[c] = "checking"
    /\ Goto(c, "writing")
    /\ UNCHANGED <<job, lock, candidates, pred, plans, approvals, run,
                   inspected, crashes>>

\* assertPlanNotReplaced of approve and publish.
Check(c) ==
    /\ pc[c] = "checking"
    /\ NotReplaced(job[c].plan)
    /\ Goto(c, "writing")
    /\ UNCHANGED <<job, lock, candidates, pred, plans, approvals, run,
                   inspected, crashes>>

\* Slip: an early return that skips the finally.
ReturnsEarly(c) ==
    /\ pc[c] \in Holding \ {"releasing"}
    /\ Goto(c, "ended")
    /\ LeaveUnproven(c)
    /\ UNCHANGED <<job, lock, candidates, pred, plans, approvals, inspected,
                   crashes>>

\* A check fails, test results are still missing, or a write is refused: the
\* command leaves through its finally.
Refuse(c) ==
    /\ pc[c] \in Holding \ {"releasing"}
    /\ Goto(c, "releasing")
    /\ LeaveUnproven(c)
    /\ UNCHANGED <<job, lock, candidates, pred, plans, approvals, inspected,
                   crashes>>

\* writeTestCandidate
Save(c) ==
    /\ job[c].kind = "save"
    /\ candidates' = candidates \cup {job[c].plan}
    /\ pred' = [pred EXCEPT ![job[c].plan] = job[c].pred]
    /\ UNCHANGED <<plans, approvals, run>>

\* writePlanImmutable
Freeze(c) ==
    /\ job[c].kind = "freeze"
    /\ plans' = plans \cup {job[c].plan}
    /\ UNCHANGED <<candidates, pred, approvals, run>>

\* writePlanImmutable of a prepare without testIntake: no other plan is looked
\* at, none is replaced, and a plan with the same digest is taken as it is.
FreezeDirectly(c) ==
    /\ job[c].kind = "direct"
    /\ plans' = plans \cup {job[c].plan}
    /\ UNCHANGED <<candidates, pred, approvals, run>>

Approve(c) ==
    /\ job[c].kind = "approve"
    /\ approvals' = approvals \cup {job[c].plan}
    /\ UNCHANGED <<candidates, pred, plans, run>>

\* appendRunState of state 0
FirstState(c) ==
    /\ job[c].kind = "publish"
    /\ run' = [run EXCEPT ![c] = "state"]
    /\ UNCHANGED <<candidates, pred, plans, approvals>>

Write(c) ==
    /\ pc[c] = "writing"
    /\ Save(c) \/ Freeze(c) \/ FreezeDirectly(c) \/ Approve(c) \/ FirstState(c)
    /\ Goto(c, "releasing")
    /\ UNCHANGED <<job, lock, inspected, crashes>>

\* A process dies; the lock file and everything it wrote stay.
Crash(c) ==
    /\ crashes < MaxCrashes
    /\ pc[c] \notin {"idle", "open", "ended", "dead"}
    /\ Goto(c, "dead")
    /\ crashes' = crashes + 1
    /\ UNCHANGED <<job, lock, candidates, pred, plans, approvals, run,
                   inspected>>

Step(c) ==
    \/ OpenRun(c) \/ PassGates(c) \/ FailGates(c)
    \/ Acquire(c) \/ FindLocked(c) \/ Release(c)
    \/ Decide(c) \/ Bind(c) \/ Check(c) \/ Refuse(c) \/ Write(c)

Next ==
    \/ \E c \in Commands : Begin(c) \/ BeginPublish(c) \/ Step(c) \/ Crash(c)
    \/ \E b \in Breakers : Inspect(b) \/ Recover(b)

Spec == Init /\ [][Next]_vars

\* A process that was started runs on; nothing else is fair.
FairSpec == Spec /\ \A c \in Commands : WF_vars(Step(c))

(***************************************************************************)
(* Properties                                                              *)
(***************************************************************************)
\* The type invariant.
TypeOK ==
    /\ job \in [Commands -> Job \cup {Idle}]
    /\ pc \in [Commands -> Points]
    /\ lock \in Commands \cup {NoCommand}
    /\ candidates \subseteq Plans
    /\ pred \in [Plans -> Plans \cup {NoPlan}]
    /\ plans \subseteq Plans
    /\ approvals \subseteq plans
    /\ run \in [Commands -> RunFiles]
    /\ inspected \in [Breakers -> Commands \cup {NoCommand}]
    /\ crashes \in 0 .. MaxCrashes

\* No two processes are between acquire and release: a break-lock that comes
\* late, after the dead owner's record was removed by another and the lock
\* taken again, must not remove the new owner's record.
Exclusive ==
    \A c, d \in Commands : pc[c] \in Holding /\ pc[d] \in Holding => c = d

\* A plan with a run state is not replaced, neither before nor after: publish
\* checks its plan, opens its run directory and runs its gates without the
\* lock, while a freeze that has read the history waits to write.
ReleasedNotReplaced ==
    \A c \in Commands : run[c] = "state" => ~Replaced(job[c].plan)

\* Of the plans for one target that were frozen from a candidate at most one is
\* in force, the relation between all plans is one every reader accepts, and a
\* plan frozen directly is never replaced: candidates saved against the same
\* predecessor, or against none, are not frozen side by side.  While testIntake
\* stays declared these are all the plans; nothing keeps two prepares without
\* it from freezing two plans for one target.
OneInForce ==
    /\ Lawful
    /\ \A p, q \in plans \cap candidates : ~Replaced(p) /\ ~Replaced(q) => p = q
    /\ \A p \in plans \ candidates : ~Replaced(p)

\* No approval is written for a plan that is replaced by then.
ApprovesInForce ==
    [][\A p \in approvals' \ approvals : ~Replaced(p)]_vars

\* The files implement the abstract lineage.
InForce == {p \in plans \cap candidates : ~Replaced(p)}

Current == IF InForce = {} THEN NoPlan ELSE CHOOSE p \in InForce : TRUE

Retired == {p \in plans : Replaced(p)}

Released == {job[c].plan : c \in {d \in Commands : run[d] = "state"}}

Untested == plans \ candidates

Lineage == INSTANCE PlanLineage WITH
    current <- Current, untested <- Untested, retired <- Retired,
    released <- Released

\* The commands together keep the promise of PlanLineage: a plan is given up
\* only for its tested successor, for good, and never once it is released, and
\* a tested plan comes into force beside no other plan.
ImplementsLineage == Lineage!Spec

\* A command that is not killed gives the lock back, whatever check, gate or
\* write fails on its way.
LockComesFree ==
    \A c \in Commands : lock = c ~> (lock # c \/ pc[c] = "dead")
=============================================================================
