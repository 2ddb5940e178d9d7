------------------------- MODULE ReleaseSagaProofs -------------------------
(***************************************************************************)
(* Type correctness of ReleaseSaga, for every plan, every number of runs   *)
(* and every bound on faults and on third-party writes; and what one step  *)
(* changes and leaves alone: the actions restated for the run that takes   *)
(* them, without EXCEPT, so that the invariance proofs need not open the   *)
(* actions again.                                                          *)
(***************************************************************************)
EXTENDS ReleaseSaga, TLAPS

USE DEF Settled, Done, CpStatus, BranchTypes

-----------------------------------------------------------------------------
(* What the operators the actions share return.                            *)

Views == {"match", "missing", "pre", "conflict", "unobservable"}

LEMMA ViewType == ASSUME NEW a PROVE View(a) \in Views
  BY DEF View, PushView, DefaultBranchView, ReleaseView, Views

\* A read yields one of the five classes and stays within the fault budget.
LEMMA ReadsType ==
  ASSUME TypeOK, NEW a \in Actions, NEW read \in Reads(a)
  PROVE  /\ read.view \in Views
         /\ faults + read.cost \in 0..MaxFaults
  <1> USE BoundAssumption, ViewType DEF TypeOK, Reads, Views
  <1>1. CASE read = [view |-> View(a), cost |-> 0]
    BY <1>1
  <1>2. CASE /\ faults # MaxFaults
             /\ read = [view |-> "unobservable", cost |-> 1]
    BY <1>2
  <1>3. CASE /\ faults # MaxFaults
             /\ read = [view |-> "missing", cost |-> 1]
    BY <1>3
  <1> QED BY <1>1, <1>2, <1>3

LEMMA EffectsType ==
  ASSUME TypeOK, NEW a \in Actions, NEW op, NEW effect \in Effects(a, op)
  PROVE  /\ effect.value \in RemoteValues
         /\ effect.ok \in BOOLEAN
         /\ faults + effect.cost \in 0..MaxFaults
  <1> DEFINE accepted == [value |-> "planned", ok |-> TRUE, cost |-> 0]
             rejected == [value |-> remote[a], ok |-> FALSE, cost |-> 0]
             cutShort == [value |-> "partial", ok |-> FALSE, cost |-> 1]
  <1> USE BoundAssumption DEF TypeOK, RemoteValues
  <1>1. \/ effect = accepted
        \/ effect = rejected
        \/ effect = cutShort /\ faults < MaxFaults
    BY DEF Effects
  <1>2. CASE effect = accepted BY <1>2
  <1>3. CASE effect = rejected BY <1>3
  <1>4. CASE effect = cutShort /\ faults < MaxFaults BY <1>4
  <1> QED BY <1>1, <1>2, <1>3, <1>4

-----------------------------------------------------------------------------
(* Type correctness.                                                       *)

LEMMA InitType == Init => TypeOK
  BY BoundAssumption, PlanAssumption
  DEF Init, TypeOK, Pending, Controls, Ended, LocalSteps, Snapshot, NoRun, RunStatus,
      RemoteValues, Initial

\* A snapshot of typed checkpoints extends a typed journal.
LEMMA AppendType ==
  ASSUME TypeOK, NEW r \in Runs, NEW status \in RunStatus,
         NEW c \in [Actions -> CpStatus], AppendState(r, status, c)
  PROVE  journal' \in [Runs -> Seq(Snapshot)]
  <1> DEFINE snapshot == [status |-> status, cp |-> c]
  <1>1. snapshot \in Snapshot
    BY DEF Snapshot
  <1>2. Append(journal[r], snapshot) \in Seq(Snapshot)
    BY <1>1 DEF TypeOK
  <1> QED BY <1>2 DEF AppendState, TypeOK

LEMMA PublishType ==
  ASSUME TypeOK, NEW r \in Runs, StartPublish(r) \/ PersistFirst(r) \/ StartTier(r)
  PROVE  TypeOK'
  <1> USE DEF durable, world, history
  <1>1. CASE StartPublish(r)
    BY <1>1 DEF StartPublish, TypeOK, Controls
  <1>2. CASE PersistFirst(r)
    <2>1. journal' \in [Runs -> Seq(Snapshot)]
      BY <1>2, AppendType DEF PersistFirst, TypeOK, RunStatus
    <2> QED BY <1>2, <2>1 DEF PersistFirst, TypeOK, Controls
  <1>3. CASE StartTier(r)
    <2> DEFINE tier == TierOf({a \in Actions : cp[r][a] = "pending"})
               cps  == Marked(cp[r], tier)
    <2>1. cps \in [Actions -> CpStatus]
      BY DEF Marked, TypeOK
    <2> HIDE DEF cps
    <2>2. /\ AppendState(r, "PARTIAL", cps)
          /\ cp' = [cp EXCEPT ![r] = cps]
          /\ \E S : local' = [local EXCEPT ![r] =
                       [a \in Actions |-> IF a \in S THEN "preobserve" ELSE "idle"]]
          /\ pc' = [pc EXCEPT ![r] = "run"]
          /\ UNCHANGED <<cmd, todo, retry, src, runFile, world, history>>
      BY <1>3 DEF StartTier, cps
    <2>3. journal' \in [Runs -> Seq(Snapshot)]
      BY <2>1, <2>2, AppendType DEF RunStatus
    <2>4. local' \in [Runs -> [Actions -> LocalSteps]]
      BY <2>2 DEF TypeOK, LocalSteps
    <2> QED BY <1>3, <2>1, <2>2, <2>3, <2>4 DEF TypeOK, Controls
  <1> QED BY <1>1, <1>2, <1>3

LEMMA OutcomeType ==
  ASSUME NEW reply, NEW view PROVE Outcome(reply, view) \in {"succeeded", "failed", "uncertain"}
  BY DEF Outcome

LEMMA StatusType ==
  ASSUME NEW command, NEW c
  PROVE  OverallStatus(command, c) \in {"PUBLISHING", "PARTIAL", "PUBLISHED"}
  BY DEF OverallStatus

LEMMA DriftType ==
  ASSUME TypeOK, NEW r \in Runs, NEW S, Fresh(r, S)
  PROVE  drift' \in [Runs -> SUBSET Actions]
  BY DEF Fresh, TypeOK

LEMMA StepType ==
  ASSUME TypeOK, NEW r \in Runs, NEW a \in Actions, NEW next \in LocalSteps, Step(r, a, next)
  PROVE  local' \in [Runs -> [Actions -> LocalSteps]]
  BY DEF Step, TypeOK

\* executeCheckpoint, both commands' parts of it.
LEMMA ExecuteType ==
  ASSUME TypeOK, NEW r \in Runs, NEW a \in Actions,
         PreObserve(r, a) \/ Preflight(r, a) \/ Send(r, a) \/ PublishObserve(r, a)
  PROVE  TypeOK'
  <1> USE BoundAssumption DEF durable, world, history
  <1>1. CASE PreObserve(r, a)
    <2>1. PICK read \in Reads(a) :
            /\ \E next \in {"skipped", "failed", "preflight"} : Step(r, a, next)
            /\ Saw(r, a, read.view)
            /\ faults' = faults + read.cost
      BY <1>1 DEF PreObserve
    <2>2. local' \in [Runs -> [Actions -> LocalSteps]]
      BY <2>1, StepType DEF LocalSteps
    <2>3. drift' \in [Runs -> SUBSET Actions] /\ faults' \in 0..MaxFaults
      BY <2>1, DriftType, ReadsType DEF Saw
    <2> QED BY <1>1, <2>2, <2>3 DEF PreObserve, TypeOK
  <1>2. CASE Preflight(r, a)
    <2>1. \E next \in {"execute", "failed"} : Step(r, a, next)
      BY <1>2 DEF Preflight
    <2>2. local' \in [Runs -> [Actions -> LocalSteps]]
      BY <2>1, StepType DEF LocalSteps
    <2> QED BY <1>2, <2>2 DEF Preflight, TypeOK
  <1>3. CASE Send(r, a)
    <2>1. \E next \in {"waiting", "executed", "errored"} : Step(r, a, next)
      BY <1>3 DEF Send
    <2>2. \/ UNCHANGED <<inflight, sent>>
          \/ /\ Attempt(a) \in {"write", "upload"}
             /\ inflight' = inflight \cup {[run |-> r, action |-> a, op |-> Attempt(a)]}
             /\ sent' = [sent EXCEPT ![r] = @ \cup {a}]
      BY <1>3 DEF Send
    <2>3. local' \in [Runs -> [Actions -> LocalSteps]]
      BY <2>1, StepType DEF LocalSteps
    <2>4. inflight' \subseteq Request
      BY <2>2 DEF TypeOK, Request
    <2>5. sent' \in [Runs -> SUBSET Actions]
      BY <2>2 DEF TypeOK
    <2>6. UNCHANGED <<cmd, pc, cp, todo, retry, src, durable, remote, faults, tampers,
                      drift, planned>>
      BY <1>3 DEF Send
    <2> QED BY <2>3, <2>4, <2>5, <2>6 DEF TypeOK
  <1>4. CASE PublishObserve(r, a)
    <2>1. PICK read \in Reads(a) :
            /\ Step(r, a, Outcome(local[r][a], read.view))
            /\ Saw(r, a, read.view)
            /\ faults' = faults + read.cost
      BY <1>4 DEF PublishObserve
    <2>2. local' \in [Runs -> [Actions -> LocalSteps]]
      BY <2>1, StepType, OutcomeType DEF LocalSteps
    <2>3. drift' \in [Runs -> SUBSET Actions] /\ faults' \in 0..MaxFaults
      BY <2>1, DriftType, ReadsType DEF Saw
    <2> QED BY <1>4, <2>2, <2>3 DEF PublishObserve, TypeOK
  <1> QED BY <1>1, <1>2, <1>3, <1>4

LEMMA SettleType ==
  ASSUME TypeOK, NEW r \in Runs, SettleTier(r)
  PROVE  TypeOK'
  <1> USE DEF durable, world, history
  <1> DEFINE cps == [a \in Actions |-> IF local[r][a] \in Settled THEN local[r][a] ELSE cp[r][a]]
  <1>1. cps \in [Actions -> CpStatus]
    BY DEF TypeOK
  <1> HIDE DEF cps
  <1>2. /\ cp' = [cp EXCEPT ![r] = cps]
        /\ AppendState(r, "PARTIAL", cps)
        /\ \E p \in {"append", "check", "tier"} : pc' = [pc EXCEPT ![r] = p]
        /\ StartCheck(r) \/ UNCHANGED <<todo, drift>>
        /\ local' = [local EXCEPT ![r] = [a \in Actions |-> "idle"]]
        /\ UNCHANGED <<cmd, retry, src, runFile, world, sent, planned>>
    BY DEF SettleTier, cps
  <1>3. journal' \in [Runs -> Seq(Snapshot)]
    BY <1>1, <1>2, AppendType DEF RunStatus
  <1>4. local' \in [Runs -> [Actions -> LocalSteps]]
    BY <1>2 DEF TypeOK, LocalSteps
  <1>5. todo' \in [Runs -> SUBSET Actions] /\ drift' \in [Runs -> SUBSET Actions]
    <2>1. CASE StartCheck(r)
      BY <2>1, DriftType DEF StartCheck, BranchActions, TypeOK
    <2>2. CASE UNCHANGED <<todo, drift>>
      BY <2>2 DEF TypeOK
    <2> QED BY <1>2, <2>1, <2>2
  <1> QED BY <1>1, <1>2, <1>3, <1>4, <1>5 DEF TypeOK, Controls

\* The remote's side of a request.
LEMMA RequestType ==
  ASSUME TypeOK, NEW req \in inflight, Apply(req) \/ LoseAnswer(req)
  PROVE  TypeOK'
  <1> USE BoundAssumption DEF durable, world, history, Step
  <1>1. req.run \in Runs /\ req.action \in Actions
    BY DEF TypeOK, Request
  <1>2. CASE Apply(req)
    <2>1. PICK effect \in Effects(req.action, req.op) :
            /\ remote' = [remote EXCEPT ![req.action] = effect.value]
            /\ planned' = IF effect.value = "planned" THEN planned \cup {req.action} ELSE planned
            /\ local' = IF local[req.run][req.action] = "waiting"
                        THEN [local EXCEPT ![req.run][req.action] =
                                IF effect.ok THEN "executed" ELSE "errored"]
                        ELSE local
            /\ faults' = faults + effect.cost
      BY <1>2 DEF Apply
    <2>2. remote' \in [Actions -> RemoteValues] /\ faults' \in 0..MaxFaults
      BY <1>1, <2>1, EffectsType DEF TypeOK
    <2>3. local' \in [Runs -> [Actions -> LocalSteps]]
      BY <1>1, <2>1 DEF TypeOK, LocalSteps
    <2>4. planned' \subseteq Actions /\ inflight' \subseteq Request
      BY <1>1, <1>2, <2>1 DEF Apply, TypeOK
    <2> QED BY <1>2, <2>2, <2>3, <2>4 DEF Apply, TypeOK
  <1>3. CASE LoseAnswer(req)
    <2>1. local' \in [Runs -> [Actions -> LocalSteps]]
      BY <1>1, <1>3 DEF LoseAnswer, TypeOK, LocalSteps
    <2> QED BY <1>3, <2>1 DEF LoseAnswer, TypeOK
  <1> QED BY <1>2, <1>3

\* One checkpoint of one run is overwritten.
LEMMA CheckpointType ==
  ASSUME TypeOK, NEW r \in Runs, NEW a \in Actions, NEW s \in CpStatus,
         cp' = [cp EXCEPT ![r][a] = s]
  PROVE  cp' \in [Runs -> [Actions -> CpStatus]]
  BY DEF TypeOK

LEMMA ScanType ==
  ASSUME TypeOK, NEW r \in Runs, StartReconcile(r) \/ Scan(r)
  PROVE  TypeOK'
  <1> USE DEF durable, world, history
  <1>1. CASE StartReconcile(r)
    <2>1. PICK q \in Runs : \E authority \in Authorities(q) :
            src' = [src EXCEPT ![r] = authority]
      BY <1>1 DEF StartReconcile
    <2>2. Authorities(q) \subseteq Snapshot
      BY DEF TypeOK, Authorities
    <2>3. src' \in [Runs -> Snapshot]
      BY <2>1, <2>2 DEF TypeOK
    <2> QED BY <1>1, <2>3 DEF StartReconcile, TypeOK, Controls
  <1>2. CASE Scan(r)
    <2>1. PICK a \in todo[r] : \E read \in Reads(a) :
            /\ \/ UNCHANGED cp
               \/ \E s \in {"succeeded", "skipped"} : cp' = [cp EXCEPT ![r][a] = s]
            /\ UNCHANGED retry \/ retry' = [retry EXCEPT ![r] = @ \cup {a}]
            /\ \E rest \in SUBSET todo[r] : todo' = [todo EXCEPT ![r] = rest]
            /\ \E p \in {"refused", "preflight", "scan"} : pc' = [pc EXCEPT ![r] = p]
            /\ Saw(r, a, read.view)
            /\ faults' = faults + read.cost
      BY <1>2 DEF Scan
    <2>2. a \in Actions
      BY DEF TypeOK
    <2>3. cp' \in [Runs -> [Actions -> CpStatus]]
      <3>1. CASE UNCHANGED cp
        BY <3>1 DEF TypeOK
      <3> QED BY <2>1, <2>2, <3>1, CheckpointType
    <2>4. retry' \in [Runs -> SUBSET Actions]
      <3>1. CASE UNCHANGED retry
        BY <3>1 DEF TypeOK
      <3>2. CASE retry' = [retry EXCEPT ![r] = @ \cup {a}]
        BY <2>2, <3>2 DEF TypeOK
      <3> QED BY <2>1, <3>1, <3>2
    <2>5. todo' \in [Runs -> SUBSET Actions]
      BY <2>1 DEF TypeOK
    <2>6. pc' \in [Runs -> Controls]
      BY <2>1 DEF TypeOK, Controls, Ended
    <2>7. drift' \in [Runs -> SUBSET Actions] /\ faults' \in 0..MaxFaults
      BY <2>1, <2>2, DriftType, ReadsType DEF Saw
    <2> QED BY <1>2, <2>3, <2>4, <2>5, <2>6, <2>7 DEF Scan, TypeOK
  <1> QED BY <1>1, <1>2

LEMMA PreflightRetriesType ==
  ASSUME TypeOK, NEW r \in Runs, PreflightRetries(r)
  PROVE  TypeOK'
  <1> USE BoundAssumption DEF durable, world, history
  <1> DEFINE cps == [a \in Actions |-> IF a \in retry[r] THEN "failed" ELSE cp[r][a]]
  <1>1. cps \in [Actions -> CpStatus]
    BY DEF TypeOK
  <1> HIDE DEF cps
  <1>2. /\ UNCHANGED <<cmd, local, retry, src, runFile, remote, inflight, tampers, sent, planned>>
        /\ \E p \in {"check", "retry", "append"} : pc' = [pc EXCEPT ![r] = p]
        /\ UNCHANGED cp \/ cp' = [cp EXCEPT ![r] = cps]
        /\ StartCheck(r) \/ UNCHANGED <<todo, drift>>
        /\ UNCHANGED journal \/ AppendState(r, "PUBLISHING", cp[r])
        /\ UNCHANGED faults \/ (faults < MaxFaults /\ faults' = faults + 1)
    <2>1. CASE retry[r] = {}
      BY <2>1 DEF PreflightRetries
    <2>2. CASE retry[r] # {}
      BY <2>2 DEF PreflightRetries, cps
    <2> QED BY <2>1, <2>2
  <1>3. cp' \in [Runs -> [Actions -> CpStatus]]
    BY <1>1, <1>2 DEF TypeOK
  <1>4. journal' \in [Runs -> Seq(Snapshot)]
    <2>1. cp[r] \in [Actions -> CpStatus] /\ "PUBLISHING" \in RunStatus
      BY DEF TypeOK, RunStatus
    <2> QED BY <1>2, <2>1, AppendType DEF TypeOK
  <1>5. todo' \in [Runs -> SUBSET Actions] /\ drift' \in [Runs -> SUBSET Actions]
    <2>1. CASE StartCheck(r)
      BY <2>1, DriftType DEF StartCheck, BranchActions, TypeOK
    <2>2. CASE UNCHANGED <<todo, drift>>
      BY <2>2 DEF TypeOK
    <2> QED BY <1>2, <2>1, <2>2
  <1>6. pc' \in [Runs -> Controls] /\ faults' \in 0..MaxFaults
    BY <1>2 DEF TypeOK, Controls
  <1> QED BY <1>2, <1>3, <1>4, <1>5, <1>6 DEF TypeOK

LEMMA RetryType ==
  ASSUME TypeOK, NEW r \in Runs,
         StartRetry(r) \/ \E a \in Actions : RetryObserve(r, a)
  PROVE  TypeOK'
  <1> USE DEF durable, world, history
  <1>1. CASE StartRetry(r)
    <2>1. PICK a \in retry[r] :
            /\ cp' = [cp EXCEPT ![r] = [cp[r] EXCEPT ![a] = "uncertain"]]
            /\ AppendState(r, "PARTIAL", [cp[r] EXCEPT ![a] = "uncertain"])
            /\ Step(r, a, "execute")
      BY <1>1 DEF StartRetry
    <2>2. [cp[r] EXCEPT ![a] = "uncertain"] \in [Actions -> CpStatus] /\ a \in Actions
      BY DEF TypeOK
    <2>3. journal' \in [Runs -> Seq(Snapshot)]
      BY <2>1, <2>2, AppendType DEF RunStatus
    <2>4. local' \in [Runs -> [Actions -> LocalSteps]]
      BY <2>1, <2>2, StepType DEF LocalSteps
    <2>5. cp' \in [Runs -> [Actions -> CpStatus]]
      BY <2>1, <2>2 DEF TypeOK
    <2> QED BY <1>1, <2>3, <2>4, <2>5 DEF StartRetry, TypeOK, Controls
  <1>2. ASSUME NEW a \in Actions, RetryObserve(r, a)
        PROVE  TypeOK'
    <2>1. PICK read \in Reads(a) :
            LET cps == [cp[r] EXCEPT ![a] = Outcome(local[r][a], read.view)]
            IN  /\ cp' = [cp EXCEPT ![r] = cps]
                /\ AppendState(r, "PARTIAL", cps)
                /\ Step(r, a, "idle")
                /\ \E p \in {"append", "check", "retry"} : pc' = [pc EXCEPT ![r] = p]
                /\ \E S \in {BranchActions, {}} : todo' = [todo EXCEPT ![r] = S]
                /\ \E S : Fresh(r, S)
                /\ faults' = faults + read.cost
      BY <1>2 DEF RetryObserve
    <2> DEFINE cps == [cp[r] EXCEPT ![a] = Outcome(local[r][a], read.view)]
    <2>2. cps \in [Actions -> CpStatus]
      BY OutcomeType DEF TypeOK
    <2>3. journal' \in [Runs -> Seq(Snapshot)]
      BY <2>1, <2>2, AppendType DEF RunStatus
    <2>4. local' \in [Runs -> [Actions -> LocalSteps]]
      BY <2>1, StepType DEF LocalSteps
    <2>5. cp' \in [Runs -> [Actions -> CpStatus]]
      BY <2>1, <2>2 DEF TypeOK
    <2>6. pc' \in [Runs -> Controls] /\ todo' \in [Runs -> SUBSET Actions]
      BY <2>1 DEF TypeOK, Controls, BranchActions
    <2>7. drift' \in [Runs -> SUBSET Actions] /\ faults' \in 0..MaxFaults
      BY <2>1, DriftType, ReadsType
    <2> QED BY <1>2, <2>3, <2>4, <2>5, <2>6, <2>7 DEF RetryObserve, TypeOK
  <1> QED BY <1>1, <1>2

LEMMA FinishType ==
  ASSUME TypeOK, NEW r \in Runs, CheckBranches(r) \/ AppendFinal(r) \/ WriteRun(r)
  PROVE  TypeOK'
  <1> USE DEF durable, world, history
  <1>1. CASE CheckBranches(r)
    <2>1. CASE UNCHANGED <<cp, todo, faults, drift>>
      BY <1>1, <2>1 DEF CheckBranches, TypeOK, Controls
    <2>2. CASE ~ UNCHANGED <<cp, todo, faults, drift>>
      <3>1. PICK a \in todo[r] : \E read \in Reads(a) :
              /\ \E rest \in SUBSET todo[r] : todo' = [todo EXCEPT ![r] = rest]
              /\ \/ UNCHANGED cp
                 \/ \E s \in {"uncertain", "failed"} : cp' = [cp EXCEPT ![r][a] = s]
              /\ UNCHANGED pc \/ pc' = [pc EXCEPT ![r] = "append"]
              /\ Saw(r, a, read.view)
              /\ faults' = faults + read.cost
        BY <1>1, <2>2 DEF CheckBranches
      <3>2. a \in Actions
        BY DEF TypeOK
      <3>3. cp' \in [Runs -> [Actions -> CpStatus]]
        <4>1. CASE UNCHANGED cp
          BY <4>1 DEF TypeOK
        <4> QED BY <3>1, <3>2, <4>1, CheckpointType
      <3>4. todo' \in [Runs -> SUBSET Actions]
        BY <3>1 DEF TypeOK
      <3>5. pc' \in [Runs -> Controls]
        <4>1. CASE UNCHANGED pc
          BY <4>1 DEF TypeOK
        <4>2. CASE pc' = [pc EXCEPT ![r] = "append"]
          BY <4>2 DEF TypeOK, Controls
        <4> QED BY <3>1, <4>1, <4>2
      <3>6. drift' \in [Runs -> SUBSET Actions] /\ faults' \in 0..MaxFaults
        BY <3>1, <3>2, DriftType, ReadsType DEF Saw
      <3> QED BY <1>1, <3>3, <3>4, <3>5, <3>6 DEF CheckBranches, TypeOK
    <2> QED BY <2>1, <2>2
  <1>2. CASE AppendFinal(r)
    <2>1. journal' \in [Runs -> Seq(Snapshot)]
      <3>1. OverallStatus(cmd[r], cp[r]) \in RunStatus /\ cp[r] \in [Actions -> CpStatus]
        BY StatusType DEF RunStatus, TypeOK
      <3>2. UNCHANGED journal \/ AppendState(r, OverallStatus(cmd[r], cp[r]), cp[r])
        BY <1>2 DEF AppendFinal
      <3> QED BY <3>1, <3>2, AppendType DEF TypeOK
    <2> QED BY <1>2, <2>1 DEF AppendFinal, TypeOK, Controls
  <1>3. CASE WriteRun(r)
    <2>1. [status |-> OverallStatus(cmd[r], cp[r]), cp |-> cp[r]] \in Snapshot
      BY StatusType DEF Snapshot, RunStatus, TypeOK
    <2>2. runFile' \in [Runs -> Snapshot]
      BY <1>3, <2>1 DEF WriteRun, TypeOK
    <2> QED BY <1>3, <2>2 DEF WriteRun, TypeOK, Controls, Ended
  <1> QED BY <1>1, <1>2, <1>3

LEMMA EnvironmentType ==
  ASSUME TypeOK, (\E r \in Runs : Crash(r)) \/ \E a \in Actions : Tamper(a)
  PROVE  TypeOK'
  <1> USE BoundAssumption DEF memory, durable, world, history
  <1>1. ASSUME NEW r \in Runs, Crash(r)
        PROVE  TypeOK'
    BY <1>1 DEF Crash, TypeOK, Controls, Ended, Pending, LocalSteps
  <1>2. ASSUME NEW a \in Actions, Tamper(a)
        PROVE  TypeOK'
    <2>1. remote' \in [Actions -> RemoteValues]
      BY <1>2 DEF Tamper, TamperValues, TypeOK, RemoteValues
    <2> QED BY <1>2, <2>1 DEF Tamper, TypeOK
  <1> QED BY <1>1, <1>2

\* Every state is well typed: in particular a checkpoint only ever takes one of
\* the five persisted statuses (buildPersistedState) and the fault budget is kept.
THEOREM TypeCorrect == Spec => []TypeOK
  <1>1. TypeOK /\ [Next]_vars => TypeOK'
    <2> SUFFICES ASSUME TypeOK, [Next]_vars PROVE TypeOK'
      OBVIOUS
    <2>1. CASE UNCHANGED vars
      BY <2>1 DEF vars, memory, durable, world, history, TypeOK
    <2>2. ASSUME NEW r \in Runs, StartPublish(r) \/ StartReconcile(r) \/ RunStep(r)
          PROVE  TypeOK'
      BY <2>2, PublishType, ScanType, SettleType, PreflightRetriesType, RetryType,
         FinishType, ExecuteType DEF RunStep
    <2>3. ASSUME NEW req \in inflight, Apply(req) \/ LoseAnswer(req)
          PROVE  TypeOK'
      BY <2>3, RequestType
    <2> QED BY <2>1, <2>2, <2>3, EnvironmentType DEF Next
  <1> QED BY <1>1, InitType, PTL DEF Spec

-----------------------------------------------------------------------------
(* Frames: what a step leaves alone.                                       *)

Busy(r, a) == local[r][a] # "idle"

\* Every step a command takes on its own.
OwnStep(r) == StartPublish(r) \/ StartReconcile(r) \/ RunStep(r) \/ Crash(r)

SameControl(q) ==
    /\ cmd'[q] = cmd[q] /\ pc'[q] = pc[q] /\ cp'[q] = cp[q] /\ todo'[q] = todo[q]
    /\ retry'[q] = retry[q] /\ src'[q] = src[q] /\ journal'[q] = journal[q]
    /\ runFile'[q] = runFile[q]

Untouched(q) ==
    /\ SameControl(q)
    /\ local'[q] = local[q] /\ sent'[q] = sent[q] /\ drift'[q] = drift[q]

\* A command changes nothing of another run.
LEMMA OthersUntouched ==
  ASSUME TypeOK, NEW r \in Runs, OwnStep(r), NEW q \in Runs, q # r
  PROVE  Untouched(q)
  <1> USE DEF TypeOK, Untouched, SameControl, durable, world, history, Step, AppendState, Fresh, Saw,
              StartCheck
  <1>1. CASE StartPublish(r) \/ PersistFirst(r) \/ AppendFinal(r) \/ WriteRun(r) \/ Crash(r)
    BY <1>1 DEF StartPublish, PersistFirst, AppendFinal, WriteRun, Crash
  <1>2. CASE StartTier(r)
    BY <1>2 DEF StartTier
  <1>3. CASE SettleTier(r)
    BY <1>3 DEF SettleTier
  <1>4. CASE StartReconcile(r)
    BY <1>4 DEF StartReconcile
  <1>5. CASE Scan(r)
    BY <1>5 DEF Scan
  <1>6. CASE PreflightRetries(r)
    BY <1>6 DEF PreflightRetries
  <1>7. CASE StartRetry(r)
    BY <1>7 DEF StartRetry
  <1>8. CASE CheckBranches(r)
    BY <1>8 DEF CheckBranches
  <1>9. ASSUME NEW a \in Actions, PreObserve(r, a)
        PROVE  Untouched(q)
    BY <1>9 DEF PreObserve
  <1>10. ASSUME NEW a \in Actions, Preflight(r, a)
         PROVE  Untouched(q)
    BY <1>10 DEF Preflight
  <1>11. ASSUME NEW a \in Actions, Send(r, a)
         PROVE  Untouched(q)
    BY <1>11 DEF Send
  <1>12. ASSUME NEW a \in Actions, PublishObserve(r, a)
         PROVE  Untouched(q)
    BY <1>12 DEF PublishObserve
  <1>13. ASSUME NEW a \in Actions, RetryObserve(r, a)
         PROVE  Untouched(q)
    BY <1>13 DEF RetryObserve
  <1> QED BY <1>1, <1>2, <1>3, <1>4, <1>5, <1>6, <1>7, <1>8, <1>9, <1>10, <1>11, <1>12,
             <1>13 DEF OwnStep, RunStep

\* An answer, or its loss, only moves an action on that was waiting for it.
LEMMA AnswerFrame ==
  ASSUME TypeOK, NEW req \in inflight, Apply(req) \/ LoseAnswer(req), NEW q \in Runs
  PROVE  /\ SameControl(q) /\ sent'[q] = sent[q] /\ drift'[q] = drift[q]
         /\ \A a \in Actions :
              \/ local'[q][a] = local[q][a]
              \/ local[q][a] = "waiting" /\ local'[q][a] \in {"executed", "errored"}
  <1> req.run \in Runs /\ req.action \in Actions
    BY DEF TypeOK, Request
  <1> USE DEF TypeOK, SameControl, durable, world, history
  <1>1. CASE Apply(req)
    BY <1>1 DEF Apply
  <1>2. CASE LoseAnswer(req)
    BY <1>2 DEF LoseAnswer, Step
  <1> QED BY <1>1, <1>2

LEMMA TamperFrame ==
  ASSUME TypeOK, NEW a \in Actions, Tamper(a), NEW q \in Runs
  PROVE  /\ SameControl(q) /\ local'[q] = local[q] /\ sent'[q] = sent[q]
         /\ drift'[q] = drift[q] \cup {a}
         /\ UNCHANGED planned
  BY DEF Tamper, TypeOK, SameControl, memory, durable, world, history

LEMMA StutterFrame ==
  ASSUME UNCHANGED vars, NEW q
  PROVE  Untouched(q) /\ UNCHANGED <<remote, planned>>
  BY DEF vars, memory, durable, world, history, Untouched, SameControl

-----------------------------------------------------------------------------
(* What each step does to the run that takes it, free of EXCEPT.           *)

\* The parts of a run only its command's start and its recovery source set.
SameCommand(r) == cmd'[r] = cmd[r] /\ src'[r] = src[r]

SameRemote == remote' = remote /\ planned' = planned

\* One action's progress, or one checkpoint, moves to v.
LocalMoves(r, x, v) ==
    \A a \in Actions : local'[r][a] = IF a = x THEN v ELSE local[r][a]

CheckpointMoves(r, x, v) ==
    \A a \in Actions : cp'[r][a] = IF a = x THEN v ELSE cp[r][a]

AllIdle(r) == \A a \in Actions : local[r][a] = "idle"

\* The run's latest snapshot now is the state it goes on with.
Persisted(r, status) ==
    journal'[r] # <<>> /\ Latest(r)'.status = status /\ Latest(r)'.cp = cp'[r]

LEMMA AppendPersists ==
  ASSUME TypeOK, NEW r \in Runs, NEW status, AppendState(r, status, cp'[r])
  PROVE  Persisted(r, status)
  <1>1. journal[r] \in Seq(Snapshot)
    BY DEF TypeOK
  <1>2. journal'[r] = Append(journal[r], [status |-> status, cp |-> cp'[r]])
    BY DEF AppendState, TypeOK
  <1> QED BY <1>1, <1>2 DEF Persisted, Latest

LEMMA StartPublishOwn ==
  ASSUME TypeOK, NEW r \in Runs, StartPublish(r)
  PROVE  /\ pc[r] = "idle" /\ pc'[r] = "first" /\ cmd'[r] = "publish"
         /\ cp'[r] = cp[r] /\ local'[r] = local[r] /\ todo'[r] = todo[r]
         /\ retry'[r] = retry[r] /\ src'[r] = src[r] /\ journal'[r] = journal[r]
         /\ runFile'[r] = runFile[r] /\ sent'[r] = sent[r] /\ drift'[r] = drift[r]
         /\ SameRemote
  BY DEF StartPublish, MayStart, TypeOK, durable, world, history, SameRemote

LEMMA PersistFirstOwn ==
  ASSUME TypeOK, NEW r \in Runs, PersistFirst(r)
  PROVE  /\ pc[r] = "first" /\ pc'[r] = "tier" /\ SameCommand(r)
         /\ cp'[r] = cp[r] /\ local'[r] = local[r] /\ todo'[r] = todo[r]
         /\ retry'[r] = retry[r] /\ runFile'[r] = runFile[r]
         /\ Persisted(r, "PUBLISHING")
         /\ sent'[r] = sent[r] /\ drift'[r] = drift[r] /\ SameRemote
  <1>1. AppendState(r, "PUBLISHING", cp'[r])
    BY DEF PersistFirst
  <1> QED BY <1>1, AppendPersists
          DEF PersistFirst, TypeOK, world, history, SameCommand, SameRemote

LEMMA TierType == ASSUME NEW a \in Actions PROVE Tier(a) \in 0..2
  BY PlanAssumption DEF Tier, TierTable, ActionTypes

\* The serial order never runs a higher tier first.
LEMMA PrecedesKeepsTiers ==
  ASSUME NEW a \in Actions, NEW b \in Actions, Precedes(a, b)
  PROVE  Tier(a) <= Tier(b)
  <1>1. Type[a] \in ActionTypes /\ Type[b] \in ActionTypes
    BY PlanAssumption
  <1>2. CheckpointOrder[Type[a]] <= CheckpointOrder[Type[b]]
    BY <1>1 DEF Precedes, CheckpointOrder, ActionTypes
  <1> QED BY <1>1, <1>2 DEF CheckpointOrder, Tier, TierTable, ActionTypes

LEMMA StartTierOwn ==
  ASSUME TypeOK, NEW r \in Runs, StartTier(r)
  PROVE  \E tier \in SUBSET Actions :
           /\ pc[r] = "tier" /\ pc'[r] = "run" /\ SameCommand(r)
           /\ \A a \in tier, b \in Actions : Tier(b) < Tier(a) => cp[r][b] # "pending"
           /\ \A a \in Actions :
                 IF a \in tier
                 THEN cp[r][a] = "pending" /\ cp'[r][a] = "uncertain" /\ local'[r][a] = "preobserve"
                 ELSE cp'[r][a] = cp[r][a] /\ local'[r][a] = "idle"
           /\ todo'[r] = todo[r] /\ retry'[r] = retry[r] /\ runFile'[r] = runFile[r]
           /\ Persisted(r, "PARTIAL")
           /\ sent'[r] = sent[r] /\ drift'[r] = drift[r] /\ SameRemote
  <1> DEFINE tier == TierOf({a \in Actions : cp[r][a] = "pending"})
  <1>1. /\ tier \in SUBSET Actions
        /\ \A a \in tier : cp[r][a] = "pending"
    BY DEF TierOf
  <1>2. \A a \in tier, b \in Actions : Tier(b) < Tier(a) => cp[r][b] # "pending"
    BY TierType DEF TierOf
  <1>3. /\ cp' = [cp EXCEPT ![r] = Marked(cp[r], tier)]
        /\ local' = [local EXCEPT ![r] =
              [a \in Actions |-> IF a \in tier THEN "preobserve" ELSE "idle"]]
        /\ AppendState(r, "PARTIAL", Marked(cp[r], tier))
    BY DEF StartTier
  <1> HIDE DEF tier
  <1>4. /\ cp'[r] = Marked(cp[r], tier)
        /\ local'[r] = [a \in Actions |-> IF a \in tier THEN "preobserve" ELSE "idle"]
    BY <1>3 DEF TypeOK
  <1>5. Persisted(r, "PARTIAL")
    BY <1>3, <1>4, AppendPersists
  <1>6. /\ pc[r] = "tier" /\ pc'[r] = "run" /\ SameCommand(r)
        /\ todo'[r] = todo[r] /\ retry'[r] = retry[r] /\ runFile'[r] = runFile[r]
        /\ sent'[r] = sent[r] /\ drift'[r] = drift[r] /\ SameRemote
    BY DEF StartTier, TypeOK, world, history, SameCommand, SameRemote
  <1> QED BY <1>1, <1>2, <1>4, <1>5, <1>6 DEF Marked

LEMMA PreObserveOwn ==
  ASSUME TypeOK, NEW r \in Runs, NEW x \in Actions, PreObserve(r, x)
  PROVE  \E read \in Reads(x) :
           /\ pc[r] = "run" /\ pc'[r] = pc[r] /\ SameCommand(r) /\ local[r][x] = "preobserve"
           /\ cp'[r] = cp[r] /\ todo'[r] = todo[r] /\ retry'[r] = retry[r]
           /\ runFile'[r] = runFile[r] /\ journal'[r] = journal[r] /\ sent'[r] = sent[r]
           /\ \/ read.view = "match" /\ LocalMoves(r, x, "skipped")
              \/ \E next \in {"failed", "preflight"} : LocalMoves(r, x, next)
           /\ drift'[r] = drift[r] \ {b \in {x} : read.view = "match"}
           /\ SameRemote
  <1> PICK read \in Reads(x) :
         /\ \/ read.view = "match" /\ Step(r, x, "skipped")
            \/ \E next \in {"failed", "preflight"} : Step(r, x, next)
         /\ Saw(r, x, read.view)
    BY DEF PreObserve
  <1> WITNESS read \in Reads(x)
  <1> QED BY DEF PreObserve, Step, Saw, Fresh, LocalMoves, TypeOK, durable, SameCommand, SameRemote

LEMMA PreflightOwn ==
  ASSUME TypeOK, NEW r \in Runs, NEW x \in Actions, Preflight(r, x)
  PROVE  /\ pc[r] = "run" /\ pc'[r] = pc[r] /\ SameCommand(r) /\ local[r][x] = "preflight"
         /\ cp'[r] = cp[r] /\ todo'[r] = todo[r] /\ retry'[r] = retry[r]
         /\ runFile'[r] = runFile[r] /\ journal'[r] = journal[r] /\ sent'[r] = sent[r]
         /\ \E next \in {"execute", "failed"} : LocalMoves(r, x, next)
         /\ drift'[r] = drift[r] /\ SameRemote
  <1>1. \E next \in {"execute", "failed"} : Step(r, x, next)
    BY DEF Preflight
  <1> QED BY <1>1 DEF Preflight, Step, LocalMoves, TypeOK, durable, history, SameCommand, SameRemote

LEMMA SettleTierOwn ==
  ASSUME TypeOK, NEW r \in Runs, SettleTier(r)
  PROVE  /\ pc[r] = "run" /\ cmd[r] = "publish" /\ SameCommand(r)
         /\ \A a \in Actions : local[r][a] \in Settled \cup {"idle"}
         /\ \A a \in Actions :
               cp'[r][a] = IF local[r][a] \in Settled THEN local[r][a] ELSE cp[r][a]
         /\ \/ /\ pc'[r] = "append" /\ \E a \in Actions : local[r][a] \in Settled \ Done
            \/ /\ pc'[r] = "check" /\ \A a \in Actions : cp'[r][a] \in Done
               /\ todo'[r] = BranchActions
            \/ /\ pc'[r] = "tier" /\ \A a \in Actions : local[r][a] \notin Settled \ Done
               /\ \E a \in Actions : cp'[r][a] \notin Done
         /\ AllIdle(r)'
         /\ retry'[r] = retry[r] /\ runFile'[r] = runFile[r]
         /\ Persisted(r, "PARTIAL")
         /\ sent'[r] = sent[r]
         /\ IF \A a \in Actions : cp'[r][a] \in Done
            THEN drift'[r] = drift[r] \ BranchActions ELSE drift'[r] = drift[r]
         /\ SameRemote
  <1> DEFINE cps == [a \in Actions |-> IF local[r][a] \in Settled THEN local[r][a] ELSE cp[r][a]]
             complete == \A a \in Actions : cps[a] \in Done
  <1>1. /\ cp' = [cp EXCEPT ![r] = cps]
        /\ AppendState(r, "PARTIAL", cps)
        /\ pc' = [pc EXCEPT ![r] = IF \E a \in Actions : local[r][a] \in Settled \ Done THEN "append"
                                   ELSE IF complete THEN "check" ELSE "tier"]
        /\ IF complete THEN StartCheck(r) ELSE UNCHANGED <<todo, drift>>
    BY DEF SettleTier
  <1>2. cp'[r] = cps
    BY <1>1 DEF TypeOK
  <1>3. Persisted(r, "PARTIAL")
    BY <1>1, <1>2, AppendPersists
  <1>4. /\ IF complete THEN drift'[r] = drift[r] \ BranchActions ELSE drift'[r] = drift[r]
        /\ complete => todo'[r] = BranchActions
    BY <1>1 DEF StartCheck, Fresh, BranchActions, TypeOK
  <1>5. /\ pc[r] = "run" /\ cmd[r] = "publish" /\ SameCommand(r) /\ SameRemote
        /\ \A a \in Actions : local[r][a] \in Settled \cup {"idle"}
        /\ AllIdle(r)'
        /\ retry'[r] = retry[r] /\ runFile'[r] = runFile[r] /\ sent'[r] = sent[r]
    BY DEF SettleTier, AllIdle, TypeOK, world, SameCommand, SameRemote
  <1>6. pc'[r] = IF \E a \in Actions : local[r][a] \in Settled \ Done THEN "append"
                 ELSE IF complete THEN "check" ELSE "tier"
    BY <1>1 DEF TypeOK
  <1> HIDE DEF cps
  <1> QED BY <1>2, <1>4, <1>5, <1>6, <1>3 DEF cps

LEMMA SendOwn ==
  ASSUME TypeOK, NEW r \in Runs, NEW x \in Actions, Send(r, x)
  PROVE  /\ pc[r] = "run" /\ pc'[r] = pc[r] /\ SameCommand(r) /\ local[r][x] = "execute"
         /\ cp'[r] = cp[r] /\ todo'[r] = todo[r] /\ retry'[r] = retry[r]
         /\ runFile'[r] = runFile[r] /\ journal'[r] = journal[r] /\ drift'[r] = drift[r]
         /\ \/ /\ sent'[r] = sent[r] \cup {x}
               /\ LocalMoves(r, x, "waiting")
            \/ /\ sent'[r] = sent[r]
               /\ \E next \in {"executed", "errored"} : LocalMoves(r, x, next)
         /\ SameRemote
  <1>1. \/ sent' = [sent EXCEPT ![r] = @ \cup {x}] /\ Step(r, x, "waiting")
        \/ sent' = sent /\ \E next \in {"executed", "errored"} : Step(r, x, next)
    BY DEF Send
  <1> QED BY <1>1 DEF Send, Step, LocalMoves, TypeOK, durable, SameCommand, SameRemote

LEMMA PublishObserveOwn ==
  ASSUME TypeOK, NEW r \in Runs, NEW x \in Actions, PublishObserve(r, x)
  PROVE  \E read \in Reads(x) :
           /\ pc[r] = "run" /\ pc'[r] = pc[r] /\ cmd[r] = "publish" /\ SameCommand(r)
           /\ local[r][x] \in {"executed", "errored"}
           /\ cp'[r] = cp[r] /\ todo'[r] = todo[r] /\ retry'[r] = retry[r]
           /\ runFile'[r] = runFile[r] /\ journal'[r] = journal[r] /\ sent'[r] = sent[r]
           /\ LocalMoves(r, x, Outcome(local[r][x], read.view))
           /\ drift'[r] = drift[r] \ {b \in {x} : read.view = "match"}
           /\ SameRemote
  <1> PICK read \in Reads(x) :
         Step(r, x, Outcome(local[r][x], read.view)) /\ Saw(r, x, read.view)
    BY DEF PublishObserve
  <1> WITNESS read \in Reads(x)
  <1> QED BY DEF PublishObserve, Step, Saw, Fresh, LocalMoves, TypeOK, durable, SameCommand,
                 SameRemote

LEMMA StartReconcileOwn ==
  ASSUME TypeOK, NEW r \in Runs, StartReconcile(r)
  PROVE  /\ pc[r] = "idle" /\ pc'[r] = "scan" /\ cmd'[r] = "reconcile" /\ todo'[r] = Actions
         /\ cp'[r] = cp[r] /\ local'[r] = local[r] /\ retry'[r] = retry[r]
         /\ journal'[r] = journal[r] /\ runFile'[r] = runFile[r]
         /\ sent'[r] = sent[r] /\ drift'[r] = drift[r] /\ SameRemote
  BY DEF StartReconcile, MayStart, TypeOK, durable, world, history, SameRemote

\* A scanned action matches, joins the retries, or ends the run.
LEMMA ScanOwn ==
  ASSUME TypeOK, NEW r \in Runs, Scan(r)
  PROVE  \E a \in todo[r] : \E read \in Reads(a) :
           /\ pc[r] = "scan" /\ SameCommand(r) /\ local'[r] = local[r]
           /\ journal'[r] = journal[r] /\ runFile'[r] = runFile[r] /\ sent'[r] = sent[r]
           /\ drift'[r] = drift[r] \ {b \in {a} : read.view = "match"}
           /\ \/ /\ pc'[r] = "refused"
                 /\ cp'[r] = cp[r] /\ retry'[r] = retry[r] /\ todo'[r] = {}
              \/ /\ pc'[r] \in {"scan", "preflight"} /\ todo'[r] = todo[r] \ {a}
                 /\ pc'[r] = "preflight" => todo[r] = {a}
                 /\ \/ /\ read.view = "match" /\ retry'[r] = retry[r]
                       /\ \E s \in Done : CheckpointMoves(r, a, s)
                    \/ /\ ~ Protected(r, a)
                       /\ retry'[r] = retry[r] \cup {a} /\ cp'[r] = cp[r]
           /\ SameRemote
  <1> PICK a \in todo[r] : \E read \in Reads(a) :
         LET conflict == read.view # "match" /\ (Protected(r, a) \/ ~ Retryable(a, read.view))
         IN  /\ \/ read.view = "match" /\ \E s \in Done : cp' = [cp EXCEPT ![r][a] = s]
                \/ read.view # "match" /\ cp' = cp
             /\ retry' = IF read.view = "match" \/ conflict
                         THEN retry ELSE [retry EXCEPT ![r] = @ \cup {a}]
             /\ todo' = [todo EXCEPT ![r] = IF conflict THEN {} ELSE @ \ {a}]
             /\ pc' = [pc EXCEPT ![r] = IF conflict THEN "refused"
                                        ELSE IF todo[r] = {a} THEN "preflight" ELSE "scan"]
             /\ Saw(r, a, read.view)
    BY DEF Scan
  <1> WITNESS a \in todo[r]
  <1> a \in Actions
    BY DEF TypeOK
  <1> PICK read \in Reads(a) :
         LET conflict == read.view # "match" /\ (Protected(r, a) \/ ~ Retryable(a, read.view))
         IN  /\ \/ read.view = "match" /\ \E s \in Done : cp' = [cp EXCEPT ![r][a] = s]
                \/ read.view # "match" /\ cp' = cp
             /\ retry' = IF read.view = "match" \/ conflict
                         THEN retry ELSE [retry EXCEPT ![r] = @ \cup {a}]
             /\ todo' = [todo EXCEPT ![r] = IF conflict THEN {} ELSE @ \ {a}]
             /\ pc' = [pc EXCEPT ![r] = IF conflict THEN "refused"
                                        ELSE IF todo[r] = {a} THEN "preflight" ELSE "scan"]
             /\ Saw(r, a, read.view)
    OBVIOUS
  <1> WITNESS read \in Reads(a)
  <1> DEFINE conflict == read.view # "match" /\ (Protected(r, a) \/ ~ Retryable(a, read.view))
  <1>1. /\ \/ read.view = "match" /\ \E s \in Done : CheckpointMoves(r, a, s)
           \/ read.view # "match" /\ cp'[r] = cp[r]
    BY DEF TypeOK, CheckpointMoves
  <1>2. /\ retry'[r] = IF read.view = "match" \/ conflict THEN retry[r] ELSE retry[r] \cup {a}
        /\ todo'[r] = IF conflict THEN {} ELSE todo[r] \ {a}
        /\ pc'[r] = IF conflict THEN "refused"
                    ELSE IF todo[r] = {a} THEN "preflight" ELSE "scan"
    BY DEF TypeOK
  <1>3. drift'[r] = drift[r] \ {b \in {a} : read.view = "match"}
    BY DEF Saw, Fresh, TypeOK
  <1>4. /\ pc[r] = "scan" /\ SameCommand(r) /\ local'[r] = local[r]
        /\ journal'[r] = journal[r] /\ runFile'[r] = runFile[r] /\ sent'[r] = sent[r]
        /\ SameRemote
    BY DEF Scan, durable, SameCommand, SameRemote
  <1>5. CASE conflict
    BY <1>1, <1>3, <1>4, <1>5, <1>2
  <1>6. CASE ~ conflict
    BY <1>1, <1>3, <1>4, <1>6, <1>2
  <1> QED BY <1>5, <1>6

LEMMA PreflightRetriesOwn ==
  ASSUME TypeOK, NEW r \in Runs, PreflightRetries(r)
  PROVE  /\ pc[r] = "preflight" /\ SameCommand(r) /\ local'[r] = local[r]
         /\ retry'[r] = retry[r] /\ runFile'[r] = runFile[r] /\ sent'[r] = sent[r]
         /\ \/ /\ retry[r] = {} /\ pc'[r] = "check" /\ todo'[r] = BranchActions
               /\ cp'[r] = cp[r] /\ journal'[r] = journal[r]
               /\ drift'[r] = drift[r] \ BranchActions
            \/ /\ pc'[r] = "retry" /\ cp'[r] = cp[r]
               /\ Persisted(r, "PUBLISHING")
               /\ todo'[r] = todo[r] /\ drift'[r] = drift[r]
            \/ /\ retry[r] # {} /\ pc'[r] = "append"
               /\ \A a \in Actions : cp'[r][a] = IF a \in retry[r] THEN "failed" ELSE cp[r][a]
               /\ journal'[r] = journal[r] /\ todo'[r] = todo[r] /\ drift'[r] = drift[r]
         /\ SameRemote
  <1>1. /\ pc[r] = "preflight" /\ SameCommand(r) /\ local'[r] = local[r]
        /\ retry'[r] = retry[r] /\ runFile'[r] = runFile[r] /\ sent'[r] = sent[r]
        /\ SameRemote
    BY DEF PreflightRetries, SameCommand, SameRemote
  <1>2. CASE retry[r] = {} /\ pc' = [pc EXCEPT ![r] = "check"] /\ StartCheck(r)
             /\ UNCHANGED <<cp, journal>>
    BY <1>1, <1>2 DEF StartCheck, Fresh, BranchActions, TypeOK
  <1>3. CASE AppendState(r, "PUBLISHING", cp[r]) /\ pc' = [pc EXCEPT ![r] = "retry"]
             /\ UNCHANGED <<cp, todo, drift>>
    BY <1>1, <1>3, AppendPersists DEF TypeOK
  <1>4. CASE /\ retry[r] # {} /\ pc' = [pc EXCEPT ![r] = "append"]
             /\ cp' = [cp EXCEPT ![r] =
                   [a \in Actions |-> IF a \in retry[r] THEN "failed" ELSE cp[r][a]]]
             /\ UNCHANGED <<todo, journal, drift>>
    BY <1>1, <1>4 DEF TypeOK
  <1> QED BY <1>2, <1>3, <1>4 DEF PreflightRetries

LEMMA StartRetryOwn ==
  ASSUME TypeOK, NEW r \in Runs, StartRetry(r)
  PROVE  \E a \in retry[r] :
           /\ pc[r] = "retry" /\ pc'[r] = "run" /\ SameCommand(r)
           /\ cp[r][a] = "pending"
           /\ \A b \in retry[r] : cp[r][b] = "pending" => Tier(a) <= Tier(b)
           /\ CheckpointMoves(r, a, "uncertain")
           /\ LocalMoves(r, a, "execute")
           /\ Persisted(r, "PARTIAL")
           /\ todo'[r] = todo[r] /\ retry'[r] = retry[r] /\ runFile'[r] = runFile[r]
           /\ sent'[r] = sent[r] /\ drift'[r] = drift[r] /\ SameRemote
  <1> PICK a \in retry[r] :
         /\ IsFirst(a, {b \in retry[r] : cp[r][b] = "pending"})
         /\ cp' = [cp EXCEPT ![r] = [cp[r] EXCEPT ![a] = "uncertain"]]
         /\ AppendState(r, "PARTIAL", [cp[r] EXCEPT ![a] = "uncertain"])
         /\ Step(r, a, "execute")
    BY DEF StartRetry
  <1> WITNESS a \in retry[r]
  <1>1. /\ CheckpointMoves(r, a, "uncertain")
        /\ Persisted(r, "PARTIAL")
        /\ LocalMoves(r, a, "execute")
    <2>1. /\ cp'[r] = [cp[r] EXCEPT ![a] = "uncertain"]
          /\ local'[r] = [local[r] EXCEPT ![a] = "execute"]
      BY DEF Step, TypeOK
    <2> QED BY <2>1, AppendPersists DEF CheckpointMoves, LocalMoves, TypeOK
  <1>2. /\ pc[r] = "retry" /\ pc'[r] = "run" /\ SameCommand(r)
        /\ todo'[r] = todo[r] /\ retry'[r] = retry[r] /\ runFile'[r] = runFile[r]
        /\ sent'[r] = sent[r] /\ drift'[r] = drift[r] /\ SameRemote
    BY DEF StartRetry, TypeOK, world, history, SameCommand, SameRemote
  <1>3. /\ cp[r][a] = "pending"
        /\ \A b \in retry[r] : cp[r][b] = "pending" => Tier(a) <= Tier(b)
    <2>1. a \in Actions /\ retry[r] \subseteq Actions
      BY DEF TypeOK
    <2> QED BY <2>1, PrecedesKeepsTiers, TierType DEF IsFirst
  <1> QED BY <1>1, <1>2, <1>3

LEMMA RetryObserveOwn ==
  ASSUME TypeOK, NEW r \in Runs, NEW x \in Actions, RetryObserve(r, x)
  PROVE  \E read \in Reads(x) :
           LET outcome  == Outcome(local[r][x], read.view)
               complete == \A b \in Actions : cp'[r][b] \in Done
           IN  /\ pc[r] = "run" /\ cmd[r] = "reconcile" /\ SameCommand(r)
               /\ local[r][x] \in {"executed", "errored"}
               /\ CheckpointMoves(r, x, outcome)
               /\ LocalMoves(r, x, "idle")
               /\ Persisted(r, "PARTIAL")
               /\ \/ pc'[r] = "append" /\ outcome # "succeeded"
                  \/ pc'[r] = "check" /\ complete /\ todo'[r] = BranchActions
                  \/ pc'[r] = "retry" /\ outcome = "succeeded" /\ ~ complete
               /\ drift'[r] = drift[r] \ {b \in Actions : \/ b = x /\ read.view = "match"
                                                          \/ complete /\ Type[b] \in BranchTypes}
               /\ retry'[r] = retry[r] /\ runFile'[r] = runFile[r] /\ sent'[r] = sent[r]
               /\ SameRemote
  <1> PICK read \in Reads(x) :
         LET outcome  == Outcome(local[r][x], read.view)
             cps      == [cp[r] EXCEPT ![x] = outcome]
             complete == \A b \in Actions : cps[b] \in Done
         IN  /\ cp' = [cp EXCEPT ![r] = cps]
             /\ AppendState(r, "PARTIAL", cps)
             /\ Step(r, x, "idle")
             /\ pc' = [pc EXCEPT ![r] = IF outcome # "succeeded" THEN "append"
                                        ELSE IF complete THEN "check" ELSE "retry"]
             /\ todo' = [todo EXCEPT ![r] = IF complete THEN BranchActions ELSE {}]
             /\ Fresh(r, {b \in Actions : \/ b = x /\ read.view = "match"
                                          \/ complete /\ Type[b] \in BranchTypes})
    BY DEF RetryObserve
  <1> WITNESS read \in Reads(x)
  <1> DEFINE outcome  == Outcome(local[r][x], read.view)
             cps      == [cp[r] EXCEPT ![x] = outcome]
             complete == \A b \in Actions : cps[b] \in Done
  <1>1. /\ cp'[r] = cps
        /\ Persisted(r, "PARTIAL")
        /\ LocalMoves(r, x, "idle")
    <2>1. cp'[r] = cps /\ local'[r] = [local[r] EXCEPT ![x] = "idle"]
      BY DEF Step, TypeOK
    <2> QED BY <2>1, AppendPersists DEF LocalMoves, TypeOK
  <1>2. CheckpointMoves(r, x, outcome)
    BY <1>1 DEF CheckpointMoves, TypeOK
  <1>3. /\ pc'[r] = IF outcome # "succeeded" THEN "append"
                    ELSE IF complete THEN "check" ELSE "retry"
        /\ todo'[r] = IF complete THEN BranchActions ELSE {}
    BY DEF TypeOK
  <1>4. drift'[r] = drift[r] \ {b \in Actions : \/ b = x /\ read.view = "match"
                                                \/ complete /\ Type[b] \in BranchTypes}
    BY DEF Fresh, TypeOK
  <1>5. /\ pc[r] = "run" /\ cmd[r] = "reconcile" /\ SameCommand(r)
        /\ local[r][x] \in {"executed", "errored"}
        /\ retry'[r] = retry[r] /\ runFile'[r] = runFile[r] /\ sent'[r] = sent[r]
        /\ SameRemote
    BY DEF RetryObserve, SameCommand, SameRemote
  <1>6. complete <=> \A b \in Actions : cp'[r][b] \in Done
    BY <1>1
  <1> HIDE DEF cps, outcome
  <1> QED BY <1>1, <1>3, <1>4, <1>5, <1>6, <1>2 DEF outcome

LEMMA CheckBranchesOwn ==
  ASSUME TypeOK, NEW r \in Runs, CheckBranches(r)
  PROVE  /\ pc[r] = "check" /\ SameCommand(r) /\ local'[r] = local[r]
         /\ retry'[r] = retry[r] /\ journal'[r] = journal[r] /\ runFile'[r] = runFile[r]
         /\ sent'[r] = sent[r] /\ SameRemote
         /\ \/ /\ todo[r] = {} /\ pc'[r] = "append" /\ cp'[r] = cp[r]
               /\ todo'[r] = todo[r] /\ drift'[r] = drift[r]
            \/ \E a \in todo[r] : \E read \in Reads(a) :
                 /\ drift'[r] = drift[r] \ {b \in {a} : read.view = "match"}
                 /\ \/ /\ read.view = "match" /\ pc'[r] = "check"
                       /\ todo'[r] = todo[r] \ {a} /\ cp'[r] = cp[r]
                    \/ /\ pc'[r] = "append"
                       /\ \E s \in {"uncertain", "failed"} : CheckpointMoves(r, a, s)
  <1>1. /\ pc[r] = "check" /\ SameCommand(r) /\ local'[r] = local[r]
        /\ retry'[r] = retry[r] /\ journal'[r] = journal[r] /\ runFile'[r] = runFile[r]
        /\ sent'[r] = sent[r] /\ SameRemote
    BY DEF CheckBranches, durable, SameCommand, SameRemote
  <1>2. CASE todo[r] = {} /\ pc' = [pc EXCEPT ![r] = "append"] /\ UNCHANGED <<cp, todo, drift>>
    BY <1>1, <1>2 DEF TypeOK
  <1>3. ASSUME NEW a \in todo[r], NEW read \in Reads(a), Saw(r, a, read.view),
               \/ /\ read.view = "match" /\ todo' = [todo EXCEPT ![r] = @ \ {a}]
                  /\ UNCHANGED <<cp, pc>>
               \/ /\ pc' = [pc EXCEPT ![r] = "append"]
                  /\ \E s \in {"uncertain", "failed"} : cp' = [cp EXCEPT ![r][a] = s]
        PROVE  \E b \in todo[r] : \E seen \in Reads(b) :
                 /\ drift'[r] = drift[r] \ {c \in {b} : seen.view = "match"}
                 /\ \/ /\ seen.view = "match" /\ pc'[r] = "check"
                       /\ todo'[r] = todo[r] \ {b} /\ cp'[r] = cp[r]
                    \/ /\ pc'[r] = "append"
                       /\ \E s \in {"uncertain", "failed"} : CheckpointMoves(r, b, s)
    <2> WITNESS a \in todo[r]
    <2> WITNESS read \in Reads(a)
    <2>1. a \in Actions
      BY DEF TypeOK
    <2>2. drift'[r] = drift[r] \ {c \in {a} : read.view = "match"}
      BY <1>3 DEF Saw, Fresh, TypeOK
    <2> QED BY <1>1, <1>3, <2>1, <2>2 DEF TypeOK, CheckpointMoves
  <1>4. \/ todo[r] = {} /\ pc' = [pc EXCEPT ![r] = "append"] /\ UNCHANGED <<cp, todo, drift>>
        \/ \E a \in todo[r] : \E read \in Reads(a) :
             /\ Saw(r, a, read.view)
             /\ \/ /\ read.view = "match" /\ todo' = [todo EXCEPT ![r] = @ \ {a}]
                   /\ UNCHANGED <<cp, pc>>
                \/ /\ pc' = [pc EXCEPT ![r] = "append"]
                   /\ \E s \in {"uncertain", "failed"} : cp' = [cp EXCEPT ![r][a] = s]
    BY DEF CheckBranches
  <1> QED BY <1>1, <1>2, <1>3, <1>4

LEMMA AppendFinalOwn ==
  ASSUME TypeOK, NEW r \in Runs, AppendFinal(r)
  PROVE  /\ pc[r] = "append" /\ pc'[r] = "write" /\ SameCommand(r)
         /\ cp'[r] = cp[r] /\ local'[r] = local[r] /\ todo'[r] = todo[r]
         /\ retry'[r] = retry[r] /\ runFile'[r] = runFile[r]
         /\ \/ journal[r] = <<>> /\ journal'[r] = journal[r]
            \/ Persisted(r, OverallStatus(cmd[r], cp[r]))
         /\ sent'[r] = sent[r] /\ drift'[r] = drift[r] /\ SameRemote
  <1>1. UNCHANGED cp /\ (UNCHANGED journal \/ AppendState(r, OverallStatus(cmd[r], cp[r]), cp'[r]))
        /\ (journal[r] = <<>> => UNCHANGED journal)
    BY DEF AppendFinal
  <1> QED BY <1>1, AppendPersists
          DEF AppendFinal, TypeOK, world, history, SameCommand, SameRemote

LEMMA WriteRunOwn ==
  ASSUME TypeOK, NEW r \in Runs, WriteRun(r)
  PROVE  /\ pc[r] = "write" /\ pc'[r] = "ended" /\ SameCommand(r)
         /\ cp'[r] = cp[r] /\ local'[r] = local[r] /\ todo'[r] = todo[r]
         /\ retry'[r] = retry[r] /\ journal'[r] = journal[r]
         /\ runFile'[r].status = OverallStatus(cmd[r], cp[r])
         /\ sent'[r] = sent[r] /\ drift'[r] = drift[r] /\ SameRemote
  BY DEF WriteRun, TypeOK, world, history, SameCommand, SameRemote

LEMMA CrashOwn ==
  ASSUME TypeOK, NEW r \in Runs, Crash(r)
  PROVE  /\ pc[r] \notin Ended \cup {"idle"} /\ pc'[r] = "crashed" /\ SameCommand(r)
         /\ (\A a \in Actions : cp'[r][a] = "pending") /\ AllIdle(r)'
         /\ todo'[r] = {} /\ retry'[r] = {}
         /\ journal'[r] = journal[r] /\ runFile'[r] = runFile[r]
         /\ sent'[r] = sent[r] /\ drift'[r] = drift[r] /\ SameRemote
  BY DEF Crash, AllIdle, Pending, TypeOK, durable, history, SameCommand, SameRemote

=============================================================================
