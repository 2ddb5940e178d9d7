------------------------- MODULE ReleaseSagaSafety -------------------------
(***************************************************************************)
(* The inductive invariant of ReleaseSaga and the safety properties it     *)
(* implies, for every plan, every number of runs and every bound.          *)
(***************************************************************************)
EXTENDS ReleaseSagaProofs

USE DEF Settled, Done, CpStatus, BranchTypes

-----------------------------------------------------------------------------
(* The invariant of one run, part by part.                                 *)

\* Which command is where, and what its control points have excluded.
Phase(r) ==
    /\ pc[r] = "idle" => retry[r] = {} /\ \A a \in Actions : cp[r][a] = "pending"
    /\ pc[r] \in {"first", "tier"} => cmd[r] = "publish"
    /\ pc[r] \in {"scan", "preflight", "retry", "refused"} => cmd[r] = "reconcile"
    /\ pc[r] \notin {"idle", "crashed"} => cmd[r] \in {"publish", "reconcile"}
    /\ pc[r] \in {"idle", "first", "scan", "preflight", "refused"} => sent[r] = {}
    /\ runFile[r].status # "NONE" => pc[r] = "ended"

\* Actions are worked on only between two snapshots, by reconcile one at a time.
AtWork(r) ==
    /\ pc[r] # "run" => AllIdle(r)
    /\ cmd[r] = "reconcile" => \A a, b \in Actions : Busy(r, a) /\ Busy(r, b) => a = b

\* What the in-memory checkpoints can be at each control point.
Progress(r) ==
    \A a \in Actions :
        /\ pc[r] = "first" => cp[r][a] = "pending"
        /\ pc[r] = "tier" => cp[r][a] \in Done \cup {"pending"}
        /\ pc[r] = "run" => IF Busy(r, a) THEN cp[r][a] = "uncertain"
                                          ELSE cp[r][a] \in Done \cup {"pending"}
        /\ pc[r] = "scan" /\ a \in todo[r] => cp[r][a] = "pending"
        /\ \/ pc[r] = "scan" /\ a \notin todo[r]
           \/ pc[r] \in {"preflight", "retry"}
           \/ pc[r] = "run" /\ cmd[r] = "reconcile" /\ ~ Busy(r, a)
           => cp[r][a] \in Done \/ (cp[r][a] = "pending" /\ a \in retry[r])
        /\ pc[r] = "check" => cp[r][a] \in Done

\* A run that comes to its end has no checkpoint left pending alone.
Conclusive(r) ==
    pc[r] \in {"append", "write"} =>
        \/ \A a \in Actions : cp[r][a] \in Done
        \/ \E a \in Actions : cp[r][a] \in {"failed", "uncertain"}

\* Everything a run is working on, or has written, is marked in memory and in
\* its latest snapshot.
Recorded(r) ==
    \A a \in Actions :
        a \in sent[r] \/ Busy(r, a) =>
            /\ journal[r] # <<>>
            /\ Latest(r).status \in {"PARTIAL", "PUBLISHED"}
            /\ Latest(r).cp[a] # "pending"
            /\ pc[r] \notin Ended => cp[r][a] # "pending"

\* What the source recorded as succeeded never enters the retries.
SkipsSucceeded(r) ==
    \A a \in Actions :
        cmd[r] = "reconcile" /\ src[r].cp[a] = "succeeded" =>
            a \notin sent[r] /\ a \notin retry[r] /\ ~ Busy(r, a)

\* Work on an action starts only when the tiers below are done.
LowerTiersDone(r) ==
    \A a, b \in Actions :
        Busy(r, a) /\ Tier(b) < Tier(a) => cp[r][b] \in Done

-----------------------------------------------------------------------------
(* A command's own steps keep its invariant.                               *)

LEMMA PhaseOwn ==
  ASSUME TypeOK, NEW r \in Runs, OwnStep(r), Phase(r)
  PROVE  Phase(r)'
  <1> USE DEF Phase, SameCommand, NoRun, Ended, CheckpointMoves
  <1>1. CASE StartPublish(r)
    BY <1>1, StartPublishOwn
  <1>2. CASE PersistFirst(r)
    BY <1>2, PersistFirstOwn
  <1>3. CASE StartTier(r)
    BY <1>3, StartTierOwn
  <1>4. CASE SettleTier(r)
    BY <1>4, SettleTierOwn
  <1>5. CASE StartReconcile(r)
    BY <1>5, StartReconcileOwn
  <1>6. CASE Scan(r)
    BY <1>6, ScanOwn
  <1>7. CASE PreflightRetries(r)
    BY <1>7, PreflightRetriesOwn
  <1>8. CASE StartRetry(r)
    BY <1>8, StartRetryOwn
  <1>9. CASE CheckBranches(r)
    BY <1>9, CheckBranchesOwn
  <1>10. CASE AppendFinal(r)
    BY <1>10, AppendFinalOwn
  <1>11. CASE WriteRun(r)
    BY <1>11, WriteRunOwn
  <1>12. CASE Crash(r)
    BY <1>12, CrashOwn
  <1>13. ASSUME NEW a \in Actions, PreObserve(r, a) PROVE Phase(r)'
    BY <1>13, PreObserveOwn
  <1>14. ASSUME NEW a \in Actions, Preflight(r, a) PROVE Phase(r)'
    BY <1>14, PreflightOwn
  <1>15. ASSUME NEW a \in Actions, Send(r, a) PROVE Phase(r)'
    BY <1>15, SendOwn
  <1>16. ASSUME NEW a \in Actions, PublishObserve(r, a) PROVE Phase(r)'
    BY <1>16, PublishObserveOwn
  <1>17. ASSUME NEW a \in Actions, RetryObserve(r, a) PROVE Phase(r)'
    BY <1>17, RetryObserveOwn
  <1> QED BY <1>1, <1>2, <1>3, <1>4, <1>5, <1>6, <1>7, <1>8, <1>9,
             <1>10, <1>11, <1>12, <1>13, <1>14, <1>15, <1>16, <1>17 DEF OwnStep, RunStep

LEMMA AtWorkOwn ==
  ASSUME TypeOK, NEW r \in Runs, OwnStep(r), Phase(r), AtWork(r)
  PROVE  AtWork(r)'
  <1> USE DEF Phase, AtWork, AllIdle, Busy, SameCommand, LocalMoves
  <1>1. CASE StartPublish(r)
    BY <1>1, StartPublishOwn
  <1>2. CASE PersistFirst(r)
    BY <1>2, PersistFirstOwn
  <1>3. CASE StartTier(r)
    BY <1>3, StartTierOwn
  <1>4. CASE SettleTier(r)
    BY <1>4, SettleTierOwn
  <1>5. CASE StartReconcile(r)
    BY <1>5, StartReconcileOwn
  <1>6. CASE Scan(r)
    BY <1>6, ScanOwn
  <1>7. CASE PreflightRetries(r)
    BY <1>7, PreflightRetriesOwn
  <1>8. CASE StartRetry(r)
    BY <1>8, StartRetryOwn
  <1>9. CASE CheckBranches(r)
    BY <1>9, CheckBranchesOwn
  <1>10. CASE AppendFinal(r)
    BY <1>10, AppendFinalOwn
  <1>11. CASE WriteRun(r)
    BY <1>11, WriteRunOwn
  <1>12. CASE Crash(r)
    BY <1>12, CrashOwn
  <1>13. ASSUME NEW a \in Actions, PreObserve(r, a) PROVE AtWork(r)'
    BY <1>13, PreObserveOwn
  <1>14. ASSUME NEW a \in Actions, Preflight(r, a) PROVE AtWork(r)'
    BY <1>14, PreflightOwn
  <1>15. ASSUME NEW a \in Actions, Send(r, a) PROVE AtWork(r)'
    BY <1>15, SendOwn
  <1>16. ASSUME NEW a \in Actions, PublishObserve(r, a) PROVE AtWork(r)'
    BY <1>16, PublishObserveOwn
  <1>17. ASSUME NEW a \in Actions, RetryObserve(r, a) PROVE AtWork(r)'
    BY <1>17, RetryObserveOwn
  <1> QED BY <1>1, <1>2, <1>3, <1>4, <1>5, <1>6, <1>7, <1>8, <1>9,
             <1>10, <1>11, <1>12, <1>13, <1>14, <1>15, <1>16, <1>17 DEF OwnStep, RunStep

LEMMA ProgressOwn ==
  ASSUME TypeOK, NEW r \in Runs, OwnStep(r), Phase(r), AtWork(r), Progress(r)
  PROVE  Progress(r)'
  <1> USE DEF Phase, AtWork, Progress, AllIdle, Busy, SameCommand,
             LocalMoves, CheckpointMoves, Ended
  <1>1. CASE StartPublish(r)
    BY <1>1, StartPublishOwn
  <1>2. CASE PersistFirst(r)
    BY <1>2, PersistFirstOwn
  <1>3. CASE StartTier(r)
    BY <1>3, StartTierOwn
  <1>4. CASE SettleTier(r)
    BY <1>4, SettleTierOwn
  <1>5. CASE StartReconcile(r)
    BY <1>5, StartReconcileOwn
  <1>6. CASE Scan(r)
    BY <1>6, ScanOwn
  <1>7. CASE PreflightRetries(r)
    BY <1>7, PreflightRetriesOwn
  <1>8. CASE StartRetry(r)
    BY <1>8, StartRetryOwn
  <1>9. CASE CheckBranches(r)
    BY <1>9, CheckBranchesOwn
  <1>10. CASE AppendFinal(r)
    BY <1>10, AppendFinalOwn
  <1>11. CASE WriteRun(r)
    BY <1>11, WriteRunOwn
  <1>12. CASE Crash(r)
    BY <1>12, CrashOwn
  <1>13. ASSUME NEW a \in Actions, PreObserve(r, a) PROVE Progress(r)'
    BY <1>13, PreObserveOwn
  <1>14. ASSUME NEW a \in Actions, Preflight(r, a) PROVE Progress(r)'
    BY <1>14, PreflightOwn
  <1>15. ASSUME NEW a \in Actions, Send(r, a) PROVE Progress(r)'
    BY <1>15, SendOwn
  <1>16. ASSUME NEW a \in Actions, PublishObserve(r, a) PROVE Progress(r)'
    BY <1>16, PublishObserveOwn, OutcomeType
  <1>17. ASSUME NEW a \in Actions, RetryObserve(r, a) PROVE Progress(r)'
    BY <1>17, RetryObserveOwn, OutcomeType
  <1> QED BY <1>1, <1>2, <1>3, <1>4, <1>5, <1>6, <1>7, <1>8, <1>9,
             <1>10, <1>11, <1>12, <1>13, <1>14, <1>15, <1>16, <1>17 DEF OwnStep, RunStep

LEMMA ConclusiveOwn ==
  ASSUME TypeOK, NEW r \in Runs, OwnStep(r), Phase(r), AtWork(r), Progress(r), Conclusive(r)
  PROVE  Conclusive(r)'
  <1> USE DEF Phase, AtWork, Progress, Conclusive, Busy, SameCommand,
             LocalMoves, CheckpointMoves
  <1>1. CASE StartPublish(r)
    BY <1>1, StartPublishOwn
  <1>2. CASE PersistFirst(r)
    BY <1>2, PersistFirstOwn
  <1>3. CASE StartTier(r)
    BY <1>3, StartTierOwn
  <1>4. CASE SettleTier(r)
    BY <1>4, SettleTierOwn
  <1>5. CASE StartReconcile(r)
    BY <1>5, StartReconcileOwn
  <1>6. CASE Scan(r)
    BY <1>6, ScanOwn
  <1>7. CASE PreflightRetries(r)
    BY <1>7, PreflightRetriesOwn
  <1>8. CASE StartRetry(r)
    BY <1>8, StartRetryOwn
  <1>9. CASE CheckBranches(r)
    BY <1>9, CheckBranchesOwn
  <1>10. CASE AppendFinal(r)
    BY <1>10, AppendFinalOwn
  <1>11. CASE WriteRun(r)
    BY <1>11, WriteRunOwn
  <1>12. CASE Crash(r)
    BY <1>12, CrashOwn
  <1>13. ASSUME NEW a \in Actions, PreObserve(r, a) PROVE Conclusive(r)'
    BY <1>13, PreObserveOwn
  <1>14. ASSUME NEW a \in Actions, Preflight(r, a) PROVE Conclusive(r)'
    BY <1>14, PreflightOwn
  <1>15. ASSUME NEW a \in Actions, Send(r, a) PROVE Conclusive(r)'
    BY <1>15, SendOwn
  <1>16. ASSUME NEW a \in Actions, PublishObserve(r, a) PROVE Conclusive(r)'
    BY <1>16, PublishObserveOwn
  <1>17. ASSUME NEW a \in Actions, RetryObserve(r, a) PROVE Conclusive(r)'
    <2>1. PICK s \in {"succeeded", "failed", "uncertain"} :
            /\ CheckpointMoves(r, a, s)
            /\ \/ pc'[r] = "append" /\ s # "succeeded"
               \/ pc'[r] \in {"check", "retry"}
      BY <1>17, RetryObserveOwn, OutcomeType
    <2> QED BY <2>1
  <1> QED BY <1>1, <1>2, <1>3, <1>4, <1>5, <1>6, <1>7, <1>8, <1>9,
             <1>10, <1>11, <1>12, <1>13, <1>14, <1>15, <1>16, <1>17 DEF OwnStep, RunStep

LEMMA RecordedOwn ==
  ASSUME TypeOK, NEW r \in Runs, OwnStep(r), Phase(r), AtWork(r), Progress(r), Conclusive(r),
         Recorded(r)
  PROVE  Recorded(r)'
  <1> USE DEF Phase, AtWork, Progress, Conclusive, Recorded, AllIdle, Busy, SameCommand,
             LocalMoves, CheckpointMoves, Persisted, Ended, OverallStatus, Latest
  <1>1. CASE StartPublish(r)
    BY <1>1, StartPublishOwn
  <1>2. CASE PersistFirst(r)
    BY <1>2, PersistFirstOwn
  <1>3. CASE StartTier(r)
    BY <1>3, StartTierOwn
  <1>4. CASE SettleTier(r)
    BY <1>4, SettleTierOwn
  <1>5. CASE StartReconcile(r)
    BY <1>5, StartReconcileOwn
  <1>6. CASE Scan(r)
    BY <1>6, ScanOwn
  <1>7. CASE PreflightRetries(r)
    BY <1>7, PreflightRetriesOwn
  <1>8. CASE StartRetry(r)
    BY <1>8, StartRetryOwn
  <1>9. CASE CheckBranches(r)
    BY <1>9, CheckBranchesOwn
  <1>10. CASE AppendFinal(r)
    BY <1>10, AppendFinalOwn
  <1>11. CASE WriteRun(r)
    BY <1>11, WriteRunOwn
  <1>12. CASE Crash(r)
    BY <1>12, CrashOwn
  <1>13. ASSUME NEW a \in Actions, PreObserve(r, a) PROVE Recorded(r)'
    BY <1>13, PreObserveOwn
  <1>14. ASSUME NEW a \in Actions, Preflight(r, a) PROVE Recorded(r)'
    BY <1>14, PreflightOwn
  <1>15. ASSUME NEW a \in Actions, Send(r, a) PROVE Recorded(r)'
    BY <1>15, SendOwn
  <1>16. ASSUME NEW a \in Actions, PublishObserve(r, a) PROVE Recorded(r)'
    BY <1>16, PublishObserveOwn
  <1>17. ASSUME NEW a \in Actions, RetryObserve(r, a) PROVE Recorded(r)'
    <2>1. /\ pc[r] = "run" /\ sent'[r] = sent[r]
          /\ \E s \in Settled : CheckpointMoves(r, a, s)
          /\ LocalMoves(r, a, "idle") /\ Persisted(r, "PARTIAL")
      BY <1>17, RetryObserveOwn, OutcomeType
    <2> QED BY <2>1
  <1> QED BY <1>1, <1>2, <1>3, <1>4, <1>5, <1>6, <1>7, <1>8, <1>9,
             <1>10, <1>11, <1>12, <1>13, <1>14, <1>15, <1>16, <1>17 DEF OwnStep, RunStep

LEMMA SkipsSucceededOwn ==
  ASSUME TypeOK, NEW r \in Runs, OwnStep(r), Phase(r), AtWork(r), SkipsSucceeded(r)
  PROVE  SkipsSucceeded(r)'
  <1> USE DEF Phase, AtWork, SkipsSucceeded, AllIdle, Busy, SameCommand, LocalMoves,
             Protected
  <1>1. CASE StartPublish(r)
    BY <1>1, StartPublishOwn
  <1>2. CASE PersistFirst(r)
    BY <1>2, PersistFirstOwn
  <1>3. CASE StartTier(r)
    BY <1>3, StartTierOwn
  <1>4. CASE SettleTier(r)
    BY <1>4, SettleTierOwn
  <1>5. CASE StartReconcile(r)
    BY <1>5, StartReconcileOwn
  <1>6. CASE Scan(r)
    BY <1>6, ScanOwn
  <1>7. CASE PreflightRetries(r)
    BY <1>7, PreflightRetriesOwn
  <1>8. CASE StartRetry(r)
    BY <1>8, StartRetryOwn
  <1>9. CASE CheckBranches(r)
    BY <1>9, CheckBranchesOwn
  <1>10. CASE AppendFinal(r)
    BY <1>10, AppendFinalOwn
  <1>11. CASE WriteRun(r)
    BY <1>11, WriteRunOwn
  <1>12. CASE Crash(r)
    BY <1>12, CrashOwn
  <1>13. ASSUME NEW a \in Actions, PreObserve(r, a) PROVE SkipsSucceeded(r)'
    BY <1>13, PreObserveOwn
  <1>14. ASSUME NEW a \in Actions, Preflight(r, a) PROVE SkipsSucceeded(r)'
    BY <1>14, PreflightOwn
  <1>15. ASSUME NEW a \in Actions, Send(r, a) PROVE SkipsSucceeded(r)'
    BY <1>15, SendOwn
  <1>16. ASSUME NEW a \in Actions, PublishObserve(r, a) PROVE SkipsSucceeded(r)'
    BY <1>16, PublishObserveOwn
  <1>17. ASSUME NEW a \in Actions, RetryObserve(r, a) PROVE SkipsSucceeded(r)'
    BY <1>17, RetryObserveOwn
  <1> QED BY <1>1, <1>2, <1>3, <1>4, <1>5, <1>6, <1>7, <1>8, <1>9,
             <1>10, <1>11, <1>12, <1>13, <1>14, <1>15, <1>16, <1>17 DEF OwnStep, RunStep

LEMMA LowerTiersDoneOwn ==
  ASSUME TypeOK, NEW r \in Runs, OwnStep(r), Phase(r), AtWork(r), Progress(r), LowerTiersDone(r)
  PROVE  LowerTiersDone(r)'
  <1> USE DEF Phase, AtWork, Progress, LowerTiersDone, AllIdle, Busy, SameCommand,
             LocalMoves, CheckpointMoves
  <1>1. CASE StartPublish(r)
    BY <1>1, StartPublishOwn
  <1>2. CASE PersistFirst(r)
    BY <1>2, PersistFirstOwn
  <1>3. CASE StartTier(r)
    BY <1>3, StartTierOwn
  <1>4. CASE SettleTier(r)
    BY <1>4, SettleTierOwn
  <1>5. CASE StartReconcile(r)
    BY <1>5, StartReconcileOwn
  <1>6. CASE Scan(r)
    BY <1>6, ScanOwn
  <1>7. CASE PreflightRetries(r)
    BY <1>7, PreflightRetriesOwn
  <1>8. CASE StartRetry(r)
    <2>1. PICK x \in retry[r] :
            /\ pc[r] = "retry" /\ CheckpointMoves(r, x, "uncertain")
            /\ LocalMoves(r, x, "execute")
            /\ \A b \in retry[r] : cp[r][b] = "pending" => Tier(x) <= Tier(b)
      BY <1>8, StartRetryOwn
    <2>2. SUFFICES ASSUME NEW a \in Actions, NEW b \in Actions, Busy(r, a)', Tier(b) < Tier(a)
                   PROVE  cp'[r][b] \in Done
      BY DEF Tier
    <2>3. a = x
      BY <2>1, <2>2
    <2>4. cp[r][b] \in Done \/ (cp[r][b] = "pending" /\ b \in retry[r])
      BY <2>1
    <2>5. cp[r][b] \in Done /\ b # a
      BY <2>1, <2>2, <2>3, <2>4, TierType
    <2> QED BY <2>1, <2>3, <2>5
  <1>9. CASE CheckBranches(r)
    BY <1>9, CheckBranchesOwn
  <1>10. CASE AppendFinal(r)
    BY <1>10, AppendFinalOwn
  <1>11. CASE WriteRun(r)
    BY <1>11, WriteRunOwn
  <1>12. CASE Crash(r)
    BY <1>12, CrashOwn
  <1>13. ASSUME NEW a \in Actions, PreObserve(r, a) PROVE LowerTiersDone(r)'
    BY <1>13, PreObserveOwn
  <1>14. ASSUME NEW a \in Actions, Preflight(r, a) PROVE LowerTiersDone(r)'
    BY <1>14, PreflightOwn
  <1>15. ASSUME NEW a \in Actions, Send(r, a) PROVE LowerTiersDone(r)'
    BY <1>15, SendOwn
  <1>16. ASSUME NEW a \in Actions, PublishObserve(r, a) PROVE LowerTiersDone(r)'
    BY <1>16, PublishObserveOwn
  <1>17. ASSUME NEW a \in Actions, RetryObserve(r, a) PROVE LowerTiersDone(r)'
    BY <1>17, RetryObserveOwn
  <1> QED BY <1>1, <1>2, <1>3, <1>4, <1>5, <1>6, <1>7, <1>8, <1>9,
             <1>10, <1>11, <1>12, <1>13, <1>14, <1>15, <1>16, <1>17 DEF OwnStep, RunStep

-----------------------------------------------------------------------------
(* The invariant of every run.                                             *)

RunInv(r) ==
    /\ Phase(r) /\ AtWork(r) /\ Progress(r) /\ Conclusive(r)
    /\ Recorded(r) /\ SkipsSucceeded(r) /\ LowerTiersDone(r)

SagaInv == \A r \in Runs : RunInv(r)

\* At most the answer to a request arrives, or stays away.
OnlyAnswers(q) ==
    /\ SameControl(q) /\ sent'[q] = sent[q]
    /\ \A a \in Actions :
         \/ local'[q][a] = local[q][a]
         \/ local[q][a] = "waiting" /\ local'[q][a] \in {"executed", "errored"}

LEMMA AnswersKeepInv ==
  ASSUME TypeOK, NEW q \in Runs, RunInv(q), OnlyAnswers(q)
  PROVE  RunInv(q)'
  <1>1. /\ SameControl(q) /\ sent'[q] = sent[q]
        /\ \A a \in Actions : Busy(q, a)' <=> Busy(q, a)
    BY DEF OnlyAnswers, Busy
  <1> USE <1>1 DEF RunInv, SameControl
  <1>2. Phase(q)'
    BY DEF Phase
  <1>3. AtWork(q)'
    BY DEF AtWork, AllIdle, Busy
  <1>4. Progress(q)'
    BY DEF Progress
  <1>5. Conclusive(q)'
    BY DEF Conclusive
  <1>6. Recorded(q)'
    BY DEF Recorded, Latest
  <1>7. SkipsSucceeded(q)'
    BY DEF SkipsSucceeded
  <1>8. LowerTiersDone(q)'
    BY DEF LowerTiersDone, Tier
  <1> QED BY <1>2, <1>3, <1>4, <1>5, <1>6, <1>7, <1>8

\* A step is a run's own, a third party's, or leaves all runs waiting at most
\* for fewer answers.
LEMMA StepCases ==
  ASSUME TypeOK, [Next]_vars
  PROVE  \/ \E r \in Runs : OwnStep(r)
         \/ \E req \in inflight : Apply(req) \/ LoseAnswer(req)
         \/ \E a \in Actions : Tamper(a)
         \/ UNCHANGED vars
  BY DEF Next, OwnStep

LEMMA InvStep ==
  ASSUME TypeOK, SagaInv, [Next]_vars
  PROVE  SagaInv'
  <1> SUFFICES ASSUME NEW q \in Runs PROVE RunInv(q)'
    BY DEF SagaInv
  <1>1. RunInv(q)
    BY DEF SagaInv
  <1>2. ASSUME OwnStep(q) PROVE RunInv(q)'
    BY <1>1, <1>2, PhaseOwn, AtWorkOwn, ProgressOwn, ConclusiveOwn, RecordedOwn,
       SkipsSucceededOwn, LowerTiersDoneOwn DEF RunInv
  <1>3. ASSUME NEW r \in Runs, OwnStep(r), r # q PROVE OnlyAnswers(q)
    BY <1>3, OthersUntouched DEF OnlyAnswers, Untouched
  <1>4. ASSUME NEW req \in inflight, Apply(req) \/ LoseAnswer(req) PROVE OnlyAnswers(q)
    BY <1>4, AnswerFrame DEF OnlyAnswers
  <1>5. ASSUME NEW a \in Actions, Tamper(a) PROVE OnlyAnswers(q)
    BY <1>5, TamperFrame DEF OnlyAnswers
  <1>6. ASSUME UNCHANGED vars PROVE OnlyAnswers(q)
    BY <1>6, StutterFrame DEF OnlyAnswers, Untouched
  <1> QED BY <1>1, <1>2, <1>3, <1>4, <1>5, <1>6, StepCases, AnswersKeepInv

LEMMA InvInit == Init => SagaInv
  <1> SUFFICES ASSUME Init, NEW r \in Runs PROVE RunInv(r)
    BY DEF SagaInv
  <1>1. /\ cmd[r] = "none" /\ pc[r] = "idle" /\ retry[r] = {} /\ sent[r] = {}
        /\ runFile[r].status = "NONE" /\ AllIdle(r)
        /\ \A a \in Actions : cp[r][a] = "pending"
    BY DEF Init, NoRun, Pending, AllIdle
  <1> QED BY <1>1 DEF RunInv, Phase, AtWork, Progress, Conclusive, Recorded, SkipsSucceeded,
                       LowerTiersDone, AllIdle, Busy

LEMMA Invariant == Spec => [](TypeOK /\ SagaInv)
  <1>1. SagaInv /\ TypeOK /\ [Next]_vars => SagaInv'
    BY InvStep
  <1> QED BY <1>1, InvInit, TypeCorrect, PTL DEF Spec

\* The write-ahead rule of publish (snapshot before each tier) and reconcile
\* (snapshot before each retry): what a run asked the remote to write is marked
\* in its latest durable snapshot, from which reconcile can go on.
THEOREM WriteAheadHolds == Spec => []WriteAhead
  <1>1. TypeOK /\ SagaInv => WriteAhead
    BY DEF TypeOK, SagaInv, RunInv, Recorded, WriteAhead
  <1> QED BY <1>1, Invariant, PTL

\* The protection of succeeded checkpoints in reconcile's scan holds through
\* every later step of that reconcile: none of them is ever executed.
THEOREM SucceededNeverResentHolds == Spec => []SucceededNeverResent
  <1>1. SagaInv => SucceededNeverResent
    BY DEF SagaInv, RunInv, SkipsSucceeded, SucceededNeverResent
  <1> QED BY <1>1, Invariant, PTL

-----------------------------------------------------------------------------
(* Against the remote: tiers, and the truth of PUBLISHED.                  *)

\* An observation that matches shows the planned object.
LEMMA MatchIsPlanned ==
  ASSUME NEW a \in Actions, NEW read \in Reads(a), read.view = "match"
  PROVE  remote[a] = "planned"
  BY DEF Reads, View, PushView, DefaultBranchView, ReleaseView

LEMMA DoneNeedsMatch ==
  ASSUME NEW reply, NEW view, Outcome(reply, view) \in Done
  PROVE  view = "match"
  BY DEF Outcome

\* No request turns the planned object into another one.
LEMMA EffectsKeepPlanned ==
  ASSUME NEW a \in Actions, NEW op, NEW effect \in Effects(a, op), remote[a] = "planned"
  PROVE  effect.value = "planned"
  BY DEF Effects

LEMMA TamperNeverPlans == ASSUME NEW a PROVE "planned" \notin TamperValues(a)
  BY DEF TamperValues

\* What the remote does in a step, seen from one action.
LEMMA RemoteStep ==
  ASSUME TypeOK, [Next]_vars, NEW a \in Actions
  PROVE  /\ planned \subseteq planned'
         /\ remote'[a] = "planned" => remote[a] = "planned" \/ a \in planned'
         /\ remote[a] = "planned" =>
               remote'[a] = "planned" \/ \A r \in Runs : a \in drift'[r]
  <1>1. ASSUME NEW r \in Runs, OwnStep(r) PROVE SameRemote
    BY <1>1, StartPublishOwn, PersistFirstOwn, StartTierOwn, SettleTierOwn, StartReconcileOwn,
       ScanOwn, PreflightRetriesOwn, StartRetryOwn, CheckBranchesOwn, AppendFinalOwn,
       WriteRunOwn, CrashOwn, PreObserveOwn, PreflightOwn, SendOwn, PublishObserveOwn,
       RetryObserveOwn DEF OwnStep, RunStep
  <1>2. ASSUME NEW req \in inflight, Apply(req)
        PROVE  /\ planned \subseteq planned'
               /\ remote'[a] = "planned" => remote[a] = "planned" \/ a \in planned'
               /\ remote[a] = "planned" => remote'[a] = "planned"
    <2>1. req.action \in Actions
      BY DEF TypeOK, Request
    <2>2. PICK effect \in Effects(req.action, req.op) :
            /\ remote' = [remote EXCEPT ![req.action] = effect.value]
            /\ planned' = IF effect.value = "planned" THEN planned \cup {req.action} ELSE planned
      BY <1>2 DEF Apply
    <2> QED BY <2>1, <2>2, EffectsKeepPlanned DEF TypeOK
  <1>3. ASSUME NEW req \in inflight, LoseAnswer(req) PROVE SameRemote
    BY <1>3 DEF LoseAnswer, history, SameRemote
  <1>4. ASSUME NEW b \in Actions, Tamper(b)
        PROVE  /\ planned' = planned
               /\ remote'[a] = "planned" => remote[a] = "planned"
               /\ remote'[a] = remote[a] \/ \A r \in Runs : a \in drift'[r]
    BY <1>4, TamperNeverPlans DEF Tamper, TypeOK
  <1>5. ASSUME UNCHANGED vars PROVE SameRemote
    BY <1>5 DEF vars, world, history, SameRemote
  <1> QED BY <1>1, <1>2, <1>3, <1>4, <1>5, StepCases DEF SameRemote

\* What a run counts as done was on the remote when it looked.
DoneWasPlanned(r) ==
    \A a \in Actions : cp[r][a] \in Done \/ local[r][a] \in Done => a \in planned

PlannedSeen == \A a \in Actions : remote[a] = "planned" => a \in planned

SentAfterTiers(r) ==
    \A a \in sent[r] : \A b \in Actions : Tier(b) < Tier(a) => b \in planned

LEMMA DoneWasPlannedOwn ==
  ASSUME TypeOK, NEW r \in Runs, OwnStep(r),
         RunInv(r), PlannedSeen, DoneWasPlanned(r)
  PROVE  DoneWasPlanned(r)'
  <1> USE DEF DoneWasPlanned, PlannedSeen, SameRemote, AllIdle, LocalMoves, CheckpointMoves
  <1>1. CASE StartPublish(r)
    BY <1>1, StartPublishOwn
  <1>2. CASE PersistFirst(r)
    BY <1>2, PersistFirstOwn
  <1>3. CASE StartTier(r)
    BY <1>3, StartTierOwn
  <1>4. CASE SettleTier(r)
    BY <1>4, SettleTierOwn
  <1>5. CASE StartReconcile(r)
    BY <1>5, StartReconcileOwn
  <1>6. CASE Scan(r)
    <2>1. todo[r] \subseteq Actions
      BY DEF TypeOK
    <2>2. /\ local'[r] = local[r] /\ SameRemote
          /\ \/ cp'[r] = cp[r]
             \/ \E a \in Actions : /\ remote[a] = "planned"
                                  /\ \E s \in Done : CheckpointMoves(r, a, s)
      BY <1>6, <2>1, ScanOwn, MatchIsPlanned
    <2> QED BY <2>2
  <1>7. CASE PreflightRetries(r)
    BY <1>7, PreflightRetriesOwn
  <1>8. CASE StartRetry(r)
    BY <1>8, StartRetryOwn
  <1>9. CASE CheckBranches(r)
    BY <1>9, CheckBranchesOwn
  <1>10. CASE AppendFinal(r)
    BY <1>10, AppendFinalOwn
  <1>11. CASE WriteRun(r)
    BY <1>11, WriteRunOwn
  <1>12. CASE Crash(r)
    BY <1>12, CrashOwn
  <1>13. ASSUME NEW a \in Actions, PreObserve(r, a) PROVE DoneWasPlanned(r)'
    BY <1>13, PreObserveOwn, MatchIsPlanned
  <1>14. ASSUME NEW a \in Actions, Preflight(r, a) PROVE DoneWasPlanned(r)'
    BY <1>14, PreflightOwn
  <1>15. ASSUME NEW a \in Actions, Send(r, a) PROVE DoneWasPlanned(r)'
    BY <1>15, SendOwn
  <1>16. ASSUME NEW a \in Actions, PublishObserve(r, a) PROVE DoneWasPlanned(r)'
    BY <1>16, PublishObserveOwn, MatchIsPlanned, DoneNeedsMatch
  <1>17. ASSUME NEW a \in Actions, RetryObserve(r, a) PROVE DoneWasPlanned(r)'
    BY <1>17, RetryObserveOwn, MatchIsPlanned, DoneNeedsMatch
  <1> QED BY <1>1, <1>2, <1>3, <1>4, <1>5, <1>6, <1>7, <1>8, <1>9,
             <1>10, <1>11, <1>12, <1>13, <1>14, <1>15, <1>16, <1>17 DEF OwnStep, RunStep

LEMMA SentAfterTiersOwn ==
  ASSUME TypeOK, NEW r \in Runs, OwnStep(r),
         RunInv(r), DoneWasPlanned(r), SentAfterTiers(r)
  PROVE  SentAfterTiers(r)'
  <1> USE DEF SentAfterTiers, SameRemote, Tier
  <1>1. CASE StartPublish(r)
    BY <1>1, StartPublishOwn
  <1>2. CASE PersistFirst(r)
    BY <1>2, PersistFirstOwn
  <1>3. CASE StartTier(r)
    BY <1>3, StartTierOwn
  <1>4. CASE SettleTier(r)
    BY <1>4, SettleTierOwn
  <1>5. CASE StartReconcile(r)
    BY <1>5, StartReconcileOwn
  <1>6. CASE Scan(r)
    BY <1>6, ScanOwn
  <1>7. CASE PreflightRetries(r)
    BY <1>7, PreflightRetriesOwn
  <1>8. CASE StartRetry(r)
    BY <1>8, StartRetryOwn
  <1>9. CASE CheckBranches(r)
    BY <1>9, CheckBranchesOwn
  <1>10. CASE AppendFinal(r)
    BY <1>10, AppendFinalOwn
  <1>11. CASE WriteRun(r)
    BY <1>11, WriteRunOwn
  <1>12. CASE Crash(r)
    BY <1>12, CrashOwn
  <1>13. ASSUME NEW a \in Actions, PreObserve(r, a) PROVE SentAfterTiers(r)'
    BY <1>13, PreObserveOwn
  <1>14. ASSUME NEW a \in Actions, Preflight(r, a) PROVE SentAfterTiers(r)'
    BY <1>14, PreflightOwn
  <1>15. ASSUME NEW a \in Actions, Send(r, a) PROVE SentAfterTiers(r)'
    <2>1. sent'[r] \subseteq sent[r] \cup {a} /\ local[r][a] = "execute" /\ SameRemote
      BY <1>15, SendOwn
    <2>2. \A b \in Actions : Tier(b) < Tier(a) => b \in planned
      BY <2>1 DEF RunInv, LowerTiersDone, Busy, DoneWasPlanned
    <2> QED BY <2>1, <2>2
  <1>16. ASSUME NEW a \in Actions, PublishObserve(r, a) PROVE SentAfterTiers(r)'
    BY <1>16, PublishObserveOwn
  <1>17. ASSUME NEW a \in Actions, RetryObserve(r, a) PROVE SentAfterTiers(r)'
    BY <1>17, RetryObserveOwn
  <1> QED BY <1>1, <1>2, <1>3, <1>4, <1>5, <1>6, <1>7, <1>8, <1>9,
             <1>10, <1>11, <1>12, <1>13, <1>14, <1>15, <1>16, <1>17 DEF OwnStep, RunStep

\* The object is there, or a third party touched it since the run last saw it.
Excused(r, a) == remote[a] = "planned" \/ a \in drift[r]

\* What the run counts as done is there now, or excused.
DoneIsTrue(r) ==
    /\ pc[r] \in {"first", "tier", "run", "scan", "preflight", "retry"} =>
          \A a \in Actions : cp[r][a] \in Done \/ local[r][a] \in Done => Excused(r, a)
    /\ pc[r] = "check" => \A a \in Actions \ todo[r] : Excused(r, a)
    /\ pc[r] \in {"append", "write"} /\ (\A a \in Actions : cp[r][a] \in Done) =>
          \A a \in Actions : Excused(r, a)

RunFileIsTrue(r) ==
    runFile[r].status = "PUBLISHED" => \A a \in Actions : Excused(r, a)

LEMMA DoneIsTrueOwn ==
  ASSUME TypeOK, NEW r \in Runs, OwnStep(r),
         RunInv(r), DoneIsTrue(r)
  PROVE  DoneIsTrue(r)'
  <1> USE DEF DoneIsTrue, Excused, SameRemote, AllIdle, LocalMoves, CheckpointMoves,
             Ended, BranchActions
  <1>1. CASE StartPublish(r)
    BY <1>1, StartPublishOwn DEF RunInv, Phase, AtWork
  <1>2. CASE PersistFirst(r)
    BY <1>2, PersistFirstOwn
  <1>3. CASE StartTier(r)
    BY <1>3, StartTierOwn
  <1>4. CASE SettleTier(r)
    BY <1>4, SettleTierOwn
  <1>5. CASE StartReconcile(r)
    BY <1>5, StartReconcileOwn DEF RunInv, Phase, AtWork
  <1>6. CASE Scan(r)
    <2>1. todo[r] \subseteq Actions
      BY DEF TypeOK
    <2>2. /\ pc[r] = "scan" /\ pc'[r] \in {"refused", "scan", "preflight"}
          /\ local'[r] = local[r] /\ SameRemote
          /\ \A b \in drift[r] : b \in drift'[r] \/ remote[b] = "planned"
          /\ \A b \in Actions :
               cp'[r][b] \in Done => cp[r][b] \in Done \/ remote[b] = "planned"
      BY <1>6, <2>1, ScanOwn, MatchIsPlanned
    <2> QED BY <2>2
  <1>7. CASE PreflightRetries(r)
    <2>1. /\ pc[r] = "preflight" /\ local'[r] = local[r] /\ SameRemote /\ retry[r] \subseteq Actions
          /\ \/ /\ retry[r] = {} /\ pc'[r] = "check" /\ todo'[r] = BranchActions
                /\ drift'[r] = drift[r] \ BranchActions
             \/ pc'[r] = "retry" /\ cp'[r] = cp[r] /\ drift'[r] = drift[r]
             \/ pc'[r] = "append" /\ \E a \in Actions : cp'[r][a] = "failed"
      BY <1>7, PreflightRetriesOwn DEF TypeOK
    <2>2. retry[r] = {} => \A a \in Actions : cp[r][a] \in Done
      BY <2>1 DEF RunInv, Progress
    <2> QED BY <2>1, <2>2
  <1>8. CASE StartRetry(r)
    BY <1>8, StartRetryOwn
  <1>9. CASE CheckBranches(r)
    <2>1. todo[r] \subseteq Actions
      BY DEF TypeOK
    <2>2. /\ pc[r] = "check" /\ SameRemote
          /\ \A b \in drift[r] : b \in drift'[r] \/ remote[b] = "planned"
          /\ \/ todo[r] = {} /\ pc'[r] = "append"
             \/ /\ pc'[r] = "check"
                /\ \A b \in todo[r] : b \in todo'[r] \/ remote[b] = "planned"
             \/ pc'[r] = "append" /\ \E a \in Actions : cp'[r][a] \notin Done
      BY <1>9, <2>1, CheckBranchesOwn, MatchIsPlanned
    <2> QED BY <2>2
  <1>10. CASE AppendFinal(r)
    BY <1>10, AppendFinalOwn
  <1>11. CASE WriteRun(r)
    BY <1>11, WriteRunOwn
  <1>12. CASE Crash(r)
    <2>1. pc'[r] = "crashed"
      BY <1>12, CrashOwn
    <2> QED BY <2>1
  <1>13. ASSUME NEW a \in Actions, PreObserve(r, a) PROVE DoneIsTrue(r)'
    BY <1>13, PreObserveOwn, MatchIsPlanned
  <1>14. ASSUME NEW a \in Actions, Preflight(r, a) PROVE DoneIsTrue(r)'
    BY <1>14, PreflightOwn
  <1>15. ASSUME NEW a \in Actions, Send(r, a) PROVE DoneIsTrue(r)'
    BY <1>15, SendOwn
  <1>16. ASSUME NEW a \in Actions, PublishObserve(r, a) PROVE DoneIsTrue(r)'
    BY <1>16, PublishObserveOwn, MatchIsPlanned, DoneNeedsMatch
  <1>17. ASSUME NEW a \in Actions, RetryObserve(r, a) PROVE DoneIsTrue(r)'
    <2>1. PICK read \in Reads(a) :
            LET complete == \A b \in Actions : cp'[r][b] \in Done
            IN  /\ pc[r] = "run" /\ SameRemote /\ LocalMoves(r, a, "idle")
                /\ CheckpointMoves(r, a, Outcome(local[r][a], read.view))
                /\ \/ pc'[r] = "append" /\ cp'[r][a] # "succeeded"
                   \/ pc'[r] = "check" /\ complete /\ todo'[r] = BranchActions
                   \/ pc'[r] = "retry" /\ ~ complete
                /\ drift'[r] = drift[r] \ {b \in Actions : \/ b = a /\ read.view = "match"
                                                           \/ complete /\ Type[b] \in BranchTypes}
      BY <1>17, RetryObserveOwn
    <2>2. cp'[r][a] \in {"succeeded", "failed", "uncertain"}
      BY <2>1, OutcomeType
    <2>3. read.view = "match" => remote[a] = "planned"
      BY MatchIsPlanned
    <2>4. cp'[r][a] \in Done => remote[a] = "planned"
      BY <2>1, <2>3, DoneNeedsMatch
    <2>5. /\ pc'[r] = "append" => \E b \in Actions : cp'[r][b] \notin Done
          /\ \A b \in drift[r] : \/ b \in drift'[r] \/ remote[b] = "planned"
                                 \/ pc'[r] # "retry" /\ b \in BranchActions
      BY <2>1, <2>2, <2>3
    <2>6. \A b \in Actions : cp'[r][b] \in Done => cp[r][b] \in Done \/ remote[b] = "planned"
      BY <2>1, <2>4
    <2> QED BY <2>1, <2>5, <2>6
  <1> QED BY <1>1, <1>2, <1>3, <1>4, <1>5, <1>6, <1>7, <1>8, <1>9,
             <1>10, <1>11, <1>12, <1>13, <1>14, <1>15, <1>16, <1>17 DEF OwnStep, RunStep

LEMMA RunFileIsTrueOwn ==
  ASSUME TypeOK, NEW r \in Runs, OwnStep(r),
         RunInv(r), DoneIsTrue(r), RunFileIsTrue(r)
  PROVE  RunFileIsTrue(r)'
  <1> USE DEF RunFileIsTrue, RunInv, Phase, SameRemote, Ended
  <1>1. CASE StartPublish(r)
    BY <1>1, StartPublishOwn
  <1>2. CASE PersistFirst(r)
    BY <1>2, PersistFirstOwn
  <1>3. CASE StartTier(r)
    BY <1>3, StartTierOwn
  <1>4. CASE SettleTier(r)
    BY <1>4, SettleTierOwn
  <1>5. CASE StartReconcile(r)
    BY <1>5, StartReconcileOwn
  <1>6. CASE Scan(r)
    BY <1>6, ScanOwn
  <1>7. CASE PreflightRetries(r)
    BY <1>7, PreflightRetriesOwn
  <1>8. CASE StartRetry(r)
    BY <1>8, StartRetryOwn
  <1>9. CASE CheckBranches(r)
    BY <1>9, CheckBranchesOwn
  <1>10. CASE AppendFinal(r)
    BY <1>10, AppendFinalOwn
  <1>11. CASE WriteRun(r)
    BY <1>11, WriteRunOwn DEF DoneIsTrue, OverallStatus, Excused
  <1>12. CASE Crash(r)
    BY <1>12, CrashOwn
  <1>13. ASSUME NEW a \in Actions, PreObserve(r, a) PROVE RunFileIsTrue(r)'
    BY <1>13, PreObserveOwn
  <1>14. ASSUME NEW a \in Actions, Preflight(r, a) PROVE RunFileIsTrue(r)'
    BY <1>14, PreflightOwn
  <1>15. ASSUME NEW a \in Actions, Send(r, a) PROVE RunFileIsTrue(r)'
    BY <1>15, SendOwn
  <1>16. ASSUME NEW a \in Actions, PublishObserve(r, a) PROVE RunFileIsTrue(r)'
    BY <1>16, PublishObserveOwn
  <1>17. ASSUME NEW a \in Actions, RetryObserve(r, a) PROVE RunFileIsTrue(r)'
    BY <1>17, RetryObserveOwn
  <1> QED BY <1>1, <1>2, <1>3, <1>4, <1>5, <1>6, <1>7, <1>8, <1>9,
             <1>10, <1>11, <1>12, <1>13, <1>14, <1>15, <1>16, <1>17 DEF OwnStep, RunStep

-----------------------------------------------------------------------------
(* The second layer of the invariant, for every run and every step.        *)

WorldInv ==
    /\ PlannedSeen
    /\ \A r \in Runs : /\ DoneWasPlanned(r) /\ SentAfterTiers(r)
                       /\ DoneIsTrue(r) /\ RunFileIsTrue(r)

\* A step of the remote, of a third party or of another run excuses as much.
LEMMA WorldKeepsInv ==
  ASSUME TypeOK, [Next]_vars, NEW q \in Runs, OnlyAnswers(q), drift[q] \subseteq drift'[q],
         DoneWasPlanned(q), SentAfterTiers(q), DoneIsTrue(q), RunFileIsTrue(q)
  PROVE  /\ DoneWasPlanned(q)' /\ SentAfterTiers(q)'
         /\ DoneIsTrue(q)' /\ RunFileIsTrue(q)'
  <1>1. \A a \in Actions : /\ Excused(q, a) => Excused(q, a)'
                           /\ a \in planned => a \in planned'
    BY RemoteStep DEF Excused
  <1>2. /\ SameControl(q) /\ sent'[q] = sent[q]
        /\ \A a \in Actions : local'[q][a] \in Done => local[q][a] \in Done
    BY DEF OnlyAnswers
  <1> USE <1>1, <1>2 DEF SameControl
  <1>3. DoneWasPlanned(q)'
    BY DEF DoneWasPlanned
  <1>4. SentAfterTiers(q)'
    BY DEF SentAfterTiers, Tier
  <1>5. DoneIsTrue(q)'
    BY DEF DoneIsTrue
  <1>6. RunFileIsTrue(q)'
    BY DEF RunFileIsTrue
  <1> QED BY <1>3, <1>4, <1>5, <1>6

LEMMA WorldStep ==
  ASSUME TypeOK, SagaInv, WorldInv, [Next]_vars
  PROVE  WorldInv'
  <1>1. PlannedSeen'
    BY RemoteStep DEF PlannedSeen, WorldInv
  <1>2. ASSUME NEW q \in Runs
        PROVE  /\ DoneWasPlanned(q)' /\ SentAfterTiers(q)'
               /\ DoneIsTrue(q)' /\ RunFileIsTrue(q)'
    <2>1. /\ RunInv(q) /\ PlannedSeen /\ DoneWasPlanned(q) /\ SentAfterTiers(q)
          /\ DoneIsTrue(q) /\ RunFileIsTrue(q)
      BY DEF SagaInv, WorldInv
    <2>2. CASE OwnStep(q)
      BY <2>1, <2>2, DoneWasPlannedOwn, SentAfterTiersOwn, DoneIsTrueOwn, RunFileIsTrueOwn
    <2>3. ASSUME NEW r \in Runs, OwnStep(r), r # q
          PROVE  OnlyAnswers(q) /\ drift[q] \subseteq drift'[q]
      BY <2>3, OthersUntouched DEF OnlyAnswers, Untouched
    <2>4. ASSUME NEW req \in inflight, Apply(req) \/ LoseAnswer(req)
          PROVE  OnlyAnswers(q) /\ drift[q] \subseteq drift'[q]
      BY <2>4, AnswerFrame DEF OnlyAnswers
    <2>5. ASSUME NEW a \in Actions, Tamper(a)
          PROVE  OnlyAnswers(q) /\ drift[q] \subseteq drift'[q]
      BY <2>5, TamperFrame DEF OnlyAnswers
    <2>6. ASSUME UNCHANGED vars
          PROVE  OnlyAnswers(q) /\ drift[q] \subseteq drift'[q]
      BY <2>6, StutterFrame DEF OnlyAnswers, Untouched
    <2> QED BY <2>1, <2>2, <2>3, <2>4, <2>5, <2>6, StepCases, WorldKeepsInv
  <1> QED BY <1>1, <1>2 DEF WorldInv

LEMMA WorldInit == Init => WorldInv
  <1> SUFFICES ASSUME Init PROVE WorldInv
    OBVIOUS
  <1>1. PlannedSeen
    BY DEF Init, PlannedSeen, Initial
  <1>2. ASSUME NEW r \in Runs
        PROVE  /\ DoneWasPlanned(r) /\ SentAfterTiers(r)
               /\ DoneIsTrue(r) /\ RunFileIsTrue(r)
    <2>1. /\ pc[r] = "idle" /\ sent[r] = {} /\ runFile[r].status = "NONE"
          /\ \A a \in Actions : cp[r][a] = "pending" /\ local[r][a] = "idle"
      BY DEF Init, NoRun, Pending
    <2> QED BY <2>1 DEF DoneWasPlanned, SentAfterTiers, DoneIsTrue, RunFileIsTrue
  <1> QED BY <1>1, <1>2 DEF WorldInv

LEMMA WorldInvariant == Spec => []WorldInv
  <1>1. TypeOK /\ SagaInv /\ WorldInv /\ [Next]_vars => WorldInv'
    BY WorldStep
  <1> QED BY <1>1, WorldInit, Invariant, PTL DEF Spec

\* The tier barrier of publish and the single-step order of reconcile hold
\* against the remote: no run, whatever authority it started from, asks for a
\* write before the objects of every lower tier have existed.
THEOREM TiersRespectedHolds == Spec => []TiersRespected
  <1>1. WorldInv => TiersRespected
    BY DEF WorldInv, SentAfterTiers, TiersRespected
  <1> QED BY <1>1, WorldInvariant, PTL

\* PUBLISHED in release-run.json means that every planned object is on the
\* remote, unless a third party changed it after this run last saw it match.
THEOREM PublishedIsTrueHolds == Spec => []PublishedIsTrue
  <1>1. WorldInv => PublishedIsTrue
    BY DEF WorldInv, RunFileIsTrue, Excused, PublishedIsTrue
  <1> QED BY <1>1, WorldInvariant, PTL

=============================================================================
