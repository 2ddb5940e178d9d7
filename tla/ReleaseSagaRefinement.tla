----------------------- MODULE ReleaseSagaRefinement -----------------------
(***************************************************************************)
(* What the durable record says of the remotes: the journals never call    *)
(* done what was not there, a reconcile refuses only for a reason, and the *)
(* release saga implements TieredRelease.                                  *)
(***************************************************************************)
EXTENDS ReleaseSagaSafety

USE DEF Settled, Done, CpStatus, BranchTypes

-----------------------------------------------------------------------------
(* How a run's durable record grows.                                       *)

JournalGrows(r) ==
    \/ journal'[r] = journal[r]
    \/ \E status \in RunStatus :
          journal'[r] = Append(journal[r], [status |-> status, cp |-> cp'[r]])

RunFileGrows(r) ==
    \/ runFile'[r] = runFile[r]
    \/ /\ pc[r] = "write" /\ cp'[r] = cp[r] /\ journal'[r] = journal[r]
       /\ runFile'[r] = [status |-> OverallStatus(cmd[r], cp[r]), cp |-> cp'[r]]

LEMMA AppendGrows ==
  ASSUME TypeOK, NEW r \in Runs, NEW status \in RunStatus, NEW c \in [Actions -> CpStatus],
         AppendState(r, status, c), cp' = [cp EXCEPT ![r] = c]
  PROVE  JournalGrows(r)
  BY DEF AppendState, JournalGrows, TypeOK

\* A step appends its own checkpoints to its own journal, or leaves it alone.
LEMMA JournalOwn ==
  ASSUME TypeOK, NEW r \in Runs, OwnStep(r)
  PROVE  JournalGrows(r)
  <1> DEFINE settled == [a \in Actions |-> IF local[r][a] \in Settled THEN local[r][a] ELSE cp[r][a]]
             tier == TierOf({a \in Actions : cp[r][a] = "pending"})
  <1> cp[r] \in [Actions -> CpStatus] /\ cp = [cp EXCEPT ![r] = cp[r]]
    BY DEF TypeOK
  <1> settled \in [Actions -> CpStatus] /\ Marked(cp[r], tier) \in [Actions -> CpStatus]
    BY DEF TypeOK, Marked
  <1> {"PUBLISHING", "PARTIAL"} \subseteq RunStatus
    BY DEF RunStatus
  <1> HIDE DEF settled, tier
  <1> USE DEF durable, world, history
  <1>1. CASE StartPublish(r) \/ StartReconcile(r) \/ Scan(r) \/ CheckBranches(r) \/ WriteRun(r)
             \/ Crash(r)
    BY <1>1 DEF StartPublish, StartReconcile, Scan, CheckBranches, WriteRun, Crash, JournalGrows
  <1>2. CASE PersistFirst(r)
    BY <1>2, AppendGrows DEF PersistFirst
  <1>3. CASE StartTier(r)
    BY <1>3, AppendGrows DEF StartTier, tier
  <1>4. CASE SettleTier(r)
    BY <1>4, AppendGrows DEF SettleTier, settled
  <1>5. CASE PreflightRetries(r)
    <2>1. \/ UNCHANGED journal
          \/ AppendState(r, "PUBLISHING", cp[r]) /\ UNCHANGED cp
      BY <1>5 DEF PreflightRetries
    <2> QED BY <2>1, AppendGrows DEF JournalGrows
  <1>6. CASE StartRetry(r)
    <2>1. PICK a \in Actions :
            /\ AppendState(r, "PARTIAL", [cp[r] EXCEPT ![a] = "uncertain"])
            /\ cp' = [cp EXCEPT ![r] = [cp[r] EXCEPT ![a] = "uncertain"]]
      BY <1>6 DEF StartRetry, TypeOK
    <2> QED BY <2>1, AppendGrows
  <1>7. CASE AppendFinal(r)
    <2>1. OverallStatus(cmd[r], cp[r]) \in RunStatus
      BY StatusType DEF RunStatus
    <2>2. \/ UNCHANGED journal
          \/ AppendState(r, OverallStatus(cmd[r], cp[r]), cp[r]) /\ UNCHANGED cp
      BY <1>7 DEF AppendFinal
    <2> QED BY <2>1, <2>2, AppendGrows DEF JournalGrows
  <1>8. ASSUME NEW a \in Actions,
               PreObserve(r, a) \/ Preflight(r, a) \/ Send(r, a) \/ PublishObserve(r, a)
        PROVE  JournalGrows(r)
    BY <1>8 DEF PreObserve, Preflight, Send, PublishObserve, JournalGrows
  <1>9. ASSUME NEW a \in Actions, RetryObserve(r, a)
        PROVE  JournalGrows(r)
    <2>1. PICK read \in Reads(a) :
            LET cps == [cp[r] EXCEPT ![a] = Outcome(local[r][a], read.view)]
            IN  AppendState(r, "PARTIAL", cps) /\ cp' = [cp EXCEPT ![r] = cps]
      BY <1>9 DEF RetryObserve
    <2>2. [cp[r] EXCEPT ![a] = Outcome(local[r][a], read.view)] \in [Actions -> CpStatus]
      BY OutcomeType
    <2> QED BY <2>1, <2>2, AppendGrows
  <1> QED BY <1>1, <1>2, <1>3, <1>4, <1>5, <1>6, <1>7, <1>8, <1>9 DEF OwnStep, RunStep

\* Only its last step writes a run's release-run.json.
LEMMA RunFileOwn ==
  ASSUME TypeOK, NEW r \in Runs, OwnStep(r)
  PROVE  RunFileGrows(r)
  <1>1. CASE WriteRun(r)
    BY <1>1 DEF WriteRun, RunFileGrows, TypeOK
  <1>2. CASE ~ WriteRun(r)
    BY <1>2 DEF OwnStep, RunStep, RunFileGrows, durable, StartPublish, PersistFirst, StartTier,
       SettleTier, StartReconcile, Scan, PreflightRetries, StartRetry, CheckBranches, AppendFinal,
       Crash, PreObserve, Preflight, Send, PublishObserve, RetryObserve
  <1> QED BY <1>1, <1>2

\* A reconcile's source is some run's snapshot, and stays the one it started from.
LEMMA SourceOwn ==
  ASSUME TypeOK, NEW r \in Runs, OwnStep(r)
  PROVE  src'[r] = src[r] \/ \E q \in Runs : src'[r] \in Authorities(q)
  <1>1. CASE StartReconcile(r)
    BY <1>1 DEF StartReconcile, TypeOK
  <1>2. CASE ~ StartReconcile(r)
    BY <1>2 DEF OwnStep, RunStep, StartPublish, PersistFirst, StartTier, SettleTier, Scan,
       PreflightRetries, StartRetry, CheckBranches, AppendFinal, WriteRun, Crash, PreObserve,
       Preflight, Send, PublishObserve, RetryObserve
  <1> QED BY <1>1, <1>2

\* A run's own step neither writes to a remote nor takes part in tampering.
LEMMA RemoteOwn ==
  ASSUME TypeOK, NEW r \in Runs, OwnStep(r)
  PROVE  SameRemote /\ tampers' = tampers
  <1> USE DEF OwnStep, RunStep, SameRemote, world, history, StartPublish, PersistFirst, StartTier, SettleTier,
       StartReconcile, Scan, PreflightRetries, StartRetry, CheckBranches, AppendFinal, WriteRun,
       Crash, PreObserve, Preflight, Send, PublishObserve, RetryObserve
  <1>1. remote' = remote
    OBVIOUS
  <1>2. planned' = planned
    OBVIOUS
  <1>3. tampers' = tampers
    OBVIOUS
  <1> QED BY <1>1, <1>2, <1>3

-----------------------------------------------------------------------------
(* The invariant: what the record and the remotes have to do with each     *)
(* other.                                                                  *)

\* A run opens its journal only when it is about to write.
Unopened(r) == pc[r] \in {"idle", "first", "scan", "preflight"} => journal[r] = <<>>

\* In a run that keeps a journal, whatever has left the pending state has all
\* lower tiers behind it.
StartedAfterTiers(r) ==
    journal[r] # <<>> =>
        \A a, b \in Actions : cp[r][a] # "pending" /\ Tier(b) < Tier(a) => b \in planned

\* What a checkpoint vector calls done has been on the remote.
TruthfulCp(c) == \A a \in Actions : c[a] \in Done => a \in planned

\* No snapshot, result or recovery source calls done what was never there.
RecordTruthful(r) ==
    /\ \A i \in DOMAIN journal[r] : TruthfulCp(journal[r][i].cp)
    /\ TruthfulCp(runFile[r].cp)
    /\ TruthfulCp(src[r].cp)

RequestsSent == \A req \in inflight : req.action \in sent[req.run]

\* The objects came into being tier by tier.
TierByTier == \A a, b \in Actions : a \in planned /\ Tier(b) < Tier(a) => b \in planned

\* With nobody else writing, an object is as planned, or as the first attempt
\* found it, or a release an interrupted request left without its assets.
Undisturbed ==
    tampers = 0 =>
        \A a \in Actions :
            /\ a \in planned => remote[a] = "planned"
            /\ a \notin planned =>
                  \/ remote[a] = Initial(a)
                  \/ Type[a] = "github-release" /\ remote[a] = "partial"

RecordInv ==
    /\ \A r \in Runs : Unopened(r) /\ StartedAfterTiers(r) /\ RecordTruthful(r)
    /\ RequestsSent /\ TierByTier /\ Undisturbed

LEMMA UnopenedOwn ==
  ASSUME TypeOK, NEW r \in Runs, OwnStep(r), Unopened(r)
  PROVE  Unopened(r)'
  <1> USE DEF Unopened, Ended
  <1>1. CASE StartPublish(r)
    BY <1>1, StartPublishOwn
  <1>2. CASE PersistFirst(r)
    BY <1>2, PersistFirstOwn
  <1>3. CASE StartTier(r)
    BY <1>3, StartTierOwn
  <1>4. CASE SettleTier(r)
    BY <1>4, SettleTierOwn
  <1>5. CASE StartReconcile(r)
    BY <1>5, StartReconcileOwn
  <1>6. CASE Scan(r)
    BY <1>6, ScanOwn
  <1>7. CASE PreflightRetries(r)
    BY <1>7, PreflightRetriesOwn
  <1>8. CASE StartRetry(r)
    BY <1>8, StartRetryOwn
  <1>9. CASE CheckBranches(r)
    BY <1>9, CheckBranchesOwn
  <1>10. CASE AppendFinal(r)
    BY <1>10, AppendFinalOwn
  <1>11. CASE WriteRun(r)
    BY <1>11, WriteRunOwn
  <1>12. CASE Crash(r)
    BY <1>12, CrashOwn
  <1>13. ASSUME NEW a \in Actions, PreObserve(r, a) PROVE Unopened(r)'
    BY <1>13, PreObserveOwn
  <1>14. ASSUME NEW a \in Actions, Preflight(r, a) PROVE Unopened(r)'
    BY <1>14, PreflightOwn
  <1>15. ASSUME NEW a \in Actions, Send(r, a) PROVE Unopened(r)'
    BY <1>15, SendOwn
  <1>16. ASSUME NEW a \in Actions, PublishObserve(r, a) PROVE Unopened(r)'
    BY <1>16, PublishObserveOwn
  <1>17. ASSUME NEW a \in Actions, RetryObserve(r, a) PROVE Unopened(r)'
    BY <1>17, RetryObserveOwn
  <1> QED BY <1>1, <1>2, <1>3, <1>4, <1>5, <1>6, <1>7, <1>8, <1>9,
             <1>10, <1>11, <1>12, <1>13, <1>14, <1>15, <1>16, <1>17 DEF OwnStep, RunStep

\* A step that starts nothing new, and calls done only what was there.
NothingStarted(r) ==
    \A a \in Actions : cp'[r][a] # "pending" => cp[r][a] # "pending" \/ a \in planned

LEMMA StartedAfterTiersOwn ==
  ASSUME TypeOK, NEW r \in Runs, OwnStep(r), RunInv(r), DoneWasPlanned(r), PlannedSeen,
         TierByTier, Unopened(r), StartedAfterTiers(r)
  PROVE  StartedAfterTiers(r)'
  <1>0. planned' = planned
    BY RemoteOwn DEF SameRemote
  <1>a. ASSUME journal[r] # <<>>, NothingStarted(r)
        PROVE  StartedAfterTiers(r)'
    BY <1>0, <1>a DEF StartedAfterTiers, NothingStarted, TierByTier, Tier
  <1>b. ASSUME journal'[r] = <<>>
        PROVE  StartedAfterTiers(r)'
    BY <1>b DEF StartedAfterTiers
  <1>c. ASSUME \A a \in Actions : cp'[r][a] # "pending" => a \in planned
        PROVE  StartedAfterTiers(r)'
    BY <1>0, <1>c DEF StartedAfterTiers, TierByTier, Tier
  <1>d. \A a \in Actions : cp[r][a] \in Done => a \in planned
    BY DEF DoneWasPlanned
  <1> USE DEF NothingStarted, CheckpointMoves, LocalMoves
  <1>1. CASE StartPublish(r)
    BY <1>1, <1>b, StartPublishOwn DEF Unopened
  <1>2. CASE PersistFirst(r)
    BY <1>2, <1>c, PersistFirstOwn DEF RunInv, Progress
  <1>3. CASE StartTier(r)
    <2>1. PICK tier \in SUBSET Actions :
            /\ pc[r] = "tier"
            /\ \A a \in tier, b \in Actions : Tier(b) < Tier(a) => cp[r][b] # "pending"
            /\ \A a \in Actions :
                  IF a \in tier
                  THEN cp[r][a] = "pending" /\ cp'[r][a] = "uncertain" /\ local'[r][a] = "preobserve"
                  ELSE cp'[r][a] = cp[r][a] /\ local'[r][a] = "idle"
      BY <1>3, StartTierOwn
    <2>2. \A b \in Actions : cp[r][b] # "pending" => b \in planned
      BY <2>1, <1>d DEF RunInv, Progress
    <2>3. ASSUME NEW a \in Actions, NEW b \in Actions, cp'[r][a] # "pending", Tier(b) < Tier(a)
          PROVE  b \in planned
      <3>1. CASE a \in tier
        BY <2>1, <2>2, <2>3, <3>1
      <3>2. CASE a \notin tier
        BY <2>1, <2>2, <2>3, <3>2 DEF TierByTier
      <3> QED BY <3>1, <3>2
    <2> QED BY <2>3, <1>0 DEF StartedAfterTiers, Tier
  <1>4. CASE SettleTier(r)
    <2>1. /\ pc[r] = "run"
          /\ \A a \in Actions : cp'[r][a] = IF local[r][a] \in Settled THEN local[r][a] ELSE cp[r][a]
      BY <1>4, SettleTierOwn
    <2>2. ASSUME NEW a \in Actions, cp'[r][a] # "pending"
          PROVE  cp[r][a] # "pending"
      BY <2>1, <2>2 DEF RunInv, Progress, Busy
    <2>3. CASE journal[r] # <<>>
      BY <2>2, <2>3, <1>a
    <2>4. CASE journal[r] = <<>>
      <3>1. \A a \in Actions : ~ Busy(r, a)
        BY <2>4 DEF RunInv, Recorded
      <3>2. \A a \in Actions : cp'[r][a] = cp[r][a] /\ cp[r][a] \in Done \cup {"pending"}
        BY <2>1, <3>1 DEF RunInv, Progress, Busy
      <3> QED BY <3>2, <1>c, <1>d
    <2> QED BY <2>3, <2>4
  <1>5. CASE StartReconcile(r)
    BY <1>5, <1>b, StartReconcileOwn DEF Unopened
  <1>6. CASE Scan(r)
    BY <1>6, <1>b, ScanOwn DEF Unopened
  <1>7. CASE PreflightRetries(r)
    <2>1. pc[r] = "preflight" /\ journal[r] = <<>>
      BY <1>7, PreflightRetriesOwn DEF Unopened
    <2>2. journal'[r] = <<>> \/ cp'[r] = cp[r]
      BY <1>7, <2>1, PreflightRetriesOwn
    <2>3. \A a \in Actions : cp[r][a] # "pending" => a \in planned
      BY <2>1, <1>d DEF RunInv, Progress
    <2> QED BY <2>2, <2>3, <1>b, <1>c
  <1>8. CASE StartRetry(r)
    <2>1. PICK a \in retry[r] :
            /\ pc[r] = "retry"
            /\ \A b \in retry[r] : cp[r][b] = "pending" => Tier(a) <= Tier(b)
            /\ CheckpointMoves(r, a, "uncertain")
      BY <1>8, StartRetryOwn
    <2>2. \A b \in Actions : cp[r][b] # "pending" => b \in planned
      BY <2>1, <1>d DEF RunInv, Progress
    <2>3. \A b \in Actions : cp[r][b] = "pending" => Tier(a) <= Tier(b)
      BY <2>1 DEF RunInv, Progress
    <2>4. a \in Actions
      BY DEF TypeOK
    <2>5. ASSUME NEW c \in Actions, NEW b \in Actions, cp'[r][c] # "pending", Tier(b) < Tier(c)
          PROVE  b \in planned
      <3>1. CASE c = a
        BY <2>2, <2>3, <2>4, <2>5, <3>1, TierType
      <3>2. CASE c # a
        BY <2>1, <2>2, <2>5, <3>2 DEF TierByTier
      <3> QED BY <3>1, <3>2
    <2> QED BY <2>5, <1>0 DEF StartedAfterTiers, Tier
  <1>9. CASE CheckBranches(r)
    <2>1. journal'[r] = journal[r] /\ pc[r] = "check"
      BY <1>9, CheckBranchesOwn
    <2>2. \A a \in Actions : cp[r][a] # "pending"
      BY <2>1 DEF RunInv, Progress
    <2> QED BY <2>1, <2>2, <1>a, <1>b
  <1>10. CASE AppendFinal(r)
    <2>1. cp'[r] = cp[r] /\ (journal[r] = <<>> => journal'[r] = journal[r])
      BY <1>10, AppendFinalOwn DEF AppendFinal
    <2> QED BY <2>1, <1>a, <1>b
  <1>11. CASE WriteRun(r)
    BY <1>11, <1>a, <1>b, WriteRunOwn
  <1>12. CASE Crash(r)
    BY <1>12, <1>c, CrashOwn
  <1>13. ASSUME NEW a \in Actions, PreObserve(r, a) PROVE StartedAfterTiers(r)'
    BY <1>13, <1>a, <1>b, PreObserveOwn
  <1>14. ASSUME NEW a \in Actions, Preflight(r, a) PROVE StartedAfterTiers(r)'
    BY <1>14, <1>a, <1>b, PreflightOwn
  <1>15. ASSUME NEW a \in Actions, Send(r, a) PROVE StartedAfterTiers(r)'
    BY <1>15, <1>a, <1>b, SendOwn
  <1>16. ASSUME NEW a \in Actions, PublishObserve(r, a) PROVE StartedAfterTiers(r)'
    BY <1>16, <1>a, <1>b, PublishObserveOwn
  <1>17. ASSUME NEW a \in Actions, RetryObserve(r, a) PROVE StartedAfterTiers(r)'
    <2>1. Busy(r, a) /\ \A b \in Actions : b # a => cp'[r][b] = cp[r][b]
      BY <1>17, RetryObserveOwn DEF Busy
    <2>2. journal[r] # <<>> /\ cp[r][a] # "pending"
      <3>1. pc[r] = "run"
        BY <1>17, RetryObserveOwn
      <3> QED BY <2>1, <3>1 DEF RunInv, Recorded, Ended
    <2> QED BY <2>1, <2>2, <1>a
  <1> QED BY <1>1, <1>2, <1>3, <1>4, <1>5, <1>6, <1>7, <1>8, <1>9,
             <1>10, <1>11, <1>12, <1>13, <1>14, <1>15, <1>16, <1>17 DEF OwnStep, RunStep

LEMMA AuthoritiesTruthful ==
  ASSUME NEW q \in Runs, RecordTruthful(q), NEW s \in Authorities(q)
  PROVE  TruthfulCp(s.cp)
  BY DEF Authorities, RecordTruthful

LEMMA RecordTruthfulOwn ==
  ASSUME TypeOK, NEW r \in Runs, OwnStep(r), DoneWasPlanned(r)',
         \A q \in Runs : RecordTruthful(q)
  PROVE  RecordTruthful(r)'
  <1>1. planned' = planned /\ TruthfulCp(cp'[r])
    BY RemoteOwn DEF SameRemote, DoneWasPlanned, TruthfulCp
  <1>2. RecordTruthful(r)
    OBVIOUS
  <1>3. \A i \in DOMAIN journal'[r] : TruthfulCp(journal'[r][i].cp)
    <2>1. journal[r] \in Seq(Snapshot)
      BY DEF TypeOK
    <2>2. CASE journal'[r] = journal[r]
      BY <2>2, <1>2 DEF RecordTruthful
    <2>3. ASSUME NEW status \in RunStatus,
                 journal'[r] = Append(journal[r], [status |-> status, cp |-> cp'[r]])
          PROVE  \A i \in DOMAIN journal'[r] : TruthfulCp(journal'[r][i].cp)
      <3>1. \A i \in DOMAIN journal'[r] :
               journal'[r][i].cp = cp'[r] \/ (i \in DOMAIN journal[r] /\ journal'[r][i] = journal[r][i])
        BY <2>1, <2>3
      <3> QED BY <3>1, <1>1, <1>2 DEF RecordTruthful
    <2> QED BY <2>2, <2>3, JournalOwn DEF JournalGrows
  <1>4. TruthfulCp(runFile'[r].cp)
    <2>1. CASE runFile'[r] = runFile[r]
      BY <2>1, <1>2 DEF RecordTruthful
    <2>2. CASE runFile'[r] = [status |-> OverallStatus(cmd[r], cp[r]), cp |-> cp'[r]]
      <3>1. runFile'[r].cp = cp'[r]
        BY <2>2
      <3> QED BY <3>1, <1>1
    <2> QED BY <2>1, <2>2, RunFileOwn DEF RunFileGrows
  <1>5. TruthfulCp(src'[r].cp)
    BY <1>2, SourceOwn, AuthoritiesTruthful DEF RecordTruthful
  <1> QED BY <1>1, <1>3, <1>4, <1>5 DEF RecordTruthful, TruthfulCp

\* What a request can leave behind.
LEMMA EffectValues ==
  ASSUME NEW a \in Actions, NEW op, NEW effect \in Effects(a, op)
  PROVE  \/ effect.value = "planned"
         \/ effect.value = remote[a]
         \/ effect.value = "partial" /\ Type[a] = "github-release" /\ remote[a] # "planned"
  BY DEF Effects

\* What each step does to the objects and to the requests on their way.
LEMMA WorldMoves ==
  ASSUME TypeOK, [Next]_vars
  PROVE  /\ tampers' >= tampers
         /\ \/ SameRemote
            \/ \E req \in inflight : \E effect \in Effects(req.action, req.op) :
                 /\ remote' = [remote EXCEPT ![req.action] = effect.value]
                 /\ planned' = IF effect.value = "planned"
                               THEN planned \cup {req.action} ELSE planned
                 /\ UNCHANGED <<journal, runFile>>
            \/ /\ tampers' # 0 /\ UNCHANGED <<planned, journal, runFile>>
               /\ \E a \in Actions : \E v \in TamperValues(a) : remote' = [remote EXCEPT ![a] = v]
         /\ \A req \in inflight' \ inflight : req.action \in sent'[req.run]
         /\ \A r \in Runs : sent[r] \subseteq sent'[r]
  <1> tampers \in Nat
    BY BoundAssumption DEF TypeOK
  <1>1. ASSUME NEW r \in Runs, OwnStep(r)
        PROVE  /\ SameRemote /\ tampers' = tampers
               /\ \A req \in inflight' \ inflight : req.action \in sent'[req.run]
               /\ \A q \in Runs : sent[q] \subseteq sent'[q]
    <2>1. SameRemote /\ tampers' = tampers
      BY <1>1, RemoteOwn
    <2>2. ASSUME NEW a \in Actions, Send(r, a)
          PROVE  /\ \A req \in inflight' \ inflight : req.action \in sent'[req.run]
                 /\ \A q \in Runs : sent[q] \subseteq sent'[q]
      <3>1. CASE inflight' = inflight /\ sent' = sent
        BY <3>1
      <3>2. CASE /\ inflight' = inflight \cup {[run |-> r, action |-> a, op |-> Attempt(a)]}
                 /\ sent' = [sent EXCEPT ![r] = @ \cup {a}]
        <4>1. sent'[r] = sent[r] \cup {a} /\ \A q \in Runs : sent[q] \subseteq sent'[q]
          BY <3>2 DEF TypeOK
        <4>2. \A req \in inflight' \ inflight : req.run = r /\ req.action = a
          BY <3>2
        <4> QED BY <4>1, <4>2
      <3> QED BY <2>2, <3>1, <3>2 DEF Send
    <2>3. CASE ~ \E a \in Actions : Send(r, a)
      <3>1. inflight' = inflight
        BY <1>1, <2>3 DEF OwnStep, RunStep, world, StartPublish, PersistFirst, StartTier,
           SettleTier, StartReconcile, Scan, PreflightRetries, StartRetry, CheckBranches,
           AppendFinal, WriteRun, Crash, PreObserve, Preflight, PublishObserve, RetryObserve
      <3>2. sent' = sent
        BY <1>1, <2>3 DEF OwnStep, RunStep, history, StartPublish, PersistFirst, StartTier,
           SettleTier, StartReconcile, Scan, PreflightRetries, StartRetry, CheckBranches,
           AppendFinal, WriteRun, Crash, PreObserve, Preflight, PublishObserve, RetryObserve
      <3> QED BY <2>1, <3>1, <3>2
    <2> QED BY <2>1, <2>2, <2>3
  <1>2. ASSUME NEW req \in inflight, Apply(req)
        PROVE  /\ \E effect \in Effects(req.action, req.op) :
                    /\ remote' = [remote EXCEPT ![req.action] = effect.value]
                    /\ planned' = IF effect.value = "planned"
                                  THEN planned \cup {req.action} ELSE planned
               /\ UNCHANGED <<journal, runFile, tampers, sent>> /\ inflight' \subseteq inflight
    BY <1>2 DEF Apply, durable
  <1>3. ASSUME NEW req \in inflight, LoseAnswer(req)
        PROVE  SameRemote /\ UNCHANGED <<tampers, sent>> /\ inflight' \subseteq inflight
    BY <1>3 DEF LoseAnswer, SameRemote, history
  <1>4. ASSUME NEW a \in Actions, Tamper(a)
        PROVE  /\ \E v \in TamperValues(a) : remote' = [remote EXCEPT ![a] = v]
               /\ tampers' = tampers + 1 /\ UNCHANGED <<planned, journal, runFile, sent, inflight>>
    BY <1>4 DEF Tamper, durable
  <1>5. ASSUME UNCHANGED vars PROVE SameRemote /\ UNCHANGED <<tampers, sent, inflight>>
    BY <1>5 DEF vars, world, history, SameRemote
  <1>6. CASE \E r \in Runs : OwnStep(r)
    BY <1>1, <1>6
  <1>7. CASE \E req \in inflight : Apply(req)
    BY <1>2, <1>7
  <1>8. CASE \E req \in inflight : LoseAnswer(req)
    BY <1>3, <1>8
  <1>9. CASE \E a \in Actions : Tamper(a)
    BY <1>4, <1>9
  <1>10. CASE UNCHANGED vars
    BY <1>5, <1>10
  <1> QED BY <1>6, <1>7, <1>8, <1>9, <1>10, StepCases

LEMMA RequestsSentStep ==
  ASSUME TypeOK, [Next]_vars, RequestsSent
  PROVE  RequestsSent'
  <1>1. inflight \subseteq Request /\ \A req \in Request : req.run \in Runs
    BY DEF TypeOK, Request
  <1> QED BY <1>1, WorldMoves DEF RequestsSent

\* An object comes into being after the tiers below it: its request was sent
\* after they were there.
LEMMA TierByTierStep ==
  ASSUME TypeOK, [Next]_vars, RequestsSent, TierByTier,
         \A r \in Runs : SentAfterTiers(r)
  PROVE  TierByTier'
  <1>1. CASE planned' = planned
    BY <1>1 DEF TierByTier, Tier
  <1>2. ASSUME NEW req \in inflight, planned' = planned \cup {req.action}
        PROVE  TierByTier'
    <2>1. req.run \in Runs /\ req.action \in Actions /\ req.action \in sent[req.run]
      BY DEF TypeOK, Request, RequestsSent
    <2>2. \A b \in Actions : Tier(b) < Tier(req.action) => b \in planned
      BY <2>1 DEF SentAfterTiers
    <2> QED BY <1>2, <2>2 DEF TierByTier, Tier
  <1> QED BY <1>1, <1>2, WorldMoves DEF SameRemote

LEMMA UndisturbedStep ==
  ASSUME TypeOK, [Next]_vars, Undisturbed
  PROVE  Undisturbed'
  <1>0. tampers \in Nat /\ tampers' >= tampers
    BY WorldMoves, BoundAssumption DEF TypeOK
  <1> SUFFICES ASSUME tampers' = 0, NEW a \in Actions
               PROVE  /\ a \in planned' => remote'[a] = "planned"
                      /\ a \notin planned' =>
                            \/ remote'[a] = Initial(a)
                            \/ Type[a] = "github-release" /\ remote'[a] = "partial"
    BY DEF Undisturbed, Initial
  <1>1. /\ a \in planned => remote[a] = "planned"
        /\ a \notin planned => \/ remote[a] = Initial(a)
                               \/ Type[a] = "github-release" /\ remote[a] = "partial"
    <2>1. tampers' \in Nat \/ tampers' = tampers \/ tampers' > tampers
      BY <1>0
    <2>2. tampers = 0
      BY <1>0
    <2> QED BY <2>2 DEF Undisturbed
  <1>2. CASE SameRemote
    BY <1>1, <1>2 DEF SameRemote
  <1>3. ASSUME NEW req \in inflight, NEW effect \in Effects(req.action, req.op),
               remote' = [remote EXCEPT ![req.action] = effect.value],
               planned' = IF effect.value = "planned" THEN planned \cup {req.action} ELSE planned
        PROVE  /\ a \in planned' => remote'[a] = "planned"
               /\ a \notin planned' =>
                     \/ remote'[a] = Initial(a)
                     \/ Type[a] = "github-release" /\ remote'[a] = "partial"
    <2>1. req.action \in Actions
      BY DEF TypeOK, Request
    <2>2. CASE a # req.action
      BY <1>1, <1>3, <2>2 DEF TypeOK
    <2>3. CASE a = req.action
      <3>1. remote'[a] = effect.value
        BY <1>3, <2>1, <2>3 DEF TypeOK
      <3>2. \/ effect.value = "planned"
            \/ effect.value = remote[a]
            \/ effect.value = "partial" /\ Type[a] = "github-release" /\ remote[a] # "planned"
        BY <2>1, <2>3, EffectValues
      <3> QED BY <1>1, <1>3, <2>3, <3>1, <3>2
    <2> QED BY <2>2, <2>3
  <1> QED BY <1>2, <1>3, WorldMoves

LEMMA RecordStep ==
  ASSUME TypeOK, SagaInv, WorldInv, WorldInv', RecordInv, [Next]_vars
  PROVE  RecordInv'
  <1>1. RequestsSent' /\ TierByTier' /\ Undisturbed'
    BY RequestsSentStep, TierByTierStep, UndisturbedStep DEF RecordInv, WorldInv
  <1>2. ASSUME NEW q \in Runs
        PROVE  (Unopened(q) /\ StartedAfterTiers(q) /\ RecordTruthful(q))'
    <2>1. /\ Unopened(q) /\ StartedAfterTiers(q) /\ \A r \in Runs : RecordTruthful(r)
          /\ TierByTier /\ PlannedSeen /\ DoneWasPlanned(q) /\ RunInv(q) /\ DoneWasPlanned(q)'
      BY DEF RecordInv, WorldInv, SagaInv
    <2>2. planned \subseteq planned'
      BY WorldMoves DEF SameRemote
    <2>3. CASE OwnStep(q)
      BY <2>1, <2>3, UnopenedOwn, StartedAfterTiersOwn, RecordTruthfulOwn
    <2>4. ASSUME SameControl(q)
          PROVE  (Unopened(q) /\ StartedAfterTiers(q) /\ RecordTruthful(q))'
      <3> USE <2>1, <2>2, <2>4 DEF SameControl
      <3>1. Unopened(q)'
        BY DEF Unopened
      <3>2. StartedAfterTiers(q)'
        BY DEF StartedAfterTiers, Tier
      <3>3. RecordTruthful(q)'
        BY DEF RecordTruthful, TruthfulCp
      <3> QED BY <3>1, <3>2, <3>3
    <2>5. OwnStep(q) \/ SameControl(q)
      BY StepCases, OthersUntouched, AnswerFrame, TamperFrame, StutterFrame DEF Untouched
    <2> QED BY <2>3, <2>4, <2>5
  <1> QED BY <1>1, <1>2 DEF RecordInv

LEMMA RecordInit == Init => RecordInv
  <1> SUFFICES ASSUME Init PROVE RecordInv
    OBVIOUS
  <1>1. ASSUME NEW r \in Runs
        PROVE  Unopened(r) /\ StartedAfterTiers(r) /\ RecordTruthful(r)
    <2>1. /\ journal[r] = <<>> /\ runFile[r].cp = Pending /\ src[r].cp = Pending
      BY DEF Init, NoRun
    <2>2. TruthfulCp(Pending)
      BY DEF TruthfulCp, Pending
    <2> QED BY <2>1, <2>2 DEF Unopened, StartedAfterTiers, RecordTruthful
  <1>2. RequestsSent
    BY DEF Init, RequestsSent
  <1>3. PICK done \in SUBSET Actions :
          /\ \A a \in done, b \in Actions : Tier(b) < Tier(a) => b \in done
          /\ remote = [a \in Actions |-> IF a \in done THEN "planned" ELSE Initial(a)]
          /\ planned = done
    BY DEF Init
  <1>4. TierByTier
    BY <1>3 DEF TierByTier
  <1>5. Undisturbed
    BY <1>3 DEF Undisturbed
  <1> QED BY <1>1, <1>2, <1>4, <1>5 DEF RecordInv

LEMMA RecordInvariant == Spec => [](TypeOK /\ SagaInv /\ WorldInv /\ RecordInv)
  <1>1. TypeOK /\ SagaInv /\ WorldInv /\ WorldInv' /\ RecordInv /\ [Next]_vars => RecordInv'
    BY RecordStep
  <1> QED BY <1>1, RecordInit, Invariant, WorldInvariant, PTL DEF Spec

\* The journals and results tell the truth about the past: no snapshot a later
\* reconcile may be pointed at, of a live or a dead run, calls an action done
\* whose planned object has never been on the remote.
THEOREM SnapshotsTruthful ==
  Spec => [](\A r \in Runs : \A s \in Authorities(r) : \A a \in Actions :
                s.cp[a] \in Done => a \in planned)
  <1>1. RecordInv => \A r \in Runs : \A s \in Authorities(r) : \A a \in Actions :
                        s.cp[a] \in Done => a \in planned
    BY AuthoritiesTruthful DEF RecordInv, TruthfulCp
  <1> QED BY <1>1, RecordInvariant, PTL

-----------------------------------------------------------------------------
(* Why a reconcile refuses.                                                *)

\* The plan sets a default branch that has not been pushed.
UnpushedDefault ==
    \E a \in Actions : Type[a] = "set-default-branch" /\ ~ NeedsPlanned(a)

LEMMA ReadsTrue ==
  ASSUME NEW a \in Actions, NEW read \in Reads(a)
  PROVE  (read.view = View(a) /\ read.cost = 0) \/ read.cost = 1
  BY DEF Reads

\* What makes a scan refuse.
LEMMA ScanRefuses ==
  ASSUME TypeOK, NEW r \in Runs, Scan(r), pc'[r] = "refused"
  PROVE  \E a \in todo[r] : \E read \in Reads(a) :
           /\ read.view # "match" /\ (Protected(r, a) \/ ~ Retryable(a, read.view))
           /\ faults' = faults + read.cost
  <1>1. PICK a \in todo[r] : \E read \in Reads(a) :
          LET conflict == read.view # "match" /\ (Protected(r, a) \/ ~ Retryable(a, read.view))
          IN  /\ pc' = [pc EXCEPT ![r] = IF conflict THEN "refused"
                                         ELSE IF todo[r] = {a} THEN "preflight" ELSE "scan"]
              /\ faults' = faults + read.cost
    BY DEF Scan
  <1>2. PICK read \in Reads(a) :
          LET conflict == read.view # "match" /\ (Protected(r, a) \/ ~ Retryable(a, read.view))
          IN  /\ pc' = [pc EXCEPT ![r] = IF conflict THEN "refused"
                                         ELSE IF todo[r] = {a} THEN "preflight" ELSE "scan"]
              /\ faults' = faults + read.cost
    BY <1>1
  <1>3. read.view # "match" /\ (Protected(r, a) \/ ~ Retryable(a, read.view))
    BY <1>2 DEF TypeOK
  <1> QED BY <1>2, <1>3

\* With nobody else writing, what is read of an action is the planned object,
\* or a state it can safely be executed from.
LEMMA CalmView ==
  ASSUME TypeOK, TierByTier, Undisturbed, tampers = 0, NEW a \in Actions,
         Type[a] = "set-default-branch" => NeedsPlanned(a)
  PROVE  View(a) = "match" \/ (a \notin planned /\ Retryable(a, View(a)))
  <1>1. /\ Type[a] \in ActionTypes
        /\ a \in Advancing => Type[a] = "push-snapshot"
    BY PlanAssumption
  <1>2. a \in planned => NeedsPlanned(a)
    <2>1. \A b \in Needs[a] : b \in Actions /\ Tier(b) < Tier(a)
      BY PlanAssumption
    <2> QED BY <2>1 DEF TierByTier, Undisturbed, NeedsPlanned
  <1>3. /\ a \in planned => remote[a] = "planned"
        /\ a \notin planned => \/ remote[a] = Initial(a)
                               \/ Type[a] = "github-release" /\ remote[a] = "partial"
    BY DEF Undisturbed
  <1>4. CASE Type[a] = "set-default-branch"
    BY <1>3, <1>4 DEF View, DefaultBranchView, Initial, Retryable
  <1>5. CASE Type[a] = "github-release"
    <2>1. a \notin Advancing
      BY <1>1, <1>5
    <2>2. NeedsPlanned(a) => ~ NeedsAbsent(a)
      BY DEF NeedsPlanned, NeedsAbsent
    <2>3. CASE a \in planned
      BY <1>2, <1>3, <1>5, <2>2, <2>3 DEF View, ReleaseView
    <2>4. CASE a \notin planned
      BY <1>3, <1>5, <2>1, <2>4 DEF View, ReleaseView, Initial, Retryable
    <2> QED BY <2>3, <2>4
  <1>6. CASE Type[a] \notin {"set-default-branch", "github-release"}
    BY <1>3, <1>6 DEF View, PushView, Initial, Retryable
  <1> QED BY <1>4, <1>5, <1>6

LEMMA RefusalStep ==
  ASSUME TypeOK, RecordInv, [Next]_vars, NEW r \in Runs, pc[r] = "scan", pc'[r] = "refused"
  PROVE  tampers > 0 \/ faults' > faults \/ UnpushedDefault
  <1>1. Scan(r)
    <2>1. OwnStep(r)
      BY StepCases, OthersUntouched, AnswerFrame, TamperFrame, StutterFrame
         DEF Untouched, SameControl
    <2>2. ~ Crash(r)
      BY CrashOwn
    <2> QED BY <2>1, <2>2 DEF OwnStep, RunStep, StartPublish, StartReconcile, MayStart,
               PersistFirst, StartTier, SettleTier, PreflightRetries, StartRetry, CheckBranches,
               AppendFinal, WriteRun, PreObserve, Preflight, Send, PublishObserve, RetryObserve
  <1>a. PICK a \in todo[r] : \E read \in Reads(a) :
          /\ read.view # "match" /\ (Protected(r, a) \/ ~ Retryable(a, read.view))
          /\ faults' = faults + read.cost
    BY <1>1, ScanRefuses
  <1>2. PICK read \in Reads(a) :
          /\ read.view # "match" /\ (Protected(r, a) \/ ~ Retryable(a, read.view))
          /\ faults' = faults + read.cost
    BY <1>a
  <1>3. a \in Actions /\ faults \in Nat /\ tampers \in Nat
    BY BoundAssumption DEF TypeOK
  <1>4. CASE read.cost = 1
    BY <1>2, <1>3, <1>4
  <1>5. CASE read.view = View(a) /\ tampers = 0 /\ ~ UnpushedDefault
    <2>1. a \notin planned /\ Retryable(a, View(a))
      BY <1>2, <1>3, <1>5, CalmView DEF RecordInv, UnpushedDefault
    <2>2. ~ Protected(r, a)
      BY <1>3, <2>1 DEF RecordInv, RecordTruthful, TruthfulCp, Protected
    <2> QED BY <1>2, <1>5, <2>1, <2>2
  <1> QED BY <1>3, <1>4, <1>5, ReadsTrue

\* Reconcile stops for a human only for a reason, under every plan: somebody
\* else wrote to a remote, a read went wrong, or the plan sets a default branch
\* that is not there yet, the one case a retry would have resolved by itself.
THEOREM RefusalsExplained ==
  Spec => [][\A r \in Runs : pc[r] = "scan" /\ pc'[r] = "refused"
                => tampers > 0 \/ faults' > faults \/ UnpushedDefault]_vars
  <1>1. TypeOK /\ RecordInv /\ [Next]_vars =>
          [\A r \in Runs : pc[r] = "scan" /\ pc'[r] = "refused"
                => tampers > 0 \/ faults' > faults \/ UnpushedDefault]_vars
    BY RefusalStep
  <1> QED BY <1>1, RecordInvariant, PTL DEF Spec

\* A plan that sets no default branch is refused only over a conflict: unless
\* somebody else wrote to a remote, only a read that went wrong stops reconcile.
THEOREM RefusesOnlyOnConflictHolds ==
  ASSUME \A a \in Actions : Type[a] # "set-default-branch"
  PROVE  Spec => RefusesOnlyOnConflict
  <1>1. ~ UnpushedDefault
    BY DEF UnpushedDefault
  <1>2. TypeOK /\ RecordInv /\ [Next]_vars =>
          [\A r \in Runs : pc[r] = "scan" /\ pc'[r] = "refused"
                => tampers > 0 \/ faults' > faults]_vars
    BY <1>1, RefusalStep
  <1> QED BY <1>2, RecordInvariant, PTL DEF Spec, RefusesOnlyOnConflict

-----------------------------------------------------------------------------
(* The refinement of TieredRelease.                                        *)

\* A run admits only what has the lower tiers behind it.
LEMMA AdmittedOwn ==
  ASSUME TypeOK, NEW r \in Runs, OwnStep(r), StartedAfterTiers(r)'
  PROVE  /\ Admitted \subseteq Admitted'
         /\ \A a \in Admitted' \ Admitted : \A b \in Actions : Tier(b) < Tier(a) => b \in planned
  <1>1. /\ planned' = planned
        /\ \A q \in Runs : q # r => journal'[q] = journal[q]
        /\ \A q \in Runs : journal[q] \in Seq(Snapshot)
    BY RemoteOwn, OthersUntouched DEF SameRemote, Untouched, SameControl, TypeOK
  <1>2. CASE journal'[r] = journal[r]
    <2>1. \A q \in Runs : journal'[q] = journal[q]
      BY <1>1, <1>2
    <2> QED BY <2>1 DEF Admitted
  <1>3. ASSUME NEW status \in RunStatus,
               journal'[r] = Append(journal[r], [status |-> status, cp |-> cp'[r]])
        PROVE  /\ Admitted \subseteq Admitted'
               /\ \A a \in Admitted' \ Admitted :
                     \A b \in Actions : Tier(b) < Tier(a) => b \in planned
    <2>1. /\ journal'[r] # <<>>
          /\ \A i \in DOMAIN journal[r] : i \in DOMAIN journal'[r] /\ journal'[r][i] = journal[r][i]
          /\ \A i \in DOMAIN journal'[r] :
                journal'[r][i].cp = cp'[r] \/ (i \in DOMAIN journal[r] /\ journal'[r][i] = journal[r][i])
      <3>1. journal[r] \in Seq(Snapshot)
        BY <1>1
      <3>2. journal'[r] # <<>>
        BY <1>3, <3>1
      <3>3. \A i \in DOMAIN journal[r] : i \in DOMAIN journal'[r] /\ journal'[r][i] = journal[r][i]
        BY <1>3, <3>1
      <3>4. \A i \in DOMAIN journal'[r] :
               journal'[r][i].cp = cp'[r] \/ (i \in DOMAIN journal[r] /\ journal'[r][i] = journal[r][i])
        BY <1>3, <3>1
      <3> QED BY <3>2, <3>3, <3>4
    <2>2. \A q \in Runs : \A i \in DOMAIN journal[q] :
             i \in DOMAIN journal'[q] /\ journal'[q][i] = journal[q][i]
      BY <1>1, <2>1
    <2>3. Admitted \subseteq Admitted'
      BY <2>2 DEF Admitted
    <2>4. ASSUME NEW a \in Admitted', a \notin Admitted
          PROVE  \A b \in Actions : Tier(b) < Tier(a) => b \in planned
      <3>1. PICK q \in Runs : \E i \in DOMAIN journal'[q] :
              journal'[q][i].status \in AuthorityStatus /\ journal'[q][i].cp[a] # "pending"
        BY DEF Admitted
      <3>2. PICK i \in DOMAIN journal'[q] :
              journal'[q][i].status \in AuthorityStatus /\ journal'[q][i].cp[a] # "pending"
        BY <3>1
      <3>3. a \in Actions
        BY DEF Admitted
      <3>4. ~ (i \in DOMAIN journal[q] /\ journal'[q][i] = journal[q][i])
        BY <2>4, <3>2, <3>3 DEF Admitted
      <3>5. q = r /\ cp'[r][a] # "pending"
        BY <1>1, <2>1, <3>2, <3>4
      <3> QED BY <1>1, <2>1, <3>3, <3>5 DEF StartedAfterTiers, Tier
    <2> QED BY <2>3, <2>4
  <1> QED BY <1>2, <1>3, JournalOwn DEF JournalGrows

\* A run calls the release published only once, and only when all of it was there.
LEMMA ToldOwn ==
  ASSUME TypeOK, NEW r \in Runs, OwnStep(r), RunInv(r), DoneWasPlanned(r)
  PROVE  \/ Told' = Told
         \/ Told' = Told \cup {r} /\ planned = Actions /\ UNCHANGED Admitted
  <1>1. \A q \in Runs : q # r => runFile'[q] = runFile[q] /\ journal'[q] = journal[q]
    BY OthersUntouched DEF Untouched, SameControl
  <1>2. CASE runFile'[r] = runFile[r]
    <2>1. \A q \in Runs : runFile'[q] = runFile[q]
      BY <1>1, <1>2
    <2> QED BY <2>1 DEF Told
  <1>3. CASE /\ pc[r] = "write" /\ journal'[r] = journal[r]
             /\ runFile'[r] = [status |-> OverallStatus(cmd[r], cp[r]), cp |-> cp'[r]]
    <2>1. runFile[r].status = "NONE"
      BY <1>3 DEF RunInv, Phase
    <2>2. CASE OverallStatus(cmd[r], cp[r]) # "PUBLISHED"
      <3>1. \A q \in Runs : runFile'[q].status = "PUBLISHED" <=> runFile[q].status = "PUBLISHED"
        BY <1>1, <1>3, <2>1, <2>2
      <3> QED BY <3>1 DEF Told
    <2>3. CASE OverallStatus(cmd[r], cp[r]) = "PUBLISHED"
      <3>1. \A a \in Actions : cp[r][a] \in Done
        BY <2>3 DEF OverallStatus
      <3>2. planned = Actions
        BY <3>1 DEF DoneWasPlanned, TypeOK
      <3>3. Told' = Told \cup {r}
        <4>1. runFile'[r].status = "PUBLISHED"
          BY <1>3, <2>3
        <4> QED BY <1>1, <4>1 DEF Told
      <3>4. \A q \in Runs : journal'[q] = journal[q]
        BY <1>1, <1>3
      <3> QED BY <3>2, <3>3, <3>4 DEF Admitted
    <2> QED BY <2>2, <2>3
  <1> QED BY <1>2, <1>3, RunFileOwn DEF RunFileGrows

\* The record of other runs' steps and of the remote's does not change.
LEMMA RecordFrame ==
  ASSUME \A q \in Runs : journal'[q] = journal[q] /\ runFile'[q] = runFile[q]
  PROVE  UNCHANGED <<Admitted, Told>>
  BY DEF Admitted, Told

\* A request on its way was admitted by the run that sent it.
LEMMA RequestAdmitted ==
  ASSUME TypeOK, SagaInv, RequestsSent, NEW req \in inflight
  PROVE  req.action \in Admitted
  <1>1. req.run \in Runs /\ req.action \in Actions /\ req.action \in sent[req.run]
    BY DEF TypeOK, Request, RequestsSent
  <1> DEFINE r == req.run
             a == req.action
  <1>2. /\ journal[r] # <<>> /\ journal[r] \in Seq(Snapshot)
        /\ Latest(r).status \in {"PARTIAL", "PUBLISHED"} /\ Latest(r).cp[a] # "pending"
    BY <1>1 DEF SagaInv, RunInv, Recorded, TypeOK
  <1>3. Len(journal[r]) \in DOMAIN journal[r]
    BY <1>2
  <1> QED BY <1>1, <1>2, <1>3 DEF Admitted, AuthorityStatus, Latest

\* Every step of the saga is a step of the release it implements, or none.
LEMMA StepRefines ==
  ASSUME TypeOK, SagaInv, WorldInv, RecordInv, RecordInv', [Next]_vars
  PROVE  [Release!Next]_(Release!vars)
  <1>1. ASSUME NEW r \in Runs, OwnStep(r)
        PROVE  [Release!Next]_(Release!vars)
    <2>1. InPlace' = InPlace /\ planned' = planned
      BY <1>1, RemoteOwn DEF SameRemote, InPlace
    <2>2. \/ Told' = Told
          \/ Told' = Told \cup {r} /\ planned = Actions /\ UNCHANGED Admitted
      BY <1>1, ToldOwn DEF SagaInv, WorldInv
    <2>3. /\ Admitted \subseteq Admitted'
          /\ \A a \in Admitted' \ Admitted : \A b \in Actions : Tier(b) < Tier(a) => b \in planned
      BY <1>1, AdmittedOwn DEF RecordInv
    <2>4. CASE Told' = Told
      <3>1. ASSUME NEW a \in Admitted', a \notin Admitted
            PROVE  a \in Actions /\ Release!Below(a) \subseteq planned
        <4>1. a \in Actions
          BY DEF Admitted
        <4> QED BY <2>3, <3>1, <4>1 DEF Release!Below
      <3>2. Release!Admit
        BY <2>1, <2>3, <2>4, <3>1 DEF Release!Admit
      <3> QED BY <3>2 DEF Release!Next
    <2>5. CASE Told' = Told \cup {r} /\ planned = Actions /\ UNCHANGED Admitted
      <3>1. Release!Tell(r)
        BY <2>1, <2>5 DEF Release!Tell
      <3> QED BY <3>1 DEF Release!Next
    <2> QED BY <2>2, <2>4, <2>5
  <1>2. ASSUME NEW req \in inflight, Apply(req)
        PROVE  [Release!Next]_(Release!vars)
    <2>1. PICK effect \in Effects(req.action, req.op) :
            /\ remote' = [remote EXCEPT ![req.action] = effect.value]
            /\ planned' = IF effect.value = "planned"
                          THEN planned \cup {req.action} ELSE planned
      BY <1>2 DEF Apply
    <2>2. req.action \in Actions /\ req.action \in Admitted
      BY RequestAdmitted DEF TypeOK, Request, RecordInv
    <2>3. UNCHANGED <<Admitted, Told>>
      BY <1>2, RecordFrame DEF Apply, durable
    <2>4. CASE effect.value = "planned"
      <3>1. InPlace' = InPlace \cup {req.action}
        BY <2>1, <2>2, <2>4 DEF InPlace, TypeOK
      <3>2. Release!Appear(req.action)
        BY <2>1, <2>2, <2>3, <2>4, <3>1 DEF Release!Appear
      <3> QED BY <2>2, <3>2 DEF Release!Next
    <2>5. CASE effect.value # "planned"
      <3>1. effect.value = remote[req.action] \/ remote[req.action] # "planned"
        BY <2>2, <2>5, EffectValues
      <3>2. InPlace' = InPlace
        BY <2>1, <2>2, <2>5, <3>1 DEF InPlace, TypeOK
      <3> QED BY <2>1, <2>3, <2>5, <3>2 DEF Release!vars
    <2> QED BY <2>4, <2>5
  <1>3. ASSUME NEW a \in Actions, Tamper(a)
        PROVE  [Release!Next]_(Release!vars)
    <2>1. UNCHANGED <<Admitted, Told, planned>>
      BY <1>3, RecordFrame DEF Tamper, durable
    <2>2. InPlace' = InPlace \ {a}
      BY <1>3, TamperNeverPlans DEF Tamper, InPlace, TypeOK
    <2>3. Release!Vanish(a)
      BY <2>1, <2>2 DEF Release!Vanish
    <2> QED BY <2>3 DEF Release!Next
  <1>4. ASSUME (\E req \in inflight : LoseAnswer(req)) \/ UNCHANGED vars
        PROVE  [Release!Next]_(Release!vars)
    <2>1. UNCHANGED <<journal, runFile, remote, planned>>
      BY <1>4 DEF LoseAnswer, vars, durable, world, history
    <2>2. UNCHANGED <<Admitted, Told, InPlace, planned>>
      BY <2>1, RecordFrame DEF InPlace
    <2> QED BY <2>2 DEF Release!vars
  <1> QED BY <1>1, <1>2, <1>3, <1>4, StepCases

LEMMA InitRefines == Init => Release!Init
  <1> SUFFICES ASSUME Init PROVE Release!Init
    OBVIOUS
  <1>1. Admitted = {} /\ Told = {}
    BY DEF Init, Admitted, Told, NoRun
  <1>2. PICK done \in SUBSET Actions :
          /\ \A a \in done, b \in Actions : Tier(b) < Tier(a) => b \in done
          /\ remote = [a \in Actions |-> IF a \in done THEN "planned" ELSE Initial(a)]
          /\ planned = done
    BY DEF Init
  <1>3. InPlace = planned
    BY <1>2 DEF InPlace, Initial
  <1>4. \A a \in planned : Release!Below(a) \subseteq planned
    BY <1>2 DEF Release!Below
  <1> QED BY <1>1, <1>2, <1>3, <1>4 DEF Release!Init

\* Publish and reconcile runs, overlapping, crashing and recovering from each
\* other's snapshots, against remotes others write to, implement TieredRelease:
\* the release comes into being tier by tier, every object of it after its write
\* was admitted on a durable snapshot, and is called published only when
\* complete.
THEOREM ImplementsTieredReleaseHolds == Spec => ImplementsTieredRelease
  <1>1. TypeOK /\ SagaInv /\ WorldInv /\ RecordInv /\ RecordInv' /\ [Next]_vars
          => [Release!Next]_(Release!vars)
    BY StepRefines
  <1> QED BY <1>1, InitRefines, RecordInvariant, PTL
          DEF Spec, ImplementsTieredRelease, Release!Spec

\* What TieredRelease promises holds of every execution of the commands.
THEOREM PromiseHolds == Spec => []Release!Promise
  <1>1. Release!Init => Release!Promise
    BY DEF Release!Init, Release!Promise
  <1>2. Release!Promise /\ [Release!Next]_(Release!vars) => Release!Promise'
    <2> SUFFICES ASSUME Release!Promise, [Release!Next]_(Release!vars)
                 PROVE  Release!Promise'
      OBVIOUS
    <2> USE DEF Release!Promise, Release!Below
    <2>1. CASE Release!Admit
      BY <2>1 DEF Release!Admit
    <2>2. ASSUME NEW a \in Actions, Release!Appear(a)
          PROVE  Release!Promise'
      BY <2>2 DEF Release!Appear
    <2>3. ASSUME NEW a \in Actions, Release!Vanish(a)
          PROVE  Release!Promise'
      BY <2>3 DEF Release!Vanish
    <2>4. ASSUME NEW r \in Runs, Release!Tell(r)
          PROVE  Release!Promise'
      BY <2>4 DEF Release!Tell
    <2>5. CASE UNCHANGED Release!vars
      BY <2>5 DEF Release!vars
    <2> QED BY <2>1, <2>2, <2>3, <2>4, <2>5 DEF Release!Next
  <1> QED BY <1>1, <1>2, ImplementsTieredReleaseHolds, PTL
          DEF ImplementsTieredRelease, Release!Spec

=============================================================================
