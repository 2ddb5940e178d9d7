------------------------- MODULE DistributionProofs -------------------------
(***************************************************************************)
(* Proofs about Distribution, for every chain of mirrors and hooks, every  *)
(* number of runs, overlapping or not, and every bound on faults and       *)
(* third-party pushes.                                                     *)
(***************************************************************************)
EXTENDS Distribution, TLAPS

-----------------------------------------------------------------------------
(* The inductive invariant, run by run.                                    *)

Writing == {"clone", "branch", "tag", "confirm"}

\* The chain is walked from its front: what is closed lies before what is open.
Walked(r) == \A i \in Open(r), j \in Items \ Open(r) : Rank[j] < Rank[i]

\* What a run is busy with is the item it is at: a mirror whose checkpoint is
\* uncertain in memory and on disk, or a hook it started.
Busy(r) ==
    /\ step[r] \in Writing =>
         \A i \in Items : At(r, i) => /\ i \in Mirrors
                                      /\ cp[r][i] = "uncertain"
                                      /\ journal[r].cp[i] = "uncertain"
    /\ step[r] = "hook" => \A i \in Items : At(r, i) => i \in ran[r]
    /\ step[r] \in Writing \cup {"hook"} => ~Stopped(r)

Pushed(r, m) == r \in log[m] \/ \E q \in inflight : q.run = r /\ q.mirror = m

Admits(r) == \A m \in Mirrors :
                Pushed(r, m) => cp[r][m] # "pending" /\ journal[r].cp[m] # "pending"

Behind(r) == \A i, j \in Items : Touched(r, i) /\ Rank[j] < Rank[i] => cp[r][j] \in Good

Tidy(r) == Walked(r) /\ Busy(r) /\ Admits(r) /\ Behind(r)

Orderly == \A r \in Runs : Tidy(r)

\* What the memory, the record and the dry run of a run have in common.
Recorded(r) ==
    /\ step[r] = "idle" => cp[r] = Untouched
    /\ step[r] # "ended" => runFile[r] = Absent
    /\ step[r] = "close" => Open(r) = {}
    /\ step[r] = "ended" => runFile[r].cp = cp[r]
    /\ runFile[r].status = "DISTRIBUTED" =>
         \A i \in Items : cp[r][i] \in {"succeeded", "skipped", "no_change"}
    /\ \A m \in Mirrors : cp[r][m] # "awaiting"

\* Commit c carries the release on the branch of m.
Carries(m, c) == c \in log[m] /\ c \in Runs \cup {"same"}

Known(r, m) == tag[m] = "foreign" \/ Carries(m, sha[r][m])

\* Item i needed nothing, or got what it needed; an item skipped behind a
\* failure did not.
Got(r, i) ==
    \/ cp[r][i] \in {"succeeded", "no_change"}
    \/ /\ cp[r][i] = "skipped"
       /\ \A j \in Items : Rank[j] < Rank[i] => cp[r][j] # "failed"

Knows(r) ==
    ~dry[r] => /\ \A m \in Mirrors : Got(r, m) => Known(r, m)
               /\ \A h \in Hooks : Got(r, h) => h \in ran[r]

Sent(r) ==
    /\ step[r] = "confirm" => \A m \in Mirrors : At(r, m) => sha[r][m] = r
    /\ \A m \in Mirrors : probe[r][m] # NoCommit => probe[r][m] = tag[m]
    /\ \A m \in Mirrors : Pushed(r, m) /\ IsIndex(m) => Known(r, DependsOn[m])

OnRemote(m) ==
    /\ tip[m] \in log[m]
    /\ tag[m] \in Runs => tag[m] \in log[m]
    /\ tag[m] \notin {"old", "same"}

TagsFollow == \A q \in inflight : q.ref = "tag" => q.run \in log[q.mirror]

Judged == verified => \E r \in Runs : Passes(runFile[r])

Honest(r) == Recorded(r) /\ Knows(r) /\ Sent(r)

Truthful ==
    /\ \A r \in Runs : Honest(r)
    /\ \A m \in Mirrors : OnRemote(m)
    /\ TagsFollow
    /\ Judged

(***************************************************************************)
(* Type correctness                                                        *)
(***************************************************************************)
LEMMA InitTyped == Init => TypeOK
<1> SUFFICES ASSUME Init PROVE TypeOK
  OBVIOUS
<1>1. Untouched \in [Items -> CpStatus] /\ Absent \in Record
  BY DEF Untouched, Absent, Record, Statuses, CpStatus
<1>2. /\ cp \in [Runs -> [Items -> CpStatus]]
      /\ journal \in [Runs -> Record] /\ runFile \in [Runs -> Record]
  BY <1>1 DEF Init
<1>3. /\ dry \in [Runs -> BOOLEAN] /\ calm \in [Runs -> BOOLEAN]
      /\ verified \in BOOLEAN
  BY DEF Init
<1>4. /\ step \in [Runs -> Steps] /\ approved \in [Runs -> SUBSET Gated]
      /\ ran \in [Runs -> SUBSET Hooks]
  BY DEF Init, Steps
<1>5. /\ probe \in [Runs -> [Mirrors -> Commits \cup {NoCommit}]]
      /\ sha \in [Runs -> [Mirrors -> Commits \cup {NoCommit}]]
      /\ tag \in [Mirrors -> Commits \cup {NoCommit}]
  BY DEF Init
<1>6. tip \in [Mirrors -> Commits] /\ log \in [Mirrors -> SUBSET Commits]
  <2>1. tip \in [Mirrors -> Commits]
    BY DEF Init, Commits
  <2> QED
    BY <2>1 DEF Init
<1>7. inflight \subseteq Push /\ faults \in 0 .. MaxFaults /\ tampers \in 0 .. MaxTampers
  BY LimitAssumption DEF Init
<1> QED
  BY <1>2, <1>3, <1>4, <1>5, <1>6, <1>7 DEF TypeOK

LEMMA Classified ==
    ASSUME NEW r \in Runs, NEW cps
    PROVE  Overall(r, cps) \in Statuses
BY DEF Overall, Statuses

LEMMA SnapshotTyped ==
    ASSUME TypeOK, NEW r \in Runs, NEW status \in Statuses,
           NEW cps \in [Items -> CpStatus], Snapshot(r, status, cps)
    PROVE  journal' \in [Runs -> Record]
BY DEF TypeOK, Snapshot, Record

LEMMA SettleTyped ==
    ASSUME TypeOK, NEW r \in Runs, NEW i \in Items, NEW status \in CpStatus,
           Settle(r, i, status)
    PROVE  /\ cp' \in [Runs -> [Items -> CpStatus]]
           /\ journal' \in [Runs -> Record]
           /\ step' \in [Runs -> Steps]
<1>1. cp' \in [Runs -> [Items -> CpStatus]]
  BY DEF TypeOK, Settle
<1>2. "PARTIAL" \in Statuses
  BY DEF Statuses
<1>3. journal' \in [Runs -> Record]
  BY <1>1, <1>2, SnapshotTyped DEF Settle
<1>4. step' \in [Runs -> Steps]
  BY DEF Settle, TypeOK, Steps
<1> QED
  BY <1>1, <1>3, <1>4

LEMMA FaultTyped ==
    ASSUME TypeOK, Fault \/ NoFault
    PROVE  faults' \in 0 .. MaxFaults /\ calm' \in [Runs -> BOOLEAN]
<1>1. faults' \in 0 .. MaxFaults
  <2>1. CASE Fault BY <2>1, LimitAssumption DEF TypeOK, Fault
  <2>2. CASE NoFault BY <2>2 DEF TypeOK, NoFault
  <2> QED BY <2>1, <2>2
<1>2. calm' \in [Runs -> BOOLEAN]
  <2>1. CASE Fault BY <2>1 DEF Fault
  <2>2. CASE NoFault BY <2>2 DEF TypeOK, NoFault
  <2> QED BY <2>1, <2>2
<1> QED
  BY <1>1, <1>2

\* A run before its first write, and at its end.
LEMMA FrameTyped ==
    ASSUME TypeOK, NEW r \in Runs,
           Start(r) \/ Probe(r) \/ Throw(r) \/ Close(r) \/ WriteRecord(r) \/ Crash(r)
    PROVE  TypeOK'
<1> USE DEF memory, durable, mirrors, bounds
<1>1. CASE Start(r)
  <2>1. journal' \in [Runs -> Record]
    BY <1>1, SnapshotTyped DEF Start, TypeOK, Statuses
  <2>2. PICK d \in {FALSE, MayRehearse}, granted \in SUBSET Gated :
           dry' = [dry EXCEPT ![r] = d] /\ approved' = [approved EXCEPT ![r] = granted]
    BY <1>1 DEF Start
  <2>3. d \in BOOLEAN
    BY LimitAssumption
  <2>4. calm' \in [Runs -> BOOLEAN]
    BY <1>1 DEF Start, Quiet
  <2> QED
    BY <1>1, <2>1, <2>2, <2>3, <2>4 DEF Start, TypeOK, Steps
<1>2. CASE Probe(r)
  BY <1>2 DEF Probe, TypeOK, Steps
<1>3. CASE Throw(r)
  <2>1. [status |-> Broken(r), cp |-> cp[r]] \in Record
    BY DEF Broken, Record, Statuses, TypeOK
  <2> QED
    BY <1>3, <2>1, FaultTyped DEF Throw, TypeOK, Steps
<1>4. CASE Close(r)
  <2>1. cp' \in [Runs -> [Items -> CpStatus]]
    BY <1>4 DEF Close, TypeOK, CpStatus
  <2>2. journal' \in [Runs -> Record]
    BY <1>4, <2>1, SnapshotTyped, Classified DEF Close
  <2> QED
    BY <1>4, <2>1, <2>2 DEF Close, TypeOK, Steps
<1>5. CASE WriteRecord(r)
  <2>1. [status |-> Overall(r, cp[r]), cp |-> cp[r]] \in Record
    BY Classified DEF Record, TypeOK
  <2> QED
    BY <1>5, <2>1 DEF WriteRecord, TypeOK, Steps
<1>6. CASE Crash(r)
  BY <1>6, FaultTyped DEF Crash, TypeOK, Steps
<1> QED
  BY <1>1, <1>2, <1>3, <1>4, <1>5, <1>6

LEMMA MirrorTyped ==
    ASSUME TypeOK, NEW r \in Runs, NEW m \in Mirrors, OnMirror(r, m)
    PROVE  TypeOK'
<1> USE DEF memory, durable, mirrors, bounds
<1>i. m \in Items
  BY DEF Items
<1>1. CASE Observe(r, m)
  <2>1. cp' \in [Runs -> [Items -> CpStatus]]
    <3>1. \E s \in {"skipped", "uncertain"} : cp' = [cp EXCEPT ![r][m] = s]
      BY <1>1 DEF Observe
    <3> QED
      BY <3>1, <1>i DEF TypeOK, CpStatus
  <2>2. sha' \in [Runs -> [Mirrors -> Commits \cup {NoCommit}]]
    <3>1. sha' = [sha EXCEPT ![r][m] = tag[m]] \/ sha' = sha
      BY <1>1 DEF Observe, Remember
    <3> DEFINE V == Commits \cup {NoCommit}
    <3>2. tag[m] \in V /\ sha \in [Runs -> [Mirrors -> V]]
      BY DEF TypeOK
    <3> HIDE DEF V
    <3>3. sha' \in [Runs -> [Mirrors -> V]]
      BY <3>1, <3>2
    <3> QED
      BY <3>3 DEF V
  <2>3. journal' \in [Runs -> Record]
    BY <1>1, <2>1, SnapshotTyped DEF Observe, TypeOK, Statuses
  <2>4. step' \in [Runs -> Steps]
    BY <1>1 DEF Observe, TypeOK, Steps
  <2>5. faults' \in 0 .. MaxFaults /\ calm' \in [Runs -> BOOLEAN]
    BY <1>1, FaultTyped DEF Observe
  <2> QED
    BY <1>1, <2>1, <2>2, <2>3, <2>4, <2>5 DEF Observe, TypeOK
<1>2. CASE NoChange(r, m)
  <2>1. Settle(r, m, "no_change")
    BY <1>2 DEF NoChange
  <2>2. sha' \in [Runs -> [Mirrors -> Commits \cup {NoCommit}]]
    BY <1>2 DEF NoChange, TypeOK
  <2> QED
    BY <1>2, <1>i, <2>1, <2>2, SettleTyped DEF NoChange, TypeOK, CpStatus
<1>3. CASE MirrorFails(r, m)
  <2>1. Settle(r, m, "failed") /\ (Fault \/ NoFault)
    BY <1>3 DEF MirrorFails
  <2> QED
    BY <1>3, <1>i, <2>1, SettleTyped, FaultTyped DEF MirrorFails, TypeOK, CpStatus
<1>4. CASE Rehearse(r, m)
  <2>1. Settle(r, m, "succeeded")
    BY <1>4 DEF Rehearse
  <2> QED
    BY <1>4, <1>i, <2>1, SettleTyped DEF Rehearse, TypeOK, CpStatus
<1>5. CASE SendBranch(r, m)
  <2>1. PushOf(r, m, "branch") \in Push
    BY DEF PushOf, Push, TypeOK
  <2> QED
    BY <1>5, <2>1 DEF SendBranch, TypeOK, Steps
<1>6. CASE Confirm(r, m)
  <2>1. /\ Settle(r, m, "succeeded") \/ Settle(r, m, "failed")
        /\ Fault \/ NoFault
    BY <1>6 DEF Confirm
  <2> QED
    BY <1>6, <1>i, <2>1, SettleTyped, FaultTyped DEF Confirm, TypeOK, CpStatus
<1> QED
  BY <1>1, <1>2, <1>3, <1>4, <1>5, <1>6 DEF OnMirror

LEMMA HookTyped ==
    ASSUME TypeOK, NEW r \in Runs, NEW h \in Hooks, OnHook(r, h)
    PROVE  TypeOK'
<1> USE DEF memory, durable, mirrors, bounds
<1>i. h \in Items
  BY DEF Items
<1>1. CASE PassHook(r, h)
  <2>1. \E s \in {"skipped", "awaiting"} : cp' = [cp EXCEPT ![r][h] = s]
    BY <1>1 DEF PassHook
  <2>2. cp' \in [Runs -> [Items -> CpStatus]]
    BY <2>1, <1>i DEF TypeOK, CpStatus
  <2> QED
    BY <1>1, <2>2 DEF PassHook, TypeOK
<1>2. CASE StartHook(r, h)
  BY <1>2 DEF StartHook, TypeOK, Steps
<1>3. CASE EndHook(r, h)
  <2>1. /\ \E status \in {"succeeded", "no_change", "failed"} : Settle(r, h, status)
        /\ Fault \/ NoFault
    BY <1>3 DEF EndHook
  <2> QED
    BY <1>3, <1>i, <2>1, SettleTyped, FaultTyped DEF EndHook, TypeOK, CpStatus
<1> QED
  BY <1>1, <1>2, <1>3 DEF OnHook

LEMMA PushTyped ==
    ASSUME TypeOK, NEW q \in inflight, Handle(q)
    PROVE  TypeOK'
<1> USE DEF memory, durable, mirrors, bounds
<1>i. /\ q \in Push /\ q.run \in Runs /\ q.mirror \in Mirrors /\ q.mirror \in Items
      /\ [q EXCEPT !.ref = "tag"] \in Push
  BY DEF TypeOK, Push, Items
<1>1. CASE Accept(q)
  <2>1. q.run \in Commits
    BY <1>i DEF Commits
  <2>2. inflight' \subseteq Push
    <3>1. \/ inflight' = inflight \ {q}
          \/ inflight' = (inflight \ {q}) \cup {[q EXCEPT !.ref = "tag"]}
      BY <1>1 DEF Accept
    <3> QED
      BY <3>1, <1>i DEF TypeOK
  <2>3. step' \in [Runs -> Steps]
    BY <1>1, <1>i DEF Accept, TypeOK, Steps
  <2>4. sha' \in [Runs -> [Mirrors -> Commits \cup {NoCommit}]]
    <3>1. sha' = [sha EXCEPT ![q.run][q.mirror] = q.run] \/ sha' = sha
      BY <1>1 DEF Accept
    <3> DEFINE V == Commits \cup {NoCommit}
    <3>2. q.run \in V /\ sha \in [Runs -> [Mirrors -> V]]
      BY <2>1 DEF TypeOK
    <3> HIDE DEF V
    <3>3. sha' \in [Runs -> [Mirrors -> V]]
      BY <3>1, <3>2, <1>i
    <3> QED
      BY <3>3 DEF V
  <2>5. /\ tip' \in [Mirrors -> Commits]
        /\ tag' \in [Mirrors -> Commits \cup {NoCommit}]
        /\ log' \in [Mirrors -> SUBSET Commits]
    <3>1. CASE q.ref = "branch"
      <4>1. /\ tip' = [tip EXCEPT ![q.mirror] = q.run]
            /\ log' = [log EXCEPT ![q.mirror] = @ \cup {q.run}]
            /\ UNCHANGED tag
        BY <1>1, <3>1 DEF Accept
      <4> QED
        BY <4>1, <1>i, <2>1 DEF TypeOK
    <3>2. CASE q.ref # "branch"
      <4>1. tag' = [tag EXCEPT ![q.mirror] = q.run] /\ UNCHANGED <<tip, log>>
        BY <1>1, <3>2 DEF Accept
      <4> QED
        BY <4>1, <1>i, <2>1 DEF TypeOK
    <3> QED
      BY <3>1, <3>2
  <2> QED
    BY <1>1, <2>2, <2>3, <2>4, <2>5 DEF Accept, TypeOK
<1>2. CASE Reject(q)
  <2>1. /\ cp' \in [Runs -> [Items -> CpStatus]]
        /\ journal' \in [Runs -> Record]
        /\ step' \in [Runs -> Steps]
    BY <1>2, <1>i, SettleTyped DEF Reject, TypeOK, CpStatus
  <2>2. faults' \in 0 .. MaxFaults /\ calm' \in [Runs -> BOOLEAN]
    BY <1>2, FaultTyped DEF Reject
  <2> QED
    BY <1>2, <2>1, <2>2 DEF Reject, TypeOK
<1>3. CASE TimeOut(q)
  BY <1>3, <1>i, SettleTyped, FaultTyped DEF TimeOut, TypeOK, CpStatus
<1> QED
  BY <1>1, <1>2, <1>3 DEF Handle

LEMMA OthersTyped ==
    ASSUME TypeOK, Verify \/ \E m \in Mirrors : Tamper(m)
    PROVE  TypeOK'
<1> USE LimitAssumption DEF memory, durable, mirrors, bounds
<1>1. CASE Verify
  BY <1>1 DEF Verify, TypeOK
<1>2. ASSUME NEW m \in Mirrors, Tamper(m) PROVE TypeOK'
  <2>1. /\ tip' \in [Mirrors -> Commits]
        /\ tag' \in [Mirrors -> Commits \cup {NoCommit}]
        /\ log' \in [Mirrors -> SUBSET Commits]
    <3>1. CASE /\ tip' = [tip EXCEPT ![m] = "foreign"]
               /\ log' = [log EXCEPT ![m] = @ \cup {"foreign"}]
               /\ UNCHANGED tag
      BY <1>2, <3>1 DEF TypeOK, Commits
    <3>2. CASE tag' = [tag EXCEPT ![m] = "foreign"] /\ UNCHANGED <<tip, log>>
      BY <1>2, <3>2 DEF TypeOK, Commits
    <3> QED
      BY <1>2, <3>1, <3>2 DEF Tamper
  <2>2. tampers' \in 0 .. MaxTampers
    BY <1>2 DEF Tamper, TypeOK
  <2>3. calm' \in [Runs -> BOOLEAN]
    BY <1>2 DEF Tamper
  <2> QED
    BY <1>2, <2>1, <2>2, <2>3 DEF Tamper, TypeOK
<1> QED
  BY <1>1, <1>2

LEMMA StepTyped == TypeOK /\ [Next]_vars => TypeOK'
<1> SUFFICES ASSUME TypeOK, [Next]_vars PROVE TypeOK'
  OBVIOUS
<1>1. CASE UNCHANGED vars
  BY <1>1 DEF vars, memory, durable, mirrors, bounds, TypeOK
<1>2. CASE \E r \in Runs : Start(r) \/ Walk(r) \/ Crash(r)
  BY <1>2, FrameTyped, MirrorTyped, HookTyped DEF Walk
<1>3. CASE \E q \in inflight : Handle(q)
  BY <1>3, PushTyped
<1>4. CASE Verify \/ \E m \in Mirrors : Tamper(m)
  BY <1>4, OthersTyped
<1> QED
  BY <1>1, <1>2, <1>3, <1>4 DEF Next

\* The variables of the distribution keep their types.
THEOREM DistributionTyped == Spec => []TypeOK
BY InitTyped, StepTyped, PTL DEF Spec

(***************************************************************************)
(* Order: the chain, the write-ahead and the stop                          *)
(***************************************************************************)
LEMMA AtOne ==
    ASSUME NEW r \in Runs, NEW i \in Items, NEW j \in Items, At(r, i), At(r, j)
    PROVE  i = j
BY ChainAssumption DEF At, Open

LEMMA TouchedIs ==
    ASSUME TypeOK, NEW r \in Runs, NEW i \in Items
    PROVE  Touched(r, i) <=> i \in ran[r] \/ (i \in Mirrors /\ Pushed(r, i))
BY DEF Touched, Pushed, TypeOK, Push

LEMMA HooksAreNotMirrors == ASSUME NEW h \in Hooks PROVE h \notin Mirrors
BY ChainAssumption

\* A run that a step leaves alone, or that only stops what it was doing.
LEMMA Aside ==
    ASSUME TypeOK, TypeOK', NEW x \in Runs, Tidy(x),
           step'[x] = step[x] \/ step'[x] \notin Writing \cup {"hook"},
           cp'[x] = cp[x],
           journal'[x].cp = journal[x].cp \/ journal'[x].cp = cp[x],
           ran'[x] = ran[x],
           \A m \in Mirrors : Pushed(x, m)' => Pushed(x, m),
           step'[x] = step[x] => journal'[x] = journal[x]
    PROVE  Tidy(x)'
<1>1. Open(x)' = Open(x) /\ \A i \in Items : At(x, i)' <=> At(x, i)
  BY DEF Open, At
<1>2. Stopped(x)' <=> Stopped(x)
  BY DEF Stopped
<1>3. Walked(x)'
  BY <1>1 DEF Tidy, Walked
<1>4. Busy(x)'
  BY <1>1, <1>2 DEF Tidy, Busy
<1>5. Admits(x)'
  BY DEF Tidy, Admits
<1>6. Behind(x)'
  <2>1. \A i \in Items : Touched(x, i)' => Touched(x, i)
    <3> SUFFICES ASSUME NEW i \in Items, Touched(x, i)' PROVE Touched(x, i)
      OBVIOUS
    <3>1. (i \in ran[x] \/ (i \in Mirrors /\ Pushed(x, i)))'
      BY DEF Touched, Pushed, TypeOK, Push
    <3> QED
      BY <3>1, TouchedIs
  <2> QED
    BY <2>1 DEF Tidy, Behind
<1> QED
  BY <1>3, <1>4, <1>5, <1>6 DEF Tidy

\* A run closes the item it is at.
LEMMA Closes ==
    ASSUME TypeOK, TypeOK', NEW r \in Runs, NEW i \in Items, At(r, i), Tidy(r),
           NEW status \in Good \cup {"failed"},
           cp'[r] = [cp[r] EXCEPT ![i] = status],
           step'[r] = "next",
           journal'[r].cp = journal[r].cp \/ journal'[r].cp = cp'[r],
           ran'[r] = ran[r],
           \A m \in Mirrors : Pushed(r, m)' => Pushed(r, m)
    PROVE  Tidy(r)'
<1>1. /\ cp[r] \in [Items -> CpStatus]
      /\ i \in Open(r) /\ \A j \in Open(r) : Rank[i] <= Rank[j]
  BY DEF At, TypeOK
<1>2. Open(r)' = Open(r) \ {i}
  BY <1>1 DEF Open, Good
<1>3. Walked(r)'
  <2> SUFFICES ASSUME NEW k \in Open(r)', NEW j \in Items \ Open(r)' PROVE Rank[j] < Rank[k]
    BY DEF Walked
  <2>1. CASE j = i
    <3>1. k \in Items /\ k # i /\ Rank[i] <= Rank[k]
      BY <1>1, <1>2 DEF Open
    <3> QED
      BY <2>1, <3>1, ChainAssumption
  <2>2. CASE j # i
    BY <2>2, <1>2 DEF Tidy, Walked
  <2> QED
    BY <2>1, <2>2
<1>4. Busy(r)'
  BY DEF Busy, Writing
<1>5. Admits(r)'
  BY <1>1 DEF Tidy, Admits, Good, Items
<1>6. Behind(r)'
  <2> SUFFICES ASSUME NEW k \in Items, NEW j \in Items, Touched(r, k)', Rank[j] < Rank[k]
               PROVE  cp'[r][j] \in Good
    BY DEF Behind
  <2>1. (k \in ran[r] \/ (k \in Mirrors /\ Pushed(r, k)))'
    BY DEF Touched, Pushed, TypeOK, Push
  <2>2. Touched(r, k)
    BY <2>1, TouchedIs
  <2>3. cp[r][j] \in Good
    BY <2>2 DEF Tidy, Behind
  <2>4. j # i
    BY <2>3, <1>1 DEF Open, Good
  <2> QED
    BY <1>1, <2>3, <2>4
<1> QED
  BY <1>3, <1>4, <1>5, <1>6 DEF Tidy

\* Everything in front of the item a run is at has ended well, unless the run
\* is stopped.
LEMMA InFront ==
    ASSUME TypeOK, NEW r \in Runs, NEW i \in Items, At(r, i), ~Stopped(r),
           NEW j \in Items, Rank[j] < Rank[i]
    PROVE  cp[r][j] \in Good
<1>1. j \notin Open(r)
  <2>1. Rank[i] \in Nat /\ Rank[j] \in Nat
    BY ChainAssumption
  <2> QED
    BY <2>1 DEF At
<1>2. cp[r][j] \in CpStatus
  BY DEF TypeOK
<1> QED
  BY <1>1, <1>2 DEF Open, Stopped, CpStatus, Good

LEMMA SettleOrderly ==
    ASSUME TypeOK, TypeOK', Orderly, NEW r \in Runs, NEW i \in Items, At(r, i),
           NEW status \in Good \cup {"failed"}, Settle(r, i, status), UNCHANGED ran,
           \A x \in Runs, m \in Mirrors : Pushed(x, m)' => Pushed(x, m)
    PROVE  Orderly'
<1> SUFFICES ASSUME NEW x \in Runs PROVE Tidy(x)'
  BY DEF Orderly
<1>1. /\ cp' = [cp EXCEPT ![r][i] = status]
      /\ journal' = [journal EXCEPT ![r] = [status |-> "PARTIAL", cp |-> cp'[r]]]
      /\ step' = [step EXCEPT ![r] = "next"]
  BY DEF Settle, Snapshot
<1>2. CASE x = r
  <2>1. /\ cp'[r] = [cp[r] EXCEPT ![i] = status]
        /\ journal'[r].cp = cp'[r]
        /\ step'[r] = "next"
    BY <1>1 DEF TypeOK
  <2> QED
    BY <1>2, <2>1, Closes DEF Orderly
<1>3. CASE x # r
  <2>1. cp'[x] = cp[x] /\ journal'[x] = journal[x] /\ step'[x] = step[x]
    BY <1>1, <1>3 DEF TypeOK
  <2> QED
    BY <2>1, Aside DEF Orderly
<1> QED
  BY <1>2, <1>3

\* Pushes only leave the air, and the branches do not move.
LEMMA NoNewPush ==
    ASSUME UNCHANGED log, inflight' \subseteq inflight, NEW x \in Runs, NEW m \in Mirrors
    PROVE  Pushed(x, m)' => Pushed(x, m)
BY DEF Pushed

LEMMA FrameOrderly ==
    ASSUME TypeOK, TypeOK', Orderly, NEW r \in Runs,
           Start(r) \/ Probe(r) \/ Throw(r) \/ WriteRecord(r) \/ Crash(r)
    PROVE  Orderly'
<1> USE DEF mirrors, durable
<1> SUFFICES ASSUME NEW x \in Runs PROVE Tidy(x)'
  BY DEF Orderly
<1>1. cp' = cp /\ ran' = ran /\ UNCHANGED log /\ inflight' = inflight
  BY DEF Start, Probe, Throw, WriteRecord, Crash
<1>2. \/ journal' = journal
      \/ \E status : journal' = [journal EXCEPT ![r] = [status |-> status, cp |-> cp[r]]]
  BY DEF Start, Probe, Throw, WriteRecord, Crash, Snapshot
<1>3. \E s \in {"gates", "next", "ended", "dead"} : step' = [step EXCEPT ![r] = s]
  BY DEF Start, Probe, Throw, WriteRecord, Crash
<1>4. x # r => step'[x] = step[x] /\ journal'[x] = journal[x]
  BY <1>2, <1>3 DEF TypeOK
<1>5. x = r => /\ step'[x] \notin Writing \cup {"hook"}
               /\ step'[x] # step[x]
               /\ journal'[x].cp = journal[x].cp \/ journal'[x].cp = cp[x]
  <2>1. x = r => step'[x] \notin Writing \cup {"hook"}
    BY <1>3 DEF TypeOK, Writing
  <2>2. x = r => step'[x] # step[x]
    BY DEF Start, Probe, Throw, WriteRecord, Crash, Active, TypeOK
  <2>3. journal'[x].cp = journal[x].cp \/ journal'[x].cp = cp[x]
    BY <1>2, <1>4 DEF TypeOK
  <2> QED
    BY <2>1, <2>2, <2>3
<1> QED
  BY <1>1, <1>4, <1>5, NoNewPush, Aside DEF Orderly

LEMMA CloseOrderly ==
    ASSUME TypeOK, TypeOK', Orderly, NEW r \in Runs, Close(r)
    PROVE  Orderly'
<1> SUFFICES ASSUME NEW x \in Runs PROVE Tidy(x)'
  BY DEF Orderly
<1> DEFINE cps == [i \in Items |-> IF i \in Open(r) THEN "skipped" ELSE cp[r][i]]
<1>1. /\ cp' = [cp EXCEPT ![r] = cps]
      /\ journal' = [journal EXCEPT ![r] = [status |-> Overall(r, cp'[r]), cp |-> cp'[r]]]
      /\ step' = [step EXCEPT ![r] = "close"]
      /\ ran' = ran /\ UNCHANGED log /\ inflight' = inflight
  BY DEF Close, Snapshot, mirrors
<1>2. CASE x = r
  <2>1. cp'[r] = cps /\ journal'[r].cp = cps /\ step'[r] = "close" /\ ran'[r] = ran[r]
    BY <1>1 DEF TypeOK
  <2>2. Open(r)' = {}
    BY <2>1 DEF Open
  <2>3. Walked(r)' /\ Busy(r)' /\ Admits(r)'
    BY <2>1, <2>2, <1>1, NoNewPush DEF Walked, Busy, Writing, Admits, Orderly, Tidy, Items
  <2>4. Behind(r)'
    <3> SUFFICES ASSUME NEW k \in Items, NEW j \in Items, Touched(r, k)', Rank[j] < Rank[k]
                 PROVE  cps[j] \in Good
      BY <2>1 DEF Behind
    <3>1. Touched(r, k)
      BY <1>1 DEF Touched
    <3>2. cp[r][j] \in Good
      BY <3>1 DEF Orderly, Tidy, Behind
    <3> QED
      BY <3>2 DEF Good
  <2> QED
    BY <1>2, <2>3, <2>4 DEF Tidy
<1>3. CASE x # r
  <2>1. cp'[x] = cp[x] /\ journal'[x] = journal[x] /\ step'[x] = step[x]
    BY <1>1, <1>3 DEF TypeOK
  <2> QED
    BY <1>1, <2>1, NoNewPush, Aside DEF Orderly
<1> QED
  BY <1>2, <1>3

LEMMA ObserveOrderly ==
    ASSUME TypeOK, TypeOK', Orderly, NEW r \in Runs, NEW m \in Mirrors, Observe(r, m)
    PROVE  Orderly'
<1>i. m \in Items /\ At(r, m) /\ ~Stopped(r) /\ step[r] = "next"
  BY DEF Observe, Items
<1>u. ran' = ran /\ UNCHANGED log /\ inflight' = inflight
  BY DEF Observe, mirrors
<1> SUFFICES ASSUME NEW x \in Runs PROVE Tidy(x)'
  BY DEF Orderly
<1>1. CASE cp' = [cp EXCEPT ![r][m] = "skipped"] /\ UNCHANGED <<step, journal>>
  <2>1. CASE x = r
    <3>1. cp'[r] = [cp[r] EXCEPT ![m] = "skipped"] /\ step'[r] = "next"
      BY <1>1, <1>i DEF TypeOK
    <3>2. "skipped" \in Good \cup {"failed"}
      BY DEF Good
    <3> QED
      BY <1>1, <1>i, <1>u, <2>1, <3>1, <3>2, NoNewPush, Closes DEF Orderly
  <2>2. CASE x # r
    <3>1. cp'[x] = cp[x]
      BY <1>1, <2>2 DEF TypeOK
    <3> QED
      BY <1>1, <1>u, <3>1, NoNewPush, Aside DEF Orderly
  <2> QED
    BY <2>1, <2>2
<1>2. CASE /\ cp' = [cp EXCEPT ![r][m] = "uncertain"]
           /\ Snapshot(r, "DISTRIBUTING", cp'[r])
           /\ step' = [step EXCEPT ![r] = "clone"]
  <2>1. CASE x = r
    <3>1. /\ cp'[r] = [cp[r] EXCEPT ![m] = "uncertain"]
          /\ journal'[r].cp = cp'[r]
          /\ step'[r] = "clone"
          /\ cp[r] \in [Items -> CpStatus]
      BY <1>2 DEF TypeOK, Snapshot
    <3>2. /\ m \in Open(r) /\ Open(r)' = Open(r)
          /\ \A i \in Items : At(r, i)' <=> At(r, i)
      BY <3>1, <1>i DEF At, Open
    <3>3. Walked(r)'
      BY <3>2 DEF Orderly, Tidy, Walked
    <3>4. Busy(r)'
      <4>1. ~Stopped(r)'
        BY <3>1, <1>i DEF Stopped
      <4>2. \A i \in Items : At(r, i)' => i = m
        BY <3>2, <1>i, AtOne
      <4> QED
        BY <3>1, <1>i, <4>1, <4>2 DEF Busy, Writing
    <3>5. Admits(r)'
      BY <3>1, <1>u, NoNewPush DEF Orderly, Tidy, Admits, Items
    <3>6. Behind(r)'
      <4> SUFFICES ASSUME NEW k \in Items, NEW j \in Items, Touched(r, k)', Rank[j] < Rank[k]
                   PROVE  cp'[r][j] \in Good
        BY DEF Behind
      <4>1. Touched(r, k)
        BY <1>u DEF Touched
      <4>2. cp[r][j] \in Good
        BY <4>1 DEF Orderly, Tidy, Behind
      <4>3. j # m
        BY <4>2, <3>2 DEF Open, Good
      <4> QED
        BY <3>1, <4>2, <4>3
    <3> QED
      BY <2>1, <3>3, <3>4, <3>5, <3>6 DEF Tidy
  <2>2. CASE x # r
    <3>1. cp'[x] = cp[x] /\ journal'[x] = journal[x] /\ step'[x] = step[x]
      BY <1>2, <2>2 DEF TypeOK, Snapshot
    <3> QED
      BY <1>u, <3>1, NoNewPush, Aside DEF Orderly
  <2> QED
    BY <2>1, <2>2
<1> QED
  BY <1>1, <1>2 DEF Observe

\* The first push of a mirror: the checkpoint is uncertain by then, and the
\* chain in front of it has ended well.
LEMMA SendOrderly ==
    ASSUME TypeOK, TypeOK', Orderly, NEW r \in Runs, NEW m \in Mirrors, SendBranch(r, m)
    PROVE  Orderly'
<1> SUFFICES ASSUME NEW x \in Runs PROVE Tidy(x)'
  BY DEF Orderly
<1> DEFINE q == PushOf(r, m, "branch")
<1>i. m \in Items /\ At(r, m) /\ step[r] = "clone"
  BY DEF SendBranch, Items
<1>q. q.run = r /\ q.mirror = m
  BY DEF PushOf
<1> HIDE DEF q
<1>1. /\ step' = [step EXCEPT ![r] = "branch"]
      /\ inflight' = inflight \cup {q}
      /\ cp' = cp /\ journal' = journal /\ ran' = ran /\ log' = log
  BY DEF SendBranch, q, durable, mirrors
<1>2. \A n \in Mirrors : Pushed(x, n)' => Pushed(x, n) \/ (x = r /\ n = m)
  BY <1>1, <1>q DEF Pushed
<1>3. CASE x = r
  <2>1. step'[r] = "branch"
    BY <1>1 DEF TypeOK
  <2>2. Open(r)' = Open(r) /\ \A i \in Items : At(r, i)' <=> At(r, i)
    BY <1>1 DEF Open, At
  <2>3. cp[r][m] = "uncertain" /\ journal[r].cp[m] = "uncertain" /\ ~Stopped(r)
    BY <1>i DEF Orderly, Tidy, Busy, Writing
  <2>4. Walked(r)'
    BY <2>2 DEF Orderly, Tidy, Walked
  <2>5. Busy(r)'
    BY <1>i, <1>1, <2>1, <2>2, <2>3 DEF Orderly, Tidy, Busy, Writing, Stopped
  <2>6. Admits(r)'
    BY <1>1, <1>2, <1>3, <2>3 DEF Orderly, Tidy, Admits
  <2>7. Behind(r)'
    <3> SUFFICES ASSUME NEW k \in Items, NEW j \in Items, Touched(r, k)', Rank[j] < Rank[k]
                 PROVE  cp[r][j] \in Good
      BY <1>1 DEF Behind
    <3>1. (k \in ran[r] \/ (k \in Mirrors /\ Pushed(r, k)))'
      BY DEF Touched, Pushed, TypeOK, Push
    <3>2. CASE k = m
      BY <1>i, <2>3, <3>2, InFront
    <3>3. CASE k # m
      <4>1. Touched(r, k)
        BY <1>1, <1>2, <1>3, <3>1, <3>3, TouchedIs
      <4> QED
        BY <4>1 DEF Orderly, Tidy, Behind
    <3> QED
      BY <3>2, <3>3
  <2> QED
    BY <1>3, <2>4, <2>5, <2>6, <2>7 DEF Tidy
<1>4. CASE x # r
  <2>1. step'[x] = step[x]
    BY <1>1, <1>4 DEF TypeOK
  <2> QED
    BY <1>1, <1>2, <1>4, <2>1, Aside DEF Orderly
<1> QED
  BY <1>3, <1>4

\* The tag's push follows that of the branch: an accepted push is of a mirror
\* the run had pushed already.
LEMMA AcceptPushes ==
    ASSUME TypeOK, NEW q \in inflight, Accept(q), NEW x \in Runs, NEW n \in Mirrors, Pushed(x, n)'
    PROVE  Pushed(x, n)
<1>q. q \in Push /\ q.run \in Runs /\ q.mirror \in Mirrors
  BY DEF TypeOK, Push
<1>1. CASE x \in log'[n]
  <2>1. x \in log[n] \/ (x = q.run /\ n = q.mirror)
    BY <1>1, <1>q DEF Accept, TypeOK
  <2> QED
    BY <2>1 DEF Pushed
<1>2. CASE \E p \in inflight' : p.run = x /\ p.mirror = n
  <2>1. PICK p \in inflight' : p.run = x /\ p.mirror = n
    BY <1>2
  <2>2. p \in inflight \/ p = [q EXCEPT !.ref = "tag"]
    BY DEF Accept
  <2>3. [q EXCEPT !.ref = "tag"].run = q.run /\ [q EXCEPT !.ref = "tag"].mirror = q.mirror
    BY <1>q DEF Push
  <2> QED
    BY <2>1, <2>2, <2>3 DEF Pushed
<1> QED
  BY <1>1, <1>2 DEF Pushed

LEMMA AcceptOrderly ==
    ASSUME TypeOK, TypeOK', Orderly, NEW q \in inflight, Accept(q)
    PROVE  Orderly'
<1> SUFFICES ASSUME NEW x \in Runs PROVE Tidy(x)'
  BY DEF Orderly
<1>q. q \in Push /\ q.run \in Runs /\ q.mirror \in Mirrors
  BY DEF TypeOK, Push
<1>1. cp' = cp /\ journal' = journal /\ ran' = ran
  BY DEF Accept, durable
<1>2. \A n \in Mirrors : Pushed(x, n)' => Pushed(x, n)
  BY AcceptPushes
<1>3. CASE step'[x] = step[x]
  BY <1>1, <1>2, <1>3, Aside DEF Orderly
<1>4. CASE step'[x] # step[x]
  <2>1. /\ x = q.run /\ Waits(q)
        /\ step'[x] = "tag" \/ (step'[x] = "confirm" /\ step[x] = "tag")
    BY <1>4, <1>q DEF Accept, Waits, TypeOK, Push
  <2>2. Open(x)' = Open(x) /\ \A i \in Items : At(x, i)' <=> At(x, i)
    BY <1>1 DEF Open, At
  <2>3. step[x] \in Writing
    BY <2>1, <1>q DEF Waits, Push, Writing
  <2>4. Walked(x)'
    BY <2>2 DEF Orderly, Tidy, Walked
  <2>5. Busy(x)'
    BY <1>1, <2>1, <2>2, <2>3 DEF Orderly, Tidy, Busy, Writing, Stopped
  <2>6. Admits(x)'
    BY <1>1, <1>2 DEF Orderly, Tidy, Admits
  <2>7. Behind(x)'
    <3>1. \A k \in Items : Touched(x, k)' => Touched(x, k)
      <4> SUFFICES ASSUME NEW k \in Items, Touched(x, k)' PROVE Touched(x, k)
        OBVIOUS
      <4>1. (k \in ran[x] \/ (k \in Mirrors /\ Pushed(x, k)))'
        BY DEF Touched, Pushed, TypeOK, Push
      <4> QED
        BY <1>1, <1>2, <4>1, TouchedIs
    <3> QED
      BY <1>1, <3>1 DEF Orderly, Tidy, Behind
  <2> QED
    BY <2>4, <2>5, <2>6, <2>7 DEF Tidy
<1> QED
  BY <1>3, <1>4

LEMMA EndedOrderly ==
    ASSUME TypeOK, TypeOK', Orderly, NEW q \in inflight, Reject(q) \/ TimeOut(q)
    PROVE  Orderly'
<1>q. q.run \in Runs /\ q.mirror \in Mirrors /\ q.mirror \in Items
  BY DEF TypeOK, Push, Items
<1>1. UNCHANGED ran /\ UNCHANGED log /\ inflight' \subseteq inflight
  BY DEF Reject, TimeOut, mirrors
<1>2. CASE Settle(q.run, q.mirror, "failed") /\ At(q.run, q.mirror)
  BY <1>q, <1>1, <1>2, NoNewPush, SettleOrderly
<1>3. CASE UNCHANGED <<step, cp, journal>>
  BY <1>1, <1>3, NoNewPush, Aside DEF Orderly
<1> QED
  BY <1>2, <1>3 DEF Reject, TimeOut, Waits

LEMMA SettledOrderly ==
    ASSUME TypeOK, TypeOK', Orderly, NEW r \in Runs, NEW m \in Mirrors,
           NoChange(r, m) \/ MirrorFails(r, m) \/ Rehearse(r, m) \/ Confirm(r, m)
    PROVE  Orderly'
<1>1. /\ m \in Items /\ At(r, m)
      /\ UNCHANGED ran /\ UNCHANGED log /\ inflight' \subseteq inflight
  BY DEF NoChange, MirrorFails, Rehearse, Confirm, mirrors, Items
<1>2. \E status \in Good \cup {"failed"} : Settle(r, m, status)
  BY DEF NoChange, MirrorFails, Rehearse, Confirm, Good
<1> QED
  BY <1>1, <1>2, NoNewPush, SettleOrderly

LEMMA HookOrderly ==
    ASSUME TypeOK, TypeOK', Orderly, NEW r \in Runs, NEW h \in Hooks, OnHook(r, h)
    PROVE  Orderly'
<1>i. h \in Items
  BY DEF Items
<1>1. CASE PassHook(r, h)
  <2>u. /\ UNCHANGED <<ran, log, inflight, step, journal>>
        /\ step[r] = "next" /\ At(r, h)
    BY <1>1 DEF PassHook, durable, mirrors
  <2>1. PICK status \in {"skipped", "awaiting"} : cp' = [cp EXCEPT ![r][h] = status]
    BY <1>1 DEF PassHook
  <2> SUFFICES ASSUME NEW x \in Runs PROVE Tidy(x)'
    BY DEF Orderly
  <2>2. CASE x = r
    <3>1. cp'[r] = [cp[r] EXCEPT ![h] = status] /\ status \in Good \cup {"failed"}
      BY <2>1 DEF TypeOK, Good
    <3> QED
      BY <1>i, <2>u, <2>2, <3>1, NoNewPush, Closes DEF Orderly
  <2>3. CASE x # r
    <3>1. cp'[x] = cp[x]
      BY <2>1, <2>3 DEF TypeOK
    <3> QED
      BY <2>u, <3>1, NoNewPush, Aside DEF Orderly
  <2> QED
    BY <2>2, <2>3
<1>2. CASE StartHook(r, h)
  <2>u. /\ UNCHANGED <<cp, log, inflight, journal>>
        /\ At(r, h) /\ ~Stopped(r)
        /\ step' = [step EXCEPT ![r] = "hook"]
        /\ ran' = [ran EXCEPT ![r] = @ \cup {h}]
    BY <1>2 DEF StartHook, durable, mirrors
  <2> SUFFICES ASSUME NEW x \in Runs PROVE Tidy(x)'
    BY DEF Orderly
  <2>2. CASE x = r
    <3>1. step'[r] = "hook" /\ ran'[r] = ran[r] \cup {h}
      BY <2>u DEF TypeOK
    <3>2. Open(r)' = Open(r) /\ \A i \in Items : At(r, i)' <=> At(r, i)
      BY <2>u DEF Open, At
    <3>3. Walked(r)'
      BY <3>2 DEF Orderly, Tidy, Walked
    <3>4. Busy(r)'
      <4>1. \A i \in Items : At(r, i)' => i = h
        BY <1>i, <2>u, <3>2, AtOne
      <4> QED
        BY <2>u, <3>1, <4>1 DEF Busy, Writing, Stopped
    <3>5. Admits(r)'
      BY <2>u, NoNewPush DEF Orderly, Tidy, Admits
    <3>6. Behind(r)'
      <4> SUFFICES ASSUME NEW k \in Items, NEW j \in Items, Touched(r, k)', Rank[j] < Rank[k]
                   PROVE  cp[r][j] \in Good
        BY <2>u DEF Behind
      <4>1. CASE k = h
        BY <1>i, <2>u, <4>1, InFront
      <4>2. CASE k # h
        <5>1. Touched(r, k)
          BY <2>u, <3>1, <4>2 DEF Touched
        <5> QED
          BY <5>1 DEF Orderly, Tidy, Behind
      <4> QED
        BY <4>1, <4>2
    <3> QED
      BY <2>2, <3>3, <3>4, <3>5, <3>6 DEF Tidy
  <2>3. CASE x # r
    <3>1. step'[x] = step[x] /\ ran'[x] = ran[x]
      BY <2>u, <2>3 DEF TypeOK
    <3> QED
      BY <2>u, <3>1, NoNewPush, Aside DEF Orderly
  <2> QED
    BY <2>2, <2>3
<1>3. CASE EndHook(r, h)
  <2>1. /\ At(r, h)
        /\ UNCHANGED ran /\ UNCHANGED log /\ inflight' \subseteq inflight
    BY <1>3 DEF EndHook, mirrors
  <2>2. \E status \in Good \cup {"failed"} : Settle(r, h, status)
    BY <1>3 DEF EndHook, Good
  <2> QED
    BY <1>i, <2>1, <2>2, NoNewPush, SettleOrderly
<1> QED
  BY <1>1, <1>2, <1>3 DEF OnHook

LEMMA OthersOrderly ==
    ASSUME TypeOK, TypeOK', Orderly,
           Verify \/ (\E m \in Mirrors : Tamper(m)) \/ UNCHANGED vars
    PROVE  Orderly'
<1> USE DEF memory, durable, mirrors, bounds
<1>1. UNCHANGED <<step, cp, journal, ran, inflight>>
  BY DEF Verify, Tamper, vars
<1>2. \A x \in Runs, m \in Mirrors : Pushed(x, m)' => Pushed(x, m)
  <2> SUFFICES ASSUME NEW x \in Runs, NEW m \in Mirrors PROVE x \in log'[m] => x \in log[m]
    BY <1>1 DEF Pushed
  <2>1. x # "foreign"
    BY NameAssumption
  <2> QED
    <3>1. CASE log' = log
      BY <3>1
    <3>2. ASSUME NEW n \in Mirrors, log' = [log EXCEPT ![n] = @ \cup {"foreign"}]
          PROVE  x \in log'[m] => x \in log[m]
      BY <2>1, <3>2 DEF TypeOK
    <3> QED
      BY <3>1, <3>2 DEF Verify, Tamper, vars
<1> QED
  BY <1>1, <1>2, Aside DEF Orderly

LEMMA InitOrderly == Init => Orderly
<1> SUFFICES ASSUME Init, NEW r \in Runs PROVE Tidy(r)
  BY DEF Orderly
<1>1. /\ step[r] = "idle" /\ ran[r] = {} /\ inflight = {}
      /\ \A i \in Items : cp[r][i] = "pending"
  BY DEF Init, Untouched
<1>2. \A m \in Mirrors : r \notin log[m]
  BY NameAssumption DEF Init
<1>3. Walked(r)
  BY <1>1 DEF Walked, Open
<1>4. Busy(r)
  BY <1>1 DEF Busy, Writing
<1>5. Admits(r) /\ Behind(r)
  BY <1>1, <1>2 DEF Admits, Behind, Pushed, Touched
<1> QED
  BY <1>3, <1>4, <1>5 DEF Tidy

LEMMA StepOrderly == TypeOK /\ TypeOK' /\ Orderly /\ [Next]_vars => Orderly'
<1> SUFFICES ASSUME TypeOK, TypeOK', Orderly, [Next]_vars PROVE Orderly'
  OBVIOUS
<1>1. CASE \E r \in Runs : Start(r) \/ Walk(r) \/ Crash(r)
  <2> PICK r \in Runs : Start(r) \/ Walk(r) \/ Crash(r)
    BY <1>1
  <2>1. CASE Start(r) \/ Probe(r) \/ Throw(r) \/ WriteRecord(r) \/ Crash(r)
    BY <2>1, FrameOrderly
  <2>2. CASE Close(r)
    BY <2>2, CloseOrderly
  <2>3. ASSUME NEW m \in Mirrors, OnMirror(r, m) PROVE Orderly'
    BY <2>3, ObserveOrderly, SettledOrderly, SendOrderly DEF OnMirror
  <2>4. ASSUME NEW h \in Hooks, OnHook(r, h) PROVE Orderly'
    BY <2>4, HookOrderly
  <2> QED
    BY <2>1, <2>2, <2>3, <2>4 DEF Walk
<1>2. CASE \E q \in inflight : Handle(q)
  BY <1>2, AcceptOrderly, EndedOrderly DEF Handle
<1>3. CASE Verify \/ (\E m \in Mirrors : Tamper(m)) \/ UNCHANGED vars
  BY <1>3, OthersOrderly
<1> QED
  BY <1>1, <1>2, <1>3 DEF Next

LEMMA OrderlyHolds == Spec => [](TypeOK /\ Orderly)
<1>1. Init => TypeOK /\ Orderly
  BY InitTyped, InitOrderly
<1>2. TypeOK /\ Orderly /\ [Next]_vars => (TypeOK /\ Orderly)'
  BY StepTyped, StepOrderly
<1> QED
  BY <1>1, <1>2, PTL DEF Spec

\* Whatever a run pushed or may still be pushing, its journal admits: also the
\* journal of a run that was killed, or that gave up on a push.
THEOREM DistributionWriteAhead == Spec => []WriteAhead
<1>1. TypeOK /\ Orderly => WriteAhead
  <2> SUFFICES ASSUME TypeOK, Orderly, NEW r \in Runs, NEW m \in Mirrors, Touched(r, m)
               PROVE  journal[r].cp[m] # "pending"
    BY DEF WriteAhead
  <2>1. Pushed(r, m)
    BY HooksAreNotMirrors DEF Touched, Pushed, TypeOK
  <2> QED
    BY <2>1 DEF Orderly, Tidy, Admits
<1> QED
  BY <1>1, OrderlyHolds, PTL

\* Nothing is pushed and no hook started behind a failure.
THEOREM DistributionChainStops == Spec => []ChainStops
<1>1. Orderly => ChainStops
  BY DEF Orderly, Tidy, Behind, ChainStops
<1> QED
  BY <1>1, OrderlyHolds, PTL

(***************************************************************************)
(* Truth: what the records say of the mirrors                              *)
(***************************************************************************)
\* A mirror keeps what it received, and a tag does not move.
Grows ==
    /\ \A m \in Mirrors : log[m] \subseteq log'[m]
    /\ \A m \in Mirrors : tag[m] # NoCommit => tag'[m] = tag[m]

\* The actions that leave the mirrors and the pushes alone, or only end pushes.
Local ==
    /\ UNCHANGED <<tip, tag, log>>
    /\ inflight' \subseteq inflight

LEMMA AcceptRemote ==
    ASSUME TypeOK, NEW q \in inflight, Accept(q)
    PROVE  /\ q \in Push /\ q.run \in Runs /\ q.mirror \in Mirrors
           /\ \/ /\ q.ref = "branch"
                 /\ tip' = [tip EXCEPT ![q.mirror] = q.run]
                 /\ log' = [log EXCEPT ![q.mirror] = @ \cup {q.run}]
                 /\ tag' = tag
              \/ /\ q.ref = "tag" /\ tag[q.mirror] = NoCommit
                 /\ tag' = [tag EXCEPT ![q.mirror] = q.run]
                 /\ tip' = tip /\ log' = log
BY DEF Accept, Accepts, TypeOK, Push

LEMMA TamperRemote ==
    ASSUME NEW m \in Mirrors, Tamper(m)
    PROVE  /\ inflight' = inflight
           /\ \/ /\ tip' = [tip EXCEPT ![m] = "foreign"]
                 /\ log' = [log EXCEPT ![m] = @ \cup {"foreign"}]
                 /\ tag' = tag
              \/ /\ tag[m] = NoCommit
                 /\ tag' = [tag EXCEPT ![m] = "foreign"]
                 /\ tip' = tip /\ log' = log
BY DEF Tamper, memory, durable

\* A branch moves on, or a tag is set where there was none.
LEMMA BranchMoves ==
    ASSUME TypeOK, \A n \in Mirrors : OnRemote(n), NEW m \in Mirrors, NEW c,
           tip' = [tip EXCEPT ![m] = c], log' = [log EXCEPT ![m] = @ \cup {c}], tag' = tag
    PROVE  Grows /\ \A n \in Mirrors : OnRemote(n)'
<1>1. \A n \in Mirrors : log'[n] = IF n = m THEN log[n] \cup {c} ELSE log[n]
  BY DEF TypeOK
<1>2. \A n \in Mirrors : tip'[n] = IF n = m THEN c ELSE tip[n]
  BY DEF TypeOK
<1> QED
  BY <1>1, <1>2 DEF Grows, OnRemote

LEMMA TagSet ==
    ASSUME TypeOK, \A n \in Mirrors : OnRemote(n), NEW m \in Mirrors, NEW c,
           tag[m] = NoCommit, tag' = [tag EXCEPT ![m] = c], tip' = tip, log' = log,
           c \notin {"old", "same"}, c \in Runs => c \in log[m]
    PROVE  Grows /\ \A n \in Mirrors : OnRemote(n)'
<1>1. \A n \in Mirrors : tag'[n] = IF n = m THEN c ELSE tag[n]
  BY DEF TypeOK
<1> QED
  BY <1>1 DEF Grows, OnRemote

LEMMA LocalSteps ==
    ASSUME NEW r \in Runs, Start(r) \/ Walk(r) \/ Crash(r)
    PROVE  Local \/ \E m \in Mirrors : SendBranch(r, m)
<1> USE DEF mirrors, durable, Local
<1>1. CASE Start(r) \/ Probe(r) \/ Throw(r) \/ Close(r) \/ WriteRecord(r) \/ Crash(r)
  BY <1>1 DEF Start, Probe, Throw, Close, WriteRecord, Crash
<1>2. ASSUME NEW m \in Mirrors,
             Observe(r, m) \/ NoChange(r, m) \/ MirrorFails(r, m) \/ Rehearse(r, m) \/ Confirm(r, m)
      PROVE  Local
  BY <1>2 DEF Observe, NoChange, MirrorFails, Rehearse, Confirm
<1>3. ASSUME NEW h \in Hooks, OnHook(r, h) PROVE Local
  BY <1>3 DEF OnHook, PassHook, StartHook, EndHook
<1> QED
  BY <1>1, <1>2, <1>3 DEF Walk, OnMirror

LEMMA RemoteKept ==
    ASSUME TypeOK, TypeOK', \A m \in Mirrors : OnRemote(m), TagsFollow, [Next]_vars
    PROVE  Grows /\ (\A m \in Mirrors : OnRemote(m))' /\ TagsFollow'
<1>1. CASE Local
  BY <1>1 DEF Local, Grows, OnRemote, TagsFollow
<1>2. ASSUME NEW r \in Runs, NEW m \in Mirrors, SendBranch(r, m)
      PROVE  Grows /\ (\A n \in Mirrors : OnRemote(n))' /\ TagsFollow'
  <2>1. UNCHANGED <<tip, tag, log>> /\ inflight' = inflight \cup {PushOf(r, m, "branch")}
    BY <1>2 DEF SendBranch, mirrors
  <2>2. PushOf(r, m, "branch").ref # "tag"
    BY DEF PushOf
  <2> QED
    BY <2>1, <2>2 DEF Grows, OnRemote, TagsFollow
<1>3. ASSUME NEW q \in inflight, Accept(q)
      PROVE  Grows /\ (\A n \in Mirrors : OnRemote(n))' /\ TagsFollow'
  <2>1. Grows /\ \A n \in Mirrors : OnRemote(n)'
    <3>1. q.run \notin {"old", "same"}
      BY <1>3, AcceptRemote, NameAssumption
    <3>2. q.ref = "tag" => q.run \in log[q.mirror]
      BY DEF TagsFollow
    <3> QED
      BY <1>3, <3>1, <3>2, AcceptRemote, BranchMoves, TagSet
  <2>3. TagsFollow'
    <3> SUFFICES ASSUME NEW p \in inflight', p.ref = "tag" PROVE p.run \in log'[p.mirror]
      BY DEF TagsFollow
    <3>0. q \in Push /\ q.mirror \in Mirrors
      BY <1>3, AcceptRemote
    <3>1. CASE p \in inflight
      <4>1. p.mirror \in Mirrors
        BY <3>1 DEF TypeOK, Push
      <4> QED
        BY <3>1, <4>1, <2>1 DEF TagsFollow, Grows
    <3>2. CASE p \notin inflight
      <4>1. p = [q EXCEPT !.ref = "tag"] /\ q.ref = "branch"
        BY <1>3, <3>2 DEF Accept
      <4>2. p.run = q.run /\ p.mirror = q.mirror
        BY <4>1, <3>0 DEF Push
      <4>3. log' = [log EXCEPT ![q.mirror] = @ \cup {q.run}]
        BY <1>3, <4>1, AcceptRemote
      <4> QED
        BY <3>0, <4>2, <4>3 DEF TypeOK
    <3> QED
      BY <3>1, <3>2
  <2> QED
    BY <2>1, <2>3
<1>4. ASSUME NEW m \in Mirrors, Tamper(m)
      PROVE  Grows /\ (\A n \in Mirrors : OnRemote(n))' /\ TagsFollow'
  <2>1. Grows /\ \A n \in Mirrors : OnRemote(n)'
    <3>1. "foreign" \notin Runs
      BY NameAssumption
    <3> QED
      BY <1>4, <3>1, TamperRemote, BranchMoves, TagSet
  <2>3. TagsFollow'
    <3> SUFFICES ASSUME NEW p \in inflight', p.ref = "tag" PROVE p.run \in log'[p.mirror]
      BY DEF TagsFollow
    <3>1. p \in inflight /\ p.mirror \in Mirrors
      BY <1>4, TamperRemote DEF TypeOK, Push
    <3> QED
      BY <3>1, <2>1 DEF TagsFollow, Grows
  <2> QED
    BY <2>1, <2>3
<1>5. CASE Verify \/ UNCHANGED vars \/ \E q \in inflight : Reject(q) \/ TimeOut(q)
  <2>1. Local
    BY <1>5 DEF Local, Verify, Reject, TimeOut, vars, mirrors
  <2> QED
    BY <2>1, <1>1
<1> QED
  BY <1>1, <1>2, <1>3, <1>4, <1>5, LocalSteps DEF Next, Handle

LEMMA KnownKept ==
    ASSUME TypeOK, TypeOK', Grows, NEW r \in Runs, NEW m \in Mirrors, Known(r, m),
           sha'[r][m] = sha[r][m]
    PROVE  Known(r, m)'
<1>1. "foreign" # NoCommit
  BY DEF NoCommit
<1> QED
  BY <1>1 DEF Known, Carries, Grows

\* A run that keeps its checkpoints and commits.
LEMMA StaysHonest ==
    ASSUME TypeOK, TypeOK', Grows, NEW x \in Runs, Honest(x),
           \/ step'[x] = step[x]
           \/ step[x] # "ended" /\ step'[x] \in {"gates", "next", "clone", "branch", "tag", "hook", "dead"},
           cp'[x] = cp[x], runFile'[x] = runFile[x], dry'[x] = dry[x],
           sha'[x] = sha[x], probe'[x] = probe[x], ran[x] \subseteq ran'[x],
           \A m \in Mirrors : Pushed(x, m)' => Pushed(x, m)
    PROVE  Honest(x)'
<1>1. Open(x)' = Open(x) /\ \A i \in Items : At(x, i)' <=> At(x, i)
  BY DEF Open, At
<1>2. Recorded(x)'
  BY <1>1 DEF Honest, Recorded
<1>3. Knows(x)'
  <2>1. \A i : Got(x, i)' <=> Got(x, i)
    BY DEF Got
  <2> QED
    BY <2>1, KnownKept DEF Honest, Knows
<1>4. Sent(x)'
  <2>1. step'[x] = "confirm" => \A m \in Mirrors : At(x, m)' => sha'[x][m] = x
    BY <1>1 DEF Honest, Sent, Items
  <2>2. \A m \in Mirrors : probe'[x][m] # NoCommit => probe'[x][m] = tag'[m]
    BY DEF Honest, Sent, Grows
  <2>3. ASSUME NEW m \in Mirrors, Pushed(x, m)', IsIndex(m) PROVE Known(x, DependsOn[m])'
    <3>1. DependsOn[m] \in Mirrors
      BY <2>3, ChainAssumption DEF IsIndex
    <3> QED
      BY <2>3, <3>1, KnownKept DEF Honest, Sent
  <2> QED
    BY <2>1, <2>2, <2>3 DEF Sent
<1> QED
  BY <1>2, <1>3, <1>4 DEF Honest

\* Of an index that was pushed, the payload is closed.
LEMMA PayloadClosed ==
    ASSUME TypeOK, Orderly, NEW r \in Runs, NEW m \in Mirrors, Pushed(r, m), IsIndex(m)
    PROVE  /\ DependsOn[m] \in Mirrors
           /\ cp[r][DependsOn[m]] \in Good
<1>1. /\ DependsOn[m] \in Mirrors /\ Rank[DependsOn[m]] < Rank[m]
      /\ DependsOn[m] \in Items /\ m \in Items
  BY ChainAssumption DEF IsIndex, Items
<1>2. Touched(r, m)
  BY <1>1, TouchedIs
<1> QED
  BY <1>1, <1>2 DEF Orderly, Tidy, Behind

\* A run closes the item it is at, and knows what it needs to say so.
LEMMA ClosesHonest ==
    ASSUME TypeOK, TypeOK', Orderly, Grows, NEW r \in Runs, Honest(r),
           NEW i \in Items, At(r, i), step[r] # "ended", step'[r] = "next",
           NEW status \in Good \cup {"failed"}, cp'[r] = [cp[r] EXCEPT ![i] = status],
           status = "awaiting" => i \notin Mirrors,
           \A m \in Mirrors : m # i => sha'[r][m] = sha[r][m],
           runFile'[r] = runFile[r], dry'[r] = dry[r], probe'[r] = probe[r], ran'[r] = ran[r],
           \A m \in Mirrors : Pushed(r, m)' => Pushed(r, m),
           ~dry[r] /\ status \notin {"awaiting", "failed"} =>
               /\ i \in Mirrors => Known(r, i)'
               /\ i \in Hooks => i \in ran[r]
    PROVE  Honest(r)'
<1>0. cp[r] \in [Items -> CpStatus] /\ i \in Open(r)
  BY DEF TypeOK, At
<1>1. Recorded(r)'
  <2>1. runFile[r] = Absent
    BY DEF Honest, Recorded
  <2>2. Absent.status # "DISTRIBUTED"
    BY DEF Absent
  <2>3. \A m \in Mirrors : cp'[r][m] # "awaiting"
    BY <1>0 DEF Honest, Recorded, Items
  <2> QED
    BY <2>1, <2>2, <2>3 DEF Recorded
<1>2. Knows(r)'
  <2>1. ASSUME NEW j \in Items, j # i, Got(r, j)' PROVE Got(r, j)
    <3>1. cp'[r][j] = cp[r][j]
      BY <1>0, <2>1
    <3>2. \A k \in Items : cp[r][k] = "failed" => cp'[r][k] = "failed"
      BY <1>0 DEF Open
    <3> QED
      BY <2>1, <3>1, <3>2 DEF Got
  <2>2. Got(r, i)' => status \in {"succeeded", "no_change", "skipped"}
    BY <1>0 DEF Got
  <2>3. ASSUME ~dry[r], NEW m \in Mirrors, Got(r, m)' PROVE Known(r, m)'
    <3>1. CASE m = i
      BY <2>2, <2>3, <3>1
    <3>2. CASE m # i
      BY <2>1, <2>3, <3>2, KnownKept DEF Honest, Knows, Items
    <3> QED
      BY <3>1, <3>2
  <2>4. ASSUME ~dry[r], NEW h \in Hooks, Got(r, h)' PROVE h \in ran'[r]
    <3>1. CASE h = i
      BY <2>2, <2>4, <3>1
    <3>2. CASE h # i
      BY <2>1, <2>4, <3>2 DEF Honest, Knows, Items
    <3> QED
      BY <3>1, <3>2
  <2> QED
    BY <2>3, <2>4 DEF Knows
<1>3. Sent(r)'
  <2>1. \A m \in Mirrors : probe'[r][m] # NoCommit => probe'[r][m] = tag'[m]
    BY DEF Honest, Sent, Grows
  <2>2. ASSUME NEW m \in Mirrors, Pushed(r, m)', IsIndex(m) PROVE Known(r, DependsOn[m])'
    <3>1. DependsOn[m] \in Mirrors /\ cp[r][DependsOn[m]] \in Good
      BY <2>2, PayloadClosed
    <3>2. DependsOn[m] # i
      BY <1>0, <3>1 DEF Open, Good
    <3> QED
      BY <2>2, <3>1, <3>2, KnownKept DEF Honest, Sent
  <2> QED
    BY <2>1, <2>2 DEF Sent
<1> QED
  BY <1>1, <1>2, <1>3 DEF Honest

LEMMA SettleHonest ==
    ASSUME TypeOK, TypeOK', Orderly, Grows, \A x \in Runs : Honest(x),
           NEW r \in Runs, NEW i \in Items, At(r, i), step[r] # "ended",
           NEW status \in Good \cup {"failed"}, Settle(r, i, status),
           status = "awaiting" => i \notin Mirrors,
           \A x \in Runs, m \in Mirrors : x # r \/ m # i => sha'[x][m] = sha[x][m],
           \A x \in Runs : x # r => sha'[x] = sha[x],
           UNCHANGED <<runFile, dry, probe, ran>>,
           \A x \in Runs, m \in Mirrors : Pushed(x, m)' => Pushed(x, m),
           ~dry[r] /\ status \notin {"awaiting", "failed"} =>
               /\ i \in Mirrors => Known(r, i)'
               /\ i \in Hooks => i \in ran[r]
    PROVE  \A x \in Runs : Honest(x)'
<1> SUFFICES ASSUME NEW x \in Runs PROVE Honest(x)'
  OBVIOUS
<1>1. cp' = [cp EXCEPT ![r][i] = status] /\ step' = [step EXCEPT ![r] = "next"]
  BY DEF Settle
<1>2. CASE x = r
  <2>1. cp'[r] = [cp[r] EXCEPT ![i] = status] /\ step'[r] = "next"
    BY <1>1 DEF TypeOK
  <2>2. /\ runFile'[r] = runFile[r] /\ dry'[r] = dry[r]
        /\ probe'[r] = probe[r] /\ ran'[r] = ran[r]
        /\ \A m \in Mirrors : m # i => sha'[r][m] = sha[r][m]
    OBVIOUS
  <2> QED
    BY <1>2, <2>1, <2>2, ClosesHonest
<1>3. CASE x # r
  <2>1. cp'[x] = cp[x] /\ step'[x] = step[x]
    BY <1>1, <1>3 DEF TypeOK
  <2> QED
    BY <1>3, <2>1, StaysHonest
<1> QED
  BY <1>2, <1>3

LEMMA StartHonest ==
    ASSUME TypeOK, TypeOK', Orderly, Grows, \A x \in Runs : Honest(x), NEW r \in Runs, Start(r)
    PROVE  \A x \in Runs : Honest(x)'
<1> SUFFICES ASSUME NEW x \in Runs PROVE Honest(x)'
  OBVIOUS
<1>1. /\ step[r] = "idle" /\ step' = [step EXCEPT ![r] = "gates"]
      /\ UNCHANGED <<cp, probe, sha, runFile, tip, tag, log, inflight, ran>>
      /\ \E d : dry' = [dry EXCEPT ![r] = d]
  BY DEF Start, mirrors
<1>p. \A m \in Mirrors : Pushed(x, m)' => Pushed(x, m)
  BY <1>1, NoNewPush
<1>2. CASE x = r
  <2>1. step'[r] = "gates" /\ cp[r] = Untouched /\ runFile[r] = Absent
    BY <1>1 DEF TypeOK, Honest, Recorded
  <2>2. \A i \in Items : cp[r][i] = "pending"
    BY <2>1 DEF Untouched
  <2>3. Recorded(r)'
    BY <1>1, <2>1, <2>2 DEF Recorded, Absent, Items
  <2>4. Knows(r)'
    BY <1>1, <2>2 DEF Knows, Got, Items
  <2>5. \A m \in Mirrors : ~Pushed(r, m)
    BY <2>2 DEF Orderly, Tidy, Admits, Items
  <2>6. Sent(r)'
    BY <1>1, <1>p, <1>2, <2>1, <2>5 DEF Sent, Honest
  <2> QED
    BY <1>2, <2>3, <2>4, <2>6 DEF Honest
<1>3. CASE x # r
  <2>1. step'[x] = step[x] /\ dry'[x] = dry[x]
    BY <1>1, <1>3 DEF TypeOK
  <2> QED
    BY <1>1, <1>p, <2>1, StaysHonest
<1> QED
  BY <1>2, <1>3

LEMMA ProbeHonest ==
    ASSUME TypeOK, TypeOK', Grows, \A x \in Runs : Honest(x), NEW r \in Runs, Probe(r)
    PROVE  \A x \in Runs : Honest(x)'
<1> SUFFICES ASSUME NEW x \in Runs PROVE Honest(x)'
  OBVIOUS
<1>1. /\ step[r] = "gates" /\ step' = [step EXCEPT ![r] = "next"]
      /\ probe' = [probe EXCEPT ![r] = tag]
      /\ UNCHANGED <<cp, dry, sha, runFile, tip, tag, log, inflight, ran>>
  BY DEF Probe, mirrors, durable
<1>p. \A m \in Mirrors : Pushed(x, m)' => Pushed(x, m)
  BY <1>1, NoNewPush
<1>2. CASE x = r
  <2>1. step'[r] = "next" /\ probe'[r] = tag
    BY <1>1 DEF TypeOK
  <2>2. Recorded(r)'
    BY <1>1, <2>1 DEF Honest, Recorded
  <2>3. Knows(r)'
    BY <1>1 DEF Honest, Knows, Got, Known, Carries
  <2>4. Sent(r)'
    BY <1>1, <1>p, <1>2, <2>1 DEF Honest, Sent, Known, Carries
  <2> QED
    BY <1>2, <2>2, <2>3, <2>4 DEF Honest
<1>3. CASE x # r
  <2>1. step'[x] = step[x] /\ probe'[x] = probe[x]
    BY <1>1, <1>3 DEF TypeOK
  <2> QED
    BY <1>1, <1>p, <2>1, StaysHonest
<1> QED
  BY <1>2, <1>3

\* The record a run leaves, when it throws or when it ends.
LEMMA RecordHonest ==
    ASSUME TypeOK, TypeOK', Grows, \A x \in Runs : Honest(x), NEW r \in Runs,
           Throw(r) \/ WriteRecord(r)
    PROVE  \A x \in Runs : Honest(x)'
<1> SUFFICES ASSUME NEW x \in Runs PROVE Honest(x)'
  OBVIOUS
<1>1. /\ step' = [step EXCEPT ![r] = "ended"]
      /\ UNCHANGED <<cp, probe, dry, sha, tip, tag, log, inflight, ran>>
  BY DEF Throw, WriteRecord, mirrors
<1>p. \A m \in Mirrors : Pushed(x, m)' => Pushed(x, m)
  BY <1>1, NoNewPush
<1>r. \E status : /\ runFile' = [runFile EXCEPT ![r] = [status |-> status, cp |-> cp[r]]]
                  /\ status = "DISTRIBUTED" =>
                       \A i \in Items : cp[r][i] \in {"succeeded", "skipped", "no_change"}
  <2>1. CASE Throw(r)
    <3>1. /\ runFile' = [runFile EXCEPT ![r] = [status |-> Broken(r), cp |-> cp[r]]]
          /\ Broken(r) # "DISTRIBUTED"
      BY <2>1 DEF Throw, Broken
    <3> QED
      BY <3>1
  <2>2. CASE WriteRecord(r)
    <3>1. runFile' = [runFile EXCEPT ![r] = [status |-> Overall(r, cp[r]), cp |-> cp[r]]]
      BY <2>2 DEF WriteRecord
    <3>2. Open(r) = {}
      BY <2>2 DEF WriteRecord, Honest, Recorded
    <3>3. ASSUME Overall(r, cp[r]) = "DISTRIBUTED", NEW i \in Items
          PROVE  cp[r][i] \in {"succeeded", "skipped", "no_change"}
      <4>1. cp[r][i] \in CpStatus \ {"pending", "uncertain"}
        BY <3>2 DEF Open, TypeOK
      <4>2. cp[r][i] # "failed" /\ cp[r][i] # "awaiting"
        BY <3>3 DEF Overall
      <4> QED
        BY <4>1, <4>2 DEF CpStatus
    <3> QED
      BY <3>1, <3>3
  <2> QED
    BY <2>1, <2>2
<1>2. CASE x = r
  <2>1. step'[r] = "ended"
    BY <1>1 DEF TypeOK
  <2>2. Recorded(r)'
    BY <1>1, <1>r, <2>1 DEF Honest, Recorded, TypeOK
  <2>3. Knows(r)'
    BY <1>1 DEF Honest, Knows, Got, Known, Carries
  <2>4. Sent(r)'
    BY <1>1, <1>p, <1>2, <2>1 DEF Honest, Sent, Known, Carries
  <2> QED
    BY <1>2, <2>2, <2>3, <2>4 DEF Honest
<1>3. CASE x # r
  <2>1. step'[x] = step[x] /\ runFile'[x] = runFile[x]
    BY <1>1, <1>r, <1>3 DEF TypeOK
  <2> QED
    BY <1>1, <1>p, <2>1, StaysHonest
<1> QED
  BY <1>2, <1>3

\* What is still open when the chain was stopped lies behind the failure.
LEMMA CloseHonest ==
    ASSUME TypeOK, TypeOK', Orderly, Grows, \A x \in Runs : Honest(x), NEW r \in Runs, Close(r)
    PROVE  \A x \in Runs : Honest(x)'
<1> SUFFICES ASSUME NEW x \in Runs PROVE Honest(x)'
  OBVIOUS
<1> DEFINE cps == [i \in Items |-> IF i \in Open(r) THEN "skipped" ELSE cp[r][i]]
<1>1. /\ step[r] = "next" /\ step' = [step EXCEPT ![r] = "close"]
      /\ cp' = [cp EXCEPT ![r] = cps]
      /\ Stopped(r) \/ Open(r) = {}
      /\ UNCHANGED <<probe, dry, sha, runFile, tip, tag, log, inflight, ran>>
  BY DEF Close, mirrors
<1>p. \A m \in Mirrors : Pushed(x, m)' => Pushed(x, m)
  BY <1>1, NoNewPush
<1>2. CASE x = r
  <2>1. cp'[r] = cps /\ step'[r] = "close"
    BY <1>1 DEF TypeOK
  <2>2. Open(r)' = {}
    BY <2>1 DEF Open
  <2>3. Recorded(r)'
    <3>1. runFile[r] = Absent /\ Absent.status # "DISTRIBUTED"
      BY <1>1 DEF Honest, Recorded, Absent
    <3> QED
      BY <1>1, <2>1, <2>2, <3>1 DEF Honest, Recorded, Items
  <2>4. \A i \in Items : Got(r, i)' => Got(r, i)
    <3> SUFFICES ASSUME NEW i \in Items, Got(r, i)' PROVE Got(r, i)
      OBVIOUS
    <3>1. \A k \in Items : cp[r][k] = "failed" => cps[k] = "failed"
      BY DEF Open
    <3>2. i \notin Open(r)
      <4> SUFFICES ASSUME i \in Open(r) PROVE FALSE
        OBVIOUS
      <4>1. PICK k \in Items : cp[r][k] = "failed"
        BY <1>1 DEF Stopped
      <4>2. Rank[k] < Rank[i]
        BY <4>1 DEF Orderly, Tidy, Walked, Open
      <4> QED
        BY <2>1, <3>1, <4>1, <4>2 DEF Got
    <3> QED
      BY <2>1, <3>1, <3>2 DEF Got
  <2>5. Knows(r)'
    BY <1>1, <2>4 DEF Honest, Knows, Known, Carries, Items
  <2>6. Sent(r)'
    BY <1>1, <1>p, <1>2, <2>1 DEF Honest, Sent, Known, Carries
  <2> QED
    BY <1>2, <2>3, <2>5, <2>6 DEF Honest
<1>3. CASE x # r
  <2>1. step'[x] = step[x] /\ cp'[x] = cp[x]
    BY <1>1, <1>3 DEF TypeOK
  <2> QED
    BY <1>1, <1>p, <2>1, StaysHonest
<1> QED
  BY <1>2, <1>3

LEMMA CrashHonest ==
    ASSUME TypeOK, TypeOK', Grows, \A x \in Runs : Honest(x), NEW r \in Runs, Crash(r)
    PROVE  \A x \in Runs : Honest(x)'
<1> SUFFICES ASSUME NEW x \in Runs PROVE Honest(x)'
  OBVIOUS
<1>1. /\ Active(r) /\ step' = [step EXCEPT ![r] = "dead"]
      /\ UNCHANGED <<cp, probe, dry, sha, runFile, tip, tag, log, inflight, ran>>
  BY DEF Crash, mirrors, durable
<1>2. \A m \in Mirrors : Pushed(x, m)' => Pushed(x, m)
  BY <1>1, NoNewPush
<1>3. step'[x] = step[x] \/ (step[x] # "ended" /\ step'[x] = "dead")
  BY <1>1 DEF Active, TypeOK
<1> QED
  BY <1>1, <1>2, <1>3, StaysHonest

LEMMA ObserveHonest ==
    ASSUME TypeOK, TypeOK', Orderly, Grows, \A x \in Runs : Honest(x),
           \A n \in Mirrors : OnRemote(n),
           NEW r \in Runs, NEW m \in Mirrors, Observe(r, m)
    PROVE  \A x \in Runs : Honest(x)'
<1> SUFFICES ASSUME NEW x \in Runs PROVE Honest(x)'
  OBVIOUS
<1>1. /\ step[r] = "next" /\ At(r, m) /\ m \in Items /\ m \notin Hooks
      /\ UNCHANGED <<probe, dry, runFile, tip, tag, log, inflight, ran>>
  BY ChainAssumption DEF Observe, mirrors, Items
<1>p. \A n \in Mirrors : Pushed(x, n)' => Pushed(x, n)
  BY <1>1, NoNewPush
<1>2. CASE /\ Consistent(m)
           /\ cp' = [cp EXCEPT ![r][m] = "skipped"]
           /\ Remember(r, m)
           /\ step' = step
  <2>1. CASE x = r
    <3>1. /\ cp'[r] = [cp[r] EXCEPT ![m] = "skipped"] /\ step'[r] = "next"
          /\ sha'[r] = [sha[r] EXCEPT ![m] = tag[m]]
      BY <1>1, <1>2 DEF TypeOK, Remember
    <3>2. Known(r, m)'
      <4>1. sha'[r][m] = tag[m]
        BY <3>1 DEF TypeOK
      <4>2. tag[m] \in Runs \cup {"foreign"} /\ tag[m] \in log[m]
        BY <1>2 DEF Consistent, OnRemote, TypeOK, Commits
      <4> QED
        BY <1>1, <4>1, <4>2 DEF Known, Carries
    <3>3. \A n \in Mirrors : n # m => sha'[r][n] = sha[r][n]
      BY <3>1 DEF TypeOK
    <3>4. "skipped" \in Good \cup {"failed"}
      BY DEF Good
    <3> QED
      BY <1>1, <1>p, <2>1, <3>1, <3>2, <3>3, <3>4, ClosesHonest
  <2>2. CASE x # r
    <3>1. cp'[x] = cp[x] /\ sha'[x] = sha[x]
      BY <1>2, <2>2 DEF TypeOK, Remember
    <3> QED
      BY <1>1, <1>2, <1>p, <3>1, StaysHonest
  <2> QED
    BY <2>1, <2>2
<1>3. CASE /\ cp' = [cp EXCEPT ![r][m] = "uncertain"]
           /\ step' = [step EXCEPT ![r] = "clone"]
           /\ sha' = sha
  <2>1. CASE x = r
    <3>1. /\ cp'[r] = [cp[r] EXCEPT ![m] = "uncertain"] /\ step'[r] = "clone"
          /\ cp[r] \in [Items -> CpStatus] /\ m \in Open(r)
      BY <1>1, <1>3 DEF TypeOK, At
    <3>2. Recorded(r)'
      <4>1. runFile[r] = Absent /\ Absent.status # "DISTRIBUTED"
        BY <1>1 DEF Honest, Recorded, Absent
      <4> QED
        BY <1>1, <3>1, <4>1 DEF Honest, Recorded, Items
    <3>3. \A i \in Items : Got(r, i)' => Got(r, i)
      <4>1. \A k \in Items : cp[r][k] = "failed" => cp'[r][k] = "failed"
        BY <3>1 DEF Open
      <4>2. \A k \in Items : k # m => cp'[r][k] = cp[r][k]
        BY <3>1
      <4>3. ~Got(r, m)'
        BY <1>1, <3>1 DEF Got
      <4> QED
        BY <4>1, <4>2, <4>3 DEF Got
    <3>4. Knows(r)'
      BY <1>1, <1>3, <3>3 DEF Honest, Knows, Known, Carries, Items
    <3>5. Sent(r)'
      BY <1>1, <1>3, <1>p, <2>1, <3>1 DEF Honest, Sent, Known, Carries
    <3> QED
      BY <2>1, <3>2, <3>4, <3>5 DEF Honest
  <2>2. CASE x # r
    <3>1. cp'[x] = cp[x] /\ step'[x] = step[x]
      BY <1>3, <2>2 DEF TypeOK
    <3> QED
      BY <1>1, <1>3, <1>p, <3>1, StaysHonest
  <2> QED
    BY <2>1, <2>2
<1> QED
  BY <1>2, <1>3 DEF Observe

LEMMA SettledHonest ==
    ASSUME TypeOK, TypeOK', Orderly, Grows, \A x \in Runs : Honest(x),
           \A n \in Mirrors : OnRemote(n),
           NEW r \in Runs, NEW m \in Mirrors,
           NoChange(r, m) \/ MirrorFails(r, m) \/ Rehearse(r, m) \/ Confirm(r, m)
    PROVE  \A x \in Runs : Honest(x)'
<1>1. /\ step[r] # "ended" /\ At(r, m) /\ m \in Items /\ m \notin Hooks
      /\ UNCHANGED <<probe, dry, runFile, tip, tag, log, inflight, ran>>
  BY ChainAssumption DEF NoChange, MirrorFails, Rehearse, Confirm, mirrors, Items
<1>p. \A x \in Runs, n \in Mirrors : Pushed(x, n)' => Pushed(x, n)
  BY <1>1, NoNewPush
<1>g. /\ "no_change" \in Good \cup {"failed"} /\ "succeeded" \in Good \cup {"failed"}
      /\ "failed" \in Good \cup {"failed"}
  BY DEF Good
<1>2. CASE NoChange(r, m)
  <2> DEFINE c == IF probe[r][m] # NoCommit THEN probe[r][m] ELSE tip[m]
  <2>1. Settle(r, m, "no_change") /\ sha' = [sha EXCEPT ![r][m] = c]
    BY <1>2 DEF NoChange
  <2>2. /\ \A x \in Runs, n \in Mirrors : x # r \/ n # m => sha'[x][n] = sha[x][n]
        /\ \A x \in Runs : x # r => sha'[x] = sha[x]
        /\ sha'[r][m] = c
    BY <2>1 DEF TypeOK
  <2>3. Known(r, m)'
    <3>1. CASE probe[r][m] # NoCommit
      <4>1. c = tag[m]
        BY <3>1 DEF Honest, Sent
      <4>2. tag[m] \in Runs \cup {"foreign"}
        BY <3>1, <4>1 DEF OnRemote, TypeOK, Commits
      <4>3. tag[m] \in Runs => tag[m] \in log[m]
        BY DEF OnRemote
      <4> QED
        BY <1>1, <2>2, <4>1, <4>2, <4>3 DEF Known, Carries
    <3>2. CASE probe[r][m] = NoCommit
      <4>1. tip[m] \in Runs \cup {"same"}
        BY <1>2 DEF NoChange, SameTree
      <4> QED
        BY <1>1, <2>2, <3>2, <4>1 DEF Known, Carries, OnRemote
    <3> QED
      BY <3>1, <3>2
  <2> QED
    BY <1>1, <1>p, <1>g, <2>1, <2>2, <2>3, SettleHonest
<1>3. CASE MirrorFails(r, m)
  <2>1. Settle(r, m, "failed") /\ sha' = sha
    BY <1>3 DEF MirrorFails
  <2> QED
    BY <1>1, <1>p, <1>g, <2>1, SettleHonest
<1>4. CASE Rehearse(r, m)
  <2>1. Settle(r, m, "succeeded") /\ sha' = sha /\ dry[r]
    BY <1>4 DEF Rehearse
  <2> QED
    BY <1>1, <1>p, <1>g, <2>1, SettleHonest
<1>5. CASE Confirm(r, m)
  <2>0. sha' = sha
    BY <1>5 DEF Confirm
  <2>1. CASE Settle(r, m, "failed")
    BY <1>1, <1>p, <1>g, <2>0, <2>1, SettleHonest
  <2>2. CASE Settle(r, m, "succeeded") /\ tip[m] = r
    <3>1. sha[r][m] = r
      BY <1>1, <1>5 DEF Confirm, Honest, Sent
    <3>2. Known(r, m)'
      BY <1>1, <2>0, <2>2, <3>1 DEF Known, Carries, OnRemote
    <3> QED
      BY <1>1, <1>p, <1>g, <2>0, <2>2, <3>2, SettleHonest
  <2> QED
    BY <1>5, <2>1, <2>2 DEF Confirm
<1> QED
  BY <1>2, <1>3, <1>4, <1>5

\* An index is pushed only by a run that knows its payload.
LEMMA SendHonest ==
    ASSUME TypeOK, TypeOK', Orderly, Grows, \A x \in Runs : Honest(x),
           NEW r \in Runs, NEW m \in Mirrors, SendBranch(r, m)
    PROVE  \A x \in Runs : Honest(x)'
<1> SUFFICES ASSUME NEW x \in Runs PROVE Honest(x)'
  OBVIOUS
<1> DEFINE q == PushOf(r, m, "branch")
<1>q. q.run = r /\ q.mirror = m
  BY DEF PushOf
<1> HIDE DEF q
<1>1. /\ step[r] = "clone" /\ At(r, m) /\ m \in Items /\ ~dry[r]
      /\ step' = [step EXCEPT ![r] = "branch"]
      /\ inflight' = inflight \cup {q}
      /\ UNCHANGED <<probe, dry, runFile, cp, sha, tip, tag, log, ran>>
  BY DEF SendBranch, mirrors, durable, Items, q
<1>p. \A n \in Mirrors : Pushed(x, n)' => Pushed(x, n) \/ (x = r /\ n = m)
  BY <1>1, <1>q DEF Pushed
<1>2. CASE x = r
  <2>1. step'[r] = "branch"
    BY <1>1 DEF TypeOK
  <2>2. Recorded(r)'
    BY <1>1, <2>1 DEF Honest, Recorded
  <2>3. Knows(r)'
    BY <1>1 DEF Honest, Knows, Got, Known, Carries
  <2>4. Sent(r)'
    <3>1. IsIndex(m) => Known(r, DependsOn[m])
      <4> SUFFICES ASSUME IsIndex(m) PROVE Known(r, DependsOn[m])
        OBVIOUS
      <4>1. /\ DependsOn[m] \in Mirrors /\ Rank[DependsOn[m]] < Rank[m]
            /\ DependsOn[m] \in Items
        BY ChainAssumption DEF IsIndex, Items
      <4>2. ~Stopped(r)
        BY <1>1 DEF Orderly, Tidy, Busy, Writing
      <4>3. cp[r][DependsOn[m]] \in Good \ {"awaiting"}
        BY <1>1, <4>1, <4>2, InFront DEF Honest, Recorded
      <4>4. Got(r, DependsOn[m])
        BY <4>2, <4>3 DEF Got, Good, Stopped
      <4> QED
        BY <1>1, <4>1, <4>4 DEF Honest, Knows
    <3>2. \A n \in Mirrors : Known(r, n)' <=> Known(r, n)
      BY <1>1 DEF Known, Carries
    <3>3. ASSUME NEW n \in Mirrors, Pushed(r, n)', IsIndex(n) PROVE Known(r, DependsOn[n])'
      <4>1. DependsOn[n] \in Mirrors
        BY <3>3, ChainAssumption DEF IsIndex
      <4>2. Known(r, DependsOn[n])
        BY <1>p, <1>2, <3>1, <3>3 DEF Honest, Sent
      <4> QED
        BY <3>2, <4>1, <4>2
    <3> QED
      BY <1>1, <2>1, <3>3 DEF Honest, Sent
  <2> QED
    BY <1>2, <2>2, <2>3, <2>4 DEF Honest
<1>3. CASE x # r
  <2>1. step'[x] = step[x]
    BY <1>1, <1>3 DEF TypeOK
  <2> QED
    BY <1>1, <1>p, <1>3, <2>1, StaysHonest
<1> QED
  BY <1>2, <1>3

LEMMA AcceptHonest ==
    ASSUME TypeOK, TypeOK', Orderly, Grows, \A x \in Runs : Honest(x),
           NEW q \in inflight, Accept(q)
    PROVE  \A x \in Runs : Honest(x)'
<1> SUFFICES ASSUME NEW x \in Runs PROVE Honest(x)'
  OBVIOUS
<1>q. q \in Push /\ q.run \in Runs /\ q.mirror \in Mirrors /\ q.mirror \in Items
  BY DEF TypeOK, Push, Items
<1>1. UNCHANGED <<probe, dry, runFile, cp, ran>>
  BY DEF Accept, durable
<1>p. \A n \in Mirrors : Pushed(x, n)' => Pushed(x, n)
  BY AcceptPushes
<1>2. CASE step'[x] = step[x] /\ sha'[x] = sha[x]
  BY <1>1, <1>p, <1>2, StaysHonest
<1>3. CASE ~(step'[x] = step[x] /\ sha'[x] = sha[x])
  <2>1. /\ x = q.run /\ Waits(q)
        /\ \/ q.ref = "branch" /\ step'[x] = "tag" /\ sha'[x] = sha[x]
           \/ /\ q.ref = "tag" /\ step'[x] = "confirm"
              /\ sha'[x] = [sha[x] EXCEPT ![q.mirror] = x]
    BY <1>3, <1>q DEF Accept, TypeOK, Push
  <2>2. step[x] = q.ref /\ At(x, q.mirror)
    BY <2>1 DEF Waits
  <2>3. CASE q.ref = "branch"
    BY <1>1, <1>p, <2>1, <2>2, <2>3, StaysHonest
  <2>4. CASE q.ref = "tag"
    <3>1. /\ step'[x] = "confirm" /\ step[x] = "tag"
          /\ \A n \in Mirrors : sha'[x][n] = IF n = q.mirror THEN x ELSE sha[x][n]
      BY <2>1, <2>2, <2>4, <1>q DEF TypeOK
    <3>2. Open(x)' = Open(x) /\ \A i \in Items : At(x, i)' <=> At(x, i)
      BY <1>1 DEF Open, At
    <3>3. q.mirror \in Open(x)
      BY <2>2 DEF At
    <3>4. Recorded(x)'
      BY <1>1, <3>1 DEF Honest, Recorded
    <3>5. Knows(x)'
      <4>1. \A i : Got(x, i)' <=> Got(x, i)
        BY <1>1 DEF Got
      <4>2. ~Got(x, q.mirror)
        BY <3>3 DEF Got, Open
      <4> QED
        BY <1>1, <3>1, <4>1, <4>2, KnownKept DEF Honest, Knows
    <3>6. Sent(x)'
      <4>1. \A n \in Mirrors : At(x, n)' => n = q.mirror
        BY <1>q, <2>2, <3>2, AtOne DEF Items
      <4>2. \A n \in Mirrors : probe'[x][n] # NoCommit => probe'[x][n] = tag'[n]
        BY <1>1 DEF Honest, Sent, Grows
      <4>3. ASSUME NEW n \in Mirrors, Pushed(x, n)', IsIndex(n) PROVE Known(x, DependsOn[n])'
        <5>1. DependsOn[n] \in Mirrors /\ cp[x][DependsOn[n]] \in Good
          BY <1>p, <4>3, PayloadClosed
        <5>2. DependsOn[n] # q.mirror
          BY <3>3, <5>1 DEF Open, Good
        <5> QED
          BY <1>p, <3>1, <4>3, <5>1, <5>2, KnownKept DEF Honest, Sent
      <4> QED
        BY <3>1, <4>1, <4>2, <4>3 DEF Sent
    <3> QED
      BY <3>4, <3>5, <3>6 DEF Honest
  <2> QED
    BY <2>1, <2>3, <2>4
<1> QED
  BY <1>2, <1>3

LEMMA EndedHonest ==
    ASSUME TypeOK, TypeOK', Orderly, Grows, \A x \in Runs : Honest(x),
           NEW q \in inflight, Reject(q) \/ TimeOut(q)
    PROVE  \A x \in Runs : Honest(x)'
<1>q. /\ q \in Push /\ q.run \in Runs /\ q.mirror \in Mirrors /\ q.mirror \in Items
      /\ q.ref # "ended"
  BY DEF TypeOK, Push, Items
<1>1. /\ UNCHANGED <<probe, dry, sha, runFile, log, ran>>
      /\ inflight' \subseteq inflight
  BY DEF Reject, TimeOut, mirrors
<1>p. \A x \in Runs, n \in Mirrors : Pushed(x, n)' => Pushed(x, n)
  BY <1>1, NoNewPush
<1>2. CASE Settle(q.run, q.mirror, "failed") /\ At(q.run, q.mirror) /\ step[q.run] = q.ref
  BY <1>q, <1>1, <1>p, <1>2, SettleHonest
<1>3. CASE UNCHANGED <<step, cp, journal>>
  BY <1>1, <1>p, <1>3, StaysHonest
<1> QED
  BY <1>2, <1>3 DEF Reject, TimeOut, Waits

LEMMA HookHonest ==
    ASSUME TypeOK, TypeOK', Orderly, Grows, \A x \in Runs : Honest(x),
           NEW r \in Runs, NEW h \in Hooks, OnHook(r, h)
    PROVE  \A x \in Runs : Honest(x)'
<1>i. h \in Items /\ h \notin Mirrors
  BY HooksAreNotMirrors DEF Items
<1>1. CASE PassHook(r, h)
  <2>u. /\ UNCHANGED <<step, probe, dry, sha, runFile, log, inflight, ran>>
        /\ step[r] = "next" /\ At(r, h)
    BY <1>1 DEF PassHook, durable, mirrors
  <2>1. PICK status \in {"skipped", "awaiting"} :
          cp' = [cp EXCEPT ![r][h] = status] /\ (status = "skipped" => dry[r])
    BY <1>1 DEF PassHook
  <2> SUFFICES ASSUME NEW x \in Runs PROVE Honest(x)'
    OBVIOUS
  <2>p. \A n \in Mirrors : Pushed(x, n)' => Pushed(x, n)
    BY <2>u, NoNewPush
  <2>2. CASE x = r
    <3>1. cp'[r] = [cp[r] EXCEPT ![h] = status] /\ status \in Good \cup {"failed"}
      BY <2>1 DEF TypeOK, Good
    <3> QED
      BY <1>i, <2>u, <2>p, <2>1, <2>2, <3>1, ClosesHonest
  <2>3. CASE x # r
    <3>1. cp'[x] = cp[x]
      BY <2>1, <2>3 DEF TypeOK
    <3> QED
      BY <2>u, <2>p, <3>1, StaysHonest
  <2> QED
    BY <2>2, <2>3
<1>2. CASE StartHook(r, h)
  <2>u. /\ UNCHANGED <<cp, probe, dry, sha, runFile, log, inflight>>
        /\ step[r] = "next" /\ step' = [step EXCEPT ![r] = "hook"]
        /\ ran' = [ran EXCEPT ![r] = @ \cup {h}]
    BY <1>2 DEF StartHook, durable, mirrors
  <2> SUFFICES ASSUME NEW x \in Runs PROVE Honest(x)'
    OBVIOUS
  <2>1. /\ step'[x] = step[x] \/ (step[x] # "ended" /\ step'[x] = "hook")
        /\ ran[x] \subseteq ran'[x]
    BY <2>u DEF TypeOK
  <2> QED
    BY <2>u, <2>1, NoNewPush, StaysHonest
<1>3. CASE EndHook(r, h)
  <2>1. /\ At(r, h) /\ step[r] = "hook"
        /\ UNCHANGED <<probe, dry, sha, runFile, log, inflight, ran>>
    BY <1>3 DEF EndHook, mirrors
  <2>2. h \in ran[r]
    BY <1>i, <2>1 DEF Orderly, Tidy, Busy
  <2>3. \E status \in Good \cup {"failed"} : status # "awaiting" /\ Settle(r, h, status)
    BY <1>3 DEF EndHook, Good
  <2> QED
    BY <1>i, <2>1, <2>2, <2>3, NoNewPush, SettleHonest
<1> QED
  BY <1>1, <1>2, <1>3 DEF OnHook

LEMMA OthersHonest ==
    ASSUME TypeOK, TypeOK', Orderly, Grows, \A x \in Runs : Honest(x),
           Verify \/ (\E m \in Mirrors : Tamper(m)) \/ UNCHANGED vars
    PROVE  \A x \in Runs : Honest(x)'
<1> SUFFICES ASSUME NEW x \in Runs PROVE Honest(x)'
  OBVIOUS
<1>1. UNCHANGED <<step, cp, runFile, dry, sha, probe, ran, inflight>>
  BY DEF Verify, Tamper, vars, memory, durable, mirrors
<1>2. \A m \in Mirrors : Pushed(x, m)' => Pushed(x, m)
  <2> SUFFICES ASSUME NEW m \in Mirrors PROVE x \in log'[m] => x \in log[m]
    BY <1>1 DEF Pushed
  <2>1. x # "foreign"
    BY NameAssumption
  <2>2. CASE log' = log
    BY <2>2
  <2>3. ASSUME NEW n \in Mirrors, log' = [log EXCEPT ![n] = @ \cup {"foreign"}]
        PROVE  x \in log'[m] => x \in log[m]
    BY <2>1, <2>3 DEF TypeOK
  <2> QED
    BY <2>2, <2>3 DEF Verify, Tamper, vars, mirrors
<1> QED
  BY <1>1, <1>2, StaysHonest

LEMMA StepHonest ==
    ASSUME TypeOK, TypeOK', Orderly, Grows, \A x \in Runs : Honest(x),
           \A n \in Mirrors : OnRemote(n), [Next]_vars
    PROVE  \A x \in Runs : Honest(x)'
<1>1. CASE \E r \in Runs : Start(r) \/ Walk(r) \/ Crash(r)
  <2> PICK r \in Runs : Start(r) \/ Walk(r) \/ Crash(r)
    BY <1>1
  <2>1. CASE Start(r)
    BY <2>1, StartHonest
  <2>2. CASE Probe(r)
    BY <2>2, ProbeHonest
  <2>3. CASE Throw(r) \/ WriteRecord(r)
    BY <2>3, RecordHonest
  <2>4. CASE Crash(r)
    BY <2>4, CrashHonest
  <2>5. CASE Close(r)
    BY <2>5, CloseHonest
  <2>6. ASSUME NEW m \in Mirrors, OnMirror(r, m) PROVE \A x \in Runs : Honest(x)'
    <3>1. CASE Observe(r, m)
      BY <3>1, ObserveHonest
    <3>2. CASE NoChange(r, m) \/ MirrorFails(r, m) \/ Rehearse(r, m) \/ Confirm(r, m)
      BY <3>2, SettledHonest
    <3>3. CASE SendBranch(r, m)
      BY <3>3, SendHonest
    <3> QED
      BY <2>6, <3>1, <3>2, <3>3 DEF OnMirror
  <2>7. ASSUME NEW h \in Hooks, OnHook(r, h) PROVE \A x \in Runs : Honest(x)'
    BY <2>7, HookHonest
  <2> QED
    BY <2>1, <2>2, <2>3, <2>4, <2>5, <2>6, <2>7 DEF Walk
<1>2. ASSUME NEW q \in inflight, Handle(q) PROVE \A x \in Runs : Honest(x)'
  BY <1>2, AcceptHonest, EndedHonest DEF Handle
<1>3. CASE Verify \/ (\E m \in Mirrors : Tamper(m)) \/ UNCHANGED vars
  BY <1>3, OthersHonest
<1> QED
  BY <1>1, <1>2, <1>3 DEF Next

\* A record that passes is not written again.
LEMMA PassesKept ==
    ASSUME TypeOK, \A x \in Runs : Honest(x), [Next]_vars, NEW r \in Runs, Passes(runFile[r])
    PROVE  runFile'[r] = runFile[r] /\ step[r] = "ended"
<1>1. ~Passes(Absent)
  BY DEF Passes, Absent
<1>2. step[r] = "ended"
  BY <1>1 DEF Honest, Recorded
<1>3. ASSUME NEW x \in Runs, Throw(x) \/ WriteRecord(x) PROVE runFile'[r] = runFile[r]
  BY <1>2, <1>3 DEF Throw, WriteRecord, TypeOK
<1>4. ASSUME NEW x \in Runs,
             \/ Start(x) \/ Probe(x) \/ Close(x) \/ Crash(x)
             \/ \E m \in Mirrors : OnMirror(x, m)
             \/ \E h \in Hooks : OnHook(x, h)
      PROVE  runFile' = runFile
  <2> USE DEF durable
  <2>1. CASE Start(x) \/ Probe(x) \/ Close(x) \/ Crash(x)
    BY <2>1 DEF Start, Probe, Close, Crash
  <2>2. ASSUME NEW m \in Mirrors, OnMirror(x, m) PROVE runFile' = runFile
    BY <2>2 DEF OnMirror, Observe, NoChange, MirrorFails, Rehearse, SendBranch, Confirm
  <2>3. ASSUME NEW h \in Hooks, OnHook(x, h) PROVE runFile' = runFile
    BY <2>3 DEF OnHook, PassHook, StartHook, EndHook
  <2> QED
    BY <1>4, <2>1, <2>2, <2>3
<1>5. ASSUME \/ Verify \/ UNCHANGED vars
             \/ \E m \in Mirrors : Tamper(m)
             \/ \E q \in inflight : Handle(q)
      PROVE  runFile' = runFile
  <2>1. CASE Verify
    BY <2>1 DEF Verify, durable
  <2>2. CASE UNCHANGED vars
    BY <2>2 DEF vars, durable
  <2>3. ASSUME NEW m \in Mirrors, Tamper(m) PROVE runFile' = runFile
    BY <2>3 DEF Tamper, durable
  <2>4. ASSUME NEW q \in inflight, Handle(q) PROVE runFile' = runFile
    BY <2>4 DEF Handle, Accept, Reject, TimeOut, durable
  <2> QED
    BY <1>5, <2>1, <2>2, <2>3, <2>4
<1>6. runFile'[r] = runFile[r]
  BY <1>3, <1>4, <1>5 DEF Next, Walk
<1> QED
  BY <1>2, <1>6

LEMMA StepJudged ==
    ASSUME TypeOK, \A x \in Runs : Honest(x), Judged, [Next]_vars
    PROVE  Judged'
<1>1. CASE verified' = verified
  BY <1>1, PassesKept DEF Judged
<1>2. CASE Verify
  BY <1>2, PassesKept DEF Verify, Judged
<1>3. verified' = verified \/ Verify
  <2>1. ASSUME NEW r \in Runs, Start(r) \/ Walk(r) \/ Crash(r) PROVE verified' = verified
    BY <2>1 DEF Start, Crash, Walk, Probe, Throw, Close, WriteRecord, OnMirror, Observe,
       NoChange, MirrorFails, Rehearse, SendBranch, Confirm, OnHook, PassHook, StartHook, EndHook
  <2> QED
    BY <2>1 DEF Next, vars, Tamper, Handle, Accept, Reject, TimeOut
<1> QED
  BY <1>1, <1>2, <1>3

LEMMA InitTruthful == Init => Truthful
<1> SUFFICES ASSUME Init PROVE Truthful
  OBVIOUS
<1>1. ASSUME NEW m \in Mirrors PROVE OnRemote(m)
  <2>1. tip[m] \in log[m] /\ tag[m] = NoCommit
    BY DEF Init
  <2> QED
    BY <2>1, NameAssumption DEF OnRemote, NoCommit
<1>2. TagsFollow /\ Judged
  BY DEF Init, TagsFollow, Judged
<1>3. ASSUME NEW r \in Runs PROVE Honest(r)
  <2>1. /\ step[r] = "idle" /\ cp[r] = Untouched /\ runFile[r] = Absent
        /\ \A m \in Mirrors : probe[r][m] = NoCommit
        /\ inflight = {}
    BY DEF Init
  <2>2. \A i \in Items : cp[r][i] = "pending"
    BY <2>1 DEF Untouched
  <2>3. Recorded(r)
    BY <2>1, <2>2 DEF Recorded, Absent, Items
  <2>4. Knows(r)
    BY <2>2 DEF Knows, Got, Items
  <2>5. \A m \in Mirrors : ~Pushed(r, m)
    <3> SUFFICES ASSUME NEW m \in Mirrors PROVE r \notin log[m]
      BY <2>1 DEF Pushed
    <3>1. log[m] = {tip[m]} /\ tip[m] \in {"old", "same"}
      BY DEF Init
    <3> QED
      BY <3>1, NameAssumption
  <2>6. Sent(r)
    BY <2>1, <2>5 DEF Sent
  <2> QED
    BY <2>3, <2>4, <2>6 DEF Honest
<1> QED
  BY <1>1, <1>2, <1>3 DEF Truthful

LEMMA TruthHolds == Spec => [](TypeOK /\ Orderly /\ Truthful)
<1>1. Init => TypeOK /\ Orderly /\ Truthful
  BY InitTyped, InitOrderly, InitTruthful
<1>2. TypeOK /\ Orderly /\ Truthful /\ [Next]_vars => (TypeOK /\ Orderly /\ Truthful)'
  <2> SUFFICES ASSUME TypeOK, Orderly, Truthful, [Next]_vars
               PROVE  (TypeOK /\ Orderly /\ Truthful)'
    OBVIOUS
  <2>t. TypeOK'
    BY StepTyped
  <2>1. Orderly'
    BY <2>t, StepOrderly
  <2>2. Grows /\ (\A m \in Mirrors : OnRemote(m))' /\ TagsFollow'
    BY <2>t, RemoteKept DEF Truthful
  <2>3. \A x \in Runs : Honest(x)'
    BY <2>t, <2>2, StepHonest DEF Truthful
  <2>4. Judged'
    BY StepJudged DEF Truthful
  <2> QED
    BY <2>t, <2>1, <2>2, <2>3, <2>4 DEF Truthful
<1> QED
  BY <1>1, <1>2, PTL DEF Spec

LEMMA KnownIsReceived ==
    ASSUME NEW r \in Runs, NEW m \in Mirrors, Known(r, m)
    PROVE  Received(m)
BY DEF Known, Carries, Received

\* A record that says DISTRIBUTED, and what its run got.
LEMMA ToldGotAll ==
    ASSUME Truthful, NEW r \in Runs, runFile[r].status = "DISTRIBUTED", ~dry[r]
    PROVE  /\ \A m \in Mirrors : Known(r, m)
           /\ Hooks \subseteq ran[r]
<1>1. \A i \in Items : cp[r][i] \in {"succeeded", "skipped", "no_change"}
  BY DEF Truthful, Honest, Recorded
<1>2. \A i \in Items : Got(r, i)
  BY <1>1 DEF Got
<1> QED
  BY <1>2 DEF Truthful, Honest, Knows, Items

\* DISTRIBUTED is said only of a release every mirror received and whose every
\* hook the run started.
THEOREM DistributionTruth == Spec => []DistributedIsTrue
<1>1. Truthful => DistributedIsTrue
  BY ToldGotAll, KnownIsReceived DEF DistributedIsTrue
<1> QED
  BY <1>1, TruthHolds, PTL

\* An index that was pushed names a commit with the release's payload that is
\* on the branch of its payload mirror.
THEOREM DistributionIndex == Spec => []IndexNamesPayload
<1>1. Truthful => IndexNamesPayload
  <2> SUFFICES ASSUME Truthful, NEW m \in Mirrors, NEW r \in Runs, IsIndex(m), r \in log[m],
                      tag[DependsOn[m]] # "foreign"
               PROVE  Named(r, m) \in log[DependsOn[m]] \cap (Runs \cup {"same"})
    BY DEF IndexNamesPayload
  <2>1. Known(r, DependsOn[m])
    BY DEF Truthful, Honest, Sent, Pushed
  <2> QED
    BY <2>1 DEF Known, Carries, Named
<1> QED
  BY <1>1, TruthHolds, PTL

\* VERIFIED is said only of a delivered release, whichever records verify went
\* by, with the two exceptions the property names.
THEOREM DistributionVerified == Spec => []VerifiedIsDelivered
<1>1. Truthful => VerifiedIsDelivered
  <2> SUFFICES ASSUME Truthful, verified, ~Rehearsed, LenientLast PROVE Delivered
    BY DEF VerifiedIsDelivered
  <2>1. PICK r \in Runs : Passes(runFile[r])
    BY DEF Truthful, Judged
  <2>2. ~dry[r]
    BY <2>1 DEF Rehearsed
  <2>3. CASE runFile[r].status = "DISTRIBUTED"
    BY <2>2, <2>3, ToldGotAll, KnownIsReceived DEF Delivered
  <2>4. CASE runFile[r].status # "DISTRIBUTED"
    <3>1. step[r] = "ended"
      BY <2>1 DEF Truthful, Honest, Recorded, Passes, Absent
    <3>2. \A i \in Items : \/ cp[r][i] \in {"succeeded", "skipped"}
                           \/ cp[r][i] = "failed" /\ i \in Lenient
      BY <2>1, <2>4, <3>1 DEF Truthful, Honest, Recorded, Passes
    <3>3. ASSUME NEW i \in Items \ Lenient PROVE Got(r, i)
      <4> SUFFICES ASSUME NEW j \in Items, Rank[j] < Rank[i] PROVE cp[r][j] # "failed"
        BY <3>2, <3>3 DEF Got
      <4>1. j \notin Lenient
        BY ChainAssumption DEF LenientLast
      <4> QED
        BY <3>2, <4>1
    <3>4. \A m \in Mirrors : Known(r, m)
      BY <2>2, <3>3, ChainAssumption DEF Truthful, Honest, Knows, Items
    <3>5. \A h \in Hooks \ Lenient : h \in ran[r]
      BY <2>2, <3>3 DEF Truthful, Honest, Knows, Items
    <3> QED
      BY <3>4, <3>5, KnownIsReceived DEF Delivered
  <2> QED
    BY <2>3, <2>4
<1> QED
  BY <1>1, TruthHolds, PTL

(***************************************************************************)
(* Refinement: the runs together keep the promise of Delivery              *)
(***************************************************************************)
HasContent == {m \in Mirrors : \E c \in log[m] : c \in Runs \cup {"same"}}

HasTag == {m \in Mirrors : tag[m] # NoCommit}

Told == {r \in Runs : runFile[r].status = "DISTRIBUTED" /\ ~dry[r]}

LEMMA ToldOnly ==
    ASSUME runFile' = runFile, dry' = dry
    PROVE  Told' = Told
BY DEF Told

\* What a run does to its own record.
LEMMA RunTells ==
    ASSUME TypeOK, Truthful, NEW r \in Runs, Start(r) \/ Walk(r) \/ Crash(r)
    PROVE  Told' = Told \/ Told' = Told \cup {r}
<1>1. CASE Start(r)
  <2>1. /\ runFile' = runFile /\ runFile[r] = Absent
        /\ \A x \in Runs : x # r => dry'[x] = dry[x]
    BY <1>1 DEF Start, TypeOK, Truthful, Honest, Recorded
  <2> QED
    BY <2>1 DEF Told, Absent
<1>2. CASE Throw(r) \/ WriteRecord(r)
  <2>1. /\ dry' = dry /\ step[r] # "ended"
        /\ \A x \in Runs : x # r => runFile'[x] = runFile[x]
    BY <1>2 DEF Throw, WriteRecord, TypeOK
  <2>2. r \notin Told
    BY <2>1 DEF Truthful, Honest, Recorded, Told, Absent
  <2> QED
    BY <2>1, <2>2 DEF Told
<1>3. CASE Probe(r) \/ Close(r) \/ Crash(r)
  <2>1. runFile' = runFile /\ dry' = dry
    BY <1>3 DEF Probe, Close, Crash, durable
  <2> QED
    BY <2>1, ToldOnly
<1>4. ASSUME NEW m \in Mirrors, OnMirror(r, m) PROVE Told' = Told
  <2>1. runFile' = runFile /\ dry' = dry
    BY <1>4 DEF OnMirror, Observe, NoChange, MirrorFails, Rehearse, SendBranch, Confirm, durable
  <2> QED
    BY <2>1, ToldOnly
<1>5. ASSUME NEW h \in Hooks, OnHook(r, h) PROVE Told' = Told
  <2>1. runFile' = runFile /\ dry' = dry
    BY <1>5 DEF OnHook, PassHook, StartHook, EndHook, durable
  <2> QED
    BY <2>1, ToldOnly
<1> QED
  BY <1>1, <1>2, <1>3, <1>4, <1>5 DEF Walk

\* A branch that moves gives a mirror the release, or nothing.
LEMMA ContentMoves ==
    ASSUME TypeOK, NEW m \in Mirrors, NEW c, log' = [log EXCEPT ![m] = @ \cup {c}]
    PROVE  IF c \in Runs \cup {"same"} THEN HasContent' = HasContent \cup {m}
                                      ELSE HasContent' = HasContent
<1>1. \A n \in Mirrors : log'[n] = IF n = m THEN log[n] \cup {c} ELSE log[n]
  BY DEF TypeOK
<1> QED
  BY <1>1 DEF HasContent

LEMMA TagMoves ==
    ASSUME TypeOK, NEW m \in Mirrors, NEW c, c # NoCommit, tag' = [tag EXCEPT ![m] = c]
    PROVE  HasTag' = HasTag \cup {m}
<1>1. \A n \in Mirrors : tag'[n] = IF n = m THEN c ELSE tag[n]
  BY DEF TypeOK
<1> QED
  BY <1>1 DEF HasTag

LEMMA ToldPrimed ==
    ASSUME Truthful', NEW r \in Runs, runFile'[r].status = "DISTRIBUTED", ~dry'[r]
    PROVE  \A m \in Mirrors : Known(r, m)'
<1>1. \A i \in Items : cp'[r][i] \in {"succeeded", "skipped", "no_change"}
  BY DEF Truthful, Honest, Recorded
<1>2. \A i \in Items : Got(r, i)'
  BY <1>1 DEF Got
<1> QED
  BY <1>2 DEF Truthful, Honest, Knows, Items

\* The steps of Distribution in the terms of Delivery.
LEMMA StepDelivers ==
    ASSUME TypeOK, Truthful, Truthful', [Next]_vars
    PROVE  \/ UNCHANGED <<HasContent, HasTag, Told>>
           \/ \E m \in Mirrors : HasContent' = HasContent \cup {m} /\ UNCHANGED <<HasTag, Told>>
           \/ \E m \in Mirrors : HasTag' = HasTag \cup {m} /\ UNCHANGED <<HasContent, Told>>
           \/ \E r \in Runs : /\ Mirrors \subseteq HasContent \cup HasTag
                              /\ Told' = Told \cup {r}
                              /\ UNCHANGED <<HasContent, HasTag>>
<1>1. ASSUME NEW r \in Runs, Start(r) \/ Walk(r) \/ Crash(r)
      PROVE  /\ UNCHANGED <<HasContent, HasTag>>
             /\ \/ Told' = Told
                \/ Mirrors \subseteq HasContent \cup HasTag /\ Told' = Told \cup {r}
  <2>1. tag' = tag /\ log' = log
    <3>1. ASSUME NEW m \in Mirrors, SendBranch(r, m) PROVE tag' = tag /\ log' = log
      BY <3>1 DEF SendBranch, mirrors
    <3> QED
      BY <1>1, <3>1, LocalSteps DEF Local
  <2>2. UNCHANGED <<HasContent, HasTag>>
    BY <2>1 DEF HasContent, HasTag
  <2>3. CASE Told' = Told
    BY <2>2, <2>3
  <2>4. CASE Told' = Told \cup {r} /\ Told' # Told
    <3>1. runFile'[r].status = "DISTRIBUTED" /\ ~dry'[r]
      BY <2>4 DEF Told
    <3>2. \A m \in Mirrors : Known(r, m)'
      BY <3>1, ToldPrimed
    <3>3. \A m \in Mirrors : m \in HasContent' \cup HasTag'
      BY <3>2 DEF Known, Carries, HasContent, HasTag, NoCommit
    <3> QED
      BY <2>2, <2>4, <3>3
  <2> QED
    BY <1>1, <2>3, <2>4, RunTells
<1>2. ASSUME NEW q \in inflight, Accept(q)
      PROVE  /\ Told' = Told
             /\ \/ \E m \in Mirrors : HasContent' = HasContent \cup {m} /\ HasTag' = HasTag
                \/ \E m \in Mirrors : HasTag' = HasTag \cup {m} /\ HasContent' = HasContent
  <2>1. Told' = Told
    BY <1>2, ToldOnly DEF Accept, durable
  <2>2. q.run \in Runs /\ q.mirror \in Mirrors /\ q.run # NoCommit
    BY <1>2, AcceptRemote, NameAssumption
  <2>3. CASE log' = [log EXCEPT ![q.mirror] = @ \cup {q.run}] /\ tag' = tag
    <3>1. HasContent' = HasContent \cup {q.mirror}
      BY <2>2, <2>3, ContentMoves
    <3>2. HasTag' = HasTag
      BY <2>3 DEF HasTag
    <3> QED
      BY <2>1, <2>2, <3>1, <3>2
  <2>4. CASE tag' = [tag EXCEPT ![q.mirror] = q.run] /\ log' = log
    <3>1. HasTag' = HasTag \cup {q.mirror}
      BY <2>2, <2>4, TagMoves
    <3>2. HasContent' = HasContent
      BY <2>4 DEF HasContent
    <3> QED
      BY <2>1, <2>2, <3>1, <3>2
  <2> QED
    BY <1>2, <2>3, <2>4, AcceptRemote
<1>3. ASSUME NEW m \in Mirrors, Tamper(m)
      PROVE  /\ Told' = Told /\ HasContent' = HasContent
             /\ HasTag' = HasTag \/ HasTag' = HasTag \cup {m}
  <2>1. Told' = Told
    BY <1>3, ToldOnly DEF Tamper, durable, memory
  <2>2. "foreign" \notin Runs \cup {"same"} /\ "foreign" # NoCommit
    BY NameAssumption DEF NoCommit
  <2>3. CASE log' = [log EXCEPT ![m] = @ \cup {"foreign"}] /\ tag' = tag
    BY <2>1, <2>2, <2>3, ContentMoves DEF HasTag
  <2>4. CASE tag' = [tag EXCEPT ![m] = "foreign"] /\ log' = log
    BY <2>1, <2>2, <2>4, TagMoves DEF HasContent
  <2> QED
    BY <1>3, <2>3, <2>4, TamperRemote
<1>4. ASSUME Verify \/ UNCHANGED vars \/ \E q \in inflight : Reject(q) \/ TimeOut(q)
      PROVE  UNCHANGED <<HasContent, HasTag, Told>>
  <2>1. CASE Verify
    BY <2>1 DEF Verify, mirrors, durable, memory, HasContent, HasTag, Told
  <2>2. CASE UNCHANGED vars
    BY <2>2 DEF vars, mirrors, durable, memory, HasContent, HasTag, Told
  <2>3. ASSUME NEW q \in inflight, Reject(q) \/ TimeOut(q)
        PROVE  UNCHANGED <<HasContent, HasTag, Told>>
    BY <2>3 DEF Reject, TimeOut, mirrors, HasContent, HasTag, Told
  <2> QED
    BY <1>4, <2>1, <2>2, <2>3
<1>5. CASE \E r \in Runs : Start(r) \/ Walk(r) \/ Crash(r)
  BY <1>1, <1>5
<1>6. CASE \E q \in inflight : Accept(q)
  BY <1>2, <1>6
<1>7. CASE \E m \in Mirrors : Tamper(m)
  BY <1>3, <1>7
<1>8. CASE Verify \/ UNCHANGED vars \/ \E q \in inflight : Reject(q) \/ TimeOut(q)
  BY <1>4, <1>8
<1> QED
  BY <1>5, <1>6, <1>7, <1>8 DEF Next, Handle

\* Distribution implements Delivery: every step is a receipt, a tag, a truthful
\* report, or nothing the rest of the system sees.
THEOREM DistributionImplementsDelivery == Spec => ImplementsDelivery
<1>1. Init => Contract!Init
  <2> SUFFICES ASSUME Init PROVE Contract!Init
    OBVIOUS
  <2>1. HasTag = {} /\ Told = {}
    BY DEF Init, HasTag, Told, Absent
  <2> QED
    BY <2>1 DEF Contract!Init, HasTag, Told
<1>2. TypeOK /\ Truthful /\ Truthful' /\ [Next]_vars => [Contract!Next]_Contract!vars
  <2> SUFFICES ASSUME TypeOK, Truthful, Truthful', [Next]_vars
               PROVE  Contract!Next \/ UNCHANGED Contract!vars
    OBVIOUS
  <2>1. CASE UNCHANGED <<HasContent, HasTag, Told>>
    BY <2>1 DEF Contract!vars, HasContent, HasTag, Told
  <2>2. ASSUME NEW m \in Mirrors, HasContent' = HasContent \cup {m}, UNCHANGED <<HasTag, Told>>
        PROVE  Contract!Receive(m)
    BY <2>2 DEF Contract!Receive, HasContent, HasTag, Told
  <2>3. ASSUME NEW m \in Mirrors, HasTag' = HasTag \cup {m}, UNCHANGED <<HasContent, Told>>
        PROVE  Contract!Tag(m)
    BY <2>3 DEF Contract!Tag, HasContent, HasTag, Told
  <2>4. ASSUME NEW r \in Runs, Mirrors \subseteq HasContent \cup HasTag,
               Told' = Told \cup {r}, UNCHANGED <<HasContent, HasTag>>
        PROVE  Contract!Tell(r)
    BY <2>4 DEF Contract!Tell, HasContent, HasTag, Told
  <2> QED
    BY <2>1, <2>2, <2>3, <2>4, StepDelivers DEF Contract!Next
<1> QED
  BY <1>1, <1>2, TruthHolds, PTL DEF Spec, ImplementsDelivery, Contract!Spec

=============================================================================
