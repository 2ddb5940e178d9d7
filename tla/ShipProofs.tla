----------------------------- MODULE ShipProofs -----------------------------
(***************************************************************************)
(* Proofs about Ship, for every set of postVerify hooks, every kind of     *)
(* plan and every number of faults.                                        *)
(***************************************************************************)
EXTENDS Ship, TLAPS

USE DEF remote

-----------------------------------------------------------------------------
(* The inductive invariant.                                                *)

\* A call works on what the file says.
Synced == pc # "idle" => mem = file

\* Where a call is, and what it has therefore behind it.
Placed ==
    /\ pc \notin {"idle", "prepare"} => file.status \notin {"absent", "NEW"}
    /\ pc \in {"published", "distributing", "verify"} => pub = "published"
    /\ pc \in {"marker", "baseline", "validate", "verified"} => record
    /\ file.status = "VERIFIED" => pc \in {"idle", "posting", "reentry"}

\* The world the file is compared with.
Released ==
    /\ record => pub = "published"
    /\ pub # "none" /\ ~record => frozen

\* The postverify runs of a call.
Counted ==
    /\ ~ranPost => posts = 0
    /\ pc \notin {"idle", "posting", "reentry"} => posts = 0

Sound ==
    /\ Synced /\ Placed /\ Released
    /\ TellsTruth /\ FrozenUntilVerified

(***************************************************************************)
(* Type correctness                                                        *)
(***************************************************************************)
LEMMA TipsTyped == ASSUME NEW done PROVE TipsOf(done) \subseteq Tips
<1> DEFINE a == "advance" \in plan.branches
           d == "default" \in plan.branches
<1>1. a \in BOOLEAN /\ d \in BOOLEAN
  OBVIOUS
<1> HIDE DEF a, d
<1>2. [moved |-> FALSE, absent |-> d] \in Tips /\ [moved |-> a, absent |-> FALSE] \in Tips
  BY <1>1 DEF Tips
<1>3. /\ {[moved |-> FALSE, absent |-> d]} \subseteq Tips
      /\ {[moved |-> a, absent |-> FALSE]} \subseteq Tips
      /\ {t \in Tips : (t.moved => a) /\ (t.absent => d)} \subseteq Tips
  BY <1>2
<1> QED
  BY <1>3 DEF TipsOf, a, d

LEMMA InitTyped == Init => TypeOK
<1> SUFFICES ASSUME Init PROVE TypeOK
  OBVIOUS
<1>1. NoState \in State /\ [Fresh EXCEPT !.candidate = TRUE] \in State
  BY DEF NoState, Fresh, State, Statuses, PostStatuses
<1>2. plan \in Plan /\ tips \in Tips /\ record \in BOOLEAN /\ frozen \in BOOLEAN
  BY ShipAssumption, TipsTyped DEF Init
<1>3. opt \in Options /\ hook \in [PostHooks -> HookStatus]
  BY DEF Init, Options, NoHook, HookStatus
<1>4. faults \in 0 .. MaxFaults /\ posts \in Nat
  BY ShipAssumption DEF Init
<1> QED
  BY <1>1, <1>2, <1>3, <1>4 DEF Init, TypeOK, Points

LEMMA FaultTyped ==
    ASSUME TypeOK, Fault \/ NoFault
    PROVE  faults' \in 0 .. MaxFaults
BY ShipAssumption DEF TypeOK, Fault, NoFault

\* A call that is told what to do next, until it returns.
LEMMA CommandTyped ==
    ASSUME TypeOK, mem' \in State, file' \in State, pc' \in Points,
           faults' \in 0 .. MaxFaults, ranPost' \in BOOLEAN, posts' \in Nat,
           hook' \in [PostHooks -> HookStatus], record' \in BOOLEAN, frozen' \in BOOLEAN,
           config' \in {"old", "new", "broken"}, head' \in {"old", "new"},
           pub' \in {"none", "partial", "published"},
           torn' \in BOOLEAN, opt' \in Options, plan' = plan, tips' \in Tips
    PROVE  TypeOK'
BY DEF TypeOK

LEMMA StoreTyped ==
    ASSUME TypeOK, (\E s \in State : Store(s)) \/ UNCHANGED <<mem, file>>
    PROVE  mem' \in State /\ file' \in State
BY DEF Store, TypeOK

\* A step that changes the state file, the control point and the world.
LEMMA AdvanceTyped ==
    ASSUME TypeOK, mem' \in State, file' \in State, pc' \in Points, Fault \/ NoFault,
           UNCHANGED <<plan, opt, ranPost, hook, posts, remote>>,
           record' \in BOOLEAN, frozen' \in BOOLEAN, torn' \in BOOLEAN,
           config' \in {"old", "new", "broken"}, head' \in {"old", "new"}
    PROVE  TypeOK'
<1>1. faults' \in 0 .. MaxFaults
  BY FaultTyped
<1> QED
  BY <1>1 DEF TypeOK

\* The same, of a step that leaves the world alone.
LEMMA LocalTyped ==
    ASSUME TypeOK, mem' \in State, file' \in State, pc' \in Points, Fault \/ NoFault,
           UNCHANGED <<plan, opt, ranPost, hook, posts, torn, world>>
    PROVE  TypeOK'
BY AdvanceTyped DEF TypeOK, world

LEMMA TearTyped ==
    ASSUME TypeOK, Tear
    PROVE  config' \in {"old", "new", "broken"} /\ torn' \in BOOLEAN
BY DEF TypeOK, Tear

LEMMA CallTyped == ASSUME TypeOK, NEW o \in Options, Call(o) PROVE TypeOK'
<1>1. Fresh \in State
  BY DEF Fresh, NoState, State, Statuses, PostStatuses
<1>2. mem' \in State /\ file' \in State
  BY <1>1 DEF Call, Store, TypeOK
<1>3. pc' \in Points
  BY DEF Call, Goto, Block, Points
<1> QED
  BY <1>2, <1>3, CommandTyped DEF Call, TypeOK, world

\* From prepare to the release.
LEMMA EarlyTyped ==
    ASSUME TypeOK, \/ Prepare \/ Reattach \/ Approve \/ StartPublish \/ PublishReturns
                   \/ StartReconcile \/ ReconcileReturns
    PROVE  TypeOK'
<1>m. \A st \in Statuses, c \in BOOLEAN, so \in {"none", "PARTIAL", "PUBLISHED"} :
        /\ [mem EXCEPT !.status = st, !.candidate = c] \in State
        /\ [mem EXCEPT !.candidate = c] \in State
        /\ [mem EXCEPT !.status = st] \in State
        /\ [mem EXCEPT !.status = st, !.source = so] \in State
  BY DEF TypeOK, State
<1>s. /\ {"VERIFIED", "PUBLISHED", "PARTIAL", "APPROVED", "PUBLISHING", "NEEDS_PLAN_APPROVAL"}
           \subseteq Statuses
      /\ {"PARTIAL", "DISTRIBUTED"} \subseteq PostStatuses
  BY DEF Statuses, PostStatuses
<1>p. {"idle", "approve", "publish", "publishing", "published", "reconcile", "reconciling"}
        \subseteq Points
  BY DEF Points
<1>1. CASE Prepare
  <2>1. mem' \in State /\ file' \in State /\ pc' \in Points /\ (Fault \/ NoFault)
    <3>1. (\E s \in State : Store(s)) \/ UNCHANGED <<mem, file>>
      <4>1. /\ [mem EXCEPT !.status = "NEEDS_PLAN_APPROVAL", !.candidate = FALSE] \in State
            /\ [mem EXCEPT !.candidate = TRUE] \in State
        BY <1>m, <1>s DEF PostStatuses
      <4> QED
        BY <1>1, <4>1 DEF Prepare, Exit
    <3>2. pc' \in Points /\ (Fault \/ NoFault)
      BY <1>1, <1>p DEF Prepare, Goto, Exit
    <3> QED
      BY <3>1, <3>2, StoreTyped
  <2>2. frozen' \in BOOLEAN
    BY <1>1 DEF Prepare, TypeOK
  <2>3. UNCHANGED <<plan, opt, ranPost, hook, posts, torn, remote, record, config, head>>
    BY <1>1 DEF Prepare
  <2> QED
    BY <2>1, <2>2, <2>3, AdvanceTyped DEF TypeOK
<1>2. CASE Reattach
  <2>1. mem' \in State /\ file' \in State /\ pc' \in Points /\ (Fault \/ NoFault)
    <3>1. (CASE record            -> [mem EXCEPT !.status = "VERIFIED"]
             [] pub = "published" -> [mem EXCEPT !.status = "PUBLISHED"]
             [] OTHER             -> [mem EXCEPT !.status = "PARTIAL"]) \in State
      BY <1>m, <1>s
    <3>4. \A done \in SUBSET PostHooks : Carried(done) \in State
      BY <1>s DEF Carried, State, TypeOK
    <3>2. (\E s \in State : Store(s)) \/ UNCHANGED <<mem, file>>
      BY <1>2, <3>1, <3>4 DEF Reattach, Exit
    <3>3. pc' \in Points /\ (Fault \/ NoFault)
      BY <1>2, <1>p DEF Reattach, Goto, Exit
    <3> QED
      BY <3>2, <3>3, StoreTyped
  <2> QED
    BY <1>2, <2>1, LocalTyped DEF Reattach
<1>3. CASE Approve
  <2>1. mem' \in State /\ file' \in State /\ pc' \in Points /\ (Fault \/ NoFault)
    <3>1. (\E s \in State : Store(s)) \/ UNCHANGED <<mem, file>>
      BY <1>3, <1>m, <1>s DEF Approve, Exit
    <3>2. pc' \in Points /\ (Fault \/ NoFault)
      BY <1>3, <1>p DEF Approve, Goto, Exit
    <3> QED
      BY <3>1, <3>2, StoreTyped
  <2> QED
    BY <1>3, <2>1, LocalTyped DEF Approve
<1>4. CASE StartPublish
  <2>1. mem' \in State /\ file' \in State /\ pc' \in Points
    <3>1. (\E s \in State : Store(s)) \/ UNCHANGED <<mem, file>>
      BY <1>4, <1>m, <1>s DEF StartPublish
    <3>2. pc' \in Points
      BY <1>4, <1>p DEF StartPublish, Goto
    <3> QED
      BY <3>1, <3>2, StoreTyped
  <2> QED
    BY <1>4, <2>1, LocalTyped DEF StartPublish, NoFault
<1>5. CASE PublishReturns \/ ReconcileReturns
  <2>r. RunStatus \in {"PARTIAL", "PUBLISHED"}
    BY DEF RunStatus
  <2>1. mem' \in State /\ file' \in State /\ pc' \in Points /\ (Fault \/ NoFault)
    <3>1. \A st \in {"PARTIAL", "PUBLISHED"} :
            [mem EXCEPT !.status = st, !.source = st] \in State
      BY <1>m, <1>s
    <3>2. (\E s \in State : Store(s)) \/ UNCHANGED <<mem, file>>
      BY <1>5, <2>r, <3>1 DEF PublishReturns, ReconcileReturns, Exit
    <3>3. pc' \in Points /\ (Fault \/ NoFault)
      BY <1>5, <1>p DEF PublishReturns, ReconcileReturns, Goto, Exit
    <3> QED
      BY <3>2, <3>3, StoreTyped
  <2> QED
    BY <1>5, <2>1, LocalTyped DEF PublishReturns, ReconcileReturns
<1>6. CASE StartReconcile
  BY <1>6, <1>p, LocalTyped DEF StartReconcile, Goto, TypeOK, NoFault
<1> QED
  BY <1>1, <1>2, <1>3, <1>4, <1>5, <1>6

\* From the release to VERIFIED.
LEMMA LateTyped ==
    ASSUME TypeOK, \/ EnterPublished \/ DistributeReturns \/ Verify \/ ClearMarker
                   \/ WriteBaseline \/ Validate \/ StoreVerified
    PROVE  TypeOK'
<1>m. \A st \in Statuses : /\ [mem EXCEPT !.status = st] \in State
                           /\ [mem EXCEPT !.status = st, !.verify = TRUE] \in State
  BY DEF TypeOK, State
<1>s. {"DISTRIBUTING", "DISTRIBUTED", "NEEDS_INPUT", "PARTIAL", "NEEDS_MANUAL_ATTESTATIONS",
       "VERIFIED"} \subseteq Statuses
  BY DEF Statuses
<1>p. {"idle", "distributing", "verify", "marker", "baseline", "validate", "verified", "posting"}
        \subseteq Points
  BY DEF Points
<1>1. CASE EnterPublished
  <2>1. mem' \in State /\ file' \in State /\ pc' \in Points
    <3>1. (\E s \in State : Store(s)) \/ UNCHANGED <<mem, file>>
      BY <1>1, <1>m, <1>s DEF EnterPublished, Exit
    <3>2. pc' \in Points
      BY <1>1, <1>p DEF EnterPublished, Goto, Exit
    <3> QED
      BY <3>1, <3>2, StoreTyped
  <2> QED
    BY <1>1, <2>1, LocalTyped DEF EnterPublished, NoFault
<1>2. CASE DistributeReturns
  <2>1. mem' \in State /\ file' \in State /\ pc' \in Points /\ (Fault \/ NoFault)
    <3>1. (\E s \in State : Store(s)) \/ UNCHANGED <<mem, file>>
      BY <1>2, <1>m, <1>s DEF DistributeReturns
    <3>2. pc' \in Points /\ (Fault \/ NoFault)
      BY <1>2, <1>p DEF DistributeReturns, Goto
    <3> QED
      BY <3>1, <3>2, StoreTyped
  <2> QED
    BY <1>2, <2>1, LocalTyped DEF DistributeReturns
<1>3. CASE Verify
  <2>1. mem' \in State /\ file' \in State /\ pc' \in Points /\ (Fault \/ NoFault)
    <3>1. (\E s \in State : Store(s)) \/ UNCHANGED <<mem, file>>
      BY <1>3, <1>m, <1>s DEF Verify, Exit
    <3>2. pc' \in Points /\ (Fault \/ NoFault)
      BY <1>3, <1>p DEF Verify, Goto, Exit
    <3> QED
      BY <3>1, <3>2, StoreTyped
  <2>2. record' \in BOOLEAN
    BY <1>3 DEF Verify, TypeOK
  <2> QED
    BY <1>3, <2>1, <2>2, AdvanceTyped DEF Verify, TypeOK
<1>4. CASE ClearMarker
  BY <1>4, <1>p, AdvanceTyped DEF ClearMarker, Goto, TypeOK
<1>5. CASE WriteBaseline
  <2>1. pc' \in Points /\ (Fault \/ NoFault)
    BY <1>5, <1>p DEF WriteBaseline, Goto
  <2>2. config' \in {"old", "new", "broken"} /\ torn' \in BOOLEAN
    BY <1>5, TearTyped DEF WriteBaseline, TypeOK
  <2> QED
    BY <1>5, <2>1, <2>2, AdvanceTyped DEF WriteBaseline, TypeOK
<1>6. CASE Validate
  <2>1. Restored \in {"old", "new", "broken"}
    BY DEF Restored, TypeOK
  <2>2. pc' \in Points /\ head' \in {"old", "new"} /\ (Fault \/ NoFault)
    BY <1>6, <1>p DEF Validate, Goto, TypeOK
  <2>3. config' \in {"old", "new", "broken"} /\ torn' \in BOOLEAN
    BY <1>6, <2>1 DEF Validate, TypeOK
  <2> QED
    BY <1>6, <2>2, <2>3, FaultTyped DEF Validate, TypeOK
<1>7. CASE StoreVerified
  <2>1. NoHook \in [PostHooks -> HookStatus]
    BY DEF NoHook, HookStatus
  <2>2. mem' \in State /\ file' \in State /\ pc' \in Points
    <3>1. (\E s \in State : Store(s)) \/ UNCHANGED <<mem, file>>
      BY <1>7, <1>m, <1>s DEF StoreVerified
    <3>2. pc' \in Points
      BY <1>7, <1>p DEF StoreVerified, Goto
    <3> QED
      BY <3>1, <3>2, StoreTyped
  <2>3. /\ ranPost' \in BOOLEAN /\ posts' \in Nat
        /\ hook' \in [PostHooks -> HookStatus]
    <3>1. posts \in Nat /\ posts + 1 \in Nat
      BY DEF TypeOK
    <3> QED
      BY <1>7, <2>1, <3>1 DEF StoreVerified, TypeOK
  <2> QED
    BY <1>7, <2>2, <2>3, CommandTyped DEF StoreVerified, TypeOK, world
<1> QED
  BY <1>1, <1>2, <1>3, <1>4, <1>5, <1>6, <1>7

\* The postverify run, and what may happen at any time.
LEMMA PostTyped ==
    ASSUME TypeOK, \/ PostReturns \/ Reenter \/ Release \/ Crash
                   \/ \E h \in PostHooks : RunHook(h)
    PROVE  TypeOK'
<1>p. {"idle", "posting", "reentry"} \subseteq Points
  BY DEF Points
<1>h. NoHook \in [PostHooks -> HookStatus]
  BY DEF NoHook, HookStatus
<1>1. CASE PostReturns
  <2>1. /\ PostStatus \in PostStatuses /\ "FAILED" \in PostStatuses
        /\ Closed \in SUBSET PostHooks
    BY DEF PostStatus, PostStatuses, Closed
  <2>2. \A p \in PostStatuses, c \in SUBSET PostHooks :
          [mem EXCEPT !.post = p, !.closed = c] \in State
    BY DEF TypeOK, State
  <2>3. mem' \in State /\ file' \in State /\ (Fault \/ NoFault)
    BY <1>1, <2>1, <2>2 DEF PostReturns, Store, Kept
  <2> QED
    BY <1>1, <2>3, <1>p, LocalTyped DEF PostReturns, Goto
<1>2. CASE Reenter
  <2>0. posts \in Nat /\ posts + 1 \in Nat
    BY DEF TypeOK
  <2>1. pc' \in Points /\ UNCHANGED <<mem, file>>
    BY <1>2, <1>p DEF Reenter, Goto, Exit
  <2>2. hook' \in [PostHooks -> HookStatus] /\ ranPost' \in BOOLEAN /\ posts' \in Nat
    BY <1>2, <2>0, <1>h DEF Reenter, TypeOK
  <2> QED
    BY <1>2, <2>1, <2>2, CommandTyped DEF Reenter, TypeOK, world
<1>3. CASE Release
  <2>1. tips' \in Tips
    BY <1>3, TipsTyped DEF Release
  <2> QED
    BY <1>3, <2>1, CommandTyped DEF Release, TypeOK, call
<1>4. CASE Crash
  <2>1. faults' \in 0 .. MaxFaults
    BY <1>4, FaultTyped DEF Crash
  <2>2. config' \in {"old", "new", "broken"} /\ torn' \in BOOLEAN
    BY <1>4, TearTyped DEF Crash, TypeOK
  <2> QED
    BY <1>4, <2>1, <2>2, <1>p, CommandTyped DEF Crash, Exit, Goto, TypeOK
<1>5. ASSUME NEW h \in PostHooks, RunHook(h) PROVE TypeOK'
  <2>1. \E s \in HookStatus : hook' = [hook EXCEPT ![h] = s]
    BY <1>5 DEF RunHook, HookStatus
  <2>2. hook' \in [PostHooks -> HookStatus]
    BY <2>1 DEF TypeOK
  <2> QED
    BY <1>5, <2>2, FaultTyped, CommandTyped DEF RunHook, TypeOK, world
<1> QED
  BY <1>1, <1>2, <1>3, <1>4, <1>5

LEMMA StepTyped == TypeOK /\ [Next]_vars => TypeOK'
<1> SUFFICES ASSUME TypeOK, [Next]_vars PROVE TypeOK'
  OBVIOUS
<1>1. CASE UNCHANGED vars
  BY <1>1 DEF vars, world, call, TypeOK
<1> QED
  BY <1>1, CallTyped, EarlyTyped, LateTyped, PostTyped DEF Next, Run

\* Every state of a shipping has the type TypeOK gives it.
THEOREM ShipTyped == Spec => []TypeOK
  BY InitTyped, StepTyped, PTL DEF Spec

(***************************************************************************)
(* The invariant: what the file says, where the call is, what is released  *)
(***************************************************************************)
\* What the changes of a state leave as it is.
LEMMA Fields ==
    ASSUME TypeOK
    PROVE  /\ \A st \in Statuses : LET s == [mem EXCEPT !.status = st]
                                 IN  s.status = st /\ s.source = mem.source /\ s.verify = mem.verify
           /\ \A st \in Statuses, c \in BOOLEAN :
                LET s == [mem EXCEPT !.status = st, !.candidate = c]
                IN  s.status = st /\ s.source = mem.source /\ s.verify = mem.verify
           /\ \A c \in BOOLEAN :
                LET s == [mem EXCEPT !.candidate = c]
                IN  s.status = mem.status /\ s.source = mem.source /\ s.verify = mem.verify
           /\ \A st \in Statuses, so \in {"PARTIAL", "PUBLISHED"} :
                LET s == [mem EXCEPT !.status = st, !.source = so]
                IN  s.status = st /\ s.source = so /\ s.verify = mem.verify
           /\ \A st \in Statuses :
                LET s == [mem EXCEPT !.status = st, !.verify = TRUE]
                IN  s.status = st /\ s.source = mem.source /\ s.verify
           /\ \A st \in Statuses, p \in PostStatuses :
                LET s == [mem EXCEPT !.status = st, !.verify = TRUE, !.post = p]
                IN  s.status = st /\ s.source = mem.source /\ s.verify
           /\ \A p \in PostStatuses, c \in SUBSET PostHooks :
                LET s == [mem EXCEPT !.post = p, !.closed = c]
                IN  s.status = mem.status /\ s.source = mem.source /\ s.verify = mem.verify
BY DEF TypeOK, State

LEMMA InitSound == Init => Sound /\ ConfigRestored /\ Counted
<1> SUFFICES ASSUME Init PROVE Sound /\ ConfigRestored /\ Counted
  OBVIOUS
<1>1. /\ file.status \in {"absent", "NEW"} /\ file.source = "none" /\ ~file.verify
      /\ pc = "idle" /\ config = "old" /\ head = "old" /\ posts = 0
  <2>1. pc = "idle" /\ config = "old" /\ head = "old" /\ posts = 0
    BY DEF Init
  <2>2. file \in {NoState, [Fresh EXCEPT !.candidate = TRUE]}
    BY DEF Init
  <2>3. /\ NoState.status = "absent" /\ NoState.source = "none" /\ ~NoState.verify
        /\ [Fresh EXCEPT !.candidate = TRUE].status = "NEW"
        /\ [Fresh EXCEPT !.candidate = TRUE].source = "none"
        /\ ~[Fresh EXCEPT !.candidate = TRUE].verify
    BY DEF Fresh, NoState
  <2> QED
    BY <2>1, <2>2, <2>3
<1>r. record => pub = "published"
  <2>1. record = FALSE \/ record = (pub = "published")
    BY DEF Init
  <2> QED
    BY <2>1
<1>f. pub # "none" /\ ~record => frozen
  BY DEF Init
<1>2. record \in BOOLEAN /\ frozen \in BOOLEAN
  BY InitTyped DEF TypeOK
<1>3. Synced /\ Placed /\ Counted
  BY <1>1 DEF Synced, Placed, Counted
<1>4. Released
  BY <1>r, <1>f DEF Released
<1>5. TellsTruth /\ FrozenUntilVerified /\ ConfigRestored
  BY <1>1 DEF TellsTruth, FrozenUntilVerified, ConfigRestored
<1> QED
  BY <1>3, <1>4, <1>5 DEF Sound

\* What the file says keeps being so when a step stores a state that is so,
\* and nothing is taken back.
LEMMA FileSound ==
    ASSUME Sound, mem' = file',
           file'.source = "PUBLISHED" => pub' = "published",
           file'.verify => record',
           file'.status = "VERIFIED" => record' /\ pc' \in {"idle", "posting", "reentry"},
           file'.status \in {"PUBLISHED", "DISTRIBUTING", "DISTRIBUTED", "NEEDS_INPUT",
                             "NEEDS_MANUAL_ATTESTATIONS", "VERIFIED"} => pub' = "published",
           file'.status \in {"absent", "NEW"} => pc' \in {"idle", "prepare"},
           file'.status \notin {"absent", "NEW"} => frozen' \/ record',
           pc' \in {"published", "distributing", "verify"} => pub' = "published",
           pc' \in {"marker", "baseline", "validate", "verified"} => record',
           Released', config' # "old" \/ head' # "old" => record'
    PROVE  Sound'
BY DEF Sound, Synced, Placed, TellsTruth, FrozenUntilVerified

LEMMA CallSound == ASSUME TypeOK, Sound, NEW o \in Options, Call(o) PROVE Sound'
<1>1. /\ mem' = file' /\ UNCHANGED <<pub, record, frozen, config, head>>
      /\ pc' = Block(file'.status)
      /\ \/ file' = file /\ file.status # "absent"
         \/ file' = Fresh
  BY DEF Call, Store, Goto, world
<1>2. /\ Fresh.status = "NEW" /\ Fresh.source = "none" /\ ~Fresh.verify
  BY DEF Fresh, NoState
<1>3. /\ pc' \in {"idle", "prepare", "approve", "publish", "reconcile", "published", "reentry"}
      /\ pc' = "published" => file'.status \in {"PUBLISHED", "NEEDS_MANUAL_ATTESTATIONS"}
      /\ file'.status = "VERIFIED" => pc' = "reentry"
      /\ file'.status = "NEW" => pc' = "prepare"
  BY <1>1 DEF Block
<1>4. Released'
  BY <1>1 DEF Sound, Released
<1>5. CASE file' = file /\ file.status # "absent"
  BY <1>1, <1>3, <1>4, <1>5, FileSound DEF Sound, TellsTruth, FrozenUntilVerified
<1>6. CASE file' = Fresh
  BY <1>1, <1>2, <1>3, <1>4, <1>6, FileSound DEF Sound, FrozenUntilVerified
<1> QED
  BY <1>1, <1>5, <1>6

\* A step that leaves the file alone.
LEMMA StaySound ==
    ASSUME Sound, UNCHANGED <<mem, file>>, pc' # "idle" => pc # "idle",
           file.status = "VERIFIED" => pc' \in {"idle", "posting", "reentry"},
           file.status \in {"absent", "NEW"} => pc' \in {"idle", "prepare"},
           pub = "published" => pub' = "published", record => record',
           frozen => frozen' \/ record',
           pc' \in {"published", "distributing", "verify"} => pub' = "published",
           pc' \in {"marker", "baseline", "validate", "verified"} => record',
           Released', config' # "old" \/ head' # "old" => record'
    PROVE  Sound'
BY DEF Sound, Synced, Placed, TellsTruth, FrozenUntilVerified

LEMMA EarlySound ==
    ASSUME TypeOK, Sound,
           \/ Prepare \/ Reattach \/ Approve \/ StartPublish \/ PublishReturns
           \/ StartReconcile \/ ReconcileReturns
    PROVE  Sound'
<1>t. /\ record \in BOOLEAN /\ frozen \in BOOLEAN
      /\ "VERIFIED" \in Statuses /\ "PUBLISHED" \in Statuses /\ "PARTIAL" \in Statuses
      /\ "APPROVED" \in Statuses /\ "PUBLISHING" \in Statuses
      /\ "NEEDS_PLAN_APPROVAL" \in Statuses /\ "PARTIAL" \in PostStatuses
      /\ mem.status \in Statuses
  BY DEF TypeOK, State, Statuses, PostStatuses
<1>m. /\ pc # "idle" /\ mem = file
      /\ pc \notin {"posting", "reentry"} /\ file.status # "VERIFIED"
  BY DEF Sound, Synced, Placed, Prepare, Reattach, Approve, StartPublish, PublishReturns,
     StartReconcile, ReconcileReturns
<1>1. CASE Prepare
  <2>0. UNCHANGED <<pub, record, config, head>> /\ pub = "none" /\ ~record /\ pc = "prepare"
    BY <1>1, <1>t DEF Prepare, Sound, Released
  <2>1. CASE /\ Store([mem EXCEPT !.status = "NEEDS_PLAN_APPROVAL", !.candidate = FALSE])
             /\ frozen' = TRUE /\ pc' = "approve"
    <3>1. /\ mem' = file' /\ file'.status = "NEEDS_PLAN_APPROVAL"
          /\ file'.source = file.source /\ file'.verify = file.verify
      BY <2>1, <1>t, <1>m, Fields DEF Store
    <3>2. Released'
      BY <2>0, <2>1 DEF Released
    <3> QED
      BY <2>0, <2>1, <3>1, <3>2, FileSound DEF Sound, TellsTruth, FrozenUntilVerified
  <2>2. CASE Store([mem EXCEPT !.candidate = TRUE]) /\ pc' = "idle" /\ frozen' = frozen
    <3>1. /\ mem' = file' /\ file'.status = file.status
          /\ file'.source = file.source /\ file'.verify = file.verify
      BY <2>2, <1>m, Fields DEF Store
    <3>2. Released'
      BY <2>0, <2>2 DEF Released
    <3> QED
      BY <2>0, <2>2, <3>1, <3>2, <1>m, <1>t, FileSound DEF Sound, TellsTruth, FrozenUntilVerified
  <2>3. CASE UNCHANGED <<mem, file>> /\ pc' = "idle" /\ frozen' = frozen
    <3>2. Released'
      BY <2>0, <2>3 DEF Released
    <3> QED
      BY <2>0, <2>3, <3>2, StaySound DEF Sound, FrozenUntilVerified
  <2> QED
    BY <1>1, <2>1, <2>2, <2>3 DEF Prepare, Goto, Exit
<1>2. CASE Reattach
  <2>0. /\ UNCHANGED <<pub, record, frozen, config, head>> /\ pub # "none" /\ pc' = "idle"
        /\ frozen \/ record
    BY <1>2, <1>t DEF Reattach, world, Goto, Exit, Sound, Released
  <2>r. Released'
    BY <2>0 DEF Sound, Released
  <2>1. CASE UNCHANGED <<mem, file>>
    BY <2>0, <2>r, <2>1, StaySound DEF Sound, FrozenUntilVerified
  <2>2. ASSUME NEW st \in {"VERIFIED", "PUBLISHED", "PARTIAL"},
               st = "VERIFIED" => record, st = "PUBLISHED" => pub = "published",
               \/ Store([mem EXCEPT !.status = st])
               \/ st = "VERIFIED" /\ \E done \in SUBSET PostHooks : Store(Carried(done))
        PROVE  Sound'
    <3>0. st \in Statuses
      BY <1>t
    <3>1. /\ mem' = file' /\ file'.status = st /\ file'.source = file.source
          /\ file'.verify = file.verify \/ st = "VERIFIED"
      <4>1. CASE Store([mem EXCEPT !.status = st])
        BY <4>1, <3>0, <1>m, Fields DEF Store
      <4>2. CASE st = "VERIFIED" /\ \E done \in SUBSET PostHooks : Store(Carried(done))
        BY <4>2, <1>t, <1>m DEF Store, Carried, State, TypeOK, Sound, Synced
      <4> QED
        BY <2>2, <4>1, <4>2
    <3> QED
      BY <2>0, <2>r, <2>2, <3>1, FileSound DEF Sound, TellsTruth, FrozenUntilVerified, Released
  <2> QED
    <3>1. CASE record
      BY <1>2, <2>1, <2>2, <3>1 DEF Reattach, Exit
    <3>2. CASE ~record
      BY <1>2, <2>1, <2>2, <3>2 DEF Reattach, Exit
    <3> QED
      BY <3>1, <3>2
<1>3. CASE Approve \/ StartPublish \/ StartReconcile
  <2>0. /\ UNCHANGED <<pub, record, frozen, config, head>>
        /\ pc' \in {"idle", "publish", "publishing", "reconciling"}
        /\ file.status \notin {"absent", "NEW"}
    BY <1>3, <1>m DEF Approve, StartPublish, StartReconcile, world, Goto, Exit, Sound, Placed
  <2>r. Released'
    BY <2>0 DEF Sound, Released
  <2>1. CASE UNCHANGED <<mem, file>>
    BY <2>0, <2>r, <2>1, <1>m, StaySound DEF Sound, FrozenUntilVerified
  <2>2. ASSUME NEW st \in {"APPROVED", "PUBLISHING"}, Store([mem EXCEPT !.status = st])
        PROVE  Sound'
    <3>0. st \in Statuses
      BY <1>t
    <3>1. /\ mem' = file' /\ file'.status = st /\ file'.source = file.source
          /\ file'.verify = file.verify
      BY <2>2, <3>0, <1>m, Fields DEF Store
    <3> QED
      BY <2>0, <2>r, <3>1, <1>t, FileSound DEF Sound, TellsTruth, FrozenUntilVerified
  <2> QED
    BY <1>3, <2>1, <2>2 DEF Approve, StartPublish, StartReconcile, Exit
<1>4. CASE PublishReturns \/ ReconcileReturns
  <2>0. /\ UNCHANGED <<pub, record, frozen, config, head>>
        /\ file.status \notin {"absent", "NEW"}
    BY <1>4, <1>m DEF PublishReturns, ReconcileReturns, world, Sound, Placed
  <2>r. Released'
    BY <2>0 DEF Sound, Released
  <2>1. CASE UNCHANGED <<mem, file>> /\ pc' = "idle"
    BY <2>0, <2>r, <2>1, <1>m, StaySound DEF Sound, FrozenUntilVerified
  <2>2. ASSUME NEW st \in {"PARTIAL", "PUBLISHED"},
               Store([mem EXCEPT !.status = st, !.source = st]),
               pc' \in {"published", "reconcile", "idle"},
               st = "PUBLISHED" \/ pc' = "published" => pub = "published"
        PROVE  Sound'
    <3>0. st \in Statuses
      BY <1>t
    <3>1. /\ mem' = file' /\ file'.status = st /\ file'.source = st
          /\ file'.verify = file.verify
      BY <2>2, <3>0, <1>m, Fields DEF Store
    <3> QED
      BY <2>0, <2>r, <2>2, <3>1, <1>t, FileSound DEF Sound, TellsTruth, FrozenUntilVerified
  <2>3. RunStatus \in {"PARTIAL", "PUBLISHED"} /\ (RunStatus # "PARTIAL" => pub = "published")
    BY DEF RunStatus
  <2>4. \/ UNCHANGED <<mem, file>> /\ pc' = "idle"
        \/ /\ RunStatus # "PARTIAL" /\ pc' = "published"
           /\ Store([mem EXCEPT !.status = RunStatus, !.source = RunStatus])
        \/ /\ pc' \in {"reconcile", "idle"}
           /\ Store([mem EXCEPT !.status = "PARTIAL", !.source = "PARTIAL"])
    BY <1>4 DEF PublishReturns, ReconcileReturns, Goto, Exit
  <2> QED
    BY <2>1, <2>2, <2>3, <2>4
<1> QED
  BY <1>1, <1>2, <1>3, <1>4

LEMMA LateSound ==
    ASSUME TypeOK, Sound,
           \/ EnterPublished \/ DistributeReturns \/ Verify \/ ClearMarker
           \/ WriteBaseline \/ Validate \/ StoreVerified
    PROVE  Sound'
<1>t. /\ record \in BOOLEAN /\ frozen \in BOOLEAN
      /\ {"DISTRIBUTING", "DISTRIBUTED", "NEEDS_INPUT", "PARTIAL", "NEEDS_MANUAL_ATTESTATIONS",
          "VERIFIED"} \subseteq Statuses
  BY DEF TypeOK, Statuses
<1>m. /\ pc # "idle" /\ mem = file
      /\ file.status \notin {"absent", "NEW", "VERIFIED"}
      /\ pub = "published"
      /\ pc \in {"marker", "baseline", "validate", "verified"} => record
  <2>1. pc \in {"published", "distributing", "verify", "marker", "baseline", "validate", "verified"}
    BY DEF EnterPublished, DistributeReturns, Verify, ClearMarker, WriteBaseline, Validate,
       StoreVerified
  <2> QED
    BY <2>1 DEF Sound, Synced, Placed, Released
\* What these steps have in common: nothing of the release is taken back.
<1>s. ASSUME NEW st \in {"DISTRIBUTING", "DISTRIBUTED", "NEEDS_INPUT", "PARTIAL",
                         "NEEDS_MANUAL_ATTESTATIONS"},
             Store([mem EXCEPT !.status = st]), pc' \in {"idle", "distributing", "verify"},
             UNCHANGED <<pub, record, frozen, config, head>>
      PROVE  Sound'
  <2>1. /\ mem' = file' /\ file'.status = st /\ file'.source = file.source
        /\ file'.verify = file.verify
    <3>1. st \in Statuses
      BY <1>t
    <3> QED
      BY <1>s, <3>1, <1>m, Fields DEF Store
  <2>2. Released' /\ (frozen \/ record)
    BY <1>s, <1>m, <1>t DEF Sound, Released
  <2> QED
    BY <1>s, <1>m, <2>1, <2>2, FileSound DEF Sound, TellsTruth, FrozenUntilVerified
<1>u. ASSUME UNCHANGED <<mem, file, pub, record, frozen, config, head>>, pc' \in {"idle", "verify"}
      PROVE  Sound'
  <2>1. Released'
    BY <1>u DEF Sound, Released
  <2> QED
    BY <1>u, <1>m, <2>1, StaySound DEF Sound, FrozenUntilVerified
<1>1. CASE EnterPublished
  <2>1. UNCHANGED <<pub, record, frozen, config, head>>
    BY <1>1 DEF EnterPublished, world
  <2>2. \/ UNCHANGED <<mem, file>> /\ pc' \in {"idle", "verify"}
        \/ Store([mem EXCEPT !.status = "DISTRIBUTING"]) /\ pc' = "distributing"
    BY <1>1 DEF EnterPublished, Exit, Goto
  <2>3. CASE UNCHANGED <<mem, file>> /\ pc' \in {"idle", "verify"}
    BY <2>1, <2>3, <1>u
  <2> QED
    BY <2>1, <2>2, <2>3, <1>s
<1>2. CASE DistributeReturns
  <2>1. UNCHANGED <<pub, record, frozen, config, head>>
    BY <1>2 DEF DistributeReturns, world
  <2>2. \E st \in {"DISTRIBUTED", "NEEDS_INPUT", "PARTIAL"} :
          Store([mem EXCEPT !.status = st]) /\ pc' \in {"idle", "verify"}
    BY <1>2 DEF DistributeReturns, Goto
  <2> QED
    BY <2>1, <2>2, <1>s
<1>3. CASE Verify
  <2>1. UNCHANGED <<pub, frozen, config, head>>
    BY <1>3 DEF Verify
  <2>2. \/ UNCHANGED <<mem, file, record>> /\ pc' = "idle"
        \/ UNCHANGED <<mem, file>> /\ record' = TRUE /\ pc' = "marker"
        \/ /\ Store([mem EXCEPT !.status = "NEEDS_MANUAL_ATTESTATIONS"])
           /\ pc' = "idle" /\ record' = record
    BY <1>3 DEF Verify, Exit, Goto
  <2>3. CASE UNCHANGED <<mem, file, record>> /\ pc' = "idle"
    BY <2>1, <2>3, <1>u
  <2>4. CASE UNCHANGED <<mem, file>> /\ record' = TRUE /\ pc' = "marker"
    <3>1. Released'
      BY <2>1, <2>4, <1>m DEF Released
    <3> QED
      BY <2>1, <2>4, <3>1, <1>m, StaySound
  <2>5. CASE /\ Store([mem EXCEPT !.status = "NEEDS_MANUAL_ATTESTATIONS"])
             /\ pc' = "idle" /\ record' = record
    BY <2>1, <2>5, <1>s
  <2> QED
    BY <2>2, <2>3, <2>4, <2>5
<1>4. CASE ClearMarker \/ WriteBaseline \/ Validate
  <2>1. /\ UNCHANGED <<mem, file, pub, record>> /\ record
        /\ pc' \in {"baseline", "validate", "verified"}
    BY <1>4, <1>m DEF ClearMarker, WriteBaseline, Validate, Goto
  <2> QED
    BY <2>1, <1>m, <1>t, StaySound DEF Released
<1>5. CASE StoreVerified
  <2>1. /\ UNCHANGED <<pub, record, frozen, config, head>> /\ record
        /\ pc' \in {"idle", "posting"}
    BY <1>5, <1>m DEF StoreVerified, world, Goto
  <2>2. /\ mem' = file' /\ file'.status = "VERIFIED" /\ file'.source = file.source
        /\ file'.verify
    BY <1>5, <1>m, <1>t, Fields DEF StoreVerified, Store
  <2> QED
    BY <2>1, <2>2, <1>m, FileSound DEF Released
<1> QED
  BY <1>1, <1>2, <1>3, <1>4, <1>5

LEMMA PostSound ==
    ASSUME TypeOK, Sound,
           \/ PostReturns \/ Reenter \/ Release \/ Crash
           \/ \E h \in PostHooks : RunHook(h)
    PROVE  Sound'
<1>t. record \in BOOLEAN /\ frozen \in BOOLEAN /\ mem.status \in Statuses
  BY DEF TypeOK, State
<1>1. CASE PostReturns
  <2>0. /\ UNCHANGED <<pub, record, frozen, config, head>> /\ pc = "posting" /\ pc' = "reentry"
        /\ mem = file /\ file.status \notin {"absent", "NEW"}
    BY <1>1 DEF PostReturns, world, Goto, Sound, Synced, Placed
  <2>1. /\ mem' = file' /\ file'.status = file.status /\ file'.source = file.source
        /\ file'.verify = file.verify
    <3>1. \E p \in PostStatuses, c \in SUBSET PostHooks :
            Store([mem EXCEPT !.post = p, !.closed = c])
      <4>1. /\ PostStatus \in PostStatuses /\ "FAILED" \in PostStatuses
            /\ Closed \in SUBSET PostHooks
        BY DEF PostStatus, PostStatuses, Closed
      <4> QED
        BY <1>1, <4>1 DEF PostReturns, Kept
    <3> QED
      BY <2>0, <3>1, Fields DEF Store
  <2>2. Released'
    BY <2>0 DEF Sound, Released
  <2> QED
    BY <2>0, <2>1, <2>2, <1>t, FileSound DEF Sound, TellsTruth, FrozenUntilVerified
<1>4. CASE Crash
  <2>1. UNCHANGED <<mem, file, pub, record, frozen, head>> /\ pc' = "idle"
    BY <1>4 DEF Crash, Goto, Exit
  <2>2. config' # "old" => config # "old" \/ record
    BY <1>4 DEF Crash, Tear, Sound, Placed
  <2> QED
    BY <2>1, <2>2, <1>t DEF Sound, Synced, Placed, Released, TellsTruth, FrozenUntilVerified
<1>2. CASE Reenter \/ \E h \in PostHooks : RunHook(h)
  <2>1. /\ UNCHANGED <<mem, file, pub, record, frozen, config, head>>
        /\ pc' = "idle" \/ (pc' = "posting" /\ pc \in {"posting", "reentry"})
    BY <1>2 DEF Reenter, RunHook, world, Goto, Exit
  <2> QED
    BY <2>1, <1>t DEF Sound, Synced, Placed, Released, TellsTruth, FrozenUntilVerified
<1>3. CASE Release
  <2>1. /\ UNCHANGED <<mem, file, pc, record, frozen, config, head>>
        /\ pub # "published" /\ pc \in {"publishing", "reconciling"}
    BY <1>3 DEF Release, call
  <2>2. Released'
    BY <2>1, <1>t DEF Sound, Placed, Released, FrozenUntilVerified
  <2> QED
    BY <2>1, <2>2, <1>t, StaySound DEF Sound, Synced, Placed, FrozenUntilVerified
<1> QED
  BY <1>1, <1>2, <1>3, <1>4

LEMMA StepSound == TypeOK /\ Sound /\ [Next]_vars => Sound'
<1> SUFFICES ASSUME TypeOK, Sound, [Next]_vars PROVE Sound'
  OBVIOUS
<1>1. CASE UNCHANGED vars
  BY <1>1 DEF vars, world, call, Sound, Synced, Placed, Released, TellsTruth, FrozenUntilVerified
<1> QED
  BY <1>1, CallSound, EarlySound, LateSound, PostSound DEF Next, Run

LEMMA SoundHolds == Spec => [](TypeOK /\ Sound)
<1>1. Init => TypeOK /\ Sound
  BY InitTyped, InitSound
<1>2. TypeOK /\ Sound /\ [Next]_vars => (TypeOK /\ Sound)'
  BY StepTyped, StepSound
<1> QED
  BY <1>1, <1>2, PTL DEF Spec

\* Wherever a call was killed, what the state file says of the release is so.
THEOREM ShipTellsTruth == Spec => []TellsTruth
<1>1. Sound => TellsTruth
  BY DEF Sound
<1> QED
  BY <1>1, SoundHolds, PTL

\* The marker stands, and the baseline stays, until a VERIFIED run is on disk.
THEOREM ShipFrozen == Spec => []FrozenUntilVerified
<1>1. Sound => FrozenUntilVerified
  BY DEF Sound
<1> QED
  BY <1>1, SoundHolds, PTL

LEMMA VerifiedKept ==
    ASSUME TypeOK, Sound, [Next]_vars, file.status = "VERIFIED"
    PROVE  file'.status = "VERIFIED"
<1>1. pc \in {"idle", "posting", "reentry"} /\ (pc # "idle" => mem = file)
  BY DEF Sound, Placed, Synced
<1>2. CASE UNCHANGED file
  BY <1>2
<1>3. ASSUME NEW o \in Options, Call(o) PROVE file'.status = "VERIFIED"
  BY <1>3 DEF Call, Store
<1>4. CASE PostReturns
  <2>0. /\ PostStatus \in PostStatuses /\ "FAILED" \in PostStatuses
        /\ Closed \in SUBSET PostHooks
    BY DEF PostStatus, PostStatuses, Closed
  <2>1. \E p \in PostStatuses, c \in SUBSET PostHooks :
          Store([mem EXCEPT !.post = p, !.closed = c])
    BY <1>4, <2>0 DEF PostReturns, Kept
  <2>2. mem = file
    BY <1>1, <1>4 DEF PostReturns
  <2> QED
    BY <2>1, <2>2, Fields DEF Store
<1>5. CASE Reenter \/ Crash \/ Release \/ \E h \in PostHooks : RunHook(h)
  BY <1>2, <1>5 DEF Reenter, Crash, Release, RunHook, Exit
<1>6. CASE UNCHANGED vars
  BY <1>2, <1>6 DEF vars
<1>7. CASE \/ Prepare \/ Reattach \/ Approve \/ StartPublish \/ PublishReturns
           \/ StartReconcile \/ ReconcileReturns
  BY <1>1, <1>7 DEF Prepare, Reattach, Approve, StartPublish, PublishReturns, StartReconcile,
     ReconcileReturns
<1>8. CASE \/ EnterPublished \/ DistributeReturns \/ Verify \/ ClearMarker \/ WriteBaseline
           \/ Validate \/ StoreVerified
  BY <1>1, <1>8 DEF EnterPublished, DistributeReturns, Verify, ClearMarker, WriteBaseline,
     Validate, StoreVerified
<1> QED
  BY <1>3, <1>4, <1>5, <1>6, <1>7, <1>8 DEF Next, Run

\* No step, of any call, takes VERIFIED back.
THEOREM ShipVerifiedStays == Spec => VerifiedStays
<1>1. TypeOK /\ Sound /\ [Next]_vars =>
        [file.status = "VERIFIED" => file'.status = "VERIFIED"]_vars
  BY VerifiedKept
<1> QED
  BY <1>1, SoundHolds, PTL DEF Spec, VerifiedStays

(***************************************************************************)
(* The config, and the postverify runs of one call                         *)
(***************************************************************************)
\* A config that would fail its validation outlives only a call that was killed
\* over it, or whose write of it failed half-way.
THEOREM ShipConfigRestored == Spec => []ConfigRestored
<1>1. Init => ConfigRestored
  BY InitSound
<1>2. ConfigRestored /\ [Next]_vars => ConfigRestored'
  <2> SUFFICES ASSUME ConfigRestored, [Next]_vars PROVE ConfigRestored'
    OBVIOUS
  <2>1. CASE WriteBaseline
    BY <2>1 DEF WriteBaseline, Tear, ConfigRestored, Goto
  <2>2. CASE Validate
    BY <2>2 DEF Validate, Restored, ConfigRestored
  <2>3. CASE Crash
    BY <2>3 DEF Crash, Tear, ConfigRestored
  <2>4. ASSUME UNCHANGED <<config, torn>>, pc # "validate" \/ pc' = pc PROVE ConfigRestored'
    BY <2>4 DEF ConfigRestored
  <2>5. CASE \E o \in Options : Call(o)
    BY <2>4, <2>5 DEF Call, world
  <2>6. CASE Release \/ UNCHANGED vars
    BY <2>4, <2>6 DEF Release, vars, world, call
  <2>7. CASE \/ Prepare \/ Reattach \/ Approve \/ StartPublish \/ PublishReturns
             \/ StartReconcile \/ ReconcileReturns
    BY <2>4, <2>7 DEF Prepare, Reattach, Approve, StartPublish, PublishReturns, StartReconcile,
       ReconcileReturns, world
  <2>8. CASE EnterPublished \/ DistributeReturns \/ Verify \/ ClearMarker \/ StoreVerified
    BY <2>4, <2>8 DEF EnterPublished, DistributeReturns, Verify, ClearMarker, StoreVerified, world
  <2>9. CASE PostReturns \/ Reenter \/ \E h \in PostHooks : RunHook(h)
    BY <2>4, <2>9 DEF PostReturns, Reenter, RunHook, world
  <2> QED
    BY <2>1, <2>2, <2>3, <2>5, <2>6, <2>7, <2>8, <2>9 DEF Next, Run
<1> QED
  BY <1>1, <1>2, PTL DEF Spec

\* A call runs the postVerify hooks at most once.
THEOREM ShipPostVerifyOnce == Spec => []PostVerifyOnce
<1>1. Init => Counted /\ PostVerifyOnce
  <2>1. Init => posts <= 1
    BY DEF Init
  <2> QED
    BY <2>1, InitSound DEF PostVerifyOnce
<1>2. Counted /\ PostVerifyOnce /\ [Next]_vars => (Counted /\ PostVerifyOnce)'
  <2> SUFFICES ASSUME Counted, PostVerifyOnce, [Next]_vars PROVE Counted' /\ PostVerifyOnce'
    BY DEF Counted, PostVerifyOnce
  <2>1. CASE StoreVerified
    BY <2>1 DEF StoreVerified, Goto, Counted, PostVerifyOnce
  <2>2. CASE Reenter
    BY <2>2 DEF Reenter, Reenters, Goto, Exit, Counted, PostVerifyOnce
  <2>3. CASE \E o \in Options : Call(o)
    BY <2>3 DEF Call, Counted, PostVerifyOnce
  <2>4. ASSUME UNCHANGED <<ranPost, posts>>,
               pc \in {"idle", "posting", "reentry"} => pc' \in {"idle", "posting", "reentry"}
        PROVE  Counted' /\ PostVerifyOnce'
    BY <2>4 DEF Counted, PostVerifyOnce
  <2>5. CASE Release \/ Crash \/ UNCHANGED vars
    BY <2>4, <2>5 DEF Release, Crash, Exit, Goto, vars, call
  <2>6. CASE \/ Prepare \/ Reattach \/ Approve \/ StartPublish \/ PublishReturns
             \/ StartReconcile \/ ReconcileReturns
    BY <2>4, <2>6 DEF Prepare, Reattach, Approve, StartPublish, PublishReturns, StartReconcile,
       ReconcileReturns
  <2>7. CASE \/ EnterPublished \/ DistributeReturns \/ Verify \/ ClearMarker \/ WriteBaseline
             \/ Validate
    BY <2>4, <2>7 DEF EnterPublished, DistributeReturns, Verify, ClearMarker, WriteBaseline, Validate
  <2>8. CASE PostReturns \/ \E h \in PostHooks : RunHook(h)
    BY <2>4, <2>8 DEF PostReturns, RunHook, Goto
  <2> QED
    BY <2>1, <2>2, <2>3, <2>5, <2>6, <2>7, <2>8 DEF Next, Run
<1> QED
  BY <1>1, <1>2, PTL DEF Spec

(***************************************************************************)
(* The refinement of ReleaseLedger                                         *)
(***************************************************************************)
LEMMA StageIs ==
    ASSUME TypeOK, Sound
    PROVE  /\ Stage \in 0 .. 3 /\ Said \in 0 .. Stage
           /\ Stage = 3 <=> record
           /\ Stage = 0 <=> pub = "none"
           /\ Stage \in 1 .. 2 => frozen
           /\ Said = 3 <=> file.status = "VERIFIED"
BY DEF TypeOK, Sound, Released, TellsTruth, Stage, Said

\* A step that leaves the release alone writes in the file what is so.
LEMMA TellRefines ==
    ASSUME TypeOK, Sound, TypeOK', Sound', [Next]_vars,
           UNCHANGED <<pub, record, frozen, config, head>>
    PROVE  [Ledger!Next]_(Ledger!vars)
<1>1. Stage' = Stage /\ <<config, head>>' = <<config, head>>
  BY DEF Stage
<1>2. Said' \in 0 .. Stage
  <2>1. Said' \in 0 .. Stage'
    BY StageIs DEF Stage, Said, Sound, Released, TellsTruth, TypeOK
  <2> QED
    BY <1>1, <2>1
<1>3. CASE Said = 3
  <2>1. Said' = 3
    BY <1>3, VerifiedKept DEF Said
  <2> QED
    BY <1>1, <1>3, <2>1 DEF Ledger!vars
<1>4. CASE Said # 3
  <2>1. Ledger!Tell
    BY <1>1, <1>2, <1>4 DEF Ledger!Tell
  <2> QED
    BY <2>1 DEF Ledger!Next
<1> QED
  BY <1>3, <1>4

\* A plan is frozen when nothing has been released of it.
LEMMA PrepareRefines ==
    ASSUME TypeOK, Sound, TypeOK', Sound', Prepare
    PROVE  [Ledger!Next]_(Ledger!vars)
<1>1. UNCHANGED <<pub, record, config, head>> /\ pub = "none"
  BY DEF Prepare
<1>2. Stage = 0 /\ Stage' = 0
  BY <1>1, StageIs DEF Stage
<1>3. Said = 0 /\ Said' = 0
  <2>1. Said' \in 0 .. Stage'
    BY StageIs DEF Stage, Said, Sound, Released, TellsTruth, TypeOK
  <2> QED
    BY <1>2, <2>1, StageIs
<1>4. CASE frozen' = TRUE
  <2>1. Ledger!Freeze
    BY <1>1, <1>2, <1>3, <1>4 DEF Ledger!Freeze
  <2> QED
    BY <2>1 DEF Ledger!Next
<1>5. CASE UNCHANGED frozen
  BY <1>1, <1>2, <1>3, <1>5 DEF Ledger!vars
<1> QED
  BY <1>4, <1>5 DEF Prepare

\* The remotes get further, and verify writes its record: only of a frozen plan.
LEMMA MakeRefines ==
    ASSUME TypeOK, Sound, Release \/ (Verify /\ UNCHANGED file)
    PROVE  [Ledger!Next]_(Ledger!vars)
<1>1. UNCHANGED <<file, frozen, config, head>> /\ Said' = Said
  BY DEF Release, Verify, call, Said
<1>2. CASE Stage' = Stage
  BY <1>1, <1>2 DEF Ledger!vars
<1>3. CASE Stage' # Stage
  <2>1. CASE Release
    <3>1. ~record /\ frozen
      BY <2>1 DEF Release, Sound, Released, Placed, FrozenUntilVerified
    <3>2. Stage' \in Stage + 1 .. 3
      BY <1>3, <2>1, <3>1 DEF Release, Stage, TypeOK
    <3>3. Ledger!Make
      BY <1>1, <3>1, <3>2 DEF Ledger!Make
    <3> QED
      BY <3>3 DEF Ledger!Next
  <2>2. CASE Verify
    <3>1. pub = "published" /\ pub' = pub
      BY <2>2 DEF Verify, Sound, Placed
    <3>2. ~record /\ record'
      BY <1>3, <2>2, <3>1 DEF Verify, Stage, TypeOK
    <3>3. frozen
      BY <3>1, <3>2 DEF Sound, Released
    <3>4. Stage = 2 /\ Stage' = 3
      BY <3>1, <3>2 DEF Stage
    <3>5. Ledger!Make
      BY <1>1, <3>3, <3>4 DEF Ledger!Make
    <3> QED
      BY <3>5 DEF Ledger!Next
  <2> QED
    BY <2>1, <2>2
<1> QED
  BY <1>2, <1>3

\* What follows from the verification: the thaw, and the next baseline.
LEMMA FollowRefines ==
    ASSUME TypeOK, Sound, \/ ClearMarker \/ WriteBaseline \/ Validate
                          \/ Crash /\ pc = "baseline"
    PROVE  [Ledger!Next]_(Ledger!vars)
<1>1. record /\ Stage = 3
  BY DEF ClearMarker, WriteBaseline, Validate, Sound, Placed, Stage
<1>2. UNCHANGED <<file, pub, record>> /\ Said' = Said /\ Stage' = Stage
  BY DEF ClearMarker, WriteBaseline, Validate, Crash, Exit, Said, Stage
<1>3. CASE ClearMarker
  <2>1. UNCHANGED <<config, head>>
    BY <1>3 DEF ClearMarker
  <2>2. CASE frozen' = FALSE
    <3>1. Ledger!Thaw
      BY <1>1, <1>2, <2>1, <2>2 DEF Ledger!Thaw
    <3> QED
      BY <3>1 DEF Ledger!Next
  <2>3. CASE UNCHANGED frozen
    BY <1>2, <2>1, <2>3 DEF Ledger!vars
  <2> QED
    BY <1>3, <2>2, <2>3 DEF ClearMarker
<1>4. CASE WriteBaseline \/ Validate \/ Crash
  <2>1. UNCHANGED frozen
    BY <1>4 DEF WriteBaseline, Validate, Crash
  <2>2. CASE <<config, head>>' = <<config, head>>
    BY <1>2, <2>1, <2>2 DEF Ledger!vars
  <2>3. CASE <<config, head>>' # <<config, head>>
    <3>1. Ledger!MoveBaseline
      BY <1>1, <1>2, <2>1, <2>3 DEF Ledger!MoveBaseline
    <3> QED
      BY <3>1 DEF Ledger!Next
  <2> QED
    BY <2>2, <2>3
<1> QED
  BY <1>3, <1>4

LEMMA StepLedger ==
    ASSUME TypeOK, Sound, TypeOK', Sound', [Next]_vars
    PROVE  [Ledger!Next]_(Ledger!vars)
<1> DEFINE Aside == UNCHANGED <<pub, record, frozen, config, head>>
<1>1. CASE Prepare
  BY <1>1, PrepareRefines
<1>2. CASE Release \/ (Verify /\ UNCHANGED file)
  BY <1>2, MakeRefines
<1>3. CASE ClearMarker \/ WriteBaseline \/ Validate \/ (Crash /\ pc = "baseline")
  BY <1>3, FollowRefines
<1>4. CASE Aside
  BY <1>4, TellRefines
<1>5. CASE (\E o \in Options : Call(o)) \/ UNCHANGED vars
  BY <1>4, <1>5 DEF Call, world, vars
<1>6. CASE \/ Reattach \/ Approve \/ StartPublish \/ PublishReturns \/ StartReconcile
           \/ ReconcileReturns
  BY <1>4, <1>6 DEF Reattach, Approve, StartPublish, PublishReturns, StartReconcile, ReconcileReturns, world
<1>7. CASE \/ EnterPublished \/ DistributeReturns \/ StoreVerified \/ PostReturns \/ Reenter
           \/ (Crash /\ pc # "baseline") \/ \E h \in PostHooks : RunHook(h)
  BY <1>4, <1>7 DEF EnterPublished, DistributeReturns, StoreVerified, PostReturns, Reenter, Crash, RunHook,
         world
<1>8. CASE Verify
  <2>1. Aside \/ UNCHANGED file
    BY <1>8 DEF Verify, Exit
  <2> QED
    BY <1>2, <1>4, <1>8, <2>1
<1> QED
  BY <1>1, <1>2, <1>3, <1>4, <1>5, <1>6, <1>7, <1>8 DEF Next, Run

LEMMA InitLedger == Init => Ledger!Init
<1> SUFFICES ASSUME Init PROVE Ledger!Init
  OBVIOUS
<1>1. Stage \in 0 .. 3 /\ frozen = (Stage \in 1 .. 2)
  BY DEF Init, Stage
<1>2. Said = 0
  <2>1. file.status \in {"absent", "NEW"} /\ file.source = "none"
    <3>1. CASE file = NoState
      BY <3>1 DEF NoState
    <3>2. CASE file = [Fresh EXCEPT !.candidate = TRUE]
      BY <3>2 DEF Fresh, NoState
    <3> QED
      BY <3>1, <3>2 DEF Init
  <2> QED
    BY <2>1 DEF Said
<1> QED
  BY <1>1, <1>2 DEF Init, Ledger!Init

\* The calls of ship together, killed anywhere and called again, implement
\* ReleaseLedger: the state file never says more than the release has reached,
\* only a frozen plan is released, and the thaw and the next baseline come after
\* the VERIFIED record.
THEOREM ShipImplementsLedger == Spec => ImplementsLedger
<1>1. TypeOK /\ Sound /\ TypeOK' /\ Sound' /\ [Next]_vars => [Ledger!Next]_(Ledger!vars)
  BY StepLedger
<1> QED
  BY <1>1, InitLedger, SoundHolds, PTL DEF Spec, ImplementsLedger, Ledger!Spec

\* What ReleaseLedger promises holds whenever somebody looks.
THEOREM ShipPromiseHolds == Spec => []Ledger!Promise
<1>1. Ledger!Init => Ledger!Promise
  <2> SUFFICES ASSUME Ledger!Init PROVE Ledger!Promise
    OBVIOUS
  <2>1. Stage \in 1 .. 2 => frozen
    BY Zenon DEF Ledger!Init
  <2>2. Stage \in 0 .. 3 /\ Said \in 0 .. Stage /\ <<config, head>> = <<"old", "old">>
    BY DEF Ledger!Init
  <2> QED
    BY <2>1, <2>2 DEF Ledger!Promise
<1>2. Ledger!Promise /\ [Ledger!Next]_(Ledger!vars) => Ledger!Promise'
  BY DEF Ledger!Promise, Ledger!Next, Ledger!vars, Ledger!Freeze, Ledger!Make, Ledger!Tell,
         Ledger!Thaw, Ledger!MoveBaseline
<1> QED
  BY <1>1, <1>2, ShipImplementsLedger, PTL DEF ImplementsLedger, Ledger!Spec
=============================================================================
