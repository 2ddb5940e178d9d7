---------------------- MODULE ArtifactTransactionSafety ----------------------
(***************************************************************************)
(* The safety of ArtifactTransaction for every value of its constants.     *)
(* The inductive invariant Sound says of each transaction what its record, *)
(* its command and the files can be, given where its process stands.  A    *)
(* step of one transaction leaves the others standing where they are.      *)
(***************************************************************************)
EXTENDS ArtifactTransactionProofs

USE NamesAssumption, PlansAssumption, BoundAssumption

RecoverableIn(t) ==
    t \notin committed =>
        \A x \in wrote[t] :
            /\ journal[t] \in Open \cup {"RECOVERY_REQUIRED"}
            /\ entries[t][x] # "none"
            /\ backup[t][x] = old[t][x]

ToldIn(t) ==
    /\ outcome[t] = "success" => t \in committed
    /\ outcome[t] = "recovery" => journal[t] = "RECOVERY_REQUIRED"
    /\ outcome[t] = "refused" => wrote[t] = {}
    /\ pc[t] \in After \ {"dead"} /\ journal[t] \in Open =>
          outcome[t] \in {"refused", "lock lost", "not persisted"}

\* A late change uses up the last assertion of a lock that is gone for good.
LateIn(t) ==
    late[t] # 0 /\ t \notin Refreshes =>
        /\ late[t] = 1
        /\ lock # t
        /\ pc[t] \notin {"idle", "locking"}
        /\ ~sure[t]

TrueIn(t) ==
    t \notin Refreshes /\ (pc[t] = "committing" \/ t \in committed) =>
        \A x \in Targets : files[x] = New(t, x) \/ x \in since[t]

SoundIn(t) ==
    PlacedIn(t) /\ RecoverableIn(t) /\ ToldIn(t) /\ LateIn(t) /\ TrueIn(t)

Sound == \A t \in Txns : SoundIn(t)

LEMMA InitSound == Init => Sound
  BY DEF Init, Sound, SoundIn, PlacedIn, RecoverableIn, ToldIn, LateIn, TrueIn,
         Before, During, Entry, After, Open

(***************************************************************************)
(* A transaction that does not step                                        *)
(***************************************************************************)
SameProcess(t) ==
    /\ pc'[t] = pc[t]
    /\ outcome'[t] = outcome[t]
    /\ sure'[t] = sure[t]
    /\ at'[t] = at[t]
    /\ old'[t] = old[t]
    /\ wrote'[t] = wrote[t]
    /\ late'[t] = late[t]
    /\ t \in committed' <=> t \in committed
    /\ lock' = t => lock = t

\* Its record is left alone, or pruned when it is committed.
SameRecord(t) ==
    \/ /\ journal'[t] = journal[t]
       /\ entries'[t] = entries[t]
       /\ backup'[t] = backup[t]
    \/ journal[t] = "COMMITTED" /\ journal'[t] = "none"

\* Files that change are noted as changed by others.
Noted(t) ==
    \A x \in Targets :
        /\ x \in since[t] => x \in since'[t]
        /\ files'[x] = files[x] \/ x \in since'[t]

Stands(t) == SameProcess(t) /\ SameRecord(t) /\ Noted(t)

LEMMA StandsSound ==
    ASSUME TypeOK, NEW t \in Txns, SoundIn(t), Stands(t)
    PROVE  SoundIn(t)'
<1> USE DEF SoundIn, Stands
<1>1. PlacedIn(t)'
  BY DEF PlacedIn, SameProcess, SameRecord, Before, During, Entry, After, Open
<1>2. RecoverableIn(t)'
  BY DEF PlacedIn, RecoverableIn, SameProcess, SameRecord
<1>3. ToldIn(t)'
  BY DEF PlacedIn, ToldIn, SameProcess, SameRecord, Open
<1>4. LateIn(t)'
  BY DEF LateIn, SameProcess
<1>5. TrueIn(t)'
  BY DEF TrueIn, SameProcess, Noted, New
<1> QED
  BY <1>1, <1>2, <1>3, <1>4, <1>5

LEMMA GotoOther ==
    ASSUME PointTypes, NEW u \in Txns, NEW t \in Txns, u # t, NEW p, Goto(u, p)
    PROVE  pc'[t] = pc[t]
  BY DEF PointTypes, Goto

LEMMA EndsOther ==
    ASSUME PointTypes, NEW u \in Txns, NEW t \in Txns, u # t, NEW how,
           Ends(u, how)
    PROVE  pc'[t] = pc[t] /\ outcome'[t] = outcome[t]
  BY DEF PointTypes, Goto, Ends

LEMMA WritesOther ==
    ASSUME LockTypes, NEW u \in Txns, NEW t \in Txns, u # t, NEW p, Writes(u, p)
    PROVE  sure'[t] = sure[t] /\ lock' = lock
  BY DEF LockTypes, Writes

LEMMA AfterErrorOther ==
    ASSUME PointTypes, NEW u \in Txns, NEW t \in Txns, u # t, AfterError(u)
    PROVE  pc'[t] = pc[t]
  BY DEF PointTypes, Goto, AfterError

LEMMA ChangesOther ==
    ASSUME TypeOK, NEW u \in Txns, NEW t \in Txns, u # t, NEW x \in Targets,
           NEW content, Changes(u, x, content)
    PROVE  Noted(t) /\ late'[t] = late[t]
  BY DEF TypeOK, FileTypes, HistoryTypes, Noted, Changes

LEMMA AdvanceOther ==
    ASSUME TypeOK, NEW u \in Txns, NEW t \in Txns, u # t, NEW point, NEW from,
           NEW to, NEW next, Advance(u, point, from, to, next)
    PROVE  Stands(t)
<1>1. PICK a \in Answers :
          /\ journal' = IF a.done THEN [journal EXCEPT ![u] = to] ELSE journal
          /\ committed' = IF a.done /\ to = "COMMITTED"
                           THEN committed \cup {u} ELSE committed
          /\ Goto(u, IF a.told THEN next ELSE "recovering")
  BY DEF Advance
<1>2. pc'[t] = pc[t]
  BY <1>1, GotoOther DEF TypeOK
<1>3. sure'[t] = sure[t] /\ lock' = lock
  BY WritesOther DEF TypeOK, Advance
<1>4. SameProcess(t)
  BY <1>1, <1>2, <1>3 DEF SameProcess, Advance, memory
<1>5. SameRecord(t)
  BY <1>1 DEF SameRecord, Advance, TypeOK, RecordTypes
<1>6. Noted(t)
  BY DEF Noted, Advance
<1> QED
  BY <1>4, <1>5, <1>6 DEF Stands

\* A step of u leaves every other transaction standing.
LEMMA OthersStand ==
    ASSUME TypeOK, Placed, NEW u \in Txns, NEW t \in Txns, u # t,
           Begin(u) \/ Step(u) \/ Crash(u)
    PROVE  Stands(t)
<1> USE DEF TypeOK
<1>1. CASE Begin(u)
  <2>1. pc'[t] = pc[t]
    BY <1>1, GotoOther DEF Begin
  <2>2. old'[t] = old[t]
    BY <1>1 DEF Begin, MemoryTypes
  <2> QED
    BY <1>1, <2>1, <2>2
       DEF Begin, Stands, SameProcess, SameRecord, Noted, record, history
<1>2. CASE Acquire(u) \/ Preflight(u) \/ Compare(u) \/ Recheck(u)
           \/ FindLocked(u) \/ Leave(u)
  <2>1. pc'[t] = pc[t] /\ outcome'[t] = outcome[t]
    BY <1>2, GotoOther, EndsOther
       DEF Acquire, Preflight, Compare, Recheck, FindLocked, Leave, PointTypes
  <2>2. lock' = t => lock = t
    BY <1>2 DEF Acquire, Preflight, Compare, Recheck, FindLocked, Leave
  <2>3. UNCHANGED <<files, sure>> /\ UNCHANGED memory /\ UNCHANGED record
        /\ UNCHANGED history
    BY <1>2 DEF Acquire, Preflight, Compare, Recheck, FindLocked, Leave
  <2> QED
    BY <2>1, <2>2, <2>3
       DEF Stands, SameProcess, SameRecord, Noted, memory, record, history
<1>3. CASE AssertOwner(u)
  <2>1. pc'[t] = pc[t] /\ outcome'[t] = outcome[t]
    BY <1>3, EndsOther DEF AssertOwner
  <2>2. sure'[t] = sure[t]
    BY <1>3 DEF AssertOwner, LockTypes
  <2> QED
    BY <1>3, <2>1, <2>2
       DEF AssertOwner, Stands, SameProcess, SameRecord, Noted, memory, record,
           history
<1>4. CASE Create(u)
  <2>1. PICK gone \in SUBSET Prunable, a \in Answers :
          /\ journal' = [v \in Txns |->
                IF v = u THEN IF a.done THEN "PREPARED" ELSE "none"
                ELSE IF v \in gone THEN "none" ELSE journal[v]]
          /\ entries' = [v \in Txns |->
                IF v \in gone THEN [x \in Targets |-> "none"] ELSE entries[v]]
          /\ backup' = [v \in Txns |->
                IF v \in gone THEN [x \in Targets |-> NoOne] ELSE backup[v]]
          /\ IF a.told THEN Goto(u, "starting") /\ UNCHANGED outcome
                       ELSE Ends(u, "refused")
    BY <1>4 DEF Create
  <2>2. pc'[t] = pc[t] /\ outcome'[t] = outcome[t]
    BY <2>1, GotoOther, EndsOther
  <2>3. t \in gone => journal[t] = "COMMITTED"
    BY <2>1 DEF Prunable, Terminal
  <2>4. SameRecord(t)
    BY <2>1, <2>3 DEF SameRecord
  <2>5. sure'[t] = sure[t] /\ lock' = lock
    BY <1>4, WritesOther DEF Create
  <2> QED
    BY <1>4, <2>2, <2>4, <2>5 DEF Create, Stands, SameProcess, Noted, history
<1>5. CASE Start(u) \/ Applied(u) \/ Verifying(u) \/ Commit(u)
  BY <1>5, AdvanceOther DEF Start, Applied, Verifying, Commit
<1>6. CASE MarkPending(u)
  <2>1. PICK x \in todo[u], a \in Answers :
          /\ at' = [at EXCEPT ![u] = x]
          /\ entries' = IF a.done THEN [entries EXCEPT ![u][x] = "pending"]
                                  ELSE entries
          /\ Goto(u, IF a.told THEN "comparing" ELSE "recovering")
    BY <1>6 DEF MarkPending
  <2>2. pc'[t] = pc[t] /\ at'[t] = at[t] /\ entries'[t] = entries[t]
    BY <2>1, GotoOther DEF MemoryTypes, RecordTypes
  <2>3. sure'[t] = sure[t] /\ lock' = lock
    BY <1>6, WritesOther DEF MarkPending
  <2> QED
    BY <1>6, <2>2, <2>3
       DEF MarkPending, Stands, SameProcess, SameRecord, Noted, history
<1>7. CASE BackUp(u)
  <2>1. pc'[t] = pc[t]
    BY <1>7, GotoOther DEF BackUp
  <2>2. backup'[t] = backup[t]
    BY <1>7 DEF BackUp, RecordTypes
  <2>3. sure'[t] = sure[t] /\ lock' = lock
    BY <1>7, WritesOther DEF BackUp
  <2> QED
    BY <1>7, <2>1, <2>2, <2>3
       DEF BackUp, Stands, SameProcess, SameRecord, Noted, memory, history
<1>8. CASE Mutate(u)
  <2>0. at[u] \in Targets
    BY <1>8 DEF Placed, PlacedIn, Mutate, Writes, Entry
  <2>1. pc'[t] = pc[t]
    BY <1>8, GotoOther DEF Mutate
  <2>2. Noted(t) /\ late'[t] = late[t]
    <3>1. CASE Changes(u, at[u], New(u, at[u]))
      BY <2>0, <3>1, ChangesOther
    <3>2. CASE UNCHANGED <<files, since, late>>
      BY <3>2 DEF Noted
    <3> QED
      BY <1>8, <3>1, <3>2 DEF Mutate
  <2>3. wrote'[t] = wrote[t]
    BY <1>8 DEF Mutate, HistoryTypes
  <2>4. sure'[t] = sure[t] /\ lock' = lock
    BY <1>8, WritesOther DEF Mutate
  <2> QED
    BY <1>8, <2>1, <2>2, <2>3, <2>4
       DEF Mutate, Stands, SameProcess, SameRecord, memory, record
<1>9. CASE RecordApplied(u)
  <2>1. pc'[t] = pc[t]
    BY <1>9, GotoOther DEF RecordApplied
  <2>2. entries'[t] = entries[t]
    BY <1>9 DEF RecordApplied, RecordTypes
  <2>3. sure'[t] = sure[t] /\ lock' = lock
    BY <1>9, WritesOther DEF RecordApplied
  <2> QED
    BY <1>9, <2>1, <2>2, <2>3
       DEF RecordApplied, Stands, SameProcess, SameRecord, Noted, memory,
           history
<1>10. CASE Verify(u)
  <2>1. pc'[t] = pc[t]
    BY <1>10, GotoOther DEF Verify
  <2>2. since'[t] = since[t]
    BY <1>10 DEF Verify, HistoryTypes
  <2> QED
    BY <1>10, <2>1, <2>2
       DEF Verify, Stands, SameProcess, SameRecord, Noted, memory, record
<1>11. CASE Converge(u)
  <2>1. pc'[t] = pc[t] /\ outcome'[t] = outcome[t]
    BY <1>11, GotoOther, AfterErrorOther DEF Converge, PointTypes
  <2>2. sure'[t] = sure[t] /\ lock' = lock
    BY <1>11, WritesOther DEF Converge
  <2> QED
    BY <1>11, <2>1, <2>2
       DEF Converge, Stands, SameProcess, SameRecord, Noted, history
<1>12. CASE Clean(u)
  <2>1. pc'[t] = pc[t] /\ outcome'[t] = outcome[t]
    BY <1>12, GotoOther, EndsOther, AfterErrorOther DEF Clean, PointTypes
  <2>2. backup'[t] = backup[t]
    BY <1>12 DEF Clean, RecordTypes
  <2> QED
    BY <1>12, <2>1, <2>2
       DEF Clean, Stands, SameProcess, SameRecord, Noted, history
<1>13. CASE Recover(u)
  <2>1. pc'[t] = pc[t] /\ outcome'[t] = outcome[t]
    BY <1>13, GotoOther DEF Recover, PointTypes
  <2>2. journal'[t] = journal[t]
    BY <1>13 DEF Recover, RecordTypes
  <2> QED
    BY <1>13, <2>1, <2>2
       DEF Recover, Stands, SameProcess, SameRecord, Noted, history
<1>14. CASE Tell(u)
  <2>1. pc'[t] = pc[t]
    BY <1>14, AfterErrorOther DEF Tell
  <2> QED
    BY <1>14, <2>1 DEF Tell, Stands, SameProcess, SameRecord, Noted, history
<1>15. CASE Restore(u)
  <2>1. PICK x \in todo[u] :
          \/ UNCHANGED <<files, since, late>>
          \/ Changes(u, x, old[u][x])
    BY <1>15 DEF Restore
  <2>2. x \in Targets
    BY <2>1 DEF MemoryTypes
  <2>3. Noted(t) /\ late'[t] = late[t]
    <3>1. CASE UNCHANGED <<files, since, late>>
      BY <3>1 DEF Noted
    <3>2. CASE Changes(u, x, old[u][x])
      BY <2>2, <3>2, ChangesOther
    <3> QED
      BY <2>1, <3>1, <3>2
  <2>4. pc'[t] = pc[t]
    BY <1>15, GotoOther DEF Restore
  <2> QED
    BY <1>15, <2>3, <2>4
       DEF Restore, Stands, SameProcess, SameRecord, record
<1>16. CASE Crash(u)
  <2>1. pc'[t] = pc[t]
    BY <1>16, GotoOther DEF Crash
  <2> QED
    BY <1>16, <2>1
       DEF Crash, Stands, SameProcess, SameRecord, Noted, memory, record,
           history
<1> QED
  BY <1>1, <1>2, <1>3, <1>4, <1>5, <1>6, <1>7, <1>8, <1>9, <1>10, <1>11,
     <1>12, <1>13, <1>14, <1>15, <1>16 DEF Step

\* Edits and broken locks leave every transaction standing.
LEMMA WorldStands ==
    ASSUME TypeOK, NEW t \in Txns,
           BreakLock \/ (\E x \in Targets : Edit(x)) \/ UNCHANGED vars
    PROVE  Stands(t)
<1>1. CASE BreakLock
  BY <1>1 DEF BreakLock, Stands, SameProcess, SameRecord, Noted, memory, record,
              history
<1>2. ASSUME NEW x \in Targets, Edit(x) PROVE Stands(t)
  <2>1. Noted(t)
    BY <1>2 DEF Edit, Noted, TypeOK, FileTypes, HistoryTypes
  <2> QED
    BY <1>2, <2>1 DEF Edit, Stands, SameProcess, SameRecord, memory, record
<1>3. CASE UNCHANGED vars
  BY <1>3 DEF vars, Stands, SameProcess, SameRecord, Noted, memory, record,
              history
<1> QED
  BY <1>1, <1>2, <1>3

(***************************************************************************)
(* The transaction that steps                                              *)
(***************************************************************************)
LEMMA GotoAt ==
    ASSUME PointTypes, NEW t \in Txns, NEW p, Goto(t, p)
    PROVE  pc'[t] = p
  BY DEF PointTypes, Goto

LEMMA EndsAt ==
    ASSUME PointTypes, NEW t \in Txns, NEW how, Ends(t, how)
    PROVE  pc'[t] = "leaving" /\ outcome'[t] = how
  BY DEF PointTypes, Goto, Ends

LEMMA WritesAt ==
    ASSUME LockTypes, NEW t \in Txns, NEW p, Writes(t, p)
    PROVE  pc[t] = p /\ sure[t] /\ ~sure'[t] /\ lock' = lock
<1>1. sure' = [sure EXCEPT ![t] = FALSE]
  BY DEF Writes
<1>2. sure'[t] = FALSE
  BY <1>1 DEF LockTypes
<1> QED
  BY <1>2 DEF Writes

LEMMA AfterErrorAt ==
    ASSUME PointTypes, NEW t \in Txns, AfterError(t)
    PROVE  \/ pc'[t] = "restoring" /\ t \in Refreshes
           \/ pc'[t] = "leaving"
  BY DEF PointTypes, Goto, AfterError

LEMMA ChangesAt ==
    ASSUME TypeOK, NEW t \in Txns, NEW x \in Targets, NEW content,
           Changes(t, x, content)
    PROVE  late'[t] = IF lock = t THEN late[t] ELSE late[t] + 1
  BY DEF TypeOK, HistoryTypes, Changes

\* What the moves of the journal's state have in common.
LEMMA AdvanceAt ==
    ASSUME TypeOK, NEW t \in Txns, NEW point, NEW from, NEW to \in Open,
           NEW next, Advance(t, point, from, to, next)
    PROVE  /\ pc[t] = point /\ pc'[t] \in {next, "recovering"}
           /\ journal[t] = from /\ journal'[t] \in {from, to}
           /\ committed' = committed /\ lock' = lock
           /\ sure[t] /\ ~sure'[t]
<1>1. PICK a \in Answers :
          /\ journal' = IF a.done THEN [journal EXCEPT ![t] = to] ELSE journal
          /\ committed' = IF a.done /\ to = "COMMITTED"
                           THEN committed \cup {t} ELSE committed
          /\ Goto(t, IF a.told THEN next ELSE "recovering")
  BY DEF Advance
<1>2. pc'[t] \in {next, "recovering"}
  BY <1>1, GotoAt DEF TypeOK
<1>3. journal'[t] \in {journal[t], to}
  BY <1>1 DEF TypeOK, RecordTypes
<1>4. committed' = committed
  BY <1>1 DEF Open
<1> QED
  BY <1>2, <1>3, <1>4, WritesAt DEF Advance, TypeOK

\* The moves before the commit.
LEMMA AdvanceSound ==
    ASSUME TypeOK, NEW t \in Txns, SoundIn(t), NEW point \in During,
           NEW from, NEW to \in Open,
           NEW next \in {"marking", "verifying", "checking"},
           Advance(t, point, from, to, next)
    PROVE  SoundIn(t)'
<1> USE DEF SoundIn
<1>1. /\ pc[t] = point /\ pc'[t] \in {next, "recovering"}
      /\ journal[t] = from /\ journal'[t] \in {from, to}
      /\ committed' = committed /\ lock' = lock
      /\ sure[t] /\ ~sure'[t]
  BY AdvanceAt
<1>2. UNCHANGED <<files, at, old, outcome, entries, backup, wrote, since, late>>
  BY DEF Advance, memory
<1>3. journal[t] \in Open /\ t \notin committed /\ outcome[t] = "none"
  BY <1>1 DEF PlacedIn, During, After
<1>4. PlacedIn(t)'
  BY <1>1, <1>2, <1>3 DEF PlacedIn, Before, During, Entry, After, Open
<1>5. RecoverableIn(t)'
  BY <1>1, <1>2, <1>3 DEF RecoverableIn
<1>6. ToldIn(t)'
  BY <1>1, <1>2, <1>3 DEF ToldIn, After
<1>7. LateIn(t)'
  BY <1>1, <1>2 DEF LateIn
<1>8. TrueIn(t)'
  BY <1>1, <1>2, <1>3 DEF TrueIn
<1> QED
  BY <1>4, <1>5, <1>6, <1>7, <1>8

\* A step of t keeps what is sound of t.
LEMMA OwnSound ==
    ASSUME TypeOK, NEW t \in Txns, SoundIn(t),
           Begin(t) \/ Step(t) \/ Crash(t)
    PROVE  SoundIn(t)'
<1> USE DEF TypeOK, SoundIn
<1> DEFINE Same == UNCHANGED <<lock, journal, entries, backup, wrote, late>>
                   /\ committed' = committed
<1>1. CASE Begin(t)
  <2>1. /\ pc[t] = "idle" /\ pc'[t] = "locking" /\ sure' = sure
        /\ outcome' = outcome /\ Same /\ UNCHANGED <<files, since>>
    BY <1>1, GotoAt DEF Begin, record, history
  <2> HIDE DEF SoundIn
  <2> QED
    BY <2>1 DEF SoundIn, PlacedIn, RecoverableIn, ToldIn, LateIn, TrueIn,
                Before, During, Entry, After, Open
<1>2. CASE Acquire(t) \/ FindLocked(t) \/ Preflight(t)
  <2>1. /\ pc[t] \in {"locking", "preflight"}
        /\ \/ /\ pc'[t] \in {"preflight", "creating"} /\ outcome' = outcome
              /\ pc[t] = "locking" \/ lock' = lock
           \/ /\ pc'[t] \in {"leaving", "ended"}
              /\ outcome'[t] \in {"locked", "refused"} /\ lock' = lock
        /\ sure' = sure /\ UNCHANGED <<files, since, journal, entries, backup>>
        /\ UNCHANGED <<wrote, late, committed>>
    BY <1>2, GotoAt, EndsAt DEF Acquire, FindLocked, Preflight, record, history,
                                PointTypes
  <2> QED
    BY <2>1 DEF PlacedIn, RecoverableIn, ToldIn, LateIn, TrueIn,
                Before, During, Entry, After, Open
<1>3. CASE AssertOwner(t)
  <2>1. /\ pc[t] \in Guarded
        /\ \/ lock = t /\ UNCHANGED <<pc, outcome>>
           \/ /\ sure' = sure /\ pc'[t] = "leaving"
              /\ outcome'[t] = "lock lost"
        /\ Same /\ UNCHANGED <<files, since, at, old>>
    BY <1>3, EndsAt DEF AssertOwner, record, history, memory
  <2> QED
    BY <2>1 DEF PlacedIn, RecoverableIn, ToldIn, LateIn, TrueIn,
                Before, During, Entry, After, Open, Guarded
<1>4. CASE Create(t)
  <2>1. PICK gone \in SUBSET Prunable, a \in Answers :
          /\ journal' = [u \in Txns |->
                IF u = t THEN IF a.done THEN "PREPARED" ELSE "none"
                ELSE IF u \in gone THEN "none" ELSE journal[u]]
          /\ IF a.told THEN Goto(t, "starting") /\ UNCHANGED outcome
                       ELSE Ends(t, "refused")
    BY <1>4 DEF Create
  <2>2. journal'[t] = IF a.done THEN "PREPARED" ELSE "none"
    BY <2>1
  <2>3. /\ pc[t] = "creating" /\ ~sure'[t] /\ sure[t] /\ lock' = lock
        /\ UNCHANGED <<files, wrote, since, late, committed>>
    BY <1>4, WritesAt DEF Create, history
  <2>4. \/ a.told /\ pc'[t] = "starting" /\ outcome' = outcome
        \/ pc'[t] = "leaving" /\ outcome'[t] = "refused"
    BY <2>1, GotoAt, EndsAt
  <2>5. a.told => a.done
    BY DEF Answers
  <2> QED
    BY <2>2, <2>3, <2>4, <2>5
       DEF PlacedIn, RecoverableIn, ToldIn, LateIn, TrueIn,
           Before, During, Entry, After, Open
<1>5. CASE Start(t)
  BY <1>5, AdvanceSound DEF Start, During, Open
<1>6. CASE Applied(t)
  BY <1>6, AdvanceSound DEF Applied, During, Open
<1>7. CASE Verifying(t)
  BY <1>7, AdvanceSound DEF Verifying, During, Open
<1>8. CASE MarkPending(t)
  <2>1. PICK x \in todo[t], a \in Answers :
          /\ at' = [at EXCEPT ![t] = x]
          /\ entries' = IF a.done THEN [entries EXCEPT ![t][x] = "pending"]
                                  ELSE entries
          /\ Goto(t, IF a.told THEN "comparing" ELSE "recovering")
    BY <1>8 DEF MarkPending
  <2>2. x \in Targets /\ (a.told => a.done)
    BY <2>1 DEF MemoryTypes, Answers
  <2>3. /\ at'[t] = x
        /\ \A y \in Targets : entries[t][y] # "none" => entries'[t][y] # "none"
        /\ a.told => entries'[t][x] # "none"
    BY <2>1, <2>2 DEF MemoryTypes, RecordTypes
  <2>4. \/ a.told /\ pc'[t] = "comparing"
        \/ pc'[t] = "recovering"
    BY <2>1, GotoAt
  <2>5. /\ pc[t] = "marking" /\ ~sure'[t] /\ sure[t] /\ lock' = lock
        /\ UNCHANGED <<files, old, outcome, journal, backup>>
        /\ UNCHANGED <<wrote, since, late, committed>>
    BY <1>8, WritesAt DEF MarkPending, history
  <2>6. wrote[t] \subseteq Targets
    BY DEF HistoryTypes
  <2> QED
    BY <2>2, <2>3, <2>4, <2>5, <2>6
       DEF PlacedIn, RecoverableIn, ToldIn, LateIn, TrueIn,
           Before, During, Entry, After, Open
<1>9. CASE Compare(t)
  <2>1. /\ pc[t] = "comparing" /\ pc'[t] \in {"backing", "recovering"}
        /\ Same /\ UNCHANGED <<files, since, sure, outcome, at, old>>
    BY <1>9, GotoAt DEF Compare, record, history, memory
  <2> QED
    BY <2>1 DEF PlacedIn, RecoverableIn, ToldIn, LateIn, TrueIn,
                Before, During, Entry, After, Open
<1>10. CASE BackUp(t)
  <2>1. PICK a \in Answers :
          /\ backup' = IF a.done
                       THEN [backup EXCEPT ![t][at[t]] = old[t][at[t]]]
                       ELSE backup
          /\ Goto(t, IF a.told THEN "mutating" ELSE "recovering")
    BY <1>10 DEF BackUp
  <2>2. /\ pc[t] = "backing" /\ ~sure'[t] /\ sure[t] /\ lock' = lock
        /\ UNCHANGED <<files, at, old, outcome, journal, entries>>
        /\ UNCHANGED <<wrote, since, late, committed>>
    BY <1>10, WritesAt DEF BackUp, history, memory
  <2>3. at[t] \in Targets
    BY <2>2 DEF PlacedIn, Entry
  <2>4. /\ a.done => backup'[t][at[t]] = old[t][at[t]]
        /\ \A y \in Targets : backup'[t][y] = backup[t][y]
                              \/ (y = at[t] /\ backup'[t][y] = old[t][y])
    <3>1. CASE a.done
      <4>1. backup' = [backup EXCEPT ![t][at[t]] = old[t][at[t]]]
        BY <2>1, <3>1
      <4> QED
        BY <2>3, <4>1 DEF RecordTypes
    <3>2. CASE ~a.done
      BY <2>1, <3>2
    <3> QED
      BY <3>1, <3>2
  <2>5. \/ a.done /\ pc'[t] = "mutating"
        \/ pc'[t] = "recovering"
    BY <2>1, GotoAt DEF Answers
  <2>6. wrote[t] \subseteq Targets
    BY DEF HistoryTypes
  <2> QED
    BY <2>2, <2>3, <2>4, <2>5, <2>6
       DEF PlacedIn, RecoverableIn, ToldIn, LateIn, TrueIn,
           Before, During, Entry, After, Open
<1>11. CASE Mutate(t)
  <2>1. /\ pc[t] = "mutating" /\ ~sure'[t] /\ sure[t] /\ lock' = lock
        /\ UNCHANGED <<at, old, outcome, journal, entries, backup, committed>>
    BY <1>11, WritesAt DEF Mutate, memory, record
  <2>2. pc'[t] \in {"recording", "recovering"}
    BY <1>11, GotoAt DEF Mutate
  <2>3. at[t] \in Targets
    BY <2>1 DEF PlacedIn, Entry
  <2>4. wrote'[t] \subseteq wrote[t] \cup {at[t]}
    BY <1>11 DEF Mutate, HistoryTypes
  <2>5. late'[t] = late[t] \/ (lock # t /\ late'[t] = late[t] + 1)
    <3>1. CASE Changes(t, at[t], New(t, at[t]))
      BY <2>3, <3>1, ChangesAt
    <3>2. CASE UNCHANGED late
      BY <3>2
    <3> QED
      BY <1>11, <3>1, <3>2 DEF Mutate
  <2>6. late[t] \in Nat
    BY DEF HistoryTypes
  <2>7. PlacedIn(t)'
    BY <2>1, <2>2 DEF PlacedIn, Before, During, Entry, After, Open
  <2>8. RecoverableIn(t)'
    BY <2>1, <2>4 DEF PlacedIn, RecoverableIn, During, Entry
  <2>9. ToldIn(t)'
    BY <2>1, <2>2 DEF PlacedIn, ToldIn, After
  <2>10. LateIn(t)'
    BY <2>1, <2>2, <2>5, <2>6 DEF LateIn
  <2>11. TrueIn(t)'
    BY <2>1, <2>2 DEF TrueIn, PlacedIn, During
  <2> QED
    BY <2>7, <2>8, <2>9, <2>10, <2>11
<1>12. CASE RecordApplied(t)
  <2>1. PICK a \in Answers :
          /\ entries' = IF a.done THEN [entries EXCEPT ![t][at[t]] = "applied"]
                                  ELSE entries
          /\ Goto(t, IF ~a.told THEN "recovering"
                     ELSE IF todo[t] = {} THEN "applied" ELSE "marking")
    BY <1>12 DEF RecordApplied
  <2>2. /\ pc[t] = "recording" /\ ~sure'[t] /\ sure[t] /\ lock' = lock
        /\ UNCHANGED <<files, at, old, outcome, journal, backup>>
        /\ UNCHANGED <<wrote, since, late, committed>>
    BY <1>12, WritesAt DEF RecordApplied, history, memory
  <2>3. \A y \in Targets : entries[t][y] # "none" => entries'[t][y] # "none"
    BY <2>1 DEF RecordTypes
  <2>4. pc'[t] \in {"recovering", "applied", "marking"}
    BY <2>1, GotoAt
  <2>5. wrote[t] \subseteq Targets
    BY DEF HistoryTypes
  <2> QED
    BY <2>2, <2>3, <2>4, <2>5
       DEF PlacedIn, RecoverableIn, ToldIn, LateIn, TrueIn,
           Before, During, Entry, After, Open
<1>13. CASE Verify(t)
  <2>1. /\ pc[t] = "checking"
        /\ \/ pc'[t] = "committing" /\ AllNew(t)
           \/ pc'[t] = "recovering"
        /\ Same /\ UNCHANGED <<files, sure, outcome, at, old>>
    BY <1>13, GotoAt DEF Verify, memory, record
  <2>2. t \notin committed
    BY <2>1 DEF PlacedIn, During
  <2>3. PlacedIn(t)'
    BY <2>1 DEF PlacedIn, Before, During, Entry, After, Open
  <2>4. RecoverableIn(t)' /\ ToldIn(t)'
    BY <2>1 DEF PlacedIn, RecoverableIn, ToldIn, After, During
  <2>5. LateIn(t)'
    BY <2>1 DEF LateIn
  <2>6. TrueIn(t)'
    BY <2>1, <2>2 DEF TrueIn, AllNew, New
  <2> QED
    BY <2>3, <2>4, <2>5, <2>6
<1>14. CASE Commit(t)
  <2>1. PICK a \in Answers :
          /\ journal' = IF a.done THEN [journal EXCEPT ![t] = "COMMITTED"]
                                  ELSE journal
          /\ committed' = IF a.done THEN committed \cup {t} ELSE committed
          /\ Goto(t, IF a.told THEN "converging" ELSE "recovering")
    BY <1>14 DEF Commit, Advance
  <2>2. /\ pc[t] = "committing" /\ ~sure'[t] /\ sure[t] /\ lock' = lock
        /\ UNCHANGED <<files, at, old, outcome, entries, backup>>
        /\ UNCHANGED <<wrote, since, late>>
    BY <1>14, WritesAt DEF Commit, Advance, memory
  <2>3. pc'[t] \in {"converging", "recovering"}
    BY <2>1, GotoAt
  <2>4. \/ journal'[t] = "COMMITTED" /\ t \in committed'
        \/ journal'[t] = journal[t] /\ committed' = committed
    BY <2>1 DEF RecordTypes
  <2> QED
    BY <2>2, <2>3, <2>4
       DEF PlacedIn, RecoverableIn, ToldIn, LateIn, TrueIn, New,
           Before, During, Entry, After, Open
<1>15. CASE Converge(t)
  <2>1. /\ pc[t] = "converging" /\ ~sure'[t] /\ sure[t] /\ lock' = lock
        /\ UNCHANGED <<files, at, old, journal, entries, backup>>
        /\ UNCHANGED <<wrote, since, late, committed>>
    BY <1>15, WritesAt DEF Converge, history
  <2>2. \/ journal[t] = "COMMITTED" /\ pc'[t] = "cleaning" /\ outcome' = outcome
        \/ /\ journal[t] = "COMMITTED"
           /\ pc'[t] = "leaving" \/ (pc'[t] = "restoring" /\ t \in Refreshes)
           /\ outcome'[t] = "not converged"
        \/ pc'[t] = "recovering" /\ outcome' = outcome
    <3>1. outcome' = [outcome EXCEPT ![t] = "not converged"] =>
             outcome'[t] = "not converged"
      BY DEF PointTypes
    <3>2. AfterError(t) => pc'[t] = "leaving"
                           \/ (pc'[t] = "restoring" /\ t \in Refreshes)
      BY AfterErrorAt
    <3>3. /\ Goto(t, "cleaning") => pc'[t] = "cleaning"
          /\ Goto(t, "recovering") => pc'[t] = "recovering"
      BY GotoAt
    <3> QED
      BY <1>15, <3>1, <3>2, <3>3 DEF Converge
  <2> QED
    BY <2>1, <2>2 DEF PlacedIn, RecoverableIn, ToldIn, LateIn, TrueIn, New,
                      Before, During, Entry, After, Open
<1>16. CASE Clean(t)
  <2>1. /\ pc[t] = "cleaning"
        /\ UNCHANGED <<files, lock, sure, at, old, journal, entries>>
        /\ UNCHANGED <<wrote, since, late, committed>>
    BY <1>16 DEF Clean, history
  <2>2. \/ pc'[t] = "rechecking" /\ outcome' = outcome
        \/ /\ pc'[t] = "leaving" \/ (pc'[t] = "restoring" /\ t \in Refreshes)
           /\ outcome'[t] \in {"not converged", "success"}
    <3>1. outcome' = [outcome EXCEPT ![t] = "not converged"] =>
             outcome'[t] = "not converged"
      BY DEF PointTypes
    <3>2. AfterError(t) => pc'[t] = "leaving"
                           \/ (pc'[t] = "restoring" /\ t \in Refreshes)
      BY AfterErrorAt
    <3>3. /\ Goto(t, "rechecking") => pc'[t] = "rechecking"
          /\ Ends(t, "success") => /\ pc'[t] = "leaving"
                                   /\ outcome'[t] = "success"
      BY GotoAt, EndsAt
    <3> QED
      BY <1>16, <3>1, <3>2, <3>3 DEF Clean
  <2>3. t \in committed /\ journal[t] \notin Open
    BY <2>1 DEF PlacedIn
  <2> QED
    BY <2>1, <2>2, <2>3
       DEF PlacedIn, RecoverableIn, ToldIn, LateIn, TrueIn, New,
           Before, During, Entry, After, Open
<1>17. CASE Recheck(t)
  <2>1. /\ pc[t] = "rechecking" /\ pc'[t] = "leaving"
        /\ outcome'[t] \in {"success", "not clean"}
        /\ Same /\ UNCHANGED <<files, since, sure, at, old>>
    BY <1>17, EndsAt DEF Recheck, record, history, memory
  <2> QED
    BY <2>1 DEF PlacedIn, RecoverableIn, ToldIn, LateIn, TrueIn, New,
                Before, During, Entry, After, Open
<1>18. CASE Recover(t)
  <2>1. /\ pc[t] = "recovering" /\ pc'[t] = "telling"
        /\ UNCHANGED <<files, lock, sure, at, old, entries, backup>>
        /\ UNCHANGED <<wrote, since, late, committed>>
    BY <1>18, GotoAt DEF Recover, history
  <2>2. \/ /\ journal[t] \in Open
           /\ \/ /\ journal'[t] = "RECOVERY_REQUIRED"
                 /\ outcome'[t] \in {"recovery", "not persisted"}
              \/ journal'[t] = journal[t] /\ outcome'[t] = "not persisted"
        \/ /\ journal[t] \notin Open /\ journal'[t] = journal[t]
           /\ outcome'[t] = "not persisted"
    <3>1. \A how : outcome' = [outcome EXCEPT ![t] = how]
                       => outcome'[t] = how
      BY DEF PointTypes
    <3>2. CASE journal[t] \in Open
      <4>1. PICK a \in Answers :
              /\ journal' = IF a.done
                            THEN [journal EXCEPT ![t] = "RECOVERY_REQUIRED"]
                            ELSE journal
              /\ outcome' = [outcome EXCEPT ![t] =
                     IF a.told THEN "recovery" ELSE "not persisted"]
        BY <1>18, <3>2 DEF Recover
      <4>2. journal'[t] = IF a.done THEN "RECOVERY_REQUIRED" ELSE journal[t]
        BY <4>1 DEF RecordTypes
      <4>3. a.told => a.done
        BY DEF Answers
      <4> QED
        BY <3>1, <3>2, <4>1, <4>2, <4>3
    <3>3. CASE journal[t] \notin Open
      BY <1>18, <3>1, <3>3 DEF Recover
    <3> QED
      BY <3>2, <3>3
  <2> QED
    BY <2>1, <2>2 DEF PlacedIn, RecoverableIn, ToldIn, LateIn, TrueIn, New,
                      Before, During, Entry, After, Open
<1>19. CASE Tell(t)
  <2>1. /\ pc[t] = "telling"
        /\ pc'[t] = "leaving" \/ (pc'[t] = "restoring" /\ t \in Refreshes)
        /\ UNCHANGED <<files, lock, sure, at, old, outcome, journal, entries>>
        /\ UNCHANGED <<backup, wrote, since, late, committed>>
    <3>1. pc'[t] = "leaving" \/ (pc'[t] = "restoring" /\ t \in Refreshes)
      BY <1>19, AfterErrorAt DEF Tell
    <3> QED
      BY <1>19, <3>1 DEF Tell, history
  <2> QED
    BY <2>1 DEF PlacedIn, RecoverableIn, ToldIn, LateIn, TrueIn, New,
                Before, During, Entry, After, Open
<1>20. CASE Restore(t)
  <2>1. /\ pc[t] = "restoring" /\ pc'[t] \in {"restoring", "leaving"}
        /\ UNCHANGED <<lock, sure, at, old, outcome, journal, entries, backup>>
        /\ UNCHANGED <<wrote, committed>>
    BY <1>20, GotoAt DEF Restore, record
  <2>2. t \in Refreshes
    BY <2>1 DEF PlacedIn
  <2> QED
    BY <2>1, <2>2 DEF PlacedIn, RecoverableIn, ToldIn, LateIn, TrueIn,
                      Before, During, Entry, After, Open
<1>21. CASE Leave(t)
  <2>1. /\ pc[t] = "leaving" /\ pc'[t] = "ended"
        /\ UNCHANGED <<files, sure, at, old, journal, entries, backup>>
        /\ UNCHANGED <<wrote, since, late, committed>>
        /\ \/ lock = t /\ lock' = NoOne /\ outcome' = outcome
           \/ lock' = lock /\ outcome'[t] = "lock lost"
    BY <1>21, GotoAt DEF Leave, record, history, memory, PointTypes
  <2> QED
    BY <2>1 DEF PlacedIn, RecoverableIn, ToldIn, LateIn, TrueIn, New,
                Before, During, Entry, After, Open
<1>22. CASE Crash(t)
  <2>1. /\ pc[t] # "idle" /\ pc'[t] = "dead"
        /\ Same /\ UNCHANGED <<files, since, sure, outcome, at, old>>
    BY <1>22, GotoAt DEF Crash, record, history, memory
  <2> QED
    BY <2>1 DEF PlacedIn, RecoverableIn, ToldIn, LateIn, TrueIn, New,
                Before, During, Entry, After, Open
<1> QED
  BY <1>1, <1>2, <1>3, <1>4, <1>5, <1>6, <1>7, <1>8, <1>9, <1>10, <1>11,
     <1>12, <1>13, <1>14, <1>15, <1>16, <1>17, <1>18, <1>19, <1>20, <1>21,
     <1>22 DEF Step

(***************************************************************************)
(* The theorems                                                            *)
(***************************************************************************)
LEMMA StepSound ==
    ASSUME TypeOK, Sound, [Next]_vars
    PROVE  Sound'
<1> SUFFICES ASSUME NEW t \in Txns PROVE SoundIn(t)'
  BY DEF Sound
<1>1. SoundIn(t) /\ Placed
  BY DEF Sound, SoundIn, Placed
<1>2. ASSUME NEW u \in Txns, Begin(u) \/ Step(u) \/ Crash(u)
      PROVE  SoundIn(t)'
  <2>1. CASE u = t
    BY <1>1, <1>2, <2>1, OwnSound
  <2>2. CASE u # t
    BY <1>1, <1>2, <2>2, OthersStand, StandsSound
  <2> QED
    BY <2>1, <2>2
<1>3. CASE BreakLock \/ (\E x \in Targets : Edit(x)) \/ UNCHANGED vars
  BY <1>1, <1>3, WorldStands, StandsSound
<1> QED
  BY <1>2, <1>3 DEF Next

\* Every value a field, a file or a record can have; a target that the plan
\* removes is absent and nothing else.
THEOREM TransactionTyped == Spec => []TypeOK
<1>1. Init => TypeOK /\ Sound
  BY InitTyped, InitSound
<1>2. TypeOK /\ Sound /\ [Next]_vars => (TypeOK /\ Sound)'
  <2> SUFFICES ASSUME TypeOK, Sound, [Next]_vars PROVE (TypeOK /\ Sound)'
    OBVIOUS
  <2>1. Placed
    BY DEF Sound, SoundIn, Placed
  <2> QED
    BY <2>1, StepTyped, StepSound
<1> QED
  BY <1>1, <1>2, PTL DEF Spec

\* Where a process stands says what its record, its outcome and the files are.
THEOREM TransactionSound == Spec => []Sound
<1>1. Init => Sound
  BY InitSound
<1>2. TypeOK /\ Sound /\ [Next]_vars => Sound'
  BY StepSound
<1> QED
  BY <1>1, <1>2, TransactionTyped, PTL DEF Spec

\* Whatever failed, died, lost its lock or was pruned: each target changed by
\* a transaction that is not committed is named in its journal and backed up
\* with the content the plan knew.
THEOREM TransactionRecoverable == Spec => []Recoverable
<1>1. Sound => Recoverable
  BY DEF Sound, SoundIn, RecoverableIn, Recoverable
<1> QED
  BY <1>1, TransactionSound, PTL

\* The targets of a committed transaction of artifacts apply are as it wrote
\* them, or somebody else changed them after it verified them.
THEOREM TransactionCommittedIsTrue == Spec => []CommittedIsTrue
<1>1. TypeOK /\ Sound => CommittedIsTrue
  BY DEF Sound, SoundIn, TrueIn, CommittedIsTrue, TypeOK, HistoryTypes
<1> QED
  BY <1>1, TransactionSound, TransactionTyped, PTL

\* A transaction of artifacts apply whose lock is broken changes at most the
\* one target it had asserted the lock for.
THEOREM TransactionOneLateChange == Spec => []OneLateChange
<1>1. TypeOK /\ Sound => OneLateChange
  BY DEF Sound, SoundIn, LateIn, OneLateChange, TypeOK, HistoryTypes
<1> QED
  BY <1>1, TransactionSound, TransactionTyped, PTL

\* What a command tells its caller agrees with what is on the disk.
THEOREM TransactionHonest == Spec => []Honest
<1>1. Sound => Honest
  BY DEF Sound, SoundIn, ToldIn, Honest, After
<1> QED
  BY <1>1, TransactionSound, PTL

\* What somebody saved is replaced only by somebody else, or by a transaction
\* whose plan has seen it, removes it or restores what it refreshed.
THEOREM TransactionEditsKept == Spec => EditsKept
<1> DEFINE Kind(x) ==
        \/ edits' = edits + 1
        \/ \E t \in Txns :
              \/ old[t][x] = files[x]
              \/ pc[t] = "mutating" /\ at[t] = x /\ x \in Deletes[t]
              \/ pc[t] = "restoring" /\ x \in todo[t]
<1> DEFINE Fair == \A x \in Targets :
        files[x] \in 1 .. MaxEdits /\ files'[x] # files[x] => Kind(x)
<1>1. TypeOK /\ [Next]_vars => [Fair]_vars
  <2> SUFFICES ASSUME TypeOK, [Next]_vars, NEW x \in Targets,
                      files'[x] # files[x]
               PROVE  Kind(x)
    OBVIOUS
  <2> HIDE DEF Kind
  <2>0. files \in [Targets -> Contents]
    BY DEF TypeOK, FileTypes
  <2>1. ASSUME NEW t \in Txns, Mutate(t) PROVE Kind(x)
    <3>1. /\ pc[t] = "mutating" /\ at[t] = x /\ Replaceable(t, x)
      BY <2>0, <2>1 DEF Mutate, Writes, Changes
    <3> QED
      BY <3>1 DEF Kind, Replaceable
  <2>2. ASSUME NEW t \in Txns, Restore(t) PROVE Kind(x)
    <3>1. pc[t] = "restoring" /\ x \in todo[t]
      BY <2>0, <2>2 DEF Restore, Changes
    <3> QED
      BY <3>1 DEF Kind
  <2>3. ASSUME NEW y \in Targets, Edit(y) PROVE Kind(x)
    BY <2>3 DEF Edit, Kind
  <2>4. ASSUME NEW t \in Txns,
               Begin(t) \/ Crash(t) \/ (Step(t) /\ ~Mutate(t) /\ ~Restore(t))
        PROVE  files' = files
    BY <2>4 DEF Begin, Crash, Step, Acquire, FindLocked, Preflight, AssertOwner,
                Create, Start, Applied, Verifying, Commit, Advance,
                MarkPending, Compare, BackUp, RecordApplied, Verify, Converge,
                Clean, Recheck, Recover, Tell, Leave
  <2>5. BreakLock \/ UNCHANGED vars => files' = files
    BY DEF BreakLock, vars
  <2> QED
    BY <2>1, <2>2, <2>3, <2>4, <2>5 DEF Next, Step
<1>2. [][Fair]_vars <=> EditsKept
  BY DEF EditsKept
<1> HIDE DEF Fair
<1> QED
  BY <1>1, <1>2, TransactionTyped, PTL DEF Spec

(***************************************************************************)
(* Every change stays on record until the commit                           *)
(***************************************************************************)
\* A record is opened empty, and closed by the commit for good; an entry that
\* was visited has been written.
OnRecordIn(t) ==
    /\ t \in committed => journal[t] \in {"COMMITTED", "none"}
    /\ pc[t] \in Before => \A x \in Targets : entries[t][x] = "none"
    /\ pc[t] \in {"starting", "marking", "recording"} =>
          Targets \ todo[t] \subseteq wrote[t]
    /\ pc[t] \in {"comparing", "backing", "mutating"} =>
          Targets \ (todo[t] \cup {at[t]}) \subseteq wrote[t]
    /\ pc[t] \in {"applied", "verifying", "checking", "committing"} =>
          wrote[t] = Targets

OnRecord == \A t \in Txns : OnRecordIn(t)

LEMMA InitOnRecord == Init => OnRecord
  BY DEF Init, OnRecord, OnRecordIn, Before

LEMMA TodoOther ==
    ASSUME TypeOK, NEW u \in Txns, NEW t \in Txns, u # t,
           Begin(u) \/ Step(u) \/ Crash(u)
    PROVE  todo'[t] = todo[t]
<1>0. todo \in [Txns -> SUBSET Targets]
  BY DEF TypeOK, MemoryTypes
<1>1. CASE Begin(u) \/ Crash(u)
  BY <1>1 DEF Begin, Crash, memory
<1>2. CASE Create(u) \/ MarkPending(u) \/ Restore(u)
  BY <1>0, <1>2 DEF Create, MarkPending, Restore
<1>3. CASE Converge(u) \/ Clean(u) \/ Tell(u)
  BY <1>0, <1>3 DEF Converge, Clean, Tell, AfterError
<1>4. CASE Start(u) \/ Applied(u) \/ Verifying(u) \/ Commit(u)
  BY <1>4 DEF Start, Applied, Verifying, Commit, Advance, memory
<1>5. CASE \/ Acquire(u) \/ FindLocked(u) \/ Preflight(u) \/ AssertOwner(u)
           \/ Compare(u) \/ BackUp(u) \/ Mutate(u) \/ RecordApplied(u)
           \/ Verify(u) \/ Recheck(u) \/ Recover(u) \/ Leave(u)
  BY <1>5 DEF Acquire, FindLocked, Preflight, AssertOwner, Compare, BackUp,
              Mutate, RecordApplied, Verify, Recheck, Recover, Leave, memory
<1> QED
  BY <1>1, <1>2, <1>3, <1>4, <1>5 DEF Step

LEMMA StandsOnRecord ==
    ASSUME NEW t \in Txns, SoundIn(t), OnRecordIn(t), Stands(t),
           todo'[t] = todo[t]
    PROVE  OnRecordIn(t)'
  BY DEF OnRecordIn, SoundIn, PlacedIn, Stands, SameProcess, SameRecord, Before

LEMMA OwnOnRecord ==
    ASSUME TypeOK, NEW t \in Txns, SoundIn(t), OnRecordIn(t),
           Begin(t) \/ Step(t) \/ Crash(t)
    PROVE  OnRecordIn(t)'
<1> USE DEF TypeOK, SoundIn
<1>1. CASE Begin(t) \/ Acquire(t) \/ FindLocked(t) \/ Preflight(t)
           \/ AssertOwner(t) \/ Compare(t) \/ Verify(t) \/ Recheck(t)
           \/ Leave(t) \/ Crash(t)
  <2>1. UNCHANGED <<todo, at, wrote, committed, journal, entries>>
    BY <1>1 DEF Begin, Acquire, FindLocked, Preflight, AssertOwner, Compare,
                Verify, Recheck, Leave, Crash, memory, record, history
  <2>2. \/ pc'[t] = pc[t]
        \/ pc[t] \in Before /\ pc'[t] \in Before
        \/ pc[t] = "comparing" /\ pc'[t] = "backing"
        \/ pc[t] = "checking" /\ pc'[t] = "committing"
        \/ pc'[t] \in After \cup {"recovering"}
    <3>1. CASE Begin(t) \/ Acquire(t) \/ FindLocked(t) \/ Preflight(t)
      BY <3>1, GotoAt, EndsAt
         DEF Begin, Acquire, FindLocked, Preflight, Before, After
    <3>2. CASE AssertOwner(t) \/ Recheck(t) \/ Leave(t) \/ Crash(t)
      BY <3>2, GotoAt, EndsAt DEF AssertOwner, Recheck, Leave, Crash, After
    <3>3. CASE Compare(t) \/ Verify(t)
      BY <3>3, GotoAt DEF Compare, Verify
    <3> QED
      BY <1>1, <3>1, <3>2, <3>3
  <2> QED
    BY <2>1, <2>2 DEF OnRecordIn, Before, After
<1>2. CASE Create(t)
  <2>1. t \notin committed /\ UNCHANGED <<wrote, committed>>
    BY <1>2 DEF Create, Writes, PlacedIn, Before, history
  <2>2. todo'[t] = Targets
    BY <1>2 DEF Create, MemoryTypes
  <2>3. pc'[t] \in {"starting", "leaving"}
    BY <1>2, GotoAt, EndsAt DEF Create
  <2> QED
    BY <2>1, <2>2, <2>3 DEF OnRecordIn, Before
<1>3. CASE Start(t) \/ Applied(t) \/ Verifying(t)
  <2>1. /\ pc'[t] = "recovering"
           \/ (pc[t] = "starting" /\ pc'[t] = "marking")
           \/ (pc[t] = "applied" /\ pc'[t] = "verifying")
           \/ (pc[t] = "verifying" /\ pc'[t] = "checking")
        /\ committed' = committed /\ journal[t] \in Open
    <3>0. {"PREPARED", "APPLYING", "APPLIED", "VERIFYING"} \subseteq Open
      BY DEF Open
    <3>1. CASE Start(t)
      BY <3>0, <3>1, AdvanceAt DEF Start
    <3>2. CASE Applied(t)
      BY <3>0, <3>2, AdvanceAt DEF Applied
    <3>3. CASE Verifying(t)
      BY <3>0, <3>3, AdvanceAt DEF Verifying
    <3> QED
      BY <1>3, <3>1, <3>2, <3>3
  <2>2. UNCHANGED <<todo, at, wrote>>
    BY <1>3 DEF Start, Applied, Verifying, Advance, memory
  <2>3. t \notin committed
    BY <2>1 DEF OnRecordIn, Open
  <2> QED
    BY <2>1, <2>2, <2>3 DEF OnRecordIn, Before
<1>4. CASE MarkPending(t)
  <2>1. PICK x \in todo[t], a \in Answers :
          /\ at' = [at EXCEPT ![t] = x]
          /\ todo' = [todo EXCEPT ![t] = @ \ {x}]
          /\ Goto(t, IF a.told THEN "comparing" ELSE "recovering")
    BY <1>4 DEF MarkPending
  <2>2. at'[t] = x /\ todo'[t] = todo[t] \ {x}
    BY <2>1 DEF MemoryTypes
  <2>3. pc'[t] \in {"comparing", "recovering"}
    BY <2>1, GotoAt
  <2>4. pc[t] = "marking" /\ UNCHANGED <<wrote, committed, journal>>
    BY <1>4 DEF MarkPending, Writes, history
  <2> QED
    BY <2>2, <2>3, <2>4 DEF OnRecordIn, Before
<1>5. CASE BackUp(t)
  <2>1. pc[t] = "backing" /\ pc'[t] \in {"mutating", "recovering"}
    BY <1>5, GotoAt DEF BackUp, Writes
  <2>2. UNCHANGED <<todo, at, wrote, committed, journal>>
    BY <1>5 DEF BackUp, memory, history
  <2> QED
    BY <2>1, <2>2 DEF OnRecordIn, Before
<1>6. CASE Mutate(t)
  <2>1. /\ pc[t] = "mutating"
        /\ \/ pc'[t] = "recording" /\ wrote' = [wrote EXCEPT ![t] = @ \cup {at[t]}]
           \/ pc'[t] = "recovering"
    BY <1>6, GotoAt DEF Mutate, Writes
  <2>2. UNCHANGED <<todo, at, committed, journal>>
    BY <1>6 DEF Mutate, memory, record
  <2>3. pc'[t] = "recording" => wrote'[t] = wrote[t] \cup {at[t]}
    BY <2>1 DEF HistoryTypes
  <2> QED
    BY <2>1, <2>2, <2>3 DEF OnRecordIn, Before
<1>7. CASE RecordApplied(t)
  <2>1. /\ pc[t] = "recording"
        /\ \/ pc'[t] \in {"recovering", "marking"}
           \/ pc'[t] = "applied" /\ todo[t] = {}
    BY <1>7, GotoAt DEF RecordApplied, Writes
  <2>2. UNCHANGED <<todo, at, wrote, committed, journal>>
    BY <1>7 DEF RecordApplied, memory, history
  <2>3. wrote[t] \subseteq Targets
    BY DEF HistoryTypes
  <2> QED
    BY <2>1, <2>2, <2>3 DEF OnRecordIn, Before
<1>8. CASE Commit(t)
  <2>1. PICK a \in Answers :
          /\ journal' = IF a.done THEN [journal EXCEPT ![t] = "COMMITTED"]
                                  ELSE journal
          /\ committed' = IF a.done THEN committed \cup {t} ELSE committed
          /\ Goto(t, IF a.told THEN "converging" ELSE "recovering")
    BY <1>8 DEF Commit, Advance
  <2>2. pc'[t] \in {"converging", "recovering"}
    BY <2>1, GotoAt
  <2>3. t \in committed' => journal'[t] \in {"COMMITTED", "none"}
    BY <2>1 DEF RecordTypes, OnRecordIn
  <2> QED
    BY <2>2, <2>3 DEF OnRecordIn, Before
<1>9. CASE Converge(t) \/ Clean(t) \/ Tell(t) \/ Restore(t)
  <2>1. pc'[t] \in {"cleaning", "rechecking", "recovering", "leaving",
                    "restoring"}
    BY <1>9, GotoAt, EndsAt, AfterErrorAt DEF Converge, Clean, Tell, Restore
  <2>2. UNCHANGED <<committed, journal>>
    BY <1>9 DEF Converge, Clean, Tell, Restore, record, history
  <2> QED
    BY <2>1, <2>2 DEF OnRecordIn, Before
<1>10. CASE Recover(t)
  <2>1. pc'[t] = "telling" /\ UNCHANGED committed
    BY <1>10, GotoAt DEF Recover, history
  <2>2. journal[t] \notin Open => journal' = journal
    BY <1>10 DEF Recover
  <2>3. t \in committed => journal[t] \notin Open
    BY DEF OnRecordIn, Open
  <2> QED
    BY <2>1, <2>2, <2>3 DEF OnRecordIn, Before
<1> QED
  BY <1>1, <1>2, <1>3, <1>4, <1>5, <1>6, <1>7, <1>8, <1>9, <1>10 DEF Step

LEMMA StepOnRecord ==
    ASSUME TypeOK, Sound, OnRecord, [Next]_vars
    PROVE  OnRecord'
<1> SUFFICES ASSUME NEW t \in Txns PROVE OnRecordIn(t)'
  BY DEF OnRecord
<1>1. SoundIn(t) /\ OnRecordIn(t) /\ Placed
  BY DEF Sound, SoundIn, Placed, OnRecord
<1>2. ASSUME NEW u \in Txns, Begin(u) \/ Step(u) \/ Crash(u)
      PROVE  OnRecordIn(t)'
  <2>1. CASE u = t
    BY <1>1, <1>2, <2>1, OwnOnRecord
  <2>2. CASE u # t
    <3>1. Stands(t) /\ todo'[t] = todo[t]
      BY <1>1, <1>2, <2>2, OthersStand, TodoOther
    <3> QED
      BY <1>1, <3>1, StandsOnRecord
  <2> QED
    BY <2>1, <2>2
<1>3. CASE BreakLock \/ (\E x \in Targets : Edit(x)) \/ UNCHANGED vars
  <2>1. todo' = todo
    BY <1>3 DEF BreakLock, Edit, vars, memory
  <2> QED
    BY <1>1, <1>3, <2>1, WorldStands, StandsOnRecord
<1> QED
  BY <1>2, <1>3 DEF Next

\* An entry that was visited has been written, and a committed record stays
\* closed: what a transaction may still have to undo is what its open record
\* names, and it commits only when it has written every target.
THEOREM TransactionOnRecord == Spec => []OnRecord
<1>1. Init => OnRecord
  BY InitOnRecord
<1>2. TypeOK /\ Sound /\ OnRecord /\ [Next]_vars => OnRecord'
  BY StepOnRecord
<1> QED
  BY <1>1, <1>2, TransactionTyped, TransactionSound, PTL DEF Spec

(***************************************************************************)
(* What is reported and what is left on the disk                           *)
(***************************************************************************)
ReportsIn(t) ==
    /\ outcome[t] = "not converged" => t \in committed
    /\ pc[t] = "telling" => outcome[t] \in {"recovery", "not persisted"}
    /\ marker[t] => outcome[t] \in {"recovery", "not persisted", "lock lost"}

Reports == \A t \in Txns : ReportsIn(t)

LEMMA InitReports == Init => Reports
  BY DEF Init, Reports, ReportsIn

\* A step of u sets no marker but its own.
LEMMA MarkerOther ==
    ASSUME TypeOK, NEW u \in Txns, NEW t \in Txns, u # t,
           Begin(u) \/ Step(u) \/ Crash(u)
    PROVE  marker'[t] => marker[t]
<1>0. marker \in [Txns -> BOOLEAN]
  BY DEF TypeOK, RecordTypes
<1>1. CASE Create(u)
  <2>1. PICK gone \in SUBSET Prunable :
            marker' = [v \in Txns |-> v \notin gone /\ marker[v]]
    BY <1>1 DEF Create
  <2> QED
    BY <2>1
<1>2. CASE Clean(u) \/ Tell(u)
  BY <1>0, <1>2 DEF Clean, Tell
<1>3. CASE \/ Begin(u) \/ Acquire(u) \/ FindLocked(u) \/ Preflight(u)
           \/ AssertOwner(u) \/ MarkPending(u) \/ Compare(u) \/ BackUp(u)
           \/ Mutate(u) \/ RecordApplied(u) \/ Verify(u) \/ Converge(u)
           \/ Recheck(u) \/ Recover(u) \/ Restore(u) \/ Leave(u) \/ Crash(u)
           \/ Start(u) \/ Applied(u) \/ Verifying(u) \/ Commit(u)
  <2>1. marker' = marker
    BY <1>3 DEF Begin, Acquire, FindLocked, Preflight, AssertOwner, MarkPending,
                Compare, BackUp, Mutate, RecordApplied, Verify, Converge,
                Recheck, Recover, Restore, Leave, Crash, Start, Applied,
                Verifying, Commit, Advance, record
  <2> QED
    BY <2>1
<1> QED
  BY <1>1, <1>2, <1>3 DEF Step

LEMMA StandsReports ==
    ASSUME NEW t \in Txns, ReportsIn(t), Stands(t), marker'[t] => marker[t]
    PROVE  ReportsIn(t)'
  BY DEF ReportsIn, Stands, SameProcess

LEMMA OwnReports ==
    ASSUME TypeOK, NEW t \in Txns, SoundIn(t), ReportsIn(t),
           Begin(t) \/ Step(t) \/ Crash(t)
    PROVE  ReportsIn(t)'
<1> USE DEF TypeOK, SoundIn
<1>0. pc[t] \notin After => outcome[t] = "none" /\ ~marker[t]
  BY DEF PlacedIn, ReportsIn
<1>1. CASE \/ Begin(t) \/ Acquire(t) \/ Compare(t) \/ Verify(t)
           \/ MarkPending(t) \/ BackUp(t) \/ Mutate(t) \/ RecordApplied(t)
           \/ Start(t) \/ Applied(t) \/ Verifying(t) \/ Commit(t)
  <2>1. pc[t] \notin After /\ UNCHANGED <<outcome, marker>>
    BY <1>1 DEF Begin, Acquire, Compare, Verify, MarkPending, BackUp, Mutate,
                RecordApplied, Start, Applied, Verifying, Commit, Advance,
                Writes, record, After
  <2>2. pc'[t] # "telling"
    <3>1. CASE Begin(t) \/ Acquire(t) \/ Compare(t) \/ Verify(t)
      BY <3>1, GotoAt DEF Begin, Acquire, Compare, Verify
    <3>2. CASE MarkPending(t) \/ BackUp(t) \/ Mutate(t) \/ RecordApplied(t)
      BY <3>2, GotoAt DEF MarkPending, BackUp, Mutate, RecordApplied
    <3>3. CASE Start(t) \/ Applied(t) \/ Verifying(t) \/ Commit(t)
      BY <3>3, GotoAt DEF Start, Applied, Verifying, Commit, Advance
    <3> QED
      BY <1>1, <3>1, <3>2, <3>3
  <2> QED
    BY <1>0, <2>1, <2>2 DEF ReportsIn
<1>2. CASE FindLocked(t) \/ Preflight(t) \/ AssertOwner(t) \/ Recheck(t)
  <2>1. pc[t] \notin After /\ UNCHANGED marker
    BY <1>2 DEF FindLocked, Preflight, AssertOwner, Recheck, record, After,
                Guarded
  <2>2. /\ pc'[t] # "telling"
        /\ outcome'[t] # "not converged"
    <3>0. outcome[t] = "none" /\ pc[t] # "telling"
      BY <1>0, <2>1 DEF After
    <3>1. CASE FindLocked(t)
      BY <3>1, GotoAt DEF FindLocked, PointTypes
    <3>2. CASE Preflight(t)
      <4>1. \/ pc'[t] = "creating" /\ outcome' = outcome
            \/ pc'[t] = "leaving" /\ outcome'[t] = "refused"
        BY <3>2, GotoAt, EndsAt DEF Preflight
      <4> QED
        BY <3>0, <4>1
    <3>3. CASE AssertOwner(t)
      <4>1. \/ UNCHANGED <<pc, outcome>>
            \/ pc'[t] = "leaving" /\ outcome'[t] = "lock lost"
        BY <3>3, EndsAt DEF AssertOwner
      <4> QED
        BY <3>0, <4>1
    <3>4. CASE Recheck(t)
      <4>1. pc'[t] = "leaving" /\ outcome'[t] \in {"success", "not clean"}
        BY <3>4, EndsAt DEF Recheck
      <4> QED
        BY <4>1
    <3> QED
      BY <1>2, <3>1, <3>2, <3>3, <3>4
  <2> QED
    BY <1>0, <2>1, <2>2 DEF ReportsIn
<1>3. CASE Create(t)
  <2>1. pc[t] \notin After
    BY <1>3 DEF Create, Writes, After
  <2>2. ~marker'[t]
    BY <1>0, <1>3, <2>1 DEF Create
  <2>3. pc'[t] # "telling" /\ outcome'[t] # "not converged"
    <3>1. \/ Goto(t, "starting") /\ UNCHANGED outcome
          \/ Ends(t, "refused")
      BY <1>3 DEF Create
    <3>2. \/ pc'[t] = "starting" /\ outcome' = outcome
          \/ pc'[t] = "leaving" /\ outcome'[t] = "refused"
      BY <3>1, GotoAt, EndsAt
    <3> QED
      BY <1>0, <2>1, <3>2
  <2> QED
    BY <2>2, <2>3 DEF ReportsIn
<1>4. CASE Converge(t)
  <2>1. pc[t] \notin After /\ UNCHANGED <<marker, committed>>
    BY <1>4 DEF Converge, Writes, After, history
  <2>2. pc'[t] # "telling"
    BY <1>4, GotoAt, AfterErrorAt DEF Converge
  <2>3. outcome' = outcome \/ t \in committed
    BY <1>4 DEF Converge, PlacedIn
  <2> QED
    BY <1>0, <2>1, <2>2, <2>3 DEF ReportsIn
<1>5. CASE Clean(t)
  <2>1. /\ pc[t] = "cleaning" /\ pc[t] \notin After /\ UNCHANGED committed
        /\ t \in committed
    BY <1>5 DEF Clean, After, history, PlacedIn
  <2>2. ~marker'[t]
    BY <1>0, <1>5, <2>1 DEF Clean, RecordTypes
  <2>3. pc'[t] # "telling"
    BY <1>5, GotoAt, EndsAt, AfterErrorAt DEF Clean
  <2> QED
    BY <2>1, <2>2, <2>3 DEF ReportsIn
<1>6. CASE Recover(t)
  <2>1. pc[t] \notin After /\ UNCHANGED marker
    BY <1>6 DEF Recover, After
  <2>2. outcome'[t] \in {"recovery", "not persisted"}
    BY <1>6 DEF Recover, PointTypes
  <2> QED
    BY <1>0, <2>1, <2>2 DEF ReportsIn
<1>7. CASE Tell(t)
  <2>1. /\ pc[t] = "telling" /\ pc'[t] # "telling"
        /\ UNCHANGED <<outcome, committed>>
    BY <1>7, AfterErrorAt DEF Tell, history
  <2> QED
    BY <2>1 DEF ReportsIn
<1>8. CASE Restore(t) \/ Leave(t) \/ Crash(t)
  <2>1. pc'[t] # "telling" /\ UNCHANGED <<marker, committed>>
    BY <1>8, GotoAt DEF Restore, Leave, Crash, record, history
  <2>2. outcome' = outcome \/ outcome'[t] = "lock lost"
    BY <1>8 DEF Restore, Leave, Crash, PointTypes
  <2> QED
    BY <2>1, <2>2 DEF ReportsIn
<1> QED
  BY <1>1, <1>2, <1>3, <1>4, <1>5, <1>6, <1>7, <1>8 DEF Step

\* What is on the disk after an error is what the command says of it: a failed
\* convergence is reported of a committed transaction only, and a marker
\* RECOVERY_REQUIRED lies only where a command has reported that the recovery is
\* needed or could not be recorded, or that it lost its lock as it left.  So
\* success is never reported of a marked transaction.
THEOREM TransactionReports == Spec => []Reports
<1>1. TypeOK /\ Sound /\ Reports /\ [Next]_vars => Reports'
  <2> SUFFICES ASSUME TypeOK, Sound, Reports, [Next]_vars, NEW t \in Txns
               PROVE  ReportsIn(t)'
    BY DEF Reports
  <2>1. SoundIn(t) /\ ReportsIn(t) /\ Placed
    BY DEF Sound, SoundIn, Placed, Reports
  <2>2. ASSUME NEW u \in Txns, Begin(u) \/ Step(u) \/ Crash(u)
        PROVE  ReportsIn(t)'
    <3>1. CASE u = t
      BY <2>1, <2>2, <3>1, OwnReports
    <3>2. CASE u # t
      <4>1. Stands(t) /\ (marker'[t] => marker[t])
        BY <2>1, <2>2, <3>2, OthersStand, MarkerOther
      <4> QED
        BY <2>1, <4>1, StandsReports
    <3> QED
      BY <3>1, <3>2
  <2>3. CASE BreakLock \/ (\E x \in Targets : Edit(x)) \/ UNCHANGED vars
    <3>1. marker' = marker
      BY <2>3 DEF BreakLock, Edit, vars, record
    <3> QED
      BY <2>1, <2>3, <3>1, WorldStands, StandsReports
  <2> QED
    BY <2>2, <2>3 DEF Next
<1> QED
  BY <1>1, InitReports, TransactionTyped, TransactionSound, PTL DEF Spec

\* A transaction of artifacts apply that reports a failed convergence has its
\* targets as it wrote them, unless somebody else changed them since.  This is
\* AppliedAsTold without the restore of docs refresh, which breaks it.
THEOREM TransactionAppliedAsTold ==
    ASSUME Refreshes = {}
    PROVE  Spec => []AppliedAsTold
<1>1. Sound /\ Reports => AppliedAsTold
  BY DEF Sound, SoundIn, TrueIn, Reports, ReportsIn, AppliedAsTold
<1> QED
  BY <1>1, TransactionSound, TransactionReports, PTL

(***************************************************************************)
(* The refinement of UndoableUpdate                                        *)
(***************************************************************************)
\* What the record of t would put back.
UndoOf(t) ==
    [x \in Targets |-> IF x \in Undoable(t) THEN backup[t][x] ELSE NoOne]

LEMMA UndoRows == Undo = [t \in Txns |-> UndoOf(t)]
  BY DEF Undo, UndoOf

LEMMA UndoRowsNext == Undo' = [t \in Txns |-> UndoOf(t)']
  BY DEF Undo, UndoOf

LEMMA UndoAt ==
    ASSUME NEW t \in Txns, NEW x \in Targets
    PROVE  /\ x \in Undoable(t) => Undo[t][x] = backup[t][x]
           /\ x \notin Undoable(t) => Undo[t][x] = NoOne
  BY DEF Undo

LEMMA NothingIsNoContent == NoOne \notin Contents
  BY DEF Contents

\* A record that is left alone, or pruned when it is committed, would put back
\* what it did before.
LEMMA StandsUndo ==
    ASSUME NEW t, SameRecord(t)
    PROVE  UndoOf(t)' = UndoOf(t)
<1>1. CASE /\ journal'[t] = journal[t]
           /\ entries'[t] = entries[t]
           /\ backup'[t] = backup[t]
  BY <1>1 DEF UndoOf, Undoable
<1>2. CASE journal[t] = "COMMITTED" /\ journal'[t] = "none"
  <2>1. Undoable(t) = {} /\ Undoable(t)' = {}
    BY <1>2 DEF Undoable, Open
  <2> QED
    BY <2>1 DEF UndoOf
<1> QED
  BY <1>1, <1>2 DEF SameRecord

LEMMA UndoKept ==
    ASSUME TypeOK, Placed, NEW t \in Txns, Begin(t) \/ Step(t) \/ Crash(t),
           UndoOf(t)' = UndoOf(t)
    PROVE  Undo' = Undo
<1>1. ASSUME NEW u \in Txns PROVE UndoOf(u)' = UndoOf(u)
  BY OthersStand, StandsUndo DEF Stands
<1> QED
  BY <1>1, UndoRows, UndoRowsNext

LEMMA UndoChanges ==
    ASSUME TypeOK, Placed, NEW t \in Txns, Begin(t) \/ Step(t) \/ Crash(t),
           NEW row, UndoOf(t)' = row
    PROVE  Undo' = [Undo EXCEPT ![t] = row]
<1>1. ASSUME NEW u \in Txns, u # t PROVE UndoOf(u)' = UndoOf(u)
  BY <1>1, OthersStand, StandsUndo DEF Stands
<1> QED
  BY <1>1, UndoRows, UndoRowsNext

\* A step of t that writes no file is one of UndoableUpdate when it leaves what
\* the record would put back alone, or keeps one more content in it.
LEMMA KeepsRecord ==
    ASSUME TypeOK, Placed, NEW t \in Txns, Step(t),
           UNCHANGED <<files, wrote, committed, edits>>,
           t \notin committed, NEW x \in Targets, x \notin wrote[t],
           NEW c \in Contents, UndoOf(t)' = [UndoOf(t) EXCEPT ![x] = c]
    PROVE  Update!Next
<1>1. Undo' = [Undo EXCEPT ![t] = [UndoOf(t) EXCEPT ![x] = c]]
  BY UndoChanges
<1>2. Undo' = [Undo EXCEPT ![t][x] = c]
  BY <1>1, UndoRows
<1>3. Update!Keep(t, x)
  BY <1>2 DEF Update!Keep
<1> QED
  BY <1>3 DEF Update!Next

LEMMA Stutters ==
    ASSUME TypeOK, Placed, NEW t \in Txns, Begin(t) \/ Step(t) \/ Crash(t),
           UNCHANGED <<files, wrote, committed, edits>>,
           UndoOf(t)' = UndoOf(t)
    PROVE  [Update!Next]_(Update!vars)
<1>1. Undo' = Undo
  BY UndoKept
<1> QED
  BY <1>1 DEF Update!vars

\* A record that stays open, whatever its state, would put back the same.
LEMMA OpenUndo ==
    ASSUME NEW t, entries'[t] = entries[t], backup'[t] = backup[t],
           journal[t] \in Open \cup {"RECOVERY_REQUIRED"}
               <=> journal'[t] \in Open \cup {"RECOVERY_REQUIRED"}
    PROVE  UndoOf(t)' = UndoOf(t)
  BY DEF UndoOf, Undoable

LEMMA AdvanceRefines ==
    ASSUME TypeOK, Placed, NEW t \in Txns,
           Start(t) \/ Applied(t) \/ Verifying(t)
    PROVE  [Update!Next]_(Update!vars)
<1>1. journal[t] \in Open /\ journal'[t] \in Open /\ committed' = committed
  <2>0. {"PREPARED", "APPLYING", "APPLIED", "VERIFYING"} \subseteq Open
    BY DEF Open
  <2> QED
    BY <2>0, AdvanceAt DEF Start, Applied, Verifying
<1>2. UNCHANGED <<files, entries, backup, wrote, edits>>
  BY DEF Start, Applied, Verifying, Advance, Writes
<1>3. UndoOf(t)' = UndoOf(t)
  BY <1>1, <1>2, OpenUndo
<1> QED
  BY <1>1, <1>2, <1>3, Stutters DEF Step

\* Nothing is recorded under the name of the transaction before.
LEMMA CreateRefines ==
    ASSUME TypeOK, Placed, OnRecord, NEW t \in Txns, Create(t)
    PROVE  [Update!Next]_(Update!vars)
<1>1. UNCHANGED <<files, wrote, committed, edits>>
  BY DEF Create, Writes, history
<1>2. /\ \A x \in Targets : entries[t][x] = "none"
      /\ \A x \in Targets : entries'[t][x] = "none"
  <2>1. \A x \in Targets : entries[t][x] = "none"
    BY DEF OnRecord, OnRecordIn, Create, Writes, Before
  <2>2. \/ entries'[t] = entries[t]
        \/ entries'[t] = [x \in Targets |-> "none"]
    BY DEF Create
  <2> QED
    BY <2>1, <2>2
<1>3. UndoOf(t)' = UndoOf(t)
  BY <1>2 DEF UndoOf, Undoable
<1> QED
  BY <1>1, <1>3, Stutters DEF Step

\* A pending entry puts a backup of an earlier attempt on record, if any.
LEMMA MarkRefines ==
    ASSUME TypeOK, Sound, Placed, NEW t \in Txns, MarkPending(t)
    PROVE  [Update!Next]_(Update!vars)
<1> USE DEF TypeOK
<1>1. PICK x \in todo[t], a \in Answers :
          entries' = IF a.done THEN [entries EXCEPT ![t][x] = "pending"]
                               ELSE entries
  BY DEF MarkPending
<1>2. x \in Targets
  BY <1>1 DEF MemoryTypes
<1>3. /\ UNCHANGED <<files, journal, backup, edits>>
      /\ UNCHANGED <<wrote, committed>>
  BY DEF MarkPending, Writes, history
<1>4. t \notin committed /\ journal[t] \in Open
  BY DEF MarkPending, Writes, Placed, PlacedIn, During
<1>5. CASE ~a.done \/ entries[t][x] # "none" \/ backup[t][x] = NoOne
  <2>1. UndoOf(t)' = UndoOf(t)
    BY <1>1, <1>2, <1>3, <1>5 DEF UndoOf, Undoable, RecordTypes
  <2> QED
    BY <1>3, <2>1, Stutters DEF Step
<1>6. CASE a.done /\ entries[t][x] = "none" /\ backup[t][x] # NoOne
  <2>1. entries' = [entries EXCEPT ![t][x] = "pending"]
    BY <1>1, <1>6
  <2>2. UndoOf(t)' = [UndoOf(t) EXCEPT ![x] = backup[t][x]]
    BY <1>2, <1>3, <1>4, <2>1 DEF UndoOf, Undoable, RecordTypes
  <2>3. backup[t][x] \in Contents
    BY <1>2, <1>6 DEF RecordTypes
  <2>4. x \notin wrote[t]
    BY <1>4, <1>6 DEF Sound, SoundIn, RecoverableIn
  <2> QED
    BY <1>2, <1>3, <1>4, <2>2, <2>3, <2>4, KeepsRecord DEF Step
<1> QED
  BY <1>5, <1>6

LEMMA BackUpRefines ==
    ASSUME TypeOK, Sound, Placed, NEW t \in Txns, BackUp(t)
    PROVE  [Update!Next]_(Update!vars)
<1> USE DEF TypeOK
<1> DEFINE x == at[t]
<1>1. /\ x \in Targets /\ entries[t][x] # "none"
      /\ t \notin committed /\ journal[t] \in Open
  BY DEF BackUp, Writes, Placed, PlacedIn, During, Entry
<1>2. old[t][x] \in Contents
  <2>1. old[t] \in [Targets -> Contents]
    BY DEF MemoryTypes
  <2> QED
    BY <1>1, <2>1
<1>3. UNCHANGED <<files, journal, entries, wrote, committed, edits>>
  BY DEF BackUp, Writes, history
<1>4. CASE backup' = backup \/ backup[t][x] = old[t][x]
  <2>1. backup'[t] = backup[t]
    BY <1>1, <1>4 DEF BackUp, RecordTypes
  <2>2. UndoOf(t)' = UndoOf(t)
    BY <1>3, <2>1, OpenUndo
  <2> QED
    BY <1>3, <2>2, Stutters DEF Step
<1>5. CASE backup' # backup /\ backup[t][x] # old[t][x]
  <2>1. backup' = [backup EXCEPT ![t][x] = old[t][x]]
    BY <1>5 DEF BackUp
  <2>2. UndoOf(t)' = [UndoOf(t) EXCEPT ![x] = old[t][x]]
    BY <1>1, <1>3, <2>1 DEF UndoOf, Undoable, RecordTypes
  <2>3. x \notin wrote[t]
    BY <1>1, <1>5 DEF Sound, SoundIn, RecoverableIn
  <2> QED
    BY <1>1, <1>2, <1>3, <2>2, <2>3, KeepsRecord DEF Step
<1> QED
  BY <1>4, <1>5

\* A write replaces what the backup holds; a removal has one too.
LEMMA MutateRefines ==
    ASSUME TypeOK, Placed, NEW t \in Txns, Mutate(t)
    PROVE  [Update!Next]_(Update!vars)
<1> USE DEF TypeOK
<1> DEFINE x == at[t]
<1>1. /\ x \in Targets /\ entries[t][x] # "none"
      /\ t \notin committed /\ journal[t] \in Open
      /\ backup[t][x] = old[t][x]
  BY DEF Mutate, Writes, Placed, PlacedIn, During, Entry
<1>2. UNCHANGED <<journal, entries, backup, committed, edits>>
  BY DEF Mutate, Writes, record
<1>3. UndoOf(t)' = UndoOf(t)
  BY <1>2, OpenUndo
<1>4. CASE UNCHANGED <<files, wrote>>
  BY <1>2, <1>3, <1>4, Stutters DEF Step
<1>5. CASE /\ Replaceable(t, x)
           /\ Changes(t, x, New(t, x))
           /\ wrote' = [wrote EXCEPT ![t] = @ \cup {x}]
  <2>1. Undo' = Undo
    BY <1>3, UndoKept DEF Step
  <2>2. Undo[t][x] = old[t][x]
    BY <1>1, UndoAt DEF Undoable
  <2>3. old[t][x] # NoOne
    <3>1. old[t] \in [Targets -> Contents]
      BY DEF MemoryTypes
    <3> QED
      BY <1>1, <3>1, NothingIsNoContent
  <2>4. x \in Deletes[t] \/ files[x] = Undo[t][x]
    BY <1>5, <2>2 DEF Replaceable
  <2>5. files' = [files EXCEPT ![x] =
                     [u \in Txns |-> [y \in Targets |-> New(u, y)]][t][x]]
    BY <1>1, <1>5 DEF Changes
  <2>6. Update!Change(t, x)
    BY <1>1, <1>2, <1>5, <2>1, <2>2, <2>3, <2>4, <2>5 DEF Update!Change
  <2> QED
    BY <1>1, <2>6 DEF Update!Next
<1> QED
  BY <1>4, <1>5 DEF Mutate

\* Everything has been written when the journal says COMMITTED.
LEMMA CommitRefines ==
    ASSUME TypeOK, Placed, OnRecord, NEW t \in Txns, Commit(t)
    PROVE  [Update!Next]_(Update!vars)
<1> USE DEF TypeOK
<1>1. PICK a \in Answers :
          /\ journal' = IF a.done THEN [journal EXCEPT ![t] = "COMMITTED"]
                                  ELSE journal
          /\ committed' = IF a.done THEN committed \cup {t} ELSE committed
  BY DEF Commit, Advance
<1>2. UNCHANGED <<files, entries, backup, wrote, edits>>
  BY DEF Commit, Advance, Writes
<1>3. CASE ~a.done
  <2>1. UndoOf(t)' = UndoOf(t)
    BY <1>1, <1>2, <1>3, OpenUndo
  <2> QED
    BY <1>1, <1>2, <1>3, <2>1, Stutters DEF Step
<1>4. CASE a.done
  <2>1. wrote[t] = Targets
    BY DEF OnRecord, OnRecordIn, Commit, Advance, Writes
  <2>2. journal'[t] = "COMMITTED"
    BY <1>1, <1>4 DEF RecordTypes
  <2>3. UndoOf(t)' = [x \in Targets |-> NoOne]
    BY <2>2 DEF UndoOf, Undoable, Open
  <2>4. Undo' = [Undo EXCEPT ![t] = [x \in Targets |-> NoOne]]
    BY <2>3, UndoChanges DEF Step
  <2>5. Update!Finish(t)
    BY <1>1, <1>2, <1>4, <2>1, <2>4 DEF Update!Finish
  <2> QED
    BY <2>5 DEF Update!Next
<1> QED
  BY <1>3, <1>4

LEMMA RestoreRefines ==
    ASSUME TypeOK, Placed, NEW t \in Txns, Restore(t)
    PROVE  [Update!Next]_(Update!vars)
<1> USE DEF TypeOK
<1>1. PICK x \in todo[t] : \/ UNCHANGED files
                           \/ Changes(t, x, old[t][x])
  BY DEF Restore
<1>2. x \in Targets /\ t \in Refreshes
  BY <1>1 DEF MemoryTypes, Restore, Placed, PlacedIn
<1>3. UNCHANGED <<journal, entries, backup, wrote, committed, edits>>
  BY DEF Restore, record
<1>4. UndoOf(t)' = UndoOf(t)
  BY <1>3, OpenUndo
<1>5. CASE UNCHANGED files
  BY <1>3, <1>4, <1>5, Stutters DEF Step
<1>6. CASE Changes(t, x, old[t][x])
  <2>1. Undo' = Undo
    BY <1>4, UndoKept DEF Step
  <2>2. old[t][x] \in Contents
    <3>1. old[t] \in [Targets -> Contents]
      BY DEF MemoryTypes
    <3> QED
      BY <1>2, <3>1
  <2>3. Update!PutBack(t, x)
    BY <1>2, <1>3, <1>6, <2>1, <2>2 DEF Update!PutBack, Changes
  <2> QED
    BY <1>2, <2>3 DEF Update!Next
<1> QED
  BY <1>1, <1>5, <1>6

LEMMA OwnRefines ==
    ASSUME TypeOK, Sound, Placed, OnRecord, NEW t \in Txns,
           Begin(t) \/ Step(t) \/ Crash(t)
    PROVE  [Update!Next]_(Update!vars)
<1>1. CASE Begin(t) \/ Acquire(t) \/ FindLocked(t) \/ Preflight(t)
           \/ AssertOwner(t) \/ Compare(t) \/ Verify(t) \/ Recheck(t)
           \/ Leave(t) \/ Crash(t)
  <2>1. UNCHANGED <<files, edits, wrote, committed, journal, entries, backup>>
    BY <1>1 DEF Begin, Acquire, FindLocked, Preflight, AssertOwner, Compare,
                Verify, Recheck, Leave, Crash, record, history
  <2>2. UndoOf(t)' = UndoOf(t)
    BY <2>1, OpenUndo
  <2> QED
    BY <2>1, <2>2, Stutters
<1>2. CASE Converge(t) \/ Tell(t)
  <2>1. UNCHANGED <<files, edits, wrote, committed, journal, entries, backup>>
    BY <1>2 DEF Converge, Tell, Writes, history
  <2>2. UndoOf(t)' = UndoOf(t)
    BY <2>1, OpenUndo
  <2> QED
    BY <2>1, <2>2, Stutters
<1>3. CASE Clean(t)
  <2>1. UNCHANGED <<files, edits, wrote, committed, journal, entries>>
    BY <1>3 DEF Clean, history
  <2>2. journal[t] \in {"COMMITTED", "none"}
    BY <1>3 DEF Clean, Placed, PlacedIn, OnRecord, OnRecordIn
  <2>3. UndoOf(t)' = UndoOf(t)
    BY <2>1, <2>2 DEF UndoOf, Undoable, Open
  <2> QED
    BY <2>1, <2>3, Stutters
<1>4. CASE Recover(t)
  <2>1. UNCHANGED <<files, edits, wrote, committed, entries, backup>>
    BY <1>4 DEF Recover, history
  <2>2. \/ journal' = journal
        \/ journal[t] \in Open /\ journal'[t] = "RECOVERY_REQUIRED"
    BY <1>4 DEF Recover, TypeOK, RecordTypes
  <2>3. UndoOf(t)' = UndoOf(t)
    BY <2>1, <2>2, OpenUndo
  <2> QED
    BY <2>1, <2>3, Stutters
<1>5. CASE RecordApplied(t)
  <2>1. UNCHANGED <<files, edits, wrote, committed, journal, backup>>
    BY <1>5 DEF RecordApplied, Writes, history
  <2>2. \A x \in Targets : entries'[t][x] = "none" <=> entries[t][x] = "none"
    <3>1. at[t] \in Targets /\ entries[t][at[t]] # "none"
      BY <1>5 DEF RecordApplied, Writes, Placed, PlacedIn, Entry
    <3> QED
      BY <1>5, <3>1 DEF RecordApplied, TypeOK, RecordTypes
  <2>3. UndoOf(t)' = UndoOf(t)
    BY <2>1, <2>2 DEF UndoOf, Undoable
  <2> QED
    BY <2>1, <2>3, Stutters
<1> QED
  BY <1>1, <1>2, <1>3, <1>4, <1>5, CreateRefines, AdvanceRefines, MarkRefines,
     BackUpRefines, MutateRefines, CommitRefines, RestoreRefines DEF Step

LEMMA WorldRefines ==
    ASSUME TypeOK, BreakLock \/ (\E x \in Targets : Edit(x)) \/ UNCHANGED vars
    PROVE  [Update!Next]_(Update!vars)
<1>1. Undo' = Undo
  <2>1. UNCHANGED <<journal, entries, backup>>
    BY DEF BreakLock, Edit, vars, record
  <2> QED
    BY <2>1 DEF Undo, Undoable
<1>2. UNCHANGED <<wrote, committed>>
  BY DEF BreakLock, Edit, vars, history
<1>3. CASE BreakLock \/ UNCHANGED vars
  BY <1>1, <1>2, <1>3 DEF BreakLock, vars, Update!vars
<1>4. ASSUME NEW x \in Targets, Edit(x) PROVE Update!Next
  <2>1. edits' = edits + 1 /\ edits + 1 \in Contents
    BY <1>4, EditSpent DEF Edit, TypeOK
  <2>2. PICK content \in {edits + 1, Absent} :
            files' = [files EXCEPT ![x] = content]
    BY <1>4 DEF Edit
  <2>3. content \in Contents
    BY <2>1, <2>2 DEF Contents
  <2>4. Update!Edit(x)
    BY <1>1, <1>2, <2>1, <2>2, <2>3 DEF Update!Edit
  <2> QED
    BY <2>4 DEF Update!Next
<1> QED
  BY <1>3, <1>4

LEMMA UpdateRefines ==
    ASSUME TypeOK, Sound, OnRecord, [Next]_vars
    PROVE  [Update!Next]_(Update!vars)
<1>1. Placed
  BY DEF Sound, SoundIn, Placed
<1> QED
  BY <1>1, OwnRefines, WorldRefines DEF Next

LEMMA InitUpdates == Init => Update!Init
<1> SUFFICES ASSUME Init PROVE Update!Init
  OBVIOUS
<1>1. Undo = [t \in Txns |-> [x \in Targets |-> NoOne]]
  BY DEF Init, Undo, Undoable, Open
<1>2. files \in [Targets -> Contents]
  BY DEF Init, Contents
<1> QED
  BY <1>1, <1>2 DEF Init, Update!Init

\* The transactions together implement UndoableUpdate: through failing writes,
\* crashes, lost locks, pruned records and edits of others, a target is only
\* replaced when it holds what an open record would put back (or is removed
\* with its backup on record), no record of a changed target is lost before the
\* commit, and the commit comes when every target was changed.
THEOREM TransactionImplementsUpdate == Spec => ImplementsUndoableUpdate
<1>1. TypeOK /\ Sound /\ OnRecord /\ [Next]_vars
        => [Update!Next]_(Update!vars)
  BY UpdateRefines
<1> QED
  BY <1>1, InitUpdates, TransactionTyped, TransactionSound,
     TransactionOnRecord, PTL DEF Spec, ImplementsUndoableUpdate, Update!Spec

\* What UndoableUpdate promises holds of every execution of the commands: a
\* committed transaction has changed all its targets, any other one has an undo
\* record of each target it changed.
THEOREM UpdatePromiseHolds == Spec => []Update!Promise
<1>1. Update!Init => Update!Promise
  BY DEF Update!Init, Update!Promise
<1>2. Update!Promise /\ [Update!Next]_(Update!vars) => Update!Promise'
  <2> SUFFICES ASSUME Update!Promise, [Update!Next]_(Update!vars)
               PROVE  Update!Promise'
    OBVIOUS
  <2> USE NothingIsNoContent DEF Update!Promise
  <2>1. ASSUME NEW t \in Txns, NEW x \in Targets, Update!Keep(t, x)
        PROVE  Update!Promise'
    BY <2>1 DEF Update!Keep
  <2>2. ASSUME NEW t \in Txns, NEW x \in Targets, Update!Change(t, x)
        PROVE  Update!Promise'
    BY <2>2 DEF Update!Change
  <2>3. ASSUME NEW t \in Txns, Update!Finish(t)
        PROVE  Update!Promise'
    BY <2>3 DEF Update!Finish
  <2>4. ASSUME NEW t \in Txns, NEW x \in Targets, Update!PutBack(t, x)
        PROVE  Update!Promise'
    BY <2>4 DEF Update!PutBack
  <2>5. ASSUME NEW x \in Targets, Update!Edit(x)
        PROVE  Update!Promise'
    BY <2>5 DEF Update!Edit
  <2>6. CASE UNCHANGED Update!vars
    BY <2>6 DEF Update!vars
  <2> HIDE DEF Update!Promise
  <2> QED
    BY <2>1, <2>2, <2>3, <2>4, <2>5, <2>6 DEF Update!Next
<1> QED
  BY <1>1, <1>2, TransactionImplementsUpdate, PTL
     DEF ImplementsUndoableUpdate, Update!Spec
=============================================================================
