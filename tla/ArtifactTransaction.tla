------------------------- MODULE ArtifactTransaction -------------------------
(***************************************************************************)
(* The write transaction of release-skill: how artifacts apply and docs    *)
(* refresh --write change project files under the project lock, with a     *)
(* write-ahead journal, a backup per file, a comparison before every       *)
(* change, and a recovery protocol for what fails on the way.              *)
(*                                                                         *)
(* Other people edit the same files, operators break the lock, writes fail *)
(* or are reported as failed although they happened, processes die.        *)
(***************************************************************************)
EXTENDS Naturals, FiniteSets

CONSTANTS
    Txns,           \* transactions; each is one command and one process
    Targets,        \* the files of a write set
    Absent, Base,   \* no file; the content a file has at first
    NoOne,          \* no transaction
    Deletes,        \* Deletes[t]: the targets t removes; it writes the others
    Refreshes,      \* the transactions of docs refresh
    RetentionMax,   \* terminal records kept when a record is created
    MaxFaults,      \* bound on failed writes, crashes, live locks broken
    MaxEdits        \* bound on edits by other people

ASSUME NamesAssumption ==
    /\ Absent # Base
    /\ {Absent, Base} \cap Txns = {}
    /\ ({Absent, Base} \cup Txns) \cap Nat = {}
    /\ NoOne \notin {Absent, Base} \cup Txns \cup Targets \cup Nat

\* Release documents are files, and a refresh only rewrites them.
ASSUME PlansAssumption ==
    /\ Deletes \in [Txns -> SUBSET Targets]
    /\ Refreshes \subseteq Txns
    /\ \A t \in Refreshes : Deletes[t] = {}

ASSUME BoundAssumption ==
    /\ IsFiniteSet(Txns)
    /\ RetentionMax \in Nat /\ MaxFaults \in Nat /\ MaxEdits \in Nat

VARIABLES
    files,      \* files[x]: what is at path x
    lock,       \* the transaction whose record is in the lock file
    pc,         \* pc[t]: where the process is
    sure,       \* sure[t]: it asserted its lock for the write that comes
    at,         \* at[t]: the entry under way
    todo,       \* todo[t]: the entries not visited yet
    old,        \* old[t]: the oldEntry of each target in its plan
    outcome,    \* outcome[t]: what the command tells its caller
    journal,    \* journal[t]: state in journal.json
    entries,    \* entries[t][x]: status of the entry in journal.json
    backup,     \* backup[t][x]: content of backups/<i>.bak
    receipt,    \* receipt[t]: journal.json is the small terminal receipt
    marker,     \* marker[t]: the file RECOVERY_REQUIRED is there
    born,       \* born[t]: createdAt of the record
    wrote,      \* history: the targets t changed
    since,      \* history: the targets others changed since t verified them
    late,       \* history: changes t made to targets while not owning the lock
    committed,  \* history: the transactions whose journal said COMMITTED
    faults, edits

memory == <<at, todo, old>>
record == <<journal, entries, backup, receipt, marker, born>>
history == <<wrote, since, late, committed>>
vars == <<files, lock, pc, sure, memory, outcome, record, history, faults,
          edits>>

Contents == {Absent, Base} \cup Txns \cup 1 .. MaxEdits

\* The states of a journal that is not finished, as the code moves it.
Open == {"PREPARED", "APPLYING", "APPLIED", "VERIFYING"}

\* ROLLING_BACK, ROLLED_BACK and RECOVERY_CONFLICT are declared in the code
\* and never written.
States == {"none", "COMMITTED", "RECOVERY_REQUIRED"} \cup Open

\* Every write at one of these points is preceded by assertLockAuthority.
Guarded == {"creating", "starting", "marking", "backing", "mutating",
            "recording", "applied", "verifying", "committing", "converging"}

Points == {"idle", "locking", "preflight", "comparing", "checking", "cleaning",
           "rechecking", "recovering", "telling", "restoring", "leaving",
           "ended", "dead"} \cup Guarded

Outcomes == {"none", "locked", "refused", "lock lost", "recovery",
             "not persisted", "not converged", "not clean", "success"}

\* Slip: a removed target is left as a tombstone.
Tombstone(t, x) == IF x \in Deletes[t] THEN NoOne ELSE t

New(t, x) == IF x \in Deletes[t] THEN Absent ELSE t

(***************************************************************************)
(* Initial states                                                          *)
(***************************************************************************)
Init ==
    /\ files \in [Targets -> {Absent, Base}]
    /\ lock = NoOne
    /\ pc = [t \in Txns |-> "idle"]
    /\ sure = [t \in Txns |-> FALSE]
    /\ at = [t \in Txns |-> NoOne]
    /\ todo = [t \in Txns |-> {}]
    /\ old = [t \in Txns |-> [x \in Targets |-> Absent]]
    /\ outcome = [t \in Txns |-> "none"]
    /\ journal = [t \in Txns |-> "none"]
    /\ entries = [t \in Txns |-> [x \in Targets |-> "none"]]
    /\ backup = [t \in Txns |-> [x \in Targets |-> NoOne]]
    /\ receipt = [t \in Txns |-> FALSE]
    /\ marker = [t \in Txns |-> FALSE]
    /\ born = [t \in Txns |-> 0]
    /\ wrote = [t \in Txns |-> {}]
    /\ since = [t \in Txns |-> {}]
    /\ late = [t \in Txns |-> 0]
    /\ committed = {}
    /\ faults = 0
    /\ edits = 0

(***************************************************************************)
(* Steps of a process                                                      *)
(***************************************************************************)
Goto(t, point) == pc' = [pc EXCEPT ![t] = point]

Ends(t, how) ==
    /\ Goto(t, "leaving")
    /\ outcome' = [outcome EXCEPT ![t] = how]

\* A write happens and says so, fails, or happens and is reported as failed
\* (a rename whose fsync fails).
Answers == {a \in [done : BOOLEAN, told : BOOLEAN] : a.told => a.done}

Costs(told) ==
    IF told THEN UNCHANGED faults
            ELSE faults < MaxFaults /\ faults' = faults + 1

\* t writes at a guarded point.
Writes(t, point) ==
    /\ pc[t] = point
    /\ sure[t]
    /\ sure' = [sure EXCEPT ![t] = FALSE]
    /\ UNCHANGED <<lock, edits>>

\* Slip: the lock is only asserted before the journal is created.
AssertsOnce(t) ==
    /\ pc[t] \in Guarded
    /\ ~sure[t]
    /\ IF lock = t \/ pc[t] # "creating"
       THEN sure' = [sure EXCEPT ![t] = TRUE] /\ UNCHANGED <<pc, outcome>>
       ELSE UNCHANGED sure /\ Ends(t, "lock lost")
    /\ UNCHANGED <<files, lock, memory, record, history, faults, edits>>

\* Slip: a lost lock is waited for.
WaitsForLock(t) ==
    /\ pc[t] \in Guarded
    /\ ~sure[t]
    /\ lock = t
    /\ sure' = [sure EXCEPT ![t] = TRUE]
    /\ UNCHANGED <<files, lock, pc, memory, outcome, record, history, faults,
                   edits>>

\* assertLockAuthority: a lost lock ends the command where it is, with no
\* recovery protocol.
AssertOwner(t) ==
    /\ pc[t] \in Guarded
    /\ ~sure[t]
    /\ IF lock = t
       THEN sure' = [sure EXCEPT ![t] = TRUE] /\ UNCHANGED <<pc, outcome>>
       ELSE UNCHANGED sure /\ Ends(t, "lock lost")
    /\ UNCHANGED <<files, lock, memory, record, history, faults, edits>>

(***************************************************************************)
(* Up to the journal                                                       *)
(***************************************************************************)
\* The plan, or the dry run that the user confirms, is made without the lock.
Begin(t) ==
    /\ pc[t] = "idle"
    /\ \A x \in Targets :
          x \in Deletes[t] \/ t \in Refreshes => files[x] # Absent
    /\ old' = [old EXCEPT ![t] = files]
    /\ Goto(t, "locking")
    /\ UNCHANGED <<files, lock, sure, at, todo, outcome, record,
                   history, faults, edits>>

Acquire(t) ==
    /\ pc[t] = "locking"
    /\ lock = NoOne
    /\ lock' = t
    /\ Goto(t, "preflight")
    /\ UNCHANGED <<files, sure, memory, outcome, record, history, faults,
                   edits>>

FindLocked(t) ==
    /\ pc[t] = "locking"
    /\ lock # NoOne
    /\ Goto(t, "ended")
    /\ outcome' = [outcome EXCEPT ![t] = "locked"]
    /\ UNCHANGED <<files, lock, sure, memory, record, history, faults, edits>>

\* The confirmed digest, the preflight and the old manifest compare every
\* target with the plan; a plan may also be refused for its form.
Preflight(t) ==
    /\ pc[t] = "preflight"
    /\ \/ files = old[t] /\ Goto(t, "creating") /\ UNCHANGED outcome
       \/ Ends(t, "refused")
    /\ UNCHANGED <<files, lock, sure, memory, record, history, faults, edits>>

Terminal == {u \in Txns : journal[u] = "COMMITTED"}

\* Slip: any record beyond the cap is pruned, whatever its state.
AnyBeyond ==
    LET there == {u \in Txns : journal[u] # "none"}
    IN {u \in there :
           Cardinality({v \in there : born[v] > born[u]}) >= RetentionMax}

\* pruneTerminalTransactionRecords: the oldest terminal records beyond the cap.
Prunable ==
    {u \in Terminal :
        Cardinality({v \in Terminal : born[v] > born[u]}) >= RetentionMax}

\* createTransactionJournal prunes, best effort, and writes PREPARED.
Create(t) ==
    /\ Writes(t, "creating")
    /\ \E gone \in SUBSET Prunable, a \in Answers :
          /\ Costs(a.told)
          /\ journal' = [u \in Txns |->
                IF u = t THEN IF a.done THEN "PREPARED" ELSE "none"
                ELSE IF u \in gone THEN "none" ELSE journal[u]]
          /\ entries' = [u \in Txns |->
                IF u \in gone THEN [x \in Targets |-> "none"] ELSE entries[u]]
          /\ backup' = [u \in Txns |->
                IF u \in gone THEN [x \in Targets |-> NoOne] ELSE backup[u]]
          /\ marker' = [u \in Txns |-> u \notin gone /\ marker[u]]
          /\ receipt' = [u \in Txns |-> u \notin gone /\ receipt[u]]
          /\ born' = [born EXCEPT ![t] =
                Cardinality({u \in Txns : born[u] > 0}) + 1]
          /\ IF a.told THEN Goto(t, "starting") /\ UNCHANGED outcome
                       ELSE Ends(t, "refused")
    /\ todo' = [todo EXCEPT ![t] = Targets]
    /\ UNCHANGED <<files, at, old, history>>

(***************************************************************************)
(* The entries                                                             *)
(***************************************************************************)
\* The state in journal.json moves; it is read back and compared first.
Advance(t, point, from, to, next) ==
    /\ Writes(t, point)
    /\ journal[t] = from
    /\ \E a \in Answers :
          /\ Costs(a.told)
          /\ journal' = IF a.done THEN [journal EXCEPT ![t] = to] ELSE journal
          /\ committed' = IF a.done /\ to = "COMMITTED"
                           THEN committed \cup {t} ELSE committed
          /\ Goto(t, IF a.told THEN next ELSE "recovering")
    /\ UNCHANGED <<files, memory, outcome, entries, backup, receipt, marker,
                   born, wrote, since, late>>

Start(t) == Advance(t, "starting", "PREPARED", "APPLYING", "marking")

\* The order of the entries is that of the plan, so any order.
MarkPending(t) ==
    /\ Writes(t, "marking")
    /\ \E x \in todo[t], a \in Answers :
          /\ Costs(a.told)
          /\ at' = [at EXCEPT ![t] = x]
          /\ todo' = [todo EXCEPT ![t] = @ \ {x}]
          /\ entries' = IF a.done THEN [entries EXCEPT ![t][x] = "pending"]
                                  ELSE entries
          /\ Goto(t, IF a.told THEN "comparing" ELSE "recovering")
    /\ UNCHANGED <<files, old, outcome, journal, backup, receipt,
                   marker, born, history>>

\* assertFullCas: one stable read gives the comparison, the bytes of the
\* backup and the identity the write is bound to.
Compare(t) ==
    /\ pc[t] = "comparing"
    /\ Goto(t, IF files[at[t]] = old[t][at[t]] THEN "backing"
                                               ELSE "recovering")
    /\ UNCHANGED <<files, lock, sure, memory, outcome, record, history,
                   faults, edits>>

BackUp(t) ==
    /\ Writes(t, "backing")
    /\ \E a \in Answers :
          /\ Costs(a.told)
          /\ backup' = IF a.done
                       THEN [backup EXCEPT ![t][at[t]] = old[t][at[t]]]
                       ELSE backup
          /\ Goto(t, IF a.told THEN "mutating" ELSE "recovering")
    /\ UNCHANGED <<files, memory, outcome, journal, entries, receipt, marker,
                   born, history>>

\* What a change of target x by t means for the others.
Changes(t, x, content) ==
    /\ files' = [files EXCEPT ![x] = content]
    /\ since' = [u \in Txns |-> IF u = t THEN since[u]
                                         ELSE since[u] \cup {x}]
    /\ late' = [late EXCEPT ![t] = IF lock = t THEN @ ELSE @ + 1]

\* Slip: the rename is not bound to what was read.
Overwrites(t, x) == x \in Deletes[t] => files[x] # Absent

\* A write replaces what was read and nothing else; a removal removes
\* whatever is there.
Replaceable(t, x) ==
    IF x \in Deletes[t] THEN files[x] # Absent ELSE files[x] = old[t][x]

Mutate(t) ==
    /\ Writes(t, "mutating")
    /\ LET x == at[t]
       IN \/ /\ Replaceable(t, x)
             /\ Changes(t, x, New(t, x))
             /\ wrote' = [wrote EXCEPT ![t] = @ \cup {x}]
             /\ \E told \in BOOLEAN :
                   /\ Costs(told)
                   /\ Goto(t, IF told THEN "recording" ELSE "recovering")
          \/ /\ Replaceable(t, x) => faults < MaxFaults
             /\ faults' = IF Replaceable(t, x) THEN faults + 1 ELSE faults
             /\ Goto(t, "recovering")
             /\ UNCHANGED <<files, wrote, since, late>>
    /\ UNCHANGED <<memory, outcome, record, committed>>

RecordApplied(t) ==
    /\ Writes(t, "recording")
    /\ \E a \in Answers :
          /\ Costs(a.told)
          /\ entries' = IF a.done THEN [entries EXCEPT ![t][at[t]] = "applied"]
                                  ELSE entries
          /\ Goto(t, IF ~a.told THEN "recovering"
                     ELSE IF todo[t] = {} THEN "applied" ELSE "marking")
    /\ UNCHANGED <<files, memory, outcome, journal, backup, receipt, marker,
                   born, history>>

(***************************************************************************)
(* The end of a transaction that goes well                                 *)
(***************************************************************************)
Applied(t) == Advance(t, "applied", "APPLYING", "APPLIED", "verifying")

Verifying(t) == Advance(t, "verifying", "APPLIED", "VERIFYING", "checking")

\* Slip: entries recorded as applied are trusted.
RecordedNew(t) == \A x \in Targets : entries[t][x] = "applied"

AllNew(t) == \A x \in Targets : files[x] = New(t, x)

\* verifyManifest
Verify(t) ==
    /\ pc[t] = "checking"
    /\ IF AllNew(t)
       THEN Goto(t, "committing") /\ since' = [since EXCEPT ![t] = {}]
       ELSE Goto(t, "recovering") /\ UNCHANGED since
    /\ UNCHANGED <<files, lock, sure, memory, outcome, record, wrote, late,
                   committed, faults, edits>>

Commit(t) == Advance(t, "committing", "VERIFYING", "COMMITTED", "converging")

\* An error that names the recover command makes docs refresh restore.
AfterError(t) ==
    IF t \in Refreshes
    THEN Goto(t, "restoring") /\ todo' = [todo EXCEPT ![t] = Targets]
    ELSE Goto(t, "leaving") /\ UNCHANGED todo

\* convergeTerminalRecord up to the receipt.  A failure to read the journal
\* back is not flagged as one of convergence.
Converge(t) ==
    /\ Writes(t, "converging")
    /\ \/ /\ journal[t] = "COMMITTED"
          /\ \E a \in Answers :
                /\ Costs(a.told)
                /\ receipt' = [receipt EXCEPT ![t] = a.done]
                /\ IF a.told
                   THEN Goto(t, "cleaning") /\ UNCHANGED <<todo, outcome>>
                   ELSE /\ AfterError(t)
                        /\ outcome' = [outcome EXCEPT ![t] = "not converged"]
       \/ /\ IF journal[t] = "COMMITTED" THEN Costs(FALSE)
                                          ELSE UNCHANGED faults
          /\ Goto(t, "recovering")
          /\ UNCHANGED <<todo, outcome, receipt>>
    /\ UNCHANGED <<files, at, old, journal, entries, backup, marker,
                   born, history>>

\* removeTerminalRecoveryResidue, all of it or nothing.
Clean(t) ==
    /\ pc[t] = "cleaning"
    /\ \E a \in Answers :
          /\ Costs(a.told)
          /\ IF a.done
             THEN /\ marker' = [marker EXCEPT ![t] = FALSE]
                  /\ backup' = [backup EXCEPT ![t] =
                                   [x \in Targets |-> NoOne]]
             ELSE UNCHANGED <<marker, backup>>
          /\ IF ~a.told
             THEN /\ AfterError(t)
                  /\ outcome' = [outcome EXCEPT ![t] = "not converged"]
             ELSE IF t \in Refreshes
             THEN Goto(t, "rechecking") /\ UNCHANGED <<todo, outcome>>
             ELSE Ends(t, "success") /\ UNCHANGED todo
    /\ UNCHANGED <<files, lock, sure, at, old, journal, entries,
                   receipt, born, history, edits>>

\* docs refresh plans once more and wants nothing left to do.
Recheck(t) ==
    /\ pc[t] = "rechecking"
    /\ Ends(t, IF AllNew(t) THEN "success" ELSE "not clean")
    /\ UNCHANGED <<files, lock, sure, memory, record, history, faults, edits>>

(***************************************************************************)
(* The recovery protocol                                                   *)
(***************************************************************************)
\* Slip: the error names a recovery although none was recorded.
ClaimsRecovery(t) ==
    /\ pc[t] = "recovering"
    /\ Goto(t, "telling")
    /\ \E a \in Answers :
          /\ Costs(a.told)
          /\ journal' = IF a.done /\ journal[t] \in Open
                        THEN [journal EXCEPT ![t] = "RECOVERY_REQUIRED"]
                        ELSE journal
    /\ outcome' = [outcome EXCEPT ![t] = "recovery"]
    /\ UNCHANGED <<files, lock, sure, memory, entries, backup, receipt, marker,
                   born, history, edits>>

\* tryRecoveryProtocol: a journal that is not finished goes to
\* RECOVERY_REQUIRED.
Recover(t) ==
    /\ pc[t] = "recovering"
    /\ Goto(t, "telling")
    /\ \/ /\ journal[t] \in Open
          /\ \E a \in Answers :
                /\ Costs(a.told)
                /\ journal' = IF a.done
                              THEN [journal EXCEPT ![t] = "RECOVERY_REQUIRED"]
                              ELSE journal
                /\ outcome' = [outcome EXCEPT ![t] =
                       IF a.told THEN "recovery" ELSE "not persisted"]
       \/ /\ journal[t] \notin Open
          /\ outcome' = [outcome EXCEPT ![t] = "not persisted"]
          /\ UNCHANGED <<journal, faults>>
    /\ UNCHANGED <<files, lock, sure, at, todo, old, entries, backup, receipt,
                   marker, born, history, edits>>

\* writeRecoveryRequiredFile; its failure is only noted in the error.
Tell(t) ==
    /\ pc[t] = "telling"
    /\ \/ /\ journal[t] # "none"
          /\ \E a \in Answers :
                /\ Costs(a.told)
                /\ marker' = IF a.done THEN [marker EXCEPT ![t] = TRUE]
                                       ELSE marker
       \/ journal[t] = "none" /\ UNCHANGED <<marker, faults>>
    /\ AfterError(t)
    /\ UNCHANGED <<files, lock, sure, at, old, outcome, journal,
                   entries, backup, receipt, born, history, edits>>

\* tryRestoreOldBytes: every target goes back to its old bytes whatever it
\* holds; the first one that fails ends it.
Restore(t) ==
    /\ pc[t] = "restoring"
    /\ \E x \in todo[t] :
          /\ todo' = [todo EXCEPT ![t] = @ \ {x}]
          /\ \/ /\ files[x] = old[t][x]
                /\ Goto(t, IF todo[t] = {x} THEN "leaving" ELSE "restoring")
                /\ UNCHANGED <<files, since, late, faults>>
             \/ /\ files[x] # old[t][x]
                /\ Changes(t, x, old[t][x])
                /\ \E told \in BOOLEAN :
                      /\ Costs(told)
                      /\ Goto(t, IF told /\ todo[t] # {x} THEN "restoring"
                                                         ELSE "leaving")
             \/ /\ files[x] # old[t][x]
                /\ Costs(FALSE)
                /\ Goto(t, "leaving")
                /\ UNCHANGED <<files, since, late>>
    /\ UNCHANGED <<lock, sure, at, old, outcome, record, wrote,
                   committed, edits>>

\* capture asserts the lock once more, and release removes it if it is still
\* this command's.
Leave(t) ==
    /\ pc[t] = "leaving"
    /\ Goto(t, "ended")
    /\ IF lock = t
       THEN lock' = NoOne /\ UNCHANGED outcome
       ELSE UNCHANGED lock /\ outcome' = [outcome EXCEPT ![t] = "lock lost"]
    /\ UNCHANGED <<files, sure, memory, record, history, faults, edits>>

(***************************************************************************)
(* The world                                                               *)
(***************************************************************************)
Crash(t) ==
    /\ faults < MaxFaults
    /\ pc[t] \notin {"idle", "ended", "dead"}
    /\ Goto(t, "dead")
    /\ faults' = faults + 1
    /\ UNCHANGED <<files, lock, sure, memory, outcome, record, history, edits>>

\* break-lock: rightly when the owner is dead, else by mistake.
BreakLock ==
    /\ lock # NoOne
    /\ lock' = NoOne
    /\ IF pc[lock] = "dead" THEN UNCHANGED faults
                            ELSE faults < MaxFaults /\ faults' = faults + 1
    /\ UNCHANGED <<files, pc, sure, memory, outcome, record, history, edits>>

\* Somebody saves or removes a file.
Edit(x) ==
    /\ edits < MaxEdits
    /\ edits' = edits + 1
    /\ \E content \in {edits + 1, Absent} \ {files[x]} :
          files' = [files EXCEPT ![x] = content]
    /\ since' = [t \in Txns |-> since[t] \cup {x}]
    /\ UNCHANGED <<lock, pc, sure, memory, outcome, record, wrote, late,
                   committed, faults>>

Step(t) ==
    \/ Acquire(t) \/ FindLocked(t) \/ Preflight(t) \/ AssertOwner(t)
    \/ Create(t) \/ Start(t) \/ MarkPending(t) \/ Compare(t) \/ BackUp(t)
    \/ Mutate(t) \/ RecordApplied(t) \/ Applied(t) \/ Verifying(t) \/ Verify(t)
    \/ Commit(t) \/ Converge(t) \/ Clean(t) \/ Recheck(t)
    \/ Recover(t) \/ Tell(t) \/ Restore(t) \/ Leave(t)

Next ==
    \/ \E t \in Txns : Begin(t) \/ Step(t) \/ Crash(t)
    \/ \E x \in Targets : Edit(x)
    \/ BreakLock

Spec == Init /\ [][Next]_vars

FairSpec == Spec /\ \A t \in Txns : WF_vars(Step(t))

(***************************************************************************)
(* Properties                                                              *)
(***************************************************************************)
FileTypes == files \in [Targets -> Contents]

PointTypes ==
    /\ pc \in [Txns -> Points]
    /\ outcome \in [Txns -> Outcomes]

LockTypes ==
    /\ lock \in Txns \cup {NoOne}
    /\ sure \in [Txns -> BOOLEAN]

MemoryTypes ==
    /\ at \in [Txns -> Targets \cup {NoOne}]
    /\ todo \in [Txns -> SUBSET Targets]
    /\ old \in [Txns -> [Targets -> Contents]]

RecordTypes ==
    /\ journal \in [Txns -> States]
    /\ entries \in [Txns -> [Targets -> {"none", "pending", "applied"}]]
    /\ backup \in [Txns -> [Targets -> Contents \cup {NoOne}]]
    /\ receipt \in [Txns -> BOOLEAN]
    /\ marker \in [Txns -> BOOLEAN]
    /\ born \in [Txns -> Nat]

HistoryTypes ==
    /\ wrote \in [Txns -> SUBSET Targets]
    /\ since \in [Txns -> SUBSET Targets]
    /\ late \in [Txns -> Nat]
    /\ committed \subseteq Txns

BudgetTypes ==
    /\ faults \in 0 .. MaxFaults
    /\ edits \in 0 .. MaxEdits

\* The type invariant; a removed target is absent and nothing else.
TypeOK ==
    /\ FileTypes
    /\ PointTypes
    /\ LockTypes
    /\ MemoryTypes
    /\ RecordTypes
    /\ HistoryTypes
    /\ BudgetTypes

\* Until a transaction is committed, every target it changed is named by its
\* journal and has a durable backup of the planned old content: whatever
\* failed, died, lost its lock or was pruned, the change can be undone.
Recoverable ==
    \A t \in Txns : t \notin committed =>
        \A x \in wrote[t] :
            /\ journal[t] \in Open \cup {"RECOVERY_REQUIRED"}
            /\ entries[t][x] # "none"
            /\ backup[t][x] = old[t][x]

\* The targets of a committed transaction of artifacts apply have their new
\* content, unless somebody else changed them after it verified them.  (docs
\* refresh may restore the old content itself, see AppliedAsTold.)
CommittedIsTrue ==
    \A t \in committed \ Refreshes, x \in Targets :
        files[x] = New(t, x) \/ x \in since[t]

\* A transaction of artifacts apply that loses its lock changes at most one
\* more target: the one it was about to change when it last asserted the lock.
OneLateChange == \A t \in Txns \ Refreshes : late[t] <= 1

\* What a command says agrees with the disk: success means committed, a
\* recovery is recorded, a refusal touched nothing, and a journal is left
\* unfinished only by a command that says it could not finish it.
Honest ==
    \A t \in Txns :
        /\ outcome[t] = "success" => t \in committed
        /\ outcome[t] = "recovery" => journal[t] = "RECOVERY_REQUIRED"
        /\ outcome[t] = "refused" => wrote[t] = {}
        /\ pc[t] = "ended" /\ journal[t] \in Open =>
              outcome[t] \in {"refused", "lock lost", "not persisted"}

\* A committed transaction is never marked as needing recovery.
CommittedNeedsNoRecovery ==
    \A t \in committed : ~marker[t]

\* A command that reports a failed convergence reports the targets as applied,
\* and so they are.
AppliedAsTold ==
    \A t \in Txns : outcome[t] = "not converged" =>
        \A x \in Targets : files[x] = New(t, x) \/ x \in since[t]

\* What somebody saved is only replaced by somebody else, by a write whose
\* plan has seen it, by a removal or by the restore of a docs refresh.
EditsKept ==
    [][\A x \in Targets :
          files[x] \in 1 .. MaxEdits /\ files'[x] # files[x] =>
              \/ edits' = edits + 1
              \/ \E t \in Txns :
                    \/ old[t][x] = files[x]
                    \/ pc[t] = "mutating" /\ at[t] = x /\ x \in Deletes[t]
                    \/ pc[t] = "restoring" /\ x \in todo[t]]_vars

\* Every command that starts gives its caller an answer, unless it is killed.
EveryCommandAnswers ==
    \A t \in Txns :
        pc[t] = "locking" ~> (outcome[t] # "none" \/ pc[t] = "dead")

\* The entries whose old content the recovery of t can put back.
Undoable(t) ==
    {x \in Targets : journal[t] \in Open \cup {"RECOVERY_REQUIRED"}
                     /\ entries[t][x] # "none"}

Undo == [t \in Txns |->
            [x \in Targets |-> IF x \in Undoable(t) THEN backup[t][x] ELSE NoOne]]

Update == INSTANCE UndoableUpdate
    WITH Files <- Targets, Writers <- Txns, Nothing <- NoOne,
         Planned <- [t \in Txns |-> [x \in Targets |-> New(t, x)]],
         Removes <- Deletes, Restorers <- Refreshes,
         undo <- Undo, changed <- wrote, done <- committed

\* The transactions together, with failing writes, crashes, lost locks, pruned
\* records and edits, implement updates that can be undone until they are
\* committed, and are committed only when every target was changed.
ImplementsUndoableUpdate == Update!Spec
=============================================================================
