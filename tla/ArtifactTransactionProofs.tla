---------------------- MODULE ArtifactTransactionProofs ----------------------
(***************************************************************************)
(* Theorems about ArtifactTransaction for any number of transactions and   *)
(* files, whatever each of them removes or refreshes, and any number of    *)
(* faults and edits.                                                       *)
(***************************************************************************)
EXTENDS ArtifactTransaction, FiniteSetTheorems, TLAPS

USE NamesAssumption, PlansAssumption, BoundAssumption

(***************************************************************************)
(* Where a process stands says what its record can be                      *)
(***************************************************************************)
Before == {"idle", "locking", "preflight", "creating"}

During == {"starting", "marking", "comparing", "backing", "mutating",
           "recording", "applied", "verifying", "checking", "committing"}

Entry == {"comparing", "backing", "mutating", "recording"}

After == {"telling", "restoring", "leaving", "ended", "dead"}

PlacedIn(t) ==
    /\ journal[t] = "COMMITTED" => t \in committed
    /\ pc[t] \in Before => journal[t] = "none" /\ wrote[t] = {}
    /\ pc[t] \in Before \cup During => t \notin committed
    /\ pc[t] \in During => journal[t] \in Open
    /\ pc[t] \in {"cleaning", "rechecking"} =>
          t \in committed /\ journal[t] \notin Open
    /\ pc[t] \in Entry => at[t] \in Targets /\ entries[t][at[t]] # "none"
    /\ pc[t] = "mutating" => backup[t][at[t]] = old[t][at[t]]
    /\ pc[t] = "restoring" => t \in Refreshes
    /\ outcome[t] # "none" => pc[t] \in After

Placed == \A t \in Txns : PlacedIn(t)

(***************************************************************************)
(* Types                                                                   *)
(***************************************************************************)
LEMMA InitTyped == Init => TypeOK
  BY DEF Init, TypeOK, FileTypes, PointTypes, LockTypes, MemoryTypes,
         RecordTypes, HistoryTypes, BudgetTypes, Contents, Points, Outcomes,
         States

\* A removed target is absent and nothing else.
LEMMA NewTyped ==
    ASSUME NEW t \in Txns, NEW x \in Targets
    PROVE  New(t, x) \in Contents
  BY DEF New, Contents

LEMMA PointNames ==
    {"idle", "locking", "preflight", "comparing", "checking", "cleaning",
     "rechecking", "recovering", "telling", "restoring", "leaving", "ended",
     "dead", "creating", "starting", "marking", "backing", "mutating",
     "recording", "applied", "verifying", "committing", "converging"}
        \subseteq Points
  BY DEF Points, Guarded

LEMMA OutcomeNames ==
    {"none", "locked", "refused", "lock lost", "recovery", "not persisted",
     "not converged", "not clean", "success"} \subseteq Outcomes
  BY DEF Outcomes

LEMMA GotoTyped ==
    ASSUME PointTypes, NEW t, NEW point \in Points, Goto(t, point)
    PROVE  pc' \in [Txns -> Points]
  BY DEF PointTypes, Goto

LEMMA OutcomeKept ==
    ASSUME PointTypes, UNCHANGED outcome
    PROVE  outcome' \in [Txns -> Outcomes]
  BY DEF PointTypes

LEMMA EndsTyped ==
    ASSUME PointTypes, NEW t, NEW how \in Outcomes, Ends(t, how)
    PROVE  PointTypes'
  BY PointNames DEF PointTypes, Ends, Goto

LEMMA AfterErrorTyped ==
    ASSUME PointTypes, MemoryTypes, NEW t, AfterError(t)
    PROVE  /\ pc' \in [Txns -> Points]
           /\ todo' \in [Txns -> SUBSET Targets]
<1>1. CASE t \in Refreshes
  BY <1>1, GotoTyped, PointNames DEF AfterError, MemoryTypes
<1>2. CASE t \notin Refreshes
  BY <1>2, GotoTyped, PointNames DEF AfterError, MemoryTypes
<1> QED
  BY <1>1, <1>2

LEMMA ErrorTyped ==
    ASSUME PointTypes, MemoryTypes, NEW t, NEW how \in Outcomes,
           AfterError(t), outcome' = [outcome EXCEPT ![t] = how],
           UNCHANGED <<at, old>>
    PROVE  PointTypes' /\ MemoryTypes'
<1>1. /\ pc' \in [Txns -> Points]
      /\ todo' \in [Txns -> SUBSET Targets]
  BY AfterErrorTyped
<1> QED
  BY <1>1 DEF PointTypes, MemoryTypes

LEMMA WritesTyped ==
    ASSUME LockTypes, BudgetTypes, NEW t, NEW point, Writes(t, point)
    PROVE  LockTypes' /\ edits' = edits
  BY DEF LockTypes, Writes

LEMMA CostsTyped ==
    ASSUME BudgetTypes, UNCHANGED edits, NEW told \in BOOLEAN, Costs(told)
    PROVE  BudgetTypes'
  BY DEF BudgetTypes, Costs

LEMMA FaultSpent ==
    ASSUME BudgetTypes, UNCHANGED edits, faults < MaxFaults,
           faults' = faults + 1
    PROVE  BudgetTypes'
  BY DEF BudgetTypes

LEMMA EditSpent ==
    ASSUME BudgetTypes, UNCHANGED faults, edits < MaxEdits, edits' = edits + 1
    PROVE  BudgetTypes' /\ edits + 1 \in Contents
  BY DEF BudgetTypes, Contents

\* What is unchanged keeps its type.
LEMMA Kept ==
    ASSUME TypeOK
    PROVE  /\ UNCHANGED files => FileTypes'
           /\ UNCHANGED <<pc, outcome>> => PointTypes'
           /\ UNCHANGED <<lock, sure>> => LockTypes'
           /\ UNCHANGED memory => MemoryTypes'
           /\ UNCHANGED record => RecordTypes'
           /\ UNCHANGED history => HistoryTypes'
           /\ UNCHANGED <<faults, edits>> => BudgetTypes'
<1>1. UNCHANGED files => FileTypes'
  BY DEF TypeOK, FileTypes
<1>2. UNCHANGED <<pc, outcome>> => PointTypes'
  BY DEF TypeOK, PointTypes
<1>3. UNCHANGED <<lock, sure>> => LockTypes'
  BY DEF TypeOK, LockTypes
<1>4. UNCHANGED memory => MemoryTypes'
  BY DEF TypeOK, MemoryTypes, memory
<1>5. UNCHANGED record => RecordTypes'
  BY DEF TypeOK, RecordTypes, record
<1>6. UNCHANGED history => HistoryTypes'
  BY DEF TypeOK, HistoryTypes, history
<1>7. UNCHANGED <<faults, edits>> => BudgetTypes'
  BY DEF TypeOK, BudgetTypes
<1> QED
  BY <1>1, <1>2, <1>3, <1>4, <1>5, <1>6, <1>7

LEMMA BornTyped == Cardinality({u \in Txns : born[u] > 0}) + 1 \in Nat
<1>1. IsFiniteSet({u \in Txns : born[u] > 0})
  BY FS_Subset
<1> QED
  BY <1>1, FS_CardinalityType

LEMMA ChangesTyped ==
    ASSUME FileTypes, HistoryTypes, NEW t \in Txns, NEW x \in Targets,
           NEW content \in Contents, Changes(t, x, content)
    PROVE  /\ FileTypes'
           /\ since' \in [Txns -> SUBSET Targets]
           /\ late' \in [Txns -> Nat]
  BY DEF FileTypes, HistoryTypes, Changes

LEMMA AdvanceTyped ==
    ASSUME TypeOK, NEW t \in Txns, NEW point, NEW from, NEW to \in States,
           NEW next \in Points, Advance(t, point, from, to, next)
    PROVE  TypeOK'
<1>1. PICK a \in Answers :
          /\ Costs(a.told)
          /\ journal' = IF a.done THEN [journal EXCEPT ![t] = to] ELSE journal
          /\ committed' = IF a.done /\ to = "COMMITTED"
                           THEN committed \cup {t} ELSE committed
          /\ Goto(t, IF a.told THEN next ELSE "recovering")
  BY DEF Advance
<1>2. LockTypes' /\ BudgetTypes'
  BY <1>1, WritesTyped, CostsTyped DEF Advance, Answers, TypeOK
<1>3. PointTypes'
  <2>1. pc' \in [Txns -> Points]
    BY <1>1, GotoTyped, PointNames DEF TypeOK
  <2> QED
    BY <2>1 DEF Advance, TypeOK, PointTypes
<1>4. RecordTypes'
  BY <1>1 DEF Advance, TypeOK, RecordTypes
<1>5. HistoryTypes'
  BY <1>1 DEF Advance, TypeOK, HistoryTypes
<1>6. FileTypes' /\ MemoryTypes'
  BY Kept DEF Advance
<1> QED
  BY <1>2, <1>3, <1>4, <1>5, <1>6 DEF TypeOK

LEMMA StepTyped ==
    ASSUME TypeOK, Placed, [Next]_vars
    PROVE  TypeOK'
<1> USE PointNames, OutcomeNames, Kept DEF TypeOK
<1>1. ASSUME NEW t \in Txns, Begin(t) PROVE TypeOK'
  <2>1. PointTypes'
    BY <1>1, GotoTyped, OutcomeKept DEF Begin, PointTypes
  <2>2. MemoryTypes'
    BY <1>1 DEF Begin, MemoryTypes, FileTypes
  <2> QED
    BY <1>1, <2>1, <2>2 DEF Begin
<1>2. ASSUME NEW t \in Txns, Acquire(t) PROVE TypeOK'
  <2>1. PointTypes'
    BY <1>2, GotoTyped, OutcomeKept DEF Acquire, PointTypes
  <2>2. LockTypes'
    BY <1>2 DEF Acquire, LockTypes
  <2> QED
    BY <1>2, <2>1, <2>2 DEF Acquire
<1>3. ASSUME NEW t \in Txns, FindLocked(t) PROVE TypeOK'
  <2>1. pc' \in [Txns -> Points]
    BY <1>3, GotoTyped DEF FindLocked
  <2>2. PointTypes'
    BY <1>3, <2>1 DEF FindLocked, PointTypes
  <2> QED
    BY <1>3, <2>2 DEF FindLocked
<1>4. ASSUME NEW t \in Txns, Preflight(t) PROVE TypeOK'
  <2>1. PointTypes'
    <3>1. CASE Goto(t, "creating") /\ UNCHANGED outcome
      BY <3>1, GotoTyped, OutcomeKept DEF PointTypes
    <3>2. CASE Ends(t, "refused")
      BY <3>2, EndsTyped
    <3> QED
      BY <1>4, <3>1, <3>2 DEF Preflight
  <2> QED
    BY <1>4, <2>1 DEF Preflight
<1>5. ASSUME NEW t \in Txns, AssertOwner(t) PROVE TypeOK'
  <2>1. CASE lock = t
    <3>1. LockTypes'
      BY <1>5, <2>1 DEF AssertOwner, LockTypes
    <3> QED
      BY <1>5, <2>1, <3>1 DEF AssertOwner
  <2>2. CASE lock # t
    BY <1>5, <2>2, EndsTyped DEF AssertOwner
  <2> QED
    BY <2>1, <2>2
<1>6. ASSUME NEW t \in Txns, Create(t) PROVE TypeOK'
  <2>1. PICK gone \in SUBSET Prunable, a \in Answers :
          /\ Costs(a.told)
          /\ journal' = [u \in Txns |->
                IF u = t THEN IF a.done THEN "PREPARED" ELSE "none"
                ELSE IF u \in gone THEN "none" ELSE journal[u]]
          /\ entries' = [u \in Txns |->
                IF u \in gone THEN [x \in Targets |-> "none"] ELSE entries[u]]
          /\ backup' = [u \in Txns |->
                IF u \in gone THEN [x \in Targets |-> NoOne] ELSE backup[u]]
          /\ marker' = [u \in Txns |-> u \notin gone /\ marker[u]]
          /\ receipt' = [u \in Txns |-> u \notin gone /\ receipt[u]]
          /\ born' = [born EXCEPT ![t] =
                Cardinality({u \in Txns : born[u] > 0}) + 1]
          /\ IF a.told THEN Goto(t, "starting") /\ UNCHANGED outcome
                       ELSE Ends(t, "refused")
    BY <1>6 DEF Create
  <2>2. LockTypes' /\ BudgetTypes'
    BY <1>6, <2>1, WritesTyped, CostsTyped DEF Create, Answers
  <2>3. PointTypes'
    <3>1. CASE a.told
      BY <2>1, <3>1, GotoTyped, OutcomeKept DEF PointTypes
    <3>2. CASE ~a.told
      BY <2>1, <3>2, EndsTyped
    <3> QED
      BY <3>1, <3>2
  <2>4. RecordTypes'
    <3>1. /\ journal' \in [Txns -> States]
          /\ entries' \in [Txns -> [Targets -> {"none", "pending", "applied"}]]
          /\ backup' \in [Txns -> [Targets -> Contents \cup {NoOne}]]
      BY <2>1 DEF RecordTypes, States, Open
    <3>2. /\ marker' \in [Txns -> BOOLEAN]
          /\ receipt' \in [Txns -> BOOLEAN]
      BY <2>1, Zenon DEF RecordTypes
    <3>3. born' \in [Txns -> Nat]
      <4> DEFINE stamp == Cardinality({u \in Txns : born[u] > 0}) + 1
      <4>1. stamp \in Nat /\ born' = [born EXCEPT ![t] = stamp]
        BY <2>1, BornTyped
      <4> HIDE DEF stamp
      <4> QED
        BY <4>1 DEF RecordTypes
    <3> QED
      BY <3>1, <3>2, <3>3 DEF RecordTypes
  <2>5. MemoryTypes'
    BY <1>6 DEF Create, MemoryTypes
  <2> QED
    BY <1>6, <2>2, <2>3, <2>4, <2>5 DEF Create
<1>7. ASSUME NEW t \in Txns, Start(t) \/ Applied(t) \/ Verifying(t) \/ Commit(t)
      PROVE  TypeOK'
  <2>1. {"APPLYING", "APPLIED", "VERIFYING", "COMMITTED"} \subseteq States
    BY DEF States, Open
  <2> QED
    BY <1>7, <2>1, AdvanceTyped DEF Start, Applied, Verifying, Commit
<1>8. ASSUME NEW t \in Txns, MarkPending(t) PROVE TypeOK'
  <2>1. PICK x \in todo[t], a \in Answers :
          /\ Costs(a.told)
          /\ at' = [at EXCEPT ![t] = x]
          /\ todo' = [todo EXCEPT ![t] = @ \ {x}]
          /\ entries' = IF a.done THEN [entries EXCEPT ![t][x] = "pending"]
                                  ELSE entries
          /\ Goto(t, IF a.told THEN "comparing" ELSE "recovering")
    BY <1>8 DEF MarkPending
  <2>2. LockTypes' /\ BudgetTypes'
    BY <1>8, <2>1, WritesTyped, CostsTyped DEF MarkPending, Answers
  <2>3. PointTypes'
    BY <1>8, <2>1, GotoTyped DEF MarkPending, PointTypes
  <2>4. MemoryTypes'
    BY <1>8, <2>1 DEF MarkPending, MemoryTypes
  <2>5. RecordTypes'
    BY <1>8, <2>1 DEF MarkPending, RecordTypes
  <2> QED
    BY <1>8, <2>2, <2>3, <2>4, <2>5 DEF MarkPending
<1>9. ASSUME NEW t \in Txns, Compare(t) PROVE TypeOK'
  <2>1. PointTypes'
    BY <1>9, GotoTyped DEF Compare, PointTypes
  <2> QED
    BY <1>9, <2>1 DEF Compare
<1>10. ASSUME NEW t \in Txns, BackUp(t) PROVE TypeOK'
  <2>0. at[t] \in Targets
    BY <1>10 DEF Placed, PlacedIn, BackUp, Writes, Entry
  <2>1. PICK a \in Answers :
          /\ Costs(a.told)
          /\ backup' = IF a.done
                       THEN [backup EXCEPT ![t][at[t]] = old[t][at[t]]]
                       ELSE backup
          /\ Goto(t, IF a.told THEN "mutating" ELSE "recovering")
    BY <1>10 DEF BackUp
  <2>2. LockTypes' /\ BudgetTypes'
    BY <1>10, <2>1, WritesTyped, CostsTyped DEF BackUp, Answers
  <2>3. PointTypes'
    BY <1>10, <2>1, GotoTyped DEF BackUp, PointTypes
  <2>4. RecordTypes'
    <3>1. old[t][at[t]] \in Contents
      <4>1. old[t] \in [Targets -> Contents]
        BY DEF MemoryTypes
      <4> QED
        BY <2>0, <4>1
    <3>2. backup' \in [Txns -> [Targets -> Contents \cup {NoOne}]]
      BY <2>0, <2>1, <3>1 DEF RecordTypes
    <3> QED
      BY <1>10, <3>2 DEF BackUp, RecordTypes
  <2> QED
    BY <1>10, <2>2, <2>3, <2>4 DEF BackUp
<1>11. ASSUME NEW t \in Txns, Mutate(t) PROVE TypeOK'
  <2>0. at[t] \in Targets
    BY <1>11 DEF Placed, PlacedIn, Mutate, Writes, Entry
  <2>1. LockTypes' /\ UNCHANGED edits
    BY <1>11, WritesTyped DEF Mutate
  <2>2. CASE /\ Changes(t, at[t], New(t, at[t]))
             /\ wrote' = [wrote EXCEPT ![t] = @ \cup {at[t]}]
             /\ \E told \in BOOLEAN :
                   /\ Costs(told)
                   /\ Goto(t, IF told THEN "recording" ELSE "recovering")
    <3>1. BudgetTypes'
      BY <2>1, <2>2, CostsTyped
    <3>2. PointTypes'
      BY <1>11, <2>2, GotoTyped DEF Mutate, PointTypes
    <3>3. /\ FileTypes'
          /\ since' \in [Txns -> SUBSET Targets]
          /\ late' \in [Txns -> Nat]
      BY <2>0, <2>2, ChangesTyped, NewTyped
    <3>4. HistoryTypes'
      <4>1. wrote' \in [Txns -> SUBSET Targets]
        BY <2>0, <2>2 DEF HistoryTypes
      <4>2. committed' \subseteq Txns
        BY <1>11 DEF Mutate, HistoryTypes
      <4> QED
        BY <3>3, <4>1, <4>2 DEF HistoryTypes
    <3> QED
      BY <1>11, <2>1, <3>1, <3>2, <3>3, <3>4 DEF Mutate
  <2>3. CASE /\ Replaceable(t, at[t]) => faults < MaxFaults
             /\ faults' = IF Replaceable(t, at[t]) THEN faults + 1 ELSE faults
             /\ Goto(t, "recovering")
             /\ UNCHANGED <<files, wrote, since, late>>
    <3>1. BudgetTypes'
      BY <2>1, <2>3, FaultSpent DEF BudgetTypes
    <3>2. PointTypes'
      BY <1>11, <2>3, GotoTyped DEF Mutate, PointTypes
    <3>3. FileTypes' /\ HistoryTypes'
      BY <1>11, <2>3 DEF Mutate, FileTypes, HistoryTypes
    <3> QED
      BY <1>11, <2>1, <3>1, <3>2, <3>3 DEF Mutate
  <2> QED
    BY <1>11, <2>2, <2>3 DEF Mutate
<1>12. ASSUME NEW t \in Txns, RecordApplied(t) PROVE TypeOK'
  <2>0. at[t] \in Targets
    BY <1>12 DEF Placed, PlacedIn, RecordApplied, Writes, Entry
  <2>1. PICK a \in Answers :
          /\ Costs(a.told)
          /\ entries' = IF a.done THEN [entries EXCEPT ![t][at[t]] = "applied"]
                                  ELSE entries
          /\ Goto(t, IF ~a.told THEN "recovering"
                     ELSE IF todo[t] = {} THEN "applied" ELSE "marking")
    BY <1>12 DEF RecordApplied
  <2>2. LockTypes' /\ BudgetTypes'
    BY <1>12, <2>1, WritesTyped, CostsTyped DEF RecordApplied, Answers
  <2>3. PointTypes'
    BY <1>12, <2>1, GotoTyped DEF RecordApplied, PointTypes
  <2>4. RecordTypes'
    BY <1>12, <2>0, <2>1 DEF RecordApplied, RecordTypes
  <2> QED
    BY <1>12, <2>2, <2>3, <2>4 DEF RecordApplied
<1>13. ASSUME NEW t \in Txns, Verify(t) PROVE TypeOK'
  <2>1. PointTypes'
    BY <1>13, GotoTyped DEF Verify, PointTypes
  <2>2. HistoryTypes'
    BY <1>13 DEF Verify, HistoryTypes
  <2> QED
    BY <1>13, <2>1, <2>2 DEF Verify
<1>14. ASSUME NEW t \in Txns, Converge(t) PROVE TypeOK'
  <2>1. LockTypes' /\ UNCHANGED edits
    BY <1>14, WritesTyped DEF Converge
  <2>2. UNCHANGED <<files, at, old, journal, entries, backup, marker, born>>
        /\ UNCHANGED history
    BY <1>14 DEF Converge
  <2>3. ASSUME NEW a \in Answers,
               Costs(a.told),
               receipt' = [receipt EXCEPT ![t] = a.done],
               IF a.told
               THEN Goto(t, "cleaning") /\ UNCHANGED <<todo, outcome>>
               ELSE /\ AfterError(t)
                    /\ outcome' = [outcome EXCEPT ![t] = "not converged"]
        PROVE  TypeOK'
    <3>1. BudgetTypes'
      BY <2>1, <2>3, CostsTyped DEF Answers
    <3>2. PointTypes' /\ MemoryTypes'
      <4>1. CASE a.told
        BY <2>2, <2>3, <4>1, GotoTyped DEF PointTypes, MemoryTypes
      <4>2. CASE ~a.told
        BY <2>2, <2>3, <4>2, ErrorTyped
      <4> QED
        BY <4>1, <4>2
    <3>3. RecordTypes'
      BY <2>2, <2>3 DEF RecordTypes, Answers
    <3> QED
      BY <2>1, <2>2, <3>1, <3>2, <3>3
  <2>4. CASE /\ IF journal[t] = "COMMITTED" THEN Costs(FALSE)
                                            ELSE UNCHANGED faults
             /\ Goto(t, "recovering")
             /\ UNCHANGED <<todo, outcome, receipt>>
    <3>1. BudgetTypes'
      BY <2>1, <2>4, CostsTyped DEF BudgetTypes
    <3>2. PointTypes' /\ MemoryTypes'
      BY <2>2, <2>4, GotoTyped DEF PointTypes, MemoryTypes
    <3> QED
      BY <2>1, <2>2, <2>4, <3>1, <3>2 DEF record
  <2> QED
    BY <1>14, <2>3, <2>4 DEF Converge
<1>15. ASSUME NEW t \in Txns, Clean(t) PROVE TypeOK'
  <2>1. PICK a \in Answers :
          /\ Costs(a.told)
          /\ IF a.done
             THEN /\ marker' = [marker EXCEPT ![t] = FALSE]
                  /\ backup' = [backup EXCEPT ![t] =
                                   [x \in Targets |-> NoOne]]
             ELSE UNCHANGED <<marker, backup>>
          /\ IF ~a.told
             THEN /\ AfterError(t)
                  /\ outcome' = [outcome EXCEPT ![t] = "not converged"]
             ELSE IF t \in Refreshes
             THEN Goto(t, "rechecking") /\ UNCHANGED <<todo, outcome>>
             ELSE Ends(t, "success") /\ UNCHANGED todo
    BY <1>15 DEF Clean
  <2>2. BudgetTypes'
    BY <1>15, <2>1, CostsTyped DEF Clean, Answers
  <2>3. PointTypes' /\ MemoryTypes'
    <3>1. CASE ~a.told
      BY <1>15, <2>1, <3>1, ErrorTyped DEF Clean
    <3>2. CASE a.told /\ t \in Refreshes
      BY <1>15, <2>1, <3>2, GotoTyped DEF Clean, PointTypes, MemoryTypes
    <3>3. CASE a.told /\ t \notin Refreshes
      BY <1>15, <2>1, <3>3, EndsTyped DEF Clean, MemoryTypes
    <3> QED
      BY <3>1, <3>2, <3>3
  <2>4. RecordTypes'
    <3>1. CASE a.done
      <4>0. /\ marker' = [marker EXCEPT ![t] = FALSE]
            /\ backup' = [backup EXCEPT ![t] = [x \in Targets |-> NoOne]]
        BY <2>1, <3>1
      <4>1. marker' \in [Txns -> BOOLEAN]
        BY <4>0 DEF RecordTypes
      <4>2. backup' \in [Txns -> [Targets -> Contents \cup {NoOne}]]
        BY <4>0 DEF RecordTypes
      <4> QED
        BY <1>15, <4>1, <4>2 DEF Clean, RecordTypes
    <3>2. CASE ~a.done
      BY <1>15, <2>1, <3>2 DEF Clean, record
    <3> QED
      BY <3>1, <3>2
  <2> QED
    BY <1>15, <2>2, <2>3, <2>4 DEF Clean
<1>16. ASSUME NEW t \in Txns, Recheck(t) PROVE TypeOK'
  <2>1. PointTypes'
    BY <1>16, EndsTyped DEF Recheck
  <2> QED
    BY <1>16, <2>1 DEF Recheck
<1>17. ASSUME NEW t \in Txns, Recover(t) PROVE TypeOK'
  <2>1. /\ Goto(t, "telling")
        /\ UNCHANGED <<files, lock, sure, at, todo, old, entries, backup,
                       receipt, marker, born, edits>>
        /\ UNCHANGED history
    BY <1>17 DEF Recover
  <2>2. CASE \E a \in Answers :
                /\ Costs(a.told)
                /\ journal' = IF a.done
                              THEN [journal EXCEPT ![t] = "RECOVERY_REQUIRED"]
                              ELSE journal
                /\ outcome' = [outcome EXCEPT ![t] =
                       IF a.told THEN "recovery" ELSE "not persisted"]
    <3>1. BudgetTypes'
      BY <2>1, <2>2, CostsTyped DEF Answers
    <3>2. PointTypes'
      <4>1. pc' \in [Txns -> Points]
        BY <2>1, GotoTyped
      <4>2. outcome' \in [Txns -> Outcomes]
        BY <2>2 DEF PointTypes
      <4> QED
        BY <4>1, <4>2 DEF PointTypes
    <3>3. RecordTypes'
      BY <2>1, <2>2 DEF RecordTypes, States
    <3> QED
      BY <2>1, <3>1, <3>2, <3>3 DEF memory
  <2>3. CASE /\ outcome' = [outcome EXCEPT ![t] = "not persisted"]
             /\ UNCHANGED <<journal, faults>>
    <3>1. PointTypes'
      BY <2>1, <2>3, GotoTyped DEF PointTypes
    <3> QED
      BY <2>1, <2>3, <3>1 DEF memory, record
  <2> QED
    BY <1>17, <2>2, <2>3 DEF Recover
<1>18. ASSUME NEW t \in Txns, Tell(t) PROVE TypeOK'
  <2>1. PointTypes' /\ MemoryTypes'
    BY <1>18, AfterErrorTyped DEF Tell, PointTypes, MemoryTypes
  <2>2. /\ UNCHANGED <<files, lock, sure, journal, entries, backup, receipt,
                       born, edits>>
        /\ UNCHANGED history
    BY <1>18 DEF Tell
  <2>3. CASE \E a \in Answers :
                /\ Costs(a.told)
                /\ marker' = IF a.done THEN [marker EXCEPT ![t] = TRUE]
                                       ELSE marker
    <3>1. BudgetTypes'
      BY <2>2, <2>3, CostsTyped DEF Answers
    <3>2. RecordTypes'
      BY <2>2, <2>3 DEF RecordTypes
    <3> QED
      BY <2>1, <2>2, <3>1, <3>2
  <2>4. CASE UNCHANGED <<marker, faults>>
    BY <2>1, <2>2, <2>4 DEF record
  <2> QED
    BY <1>18, <2>3, <2>4 DEF Tell
<1>19. ASSUME NEW t \in Txns, Restore(t) PROVE TypeOK'
  <2>1. PICK x \in todo[t] :
          /\ todo' = [todo EXCEPT ![t] = @ \ {x}]
          /\ \/ /\ Goto(t, IF todo[t] = {x} THEN "leaving" ELSE "restoring")
                /\ UNCHANGED <<files, since, late, faults>>
             \/ /\ Changes(t, x, old[t][x])
                /\ \E told \in BOOLEAN :
                      /\ Costs(told)
                      /\ Goto(t, IF told /\ todo[t] # {x} THEN "restoring"
                                                         ELSE "leaving")
             \/ /\ Costs(FALSE)
                /\ Goto(t, "leaving")
                /\ UNCHANGED <<files, since, late>>
    BY <1>19 DEF Restore
  <2>2. x \in Targets /\ old[t][x] \in Contents
    <3>1. todo[t] \subseteq Targets /\ old[t] \in [Targets -> Contents]
      BY DEF MemoryTypes
    <3> QED
      BY <3>1
  <2>3. /\ UNCHANGED <<lock, sure, at, old, outcome, wrote, committed, edits>>
        /\ UNCHANGED record
    BY <1>19 DEF Restore
  <2>4. BudgetTypes'
    BY <2>1, <2>3, CostsTyped DEF BudgetTypes
  <2>5. PointTypes'
    BY <2>1, <2>3, GotoTyped DEF PointTypes
  <2>6. FileTypes' /\ since' \in [Txns -> SUBSET Targets]
                   /\ late' \in [Txns -> Nat]
    BY <2>1, <2>2, ChangesTyped DEF FileTypes, HistoryTypes
  <2>7. MemoryTypes' /\ HistoryTypes'
    BY <2>1, <2>3, <2>6 DEF MemoryTypes, HistoryTypes
  <2> QED
    BY <2>3, <2>4, <2>5, <2>6, <2>7
<1>20. ASSUME NEW t \in Txns, Leave(t) PROVE TypeOK'
  <2>1. pc' \in [Txns -> Points]
    BY <1>20, GotoTyped DEF Leave
  <2>2. LockTypes'
    BY <1>20 DEF Leave, LockTypes
  <2>3. outcome' \in [Txns -> Outcomes]
    <3>1. CASE outcome' = [outcome EXCEPT ![t] = "lock lost"]
      BY <3>1 DEF PointTypes
    <3>2. CASE outcome' = outcome
      BY <3>2 DEF PointTypes
    <3> QED
      BY <1>20, <3>1, <3>2 DEF Leave
  <2>4. PointTypes'
    BY <2>1, <2>3 DEF PointTypes
  <2> QED
    BY <1>20, <2>2, <2>4 DEF Leave
<1>21. ASSUME NEW t \in Txns, Crash(t) PROVE TypeOK'
  <2>1. PointTypes'
    BY <1>21, GotoTyped DEF Crash, PointTypes
  <2>2. BudgetTypes'
    BY <1>21, FaultSpent DEF Crash
  <2> QED
    BY <1>21, <2>1, <2>2 DEF Crash
<1>22. CASE BreakLock
  <2>1. LockTypes'
    BY <1>22 DEF BreakLock, LockTypes
  <2>2. BudgetTypes'
    BY <1>22, FaultSpent DEF BreakLock, BudgetTypes
  <2> QED
    BY <1>22, <2>1, <2>2 DEF BreakLock
<1>23. ASSUME NEW x \in Targets, Edit(x) PROVE TypeOK'
  <2>1. BudgetTypes' /\ edits + 1 \in Contents /\ Absent \in Contents
    BY <1>23, EditSpent DEF Edit, Contents
  <2>3. FileTypes'
    BY <1>23, <2>1 DEF Edit, FileTypes
  <2>2. HistoryTypes'
    BY <1>23 DEF Edit, HistoryTypes
  <2> QED
    BY <1>23, <2>1, <2>2, <2>3 DEF Edit
<1>24. CASE UNCHANGED vars
  BY <1>24 DEF vars
<1> QED
  BY <1>1, <1>2, <1>3, <1>4, <1>5, <1>6, <1>7, <1>8, <1>9, <1>10, <1>11,
     <1>12, <1>13, <1>14, <1>15, <1>16, <1>17, <1>18, <1>19, <1>20, <1>21,
     <1>22, <1>23, <1>24 DEF Next, Step
=============================================================================
