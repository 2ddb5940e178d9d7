------------------------ MODULE PlanAuthorityProofs ------------------------
(***************************************************************************)
(* Theorems about PlanAuthority for any number of commands, plans,         *)
(* operators and crashes.                                                  *)
(***************************************************************************)
EXTENDS PlanAuthority, TLAPS

USE NamesAssumption, CrashAssumption, BreakableAssumption
USE DEF Job, Idle, Kinds, RunFiles, Holding, Points

(***************************************************************************)
(* Types                                                                   *)
(***************************************************************************)

\* No step leads out of the types: in particular an approval always has its
\* plan, which needs that approve is only ever asked for a plan that exists.
Asks ==
    \A c \in Commands :
        /\ pc[c] # "idle" => job[c] \in Job
        /\ job[c].kind \in {"approve", "publish"} => job[c].plan \in plans
        /\ job[c].kind = "freeze" => job[c].plan \in candidates

LEMMA InitTyped == Init => TypeOK /\ Asks
  BY DEF Init, TypeOK, Asks

LEMMA StepTyped ==
    ASSUME TypeOK, Asks, [Next]_vars
    PROVE  TypeOK' /\ Asks'
<1> USE DEF TypeOK, Asks, Goto, LeaveUnproven
<1>1. ASSUME NEW c \in Commands, Begin(c) PROVE TypeOK' /\ Asks'
  BY <1>1 DEF Begin, Asked, Assign, Fresh, Direct
<1>2. ASSUME NEW c \in Commands, BeginPublish(c) PROVE TypeOK' /\ Asks'
  BY <1>2 DEF BeginPublish, Assign
<1>3. ASSUME NEW c \in Commands, OpenRun(c) PROVE TypeOK' /\ Asks'
  BY <1>3 DEF OpenRun
<1>4. ASSUME NEW c \in Commands, PassGates(c) PROVE TypeOK' /\ Asks'
  BY <1>4 DEF PassGates
<1>5. ASSUME NEW c \in Commands, FailGates(c) PROVE TypeOK' /\ Asks'
  BY <1>5 DEF FailGates
<1>6. ASSUME NEW c \in Commands, Acquire(c) PROVE TypeOK' /\ Asks'
  BY <1>6 DEF Acquire, FirstPoint
<1>7. ASSUME NEW c \in Commands, FindLocked(c) PROVE TypeOK' /\ Asks'
  BY <1>7 DEF FindLocked
<1>8. ASSUME NEW c \in Commands, Release(c) PROVE TypeOK' /\ Asks'
  BY <1>8 DEF Release
<1>9. ASSUME NEW c \in Commands, Decide(c) \/ Bind(c) \/ Check(c)
      PROVE  TypeOK' /\ Asks'
  BY <1>9 DEF Decide, Bind, Check
<1>10. ASSUME NEW c \in Commands, Refuse(c) PROVE TypeOK' /\ Asks'
  BY <1>10 DEF Refuse
<1>11. ASSUME NEW c \in Commands, Write(c) PROVE TypeOK' /\ Asks'
  <2>1. job[c] \in Job
    BY <1>11 DEF Write
  <2>2. CASE Save(c)
    BY <1>11, <2>1, <2>2 DEF Write, Save
  <2>3. CASE Freeze(c)
    BY <1>11, <2>1, <2>3 DEF Write, Freeze
  <2>4. CASE Approve(c)
    BY <1>11, <2>1, <2>4 DEF Write, Approve
  <2>6. CASE FreezeDirectly(c)
    BY <1>11, <2>1, <2>6 DEF Write, FreezeDirectly
  <2>5. CASE FirstState(c)
    BY <1>11, <2>1, <2>5 DEF Write, FirstState
  <2> QED BY <1>11, <2>2, <2>3, <2>4, <2>5, <2>6 DEF Write
<1>12. ASSUME NEW c \in Commands, Crash(c) PROVE TypeOK' /\ Asks'
  BY <1>12 DEF Crash
<1>13. ASSUME NEW b \in Breakers, Inspect(b) PROVE TypeOK' /\ Asks'
  BY <1>13 DEF Inspect
<1>14. ASSUME NEW b \in Breakers, Recover(b) PROVE TypeOK' /\ Asks'
  BY <1>14 DEF Recover
<1>15. CASE UNCHANGED vars
  BY <1>15 DEF vars
<1> QED
  BY <1>1, <1>2, <1>3, <1>4, <1>5, <1>6, <1>7, <1>8, <1>9, <1>10, <1>11,
     <1>12, <1>13, <1>14, <1>15 DEF Next, Step

\* Every reachable state is well typed; this holds whatever locks are broken.
THEOREM TypesHold == Spec => []TypeOK
<1>1. Init => TypeOK /\ Asks
  BY InitTyped
<1>2. TypeOK /\ Asks /\ [Next]_vars => (TypeOK /\ Asks)'
  BY StepTyped
<1> QED BY <1>1, <1>2, PTL DEF Spec

(***************************************************************************)
(* The inductive invariant                                                 *)
(***************************************************************************)

Freezing(c) == job[c].kind = "freeze"
Adding(c) == job[c].kind = "direct"
Publishing(c) == job[c].kind = "publish"

\* Where a command stands says what it does, and what its run directory
\* shows: a publish has opened it before it takes the lock.
Standing ==
    \A c \in Commands :
        /\ pc[c] = "idle" => job[c] = Idle
        /\ ~Publishing(c) => run[c] = "none"
        /\ pc[c] \in {"idle", "opening"} => run[c] = "none"
        /\ Publishing(c) /\ pc[c] \in {"gates", "locking", "checking", "writing"}
              => run[c] = "evidence"
        /\ pc[c] \in {"opening", "gates"} => Publishing(c)
        /\ pc[c] = "deciding" => Freezing(c)
        /\ pc[c] = "binding" => job[c].kind \in {"save", "freeze"}
        /\ pc[c] = "checking" => job[c].kind \in {"approve", "publish"}
        /\ Adding(c) => pc[c] \in {"locking", "writing", "releasing", "ended", "dead"}

\* A candidate keeps its predecessor: its name was fresh when its only save
\* began, and a save that has yet to write is of a candidate that is not there.
\* The name of a plan frozen directly is no candidate's, and it replaces nothing.
Names ==
    /\ \A c \in Commands : Freezing(c) => job[c].pred = pred[job[c].plan]
    /\ \A c \in Commands :
          job[c].kind = "save" /\ pc[c] \in {"locking", "binding", "writing"}
              => job[c].plan \notin candidates \cup plans
    /\ \A c, d \in Commands :
          job[c].kind = "save" /\ job[d].kind \in {"save", "direct"}
             /\ job[c].plan = job[d].plan => c = d
    /\ \A c \in Commands : Adding(c) => job[c].plan \notin candidates
    /\ \A p \in Plans \ candidates : pred[p] = NoPlan

\* A freeze that lives holds the lock it took, whichever way it freezes.
Locked ==
    /\ lock # NoCommand => pc[lock] # "idle"
    /\ \A c \in Commands :
          (Freezing(c) \/ Adding(c)) /\ pc[c] \in Holding => lock = c
    /\ \A b \in Breakers : inspected[b] # NoCommand =>
          /\ pc[inspected[b]] # "idle"
          /\ Freezing(inspected[b]) \/ Adding(inspected[b])
                => pc[inspected[b]] = "dead"

\* What a freeze has seen of the plans is still so when it writes.
Basis ==
    \A c \in Commands : Freezing(c) =>
        /\ pc[c] \in {"binding", "writing"} =>
              DifferentBasis(job[c].plan) = {} /\ job[c].plan \notin plans
        /\ pc[c] = "writing" /\ job[c].pred # NoPlan =>
              job[c].pred \in plans \cap candidates /\ ~Replaced(job[c].pred)

\* While a replacement is about to be written, no publish is past the point
\* where it takes the lock.
Untouched ==
    \A c \in Commands :
        Freezing(c) /\ pc[c] = "writing" /\ job[c].pred # NoPlan =>
            \A d \in Commands :
                /\ run[d] # "state"
                /\ Publishing(d) => pc[d] \notin {"checking", "writing"}

\* A publish that may write its first state, or has, is of a plan in force.
Standard ==
    \A c \in Commands :
        (Publishing(c) /\ pc[c] = "writing") \/ run[c] = "state"
            => Publishing(c) /\ ~Replaced(job[c].plan)

Inv == /\ TypeOK /\ Asks
       /\ Standing /\ Names /\ Locked /\ Basis /\ Untouched /\ Standard
       /\ OneInForce

\* The locks of processes that live are not broken while they freeze.
FreezeKeepsLock == {"freeze", "direct"} \cap BreakableKinds = {}

LEMMA InitInv == Init => Inv
<1> SUFFICES ASSUME Init PROVE Inv
  OBVIOUS
<1>1. TypeOK /\ Asks
  BY InitTyped
<1>2. \A p \in plans : pred[p] = NoPlan
  BY DEF Init
<1>3. OneInForce
  BY <1>2 DEF Init, OneInForce, Lawful, Replaced
<1>4. Standing /\ Names /\ Locked /\ Basis /\ Untouched /\ Standard
  BY DEF Init, Standing, Names, Locked, Basis, Untouched, Standard, Freezing,
         Adding, Publishing
<1> QED BY <1>1, <1>3, <1>4 DEF Inv

LEMMA StandingKept ==
    ASSUME TypeOK, Asks, Standing, [Next]_vars
    PROVE  Standing'
<1> USE DEF TypeOK, Asks, Goto, LeaveUnproven, Freezing, Adding, Publishing, Standing
<1>1. ASSUME NEW c \in Commands, Begin(c) PROVE Standing'
  BY <1>1 DEF Begin, Asked, Assign, Fresh, Direct
<1>2. ASSUME NEW c \in Commands, BeginPublish(c) PROVE Standing'
  BY <1>2 DEF BeginPublish, Assign, NotReplaced
<1>3. ASSUME NEW c \in Commands, OpenRun(c) PROVE Standing'
  BY <1>3 DEF OpenRun
<1>4. ASSUME NEW c \in Commands, PassGates(c) PROVE Standing'
  BY <1>4 DEF PassGates
<1>5. ASSUME NEW c \in Commands, FailGates(c) PROVE Standing'
  BY <1>5 DEF FailGates
<1>6. ASSUME NEW c \in Commands, Acquire(c) PROVE Standing'
  BY <1>6 DEF Acquire, FirstPoint
<1>7. ASSUME NEW c \in Commands, FindLocked(c) PROVE Standing'
  BY <1>7 DEF FindLocked
<1>8. ASSUME NEW c \in Commands, Release(c) PROVE Standing'
  BY <1>8 DEF Release
<1>9. ASSUME NEW c \in Commands, Decide(c) PROVE Standing'
  BY <1>9 DEF Decide, Acceptable
<1>10. ASSUME NEW c \in Commands, Bind(c) PROVE Standing'
  BY <1>10 DEF Bind, Binds, NotReplaced
<1>11. ASSUME NEW c \in Commands, Check(c) PROVE Standing'
  BY <1>11 DEF Check, NotReplaced
<1>12. ASSUME NEW c \in Commands, Refuse(c) PROVE Standing'
  BY <1>12 DEF Refuse
<1>13. ASSUME NEW c \in Commands, Write(c) PROVE Standing'
  BY <1>13 DEF Write, Save, Freeze, FreezeDirectly, Approve, FirstState
<1>14. ASSUME NEW c \in Commands, Crash(c) PROVE Standing'
  BY <1>14 DEF Crash
<1>15. ASSUME NEW b \in Breakers, Inspect(b) PROVE Standing'
  BY <1>15 DEF Inspect
<1>16. ASSUME NEW b \in Breakers, Recover(b) PROVE Standing'
  BY <1>16 DEF Recover
<1>17. CASE UNCHANGED vars
  BY <1>17 DEF vars
<1> QED
  BY <1>1, <1>2, <1>3, <1>4, <1>5, <1>6, <1>7, <1>8, <1>9, <1>10, <1>11, <1>12, <1>13, <1>14, <1>15, <1>16, <1>17 DEF Next, Step

LEMMA NamesKept ==
    ASSUME TypeOK, Asks, Standing, Names, [Next]_vars
    PROVE  Names'
<1> USE DEF TypeOK, Goto, LeaveUnproven, Freezing, Adding, Publishing, Asks, Standing, Names
<1>1. ASSUME NEW c \in Commands, Begin(c) PROVE Names'
  BY <1>1 DEF Begin, Asked, Assign, Fresh, Direct
<1>2. ASSUME NEW c \in Commands, BeginPublish(c) PROVE Names'
  BY <1>2 DEF BeginPublish, Assign, NotReplaced
<1>3. ASSUME NEW c \in Commands, OpenRun(c) PROVE Names'
  BY <1>3 DEF OpenRun
<1>4. ASSUME NEW c \in Commands, PassGates(c) PROVE Names'
  BY <1>4 DEF PassGates
<1>5. ASSUME NEW c \in Commands, FailGates(c) PROVE Names'
  BY <1>5 DEF FailGates
<1>6. ASSUME NEW c \in Commands, Acquire(c) PROVE Names'
  BY <1>6 DEF Acquire, FirstPoint
<1>7. ASSUME NEW c \in Commands, FindLocked(c) PROVE Names'
  BY <1>7 DEF FindLocked
<1>8. ASSUME NEW c \in Commands, Release(c) PROVE Names'
  BY <1>8 DEF Release
<1>9. ASSUME NEW c \in Commands, Decide(c) PROVE Names'
  BY <1>9 DEF Decide, Acceptable
<1>10. ASSUME NEW c \in Commands, Bind(c) PROVE Names'
  BY <1>10 DEF Bind, Binds, NotReplaced
<1>11. ASSUME NEW c \in Commands, Check(c) PROVE Names'
  BY <1>11 DEF Check, NotReplaced
<1>12. ASSUME NEW c \in Commands, Refuse(c) PROVE Names'
  BY <1>12 DEF Refuse
<1>13. ASSUME NEW c \in Commands, Write(c) PROVE Names'
  BY <1>13 DEF Write, Save, Freeze, FreezeDirectly, Approve, FirstState
<1>14. ASSUME NEW c \in Commands, Crash(c) PROVE Names'
  BY <1>14 DEF Crash
<1>15. ASSUME NEW b \in Breakers, Inspect(b) PROVE Names'
  BY <1>15 DEF Inspect
<1>16. ASSUME NEW b \in Breakers, Recover(b) PROVE Names'
  BY <1>16 DEF Recover
<1>17. CASE UNCHANGED vars
  BY <1>17 DEF vars
<1> QED
  BY <1>1, <1>2, <1>3, <1>4, <1>5, <1>6, <1>7, <1>8, <1>9, <1>10, <1>11, <1>12, <1>13, <1>14, <1>15, <1>16, <1>17 DEF Next, Step

LEMMA LockedKept ==
    ASSUME FreezeKeepsLock, TypeOK, Asks, Standing, Locked, [Next]_vars
    PROVE  Locked'
<1> USE DEF TypeOK, Goto, LeaveUnproven, Freezing, Adding, Publishing, Standing, Locked,
            FreezeKeepsLock
<1>1. ASSUME NEW c \in Commands, Begin(c) PROVE Locked'
  BY <1>1 DEF Begin, Asked, Assign, Fresh, Direct
<1>2. ASSUME NEW c \in Commands, BeginPublish(c) PROVE Locked'
  BY <1>2 DEF BeginPublish, Assign, NotReplaced
<1>3. ASSUME NEW c \in Commands, OpenRun(c) PROVE Locked'
  BY <1>3 DEF OpenRun
<1>4. ASSUME NEW c \in Commands, PassGates(c) PROVE Locked'
  BY <1>4 DEF PassGates
<1>5. ASSUME NEW c \in Commands, FailGates(c) PROVE Locked'
  BY <1>5 DEF FailGates
<1>6. ASSUME NEW c \in Commands, Acquire(c) PROVE Locked'
  BY <1>6 DEF Acquire, FirstPoint
<1>7. ASSUME NEW c \in Commands, FindLocked(c) PROVE Locked'
  BY <1>7 DEF FindLocked
<1>8. ASSUME NEW c \in Commands, Release(c) PROVE Locked'
  BY <1>8 DEF Release
<1>9. ASSUME NEW c \in Commands, Decide(c) PROVE Locked'
  BY <1>9 DEF Decide, Acceptable
<1>10. ASSUME NEW c \in Commands, Bind(c) PROVE Locked'
  BY <1>10 DEF Bind, Binds, NotReplaced
<1>11. ASSUME NEW c \in Commands, Check(c) PROVE Locked'
  BY <1>11 DEF Check, NotReplaced
<1>12. ASSUME NEW c \in Commands, Refuse(c) PROVE Locked'
  BY <1>12 DEF Refuse
<1>13. ASSUME NEW c \in Commands, Write(c) PROVE Locked'
  BY <1>13 DEF Write, Save, Freeze, FreezeDirectly, Approve, FirstState
<1>14. ASSUME NEW c \in Commands, Crash(c) PROVE Locked'
  BY <1>14 DEF Crash
<1>15. ASSUME NEW b \in Breakers, Inspect(b) PROVE Locked'
  BY <1>15 DEF Inspect
<1>16. ASSUME NEW b \in Breakers, Recover(b) PROVE Locked'
  BY <1>16 DEF Recover
<1>17. CASE UNCHANGED vars
  BY <1>17 DEF vars
<1> QED
  BY <1>1, <1>2, <1>3, <1>4, <1>5, <1>6, <1>7, <1>8, <1>9, <1>10, <1>11, <1>12, <1>13, <1>14, <1>15, <1>16, <1>17 DEF Next, Step

\* What readers of the plan files make of them changes only by a freeze.
Steady ==
    /\ plans' = plans
    /\ candidates \subseteq candidates'
    /\ \A p \in candidates \cup plans :
          pred'[p] = pred[p] /\ (p \in candidates' <=> p \in candidates)

LEMMA OnlyFreezeChanges ==
    ASSUME TypeOK, Asks, Standing, Names, [Next]_vars
    PROVE  Steady \/ \E c \in Commands : Write(c) /\ (Freeze(c) \/ FreezeDirectly(c))
<1> USE DEF Steady
<1>1. ASSUME NEW c \in Commands, Write(c), ~Freeze(c), ~FreezeDirectly(c)
      PROVE  Steady
  <2>1. CASE Save(c)
    <3>1. job[c].plan \notin candidates \cup plans
      BY <1>1, <2>1 DEF Write, Save, Names
    <3> QED BY <2>1, <3>1 DEF Save, TypeOK
  <2> QED BY <1>1, <2>1 DEF Write, Approve, FirstState
<1>2. ASSUME NEW c \in Commands, Begin(c) \/ BeginPublish(c) \/ Crash(c)
      PROVE  Steady
  BY <1>2 DEF Begin, BeginPublish, Crash
<1>3. ASSUME NEW c \in Commands, Step(c), ~Write(c)
      PROVE  Steady
  BY <1>3 DEF Step, OpenRun, PassGates, FailGates, Acquire, FindLocked, Release,
              Decide, Bind, Check, Refuse
<1>4. ASSUME NEW b \in Breakers, Inspect(b) \/ Recover(b)
      PROVE  Steady
  BY <1>4 DEF Inspect, Recover
<1>5. CASE UNCHANGED vars
  BY <1>5 DEF vars
<1> QED BY <1>1, <1>2, <1>3, <1>4, <1>5 DEF Next

LEMMA SteadyReads ==
    ASSUME TypeOK, Steady
    PROVE  /\ \A p : Replaced(p)' <=> Replaced(p)
           /\ Lawful' <=> Lawful
           /\ \A p \in candidates : DifferentBasis(p)' = DifferentBasis(p)
           /\ (plans \cap candidates)' = plans \cap candidates
           /\ (plans \ candidates)' = plans \ candidates
<1>1. \A q \in plans : pred'[q] = pred[q]
  BY DEF Steady, TypeOK
<1>2. \A p : Replaced(p)' <=> Replaced(p)
  BY <1>1 DEF Steady, Replaced
<1>3. Lawful' <=> Lawful
  BY <1>1 DEF Steady, Lawful
<1>4. ASSUME NEW p \in candidates
      PROVE  DifferentBasis(p)' = DifferentBasis(p)
  BY <1>2, <1>4 DEF Steady, DifferentBasis
<1>5. /\ (plans \cap candidates)' = plans \cap candidates
      /\ (plans \ candidates)' = plans \ candidates
  BY DEF Steady
<1> QED BY <1>2, <1>3, <1>4, <1>5

\* A freeze leaves its own plan as the only one in force.
LEMMA FreezeReads ==
    ASSUME Inv, NEW c \in Commands, Write(c), Freeze(c),
           NEW p \in Plans, job[c].plan = p
    PROVE  /\ p \notin plans /\ plans' = plans \cup {p} /\ pred' = pred
           /\ \A q : Replaced(q)' <=> Replaced(q) \/ q = pred[p]
           /\ ~Replaced(p)' /\ \A q \in plans : Replaced(q)'
           /\ pred[p] # NoPlan => pred[p] \in plans \cap candidates /\ ~Replaced(pred[p])
           /\ p \in candidates /\ candidates' = candidates
           /\ plans \ candidates = {}
           /\ Lawful'
<1>1. Freezing(c) /\ pc[c] = "writing" /\ job[c].pred = pred[p]
  BY DEF Inv, Write, Freeze, Freezing, Asks, TypeOK, Names
<1>2. p \notin plans /\ DifferentBasis(p) = {}
  BY <1>1 DEF Inv, Basis
<1>3. pred[p] # NoPlan => pred[p] \in plans \cap candidates /\ ~Replaced(pred[p])
  BY <1>1 DEF Inv, Basis
<1>10. p \in candidates /\ candidates' = candidates
  BY <1>1 DEF Inv, Asks, Freezing, Freeze
<1>4. plans' = plans \cup {p} /\ pred' = pred
  BY DEF Freeze
<1>5. \A q : Replaced(q)' <=> Replaced(q) \/ q = pred[p]
  BY <1>4 DEF Replaced
<1>6. Lawful
  BY DEF Inv, OneInForce
<1>7. ~Replaced(p)'
  <2>1. ~Replaced(p)
    BY <1>1, <1>2, <1>6 DEF Replaced, Lawful
  <2>2. p # pred[p]
    BY <1>1, <1>2, <1>3
  <2> QED BY <1>5, <2>1, <2>2
<1>8. \A q \in plans : Replaced(q)'
  BY <1>2, <1>5 DEF DifferentBasis
<1>9. Lawful'
  <2> SUFFICES ASSUME NEW q \in plans', pred[q] # NoPlan
               PROVE  /\ pred[q] \in plans'
                      /\ \A s \in plans' : pred[s] = pred[q] => s = q
    BY <1>4 DEF Lawful
  <2>1. CASE q = p
    BY <1>3, <1>4, <2>1 DEF Replaced
  <2>2. CASE q \in plans
    BY <1>3, <1>4, <1>6, <2>2 DEF Lawful, Replaced
  <2> QED BY <1>4, <2>1, <2>2
<1>11. ASSUME NEW q \in plans \ candidates PROVE FALSE
  <2>1. ~Replaced(q) /\ q # NoPlan
    BY DEF Inv, OneInForce, TypeOK
  <2>2. q = pred[p]
    BY <1>5, <1>8, <2>1
  <2> QED BY <1>3, <2>1, <2>2
<1> QED BY <1>1, <1>2, <1>3, <1>4, <1>5, <1>7, <1>8, <1>9, <1>10, <1>11

\* A plan frozen directly changes nothing about the others.
LEMMA AddReads ==
    ASSUME Inv, NEW c \in Commands, Write(c), FreezeDirectly(c),
           NEW p \in Plans, job[c].plan = p
    PROVE  /\ p \notin candidates /\ candidates' = candidates
           /\ plans' = plans \cup {p} /\ pred' = pred
           /\ \A q : q # NoPlan => (Replaced(q)' <=> Replaced(q))
           /\ ~Replaced(p)'
           /\ Lawful'
<1>1. Adding(c)
  BY DEF FreezeDirectly, Adding
<1>2. p \notin candidates /\ pred[p] = NoPlan
  BY <1>1 DEF Inv, Names
<1>3. plans' = plans \cup {p} /\ pred' = pred /\ candidates' = candidates
  BY DEF FreezeDirectly
<1>4. \A q : q # NoPlan => (Replaced(q)' <=> Replaced(q))
  BY <1>2, <1>3 DEF Replaced
<1>5. Lawful
  BY DEF Inv, OneInForce
<1>6. ~Replaced(p)
  <2>1. CASE p \in plans
    BY <1>2, <2>1 DEF Inv, OneInForce
  <2>2. CASE p \notin plans
    BY <1>5, <2>2 DEF Replaced, Lawful
  <2> QED BY <2>1, <2>2
<1>7. ~Replaced(p)'
  BY <1>4, <1>6
<1>8. Lawful'
  BY <1>2, <1>3, <1>5 DEF Lawful
<1> QED BY <1>2, <1>3, <1>4, <1>7, <1>8

LEMMA OneInForceKept ==
    ASSUME Inv, [Next]_vars
    PROVE  OneInForce'
<1>1. CASE Steady
  BY <1>1, SteadyReads DEF Inv, OneInForce, Steady
<1>2. ASSUME NEW c \in Commands, Write(c), Freeze(c)
      PROVE  OneInForce'
  <2>1. PICK p \in Plans : job[c].plan = p
    BY <1>2 DEF Inv, Freeze, Asks, TypeOK
  <2> QED BY <1>2, <2>1, FreezeReads DEF OneInForce, Inv
<1>3. ASSUME NEW c \in Commands, Write(c), FreezeDirectly(c)
      PROVE  OneInForce'
  <2>1. PICK p \in Plans : job[c].plan = p
    BY <1>3 DEF Inv, Write, FreezeDirectly, TypeOK
  <2>2. \A q \in plans : q # NoPlan
    BY DEF Inv, TypeOK
  <2> QED BY <1>3, <2>1, <2>2, AddReads DEF OneInForce, Inv
<1> QED BY <1>1, <1>2, <1>3, OnlyFreezeChanges DEF Inv

\* How a command comes to the points the rest of the invariant is about.
Reached(c) ==
    /\ pc'[c] = "binding" =>
          /\ job'[c] = job[c]
          /\ \/ pc[c] = "binding"
             \/ pc[c] = "deciding" /\ Acceptable(job[c].plan)
             \/ ~Freezing(c)
    /\ pc'[c] = "checking" =>
          job'[c] = job[c] /\ (pc[c] = "checking" \/ lock = NoCommand)
    /\ pc'[c] = "writing" =>
          /\ job'[c] = job[c]
          /\ \/ pc[c] = "writing"
             \/ pc[c] = "binding" /\ Binds(job[c].pred)
             \/ pc[c] = "checking" /\ NotReplaced(job[c].plan)
             \/ Adding(c)
    /\ run'[c] = "state" =>
          /\ job'[c] = job[c]
          /\ run[c] = "state" \/ (Publishing(c) /\ pc[c] = "writing")

LEMMA HowReached ==
    ASSUME TypeOK, Asks, Standing, [Next]_vars
    PROVE  \A c \in Commands : Reached(c)
<1> USE DEF TypeOK, Goto, LeaveUnproven, Freezing, Adding, Publishing, Reached
<1>1. ASSUME NEW d \in Commands, Begin(d) \/ BeginPublish(d)
      PROVE  \A c \in Commands : Reached(c)
  BY <1>1 DEF Begin, BeginPublish, Asked, Assign, Standing
<1>2. ASSUME NEW d \in Commands, OpenRun(d) \/ PassGates(d) \/ FailGates(d)
      PROVE  \A c \in Commands : Reached(c)
  BY <1>2 DEF OpenRun, PassGates, FailGates
<1>3. ASSUME NEW d \in Commands, Acquire(d)
      PROVE  \A c \in Commands : Reached(c)
  BY <1>3 DEF Acquire, FirstPoint, Asks
<1>4. ASSUME NEW d \in Commands, FindLocked(d) \/ Release(d) \/ Refuse(d) \/ Crash(d)
      PROVE  \A c \in Commands : Reached(c)
  BY <1>4 DEF FindLocked, Release, Refuse, Crash
<1>5. ASSUME NEW d \in Commands, Decide(d)
      PROVE  \A c \in Commands : Reached(c)
  BY <1>5 DEF Decide
<1>6. ASSUME NEW d \in Commands, Bind(d)
      PROVE  \A c \in Commands : Reached(c)
  BY <1>6 DEF Bind
<1>7. ASSUME NEW d \in Commands, Check(d)
      PROVE  \A c \in Commands : Reached(c)
  BY <1>7 DEF Check
<1>8. ASSUME NEW d \in Commands, Write(d)
      PROVE  \A c \in Commands : Reached(c)
  BY <1>8 DEF Write, Save, Freeze, FreezeDirectly, Approve, FirstState
<1>9. ASSUME NEW b \in Breakers, Inspect(b) \/ Recover(b)
      PROVE  \A c \in Commands : Reached(c)
  BY <1>9 DEF Inspect, Recover
<1>10. CASE UNCHANGED vars
  BY <1>10 DEF vars
<1> QED
  BY <1>1, <1>2, <1>3, <1>4, <1>5, <1>6, <1>7, <1>8, <1>9, <1>10 DEF Next, Step

\* A freeze that writes is the only one that holds the lock, so no other
\* freeze is under way.
LEMMA FreezeAlone ==
    ASSUME Inv, NEW c \in Commands, Write(c), Freeze(c) \/ FreezeDirectly(c),
           NEW d \in Commands, Freezing(d), pc[d] \in Holding
    PROVE  d = c
  BY DEF Inv, Locked, Write, Freeze, FreezeDirectly, Freezing, Adding

LEMMA BasisKept ==
    ASSUME Inv, [Next]_vars
    PROVE  Basis'
<1> SUFFICES ASSUME NEW c \in Commands, Freezing(c)',
                    pc'[c] \in {"binding", "writing"}
             PROVE  /\ (DifferentBasis(job[c].plan) = {} /\ job[c].plan \notin plans)'
                    /\ pc'[c] = "writing" /\ job'[c].pred # NoPlan =>
                          (job[c].pred \in plans \cap candidates /\ ~Replaced(job[c].pred))'
  BY DEF Basis
<1>0. Reached(c)
  BY HowReached DEF Inv
<1>5. pc[c] = "checking" => ~Freezing(c)
  BY DEF Inv, Standing, Freezing
<1>1. /\ job'[c] = job[c] /\ Freezing(c)
      /\ \/ pc[c] \in {"binding", "writing"}
         \/ pc[c] = "deciding" /\ Acceptable(job[c].plan)
      /\ pc'[c] = "writing" =>
            \/ pc[c] = "writing"
            \/ pc[c] = "binding" /\ Binds(job[c].pred)
  BY <1>0, <1>5 DEF Reached, Freezing, Adding
<1>2. PICK p \in candidates, q \in Plans \cup {NoPlan} :
          p = job[c].plan /\ q = job[c].pred /\ p = job'[c].plan /\ q = job'[c].pred
  BY <1>1 DEF Inv, TypeOK, Asks, Freezing
<1>3. CASE Steady
  <2>1. DifferentBasis(p) = {} /\ p \notin plans
    BY <1>1, <1>2 DEF Inv, Basis, Acceptable
  <2>2. pc'[c] = "writing" /\ q # NoPlan => q \in plans \cap candidates /\ ~Replaced(q)
    BY <1>1, <1>2 DEF Inv, Basis, Binds, NotReplaced
  <2> QED BY <1>2, <1>3, <2>1, <2>2, SteadyReads DEF Inv, Steady
<1>4. ASSUME NEW d \in Commands, Write(d), Freeze(d) \/ FreezeDirectly(d) PROVE FALSE
  <2>1. pc[c] \in Holding
    BY <1>1
  <2>2. c = d
    BY <1>1, <1>4, <2>1, FreezeAlone
  <2> QED BY <1>4, <2>2 DEF Write, Goto, Inv, TypeOK
<1> QED BY <1>3, <1>4, OnlyFreezeChanges DEF Inv

LEMMA UntouchedKept ==
    ASSUME Inv, [Next]_vars
    PROVE  Untouched'
<1> SUFFICES ASSUME NEW c \in Commands, Freezing(c)', pc'[c] = "writing",
                    job'[c].pred # NoPlan, NEW d \in Commands
             PROVE  /\ run'[d] # "state"
                    /\ Publishing(d)' => pc'[d] \notin {"checking", "writing"}
  BY DEF Untouched
<1>1. Reached(c) /\ Reached(d)
  BY HowReached DEF Inv
<1>2. /\ job'[c] = job[c] /\ Freezing(c)
      /\ \/ pc[c] = "writing"
         \/ pc[c] = "binding" /\ Binds(job[c].pred)
  BY <1>1 DEF Inv, Reached, Freezing, Adding, Standing
<1>3. lock = c
  BY <1>2 DEF Inv, Locked
<1>4. lock # NoCommand
  BY <1>3
<1>5. /\ run[d] # "state"
      /\ Publishing(d) => pc[d] \notin {"checking", "writing"}
  <2>1. CASE pc[c] = "writing"
    BY <1>2, <2>1 DEF Inv, Untouched
  <2>2. CASE Binds(job[c].pred)
    <3>1. run[d] \in {"none", "proven"}
      BY <1>2, <2>2 DEF Binds, HistoryClean
    <3> QED BY <3>1 DEF Inv, Standing
  <2> QED BY <1>2, <2>1, <2>2
<1> QED BY <1>1, <1>4, <1>5 DEF Inv, Reached, Publishing, Adding, Standing

LEMMA StandardKept ==
    ASSUME Inv, [Next]_vars
    PROVE  Standard'
<1> SUFFICES ASSUME NEW c \in Commands,
                    (Publishing(c)' /\ pc'[c] = "writing") \/ run'[c] = "state"
             PROVE  Publishing(c)' /\ ~Replaced(job[c].plan)'
  BY DEF Standard
<1>1. /\ job'[c] = job[c]
      /\ Publishing(c) /\ ~Replaced(job[c].plan)
      /\ pc[c] = "writing" \/ run[c] = "state" \/ pc[c] = "checking"
  BY HowReached DEF Inv, Reached, Standard, Publishing, Adding, NotReplaced, Standing
<1>2. PICK q \in plans : q = job[c].plan /\ q = job'[c].plan
  BY <1>1 DEF Inv, Asks, Publishing
<1>3. CASE Steady
  BY <1>1, <1>2, <1>3, SteadyReads DEF Inv, Publishing
<1>4. ASSUME NEW d \in Commands, Write(d), Freeze(d)
      PROVE  ~Replaced(q)'
  <2>1. PICK p \in Plans : job[d].plan = p
    BY <1>4 DEF Inv, Freeze, Asks, TypeOK
  <2>2. Replaced(q)' <=> Replaced(q) \/ q = pred[p]
    BY <1>4, <2>1, FreezeReads
  <2>3. Freezing(d) /\ pc[d] = "writing" /\ job[d].pred = pred[p]
    BY <1>4, <2>1 DEF Inv, Write, Freeze, Freezing, Names
  <2>4. q # NoPlan
    BY <1>2 DEF Inv, TypeOK
  <2>5. q # pred[p]
    BY <1>1, <2>3, <2>4 DEF Inv, Untouched
  <2> QED BY <1>1, <1>2, <2>2, <2>5
<1>5. ASSUME NEW d \in Commands, Write(d), FreezeDirectly(d)
      PROVE  ~Replaced(q)'
  <2>1. PICK p \in Plans : job[d].plan = p
    BY <1>5 DEF Inv, Write, FreezeDirectly, TypeOK
  <2>2. q # NoPlan
    BY <1>2 DEF Inv, TypeOK
  <2> QED BY <1>1, <1>2, <1>5, <2>1, <2>2, AddReads
<1> QED BY <1>1, <1>2, <1>3, <1>4, <1>5, OnlyFreezeChanges DEF Inv, Publishing

LEMMA InvKept ==
    ASSUME FreezeKeepsLock, Inv, [Next]_vars
    PROVE  Inv'
<1>1. (TypeOK /\ Asks)'
  BY StepTyped DEF Inv
<1>2. Standing' /\ Names' /\ Locked'
  BY StandingKept, NamesKept, LockedKept DEF Inv
<1>3. Basis' /\ Untouched' /\ Standard' /\ OneInForce'
  BY BasisKept, UntouchedKept, StandardKept, OneInForceKept
<1> QED BY <1>1, <1>2, <1>3 DEF Inv

(***************************************************************************)
(* Theorems                                                                *)
(***************************************************************************)

\* However many commands run and crash, and whosever lock an operator breaks
\* as long as it is not that of a freeze that lives, directly or from a
\* candidate: a plan with a run state is not replaced.
THEOREM ReleasedNotReplacedHolds ==
    ASSUME FreezeKeepsLock
    PROVE  Spec => []ReleasedNotReplaced
<1>1. Init => Inv
  BY InitInv
<1>2. Inv /\ [Next]_vars => Inv'
  BY InvKept
<1>3. Inv => ReleasedNotReplaced
  BY DEF Inv, Standard, ReleasedNotReplaced
<1> QED BY <1>1, <1>2, <1>3, PTL DEF Spec

\* Under the same assumption at most one of the plans frozen from a candidate is
\* in force, whatever is frozen without one, no plan frozen directly is replaced,
\* and every reader accepts the relation between the plans.
THEOREM OneInForceHolds ==
    ASSUME FreezeKeepsLock
    PROVE  Spec => []OneInForce
<1>1. Init => Inv
  BY InitInv
<1>2. Inv /\ [Next]_vars => Inv'
  BY InvKept
<1>3. Inv => OneInForce
  BY DEF Inv
<1> QED BY <1>1, <1>2, <1>3, PTL DEF Spec

(***************************************************************************)
(* Refinement                                                              *)
(***************************************************************************)

\* With at most one tested plan in force, Current is that plan.
LEMMA CurrentIs ==
    ASSUME OneInForce, NEW p \in plans \cap candidates, ~Replaced(p)
    PROVE  Current = p
<1>1. InForce = {p}
  BY DEF OneInForce, InForce
<1> QED BY <1>1 DEF Current

LEMMA NoneInForce ==
    ASSUME \A p \in plans \cap candidates : Replaced(p)
    PROVE  Current = NoPlan
  BY DEF Current, InForce

\* A command that has released goes on to have released the same plan, and
\* no other command does.
ReleasesSame ==
    \A d \in Commands : /\ run'[d] = "state" <=> run[d] = "state"
                        /\ run[d] = "state" => job'[d].plan = job[d].plan

LEMMA OthersRelease ==
    ASSUME Inv, [Next]_vars, \A c \in Commands : ~(Write(c) /\ FirstState(c))
    PROVE  ReleasesSame
<1>1. TypeOK /\ Standing
  BY DEF Inv
<1> USE DEF TypeOK, Standing, Goto, LeaveUnproven, Publishing, ReleasesSame
<1>2. ASSUME NEW c \in Commands, Begin(c) \/ BeginPublish(c)
      PROVE  ReleasesSame
  BY <1>1, <1>2 DEF Begin, BeginPublish, Asked, Assign
<1>3. ASSUME NEW c \in Commands, OpenRun(c) \/ PassGates(c) \/ FailGates(c)
      PROVE  ReleasesSame
  BY <1>1, <1>3 DEF OpenRun, PassGates, FailGates
<1>4. ASSUME NEW c \in Commands,
             Acquire(c) \/ FindLocked(c) \/ Release(c) \/ Refuse(c) \/ Crash(c)
      PROVE  ReleasesSame
  BY <1>1, <1>4 DEF Acquire, FindLocked, Release, Refuse, Crash
<1>5. ASSUME NEW c \in Commands, Decide(c) \/ Bind(c) \/ Check(c)
      PROVE  ReleasesSame
  BY <1>1, <1>5 DEF Decide, Bind, Check
<1>6. ASSUME NEW c \in Commands, Write(c)
      PROVE  ReleasesSame
  BY <1>1, <1>6 DEF Write, Save, Freeze, FreezeDirectly, Approve
<1>7. ASSUME NEW b \in Breakers, Inspect(b) \/ Recover(b)
      PROVE  ReleasesSame
  BY <1>7 DEF Inspect, Recover
<1>8. CASE UNCHANGED vars
  BY <1>8 DEF vars
<1> QED
  BY <1>2, <1>3, <1>4, <1>5, <1>6, <1>7, <1>8 DEF Next, Step

\* The set of released plans changes only by the first state of a publish.
LEMMA OnlyFirstStateReleases ==
    ASSUME Inv, [Next]_vars
    PROVE  Released' = Released \/ \E c \in Commands : Write(c) /\ FirstState(c)
<1>1. CASE \A c \in Commands : ~(Write(c) /\ FirstState(c))
  <2>1. ReleasesSame
    BY <1>1, OthersRelease
  <2> QED BY <2>1 DEF Released, ReleasesSame
<1> QED BY <1>1

\* The first state releases the current plan, or one frozen directly.
LEMMA FirstStateReleases ==
    ASSUME Inv, NEW c \in Commands, Write(c), FirstState(c)
    PROVE  \E p \in Plans : /\ p \in Untested \cup ({Current} \ {NoPlan})
                           /\ Released' = Released \cup {p}
<1>1. Publishing(c) /\ pc[c] = "writing" /\ job[c].plan \in plans
  BY DEF Inv, Asks, Write, FirstState, Publishing
<1>2. ~Replaced(job[c].plan)
  BY <1>1 DEF Inv, Standard
<1>3. job[c].plan \in Untested \/ Current = job[c].plan
  BY <1>1, <1>2, CurrentIs DEF Inv, Untested
<1>4. job' = job /\ run' = [run EXCEPT ![c] = "state"]
  BY DEF Write, FirstState
<1>5. {d \in Commands : run'[d] = "state"}
        = {d \in Commands : run[d] = "state"} \cup {c}
  BY <1>4 DEF Inv, TypeOK
<1>6. Released' = Released \cup {job[c].plan}
  BY <1>4, <1>5 DEF Released
<1> QED BY <1>1, <1>3, <1>6 DEF Inv, TypeOK

\* A freeze is a freeze of the abstract lineage.
LEMMA FreezeRefines ==
    ASSUME Inv, Inv', NEW c \in Commands, Write(c), Freeze(c), Released' = Released
    PROVE  \E p \in Plans : Lineage!Freeze(p)
<1>1. PICK p \in Plans : job[c].plan = p
  BY DEF Inv, Freeze, Asks, TypeOK
<1>2. /\ p \notin plans /\ plans' = plans \cup {p} /\ pred' = pred
      /\ \A q : Replaced(q)' <=> Replaced(q) \/ q = pred[p]
      /\ ~Replaced(p)' /\ \A q \in plans : Replaced(q)'
      /\ pred[p] # NoPlan => pred[p] \in plans \cap candidates /\ ~Replaced(pred[p])
      /\ p \in candidates /\ candidates' = candidates /\ plans \ candidates = {}
  BY <1>1, FreezeReads
<1>3. Freezing(c) /\ pc[c] = "writing" /\ job[c].pred = pred[p]
  BY <1>1 DEF Inv, Write, Freeze, Freezing, Names
<1>4. Current' = p
  <2>1. InForce' = {p}
    BY <1>2 DEF InForce
  <2> QED BY <2>1 DEF Current
<1>7. Untested = {} /\ Untested' = {}
  BY <1>2 DEF Untested
<1>5. CASE pred[p] = NoPlan
  <2>1. \A q \in plans : Replaced(q)
    BY <1>2, <1>5 DEF Inv, TypeOK
  <2>2. Current = NoPlan
    BY <2>1, NoneInForce
  <2>3. Retired' = Retired
    BY <1>2, <2>1 DEF Retired
  <2>4. NoPlan \notin Released
    BY DEF Released, Inv, Standard, Asks, Publishing, TypeOK
  <2>5. p \notin Lineage!Known
    BY <1>2, <1>7, <2>2 DEF Retired, Lineage!Known
  <2> QED BY <1>4, <1>7, <2>2, <2>3, <2>4, <2>5 DEF Lineage!Freeze
<1>6. CASE pred[p] # NoPlan
  <2>1. Current = pred[p] /\ pred[p] \in plans \cap candidates
    BY <1>2, <1>6, CurrentIs DEF Inv
  <2>2. Retired' = Retired \cup {pred[p]}
    <3>1. \A q \in plans : q # pred[p] => Replaced(q)
      BY <1>2
    <3> QED BY <1>2, <1>6, <3>1 DEF Retired
  <2>3. Current \notin Released
    BY <1>3, <1>6 DEF Released, Inv, Untouched
  <2>4. p \notin Lineage!Known
    BY <1>2, <1>7, <2>1 DEF Retired, Lineage!Known
  <2> QED BY <1>4, <1>6, <1>7, <2>1, <2>2, <2>3, <2>4 DEF Lineage!Freeze
<1> QED BY <1>5, <1>6

\* A freeze without a candidate adds an untested plan, or finds it there.
LEMMA AddRefines ==
    ASSUME Inv, NEW c \in Commands, Write(c), FreezeDirectly(c), Released' = Released
    PROVE  [Lineage!Next]_(Lineage!vars)
<1>1. PICK p \in Plans : job[c].plan = p
  BY DEF Inv, Write, FreezeDirectly, TypeOK
<1>2. /\ p \notin candidates /\ candidates' = candidates
      /\ plans' = plans \cup {p} /\ pred' = pred
      /\ \A q : q # NoPlan => (Replaced(q)' <=> Replaced(q))
      /\ ~Replaced(p)'
  BY <1>1, AddReads
<1>3. \A q \in plans : q # NoPlan
  BY DEF Inv, TypeOK
<1>4. InForce' = InForce
  BY <1>2, <1>3 DEF InForce
<1>5. Current' = Current
  BY <1>4 DEF Current
<1>6. Retired' = Retired
  BY <1>2, <1>3 DEF Retired
<1>7. Untested' = Untested \cup {p}
  BY <1>2 DEF Untested
<1>8. CASE p \in plans
  <2>1. Untested' = Untested
    BY <1>2, <1>7, <1>8 DEF Untested
  <2> QED BY <1>5, <1>6, <2>1 DEF Lineage!vars
<1>9. CASE p \notin plans
  <2>1. Current \in InForce \cup {NoPlan}
    BY DEF Current
  <2>2. p # NoPlan
    OBVIOUS
  <2>3. p \notin Lineage!Known
    BY <1>9, <2>1, <2>2 DEF Lineage!Known, Untested, Retired, InForce
  <2>4. Lineage!Add(p)
    BY <1>5, <1>6, <1>7, <2>3 DEF Lineage!Add
  <2> QED BY <2>4 DEF Lineage!Next
<1> QED BY <1>8, <1>9

LEMMA StepRefines ==
    ASSUME Inv, Inv', [Next]_vars
    PROVE  [Lineage!Next]_(Lineage!vars)
<1>1. ASSUME NEW c \in Commands, Write(c), Freeze(c)
      PROVE  Lineage!Next
  <2>1. run' = run /\ job' = job
    BY <1>1 DEF Write, Freeze
  <2>2. Released' = Released
    BY <2>1 DEF Released
  <2> QED BY <1>1, <2>2, FreezeRefines DEF Lineage!Next
<1>5. ASSUME NEW c \in Commands, Write(c), FreezeDirectly(c)
      PROVE  [Lineage!Next]_(Lineage!vars)
  <2>1. run' = run /\ job' = job
    BY <1>5 DEF Write, FreezeDirectly
  <2>2. Released' = Released
    BY <2>1 DEF Released
  <2> QED BY <1>5, <2>2, AddRefines
<1>2. Steady => Current' = Current /\ Retired' = Retired /\ Untested' = Untested
  <2> SUFFICES ASSUME Steady
               PROVE  Current' = Current /\ Retired' = Retired /\ Untested' = Untested
    OBVIOUS
  <2>1. /\ plans' = plans /\ \A p : Replaced(p)' <=> Replaced(p)
        /\ (plans \cap candidates)' = plans \cap candidates
        /\ (plans \ candidates)' = plans \ candidates
    BY SteadyReads DEF Inv, Steady
  <2>2. InForce' = InForce /\ Retired' = Retired /\ Untested' = Untested
    BY <2>1 DEF InForce, Retired, Untested
  <2> QED BY <2>2 DEF Current
<1>3. ASSUME NEW c \in Commands, Write(c), FirstState(c)
      PROVE  Lineage!Next
  <2>1. PICK p \in Plans : /\ p \in Untested \cup ({Current} \ {NoPlan})
                           /\ Released' = Released \cup {p}
    BY <1>3, FirstStateReleases
  <2>2. Steady
    BY <1>3 DEF FirstState, Steady
  <2> QED BY <1>2, <2>1, <2>2 DEF Lineage!Next, Lineage!Release
<1>4. CASE Steady /\ Released' = Released
  BY <1>2, <1>4 DEF Lineage!vars
<1> QED
  BY <1>1, <1>3, <1>4, <1>5, OnlyFreezeChanges, OnlyFirstStateReleases DEF Inv

\* What the commands do to the files is what PlanLineage promises, with testIntake
\* declared or not: a plan is given up only for its tested successor and for
\* good, a tested plan comes into force beside no other, only a plan in force is
\* released, and a released plan is never given up.
THEOREM ImplementsLineageHolds ==
    ASSUME FreezeKeepsLock
    PROVE  Spec => ImplementsLineage
<1>1. Init => Inv /\ Lineage!Init
  <2> SUFFICES ASSUME Init PROVE Inv /\ Lineage!Init
    OBVIOUS
  <2>1. \A p \in plans : ~Replaced(p)
    BY DEF Init, Replaced
  <2>2. Retired = {} /\ Released = {}
    BY <2>1 DEF Init, Retired, Released
  <2>3. /\ Current \in Plans \cup {NoPlan}
        /\ Untested \in SUBSET (Plans \ {Current})
    BY DEF Current, InForce, Untested, Init
  <2> QED BY <2>2, <2>3, InitInv DEF Lineage!Init
<1>2. Inv /\ [Next]_vars => Inv'
  BY InvKept
<1>3. Inv /\ Inv' /\ [Next]_vars => [Lineage!Next]_(Lineage!vars)
  BY StepRefines
<1> QED BY <1>1, <1>2, <1>3, PTL DEF Spec, ImplementsLineage, Lineage!Spec

(***************************************************************************)
(* When only locks of dead processes are broken                            *)
(***************************************************************************)
OnlyDeadLocks == BreakableKinds = {}

Owned ==
    /\ \A c \in Commands : pc[c] \in Holding => lock = c
    /\ \A b \in Breakers : inspected[b] # NoCommand => pc[inspected[b]] = "dead"

LEMMA OwnedKept ==
    ASSUME OnlyDeadLocks, TypeOK, Owned, [Next]_vars
    PROVE  Owned'
<1> USE DEF TypeOK, Goto, Owned
<1>1. ASSUME NEW c \in Commands, Begin(c) \/ BeginPublish(c) PROVE Owned'
  BY <1>1 DEF Begin, BeginPublish
<1>2. ASSUME NEW c \in Commands, OpenRun(c) \/ PassGates(c) \/ FailGates(c)
      PROVE  Owned'
  BY <1>2 DEF OpenRun, PassGates, FailGates
<1>3. ASSUME NEW c \in Commands, Acquire(c) PROVE Owned'
  BY <1>3 DEF Acquire
<1>4. ASSUME NEW c \in Commands, FindLocked(c) \/ Release(c) PROVE Owned'
  BY <1>4 DEF FindLocked, Release
<1>5. ASSUME NEW c \in Commands, Decide(c) \/ Bind(c) \/ Check(c) PROVE Owned'
  BY <1>5 DEF Decide, Bind, Check
<1>6. ASSUME NEW c \in Commands, Refuse(c) \/ Write(c) \/ Crash(c) PROVE Owned'
  BY <1>6 DEF Refuse, Write, Crash
<1>7. ASSUME NEW b \in Breakers, Inspect(b) PROVE Owned'
  BY <1>7 DEF Inspect, OnlyDeadLocks
<1>8. ASSUME NEW b \in Breakers, Recover(b) PROVE Owned'
  BY <1>8 DEF Recover
<1>9. CASE UNCHANGED vars
  BY <1>9 DEF vars
<1> QED
  BY <1>1, <1>2, <1>3, <1>4, <1>5, <1>6, <1>7, <1>8, <1>9 DEF Next, Step

LEMMA InitOwned == Init => Owned
  BY DEF Init, Owned

\* No two processes are ever between acquire and release, however many
\* operators break locks at once.
THEOREM ExclusiveHolds ==
    ASSUME OnlyDeadLocks
    PROVE  Spec => []Exclusive
<1>1. Init => TypeOK /\ Asks /\ Owned
  BY InitTyped, InitOwned
<1>2. TypeOK /\ Asks /\ Owned /\ [Next]_vars => (TypeOK /\ Asks /\ Owned)'
  BY StepTyped, OwnedKept
<1>3. Owned => Exclusive
  BY DEF Owned, Exclusive
<1> QED BY <1>1, <1>2, <1>3, PTL DEF Spec

\* An approve that is about to write has seen a plan that is still in force.
Approving ==
    \A c \in Commands :
        job[c].kind = "approve" /\ pc[c] = "writing" => ~Replaced(job[c].plan)

LEMMA ApprovingKept ==
    ASSUME Inv, Owned, Approving, [Next]_vars
    PROVE  Approving'
<1> SUFFICES ASSUME NEW c \in Commands, job'[c].kind = "approve", pc'[c] = "writing"
             PROVE  ~Replaced(job[c].plan)'
  BY DEF Approving
<1>1. /\ job'[c] = job[c]
      /\ pc[c] \in {"checking", "writing"}
      /\ ~Replaced(job[c].plan)
  BY HowReached DEF Inv, Reached, Standing, Approving, Adding, NotReplaced
<1>2. PICK p \in plans : p = job[c].plan /\ p = job'[c].plan
  BY <1>1 DEF Inv, Asks
<1>3. CASE Steady
  BY <1>1, <1>2, <1>3, SteadyReads DEF Inv
<1>4. ASSUME NEW d \in Commands, Write(d), Freeze(d) \/ FreezeDirectly(d) PROVE FALSE
  <2>1. d = c
    BY <1>1, <1>4 DEF Owned, Write
  <2> QED BY <1>1, <1>4, <2>1 DEF Freeze, FreezeDirectly
<1> QED BY <1>3, <1>4, OnlyFreezeChanges DEF Inv

\* No approval is written for a plan that is replaced by then.
THEOREM ApprovesInForceHolds ==
    ASSUME OnlyDeadLocks
    PROVE  Spec => ApprovesInForce
<1> DEFINE I == Inv /\ Owned /\ Approving
<1>1. Init => I
  BY InitInv, InitOwned DEF Init, Approving
<1>2. I /\ [Next]_vars => I'
  BY InvKept, OwnedKept, ApprovingKept DEF Inv, OnlyDeadLocks, FreezeKeepsLock
<1>3. I /\ [Next]_vars => [\A p \in approvals' \ approvals : ~Replaced(p)]_vars
  <2> SUFFICES ASSUME I, Next, NEW p \in approvals' \ approvals PROVE ~Replaced(p)
    OBVIOUS
  <2>1. PICK c \in Commands : Write(c) /\ Approve(c)
    BY DEF Next, Step, Begin, BeginPublish, OpenRun, PassGates, FailGates, Acquire,
           FindLocked, Release, Decide, Bind, Check, Refuse, Write, Save, Freeze,
           FreezeDirectly, FirstState, Crash, Inspect, Recover
  <2> QED BY <2>1 DEF Write, Approve, Approving
<1> QED BY <1>1, <1>2, <1>3, PTL DEF Spec, ApprovesInForce
=============================================================================
