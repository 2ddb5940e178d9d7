---------------------------- MODULE UndoableUpdate ----------------------------
(***************************************************************************)
(* What a write transaction promises about the files it changes: it        *)
(* replaces only what it keeps an undo record of, it loses no record of a  *)
(* changed file before it is done, and it is done only when it has changed *)
(* every file.  Outsiders edit the files at any time; some writers may     *)
(* also put files back without keeping a record.                           *)
(***************************************************************************)
EXTENDS Naturals

CONSTANTS
    Files, Writers, Contents,
    Nothing,        \* no undo record
    Planned,        \* Planned[t][x]: what t makes of x
    Removes,        \* Removes[t]: the files t removes, whatever they hold
    Restorers       \* the writers that may put files back

VARIABLES
    files,          \* files[x]: what is at x
    undo,           \* undo[t][x]: what the record of t would put back at x
    changed,        \* changed[t]: the files t changed
    done,           \* the writers that are done
    edits           \* how often outsiders changed a file

vars == <<files, undo, changed, done, edits>>

Init ==
    /\ files \in [Files -> Contents]
    /\ undo = [t \in Writers |-> [x \in Files |-> Nothing]]
    /\ changed = [t \in Writers |-> {}]
    /\ done = {}
    /\ edits = 0

\* The record of a file is made, or made again, before the file is changed.
Keep(t, x) ==
    /\ t \notin done
    /\ x \notin changed[t]
    /\ \E c \in Contents : undo' = [undo EXCEPT ![t][x] = c]
    /\ UNCHANGED <<files, changed, done, edits>>

\* A write replaces exactly what its record would put back.
Change(t, x) ==
    /\ t \notin done
    /\ undo[t][x] # Nothing
    /\ x \in Removes[t] \/ files[x] = undo[t][x]
    /\ files' = [files EXCEPT ![x] = Planned[t][x]]
    /\ changed' = [changed EXCEPT ![t] = @ \cup {x}]
    /\ UNCHANGED <<undo, done, edits>>

\* A writer that is done has nothing left to undo.
Finish(t) ==
    /\ changed[t] = Files
    /\ undo' = [undo EXCEPT ![t] = [x \in Files |-> Nothing]]
    /\ done' = done \cup {t}
    /\ UNCHANGED <<files, changed, edits>>

PutBack(t, x) ==
    /\ t \in Restorers
    /\ \E c \in Contents : files' = [files EXCEPT ![x] = c]
    /\ UNCHANGED <<undo, changed, done, edits>>

Edit(x) ==
    /\ edits' = edits + 1
    /\ \E c \in Contents : files' = [files EXCEPT ![x] = c]
    /\ UNCHANGED <<undo, changed, done>>

Next ==
    \/ \E t \in Writers, x \in Files : Keep(t, x) \/ Change(t, x) \/ PutBack(t, x)
    \/ \E t \in Writers : Finish(t)
    \/ \E x \in Files : Edit(x)

Spec == Init /\ [][Next]_vars

\* What a writer changed can be undone until it has changed every file.
Promise ==
    /\ undo \in [Writers -> [Files -> Contents \cup {Nothing}]]
    /\ changed \in [Writers -> SUBSET Files]
    /\ \A t \in Writers :
          IF t \in done THEN changed[t] = Files
          ELSE \A x \in changed[t] : undo[t][x] # Nothing
=============================================================================
