------------------------------ MODULE KeyRotation ------------------------------
(***************************************************************************)
(* KeyRotationManager (core/crypto/key-rotation.ts): encrypted columns     *)
(* carry the version of their key. Servers know different sets of keys     *)
(* while a new key is rolled out; a rotation re-encrypts a table field by  *)
(* field while the application goes on writing.                            *)
(***************************************************************************)
EXTENDS Integers, FiniteSetsExt

CONSTANTS
  Managers,  \* the servers, each with a KeyRotationManager
  Keys,      \* the key versions each has loaded
  Rows,      \* the ids of the table
  MaxValue   \* bound: values written to a row; 0 is NULL

RotationOK ==
  /\ \A m \in Managers : IsFiniteSet(Keys[m]) /\ Keys[m] # {} /\ Keys[m] \subseteq Nat \ {0}
  /\ MaxValue \in Nat

VARIABLES
  field,     \* the column: the version and the value of each row
  latest,    \* history: the last value written to each row
  rotation,  \* what each rotateTable is at: the ids left, the value read
  raced,     \* history: rows written between the SELECT and the UPDATE of a rotateField
  disturbed  \* history: a write, or another rotation, during a rotation of the table

rotationVars == <<field, latest, rotation, raced, disturbed>>

\* The constructor
CurrentVersion(m) == Max(Keys[m])
SameVersion(m) == CurrentVersion(m)

\* What rotateTable looks for, by default.
TargetVersion(m) == CurrentVersion(m) - 1

Idle == [at |-> "idle", ids |-> {}, id |-> 0, read |-> [version |-> 0, value |-> 0]]

RotationInit ==
  /\ field = [r \in Rows |-> [version |-> 0, value |-> 0]]
  /\ latest = [r \in Rows |-> 0]
  /\ rotation = [m \in Managers |-> Idle]
  /\ raced = {} /\ disturbed = [m \in Managers |-> FALSE]

InRotation(m) == rotation[m].at \in {"fields", "update"}
Watches(m) == rotation[m].at # "idle"
Disturb(by) == disturbed' = [m \in Managers |-> disturbed[m] \/ (Watches(m) /\ m # by)]

\* External: the application stores a value it has encrypted, or NULL.
Write(m, r) ==
  /\ latest[r] < MaxValue
  /\ \E null \in BOOLEAN :
       field' = [field EXCEPT ![r] = [version |-> IF null THEN 0 ELSE CurrentVersion(m),
                                      value   |-> IF null THEN 0 ELSE latest[r] + 1]]
  /\ latest' = [latest EXCEPT ![r] = @ + 1]
  /\ raced' = raced \cup {s \in {r} : \E n \in Managers : rotation[n].at = "update" /\ rotation[n].id = s}
  /\ disturbed' = [n \in Managers |-> disturbed[n] \/ Watches(n)]
  /\ UNCHANGED rotation

\* rotateTable: the ids of the rows at the version before the current one.
SelectRows(m) ==
  /\ rotation[m].at \in {"idle", "ended"}
  /\ rotation' = [rotation EXCEPT ![m] =
       [Idle EXCEPT !.at = "fields",
                    !.ids = {r \in Rows : field[r].version = TargetVersion(m) /\ field[r].value # 0}]]
  /\ disturbed' = [n \in Managers |-> IF n = m THEN \E o \in Managers \ {m} : InRotation(o)
                                      ELSE disturbed[n]]
  /\ UNCHANGED <<field, latest, raced>>

\* rotateField: the SELECT. A field that is NULL or current by now is skipped, one of a version
\* this server does not know ends the rotation with an error.
SelectField(m) ==
  /\ rotation[m].at = "fields"
  /\ \E r \in rotation[m].ids :
       LET left == [rotation[m] EXCEPT !.ids = @ \ {r}]
       IN rotation' = [rotation EXCEPT ![m] =
            IF field[r].value = 0 \/ field[r].version = CurrentVersion(m) THEN left
            ELSE IF field[r].version \notin Keys[m] THEN Idle
            ELSE [left EXCEPT !.at = "update", !.id = r, !.read = field[r]]]
  /\ UNCHANGED <<field, latest, raced, disturbed>>

\* ... and the UPDATE, whatever the field holds by then.
UpdateField(m) ==
  /\ rotation[m].at = "update"
  /\ field' = [field EXCEPT ![rotation[m].id] =
       [version |-> CurrentVersion(m), value |-> rotation[m].read.value]]
  /\ rotation' = [rotation EXCEPT ![m].at = "fields"]
  /\ raced' = raced \cup {r \in {rotation[m].id} : \E n \in Managers \ {m} :
                            rotation[n].at = "update" /\ rotation[n].id = r}
  /\ Disturb(m)
  /\ UNCHANGED latest

RotationEnds(m) ==
  /\ rotation[m].at = "fields" /\ rotation[m].ids = {}
  /\ rotation' = [rotation EXCEPT ![m] = [Idle EXCEPT !.at = "ended"]]
  /\ UNCHANGED <<field, latest, raced, disturbed>>

\* The database does not answer, or the server stops.
RotationFails(m) ==
  /\ InRotation(m)
  /\ rotation' = [rotation EXCEPT ![m] = Idle]
  /\ UNCHANGED <<field, latest, raced, disturbed>>

RotationNext ==
  \E m \in Managers :
    \/ \E r \in Rows : Write(m, r)
    \/ SelectRows(m) \/ SelectField(m) \/ UpdateField(m) \/ RotationEnds(m) \/ RotationFails(m)

-----------------------------------------------------------------------------
(* Properties *)

RotationTypeOK ==
  \A r \in Rows : field[r].value \in 0..MaxValue /\ latest[r] \in 0..MaxValue

\* A rotation loses no write but one that falls between the SELECT and the UPDATE of its row, and
\* what it stores was written under a key the servers know.
WritesKept ==
  \A r \in Rows \ raced :
    /\ field[r].value \in {latest[r], 0}
    /\ field[r].value # 0 => \E m \in Managers : field[r].version \in Keys[m]

\* A rotation that ended leaves no row at the version it rotates from, if the table was left alone.
\* (A row of an older version still stays: no rotation looks for it.)
RotationComplete ==
  \A m \in Managers :
    rotation[m].at = "ended" /\ ~disturbed[m] =>
      \A r \in Rows : field[r].value # 0 => field[r].version # CurrentVersion(m) - 1
=============================================================================
