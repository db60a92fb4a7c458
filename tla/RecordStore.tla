------------------------------ MODULE RecordStore ------------------------------
(***************************************************************************)
(* What a storage adapter promises (pkg/entityworkflows/storage): a record *)
(* is added under a key nothing is stored under, never changed, and gone   *)
(* only once it was cleaned up; and a record is reported stored only if it *)
(* was.                                                                    *)
(***************************************************************************)
CONSTANTS
  Table,     \* the tables of the database
  Record,    \* what may be stored
  recordKey  \* the primary key of each record

VARIABLES
  rows,      \* what each table holds
  cleaned,   \* what was removed for its age
  reported   \* what a caller was told is stored, for good

vars == <<rows, cleaned, reported>>

\* No two rows of a table have one key.
KeysUnique ==
  \A t \in Table : \A r, s \in rows[t] : recordKey[r] = recordKey[s] => r = s

Init ==
  /\ rows \in [Table -> SUBSET Record]
  /\ KeysUnique
  /\ cleaned = {}
  /\ reported = {}

Insert(t, r) ==
  /\ \A s \in rows[t] : recordKey[s] # recordKey[r]
  /\ rows' = [rows EXCEPT ![t] = @ \cup {r}]
  /\ UNCHANGED <<cleaned, reported>>

Cleanup(t, old) ==
  /\ rows' = [rows EXCEPT ![t] = @ \ old]
  /\ cleaned' = cleaned \cup old
  /\ UNCHANGED reported

Report(stored) ==
  /\ stored \subseteq cleaned \cup UNION {rows[t] : t \in Table}
  /\ reported' = reported \cup stored
  /\ UNCHANGED <<rows, cleaned>>

Next ==
  \/ \E t \in Table : \/ \E r \in Record : Insert(t, r)
                      \/ \E old \in SUBSET rows[t] : Cleanup(t, old)
  \/ \E stored \in SUBSET Record : Report(stored)

Spec == Init /\ [][Next]_vars
===============================================================================
