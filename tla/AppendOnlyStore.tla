-------------------------- MODULE AppendOnlyStore --------------------------
(***************************************************************************)
(* What the usage repository promises: a record is added under its id once *)
(* and is never replaced, changed or removed.  Only a loss of power may    *)
(* take records away, and never one the repository has made permanent.     *)
(***************************************************************************)
CONSTANTS Records, Ids, NoRecord

VARIABLES stored,   \* [Ids -> Records \cup {NoRecord}]
          kept      \* ids whose record is permanent

Present == {id \in Ids : stored[id] # NoRecord}

Init == stored = [id \in Ids |-> NoRecord] /\ kept = {}

Append(r) ==
  /\ stored[r.id] = NoRecord
  /\ stored' = [stored EXCEPT ![r.id] = r]
  /\ UNCHANGED kept

Keep == kept' = Present /\ UNCHANGED stored

Lose(lost) ==
  /\ lost \cap kept = {}
  /\ stored' = [id \in Ids |-> IF id \in lost THEN NoRecord ELSE stored[id]]
  /\ UNCHANGED kept

Next ==
  \/ \E r \in Records : Append(r)
  \/ Keep
  \/ \E lost \in SUBSET Ids : Lose(lost)

Spec == Init /\ [][Next]_<<stored, kept>>
=============================================================================
