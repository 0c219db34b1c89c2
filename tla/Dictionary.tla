----------------------------- MODULE Dictionary -----------------------------
(***************************************************************************)
(* What a table's B+ tree promises its users: a map from keys to rows that  *)
(* a transaction changes one key at a time, that a commit keeps and that a  *)
(* rollback puts back as the transaction found it.                          *)
(***************************************************************************)
CONSTANTS Key, Row, NoRow

VARIABLES rows,     \* key -> its row, or NoRow
          saved,    \* the rows the open transaction found
          txn       \* "open", or how the last transaction ended

vars == <<rows, saved, txn>>

Ended == {"committed", "rolledback"}

NoRows == [k \in Key |-> NoRow]

Init == /\ rows = NoRows
        /\ saved = NoRows
        /\ txn = "committed"

Begin == txn \in Ended /\ txn' = "open" /\ saved' = rows /\ UNCHANGED rows

(* Key k gets a row, another row, or loses it. *)
Set(k) == /\ txn = "open" /\ UNCHANGED <<saved, txn>>
          /\ rows'[k] \in Row \cup {NoRow}
          /\ \A other \in Key \ {k} : rows'[other] = rows[other]

Commit == txn = "open" /\ txn' = "committed" /\ saved' = NoRows /\ UNCHANGED rows

Rollback == txn = "open" /\ txn' = "rolledback" /\ saved' = NoRows /\ rows' = saved

Next == \/ Begin \/ Commit \/ Rollback
        \/ \E k \in Key : Set(k)

Spec == Init /\ [][Next]_vars
=============================================================================
