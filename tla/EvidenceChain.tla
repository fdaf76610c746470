---------------------------- MODULE EvidenceChain ----------------------------
(***************************************************************************)
(* The evidence chain of one session (evidence/chain.py): a table whose    *)
(* rows are numbered from 1 and carry the hash of the row before.  One     *)
(* append is one IMMEDIATE transaction of SQLite, so it is one step here:  *)
(* it reads the last row and inserts the next, or is rolled back.          *)
(*                                                                         *)
(* A hash is the record it is the hash of: equal records have equal        *)
(* hashes, different ones different hashes, and that is all that is used.  *)
(***************************************************************************)
EXTENDS Sequences, Naturals

GENESIS_HASH == [genesis |-> TRUE]

\* canonical_hash of an event with its evidence fields, event_hash apart.
Hash(event, sequence, previous) ==
  [event |-> event, sequence |-> sequence, previous |-> previous]

\* The row that append inserts after the rows it finds.
NextRow(rows, event) ==
  LET n        == Len(rows)
      sequence == IF n = 0 THEN 1 ELSE rows[n].sequence + 1
      previous == IF n = 0 THEN GENESIS_HASH ELSE rows[n].event_hash
  IN  [ event         |-> event,
        sequence      |-> sequence,
        previous_hash |-> previous,
        event_hash    |-> Hash(event, sequence, previous) ]

Appended(rows, event) == Append(rows, NextRow(rows, event))

\* What verify says of each row, going by the rows before it.
SequenceGap(rows, i) == rows[i].sequence # i
PreviousMismatch(rows, i) ==
  rows[i].previous_hash # (IF i = 1 THEN GENESIS_HASH ELSE rows[i - 1].event_hash)
\* Fault: the stored hash is believed.
HashUnchecked(rows, i) == FALSE
HashMismatch(rows, i) ==
  rows[i].event_hash # Hash(rows[i].event, rows[i].sequence, rows[i].previous_hash)

\* verify: the first row that is wrong, 0 when there is none.
FirstInvalid(rows) ==
  LET bad == { i \in DOMAIN rows : \/ SequenceGap(rows, i)
                                   \/ PreviousMismatch(rows, i)
                                   \/ HashMismatch(rows, i) }
  IN  IF bad = {} THEN 0 ELSE CHOOSE i \in bad : \A j \in bad : i <= j

Valid(rows) == FirstInvalid(rows) = 0

\* Faults of the disk: a row is lost, or another event stands in a document
\* whose evidence fields are as they were.
Lost(rows, i) ==
  [ j \in 1..(Len(rows) - 1) |-> IF j < i THEN rows[j] ELSE rows[j + 1] ]

Altered(rows, i, event) == [rows EXCEPT ![i].event = event]

EventsOf(rows) == [ i \in DOMAIN rows |-> rows[i].event ]
=============================================================================
