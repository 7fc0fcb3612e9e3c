--------------------------- MODULE TaskTableProofs ---------------------------
(***************************************************************************)
(* What the statements of TaskTable make of a row: the facts about them    *)
(* that the proofs of the modules using the table share.                   *)
(***************************************************************************)
EXTENDS TaskTable, TLAPS

\* What a statement makes of a row is a row.
LEMMA RowStatements ==
  \A r \in Row :
    /\ Inserted \in Row
    /\ \A p \in Pids : Claimed(r, p) \in Row
    /\ \A o \in Outcome : Stored(r, o) \in Row
    /\ \A b \in BOOLEAN : Errored(r, b) \in Row
    /\ TimedOut(r) \in Row
    /\ [r EXCEPT !.started = "overdue"] \in Row
<1> TAKE r \in Row
<1>1. Inserted \in Row
  BY DEF Row, Status, Inserted, NoRow
<1>2. ASSUME NEW p \in Pids
      PROVE  Claimed(r, p) \in Row
  BY DEF Row, Status, Claimed
<1>3. ASSUME NEW o \in Outcome
      PROVE  Stored(r, o) \in Row
  BY DEF Row, Status, Stored
<1>4. ASSUME NEW b \in BOOLEAN
      PROVE  Errored(r, b) \in Row
  BY DEF Row, Status, Errored
<1>5. TimedOut(r) \in Row
  BY DEF Row, Status, TimedOut
<1>6. [r EXCEPT !.started = "overdue"] \in Row
  BY DEF Row, Status
<1>7. QED
  BY <1>1, <1>2, <1>3, <1>4, <1>5, <1>6

\* So is every row of the table after reset_broken_tasks.
LEMMA RequeuedRows ==
  ASSUME NEW table \in [Tasks -> Row], NEW pids
  PROVE  Requeued(table, pids) \in [Tasks -> Row]
  BY DEF Row, Status, Requeued

\* The status a row has after each statement.
LEMMA StatementStatus ==
  \A r \in Row :
    /\ Inserted.status = "QUEUED"
    /\ \A p \in Pids : Claimed(r, p).status = "ACTIVE" /\ Claimed(r, p).pid = p
    /\ \A o \in Outcome : Stored(r, o).status \in Terminal
<1> TAKE r \in Row
<1>1. Inserted.status = "QUEUED"
  BY DEF Inserted, NoRow
<1>2. ASSUME NEW p \in Pids
      PROVE  Claimed(r, p).status = "ACTIVE" /\ Claimed(r, p).pid = p
  BY DEF Row, Claimed
<1>3. ASSUME NEW o \in Outcome
      PROVE  Stored(r, o).status \in Terminal
  BY DEF Row, Stored, Terminal
<1>4. QED
  BY <1>1, <1>2, <1>3

\* reset_broken_tasks turns ACTIVE rows of the given pids into QUEUED ones, and
\* touches no other.
LEMMA RequeuedStatus ==
  ASSUME NEW table \in [Tasks -> Row], NEW pids, NEW t \in Tasks
  PROVE  IF table[t].status = "ACTIVE" /\ table[t].pid \in pids
         THEN Requeued(table, pids)[t].status = "QUEUED"
         ELSE Requeued(table, pids)[t] = table[t]
<1>1. CASE table[t].status = "ACTIVE" /\ table[t].pid \in pids
  BY <1>1 DEF Requeued, Row
<1>2. CASE ~(table[t].status = "ACTIVE" /\ table[t].pid \in pids)
  BY <1>2 DEF Requeued
<1>3. QED
  BY <1>1, <1>2
=============================================================================
