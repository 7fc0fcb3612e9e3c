------------------------- MODULE PackageChecksProofs -------------------------
(***************************************************************************)
(* What holds of PackageChecks for all packages, kinds of task, handlers   *)
(* and workers.  Without deletions, handlers may interleave: an outcome is *)
(* about its own task, and a restart deletes no unfinished task.  With     *)
(* every handler in use, but one at a time, the tasks of a package are     *)
(* whole batches, of which one at most is unfinished.                      *)
(***************************************************************************)
EXTENDS PackageChecks, TaskTableProofs, Recursions, FiniteSetTheorems

-----------------------------------------------------------------------------
(* The table *)

\* A handler at work has a package.
Engaged == \A r \in Requests : rpc[r] # "idle" => target[r] \in Packages

\* An id that is not in use is about nothing.
AbsentAreBlank == \A t \in Tasks : row[t].status = "ABSENT" => about[t] = NoCheck

\* There is a largest id.
Bounded == \E n \in Nat : \A t \in Present : t <= n

TableInv == TypeOK /\ Engaged /\ AbsentAreBlank /\ Bounded

\* Base is the largest id in the table, or 0.
BaseFacts ==
  /\ Base \in Nat
  /\ Base = 0 \/ Base \in Present
  /\ \A t \in Present : t <= Base

LEMMA BaseIsLargest == Bounded => BaseFacts
<1> SUFFICES ASSUME Bounded
             PROVE  BaseFacts
  OBVIOUS
<1> DEFINE Largest(n) == (n = 0 \/ n \in Present) /\ \A t \in Present : t <= n
<1>1. Present \subseteq Tasks /\ Tasks \subseteq Nat
  BY TaskIds DEF Present
<1>2. \E n \in Tasks \cup {0} : Largest(n)
  <2>1. CASE Present = {}
    BY <2>1
  <2>2. CASE Present # {}
    <3>1. PICK n \in Nat : \A t \in Present : t <= n
      BY DEF Bounded
    <3>2. Present \in SUBSET (0..n)
      BY <1>1, <3>1
    <3>3. \E g \in Present : \A t \in Present : t <= g
      BY <2>2, <3>2, HasGreatest
    <3> QED BY <1>1, <3>3
  <2> QED BY <2>1, <2>2
<1>3. Base \in Tasks \cup {0} /\ Largest(Base)
  BY <1>2 DEF Base
<1> QED BY <1>1, <1>3 DEF BaseFacts

\* It is so in the next state as well.
LEMMA BaseIsLargestNext == Bounded' => BaseFacts'
  BY BaseIsLargest, PTL

\* The ids of a new batch are above every id in use, one for each kind of task.
LEMMA BatchIsNew ==
  ASSUME Bounded
  PROVE  /\ \A t \in Batch : t > Base /\ t \notin Present /\ t - Base \in Kinds
         /\ \A k \in Kinds : k \in Nat /\ k > 0 /\ Base + k \in Batch
         /\ Base + 1 \in Batch
<1>1. Cardinality(Kinds) \in Nat /\ Kinds = 1..Cardinality(Kinds) /\ Kinds # {}
  BY KindsAreNumbered, FS_CardinalityType
<1>2. \A k \in Kinds : k \in Nat /\ k > 0
  BY <1>1
<1>3. 1 \in Kinds
  BY <1>1
<1> QED BY <1>2, <1>3, BaseIsLargest DEF Batch, BaseFacts

\* So the table has a largest id again after an insertion.
LEMMA StillBounded ==
  ASSUME Bounded, Present' \subseteq Present \cup Batch
  PROVE  Bounded'
<1>1. Cardinality(Kinds) \in Nat /\ Kinds = 1..Cardinality(Kinds)
  BY KindsAreNumbered, FS_CardinalityType
<1>2. \A t \in Batch : t <= Base + Cardinality(Kinds)
  BY <1>1, BaseIsLargest DEF Batch, BaseFacts
<1>3. Base + Cardinality(Kinds) \in Nat /\ Base <= Base + Cardinality(Kinds)
  BY <1>1, BaseIsLargest DEF BaseFacts
<1>4. \A t \in Present : t <= Base + Cardinality(Kinds)
  <2> SUFFICES ASSUME NEW t \in Present
               PROVE  t <= Base + Cardinality(Kinds)
    OBVIOUS
  <2>1. t \in Nat /\ t <= Base
    BY BaseIsLargest, TaskIds DEF Present, BaseFacts
  <2> QED BY <1>1, <2>1, BaseIsLargest DEF BaseFacts
<1>5. \A t \in Present' : t <= Base + Cardinality(Kinds)
  BY <1>2, <1>4
<1> QED BY <1>3, <1>5 DEF Bounded

\* What a batch for p, in place of the rows `gone`, makes of the table.
LEMMA ReplaceDoes ==
  ASSUME TableInv, NEW p \in Packages, NEW gone \in SUBSET Tasks, Batch \subseteq Tasks,
         Replace(p, gone)
  PROVE  /\ row' \in [Tasks -> Row]
         /\ about' \in [Tasks -> Check \cup {NoCheck}]
         /\ earned' \in [Tasks -> Check \cup {NoCheck}]
         /\ \A t \in gone : row'[t].status = "ABSENT" /\ about'[t] = NoCheck
         /\ \A t \in Batch \ gone : row'[t].status = "QUEUED" /\ about'[t] = <<p, t - Base>>
         /\ \A t \in (Tasks \ gone) \ Batch :
              row'[t] = row[t] /\ about'[t] = about[t] /\ earned'[t] = earned[t]
         /\ Present' = (Present \ gone) \cup (Batch \ gone)
<1>1. NoRow \in Row /\ NoRow.status = "ABSENT" /\ Inserted \in Row /\ Inserted.status = "QUEUED"
  BY RowStatements, StatementStatus DEF NoRow, Row, Status, Inserted
<1>2. \A t \in Batch : <<p, t - Base>> \in Check
  BY BatchIsNew DEF TableInv, Check
<1> HIDE DEF NoRow, Inserted
<1>3. row' = [t \in Tasks |-> IF t \in gone THEN NoRow
                              ELSE IF t \in Batch THEN Inserted ELSE row[t]]
  BY DEF Replace
<1>4. about' = [t \in Tasks |-> IF t \in gone THEN NoCheck
                                ELSE IF t \in Batch THEN <<p, t - Base>> ELSE about[t]]
  BY DEF Replace
<1>5. earned' = [t \in Tasks |-> IF t \in gone \cup Batch THEN NoCheck ELSE earned[t]]
  BY DEF Replace
<1>6. row' \in [Tasks -> Row] /\ about' \in [Tasks -> Check \cup {NoCheck}]
        /\ earned' \in [Tasks -> Check \cup {NoCheck}]
  BY <1>1, <1>2, <1>3, <1>4, <1>5 DEF TableInv, TypeOK
<1>7. \A t \in gone : row'[t].status = "ABSENT" /\ about'[t] = NoCheck
  BY <1>1, <1>3, <1>4
<1>8. \A t \in Batch \ gone : row'[t].status = "QUEUED" /\ about'[t] = <<p, t - Base>>
  BY <1>1, <1>3, <1>4
<1>9. \A t \in (Tasks \ gone) \ Batch :
        row'[t] = row[t] /\ about'[t] = about[t] /\ earned'[t] = earned[t]
  BY <1>3, <1>4, <1>5
<1>10. Present' = (Present \ gone) \cup (Batch \ gone)
  BY <1>7, <1>8, <1>9, BatchIsNew DEF Present, TableInv
<1> QED BY <1>6, <1>7, <1>8, <1>9, <1>10

-----------------------------------------------------------------------------
(* The tasks of a package and kind *)

OfKind(p, k) == {t \in Present : about[t] = <<p, k>>}

\* They are tasks of the package.
LEMMA KindsAreTasks ==
  ASSUME NEW p \in Packages, NEW k \in Kinds, NEW t \in OfKind(p, k)
  PROVE  t \in TasksOf(p) /\ about[t][1] = p
<1>1. t \in Present /\ about[t] = <<p, k>> /\ <<p, k>> # NoCheck
  BY NullsAreDistinct DEF OfKind
<1>2. <<p, k>>[1] = p
  OBVIOUS
<1>3. about[t][1] = p
  BY <1>1, <1>2, Zenon
<1> QED BY <1>1, <1>3 DEF TasksOf

\* The tasks of a package and kind are finitely many.
LEMMA KindsAreFinite ==
  ASSUME TableInv
  PROVE  \A p \in Packages, k \in Kinds : IsFiniteSet(OfKind(p, k))
<1>1. Present \subseteq 0..Base
  <2> SUFFICES ASSUME NEW t \in Present
               PROVE  t \in 0..Base
    OBVIOUS
  <2>1. t \in Nat /\ Base \in Nat /\ t <= Base
    BY BaseIsLargest, TaskIds DEF TableInv, BaseFacts, Present
  <2> QED BY <2>1
<1>2. IsFiniteSet(0..Base)
  BY BaseIsLargest, FS_Interval DEF TableInv, BaseFacts
<1>3. \A p \in Packages, k \in Kinds : OfKind(p, k) \subseteq 0..Base
  BY <1>1 DEF OfKind
<1> QED BY <1>2, <1>3, FS_Subset


\* A batch for p0 in place of the rows `gone` adds one task of each kind to p0.
LEMMA BatchAdds ==
  ASSUME TableInv, NEW p0 \in Packages, NEW gone \in SUBSET Tasks, Batch \subseteq Tasks,
         gone \cap Batch = {}, Replace(p0, gone),
         NEW p \in Packages, NEW k \in Kinds
  PROVE  /\ OfKind(p, k)' = (OfKind(p, k) \ gone) \cup (IF p = p0 THEN {Base + k} ELSE {})
         /\ Base + k \notin OfKind(p, k)
<1> USE DEF TableInv, TypeOK
<1>1. /\ \A t \in Batch : about'[t] = <<p0, t - Base>>
      /\ \A t \in (Tasks \ gone) \ Batch : about'[t] = about[t]
      /\ Present' = (Present \ gone) \cup Batch
  BY ReplaceDoes
<1>2. Present \cap Batch = {} /\ Present \subseteq Tasks
  BY BatchIsNew DEF Present
<1>3. Base + k \in Batch /\ k \in Nat /\ Base \in Nat
  BY BatchIsNew, BaseIsLargest DEF BaseFacts
<1>4. ASSUME NEW t \in Batch
      PROVE  about'[t] = <<p, k>> <=> p = p0 /\ t = Base + k
  <2>1. about'[t] = <<p0, t - Base>> /\ t \in Nat
    BY <1>1, TaskIds
  <2> QED BY <1>3, <2>1
<1>5. ASSUME NEW t \in Present \ gone
      PROVE  about'[t] = about[t]
  BY <1>1, <1>2
<1>6. \A t : t \in OfKind(p, k)'
               <=> t \in OfKind(p, k) \ gone \/ (p = p0 /\ t = Base + k)
  BY <1>1, <1>2, <1>3, <1>4, <1>5 DEF OfKind
<1>7. Base + k \notin OfKind(p, k)
  BY <1>2, <1>3 DEF OfKind
<1> QED BY <1>6, <1>7

\* A step of a worker neither adds nor deletes a row, and a settled task stays settled.
LEMMA WorkersKeepTheTable ==
  ASSUME TableInv, NEW w \in Pids, Claim(w) \/ Finish(w) \/ Lose(w)
  PROVE  /\ row' \in [Tasks -> Row]
         /\ UNCHANGED <<store, about, rpc, target, seen>>
         /\ Present' = Present
         /\ \A t \in Tasks : row[t].status \in Terminal => row'[t].status \in Terminal
<1> DEFINE Good(r, s) == /\ s \in Row
                         /\ r.status = "ABSENT" <=> s.status = "ABSENT"
                         /\ r.status \in Terminal => s.status \in Terminal
<1> USE DEF TableInv, TypeOK
<1>1. \A t \in Tasks : row[t].status \in Status
  BY DEF Row
<1>2. \A t \in Tasks : Good(row[t], row'[t])
  <2> SUFFICES ASSUME NEW t \in Tasks
               PROVE  Good(row[t], row'[t])
    OBVIOUS
  <2>1. CASE Claim(w)
    <3>1. PICK u \in Tasks : row[u].status = "QUEUED" /\ row' = [row EXCEPT ![u] = Claimed(@, w)]
      BY <2>1 DEF Claim, Oldest
    <3>2. Claimed(row[u], w) \in Row /\ Claimed(row[u], w).status = "ACTIVE"
      BY RowStatements, StatementStatus
    <3> HIDE DEF Claimed
    <3> QED BY <3>1, <3>2 DEF Terminal
  <2>2. CASE Finish(w)
    <3>1. CASE job[w] \in Present
      <4>1. PICK o \in Outcome : row' = [row EXCEPT ![job[w]] = Stored(@, o)]
        BY <2>2, <3>1, ReturnsAreOutcomes DEF Finish, Outcome
      <4>2. Stored(row[job[w]], o) \in Row /\ Stored(row[job[w]], o).status \in Terminal
        BY <3>1, RowStatements, StatementStatus DEF Present
      <4> HIDE DEF Stored
      <4> QED BY <3>1, <4>1, <4>2 DEF Present, Terminal
    <3>2. CASE job[w] \notin Present
      BY <2>2, <3>2 DEF Finish
    <3> QED BY <3>1, <3>2
  <2>3. CASE Lose(w)
    <3>1. row' = Requeued(row, {w})
      BY <2>3 DEF Lose
    <3>2. row' \in [Tasks -> Row]
      BY <3>1, RequeuedRows
    <3>3. \/ row[t].status = "ACTIVE" /\ row'[t].status = "QUEUED"
          \/ row'[t] = row[t]
      BY <3>1, RequeuedStatus
    <3> QED BY <3>2, <3>3 DEF Terminal
  <2> QED BY <2>1, <2>2, <2>3
<1>3. UNCHANGED <<store, about, rpc, target, seen>>
  BY DEF Claim, Finish, Lose, requestVars
<1>4. DOMAIN row' = Tasks
  BY DEF Claim, Finish, Lose, Requeued
<1>5. row' \in [Tasks -> Row]
  <2>1. row' = [t \in Tasks |-> row'[t]]
    <3>1. CASE Claim(w)
      BY <3>1 DEF Claim
    <3>2. CASE Finish(w)
      BY <3>2 DEF Finish
    <3>3. CASE Lose(w)
      BY <3>3 DEF Lose, Requeued
    <3> QED BY <3>1, <3>2, <3>3
  <2> QED BY <1>2, <2>1
<1>6. Present' = Present
  BY <1>2 DEF Present
<1> QED BY <1>2, <1>3, <1>5, <1>6

LEMMA TableStep == TableInv /\ [Next]_vars => TableInv'
<1> SUFFICES ASSUME TableInv, [Next]_vars
             PROVE  TableInv'
  OBVIOUS
<1> USE DEF TableInv, TypeOK, Engaged, AbsentAreBlank, requestVars, workerVars
<1>0. Present' = Present => Bounded'
  BY DEF Bounded
<1>1. CASE \E p \in Packages : Upload(p)
  BY <1>0, <1>1 DEF Upload, Present
<1>2. CASE Bulk
  <2>1. row' \in [Tasks -> Row] /\ \A t \in Tasks : t # Base + 1 => row'[t] = row[t]
    BY <1>2, RowStatements DEF Bulk
  <2>2. AbsentAreBlank'
    BY <1>2, <2>1, BatchIsNew DEF Bulk, Present
  <2>3. Bounded'
    BY <1>2, <2>1, BatchIsNew, StillBounded DEF Present
  <2> QED BY <1>2, <2>1, <2>2, <2>3 DEF Bulk
<1>3. ASSUME NEW r \in Requests,
             (\E op \in Ops, p \in Packages : Begin(r, op, p)) \/ Cascade(r) \/ CommitFails(r)
      PROVE  TableInv'
  <2>1. CASE \E op \in Ops, p \in Packages : Begin(r, op, p)
    BY <1>0, <2>1, OpsAreHandlers DEF Begin, Present
  <2>2. CASE Cascade(r)
    BY <1>0, <2>2 DEF Cascade, Present, TasksOf
  <2>3. CASE CommitFails(r)
    BY <1>0, <2>3 DEF CommitFails, Done, Present
  <2> QED BY <1>3, <2>1, <2>2, <2>3
<1>4. ASSUME NEW r \in Requests, ReadStatus(r)
      PROVE  TableInv'
  <2>1. CASE Done(r)
    BY <1>0, <1>4, <2>1 DEF ReadStatus, Done, Present
  <2>2. CASE /\ rpc' = [rpc EXCEPT ![r] = IF @ = "check" THEN "create" ELSE "recreate"]
             /\ seen' = [seen EXCEPT ![r] = TasksOf(target[r])]
             /\ UNCHANGED target
    BY <1>0, <1>4, <2>2 DEF ReadStatus, Present, TasksOf
  <2> QED BY <1>4, <2>1, <2>2 DEF ReadStatus
<1>5. ASSUME NEW r \in Requests, CommitBatch(r)
      PROVE  TableInv'
  <2> DEFINE gone == IF rpc[r] = "create" THEN {} ELSE seen[r]
  <2>1. /\ target[r] \in Packages /\ gone \in SUBSET Tasks /\ Batch \subseteq Tasks
        /\ Replace(target[r], gone) /\ Done(r)
        /\ UNCHANGED <<store, job, args, lost>>
    BY <1>5 DEF CommitBatch
  <2> HIDE DEF gone
  <2>2. /\ row' \in [Tasks -> Row]
        /\ about' \in [Tasks -> Check \cup {NoCheck}]
        /\ earned' \in [Tasks -> Check \cup {NoCheck}]
        /\ \A t \in gone : row'[t].status = "ABSENT" /\ about'[t] = NoCheck
        /\ \A t \in Batch \ gone : row'[t].status = "QUEUED"
        /\ \A t \in (Tasks \ gone) \ Batch : row'[t] = row[t] /\ about'[t] = about[t]
        /\ Present' = (Present \ gone) \cup (Batch \ gone)
    BY <2>1, ReplaceDoes
  <2>3. AbsentAreBlank'
    BY <2>2
  <2>4. Bounded'
    BY <2>2, StillBounded
  <2>5. Engaged' /\ rpc' \in [Requests -> {"idle"} \cup (Ops \ {"bulk"})
                                            \cup {"create", "recreate", "remove"}]
        /\ target' \in [Requests -> Packages \cup {NoPackage}]
        /\ seen' \in [Requests -> SUBSET Tasks]
    BY <2>1 DEF Done
  <2> QED BY <2>1, <2>2, <2>3, <2>4, <2>5
<1>6. ASSUME NEW r \in Requests, CommitDelete(r)
      PROVE  TableInv'
  <2>1. NoRow \in Row /\ NoRow.status = "ABSENT"
    BY DEF NoRow, Row, Status
  <2>2. row' \in [Tasks -> Row]
    BY <1>6, <2>1 DEF CommitDelete
  <2>3. AbsentAreBlank' /\ Present' \subseteq Present
    BY <1>6, <2>1 DEF CommitDelete, Present
  <2>4. Bounded'
    BY <2>3 DEF Bounded
  <2> QED BY <1>6, <2>2, <2>3, <2>4 DEF CommitDelete, Done
<1>7. ASSUME NEW w \in Pids, Claim(w) \/ Finish(w) \/ Lose(w)
      PROVE  TableInv'
  <2>1. /\ row' \in [Tasks -> Row]
        /\ UNCHANGED <<store, about, rpc, target, seen>>
        /\ Present' = Present
    BY <1>7, WorkersKeepTheTable
  <2>2. AbsentAreBlank'
    BY <2>1 DEF Present
  <2>3. /\ job' \in [Pids -> Tasks \cup {NoTask}]
        /\ args' \in [Pids -> Check \cup {NoCheck}]
        /\ earned' \in [Tasks -> Check \cup {NoCheck}]
    BY <1>7 DEF Claim, Finish, Lose
  <2>4. lost' \in 0..MaxLost
    BY <1>7, LostIsNat DEF Claim, Finish, Lose
  <2> QED BY <1>0, <2>1, <2>2, <2>3, <2>4
<1>8. CASE UNCHANGED vars
  BY <1>0, <1>8 DEF vars, Present
<1> QED BY <1>1, <1>2, <1>3, <1>4, <1>5, <1>6, <1>7, <1>8 DEF Next

LEMMA TableInvariant == Spec => []TableInv
<1>1. Init => TableInv
  <2>1. Init => Present = {}
    BY DEF Init, Present, NoRow
  <2>2. Init => Bounded
    BY <2>1 DEF Bounded
  <2>3. Init => TypeOK
    BY LostIsNat DEF Init, TypeOK, NoRow, Row, Status
  <2> QED BY <2>2, <2>3 DEF Init, TableInv, Engaged, AbsentAreBlank
<1> QED BY <1>1, TableStep, PTL DEF Spec

\* The variables of PackageChecks keep their types, whichever handlers are in use.
THEOREM TypeCorrect == Spec => []TypeOK
<1>1. TableInv => TypeOK
  BY DEF TableInv
<1> QED BY <1>1, TableInvariant, PTL

-----------------------------------------------------------------------------
(* Handlers that interleave, without deletions *)

\* A worker holds the ACTIVE row it has claimed and was given what that row is about.
WorkersAgree ==
  \A w \in Pids : job[w] # NoTask =>
    /\ row[job[w]].status = "ACTIVE"
    /\ row[job[w]].pid = w
    /\ args[w] = about[job[w]]

\* What a handler has read is settled or deleted by now, and no new task gets its id.
ReadersAgree ==
  \A r \in Requests :
    /\ rpc[r] \notin {"delete", "remove"}
    /\ \A t \in seen[r] : t <= Base /\ row[t].status \in Terminal \cup {"ABSENT"}

RestartInv == WorkersAgree /\ ReadersAgree /\ OutcomeIsItsOwn

\* Without deletions the largest id never gets smaller.
LEMMA BaseGrows ==
  ASSUME TableInv, Bounded', Base = 0 \/ Base \in Present'
  PROVE  Base <= Base'
<1>1. Base \in Nat /\ Base' \in Nat
  BY BaseIsLargest, BaseIsLargestNext DEF TableInv, BaseFacts
<1> QED BY <1>1, BaseIsLargestNext DEF BaseFacts

\* A restart deletes no unfinished task, and a QUEUED task is claimed or stays.
SafeStep ==
  /\ \A t \in Tasks : Unfinished(t) => row'[t].status # "ABSENT"
  /\ \A t \in Tasks : row[t].status = "QUEUED" => row'[t].status \in {"QUEUED", "ACTIVE"}

\* The steps of the handlers that change no task.
LEMMA RestartReads ==
  ASSUME "delete" \notin Ops, TableInv, TableInv', RestartInv,
         UNCHANGED <<row, about, job, args, earned>>,
         \/ UNCHANGED <<rpc, seen>>
         \/ \E r \in Requests : \/ \E op \in Ops, p \in Packages : Begin(r, op, p)
                               \/ ReadStatus(r) \/ CommitFails(r)
  PROVE  RestartInv' /\ SafeStep
<1> USE DEF TableInv, TypeOK, RestartInv, WorkersAgree, ReadersAgree, OutcomeIsItsOwn, SafeStep
<1>1. Present' = Present
  BY DEF Present
<1>2. \A t \in Present' : t <= Base'
  BY BaseIsLargestNext DEF BaseFacts
<1>3. \A t \in Tasks : t <= Base => t <= Base'
  BY <1>1, BaseGrows, BaseIsLargest, BaseIsLargestNext, TaskIds DEF BaseFacts
<1>4. \A q \in Requests : \A t \in seen'[q] : t \in seen[q] \/ (t \in Present /\ ~Unfinished(t))
  <2>1. ASSUME NEW r \in Requests, ReadStatus(r)
        PROVE  \A q \in Requests : \A t \in seen'[q] :
                 t \in seen[q] \/ (t \in Present /\ ~Unfinished(t))
    <3>1. CASE Done(r)
      BY <3>1 DEF Done
    <3>2. CASE /\ seen' = [seen EXCEPT ![r] = TasksOf(target[r])]
               /\ \A t \in TasksOf(target[r]) : ~Unfinished(t)
      BY <3>2 DEF TasksOf
    <3> QED BY <2>1, <3>1, <3>2 DEF ReadStatus
  <2> QED BY <2>1 DEF Begin, CommitFails, Done
<1>5. \A q \in Requests : rpc'[q] \notin {"delete", "remove"}
  BY OpsAreHandlers DEF Begin, ReadStatus, CommitFails, Done
<1>6. ReadersAgree'
  <2> SUFFICES ASSUME NEW q \in Requests, NEW t \in seen'[q]
               PROVE  t <= Base' /\ row'[t].status \in Terminal \cup {"ABSENT"}
    BY <1>5
  <2>1. CASE t \in seen[q]
    BY <1>3, <2>1
  <2>2. CASE t \in Present /\ ~Unfinished(t)
    BY <1>1, <1>2, <2>2 DEF Present, Unfinished, Row, Status, Terminal
  <2> QED BY <1>4, <2>1, <2>2
<1>7. SafeStep
  BY DEF Unfinished
<1> QED BY <1>6, <1>7

\* A task for no package is added.
LEMMA RestartBulk ==
  ASSUME TableInv, TableInv', RestartInv, Bulk
  PROVE  RestartInv' /\ SafeStep
<1> USE DEF TableInv, TypeOK, RestartInv, WorkersAgree, ReadersAgree, OutcomeIsItsOwn, SafeStep
<1>1. /\ Base + 1 \in Tasks /\ Base + 1 \notin Present
      /\ row'[Base + 1].status = "QUEUED"
      /\ \A t \in Tasks : t # Base + 1 => row'[t] = row[t]
      /\ UNCHANGED <<about, job, args, earned, rpc, seen>>
  BY BatchIsNew, StatementStatus DEF Bulk, requestVars, workerVars
<1>2. \A t \in Present : row'[t] = row[t]
  BY <1>1 DEF Present
<1>3. Base <= Base'
  BY <1>2, BaseGrows, BaseIsLargest DEF BaseFacts, Present
<1>4. ReadersAgree'
  BY <1>1, <1>3, BaseIsLargest, BaseIsLargestNext, TaskIds DEF BaseFacts
<1>5. WorkersAgree'
  BY <1>1, <1>2 DEF Present
<1>6. OutcomeIsItsOwn' /\ SafeStep
  BY <1>1, <1>2 DEF Terminal, Unfinished, Present
<1> QED BY <1>4, <1>5, <1>6

\* A batch is added, and a restart deletes what it has read.
LEMMA RestartCommits ==
  ASSUME TableInv, TableInv', RestartInv, NEW r \in Requests, CommitBatch(r)
  PROVE  RestartInv' /\ SafeStep
<1> DEFINE gone == IF rpc[r] = "create" THEN {} ELSE seen[r]
<1> USE DEF TableInv, TypeOK, RestartInv, WorkersAgree, ReadersAgree, OutcomeIsItsOwn, SafeStep
<1>1. /\ target[r] \in Packages /\ gone \in SUBSET Tasks /\ gone \subseteq seen[r]
      /\ Batch \subseteq Tasks /\ Replace(target[r], gone) /\ Done(r)
      /\ UNCHANGED <<job, args>>
  BY DEF CommitBatch, Engaged
<1> HIDE DEF gone
<1>2. /\ \A t \in gone : row'[t].status = "ABSENT"
      /\ \A t \in Batch \ gone : row'[t].status = "QUEUED"
      /\ \A t \in (Tasks \ gone) \ Batch :
           row'[t] = row[t] /\ about'[t] = about[t] /\ earned'[t] = earned[t]
      /\ Present' = (Present \ gone) \cup (Batch \ gone)
  BY <1>1, ReplaceDoes
<1>3. \A t \in gone : t <= Base /\ ~Unfinished(t)
  BY <1>1 DEF Unfinished, Terminal
<1>4. \A t \in Batch : t > Base /\ t \notin Present
  BY BatchIsNew
<1>5. \A t \in Tasks : Unfinished(t) =>
        row'[t] = row[t] /\ about'[t] = about[t] /\ earned'[t] = earned[t]
  BY <1>2, <1>3, <1>4 DEF Unfinished, Present
<1>6. Base <= Base'
  <2>1. Base + 1 \in Present'
    BY <1>2, <1>3, BatchIsNew, BaseIsLargest DEF BaseFacts
  <2> QED BY <2>1, BaseIsLargest, BaseIsLargestNext DEF BaseFacts
<1>7. ReadersAgree'
  <2>1. \A q \in Requests : rpc'[q] \notin {"delete", "remove"} /\ seen'[q] \subseteq seen[q]
    BY <1>1 DEF Done
  <2>2. \A t \in Tasks : t <= Base => row'[t] = row[t] \/ row'[t].status = "ABSENT"
    BY <1>2, <1>4, BaseIsLargest, TaskIds DEF BaseFacts
  <2> QED BY <1>6, <2>1, <2>2, BaseIsLargest, BaseIsLargestNext, TaskIds DEF BaseFacts
<1>8. WorkersAgree'
  BY <1>1, <1>5 DEF Unfinished
<1>9. OutcomeIsItsOwn'
  BY <1>2 DEF Terminal
<1>10. SafeStep
  BY <1>5 DEF Unfinished
<1> QED BY <1>7, <1>8, <1>9, <1>10

\* A worker claims, finishes or dies.
LEMMA RestartWorks ==
  ASSUME TableInv, TableInv', RestartInv, NEW w \in Pids, Claim(w) \/ Finish(w) \/ Lose(w)
  PROVE  RestartInv' /\ SafeStep
<1> USE DEF TableInv, TypeOK, RestartInv, WorkersAgree, ReadersAgree, OutcomeIsItsOwn, SafeStep
<1>1. /\ UNCHANGED <<store, about, rpc, target, seen>>
      /\ Present' = Present
      /\ \A t \in Tasks : row[t].status \in Terminal => row'[t].status \in Terminal
  BY WorkersKeepTheTable
<1>2. \A t \in Tasks : t <= Base => t <= Base'
  BY <1>1, BaseGrows, BaseIsLargest, BaseIsLargestNext, TaskIds DEF BaseFacts
<1>3. ReadersAgree'
  BY <1>1, <1>2 DEF Present
<1>4. \A t \in Tasks : row'[t].status # "ABSENT" <=> row[t].status # "ABSENT"
  BY <1>1 DEF Present
<1>5. CASE Claim(w)
  <2>1. PICK u \in Tasks : /\ row[u].status = "QUEUED"
                           /\ row' = [row EXCEPT ![u] = Claimed(@, w)]
                           /\ job' = [job EXCEPT ![w] = u]
                           /\ args' = [args EXCEPT ![w] = about[u]]
                           /\ earned' = earned
    BY <1>5 DEF Claim, Oldest
  <2>2. row'[u].status = "ACTIVE" /\ row'[u].pid = w /\ \A t \in Tasks : t # u => row'[t] = row[t]
    BY <2>1, StatementStatus
  <2>3. WorkersAgree'
    <3> SUFFICES ASSUME NEW v \in Pids, job'[v] # NoTask
                 PROVE  /\ row'[job'[v]].status = "ACTIVE"
                        /\ row'[job'[v]].pid = v
                        /\ args'[v] = about[job'[v]]
      BY <1>1
    <3>1. CASE v = w
      BY <2>1, <2>2, <3>1
    <3>2. CASE v # w
      <4>1. job'[v] = job[v] /\ args'[v] = args[v] /\ job[v] \in Tasks /\ job[v] # u
        BY <2>1, <3>2
      <4> QED BY <2>2, <4>1
    <3> QED BY <3>1, <3>2
  <2>4. OutcomeIsItsOwn' /\ SafeStep
    <3>1. \A t \in Tasks : row'[t].status \in Terminal => row'[t] = row[t]
      BY <2>2 DEF Terminal
    <3>2. \A t \in Tasks : row[t].status = "QUEUED" => row'[t].status \in {"QUEUED", "ACTIVE"}
      BY <2>2
    <3>3. OutcomeIsItsOwn'
      BY <1>1, <2>1, <3>1
    <3> QED BY <1>4, <3>2, <3>3 DEF Unfinished
  <2> QED BY <1>3, <2>3, <2>4
<1>6. CASE Finish(w)
  <2>1. job[w] \in Present /\ job[w] \in Tasks /\ row[job[w]].status = "ACTIVE" /\ row[job[w]].pid = w
    BY <1>6 DEF Finish, Present
  <2>2. PICK o \in Outcome : row' = [row EXCEPT ![job[w]] = Stored(@, o)]
    BY <1>6, <2>1, ReturnsAreOutcomes DEF Finish, Outcome
  <2>3. /\ earned' = [earned EXCEPT ![job[w]] = args[w]]
        /\ job' = [job EXCEPT ![w] = NoTask]
        /\ args' = [args EXCEPT ![w] = NoCheck]
    BY <1>6, <2>1 DEF Finish
  <2>4. row'[job[w]].status \in Terminal /\ \A t \in Tasks : t # job[w] => row'[t] = row[t]
    BY <2>1, <2>2, StatementStatus
  <2>5. WorkersAgree'
    BY <1>1, <2>1, <2>3, <2>4
  <2>6. OutcomeIsItsOwn' /\ SafeStep
    BY <1>1, <1>4, <1>6, <2>1, <2>3, <2>4 DEF Finish, Unfinished
  <2> QED BY <1>3, <2>5, <2>6
<1>7. CASE Lose(w)
  <2>1. /\ row' = Requeued(row, {w})
        /\ job' = [job EXCEPT ![w] = NoTask]
        /\ args' = [args EXCEPT ![w] = NoCheck]
        /\ earned' = earned
    BY <1>7 DEF Lose
  <2>2. \A t \in Tasks : IF row[t].status = "ACTIVE" /\ row[t].pid = w
                         THEN row'[t].status = "QUEUED" ELSE row'[t] = row[t]
    BY <2>1, RequeuedStatus
  <2>3. WorkersAgree'
    <3> SUFFICES ASSUME NEW v \in Pids, job'[v] # NoTask
                 PROVE  /\ row'[job'[v]].status = "ACTIVE"
                        /\ row'[job'[v]].pid = v
                        /\ args'[v] = about[job'[v]]
      BY <1>1
    <3>1. v # w /\ job'[v] = job[v] /\ args'[v] = args[v] /\ job[v] \in Tasks
      BY <2>1
    <3> QED BY <2>2, <3>1
  <2>4. OutcomeIsItsOwn' /\ SafeStep
    <3>1. \A t \in Tasks : row'[t].status \in Terminal => row'[t] = row[t]
      BY <2>2 DEF Terminal
    <3>2. \A t \in Tasks : row[t].status = "QUEUED" => row'[t].status \in {"QUEUED", "ACTIVE"}
      BY <2>2
    <3>3. OutcomeIsItsOwn'
      BY <1>1, <2>1, <3>1
    <3> QED BY <1>4, <3>2, <3>3 DEF Unfinished
  <2> QED BY <1>3, <2>3, <2>4
<1> QED BY <1>5, <1>6, <1>7

LEMMA RestartStep ==
  ASSUME "delete" \notin Ops, TableInv, TableInv', RestartInv, [Next]_vars
  PROVE  RestartInv' /\ SafeStep
<1>1. CASE \E r \in Requests : CommitBatch(r)
  BY <1>1, RestartCommits
<1>2. CASE Bulk
  BY <1>2, RestartBulk
<1>3. CASE \E w \in Pids : Claim(w) \/ Finish(w) \/ Lose(w)
  BY <1>3, RestartWorks
<1>4. CASE \E r \in Requests : \/ \E op \in Ops, p \in Packages : Begin(r, op, p)
                               \/ ReadStatus(r) \/ CommitFails(r)
  <2>1. UNCHANGED <<row, about, job, args, earned>>
    BY <1>4 DEF Begin, ReadStatus, CommitFails, workerVars
  <2> QED BY <1>4, <2>1, RestartReads
<1>5. CASE UNCHANGED vars \/ \E p \in Packages : Upload(p)
  <2>1. UNCHANGED <<row, about, job, args, earned, rpc, seen>>
    BY <1>5 DEF Upload, vars, workerVars, requestVars
  <2> QED BY <2>1, RestartReads
<1>6. \A r \in Requests : ~Cascade(r) /\ ~CommitDelete(r)
  BY DEF RestartInv, ReadersAgree, Cascade, CommitDelete
<1> QED BY <1>1, <1>2, <1>3, <1>4, <1>5, <1>6 DEF Next

LEMMA RestartInvariant == ASSUME "delete" \notin Ops PROVE Spec => []RestartInv
<1>1. Init => RestartInv
  BY DEF Init, RestartInv, WorkersAgree, ReadersAgree, OutcomeIsItsOwn, NoRow, Terminal
<1>2. TableInv /\ TableInv' /\ RestartInv /\ [Next]_vars => RestartInv'
  BY RestartStep
<1> QED BY <1>1, <1>2, TableInvariant, PTL DEF Spec

\* While no package is deleted, the outcome in a row is about the package and kind of
\* that row, for all interleavings of starts, restarts and bulk downloads with the
\* workers (_task_result_process, by id).
THEOREM OutcomesAreTheirOwn == ASSUME "delete" \notin Ops PROVE Spec => []OutcomeIsItsOwn
<1>1. RestartInv => OutcomeIsItsOwn
  BY DEF RestartInv
<1> QED BY <1>1, RestartInvariant, PTL

\* While no package is deleted, a task that waits or runs is never deleted by a
\* restart, however old what the restart has read (root_package_check_restart).
THEOREM RestartsKeepTheUnfinished ==
  ASSUME "delete" \notin Ops PROVE Spec => UnfinishedIsKept
<1> DEFINE Keeps == \A t \in Tasks : Unfinished(t) => row'[t].status # "ABSENT"
<1>1. TableInv /\ TableInv' /\ RestartInv /\ [Next]_vars => Keeps
  BY RestartStep DEF SafeStep
<1> QED BY <1>1, TableInvariant, RestartInvariant, PTL DEF Spec, UnfinishedIsKept

\* While no package is deleted, a QUEUED task is claimed or goes on waiting.
THEOREM QueuedAreClaimedFirst ==
  ASSUME "delete" \notin Ops PROVE Spec => QueuedIsClaimedFirst
<1> DEFINE Claims == \A t \in Tasks : row[t].status = "QUEUED"
                       => row'[t].status \in {"QUEUED", "ACTIVE", "ABSENT"}
<1>1. TableInv /\ TableInv' /\ RestartInv /\ [Next]_vars => Claims
  BY RestartStep DEF SafeStep
<1> QED BY <1>1, TableInvariant, RestartInvariant, PTL DEF Spec, QueuedIsClaimedFirst

-----------------------------------------------------------------------------
(* Batches under interleaving, without deletions *)

\* The tasks of a batch stand at consecutive ids: the task of kind j that was added
\* together with task t of kind k.
Sibling(t, k, j) == t - k + j

\* They are all in the table or none of them is, and a handler has read all of those
\* that are there or none.
Together ==
  \A p \in Packages, k \in Kinds : \A t \in OfKind(p, k) : \A j \in Kinds :
    /\ Sibling(t, k, j) \in OfKind(p, j)
    /\ \A r \in Requests : t \in seen[r] => Sibling(t, k, j) \in seen[r]

\* The package that a handler works on, or a task is about, is in the store.
AtHome ==
  /\ TasksHavePackages
  /\ \A r \in Requests : rpc[r] # "idle" => target[r] \in store

LEMMA SiblingsOfSiblings ==
  ASSUME NEW t \in Tasks, NEW k \in Kinds, NEW j \in Kinds
  PROVE  Sibling(Sibling(t, k, j), j, k) = t
<1>1. t \in Nat /\ k \in Nat /\ j \in Nat
  BY TaskIds, KindsAreNumbered, FS_CardinalityType
<1> QED BY <1>1 DEF Sibling

\* A set that has its siblings has as many tasks of one kind as of another.
LEMMA TogetherIsWhole ==
  ASSUME TableInv, Together
  PROVE  WholeBatches
<1>1. ASSUME NEW p \in Packages, NEW k \in Kinds, NEW j \in Kinds
      PROVE  Cardinality(OfKind(p, k)) <= Cardinality(OfKind(p, j))
  <2> DEFINE f == [t \in OfKind(p, k) |-> Sibling(t, k, j)]
  <2>1. \A t \in OfKind(p, k) : t \in Tasks
    BY DEF OfKind, Present
  <2>2. f \in [OfKind(p, k) -> OfKind(p, j)]
    BY DEF Together
  <2>3. ASSUME NEW t \in OfKind(p, k), NEW u \in OfKind(p, k), f[t] = f[u]
        PROVE  t = u
    BY <2>1, <2>3, SiblingsOfSiblings
  <2>4. f \in Injection(OfKind(p, k), OfKind(p, j))
    BY <2>2, <2>3 DEF Injection, IsInjective
  <2>5. IsFiniteSet(OfKind(p, j))
    BY KindsAreFinite
  <2> QED BY <2>4, <2>5, FS_Injection
<1>2. \A p \in Packages, k \in Kinds : Cardinality(OfKind(p, k)) \in Nat
  BY KindsAreFinite, FS_CardinalityType
<1>3. \A p \in Packages, k, j \in Kinds : Cardinality(OfKind(p, k)) = Cardinality(OfKind(p, j))
  BY <1>1, <1>2
<1> QED BY <1>3 DEF WholeBatches, OfKind

LEMMA TogetherCommits ==
  ASSUME TableInv, RestartInv, Together, NEW r \in Requests, CommitBatch(r)
  PROVE  Together'
<1> USE DEF TableInv, TypeOK
<1>0. PICK p0 \in Packages, gone \in SUBSET Tasks :
        p0 = target[r] /\ gone = IF rpc[r] = "create" THEN {} ELSE seen[r]
  BY DEF CommitBatch, Engaged
<1>1. Batch \subseteq Tasks /\ Replace(p0, gone) /\ Done(r)
  BY <1>0 DEF CommitBatch
<1>2. gone \cap Batch = {}
  BY <1>0, BatchIsNew, BaseIsLargest, TaskIds DEF RestartInv, ReadersAgree, BaseFacts
<1>3. ASSUME NEW p \in Packages, NEW k \in Kinds
      PROVE  OfKind(p, k)' = (OfKind(p, k) \ gone) \cup (IF p = p0 THEN {Base + k} ELSE {})
  BY <1>1, <1>2, BatchAdds
<1>4. \A q \in Requests : seen'[q] = {} \/ seen'[q] = seen[q]
  BY <1>1 DEF Done
<1>5. ASSUME NEW p \in Packages, NEW k \in Kinds, NEW t \in OfKind(p, k)', NEW j \in Kinds
      PROVE  /\ Sibling(t, k, j) \in OfKind(p, j)'
             /\ \A q \in Requests : t \in seen'[q] => Sibling(t, k, j) \in seen'[q]
  <2>1. CASE t \in OfKind(p, k) \ gone
    <3>1. Sibling(t, k, j) \in OfKind(p, j) /\ t \in Tasks
      BY <2>1 DEF Together, OfKind, Present
    <3>2. Sibling(t, k, j) \notin gone
      BY <1>0, <2>1, <3>1, SiblingsOfSiblings DEF Together
    <3> QED BY <1>3, <1>4, <2>1, <3>1, <3>2 DEF Together
  <2>2. CASE p = p0 /\ t = Base + k
    <3>1. Sibling(t, k, j) = Base + j
      BY <2>2, BaseIsLargest, BatchIsNew DEF Sibling, BaseFacts
    <3>2. \A q \in Requests : t \notin seen[q]
      BY <2>2, BaseIsLargest, BatchIsNew DEF RestartInv, ReadersAgree, BaseFacts
    <3> QED BY <1>3, <1>4, <2>2, <3>1, <3>2
  <2> QED BY <1>3, <1>5, <2>1, <2>2
<1> QED BY <1>5 DEF Together

LEMMA TogetherStep ==
  ASSUME "delete" \notin Ops, TableInv, RestartInv, Together, AtHome, [Next]_vars
  PROVE  (Together /\ AtHome)'
<1> USE DEF TableInv, TypeOK
<1> DEFINE SameKinds == \A p \in Packages, k \in Kinds : OfKind(p, k)' = OfKind(p, k)
<1>1. CASE \E r \in Requests : CommitBatch(r)
  <2>1. PICK r \in Requests : CommitBatch(r)
    BY <1>1
  <2>2. PICK p0 \in Packages, gone \in SUBSET Tasks :
          p0 = target[r] /\ gone = IF rpc[r] = "create" THEN {} ELSE seen[r]
    BY <2>1 DEF CommitBatch, Engaged
  <2>3. Batch \subseteq Tasks /\ Replace(p0, gone) /\ Done(r) /\ UNCHANGED store /\ p0 \in store
    BY <2>1, <2>2 DEF CommitBatch, AtHome
  <2>4. /\ \A t \in Batch \ gone : about'[t] = <<p0, t - Base>>
        /\ \A t \in (Tasks \ gone) \ Batch : about'[t] = about[t]
        /\ Present' = (Present \ gone) \cup (Batch \ gone)
    BY <2>3, ReplaceDoes
  <2>5. TasksHavePackages'
    BY <2>3, <2>4 DEF AtHome, TasksHavePackages, Present
  <2>6. AtHome'
    BY <2>3, <2>5 DEF AtHome, Done
  <2> QED BY <2>1, <2>6, TogetherCommits
<1>2. CASE Bulk
  <2>1. /\ Base + 1 \in Tasks /\ Base + 1 \notin Present
        /\ row'[Base + 1].status = "QUEUED"
        /\ \A t \in Tasks : t # Base + 1 => row'[t] = row[t]
        /\ UNCHANGED <<store, about, rpc, target, seen>>
    BY <1>2, BatchIsNew, StatementStatus DEF Bulk, requestVars
  <2>2. Present' = Present \cup {Base + 1} /\ about[Base + 1] = NoCheck
    BY <2>1 DEF Present, AbsentAreBlank
  <2>3. ASSUME NEW p \in Packages, NEW k \in Kinds
        PROVE  OfKind(p, k)' = OfKind(p, k)
    <3>1. <<p, k>> # NoCheck
      BY NullsAreDistinct
    <3> QED BY <2>1, <2>2, <3>1 DEF OfKind
  <2>4. Together'
    BY <2>1, <2>3 DEF Together
  <2>5. AtHome'
    BY <2>1, <2>2 DEF AtHome, TasksHavePackages
  <2> QED BY <2>4, <2>5
<1>3. CASE \E w \in Pids : Claim(w) \/ Finish(w) \/ Lose(w)
  <2>1. UNCHANGED <<store, about, rpc, target, seen>> /\ Present' = Present
    BY <1>3, WorkersKeepTheTable
  <2>2. SameKinds
    BY <2>1 DEF OfKind
  <2> QED BY <2>1, <2>2 DEF Together, AtHome, TasksHavePackages
<1>4. CASE \/ UNCHANGED vars
           \/ \E p \in Packages : Upload(p)
           \/ \E r \in Requests : \/ \E op \in Ops, p \in Packages : Begin(r, op, p)
                                  \/ ReadStatus(r) \/ CommitFails(r)
  <2>1. UNCHANGED <<row, about>> /\ store \subseteq store'
    BY <1>4 DEF vars, Upload, Begin, ReadStatus, CommitFails
  <2>2. SameKinds /\ Present' = Present
    BY <2>1 DEF OfKind, Present
  <2>3. \A q \in Requests : \/ seen'[q] \in {seen[q], {}}
                            \/ target[q] \in Packages /\ seen'[q] = TasksOf(target[q])
    BY <1>4 DEF vars, Upload, Begin, ReadStatus, CommitFails, Done, requestVars, Engaged
  <2>4. ASSUME NEW p \in Packages, NEW k \in Kinds, NEW t \in OfKind(p, k), NEW j \in Kinds,
               NEW q \in Requests, t \in seen'[q]
        PROVE  Sibling(t, k, j) \in seen'[q]
    <3>1. Sibling(t, k, j) \in OfKind(p, j)
      BY DEF Together
    <3>2. CASE seen'[q] = TasksOf(target[q])
      BY <2>4, <3>1, <3>2, KindsAreTasks DEF TasksOf
    <3>3. CASE seen'[q] = seen[q]
      BY <2>4, <3>3 DEF Together
    <3> QED BY <2>3, <2>4, <3>2, <3>3
  <2>5. Together'
    BY <2>2, <2>4 DEF Together
  <2>6. \A r \in Requests : rpc'[r] # "idle" => target'[r] \in store'
    BY <1>4, <2>1 DEF vars, Upload, Begin, ReadStatus, CommitFails, Done, requestVars, AtHome
  <2>7. AtHome'
    BY <2>1, <2>2, <2>6 DEF AtHome, TasksHavePackages
  <2> QED BY <2>5, <2>7
<1>5. \A r \in Requests : ~Cascade(r) /\ ~CommitDelete(r)
  BY DEF RestartInv, ReadersAgree, Cascade, CommitDelete
<1> QED BY <1>1, <1>2, <1>3, <1>4, <1>5 DEF Next

LEMMA TogetherInvariant == ASSUME "delete" \notin Ops PROVE Spec => [](Together /\ AtHome)
<1>1. Init => Together /\ AtHome
  <2>1. Init => Present = {}
    BY DEF Init, Present, NoRow
  <2> QED BY <2>1 DEF Init, Together, OfKind, AtHome, TasksHavePackages
<1>2. TableInv /\ RestartInv /\ Together /\ AtHome /\ [Next]_vars => (Together /\ AtHome)'
  BY TogetherStep
<1> QED BY <1>1, <1>2, TableInvariant, RestartInvariant, PTL DEF Spec

\* While no package is deleted, the tasks of a package come and go as whole batches for
\* every interleaving of any number of starts and restarts: two restarts that have
\* read the same tasks delete them once and each add a batch.
THEOREM RestartsKeepBatchesWhole == ASSUME "delete" \notin Ops PROVE Spec => []WholeBatches
<1>1. TableInv /\ Together => WholeBatches
  BY TogetherIsWhole
<1> QED BY <1>1, TableInvariant, TogetherInvariant, PTL

\* While no package is deleted, every task is about a package that exists, however the
\* handlers interleave.
THEOREM RestartsKeepPackages == ASSUME "delete" \notin Ops PROVE Spec => []TasksHavePackages
<1>1. AtHome => TasksHavePackages
  BY DEF AtHome
<1> QED BY <1>1, TogetherInvariant, PTL

-----------------------------------------------------------------------------
(* One handler after the other, deletions included *)

\* What the handler has read is still so when it commits: the workers neither add nor
\* delete tasks, and a settled task stays settled.
UpToDate(r) ==
  /\ rpc[r] # "idle" => target[r] \in store
  /\ rpc[r] \in {"create", "recreate", "remove"} => seen[r] = TasksOf(target[r])
  /\ rpc[r] \in {"create", "recreate"} => \A t \in seen[r] : ~Unfinished(t)

SerialInv ==
  /\ \A r \in Requests : UpToDate(r)
  /\ TasksHavePackages
  /\ WholeBatches
  /\ OneBatchInProgress

\* A step that leaves every package the same tasks, and finishes some, keeps all.
LEMMA SameTasks ==
  ASSUME TableInv, TasksHavePackages, WholeBatches, OneBatchInProgress,
         store \subseteq store',
         \A p \in Packages, k \in Kinds : OfKind(p, k)' = OfKind(p, k),
         \A t \in Present' : about'[t] # NoCheck => t \in Present /\ about'[t] = about[t],
         \A t \in Present : Unfinished(t)' => Unfinished(t)
  PROVE  (TasksHavePackages /\ WholeBatches /\ OneBatchInProgress)'
<1>1. WholeBatches'
  BY DEF WholeBatches, OfKind
<1>2. TasksHavePackages'
  BY DEF TasksHavePackages
<1>3. OneBatchInProgress'
  BY DEF OneBatchInProgress
<1> QED BY <1>1, <1>2, <1>3

LEMMA SerialReads ==
  ASSUME NEW r, Requests = {r}, TableInv, SerialInv, UNCHANGED <<row, about>>,
         \/ UNCHANGED <<store, rpc, target, seen>>
         \/ \E p \in Packages : Upload(p)
         \/ \E op \in Ops, p \in Packages : Begin(r, op, p)
         \/ ReadStatus(r) \/ Cascade(r) \/ CommitFails(r)
  PROVE  SerialInv'
<1> USE DEF TableInv, TypeOK, SerialInv
<1>1. Present' = Present /\ \A p : TasksOf(p)' = TasksOf(p)
  BY DEF Present, TasksOf
<1>2. store \subseteq store'
  BY DEF Upload, Begin, ReadStatus, Cascade, CommitFails
<1>3. (TasksHavePackages /\ WholeBatches /\ OneBatchInProgress)'
  BY <1>1, <1>2, SameTasks DEF OfKind, Unfinished
<1>4. UpToDate(r)'
  <2> USE <1>1, <1>2 DEF UpToDate, Unfinished
  <2>1. CASE UNCHANGED <<store, rpc, target, seen>> \/ \E p \in Packages : Upload(p)
    BY <2>1 DEF Upload, requestVars
  <2>2. CASE \E op \in Ops, p \in Packages : Begin(r, op, p)
    BY <2>2, OpsAreHandlers DEF Begin
  <2>3. CASE ReadStatus(r)
    BY <2>3 DEF ReadStatus, Done
  <2>4. CASE Cascade(r)
    BY <2>4 DEF Cascade
  <2>5. CASE CommitFails(r)
    BY <2>5 DEF CommitFails, Done
  <2> QED BY <2>1, <2>2, <2>3, <2>4, <2>5
<1> QED BY <1>3, <1>4

LEMMA SerialBulk ==
  ASSUME NEW r, Requests = {r}, TableInv, SerialInv, Bulk
  PROVE  SerialInv'
<1> USE DEF TableInv, TypeOK, AbsentAreBlank, SerialInv
<1>1. /\ Base + 1 \in Tasks /\ Base + 1 \notin Present
      /\ row'[Base + 1].status = "QUEUED"
      /\ \A t \in Tasks : t # Base + 1 => row'[t] = row[t]
      /\ UNCHANGED <<store, about, rpc, target, seen>>
  BY BatchIsNew, StatementStatus DEF Bulk, requestVars
<1>2. Present' = Present \cup {Base + 1} /\ about[Base + 1] = NoCheck
  BY <1>1 DEF Present
<1>3. ASSUME NEW p \in Packages, NEW k \in Kinds
      PROVE  OfKind(p, k)' = OfKind(p, k)
  <2>1. <<p, k>> # NoCheck
    BY NullsAreDistinct
  <2> QED BY <1>1, <1>2, <2>1 DEF OfKind
<1>4. \A t \in Present : row'[t] = row[t]
  BY <1>1 DEF Present
<1>5. (TasksHavePackages /\ WholeBatches /\ OneBatchInProgress)'
  BY <1>1, <1>2, <1>3, <1>4, SameTasks DEF Unfinished
<1>6. TasksOf(target[r])' = TasksOf(target[r])
  BY <1>1, <1>2 DEF TasksOf
<1>7. \A t \in TasksOf(target[r]) : row'[t] = row[t]
  BY <1>4 DEF TasksOf
<1>8. UpToDate(r)'
  BY <1>1, <1>6, <1>7 DEF UpToDate, Unfinished
<1> QED BY <1>5, <1>8

LEMMA SerialWorks ==
  ASSUME NEW r, Requests = {r}, TableInv, SerialInv,
         NEW w \in Pids, Claim(w) \/ Finish(w) \/ Lose(w)
  PROVE  SerialInv'
<1> USE DEF TableInv, TypeOK, SerialInv
<1>1. /\ row' \in [Tasks -> Row]
      /\ UNCHANGED <<store, about, rpc, target, seen>>
      /\ Present' = Present
      /\ \A t \in Tasks : row[t].status \in Terminal => row'[t].status \in Terminal
  BY WorkersKeepTheTable
<1>2. \A p : TasksOf(p)' = TasksOf(p)
  BY <1>1 DEF TasksOf
<1>3. \A t \in Present : Unfinished(t)' => Unfinished(t)
  BY <1>1 DEF Present, Unfinished, Terminal, Row, Status
<1>4. (TasksHavePackages /\ WholeBatches /\ OneBatchInProgress)'
  BY <1>1, <1>3, SameTasks DEF OfKind
<1>5. UpToDate(r)'
  BY <1>1, <1>2, <1>3 DEF UpToDate, TasksOf
<1> QED BY <1>4, <1>5

LEMMA SerialCommits ==
  ASSUME NEW r, Requests = {r}, TableInv, SerialInv, CommitBatch(r)
  PROVE  SerialInv'
<1> USE DEF TableInv, TypeOK, SerialInv
<1>0. PICK p0 \in Packages, gone \in SUBSET Tasks :
        p0 = target[r] /\ gone = IF rpc[r] = "create" THEN {} ELSE seen[r]
  BY DEF CommitBatch, Engaged
<1>1. /\ p0 \in store /\ Batch \subseteq Tasks /\ Replace(p0, gone) /\ Done(r)
      /\ UNCHANGED store
      /\ \A t \in TasksOf(p0) : ~Unfinished(t)
      /\ gone = {} \/ gone = TasksOf(p0)
  BY <1>0 DEF CommitBatch, UpToDate
<1>2. /\ \A t \in Batch \ gone : row'[t].status = "QUEUED" /\ about'[t] = <<p0, t - Base>>
      /\ \A t \in (Tasks \ gone) \ Batch : row'[t] = row[t] /\ about'[t] = about[t]
      /\ Present' = (Present \ gone) \cup (Batch \ gone)
  BY <1>1, ReplaceDoes
<1>3. gone \cap Batch = {} /\ Present \cap Batch = {} /\ Present \subseteq Tasks
  BY <1>1, BatchIsNew DEF TasksOf, Present
<1>4. /\ Present' = (Present \ gone) \cup Batch
      /\ \A t \in Batch : about'[t] = <<p0, t - Base>>
      /\ \A t \in Present \ gone : row'[t] = row[t] /\ about'[t] = about[t]
  BY <1>2, <1>3
<1>5. \A t \in Present : about[t] # NoCheck => about[t] \in Check /\ about[t][1] \in Packages
  BY <1>3 DEF Check
<1>6. ASSUME NEW p \in Packages, NEW k \in Kinds, p # p0
      PROVE  OfKind(p, k)' = OfKind(p, k)
  <2>1. gone \cap OfKind(p, k) = {}
    BY <1>1, <1>6, KindsAreTasks DEF TasksOf
  <2>2. OfKind(p, k)' = (OfKind(p, k) \ gone) \cup (IF p = p0 THEN {Base + k} ELSE {})
    BY <1>1, <1>3, BatchAdds
  <2> QED BY <1>6, <2>1, <2>2
<1>7. ASSUME NEW k \in Kinds
      PROVE  /\ OfKind(p0, k)' = (OfKind(p0, k) \ gone) \cup {Base + k}
             /\ Base + k \notin OfKind(p0, k)
  BY <1>1, <1>3, BatchAdds
<1>8. WholeBatches'
  <2> SUFFICES ASSUME NEW p \in Packages, NEW k1 \in Kinds, NEW k2 \in Kinds
               PROVE  Cardinality(OfKind(p, k1)') = Cardinality(OfKind(p, k2)')
    BY DEF WholeBatches, OfKind
  <2>1. Cardinality(OfKind(p, k1)) = Cardinality(OfKind(p, k2))
    BY DEF WholeBatches, OfKind
  <2>2. CASE p # p0
    BY <1>6, <2>1, <2>2
  <2>3. CASE p = p0 /\ gone = {}
    <3>1. \A k \in Kinds : Cardinality(OfKind(p, k)') = Cardinality(OfKind(p, k)) + 1
      <4> SUFFICES ASSUME NEW k \in Kinds
                   PROVE  Cardinality(OfKind(p, k)') = Cardinality(OfKind(p, k)) + 1
        OBVIOUS
      <4>1. OfKind(p, k)' = OfKind(p, k) \cup {Base + k} /\ Base + k \notin OfKind(p, k)
        BY <1>7, <2>3
      <4>2. IsFiniteSet(OfKind(p, k))
        BY KindsAreFinite
      <4> QED BY <4>1, <4>2, FS_AddElement
    <3> QED BY <2>1, <3>1
  <2>4. CASE p = p0 /\ gone = TasksOf(p0)
    <3>1. \A k \in Kinds : OfKind(p, k)' = {Base + k}
      <4>1. \A k \in Kinds : OfKind(p, k) \subseteq TasksOf(p0)
        BY <2>4, KindsAreTasks
      <4> QED BY <1>7, <2>4, <4>1
    <3>2. \A k \in Kinds : Cardinality({Base + k}) = 1
      BY FS_Singleton
    <3> QED BY <3>1, <3>2
  <2> QED BY <1>1, <2>2, <2>3, <2>4
<1>9. TasksHavePackages'
  BY <1>1, <1>4 DEF TasksHavePackages
<1>10. OneBatchInProgress'
  <2> SUFFICES ASSUME NEW t \in Present', NEW u \in Present', t # u,
                      Unfinished(t)', Unfinished(u)', about'[t] # NoCheck
               PROVE  about'[t] # about'[u]
    BY DEF OneBatchInProgress
  <2>1. ASSUME NEW v \in Present \ gone, Unfinished(v)', about'[v] # NoCheck
        PROVE  Unfinished(v) /\ about'[v] = about[v] /\ about[v][1] # p0
    BY <1>1, <1>4, <2>1 DEF Unfinished, TasksOf
  <2>2. CASE t \in Batch /\ u \in Batch
    <3>1. about'[t] = <<p0, t - Base>> /\ about'[u] = <<p0, u - Base>>
      BY <1>4, <2>2
    <3>2. t - Base # u - Base
      BY <1>1, <2>2, BaseIsLargest, TaskIds DEF BaseFacts
    <3> QED BY <3>1, <3>2
  <2>3. CASE t \in Batch /\ u \notin Batch
    BY <1>4, <2>1, <2>3
  <2>4. CASE t \notin Batch /\ u \in Batch
    BY <1>4, <2>1, <2>4
  <2>5. CASE t \notin Batch /\ u \notin Batch
    <3>1. t \in Present \ gone /\ u \in Present \ gone
      BY <1>4, <2>5
    <3> QED BY <1>4, <2>1, <3>1 DEF OneBatchInProgress, Unfinished
  <2> QED BY <2>2, <2>3, <2>4, <2>5
<1>11. UpToDate(r)'
  BY <1>1 DEF UpToDate, Done
<1> QED BY <1>8, <1>9, <1>10, <1>11

LEMMA SerialDeletes ==
  ASSUME NEW r, Requests = {r}, TableInv, SerialInv, CommitDelete(r)
  PROVE  SerialInv'
<1> USE DEF TableInv, TypeOK, SerialInv
<1>0. PICK p0 \in Packages, gone \in SUBSET Tasks : p0 = target[r] /\ gone = seen[r]
  BY DEF CommitDelete, Engaged
<1>1. gone = TasksOf(p0) /\ store' = store \ {p0} /\ Done(r)
  BY <1>0 DEF CommitDelete, UpToDate
<1>2. /\ Present' = Present \ gone
      /\ \A t \in Present' : row'[t] = row[t] /\ about'[t] = about[t]
  BY <1>0 DEF CommitDelete, Present, NoRow
<1>3. ASSUME NEW p \in Packages, NEW k \in Kinds
      PROVE  OfKind(p, k)' = IF p = p0 THEN {} ELSE OfKind(p, k)
  <2>1. \A t \in OfKind(p, k) : t \in gone <=> p = p0
    BY <1>1, KindsAreTasks DEF TasksOf
  <2>2. \A t : t \in OfKind(p, k)' <=> t \in OfKind(p, k) /\ t \notin gone
    BY <1>2 DEF OfKind
  <2> QED BY <2>1, <2>2
<1>4. WholeBatches'
  <2> SUFFICES ASSUME NEW p \in Packages, NEW k1 \in Kinds, NEW k2 \in Kinds
               PROVE  Cardinality(OfKind(p, k1)') = Cardinality(OfKind(p, k2)')
    BY DEF WholeBatches, OfKind
  <2>1. Cardinality(OfKind(p, k1)) = Cardinality(OfKind(p, k2))
    BY DEF WholeBatches, OfKind
  <2> QED BY <1>3, <2>1
<1>5. TasksHavePackages'
  <2>1. \A t \in Present' : about'[t] # NoCheck => about[t][1] # p0
    BY <1>1, <1>2 DEF TasksOf
  <2> QED BY <1>1, <1>2, <2>1 DEF TasksHavePackages
<1>6. OneBatchInProgress'
  BY <1>2 DEF OneBatchInProgress, Unfinished
<1>7. UpToDate(r)'
  BY <1>1 DEF UpToDate, Done
<1> QED BY <1>4, <1>5, <1>6, <1>7

LEMMA SerialInvariant ==
  ASSUME NEW r, Requests = {r}
  PROVE  Spec => []SerialInv
<1>1. Init => SerialInv
  <2>1. Init => Present = {}
    BY DEF Init, Present, NoRow
  <2> QED BY <2>1 DEF Init, SerialInv, UpToDate, TasksHavePackages, WholeBatches, OneBatchInProgress
<1>2. TableInv /\ SerialInv /\ [Next]_vars => SerialInv'
  <2> SUFFICES ASSUME TableInv, SerialInv, [Next]_vars
               PROVE  SerialInv'
    OBVIOUS
  <2>1. CASE CommitBatch(r)
    BY <2>1, SerialCommits
  <2>2. CASE CommitDelete(r)
    BY <2>2, SerialDeletes
  <2>3. CASE Bulk
    BY <2>3, SerialBulk
  <2>4. CASE \E w \in Pids : Claim(w) \/ Finish(w) \/ Lose(w)
    BY <2>4, SerialWorks
  <2>5. CASE \/ UNCHANGED vars
             \/ \E p \in Packages : Upload(p)
             \/ \E op \in Ops, p \in Packages : Begin(r, op, p)
             \/ ReadStatus(r) \/ Cascade(r) \/ CommitFails(r)
    <3>1. UNCHANGED <<row, about>>
      BY <2>5 DEF vars, Upload, Begin, ReadStatus, Cascade, CommitFails
    <3> QED BY <2>5, <3>1, SerialReads DEF vars
  <2> QED BY <2>1, <2>2, <2>3, <2>4, <2>5 DEF Next
<1> QED BY <1>1, <1>2, TableInvariant, PTL DEF Spec

\* Requests that do not overlap never leave a package with two unfinished tasks of one
\* kind, for any number of packages, deletions, bulk downloads and dying workers
\* (task_package_status_get).
THEOREM OneBatchAtATime ==
  ASSUME NEW r, Requests = {r}
  PROVE  Spec => []OneBatchInProgress
<1>1. SerialInv => OneBatchInProgress
  BY DEF SerialInv
<1> QED BY <1>1, SerialInvariant, PTL

\* They leave no task whose package is gone, with or without foreign keys.
THEOREM TasksKeepTheirPackages ==
  ASSUME NEW r, Requests = {r}
  PROVE  Spec => []TasksHavePackages
<1>1. SerialInv => TasksHavePackages
  BY DEF SerialInv
<1> QED BY <1>1, SerialInvariant, PTL

\* They add and remove the tasks of a package as whole batches, as many of one kind as
\* of any other.
THEOREM BatchesStayWhole ==
  ASSUME NEW r, Requests = {r}
  PROVE  Spec => []WholeBatches
<1>1. SerialInv => WholeBatches
  BY DEF SerialInv
<1> QED BY <1>1, SerialInvariant, PTL
=============================================================================
