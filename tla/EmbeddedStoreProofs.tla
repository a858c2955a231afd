-------------------------- MODULE EmbeddedStoreProofs --------------------------
(***************************************************************************)
(* For any documents, texts, callers and sessions: nothing that was        *)
(* executed on the shared SQLite connection is left pending when no call   *)
(* is about to commit, but the beginning of a batch that failed; nothing   *)
(* is left behind of a document but by the calls that were disturbed on    *)
(* it; remember and forget implement the abstract store; and every state   *)
(* is well typed.                                                          *)
(*                                                                         *)
(* The first invariant says of a state that some call is about to commit   *)
(* or the two views of the table differ by half batches, and is inductive  *)
(* once the calls are known to be records: a step that changes what the    *)
(* connection sees takes its own call to a commit or fails half way, no    *)
(* step takes another call away from its commit, and a failure that does   *)
(* undoes the change.  The second, DocInv, speaks of                       *)
(* one document at a time: what the call that nothing has disturbed on it  *)
(* has made of its row, its chunks on disk and in memory and its vectors   *)
(* at each of its steps, and what is left when no call is at it.           *)
(***************************************************************************)
EXTENDS EmbeddedStore, FiniteSetTheorems, WellFoundedInduction, TLAPS

Calls == [pc : Steps, kind : {"create", "replace", "forget"}, doc : Docs,
          id : Nat, text : Texts \cup {None}, n : Nat, hit : BOOLEAN, calm : BOOLEAN]

\* As much of the types as the proof needs, without the bounds.
Shape ==
  /\ op \in [Callers -> {Idle, Absentee} \cup Calls]
  /\ row \in [Docs -> [st : {"none", "pending", "completed", "failed"},
                       text : Texts \cup {None}, id : Nat]]
  /\ ops \in Nat

\* Both views of the table have every document.
Tabled == DOMAIN mem = Docs /\ DOMAIN disk = Docs

IInv == Shape /\ Tabled /\ OnlyHalfBatchesStayPending

\* What the steps of a call are made of: an active call is a record of a call,
\* and stays one when it goes on or fails.
LEMMA ActiveIsCall ==
  ASSUME Shape, NEW c \in Callers, Active(c)
  PROVE  op[c] \in Calls
BY DEF Shape, Active, Idle, Absentee, Steps, Commits

\* A call whose step raised is idle, or a replace about to mark its row.
LEMMA FailedIsShaped ==
  ASSUME Shape, NEW c \in Callers, Active(c)
  PROVE  Failed(c) \in {Idle} \cup Calls
BY ActiveIsCall DEF Failed, Calls, Steps

\* A call that goes on, and a replacement of what a call is at, keep the shape.
LEMMA GoShape ==
  ASSUME Shape, NEW c \in Callers, Active(c), NEW pc \in Steps, Go(c, pc)
  PROVE  /\ op' \in [Callers -> {Idle, Absentee} \cup Calls]
         /\ op'[c].pc = pc
         /\ \A x \in Callers \ {c} : op'[x] = op[x]
BY ActiveIsCall DEF Shape, Go, Calls

\* A statement that fails leaves the connection as it was, or as committed.
LEMMA SqlFailsKeeps ==
  ASSUME Shape, NEW c \in Callers, Active(c), op[c].pc \notin Commits, SqlFails(c)
  PROVE  /\ op' \in [Callers -> {Idle, Absentee} \cup Calls]
         /\ mem' = disk \/ (mem' = mem /\ \A x \in Callers \ {c} : op'[x] = op[x])
<1>1. CASE Undone(c)
  BY <1>1, FailedIsShaped DEF Undone, Fail, Shape
<1>2. CASE RolledBack(c)
  <2>1. \A x \in Callers : op[x].pc \in Commits => op[x] \in Calls
    BY DEF Shape, Idle, Absentee, Commits
  <2>2. \A x \in Callers : op[x].pc \in Commits => [op[x] EXCEPT !.calm = FALSE] \in Calls
    BY <2>1 DEF Calls
  <2>3. QED
    BY <1>2, <2>2, FailedIsShaped DEF RolledBack, Shape
<1>3. QED
  BY <1>1, <1>2 DEF SqlFails

\* A call that returns or fails becomes idle, or what Failed says.
LEMMA FailKeeps ==
  ASSUME Shape, NEW c \in Callers, Active(c), Fail(c)
  PROVE  /\ op' \in [Callers -> {Idle, Absentee} \cup Calls]
         /\ \A x \in Callers \ {c} : op'[x] = op[x]
BY FailedIsShaped DEF Fail, Shape

\* A call that returns leaves the others where they are.
LEMMA ReturnKeeps ==
  ASSUME Shape, NEW c \in Callers, op' = [op EXCEPT ![c] = Idle]
  PROVE  /\ op' \in [Callers -> {Idle, Absentee} \cup Calls]
         /\ \A x \in Callers \ {c} : op'[x] = op[x]
BY DEF Shape

\* Nothing is pending after a step of c that leaves both views of the table
\* alone and the other calls where they are, unless c was about to commit.
LEMMA OthersStay ==
  ASSUME OnlyHalfBatchesStayPending, NEW c \in Callers, op[c].pc \notin Commits,
         UNCHANGED <<mem, disk>>, \A x \in Callers \ {c} : op'[x] = op[x]
  PROVE  OnlyHalfBatchesStayPending'
BY DEF OnlyHalfBatchesStayPending

\* Nothing is pending after a failing statement.
LEMMA PendingAfterFailure ==
  ASSUME IInv, NEW c \in Callers, Active(c), op[c].pc \notin Commits,
         SqlFails(c), UNCHANGED disk
  PROVE  OnlyHalfBatchesStayPending' /\ Tabled'
BY SqlFailsKeeps, OthersStay DEF IInv, OnlyHalfBatchesStayPending, Tabled

-------------------------------------------------------------------------------
\* The beginning of a call touches no table, and leaves calls about to commit there.
LEMMA BeginIInv ==
  ASSUME IInv, NEW c \in Callers, NEW d \in Docs, NEW t \in Texts \cup {None},
         Begin(c, d, t)
  PROVE  IInv'
<1> DEFINE same == {x \in Callers \ {c} : Active(x) /\ op[x].doc = d}
           kind == IF t = None THEN "forget"
                   ELSE IF row[d].st = "none" THEN "create" ELSE "replace"
           me == [pc |-> IF kind = "create" THEN "insert" ELSE "wipe",
                  kind |-> kind, doc |-> d, id |-> row[d].id, text |-> t, n |-> ops,
                  hit |-> FALSE, calm |-> same = {}]
<1>1. me \in Calls
  BY DEF IInv, Shape, Calls, Steps, Commits
<1>2. \A x \in same : /\ [op[x] EXCEPT !.calm = FALSE] \in Calls
                      /\ [op[x] EXCEPT !.calm = FALSE].pc = op[x].pc
  <2>1. \A x \in same : op[x] \in Calls
    BY ActiveIsCall DEF IInv
  <2>2. QED
    BY <2>1 DEF Calls
<1>3. op' = [x \in Callers |-> IF x = c THEN me
                               ELSE IF x \in same THEN [op[x] EXCEPT !.calm = FALSE]
                               ELSE op[x]]
  BY DEF Begin
<1> HIDE DEF me, same, kind
<1>4. Shape'
  <2>1. op' \in [Callers -> {Idle, Absentee} \cup Calls]
    BY <1>1, <1>2, <1>3 DEF IInv, Shape
  <2>2. ops > 0 /\ ops' = ops - 1 /\ UNCHANGED row
    BY DEF Begin
  <2>3. QED
    BY <2>1, <2>2 DEF IInv, Shape
<1>5. \A x \in Callers \ {c} : op'[x].pc = op[x].pc
  BY <1>2, <1>3
<1>6. op[c].pc \notin Commits
  BY DEF Begin, Idle, Commits
<1>7. OnlyHalfBatchesStayPending'
  BY <1>5, <1>6 DEF Begin, IInv, OnlyHalfBatchesStayPending
<1>8. QED
  BY <1>4, <1>7 DEF Begin, IInv, Tabled

\* create_document writes through the other connection.
LEMMA InsertIInv ==
  ASSUME IInv, NEW c \in Callers, Insert(c)
  PROVE  IInv'
<1>1. /\ Active(c) /\ op[c].pc \notin Commits /\ Shape /\ op[c] \in Calls
  BY ActiveIsCall DEF Insert, At, Commits, IInv
<1>2. /\ op' \in [Callers -> {Idle, Absentee} \cup Calls]
      /\ \A x \in Callers \ {c} : op'[x] = op[x]
      /\ row' \in [Docs -> [st : {"none", "pending", "completed", "failed"},
                            text : Texts \cup {None}, id : Nat]]
  <2>1. CASE /\ row' = [row EXCEPT ![op[c].doc] =
                          [st |-> "pending", text |-> op[c].text, id |-> op[c].n]]
             /\ op' = [op EXCEPT ![c].pc = "rows", ![c].id = op[c].n]
    BY <1>1, <2>1 DEF Shape, Calls, Steps
  <2>2. CASE /\ op' = [op EXCEPT ![c].pc = "wipe", ![c].id = row[op[c].doc].id,
                                 ![c].kind = "replace"]
             /\ UNCHANGED row
    BY <1>1, <2>2 DEF Shape, Calls, Steps
  <2>3. CASE Return(c) /\ UNCHANGED row
    BY <1>1, <2>3, ReturnKeeps DEF Return, Shape
  <2>4. CASE Fail(c) /\ UNCHANGED row
    BY <1>1, <2>4, FailKeeps DEF Shape
  <2>5. QED
    BY <2>1, <2>2, <2>3, <2>4 DEF Insert
<1>3. UNCHANGED <<mem, disk, ops>>
  BY DEF Insert
<1>4. QED
  BY <1>1, <1>2, <1>3, OthersStay DEF IInv, Shape, Tabled

\* The DELETE of a wipe goes to its commit, or fails.
LEMMA WipeIInv ==
  ASSUME IInv, NEW c \in Callers, Wipe(c)
  PROVE  IInv'
<1>1. Active(c) /\ op[c].pc \notin Commits /\ Shape /\ op[c] \in Calls
  BY ActiveIsCall DEF Wipe, At, Commits, IInv
<1>2. UNCHANGED <<row, disk, ops>>
  BY DEF Wipe
<1>3. CASE /\ op' = [op EXCEPT ![c].pc = "wipecommit", ![c].hit = mem # mem']
           /\ mem' = Without(mem, c)
  <2>1. (mem # mem') \in BOOLEAN
    OBVIOUS
  <2>2. op' \in [Callers -> {Idle, Absentee} \cup Calls] /\ op'[c].pc = "wipecommit"
    BY <1>1, <1>3, <2>1 DEF Shape, Calls, Steps, Commits
  <2>3. Tabled'
    BY <1>2, <1>3 DEF IInv, Tabled, Without
  <2>4. QED
    BY <1>1, <1>2, <2>2, <2>3 DEF IInv, Shape, OnlyHalfBatchesStayPending, Commits
<1>4. CASE SqlFails(c)
  BY <1>1, <1>2, <1>4, SqlFailsKeeps, PendingAfterFailure DEF IInv, Shape
<1>5. CASE op' = [op EXCEPT ![c] = Idle] /\ UNCHANGED mem
  BY <1>1, <1>2, <1>5, ReturnKeeps, OthersStay DEF IInv, Shape, Tabled
<1>6. QED
  BY <1>3, <1>4, <1>5 DEF Wipe

\* A statement that succeeds takes its call to a commit.
LEMMA StatementIInv ==
  ASSUME IInv, NEW c \in Callers, Active(c), op[c].pc \notin Commits,
         NEW pc \in Commits, (Go(c, pc) /\ DOMAIN mem' = Docs) \/ SqlFails(c),
         UNCHANGED <<row, disk, ops>>
  PROVE  IInv'
<1>1. Shape
  BY DEF IInv
<1>2. CASE Go(c, pc) /\ DOMAIN mem' = Docs
  <2>1. op' \in [Callers -> {Idle, Absentee} \cup Calls] /\ op'[c].pc = pc
    BY <1>1, <1>2, GoShape DEF Steps
  <2>2. QED
    BY <1>1, <1>2, <2>1 DEF IInv, Shape, OnlyHalfBatchesStayPending, Tabled
<1>3. CASE SqlFails(c)
  BY <1>1, <1>3, SqlFailsKeeps, PendingAfterFailure DEF IInv, Shape
<1>4. QED
  BY <1>2, <1>3

\* A step outside the shared connection takes its call anywhere.
LEMMA OutsideIInv ==
  ASSUME IInv, NEW c \in Callers, Active(c), op[c].pc \notin Commits,
         \/ \E pc \in Steps : Go(c, pc)
         \/ Fail(c)
         \/ op' = [op EXCEPT ![c] = Idle],
         UNCHANGED <<mem, disk, ops>>,
         row' \in [Docs -> [st : {"none", "pending", "completed", "failed"},
                            text : Texts \cup {None}, id : Nat]]
  PROVE  IInv'
<1>1. Shape
  BY DEF IInv
<1>2. /\ op' \in [Callers -> {Idle, Absentee} \cup Calls]
      /\ \A x \in Callers \ {c} : op'[x] = op[x]
  BY <1>1, GoShape, FailKeeps, ReturnKeeps
<1>3. QED
  BY <1>1, <1>2, OthersStay DEF IInv, Shape, Tabled

\* A batch that fails after its first row leaves half of itself pending.
LEMMA HalfIInv ==
  ASSUME IInv, NEW c \in Callers, Active(c), op[c].pc \notin Commits,
         mem' = Plus(mem, c, Half(c)), Fail(c), UNCHANGED <<row, disk, ops>>
  PROVE  IInv'
<1>1. Shape /\ Tabled
  BY DEF IInv
<1>2. /\ op' \in [Callers -> {Idle, Absentee} \cup Calls]
      /\ \A x \in Callers \ {c} : op'[x] = op[x]
  BY <1>1, FailKeeps
<1>3. ~Half(c).whole
  BY DEF Half, Mine
<1>4. Tabled'
  BY <1>1 DEF Tabled, Plus
<1>5. \A d \in Docs : mem[d] \subseteq mem'[d] /\ mem'[d] \subseteq mem[d] \cup {Half(c)}
  BY <1>1 DEF Tabled, Plus
<1>6. OnlyHalfBatchesStayPending'
  <2> SUFFICES ASSUME \A x \in Callers : op'[x].pc \notin Commits, NEW d \in Docs
               PROVE  disk[d] \subseteq mem'[d] /\ \A k \in mem'[d] \ disk[d] : ~k.whole
    BY DEF OnlyHalfBatchesStayPending
  <2>1. disk[d] \subseteq mem[d] /\ \A k \in mem[d] \ disk[d] : ~k.whole
    BY <1>2 DEF IInv, OnlyHalfBatchesStayPending
  <2>2. QED
    BY <1>3, <1>5, <2>1
<1>7. QED
  BY <1>1, <1>2, <1>4, <1>6 DEF IInv, Shape

\* A commit, or the rollback of one that fails, leaves nothing pending.
LEMMA CommitIInv ==
  ASSUME IInv, NEW c \in Callers, Commit(c)
  PROVE  IInv'
<1>1. Active(c) /\ Shape /\ op[c] \in Calls
  BY ActiveIsCall DEF Commit, IInv
<1>2. Then(c) \in Steps
  BY DEF Commit, Then, Wiped, Commits, Steps
<1>3. mem' = disk' /\ Tabled'
  BY DEF Commit, RolledBack, IInv, Tabled
<1>4. op' \in [Callers -> {Idle, Absentee} \cup Calls]
  <2>1. CASE Go(c, Then(c))
    BY <1>1, <1>2, <2>1, GoShape
  <2>2. CASE RolledBack(c)
    <3>1. \A x \in Callers : op[x].pc \in Commits => op[x] \in Calls
      BY <1>1 DEF Shape, Idle, Absentee, Commits
    <3>2. \A x \in Callers : op[x].pc \in Commits => [op[x] EXCEPT !.calm = FALSE] \in Calls
      BY <3>1 DEF Calls
    <3>3. QED
      BY <1>1, <2>2, <3>2, FailedIsShaped DEF RolledBack, Shape
  <2>3. QED
    BY <2>1, <2>2 DEF Commit
<1>5. QED
  BY <1>1, <1>3, <1>4 DEF Commit, IInv, Shape, OnlyHalfBatchesStayPending

\* The documents table keeps its shape under update_document.
LEMMA UpdateShape ==
  ASSUME Shape, NEW c \in Callers, op[c] \in Calls,
         NEW st \in {"completed", "failed"}, update_document(c, st)
  PROVE  row' \in [Docs -> [st : {"none", "pending", "completed", "failed"},
                            text : Texts \cup {None}, id : Nat]]
BY DEF Shape, Calls, update_document

\* Every step of a call preserves the invariant.
LEMMA StepIInv ==
  ASSUME IInv, NEW c \in Callers, Step(c)
  PROVE  IInv'
<1> USE DEF At
<1>1. Shape /\ (Active(c) => op[c] \in Calls)
  BY ActiveIsCall DEF IInv
<1>2. row \in [Docs -> [st : {"none", "pending", "completed", "failed"},
                        text : Texts \cup {None}, id : Nat]]
  BY <1>1 DEF Shape
<1>3. CASE Insert(c)
  BY <1>3, InsertIInv
<1>4. CASE Wipe(c)
  BY <1>4, WipeIInv
<1>5. CASE Commit(c)
  BY <1>5, CommitIInv
<1>6. CASE DeleteVectors(c)
  <2>1. Wiped(c) \in Steps
    BY DEF Wiped, Steps
  <2>2. Active(c) /\ op[c].pc \notin Commits
    BY <1>6 DEF DeleteVectors, Commits
  <2>3. /\ (\E pc \in Steps : Go(c, pc)) \/ Fail(c)
        /\ UNCHANGED <<mem, disk, ops, row>>
    BY <1>6, <2>1 DEF DeleteVectors
  <2>4. QED
    BY <1>2, <2>2, <2>3, OutsideIInv
<1>7. CASE InsertRows(c)
  <2>1. Active(c) /\ op[c].pc \notin Commits
    BY <1>7 DEF InsertRows, Commits
  <2>2. UNCHANGED <<row, disk, ops>>
    BY <1>7 DEF InsertRows
  <2>3. CASE mem' = With(mem, c) /\ Go(c, "rowscommit")
    <3>1. DOMAIN mem' = Docs
      BY <2>3 DEF IInv, Tabled, With, Plus
    <3>2. QED
      BY <2>1, <2>2, <2>3, <3>1, StatementIInv DEF Commits
  <2>4. CASE mem' = Plus(mem, c, Half(c)) /\ Fail(c)
    BY <2>1, <2>2, <2>4, HalfIInv
  <2>5. CASE SqlFails(c)
    BY <2>1, <2>2, <2>5, StatementIInv DEF Commits
  <2>6. QED
    BY <1>7, <2>3, <2>4, <2>5 DEF InsertRows
<1>8. CASE AddVectors(c)
  <2>1. (IF op[c].kind = "create" THEN "complete" ELSE "olddel") \in Steps
    BY DEF Steps
  <2>2. Active(c) /\ op[c].pc \notin Commits
    BY <1>8 DEF AddVectors, Commits
  <2>3. /\ (\E pc \in Steps : Go(c, pc)) \/ Fail(c)
        /\ UNCHANGED <<mem, disk, ops, row>>
    BY <1>8, <2>1 DEF AddVectors
  <2>4. QED
    BY <1>2, <2>2, <2>3, OutsideIInv
<1>9. CASE OldDelete(c)
  <2>1. Active(c) /\ op[c].pc \notin Commits
    BY <1>9 DEF OldDelete, Commits
  <2>2. /\ (Go(c, "olddelcommit") /\ DOMAIN mem' = Docs) \/ SqlFails(c)
        /\ UNCHANGED <<row, disk, ops>>
    BY <1>9 DEF OldDelete, IInv, Tabled
  <2>3. QED
    BY <2>1, <2>2, StatementIInv DEF Commits
<1>10. CASE OldInsert(c)
  <2>1. Active(c) /\ op[c].pc \notin Commits
    BY <1>10 DEF OldInsert, Commits
  <2>2. \/ (Go(c, "oldinscommit") /\ DOMAIN mem' = Docs) \/ SqlFails(c)
        \/ Fail(c) /\ UNCHANGED mem
    BY <1>10 DEF OldInsert, IInv, Tabled
  <2>3. UNCHANGED <<row, disk, ops>>
    BY <1>10 DEF OldInsert
  <2>4. CASE (Go(c, "oldinscommit") /\ DOMAIN mem' = Docs) \/ SqlFails(c)
    BY <2>1, <2>3, <2>4, StatementIInv DEF Commits
  <2>5. CASE Fail(c) /\ UNCHANGED mem
    BY <1>2, <2>1, <2>3, <2>5, OutsideIInv
  <2>6. QED
    BY <2>2, <2>4, <2>5
<1>11. CASE OldVectors(c)
  <2>1. Active(c) /\ op[c].pc \notin Commits
    BY <1>11 DEF OldVectors, Commits
  <2>2. (Go(c, "complete") \/ Fail(c)) /\ UNCHANGED <<mem, disk, ops, row>>
    BY <1>11 DEF OldVectors
  <2>3. QED
    BY <1>2, <2>1, <2>2, OutsideIInv DEF Steps
<1>12. CASE Complete(c)
  <2>1. Active(c) /\ op[c].pc \notin Commits
    BY <1>12 DEF Complete, Commits
  <2>2. \/ Fail(c) /\ UNCHANGED row
        \/ op' = [op EXCEPT ![c] = Idle] /\ update_document(c, "completed")
    BY <1>12 DEF Complete, Return
  <2>3. UNCHANGED <<mem, disk, ops>>
    BY <1>12 DEF Complete
  <2>4. QED
    BY <1>1, <1>2, <2>1, <2>2, <2>3, UpdateShape, OutsideIInv
<1>13. CASE MarkFailed(c)
  <2>1. Active(c) /\ op[c].pc \notin Commits
    BY <1>13 DEF MarkFailed, Commits
  <2>2. UNCHANGED row \/ update_document(c, "failed")
    BY <1>13 DEF MarkFailed
  <2>3. op' = [op EXCEPT ![c] = Idle] /\ UNCHANGED <<mem, disk, ops>>
    BY <1>13 DEF MarkFailed
  <2>4. QED
    BY <1>1, <1>2, <2>1, <2>2, <2>3, UpdateShape, OutsideIInv
<1>14. CASE delete_document(c)
  <2>1. Active(c) /\ op[c].pc \notin Commits
    BY <1>14 DEF delete_document, Commits
  <2>2. row' \in [Docs -> [st : {"none", "pending", "completed", "failed"},
                           text : Texts \cup {None}, id : Nat]]
    BY <1>14, <1>2 DEF delete_document
  <2>3. /\ Fail(c) \/ op' = [op EXCEPT ![c] = Idle]
        /\ UNCHANGED <<mem, disk, ops>>
    BY <1>14 DEF delete_document, Return
  <2>4. QED
    BY <2>1, <2>2, <2>3, OutsideIInv
<1>15. QED
  BY <1>3, <1>4, <1>5, <1>6, <1>7, <1>8, <1>9, <1>10, <1>11, <1>12, <1>13, <1>14 DEF Step

-------------------------------------------------------------------------------
\* The invariant holds at the beginning.
LEMMA InitIInv ==
  ASSUME Init
  PROVE  IInv
<1>1. ops \in Nat
  BY EmbeddedAssumption DEF Init
<1>2. QED
  BY <1>1 DEF Init, IInv, Shape, Tabled, OnlyHalfBatchesStayPending

\* Every step preserves it.
LEMMA IInvStep ==
  ASSUME IInv, [Next]_vars
  PROVE  IInv'
<1>1. ASSUME NEW c \in Callers, NEW d \in Docs, NEW t \in Texts \cup {None}, Begin(c, d, t)
      PROVE  IInv'
  BY <1>1, BeginIInv
<1>2. ASSUME NEW c \in Callers, Step(c) PROVE IInv'
  BY <1>2, StepIInv
<1>3. CASE Crash
  BY <1>3 DEF Crash, IInv, Shape, Tabled, OnlyHalfBatchesStayPending
<1>4. CASE UNCHANGED vars
  BY <1>4 DEF vars, IInv, Shape, Tabled, OnlyHalfBatchesStayPending
<1>5. QED
  BY <1>1, <1>2, <1>3, <1>4 DEF Next

\* Whatever the calls, the failures and the crashes: every wipe and every
\* finished batch executed on the shared connection is committed by its call or
\* undone; only the beginning of a batch that failed waits for another's commit.
THEOREM OnlyHalfBatchesStay == Spec => []OnlyHalfBatchesStayPending
<1>1. IInv => OnlyHalfBatchesStayPending
  BY DEF IInv
<1>2. QED
  BY <1>1, InitIInv, IInvStep, PTL DEF Spec

-------------------------------------------------------------------------------
(***************************************************************************)
(* The documents one by one: what a call that nothing disturbs finds when  *)
(* it returns, and that no other call, commit, rollback or crash changes a *)
(* document nobody is at.                                                  *)
(***************************************************************************)

CallsAt(d) == {c \in Callers : Active(c) /\ op[c].doc = d}

\* The call is between the DELETE of the rows and that of their vectors.
Wiping(c) == op[c].hit /\ op[c].pc \in {"wipecommit", "unvec"}

\* Where a forget can be.
ForgetSteps == {"wipe", "wipecommit", "unvec", "olddel", "olddelcommit", "delrow"}

\* The call has removed what was there, has written its rows, has added its
\* vectors; the shared connection's view of its rows is committed.
Emptied(c) == \/ op[c].pc \in {"wipecommit", "unvec", "rows", "delrow"}
              \/ op[c].kind = "forget" /\ op[c].pc \in {"olddel", "olddelcommit"}
Vectored(c) ==
  /\ op[c].kind # "forget"
  /\ op[c].pc \in {"olddel", "olddelcommit", "oldins", "oldinscommit", "oldvec", "complete"}
Written(c) == op[c].pc \in {"rowscommit", "addvec"} \/ Vectored(c)
Committed(c) == op[c].pc \notin {"insert", "wipe", "wipecommit", "rowscommit", "mark"}

Tables ==
  LET Table == [Docs -> SUBSET [doc : Nat, id : Nat, text : Texts \cup {None},
                                whole : BOOLEAN]]
  IN  mem \in Table /\ disk \in Table /\ vec \in Table /\ clean \subseteq Docs

\* What a call is for decides where it can be.
KindOK(c) ==
  /\ op[c].kind = "forget" <=> op[c].text = None
  /\ op[c].kind = "forget" => op[c].pc \in ForgetSteps
  /\ op[c].pc = "delrow" => op[c].kind = "forget"

Kinds == \A c \in Callers : Active(c) => KindOK(c)

\* Ids are call numbers, which are counted down: the number of a call that has
\* not inserted its row is nobody's id, and numbers to come are not taken.
Taken(i) ==
  \/ \E d \in Docs : row[d].id = i \/ \E k \in mem[d] \cup disk[d] : k.doc = i
  \/ \E c \in Callers : Active(c) /\ op[c].id = i

Fresh ==
  /\ \A i \in Nat : Taken(i) => i = 0 \/ i > ops
  /\ \A c \in Callers : Active(c) =>
       /\ op[c].n > ops
       /\ op[c].pc = "insert" => ~Taken(op[c].n)
       /\ \A x \in Callers \ {c} : Active(x) => op[x].n # op[c].n

\* A call undisturbed is alone at its document, a call at a document that is
\* not leaky is undisturbed, and a document with a call is not clean.
Alone(d) ==
  \A c \in CallsAt(d) : /\ op[c].calm => CallsAt(d) = {c}
                        /\ d \notin leaky => op[c].calm
                        /\ d \notin clean

\* Of the chunks of id i, the shared connection sees what is committed.
Same(d, i) == {k \in mem[d] : k.doc = i} = {k \in disk[d] : k.doc = i}

\* How far a call undisturbed has come.
OnTrack(c) ==
  LET d == op[c].doc IN
  op[c].calm =>
    /\ op[c].pc = "insert" => row[d].st = "none"
    /\ op[c].pc # "insert" => Current(c)
    /\ Emptied(c) => \A k \in mem[d] : k.doc # op[c].id
    /\ Written(c) => {k \in mem[d] : k.doc = op[c].id} = {Mine(c)}
    /\ Vectored(c) => Mine(c) \in vec[d]
    /\ Committed(c) => Same(d, op[c].id)

\* A document that is not leaky has chunks and vectors of its row only, none
\* without a row, and no vector without its chunk except while it is wiped.
Traceless(d) ==
  d \notin leaky =>
    /\ \A k \in mem[d] \cup disk[d] \cup vec[d] : k.doc = row[d].id
    /\ row[d].st = "none" => mem[d] = {} /\ disk[d] = {} /\ vec[d] = {}
    /\ (\A c \in CallsAt(d) : ~Wiping(c)) => vec[d] \subseteq mem[d] /\ vec[d] \subseteq disk[d]

\* A document nobody is at, and whose last call succeeded, is whole.
Sound(d) == d \in clean => Whole(d) /\ Same(d, row[d].id)

DocInv(d) ==
  /\ Alone(d) /\ Traceless(d) /\ Sound(d)
  /\ \A c \in CallsAt(d) : OnTrack(c)

StoreInv == IInv /\ Tables /\ Kinds /\ Fresh /\ \A d \in Docs : DocInv(d)

-------------------------------------------------------------------------------
\* What a call becomes that goes on, fails or returns.
Becomes(c) ==
  \/ op'[c] = Idle
  \/ /\ op'[c] \in Calls /\ op'[c].pc # "insert" /\ KindOK(c)'
     /\ op'[c].doc = op[c].doc /\ op'[c].calm = op[c].calm /\ op'[c].n = op[c].n
     /\ op'[c].text = op[c].text
     /\ op'[c].id = op[c].id \/ (op[c].pc = "insert" /\ op'[c].id = row'[op[c].doc].id)

OthersKeep(c) == \A x \in Callers \ {c} : op'[x] = op[x]

\* What a step of a call may change at all: its own document; of the others
\* what a commit or a rollback does; and of the other calls who is undisturbed.
Frame(c) ==
  /\ \A d \in Docs \ {op[c].doc} : /\ row'[d] = row[d] /\ vec'[d] = vec[d]
                                   /\ d \in clean' <=> d \in clean
  /\ op[c].doc \in clean' => op[c].doc \in clean \/ (op[c].calm /\ op'[c] = Idle)
  /\ leaky \subseteq leaky' /\ ops' = ops
  /\ Becomes(c)
  /\ \A d \in Docs : row'[d].id = row[d].id \/ (op[c].pc = "insert" /\ row'[d].id = op[c].n)
  /\ \/ /\ OthersKeep(c) /\ UNCHANGED disk
        /\ mem' \in {mem, Without(mem, c), With(mem, c), Plus(mem, c, Half(c))}
     \/ OthersKeep(c) /\ mem' = mem /\ disk' = mem
     \/ RolledBack(c) /\ UNCHANGED disk

\* A call that fails becomes what it may.
LEMMA FailBecomes ==
  ASSUME Shape, Kinds, NEW c \in Callers, Active(c), op'[c] = Failed(c)
  PROVE  Becomes(c)
<1>1. op[c] \in Calls /\ KindOK(c)
  BY ActiveIsCall DEF Kinds
<1>2. CASE op'[c] = Idle
  BY <1>2 DEF Becomes
<1>3. CASE op[c].kind = "replace" /\ op'[c] = [op[c] EXCEPT !.pc = "mark"]
  BY <1>1, <1>3 DEF Becomes, Calls, Steps, KindOK
<1>4. QED
  BY <1>2, <1>3 DEF Failed

\* A call that goes on becomes what it may, if where it goes fits its kind.
LEMMA GoBecomes ==
  ASSUME Shape, Kinds, NEW c \in Callers, Active(c), NEW pc \in Steps \ {"insert"}, Go(c, pc),
         op[c].kind = "forget" => pc \in ForgetSteps,
         pc = "delrow" => op[c].kind = "forget"
  PROVE  Becomes(c) /\ OthersKeep(c)
                    /\ op'[c] = [op[c] EXCEPT !.pc = pc] /\ op'[c].pc = pc
<1>1. op[c] \in Calls /\ KindOK(c)
  BY ActiveIsCall DEF Kinds
<1>2. op'[c] = [op[c] EXCEPT !.pc = pc] /\ \A x \in Callers \ {c} : op'[x] = op[x]
  BY DEF Go, Shape
<1>3. QED
  BY <1>1, <1>2 DEF Becomes, OthersKeep, Calls, KindOK, ForgetSteps

\* A statement that fails stays in the frame.
LEMMA SqlFailsFrame ==
  ASSUME Shape, Kinds, NEW c \in Callers, Active(c), op[c].pc \notin Commits, SqlFails(c),
         UNCHANGED <<row, disk, vec, ops, clean>>
  PROVE  Frame(c)
<1>1. op'[c] = Failed(c) /\ leaky \subseteq leaky'
  BY DEF SqlFails, Undone, RolledBack, Fail, Shape
<1>2. Becomes(c)
  BY <1>1, FailBecomes
<1>3. Undone(c) => OthersKeep(c) /\ UNCHANGED mem
  BY DEF Undone, Fail, OthersKeep, Shape
<1>4. QED
  BY <1>1, <1>2, <1>3 DEF Frame, SqlFails

\* A call that raises stays in the frame.
LEMMA FailFrame ==
  ASSUME Shape, Kinds, NEW c \in Callers, Active(c), op[c].pc \notin Commits, Fail(c),
         mem' = mem \/ mem' = Plus(mem, c, Half(c)),
         UNCHANGED <<row, disk, vec, ops, clean>>
  PROVE  Frame(c)
<1>1. op'[c] = Failed(c) /\ leaky \subseteq leaky' /\ OthersKeep(c)
  BY DEF Fail, Shape, OthersKeep
<1>2. Becomes(c)
  BY <1>1, FailBecomes
<1>3. QED
  BY <1>1, <1>2 DEF Frame

\* A call that goes on outside its commits and the rows it writes stays in the
\* frame.
LEMMA GoFrame ==
  ASSUME Shape, Kinds, NEW c \in Callers, Active(c), op[c].pc \notin Commits,
         NEW pc \in Steps \ {"insert"}, Go(c, pc),
         op[c].kind = "forget" => pc \in ForgetSteps,
         pc = "delrow" => op[c].kind = "forget",
         UNCHANGED <<row, mem, disk, ops, clean>>, leaky \subseteq leaky',
         \A d \in Docs \ {op[c].doc} : vec'[d] = vec[d]
  PROVE  Frame(c)
<1>1. Becomes(c) /\ OthersKeep(c)
  BY GoBecomes
<1>2. QED
  BY <1>1 DEF Frame

\* A call that ends stays in the frame.
LEMMA EndFrame ==
  ASSUME Shape, NEW c \in Callers, Active(c), op[c].pc \notin Commits,
         op' = [op EXCEPT ![c] = Idle],
         clean' = clean \/ (op[c].calm /\ clean' = clean \cup {op[c].doc}),
         UNCHANGED <<mem, disk, vec, ops, leaky>>,
         \A d \in Docs : row'[d].id = row[d].id /\ (d # op[c].doc => row'[d] = row[d])
  PROVE  Frame(c)
<1>1. op'[c] = Idle /\ OthersKeep(c)
  BY DEF OthersKeep, Shape
<1>2. /\ \A d \in Docs \ {op[c].doc} : d \in clean' <=> d \in clean
      /\ op[c].doc \in clean' => op[c].doc \in clean \/ op[c].calm
  OBVIOUS
<1>3. Becomes(c)
  BY <1>1 DEF Becomes
<1>4. \A d \in Docs \ {op[c].doc} : row'[d] = row[d] /\ vec'[d] = vec[d]
  OBVIOUS
<1>5. leaky \subseteq leaky' /\ UNCHANGED ops /\ UNCHANGED <<mem, disk>>
  OBVIOUS
<1>6. QED
  BY <1>1, <1>2, <1>3, <1>4, <1>5 DEF Frame

\* create_document stays in the frame.
LEMMA InsertFrame ==
  ASSUME Shape, Kinds, NEW c \in Callers, Insert(c)
  PROVE  Frame(c)
<1>1. /\ Active(c) /\ op[c] \in Calls /\ KindOK(c) /\ op[c].pc = "insert"
      /\ op[c].pc \notin Commits
  BY ActiveIsCall DEF Kinds, Insert, At, Commits
<1>2. UNCHANGED <<mem, disk, lock, vec, ops>>
  BY DEF Insert
<1> DEFINE d == op[c].doc
<1>3. CASE /\ row' = [row EXCEPT ![d] = [st |-> "pending", text |-> op[c].text, id |-> op[c].n]]
           /\ op' = [op EXCEPT ![c].pc = "rows", ![c].id = op[c].n]
           /\ UNCHANGED <<clean, leaky>>
  <2>1. /\ OthersKeep(c)
        /\ op'[c] = [op[c] EXCEPT !.pc = "rows", !.id = op[c].n]
        /\ row'[d].id = op[c].n
        /\ \A e \in Docs \ {d} : row'[e] = row[e]
    BY <1>1, <1>3 DEF OthersKeep, Shape, Calls
  <2>2. Becomes(c)
    BY <1>1, <2>1 DEF Becomes, Calls, Steps, KindOK, ForgetSteps
  <2>3. QED
    BY <1>1, <1>2, <1>3, <2>1, <2>2 DEF Frame
<1>4. CASE /\ op' = [op EXCEPT ![c].pc = "wipe", ![c].id = row[d].id, ![c].kind = "replace"]
           /\ UNCHANGED <<row, clean, leaky>>
  <2>1. /\ OthersKeep(c)
        /\ op'[c] = [op[c] EXCEPT !.pc = "wipe", !.id = row[d].id, !.kind = "replace"]
        /\ row[d].id \in Nat
    BY <1>1, <1>4 DEF OthersKeep, Shape, Calls
  <2>2. op[c].text # None /\ op'[c].id = row'[op[c].doc].id
    <3>1. op[c].text # None
      BY <1>1 DEF KindOK, ForgetSteps
    <3>2. op'[c].id = row[d].id
      BY <1>1, <2>1 DEF Calls
    <3>3. QED
      BY <1>4, <3>1, <3>2
  <2> HIDE DEF d
  <2>3. op'[c] \in Calls /\ op'[c].pc = "wipe" /\ KindOK(c)'
    BY <1>1, <2>1, <2>2 DEF Calls, Steps, KindOK, ForgetSteps
  <2>4. Becomes(c)
    BY <1>1, <2>1, <2>2, <2>3 DEF Becomes, Calls
  <2>5. QED
    BY <1>1, <1>2, <1>4, <2>1, <2>4 DEF Frame
<1>5. CASE Return(c) /\ UNCHANGED <<row, leaky>>
  BY <1>1, <1>2, <1>5, EndFrame DEF Return
<1>6. CASE Fail(c) /\ UNCHANGED <<row, clean>>
  BY <1>1, <1>2, <1>6, FailFrame
<1>7. QED
  BY <1>3, <1>4, <1>5, <1>6 DEF Insert

\* The DELETE of a wipe stays in the frame.
LEMMA WipeFrame ==
  ASSUME Shape, Kinds, NEW c \in Callers, Wipe(c)
  PROVE  Frame(c)
<1>1. /\ Active(c) /\ op[c] \in Calls /\ KindOK(c) /\ op[c].pc = "wipe"
      /\ op[c].pc \notin Commits
  BY ActiveIsCall DEF Kinds, Wipe, At, Commits
<1>2. UNCHANGED <<row, disk, vec, ops, clean>>
  BY DEF Wipe
<1>3. CASE /\ mem' = Without(mem, c)
           /\ op' = [op EXCEPT ![c].pc = "wipecommit", ![c].hit = mem # mem']
           /\ UNCHANGED leaky
  <2>1. (mem # mem') \in BOOLEAN
    OBVIOUS
  <2>2. /\ OthersKeep(c)
        /\ op'[c] = [op[c] EXCEPT !.pc = "wipecommit", !.hit = mem # mem']
    BY <1>1, <1>3 DEF OthersKeep, Shape, Calls
  <2>3. Becomes(c) /\ op'[c] \in Calls
    BY <1>1, <2>1, <2>2 DEF Becomes, Calls, Steps, Commits, KindOK, ForgetSteps
  <2>4. QED
    BY <1>1, <1>2, <1>3, <2>2, <2>3 DEF Frame
<1>4. CASE SqlFails(c)
  BY <1>1, <1>2, <1>4, SqlFailsFrame
<1>5. CASE op' = [op EXCEPT ![c] = Idle] /\ UNCHANGED <<mem, leaky>>
  BY <1>1, <1>2, <1>5, EndFrame
<1>6. QED
  BY <1>3, <1>4, <1>5 DEF Wipe

\* A commit stays in the frame.
LEMMA CommitFrame ==
  ASSUME Shape, Kinds, NEW c \in Callers, Commit(c)
  PROVE  Frame(c)
<1>1. /\ Active(c) /\ op[c] \in Calls /\ KindOK(c) /\ op[c].pc \in Commits
      /\ UNCHANGED <<row, vec, ops, clean>>
  BY ActiveIsCall DEF Kinds, Commit
<1>2. /\ Then(c) \in Steps \ {"insert"}
      /\ op[c].kind = "forget" => Then(c) \in ForgetSteps
      /\ Then(c) = "delrow" => op[c].kind = "forget"
  BY <1>1 DEF Then, Wiped, Commits, Steps, KindOK, ForgetSteps
<1>3. CASE disk' = mem /\ Go(c, Then(c)) /\ UNCHANGED <<mem, leaky>>
  BY <1>1, <1>2, <1>3, GoBecomes DEF Frame
<1>4. CASE RolledBack(c) /\ UNCHANGED disk
  <2>1. op'[c] = Failed(c) /\ leaky \subseteq leaky'
    BY <1>4 DEF RolledBack
  <2>2. Becomes(c)
    BY <1>1, <2>1, FailBecomes
  <2>3. QED
    BY <1>1, <1>4, <2>1, <2>2 DEF Frame
<1>5. QED
  BY <1>3, <1>4 DEF Commit

\* The INSERT of the rows stays in the frame.
LEMMA RowsFrame ==
  ASSUME Shape, Kinds, NEW c \in Callers, InsertRows(c)
  PROVE  Frame(c)
<1>1. /\ Active(c) /\ op[c] \in Calls /\ KindOK(c) /\ op[c].pc = "rows"
      /\ op[c].pc \notin Commits /\ op[c].kind # "forget"
  BY ActiveIsCall DEF Kinds, InsertRows, At, Commits, KindOK, ForgetSteps
<1>2. UNCHANGED <<row, disk, vec, ops, clean>>
  BY DEF InsertRows
<1>3. CASE mem' = With(mem, c) /\ Go(c, "rowscommit") /\ UNCHANGED leaky
  <2>1. Becomes(c) /\ OthersKeep(c)
    BY <1>1, <1>3, GoBecomes DEF Steps, Commits
  <2>2. QED
    BY <1>1, <1>2, <1>3, <2>1 DEF Frame
<1>4. CASE mem' = Plus(mem, c, Half(c)) /\ Fail(c)
  BY <1>1, <1>2, <1>4, FailFrame
<1>5. CASE SqlFails(c)
  BY <1>1, <1>2, <1>5, SqlFailsFrame
<1>6. QED
  BY <1>3, <1>4, <1>5 DEF InsertRows

\* Every step of a call stays in the frame.
LEMMA StepFrame ==
  ASSUME Shape, Kinds, Tables, NEW c \in Callers, Step(c)
  PROVE  Frame(c)
<1>1. CASE Insert(c) \/ Wipe(c) \/ Commit(c) \/ InsertRows(c)
  BY <1>1, InsertFrame, WipeFrame, CommitFrame, RowsFrame
<1>2. CASE \/ DeleteVectors(c) \/ AddVectors(c) \/ OldDelete(c) \/ OldInsert(c)
           \/ OldVectors(c) \/ Complete(c) \/ MarkFailed(c) \/ delete_document(c)
  <2>1. /\ Active(c) /\ op[c] \in Calls /\ KindOK(c) /\ op[c].pc \notin Commits
        /\ UNCHANGED <<disk, ops>>
    BY <1>2, ActiveIsCall DEF Kinds, At, Commits, DeleteVectors, AddVectors, OldDelete,
         OldInsert, OldVectors, Complete, MarkFailed, delete_document
  <2>2. CASE DeleteVectors(c)
    <3>1. /\ Wiped(c) \in Steps \ {"insert"}
          /\ op[c].kind = "forget" => Wiped(c) \in ForgetSteps
          /\ Wiped(c) = "delrow" => op[c].kind = "forget"
      BY DEF Wiped, Steps, ForgetSteps
    <3>2. \A d \in Docs \ {op[c].doc} : Without(vec, c)[d] = vec[d]
      BY DEF Tables, Without
    <3>3. /\ UNCHANGED <<row, mem, clean>>
          /\ \/ vec' = Without(vec, c) /\ Go(c, Wiped(c)) /\ UNCHANGED leaky
             \/ UNCHANGED vec /\ Go(c, Wiped(c)) /\ leaky \subseteq leaky'
             \/ UNCHANGED vec /\ Fail(c)
      BY <2>2 DEF DeleteVectors
    <3>4. CASE Go(c, Wiped(c)) /\ leaky \subseteq leaky' /\ (UNCHANGED vec \/ vec' = Without(vec, c))
      BY <2>1, <3>1, <3>2, <3>3, <3>4, GoFrame
    <3>5. CASE UNCHANGED vec /\ Fail(c)
      BY <2>1, <3>3, <3>5, FailFrame
    <3>6. QED
      BY <3>3, <3>4, <3>5
  <2>3. CASE AddVectors(c)
    <3> DEFINE pc == IF op[c].kind = "create" THEN "complete" ELSE "olddel"
    <3>1. /\ pc \in Steps \ {"insert", "delrow"} /\ op[c].kind # "forget"
      BY <2>1, <2>3 DEF Steps, KindOK, ForgetSteps, AddVectors, At
    <3>2. \A d \in Docs \ {op[c].doc} : With(vec, c)[d] = vec[d]
      BY DEF Tables, With, Plus
    <3>3. /\ UNCHANGED <<row, mem, clean>>
          /\ \/ vec' = With(vec, c) /\ Go(c, pc) /\ UNCHANGED leaky
             \/ UNCHANGED vec /\ Fail(c)
      BY <2>3 DEF AddVectors
    <3> HIDE DEF pc
    <3>4. CASE vec' = With(vec, c) /\ Go(c, pc) /\ UNCHANGED leaky
      BY <2>1, <3>1, <3>2, <3>3, <3>4, GoFrame
    <3>5. CASE UNCHANGED vec /\ Fail(c)
      BY <2>1, <3>3, <3>5, FailFrame
    <3>6. QED
      BY <3>3, <3>4, <3>5
  <2>4. CASE OldDelete(c) \/ OldInsert(c)
    <3>1. /\ UNCHANGED <<row, vec, clean>>
          /\ op[c].kind = "forget" => op[c].pc = "olddel"
      BY <2>1, <2>4 DEF OldDelete, OldInsert, At, KindOK, ForgetSteps
    <3>2. CASE SqlFails(c)
      BY <2>1, <3>1, <3>2, SqlFailsFrame
    <3>3. CASE Fail(c) /\ UNCHANGED mem
      BY <2>1, <3>1, <3>3, FailFrame
    <3>4. ASSUME NEW pc \in {"olddelcommit", "oldinscommit"}, Go(c, pc), UNCHANGED <<mem, leaky>>,
                 op[c].kind = "forget" => pc = "olddelcommit"
          PROVE  Frame(c)
      BY <2>1, <3>1, <3>4, GoFrame DEF Steps, Commits, ForgetSteps
    <3>5. QED
      BY <2>4, <3>1, <3>2, <3>3, <3>4 DEF OldDelete, OldInsert, At
  <2>5. CASE OldVectors(c)
    <3>1. UNCHANGED <<row, mem, vec, clean>> /\ op[c].kind # "forget"
      BY <2>1, <2>5 DEF OldVectors, At, KindOK, ForgetSteps
    <3>2. CASE Fail(c)
      BY <2>1, <3>1, <3>2, FailFrame
    <3>3. CASE Go(c, "complete") /\ UNCHANGED leaky
      BY <2>1, <3>1, <3>3, GoFrame DEF Steps
    <3>4. QED
      BY <2>5, <3>2, <3>3 DEF OldVectors
  <2>6. CASE Complete(c) \/ MarkFailed(c) \/ delete_document(c)
    <3>1. UNCHANGED <<mem, vec>>
      BY <2>6 DEF Complete, MarkFailed, delete_document
    <3>2. CASE Fail(c) /\ UNCHANGED <<row, clean>>
      BY <2>1, <3>1, <3>2, FailFrame
    <3>3. CASE /\ op' = [op EXCEPT ![c] = Idle] /\ UNCHANGED leaky
               /\ clean' = clean \/ (op[c].calm /\ clean' = clean \cup {op[c].doc})
               /\ \/ row' = row
                  \/ \E st : row' = [row EXCEPT ![op[c].doc].st = st, ![op[c].doc].text = op[c].text]
                  \/ row' = [row EXCEPT ![op[c].doc].st = "none", ![op[c].doc].text = None]
      <4>1. \A d \in Docs : row'[d].id = row[d].id /\ (d # op[c].doc => row'[d] = row[d])
        <5>1. op[c].doc \in Docs
          BY <2>1 DEF Calls
        <5>2. CASE row' = row
          BY <5>2
        <5>3. ASSUME NEW st, NEW t,
                     row' = [row EXCEPT ![op[c].doc].st = st, ![op[c].doc].text = t]
              PROVE  \A d \in Docs : row'[d].id = row[d].id
                                     /\ (d # op[c].doc => row'[d] = row[d])
          BY <5>1, <5>3 DEF Shape
        <5>4. QED
          BY <3>3, <5>2, <5>3
      <4>2. QED
        BY <2>1, <3>1, <3>3, <4>1, EndFrame
    <3>4. QED
      BY <2>6, <3>2, <3>3 DEF Complete, MarkFailed, delete_document, Return, update_document
  <2>7. QED
    BY <1>2, <2>2, <2>3, <2>4, <2>5, <2>6
<1>3. QED
  BY <1>1, <1>2 DEF Step

-------------------------------------------------------------------------------
\* The other calls after a step of c: as they were, or no longer undisturbed.
LEMMA OthersAfter ==
  ASSUME Shape, NEW c \in Callers, Frame(c), NEW x \in Callers \ {c}
  PROVE  /\ Active(x)' <=> Active(x)
         /\ \/ op'[x] = op[x]
            \/ /\ RolledBack(c) /\ op[x].pc \in Commits /\ op[x] \in Calls
               /\ op'[x] = [op[x] EXCEPT !.calm = FALSE] /\ op[x].doc \in leaky'
<1>1. CASE OthersKeep(c)
  BY <1>1 DEF OthersKeep, Active
<1>2. CASE RolledBack(c)
  <2>1. op[x].pc \in Commits => op[x] \in Calls
    BY DEF Shape, Idle, Absentee, Commits
  <2>2. op[x].pc \in Commits => /\ op'[x] = [op[x] EXCEPT !.calm = FALSE]
                                /\ op[x].doc \in leaky'
    BY <1>2 DEF RolledBack
  <2>3. op[x].pc \notin Commits => op'[x] = op[x]
    BY <1>2 DEF RolledBack
  <2>4. QED
    BY <1>2, <2>1, <2>2, <2>3 DEF Active, Calls
<1>3. QED
  BY <1>1, <1>2 DEF Frame

\* Kinds stay right.
LEMMA KindsStep ==
  ASSUME Shape, Kinds, NEW c \in Callers, Frame(c)
  PROVE  Kinds'
<1> SUFFICES ASSUME NEW x \in Callers, Active(x)' PROVE KindOK(x)'
  BY DEF Kinds
<1>1. CASE x = c
  BY <1>1 DEF Frame, Becomes, Active, Idle, Steps, Commits
<1>2. CASE x # c
  <2>1. Active(x) /\ KindOK(x)
    BY <1>2, OthersAfter DEF Kinds
  <2>2. op'[x] = op[x] \/ (op[x] \in Calls /\ op'[x] = [op[x] EXCEPT !.calm = FALSE])
    BY <1>2, OthersAfter
  <2>3. QED
    BY <2>1, <2>2 DEF KindOK, Calls
<1>3. QED
  BY <1>1, <1>2

\* The tables keep their type.
LEMMA TablesStep ==
  ASSUME Shape, Tables, NEW c \in Callers, Step(c), Frame(c)
  PROVE  Tables'
<1>1. op[c] \in Calls
  BY ActiveIsCall DEF Step, Insert, Wipe, Commit, DeleteVectors, InsertRows, AddVectors,
       OldDelete, OldInsert, OldVectors, Complete, MarkFailed, delete_document, At
<1> DEFINE Table == [Docs -> SUBSET [doc : Nat, id : Nat, text : Texts \cup {None},
                                     whole : BOOLEAN]]
<1>2. mem \in Table /\ disk \in Table /\ vec \in Table
  BY DEF Tables
<1>3. /\ Mine(c) \in [doc : Nat, id : Nat, text : Texts \cup {None}, whole : BOOLEAN]
      /\ Half(c) \in [doc : Nat, id : Nat, text : Texts \cup {None}, whole : BOOLEAN]
      /\ op[c].doc \in Docs
  BY <1>1 DEF Mine, Half, Calls
<1>4. \A t \in Table : /\ Without(t, c) \in Table /\ With(t, c) \in Table
                       /\ Plus(t, c, Half(c)) \in Table
  BY <1>3 DEF Without, With, Plus
<1>5. mem' \in Table /\ disk' \in Table
  BY <1>2, <1>4 DEF Frame, RolledBack
<1>6. vec' = vec \/ vec' = Without(vec, c) \/ vec' = With(vec, c)
  BY DEF Step, Insert, Wipe, Commit, DeleteVectors, InsertRows, AddVectors,
       OldDelete, OldInsert, OldVectors, Complete, MarkFailed, delete_document
<1>7. clean' = clean \/ clean' = clean \cup {op[c].doc}
  BY DEF Step, Insert, Wipe, Commit, DeleteVectors, InsertRows, AddVectors, Return,
       OldDelete, OldInsert, OldVectors, Complete, MarkFailed, delete_document
<1>8. QED
  BY <1>2, <1>3, <1>4, <1>5, <1>6, <1>7 DEF Tables

\* The numbers of calls to come stay free.
LEMMA FreshStep ==
  ASSUME Shape, Tables, Fresh, NEW c \in Callers, Active(c), Frame(c)
  PROVE  Fresh'
<1>1. op[c] \in Calls
  BY ActiveIsCall
<1>2. op'[c] # Idle => /\ op'[c].n = op[c].n /\ op'[c].pc # "insert"
                       /\ \/ op'[c].id = op[c].id
                          \/ op[c].pc = "insert" /\ op'[c].id = row'[op[c].doc].id
  BY DEF Frame, Becomes
<1>3. \A x \in Callers \ {c} :
        /\ Active(x)' <=> Active(x)
        /\ Active(x) => op'[x].n = op[x].n /\ op'[x].pc = op[x].pc /\ op'[x].id = op[x].id
  <2> SUFFICES ASSUME NEW x \in Callers \ {c}
               PROVE  /\ Active(x)' <=> Active(x)
                      /\ op'[x].n = op[x].n /\ op'[x].pc = op[x].pc /\ op'[x].id = op[x].id
    OBVIOUS
  <2>1. Active(x)' <=> Active(x)
    BY OthersAfter
  <2>2. op'[x] = op[x] \/ (op[x] \in Calls /\ op'[x] = [op[x] EXCEPT !.calm = FALSE])
    BY OthersAfter
  <2>3. QED
    BY <2>1, <2>2 DEF Calls
<1>4. ~Active(c)' \/ op'[c] # Idle
  BY DEF Active, Idle, Steps, Commits
<1>5. \A i \in Nat : Taken(i)' => Taken(i) \/ (op[c].pc = "insert" /\ i = op[c].n)
  <2> SUFFICES ASSUME NEW i \in Nat, Taken(i)', ~(op[c].pc = "insert" /\ i = op[c].n)
               PROVE  Taken(i)
    OBVIOUS
  <2>1. op[c].doc \in Docs
    BY <1>1 DEF Calls
  <2>2. ASSUME NEW d \in Docs, row'[d].id = i PROVE Taken(i)
    BY <2>2 DEF Frame, Taken
  <2>3. ASSUME NEW d \in Docs, NEW k \in mem'[d] \cup disk'[d], k.doc = i PROVE Taken(i)
    <3>1. ASSUME mem' = Without(mem, c) PROVE k \in mem[d] \cup disk'[d]
      BY <2>1, <2>3, <3>1 DEF Without, Tables
    <3>2. ASSUME mem' = With(mem, c) \/ mem' = Plus(mem, c, Half(c))
          PROVE  k \in mem[d] \cup disk'[d] \/ k.doc = op[c].id
      <4>1. Mine(c).doc = op[c].id /\ Half(c).doc = op[c].id
        BY DEF Mine, Half
      <4>2. QED
        BY <2>1, <2>3, <3>2, <4>1 DEF With, Plus, Tables
    <3>3. k \in mem[d] \cup disk[d] \/ k.doc = op[c].id
      BY <2>3, <3>1, <3>2 DEF Frame, RolledBack
    <3>4. QED
      BY <2>3, <3>3 DEF Taken
  <2>4. ASSUME NEW x \in Callers, Active(x)', op'[x].id = i PROVE Taken(i)
    <3>1. CASE x = c
      BY <1>2, <1>4, <2>1, <2>2, <2>4, <3>1 DEF Taken
    <3>2. CASE x # c
      BY <1>3, <2>4, <3>2 DEF Taken
    <3>3. QED
      BY <3>1, <3>2
  <2>5. QED
    BY <2>2, <2>3, <2>4 DEF Taken
<1>6. ops' = ops /\ ops \in Nat
  BY DEF Frame, Shape
<1>7. op[c].n > ops
  BY DEF Fresh
<1>8. \A i \in Nat : Taken(i)' => i = 0 \/ i > ops'
  BY <1>5, <1>6, <1>7 DEF Fresh
<1>9. ASSUME NEW x \in Callers, Active(x)'
      PROVE  /\ op'[x].n > ops' /\ (op'[x].pc = "insert" => (~Taken(op[x].n))')
             /\ \A y \in Callers \ {x} : Active(y)' => op'[y].n # op'[x].n
  <2>1. Active(x) /\ op'[x].n = op[x].n /\ op[x] \in Calls
    BY <1>2, <1>3, <1>4, <1>9, ActiveIsCall
  <2>2. op'[x].n > ops'
    BY <1>6, <2>1 DEF Fresh
  <2>3. ASSUME op'[x].pc = "insert" PROVE (~Taken(op[x].n))'
    <3>1. x # c /\ op[x].pc = "insert"
      BY <1>2, <1>3, <1>4, <1>9, <2>3
    <3>2. ~Taken(op[x].n) /\ op[c].n # op[x].n
      BY <2>1, <3>1 DEF Fresh
    <3>3. op[x].n \in Nat
      BY <2>1 DEF Calls
    <3>4. \A i \in Nat : i = op'[x].n => ~Taken(i)'
      BY <1>5, <2>1, <3>2
    <3>5. QED
      BY <2>1, <3>3, <3>4 DEF Taken
  <2>4. \A y \in Callers \ {x} : Active(y)' => op'[y].n # op'[x].n
    <3>1. \A y \in Callers : Active(y)' => Active(y) /\ op'[y].n = op[y].n
      BY <1>2, <1>3, <1>4
    <3>2. QED
      BY <2>1, <3>1 DEF Fresh
  <2>5. QED
    BY <2>2, <2>3, <2>4
<1>10. QED
  BY <1>8, <1>9 DEF Fresh

-------------------------------------------------------------------------------
\* The documents no step of c is about.
LEMMA Elsewhere ==
  ASSUME Shape, Tables, NEW c \in Callers, Active(c), Frame(c),
         NEW d \in Docs, d # op[c].doc, DocInv(d)
  PROVE  DocInv(d)'
<1>1. op[c].doc \in Docs /\ op[c] \in Calls
  BY ActiveIsCall DEF Calls
<1>2. DocInv(d)
  OBVIOUS
<1>3. row'[d] = row[d] /\ vec'[d] = vec[d] /\ (d \in clean' <=> d \in clean) /\ leaky \subseteq leaky'
  BY DEF Frame
<1>4. \A x \in CallsAt(d) :
        \/ op'[x] = op[x]
        \/ /\ RolledBack(c) /\ op[x].pc \in Commits /\ op[x] \in Calls
           /\ op'[x] = [op[x] EXCEPT !.calm = FALSE] /\ d \in leaky'
  BY OthersAfter DEF CallsAt
<1>5. CallsAt(d)' = CallsAt(d)
  <2>1. \A x \in Callers \ {c} : op'[x].doc = op[x].doc
    <3> SUFFICES ASSUME NEW x \in Callers \ {c} PROVE op'[x].doc = op[x].doc
      OBVIOUS
    <3>1. op'[x] = op[x] \/ (op[x] \in Calls /\ op'[x] = [op[x] EXCEPT !.calm = FALSE])
      BY OthersAfter
    <3>2. QED
      BY <3>1 DEF Calls
  <2>2. c \notin CallsAt(d)'
    BY DEF Frame, Becomes, CallsAt, Active, Idle, Steps, Commits
  <2>3. \A x \in Callers \ {c} : x \in CallsAt(d)' <=> x \in CallsAt(d)
    BY <2>1, OthersAfter DEF CallsAt
  <2>4. QED
    BY <2>2, <2>3 DEF CallsAt
<1>6. \/ mem'[d] = mem[d] /\ disk'[d] = disk[d] /\ OthersKeep(c)
      \/ mem'[d] = mem[d] /\ disk'[d] = mem[d] /\ OthersKeep(c)
      \/ mem'[d] = disk[d] /\ disk'[d] = disk[d] /\ RolledBack(c)
  BY <1>1 DEF Frame, RolledBack, Tables, Without, With, Plus
<1>7. \A i : Same(d, i) => /\ Same(d, i)'
                           /\ {k \in mem'[d] : k.doc = i} = {k \in mem[d] : k.doc = i}
                           /\ {k \in disk'[d] : k.doc = i} = {k \in mem[d] : k.doc = i}
  BY <1>6 DEF Same
<1>9. Alone(d)'
  <2> SUFFICES ASSUME NEW x \in CallsAt(d)
               PROVE  /\ op'[x].calm => CallsAt(d) = {x}
                      /\ d \notin leaky' => op'[x].calm
                      /\ d \notin clean'
    BY <1>5 DEF Alone
  <2>1. /\ op[x].calm => CallsAt(d) = {x}
        /\ d \notin leaky => op[x].calm
        /\ d \notin clean
    BY DEF DocInv, Alone
  <2>2. op'[x] # op[x] => op'[x].calm = FALSE /\ d \in leaky'
    BY <1>4 DEF Calls
  <2>3. QED
    BY <1>3, <2>1, <2>2
<1>10. ASSUME NEW x \in CallsAt(d) PROVE OnTrack(x)'
  <2> SUFFICES ASSUME op'[x].calm PROVE OnTrack(x)'
    BY DEF OnTrack
  <2>1. op'[x] = op[x]
    BY <1>4, <1>10 DEF Calls
  <2>2. CallsAt(d) = {x} /\ op[x].doc = d
    BY <1>10, <2>1 DEF DocInv, Alone, CallsAt
  <2>3. OnTrack(x)
    BY <1>10 DEF DocInv
  <2>4. op[x].pc \in Commits => mem'[d] = mem[d]
    <3>1. RolledBack(c) => op[x].pc \notin Commits
      BY <1>10, <2>1 DEF RolledBack, CallsAt, Shape, Idle, Absentee, Commits, Calls
    <3>2. QED
      BY <1>6, <3>1
  <2>5. Committed(x) => Same(d, op[x].id)
    BY <2>1, <2>2, <2>3 DEF OnTrack
  <2>6. Emptied(x) \/ Written(x) => Committed(x) \/ op[x].pc \in Commits
    BY DEF Emptied, Written, Vectored, Committed, Commits
  <2>7. Emptied(x) \/ Written(x) =>
          {k \in mem'[d] : k.doc = op[x].id} = {k \in mem[d] : k.doc = op[x].id}
    BY <1>7, <2>4, <2>5, <2>6
  <2>8. /\ (Emptied(x)' <=> Emptied(x)) /\ (Written(x)' <=> Written(x))
        /\ (Vectored(x)' <=> Vectored(x)) /\ (Committed(x)' <=> Committed(x))
        /\ Mine(x)' = Mine(x) /\ op'[x].calm = op[x].calm /\ op'[x].pc = op[x].pc
        /\ op'[x].id = op[x].id /\ op'[x].doc = d
    BY <2>1, <2>2 DEF Emptied, Written, Vectored, Committed, Mine
  <2>9. Current(x)' <=> Current(x)
    BY <1>3, <2>2, <2>8 DEF Current
  <2>10. Committed(x)' => Same(d, op[x].id)'
    BY <1>7, <2>5, <2>8
  <2>11. Emptied(x) => \A k \in mem'[d] : k.doc # op[x].id
    <3>1. Emptied(x) => \A k \in mem[d] : k.doc # op[x].id
      BY <2>1, <2>2, <2>3 DEF OnTrack
    <3>2. QED
      BY <2>7, <3>1
  <2>12. Written(x) => {k \in mem'[d] : k.doc = op[x].id} = {Mine(x)}
    BY <2>1, <2>2, <2>3, <2>7 DEF OnTrack
  <2>13. Vectored(x) => Mine(x) \in vec'[d]
    BY <1>3, <2>1, <2>2, <2>3 DEF OnTrack
  <2>14. /\ op[x].pc = "insert" => row'[d].st = "none"
         /\ op[x].pc # "insert" => Current(x)'
    BY <1>3, <2>1, <2>2, <2>3, <2>9 DEF OnTrack
  <2>15. QED
    BY <2>8, <2>10, <2>11, <2>12, <2>13, <2>14 DEF OnTrack
<1>11. Traceless(d)'
  <2> SUFFICES ASSUME d \notin leaky' PROVE Traceless(d)'
    BY DEF Traceless
  <2>1. d \notin leaky /\ \A x \in CallsAt(d) : op'[x] = op[x]
    BY <1>3, <1>4
  <2>2. (\A x \in CallsAt(d) : ~Wiping(x))' => \A x \in CallsAt(d) : ~Wiping(x)
    BY <1>5, <2>1 DEF Wiping
  <2>3. QED
    BY <1>2, <1>3, <1>6, <2>1, <2>2 DEF DocInv, Traceless
<1>12. Sound(d)'
  <2> SUFFICES ASSUME d \in clean PROVE Whole(d)' /\ Same(d, row[d].id)'
    BY <1>3 DEF Sound, Same
  <2>1. Whole(d) /\ Same(d, row[d].id)
    BY DEF DocInv, Sound
  <2>2. /\ Rows(d)' = Rows(d) /\ Same(d, row[d].id)'
        /\ {k \in disk'[d] : k.doc = row[d].id} = Rows(d)
    BY <1>3, <1>7, <2>1 DEF Rows
  <2>3. QED
    BY <1>3, <2>1, <2>2 DEF Whole
<1>13. QED
  BY <1>5, <1>9, <1>10, <1>11, <1>12 DEF DocInv

-------------------------------------------------------------------------------
\* The document of a call that was disturbed is leaky and torn, and stays so.
LEMMA Disturbed ==
  ASSUME Shape, Tables, NEW c \in Callers, Active(c), Frame(c), ~op[c].calm,
         NEW d, d = op[c].doc, DocInv(d)
  PROVE  DocInv(d)'
<1>1. op[c] \in Calls /\ d \in Docs /\ c \in CallsAt(d)
  BY ActiveIsCall DEF Calls, CallsAt
<1>2. /\ d \in leaky /\ d \notin clean
      /\ \A x \in CallsAt(d) : ~op[x].calm
  BY <1>1 DEF DocInv, Alone
<1>3. d \in leaky' /\ d \notin clean'
  BY <1>2 DEF Frame
<1>4. \A x \in CallsAt(d)' : ~op'[x].calm
  <2> SUFFICES ASSUME NEW x \in CallsAt(d)' PROVE ~op'[x].calm
    OBVIOUS
  <2>1. CASE x = c
    BY <2>1 DEF Frame, Becomes, CallsAt, Active, Idle, Steps, Commits
  <2>2. CASE x # c
    <3>1. x \in Callers \ {c} /\ Active(x)
      BY <2>2, OthersAfter DEF CallsAt
    <3>2. op'[x] = op[x] \/ (op[x] \in Calls /\ op'[x] = [op[x] EXCEPT !.calm = FALSE])
      BY <3>1, OthersAfter
    <3>3. CASE op'[x] = op[x]
      BY <1>2, <3>1, <3>3 DEF CallsAt
    <3>4. CASE op[x] \in Calls /\ op'[x] = [op[x] EXCEPT !.calm = FALSE]
      BY <3>4 DEF Calls
    <3>5. QED
      BY <3>2, <3>3, <3>4
  <2>3. QED
    BY <2>1, <2>2
<1>5. QED
  BY <1>3, <1>4 DEF DocInv, Alone, Traceless, Sound, OnTrack

\* What is left to show of the document of a call that nothing disturbed.
TracelessAfter(c) ==
  LET d == op[c].doc IN
  d \notin leaky' =>
    /\ \A k \in mem'[d] \cup disk'[d] \cup vec'[d] : k.doc = row'[d].id
    /\ row'[d].st = "none" => mem'[d] = {} /\ disk'[d] = {} /\ vec'[d] = {}
    /\ (op'[c] = Idle \/ ~Wiping(c)') => vec'[d] \subseteq mem'[d] /\ vec'[d] \subseteq disk'[d]

\* It follows from what the step has done to the tables of that document.
LEMMA Undisturbed ==
  ASSUME Shape, Tables, NEW c \in Callers, Active(c), Frame(c), op[c].calm,
         NEW d, d = op[c].doc, DocInv(d),
         op'[c] # Idle => OnTrack(c)', TracelessAfter(c), Sound(d)'
  PROVE  DocInv(d)'
<1>1. op[c] \in Calls /\ d \in Docs /\ CallsAt(d) = {c}
  BY ActiveIsCall DEF Calls, CallsAt, DocInv, Alone
<1>2. /\ op'[c] = Idle => CallsAt(d)' = {}
      /\ op'[c] # Idle => CallsAt(d)' = {c} /\ op'[c].calm /\ op'[c] \in Calls
  <2>1. \A x \in Callers \ {c} : x \notin CallsAt(d)'
    <3> SUFFICES ASSUME NEW x \in Callers \ {c}, x \in CallsAt(d)' PROVE FALSE
      OBVIOUS
    <3>1. op'[x] = op[x] \/ (op[x] \in Calls /\ op'[x] = [op[x] EXCEPT !.calm = FALSE])
      BY OthersAfter
    <3>2. Active(x) /\ op[x].doc = d
      BY <3>1, OthersAfter DEF CallsAt, Calls
    <3>3. QED
      BY <1>1, <3>2 DEF CallsAt
  <2>2. op'[c] = Idle => c \notin CallsAt(d)'
    BY DEF CallsAt, Active, Idle, Steps, Commits
  <2>3. op'[c] # Idle => c \in CallsAt(d)' /\ op'[c].calm /\ op'[c] \in Calls
    BY DEF Frame, Becomes, CallsAt, Active, Calls
  <2>4. QED
    BY <2>1, <2>2, <2>3 DEF CallsAt
<1>3. Alone(d)'
  <2>1. d \notin clean
    BY <1>1 DEF DocInv, Alone
  <2>2. op'[c] # Idle => d \notin clean'
    BY <2>1 DEF Frame
  <2>3. QED
    BY <1>2, <2>2 DEF Alone
<1>4. Traceless(d)'
  <2>1. CASE op'[c] = Idle
    BY <1>2, <2>1 DEF TracelessAfter, Traceless
  <2>2. CASE op'[c] # Idle
    BY <1>2, <2>2 DEF TracelessAfter, Traceless
  <2>3. QED
    BY <2>1, <2>2
<1>5. QED
  BY <1>2, <1>3, <1>4 DEF DocInv

\* What is known of the document of a call that nothing disturbed.
KnownAt(c, d) ==
  /\ op[c] \in Calls /\ d \in Docs /\ d \notin clean /\ OnTrack(c)
  /\ d \notin leaky =>
       /\ \A k \in mem[d] \cup disk[d] \cup vec[d] : k.doc = row[d].id
       /\ row[d].st = "none" => mem[d] = {} /\ disk[d] = {} /\ vec[d] = {}
       /\ ~Wiping(c) => vec[d] \subseteq mem[d] /\ vec[d] \subseteq disk[d]

\* The invariant, read for the document of a call that nothing disturbed.
LEMMA Known ==
  ASSUME Shape, Tables, NEW c \in Callers, Active(c), op[c].calm, NEW d, d = op[c].doc, DocInv(d)
  PROVE  KnownAt(c, d)
<1>1. op[c] \in Calls /\ d \in Docs /\ CallsAt(d) = {c}
  BY ActiveIsCall DEF Calls, CallsAt, DocInv, Alone
<1>2. QED
  BY <1>1 DEF KnownAt, DocInv, Alone, Traceless

\* A call undisturbed that fails, at its document.
LEMMA FailsAtItsDoc ==
  ASSUME Shape, Tables, NEW c \in Callers, Active(c), Frame(c), op[c].calm,
         NEW d, d = op[c].doc, DocInv(d),
         op'[c] = Failed(c), UNCHANGED <<row, disk, vec, clean>>,
         \/ mem'[d] \in {mem[d], disk[d]}
         \/ op[c].pc # "insert" /\ \E k : k.doc = op[c].id /\ mem'[d] = mem[d] \cup {k}
         \/ d \in leaky',
         Wiping(c) => d \in leaky', leaky \subseteq leaky'
  PROVE  DocInv(d)'
<1> USE DEF KnownAt
<1>1. KnownAt(c, d)
  BY Known
<1>2. op'[c] # Idle => OnTrack(c)'
  <2> SUFFICES ASSUME op'[c] # Idle PROVE OnTrack(c)'
    OBVIOUS
  <2>1. op'[c] = [op[c] EXCEPT !.pc = "mark"] /\ op[c].pc # "insert"
    BY DEF Failed
  <2>2. op'[c].pc = "mark" /\ op'[c].doc = d /\ op'[c].id = op[c].id
    BY <1>1, <2>1 DEF Calls
  <2>3. Current(c)
    BY <1>1, <2>1 DEF OnTrack
  <2>4. QED
    BY <2>2, <2>3 DEF OnTrack, Current, Emptied, Written, Vectored, Committed
<1>3. TracelessAfter(c)
  <2>1. op[c].pc # "insert" => row[d].st # "none" /\ row[d].id = op[c].id
    BY <1>1 DEF OnTrack, Current
  <2>2. QED
    BY <1>1, <2>1 DEF TracelessAfter
<1>4. QED
  BY <1>1, <1>2, <1>3, Undisturbed DEF Sound

\* A statement that fails, at its call's document.
LEMMA SqlFailsAtItsDoc ==
  ASSUME Shape, Tables, NEW c \in Callers, Active(c), Frame(c), op[c].calm,
         op[c].pc \notin Commits, op[c].pc # "unvec",
         NEW d, d = op[c].doc, DocInv(d),
         SqlFails(c) \/ (Fail(c) /\ UNCHANGED mem), UNCHANGED <<row, disk, vec, clean>>
  PROVE  DocInv(d)'
<1>1. ~Wiping(c)
  BY DEF Wiping, Commits
<1>2. op'[c] = Failed(c) /\ leaky \subseteq leaky' /\ mem'[d] \in {mem[d], disk[d]}
  BY DEF SqlFails, Undone, RolledBack, Fail, Shape
<1>3. QED
  BY <1>1, <1>2, FailsAtItsDoc

-------------------------------------------------------------------------------
\* A row is inserted under a number that is nobody's id.
LEMMA InsertAtItsDoc ==
  ASSUME Shape, Tables, Kinds, Fresh, NEW c \in Callers, Active(c), Frame(c), op[c].calm,
         NEW d, d = op[c].doc, DocInv(d), Insert(c)
  PROVE  DocInv(d)'
<1> USE DEF KnownAt
<1>1. KnownAt(c, d)
  BY Known
<1>2. op[c].pc = "insert" /\ row[d].st = "none" /\ UNCHANGED <<mem, disk, vec>>
  BY <1>1 DEF Insert, At, OnTrack
<1>3. CASE RowFails /\ Fail(c) /\ UNCHANGED <<row, clean>>
  BY <1>2, <1>3, SqlFailsAtItsDoc DEF Commits
<1>4. CASE /\ row' = [row EXCEPT ![d] = [st |-> "pending", text |-> op[c].text, id |-> op[c].n]]
           /\ op' = [op EXCEPT ![c].pc = "rows", ![c].id = op[c].n]
           /\ UNCHANGED <<clean, leaky>>
  <2>1. /\ op'[c].pc = "rows" /\ op'[c].id = op[c].n /\ op'[c].doc = d /\ ~Wiping(c)
        /\ row'[d].st = "pending" /\ row'[d].id = op[c].n
    BY <1>1, <1>2, <1>4 DEF Shape, Calls, Wiping
  <2>2. \A k \in mem[d] \cup disk[d] : k.doc # op[c].n
    BY <1>1, <1>2 DEF Fresh, Taken
  <2>3. OnTrack(c)'
    BY <1>2, <2>1, <2>2 DEF OnTrack, Current, Emptied, Written, Vectored, Committed, Same
  <2>4. TracelessAfter(c)
    BY <1>1, <1>2, <1>4, <2>1 DEF TracelessAfter
  <2>5. QED
    BY <1>1, <1>4, <2>3, <2>4, Undisturbed DEF Sound
<1>5. QED
  BY <1>2, <1>3, <1>4 DEF Insert

\* The rows of the document are deleted.
LEMMA WipeAtItsDoc ==
  ASSUME Shape, Tables, Kinds, Fresh, NEW c \in Callers, Active(c), Frame(c), op[c].calm,
         NEW d, d = op[c].doc, DocInv(d), Wipe(c)
  PROVE  DocInv(d)'
<1> USE DEF KnownAt
<1>1. KnownAt(c, d)
  BY Known
<1>2. /\ op[c].pc = "wipe" /\ UNCHANGED <<row, disk, vec, clean>>
      /\ ~Wiping(c) /\ Current(c)
  BY <1>1 DEF Wipe, At, OnTrack, Wiping
<1>3. CASE /\ mem' = Without(mem, c)
           /\ op' = [op EXCEPT ![c].pc = "wipecommit", ![c].hit = mem # mem']
           /\ UNCHANGED leaky
  <2>1. /\ op'[c].pc = "wipecommit" /\ op'[c].id = op[c].id /\ op'[c].doc = d
        /\ op'[c].hit = (mem # mem')
    BY <1>1, <1>3 DEF Shape, Calls
  <2>2. mem'[d] = {k \in mem[d] : k.doc # op[c].id}
    BY <1>1, <1>3 DEF Tables, Without
  <2>3. OnTrack(c)'
    BY <1>2, <2>1, <2>2 DEF OnTrack, Current, Emptied, Written, Vectored, Committed
  <2>4. TracelessAfter(c)
    <3>1. ~Wiping(c)' => mem'[d] = mem[d]
      BY <2>1 DEF Wiping
    <3>2. op'[c] # Idle /\ row[d].st # "none"
      BY <1>2, <2>1 DEF Idle, Current
    <3>3. QED
      BY <1>1, <1>2, <1>3, <2>2, <3>1, <3>2 DEF TracelessAfter
  <2>5. QED
    BY <1>1, <1>2, <2>3, <2>4, Undisturbed DEF Sound
<1>4. CASE SqlFails(c)
  BY <1>2, <1>4, SqlFailsAtItsDoc DEF Commits
<1>5. CASE op' = [op EXCEPT ![c] = Idle] /\ UNCHANGED <<mem, leaky>>
  <2>1. op'[c] = Idle
    BY <1>5 DEF Shape
  <2>2. TracelessAfter(c)
    BY <1>1, <1>2, <1>5 DEF TracelessAfter
  <2>3. QED
    BY <1>1, <1>2, <2>1, <2>2, Undisturbed DEF Sound
<1>6. QED
  BY <1>3, <1>4, <1>5 DEF Wipe

\* What the call executed is committed, or rolled back and the document leaky.
LEMMA CommitAtItsDoc ==
  ASSUME Shape, Tables, Kinds, Fresh, NEW c \in Callers, Active(c), Frame(c), op[c].calm,
         NEW d, d = op[c].doc, DocInv(d), Commit(c)
  PROVE  DocInv(d)'
<1> USE DEF KnownAt
<1>1. KnownAt(c, d)
  BY Known
<1>2. /\ op[c].pc \in Commits /\ UNCHANGED <<row, vec, clean>> /\ Current(c)
  BY <1>1 DEF Commit, OnTrack, Commits
<1>3. CASE disk' = mem /\ Go(c, Then(c)) /\ UNCHANGED <<mem, leaky>>
  <2>1. op'[c] = [op[c] EXCEPT !.pc = Then(c)]
    BY <1>3 DEF Shape, Go
  <2>2. /\ op'[c].pc = Then(c) /\ op'[c].id = op[c].id /\ op'[c].doc = d
        /\ op'[c].hit = op[c].hit /\ op'[c].n = op[c].n /\ op'[c].text = op[c].text
        /\ op'[c].kind = op[c].kind
    BY <1>1, <2>1 DEF Calls
  <2>3. /\ Then(c) # "insert" /\ (Emptied(c)' => Emptied(c))
        /\ (Written(c)' => Written(c)) /\ (Vectored(c)' => Vectored(c))
    BY <1>1, <1>2, <2>2 DEF Then, Wiped, Commits, Emptied, Written, Vectored
  <2>4. OnTrack(c)'
    BY <1>1, <1>2, <1>3, <2>2, <2>3 DEF OnTrack, Current, Mine, Same
  <2>5. TracelessAfter(c)
    <3>1. Wiping(c) => Wiping(c)'
      BY <1>2, <2>2 DEF Wiping, Then, Commits
    <3>2. op'[c] # Idle /\ row[d].st # "none"
      BY <1>1, <1>2, <2>1 DEF Calls, Idle, Current, Then, Wiped, Commits
    <3>3. QED
      BY <1>1, <1>2, <1>3, <3>1, <3>2 DEF TracelessAfter
  <2>6. QED
    BY <1>1, <1>2, <2>4, <2>5, Undisturbed DEF Sound
<1>4. CASE RolledBack(c) /\ UNCHANGED disk
  <2>1. op'[c] = Failed(c) /\ leaky \subseteq leaky' /\ d \in leaky'
    BY <1>2, <1>4 DEF RolledBack
  <2>2. QED
    BY <1>2, <1>4, <2>1, FailsAtItsDoc
<1>5. QED
  BY <1>3, <1>4 DEF Commit

\* The vectors of what was wiped go, or the document is leaky.
LEMMA DeleteVectorsAtItsDoc ==
  ASSUME Shape, Tables, Kinds, Fresh, NEW c \in Callers, Active(c), Frame(c), op[c].calm,
         NEW d, d = op[c].doc, DocInv(d), DeleteVectors(c)
  PROVE  DocInv(d)'
<1> USE DEF KnownAt
<1>1. KnownAt(c, d)
  BY Known
<1>2. /\ op[c].pc = "unvec" /\ UNCHANGED <<row, mem, disk, clean>> /\ Current(c)
      /\ Same(d, op[c].id) /\ \A k \in mem[d] : k.doc # op[c].id
  BY <1>1 DEF DeleteVectors, At, OnTrack, Emptied, Committed
<1>3. ASSUME Go(c, Wiped(c)),
             \/ vec' = Without(vec, c) /\ UNCHANGED leaky
             \/ UNCHANGED vec /\ leaky' = leaky \cup {d}
      PROVE  DocInv(d)'
  <2>1. op'[c] = [op[c] EXCEPT !.pc = Wiped(c)]
    BY <1>3 DEF Shape, Go
  <2>2. /\ op'[c].pc = Wiped(c) /\ op'[c].id = op[c].id /\ op'[c].doc = d
        /\ op'[c].kind = op[c].kind
    BY <1>1, <2>1 DEF Calls
  <2>3. OnTrack(c)'
    BY <1>2, <2>2 DEF OnTrack, Current, Emptied, Written, Vectored, Same, Wiped
  <2>4. d \notin leaky' => vec'[d] = {k \in vec[d] : k.doc # op[c].id} /\ d \notin leaky
    BY <1>1, <1>3 DEF Tables, Without
  <2>5. TracelessAfter(c)
    BY <1>1, <1>2, <2>4 DEF TracelessAfter, Current
  <2>6. QED
    BY <1>1, <1>2, <2>3, <2>5, Undisturbed DEF Sound
<1>4. CASE Fail(c) /\ UNCHANGED vec
  <2>1. op'[c] = Failed(c) /\ leaky \subseteq leaky'
    BY <1>4 DEF Fail, Shape
  <2>2. Wiping(c) => d \in leaky'
    BY <1>4 DEF Fail, HalfWiped, Wiping
  <2>3. QED
    BY <1>2, <1>4, <2>1, <2>2, FailsAtItsDoc
<1>5. QED
  BY <1>3, <1>4 DEF DeleteVectors

\* The rows are inserted where there are none.
LEMMA RowsAtItsDoc ==
  ASSUME Shape, Tables, Kinds, Fresh, NEW c \in Callers, Active(c), Frame(c), op[c].calm,
         NEW d, d = op[c].doc, DocInv(d), InsertRows(c)
  PROVE  DocInv(d)'
<1> USE DEF KnownAt
<1>1. KnownAt(c, d)
  BY Known
<1>2. /\ op[c].pc = "rows" /\ UNCHANGED <<row, disk, vec, clean>> /\ Current(c)
      /\ ~Wiping(c) /\ \A k \in mem[d] : k.doc # op[c].id
  BY <1>1 DEF InsertRows, At, OnTrack, Wiping, Emptied
<1>3. CASE mem' = With(mem, c) /\ Go(c, "rowscommit") /\ UNCHANGED leaky
  <2>1. op'[c] = [op[c] EXCEPT !.pc = "rowscommit"]
    BY <1>3 DEF Shape, Go
  <2>2. /\ op'[c].pc = "rowscommit" /\ op'[c].id = op[c].id /\ op'[c].doc = d
        /\ op'[c].n = op[c].n /\ op'[c].text = op[c].text
    BY <1>1, <2>1 DEF Calls
  <2>3. mem'[d] = mem[d] \cup {Mine(c)} /\ Mine(c).doc = op[c].id
    BY <1>1, <1>3 DEF Tables, With, Plus, Mine
  <2>4. Mine(c)' = Mine(c)
    BY <2>2 DEF Mine
  <2>5. {k \in mem'[d] : k.doc = op[c].id} = {Mine(c)}
    BY <1>2, <2>3
  <2>6. OnTrack(c)'
    BY <1>2, <2>2, <2>4, <2>5 DEF OnTrack, Current, Emptied, Written, Vectored, Committed
  <2>7. TracelessAfter(c)
    BY <1>1, <1>2, <1>3, <2>3 DEF TracelessAfter, Current
  <2>8. QED
    BY <1>1, <1>2, <2>6, <2>7, Undisturbed DEF Sound
<1>4. CASE mem' = Plus(mem, c, Half(c)) /\ Fail(c)
  <2>1. mem'[d] = mem[d] \cup {Half(c)} /\ Half(c).doc = op[c].id
    BY <1>1, <1>4 DEF Tables, Plus, Half, Mine
  <2>2. op'[c] = Failed(c) /\ leaky \subseteq leaky'
    BY <1>4 DEF Fail, Shape
  <2>3. QED
    BY <1>2, <2>1, <2>2, FailsAtItsDoc
<1>5. CASE SqlFails(c)
  BY <1>2, <1>5, SqlFailsAtItsDoc DEF Commits
<1>6. QED
  BY <1>3, <1>4, <1>5 DEF InsertRows

\* The vectors of the rows follow.
LEMMA AddVectorsAtItsDoc ==
  ASSUME Shape, Tables, Kinds, Fresh, NEW c \in Callers, Active(c), Frame(c), op[c].calm,
         NEW d, d = op[c].doc, DocInv(d), AddVectors(c)
  PROVE  DocInv(d)'
<1> USE DEF KnownAt
<1>1. KnownAt(c, d)
  BY Known
<1>2. /\ op[c].pc = "addvec" /\ UNCHANGED <<row, mem, disk, clean>> /\ Current(c)
      /\ ~Wiping(c) /\ Same(d, op[c].id) /\ {k \in mem[d] : k.doc = op[c].id} = {Mine(c)}
      /\ op[c].kind # "forget"
  BY <1>1 DEF AddVectors, At, OnTrack, Wiping, Written, Committed, Kinds, KindOK, ForgetSteps
<1>3. ASSUME vec' = With(vec, c), UNCHANGED leaky,
             NEW pc \in {"complete", "olddel"}, Go(c, pc)
      PROVE  DocInv(d)'
  <2>1. op'[c] = [op[c] EXCEPT !.pc = pc]
    BY <1>3 DEF Shape, Go
  <2>2. /\ op'[c].pc = pc /\ op'[c].id = op[c].id /\ op'[c].doc = d
        /\ op'[c].n = op[c].n /\ op'[c].text = op[c].text /\ op'[c].kind = op[c].kind
    BY <1>1, <2>1 DEF Calls
  <2>3. vec'[d] = vec[d] \cup {Mine(c)} /\ Mine(c).doc = op[c].id
    BY <1>1, <1>3 DEF Tables, With, Plus, Mine
  <2>4. Mine(c)' = Mine(c)
    BY <2>2 DEF Mine
  <2>5. OnTrack(c)'
    BY <1>2, <1>3, <2>2, <2>3, <2>4 DEF OnTrack, Current, Emptied, Written, Vectored, Same
  <2>6. TracelessAfter(c)
    BY <1>1, <1>2, <1>3, <2>3 DEF TracelessAfter, Current, Same
  <2>7. QED
    BY <1>1, <1>2, <2>5, <2>6, Undisturbed DEF Sound
<1>4. CASE Fail(c) /\ UNCHANGED vec
  BY <1>2, <1>4, SqlFailsAtItsDoc DEF Commits
<1>5. QED
  BY <1>3, <1>4 DEF AddVectors

\* The writes of the other table change nothing here.
LEMMA OldAtItsDoc ==
  ASSUME Shape, Tables, Kinds, Fresh, NEW c \in Callers, Active(c), Frame(c), op[c].calm,
         NEW d, d = op[c].doc, DocInv(d), OldDelete(c) \/ OldInsert(c) \/ OldVectors(c)
  PROVE  DocInv(d)'
<1> USE DEF KnownAt
<1>1. KnownAt(c, d)
  BY Known
<1>2. /\ op[c].pc \in {"olddel", "oldins", "oldvec"} /\ UNCHANGED <<row, disk, vec, clean>>
      /\ Current(c) /\ ~Wiping(c) /\ Same(d, op[c].id)
      /\ op[c].kind = "forget" => op[c].pc = "olddel"
  BY <1>1 DEF OldDelete, OldInsert, OldVectors, At, OnTrack, Wiping, Committed, Kinds, KindOK,
     ForgetSteps
<1>3. ASSUME UNCHANGED <<mem, leaky>>,
             NEW pc \in {"olddelcommit", "oldinscommit", "complete"}, Go(c, pc),
             op[c].kind = "forget" => pc = "olddelcommit"
      PROVE  DocInv(d)'
  <2>1. op'[c] = [op[c] EXCEPT !.pc = pc]
    BY <1>3 DEF Shape, Go
  <2>2. /\ op'[c].pc = pc /\ op'[c].id = op[c].id /\ op'[c].doc = d
        /\ op'[c].n = op[c].n /\ op'[c].text = op[c].text /\ op'[c].kind = op[c].kind
        /\ Mine(c)' = Mine(c)
    BY <1>1, <2>1 DEF Calls, Mine
  <2>3. /\ Emptied(c)' => \A k \in mem[d] : k.doc # op[c].id
        /\ Written(c)' => /\ {k \in mem[d] : k.doc = op[c].id} = {Mine(c)}
                          /\ Mine(c) \in vec[d]
    BY <1>1, <1>2, <1>3, <2>2 DEF OnTrack, Emptied, Written, Vectored
  <2>4. Vectored(c)' => Written(c)'
    BY DEF Written
  <2>5. OnTrack(c)'
    BY <1>2, <1>3, <2>2, <2>3, <2>4 DEF OnTrack, Current, Same
  <2>6. TracelessAfter(c)
    BY <1>1, <1>2, <1>3 DEF TracelessAfter
  <2>7. QED
    BY <1>1, <1>2, <2>5, <2>6, Undisturbed DEF Sound
<1>4. CASE SqlFails(c) \/ (Fail(c) /\ UNCHANGED mem)
  BY <1>2, <1>4, SqlFailsAtItsDoc DEF Commits
<1>5. QED
  BY <1>2, <1>3, <1>4 DEF OldDelete, OldInsert, OldVectors, At

\* A call that returns leaves its document whole, and one that marks it failed
\* leaves it torn.
LEMMA EndAtItsDoc ==
  ASSUME Shape, Tables, Kinds, Fresh, NEW c \in Callers, Active(c), Frame(c), op[c].calm,
         NEW d, d = op[c].doc, DocInv(d), Complete(c) \/ MarkFailed(c) \/ delete_document(c)
  PROVE  DocInv(d)'
<1> USE DEF KnownAt
<1>1. KnownAt(c, d)
  BY Known
<1>2. /\ op[c].pc \in {"complete", "mark", "delrow"} /\ UNCHANGED <<mem, disk, vec>>
      /\ Current(c) /\ ~Wiping(c) /\ (op[c].pc # "mark" => Same(d, op[c].id))
      /\ op[c].pc = "complete" => op[c].kind # "forget"
  BY <1>1 DEF Complete, MarkFailed, delete_document, At, OnTrack, Wiping, Committed, Kinds, KindOK,
     ForgetSteps
<1>3. CASE Fail(c) /\ UNCHANGED <<row, clean>>
  BY <1>2, <1>3, SqlFailsAtItsDoc DEF Commits
<1>4. CASE op' = [op EXCEPT ![c] = Idle] /\ UNCHANGED <<leaky, row, clean>>
  <2>1. op'[c] = Idle
    BY <1>4 DEF Shape
  <2>2. TracelessAfter(c)
    BY <1>1, <1>2, <1>4 DEF TracelessAfter
  <2>3. QED
    BY <1>1, <1>4, <2>1, <2>2, Undisturbed DEF Sound
<1>5. ASSUME op' = [op EXCEPT ![c] = Idle], UNCHANGED leaky,
             NEW st \in {"completed", "failed"}, update_document(c, st),
             (st = "failed" /\ UNCHANGED clean) \/ (st = "completed" /\ op[c].pc = "complete")
      PROVE  DocInv(d)'
  <2>1. op'[c] = Idle
    BY <1>5 DEF Shape
  <2>2. row' = [row EXCEPT ![d].st = st, ![d].text = op[c].text]
    BY <1>2, <1>5 DEF update_document
  <2>3. row'[d].st = st /\ row'[d].id = row[d].id
    BY <1>1, <2>2 DEF Shape
  <2>4. TracelessAfter(c)
    BY <1>1, <1>2, <1>5, <2>3 DEF TracelessAfter
  <2>5. Sound(d)'
    <3> SUFFICES ASSUME d \in clean' PROVE Whole(d)' /\ Same(d, row[d].id)'
      BY DEF Sound
    <3>1. op[c].pc = "complete"
      BY <1>1, <1>5
    <3>2. Rows(d)' = {k \in mem[d] : k.doc = op[c].id}
      BY <1>2, <2>3 DEF Rows, Current
    <3>3. Rows(d)' = {Mine(c)} /\ Mine(c) \in vec[d]
      BY <1>1, <1>2, <3>1, <3>2 DEF OnTrack, Written, Vectored
    <3>4. Same(d, row[d].id)'
      BY <1>2, <2>3, <3>1 DEF Same, Current
    <3>5. CASE st = "completed"
      BY <1>2, <2>3, <3>1, <3>2, <3>3, <3>4, <3>5 DEF Whole, Same
    <3>6. QED
      BY <1>1, <1>5, <3>4, <3>5
  <2>6. QED
    BY <1>1, <2>1, <2>4, <2>5, Undisturbed
<1>6. ASSUME op' = [op EXCEPT ![c] = Idle], UNCHANGED leaky, op[c].pc = "delrow",
             row' = IF Current(c) THEN [row EXCEPT ![op[c].doc].st = "none",
                                                   ![op[c].doc].text = None] ELSE row
      PROVE  DocInv(d)'
  <2>1. op'[c] = Idle
    BY <1>6 DEF Shape
  <2>2. row'[d].st = "none" /\ row'[d].id = row[d].id
    BY <1>1, <1>2, <1>6 DEF Shape
  <2>3. \A k \in mem[d] \cup disk[d] : k.doc # row[d].id
    BY <1>1, <1>2, <1>6 DEF OnTrack, Emptied, Current, Same
  <2>4. TracelessAfter(c)
    BY <1>1, <1>2, <1>6, <2>2, <2>3 DEF TracelessAfter
  <2>5. Sound(d)'
    BY <1>2, <2>2, <2>3 DEF Sound, Whole, Rows, Same
  <2>6. QED
    BY <2>1, <2>4, <2>5, Undisturbed
<1>7. QED
  <2>1. CASE Complete(c)
    BY <1>3, <1>5, <2>1 DEF Complete, Return, At
  <2>2. CASE MarkFailed(c)
    BY <1>4, <1>5, <2>2 DEF MarkFailed
  <2>3. CASE delete_document(c)
    BY <1>3, <1>6, <2>3 DEF delete_document, Return, At
  <2>4. QED
    BY <2>1, <2>2, <2>3

-------------------------------------------------------------------------------
\* A step of a call keeps every document's invariant.
LEMMA StepDocInv ==
  ASSUME StoreInv, NEW c \in Callers, Step(c), NEW d \in Docs
  PROVE  DocInv(d)'
<1>1. Shape /\ Tables /\ Kinds /\ Fresh /\ DocInv(d)
  BY DEF StoreInv, IInv
<1>2. Active(c)
  BY DEF Step, Insert, Wipe, Commit, DeleteVectors, InsertRows, AddVectors,
       OldDelete, OldInsert, OldVectors, Complete, MarkFailed, delete_document, At
<1>3. Frame(c)
  BY <1>1, StepFrame
<1>4. CASE d # op[c].doc
  BY <1>1, <1>2, <1>3, <1>4, Elsewhere
<1>5. CASE d = op[c].doc /\ ~op[c].calm
  BY <1>1, <1>2, <1>3, <1>5, Disturbed
<1>6. CASE d = op[c].doc /\ op[c].calm
  BY <1>1, <1>2, <1>3, <1>6, InsertAtItsDoc, WipeAtItsDoc, CommitAtItsDoc,
     DeleteVectorsAtItsDoc, RowsAtItsDoc, AddVectorsAtItsDoc, OldAtItsDoc, EndAtItsDoc DEF Step
<1>7. QED
  BY <1>4, <1>5, <1>6

\* The sidecar dies: what was committed is left, and a document that was being
\* wiped is leaky.
LEMMA CrashDocInv ==
  ASSUME StoreInv, Crash, NEW d \in Docs
  PROVE  DocInv(d)'
<1>1. Shape /\ DocInv(d)
  BY DEF StoreInv, IInv
<1>2. UNCHANGED <<row, disk, vec, clean>> /\ mem' = disk /\ leaky' = leaky \cup HalfWiped(Callers)
  BY DEF Crash
<1>3. \A x \in Callers : ~Active(x)'
  BY DEF Crash, Active, Idle, Steps, Commits
<1>4. CallsAt(d)' = {}
  BY <1>3 DEF CallsAt
<1>5. d \notin leaky' => \A c \in CallsAt(d) : ~Wiping(c)
  BY <1>2 DEF HalfWiped, CallsAt, Wiping
<1>6. Traceless(d)'
  BY <1>1, <1>2, <1>5 DEF DocInv, Traceless
<1>7. Sound(d)'
  <2> SUFFICES ASSUME d \in clean PROVE Whole(d)' /\ Same(d, row[d].id)'
    BY <1>2 DEF Sound
  <2>1. Whole(d) /\ Same(d, row[d].id)
    BY <1>1 DEF DocInv, Sound
  <2>2. QED
    BY <1>2, <2>1 DEF Whole, Rows, Same
<1>8. QED
  BY <1>2, <1>4, <1>6, <1>7 DEF DocInv, Alone

-------------------------------------------------------------------------------
\* What the beginning of a call does to the calls.
LEMMA BeginCalls ==
  ASSUME Shape, NEW c \in Callers, NEW d \in Docs, NEW t \in Texts \cup {None}, Begin(c, d, t)
  PROVE  /\ op'[c] \in Calls /\ KindOK(c)' /\ op'[c].doc = d /\ op'[c].id = row[d].id
         /\ op'[c].n = ops /\ ~op'[c].hit /\ op'[c].pc \in {"insert", "wipe"}
         /\ op'[c].pc = "insert" <=> row[d].st = "none"
         /\ op'[c].calm <=> CallsAt(d) = {}
         /\ ~Active(c) /\ c \notin CallsAt(d)
         /\ \A x \in Callers \ {c} :
              \/ x \notin CallsAt(d) /\ op'[x] = op[x]
              \/ x \in CallsAt(d) /\ op[x] \in Calls /\ op'[x] = [op[x] EXCEPT !.calm = FALSE]
         /\ d \notin leaky' => CallsAt(d) = {}
<1> DEFINE same == {x \in Callers \ {c} : Active(x) /\ op[x].doc = d}
           kind == IF t = None THEN "forget"
                   ELSE IF row[d].st = "none" THEN "create" ELSE "replace"
           me == [pc |-> IF kind = "create" THEN "insert" ELSE "wipe",
                  kind |-> kind, doc |-> d, id |-> row[d].id, text |-> t, n |-> ops,
                  hit |-> FALSE, calm |-> same = {}]
<1>1. /\ op[c] = Idle /\ (kind = "forget" => row[d].st # "none")
      /\ op' = [x \in Callers |-> IF x = c THEN me
                                  ELSE IF x \in same THEN [op[x] EXCEPT !.calm = FALSE]
                                  ELSE op[x]]
      /\ leaky' = IF same = {} THEN leaky ELSE leaky \cup {d}
  BY DEF Begin
<1>2. ~Active(c) /\ same = CallsAt(d)
  BY <1>1 DEF Active, CallsAt, Idle, Steps, Commits
<1>3. \A x \in same : op[x] \in Calls
  BY ActiveIsCall
<1>4. /\ me \in Calls /\ me.doc = d /\ me.id = row[d].id /\ me.n = ops /\ me.kind = kind
      /\ me.text = t /\ me.pc = IF kind = "create" THEN "insert" ELSE "wipe"
  BY DEF Shape, Calls, Steps, Commits
<1>5. me.hit = FALSE /\ me.calm = (same = {})
  BY Zenon
<1>6. (kind = "create" <=> row[d].st = "none") /\ (kind = "forget" <=> t = None)
  BY <1>1
<1>7. op'[c] = me
  BY <1>1
<1> HIDE DEF me, kind, same
<1>8. KindOK(c)'
  BY <1>4, <1>6, <1>7 DEF KindOK, ForgetSteps
<1>9. /\ op'[c] \in Calls /\ op'[c].doc = d /\ op'[c].id = row[d].id
      /\ op'[c].n = ops /\ op'[c].pc \in {"insert", "wipe"}
      /\ op'[c].pc = "insert" <=> row[d].st = "none"
  BY <1>4, <1>6, <1>7
<1>10. ~op'[c].hit /\ (op'[c].calm <=> CallsAt(d) = {})
  BY <1>2, <1>5, <1>7
<1>11. \A x \in Callers \ {c} :
         \/ x \notin CallsAt(d) /\ op'[x] = op[x]
         \/ x \in CallsAt(d) /\ op[x] \in Calls /\ op'[x] = [op[x] EXCEPT !.calm = FALSE]
  BY <1>1, <1>2, <1>3
<1>12. d \notin leaky' => CallsAt(d) = {}
  BY <1>1, <1>2
<1>13. QED
  BY <1>2, <1>8, <1>9, <1>10, <1>11, <1>12 DEF CallsAt

\* The other calls keep everything but their calm.
LEMMA BeginOthers ==
  ASSUME Shape, NEW c \in Callers, NEW d \in Docs, NEW t \in Texts \cup {None}, Begin(c, d, t),
         NEW x \in Callers \ {c}
  PROVE  /\ Active(x)' <=> Active(x)
         /\ op'[x].pc = op[x].pc /\ op'[x].doc = op[x].doc /\ op'[x].id = op[x].id
         /\ op'[x].n = op[x].n /\ op'[x].hit = op[x].hit /\ op'[x].kind = op[x].kind
         /\ op'[x].text = op[x].text
<1>1. \/ op'[x] = op[x]
      \/ op[x] \in Calls /\ op'[x] = [op[x] EXCEPT !.calm = FALSE]
  BY BeginCalls
<1>2. QED
  BY <1>1 DEF Active, Calls

\* A call begins: it is alone at its document, or everyone there is disturbed.
LEMMA BeginStoreInv ==
  ASSUME StoreInv, NEW c \in Callers, NEW d \in Docs, NEW t \in Texts \cup {None}, Begin(c, d, t)
  PROVE  StoreInv'
<1>1. Shape /\ Tables /\ Kinds /\ Fresh /\ \A e \in Docs : DocInv(e)
  BY DEF StoreInv, IInv
<1>2. /\ op'[c] \in Calls /\ KindOK(c)' /\ op'[c].doc = d /\ op'[c].id = row[d].id
      /\ op'[c].n = ops /\ ~op'[c].hit /\ op'[c].pc \in {"insert", "wipe"}
      /\ op'[c].pc = "insert" <=> row[d].st = "none"
      /\ op'[c].calm <=> CallsAt(d) = {}
      /\ ~Active(c) /\ c \notin CallsAt(d)
      /\ \A x \in Callers \ {c} :
           \/ x \notin CallsAt(d) /\ op'[x] = op[x]
           \/ x \in CallsAt(d) /\ op[x] \in Calls /\ op'[x] = [op[x] EXCEPT !.calm = FALSE]
      /\ d \notin leaky' => CallsAt(d) = {}
  BY <1>1, BeginCalls
<1>3. \A x \in Callers \ {c} :
         /\ Active(x)' <=> Active(x)
         /\ op'[x].pc = op[x].pc /\ op'[x].doc = op[x].doc /\ op'[x].id = op[x].id
         /\ op'[x].n = op[x].n /\ op'[x].hit = op[x].hit /\ op'[x].kind = op[x].kind
         /\ op'[x].text = op[x].text
  BY <1>1, BeginOthers
<1>4. /\ UNCHANGED <<row, mem, disk, vec>> /\ ops > 0 /\ ops' = ops - 1 /\ ops \in Nat
      /\ clean' = clean \ {d} /\ leaky \subseteq leaky' /\ leaky' \subseteq leaky \cup {d}
  BY <1>1 DEF Begin, Shape
<1>5. Active(c)'
  BY <1>2 DEF Active, Calls
<1>6. IInv' /\ Tables'
  BY <1>1, <1>4, BeginIInv DEF StoreInv, Tables
<1>7. Kinds'
  BY <1>1, <1>2, <1>3 DEF Kinds, KindOK
<1>8. Fresh'
  <2>1. \A i \in Nat : Taken(i)' => Taken(i)
    BY <1>2, <1>3, <1>4 DEF Taken
  <2>2. \A i \in Nat : Taken(i)' => i = 0 \/ i > ops'
    BY <1>1, <1>4, <2>1 DEF Fresh
  <2>3. ~Taken(ops)
    BY <1>1, <1>4 DEF Fresh
  <2>4. ASSUME NEW x \in Callers, Active(x)'
        PROVE  /\ op'[x].n > ops' /\ (op'[x].pc = "insert" => (~Taken(op[x].n))')
               /\ \A y \in Callers \ {x} : Active(y)' => op'[y].n # op'[x].n
    <3>1. \A y \in Callers \ {c} : Active(y)' => op'[y].n = op[y].n /\ op[y].n > ops /\ op[y].n \in Nat
      BY <1>1, <1>3, ActiveIsCall DEF Fresh, Calls
    <3>2. op'[x].n > ops' /\ op'[x].n \in Nat
      BY <1>2, <1>4, <2>4, <3>1
    <3>3. op'[x].pc = "insert" => (~Taken(op[x].n))'
      <4>1. op'[x].pc = "insert" => \A i \in Nat : i = op'[x].n => ~Taken(i)
        BY <1>1, <1>2, <1>3, <2>3, <2>4, <3>1 DEF Fresh
      <4>2. op'[x].pc = "insert" => \A i \in Nat : i = op'[x].n => ~Taken(i)'
        BY <2>1, <4>1
      <4>3. QED
        BY <3>2, <4>2 DEF Taken
    <3>4. ASSUME NEW y \in Callers \ {x}, Active(y)' PROVE op'[y].n # op'[x].n
      <4>1. CASE x = c \/ y = c
        BY <1>2, <1>4, <2>4, <3>1, <3>4, <4>1
      <4>2. CASE x # c /\ y # c
        BY <1>1, <1>3, <2>4, <3>1, <3>4, <4>2 DEF Fresh
      <4>3. QED
        BY <4>1, <4>2
    <3>5. QED
      BY <3>2, <3>3, <3>4
  <2>5. QED
    BY <2>2, <2>4 DEF Fresh
<1>9. ASSUME NEW e \in Docs, e # d PROVE DocInv(e)'
  <2>0. \A x \in Callers : Active(x)' /\ op'[x].doc = e <=> Active(x) /\ op[x].doc = e
    <3>1. \A x \in Callers \ {c} : Active(x)' /\ op'[x].doc = e <=> Active(x) /\ op[x].doc = e
      BY <1>3
    <3>2. op'[c].doc # e /\ ~Active(c)
      BY <1>2, <1>9
    <3>3. QED
      BY <3>1, <3>2
  <2>1. CallsAt(e)' = CallsAt(e) /\ \A x \in CallsAt(e) : op'[x] = op[x]
    <3>1. CallsAt(e)' = CallsAt(e)
      BY <2>0 DEF CallsAt
    <3>2. \A x \in CallsAt(e) : x \in Callers \ {c} /\ x \notin CallsAt(d)
      BY <1>2, <1>9 DEF CallsAt
    <3>3. QED
      BY <1>2, <3>1, <3>2
  <2>2. (e \in clean' <=> e \in clean) /\ (e \in leaky' <=> e \in leaky)
    BY <1>4, <1>9
  <2>3. DocInv(e)
    BY <1>1
  <2>4. \A x \in CallsAt(e) : OnTrack(x)'
    <3> SUFFICES ASSUME NEW x \in CallsAt(e) PROVE OnTrack(x)'
      OBVIOUS
    <3>1. OnTrack(x) /\ op'[x] = op[x]
      BY <2>1, <2>3 DEF DocInv
    <3>2. QED
      BY <1>4, <3>1 DEF OnTrack, Current, Mine, Same, Emptied, Written, Vectored, Committed
  <2>5. Alone(e)' /\ Sound(e)'
    BY <1>4, <2>1, <2>2, <2>3 DEF DocInv, Alone, Sound, Whole, Rows, Same
  <2>6. Traceless(e)'
    <3>1. (\A x \in CallsAt(e) : ~Wiping(x))' => \A x \in CallsAt(e) : ~Wiping(x)
      BY <2>1 DEF Wiping
    <3>2. QED
      BY <1>4, <2>2, <2>3, <3>1 DEF DocInv, Traceless
  <2>7. QED
    BY <2>1, <2>4, <2>5, <2>6 DEF DocInv
<1>10. DocInv(d)'
  <2>1. CallsAt(d)' = CallsAt(d) \cup {c}
    BY <1>2, <1>3, <1>5 DEF CallsAt
  <2>2. DocInv(d) /\ d \notin clean'
    BY <1>1, <1>4
  <2>3. ASSUME NEW x \in CallsAt(d) PROVE ~op'[x].calm
    <3>1. op[x] \in Calls /\ op'[x] = [op[x] EXCEPT !.calm = FALSE]
      BY <1>2, <2>3 DEF CallsAt
    <3>2. QED
      BY <3>1 DEF Calls
  <2>4. Alone(d)'
    <3> SUFFICES ASSUME NEW x \in CallsAt(d) \cup {c}
                 PROVE  /\ op'[x].calm => CallsAt(d) \cup {c} = {x}
                        /\ d \notin leaky' => op'[x].calm
      BY <2>1, <2>2 DEF Alone
    <3>1. CASE x = c
      BY <1>2, <3>1
    <3>2. CASE x \in CallsAt(d)
      BY <1>2, <2>3, <3>2
    <3>3. QED
      BY <3>1, <3>2
  <2>5. Traceless(d)'
    <3> SUFFICES ASSUME d \notin leaky' PROVE Traceless(d)'
      BY DEF Traceless
    <3>1. CallsAt(d) = {} /\ d \notin leaky
      BY <1>2, <1>4
    <3>2. QED
      BY <1>4, <2>2, <3>1 DEF DocInv, Traceless
  <2>6. OnTrack(c)'
    BY <1>2, <1>4 DEF OnTrack, Current, Emptied, Written, Vectored, Committed
  <2>7. \A x \in CallsAt(d) : OnTrack(x)'
    BY <2>3 DEF OnTrack
  <2>8. QED
    BY <2>1, <2>2, <2>4, <2>5, <2>6, <2>7 DEF DocInv, Sound
<1>11. QED
  BY <1>6, <1>7, <1>8, <1>9, <1>10 DEF StoreInv

-------------------------------------------------------------------------------
\* The invariant of the documents.
LEMMA StoreInvHolds == Spec => []StoreInv
<1>1. Init => StoreInv
  <2> SUFFICES ASSUME Init PROVE StoreInv
    OBVIOUS
  <2>1. IInv
    BY InitIInv
  <2>2. \A c \in Callers : ~Active(c)
    BY DEF Init, Active, Idle, Absentee, Steps, Commits
  <2>3. Tables /\ Kinds
    BY <2>2 DEF Init, Tables, Kinds
  <2>4. Fresh
    BY <2>2 DEF Init, Fresh, Taken
  <2>5. \A d \in Docs : DocInv(d)
    BY <2>2 DEF Init, DocInv, Alone, Traceless, Sound, Whole, Rows, Same, CallsAt
  <2>6. QED
    BY <2>1, <2>3, <2>4, <2>5 DEF StoreInv
<1>2. StoreInv /\ [Next]_vars => StoreInv'
  <2> SUFFICES ASSUME StoreInv, [Next]_vars PROVE StoreInv'
    OBVIOUS
  <2>1. IInv' /\ Shape /\ Tables /\ Kinds /\ Fresh
    BY IInvStep DEF StoreInv, IInv
  <2>2. ASSUME NEW c \in Callers, NEW d \in Docs, NEW t \in Texts \cup {None}, Begin(c, d, t)
        PROVE  StoreInv'
    BY <2>2, BeginStoreInv
  <2>3. ASSUME NEW c \in Callers, Step(c) PROVE StoreInv'
    <3>1. Frame(c) /\ Active(c)
      BY <2>1, <2>3, StepFrame DEF Step, Insert, Wipe, Commit, DeleteVectors, InsertRows,
           AddVectors, OldDelete, OldInsert, OldVectors, Complete, MarkFailed, delete_document, At
    <3>2. Tables' /\ Kinds' /\ Fresh'
      BY <2>1, <2>3, <3>1, TablesStep, KindsStep, FreshStep
    <3>3. \A d \in Docs : DocInv(d)'
      BY <2>3, StepDocInv
    <3>4. QED
      BY <2>1, <3>2, <3>3 DEF StoreInv
  <2>4. CASE Crash
    <3>1. \A x \in Callers : ~Active(x)'
      BY <2>4 DEF Crash, Active, Idle, Steps, Commits
    <3>2. Tables' /\ Kinds'
      BY <2>1, <2>4, <3>1 DEF Crash, Tables, Kinds
    <3>3. Fresh'
      BY <2>1, <2>4, <3>1 DEF Crash, Fresh, Taken
    <3>4. \A d \in Docs : DocInv(d)'
      BY <2>4, CrashDocInv
    <3>5. QED
      BY <2>1, <3>2, <3>3, <3>4 DEF StoreInv
  <2>5. CASE UNCHANGED vars
    <3>1. Tables' /\ Kinds' /\ Fresh'
      BY <2>1, <2>5 DEF vars, Tables, Kinds, KindOK, Fresh, Taken, Active
    <3>2. \A d \in Docs : DocInv(d)'
      BY <2>5 DEF vars, StoreInv, DocInv, Alone, Traceless, Sound, Whole, Rows, Same, CallsAt,
           Active, Wiping, OnTrack, Current, Mine, Emptied, Written, Vectored, Committed
    <3>3. QED
      BY <2>1, <3>1, <3>2 DEF StoreInv
  <2>6. QED
    BY <2>2, <2>3, <2>4, <2>5 DEF Next
<1>3. QED
  BY <1>1, <1>2, PTL DEF Spec

\* A document that settled leaves no chunk of another text, of an earlier id or
\* without a document, and no vector without its chunk - unless two calls were
\* at it, or a call was cut between SQLite and LanceDB.
THEOREM NothingStaysBehind == Spec => []NothingIsLeftBehind
<1>1. StoreInv => NothingIsLeftBehind
  <2> SUFFICES ASSUME StoreInv, NEW d \in clean \ leaky, d \in Docs
               PROVE  mem[d] = Rows(d) /\ vec[d] = Rows(d)
    BY DEF NothingIsLeftBehind, StoreInv, Tables
  <2>1. DocInv(d)
    BY DEF StoreInv
  <2>2. CallsAt(d) = {} /\ Whole(d) /\ mem[d] = Rows(d)
    BY <2>1 DEF DocInv, Alone, Sound, Traceless, Rows
  <2>3. vec[d] \subseteq mem[d]
    BY <2>1, <2>2 DEF DocInv, Traceless
  <2>4. QED
    BY <2>2, <2>3 DEF Whole
<1>2. QED
  BY <1>1, StoreInvHolds, PTL

-------------------------------------------------------------------------------
\* The store that callers count on

\* A document whose last call succeeded stays what it is under the steps of
\* calls at other documents.
LEMMA CleanStays ==
  ASSUME StoreInv, NEW c \in Callers, Step(c), NEW e \in Docs, e \in clean
  PROVE  /\ e \in clean' /\ e # op[c].doc
         /\ row'[e] = row[e] /\ Rows(e)' = Rows(e) /\ Whole(e) /\ Whole(e)'
<1>1. Shape /\ Tables /\ Kinds /\ DocInv(e) /\ CallsAt(e) = {} /\ Whole(e)
  BY DEF StoreInv, IInv, DocInv, Alone, Sound
<1>2. Active(c)
  BY DEF Step, Insert, Wipe, Commit, DeleteVectors, InsertRows, AddVectors,
       OldDelete, OldInsert, OldVectors, Complete, MarkFailed, delete_document, At
<1>3. op[c].doc \in Docs /\ e # op[c].doc
  BY <1>1, <1>2, ActiveIsCall DEF CallsAt, Calls
<1>4. Frame(c)
  BY <1>1, StepFrame
<1>5. \/ mem'[e] = mem[e] /\ disk'[e] = disk[e]
      \/ mem'[e] = mem[e] /\ disk'[e] = mem[e]
      \/ mem'[e] = disk[e] /\ disk'[e] = disk[e]
  BY <1>1, <1>3, <1>4 DEF Frame, RolledBack, Tables, Without, With, Plus
<1>6. e \in clean' /\ row'[e] = row[e]
  BY <1>3, <1>4 DEF Frame
<1>7. Rows(e)' = Rows(e)
  BY <1>1, <1>5, <1>6 DEF DocInv, Sound, Same, Rows
<1>8. QED
  BY <1>1, <1>3, <1>6, <1>7, StepDocInv DEF DocInv, Sound

\* A call that settles its document leaves its text there, or nothing.
LEMMA Settles ==
  ASSUME StoreInv, NEW c \in Callers, Step(c), NEW d, d = op[c].doc, d \in clean'
  PROVE  /\ d \in Docs /\ d \notin clean /\ op[c].text \in Texts \cup {None}
         /\ Whole(d)' /\ row'[d].text = op[c].text
         /\ {k.text : k \in Rows(d)'} = IF op[c].text = None THEN {} ELSE {op[c].text}
<1>1. Shape /\ Tables /\ Kinds /\ Fresh
  BY DEF StoreInv, IInv
<1>2. Active(c) /\ Frame(c)
  BY <1>1, StepFrame DEF Step, Insert, Wipe, Commit, DeleteVectors, InsertRows, AddVectors,
       OldDelete, OldInsert, OldVectors, Complete, MarkFailed, delete_document, At
<1>3. op[c] \in Calls /\ d \in Docs /\ op[c].text \in Texts \cup {None} /\ KindOK(c)
  BY <1>1, <1>2, ActiveIsCall DEF Calls, Kinds
<1>4. DocInv(d) /\ d \notin clean
  BY <1>2, <1>3 DEF StoreInv, DocInv, Alone, CallsAt
<1>5. op[c].calm
  BY <1>2, <1>4 DEF Frame
<1>6. OnTrack(c)
  BY <1>2, <1>3, <1>4 DEF DocInv, CallsAt
<1>7. Whole(d)'
  BY <1>3, StepDocInv DEF DocInv, Sound
<1>8. \/ /\ op[c].pc = "complete" /\ update_document(c, "completed")
         /\ UNCHANGED mem
      \/ /\ op[c].pc = "delrow" /\ UNCHANGED mem
         /\ row' = IF Current(c) THEN [row EXCEPT ![op[c].doc].st = "none",
                                                  ![op[c].doc].text = None] ELSE row
  BY <1>4, <1>5, <1>6 DEF Step, Insert, Wipe, Commit, DeleteVectors, InsertRows, AddVectors, At,
       OldDelete, OldInsert, OldVectors, Complete, MarkFailed, delete_document, OnTrack
<1>9. CASE op[c].pc = "complete" /\ update_document(c, "completed") /\ UNCHANGED mem
  <2>1. Current(c) /\ {k \in mem[d] : k.doc = op[c].id} = {Mine(c)} /\ op[c].text # None
    BY <1>3, <1>5, <1>6, <1>9 DEF OnTrack, Written, Vectored, KindOK, ForgetSteps
  <2>2. row'[d].text = op[c].text /\ row'[d].id = op[c].id
    BY <1>1, <1>3, <1>9, <2>1 DEF update_document, Current, Shape
  <2>3. Rows(d)' = {Mine(c)} /\ Mine(c).text = op[c].text
    BY <1>9, <2>1, <2>2 DEF Rows, Mine
  <2>4. QED
    BY <1>3, <1>4, <1>7, <2>1, <2>2, <2>3
<1>10. CASE /\ op[c].pc = "delrow" /\ UNCHANGED mem
            /\ row' = IF Current(c) THEN [row EXCEPT ![op[c].doc].st = "none",
                                                     ![op[c].doc].text = None] ELSE row
  <2>1. Current(c) /\ (\A k \in mem[d] : k.doc # op[c].id) /\ op[c].text = None
    BY <1>3, <1>5, <1>6, <1>10 DEF OnTrack, Emptied, KindOK
  <2>2. row'[d].text = None /\ row'[d].id = op[c].id
    BY <1>1, <1>3, <1>10, <2>1 DEF Current, Shape
  <2>3. Rows(d)' = {}
    BY <1>10, <2>1, <2>2 DEF Rows
  <2>4. QED
    BY <1>3, <1>4, <1>7, <2>1, <2>2, <2>3
<1>11. QED
  BY <1>8, <1>9, <1>10

\* What callers see of a document.
Held(d) == IF d \notin clean THEN "torn" ELSE IF Whole(d) THEN row[d].text ELSE "broken"
Found(d) == IF d \in clean THEN {k.text : k \in Rows(d)} ELSE {}

\* A step of a call settles its document or is none to callers.
LEMMA StepRefines ==
  ASSUME StoreInv, NEW c \in Callers, Step(c)
  PROVE  Store!Next \/ UNCHANGED Store!vars
<1> SUFFICES ASSUME NEW d, d = op[c].doc, NEW t, t = op[c].text
             PROVE  Store!Next \/ UNCHANGED Store!vars
  OBVIOUS
<1>1. \A e \in Docs \ {d} : Held(e)' = Held(e) /\ Found(e)' = Found(e)
  <2> SUFFICES ASSUME NEW e \in Docs \ {d} PROVE Held(e)' = Held(e) /\ Found(e)' = Found(e)
    OBVIOUS
  <2>1. CASE e \in clean
    <3>1. /\ e \in clean' /\ row'[e] = row[e] /\ Rows(e)' = Rows(e)
          /\ Whole(e) /\ Whole(e)'
      BY <2>1, CleanStays
    <3>2. QED
      BY <2>1, <3>1 DEF Held, Found
  <2>2. CASE e \notin clean
    <3>1. e \notin clean'
      BY <2>2, StepFrame DEF StoreInv, IInv, Frame
    <3>2. QED
      BY <2>2, <3>1 DEF Held, Found
  <2>3. QED
    BY <2>1, <2>2
<1>2. d \in Docs /\ d \notin clean
  <2>1. Active(c)
    BY DEF Step, Insert, Wipe, Commit, DeleteVectors, InsertRows, AddVectors,
         OldDelete, OldInsert, OldVectors, Complete, MarkFailed, delete_document, At
  <2>2. QED
    BY <2>1, ActiveIsCall DEF StoreInv, IInv, Calls, DocInv, Alone, CallsAt
<1>3. Held(d) = "torn" /\ Found(d) = {}
  BY <1>2 DEF Held, Found
<1>4. ASSUME d \in clean'
      PROVE  /\ t \in Texts \cup {None}
             /\ Held(d)' = t /\ Found(d)' = IF t = None THEN {} ELSE {t}
  <2>1. /\ Whole(d)' /\ row'[d].text = t /\ t \in Texts \cup {None}
        /\ {k.text : k \in Rows(d)'} = IF t = None THEN {} ELSE {t}
    BY <1>4, Settles
  <2>2. QED
    BY <1>4, <2>1 DEF Held, Found
<1>5. d \notin clean' => Held(d)' = "torn" /\ Found(d)' = {}
  BY DEF Held, Found
<1>6. CASE d \in clean'
  <2>1. Store!Settle(d, t)
    BY <1>1, <1>2, <1>3, <1>4, <1>6 DEF Store!Settle, Held, Found
  <2>2. QED
    BY <1>2, <1>4, <1>6, <2>1 DEF Store!Next
<1>7. CASE d \notin clean'
  BY <1>1, <1>2, <1>3, <1>5, <1>7 DEF Store!vars, Held, Found
<1>8. QED
  BY <1>6, <1>7

\* The beginning of a call tears its document.
LEMMA BeginRefines ==
  ASSUME NEW c \in Callers, NEW d \in Docs, NEW t \in Texts \cup {None}, Begin(c, d, t)
  PROVE  Store!Next
<1>1. clean' = clean \ {d} /\ UNCHANGED <<row, mem, disk, vec>>
  BY DEF Begin
<1>2. \A e \in Docs \ {d} : Held(e)' = Held(e) /\ Found(e)' = Found(e)
  BY <1>1 DEF Held, Found, Whole, Rows
<1>3. Held(d)' = "torn" /\ Found(d)' = {}
  BY <1>1 DEF Held, Found
<1>4. Store!Touch(d)
  <2>1. [e \in Docs |-> Held(e)]' = [[e \in Docs |-> Held(e)] EXCEPT ![d] = "torn"]
    BY <1>2, <1>3
  <2>2. [e \in Docs |-> Found(e)]' = [[e \in Docs |-> Found(e)] EXCEPT ![d] = {}]
    BY <1>2, <1>3
  <2>3. QED
    BY <2>1, <2>2, Zenon DEF Store!Touch, Held, Found
<1>5. QED
  BY <1>4 DEF Store!Next

\* Callers see nothing of a crash but that their calls never returned.
LEMMA CrashRefines ==
  ASSUME StoreInv, Crash
  PROVE  UNCHANGED Store!vars
<1>1. \A d \in Docs : Held(d)' = Held(d) /\ Found(d)' = Found(d)
  <2> SUFFICES ASSUME NEW d \in Docs PROVE Held(d)' = Held(d) /\ Found(d)' = Found(d)
    OBVIOUS
  <2>1. UNCHANGED <<row, disk, vec, clean>> /\ mem' = disk
    BY DEF Crash
  <2>2. d \in clean => Same(d, row[d].id)
    BY DEF StoreInv, DocInv, Sound
  <2>3. d \in clean => Rows(d)' = Rows(d) /\ (Whole(d)' <=> Whole(d))
    BY <2>1, <2>2 DEF Rows, Whole, Same
  <2>4. QED
    BY <2>1, <2>3 DEF Held, Found
<1>2. QED
  BY <1>1 DEF Store!vars, Held, Found

\* remember and forget on the embedded stack implement the abstract store,
\* whatever the interleaving of calls, the failing statements and the crashes:
\* a document settles, whole, when a call that nothing disturbed returns, and
\* nothing else ever changes it.
THEOREM StoreRefines == Spec => ImplementsMemory
<1>1. Init => Store!Init
  <2> SUFFICES ASSUME Init PROVE Store!Init
    OBVIOUS
  <2>1. \A d \in Docs : Held(d) = None /\ Found(d) = {}
    BY DEF Init, Held, Found, Whole, Rows
  <2>2. QED
    BY <2>1 DEF Store!Init, Held, Found
<1>2. StoreInv /\ [Next]_vars => [Store!Next]_(Store!vars)
  <2> SUFFICES ASSUME StoreInv, [Next]_vars PROVE Store!Next \/ UNCHANGED Store!vars
    OBVIOUS
  <2>1. ASSUME NEW c \in Callers, NEW d \in Docs, NEW t \in Texts \cup {None}, Begin(c, d, t)
        PROVE  Store!Next
    BY <2>1, BeginRefines
  <2>2. ASSUME NEW c \in Callers, Step(c) PROVE Store!Next \/ UNCHANGED Store!vars
    BY <2>2, StepRefines
  <2>3. CASE Crash
    BY <2>3, CrashRefines
  <2>4. CASE UNCHANGED vars
    BY <2>4 DEF vars, Store!vars, Whole, Rows
  <2>5. QED
    BY <2>1, <2>2, <2>3, <2>4 DEF Next
<1>3. QED
  BY <1>1, <1>2, StoreInvHolds, PTL DEF Spec, ImplementsMemory, Store!Spec

-------------------------------------------------------------------------------
(* The types, with their bounds *)

\* A set of numbers that is not empty has a smallest one.
LEMMA Smallest ==
  ASSUME NEW T \in SUBSET Nat, T # {}
  PROVE  \E x \in T : \A y \in T : ~(y < x)
<1> DEFINE R == OpToRel(<, Nat)
<1>1. IsWellFoundedOn(R, Nat) BY NatLessThanWellFounded
<1>2. \A x, y \in Nat : y < x => <<y, x>> \in R BY DEF OpToRel
<1> HIDE DEF R
<1>3. PICK x \in T : \A y \in T : ~(<<y, x>> \in R) BY <1>1, WFMin
<1> QED BY <1>2, <1>3

\* A finite one has a largest: the smallest one without would have a smaller.
LEMMA Largest ==
  ASSUME NEW S \in SUBSET Nat, IsFiniteSet(S), S # {}
  PROVE  Max(S) \in S /\ \A y \in S : Max(S) >= y
<1> DEFINE Bad(U) == IsFiniteSet(U) /\ U # {} /\ \A x \in U : \E y \in U : ~(x >= y)
           T == {k \in Nat : \E U \in SUBSET Nat : Bad(U) /\ Cardinality(U) = k}
<1>1. T = {}
  <2> SUFFICES ASSUME T # {} PROVE FALSE OBVIOUS
  <2>1. PICK k \in T : \A j \in T : ~(j < k) BY Smallest
  <2>2. PICK U \in SUBSET Nat : Bad(U) /\ Cardinality(U) = k OBVIOUS
  <2>3. PICK u : u \in U BY <2>2
  <2>4. /\ IsFiniteSet(U \ {u}) /\ Cardinality(U \ {u}) = k - 1
    BY <2>2, <2>3, FS_RemoveElement
  <2>5. Cardinality(U \ {u}) \in Nat BY <2>4, FS_CardinalityType
  <2>6. ~Bad(U \ {u})
    <3> SUFFICES ASSUME Bad(U \ {u}) PROVE FALSE OBVIOUS
    <3>1. k - 1 \in T BY <2>4, <2>5
    <3> HIDE DEF T
    <3>2. k \in Nat /\ k - 1 < k BY DEF T
    <3> QED BY <2>1, <3>1, <3>2
  <2>7. CASE U \ {u} = {} BY <2>2, <2>3, <2>7
  <2>8. CASE U \ {u} # {}
    <3>1. PICK m \in U \ {u} : \A y \in U \ {u} : m >= y BY <2>4, <2>6, <2>8
    <3>2. m \in Nat /\ u \in Nat /\ \A y \in U : y \in Nat BY <2>3
    <3>3. CASE m >= u BY <2>2, <3>1, <3>3
    <3>4. CASE ~(m >= u)
      <4>1. \A y \in U : u >= y BY <3>1, <3>2, <3>4
      <4> QED BY <2>2, <2>3, <4>1
    <3> QED BY <3>3, <3>4
  <2> QED BY <2>7, <2>8
<1>2. Cardinality(S) \in Nat BY FS_CardinalityType
<1>3. ~Bad(S) BY <1>1, <1>2
<1>4. \E x \in S : \A y \in S : x >= y BY <1>3
<1> QED BY <1>4 DEF Max

\* No session begins more calls than MaxOps.
LEMMA CallsFit == \A s \in Sessions : MaxOps \in Nat /\ s.calls \in 0 .. MaxOps
<1> SUFFICES ASSUME NEW s \in Sessions PROVE MaxOps \in Nat /\ s.calls \in 0 .. MaxOps OBVIOUS
<1> DEFINE calls == {r.calls : r \in Sessions}
<1>1. calls \in SUBSET Nat /\ s.calls \in calls BY EmbeddedAssumption
<1>2. IsFiniteSet(calls)
  <2> DEFINE f == [r \in Sessions |-> r.calls]
  <2>1. f \in Surjection(Sessions, calls) BY DEF Surjection
  <2> QED BY <2>1, EmbeddedAssumption, FS_Surjection DEF ExistsSurjection
<1> HIDE DEF calls
<1>3. Max(calls) \in calls /\ \A y \in calls : Max(calls) >= y BY <1>1, <1>2, Largest
<1> QED BY <1>1, <1>3 DEF MaxOps, calls
\* The types with their bounds.  A row that is there, and a call that has found
\* or inserted one, has an id; a call without a text is a forget, and a forget
\* inserts nothing.
RowType == [st : {"none", "pending", "completed", "failed"},
            text : Texts \cup {None}, id : 0 .. MaxOps]
CallType == [pc : Steps, kind : {"create", "replace", "forget"}, doc : Docs,
             id : 0 .. MaxOps, text : Texts \cup {None}, n : 1 .. MaxOps,
             hit : BOOLEAN, calm : BOOLEAN]
Has(r) == r.st # "none" => r.id # 0
Knows(r) == /\ r.pc # "insert" => r.id # 0
            /\ r.text = None <=> r.kind = "forget"
            /\ r.kind = "forget" => r.pc \in ForgetSteps
KnownRow == {r \in RowType : Has(r)}
KnownCall == {r \in CallType : Knows(r)}
Frames == {Idle, Absentee} \cup KnownCall
Table == [Docs -> SUBSET Chunk]

Bounded == /\ MaxOps \in Nat /\ ops \in 0 .. MaxOps /\ left \in Nat
           /\ row \in [Docs -> KnownRow] /\ op \in [Callers -> Frames]
           /\ mem \in Table /\ disk \in Table /\ vec \in Table
           /\ clean \subseteq Docs /\ leaky \subseteq Docs

\* A call under way is a call with its bounds.
LEMMA FrameOf ==
  ASSUME Bounded, NEW c \in Callers, Active(c) PROVE op[c] \in KnownCall
BY DEF Bounded, Frames, Active, Idle, Absentee, Steps, Commits

\* One caller's call may be replaced by another that has them.
LEMMA FramePut ==
  ASSUME Bounded, NEW c \in Callers, NEW r \in Frames
  PROVE  [op EXCEPT ![c] = r] \in [Callers -> Frames]
BY DEF Bounded

\* A call that goes on keeps them; a forget inserts nothing.
LEMMA GoBounded ==
  ASSUME Bounded, NEW c \in Callers, Active(c), NEW pc \in Steps \ {"insert"}, Go(c, pc),
         op[c].id # 0,
         op[c].kind = "forget" => pc \in ForgetSteps
  PROVE  op' \in [Callers -> Frames]
<1>1. [op[c] EXCEPT !.pc = pc] \in KnownCall BY FrameOf DEF KnownCall, CallType, Knows, ForgetSteps
<1>2. op' = [op EXCEPT ![c] = [op[c] EXCEPT !.pc = pc]] BY DEF Go
<1> QED BY <1>1, <1>2, FramePut DEF Frames

\* So does one that loses its calm,
LEMMA CalmBounded ==
  ASSUME Bounded, NEW c \in Callers, op[c] \in KnownCall
  PROVE  [op[c] EXCEPT !.calm = FALSE] \in KnownCall
BY DEF KnownCall, CallType, Knows

\* and one whose step raised.
LEMMA FailedBounded ==
  ASSUME Bounded, NEW c \in Callers, Active(c)
  PROVE  Failed(c) \in Frames
BY FrameOf DEF Failed, Frames, KnownCall, CallType, Knows, Steps, ForgetSteps

\* What a failure leaves,
LEMMA FailBounded ==
  ASSUME Bounded, NEW c \in Callers, Active(c), Fail(c)
  PROVE  op' \in [Callers -> Frames] /\ leaky' \subseteq Docs
<1>1. op' \in [Callers -> Frames] BY FailedBounded, FramePut DEF Fail
<1>2. op[c].doc \in Docs BY FrameOf DEF KnownCall, CallType
<1> QED BY <1>1, <1>2 DEF Fail, HalfWiped, Bounded

\* and a failing statement, of its own call or of everybody's.
LEMMA SqlBounded ==
  ASSUME Bounded, NEW c \in Callers, Active(c), SqlFails(c)
  PROVE  /\ op' \in [Callers -> Frames] /\ leaky' \subseteq Docs
         /\ mem' \in Table /\ left' \in Nat
<1>0. left \in Nat /\ mem \in Table /\ disk \in Table /\ leaky \subseteq Docs BY DEF Bounded
<1>1. CASE Undone(c) BY <1>0, <1>1, FailBounded DEF Undone, Trouble
<1>2. CASE RolledBack(c)
  <2>1. \A x \in Callers : op[x].pc \in Commits =>
          op[x] \in KnownCall /\ op[x].doc \in Docs /\ [op[x] EXCEPT !.calm = FALSE] \in KnownCall
    <3> TAKE x \in Callers
    <3>1. HAVE op[x].pc \in Commits
    <3>2. Active(x) BY <3>1 DEF Active, Steps
    <3> QED BY <3>2, FrameOf, CalmBounded DEF KnownCall, CallType
  <2>2. op' \in [Callers -> Frames]
    BY <1>2, <2>1, FailedBounded DEF RolledBack, Bounded, Frames
  <2>3. leaky' \subseteq Docs BY <1>0, <1>2, <2>1 DEF RolledBack
  <2>4. mem' \in Table /\ left' \in Nat BY <1>0, <1>2 DEF RolledBack, Trouble
  <2> QED BY <2>2, <2>3, <2>4
<1> QED BY <1>1, <1>2 DEF SqlFails

\* What a return leaves.
LEMMA ReturnBounded ==
  ASSUME Bounded, NEW c \in Callers, Active(c), Return(c)
  PROVE  op' \in [Callers -> Frames] /\ clean' \subseteq Docs
<1>1. op' \in [Callers -> Frames] BY FramePut DEF Return, Frames
<1>2. op[c].doc \in Docs BY FrameOf DEF KnownCall, CallType
<1> QED BY <1>1, <1>2 DEF Return, Bounded

\* A wipe keeps the chunks of a table; what is inserted is a chunk.
LEMMA TablesBounded ==
  ASSUME Bounded, NEW c \in Callers, Active(c), NEW t \in Table
  PROVE  /\ Without(t, c) \in Table
         /\ op[c].id # 0 /\ op[c].kind # "forget" =>
              With(t, c) \in Table /\ Plus(t, c, Half(c)) \in Table
<1>0. op[c] \in KnownCall BY FrameOf
<1>1. Without(t, c) \in Table BY <1>0 DEF Without, Table, KnownCall, CallType
<1>2. ASSUME op[c].id # 0, op[c].kind # "forget"
      PROVE  With(t, c) \in Table /\ Plus(t, c, Half(c)) \in Table
  <2>1. op[c].id \in 1 .. MaxOps /\ op[c].n \in 1 .. MaxOps /\ op[c].text \in Texts
    BY <1>0, <1>2 DEF KnownCall, CallType, Knows, Bounded
  <2>2. Mine(c) \in Chunk /\ Half(c) \in Chunk BY <2>1 DEF Mine, Half, Chunk
  <2> QED BY <1>0, <2>2 DEF With, Plus, Table, KnownCall, CallType
<1> QED BY <1>1, <1>2

\* Before the first call.
LEMMA InitBounded == ASSUME Init PROVE Bounded
<1>1. PICK s \in Sessions :
        /\ op = [c \in Callers |-> IF c \in s.callers THEN Idle ELSE Absentee]
        /\ ops = s.calls /\ left = s.trouble
  BY DEF Init
<1>2. MaxOps \in Nat /\ ops \in 0 .. MaxOps /\ left \in Nat BY <1>1, CallsFit, EmbeddedAssumption
<1>3. op \in [Callers -> Frames] BY <1>1 DEF Frames
<1>4. row \in [Docs -> KnownRow] BY <1>2 DEF Init, KnownRow, RowType, Has
<1>5. mem \in Table /\ disk \in Table /\ vec \in Table BY DEF Init, Table
<1> QED BY <1>2, <1>3, <1>4, <1>5 DEF Init, Bounded

\* A call begins under its number, on the row it finds.
LEMMA BeginBounded ==
  ASSUME Bounded, NEW c \in Callers, NEW d \in Docs, NEW t \in Texts \cup {None}, Begin(c, d, t)
  PROVE  Bounded'
<1> DEFINE same == {x \in Callers \ {c} : Active(x) /\ op[x].doc = d}
           kind == IF t = None THEN "forget"
                   ELSE IF row[d].st = "none" THEN "create" ELSE "replace"
           me == [pc |-> IF kind = "create" THEN "insert" ELSE "wipe",
                  kind |-> kind, doc |-> d, id |-> row[d].id, text |-> t, n |-> ops,
                  hit |-> FALSE, calm |-> same = {}]
<1>1. row[d] \in RowType /\ Has(row[d]) BY DEF Bounded, KnownRow
<1>2. ops \in 1 .. MaxOps /\ ops' \in 0 .. MaxOps BY DEF Begin, Bounded
<1>3. me \in CallType BY <1>1, <1>2 DEF CallType, RowType, Steps, Commits
<1>4. Knows(me)
  <2>1. kind = "forget" => row[d].st # "none" BY DEF Begin
  <2>2. kind # "create" => row[d].id # 0 BY <1>1, <2>1 DEF Has
  <2> QED BY <2>2, EmbeddedAssumption DEF Knows, ForgetSteps
<1>5. \A x \in same : [op[x] EXCEPT !.calm = FALSE] \in KnownCall BY FrameOf, CalmBounded
<1>6. op' = [x \in Callers |-> IF x = c THEN me
                               ELSE IF x \in same THEN [op[x] EXCEPT !.calm = FALSE]
                               ELSE op[x]]
  BY DEF Begin
<1>7. leaky' \subseteq Docs /\ clean' \subseteq Docs BY DEF Begin, Bounded
<1>8. UNCHANGED <<row, mem, disk, vec, left>> BY DEF Begin
<1> HIDE DEF me, same, kind
<1>9. op' \in [Callers -> Frames] BY <1>3, <1>4, <1>5, <1>6 DEF Bounded, Frames, KnownCall
<1> QED BY <1>2, <1>7, <1>8, <1>9 DEF Bounded

\* A crash leaves no call.
LEMMA CrashBounded == ASSUME Bounded, Crash PROVE Bounded'
<1>1. \A c \in Callers : Active(c) => op[c].doc \in Docs BY FrameOf DEF KnownCall, CallType
<1>2. op' \in [Callers -> Frames] BY DEF Crash, Bounded, Frames
<1>3. leaky' \subseteq Docs BY <1>1 DEF Crash, HalfWiped, Bounded
<1>4. left' \in Nat BY DEF Crash, Trouble, Bounded
<1>5. mem' = disk /\ UNCHANGED <<row, disk, vec, ops, clean>> BY DEF Crash
<1> QED BY <1>2, <1>3, <1>4, <1>5 DEF Bounded

\* The insert gives the row the number of its call for an id.
LEMMA InsertBounded ==
  ASSUME Bounded, NEW c \in Callers, Insert(c) PROVE Bounded'
<1> DEFINE d == op[c].doc
<1>1. Active(c) /\ op[c].pc = "insert" BY DEF Insert, At
<1>2. op[c] \in CallType /\ Knows(op[c]) BY <1>1, FrameOf DEF KnownCall
<1>3. d \in Docs /\ row[d] \in RowType /\ Has(row[d]) BY <1>2 DEF Bounded, KnownRow, CallType
<1>4. UNCHANGED <<mem, disk, vec, ops>> BY DEF Insert
<1>5. row' \in [Docs -> KnownRow] /\ op' \in [Callers -> Frames]
      /\ clean' \subseteq Docs /\ leaky' \subseteq Docs /\ left' \in Nat
  <2>1. CASE /\ row[d].st = "none"
             /\ row' = [row EXCEPT ![d] = [st |-> "pending", text |-> op[c].text, id |-> op[c].n]]
             /\ op' = [op EXCEPT ![c].pc = "rows", ![c].id = op[c].n]
             /\ UNCHANGED <<clean, leaky, left>>
    <3>1. [st |-> "pending", text |-> op[c].text, id |-> op[c].n] \in KnownRow
      BY <1>2 DEF KnownRow, RowType, Has, CallType, Bounded
    <3>2. [op[c] EXCEPT !.pc = "rows", !.id = op[c].n] \in KnownCall
      <4>1. "rows" \in Steps /\ op[c].n \in 0 .. MaxOps /\ op[c].n # 0
        BY <1>2 DEF CallType, Steps, Bounded
      <4>2. op[c].kind # "forget" BY <1>1, <1>2 DEF Knows, ForgetSteps
      <4> QED BY <1>2, <4>1, <4>2 DEF KnownCall, CallType, Knows
    <3>3. op' = [op EXCEPT ![c] = [op[c] EXCEPT !.pc = "rows", !.id = op[c].n]] BY <2>1
    <3>4. op' \in [Callers -> Frames] BY <3>2, <3>3, FramePut DEF Frames
    <3>5. row' \in [Docs -> KnownRow] BY <1>3, <2>1, <3>1 DEF Bounded
    <3> QED BY <2>1, <3>4, <3>5 DEF Bounded
  <2>2. CASE /\ row[d].st # "none"
             /\ op' = [op EXCEPT ![c].pc = "wipe", ![c].id = row[d].id, ![c].kind = "replace"]
             /\ UNCHANGED <<row, clean, leaky, left>>
    <3>1. [op[c] EXCEPT !.pc = "wipe", !.id = row[d].id, !.kind = "replace"] \in KnownCall
      BY <1>1, <1>2, <1>3, <2>2 DEF KnownCall, CallType, RowType, Has, Knows, Steps, ForgetSteps
    <3>2. op' = [op EXCEPT ![c] = [op[c] EXCEPT !.pc = "wipe", !.id = row[d].id, !.kind = "replace"]]
      BY <2>2
    <3>3. op' \in [Callers -> Frames] BY <3>1, <3>2, FramePut DEF Frames
    <3> QED BY <2>2, <3>3 DEF Bounded
  <2>3. CASE Return(c) /\ UNCHANGED <<row, leaky, left>>
    BY <1>1, <2>3, ReturnBounded DEF Bounded
  <2>4. CASE RowFails /\ Fail(c) /\ UNCHANGED <<row, clean>>
    BY <1>1, <2>4, FailBounded DEF Bounded, RowFails, Trouble
  <2> QED BY <2>1, <2>2, <2>3, <2>4 DEF Insert
<1> QED BY <1>4, <1>5 DEF Bounded

\* The wipe,
LEMMA WipeBounded ==
  ASSUME Bounded, NEW c \in Callers, Wipe(c) PROVE Bounded'
<1>1. Active(c) /\ op[c].pc = "wipe" BY DEF Wipe, At
<1>2. op[c] \in CallType /\ Knows(op[c]) BY <1>1, FrameOf DEF KnownCall
<1>3. UNCHANGED <<row, disk, vec, ops, clean>> BY DEF Wipe
<1>4. op' \in [Callers -> Frames] /\ leaky' \subseteq Docs /\ mem' \in Table /\ left' \in Nat
  <2>1. CASE /\ mem' = Without(mem, c)
             /\ op' = [op EXCEPT ![c].pc = "wipecommit", ![c].hit = mem # mem']
             /\ UNCHANGED <<leaky, left>>
    <3>1. mem' \in Table BY <1>1, <2>1, TablesBounded DEF Bounded
    <3>2. [op[c] EXCEPT !.pc = "wipecommit", !.hit = mem # mem'] \in KnownCall
      BY <1>1, <1>2 DEF KnownCall, CallType, Knows, Steps, Commits, ForgetSteps
    <3>3. op' = [op EXCEPT ![c] = [op[c] EXCEPT !.pc = "wipecommit", !.hit = mem # mem']] BY <2>1
    <3>4. op' \in [Callers -> Frames] BY <3>2, <3>3, FramePut DEF Frames
    <3> QED BY <2>1, <3>1, <3>4 DEF Bounded
  <2>2. CASE SqlFails(c) BY <1>1, <2>2, SqlBounded
  <2>3. CASE Trouble /\ op' = [op EXCEPT ![c] = Idle] /\ UNCHANGED <<mem, leaky>>
    <3>1. op' \in [Callers -> Frames] BY <2>3, FramePut DEF Frames
    <3> QED BY <2>3, <3>1 DEF Bounded, Trouble
  <2> QED BY <2>1, <2>2, <2>3 DEF Wipe
<1> QED BY <1>3, <1>4 DEF Bounded

\* the commits,
LEMMA CommitBounded ==
  ASSUME Bounded, NEW c \in Callers, Commit(c) PROVE Bounded'
<1>1. Active(c) /\ op[c].pc \in Commits BY DEF Commit
<1>2. op[c] \in CallType /\ Knows(op[c]) BY <1>1, FrameOf DEF KnownCall
<1>3. UNCHANGED <<row, vec, ops, clean>> BY DEF Commit
<1>4. CASE disk' = mem /\ Go(c, Then(c)) /\ UNCHANGED <<mem, leaky, left>>
  <2>1. /\ Then(c) \in Steps \ {"insert"} /\ op[c].id # 0
        /\ op[c].kind = "forget" => Then(c) \in ForgetSteps
    BY <1>1, <1>2 DEF Then, Wiped, Steps, Commits, Knows, ForgetSteps
  <2>2. op' \in [Callers -> Frames] BY <1>1, <1>4, <2>1, GoBounded
  <2> QED BY <1>3, <1>4, <2>2 DEF Bounded
<1>5. CASE RolledBack(c) /\ UNCHANGED disk
  BY <1>1, <1>3, <1>5, SqlBounded DEF SqlFails, Bounded
<1> QED BY <1>4, <1>5 DEF Commit

\* and the steps on the vectors and the tables.
LEMMA StoresBounded ==
  ASSUME Bounded, NEW c \in Callers,
         \/ DeleteVectors(c) \/ InsertRows(c) \/ AddVectors(c)
         \/ OldDelete(c) \/ OldInsert(c) \/ OldVectors(c)
  PROVE  Bounded'
<1>1. Active(c) /\ op[c].pc \in {"unvec", "rows", "addvec", "olddel", "oldins", "oldvec"}
  BY DEF DeleteVectors, InsertRows, AddVectors, OldDelete, OldInsert, OldVectors, At
<1>2. op[c] \in CallType /\ Knows(op[c]) BY <1>1, FrameOf DEF KnownCall
<1>3. op[c].id # 0 /\ op[c].doc \in Docs BY <1>1, <1>2 DEF Knows, CallType
<1>4. op[c].pc \notin {"unvec", "olddel"} => op[c].kind # "forget"
  BY <1>1, <1>2 DEF Knows, ForgetSteps
<1>5. UNCHANGED <<row, disk, ops, clean>>
  BY DEF DeleteVectors, InsertRows, AddVectors, OldDelete, OldInsert, OldVectors
<1>6. ASSUME NEW pc \in {"rows", "rowscommit", "complete", "olddel", "olddelcommit",
                         "oldinscommit", "delrow"}, Go(c, pc),
             op[c].kind = "forget" => pc \in {"olddel", "olddelcommit"}
      PROVE  op' \in [Callers -> Frames]
  <2>1. pc \in Steps \ {"insert"} BY DEF Steps, Commits
  <2>2. op[c].kind = "forget" => pc \in ForgetSteps BY <1>6 DEF ForgetSteps
  <2> QED BY <1>1, <1>3, <1>6, <2>1, <2>2, GoBounded
<1>7. ASSUME SqlFails(c)
      PROVE  op' \in [Callers -> Frames] /\ leaky' \subseteq Docs /\ mem' \in Table /\ left' \in Nat
  BY <1>1, <1>7, SqlBounded
<1>8. ASSUME Fail(c) PROVE op' \in [Callers -> Frames] /\ leaky' \subseteq Docs
  BY <1>1, <1>8, FailBounded
<1>9. Trouble => left' \in Nat BY DEF Bounded, Trouble
<1>10. CASE DeleteVectors(c)
  <2>1. Go(c, Wiped(c)) => op' \in [Callers -> Frames] BY <1>6 DEF Wiped
  <2>2. vec' = Without(vec, c) => vec' \in Table BY <1>1, TablesBounded DEF Bounded
  <2> QED BY <1>3, <1>5, <1>8, <1>9, <1>10, <2>1, <2>2 DEF DeleteVectors, Bounded
<1>11. CASE InsertRows(c)
  <2>1. Go(c, "rowscommit") => op' \in [Callers -> Frames] BY <1>4, <1>6, <1>11 DEF InsertRows, At
  <2>2. mem' = With(mem, c) \/ mem' = Plus(mem, c, Half(c)) => mem' \in Table
    BY <1>1, <1>3, <1>4, <1>11, TablesBounded DEF Bounded, InsertRows, At
  <2> QED BY <1>5, <1>7, <1>8, <1>9, <1>11, <2>1, <2>2 DEF InsertRows, Bounded
<1>12. CASE AddVectors(c)
  <2>1. op[c].kind # "forget" BY <1>4, <1>12 DEF AddVectors, At
  <2>2. Go(c, IF op[c].kind = "create" THEN "complete" ELSE "olddel") => op' \in [Callers -> Frames]
    BY <1>6, <2>1
  <2>3. vec' = With(vec, c) => vec' \in Table BY <1>1, <1>3, <2>1, TablesBounded DEF Bounded
  <2> QED BY <1>5, <1>8, <1>9, <1>12, <2>2, <2>3 DEF AddVectors, Bounded
<1>13. CASE OldDelete(c)
  <2>1. Go(c, "olddelcommit") => op' \in [Callers -> Frames] BY <1>6
  <2> QED BY <1>5, <1>7, <1>13, <2>1 DEF OldDelete, Bounded
<1>14. CASE OldInsert(c)
  <2>1. Go(c, "oldinscommit") => op' \in [Callers -> Frames] BY <1>4, <1>6, <1>14 DEF OldInsert, At
  <2> QED BY <1>5, <1>7, <1>8, <1>14, <2>1 DEF OldInsert, Bounded
<1>15. CASE OldVectors(c)
  <2>1. Go(c, "complete") => op' \in [Callers -> Frames] BY <1>4, <1>6, <1>15 DEF OldVectors, At
  <2> QED BY <1>5, <1>8, <1>9, <1>15, <2>1 DEF OldVectors, Bounded
<1> QED BY <1>10, <1>11, <1>12, <1>13, <1>14, <1>15

\* And the last writes of the row.
LEMMA RowsBounded ==
  ASSUME Bounded, NEW c \in Callers, Complete(c) \/ MarkFailed(c) \/ delete_document(c)
  PROVE  Bounded'
<1>1. Active(c) BY DEF Complete, MarkFailed, delete_document, At
<1>2. op[c] \in CallType BY <1>1, FrameOf DEF KnownCall
<1>3. op[c].doc \in Docs /\ row[op[c].doc] \in RowType /\ op[c].text \in Texts \cup {None}
  BY <1>2 DEF CallType, Bounded, KnownRow
<1>4. Has(row[op[c].doc]) BY <1>3 DEF Bounded, KnownRow
<1>5. ASSUME NEW st \in {"completed", "failed"}, update_document(c, st)
      PROVE  row' \in [Docs -> KnownRow]
  <2>1. CASE Current(c)
    <3>1. [row[op[c].doc] EXCEPT !.st = st, !.text = op[c].text] \in KnownRow
      BY <1>3, <1>4, <2>1 DEF KnownRow, RowType, Has, Current
    <3>2. row' = [row EXCEPT ![op[c].doc] = [row[op[c].doc] EXCEPT !.st = st, !.text = op[c].text]]
      BY <1>5, <2>1 DEF update_document
    <3> QED BY <1>3, <3>1, <3>2 DEF Bounded
  <2> QED BY <1>5, <2>1 DEF update_document, Bounded
<1>6. ASSUME row' = [row EXCEPT ![op[c].doc].st = "none", ![op[c].doc].text = None]
      PROVE  row' \in [Docs -> KnownRow]
  <2>1. [row[op[c].doc] EXCEPT !.st = "none", !.text = None] \in KnownRow
    BY <1>3 DEF KnownRow, RowType, Has
  <2>2. row' = [row EXCEPT ![op[c].doc] = [row[op[c].doc] EXCEPT !.st = "none", !.text = None]]
    BY <1>6
  <2> QED BY <1>3, <2>1, <2>2 DEF Bounded
<1>7. ASSUME Return(c) PROVE op' \in [Callers -> Frames] /\ clean' \subseteq Docs
  BY <1>1, <1>7, ReturnBounded
<1>8. ASSUME Fail(c) PROVE op' \in [Callers -> Frames] /\ leaky' \subseteq Docs
  BY <1>1, <1>8, FailBounded
<1>9. RowFails => left' \in Nat BY DEF Bounded, RowFails, Trouble
<1>10. CASE Complete(c) BY <1>5, <1>7, <1>8, <1>9, <1>10 DEF Complete, Bounded
<1>11. CASE MarkFailed(c)
  <2>1. op' \in [Callers -> Frames] BY <1>11, FramePut DEF MarkFailed, Frames
  <2> QED BY <1>5, <1>9, <1>11, <2>1 DEF MarkFailed, Bounded
<1>12. CASE delete_document(c) BY <1>6, <1>7, <1>8, <1>9, <1>12 DEF delete_document, Bounded
<1> QED BY <1>10, <1>11, <1>12

\* The lock is a Boolean: it is set, freed or left.
LEMMA LockStays == ASSUME lock \in BOOLEAN, [Next]_vars PROVE lock' \in BOOLEAN
<1>1. ASSUME NEW c \in Callers, Step(c) PROVE lock' \in {TRUE, FALSE, lock}
  BY <1>1, Zenon DEF Step, Insert, Wipe, Commit, DeleteVectors, InsertRows, AddVectors, OldDelete,
     OldInsert, OldVectors, Complete, MarkFailed, delete_document, SqlFails, Undone, RolledBack
<1>2. ASSUME NEW c \in Callers, NEW d \in Docs, NEW t \in Texts \cup {None}, Begin(c, d, t)
      PROVE  lock' = lock
  BY <1>2 DEF Begin
<1>3. Crash => lock' = FALSE BY DEF Crash
<1>4. UNCHANGED vars => lock' = lock BY DEF vars
<1> QED BY <1>1, <1>2, <1>3, <1>4, Zenon DEF Next

\* Every state of the embedded store is well typed, for any documents, texts,
\* callers and sessions: every id is the number of a call that began, every
\* chunk names a document that was inserted and a text, and no forget inserts.
THEOREM StoreTypes == Spec => []TypeOK
<1>1. Init => Bounded /\ lock \in BOOLEAN BY InitBounded DEF Init
<1>2. Bounded /\ lock \in BOOLEAN /\ [Next]_vars => Bounded' /\ (lock \in BOOLEAN)'
  <2> SUFFICES ASSUME Bounded, lock \in BOOLEAN, [Next]_vars PROVE Bounded' /\ lock' \in BOOLEAN
    OBVIOUS
  <2>1. ASSUME NEW c \in Callers, Step(c) PROVE Bounded'
    BY <2>1, InsertBounded, WipeBounded, CommitBounded, StoresBounded, RowsBounded DEF Step
  <2>2. CASE UNCHANGED vars BY <2>2 DEF vars, Bounded
  <2>3. Bounded' BY <2>1, <2>2, BeginBounded, CrashBounded DEF Next
  <2> QED BY <2>3, LockStays
<1>3. Bounded /\ lock \in BOOLEAN => TypeOK
  BY DEF Bounded, TypeOK, KnownRow, RowType, Frames, KnownCall, CallType, Table
<1> QED BY <1>1, <1>2, <1>3, PTL DEF Spec
===============================================================================
