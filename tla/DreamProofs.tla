---------------------------- MODULE DreamProofs ----------------------------
(***************************************************************************)
(* Proofs about dream runs for any items, plans, run ids and bounds: what  *)
(* the graph lags behind is queued, a run that reports nothing has         *)
(* converged, an undo converges, checkpoints never go back, and a plan is  *)
(* carried out.                                                            *)
(***************************************************************************)
EXTENDS Dream, TLAPS

\* The steps speak of the attempt's pc directly.
USE DEF At

\* An attempt that is not idle has all its fields.
LEMMA Running == ASSUME TypeOK, proc.pc # "idle" PROVE proc \in Attempts
  BY DEF TypeOK, Idle

\* A failing call leaves the bounds well typed.
LEMMA TroubleBounds == ASSUME TypeOK, Trouble PROVE left' \in Bounds
  BY DEF TypeOK, Trouble, Bounds

\* Entries and checkpoints are what they were.
SameQueues ==
  \A r \in Runs : runs'[r].pending = runs[r].pending /\ runs'[r].last = runs[r].last

\* Setting the state column leaves queues and checkpoints alone.
LEMMA SetState ==
  ASSUME TypeOK, NEW q \in Runs,
         NEW st \in {"none", "planning", "applying", "completed", "failed"},
         runs' = [runs EXCEPT ![q].state = st]
  PROVE  runs' \in RunTable /\ SameQueues
  BY DEF TypeOK, RunTable, SameQueues

\* With the stores, the undo and the queues unchanged, so are the facts
\* that relate them.
LEMMA StoresStay ==
  ASSUME IInv, UNCHANGED <<pg, graph, undoing, torn>>,
         \A r \in Runs : runs'[r].pending = runs[r].pending
  PROVE  LagIsQueued' /\ UndoConverges' /\ UndoIsAccounted'
<1>1. \A x : Queued(x) => Queued(x)'
  BY DEF Queued
<1> QED
  BY <1>1 DEF IInv, LagIsQueued, UndoConverges, UndoIsAccounted

\* With the queues unchanged, entries stay below their checkpoints and are
\* still known by their numbers.
LEMMA PendingStays ==
  ASSUME IInv, SameQueues
  PROVE  /\ \A r \in Runs : \A e \in runs'[r].pending : e[1] <= runs'[r].last
         /\ \A r \in Runs : \A e, f \in runs'[r].pending : e[1] = f[1] => e = f
  BY DEF IInv, TypeOK, PendingKeyed, SameQueues

\* An attempt that ends leaves nothing to its own variables.
LEMMA StopIInv ==
  ASSUME IInv, proc' = Idle, UNCHANGED <<pg, graph, file, undoing, due, torn>>,
         left' \in Bounds, runs' \in RunTable, SameQueues
  PROVE  IInv'
<1>1. TypeOK'
  BY PendingStays DEF IInv, TypeOK
<1>2. PendingKeyed' /\ ClearedIsMirrored' /\ QuietSoFar'
  BY PendingStays DEF PendingKeyed, ClearedIsMirrored, QuietSoFar, Idle, Draining
<1> QED BY <1>1, <1>2, StoresStay DEF IInv, SameQueues

\* run's exception handler (orchestrator.run) only ends the attempt.
LEMMA FailIInv ==
  ASSUME IInv, proc.pc # "idle", Fail, UNCHANGED <<pg, graph, file, undoing, due, torn>>
  PROVE  IInv'
<1>1. proc.run \in Runs
  BY Running DEF IInv, Attempts
<1>2. runs' \in RunTable /\ SameQueues
  BY <1>1, SetState DEF IInv, Fail
<1>3. left' \in Bounds
  BY TroubleBounds DEF IInv, Fail
<1> QED BY <1>2, <1>3, StopIInv DEF Fail

\* A crash only ends the attempt: nothing of the invariant is kept in memory.
LEMMA CrashIInv == ASSUME IInv, Crash PROVE IInv'
<1>1. left' \in Bounds
  BY TroubleBounds DEF IInv, Crash
<1>2. runs' \in RunTable /\ SameQueues
  BY DEF IInv, TypeOK, Crash, SameQueues
<1> QED BY <1>1, <1>2, StopIInv DEF Crash

\* finalize_run ends the attempt and records it.
LEMMA FinishIInv == ASSUME IInv, Finish PROVE IInv'
<1>1. CASE Fail
  BY <1>1, FailIInv DEF Finish
<1>2. CASE runs' = [runs EXCEPT ![proc.run].state = "completed"] /\ proc' = Idle /\ UNCHANGED left
  <2>1. proc.run \in Runs
    BY Running DEF IInv, Attempts, Finish
  <2>2. runs' \in RunTable /\ SameQueues
    BY <1>2, <2>1, SetState DEF IInv
  <2> QED BY <1>2, <2>2, StopIInv DEF IInv, TypeOK, Finish
<1> QED BY <1>1, <1>2 DEF Finish

-----------------------------------------------------------------------------
\* Steps that leave the stores and the queues alone

\* What such a step has to show about the attempt.
Cursor ==
  /\ proc.pc \in {"drain", "drainop", "drained"} => runs[proc.run].last <= proc.last
  /\ At("op") => runs[proc.run].last <= proc.last \/ runs[proc.run].last < proc.seq
  /\ proc.pc \in {"mirror", "clear", "write", "rewrite"} => runs[proc.run].last <= proc.seq

\* The invariant orders the checkpoint and the position in the plan.
LEMMA CursorOK == IInv => Cursor
  BY DEF IInv, PendingKeyed, Cursor, Draining

\* An attempt that moves on without touching stores or queues.
LEMMA MoveIInv ==
  ASSUME IInv, UNCHANGED <<pg, graph, undoing, torn>>, SameQueues, runs' \in RunTable,
         file' \in [Runs -> SUBSET Merges], due' \in [Runs -> SUBSET Items],
         left' \in Bounds, proc' \in Attempts,
         Cursor', ClearedIsMirrored', QuietSoFar'
  PROVE  IInv'
<1>1. TypeOK'
  BY PendingStays DEF IInv, TypeOK
<1>2. PendingKeyed'
  BY PendingStays DEF PendingKeyed, Cursor, Draining
<1> QED BY <1>1, <1>2, StoresStay DEF IInv, SameQueues

\* An untouched run table is well typed and has the same queues.
LEMMA SameRuns == ASSUME TypeOK, UNCHANGED runs PROVE runs' \in RunTable /\ SameQueues
  BY DEF TypeOK, SameQueues

\* Starting or resuming a run: the queues are kept, the attempt is fresh.
LEMMA StartIInv == ASSUME NEW r \in Runs, IInv, Start(r) \/ Resume(r) PROVE IInv'
<1>a. PICK b \in BOOLEAN : proc' = Attempt(r, b)
  BY DEF Start, Resume
<1>1. proc' \in Attempts /\ proc'.pc = "plan"
  <2>1. "plan" \in Steps
    BY DEF Steps
  <2> QED BY <1>a, <2>1 DEF Attempt, Attempts
<1>2. runs' \in RunTable /\ SameQueues
  BY SetState, SameRuns DEF IInv, Start, Resume
<1>3. left' \in Bounds
  <2>1. left' = [left EXCEPT !.attempts = @ - 1] /\ left.attempts > 0
    BY DEF Start, Resume
  <2> QED BY <2>1 DEF IInv, TypeOK, Bounds
<1>4. Cursor' /\ ClearedIsMirrored' /\ QuietSoFar'
  BY <1>1 DEF Cursor, ClearedIsMirrored, QuietSoFar, Draining, Applying
<1> QED BY <1>1, <1>2, <1>3, <1>4, MoveIInv DEF IInv, TypeOK, Start, Resume

\* _plan_phase: a new plan under the checkpoint as it stands.
LEMMA PlanIInv == ASSUME IInv, Plan PROVE IInv'
<1>1. CASE Fail /\ UNCHANGED <<plan, due>>
  BY <1>1, FailIInv DEF Plan
<1>2. CASE ~(Fail /\ UNCHANGED <<plan, due>>)
  <2>1. proc \in Attempts /\ proc.run \in Runs
    BY Running DEF IInv, Attempts, Plan
  <2>2. /\ proc' = [proc EXCEPT !.pc = "drain", !.last = runs[proc.run].last]
        /\ runs' = [runs EXCEPT ![proc.run].state = IF @ = "planning" THEN "applying" ELSE @]
        /\ UNCHANGED left
    BY <1>2 DEF Plan, Candidates
  <2>3. runs' \in RunTable /\ SameQueues
    BY <2>1, <2>2 DEF IInv, TypeOK, RunTable, SameQueues
  <2>4. proc' \in Attempts /\ proc'.pc = "drain" /\ proc'.run = proc.run
        /\ proc'.last = runs[proc.run].last
    BY <2>1, <2>2 DEF IInv, TypeOK, RunTable, Attempts, Steps
  <2>5. due' \in [Runs -> SUBSET Items]
    BY <1>2, <2>1 DEF Plan, Candidates, IInv, TypeOK
  <2>6. Cursor'
    BY <2>1, <2>3, <2>4 DEF Cursor, SameQueues, IInv, TypeOK, RunTable
  <2>7. ClearedIsMirrored' /\ QuietSoFar'
    BY <2>4 DEF ClearedIsMirrored, QuietSoFar, Draining, Applying
  <2> QED BY <2>2, <2>3, <2>4, <2>5, <2>6, <2>7, MoveIInv DEF Plan, Candidates, IInv, TypeOK
<1> QED BY <1>1, <1>2

\* _drain_graph_mirror_pending lists every entry of every run, so that all
\* the lag there is is on the list.
LEMMA ReadPendingIInv == ASSUME IInv, ReadPending PROVE IInv'
<1> DEFINE open == UNION {{<<r, e[1], e[2]>> : e \in runs[r].pending} : r \in Runs}
<1>1. proc \in Attempts /\ proc.pc = "drain"
  BY Running DEF IInv, ReadPending
<1>2. runs' \in RunTable /\ SameQueues
  BY SameRuns DEF IInv, ReadPending
<1>3. open \subseteq Entries
  BY DEF IInv, TypeOK, RunTable, Entries
<1>4. CASE proc' = [proc EXCEPT !.pc = "drainop", !.todo = open] /\ UNCHANGED left
  <2>1. proc' \in Attempts
    BY <1>1, <1>3, <1>4 DEF Attempts, Steps
  <2>2. proc'.pc = "drainop" /\ proc'.todo = open /\ proc'.run = proc.run /\ proc'.last = proc.last
    BY <1>1, <1>4 DEF Attempts
  <2>3. Cursor'
    BY <1>1, <2>2, CursorOK DEF Cursor, ReadPending
  <2>4. \A e \in open : Open(e)
    <3> SUFFICES ASSUME NEW e \in open PROVE Open(e)
      OBVIOUS
    <3>1. PICK r \in Runs : \E f \in runs[r].pending : e = <<r, f[1], f[2]>>
      OBVIOUS
    <3>2. PICK f \in runs[r].pending : e = <<r, f[1], f[2]>>
      BY <3>1
    <3>3. f = <<f[1], f[2]>>
      BY DEF IInv, TypeOK, RunTable
    <3> QED BY <3>2, <3>3 DEF Open
  <2>5. ClearedIsMirrored'
    BY <2>2, <2>4 DEF ClearedIsMirrored, Draining, Open, ReadPending
  <2>6. \A x \in pg \ graph : x \in torn \/ \E e \in open : e[3] = x
    <3> SUFFICES ASSUME NEW x \in pg \ graph, x \notin torn PROVE \E e \in open : e[3] = x
      OBVIOUS
    <3>1. PICK r \in Runs : \E e \in runs[r].pending : e[2] = x
      BY DEF IInv, LagIsQueued, Queued
    <3>2. PICK e \in runs[r].pending : e[2] = x
      BY <3>1
    <3>3. <<r, e[1], e[2]>> \in open
      OBVIOUS
    <3> QED BY <3>2, <3>3
  <2>7. QuietSoFar'
    BY <2>2, <2>6 DEF QuietSoFar, Applying, ReadPending
  <2> QED BY <1>2, <1>4, <2>1, <2>3, <2>5, <2>7, MoveIInv DEF ReadPending, IInv, TypeOK
<1>5. CASE Trouble /\ proc' = [proc EXCEPT !.pc = "op", !.degraded = TRUE]
  <2>1. /\ proc' \in Attempts /\ proc'.pc = "op" /\ proc'.degraded /\ proc'.run = proc.run
        /\ proc'.last = proc.last
    BY <1>1, <1>5 DEF Attempts, Steps
  <2>2. Cursor' /\ ClearedIsMirrored' /\ QuietSoFar'
    BY <1>1, <2>1, CursorOK DEF Cursor, ClearedIsMirrored, QuietSoFar, Draining, ReadPending
  <2>3. left' \in Bounds
    BY <1>5, TroubleBounds DEF IInv
  <2> QED BY <1>2, <2>1, <2>2, <2>3, MoveIInv DEF ReadPending, IInv, TypeOK
<1> QED BY <1>4, <1>5 DEF ReadPending

\* The drain is over: nothing is left on the list, so what was not reported
\* has converged.
LEMMA DrainEndsIInv == ASSUME IInv, DrainEnds PROVE IInv'
<1>1. proc \in Attempts /\ proc.pc = "drainop" /\ proc.todo = {}
  BY Running DEF IInv, DrainEnds
<1>2. /\ proc' \in Attempts /\ proc'.pc = "op" /\ proc'.run = proc.run
      /\ proc'.last = proc.last /\ proc'.degraded = proc.degraded
  BY <1>1 DEF DrainEnds, Go, Attempts, Steps
<1>3. Cursor' /\ ClearedIsMirrored'
  BY <1>1, <1>2, CursorOK DEF Cursor, ClearedIsMirrored, Draining, DrainEnds
<1>4. QuietSoFar'
  BY <1>1, <1>2 DEF IInv, QuietSoFar, Draining, DrainEnds, Idle
<1> QED BY <1>2, <1>3, <1>4, MoveIInv, SameRuns DEF DrainEnds, IInv, TypeOK

\* The loop goes on, or ends.
LEMMA LoopIInv == ASSUME IInv, Pass \/ OverBudget \/ LoopEnds PROVE IInv'
<1>1. proc \in Attempts /\ proc.pc = "op"
  BY Running DEF IInv, Pass, OverBudget, LoopEnds, More
<1>2. /\ proc' \in Attempts /\ proc'.run = proc.run /\ proc'.last = proc.last
      /\ proc'.degraded = proc.degraded
  <2>1. proc.seq + 1 \in Nat /\ "op" \in Steps /\ "finish" \in Steps
    BY <1>1 DEF Attempts, Steps
  <2>2. CASE Pass
    BY <1>1, <2>1, <2>2 DEF Pass, NextOp, Attempts
  <2>3. CASE OverBudget
    BY <1>1, <2>1, <2>3 DEF OverBudget, NextOp, Attempts
  <2>4. CASE LoopEnds
    <3>1. \/ proc' = [proc EXCEPT !.pc = "finish"]
          \/ proc' = [proc EXCEPT !.pc = "finish", !.cancelled = TRUE]
      BY <2>4 DEF LoopEnds, Go
    <3>2. CASE proc' = [proc EXCEPT !.pc = "finish"]
      BY <1>1, <2>1, <3>2 DEF Attempts
    <3>3. CASE proc' = [proc EXCEPT !.pc = "finish", !.cancelled = TRUE]
      BY <1>1, <2>1, <3>3 DEF Attempts
    <3> QED BY <3>1, <3>2, <3>3
  <2> QED BY <2>2, <2>3, <2>4
<1>3. proc'.pc = "finish" \/ (proc'.pc = "op" /\ proc'.seq = proc.seq + 1)
  BY <1>1 DEF Pass, OverBudget, LoopEnds, NextOp, Go, Attempts
<1>4. UNCHANGED <<pg, graph, plan, runs, file, undoing, due, torn, left>>
  BY DEF Pass, OverBudget, LoopEnds
<1>5. runs[proc.run].last \in Int /\ proc.seq \in Nat /\ proc.last \in Int
  BY <1>1 DEF IInv, TypeOK, RunTable, Attempts
<1>6. Cursor'
  BY <1>1, <1>2, <1>3, <1>4, <1>5, CursorOK DEF Cursor
<1>7. ClearedIsMirrored'
  BY <1>3 DEF ClearedIsMirrored, Draining
<1>8. QuietSoFar'
  BY <1>1, <1>2, <1>3, <1>4 DEF IInv, QuietSoFar, Draining, Applying, Idle
<1> QED BY <1>2, <1>4, <1>6, <1>7, <1>8, MoveIInv, SameRuns DEF IInv, TypeOK

\* write_undo_incremental touches neither the stores nor the queues.
LEMMA WriteUndoIInv == ASSUME IInv, WriteUndo PROVE IInv'
<1> DEFINE recs == IF At("write") THEN proc.recs \cup ({op} \cap Merges) ELSE proc.recs
<1>1. proc \in Attempts /\ proc.pc \in {"write", "rewrite"}
  BY Running DEF IInv, WriteUndo
<1>2. recs \in SUBSET Merges
  BY <1>1 DEF Attempts
<1>3. proc' = [[proc EXCEPT !.pc = "op", !.seq = @ + 1] EXCEPT !.recs = recs]
  BY DEF WriteUndo, NextOp
<1> HIDE DEF recs
<1>4. /\ proc' \in Attempts /\ proc'.run = proc.run /\ proc'.last = proc.last
      /\ proc'.degraded = proc.degraded /\ proc'.pc = "op" /\ proc'.seq = proc.seq + 1
  <2>1. proc.seq + 1 \in Nat /\ "op" \in Steps
    BY <1>1 DEF Attempts, Steps
  <2> QED BY <1>1, <1>2, <1>3, <2>1 DEF Attempts
<1>5. UNCHANGED <<pg, graph, plan, runs, undoing, due, torn>>
  BY DEF WriteUndo
<1>6. file' \in [Runs -> SUBSET Merges] /\ left' \in Bounds
  BY <1>2, TroubleBounds DEF WriteUndo, IInv, TypeOK, recs
<1>7. runs[proc.run].last \in Int /\ proc.seq \in Nat
  BY <1>1 DEF IInv, TypeOK, RunTable, Attempts
<1>8. Cursor'
  BY <1>1, <1>4, <1>5, <1>7, CursorOK DEF Cursor
<1>9. ClearedIsMirrored' /\ QuietSoFar'
  BY <1>1, <1>4, <1>5 DEF IInv, ClearedIsMirrored, QuietSoFar, Draining, Applying, Idle
<1> QED BY <1>4, <1>5, <1>6, <1>8, <1>9, MoveIInv, SameRuns DEF IInv, TypeOK

-----------------------------------------------------------------------------
\* Mirroring and clearing

\* Mirroring a queued item converges it, in whichever store it is shown.
LEMMA MirrorStores ==
  ASSUME IInv, NEW x \in Items, Mirror(x), Queued(x), UNCHANGED <<pg, undoing>>, SameQueues
  PROVE  /\ LagIsQueued' /\ UndoConverges' /\ UndoIsAccounted'
         /\ graph' \subseteq Items /\ torn' \subseteq Items
         /\ graph' = graph \cup {x} /\ torn \subseteq torn' \cup {x}
         /\ x \in pg => x \in graph'
<1>1. graph' = graph \cup {x} /\ torn' \subseteq torn /\ torn \subseteq torn' \cup {x}
  BY DEF Mirror
<1>2. x \notin pg \/ undoing = x => torn' = torn
  BY DEF Mirror
<1>3. x \notin pg => x \in torn
  BY DEF IInv, UndoIsAccounted, Queued
<1>4. \A y : Queued(y) => Queued(y)'
  BY DEF Queued, SameQueues
<1>5. LagIsQueued'
  BY <1>1, <1>4 DEF IInv, LagIsQueued
<1>6. UndoConverges'
  BY <1>1, <1>2, <1>3 DEF IInv, UndoConverges
<1>7. UndoIsAccounted'
  BY <1>1, <1>2 DEF IInv, UndoIsAccounted, SameQueues
<1> QED BY <1>1, <1>5, <1>6, <1>7 DEF IInv, TypeOK

\* Clearing an entry whose item has converged loses no other.
LEMMA ClearStores ==
  ASSUME IInv, NEW q \in Runs, NEW n \in Nat, NEW x \in Items,
         <<n, x>> \in runs[q].pending, Settled(x),
         runs' = clear_graph_mirror_pending(q, n), UNCHANGED <<pg, graph, undoing, torn>>
  PROVE  /\ runs' \in RunTable
         /\ LagIsQueued' /\ UndoConverges' /\ UndoIsAccounted'
         /\ \A r \in Runs : /\ runs'[r].last = runs[r].last
                            /\ runs'[r].pending \subseteq runs[r].pending
                            /\ \A f \in runs[r].pending :
                                 f \in runs'[r].pending \/ (r = q /\ f = <<n, x>>)
<1>0. runs \in RunTable
  BY DEF IInv, TypeOK
<1>1. runs' = [runs EXCEPT ![q].pending = {e \in runs[q].pending : e[1] # n}]
  BY DEF clear_graph_mirror_pending
<1>2. runs' \in RunTable
  BY <1>0, <1>1 DEF RunTable
<1>3. \A r \in Runs : /\ runs'[r].last = runs[r].last
                      /\ r # q => runs'[r].pending = runs[r].pending
  BY <1>0, <1>1 DEF RunTable
<1>4. runs'[q].pending = {e \in runs[q].pending : e[1] # n}
  BY <1>0, <1>1 DEF RunTable
<1>5. \A f \in runs[q].pending : f \in runs'[q].pending \/ f = <<n, x>>
  <2> SUFFICES ASSUME NEW f \in runs[q].pending, f[1] = n PROVE f = <<n, x>>
    BY <1>4
  <2>1. \A e, g \in runs[q].pending : e[1] = g[1] => e = g
    BY DEF IInv, PendingKeyed
  <2>2. <<n, x>>[1] = n
    OBVIOUS
  <2> QED BY <2>1, <2>2
<1>6. \A r \in Runs : runs'[r].pending \subseteq runs[r].pending
  BY <1>3, <1>4
<1>7. \A r \in Runs : \A f \in runs[r].pending : f \in runs'[r].pending \/ (r = q /\ f = <<n, x>>)
  BY <1>3, <1>5
<1>8. LagIsQueued'
  <2> SUFFICES ASSUME NEW y \in pg \ graph, y \notin torn PROVE Queued(y)'
    BY DEF LagIsQueued
  <2>1. y # x
    BY DEF Settled
  <2>2. PICK r \in Runs : \E f \in runs[r].pending : f[2] = y
    BY DEF IInv, LagIsQueued, Queued
  <2>3. PICK f \in runs[r].pending : f[2] = y
    BY <2>2
  <2>4. f \in runs'[r].pending
    BY <1>7, <2>1, <2>3
  <2> QED BY <2>3, <2>4 DEF Queued
<1>9. UndoConverges' /\ UndoIsAccounted'
  BY <1>6 DEF IInv, UndoConverges, UndoIsAccounted
<1> QED BY <1>2, <1>3, <1>6, <1>7, <1>8, <1>9

\* Mirroring one listed entry, or reporting that it failed.
LEMMA DrainOneIInv == ASSUME IInv, NEW e \in proc.todo, DrainOne(e) PROVE IInv'
<1>1. proc \in Attempts /\ proc.pc = "drainop" /\ e \in Entries /\ Open(e)
  BY Running DEF IInv, DrainOne, Attempts, ClearedIsMirrored, Draining
<1>2. e[1] \in Runs /\ e[2] \in Nat /\ e[3] \in Items
  BY <1>1 DEF Entries
<1>3. runs' \in RunTable /\ SameQueues
  BY SameRuns DEF IInv, DrainOne
<1>4. CASE Mirror(e[3]) /\ proc' = [proc EXCEPT !.pc = "drained", !.entry = e] /\ UNCHANGED left
  <2>1. Queued(e[3])
    BY <1>1, <1>2 DEF Open, Queued
  <2>2. /\ LagIsQueued' /\ UndoConverges' /\ UndoIsAccounted'
        /\ graph' \subseteq Items /\ torn' \subseteq Items
        /\ graph' = graph \cup {e[3]} /\ torn \subseteq torn' \cup {e[3]}
    BY <1>2, <1>3, <1>4, <2>1, MirrorStores DEF DrainOne
  <2>3. /\ proc' \in Attempts /\ proc'.pc = "drained" /\ proc'.entry = e /\ proc'.todo = proc.todo
        /\ proc'.run = proc.run /\ proc'.last = proc.last /\ proc'.degraded = proc.degraded
    BY <1>1, <1>4 DEF Attempts, Steps
  <2>4. TypeOK'
    BY <1>3, <1>4, <2>2, <2>3, PendingStays DEF IInv, TypeOK, DrainOne
  <2>5. PendingKeyed'
    BY <1>1, <1>3, <2>3, PendingStays, CursorOK DEF PendingKeyed, Cursor, Draining, DrainOne
  <2>6. ClearedIsMirrored'
    BY <1>1, <2>2, <2>3 DEF IInv, ClearedIsMirrored, Draining, Open, Settled, DrainOne
  <2>7. QuietSoFar'
    BY <1>1, <2>2, <2>3 DEF IInv, QuietSoFar, Draining, Applying, Idle, DrainOne
  <2> QED BY <2>2, <2>4, <2>5, <2>6, <2>7 DEF IInv
<1>5. CASE /\ Trouble /\ proc' = [proc EXCEPT !.todo = @ \ {e}, !.degraded = TRUE]
           /\ UNCHANGED <<graph, torn>>
  <2>1. /\ proc' \in Attempts /\ proc'.pc = "drainop" /\ proc'.todo \subseteq proc.todo
        /\ proc'.run = proc.run /\ proc'.last = proc.last /\ proc'.degraded
    BY <1>1, <1>5 DEF Attempts
  <2>2. Cursor' /\ ClearedIsMirrored' /\ QuietSoFar'
    BY <1>1, <2>1, CursorOK
    DEF IInv, Cursor, ClearedIsMirrored, QuietSoFar, Draining, Open, DrainOne
  <2>3. left' \in Bounds
    BY <1>5, TroubleBounds DEF IInv
  <2> QED BY <1>3, <1>5, <2>1, <2>2, <2>3, MoveIInv DEF IInv, TypeOK, DrainOne
<1> QED BY <1>4, <1>5 DEF DrainOne

\* Clearing the entry that was just mirrored; no other has its number.
LEMMA DrainClearIInv == ASSUME IInv, DrainClear PROVE IInv'
<1>1. CASE Fail
  BY <1>1, FailIInv DEF DrainClear
<1>2. CASE /\ runs' = clear_graph_mirror_pending(proc.entry[1], proc.entry[2])
           /\ proc' = [proc EXCEPT !.pc = "drainop", !.todo = @ \ {proc.entry}, !.entry = NoEntry]
           /\ UNCHANGED left
  <2> DEFINE e == proc.entry
  <2>1. /\ proc \in Attempts /\ proc.pc = "drained" /\ e \in proc.todo /\ Open(e)
        /\ Settled(e[3])
    BY Running DEF IInv, DrainClear, ClearedIsMirrored, Draining
  <2>2. e \in Entries /\ proc.todo \subseteq Entries
    BY <2>1 DEF Attempts
  <2>3. e[1] \in Runs /\ e[2] \in Nat /\ e[3] \in Items /\ e = <<e[1], e[2], e[3]>>
    BY <2>2 DEF Entries
  <2>4. <<e[2], e[3]>> \in runs[e[1]].pending
    BY <2>1 DEF Open
  <2>5. UNCHANGED <<pg, graph, undoing, torn>>
    BY DEF DrainClear
  <2>6. /\ runs' \in RunTable
        /\ LagIsQueued' /\ UndoConverges' /\ UndoIsAccounted'
        /\ \A r \in Runs : /\ runs'[r].last = runs[r].last
                           /\ runs'[r].pending \subseteq runs[r].pending
                           /\ \A f \in runs[r].pending :
                                f \in runs'[r].pending \/ (r = e[1] /\ f = <<e[2], e[3]>>)
    BY <1>2, <2>1, <2>3, <2>4, <2>5, ClearStores
  <2>7. /\ proc' \in Attempts /\ proc'.pc = "drainop" /\ proc'.todo = proc.todo \ {e}
        /\ proc'.run = proc.run /\ proc'.last = proc.last /\ proc'.degraded = proc.degraded
    BY <1>2, <2>1 DEF Attempts, Steps
  <2> HIDE DEF e
  <2>8. TypeOK'
    BY <1>2, <2>5, <2>6, <2>7 DEF IInv, TypeOK, DrainClear
  <2>9. PendingKeyed'
    <3>1. proc.run \in Runs
      BY <2>1 DEF Attempts
    <3> QED BY <2>1, <2>6, <2>7, <3>1 DEF IInv, PendingKeyed, Draining
  <2>10. ClearedIsMirrored'
    <3> SUFFICES ASSUME NEW d \in proc.todo, d # e PROVE Open(d)'
      BY <2>7 DEF ClearedIsMirrored, Draining
    <3>1. d = <<d[1], d[2], d[3]>> /\ d[1] \in Runs
      BY <2>2 DEF Entries
    <3>2. <<d[2], d[3]>> \in runs[d[1]].pending
      BY <2>1 DEF IInv, ClearedIsMirrored, Draining, Open
    <3>3. ~(d[1] = e[1] /\ <<d[2], d[3]>> = <<e[2], e[3]>>)
      BY <2>3, <3>1
    <3>4. <<d[2], d[3]>> \in runs'[d[1]].pending
      BY <2>6, <3>1, <3>2, <3>3
    <3> QED BY <3>4 DEF Open
  <2>11. QuietSoFar'
    BY <2>1, <2>5, <2>7 DEF IInv, QuietSoFar, Draining, Applying, Idle, Settled
  <2> QED BY <2>6, <2>8, <2>9, <2>10, <2>11 DEF IInv
<1> QED BY <1>1, <1>2 DEF DrainClear

-----------------------------------------------------------------------------
\* The operations

\* Above the checkpoint: the number was not used before.
LEMMA FreshNumber ==
  ASSUME IInv, More, Fresh
  PROVE  /\ proc \in Attempts /\ proc.pc = "op" /\ proc.run \in Runs /\ proc.seq \in Nat
         /\ runs[proc.run].last \in Int /\ runs[proc.run].last < proc.seq
<1>1. proc \in Attempts /\ proc.pc = "op"
  BY Running DEF IInv, More
<1>2. proc.run \in Runs /\ proc.seq \in Nat /\ proc.last \in Int /\ runs[proc.run].last \in Int
  BY <1>1 DEF IInv, TypeOK, RunTable, Attempts
<1> QED BY <1>1, <1>2, CursorOK DEF Cursor, Fresh

\* An audit only advances the checkpoint.
LEMMA PassAuditIInv == ASSUME IInv, PassAudit PROVE IInv'
<1>1. CASE Fail
  BY <1>1, FailIInv DEF PassAudit, More
<1>2. CASE /\ runs' = [runs EXCEPT ![proc.run].last = proc.seq]
           /\ proc' = NextOp /\ UNCHANGED left
  <2>1. /\ proc \in Attempts /\ proc.pc = "op" /\ proc.run \in Runs /\ proc.seq \in Nat
        /\ runs[proc.run].last \in Int /\ runs[proc.run].last < proc.seq
    BY FreshNumber DEF PassAudit
  <2>2. /\ runs' \in RunTable /\ runs'[proc.run].last = proc.seq
        /\ \A r \in Runs : /\ runs'[r].pending = runs[r].pending
                           /\ r # proc.run => runs'[r].last = runs[r].last
    BY <1>2, <2>1 DEF IInv, TypeOK, RunTable
  <2>3. /\ proc' \in Attempts /\ proc'.pc = "op" /\ proc'.seq = proc.seq + 1
        /\ proc'.run = proc.run /\ proc'.degraded = proc.degraded
    <3>1. proc.seq + 1 \in Nat /\ "op" \in Steps
      BY <2>1 DEF Steps
    <3> QED BY <1>2, <2>1, <3>1 DEF NextOp, Attempts
  <2>4. UNCHANGED <<pg, graph, file, undoing, due, torn>>
    BY DEF PassAudit
  <2>5. \A r \in Runs : \A e \in runs'[r].pending : e[1] <= runs'[r].last
    <3> SUFFICES ASSUME NEW r \in Runs, NEW e \in runs[r].pending PROVE e[1] <= runs'[r].last
      BY <2>2
    <3>1. e[1] <= runs[r].last /\ e[1] \in Nat
      BY DEF IInv, TypeOK, RunTable
    <3> QED BY <2>1, <2>2, <3>1
  <2>6. TypeOK'
    BY <1>2, <2>2, <2>3, <2>4, <2>5 DEF IInv, TypeOK
  <2>7. PendingKeyed'
    BY <2>1, <2>2, <2>3 DEF IInv, PendingKeyed, Draining
  <2>8. ClearedIsMirrored' /\ QuietSoFar'
    BY <2>1, <2>3, <2>4 DEF IInv, ClearedIsMirrored, QuietSoFar, Draining, Applying, Idle
  <2> QED BY <2>2, <2>4, <2>6, <2>7, <2>8, StoresStay DEF IInv
<1> QED BY <1>1, <1>2 DEF PassAudit

\* _apply_one_op: the entry is queued in the transaction that hides the
\* item, under a number no entry has.
LEMMA ApplyIInv == ASSUME IInv, Apply PROVE IInv'
<1>1. CASE Fail /\ UNCHANGED <<pg, torn, due>>
  BY <1>1, FailIInv DEF Apply, More
<1>0. /\ proc \in Attempts /\ proc.pc = "op" /\ proc.run \in Runs /\ proc.seq \in Nat
      /\ runs[proc.run].last \in Int /\ runs[proc.run].last < proc.seq
      /\ op \in Items
  BY FreshNumber DEF Apply
<1>a. UNCHANGED <<graph, plan, file, undoing>>
  BY DEF Apply
<1>b. Dealt => due' \in [Runs -> SUBSET Items]
  BY <1>0 DEF Dealt, IInv, TypeOK
<1>2. CASE /\ Hide(op)
           /\ runs' = [runs EXCEPT ![proc.run].last = proc.seq,
                                   ![proc.run].pending = Marked(@, proc.seq, op)]
           /\ torn' = IF undoing = op THEN torn \cup {op} ELSE torn
           /\ Go("mirror") /\ Dealt /\ UNCHANGED left
  <2>0. /\ pg' = pg \cup {op}
        /\ Marked(runs[proc.run].pending, proc.seq, op)
             = runs[proc.run].pending \cup {<<proc.seq, op>>}
    <3>1. \A e \in runs[proc.run].pending : e[1] # proc.seq
      BY <1>0 DEF IInv, TypeOK, RunTable
    <3> QED BY <1>2, <3>1 DEF Hide, Marked
  <2>1. <<proc.seq, op>> \in Nat \X Items
    BY <1>0
  <2>2. /\ runs' \in RunTable /\ runs'[proc.run].last = proc.seq
        /\ runs'[proc.run].pending = runs[proc.run].pending \cup {<<proc.seq, op>>}
        /\ \A r \in Runs : r # proc.run => /\ runs'[r].pending = runs[r].pending
                                           /\ runs'[r].last = runs[r].last
    BY <1>0, <1>2, <2>0, <2>1 DEF IInv, TypeOK, RunTable
  <2>3. /\ proc' \in Attempts /\ proc'.pc = "mirror" /\ proc'.seq = proc.seq
        /\ proc'.run = proc.run /\ proc'.degraded = proc.degraded
    BY <1>0, <1>2, <2>0 DEF Go, Attempts, Steps
  <2>4. op' = op
    BY <1>a, <2>3 DEF op
  <2>5. \A r \in Runs : \A e \in runs[r].pending : e[1] \in Nat /\ e[1] <= runs[r].last
    BY DEF IInv, TypeOK, RunTable
  <2>6. <<proc.seq, op>>[1] = proc.seq /\ <<proc.seq, op>>[2] = op
    OBVIOUS
  <2>7. \A r \in Runs : \A e \in runs'[r].pending : e[1] <= runs'[r].last
    <3> SUFFICES ASSUME NEW r \in Runs, NEW e \in runs'[r].pending PROVE e[1] <= runs'[r].last
      OBVIOUS
    <3>1. CASE r # proc.run
      BY <2>2, <2>5, <3>1
    <3>2. CASE r = proc.run
      BY <1>0, <2>2, <2>5, <2>6, <3>2
    <3> QED BY <3>1, <3>2
  <2>8. TypeOK'
    BY <1>0, <1>2, <2>0, <1>a, <1>b, <2>2, <2>3, <2>7 DEF IInv, TypeOK
  <2>9. PendingKeyed'
    <3>1. \A r \in Runs : \A e, f \in runs[r].pending : e[1] = f[1] => e = f
      BY DEF IInv, PendingKeyed
    <3>2. \A e \in runs[proc.run].pending : e[1] # proc.seq
      BY <1>0, <2>5
    <3>3. \A r \in Runs : \A e, f \in runs'[r].pending : e[1] = f[1] => e = f
      BY <2>2, <2>6, <3>1, <3>2
    <3> QED BY <1>0, <2>2, <2>3, <3>3 DEF PendingKeyed, Draining
  <2>10. ClearedIsMirrored'
    BY <1>0, <2>2, <2>3, <2>4 DEF ClearedIsMirrored, Draining
  <2>11. UndoIsAccounted'
    <3>1. (undoing \in pg => undoing \in torn)'
      BY <1>2, <2>0, <1>a DEF IInv, UndoIsAccounted
    <3>2. ASSUME NEW r \in Runs, NEW e \in runs'[r].pending, e[2] \notin pg' PROVE e[2] \in torn'
      <4>1. e \in runs[r].pending
        BY <1>2, <2>0, <2>2, <2>6, <3>2
      <4> QED BY <1>2, <2>0, <3>2, <4>1 DEF IInv, UndoIsAccounted
    <3> QED BY <3>1, <3>2 DEF UndoIsAccounted
  <2>12. QuietSoFar'
    BY <1>0, <1>2, <2>0, <1>a, <2>3, <2>4 DEF IInv, QuietSoFar, Draining, Applying, Idle
  <2>13. LagIsQueued'
    <3> SUFFICES ASSUME NEW x \in pg' \ graph' PROVE Queued(x)' \/ x \in torn'
      BY DEF LagIsQueued
    <3>1. CASE x = op
      <4>1. <<proc.seq, op>> \in runs'[proc.run].pending
        BY <2>2
      <4> QED BY <1>0, <2>6, <3>1, <4>1 DEF Queued
    <3>2. CASE x # op
      <4>1. Queued(x) \/ x \in torn
        BY <1>2, <2>0, <1>a, <3>2 DEF IInv, LagIsQueued
      <4>2. Queued(x) => Queued(x)'
        BY <2>2 DEF Queued
      <4> QED BY <1>2, <2>0, <4>1, <4>2
    <3> QED BY <3>1, <3>2
  <2>14. UndoConverges'
    BY <1>2, <2>0, <1>a DEF IInv, UndoConverges
  <2> QED BY <2>8, <2>9, <2>10, <2>11, <2>12, <2>13, <2>14 DEF IInv
<1>3. CASE /\ op \in Merges
           /\ runs' = [runs EXCEPT ![proc.run].last = proc.seq]
           /\ Go("rewrite") /\ Dealt /\ UNCHANGED <<pg, torn, left>>
  <2>1. /\ runs' \in RunTable /\ runs'[proc.run].last = proc.seq
        /\ \A r \in Runs : /\ runs'[r].pending = runs[r].pending
                           /\ r # proc.run => runs'[r].last = runs[r].last
    BY <1>0, <1>3 DEF IInv, TypeOK, RunTable
  <2>2. /\ proc' \in Attempts /\ proc'.pc = "rewrite" /\ proc'.seq = proc.seq
        /\ proc'.run = proc.run /\ proc'.degraded = proc.degraded
    BY <1>0, <1>3 DEF Go, Attempts, Steps
  <2>3. \A r \in Runs : \A e \in runs'[r].pending : e[1] <= runs'[r].last
    <3> SUFFICES ASSUME NEW r \in Runs, NEW e \in runs[r].pending PROVE e[1] <= runs'[r].last
      BY <2>1
    <3>1. e[1] <= runs[r].last /\ e[1] \in Nat
      BY DEF IInv, TypeOK, RunTable
    <3> QED BY <1>0, <2>1, <3>1
  <2>4. TypeOK'
    BY <1>3, <1>a, <1>b, <2>1, <2>2, <2>3 DEF IInv, TypeOK
  <2>5. PendingKeyed'
    BY <1>0, <2>1, <2>2 DEF IInv, PendingKeyed, Draining
  <2>6. ClearedIsMirrored' /\ QuietSoFar'
    BY <1>0, <1>3, <1>a, <2>2 DEF IInv, ClearedIsMirrored, QuietSoFar, Draining, Applying, Idle
  <2> QED BY <1>3, <1>a, <2>1, <2>4, <2>5, <2>6, StoresStay DEF IInv
<1> QED BY <1>1, <1>2, <1>3 DEF Apply

\* _mirror_dream_op converges the item, or reports it and leaves it queued.
LEMMA MirrorOpIInv == ASSUME IInv, MirrorOp PROVE IInv'
<1>1. CASE Fail /\ UNCHANGED <<graph, torn>>
  BY <1>1, FailIInv DEF MirrorOp
<1>0. /\ proc \in Attempts /\ proc.pc = "mirror" /\ op \in Items /\ proc.run \in Runs
      /\ <<proc.seq, op>> \in runs[proc.run].pending
  BY Running DEF IInv, MirrorOp, ClearedIsMirrored, Attempts
<1>a. UNCHANGED <<pg, plan, file, undoing, due>>
  BY DEF MirrorOp
<1>2. CASE Mirror(op) /\ Go("clear") /\ UNCHANGED <<runs, left>>
  <2>1. runs' \in RunTable /\ SameQueues
    BY <1>2, SameRuns DEF IInv
  <2>2. Queued(op)
    BY <1>0 DEF Queued
  <2>3. /\ LagIsQueued' /\ UndoConverges' /\ UndoIsAccounted'
        /\ graph' \subseteq Items /\ torn' \subseteq Items
        /\ graph' = graph \cup {op} /\ torn \subseteq torn' \cup {op}
    BY <1>0, <1>2, <1>a, <2>1, <2>2, MirrorStores
  <2>4. /\ proc' \in Attempts /\ proc'.pc = "clear" /\ proc'.seq = proc.seq
        /\ proc'.run = proc.run /\ proc'.degraded = proc.degraded
    BY <1>0, <1>2 DEF Go, Attempts, Steps
  <2>5. op' = op
    BY <1>a, <2>4 DEF op
  <2>6. TypeOK'
    BY <1>2, <1>a, <2>1, <2>3, <2>4, PendingStays DEF IInv, TypeOK
  <2>7. PendingKeyed'
    BY <1>0, <1>2, <2>1, <2>4, PendingStays, CursorOK DEF PendingKeyed, Cursor, Draining
  <2>8. ClearedIsMirrored'
    BY <1>0, <1>2, <2>3, <2>4, <2>5 DEF ClearedIsMirrored, Draining, Settled
  <2>9. QuietSoFar'
    BY <1>0, <1>a, <2>3, <2>4 DEF IInv, QuietSoFar, Draining, Applying, Idle
  <2> QED BY <2>3, <2>6, <2>7, <2>8, <2>9 DEF IInv
<1>3. CASE /\ Trouble
           /\ runs' = [runs EXCEPT ![proc.run].pending = Marked(@, proc.seq, op)]
           /\ proc' = [proc EXCEPT !.pc = "write", !.degraded = TRUE]
           /\ UNCHANGED <<graph, torn>>
  <2>1. Marked(runs[proc.run].pending, proc.seq, op) = runs[proc.run].pending
    <3>1. <<proc.seq, op>>[1] = proc.seq
      OBVIOUS
    <3>2. \A e \in runs[proc.run].pending : e[1] = proc.seq => e = <<proc.seq, op>>
      BY <1>0, <3>1 DEF IInv, PendingKeyed
    <3> QED BY <1>0, <3>1, <3>2 DEF Marked
  <2>2. runs' \in RunTable /\ SameQueues
    BY <1>0, <1>3, <2>1 DEF IInv, TypeOK, RunTable, SameQueues
  <2>3. /\ proc' \in Attempts /\ proc'.pc = "write" /\ proc'.seq = proc.seq
        /\ proc'.run = proc.run /\ proc'.degraded
    BY <1>0, <1>3 DEF Attempts, Steps
  <2>4. left' \in Bounds
    BY <1>3, TroubleBounds DEF IInv
  <2>5. Cursor'
    BY <1>0, <2>2, <2>3, CursorOK DEF Cursor, SameQueues
  <2>6. ClearedIsMirrored' /\ QuietSoFar'
    BY <2>3 DEF ClearedIsMirrored, QuietSoFar, Draining
  <2> QED BY <1>3, <1>a, <2>2, <2>3, <2>4, <2>5, <2>6, MoveIInv DEF IInv, TypeOK
<1> QED BY <1>1, <1>2, <1>3 DEF MirrorOp

\* The entry of the mirrored operation is cleared.
LEMMA ClearOpIInv == ASSUME IInv, ClearOp PROVE IInv'
<1>1. CASE Fail
  BY <1>1, FailIInv DEF ClearOp
<1>2. CASE runs' = clear_graph_mirror_pending(proc.run, proc.seq) /\ Go("write") /\ UNCHANGED left
  <2>1. /\ proc \in Attempts /\ proc.pc = "clear" /\ op \in Items /\ proc.run \in Runs
        /\ proc.seq \in Nat /\ <<proc.seq, op>> \in runs[proc.run].pending /\ Settled(op)
    BY Running DEF IInv, ClearOp, ClearedIsMirrored, Attempts
  <2>2. UNCHANGED <<pg, graph, undoing, torn>>
    BY DEF ClearOp
  <2>3. /\ runs' \in RunTable
        /\ LagIsQueued' /\ UndoConverges' /\ UndoIsAccounted'
        /\ \A r \in Runs : /\ runs'[r].last = runs[r].last
                           /\ runs'[r].pending \subseteq runs[r].pending
    BY <1>2, <2>1, <2>2, ClearStores
  <2>4. /\ proc' \in Attempts /\ proc'.pc = "write" /\ proc'.seq = proc.seq
        /\ proc'.run = proc.run /\ proc'.degraded = proc.degraded
    BY <1>2, <2>1 DEF Go, Attempts, Steps
  <2>5. TypeOK'
    BY <1>2, <2>2, <2>3, <2>4 DEF IInv, TypeOK, ClearOp
  <2>6. PendingKeyed'
    BY <2>1, <2>3, <2>4 DEF IInv, PendingKeyed, Draining
  <2>7. ClearedIsMirrored'
    BY <2>4 DEF ClearedIsMirrored, Draining
  <2>8. QuietSoFar'
    BY <2>1, <2>2, <2>4 DEF IInv, QuietSoFar, Draining, Applying, Idle
  <2> QED BY <2>3, <2>5, <2>6, <2>7, <2>8 DEF IInv
<1> QED BY <1>1, <1>2 DEF ClearOp

-----------------------------------------------------------------------------
\* dream_undo

\* The attempt in progress sees nothing of an undo but the stores.
LEMMA UndoIInv == ASSUME NEW r \in Runs, NEW x \in Merges, IInv, Undo(r, x) PROVE IInv'
<1>a. /\ undoing = None /\ pg' = pg \ {x} /\ undoing' = x
      /\ torn' = IF Queued(x) THEN torn \cup {x} ELSE torn
      /\ UNCHANGED <<graph, plan, runs, file, proc, due>>
  BY DEF Undo, Show
<1>b. op' = op
  BY <1>a DEF op
<1>c. pg' \subseteq pg /\ torn \subseteq torn' /\ x \in Items
  BY <1>a DEF Items
<1>d. \A y : Queued(y)' = Queued(y)
  BY <1>a DEF Queued
<1>1. TypeOK'
  <2>1. left' \in Bounds
    BY DEF IInv, TypeOK, Bounds, Undo
  <2>2. torn' \subseteq Items
    BY <1>a, <1>c DEF IInv, TypeOK
  <2> QED BY <1>a, <1>c, <2>1, <2>2 DEF IInv, TypeOK
<1>2. PendingKeyed'
  BY <1>a DEF IInv, PendingKeyed
<1>3. ClearedIsMirrored'
  <2>1. \A y : Settled(y) => Settled(y)'
    BY <1>a, <1>c DEF Settled
  <2>2. Settled(op) => Settled(op)'
    BY <1>b, <2>1
  <2>3. Settled(proc.entry[3]) => Settled(proc.entry[3])'
    BY <1>a, <2>1
  <2>4. \A e : Open(e)' = Open(e)
    BY <1>a DEF Open
  <2> QED BY <1>a, <1>b, <2>2, <2>3, <2>4 DEF IInv, ClearedIsMirrored
<1>4. UndoIsAccounted'
  <2>1. ASSUME NEW q \in Runs, NEW e \in runs'[q].pending, e[2] \notin pg' PROVE e[2] \in torn'
    <3>1. e \in runs[q].pending
      BY <1>a, <2>1
    <3>2. CASE e[2] = x
      BY <1>a, <3>1, <3>2 DEF Queued
    <3>3. CASE e[2] # x
      BY <1>a, <1>c, <2>1, <3>1, <3>3 DEF IInv, UndoIsAccounted
    <3> QED BY <3>2, <3>3
  <2> QED BY <1>a, <2>1 DEF UndoIsAccounted
<1>5. QuietSoFar'
  BY <1>a, <1>b, <1>c DEF IInv, QuietSoFar
<1>6. LagIsQueued'
  BY <1>a, <1>c, <1>d DEF IInv, LagIsQueued
<1>7. UndoConverges'
  <2>1. graph \subseteq Items /\ None \notin Items
    BY DreamAssumption DEF IInv, TypeOK
  <2> QED BY <1>a, <1>c, <2>1 DEF IInv, UndoConverges
<1> QED BY <1>1, <1>2, <1>3, <1>4, <1>5, <1>6, <1>7 DEF IInv

\* The graph shows the item again, or the undo was cut and the item is torn.
LEMMA UnmirrorIInv == ASSUME IInv, Unmirror PROVE IInv'
<1>a. /\ undoing \in Merges /\ undoing' = None
      /\ UNCHANGED <<pg, plan, runs, file, proc, due>>
  BY DEF Unmirror, IInv, TypeOK
<1>b. op' = op
  BY <1>a DEF op
<1>c. \/ graph' = graph \ {undoing} /\ torn' = torn /\ left' = left
      \/ graph' = graph /\ torn' = torn \cup {undoing} /\ Trouble
  BY DEF Unmirror
<1>d. undoing \in pg => undoing \in torn
  BY DEF IInv, UndoIsAccounted
<1>e. pg \subseteq Items /\ graph \subseteq Items /\ None \notin Items /\ undoing \in Items
  BY <1>a, DreamAssumption DEF IInv, TypeOK, Items
<1>f. \A y : Queued(y)' = Queued(y)
  BY <1>a DEF Queued
<1>1. TypeOK'
  <2>1. left' \in Bounds
    BY <1>c, TroubleBounds DEF IInv, TypeOK
  <2>2. graph' \subseteq Items /\ torn' \subseteq Items
    BY <1>c, <1>e DEF IInv, TypeOK
  <2> QED BY <1>a, <2>1, <2>2 DEF IInv, TypeOK
<1>2. PendingKeyed'
  BY <1>a DEF IInv, PendingKeyed
<1>3. ClearedIsMirrored'
  <2>1. \A y : Settled(y) => Settled(y)'
    BY <1>a, <1>c, <1>d DEF Settled
  <2>2. Settled(op) => Settled(op)'
    BY <1>b, <2>1
  <2>3. Settled(proc.entry[3]) => Settled(proc.entry[3])'
    BY <1>a, <2>1
  <2>4. \A e : Open(e)' = Open(e)
    BY <1>a DEF Open
  <2> QED BY <1>a, <1>b, <2>2, <2>3, <2>4 DEF IInv, ClearedIsMirrored
<1>4. UndoIsAccounted'
  <2>1. None \notin pg
    BY <1>e
  <2> QED BY <1>a, <1>c, <2>1 DEF IInv, UndoIsAccounted
<1>5. QuietSoFar'
  BY <1>a, <1>b, <1>c, <1>d DEF IInv, QuietSoFar
<1>6. LagIsQueued'
  BY <1>a, <1>c, <1>d, <1>f DEF IInv, LagIsQueued
<1>7. UndoConverges'
  BY <1>a, <1>c DEF IInv, UndoConverges
<1> QED BY <1>1, <1>2, <1>3, <1>4, <1>5, <1>6, <1>7 DEF IInv

-----------------------------------------------------------------------------
\* The theorems

\* Nothing is hidden, queued or running in the initial states.
LEMMA InitIInv == Init => IInv
<1> SUFFICES ASSUME Init PROVE IInv
  OBVIOUS
<1>1. TypeOK
  BY DreamAssumption DEF Init, TypeOK, RunTable, Bounds
<1>2. PendingKeyed /\ ClearedIsMirrored /\ QuietSoFar
  BY DEF Init, PendingKeyed, ClearedIsMirrored, QuietSoFar, Idle, Draining
<1>3. UndoIsAccounted /\ LagIsQueued /\ UndoConverges
  BY DEF Init, UndoIsAccounted, LagIsQueued, UndoConverges
<1> QED BY <1>1, <1>2, <1>3 DEF IInv

\* A step that changes nothing keeps the invariant.
LEMMA StutterIInv == ASSUME IInv, UNCHANGED vars PROVE IInv'
<1>1. op' = op /\ \A x : (Queued(x)' = Queued(x)) /\ (Settled(x)' = Settled(x)) /\ (Open(x)' = Open(x))
  BY DEF vars, op, Queued, Settled, Open
<1>2. TypeOK' /\ PendingKeyed' /\ UndoIsAccounted' /\ LagIsQueued' /\ UndoConverges'
  BY <1>1 DEF vars, IInv, TypeOK, PendingKeyed, UndoIsAccounted, LagIsQueued, UndoConverges
<1>3. ClearedIsMirrored' /\ QuietSoFar'
  BY <1>1 DEF vars, IInv, ClearedIsMirrored, QuietSoFar
<1> QED BY <1>2, <1>3 DEF IInv

\* Every step keeps the invariant: one lemma per action.
LEMMA NextIInv == IInv /\ [Next]_vars => IInv'
<1> SUFFICES ASSUME IInv, [Next]_vars PROVE IInv'
  OBVIOUS
<1>1. ASSUME NEW r \in Runs, Start(r) \/ Resume(r) PROVE IInv'
  BY <1>1, StartIInv
<1>2. CASE Plan
  BY <1>2, PlanIInv
<1>3. CASE ReadPending
  BY <1>3, ReadPendingIInv
<1>4. CASE DrainClear
  BY <1>4, DrainClearIInv
<1>5. CASE DrainEnds
  BY <1>5, DrainEndsIInv
<1>6. ASSUME NEW e \in proc.todo, DrainOne(e) PROVE IInv'
  BY <1>6, DrainOneIInv
<1>7. CASE Pass \/ OverBudget \/ LoopEnds
  BY <1>7, LoopIInv
<1>8. CASE PassAudit
  BY <1>8, PassAuditIInv
<1>9. CASE Apply
  BY <1>9, ApplyIInv
<1>10. CASE MirrorOp
  BY <1>10, MirrorOpIInv
<1>11. CASE ClearOp
  BY <1>11, ClearOpIInv
<1>12. CASE WriteUndo
  BY <1>12, WriteUndoIInv
<1>13. CASE Finish
  BY <1>13, FinishIInv
<1>14. CASE Crash
  BY <1>14, CrashIInv
<1>15. ASSUME NEW r \in Runs, NEW x \in Merges, Undo(r, x) PROVE IInv'
  BY <1>15, UndoIInv
<1>16. CASE Unmirror
  BY <1>16, UnmirrorIInv
<1>17. CASE UNCHANGED vars
  BY <1>17, StutterIInv
<1> QED
  BY <1>1, <1>2, <1>3, <1>4, <1>5, <1>6, <1>7, <1>8, <1>9, <1>10, <1>11, <1>12, <1>13,
     <1>14, <1>15, <1>16, <1>17 DEF Next

\* The inductive invariant holds for all plans, runs and bounds.
THEOREM DreamInvariant == Spec => []IInv
  BY InitIInv, NextIInv, PTL DEF Spec

\* What PostgreSQL hides and the graph shows is queued, whatever fails or
\* crashes between _apply_one_op's commit and the mirror.
THEOREM MirrorLagIsQueued == Spec => []LagIsQueued
<1>1. IInv => LagIsQueued
  BY DEF IInv
<1> QED BY <1>1, DreamInvariant, PTL

\* A run that reports no degradation leaves the two stores in step.
THEOREM QuietRunsConverge == Spec => []QuietRunConverged
<1>1. IInv => QuietRunConverged
  BY DEF IInv, QuietSoFar, QuietRunConverged, Applying, Idle
<1> QED BY <1>1, DreamInvariant, PTL

\* An undo that is not cut across leaves the two stores in step.
THEOREM UndosConverge == Spec => []UndoConverges
<1>1. IInv => UndoConverges
  BY DEF IInv
<1> QED BY <1>1, DreamInvariant, PTL

\* The type invariant, with the queue's numbers at or below the checkpoint.
THEOREM DreamTypes == Spec => []TypeOK
<1>1. IInv => TypeOK
  BY DEF IInv
<1> QED BY <1>1, DreamInvariant, PTL

\* No attempt moves its run's checkpoint back.
THEOREM CheckpointNeverGoesBack == Spec => CheckpointAdvances
<1> DEFINE Advances == \A r \in Runs : runs'[r].last >= runs[r].last
<1>1. ASSUME IInv, [Next]_vars PROVE [Advances]_vars
  <2> SUFFICES ASSUME Next PROVE Advances
    BY <1>1
  <2>0. \A r \in Runs : runs[r].last \in Int
    BY <1>1 DEF IInv, TypeOK, RunTable
  <2>1. CASE UNCHANGED runs
    BY <2>0, <2>1
  <2>a. proc.pc # "idle" => proc.run \in Runs
    BY <1>1, Running DEF IInv, Attempts
  <2>b. runs \in RunTable
    BY <1>1 DEF IInv, TypeOK
  <2>2. ASSUME proc.pc # "idle", Fail PROVE Advances
    BY <2>0, <2>2, <2>a, <2>b DEF Fail, RunTable
  <2>3. ASSUME NEW r \in Runs, Start(r) PROVE Advances
    BY <2>0, <2>3, <2>b DEF Start, RunTable
  <2>4. ASSUME Plan PROVE Advances
    BY <2>0, <2>2, <2>4, <2>a, <2>b DEF Plan, RunTable
  <2>5. ASSUME DrainClear \/ ClearOp PROVE Advances
    <3>1. ASSUME NEW r, NEW n, runs' = clear_graph_mirror_pending(r, n) PROVE Advances
      BY <2>0, <2>b, <3>1 DEF clear_graph_mirror_pending, RunTable
    <3> QED BY <2>2, <2>5, <3>1 DEF DrainClear, ClearOp
  <2>6. ASSUME PassAudit \/ Apply PROVE Advances
    <3>1. CASE Fail
      BY <2>2, <2>6, <3>1 DEF PassAudit, Apply, More
    <3>2. /\ runs[proc.run].last < proc.seq /\ proc.run \in Runs /\ proc.seq \in Nat
      BY <1>1, <2>6, FreshNumber DEF PassAudit, Apply
    <3>3. CASE ~Fail
      <4>1. \/ runs' = [runs EXCEPT ![proc.run].last = proc.seq]
            \/ runs' = [runs EXCEPT ![proc.run].last = proc.seq,
                                    ![proc.run].pending = @ \cup {<<proc.seq, op>>}]
        BY <2>6, <3>3 DEF PassAudit, Apply
      <4> QED BY <2>0, <2>b, <3>2, <4>1 DEF RunTable
    <3> QED BY <3>1, <3>3
  <2>7. ASSUME MirrorOp PROVE Advances
    BY <2>0, <2>2, <2>7, <2>a, <2>b DEF MirrorOp, RunTable
  <2>8. ASSUME Finish PROVE Advances
    BY <2>0, <2>2, <2>8, <2>a, <2>b DEF Finish, RunTable
  <2> QED
    BY <1>1, <2>1, <2>3, <2>4, <2>5, <2>6, <2>7, <2>8
       DEF Next, Resume, ReadPending, DrainEnds, DrainOne, Pass, OverBudget, WriteUndo,
           LoopEnds, Crash, Undo, Unmirror
<1> QED BY <1>1, DreamInvariant, PTL DEF Spec, CheckpointAdvances
-----------------------------------------------------------------------------
\* A plan is carried out: what a run still owes lies ahead of it

\* A run that was never begun has no checkpoint, and an attempt's run was begun.
Begun ==
  /\ \A r \in Runs : runs[r].state = "none" => runs[r].last = -1
  /\ proc.pc # "idle" => runs[proc.run].state # "none"

\* A first attempt finds no checkpoint, so that it passes over nothing.
FirstLife ==
  proc.pc # "idle" /\ ~proc.resumed =>
    IF At("plan") THEN runs[proc.run].last = -1 ELSE proc.last = -1

\* What the loop has dealt with: the operations up to this number of the plan
Behind == IF proc.pc \in {"mirror", "clear", "write", "rewrite"} THEN proc.seq + 1 ELSE proc.seq

\* What a first attempt still owes of its plan lies ahead of it, unless it
\* skipped or was cancelled, and at the end nothing does.
Ahead ==
  proc.pc \notin {"idle", "plan"} /\ ~proc.resumed /\ ~proc.skipped /\ ~proc.cancelled =>
    /\ \A x \in due[proc.run] : \E i \in 1..Len(plan) : Behind < i /\ plan[i] = x
    /\ At("finish") => proc.seq = Len(plan)

\* The loop begins at the first operation.
AtFirst == At("plan") => proc.seq = 0

PlanInv == Begun /\ FirstLife /\ AtFirst /\ Ahead

\* The attempt ends: nothing is said of it any more.
LEMMA StopPlan ==
  ASSUME TypeOK, Begun, proc' = Idle,
         \A r \in Runs : /\ runs'[r].last = runs[r].last
                         /\ runs'[r].state = "none" => runs[r].state = "none"
  PROVE  PlanInv'
  BY DEF PlanInv, Begun, FirstLife, AtFirst, Ahead, Idle

\* orchestrator.run's handler ends the attempt and records it.
LEMMA FailPlan == ASSUME TypeOK, PlanInv, proc.pc # "idle", Fail PROVE PlanInv'
<1>1. proc.run \in Runs
  BY Running DEF Attempts
<1>2. \A r \in Runs : /\ runs'[r].last = runs[r].last
                      /\ runs'[r].state = "none" => runs[r].state = "none"
  BY <1>1 DEF Fail, TypeOK, RunTable
<1> QED BY <1>2, StopPlan DEF Fail, PlanInv

\* What the attempt owes stays ahead of it if it stays where it is, or goes by
\* an operation that it no longer owes.
LEMMA MovePlan ==
  ASSUME TypeOK, PlanInv, proc.pc \notin {"idle", "plan"},
         proc'.pc \notin {"idle", "plan"}, UNCHANGED plan,
         proc'.run = proc.run, proc'.resumed = proc.resumed, proc'.last = proc.last,
         proc.skipped => proc'.skipped, proc.cancelled => proc'.cancelled,
         \A r \in Runs : /\ runs'[r].state = runs[r].state
                         /\ runs'[r].last = runs[r].last \/ r = proc.run,
         due'[proc.run] \subseteq due[proc.run],
         \/ proc'.skipped
         \/ Behind' = Behind
         \/ Behind' = proc.seq + 1 /\ Behind = proc.seq /\ op \notin due'[proc.run],
         proc'.pc = "finish" /\ ~proc'.cancelled => proc'.seq = Len(plan)
  PROVE  PlanInv'
<1>1. proc \in Attempts /\ proc.run \in Runs /\ proc.seq \in Nat
  BY Running DEF Attempts
<1>2. Begun'
  BY <1>1 DEF PlanInv, Begun
<1>3. FirstLife'
  BY <1>1 DEF PlanInv, FirstLife
<1>4. Ahead'
  <2> SUFFICES ASSUME ~proc'.resumed, ~proc'.skipped, ~proc'.cancelled, NEW x \in due'[proc.run]
               PROVE  \E i \in 1..Len(plan) : Behind' < i /\ plan[i] = x
    BY DEF Ahead
  <2>1. PICK i \in 1..Len(plan) : Behind < i /\ plan[i] = x
    BY <1>1 DEF PlanInv, Ahead
  <2>2. Behind' < i
    <3>1. CASE Behind' = Behind
      BY <2>1, <3>1
    <3>2. CASE Behind' = proc.seq + 1 /\ Behind = proc.seq /\ op \notin due'[proc.run]
      <4>1. i # proc.seq + 1
        BY <2>1, <3>2 DEF op
      <4> QED BY <1>1, <2>1, <3>2, <4>1
    <3> QED BY <3>1, <3>2
  <2> QED BY <2>1, <2>2
<1> QED BY <1>2, <1>3, <1>4 DEF PlanInv, AtFirst

\* Starting a run finds no checkpoint, and resuming one promises nothing.
LEMMA StartPlan == ASSUME NEW r \in Runs, TypeOK, PlanInv, Start(r) \/ Resume(r) PROVE PlanInv'
<1>1. CASE Start(r)
  <2>1. /\ proc'.pc = "plan" /\ proc'.run = r /\ proc'.seq = 0
        /\ runs'[r].state = "planning" /\ runs'[r].last = runs[r].last /\ runs[r].state = "none"
        /\ \A q \in Runs \ {r} : runs'[q] = runs[q]
    BY <1>1 DEF Start, Attempt, TypeOK, RunTable
  <2>2. runs'[r].last = -1
    BY <2>1 DEF PlanInv, Begun
  <2> QED BY <2>1, <2>2 DEF PlanInv, Begun, FirstLife, AtFirst, Ahead
<1>2. CASE Resume(r)
  <2>1. /\ proc'.pc = "plan" /\ proc'.run = r /\ proc'.seq = 0 /\ proc'.resumed
        /\ UNCHANGED runs /\ runs[r].state # "none"
    BY <1>2 DEF Resume, Attempt
  <2> QED BY <2>1 DEF PlanInv, Begun, FirstLife, AtFirst, Ahead
<1> QED BY <1>1, <1>2

\* _plan_phase: all of the plan is ahead.
LEMMA PlanPlan == ASSUME TypeOK, PlanInv, Plan PROVE PlanInv'
<1>1. proc \in Attempts /\ proc.pc = "plan" /\ proc.run \in Runs
  BY Running DEF Plan, Attempts
<1>2. CASE Fail
  BY <1>1, <1>2, FailPlan
<1>3. CASE ~Fail
  <2>1. /\ proc' = [proc EXCEPT !.pc = "drain", !.last = runs[proc.run].last]
        /\ runs' = [runs EXCEPT ![proc.run].state = IF @ = "planning" THEN "applying" ELSE @]
        /\ due' = IF proc.resumed THEN due
                  ELSE [due EXCEPT ![proc.run] = {x \in Items : \E i \in 1..Len(plan') : plan'[i] = x}]
    BY <1>3 DEF Plan
  <2>2. /\ proc'.pc = "drain" /\ proc'.last = runs[proc.run].last /\ proc'.run = proc.run
        /\ proc'.resumed = proc.resumed /\ proc'.seq = proc.seq
    BY <1>1, <2>1 DEF Attempts
  <2>3. \A r \in Runs : /\ runs'[r].last = runs[r].last
                        /\ runs'[r].state = "none" => runs[r].state = "none"
    BY <1>1, <2>1 DEF TypeOK, RunTable
  <2>4. Begun'
    BY <1>1, <2>2, <2>3 DEF PlanInv, Begun
  <2>5. FirstLife'
    BY <1>1, <2>2 DEF PlanInv, FirstLife
  <2>6. Ahead'
    <3> SUFFICES ASSUME ~proc.resumed PROVE
                        \A x \in due'[proc.run] : \E i \in 1..Len(plan') : Behind' < i /\ plan'[i] = x
      BY <2>2 DEF Ahead
    <3>1. due'[proc.run] = {x \in Items : \E i \in 1..Len(plan') : plan'[i] = x}
      BY <1>1, <2>1 DEF TypeOK
    <3>2. Behind' = 0
      BY <1>1, <2>2 DEF Behind, PlanInv, AtFirst
    <3> QED BY <3>1, <3>2
  <2> QED BY <2>2, <2>4, <2>5, <2>6 DEF PlanInv, AtFirst
<1> QED BY <1>2, <1>3

\* The drain moves nothing of the plan.
LEMMA DrainPlan ==
  ASSUME TypeOK, PlanInv, ReadPending \/ DrainClear \/ DrainEnds \/ \E e \in proc.todo : DrainOne(e)
  PROVE  PlanInv'
<1>1. /\ proc \in Attempts /\ proc.run \in Runs /\ proc.pc \in {"drain", "drainop", "drained"}
      /\ UNCHANGED <<plan, due>> /\ Behind = proc.seq
  BY Running DEF ReadPending, DrainClear, DrainEnds, DrainOne, Attempts, Behind
<1>2. CASE Fail
  BY <1>1, <1>2, FailPlan
<1>3. CASE ~Fail
  <2>1. /\ proc'.run = proc.run /\ proc'.resumed = proc.resumed /\ proc'.last = proc.last
        /\ proc'.skipped = proc.skipped /\ proc'.cancelled = proc.cancelled
        /\ proc'.seq = proc.seq /\ proc'.pc \in {"drainop", "drained", "op"}
    <3>1. CASE ReadPending
      <4>1. \E t : \/ proc' = [proc EXCEPT !.pc = "drainop", !.todo = t]
                  \/ proc' = [proc EXCEPT !.pc = "op", !.degraded = TRUE]
        BY <3>1 DEF ReadPending
      <4> QED BY <1>1, <4>1 DEF Attempts
    <3>2. CASE DrainClear
      <4>1. \E t, e : proc' = [proc EXCEPT !.pc = "drainop", !.todo = t, !.entry = e]
        BY <1>3, <3>2 DEF DrainClear
      <4> QED BY <1>1, <4>1 DEF Attempts
    <3>3. CASE DrainEnds BY <1>1, <3>3 DEF DrainEnds, Go, Attempts
    <3>4. CASE \E e \in proc.todo : DrainOne(e)
      <4>1. \E e, t : \/ proc' = [proc EXCEPT !.pc = "drained", !.entry = e]
                     \/ proc' = [proc EXCEPT !.todo = t, !.degraded = TRUE]
        BY <3>4 DEF DrainOne
      <4>2. proc.pc = "drainop" BY <3>4 DEF DrainOne
      <4> QED BY <1>1, <4>1, <4>2 DEF Attempts
    <3> QED BY <3>1, <3>2, <3>3, <3>4
  <2>2. \A r \in Runs : runs'[r].state = runs[r].state /\ runs'[r].last = runs[r].last
    <3>1. CASE UNCHANGED runs BY <3>1
    <3>2. CASE runs' = clear_graph_mirror_pending(proc.entry[1], proc.entry[2])
      BY <3>2 DEF clear_graph_mirror_pending, TypeOK, RunTable
    <3> QED BY <1>3, <3>1, <3>2 DEF ReadPending, DrainClear, DrainEnds, DrainOne
  <2>3. Behind' = Behind
    BY <1>1, <2>1 DEF Behind
  <2> QED BY <1>1, <2>1, <2>2, <2>3, MovePlan
<1> QED BY <1>2, <1>3

\* The loop goes by an audit, by an operation it is over budget for, or ends;
\* a first attempt has no checkpoint to go by.
LEMMA LoopPlan ==
  ASSUME TypeOK, PlanInv, Pass \/ PassAudit \/ OverBudget \/ LoopEnds PROVE PlanInv'
<1>1. /\ proc \in Attempts /\ proc.run \in Runs /\ proc.pc = "op" /\ proc.seq \in Nat
      /\ UNCHANGED <<plan, due>> /\ Behind = proc.seq /\ due[proc.run] \subseteq Items
  BY Running DEF Pass, PassAudit, OverBudget, LoopEnds, More, Attempts, Behind, TypeOK
<1>2. CASE Fail
  BY <1>1, <1>2, FailPlan
<1>3. CASE Pass
  <2>1. proc.resumed
    BY <1>1, <1>3 DEF Pass, Fresh, PlanInv, FirstLife
  <2>2. /\ proc'.run = proc.run /\ proc'.resumed = proc.resumed /\ proc'.pc = "op" /\ UNCHANGED runs
    BY <1>1, <1>3 DEF Pass, NextOp, Attempts
  <2> QED BY <1>1, <2>1, <2>2 DEF PlanInv, Begun, FirstLife, AtFirst, Ahead
<1>4. CASE PassAudit /\ ~Fail
  <2>1. /\ proc'.run = proc.run /\ proc'.resumed = proc.resumed /\ proc'.last = proc.last
        /\ proc'.skipped = proc.skipped /\ proc'.cancelled = proc.cancelled
        /\ proc'.seq = proc.seq + 1 /\ proc'.pc = "op"
    BY <1>1, <1>4 DEF PassAudit, NextOp, Attempts
  <2>2. \A r \in Runs : /\ runs'[r].state = runs[r].state
                        /\ runs'[r].last = runs[r].last \/ r = proc.run
    BY <1>1, <1>4 DEF PassAudit, TypeOK, RunTable
  <2>3. Behind' = proc.seq + 1 /\ op \notin due[proc.run]
    BY <1>1, <1>4, <2>1, DreamAssumption DEF Behind, PassAudit
  <2> QED BY <1>1, <2>1, <2>2, <2>3, MovePlan
<1>5. CASE OverBudget
  <2>1. /\ proc'.run = proc.run /\ proc'.resumed = proc.resumed /\ proc'.last = proc.last
        /\ proc'.skipped /\ proc'.pc = "op" /\ UNCHANGED runs
    BY <1>1, <1>5 DEF OverBudget, NextOp, Attempts
  <2> QED BY <1>1, <2>1 DEF PlanInv, Begun, FirstLife, AtFirst, Ahead
<1>6. CASE LoopEnds
  <2>1. /\ proc'.run = proc.run /\ proc'.resumed = proc.resumed /\ proc'.last = proc.last
        /\ proc'.skipped = proc.skipped /\ (proc.cancelled => proc'.cancelled)
        /\ proc'.seq = proc.seq /\ proc'.pc = "finish" /\ UNCHANGED runs
        /\ proc'.cancelled \/ proc.seq = Len(plan)
    BY <1>1, <1>6 DEF LoopEnds, Go, Attempts
  <2>2. Behind' = Behind
    BY <1>1, <2>1 DEF Behind
  <2> QED BY <1>1, <2>1, <2>2, MovePlan
<1> QED BY <1>2, <1>3, <1>4, <1>5, <1>6

\* _apply_one_op: the operation is dealt with, committed or deferred.
LEMMA ApplyPlan == ASSUME TypeOK, PlanInv, Apply PROVE PlanInv'
<1>1. /\ proc \in Attempts /\ proc.run \in Runs /\ proc.pc = "op" /\ proc.seq \in Nat
      /\ UNCHANGED plan /\ Behind = proc.seq
  BY Running DEF Apply, More, Attempts, Behind
<1>2. CASE Fail
  BY <1>1, <1>2, FailPlan
<1>3. CASE ~Fail
  <2>1. /\ \E pc \in {"mirror", "rewrite"} : Go(pc)
        /\ Dealt
    BY <1>3 DEF Apply
  <2>2. /\ proc'.run = proc.run /\ proc'.resumed = proc.resumed /\ proc'.last = proc.last
        /\ proc'.skipped = proc.skipped /\ proc'.cancelled = proc.cancelled
        /\ proc'.seq = proc.seq /\ proc'.pc \in {"mirror", "rewrite"}
    BY <1>1, <2>1 DEF Go, Attempts
  <2>3. \A r \in Runs : /\ runs'[r].state = runs[r].state
                        /\ runs'[r].last = runs[r].last \/ r = proc.run
    BY <1>1, <1>3 DEF Apply, TypeOK, RunTable
  <2>4. due'[proc.run] = due[proc.run] \ {op}
    BY <1>1, <2>1 DEF Dealt, TypeOK
  <2>5. Behind' = proc.seq + 1
    BY <2>2 DEF Behind
  <2> QED BY <1>1, <2>2, <2>3, <2>4, <2>5, MovePlan
<1> QED BY <1>2, <1>3

\* Mirroring, clearing and the undo file leave the plan where it is.
LEMMA AfterPlan == ASSUME TypeOK, PlanInv, MirrorOp \/ ClearOp \/ WriteUndo PROVE PlanInv'
<1>1. /\ proc \in Attempts /\ proc.run \in Runs /\ proc.seq \in Nat
      /\ proc.pc \in {"mirror", "clear", "write", "rewrite"}
      /\ UNCHANGED <<plan, due>> /\ Behind = proc.seq + 1
  BY Running DEF MirrorOp, ClearOp, WriteUndo, Attempts, Behind
<1>2. CASE Fail
  BY <1>1, <1>2, FailPlan
<1>3. CASE ~Fail
  <2>1. /\ proc'.run = proc.run /\ proc'.resumed = proc.resumed /\ proc'.last = proc.last
        /\ proc'.skipped = proc.skipped /\ proc'.cancelled = proc.cancelled
        /\ \/ proc'.seq = proc.seq /\ proc'.pc \in {"clear", "write"}
           \/ proc'.seq = proc.seq + 1 /\ proc'.pc = "op"
    <3>1. CASE MirrorOp BY <1>1, <1>3, <3>1 DEF MirrorOp, Go, Attempts
    <3>2. CASE ClearOp BY <1>1, <1>3, <3>2 DEF ClearOp, Go, Attempts
    <3>3. CASE WriteUndo
      <4>1. \E t : proc' = [[proc EXCEPT !.pc = "op", !.seq = @ + 1] EXCEPT !.recs = t]
        BY <3>3 DEF WriteUndo, NextOp
      <4> QED BY <1>1, <4>1 DEF Attempts
    <3> QED BY <3>1, <3>2, <3>3
  <2>2. \A r \in Runs : runs'[r].state = runs[r].state /\ runs'[r].last = runs[r].last
    BY <1>1, <1>3 DEF MirrorOp, ClearOp, WriteUndo, clear_graph_mirror_pending, TypeOK, RunTable
  <2>3. Behind' = Behind
    BY <1>1, <2>1 DEF Behind
  <2> QED BY <1>1, <2>1, <2>2, <2>3, MovePlan
<1> QED BY <1>2, <1>3

\* Every step keeps it: an undo touches neither plan nor attempt.
LEMMA NextPlan == ASSUME IInv, IInv', PlanInv, [Next]_vars PROVE PlanInv'
<1>0. TypeOK
  BY DEF IInv
<1>1. CASE Finish
  <2>1. proc \in Attempts /\ proc.run \in Runs /\ proc.pc = "finish"
    BY <1>0, <1>1, Running DEF Finish, Attempts
  <2>2. CASE Fail
    BY <1>0, <2>1, <2>2, FailPlan
  <2>3. CASE ~Fail
    <3>1. \A r \in Runs : /\ runs'[r].last = runs[r].last
                          /\ runs'[r].state = "none" => runs[r].state = "none"
      BY <1>0, <1>1, <2>1, <2>3 DEF Finish, TypeOK, RunTable
    <3> QED BY <1>0, <1>1, <2>3, <3>1, StopPlan DEF Finish, PlanInv
  <2> QED BY <2>2, <2>3
<1>2. CASE Crash
  BY <1>0, <1>2, StopPlan DEF Crash, PlanInv
<1>3. CASE UNCHANGED <<plan, proc, runs, due>>
  BY <1>3 DEF PlanInv, Begun, FirstLife, AtFirst, Ahead, Behind
<1>4. ASSUME Unmirror \/ \E r \in Runs, x \in Merges : Undo(r, x) PROVE PlanInv'
  BY <1>3, <1>4 DEF Unmirror, Undo
<1>5. ASSUME UNCHANGED vars PROVE PlanInv'
  BY <1>3, <1>5 DEF vars
<1> QED
  BY <1>0, <1>1, <1>2, <1>4, <1>5, StartPlan, PlanPlan, DrainPlan, LoopPlan, ApplyPlan, AfterPlan
     DEF Next

\* A run that was not resumed, cancelled or short of tokens has dealt with
\* every operation of its plan (_apply_phase), whatever the planner proposed
\* and whichever undos ran beside it.
THEOREM PlansAreCarriedOut == Spec => []PlanIsCarriedOut
<1>1. Init => PlanInv
  BY DEF Init, PlanInv, Begun, FirstLife, AtFirst, Ahead, Idle
<1>2. IInv /\ IInv' /\ PlanInv /\ [Next]_vars => PlanInv'
  BY NextPlan
<1>3. IInv /\ PlanInv => PlanIsCarriedOut
  <2> SUFFICES ASSUME IInv, PlanInv, At("finish"), ~proc.resumed, ~proc.cancelled, ~proc.skipped
               PROVE  due[proc.run] = {}
    BY DEF PlanIsCarriedOut
  <2>1. proc.seq \in Nat /\ Behind = proc.seq
    BY Running DEF IInv, Attempts, Behind
  <2>2. /\ \A x \in due[proc.run] : \E i \in 1..Len(plan) : Behind < i /\ plan[i] = x
        /\ proc.seq = Len(plan)
    BY DEF PlanInv, Ahead
  <2> QED BY <2>1, <2>2
<1> QED BY <1>1, <1>2, <1>3, DreamInvariant, PTL DEF Spec
=============================================================================
