-------------------------------- MODULE Dream --------------------------------
(***************************************************************************)
(* Khora's dream runs in apply mode: the maintenance pass that merges      *)
(* duplicate entities and prunes dead edges of one namespace, on a stack   *)
(* of PostgreSQL and Neo4j.                                                *)
(*                                                                         *)
(* Each operation commits in PostgreSQL together with the run's checkpoint *)
(* and an entry of graph_mirror_pending; only then is it mirrored to the   *)
(* graph.  Mirrors fail, the process dies between any two steps, a run is  *)
(* resumed under its old checkpoint with a new plan, and an operator undoes *)
(* merges meanwhile, without the lock a run holds.                         *)
(*                                                                         *)
(* An item is one thing an operation hides: an entity to absorb or an edge *)
(* to prune.  A store hides it or shows it.  The documents do not change   *)
(* meanwhile, so that the planner's candidates are the items the store it  *)
(* reads shows.                                                            *)
(***************************************************************************)
EXTENDS Integers, Sequences, FiniteSets

CONSTANTS
  Merges,       \* absorbed entities: judged by an LLM, may be undone
  Edges,        \* edges to prune
  Audit,        \* an operation without a handler
  Orders,       \* orders in which the planner lists them
  Runs,         \* run ids
  None,         \* no merge is being undone
  MaxAttempts,  \* bound: starts and resumptions
  MaxUndos,     \* bound: calls of dream_undo
  MaxTrouble    \* bound: failing store calls and crashes

Items == Merges \cup Edges

ASSUME DreamAssumption ==
  /\ Merges \cap Edges = {} /\ Audit \notin Items /\ None \notin Items
  /\ Orders \subseteq Seq(Items \cup {Audit})
  /\ MaxAttempts \in Nat /\ MaxUndos \in Nat /\ MaxTrouble \in Nat

VARIABLES
  pg,       \* items PostgreSQL hides
  graph,    \* items the graph hides
  order,    \* the planner's order
  plan,     \* the plan of the current or last attempt
  runs,     \* khora_dream_runs
  file,     \* the undo file of each run
  proc,     \* the attempt that holds the namespace lock
  undoing,  \* the merge a dream_undo has reversed in PostgreSQL only, or None
  due,      \* history: what of its first plan a run has not dealt with
  torn,     \* history: items whose undo was cut, or met the op still queued
            \* or being applied
  left      \* what the bounds still allow

vars == <<pg, graph, order, plan, runs, file, proc, undoing, due, torn, left>>

Steps == {"plan", "drain", "drainop", "drained", "op", "mirror", "clear", "write",
          "rewrite", "finish"}
Idle == [pc |-> "idle"]
Entries == Runs \X Nat \X Items
NoEntry == <<>>

RunTable ==
  [Runs -> [state : {"none", "planning", "applying", "completed", "failed"},
            last : Int, pending : SUBSET (Nat \X Items)]]
Attempts ==
  [pc : Steps, run : Runs, resumed : BOOLEAN, last : Int, seq : Nat, todo : SUBSET Entries,
   entry : Entries \cup {NoEntry}, recs : SUBSET Merges, degraded : BOOLEAN,
   skipped : BOOLEAN, cancelled : BOOLEAN]
Bounds == [attempts : Nat, undos : Nat, trouble : Nat]

TypeOK ==
  /\ pg \subseteq Items /\ graph \subseteq Items /\ torn \subseteq Items
  /\ runs \in RunTable
  /\ \A r \in Runs : \A e \in runs[r].pending : e[1] <= runs[r].last
  /\ file \in [Runs -> SUBSET Merges]
  /\ proc \in Attempts \cup {Idle}
  /\ undoing \in Merges \cup {None}
  /\ due \in [Runs -> SUBSET Items]
  /\ left \in Bounds

Init ==
  /\ pg = {} /\ graph = {} /\ torn = {}
  /\ order \in Orders /\ plan = <<>>
  /\ runs = [r \in Runs |-> [state |-> "none", last |-> -1, pending |-> {}]]
  /\ file = [r \in Runs |-> {}]
  /\ proc = Idle /\ undoing = None
  /\ due = [r \in Runs |-> {}]
  /\ left = [attempts |-> MaxAttempts, undos |-> MaxUndos, trouble |-> MaxTrouble]

-----------------------------------------------------------------------------
\* Helpers

At(pc) == proc.pc = pc
Go(pc) == proc' = [proc EXCEPT !.pc = pc]
Trouble == left.trouble > 0 /\ left' = [left EXCEPT !.trouble = @ - 1]
Queued(x) == \E r \in Runs : \E e \in runs[r].pending : e[2] = x

op == plan[proc.seq + 1]
NextOp == [proc EXCEPT !.pc = "op", !.seq = @ + 1]

\* The attempt raises: run's handler records it and lets go of the lock.
Fail ==
  /\ Trouble
  /\ proc' = Idle
  /\ runs' = [runs EXCEPT ![proc.run].state = "failed"]

\* The apply handlers tombstone an absorbed entity, its edges pointed at the
\* one that stays, or a dead edge; the reverse handler takes that back.
Hide(x) == pg' = pg \cup {x}
Show(x) == pg' = pg \ {x}

\* apply_mirror_targets: idempotent, by id.
Mirror(x) ==
  /\ graph' = graph \cup {x}
  /\ torn' = IF x \in pg /\ undoing # x THEN torn \ {x} ELSE torn

\* mark_graph_mirror_pending: the entry of an operation that is committed and
\* not yet mirrored, by its number.
Marked(pending, seq, x) == {e \in pending : e[1] # seq} \cup {<<seq, x>>}

clear_graph_mirror_pending(r, seq) ==
  [runs EXCEPT ![r].pending = {e \in @ : e[1] # seq}]

-----------------------------------------------------------------------------
\* An attempt: lock, plan, drain

Attempt(r, resumed) ==
  [pc |-> "plan", run |-> r, resumed |-> resumed, last |-> -1, seq |-> 0,
   todo |-> {}, entry |-> NoEntry, recs |-> {}, degraded |-> FALSE, skipped |-> FALSE,
   cancelled |-> FALSE]

\* A run under a new id: _init_run_row records it.
Start(r) ==
  /\ proc = Idle /\ left.attempts > 0 /\ runs[r].state = "none"
  /\ runs' = [runs EXCEPT ![r].state = "planning"]
  /\ proc' = Attempt(r, FALSE)
  /\ left' = [left EXCEPT !.attempts = @ - 1]
  /\ UNCHANGED <<pg, graph, order, plan, file, undoing, due, torn>>

\* Mutant: the row is recorded anew, checkpoint and all.
ResumeResets(r) ==
  /\ proc = Idle /\ left.attempts > 0 /\ runs[r].state # "none"
  /\ runs' = [runs EXCEPT ![r].state = "planning", ![r].last = -1]
  /\ proc' = Attempt(r, TRUE)
  /\ left' = [left EXCEPT !.attempts = @ - 1]
  /\ UNCHANGED <<pg, graph, order, plan, file, undoing, due, torn>>

\* resume_from: the row is kept as it is, whatever its state.
Resume(r) ==
  /\ proc = Idle /\ left.attempts > 0 /\ runs[r].state # "none"
  /\ proc' = Attempt(r, TRUE)
  /\ left' = [left EXCEPT !.attempts = @ - 1]
  /\ UNCHANGED <<pg, graph, order, plan, runs, file, undoing, due, torn>>

\* plan_dream, before the drain: the planners propose what is not hidden yet,
\* edges by PostgreSQL, merges by the graph, which list_entities prefers; audits
\* every time.
Hidden(o) == o \in (IF o \in Merges THEN graph ELSE pg)
Candidates == SelectSeq(order, LAMBDA o : o = Audit \/ ~Hidden(o))

\* _plan_phase, anew on every attempt, and the checkpoint as it stands.
Plan ==
  /\ At("plan")
  /\ \/ /\ plan' = Candidates
        /\ proc' = [proc EXCEPT !.pc = "drain", !.last = runs[proc.run].last]
        /\ runs' = [runs EXCEPT ![proc.run].state = IF @ = "planning" THEN "applying" ELSE @]
        /\ due' = IF proc.resumed THEN due
                  ELSE [due EXCEPT ![proc.run] = {x \in Items : \E i \in 1..Len(plan') : plan'[i] = x}]
        /\ UNCHANGED left
     \/ Fail /\ UNCHANGED <<plan, due>>
  /\ UNCHANGED <<pg, graph, order, file, undoing, torn>>

\* Mutant: only what this run left open.
ReadOwnPending ==
  /\ At("drain")
  /\ proc' = [proc EXCEPT !.pc = "drainop",
                          !.todo = {<<proc.run, e[1], e[2]>> : e \in runs[proc.run].pending}]
  /\ UNCHANGED <<pg, graph, order, plan, runs, file, undoing, due, torn, left>>

\* _drain_graph_mirror_pending lists what every run of the namespace left
\* open.  A failed read is a degradation.
ReadPending ==
  LET open == UNION {{<<r, e[1], e[2]>> : e \in runs[r].pending} : r \in Runs} IN
  /\ At("drain")
  /\ \/ proc' = [proc EXCEPT !.pc = "drainop", !.todo = open] /\ UNCHANGED left
     \/ Trouble /\ proc' = [proc EXCEPT !.pc = "op", !.degraded = TRUE]
  /\ UNCHANGED <<pg, graph, order, plan, runs, file, undoing, due, torn>>

\* Each is mirrored; one that fails stays queued and is reported.
DrainOne(e) ==
  /\ At("drainop") /\ e \in proc.todo
  /\ \/ /\ Mirror(e[3])
        /\ proc' = [proc EXCEPT !.pc = "drained", !.entry = e]
        /\ UNCHANGED left
     \/ /\ Trouble
        /\ proc' = [proc EXCEPT !.todo = @ \ {e}, !.degraded = TRUE]
        /\ UNCHANGED <<graph, torn>>
  /\ UNCHANGED <<pg, order, plan, runs, file, undoing, due>>

DrainClear ==
  /\ At("drained")
  /\ \/ /\ runs' = clear_graph_mirror_pending(proc.entry[1], proc.entry[2])
        /\ proc' = [proc EXCEPT !.pc = "drainop", !.todo = @ \ {proc.entry}, !.entry = NoEntry]
        /\ UNCHANGED left
     \/ Fail
  /\ UNCHANGED <<pg, graph, order, plan, file, undoing, due, torn>>

DrainEnds ==
  /\ At("drainop") /\ proc.todo = {}
  /\ Go("op")
  /\ UNCHANGED <<pg, graph, order, plan, runs, file, undoing, due, torn, left>>

-----------------------------------------------------------------------------
\* _apply_phase: one operation after the other

More == At("op") /\ proc.seq < Len(plan)

\* Mutant: off by one.
FreshOffByOne == proc.seq > proc.last + 1

Fresh == proc.seq > proc.last

\* At or below the checkpoint.
Pass ==
  /\ More /\ ~Fresh
  /\ proc' = NextOp
  /\ UNCHANGED <<pg, graph, order, plan, runs, file, undoing, due, torn, left>>

PassAudit ==
  /\ More /\ Fresh /\ op = Audit
  /\ \/ /\ runs' = [runs EXCEPT ![proc.run].last = proc.seq]
        /\ proc' = NextOp /\ UNCHANGED left
     \/ Fail
  /\ UNCHANGED <<pg, graph, order, plan, file, undoing, due, torn>>

\* _llm_budget_breach: reported, and the checkpoint stays where it is.
OverBudget ==
  /\ More /\ Fresh /\ op \in Merges
  /\ proc' = [NextOp EXCEPT !.skipped = TRUE]
  /\ UNCHANGED <<pg, graph, order, plan, runs, file, undoing, due, torn, left>>

Dealt == due' = [due EXCEPT ![proc.run] = @ \ {op}]

\* Mutant: the entry is not part of the transaction.
ApplyUnmarked ==
  /\ More /\ Fresh /\ op \in Items
  /\ Hide(op)
  /\ runs' = [runs EXCEPT ![proc.run].last = proc.seq]
  /\ Go("mirror") /\ Dealt
  /\ UNCHANGED <<graph, order, plan, file, undoing, torn, left>>

\* _apply_one_op: effect, checkpoint and pending entry in one transaction.  The
\* judge may defer a merge; the transaction may fail and leave nothing behind.
Apply ==
  /\ More /\ Fresh /\ op \in Items
  /\ \/ /\ Hide(op)
        /\ runs' = [runs EXCEPT ![proc.run].last = proc.seq,
                                ![proc.run].pending = Marked(@, proc.seq, op)]
        /\ torn' = IF undoing = op THEN torn \cup {op} ELSE torn
        /\ Go("mirror") /\ Dealt /\ UNCHANGED left
     \/ /\ op \in Merges
        /\ runs' = [runs EXCEPT ![proc.run].last = proc.seq]
        /\ Go("rewrite") /\ Dealt
        /\ UNCHANGED <<pg, torn, left>>
     \/ Fail /\ UNCHANGED <<pg, torn, due>>
  /\ UNCHANGED <<graph, order, plan, file, undoing>>

\* _mirror_dream_op, after the commit.  A failure is reported and queued (it
\* is); the queueing may fail too.
MirrorOp ==
  /\ At("mirror")
  /\ \/ Mirror(op) /\ Go("clear") /\ UNCHANGED <<runs, left>>
     \/ /\ Trouble
        /\ runs' = [runs EXCEPT ![proc.run].pending = Marked(@, proc.seq, op)]
        /\ proc' = [proc EXCEPT !.pc = "write", !.degraded = TRUE]
        /\ UNCHANGED <<graph, torn>>
     \/ Fail /\ UNCHANGED <<graph, torn>>
  /\ UNCHANGED <<pg, order, plan, file, undoing, due>>

ClearOp ==
  /\ At("clear")
  /\ \/ /\ runs' = clear_graph_mirror_pending(proc.run, proc.seq)
        /\ Go("write") /\ UNCHANGED left
     \/ Fail
  /\ UNCHANGED <<pg, graph, order, plan, file, undoing, due, torn>>

\* write_undo_incremental: the whole file, with the records of this attempt (a
\* deferred merge has nothing to undo); a failure is only logged.
WriteUndo ==
  LET recs == IF At("write") THEN proc.recs \cup ({op} \cap Merges) ELSE proc.recs IN
  /\ At("write") \/ At("rewrite")
  /\ proc' = [NextOp EXCEPT !.recs = recs]
  /\ \/ file' = [file EXCEPT ![proc.run] = recs] /\ UNCHANGED left
     \/ Trouble /\ UNCHANGED file
  /\ UNCHANGED <<pg, graph, order, plan, runs, undoing, due, torn>>

\* The loop is over, or cancel_flag is set.
LoopEnds ==
  /\ At("op")
  /\ \/ proc.seq = Len(plan) /\ Go("finish")
     \/ More /\ proc' = [proc EXCEPT !.pc = "finish", !.cancelled = TRUE]
  /\ UNCHANGED <<pg, graph, order, plan, runs, file, undoing, due, torn, left>>

Finish ==
  /\ At("finish")
  /\ \/ /\ runs' = [runs EXCEPT ![proc.run].state = "completed"]
        /\ proc' = Idle /\ UNCHANGED left
     \/ Fail
  /\ UNCHANGED <<pg, graph, order, plan, file, undoing, due, torn>>

\* The process dies; PostgreSQL lets go of the lock.
Crash ==
  /\ proc # Idle /\ Trouble
  /\ proc' = Idle
  /\ UNCHANGED <<pg, graph, order, plan, runs, file, undoing, due, torn>>

-----------------------------------------------------------------------------
\* dream_undo, under no lock

\* Mutant: only PostgreSQL is reversed.
UndoRelationalOnly(r, x) ==
  /\ undoing = None /\ left.undos > 0 /\ x \in file[r]
  /\ Show(x)
  /\ left' = [left EXCEPT !.undos = @ - 1]
  /\ torn' = IF Queued(x) THEN torn \cup {x} ELSE torn
  /\ UNCHANGED <<graph, order, plan, runs, file, proc, undoing, due>>

\* The record is found in a file, and PostgreSQL reversed.  Edges are pointed
\* back even when that was done before, so a second undo is a change as well.
Undo(r, x) ==
  /\ undoing = None /\ left.undos > 0 /\ x \in file[r]
  /\ Show(x)
  /\ undoing' = x
  /\ left' = [left EXCEPT !.undos = @ - 1]
  /\ torn' = IF Queued(x) THEN torn \cup {x} ELSE torn
  /\ UNCHANGED <<graph, order, plan, runs, file, proc, due>>

\* _unmirror_dream_op; a failure is counted and the graph left as it is.
Unmirror ==
  /\ undoing # None
  /\ undoing' = None
  /\ \/ graph' = graph \ {undoing} /\ UNCHANGED <<torn, left>>
     \/ Trouble /\ torn' = torn \cup {undoing} /\ UNCHANGED graph
  /\ UNCHANGED <<pg, order, plan, runs, file, proc, due>>

-----------------------------------------------------------------------------
Next ==
  \/ \E r \in Runs : Start(r) \/ Resume(r)
  \/ Plan \/ ReadPending \/ DrainClear \/ DrainEnds
  \/ At("drainop") /\ \E e \in proc.todo : DrainOne(e)
  \/ Pass \/ PassAudit \/ OverBudget \/ Apply
  \/ MirrorOp \/ ClearOp \/ WriteUndo \/ LoopEnds \/ Finish \/ Crash
  \/ \E r \in Runs, x \in Merges : Undo(r, x)
  \/ Unmirror

Spec == Init /\ [][Next]_vars

-----------------------------------------------------------------------------
\* Properties

\* Whatever crashes between the commit and the mirror, an item PostgreSQL
\* hides and the graph still shows is queued for the reconciler
\* (_pre_mark_graph_mirror_pending), unless an undo cut across it.
LagIsQueued == \A x \in pg \ graph : Queued(x) \/ x \in torn

\* A run about to return without a degradation leaves nothing hidden in
\* PostgreSQL that the graph still shows, whichever run left it behind
\* (_drain_graph_mirror_pending is namespace-wide; _mirror_dream_op reports).
QuietRunConverged ==
  At("finish") /\ ~proc.degraded => pg \ graph \subseteq torn

\* What the graph hides PostgreSQL hides as well, or dream_undo is about to
\* show it again, unless that undo failed or met the operation still queued.
UndoConverges == graph \ pg \subseteq torn \cup {undoing}

\* A run that was not resumed, cancelled or short of tokens has dealt with
\* every operation it planned (the loop of _apply_phase).
PlanIsCarriedOut ==
  At("finish") /\ ~proc.resumed /\ ~proc.cancelled /\ ~proc.skipped => due[proc.run] = {}

\* A run's checkpoint never goes back, so that no attempt commits an operation
\* under a number already used (_init_run_row on resume, advance_checkpoint).
CheckpointAdvances == [][\A r \in Runs : runs'[r].last >= runs[r].last]_vars

\* What docs/dream-phase.md says of resume_from: the crashed run is re-entered
\* after its last committed operation, so the resumed attempt deals with the
\* rest.  The plan is made anew without the committed operations, and the
\* checkpoint counts into the old one.
ResumeCarriesOut ==
  At("finish") /\ ~proc.cancelled /\ ~proc.skipped => due[proc.run] = {}

-----------------------------------------------------------------------------
(* What makes the invariants inductive (module DreamProofs) *)

Draining == {"drainop", "drained"}
Applying == {"op", "mirror", "clear", "write", "rewrite", "finish"}
Open(e) == <<e[2], e[3]>> \in runs[e[1]].pending
Settled(x) == x \in pg => x \in graph \/ x \in torn

\* An entry is known by its number: numbers are only used above the checkpoint.
PendingKeyed ==
  /\ \A r \in Runs : \A e, f \in runs[r].pending : e[1] = f[1] => e = f
  /\ At("drain") \/ proc.pc \in Draining =>
       runs[proc.run].last <= proc.last
  /\ At("op") => runs[proc.run].last <= proc.last \/ runs[proc.run].last < proc.seq
  /\ proc.pc \in {"mirror", "clear", "write", "rewrite"} => runs[proc.run].last <= proc.seq

\* An entry is cleared only once its item is mirrored or shown again.
ClearedIsMirrored ==
  /\ proc.pc \in {"mirror", "clear"} =>
       op \in Items /\ <<proc.seq, op>> \in runs[proc.run].pending
  /\ At("clear") => Settled(op)
  /\ proc.pc \in Draining => \A e \in proc.todo : Open(e)
  /\ At("drained") => proc.entry \in proc.todo /\ Settled(proc.entry[3])

\* Undo and the queue: what an undo leaves ambiguous is torn.
UndoIsAccounted ==
  /\ undoing \in pg => undoing \in torn
  /\ \A r \in Runs : \A e \in runs[r].pending : e[2] \notin pg => e[2] \in torn

\* While nothing was reported, what is not converged is still to be mirrored.
QuietSoFar ==
  (proc # Idle /\ ~proc.degraded) =>
    \A x \in pg \ graph :
      /\ proc.pc \in Draining => x \in torn \/ \E e \in proc.todo : e[3] = x
      /\ proc.pc \in Applying => x \in torn \/ (At("mirror") /\ x = op)

IInv ==
  /\ TypeOK /\ PendingKeyed /\ ClearedIsMirrored /\ UndoIsAccounted /\ QuietSoFar
  /\ LagIsQueued /\ UndoConverges
=============================================================================
