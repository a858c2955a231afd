-------------------------- MODULE PendingProcessor --------------------------
(***************************************************************************)
(* Khora's deferred ingestion: submit_batch, the unified pending processor *)
(* and the crash recovery of orphaned documents (khora/khora.py), with the *)
(* per-document pipeline a worker runs (vectorcypher/engine.py).           *)
(*                                                                         *)
(* A batch stages its documents as PENDING rows, then puts one queue item  *)
(* per document.  A pool of workers loads each row, writes its chunks      *)
(* window by window under a process-wide chunk semaphore, stores the final *)
(* status and delivers one result to the batch.  Rows and chunks survive a *)
(* crash; the queue, the workers, the handles and the semaphores do not.   *)
(*                                                                         *)
(* A batch submits one content for each of its documents, so the batch     *)
(* itself serves as the version of that content.                           *)
(***************************************************************************)
EXTENDS Naturals, Sequences, FiniteSets, SequencesExt

CONSTANTS
  Docs,          \* external ids
  Batches,       \* submit_batch calls
  Plans,         \* what the callers submit, a list of documents per batch, and
                 \* the bound on trouble: failing calls, stops, crashes and
                 \* deletions, together
  Workers,       \* the pool, pending_processor_max_concurrent tasks
  None,          \* no batch (an orphan's item), no version
  MaxConcurrent, \* the per-batch cap
  ChunkCap,      \* the capacity of the chunk semaphore, in windows
  Windows        \* windows per document

ASSUME ProcessorAssumption ==
  /\ IsFiniteSet(Docs) /\ IsFiniteSet(Workers)
  /\ None \notin Batches
  /\ Plans \subseteq [submit : [Batches -> Seq(Docs)], trouble : Nat]
  /\ {MaxConcurrent, ChunkCap, Windows} \subseteq Nat \ {0}

VARIABLES
  row,      \* the documents table: status, version and incarnation
  chunks,   \* copies of each window of each version in khora_chunks (0..2)
  sub,      \* progress of each submit_batch call
  handle,   \* the BatchHandle and _BatchRegistration of each batch
  queue,    \* _processor_queue
  wk,       \* the workers
  proc,     \* _processor_task: off, scanning for orphans, draining
  sem,      \* _chunk_semaphore: created or not, tokens in flight
  tainted,  \* history: documents run twice, cut, or queued once completed
  left      \* trouble that may still come

vars == <<row, chunks, sub, handle, queue, wk, proc, sem, tainted, left>>

Status == {"none", "pending", "processing", "completed", "failed"}
Item == [doc : Docs, inc : Nat, batch : Batches \cup {None}]
NoChunks == [v \in Batches |-> [n \in 1..Windows |-> 0]]

TypeOK ==
  /\ row \in [Docs -> [st : Status, ver : Batches \cup {None}, inc : Nat]]
  /\ chunks \in [Docs -> [Batches -> [1..Windows -> 0..2]]]
  /\ sub \in [Batches -> [pc : {"idle", "staging", "done", "raised", "gone"},
                          todo : Seq(Docs), seen : [Docs -> Status],
                          inc : [Docs -> Nat], pending : Seq(Docs),
                          failed : SUBSET Docs, skipped : SUBSET Docs]]
  /\ handle \in [Batches -> [docs : SUBSET Docs, fired : [Docs -> 0..2],
                             remaining : 0..Cardinality(Docs),
                             done : BOOLEAN, lost : SUBSET Docs]]
  /\ queue \in Seq(Item)
  /\ wk \in [Workers -> [pc : {"idle", "gate", "clear", "window",
                               "store", "finish", "fail"},
                         item : Item \cup {None}, ver : Batches \cup {None},
                         win : Nat, bounded : BOOLEAN]]
  /\ proc \in {"off", "scan", "run"}
  /\ sem \in [made : BOOLEAN, used : 0..ChunkCap]
  /\ tainted \subseteq Docs
  /\ left \in Nat

IdleSub == [pc |-> "idle", todo |-> <<>>, seen |-> [d \in Docs |-> "none"],
            inc |-> [d \in Docs |-> 0],
            pending |-> <<>>, failed |-> {}, skipped |-> {}]
NewHandle == [docs |-> {}, fired |-> [d \in Docs |-> 0], remaining |-> 0,
              done |-> FALSE, lost |-> {}]
Resting == [pc |-> "idle", item |-> None, ver |-> None, win |-> 0,
            bounded |-> FALSE]

Init ==
  /\ row = [d \in Docs |-> [st |-> "none", ver |-> None, inc |-> 0]]
  /\ chunks = [d \in Docs |-> NoChunks]
  /\ \E plan \in Plans :
       /\ sub = [b \in Batches |-> [IdleSub EXCEPT !.todo = plan.submit[b]]]
       /\ left = plan.trouble
  /\ handle = [b \in Batches |-> NewHandle]
  /\ queue = <<>>
  /\ wk = [w \in Workers |-> Resting]
  /\ proc = "off"
  /\ sem = [made |-> FALSE, used |-> 0]
  /\ tainted = {}

-----------------------------------------------------------------------------
\* Helpers

Trouble == left > 0 /\ left' = left - 1

Busy(w) == wk[w].pc # "idle"
Holding(w, d) == Busy(w) /\ wk[w].item.doc = d
Queued(d) == \E i \in DOMAIN queue : queue[i].doc = d
Live(d) == Queued(d) \/ \E w \in Workers : Holding(w, d)

\* fire_result: count the result, decrement _remaining, mark done at zero.
\* Results go to documents of the batch only; the callback is not modelled
\* beyond the call (its exceptions are swallowed).
fire_result(h, ds) ==
  LET rest == IF h.remaining > Cardinality(ds)
              THEN h.remaining - Cardinality(ds) ELSE 0
  IN [h EXCEPT !.fired = [d \in Docs |-> IF d \in ds /\ @[d] < 2
                                         THEN @[d] + 1 ELSE @[d]],
               !.remaining = rest,
               !.done = @ \/ (ds # {} /\ rest = 0)]

Deliver(item) ==
  handle' = IF item.batch = None THEN handle
            ELSE [handle EXCEPT ![item.batch] = fire_result(@, {item.doc})]

\* update_document: UPDATE ... WHERE id = document.id.  It writes the whole
\* loaded document, whatever the row holds now, and matches nothing when the
\* document was deleted.
update_document(item, st, ver) ==
  row' = IF row[item.doc].st # "none" /\ row[item.doc].inc = item.inc
         THEN [row EXCEPT ![item.doc].st = st, ![item.doc].ver = ver]
         ELSE row

-----------------------------------------------------------------------------
\* submit_batch

\* The batch is submitted: the existing rows are looked up in one query.  The
\* lookup may fail, and every document is then treated as new.  (An empty list
\* returns a finished handle and touches nothing.)
Lookup(b) ==
  LET ds == sub[b].todo IN
  /\ sub[b].pc = "idle" /\ ds # <<>>
  /\ \/ /\ sub' = [sub EXCEPT ![b].pc = "staging",
                   ![b].seen = [d \in Docs |-> IF Contains(ds, d) THEN row[d].st ELSE "none"],
                   ![b].inc = [d \in Docs |-> row[d].inc]]
        /\ UNCHANGED left
     \/ /\ Trouble
        /\ \E d \in Range(ds) : row[d].st # "none"
        /\ sub' = [sub EXCEPT ![b].pc = "staging"]
  /\ UNCHANGED <<row, chunks, handle, queue, wk, proc, sem, tainted>>

\* The staging loop is at document d of batch b; the ones it is done with.
NextUp(b, d) == sub[b].pc = "staging" /\ sub[b].todo # <<>> /\ d = Head(sub[b].todo)
Handled(b) == Range(sub[b].pending) \cup sub[b].failed \cup sub[b].skipped

\* A document the batch named before is passed over.
StageRepeat(b, d) ==
  /\ NextUp(b, d) /\ d \in Handled(b)
  /\ sub' = [sub EXCEPT ![b].todo = Tail(@)]
  /\ UNCHANGED <<row, chunks, handle, queue, wk, proc, sem, tainted, left>>

\* A document found COMPLETED or PROCESSING is skipped.
StageSkip(b, d) ==
  /\ NextUp(b, d) /\ d \notin Handled(b)
  /\ sub[b].seen[d] \in {"completed", "processing"}
  /\ sub' = [sub EXCEPT ![b].todo = Tail(@), ![b].skipped = @ \cup {d}]
  /\ UNCHANGED <<row, chunks, handle, queue, wk, proc, sem, tainted, left>>

\* A document found PENDING or FAILED is reset to PENDING with the batch's
\* content: an UPDATE by id of what the lookup returned, however stale.
StageRequeue(b, d) ==
  /\ NextUp(b, d) /\ d \notin Handled(b)
  /\ sub[b].seen[d] \in {"pending", "failed"}
  /\ \/ /\ update_document([doc |-> d, inc |-> sub[b].inc[d]], "pending", b)
        /\ sub' = [sub EXCEPT ![b].todo = Tail(@), ![b].pending = Append(@, d)]
        /\ UNCHANGED left
     \/ /\ Trouble
        /\ sub' = [sub EXCEPT ![b].todo = Tail(@), ![b].failed = @ \cup {d}]
        /\ UNCHANGED <<row>>
  /\ UNCHANGED <<chunks, handle, queue, wk, proc, sem, tainted>>

\* A new document is inserted; the unique index refuses a second row with the
\* same external id, and the document is then reported as failed.
StageInsert(b, d) ==
  /\ NextUp(b, d) /\ d \notin Handled(b)
  /\ sub[b].seen[d] = "none"
  /\ \/ /\ row[d].st = "none"
        /\ row' = [row EXCEPT ![d].st = "pending", ![d].ver = b]
        /\ sub' = [sub EXCEPT ![b].todo = Tail(@), ![b].pending = Append(@, d),
                              ![b].inc[d] = row[d].inc]
     \/ /\ row[d].st # "none"
        /\ sub' = [sub EXCEPT ![b].todo = Tail(@), ![b].failed = @ \cup {d}]
        /\ UNCHANGED <<row>>
  /\ UNCHANGED <<chunks, handle, queue, wk, proc, sem, tainted, left>>

ItemsOf(b) ==
  [i \in DOMAIN sub[b].pending |->
     LET d == sub[b].pending[i]
     IN [doc |-> d, inc |-> sub[b].inc[d], batch |-> b]]

\* A second run over chunks that are there and that nothing will clear, the
\* batch not having seen the document FAILED; or a run of a document that
\* another batch completed after this one staged it.
Uncleared(b, d) == chunks[d] # NoChunks /\ sub[b].seen[d] # "failed"
Overtaken(d) == row[d].st = "completed"

\* Everything is staged: the semaphore is created by the first batch, the
\* handle is made, failed and skipped documents get their results, and the
\* pending ones are queued - or the call raises, the processor not running,
\* and the rows stay PENDING.
Enqueue(b) ==
  LET pend == Range(sub[b].pending)
      all == pend \cup sub[b].failed \cup sub[b].skipped
      h == [NewHandle EXCEPT !.docs = all, !.remaining = Cardinality(all)]
      preFailed == [d \in Docs |-> IF d \in pend /\ sub[b].seen[d] = "failed"
                                   THEN "failed" ELSE "none"]
  IN
  /\ sub[b].pc = "staging" /\ sub[b].todo = <<>>
  /\ sem' = [sem EXCEPT !.made = TRUE]
  /\ handle' = [handle EXCEPT ![b] = fire_result(h, sub[b].failed \cup sub[b].skipped)]
  /\ \/ /\ pend = {} \/ proc # "off"
        /\ queue' = queue \o ItemsOf(b)
        /\ sub' = [sub EXCEPT ![b] = [IdleSub EXCEPT !.pc = "done", !.seen = preFailed]]
        /\ tainted' = tainted \cup {d \in pend : Live(d) \/ Uncleared(b, d)
                                                           \/ Overtaken(d)}
     \/ /\ pend # {} /\ proc = "off"
        /\ sub' = [sub EXCEPT ![b] = [IdleSub EXCEPT !.pc = "raised"]]
        /\ UNCHANGED <<queue, tainted>>
  /\ UNCHANGED <<row, chunks, wk, proc, left>>

-----------------------------------------------------------------------------
\* The processor task

start_pending_processor ==
  /\ proc = "off" /\ proc' = "scan"
  /\ UNCHANGED <<row, chunks, sub, handle, queue, wk, sem, tainted, left>>

Orphaned == {d \in Docs : row[d].st \in {"pending", "processing"}}

\* claim_orphaned_documents: stale PENDING and PROCESSING rows become
\* PROCESSING and are queued without a batch.  The scan may fail; the workers
\* start all the same, and no other scan follows.  Row ages are not kept: any
\* set of the candidates may be past its grace period.
EnqueueOrphans ==
  /\ proc = "scan" /\ proc' = "run"
  /\ \E claimed \in SUBSET Orphaned :
     LET items == [i \in 1..Cardinality(claimed) |->
                     LET d == SetToSeq(claimed)[i]
                     IN [doc |-> d, inc |-> row[d].inc, batch |-> None]]
     IN \/ /\ row' = [d \in Docs |-> IF d \in claimed
                                     THEN [row[d] EXCEPT !.st = "processing"]
                                     ELSE row[d]]
           /\ queue' = queue \o items
           /\ tainted' = tainted \cup claimed
           /\ UNCHANGED left
        \/ /\ Trouble
           /\ UNCHANGED <<row, queue, tainted>>
  /\ UNCHANGED <<chunks, sub, handle, wk, sem>>

\* What a cancelled or killed worker leaves: its item is gone from the queue
\* and no result follows.
Dropped == {w \in Workers : Busy(w)}
DroppedOf(b) == {wk[w].item.doc : w \in {x \in Dropped : wk[x].item.batch = b}}
TokensHeld == {w \in Workers : wk[w].pc = "store" /\ wk[w].bounded}

\* stop_pending_processor (and disconnect): the task and its workers are
\* cancelled, the semaphores are released by their finally blocks, the queue
\* keeps what no worker had taken.
stop_pending_processor ==
  /\ proc # "off" /\ Trouble
  /\ proc' = "off"
  /\ wk' = [w \in Workers |-> Resting]
  /\ sem' = [sem EXCEPT !.used = @ - Cardinality(TokensHeld)]
  /\ handle' = [b \in Batches |-> [handle[b] EXCEPT !.lost = @ \cup DroppedOf(b)]]
  /\ tainted' = tainted \cup {wk[w].item.doc : w \in Dropped}
  /\ UNCHANGED <<row, chunks, sub, queue>>

\* The process dies and a new one starts: only rows and chunks are left.
Crash ==
  /\ Trouble
  /\ proc' = "off"
  /\ wk' = [w \in Workers |-> Resting]
  /\ sem' = [made |-> FALSE, used |-> 0]
  /\ queue' = <<>>
  /\ sub' = [b \in Batches |-> IF sub[b].pc = "idle" THEN sub[b]
                               ELSE [IdleSub EXCEPT !.pc = "gone"]]
  /\ handle' = [b \in Batches |-> NewHandle]
  /\ tainted' = tainted \cup {wk[w].item.doc : w \in Dropped}
  /\ UNCHANGED <<row, chunks>>

-----------------------------------------------------------------------------
\* A worker

\* Idle workers are alike, so one of them stands for all in taking an item.
FirstIdle(w) == ~Busy(w) /\ w = CHOOSE x \in Workers : ~Busy(x)

\* The next item is taken and _load_pending_document reads its row again.  A
\* deleted row is a skipped result, a failing read a failed one; neither
\* touches the row.  (Nobody sees the item between the two, so they are one
\* step.)
LoadDocument(w) ==
  LET item == Head(queue)  d == item.doc IN
  /\ proc = "run" /\ FirstIdle(w) /\ queue # <<>>
  /\ queue' = Tail(queue)
  /\ \/ /\ row[d].st # "none" /\ row[d].inc = item.inc
        /\ wk' = [wk EXCEPT ![w].pc = "gate", ![w].item = item, ![w].ver = row[d].ver]
        /\ UNCHANGED <<handle, left>>
     \/ /\ row[d].st = "none" \/ row[d].inc # item.inc
        /\ Deliver(item)
        /\ UNCHANGED <<wk, left>>
     \/ /\ Trouble
        /\ Deliver(item)
        /\ UNCHANGED wk
  /\ UNCHANGED <<row, chunks, sub, proc, sem, tainted>>

InGate(b) == {w \in Workers : /\ wk[w].pc \notin {"idle", "gate"}
                              /\ wk[w].item.batch = b}

\* Mutant: the cap is off by one, and a cap of one lets nobody in.
GateOffByOne(w) ==
  LET item == wk[w].item IN
  /\ wk[w].pc = "gate"
  /\ item.batch # None => Cardinality(InGate(item.batch)) + 1 < MaxConcurrent
  /\ wk' = [wk EXCEPT ![w].win = 1, ![w].bounded = sem.made,
              ![w].pc = IF item.batch # None /\ sub[item.batch].seen[item.doc] = "failed"
                        THEN "clear" ELSE "window"]
  /\ UNCHANGED <<row, chunks, sub, handle, queue, proc, sem, tainted, left>>

\* _process_pending_item: the batch's own semaphore; orphans pass.  The chunk
\* semaphore is the one that exists when the processing starts.
EnterGate(w) ==
  LET item == wk[w].item IN
  /\ wk[w].pc = "gate"
  /\ item.batch # None => Cardinality(InGate(item.batch)) < MaxConcurrent
  /\ wk' = [wk EXCEPT ![w].win = 1, ![w].bounded = sem.made,
              ![w].pc = IF item.batch # None /\ sub[item.batch].seen[item.doc] = "failed"
                        THEN "clear" ELSE "window"]
  /\ UNCHANGED <<row, chunks, sub, handle, queue, proc, sem, tainted, left>>

\* Work before the inner try raises: the worker loop's own handler marks the
\* document FAILED and delivers the result, for a batch's document only.
PreTryFault(w) ==
  LET item == wk[w].item IN
  /\ wk[w].pc = "window" /\ wk[w].win = 1 /\ Trouble
  /\ \/ item.batch # None /\ update_document(item, "failed", wk[w].ver)
     \/ UNCHANGED row
  /\ Deliver(item)
  /\ wk' = [wk EXCEPT ![w] = Resting]
  /\ UNCHANGED <<chunks, sub, queue, proc, sem, tainted>>

\* Mutant: a FAILED document runs again on top of what it left.
NothingCleared(w) ==
  /\ wk[w].pc = "clear"
  /\ wk' = [wk EXCEPT ![w].pc = "window"]
  /\ UNCHANGED <<row, chunks, sub, handle, queue, proc, sem, tainted, left>>

\* The chunks of a document that had FAILED are deleted before it runs again,
\* best effort.
ClearExtraction(w) ==
  LET d == wk[w].item.doc IN
  /\ wk[w].pc = "clear"
  /\ wk' = [wk EXCEPT ![w].pc = "window"]
  /\ \/ /\ chunks' = [chunks EXCEPT ![d] = IF row[d].inc = wk[w].item.inc
                                           THEN NoChunks ELSE @]
        /\ UNCHANGED <<tainted, left>>
     \/ /\ Trouble
        /\ tainted' = tainted \cup {d}
        /\ UNCHANGED chunks
  /\ UNCHANGED <<row, sub, handle, queue, proc, sem>>

\* _GlobalChunkSemaphore.acquire, for one window.
AcquireWindow(w) ==
  /\ wk[w].pc = "window"
  /\ wk[w].bounded => sem.used < ChunkCap
  /\ sem' = [sem EXCEPT !.used = IF wk[w].bounded THEN @ + 1 ELSE @]
  /\ wk' = [wk EXCEPT ![w].pc = "store"]
  /\ UNCHANGED <<row, chunks, sub, handle, queue, proc, tainted, left>>

Release(w) == sem' = [sem EXCEPT !.used = IF wk[w].bounded THEN @ - 1 ELSE @]

\* Mutant: the token is given back on success only.
TokenLeaksOnError(w) ==
  LET d == wk[w].item.doc  v == wk[w].ver IN
  /\ wk[w].pc = "store"
  /\ \/ /\ Release(w)
        /\ chunks' = IF row[d].inc = wk[w].item.inc
                     THEN [chunks EXCEPT ![d][v][wk[w].win] = IF @ < 2 THEN @ + 1 ELSE 2]
                     ELSE chunks
        /\ wk' = [wk EXCEPT ![w].win = @ + 1,
                            ![w].pc = IF wk[w].win = Windows THEN "finish" ELSE "window"]
        /\ UNCHANGED left
     \/ /\ Trouble
        /\ wk' = [wk EXCEPT ![w].pc = "fail"]
        /\ UNCHANGED <<chunks, sem>>
  /\ UNCHANGED <<row, sub, handle, queue, proc, tainted>>

\* The window is embedded and its chunks inserted under new ids: a window
\* written twice is there twice.  A failure comes before the insert, or after
\* it (extraction).  Chunks written under a deleted id are out of reach and not
\* followed.
StoreWindow(w) ==
  LET d == wk[w].item.doc  v == wk[w].ver
      inserted == IF row[d].inc = wk[w].item.inc
                  THEN [chunks EXCEPT ![d][v][wk[w].win] = IF @ < 2 THEN @ + 1 ELSE 2]
                  ELSE chunks IN
  /\ wk[w].pc = "store"
  /\ Release(w)
  /\ \/ /\ chunks' = inserted
        /\ wk' = [wk EXCEPT ![w].win = @ + 1,
                            ![w].pc = IF wk[w].win = Windows THEN "finish" ELSE "window"]
        /\ UNCHANGED left
     \/ /\ Trouble
        /\ wk' = [wk EXCEPT ![w].pc = "fail"]
        /\ chunks' \in {chunks, inserted}
  /\ UNCHANGED <<row, sub, handle, queue, proc, tainted>>

\* Mutant: the result is delivered before the status is stored, and delivered
\* again when the store fails.
ResultBeforeStore(w) ==
  LET item == wk[w].item IN
  /\ wk[w].pc = "finish"
  /\ Deliver(item)
  /\ \/ /\ update_document(item, "completed", wk[w].ver)
        /\ wk' = [wk EXCEPT ![w] = Resting]
        /\ UNCHANGED left
     \/ /\ Trouble
        /\ wk' = [wk EXCEPT ![w].pc = "fail"]
        /\ UNCHANGED row
  /\ UNCHANGED <<chunks, sub, queue, proc, sem, tainted>>

\* mark_completed, stored with the document as it was loaded; then the result.
Finish(w) ==
  LET item == wk[w].item IN
  /\ wk[w].pc = "finish"
  /\ \/ /\ update_document(item, "completed", wk[w].ver)
        /\ Deliver(item)
        /\ wk' = [wk EXCEPT ![w] = Resting]
        /\ UNCHANGED left
     \/ /\ Trouble
        /\ wk' = [wk EXCEPT ![w].pc = "fail"]
        /\ UNCHANGED <<row, handle>>
  /\ UNCHANGED <<chunks, sub, queue, proc, sem, tainted>>

\* Mutant: the handler stores the status it has, COMPLETED.
FailureCompletes(w) ==
  LET item == wk[w].item IN
  /\ wk[w].pc = "fail"
  /\ update_document(item, "completed", wk[w].ver)
  /\ Deliver(item)
  /\ wk' = [wk EXCEPT ![w] = Resting]
  /\ UNCHANGED <<chunks, sub, queue, proc, sem, tainted, left>>

\* The inner handler: mark_failed, stored best effort; then the result.
FailDocument(w) ==
  LET item == wk[w].item IN
  /\ wk[w].pc = "fail"
  /\ \/ /\ update_document(item, "failed", wk[w].ver)
        /\ UNCHANGED <<left, tainted>>
     \/ /\ Trouble
        /\ tainted' = tainted \cup {item.doc}
        /\ UNCHANGED row
  /\ Deliver(item)
  /\ wk' = [wk EXCEPT ![w] = Resting]
  /\ UNCHANGED <<chunks, sub, queue, proc, sem>>

-----------------------------------------------------------------------------
\* The environment

\* The document is forgotten: its chunks, then its row.
Forget(d) ==
  /\ row[d].st # "none" /\ Trouble
  /\ row' = [row EXCEPT ![d] = [st |-> "none", ver |-> None, inc |-> @.inc + 1]]
  /\ chunks' = [chunks EXCEPT ![d] = NoChunks]
  /\ tainted' = tainted \ {d}
  /\ UNCHANGED <<sub, handle, queue, wk, proc, sem>>

Stage(b) == \E d \in Docs : \/ StageRepeat(b, d) \/ StageSkip(b, d)
                            \/ StageRequeue(b, d) \/ StageInsert(b, d)

Step(w) ==
  \/ LoadDocument(w) \/ EnterGate(w) \/ ClearExtraction(w)
  \/ AcquireWindow(w) \/ StoreWindow(w) \/ Finish(w) \/ FailDocument(w)

Next ==
  \/ \E b \in Batches : Lookup(b) \/ Stage(b) \/ Enqueue(b)
  \/ start_pending_processor \/ EnqueueOrphans
  \/ stop_pending_processor \/ Crash
  \/ \E w \in Workers : Step(w) \/ PreTryFault(w)
  \/ \E d \in Docs : Forget(d)

\* The event loop runs every task that is ready: a worker's step and the scan
\* are not postponed for ever.  Nothing is assumed of the callers, of time or
\* of failures.
Fairness == WF_vars(EnqueueOrphans) /\ \A w \in Workers : WF_vars(Step(w))

Spec == Init /\ [][Next]_vars /\ Fairness

-----------------------------------------------------------------------------
\* Properties

Open(b) == sub[b].pc = "done" /\ ~handle[b].done
Awaited(b) == {d \in handle[b].docs : handle[b].fired[d] = 0}

\* wait() and on_result: no document of a batch is reported twice, the handle
\* is done exactly when every document was reported, and until then each
\* unreported document has one item, in the queue or with a worker, unless a
\* stop took it from a worker.
ResultsExact ==
  \A b \in {x \in Batches : sub[x].pc = "done"} :
    LET h == handle[b]
        held == {w \in Workers : Busy(w) /\ wk[w].item.batch = b}
        items == {i \in DOMAIN queue : queue[i].batch = b}
    IN /\ \A d \in Docs : h.fired[d] <= 1 /\ (h.fired[d] = 1 => d \in h.docs)
       /\ h.done <=> Awaited(b) = {}
       /\ h.remaining = Cardinality(Awaited(b))
       /\ Cardinality(held) + Cardinality(items) + Cardinality(h.lost) = h.remaining
       /\ Awaited(b) = {wk[w].item.doc : w \in held}
                         \cup {queue[i].doc : i \in items} \cup h.lost

\* The chunk semaphore: the tokens in flight are those of the workers between
\* acquire and release, on every path out of a window, a cancellation too.
TokensReturned == sem.used = Cardinality(TokensHeld)

Indexed(d) == /\ row[d].ver # None
              /\ \A n \in 1..Windows : chunks[d][row[d].ver][n] > 0

\* COMPLETED means processed: the chunks of the row's own content are there,
\* but for a document that two items were at, that was queued when another
\* batch had just completed it, or that lost a worker half way.
CompletedIsIndexed ==
  \A d \in Docs : row[d].st = "completed" /\ d \notin tainted => Indexed(d)

\* A retry leaves no duplicates: outside of the tainted documents a COMPLETED
\* document has one copy of its own content and nothing of another.
RetryLeavesNoDuplicates ==
  \A d \in Docs : row[d].st = "completed" /\ d \notin tainted =>
    \A v \in Batches, n \in 1..Windows :
      chunks[d][v][n] = (IF v = row[d].ver THEN 1 ELSE 0)

\* BatchHandle.wait returns: an open handle becomes done, unless the process
\* crashes, the processor is stopped, or a stop already took one of the
\* batch's items from a worker.
WaitReturns ==
  \A b \in Batches :
    Open(b) ~> (~Open(b) \/ proc = "off" \/ handle[b].lost # {})
=============================================================================
