----------------------- MODULE PendingProcessorProofs -----------------------
(***************************************************************************)
(* The safety properties of PendingProcessor, for any documents, batches,  *)
(* workers, windows and amount of trouble.                                 *)
(*                                                                         *)
(* Inv has three parts.  Base is the types and the semaphore's count,      *)
(* which need each other: a token given back must have been taken.  Links  *)
(* ties batches, items and rows together by incarnation, so that an item   *)
(* left over from a forgotten document is told from one that is current.   *)
(* AloneInv says that an untainted document has at most one current item,  *)
(* none once COMPLETED, and that a worker has written exactly the windows  *)
(* below its own: from it follow CompletedIsIndexed and                    *)
(* RetryLeavesNoDuplicates.  ResultInv, on top of Inv, matches what a      *)
(* handle waits for with the places of its items one to one; ResultsExact  *)
(* is what that says in numbers.                                           *)
(***************************************************************************)
EXTENDS PendingProcessor, TLAPS, FiniteSetTheorems, SequenceTheorems

-----------------------------------------------------------------------------
\* The inductive invariants

\* An item, or a batch's record of a document, is of the row's incarnation.
IncOK(d, inc) == inc <= row[d].inc /\ (inc = row[d].inc => row[d].st # "none")
ItemOK(it) == IncOK(it.doc, it.inc) /\ (it.batch # None => sub[it.batch].pc = "done")

\* Outside of staging a batch has no list, while staging it has a document left
\* or one done; no document is twice in its lists; what it knows of incarnations
\* is not ahead of the rows.
BatchOK(b) ==
  /\ sub[b].pc # "staging" => Handled(b) = {}
  /\ sub[b].pc = "staging" => sub[b].todo # <<>> \/ Handled(b) # {}
  /\ \A i, j \in DOMAIN sub[b].pending : sub[b].pending[i] = sub[b].pending[j] => i = j
  /\ \A d \in Range(sub[b].pending) : d \notin sub[b].failed /\ d \notin sub[b].skipped
                                      /\ IncOK(d, sub[b].inc[d])
  /\ \A d \in Docs : sub[b].inc[d] <= row[d].inc
  /\ sub[b].pc = "idle" => \A d \in Docs : sub[b].seen[d] = "none"
  /\ sub[b].pc = "staging" => \A d \in Docs : sub[b].seen[d] # "none" => IncOK(d, sub[b].inc[d])

BatchInv == \A b \in Batches : BatchOK(b)

\* Items are of this incarnation of their document or of a past one, and of a
\* batch that is submitted; a worker has a content to work on.
ItemInv ==
  /\ \A i \in DOMAIN queue : ItemOK(queue[i])
  /\ \A w \in Workers : Busy(w) => ItemOK(wk[w].item) /\ wk[w].ver \in Batches

\* Only a row has chunks, and it has a content.
RowInv == \A d \in Docs : IF row[d].st = "none" THEN chunks[d] = NoChunks
                          ELSE row[d].ver \in Batches

Links == BatchInv /\ ItemInv /\ RowInv

\* The items at document d, in the queue and with the workers.
AtQ(d, i) == queue[i].doc = d /\ queue[i].inc = row[d].inc
AtW(d, w) == Busy(w) /\ wk[w].item.doc = d /\ wk[w].item.inc = row[d].inc

\* The chunks of d are the windows below n of version v, one copy each.
Written(d, v, n) == \A x \in Batches, k \in 1..Windows :
                      chunks[d][x][k] = (IF x = v /\ k < n THEN 1 ELSE 0)

\* There is nothing an item would run on top of, or it clears it first.
Ready(it) == it.batch # None /\ (\/ sub[it.batch].seen[it.doc] = "failed"
                                 \/ chunks[it.doc] = NoChunks)

\* A worker has written the windows before the one it is at, once.
WorkOK(w) ==
  /\ wk[w].pc = "gate" => Ready(wk[w].item)
  /\ wk[w].pc = "clear" => wk[w].win = 1
  /\ wk[w].pc \in {"window", "store"} =>
       wk[w].win \in 1..Windows /\ Written(wk[w].item.doc, wk[w].ver, wk[w].win)
  /\ wk[w].pc = "finish" => Written(wk[w].item.doc, wk[w].ver, Windows + 1)

\* One item at most is at a document, none when the document is COMPLETED.
Alone(d) ==
  /\ \A i, j \in DOMAIN queue : AtQ(d, i) /\ AtQ(d, j) => i = j
  /\ \A w, x \in Workers : AtW(d, w) /\ AtW(d, x) => w = x
  /\ \A i \in DOMAIN queue, w \in Workers : ~(AtQ(d, i) /\ AtW(d, w))
  /\ \A i \in DOMAIN queue : AtQ(d, i) => row[d].st # "completed" /\ Ready(queue[i])
  /\ \A w \in Workers : AtW(d, w) => row[d].st # "completed" /\ WorkOK(w)
  /\ row[d].st = "completed" => Written(d, row[d].ver, Windows + 1)

AloneInv == \A d \in Docs : d \notin tainted => Alone(d)

\* A handle counts what it still waits for.
HandleOK(b) ==
  /\ \A d \in Docs : handle[b].fired[d] <= 1 /\ (handle[b].fired[d] = 1 => d \in handle[b].docs)
  /\ handle[b].done <=> Awaited(b) = {}
  /\ handle[b].remaining = Cardinality(Awaited(b))

\* The items of a batch, in the queue and with the workers.
InQ(b, i) == queue[i].batch = b
InW(b, w) == Busy(w) /\ wk[w].item.batch = b

\* What a batch waits for is in the queue, with a worker, or was lost to a stop,
\* in one place only.
MatchOK(b) ==
  /\ \A i, j \in DOMAIN queue : InQ(b, i) /\ InQ(b, j) /\ queue[i].doc = queue[j].doc => i = j
  /\ \A w, x \in Workers : InW(b, w) /\ InW(b, x) /\ wk[w].item.doc = wk[x].item.doc => w = x
  /\ \A i \in DOMAIN queue, w \in Workers : InQ(b, i) /\ InW(b, w) => queue[i].doc # wk[w].item.doc
  /\ \A i \in DOMAIN queue : InQ(b, i) => queue[i].doc \in Awaited(b) \ handle[b].lost
  /\ \A w \in Workers : InW(b, w) => wk[w].item.doc \in Awaited(b) \ handle[b].lost
  /\ handle[b].lost \subseteq Awaited(b)
  /\ \A d \in Awaited(b) : \/ d \in handle[b].lost
                           \/ \E i \in DOMAIN queue : InQ(b, i) /\ queue[i].doc = d
                           \/ \E w \in Workers : InW(b, w) /\ wk[w].item.doc = d

ResultInv == \A b \in Batches : sub[b].pc = "done" => HandleOK(b) /\ MatchOK(b)

-----------------------------------------------------------------------------
(* Sequences                                                               *)

\* Taking the first element off.
LEMMA TailFacts ==
  ASSUME NEW S, NEW s \in Seq(S), s # <<>>
  PROVE  /\ Head(s) \in S /\ Tail(s) \in Seq(S)
         /\ 1 \in DOMAIN s /\ Head(s) = s[1]
         /\ \A i \in DOMAIN Tail(s) : i \in Nat /\ i + 1 \in DOMAIN s /\ i + 1 # 1 /\ Tail(s)[i] = s[i + 1]
         /\ \A i \in DOMAIN s : i = 1 \/ (i \in Nat /\ i - 1 \in DOMAIN Tail(s) /\ i - 1 + 1 = i)
<1>1. /\ Head(s) \in S /\ Tail(s) \in Seq(S) /\ Len(Tail(s)) = Len(s) - 1
      /\ \A i \in 1 .. Len(Tail(s)) : Tail(s)[i] = s[i+1]
  BY HeadTailProperties
<1>2. DOMAIN s = 1..Len(s) /\ DOMAIN Tail(s) = 1..Len(Tail(s)) /\ Len(s) \in Nat /\ Len(s) # 0
  BY <1>1, LenProperties, EmptySeq
<1>3. Head(s) = s[1]
  OBVIOUS
<1>4. QED
  BY <1>1, <1>2, <1>3

\* Adding one element.
LEMMA AppendFacts ==
  ASSUME NEW S, NEW s \in Seq(S), NEW e \in S
  PROVE  /\ Append(s, e) \in Seq(S)
         /\ DOMAIN Append(s, e) = DOMAIN s \cup {Len(s) + 1} /\ Len(s) + 1 \notin DOMAIN s
         /\ \A i \in DOMAIN s : Append(s, e)[i] = s[i]
         /\ Append(s, e)[Len(s) + 1] = e
         /\ Range(Append(s, e)) = Range(s) \cup {e}
<1>1. /\ Append(s, e) \in Seq(S) /\ Len(Append(s, e)) = Len(s)+1
      /\ \A i \in 1.. Len(s) : Append(s, e)[i] = s[i]
      /\ Append(s, e)[Len(s)+1] = e
  BY AppendProperties
<1>2. DOMAIN s = 1..Len(s) /\ DOMAIN Append(s, e) = 1..Len(Append(s, e)) /\ Len(s) \in Nat
  BY <1>1, LenProperties
<1>3. DOMAIN Append(s, e) = DOMAIN s \cup {Len(s) + 1} /\ Len(s) + 1 \notin DOMAIN s
  BY <1>1, <1>2
<1>4. QED
  BY <1>1, <1>2, <1>3 DEF Range

\* Adding several.
LEMMA ConcatFacts ==
  ASSUME NEW S, NEW s \in Seq(S), NEW t \in Seq(S)
  PROVE  /\ s \o t \in Seq(S)
         /\ \A i \in DOMAIN (s \o t) :
              \/ i \in DOMAIN s /\ (s \o t)[i] = s[i]
              \/ i \notin DOMAIN s /\ i - Len(s) \in DOMAIN t /\ (s \o t)[i] = t[i - Len(s)]
         /\ \A i \in DOMAIN s : i \in DOMAIN (s \o t) /\ (s \o t)[i] = s[i]
         /\ \A i \in DOMAIN t : /\ i + Len(s) \in DOMAIN (s \o t) /\ i + Len(s) \notin DOMAIN s
                                /\ (s \o t)[i + Len(s)] = t[i]
         /\ \A i, j \in DOMAIN (s \o t) : i - Len(s) = j - Len(s) => i = j
<1>1. /\ s \o t \in Seq(S) /\ Len(s \o t) = Len(s) + Len(t)
      /\ \A i \in 1 .. Len(s) + Len(t) : (s \o t)[i] =
                     IF i <= Len(s) THEN s[i] ELSE t[i - Len(s)]
  BY ConcatProperties
<1>2. /\ DOMAIN s = 1..Len(s) /\ DOMAIN t = 1..Len(t) /\ DOMAIN (s \o t) = 1..Len(s \o t)
      /\ Len(s) \in Nat /\ Len(t) \in Nat
  BY <1>1, LenProperties
<1>3. QED
  BY <1>1, <1>2


-----------------------------------------------------------------------------
(* The types                                                               *)

RowRec == [st : Status, ver : Batches \cup {None}, inc : Nat]
Copies == [Batches -> [1..Windows -> 0..2]]
SubRec == [pc : {"idle", "staging", "done", "raised", "gone"},
           todo : Seq(Docs), seen : [Docs -> Status],
           inc : [Docs -> Nat], pending : Seq(Docs),
           failed : SUBSET Docs, skipped : SUBSET Docs]
HandleRec == [docs : SUBSET Docs, fired : [Docs -> 0..2],
              remaining : 0..Cardinality(Docs),
              done : BOOLEAN, lost : SUBSET Docs]
WkPc == {"idle", "gate", "clear", "window", "store", "finish", "fail"}
WkRec == [pc : WkPc, item : Item \cup {None}, ver : Batches \cup {None},
          win : Nat, bounded : BOOLEAN]

\* The types but for the semaphore's.
Types ==
  /\ row \in [Docs -> RowRec]
  /\ chunks \in [Docs -> Copies]
  /\ sub \in [Batches -> SubRec]
  /\ handle \in [Batches -> HandleRec]
  /\ queue \in Seq(Item)
  /\ wk \in [Workers -> WkRec]
  /\ proc \in {"off", "scan", "run"}
  /\ tainted \subseteq Docs
  /\ left \in Nat

\* Cardinality(Docs) and the bounds are numbers.
LEMMA Numbers ==
  /\ Cardinality(Docs) \in Nat /\ Windows \in Nat /\ Windows # 0
  /\ ChunkCap \in Nat
  /\ \A S \in SUBSET Docs : IsFiniteSet(S) /\ Cardinality(S) \in 0..Cardinality(Docs)
<1>1. IsFiniteSet(Docs) /\ {MaxConcurrent, ChunkCap, Windows} \subseteq Nat \ {0}
  BY ProcessorAssumption
<1>2. \A S \in SUBSET Docs : IsFiniteSet(S) /\ Cardinality(S) <= Cardinality(Docs) /\ Cardinality(S) \in Nat
  BY <1>1, FS_Subset, FS_CardinalityType
<1>3. QED
  BY <1>1, <1>2, FS_CardinalityType

\* Some constants of the model and their types.
LEMMA ConstTypes ==
  /\ NoChunks \in Copies
  /\ NewHandle \in HandleRec
  /\ Resting \in WkRec
  /\ \A p \in {"done", "raised", "gone"}, f \in [Docs -> Status] :
       /\ [IdleSub EXCEPT !.pc = p] \in SubRec
       /\ [IdleSub EXCEPT !.pc = p, !.seen = f] \in SubRec
  /\ \A t \in Seq(Docs) : [IdleSub EXCEPT !.todo = t] \in SubRec
<1>1. NoChunks \in Copies
  BY DEF NoChunks, Copies
<1>2. NewHandle \in HandleRec
  <2>1. 0 \in 0..Cardinality(Docs) /\ 0 \in 0..2
    BY Numbers
  <2>2. QED
    BY <2>1 DEF NewHandle, HandleRec
<1>3. Resting \in WkRec
  <2>1. "idle" \in WkPc
    BY DEF WkPc
  <2>2. QED
    BY <2>1 DEF Resting, WkRec
<1>4. "none" \in Status
  BY DEF Status
<1>5. IdleSub \in SubRec
  BY <1>4 DEF IdleSub, SubRec
<1>6. QED
  BY <1>1, <1>2, <1>3, <1>5 DEF SubRec

\* Results leave a handle a handle.
LEMMA FireType ==
  ASSUME NEW h \in HandleRec, NEW ds \in SUBSET Docs
  PROVE  fire_result(h, ds) \in HandleRec
<1> DEFINE rest == IF h.remaining > Cardinality(ds) THEN h.remaining - Cardinality(ds) ELSE 0
           fired == [d \in Docs |-> IF d \in ds /\ h.fired[d] < 2
                                         THEN h.fired[d] + 1 ELSE h.fired[d]]
           done == h.done \/ (ds # {} /\ rest = 0)
<1>1. rest \in 0..Cardinality(Docs)
  BY Numbers DEF HandleRec
<1>2. fired \in [Docs -> 0..2]
  BY DEF HandleRec
<1>3. done \in BOOLEAN
  OBVIOUS
<1>4. fire_result(h, ds) = [h EXCEPT !.fired = fired, !.remaining = rest, !.done = done]
  BY Zenon DEF fire_result
<1> HIDE DEF rest, fired, done
<1>5. QED
  BY <1>1, <1>2, <1>3, <1>4 DEF HandleRec

\* Delivering a result keeps the handles' types.
LEMMA DeliverType ==
  ASSUME Types, NEW it \in Item, Deliver(it)
  PROVE  handle' \in [Batches -> HandleRec]
<1>1. CASE it.batch = None
  BY <1>1 DEF Deliver, Types
<1>2. CASE it.batch # None
  <2>1. it.batch \in Batches /\ it.doc \in Docs
    BY <1>2 DEF Item
  <2>2. fire_result(handle[it.batch], {it.doc}) \in HandleRec
    BY <2>1, FireType DEF Types
  <2>3. QED
    BY <1>2, <2>1, <2>2 DEF Deliver, Types
<1>3. QED
  BY <1>1, <1>2

\* Updating a row keeps its type.
LEMMA UpdateType ==
  ASSUME Types, NEW it, it.doc \in Docs, NEW st \in Status, NEW v \in Batches \cup {None},
         update_document(it, st, v)
  PROVE  row' \in [Docs -> RowRec]
BY DEF update_document, Types, RowRec

\* A document staged is a document of the batch's list.
LEMMA StagedIsDoc ==
  ASSUME Types, NEW b \in Batches, NEW d, NextUp(b, d)
  PROVE  d \in Docs /\ Tail(sub[b].todo) \in Seq(Docs)
<1>1. sub[b].todo \in Seq(Docs)
  BY DEF Types, SubRec
<1>2. QED
  BY <1>1, TailFacts DEF NextUp


\* A busy worker has an item.
BusyHasItem == \A w \in Workers : Busy(w) => wk[w].item \in Item

Shape == Types /\ BusyHasItem

\* The items of a batch are those of its pending documents, in order.
LEMMA ItemsFacts ==
  ASSUME Types, NEW b \in Batches
  PROVE  /\ ItemsOf(b) \in Seq(Item)
         /\ DOMAIN ItemsOf(b) = DOMAIN sub[b].pending
         /\ \A i \in DOMAIN ItemsOf(b) :
              /\ sub[b].pending[i] \in Docs
              /\ ItemsOf(b)[i] = [doc |-> sub[b].pending[i], inc |-> sub[b].inc[sub[b].pending[i]], batch |-> b]
<1>1. sub[b].pending \in Seq(Docs) /\ sub[b].inc \in [Docs -> Nat]
  BY DEF Types, SubRec
<1>2. /\ DOMAIN sub[b].pending = 1..Len(sub[b].pending) /\ Len(sub[b].pending) \in Nat
      /\ \A i \in DOMAIN sub[b].pending : sub[b].pending[i] \in Docs
  BY <1>1, LenProperties
<1>3. DOMAIN ItemsOf(b) = DOMAIN sub[b].pending
  BY DEF ItemsOf
<1>4. ItemsOf(b) \in [1..Len(sub[b].pending) -> Item]
  BY <1>1, <1>2 DEF ItemsOf, Item
<1>5. ItemsOf(b) \in Seq(Item)
  BY <1>2, <1>4
<1>6. QED
  BY <1>2, <1>3, <1>5 DEF ItemsOf

\* Trouble is counted down.
LEMMA TroubleType == ASSUME Types, Trouble PROVE left' \in Nat
BY DEF Types, Trouble

\* The steps of submit_batch keep the types.
LEMMA SubmitTypes ==
  ASSUME Shape, NEW b \in Batches, Lookup(b) \/ Stage(b) \/ Enqueue(b)
  PROVE  Shape'
<1>0. sub[b] \in SubRec
  BY DEF Shape, Types
<1>1. CASE Lookup(b)
  <2>1. [d \in Docs |-> IF Contains(sub[b].todo, d) THEN row[d].st ELSE "none"] \in [Docs -> Status]
    BY DEF Shape, Types, RowRec, Status
  <2>2. [d \in Docs |-> row[d].inc] \in [Docs -> Nat]
    BY DEF Shape, Types, RowRec
  <2>3. left' \in Nat
    BY <1>1, TroubleType DEF Lookup, Shape, Types
  <2>4. sub' \in [Batches -> SubRec]
    <3> DEFINE f == [d \in Docs |-> IF Contains(sub[b].todo, d) THEN row[d].st ELSE "none"]
               g == [d \in Docs |-> row[d].inc]
    <3>1. sub' = [sub EXCEPT ![b] = [sub[b] EXCEPT !.pc = "staging", !.seen = f, !.inc = g]]
          \/ sub' = [sub EXCEPT ![b] = [sub[b] EXCEPT !.pc = "staging"]]
      BY <1>1 DEF Lookup, Shape, Types
    <3> HIDE DEF f, g
    <3>2. /\ [sub[b] EXCEPT !.pc = "staging", !.seen = f, !.inc = g] \in SubRec
          /\ [sub[b] EXCEPT !.pc = "staging"] \in SubRec
      BY <1>0, <2>1, <2>2 DEF SubRec, f, g
    <3>3. QED
      BY <3>1, <3>2 DEF Shape, Types
  <2>5. QED
    BY <1>1, <2>3, <2>4 DEF Lookup, Shape, Types, BusyHasItem, Busy
<1>2. ASSUME NEW d \in Docs, StageRepeat(b, d) \/ StageSkip(b, d) \/ StageRequeue(b, d) \/ StageInsert(b, d)
      PROVE  Shape'
  <2>1. NextUp(b, d)
    BY <1>2 DEF StageRepeat, StageSkip, StageRequeue, StageInsert
  <2>2. Tail(sub[b].todo) \in Seq(Docs)
    BY <2>1, StagedIsDoc DEF Shape
  <2>3. Append(sub[b].pending, d) \in Seq(Docs)
    BY <1>0, AppendFacts DEF SubRec
  <2>4. sub' \in [Batches -> SubRec]
    <3>1. row[d].inc \in Nat
      BY DEF Shape, Types, RowRec
    <3>2. /\ [sub[b] EXCEPT !.todo = Tail(@)] \in SubRec
          /\ [sub[b] EXCEPT !.todo = Tail(@), !.skipped = @ \cup {d}] \in SubRec
          /\ [sub[b] EXCEPT !.todo = Tail(@), !.failed = @ \cup {d}] \in SubRec
          /\ [sub[b] EXCEPT !.todo = Tail(@), !.pending = Append(@, d)] \in SubRec
          /\ [sub[b] EXCEPT !.todo = Tail(@), !.pending = Append(@, d), !.inc[d] = row[d].inc] \in SubRec
      BY <1>0, <2>2, <2>3, <3>1 DEF SubRec
    <3>3. \/ sub' = [sub EXCEPT ![b] = [sub[b] EXCEPT !.todo = Tail(@)]]
          \/ sub' = [sub EXCEPT ![b] = [sub[b] EXCEPT !.todo = Tail(@), !.skipped = @ \cup {d}]]
          \/ sub' = [sub EXCEPT ![b] = [sub[b] EXCEPT !.todo = Tail(@), !.failed = @ \cup {d}]]
          \/ sub' = [sub EXCEPT ![b] = [sub[b] EXCEPT !.todo = Tail(@), !.pending = Append(@, d)]]
          \/ sub' = [sub EXCEPT ![b] = [sub[b] EXCEPT !.todo = Tail(@), !.pending = Append(@, d), !.inc[d] = row[d].inc]]
      BY <1>0, <1>2 DEF StageRepeat, StageSkip, StageRequeue, StageInsert, SubRec, Shape, Types
    <3>4. QED
      BY <3>2, <3>3 DEF Shape, Types
  <2>5. row' \in [Docs -> RowRec]
    <3>0. "pending" \in Status
      BY DEF Status
    <3>1. CASE row' = row
      BY <3>1 DEF Shape, Types
    <3>2. CASE row' = [row EXCEPT ![d].st = "pending", ![d].ver = b]
      BY <3>0, <3>2 DEF Shape, Types, RowRec
    <3>3. QED
      BY <1>2, <3>1, <3>2 DEF StageRepeat, StageSkip, StageRequeue, StageInsert, update_document
  <2>6. left' \in Nat
    BY <1>2, TroubleType DEF StageRepeat, StageSkip, StageRequeue, StageInsert, Shape, Types
  <2>7. QED
    BY <1>2, <2>4, <2>5, <2>6 DEF StageRepeat, StageSkip, StageRequeue, StageInsert, Shape, Types, BusyHasItem, Busy
<1>3. CASE Enqueue(b)
  <2> DEFINE pend == Range(sub[b].pending)
             all == pend \cup sub[b].failed \cup sub[b].skipped
             h == [NewHandle EXCEPT !.docs = all, !.remaining = Cardinality(all)]
             pre == [d \in Docs |-> IF d \in pend /\ sub[b].seen[d] = "failed"
                                   THEN "failed" ELSE "none"]
  <2>1. all \in SUBSET Docs /\ sub[b].failed \cup sub[b].skipped \in SUBSET Docs /\ pend \in SUBSET Docs
    BY <1>0, LenProperties DEF SubRec, Range
  <2>2. h \in HandleRec
    BY <2>1, ConstTypes, Numbers DEF HandleRec
  <2>3. pre \in [Docs -> Status]
    BY DEF Status
  <2>4. ItemsOf(b) \in Seq(Item)
    BY <1>0, ItemsFacts DEF Shape
  <2>5. queue \o ItemsOf(b) \in Seq(Item)
    BY <2>4, ConcatFacts DEF Shape, Types
  <2>6. /\ handle' = [handle EXCEPT ![b] = fire_result(h, sub[b].failed \cup sub[b].skipped)]
        /\ \/ /\ queue' = queue \o ItemsOf(b)
              /\ sub' = [sub EXCEPT ![b] = [IdleSub EXCEPT !.pc = "done", !.seen = pre]]
              /\ \E T \in SUBSET pend : tainted' = tainted \cup T
           \/ /\ sub' = [sub EXCEPT ![b] = [IdleSub EXCEPT !.pc = "raised"]]
              /\ UNCHANGED <<queue, tainted>>
        /\ UNCHANGED <<row, chunks, wk, proc, left>>
    BY <1>3 DEF Enqueue
  <2> HIDE DEF pend, all, h, pre
  <2>7. fire_result(h, sub[b].failed \cup sub[b].skipped) \in HandleRec
    BY <2>1, <2>2, FireType
  <2>8. handle' \in [Batches -> HandleRec]
    BY <2>6, <2>7 DEF Shape, Types
  <2>9. [IdleSub EXCEPT !.pc = "done", !.seen = pre] \in SubRec /\ [IdleSub EXCEPT !.pc = "raised"] \in SubRec
    BY <2>3, ConstTypes
  <2>10. sub' \in [Batches -> SubRec] /\ queue' \in Seq(Item) /\ tainted' \subseteq Docs
    BY <2>1, <2>5, <2>6, <2>9 DEF Shape, Types
  <2>11. QED
    BY <2>6, <2>8, <2>10 DEF Shape, Types, BusyHasItem, Busy
<1>4. QED
  BY <1>1, <1>2, <1>3 DEF Stage


\* The queue items of a set of claimed documents.
OrphanItems(claimed) ==
  [i \in 1..Cardinality(claimed) |->
     LET d == SetToSeq(claimed)[i] IN [doc |-> d, inc |-> row[d].inc, batch |-> None]]

\* They are one per claimed document, of the row's incarnation.
LEMMA OrphanFacts ==
  ASSUME Types, NEW claimed \in SUBSET Docs
  PROVE  /\ OrphanItems(claimed) \in Seq(Item)
         /\ \A i \in DOMAIN OrphanItems(claimed) :
              /\ OrphanItems(claimed)[i].doc \in claimed
              /\ OrphanItems(claimed)[i].inc = row[OrphanItems(claimed)[i].doc].inc
              /\ OrphanItems(claimed)[i].batch = None
<1>1. IsFiniteSet(claimed) /\ Cardinality(claimed) \in Nat
  BY Numbers
<1>2. \E f \in [1..Cardinality(claimed) -> claimed] : IsInjective(f)
  <2>1. ExistsBijection(1..Cardinality(claimed), claimed)
    BY <1>1, FS_CardinalityType
  <2>2. PICK f \in Bijection(1..Cardinality(claimed), claimed) : TRUE
    BY <2>1 DEF ExistsBijection
  <2>3. f \in [1..Cardinality(claimed) -> claimed] /\ IsInjective(f)
    BY <2>2 DEF Bijection, Injection, Surjection, IsInjective
  <2>4. QED
    BY <2>3
<1>3. SetToSeq(claimed) \in [1..Cardinality(claimed) -> claimed]
  BY <1>2, Zenon DEF SetToSeq
<1>4. OrphanItems(claimed) \in [1..Cardinality(claimed) -> Item]
  BY <1>3 DEF OrphanItems, Item, Types, RowRec
<1>5. OrphanItems(claimed) \in Seq(Item)
  BY <1>1, <1>4
<1>6. QED
  BY <1>3, <1>5 DEF OrphanItems

\* What EnqueueOrphans does.
LEMMA OrphanStep ==
  ASSUME EnqueueOrphans
  PROVE  /\ proc' = "run"
         /\ \E claimed \in SUBSET Orphaned :
              \/ /\ row' = [d \in Docs |-> IF d \in claimed
                                     THEN [row[d] EXCEPT !.st = "processing"]
                                     ELSE row[d]]
                 /\ queue' = queue \o OrphanItems(claimed)
                 /\ tainted' = tainted \cup claimed
                 /\ UNCHANGED left
              \/ /\ Trouble
                 /\ UNCHANGED <<row, queue, tainted>>
         /\ UNCHANGED <<chunks, sub, handle, wk, sem>>
BY Zenon DEF EnqueueOrphans, OrphanItems

\* The documents of the workers that are dropped.
LEMMA DroppedFacts ==
  ASSUME Shape
  PROVE  /\ {wk[w].item.doc : w \in Dropped} \subseteq Docs
         /\ \A b : DroppedOf(b) \subseteq Docs
BY DEF Shape, BusyHasItem, Dropped, DroppedOf, Item

\* The steps of the processor task keep the types.
LEMMA ProcessorTypes ==
  ASSUME Shape, start_pending_processor \/ EnqueueOrphans \/ stop_pending_processor \/ Crash
  PROVE  Shape'
<1>1. CASE start_pending_processor
  BY <1>1 DEF start_pending_processor, Shape, Types, BusyHasItem, Busy
<1>2. CASE EnqueueOrphans
  <2>1. PICK claimed \in SUBSET Orphaned :
              \/ /\ row' = [d \in Docs |-> IF d \in claimed
                                     THEN [row[d] EXCEPT !.st = "processing"]
                                     ELSE row[d]]
                 /\ queue' = queue \o OrphanItems(claimed)
                 /\ tainted' = tainted \cup claimed
                 /\ UNCHANGED left
              \/ /\ Trouble
                 /\ UNCHANGED <<row, queue, tainted>>
    BY <1>2, OrphanStep
  <2>2. claimed \in SUBSET Docs
    BY DEF Orphaned
  <2>3. row' \in [Docs -> RowRec]
    <3>1. row \in [Docs -> RowRec]
      BY DEF Shape, Types
    <3>2. \A d \in Docs : row[d] \in RowRec /\ [row[d] EXCEPT !.st = "processing"] \in RowRec
      BY <3>1 DEF RowRec, Status
    <3>3. CASE row' = [d \in Docs |-> IF d \in claimed
                                     THEN [row[d] EXCEPT !.st = "processing"]
                                     ELSE row[d]]
      BY <3>2, <3>3
    <3>4. CASE UNCHANGED row
      BY <3>1, <3>4
    <3>5. QED
      BY <2>1, <3>3, <3>4
  <2>4. queue' \in Seq(Item)
    <3>1. OrphanItems(claimed) \in Seq(Item) /\ queue \in Seq(Item)
      BY <2>2, OrphanFacts DEF Shape, Types
    <3>2. queue \o OrphanItems(claimed) \in Seq(Item)
      BY <3>1, ConcatFacts
    <3>3. QED
      BY <2>1, <3>1, <3>2
  <2>5. left' \in Nat /\ tainted' \subseteq Docs
    BY <2>1, <2>2, TroubleType DEF Shape, Types
  <2>6. QED
    BY <1>2, <2>3, <2>4, <2>5, OrphanStep DEF Shape, Types, BusyHasItem, Busy
<1>3. CASE stop_pending_processor
  <2>1. left' \in Nat /\ tainted' \subseteq Docs
    BY <1>3, TroubleType, DroppedFacts DEF stop_pending_processor, Shape, Types
  <2>2. handle' \in [Batches -> HandleRec]
    <3>1. \A b \in Batches : [handle[b] EXCEPT !.lost = @ \cup DroppedOf(b)] \in HandleRec
      BY DroppedFacts DEF Shape, Types, HandleRec
    <3>2. QED
      BY <1>3, <3>1 DEF stop_pending_processor
  <2>3. wk' = [w \in Workers |-> Resting] /\ proc' = "off" /\ UNCHANGED <<row, chunks, sub, queue>>
    BY <1>3 DEF stop_pending_processor
  <2>4. wk' \in [Workers -> WkRec] /\ BusyHasItem'
    BY <2>3, ConstTypes DEF BusyHasItem, Busy, Resting
  <2>5. QED
    BY <2>1, <2>2, <2>3, <2>4 DEF Shape, Types
<1>4. CASE Crash
  <2>1. left' \in Nat /\ tainted' \subseteq Docs
    BY <1>4, TroubleType, DroppedFacts DEF Crash, Shape, Types
  <2>2. handle' \in [Batches -> HandleRec]
    BY <1>4, ConstTypes DEF Crash
  <2>3. wk' = [w \in Workers |-> Resting] /\ proc' = "off" /\ UNCHANGED <<row, chunks>> /\ queue' = <<>>
    BY <1>4 DEF Crash
  <2>4. wk' \in [Workers -> WkRec] /\ BusyHasItem'
    BY <2>3, ConstTypes DEF BusyHasItem, Busy, Resting
  <2>5. sub' \in [Batches -> SubRec]
    <3>0. [d \in Docs |-> "none"] \in [Docs -> Status]
      BY DEF Status
    <3>1. [IdleSub EXCEPT !.pc = "gone"] \in SubRec
      BY <3>0, ConstTypes
    <3>2. QED
      BY <1>4, <3>1 DEF Crash, Shape, Types
  <2>6. queue' \in Seq(Item)
    BY <2>3, EmptySeq
  <2>7. QED
    BY <2>1, <2>2, <2>3, <2>4, <2>5, <2>6 DEF Shape, Types
<1>5. QED
  BY <1>1, <1>2, <1>3, <1>4


\* A worker that moves on keeps its shape, and so do the others.
LEMMA MoveShape ==
  ASSUME Shape, NEW w \in Workers, NEW r \in WkRec, r.pc = "idle" \/ r.item \in Item,
         wk' = [wk EXCEPT ![w] = r]
  PROVE  wk' \in [Workers -> WkRec] /\ BusyHasItem'
BY DEF Shape, Types, BusyHasItem, Busy

\* The records a worker's steps make.
LEMMA MoveTypes ==
  ASSUME Shape, NEW w \in Workers
  PROVE  /\ wk[w] \in WkRec /\ Resting \in WkRec /\ Resting.pc = "idle"
         /\ \A p \in WkPc : /\ [wk[w] EXCEPT !.pc = p] \in WkRec
                            /\ [wk[w] EXCEPT !.pc = p].item = wk[w].item
                            /\ [wk[w] EXCEPT !.win = @ + 1, !.pc = p] \in WkRec
                            /\ [wk[w] EXCEPT !.win = @ + 1, !.pc = p].item = wk[w].item
         /\ wk[w].pc # "idle" => wk[w].item \in Item
<1>1. wk[w] \in WkRec
  BY DEF Shape, Types
<1>2. wk[w].pc # "idle" => wk[w].item \in Item
  BY DEF Shape, BusyHasItem, Busy
<1>3. \A p \in WkPc : /\ [wk[w] EXCEPT !.pc = p] \in WkRec
                      /\ [wk[w] EXCEPT !.pc = p].item = wk[w].item
                      /\ [wk[w] EXCEPT !.win = @ + 1, !.pc = p] \in WkRec
                      /\ [wk[w] EXCEPT !.win = @ + 1, !.pc = p].item = wk[w].item
  <2> TAKE p \in WkPc
  <2>1. [wk[w] EXCEPT !.pc = p] \in WkRec /\ [wk[w] EXCEPT !.pc = p].item = wk[w].item
    BY <1>1 DEF WkRec
  <2>2. wk[w].win + 1 \in Nat
    BY <1>1 DEF WkRec
  <2>3. /\ [wk[w] EXCEPT !.win = wk[w].win + 1, !.pc = p] \in WkRec
        /\ [wk[w] EXCEPT !.win = wk[w].win + 1, !.pc = p].item = wk[w].item
    BY <1>1, <2>2 DEF WkRec
  <2>4. QED
    BY <2>1, <2>3
<1>4. Resting.pc = "idle"
  BY DEF Resting
<1>5. QED
  BY <1>1, <1>2, <1>3, <1>4, ConstTypes

\* One more copy of a window.
LEMMA CopyType ==
  ASSUME Types, NEW d, NEW v, NEW k
  PROVE  /\ [chunks EXCEPT ![d][v][k] = IF @ < 2 THEN @ + 1 ELSE 2] \in [Docs -> Copies]
         /\ chunks \in [Docs -> Copies]
<1>1. chunks \in [Docs -> Copies]
  BY DEF Types
<1>2. CASE d \notin Docs
  BY <1>1, <1>2
<1>3. CASE d \in Docs
  <2> DEFINE c == [chunks[d] EXCEPT ![v][k] = IF @ < 2 THEN @ + 1 ELSE 2]
  <2>1. chunks[d] \in [Batches -> [1..Windows -> 0..2]]
    BY <1>1, <1>3 DEF Copies
  <2>2. c \in [Batches -> [1..Windows -> 0..2]]
    <3>1. CASE v \notin Batches
      BY <2>1, <3>1
    <3>2. CASE v \in Batches
      <4>1. chunks[d][v] \in [1..Windows -> 0..2]
        BY <2>1, <3>2
      <4>2. [chunks[d][v] EXCEPT ![k] = IF @ < 2 THEN @ + 1 ELSE 2] \in [1..Windows -> 0..2]
        <5>1. CASE k \notin 1..Windows
          BY <4>1, <5>1
        <5>2. CASE k \in 1..Windows
          <6>1. (IF chunks[d][v][k] < 2 THEN chunks[d][v][k] + 1 ELSE 2) \in 0..2
            <7>1. chunks[d][v][k] \in 0..2
              BY <4>1, <5>2
            <7>2. \A n \in 0..2 : (IF n < 2 THEN n + 1 ELSE 2) \in 0..2
              OBVIOUS
            <7>3. QED
              BY <7>1, <7>2
          <6>2. QED
            BY <4>1, <5>2, <6>1
        <5>3. QED
          BY <5>1, <5>2
      <4>3. c = [chunks[d] EXCEPT ![v] = [chunks[d][v] EXCEPT ![k] = IF @ < 2 THEN @ + 1 ELSE 2]]
        BY <2>1
      <4>4. QED
        BY <2>1, <4>2, <4>3
    <3>3. QED
      BY <3>1, <3>2
  <2>3. [chunks EXCEPT ![d][v][k] = IF @ < 2 THEN @ + 1 ELSE 2] = [chunks EXCEPT ![d] = c]
    BY <1>1, <1>3
  <2> HIDE DEF c
  <2>4. QED
    BY <1>1, <2>2, <2>3 DEF Copies
<1>4. QED
  BY <1>2, <1>3

\* A worker's steps keep the types.
LEMMA WorkerTypes ==
  ASSUME Shape, sem.made \in BOOLEAN, NEW w \in Workers, Step(w) \/ PreTryFault(w)
  PROVE  Shape'
<1>0. /\ wk \in [Workers -> WkRec] /\ wk[w] \in WkRec
      /\ "pending" \in Status /\ "failed" \in Status /\ "completed" \in Status
      /\ "gate" \in WkPc /\ "clear" \in WkPc /\ "window" \in WkPc /\ "store" \in WkPc
      /\ "finish" \in WkPc /\ "fail" \in WkPc
  BY DEF Shape, Types, Status, WkPc
<1>1. CASE LoadDocument(w)
  <2> DEFINE it == Head(queue)
  <2>1. it \in Item /\ Tail(queue) \in Seq(Item)
    BY <1>1, TailFacts DEF LoadDocument, Shape, Types
  <2>2. row[it.doc].ver \in Batches \cup {None}
    BY <2>1 DEF Item, Shape, Types, RowRec
  <2>3. \/ wk' = wk
        \/ wk' = [wk EXCEPT ![w] = [wk[w] EXCEPT !.pc = "gate", !.item = it, !.ver = row[it.doc].ver]]
    BY <1>0, <1>1 DEF LoadDocument
  <2>4. handle' = handle \/ Deliver(it)
    BY <1>1 DEF LoadDocument
  <2>5. left' = left \/ Trouble
    BY <1>1 DEF LoadDocument
  <2>6. queue' = Tail(queue) /\ UNCHANGED <<row, chunks, sub, proc, sem, tainted>>
    BY <1>1 DEF LoadDocument
  <2> HIDE DEF it
  <2>7. handle' \in [Batches -> HandleRec] /\ left' \in Nat
    BY <2>1, <2>4, <2>5, DeliverType, TroubleType DEF Shape, Types
  <2>8. [wk[w] EXCEPT !.pc = "gate", !.item = it, !.ver = row[it.doc].ver] \in WkRec
    BY <1>0, <2>1, <2>2 DEF WkRec
  <2>9. wk' \in [Workers -> WkRec] /\ BusyHasItem'
    <3>1. CASE wk' = wk
      BY <3>1 DEF Shape, Types, BusyHasItem, Busy
    <3>2. CASE wk' # wk
      <4>1. [wk[w] EXCEPT !.pc = "gate", !.item = it, !.ver = row[it.doc].ver].item \in Item
        BY <1>0, <2>1 DEF WkRec
      <4>2. QED
        BY <2>3, <2>8, <3>2, <4>1, MoveShape
    <3>3. QED
      BY <3>1, <3>2
  <2>10. QED
    BY <2>1, <2>6, <2>7, <2>9 DEF Shape, Types
<1>2. CASE EnterGate(w)
  <2>1. PICK p \in {"clear", "window"} :
          wk' = [wk EXCEPT ![w] = [wk[w] EXCEPT !.win = 1, !.bounded = sem.made, !.pc = p]]
    BY <1>0, <1>2 DEF EnterGate
  <2>2. [wk[w] EXCEPT !.win = 1, !.bounded = sem.made, !.pc = p] \in WkRec
    BY <1>0 DEF WkRec
  <2>3. wk[w].item \in Item /\ [wk[w] EXCEPT !.win = 1, !.bounded = sem.made, !.pc = p].item = wk[w].item
    BY <1>0, <1>2, MoveTypes DEF EnterGate, WkRec
  <2>4. wk' \in [Workers -> WkRec] /\ BusyHasItem'
    BY <2>1, <2>2, <2>3, MoveShape
  <2>5. QED
    BY <1>2, <2>4 DEF EnterGate, Shape, Types
<1>3. CASE ClearExtraction(w)
  <2>1. wk' = [wk EXCEPT ![w] = [wk[w] EXCEPT !.pc = "window"]]
    BY <1>0, <1>3 DEF ClearExtraction
  <2>2. wk[w].item \in Item
    BY <1>3, MoveTypes DEF ClearExtraction
  <2>3. wk' \in [Workers -> WkRec] /\ BusyHasItem'
    BY <1>0, <2>1, <2>2, MoveTypes, MoveShape
  <2>4. chunks' \in [Docs -> Copies]
    BY <1>3, ConstTypes DEF ClearExtraction, Shape, Types
  <2>5. tainted' \subseteq Docs
    BY <1>3, <2>2 DEF ClearExtraction, Shape, Types, Item
  <2>6. left' \in Nat
    BY <1>3, TroubleType DEF ClearExtraction, Shape, Types
  <2>7. QED
    BY <1>3, <2>3, <2>4, <2>5, <2>6 DEF ClearExtraction, Shape, Types
<1>4. CASE AcquireWindow(w)
  <2>1. wk' = [wk EXCEPT ![w] = [wk[w] EXCEPT !.pc = "store"]]
    BY <1>0, <1>4 DEF AcquireWindow
  <2>2. wk[w].item \in Item
    BY <1>4, MoveTypes DEF AcquireWindow
  <2>3. wk' \in [Workers -> WkRec] /\ BusyHasItem'
    BY <1>0, <2>1, <2>2, MoveTypes, MoveShape
  <2>4. QED
    BY <1>4, <2>3 DEF AcquireWindow, Shape, Types
<1>5. CASE StoreWindow(w)
  <2>1. PICK p \in {"window", "finish", "fail"} :
          \/ wk' = [wk EXCEPT ![w] = [wk[w] EXCEPT !.win = @ + 1, !.pc = p]]
          \/ wk' = [wk EXCEPT ![w] = [wk[w] EXCEPT !.pc = p]]
    BY <1>0, <1>5 DEF StoreWindow
  <2>2. wk[w].item \in Item
    BY <1>5, MoveTypes DEF StoreWindow
  <2>3. p \in WkPc
    BY DEF WkPc
  <2>4. wk' \in [Workers -> WkRec] /\ BusyHasItem'
    BY <2>1, <2>2, <2>3, MoveTypes, MoveShape
  <2>5. chunks' \in [Docs -> Copies]
    <3>1. \/ chunks' = chunks
          \/ chunks' = [chunks EXCEPT ![wk[w].item.doc][wk[w].ver][wk[w].win] = IF @ < 2 THEN @ + 1 ELSE 2]
      BY <1>5, Zenon DEF StoreWindow
    <3>2. /\ [chunks EXCEPT ![wk[w].item.doc][wk[w].ver][wk[w].win] = IF @ < 2 THEN @ + 1 ELSE 2]
               \in [Docs -> Copies]
          /\ chunks \in [Docs -> Copies]
      BY CopyType, Zenon DEF Shape
    <3>3. QED
      BY <3>1, <3>2, Zenon
  <2>6. left' \in Nat
    BY <1>5, TroubleType DEF StoreWindow, Shape, Types
  <2>7. QED
    BY <1>5, <2>4, <2>5, <2>6 DEF StoreWindow, Shape, Types
<1>6. CASE Finish(w) \/ FailDocument(w) \/ PreTryFault(w)
  <2>0. wk[w].item \in Item /\ wk[w].item.doc \in Docs /\ wk[w].ver \in Batches \cup {None}
    BY <1>0, <1>6, MoveTypes DEF Finish, FailDocument, PreTryFault, Item, WkRec
  <2>1. \/ wk' = [wk EXCEPT ![w] = Resting]
        \/ wk' = [wk EXCEPT ![w] = [wk[w] EXCEPT !.pc = "fail"]]
    BY <1>0, <1>6 DEF Finish, FailDocument, PreTryFault
  <2>2. wk' \in [Workers -> WkRec] /\ BusyHasItem'
    BY <1>0, <2>0, <2>1, MoveTypes, MoveShape
  <2>3. row' = row \/ \E st \in {"failed", "completed"} : update_document(wk[w].item, st, wk[w].ver)
    BY <1>6 DEF Finish, FailDocument, PreTryFault
  <2>4. row' \in [Docs -> RowRec]
    BY <1>0, <2>0, <2>3, UpdateType DEF Shape, Types
  <2>5. handle' = handle \/ Deliver(wk[w].item)
    BY <1>6 DEF Finish, FailDocument, PreTryFault
  <2>6. handle' \in [Batches -> HandleRec]
    BY <2>0, <2>5, DeliverType DEF Shape, Types
  <2>7. left' \in Nat
    BY <1>6, TroubleType DEF Finish, FailDocument, PreTryFault, Shape, Types
  <2>8. tainted' \subseteq Docs
    BY <1>6, <2>0 DEF Finish, FailDocument, PreTryFault, Shape, Types
  <2>9. UNCHANGED <<chunks, sub, queue, proc>>
    BY <1>6 DEF Finish, FailDocument, PreTryFault
  <2>10. QED
    BY <2>2, <2>4, <2>6, <2>7, <2>8, <2>9 DEF Shape, Types
<1>7. QED
  BY <1>1, <1>2, <1>3, <1>4, <1>5, <1>6 DEF Step

\* Forgetting a document keeps the types.
LEMMA ForgetTypes ==
  ASSUME Shape, NEW d \in Docs, Forget(d)
  PROVE  Shape'
<1>1. "none" \in Status
  BY DEF Status
<1>2. row' \in [Docs -> RowRec]
  BY <1>1 DEF Forget, Shape, Types, RowRec
<1>3. chunks' \in [Docs -> Copies]
  BY ConstTypes DEF Forget, Shape, Types
<1>4. left' \in Nat
  BY TroubleType DEF Forget, Shape
<1>5. QED
  BY <1>2, <1>3, <1>4 DEF Forget, Shape, Types, BusyHasItem, Busy


-----------------------------------------------------------------------------
(* The chunk semaphore                                                     *)

Sem == sem \in [made : BOOLEAN, used : Nat] /\ sem.used <= ChunkCap

\* The workers are finitely many, and so are those that hold a token.
LEMMA HeldFinite == IsFiniteSet(TokensHeld) /\ Cardinality(TokensHeld) \in Nat
<1>1. IsFiniteSet(Workers) /\ TokensHeld \in SUBSET Workers
  BY ProcessorAssumption DEF TokensHeld
<1>2. QED
  BY <1>1, FS_Subset, FS_CardinalityType

\* When a worker moves, the others keep their tokens.
LEMMA HeldMoves ==
  ASSUME Shape, NEW w \in Workers, NEW r \in WkRec, wk' = [wk EXCEPT ![w] = r]
  PROVE  TokensHeld' = IF r.pc = "store" /\ r.bounded THEN TokensHeld \cup {w} ELSE TokensHeld \ {w}
<1>1. \A x \in Workers : wk'[x] = IF x = w THEN r ELSE wk[x]
  BY DEF Shape, Types
<1>2. CASE r.pc = "store" /\ r.bounded
  BY <1>1, <1>2, Zenon DEF TokensHeld
<1>3. CASE ~(r.pc = "store" /\ r.bounded)
  BY <1>1, <1>3, Zenon DEF TokensHeld
<1>4. QED
  BY <1>2, <1>3, Zenon


\* A worker that moves outside of a window moves no token.
LEMMA NoTokenMoves ==
  ASSUME Shape, Sem, TokensReturned, NEW w \in Workers, NEW r \in WkRec,
         wk' = wk \/ wk' = [wk EXCEPT ![w] = r], wk[w].pc # "store", r.pc # "store", sem' = sem
  PROVE  Sem' /\ TokensReturned'
<1>1. TokensHeld' = TokensHeld
  <2>1. CASE wk' = wk
    BY <2>1 DEF TokensHeld
  <2>2. CASE wk' = [wk EXCEPT ![w] = r]
    <3>1. TokensHeld' = TokensHeld \ {w}
      BY <2>2, HeldMoves
    <3>2. w \notin TokensHeld
      BY DEF TokensHeld
    <3>3. QED
      BY <3>1, <3>2
  <2>3. QED
    BY <2>1, <2>2
<1>2. QED
  BY <1>1 DEF Sem, TokensReturned

\* Every token taken is given back, on every path.
LEMMA TokenStep ==
  ASSUME Shape, Sem, TokensReturned, Next
  PROVE  Sem' /\ TokensReturned'
<1>0. sem.used \in Nat /\ ChunkCap \in Nat /\ sem.used <= ChunkCap
  BY Numbers DEF Sem
<1>1. ASSUME NEW b \in Batches, Lookup(b) \/ Stage(b) \/ Enqueue(b)
      PROVE  Sem' /\ TokensReturned'
  <2>1. wk' = wk /\ (sem' = sem \/ sem' = [sem EXCEPT !.made = TRUE])
    BY <1>1 DEF Lookup, Stage, StageRepeat, StageSkip, StageRequeue, StageInsert, Enqueue
  <2>2. sem' \in [made : BOOLEAN, used : Nat] /\ sem'.used = sem.used
    BY <2>1 DEF Sem
  <2>3. TokensHeld' = TokensHeld
    BY <2>1 DEF TokensHeld
  <2>4. QED
    BY <2>2, <2>3 DEF Sem, TokensReturned
<1>2. CASE start_pending_processor \/ EnqueueOrphans \/ \E d \in Docs : Forget(d)
  <2>1. wk' = wk /\ sem' = sem
    BY <1>2 DEF start_pending_processor, EnqueueOrphans, Forget
  <2>2. TokensHeld' = TokensHeld
    BY <2>1 DEF TokensHeld
  <2>3. QED
    BY <2>1, <2>2 DEF Sem, TokensReturned
<1>3. CASE stop_pending_processor \/ Crash
  <2>1. wk' = [w \in Workers |-> Resting]
    BY <1>3 DEF stop_pending_processor, Crash
  <2>2. TokensHeld' = {}
    BY <2>1 DEF TokensHeld, Resting
  <2>3. sem' = [sem EXCEPT !.used = 0] \/ sem' = [made |-> FALSE, used |-> 0]
    <3>1. CASE Crash
      BY <3>1 DEF Crash
    <3>2. CASE stop_pending_processor
      <4>1. sem.used - Cardinality(TokensHeld) = 0
        BY <1>0 DEF TokensReturned
      <4>2. QED
        BY <3>2, <4>1 DEF stop_pending_processor
    <3>3. QED
      BY <1>3, <3>1, <3>2
  <2>4. sem' \in [made : BOOLEAN, used : Nat] /\ sem'.used = 0
    <3>1. CASE sem' = [sem EXCEPT !.used = 0]
      BY <3>1 DEF Sem
    <3>2. CASE sem' = [made |-> FALSE, used |-> 0]
      <4>1. FALSE \in BOOLEAN /\ 0 \in Nat
        OBVIOUS
      <4>2. QED
        BY <3>2, <4>1, Zenon
    <3>3. QED
      BY <2>3, <3>1, <3>2
  <2>5. QED
    BY <1>0, <2>2, <2>4, FS_EmptySet DEF Sem, TokensReturned
<1>4. ASSUME NEW w \in Workers, Step(w) \/ PreTryFault(w)
      PROVE  Sem' /\ TokensReturned'
  <2>0. wk \in [Workers -> WkRec] /\ wk[w] \in WkRec
    BY DEF Shape, Types
  <2>1. CASE LoadDocument(w)
    <3>1. PICK it \in Item, v \in Batches \cup {None} :
            wk' = wk \/ wk' = [wk EXCEPT ![w] = [wk[w] EXCEPT !.pc = "gate", !.item = it, !.ver = v]]
      <4>1. Head(queue) \in Item
        BY <2>1, TailFacts DEF LoadDocument, Shape, Types
      <4>2. row[Head(queue).doc].ver \in Batches \cup {None}
        BY <4>1 DEF Item, Shape, Types, RowRec
      <4>3. wk' = wk \/ wk' = [wk EXCEPT ![w] = [wk[w] EXCEPT !.pc = "gate", !.item = Head(queue),
                                                            !.ver = row[Head(queue).doc].ver]]
        BY <2>0, <2>1 DEF LoadDocument
      <4>4. QED
        BY <4>1, <4>2, <4>3, Zenon
    <3>2. /\ [wk[w] EXCEPT !.pc = "gate", !.item = it, !.ver = v] \in WkRec
          /\ [wk[w] EXCEPT !.pc = "gate", !.item = it, !.ver = v].pc # "store"
      BY <2>0 DEF WkRec, WkPc
    <3>3. wk[w].pc # "store" /\ sem' = sem
      BY <2>1 DEF LoadDocument, FirstIdle, Busy
    <3>4. QED
      BY <3>1, <3>2, <3>3, NoTokenMoves
  <2>2. CASE EnterGate(w)
    <3>1. PICK p \in {"clear", "window"} :
            wk' = [wk EXCEPT ![w] = [wk[w] EXCEPT !.win = 1, !.bounded = sem.made, !.pc = p]]
      BY <2>0, <2>2 DEF EnterGate
    <3>2. /\ [wk[w] EXCEPT !.win = 1, !.bounded = sem.made, !.pc = p] \in WkRec
          /\ [wk[w] EXCEPT !.win = 1, !.bounded = sem.made, !.pc = p].pc # "store"
      BY <2>0 DEF WkRec, WkPc, Sem
    <3>3. wk[w].pc # "store" /\ sem' = sem
      BY <2>2 DEF EnterGate
    <3>4. QED
      BY <3>1, <3>2, <3>3, NoTokenMoves
  <2>3. CASE ClearExtraction(w) \/ Finish(w) \/ FailDocument(w) \/ PreTryFault(w)
    <3>1. PICK r \in {Resting, [wk[w] EXCEPT !.pc = "window"], [wk[w] EXCEPT !.pc = "fail"]} :
            wk' = [wk EXCEPT ![w] = r]
      BY <2>0, <2>3 DEF ClearExtraction, Finish, FailDocument, PreTryFault
    <3>2. r \in WkRec /\ r.pc # "store"
      <4>1. "window" \in WkPc /\ "fail" \in WkPc
        BY DEF WkPc
      <4>2. /\ [wk[w] EXCEPT !.pc = "window"].pc = "window" /\ [wk[w] EXCEPT !.pc = "fail"].pc = "fail"
            /\ Resting.pc = "idle"
        BY <2>0 DEF WkRec, Resting
      <4>3. QED
        BY <4>1, <4>2, MoveTypes
    <3>3. wk[w].pc # "store" /\ sem' = sem
      BY <2>3 DEF ClearExtraction, Finish, FailDocument, PreTryFault
    <3>4. QED
      BY <3>1, <3>2, <3>3, NoTokenMoves
  <2>4. CASE AcquireWindow(w)
    <3> DEFINE r == [wk[w] EXCEPT !.pc = "store"]
    <3>1. wk' = [wk EXCEPT ![w] = r]
      BY <2>0, <2>4 DEF AcquireWindow
    <3>2. r \in WkRec /\ r.pc = "store" /\ r.bounded = wk[w].bounded
      BY <2>0 DEF WkRec, WkPc
    <3>3. w \notin TokensHeld
      BY <2>4 DEF AcquireWindow, TokensHeld
    <3> HIDE DEF r
    <3>4. CASE wk[w].bounded
      <4>1. TokensHeld' = TokensHeld \cup {w}
        BY <3>1, <3>2, <3>4, HeldMoves
      <4>2. Cardinality(TokensHeld') = Cardinality(TokensHeld) + 1
        BY <3>3, <4>1, HeldFinite, FS_AddElement
      <4>3. sem.used < ChunkCap /\ sem' = [sem EXCEPT !.used = sem.used + 1]
        BY <2>4, <3>4 DEF AcquireWindow
      <4>4. sem' \in [made : BOOLEAN, used : Nat] /\ sem'.used = sem.used + 1
        BY <1>0, <4>3 DEF Sem
      <4>5. QED
        BY <1>0, <4>2, <4>3, <4>4 DEF Sem, TokensReturned
    <3>5. CASE ~wk[w].bounded
      <4>1. TokensHeld' = TokensHeld \ {w}
        BY <3>1, <3>2, <3>5, HeldMoves
      <4>2. TokensHeld' = TokensHeld
        BY <3>3, <4>1
      <4>3. sem' = [sem EXCEPT !.used = sem.used]
        BY <2>4, <3>5 DEF AcquireWindow
      <4>4. sem' \in [made : BOOLEAN, used : Nat] /\ sem'.used = sem.used
        BY <1>0, <4>3 DEF Sem
      <4>5. QED
        BY <1>0, <4>2, <4>4 DEF Sem, TokensReturned
    <3>6. QED
      BY <3>4, <3>5
  <2>5. CASE StoreWindow(w)
    <3>1. PICK p \in {"window", "finish", "fail"} :
            \/ wk' = [wk EXCEPT ![w] = [wk[w] EXCEPT !.win = @ + 1, !.pc = p]]
            \/ wk' = [wk EXCEPT ![w] = [wk[w] EXCEPT !.pc = p]]
      BY <2>0, <2>5 DEF StoreWindow
    <3>2. p \in WkPc
      BY DEF WkPc
    <3>3. /\ [wk[w] EXCEPT !.win = @ + 1, !.pc = p] \in WkRec /\ [wk[w] EXCEPT !.pc = p] \in WkRec
          /\ [wk[w] EXCEPT !.win = @ + 1, !.pc = p].pc # "store" /\ [wk[w] EXCEPT !.pc = p].pc # "store"
      <4>1. [wk[w] EXCEPT !.win = @ + 1, !.pc = p].pc # "store" /\ [wk[w] EXCEPT !.pc = p].pc # "store"
        BY <2>0, <3>2 DEF WkRec
      <4>2. QED
        BY <3>2, <4>1, MoveTypes
    <3>4. TokensHeld' = TokensHeld \ {w}
      BY <3>1, <3>3, HeldMoves
    <3>5. CASE wk[w].bounded
      <4>1. w \in TokensHeld
        BY <2>5, <3>5 DEF StoreWindow, TokensHeld
      <4>2. Cardinality(TokensHeld') = Cardinality(TokensHeld) - 1 /\ Cardinality(TokensHeld) # 0
        BY <3>4, <4>1, HeldFinite, FS_RemoveElement, FS_EmptySet
      <4>3. sem' = [sem EXCEPT !.used = sem.used - 1]
        BY <2>5, <3>5 DEF StoreWindow, Release
      <4>4. sem' \in [made : BOOLEAN, used : Nat] /\ sem'.used = sem.used - 1
        BY <1>0, <4>2, <4>3 DEF Sem, TokensReturned
      <4>5. QED
        BY <1>0, <4>2, <4>4 DEF Sem, TokensReturned
    <3>6. CASE ~wk[w].bounded
      <4>1. TokensHeld' = TokensHeld
        BY <3>4, <3>6, Zenon DEF TokensHeld
      <4>2. sem' = [sem EXCEPT !.used = sem.used]
        BY <2>5, <3>6 DEF StoreWindow, Release
      <4>3. sem' \in [made : BOOLEAN, used : Nat] /\ sem'.used = sem.used
        BY <1>0, <4>2 DEF Sem
      <4>4. QED
        BY <1>0, <4>1, <4>3 DEF Sem, TokensReturned
    <3>7. QED
      BY <3>5, <3>6
  <2>6. QED
    BY <1>4, <2>1, <2>2, <2>3, <2>4, <2>5 DEF Step
<1>5. QED
  BY <1>1, <1>2, <1>3, <1>4 DEF Next


Base == Shape /\ Sem /\ TokensReturned

\* The base holds at first.
LEMMA InitBase == ASSUME Init PROVE Base
<1>1. row \in [Docs -> RowRec]
  <2>1. "none" \in Status
    BY DEF Status
  <2>2. QED
    BY <2>1 DEF Init, RowRec
<1>2. chunks \in [Docs -> Copies] /\ handle \in [Batches -> HandleRec] /\ wk \in [Workers -> WkRec]
  BY ConstTypes DEF Init
<1>3. sub \in [Batches -> SubRec] /\ left \in Nat
  <2>1. PICK plan \in Plans : /\ sub = [b \in Batches |-> [IdleSub EXCEPT !.todo = plan.submit[b]]]
                              /\ left = plan.trouble
    BY DEF Init
  <2>2. plan.trouble \in Nat /\ \A b \in Batches : plan.submit[b] \in Seq(Docs)
    BY ProcessorAssumption
  <2>3. QED
    BY <2>1, <2>2, ConstTypes
<1>4. queue \in Seq(Item) /\ proc \in {"off", "scan", "run"} /\ tainted \subseteq Docs
  BY EmptySeq DEF Init
<1>5. BusyHasItem
  BY DEF Init, BusyHasItem, Busy, Resting
<1>6. TokensHeld = {}
  BY DEF Init, TokensHeld, Resting
<1>7. sem \in [made : BOOLEAN, used : Nat] /\ sem.used = 0
  <2>1. FALSE \in BOOLEAN /\ 0 \in Nat
    OBVIOUS
  <2>2. sem = [made |-> FALSE, used |-> 0]
    BY DEF Init
  <2>3. QED
    BY <2>1, <2>2, Zenon
<1>8. Shape
  BY <1>1, <1>2, <1>3, <1>4, <1>5 DEF Shape, Types
<1>9. QED
  BY <1>6, <1>7, <1>8, FS_EmptySet, Numbers DEF Base, Sem, TokensReturned

\* Every step keeps it.
LEMMA BaseStep == ASSUME Base, [Next]_vars PROVE Base'
<1>1. CASE Next
  <2>1. Sem' /\ TokensReturned'
    BY <1>1, TokenStep DEF Base
  <2>2. sem.made \in BOOLEAN
    BY DEF Base, Sem
  <2>3. Shape'
    BY <1>1, <2>2, SubmitTypes, ProcessorTypes, WorkerTypes, ForgetTypes DEF Base, Next
  <2>4. QED
    BY <2>1, <2>3 DEF Base
<1>2. CASE UNCHANGED vars
  <2>1. Types' /\ BusyHasItem' /\ Sem'
    BY <1>2 DEF vars, Base, Shape, Types, BusyHasItem, Busy, Sem
  <2>2. TokensHeld' = TokensHeld /\ sem' = sem
    BY <1>2 DEF vars, TokensHeld
  <2>3. QED
    BY <2>1, <2>2 DEF Base, Shape, TokensReturned
<1>3. QED
  BY <1>1, <1>2

\* The base is an invariant.
LEMMA BaseHolds == Spec => []Base
BY InitBase, BaseStep, PTL DEF Spec

\* Type correctness: every variable of the deferred ingestion keeps its type,
\* and the semaphore's count (_GlobalChunkSemaphore) stays between zero and its
\* capacity, whatever the batches, the workers and the trouble.
THEOREM TypeCorrect == Spec => []TypeOK
<1>1. Base => TypeOK
  <2>1. ASSUME Base PROVE TypeOK
    <3>1. sem \in [made : BOOLEAN, used : 0..ChunkCap]
      <4>1. sem.used \in 0..ChunkCap
        BY <2>1, Numbers DEF Base, Sem
      <4>2. sem \in [made : BOOLEAN, used : Nat]
        BY <2>1 DEF Base, Sem
      <4>3. sem = [made |-> sem.made, used |-> sem.used] /\ sem.made \in BOOLEAN
        BY <4>2
      <4>4. QED
        BY <4>1, <4>3, Zenon
    <3>2. QED
      BY <2>1, <3>1 DEF Base, Shape, Types, TypeOK, RowRec, Copies, SubRec, HandleRec, WkRec, WkPc
  <2>2. QED
    BY <2>1
<1>2. QED
  BY <1>1, BaseHolds, PTL

\* The chunk semaphore: the tokens in flight are exactly those of the workers
\* between acquire and release, on every way out of a window and on a stop, for
\* any number of workers.
THEOREM TokensComeBack == Spec => []TokensReturned
<1>1. Base => TokensReturned
  BY DEF Base
<1>2. QED
  BY <1>1, BaseHolds, PTL


-----------------------------------------------------------------------------
(* Rows, batches and items                                                 *)

RowGrows(d) ==
  \/ row'[d].inc = row[d].inc /\ (row[d].st # "none" => row'[d].st # "none")
  \/ row'[d].inc = row[d].inc + 1

\* A row's incarnation ends only by a deletion, which begins the next one.
LEMMA RowsGrow ==
  ASSUME Base, Next, NEW d \in Docs
  PROVE  RowGrows(d)
<1>0. row \in [Docs -> RowRec] /\ row[d] \in RowRec
  BY DEF Base, Shape, Types
<1>1. ASSUME NEW it, NEW st \in Status \ {"none"}, NEW v, update_document(it, st, v)
      PROVE  RowGrows(d)
  BY <1>0, <1>1 DEF update_document, RowRec, RowGrows
<1>2. CASE row' = row
  BY <1>2 DEF RowGrows
<1>3. ASSUME NEW b \in Batches, Lookup(b) \/ Stage(b) \/ Enqueue(b)
      PROVE  RowGrows(d)
  <2>1. CASE Lookup(b) \/ Enqueue(b)
    BY <1>2, <2>1 DEF Lookup, Enqueue
  <2>2. ASSUME NEW e \in Docs, StageRepeat(b, e) \/ StageSkip(b, e) \/ StageRequeue(b, e)
        PROVE  RowGrows(d)
    <3>1. "pending" \in Status \ {"none"}
      BY DEF Status
    <3>2. row' = row \/ update_document([doc |-> e, inc |-> sub[b].inc[e]], "pending", b)
      BY <2>2 DEF StageRepeat, StageSkip, StageRequeue
    <3>3. QED
      BY <1>1, <1>2, <3>1, <3>2
  <2>3. ASSUME NEW e \in Docs, StageInsert(b, e)
        PROVE  RowGrows(d)
    <3>1. row' = row \/ row' = [row EXCEPT ![e].st = "pending", ![e].ver = b]
      BY <2>3 DEF StageInsert
    <3>2. QED
      BY <1>0, <3>1 DEF RowRec, RowGrows
  <2>4. QED
    BY <1>3, <2>1, <2>2, <2>3 DEF Stage
<1>4. CASE start_pending_processor \/ stop_pending_processor \/ Crash
  BY <1>2, <1>4 DEF start_pending_processor, stop_pending_processor, Crash
<1>5. CASE EnqueueOrphans
  <2>1. PICK claimed \in SUBSET Orphaned :
          row' = row \/ row' = [e \in Docs |-> IF e \in claimed THEN [row[e] EXCEPT !.st = "processing"]
                                               ELSE row[e]]
    BY <1>5, OrphanStep
  <2>2. QED
    BY <1>0, <2>1 DEF RowRec, RowGrows
<1>6. ASSUME NEW w \in Workers, Step(w) \/ PreTryFault(w)
      PROVE  RowGrows(d)
  <2>1. row' = row \/ \E st \in {"failed", "completed"} : update_document(wk[w].item, st, wk[w].ver)
    BY <1>6 DEF Step, LoadDocument, EnterGate, ClearExtraction, AcquireWindow, StoreWindow, Finish,
                FailDocument, PreTryFault
  <2>2. {"failed", "completed"} \subseteq Status \ {"none"}
    BY DEF Status
  <2>3. QED
    BY <1>1, <1>2, <2>1, <2>2
<1>7. ASSUME NEW e \in Docs, Forget(e)
      PROVE  RowGrows(d)
  BY <1>0, <1>7 DEF Forget, RowRec, RowGrows
<1>8. QED
  BY <1>3, <1>4, <1>5, <1>6, <1>7 DEF Next

\* So what was of the row's incarnation or a past one still is.
LEMMA IncStays ==
  ASSUME Base, Next, NEW d \in Docs, NEW inc \in Nat
  PROVE  /\ inc <= row[d].inc => inc <= row'[d].inc
         /\ IncOK(d, inc) => IncOK(d, inc)'
<1>1. row[d].inc \in Nat
  BY DEF Base, Shape, Types, RowRec
<1>2. QED
  BY <1>1, RowsGrow DEF RowGrows, IncOK


\* A batch at rest knows nothing.
LEMMA RestingBatch ==
  ASSUME NEW b \in Batches, NEW r \in SubRec, sub'[b] = r, r.pc \in {"done", "raised", "gone"},
         r.pending = <<>>, r.failed = {}, r.skipped = {},
         \A d \in Docs : r.inc[d] = 0, row' \in [Docs -> RowRec]
  PROVE  BatchOK(b)'
<1>1. /\ sub'[b].pc \notin {"idle", "staging"} /\ sub'[b].pending = <<>> /\ sub'[b].failed = {}
      /\ sub'[b].skipped = {} /\ sub'[b].inc = r.inc
  OBVIOUS
<1>2. DOMAIN sub'[b].pending = {}
  BY <1>1, EmptySeq, LenProperties
<1>3. Range(sub'[b].pending) = {}
  BY <1>1, <1>2 DEF Range
<1>4. Handled(b)' = {}
  BY <1>1, <1>3 DEF Handled
<1>5. \A d \in Docs : sub'[b].inc[d] <= row'[d].inc
  <2>1. \A d \in Docs : row'[d].inc \in Nat
    BY DEF RowRec
  <2>2. QED
    BY <1>1, <2>1
<1>6. \A i, j \in DOMAIN sub'[b].pending : sub'[b].pending[i] = sub'[b].pending[j] => i = j
  BY <1>1, <1>2
<1>7. QED
  BY <1>1, <1>3, <1>4, <1>5, <1>6 DEF BatchOK

\* What a batch knows of a document that its step does not concern.
LEMMA KnownStays ==
  ASSUME Base, Next, NEW b \in Batches, BatchOK(b), NEW d \in Docs, sub'[b].inc[d] = sub[b].inc[d]
  PROVE  /\ IncOK(d, sub[b].inc[d]) => IncOK(d, sub[b].inc[d])'
         /\ sub'[b].inc[d] <= row'[d].inc
<1>1. PICK n \in Nat : n = sub[b].inc[d]
  BY DEF Base, Shape, Types, SubRec
<1>2. /\ IncOK(d, n) => IncOK(d, n)'
      /\ n <= row'[d].inc
  BY <1>1, IncStays DEF BatchOK
<1>3. QED
  BY <1>1, <1>2 DEF IncOK

\* A batch that makes no step stays as it is.
LEMMA BatchFrame ==
  ASSUME Base, Next, NEW b \in Batches, BatchOK(b), sub'[b] = sub[b]
  PROVE  BatchOK(b)'
<1>1. sub[b].inc \in [Docs -> Nat] /\ Range(sub[b].pending) \subseteq Docs
  BY LenProperties DEF Base, Shape, Types, SubRec, Range
<1>2. Handled(b)' = Handled(b)
  BY DEF Handled
<1>3. \A d \in Docs : /\ IncOK(d, sub[b].inc[d]) => IncOK(d, sub[b].inc[d])'
                      /\ sub'[b].inc[d] <= row'[d].inc
  BY KnownStays
<1>4. QED
  BY <1>1, <1>2, <1>3 DEF BatchOK

\* The lookup.
LEMMA BatchLookup ==
  ASSUME Base, NEW b \in Batches, BatchOK(b), Lookup(b)
  PROVE  BatchOK(b)'
<1>0. /\ sub \in [Batches -> SubRec] /\ sub[b] \in SubRec
      /\ \A d \in Docs : row[d].inc \in Nat
  BY DEF Base, Shape, Types, RowRec
<1> DEFINE f == [d \in Docs |-> IF Contains(sub[b].todo, d) THEN row[d].st ELSE "none"]
           g == [d \in Docs |-> row[d].inc]
<1>1. \/ sub'[b] = [sub[b] EXCEPT !.pc = "staging", !.seen = f, !.inc = g]
      \/ sub'[b] = [sub[b] EXCEPT !.pc = "staging"]
  BY <1>0 DEF Lookup
<1>2. \A d \in Docs : g[d] = row[d].inc /\ (f[d] # "none" => row[d].st # "none")
  OBVIOUS
<1> HIDE DEF f, g
<1>3. /\ sub'[b].pc = "staging" /\ sub'[b].pending = sub[b].pending /\ sub'[b].todo = sub[b].todo
      /\ sub'[b].failed = sub[b].failed /\ sub'[b].skipped = sub[b].skipped
      /\ \/ sub'[b].inc = sub[b].inc /\ sub'[b].seen = sub[b].seen
         \/ sub'[b].inc = g /\ sub'[b].seen = f
  BY <1>0, <1>1 DEF SubRec
<1>4. sub[b].pc = "idle" /\ sub[b].todo # <<>> /\ row' = row
  BY DEF Lookup
<1>5. Range(sub[b].pending) = {} /\ \A d \in Docs : sub[b].seen[d] = "none"
  BY <1>4 DEF BatchOK, Handled
<1>6. \A d \in Docs : /\ sub'[b].inc[d] <= row'[d].inc
                      /\ sub'[b].seen[d] # "none" => IncOK(d, sub[b].inc[d])'
  BY <1>0, <1>2, <1>3, <1>4, <1>5 DEF BatchOK, IncOK
<1>7. QED
  BY <1>3, <1>4, <1>5, <1>6 DEF BatchOK

\* A document is passed over, skipped or reported.
LEMMA BatchDrops ==
  ASSUME Base, Next, NEW b \in Batches, BatchOK(b), NEW d \in Docs, sub[b].pc = "staging",
         \/ sub'[b] = [sub[b] EXCEPT !.todo = Tail(@)] /\ d \in Handled(b)
         \/ sub'[b] = [sub[b] EXCEPT !.todo = Tail(@), !.skipped = @ \cup {d}] /\ d \notin Handled(b)
         \/ sub'[b] = [sub[b] EXCEPT !.todo = Tail(@), !.failed = @ \cup {d}] /\ d \notin Handled(b)
  PROVE  BatchOK(b)'
<1>0. sub[b] \in SubRec /\ Range(sub[b].pending) \subseteq Docs
  BY LenProperties DEF Base, Shape, Types, SubRec, Range
<1>1. /\ sub'[b].pc = "staging" /\ sub'[b].pending = sub[b].pending /\ sub'[b].inc = sub[b].inc
      /\ sub'[b].seen = sub[b].seen
      /\ \/ d \in Handled(b) /\ sub'[b].failed = sub[b].failed /\ sub'[b].skipped = sub[b].skipped
         \/ d \notin Handled(b) /\ sub'[b].failed = sub[b].failed /\ sub'[b].skipped = sub[b].skipped \cup {d}
         \/ d \notin Handled(b) /\ sub'[b].failed = sub[b].failed \cup {d} /\ sub'[b].skipped = sub[b].skipped
  BY <1>0 DEF SubRec
<1>2. Handled(b)' # {}
  BY <1>1 DEF Handled
<1>3. \A e \in Range(sub[b].pending) : e \notin sub'[b].failed /\ e \notin sub'[b].skipped
  BY <1>1 DEF BatchOK, Handled
<1>4. \A e \in Docs : /\ IncOK(e, sub[b].inc[e]) => IncOK(e, sub[b].inc[e])'
                      /\ sub'[b].inc[e] <= row'[e].inc
  BY <1>1, KnownStays
<1>5. QED
  BY <1>0, <1>1, <1>2, <1>3, <1>4 DEF BatchOK

\* A document becomes one of the pending ones.
LEMMA BatchAdds ==
  ASSUME Base, Next, NEW b \in Batches, BatchOK(b), NEW d \in Docs, sub[b].pc = "staging",
         NEW g \in [Docs -> Nat], \A e \in Docs : e = d \/ g[e] = sub[b].inc[e],
         sub'[b] = [sub[b] EXCEPT !.todo = Tail(@), !.pending = Append(@, d), !.inc = g],
         d \notin Handled(b), IncOK(d, sub[b].inc[d])'
  PROVE  BatchOK(b)'
<1>0. sub[b] \in SubRec /\ Range(sub[b].pending) \subseteq Docs /\ sub[b].pending \in Seq(Docs)
  BY LenProperties DEF Base, Shape, Types, SubRec, Range
<1>1. /\ sub'[b].pc = "staging" /\ sub'[b].pending = Append(sub[b].pending, d) /\ sub'[b].inc = g
      /\ sub'[b].seen = sub[b].seen /\ sub'[b].failed = sub[b].failed /\ sub'[b].skipped = sub[b].skipped
  BY <1>0 DEF SubRec
<1>2. /\ Range(sub'[b].pending) = Range(sub[b].pending) \cup {d}
      /\ DOMAIN sub'[b].pending = DOMAIN sub[b].pending \cup {Len(sub[b].pending) + 1}
      /\ \A i \in DOMAIN sub[b].pending : sub'[b].pending[i] = sub[b].pending[i]
      /\ sub'[b].pending[Len(sub[b].pending) + 1] = d
  BY <1>0, <1>1, AppendFacts
<1>3. /\ d \notin Range(sub[b].pending) /\ d \notin sub[b].failed /\ d \notin sub[b].skipped
      /\ \A i \in DOMAIN sub[b].pending : sub[b].pending[i] # d
  BY DEF Handled, Range
<1>4. \A i, j \in DOMAIN sub'[b].pending : sub'[b].pending[i] = sub'[b].pending[j] => i = j
  BY <1>2, <1>3 DEF BatchOK
<1>5. Handled(b)' # {}
  BY <1>2 DEF Handled
<1>6. \A e \in Docs : /\ IncOK(e, sub[b].inc[e]) => IncOK(e, sub[b].inc[e])'
                      /\ sub'[b].inc[e] <= row'[e].inc
  <2> TAKE e \in Docs
  <2>1. CASE e = d
    BY <2>1 DEF IncOK
  <2>2. CASE e # d
    BY <1>1, <2>2, KnownStays
  <2>3. QED
    BY <2>1, <2>2
<1>7. \A e \in Range(sub'[b].pending) : /\ e \notin sub'[b].failed /\ e \notin sub'[b].skipped
                                        /\ IncOK(e, sub[b].inc[e])'
  BY <1>0, <1>1, <1>2, <1>3, <1>6 DEF BatchOK
<1>8. QED
  BY <1>1, <1>4, <1>5, <1>6, <1>7 DEF BatchOK


\* The staging loop.
LEMMA BatchStages ==
  ASSUME Base, Next, NEW b \in Batches, BatchOK(b), NEW d \in Docs,
         StageRepeat(b, d) \/ StageSkip(b, d) \/ StageRequeue(b, d) \/ StageInsert(b, d)
  PROVE  BatchOK(b)' /\ \A x \in Batches : x # b => sub'[x] = sub[x]
<1>0. /\ sub \in [Batches -> SubRec] /\ sub[b] \in SubRec /\ sub[b].inc \in [Docs -> Nat]
      /\ row \in [Docs -> RowRec] /\ row[d].inc \in Nat
  BY DEF Base, Shape, Types, SubRec, RowRec
<1>1. NextUp(b, d) /\ sub[b].pc = "staging"
  BY DEF StageRepeat, StageSkip, StageRequeue, StageInsert, NextUp
<1>2. \A x \in Batches : x # b => sub'[x] = sub[x]
  BY <1>0 DEF StageRepeat, StageSkip, StageRequeue, StageInsert
<1> DEFINE A == \/ sub'[b] = [sub[b] EXCEPT !.todo = Tail(@)] /\ d \in Handled(b)
                \/ sub'[b] = [sub[b] EXCEPT !.todo = Tail(@), !.skipped = @ \cup {d}] /\ d \notin Handled(b)
                \/ sub'[b] = [sub[b] EXCEPT !.todo = Tail(@), !.failed = @ \cup {d}] /\ d \notin Handled(b)
           B == /\ StageRequeue(b, d)
                /\ sub' = [sub EXCEPT ![b].todo = Tail(@), ![b].pending = Append(@, d)]
           C == /\ StageInsert(b, d)
                /\ row' = [row EXCEPT ![d].st = "pending", ![d].ver = b]
                /\ sub' = [sub EXCEPT ![b].todo = Tail(@), ![b].pending = Append(@, d), ![b].inc[d] = row[d].inc]
<1>3. A \/ B \/ C
  BY <1>0 DEF StageRepeat, StageSkip, StageRequeue, StageInsert
<1>4. CASE A
  BY <1>1, <1>2, <1>4, BatchDrops
<1>5. CASE B
  <2>1. sub'[b] = [sub[b] EXCEPT !.todo = Tail(@), !.pending = Append(@, d), !.inc = sub[b].inc]
    BY <1>0, <1>5 DEF SubRec
  <2>2. sub'[b].inc = sub[b].inc
    BY <1>0, <2>1 DEF SubRec
  <2>3. sub[b].seen[d] # "none" /\ d \notin Handled(b)
    BY <1>5 DEF StageRequeue
  <2>4. IncOK(d, sub[b].inc[d])
    BY <1>1, <2>3 DEF BatchOK
  <2>5. IncOK(d, sub[b].inc[d])'
    BY <2>2, <2>4, KnownStays
  <2>6. QED
    BY <1>0, <1>1, <1>2, <2>1, <2>3, <2>5, BatchAdds
<1>6. CASE C
  <2> DEFINE g == [sub[b].inc EXCEPT ![d] = row[d].inc]
  <2>1. sub'[b] = [sub[b] EXCEPT !.todo = Tail(@), !.pending = Append(@, d), !.inc = g]
    BY <1>0, <1>6 DEF SubRec
  <2>2. g \in [Docs -> Nat] /\ g[d] = row[d].inc /\ \A e \in Docs : e = d \/ g[e] = sub[b].inc[e]
    BY <1>0
  <2>3. d \notin Handled(b)
    BY <1>6 DEF StageInsert
  <2> HIDE DEF g
  <2>4. sub'[b].inc = g
    BY <1>0, <2>1 DEF SubRec
  <2>5. row'[d].st = "pending" /\ row'[d].inc = row[d].inc
    BY <1>0, <1>6 DEF RowRec
  <2>6. IncOK(d, sub[b].inc[d])'
    BY <1>0, <2>2, <2>4, <2>5 DEF IncOK
  <2>7. QED
    BY <1>1, <1>2, <2>1, <2>2, <2>3, <2>6, BatchAdds
<1>7. QED
  BY <1>3, <1>4, <1>5, <1>6

\* What a batch becomes when it is enqueued.
LEMMA BatchEnqueued ==
  ASSUME Base, Base', NEW b \in Batches, Enqueue(b)
  PROVE  /\ BatchOK(b)'
         /\ \A x \in Batches : x # b => sub'[x] = sub[x]
         /\ sub'[b].pc \in {"done", "raised"}
         /\ sub'[b].pc = "done" => /\ queue' = queue \o ItemsOf(b)
                                   /\ sub'[b].seen = [d \in Docs |-> IF d \in Range(sub[b].pending) /\ sub[b].seen[d] = "failed"
                                                                     THEN "failed" ELSE "none"]
                                   /\ tainted' = tainted \cup {d \in Range(sub[b].pending) : Live(d) \/ Uncleared(b, d) \/ Overtaken(d)}
         /\ sub'[b].pc = "raised" => queue' = queue /\ tainted' = tainted
<1> DEFINE pre == [d \in Docs |-> IF d \in Range(sub[b].pending) /\ sub[b].seen[d] = "failed"
                                                                     THEN "failed" ELSE "none"]
<1>0. sub \in [Batches -> SubRec] /\ row' \in [Docs -> RowRec]
  BY DEF Base, Shape, Types
<1>1. pre \in [Docs -> Status]
  BY DEF Status
<1>2. \/ /\ queue' = queue \o ItemsOf(b)
         /\ sub' = [sub EXCEPT ![b] = [IdleSub EXCEPT !.pc = "done", !.seen = pre]]
         /\ tainted' = tainted \cup {d \in Range(sub[b].pending) : Live(d) \/ Uncleared(b, d) \/ Overtaken(d)}
      \/ /\ sub' = [sub EXCEPT ![b] = [IdleSub EXCEPT !.pc = "raised"]]
         /\ UNCHANGED <<queue, tainted>>
  BY Zenon DEF Enqueue
<1> HIDE DEF pre
<1>3. \A r \in {[IdleSub EXCEPT !.pc = "done", !.seen = pre], [IdleSub EXCEPT !.pc = "raised"]} :
        /\ r \in SubRec /\ r.pending = <<>> /\ r.failed = {} /\ r.skipped = {}
        /\ \A d \in Docs : r.inc[d] = 0
        /\ r.pc \in {"done", "raised"}
  <2>1. /\ [IdleSub EXCEPT !.pc = "done", !.seen = pre] \in SubRec
        /\ [IdleSub EXCEPT !.pc = "raised"] \in SubRec
    BY <1>1, ConstTypes
  <2> DEFINE Q(r) == /\ r.pending = <<>> /\ r.failed = {} /\ r.skipped = {}
                     /\ \A d \in Docs : r.inc[d] = 0
                     /\ r.pc \in {"done", "raised"}
  <2>2. Q([IdleSub EXCEPT !.pc = "done", !.seen = pre])
    BY DEF IdleSub
  <2>3. Q([IdleSub EXCEPT !.pc = "raised"])
    BY DEF IdleSub
  <2>4. QED
    BY <2>1, <2>2, <2>3, Zenon
<1>4. sub'[b] \in {[IdleSub EXCEPT !.pc = "done", !.seen = pre], [IdleSub EXCEPT !.pc = "raised"]}
  BY <1>0, <1>2
<1>5. BatchOK(b)'
  BY <1>0, <1>3, <1>4, RestingBatch
<1>6. [IdleSub EXCEPT !.pc = "done", !.seen = pre].pc = "done" /\ [IdleSub EXCEPT !.pc = "raised"].pc = "raised"
      /\ [IdleSub EXCEPT !.pc = "done", !.seen = pre].seen = pre
  BY DEF IdleSub
<1>7. \A x \in Batches : x # b => sub'[x] = sub[x]
  BY <1>0, <1>2
<1>8. CASE sub'[b] = [IdleSub EXCEPT !.pc = "done", !.seen = pre] /\ queue' = queue \o ItemsOf(b)
           /\ tainted' = tainted \cup {d \in Range(sub[b].pending) : Live(d) \/ Uncleared(b, d) \/ Overtaken(d)}
  BY <1>5, <1>6, <1>7, <1>8 DEF pre
<1>9. CASE sub'[b] = [IdleSub EXCEPT !.pc = "raised"] /\ UNCHANGED <<queue, tainted>>
  BY <1>5, <1>6, <1>7, <1>9
<1>10. QED
  BY <1>0, <1>2, <1>8, <1>9


\* A crash ends the batches that were submitted.
LEMMA BatchCrashed ==
  ASSUME Base, Base', Next, BatchInv, Crash
  PROVE  BatchInv'
<1> SUFFICES ASSUME NEW b \in Batches PROVE BatchOK(b)'
  BY DEF BatchInv
<1>0. row' \in [Docs -> RowRec] /\ BatchOK(b)
  BY DEF Base, Shape, Types, BatchInv
<1>1. CASE sub[b].pc = "idle"
  <2>1. sub'[b] = sub[b]
    BY <1>1 DEF Crash
  <2>2. QED
    BY <1>0, <2>1, BatchFrame
<1>2. CASE sub[b].pc # "idle"
  <2> DEFINE r == [IdleSub EXCEPT !.pc = "gone"]
  <2>1. sub'[b] = r
    BY <1>2 DEF Crash
  <2>2. r.pending = <<>> /\ r.failed = {} /\ r.skipped = {} /\ r.pc = "gone" /\ \A d \in Docs : r.inc[d] = 0
    BY DEF IdleSub
  <2>3. r \in SubRec
    <3>1. [d \in Docs |-> "none"] \in [Docs -> Status]
      BY DEF Status
    <3>2. QED
      BY <3>1, ConstTypes
  <2> HIDE DEF r
  <2>4. QED
    BY <1>0, <2>1, <2>2, <2>3, RestingBatch
<1>3. QED
  BY <1>1, <1>2

\* Which steps concern no batch.
LEMMA BatchIdle ==
  ASSUME Next, ~Crash, \A b \in Batches : ~(Lookup(b) \/ Stage(b) \/ Enqueue(b))
  PROVE  sub' = sub
BY DEF Next, start_pending_processor, EnqueueOrphans, stop_pending_processor, Step, LoadDocument, EnterGate,
       ClearExtraction, AcquireWindow, StoreWindow, Finish, FailDocument, PreTryFault, Forget

\* Every step keeps what is known of the batches.
LEMMA BatchStep ==
  ASSUME Base, Base', Next, BatchInv
  PROVE  BatchInv'
<1>0. sub \in [Batches -> SubRec]
  BY DEF Base, Shape, Types
<1>1. CASE Crash
  BY <1>1, BatchCrashed
<1>2. ASSUME NEW b \in Batches, Lookup(b) \/ Stage(b) \/ Enqueue(b)
      PROVE  BatchInv'
  <2>1. BatchOK(b)' /\ \A x \in Batches : x # b => sub'[x] = sub[x]
    <3>1. CASE Lookup(b)
      <4>1. \A x \in Batches : x # b => sub'[x] = sub[x]
        BY <1>0, <3>1 DEF Lookup
      <4>2. QED
        BY <3>1, <4>1, BatchLookup DEF BatchInv
    <3>2. CASE Stage(b)
      BY <3>2, BatchStages DEF BatchInv, Stage
    <3>3. CASE Enqueue(b)
      BY <3>3, BatchEnqueued
    <3>4. QED
      BY <1>2, <3>1, <3>2, <3>3
  <2>2. QED
    BY <2>1, BatchFrame DEF BatchInv
<1>3. CASE sub' = sub
  BY <1>3, BatchFrame DEF BatchInv
<1>4. QED
  BY <1>1, <1>2, <1>3, BatchIdle

\* A batch that is submitted stays so, with what it knew, but for a crash.
LEMMA DoneStays ==
  ASSUME Base, Base', Next, ~Crash, NEW x \in Batches, sub[x].pc = "done"
  PROVE  sub'[x] = sub[x]
<1>0. sub \in [Batches -> SubRec]
  BY DEF Base, Shape, Types
<1>1. ASSUME NEW b \in Batches, Lookup(b) \/ Stage(b) \/ Enqueue(b)
      PROVE  sub'[x] = sub[x]
  <2>1. sub[b].pc # "done"
    BY <1>1 DEF Lookup, Stage, StageRepeat, StageSkip, StageRequeue, StageInsert, NextUp, Enqueue
  <2>2. \A y \in Batches : y # b => sub'[y] = sub[y]
    <3>1. CASE Lookup(b) \/ Stage(b)
      BY <1>0, <3>1 DEF Lookup, Stage, StageRepeat, StageSkip, StageRequeue, StageInsert
    <3>2. CASE Enqueue(b)
      BY <3>2, BatchEnqueued
    <3>3. QED
      BY <1>1, <3>1, <3>2
  <2>3. QED
    BY <2>1, <2>2
<1>2. QED
  BY <1>1, BatchIdle


Kept(w) == Busy(w) /\ wk'[w].item = wk[w].item /\ wk'[w].ver = wk[w].ver
Taken(w) ==
  /\ LoadDocument(w) /\ ~Busy(w) /\ wk'[w].item = Head(queue) /\ wk'[w].ver = row[Head(queue).doc].ver
  /\ wk'[w].pc = "gate" /\ row[Head(queue).doc].st # "none" /\ row[Head(queue).doc].inc = Head(queue).inc
  /\ \A x \in Workers : x # w => wk'[x] = wk[x]

\* A worker that is busy after a step was so before, with the same item and
\* content, or has taken the first item of the queue.
LEMMA WorkersStep ==
  ASSUME Base, Next, NEW w \in Workers, Busy(w)'
  PROVE  Kept(w) \/ Taken(w)
<1>0. wk \in [Workers -> WkRec] /\ wk[w] \in WkRec
  BY DEF Base, Shape, Types
<1>1. CASE wk'[w] = wk[w]
  BY <1>1 DEF Kept, Busy
<1>2. ASSUME NEW x \in Workers, Step(x) \/ PreTryFault(x)
      PROVE  Kept(w) \/ Taken(w)
  <2>1. CASE x # w
    <3>1. wk'[w] = wk[w]
      BY <1>0, <1>2, <2>1 DEF Step, LoadDocument, EnterGate, ClearExtraction, AcquireWindow, StoreWindow, Finish,
                   FailDocument, PreTryFault
    <3>2. QED
      BY <1>1, <3>1
  <2>2. CASE LoadDocument(w)
    <3>1. \/ wk' = wk
          \/ /\ wk' = [wk EXCEPT ![w].pc = "gate", ![w].item = Head(queue), ![w].ver = row[Head(queue).doc].ver]
             /\ row[Head(queue).doc].st # "none" /\ row[Head(queue).doc].inc = Head(queue).inc
      BY <2>2 DEF LoadDocument
    <3>2. ~Busy(w)
      BY <2>2 DEF LoadDocument, FirstIdle
    <3>3. CASE wk' = wk
      BY <1>1, <3>3
    <3>4. CASE wk' # wk
      <4>1. wk'[w] = [wk[w] EXCEPT !.pc = "gate", !.item = Head(queue), !.ver = row[Head(queue).doc].ver]
            /\ \A y \in Workers : y # w => wk'[y] = wk[y]
        BY <1>0, <3>1, <3>4
      <4>2. /\ wk'[w].pc = "gate" /\ wk'[w].item = Head(queue) /\ wk'[w].ver = row[Head(queue).doc].ver
        BY <1>0, <4>1 DEF WkRec
      <4>3. QED
        BY <2>2, <3>1, <3>2, <3>4, <4>1, <4>2 DEF Taken
    <3>5. QED
      BY <3>3, <3>4
  <2>3. CASE EnterGate(w) \/ ClearExtraction(w) \/ AcquireWindow(w) \/ StoreWindow(w)
    <3>1. wk[w].pc # "idle"
      BY <2>3 DEF EnterGate, ClearExtraction, AcquireWindow, StoreWindow
    <3>2. wk'[w].item = wk[w].item /\ wk'[w].ver = wk[w].ver
      <4>1. CASE EnterGate(w)
        BY <1>0, <4>1 DEF EnterGate, WkRec
      <4>2. CASE ClearExtraction(w)
        BY <1>0, <4>2 DEF ClearExtraction, WkRec
      <4>3. CASE AcquireWindow(w)
        BY <1>0, <4>3 DEF AcquireWindow, WkRec
      <4>4. CASE StoreWindow(w)
        BY <1>0, <4>4 DEF StoreWindow, WkRec
      <4>5. QED
        BY <2>3, <4>1, <4>2, <4>3, <4>4
    <3>3. QED
      BY <3>1, <3>2 DEF Kept, Busy
  <2>4. CASE Finish(w) \/ FailDocument(w) \/ PreTryFault(w)
    <3>1. wk[w].pc # "idle"
      BY <2>4 DEF Finish, FailDocument, PreTryFault
    <3>2. \/ wk'[w] = Resting
          \/ wk'[w] = [wk[w] EXCEPT !.pc = "fail"]
      BY <1>0, <2>4 DEF Finish, FailDocument, PreTryFault
    <3>3. wk'[w] # Resting
      BY DEF Busy, Resting
    <3>4. QED
      BY <1>0, <3>1, <3>2, <3>3 DEF Kept, Busy, WkRec
  <2>5. QED
    BY <1>2, <2>1, <2>2, <2>3, <2>4 DEF Step
<1>3. CASE stop_pending_processor \/ Crash
  <2>1. wk'[w] = Resting
    BY <1>3 DEF stop_pending_processor, Crash
  <2>2. QED
    BY <2>1 DEF Busy, Resting
<1>4. ASSUME NEW b \in Batches, Lookup(b) \/ Stage(b) \/ Enqueue(b)
      PROVE  wk' = wk
  BY <1>4 DEF Lookup, Stage, StageRepeat, StageSkip, StageRequeue, StageInsert, Enqueue
<1>5. CASE start_pending_processor \/ EnqueueOrphans \/ \E d \in Docs : Forget(d)
  <2>1. wk' = wk
    BY <1>5 DEF start_pending_processor, EnqueueOrphans, Forget
  <2>2. QED
    BY <1>1, <2>1
<1>6. QED
  BY <1>1, <1>2, <1>3, <1>4, <1>5 DEF Next

\* An item stays of the row's incarnation or a past one, and its batch submitted.
LEMMA ItemStays ==
  ASSUME Base, Base', Next, ~Crash, NEW it \in Item, ItemOK(it)
  PROVE  ItemOK(it)'
<1>1. it.doc \in Docs /\ it.inc \in Nat /\ it.batch \in Batches \cup {None}
  BY DEF Item
<1>2. IncOK(it.doc, it.inc)'
  BY <1>1, IncStays DEF ItemOK
<1>3. it.batch # None => sub'[it.batch].pc = "done"
  BY <1>1, DoneStays DEF ItemOK
<1>4. QED
  BY <1>2, <1>3 DEF ItemOK

\* An item in the queue is an item.
LEMMA QueueItems ==
  ASSUME Types, NEW i \in DOMAIN queue
  PROVE  queue[i] \in Item
BY LenProperties DEF Types

\* Where the items of the queue come from.
LEMMA QueueStep ==
  ASSUME Base, Base', Next, NEW i \in DOMAIN queue'
  PROVE  \/ \E j \in DOMAIN queue : queue'[i] = queue[j] /\ ~Crash
         \/ \E b \in Batches : Enqueue(b) /\ sub'[b].pc = "done" /\ \E j \in DOMAIN ItemsOf(b) : queue'[i] = ItemsOf(b)[j]
         \/ EnqueueOrphans /\ queue'[i].batch = None /\ row[queue'[i].doc].st # "none"
                           /\ queue'[i].inc = row[queue'[i].doc].inc /\ queue'[i].doc \in Docs
<1>0. queue \in Seq(Item) /\ Types
  BY DEF Base, Shape, Types
<1>1. ASSUME NEW b \in Batches, Enqueue(b)
      PROVE  \/ \E j \in DOMAIN queue : queue'[i] = queue[j]
             \/ sub'[b].pc = "done" /\ \E j \in DOMAIN ItemsOf(b) : queue'[i] = ItemsOf(b)[j]
  <2>1. \/ sub'[b].pc = "done" /\ queue' = queue \o ItemsOf(b)
        \/ queue' = queue
    BY <1>1, BatchEnqueued
  <2>2. ItemsOf(b) \in Seq(Item)
    BY <1>0, ItemsFacts
  <2>3. CASE queue' = queue
    BY <2>3
  <2>4. CASE sub'[b].pc = "done" /\ queue' = queue \o ItemsOf(b)
    <3>1. i \in DOMAIN (queue \o ItemsOf(b))
      BY <2>4
    <3>2. \/ i \in DOMAIN queue /\ (queue \o ItemsOf(b))[i] = queue[i]
          \/ i - Len(queue) \in DOMAIN ItemsOf(b) /\ (queue \o ItemsOf(b))[i] = ItemsOf(b)[i - Len(queue)]
      BY <1>0, <2>2, <3>1, ConcatFacts
    <3>3. QED
      BY <2>4, <3>2
  <2>5. QED
    BY <2>1, <2>3, <2>4
<1>2. ASSUME EnqueueOrphans
      PROVE  \/ \E j \in DOMAIN queue : queue'[i] = queue[j]
             \/ /\ queue'[i].batch = None /\ row[queue'[i].doc].st # "none" /\ queue'[i].doc \in Docs
                /\ queue'[i].inc = row[queue'[i].doc].inc
  <2>1. PICK claimed \in SUBSET Orphaned : queue' = queue \/ queue' = queue \o OrphanItems(claimed)
    BY <1>2, OrphanStep
  <2>2. claimed \in SUBSET Docs /\ \A d \in claimed : row[d].st # "none"
    BY DEF Orphaned
  <2>3. OrphanItems(claimed) \in Seq(Item)
    BY <1>0, <2>2, OrphanFacts
  <2>4. CASE queue' = queue
    BY <2>4
  <2>5. CASE queue' = queue \o OrphanItems(claimed)
    <3>1. \/ \E j \in DOMAIN queue : queue'[i] = queue[j]
          \/ \E j \in DOMAIN OrphanItems(claimed) : queue'[i] = OrphanItems(claimed)[j]
      BY <1>0, <2>3, <2>5, ConcatFacts
    <3>2. QED
      BY <1>0, <2>2, <3>1, OrphanFacts
  <2>6. QED
    BY <2>1, <2>4, <2>5
<1>3. CASE Crash
  <2>1. DOMAIN queue' = {}
    BY <1>3, EmptySeq, LenProperties DEF Crash
  <2>2. QED
    BY <2>1
<1>4. ASSUME NEW w \in Workers, Step(w) \/ PreTryFault(w)
      PROVE  \E j \in DOMAIN queue : queue'[i] = queue[j]
  <2>1. queue' = queue \/ (queue # <<>> /\ queue' = Tail(queue))
    BY <1>4 DEF Step, LoadDocument, EnterGate, ClearExtraction, AcquireWindow, StoreWindow, Finish,
                   FailDocument, PreTryFault
  <2>2. QED
    BY <1>0, <2>1, TailFacts
<1>5. ASSUME NEW b \in Batches, Lookup(b) \/ Stage(b)
      PROVE  queue' = queue
  BY <1>5 DEF Lookup, Stage, StageRepeat, StageSkip, StageRequeue, StageInsert
<1>6. CASE start_pending_processor \/ stop_pending_processor \/ \E d \in Docs : Forget(d)
  <2>1. queue' = queue
    BY <1>6 DEF start_pending_processor, stop_pending_processor, Forget
  <2>2. QED
    BY <1>3, <2>1
<1>7. QED
  BY <1>1, <1>2, <1>3, <1>4, <1>5, <1>6 DEF Next


\* Every step keeps what is known of the items.
LEMMA ItemStep ==
  ASSUME Base, Base', Next, Links
  PROVE  ItemInv'
<1>0. /\ Types /\ queue \in Seq(Item) /\ Shape
      /\ \A i \in DOMAIN queue : queue[i] \in Item /\ ItemOK(queue[i])
      /\ \A w \in Workers : Busy(w) => wk[w].item \in Item /\ ItemOK(wk[w].item) /\ wk[w].ver \in Batches
  BY QueueItems DEF Base, Shape, Types, BusyHasItem, Links, ItemInv
<1>1. ASSUME NEW i \in DOMAIN queue' PROVE ItemOK(queue[i])'
  <2>0. queue'[i] \in Item
    BY LenProperties DEF Base, Shape, Types
  <2> DEFINE it == queue'[i]
  <2>1. ASSUME NEW j \in DOMAIN queue, queue'[i] = queue[j], ~Crash
        PROVE  ItemOK(queue[i])'
    <3>1. \A y \in Item : ItemOK(y) => ItemOK(y)'
      BY <2>1, ItemStays
    <3>2. PICK y \in Item : y = queue[j] /\ ItemOK(y)
      BY <1>0
    <3>3. ItemOK(y)' /\ queue'[i] = y
      BY <2>1, <3>1, <3>2
    <3>4. QED
      BY <3>3 DEF ItemOK, IncOK
  <2>2. ASSUME NEW b \in Batches, Enqueue(b), sub'[b].pc = "done", NEW j \in DOMAIN ItemsOf(b), queue'[i] = ItemsOf(b)[j]
        PROVE  ItemOK(queue[i])'
    <3>1. PICK d \in Docs : d = sub[b].pending[j] /\ d \in Range(sub[b].pending)
                            /\ queue'[i] = [doc |-> d, inc |-> sub[b].inc[d], batch |-> b]
      BY <1>0, <2>2, ItemsFacts DEF Range
    <3>2. IncOK(d, sub[b].inc[d])
      BY <3>1 DEF Links, BatchInv, BatchOK
    <3>3. PICK n \in Nat : n = sub[b].inc[d]
      BY DEF Base, Shape, Types, SubRec
    <3>4. IncOK(d, n)'
      BY <3>2, <3>3, IncStays
    <3>5. queue'[i].doc = d /\ queue'[i].inc = n /\ queue'[i].batch = b
      BY <3>1, <3>3
    <3>6. QED
      BY <2>2, <3>4, <3>5 DEF ItemOK, IncOK
  <2>3. ASSUME queue'[i].batch = None, row[queue'[i].doc].st # "none", queue'[i].doc \in Docs,
               queue'[i].inc = row[queue'[i].doc].inc
        PROVE  ItemOK(queue[i])'
    <3>1. PICK d \in Docs, n \in Nat : d = queue'[i].doc /\ n = queue'[i].inc
      BY <2>0, <2>3 DEF Item
    <3>2. IncOK(d, n)
      BY <2>3, <3>1 DEF IncOK
    <3>3. IncOK(d, n)'
      BY <3>2, IncStays
    <3>4. QED
      BY <2>3, <3>1, <3>3 DEF ItemOK, IncOK
  <2>4. QED
    BY <2>1, <2>2, <2>3, QueueStep
<1>2. ASSUME NEW w \in Workers, Busy(w)' PROVE ItemOK(wk[w].item)' /\ wk'[w].ver \in Batches
  <2>0. ~Crash
    BY <1>2 DEF Crash, Busy, Resting
  <2>1. \A y \in Item : ItemOK(y) => ItemOK(y)'
    BY <2>0, ItemStays
  <2>2. CASE Kept(w)
    <3>1. PICK y \in Item : y = wk[w].item /\ ItemOK(y)
      BY <1>0, <2>2 DEF Kept
    <3>2. ItemOK(y)' /\ wk'[w].item = y
      BY <2>1, <2>2, <3>1 DEF Kept
    <3>3. QED
      BY <1>0, <2>2, <3>2 DEF Kept, ItemOK, IncOK
  <2>3. CASE Taken(w)
    <3>0. queue # <<>>
      BY <2>3 DEF Taken, LoadDocument
    <3>1. PICK y \in Item : y = Head(queue) /\ ItemOK(y)
      BY <1>0, <3>0, TailFacts
    <3>2. ItemOK(y)' /\ wk'[w].item = y
      BY <2>1, <2>3, <3>1 DEF Taken
    <3>3. y.doc \in Docs
      BY DEF Item
    <3>4. wk'[w].ver = row[y.doc].ver /\ row[y.doc].st # "none"
      BY <2>3, <3>1 DEF Taken
    <3>5. wk'[w].ver \in Batches
      BY <3>3, <3>4 DEF Links, RowInv
    <3>6. QED
      BY <3>2, <3>5 DEF ItemOK, IncOK
  <2>4. QED
    BY <1>2, <2>2, <2>3, WorkersStep
<1>3. QED
  BY <1>1, <1>2 DEF ItemInv


\* Every step keeps what is known of the rows.
LEMMA RowStep ==
  ASSUME Base, Next, Links
  PROVE  RowInv'
<1>0. /\ row \in [Docs -> RowRec] /\ chunks \in [Docs -> Copies]
      /\ \A w \in Workers : Busy(w) => /\ wk[w].item \in Item /\ wk[w].item.doc \in Docs
                                       /\ IncOK(wk[w].item.doc, wk[w].item.inc) /\ wk[w].ver \in Batches
  BY DEF Base, Shape, Types, BusyHasItem, Links, ItemInv, ItemOK, Item
<1>1. CASE row' = row /\ chunks' = chunks
  BY <1>1 DEF Links, RowInv
<1>2. ASSUME NEW it, NEW st \in {"pending", "failed", "completed"}, NEW v \in Batches, update_document(it, st, v),
             chunks' = chunks
      PROVE  RowInv'
  <2> SUFFICES ASSUME NEW d \in Docs PROVE IF row'[d].st = "none" THEN chunks'[d] = NoChunks ELSE row'[d].ver \in Batches
    BY DEF RowInv
  <2>1. CASE row'[d] = row[d]
    BY <1>2, <2>1 DEF Links, RowInv
  <2>2. CASE row'[d] # row[d]
    <3>1. row'[d].st = st /\ row'[d].ver = v
      BY <1>0, <1>2, <2>2 DEF update_document, RowRec
    <3>2. QED
      BY <3>1
  <2>3. QED
    BY <2>1, <2>2
<1>3. ASSUME NEW b \in Batches, Lookup(b) \/ Stage(b) \/ Enqueue(b)
      PROVE  RowInv'
  <2>1. CASE Lookup(b) \/ Enqueue(b)
    BY <1>1, <2>1 DEF Lookup, Enqueue
  <2>2. ASSUME NEW e \in Docs, StageRepeat(b, e) \/ StageSkip(b, e) \/ StageRequeue(b, e)
        PROVE  RowInv'
    <3>1. /\ chunks' = chunks
          /\ row' = row \/ update_document([doc |-> e, inc |-> sub[b].inc[e]], "pending", b)
      BY <2>2 DEF StageRepeat, StageSkip, StageRequeue
    <3>2. QED
      BY <1>1, <1>2, <3>1
  <2>3. ASSUME NEW e \in Docs, StageInsert(b, e)
        PROVE  RowInv'
    <3>1. chunks' = chunks /\ (row' = row \/ row' = [row EXCEPT ![e].st = "pending", ![e].ver = b])
      BY <2>3 DEF StageInsert
    <3>2. QED
      BY <1>0, <3>1 DEF RowRec, Links, RowInv
  <2>4. QED
    BY <1>3, <2>1, <2>2, <2>3 DEF Stage
<1>4. CASE start_pending_processor \/ stop_pending_processor \/ Crash
  BY <1>1, <1>4 DEF start_pending_processor, stop_pending_processor, Crash
<1>5. CASE EnqueueOrphans
  <2>1. PICK claimed \in SUBSET Orphaned :
          row' = row \/ row' = [e \in Docs |-> IF e \in claimed THEN [row[e] EXCEPT !.st = "processing"]
                                               ELSE row[e]]
    BY <1>5, OrphanStep
  <2>2. chunks' = chunks /\ \A d \in claimed : d \in Docs /\ row[d].st # "none"
    BY <1>5, OrphanStep DEF Orphaned
  <2>3. QED
    BY <1>0, <2>1, <2>2 DEF RowRec, Links, RowInv
<1>6. ASSUME NEW w \in Workers, LoadDocument(w) \/ EnterGate(w) \/ AcquireWindow(w)
      PROVE  RowInv'
  BY <1>1, <1>6 DEF LoadDocument, EnterGate, AcquireWindow
<1>7. ASSUME NEW w \in Workers, ClearExtraction(w)
      PROVE  RowInv'
  <2>1. row' = row /\ \A d \in Docs : chunks'[d] \in {chunks[d], NoChunks}
    BY <1>0, <1>7 DEF ClearExtraction
  <2>2. QED
    BY <2>1 DEF Links, RowInv
<1>8. ASSUME NEW w \in Workers, StoreWindow(w)
      PROVE  RowInv'
  <2>1. Busy(w) /\ row' = row
    BY <1>8 DEF StoreWindow, Busy
  <2>2. CASE row[wk[w].item.doc].inc = wk[w].item.inc
    <3>1. row[wk[w].item.doc].st # "none"
      BY <1>0, <2>1, <2>2 DEF IncOK
    <3>2. \A d \in Docs : d # wk[w].item.doc => chunks'[d] = chunks[d]
      BY <1>0, <1>8 DEF StoreWindow
    <3>3. QED
      BY <2>1, <3>1, <3>2 DEF Links, RowInv
  <2>3. CASE row[wk[w].item.doc].inc # wk[w].item.inc
    <3>1. chunks' = chunks
      BY <1>8, <2>3 DEF StoreWindow
    <3>2. QED
      BY <1>1, <2>1, <3>1
  <2>4. QED
    BY <2>2, <2>3
<1>9. ASSUME NEW w \in Workers, Finish(w) \/ FailDocument(w) \/ PreTryFault(w)
      PROVE  RowInv'
  <2>1. Busy(w) /\ chunks' = chunks
    BY <1>9 DEF Finish, FailDocument, PreTryFault, Busy
  <2>2. row' = row \/ \E st \in {"failed", "completed"} : update_document(wk[w].item, st, wk[w].ver)
    BY <1>9 DEF Finish, FailDocument, PreTryFault
  <2>3. QED
    BY <1>0, <1>1, <1>2, <2>1, <2>2
<1>10. ASSUME NEW e \in Docs, Forget(e)
      PROVE  RowInv'
  <2>1. /\ \A d \in Docs : d # e => row'[d] = row[d] /\ chunks'[d] = chunks[d]
        /\ chunks'[e] = NoChunks /\ row'[e].st = "none"
    BY <1>0, <1>10 DEF Forget
  <2>2. QED
    BY <2>1 DEF Links, RowInv
<1>11. QED
  BY <1>3, <1>4, <1>5, <1>6, <1>7, <1>8, <1>9, <1>10 DEF Next, Step

\* Every step keeps the links.
LEMMA LinksStep == ASSUME Base, Base', Next, Links PROVE Links'
BY BatchStep, ItemStep, RowStep DEF Links


-----------------------------------------------------------------------------
(* One item at a document                                                  *)

SeenStays == \A b \in Batches : sub[b].pc = "done" => sub'[b].seen = sub[b].seen

\* An item stays ready while the chunks of its document stay.
LEMMA ReadyStays ==
  ASSUME SeenStays, NEW it \in Item, ItemOK(it), Ready(it), chunks'[it.doc] = chunks[it.doc]
  PROVE  Ready(it)'
BY DEF SeenStays, Item, ItemOK, Ready

\* A worker's account stays true while it and the chunks of its document stay.
LEMMA WorkStays ==
  ASSUME SeenStays, NEW w \in Workers, wk'[w] = wk[w], wk[w].item \in Item, ItemOK(wk[w].item), WorkOK(w),
         chunks'[wk[w].item.doc] = chunks[wk[w].item.doc]
  PROVE  WorkOK(w)'
<1>1. PICK it \in Item : it = wk[w].item /\ ItemOK(it) /\ (Ready(it) => Ready(it)')
  BY ReadyStays
<1>2. wk'[w].pc = "gate" => Ready(wk[w].item)'
  BY <1>1 DEF WorkOK, Ready
<1>3. QED
  BY <1>2 DEF WorkOK, Written

\* A step that leaves the items and the chunks of a document alone, and does
\* not complete it.
LEMMA AloneFrame ==
  ASSUME Base, Links, SeenStays, NEW d \in Docs, Alone(d), queue' = queue, wk' = wk,
         chunks'[d] = chunks[d], row'[d].inc = row[d].inc, row'[d] = row[d] \/ row'[d].st # "completed"
  PROVE  Alone(d)'
<1>0. /\ \A i \in DOMAIN queue : queue[i] \in Item /\ ItemOK(queue[i])
      /\ \A w \in Workers : Busy(w) => wk[w].item \in Item /\ ItemOK(wk[w].item)
  BY QueueItems DEF Base, Shape, BusyHasItem, Links, ItemInv
<1>1. \A i \in DOMAIN queue : AtQ(d, i)' <=> AtQ(d, i)
  BY DEF AtQ
<1>2. \A w \in Workers : AtW(d, w)' <=> AtW(d, w)
  BY DEF AtW, Busy
<1>3. \A i \in DOMAIN queue : AtQ(d, i) => row'[d].st # "completed" /\ Ready(queue[i])'
  <2> SUFFICES ASSUME NEW i \in DOMAIN queue, AtQ(d, i) PROVE row'[d].st # "completed" /\ Ready(queue[i])'
    OBVIOUS
  <2>1. PICK it \in Item : it = queue[i] /\ ItemOK(it) /\ Ready(it) /\ it.doc = d
    BY <1>0 DEF AtQ, Alone
  <2>2. Ready(it)'
    BY <2>1, ReadyStays
  <2>3. QED
    BY <2>1, <2>2 DEF Alone, Ready
<1>4. \A w \in Workers : AtW(d, w) => row'[d].st # "completed" /\ WorkOK(w)'
  <2> SUFFICES ASSUME NEW w \in Workers, AtW(d, w) PROVE row'[d].st # "completed" /\ WorkOK(w)'
    OBVIOUS
  <2>1. wk[w].item \in Item /\ ItemOK(wk[w].item) /\ WorkOK(w) /\ wk[w].item.doc = d
    BY <1>0 DEF AtW, Alone
  <2>2. WorkOK(w)'
    BY <2>1, WorkStays
  <2>3. QED
    BY <2>2 DEF Alone
<1>5. row'[d].st = "completed" => Written(d, row[d].ver, Windows + 1)'
  BY DEF Alone, Written
<1>6. QED
  BY <1>1, <1>2, <1>3, <1>4, <1>5 DEF Alone

\* A worker moves on: another document's items are not concerned; at this
\* document the worker is alone, and what it becomes is all that counts.
LEMMA AloneMove ==
  ASSUME Base, Links, SeenStays, NEW d \in Docs, Alone(d), queue' = queue,
         NEW w \in Workers, Busy(w), NEW r, wk' = [wk EXCEPT ![w] = r],
         r.pc = "idle" \/ (r.item = wk[w].item),
         row'[d].inc = row[d].inc,
         ~AtW(d, w) => chunks'[d] = chunks[d] /\ row'[d] = row[d],
         AtW(d, w) /\ r.pc # "idle" => WorkOK(w)' /\ row'[d].st # "completed",
         AtW(d, w) /\ row'[d].st = "completed" => Written(d, row[d].ver, Windows + 1)'
  PROVE  Alone(d)'
<1>0. /\ \A i \in DOMAIN queue : queue[i] \in Item /\ ItemOK(queue[i])
      /\ \A x \in Workers : Busy(x) => wk[x].item \in Item /\ ItemOK(wk[x].item)
  BY QueueItems DEF Base, Shape, BusyHasItem, Links, ItemInv
<1>1. \A x \in Workers : wk'[x] = IF x = w THEN r ELSE wk[x]
  BY DEF Base, Shape, Types
<1>2. \A i \in DOMAIN queue : AtQ(d, i)' <=> AtQ(d, i)
  BY DEF AtQ
<1>3. \A x \in Workers : AtW(d, x)' => AtW(d, x)
  BY <1>1 DEF AtW, Busy
<1>4. CASE AtW(d, w)
  <2>1. \A x \in Workers : AtW(d, x)' => x = w
    BY <1>3, <1>4 DEF Alone
  <2>2. \A i \in DOMAIN queue : ~AtQ(d, i)
    BY <1>4 DEF Alone
  <2>3. AtW(d, w)' => r.pc # "idle"
    BY <1>1 DEF AtW, Busy
  <2>4. QED
    BY <1>2, <1>4, <2>1, <2>2, <2>3 DEF Alone
<1>5. CASE ~AtW(d, w)
  <2>1. \A x \in Workers : AtW(d, x)' => x # w /\ wk'[x] = wk[x]
    BY <1>1, <1>3, <1>5
  <2>2. \A i \in DOMAIN queue : AtQ(d, i) => row'[d].st # "completed" /\ Ready(queue[i])'
    <3> SUFFICES ASSUME NEW i \in DOMAIN queue, AtQ(d, i) PROVE row'[d].st # "completed" /\ Ready(queue[i])'
      OBVIOUS
    <3>1. PICK it \in Item : it = queue[i] /\ ItemOK(it) /\ Ready(it) /\ it.doc = d
      BY <1>0 DEF AtQ, Alone
    <3>2. Ready(it)'
      BY <1>5, <3>1, ReadyStays
    <3>3. QED
      BY <1>5, <3>1, <3>2 DEF Alone, Ready
  <2>3. \A x \in Workers : AtW(d, x)' => row'[d].st # "completed" /\ WorkOK(x)'
    <3> SUFFICES ASSUME NEW x \in Workers, AtW(d, x)' PROVE row'[d].st # "completed" /\ WorkOK(x)'
      OBVIOUS
    <3>1. /\ wk[x].item \in Item /\ ItemOK(wk[x].item) /\ WorkOK(x) /\ wk[x].item.doc = d /\ wk'[x] = wk[x]
          /\ row[d].st # "completed"
      BY <1>0, <1>3, <2>1 DEF AtW, Alone
    <3>2. WorkOK(x)'
      BY <1>5, <3>1, WorkStays
    <3>3. QED
      BY <1>5, <3>1, <3>2
  <2>4. row'[d].st = "completed" => Written(d, row[d].ver, Windows + 1)'
    BY <1>5 DEF Alone, Written
  <2>5. QED
    BY <1>2, <1>3, <2>2, <2>3, <2>4 DEF Alone
<1>6. QED
  BY <1>4, <1>5


\* Staging touches no item and completes nothing.
LEMMA AloneStage ==
  ASSUME Base, Base', Links, Next, NEW b \in Batches, Lookup(b) \/ Stage(b), NEW d \in Docs, Alone(d)
  PROVE  Alone(d)'
<1>1. queue' = queue /\ wk' = wk /\ chunks' = chunks
  BY DEF Lookup, Stage, StageRepeat, StageSkip, StageRequeue, StageInsert
<1>2. SeenStays
  <2>1. sub[b].pc # "done"
    BY DEF Lookup, Stage, StageRepeat, StageSkip, StageRequeue, StageInsert, NextUp
  <2>2. \A x \in Batches : x # b => sub'[x] = sub[x]
    <3>1. DOMAIN sub = Batches /\ sub = [x \in Batches |-> sub[x]]
      BY DEF Base, Shape, Types
    <3>2. CASE Lookup(b)
      BY <3>1, <3>2 DEF Lookup
    <3>3. CASE Stage(b)
      BY <3>1, <3>3 DEF Stage, StageRepeat, StageSkip, StageRequeue, StageInsert
    <3>4. QED
      BY <3>2, <3>3
  <2>3. QED
    BY <2>1, <2>2 DEF SeenStays
<1>3. row'[d].inc = row[d].inc /\ (row'[d] = row[d] \/ row'[d].st = "pending")
  <2>1. row \in [Docs -> RowRec]
    BY DEF Base, Shape, Types
  <2>2. CASE row' = row
    BY <2>2
  <2>3. ASSUME NEW e \in Docs, NEW v, row' = [row EXCEPT ![e].st = "pending", ![e].ver = v]
        PROVE  row'[d].inc = row[d].inc /\ (row'[d] = row[d] \/ row'[d].st = "pending")
    BY <2>1, <2>3 DEF RowRec
  <2>4. row' = row \/ \E e \in Docs : row' = [row EXCEPT ![e].st = "pending", ![e].ver = b]
    BY DEF Lookup, Stage, StageRepeat, StageSkip, StageRequeue, StageInsert, update_document
  <2>5. QED
    BY <2>2, <2>3, <2>4
<1>4. QED
  BY <1>1, <1>2, <1>3, AloneFrame

\* A batch is queued: each of its documents that keeps its good standing had no
\* item, is not COMPLETED, and has no chunks or is cleared first.
LEMMA AloneEnqueue ==
  ASSUME Base, Base', Links, Next, NEW b \in Batches, Enqueue(b), NEW d \in Docs, Alone(d), d \notin tainted'
  PROVE  Alone(d)'
<1>0. /\ sub \in [Batches -> SubRec] /\ queue \in Seq(Item) /\ Types /\ b # None
      /\ \A i \in DOMAIN queue : queue[i] \in Item /\ ItemOK(queue[i])
  BY QueueItems, ProcessorAssumption DEF Base, Shape, Types, Links, ItemInv
<1>1. row' = row /\ chunks' = chunks /\ wk' = wk /\ sub[b].pc = "staging"
  BY DEF Enqueue
<1>2. SeenStays
  BY <1>1, BatchEnqueued DEF SeenStays
<1>3. CASE sub'[b].pc = "raised"
  BY <1>1, <1>2, <1>3, BatchEnqueued, AloneFrame
<1>4. CASE sub'[b].pc = "done"
  <2>1. /\ queue' = queue \o ItemsOf(b)
        /\ sub'[b].seen = [e \in Docs |-> IF e \in Range(sub[b].pending) /\ sub[b].seen[e] = "failed"
                                                                     THEN "failed" ELSE "none"]
        /\ tainted' = tainted \cup {e \in Range(sub[b].pending) : Live(e) \/ Uncleared(b, e) \/ Overtaken(e)}
    BY <1>4, BatchEnqueued
  <2>2. /\ ItemsOf(b) \in Seq(Item)
        /\ DOMAIN ItemsOf(b) = DOMAIN sub[b].pending
        /\ \A j \in DOMAIN ItemsOf(b) : /\ ItemsOf(b)[j].doc = sub[b].pending[j] /\ ItemsOf(b)[j].batch = b
                                        /\ ItemsOf(b)[j] \in Item
    BY <1>0, ItemsFacts, LenProperties
  <2>3. \A i \in DOMAIN queue' :
              \/ i \in DOMAIN queue /\ queue'[i] = queue[i]
              \/ i - Len(queue) \in DOMAIN ItemsOf(b) /\ queue'[i] = ItemsOf(b)[i - Len(queue)]
    BY <1>0, <2>1, <2>2, ConcatFacts
  <2>4. \A i, j \in DOMAIN queue' : i - Len(queue) = j - Len(queue) => i = j
    BY <1>0, <2>1, <2>2, ConcatFacts
  <2>5. \A w \in Workers : (AtW(d, w)' <=> AtW(d, w)) /\ (AtW(d, w) => WorkOK(w)')
    <3>1. \A w \in Workers : AtW(d, w)' <=> AtW(d, w)
      BY <1>1 DEF AtW, Busy
    <3>2. \A w \in Workers : AtW(d, w) => wk[w].item \in Item /\ ItemOK(wk[w].item) /\ WorkOK(w)
      BY DEF AtW, Alone, Base, Shape, BusyHasItem, Links, ItemInv
    <3>3. QED
      BY <1>1, <1>2, <3>1, <3>2, WorkStays
  <2>6. row'[d].st = "completed" => Written(d, row[d].ver, Windows + 1)'
    BY <1>1 DEF Alone, Written
  <2>7. CASE d \notin Range(sub[b].pending)
    <3>1. \A i \in DOMAIN queue' : AtQ(d, i)' => i \in DOMAIN queue /\ queue'[i] = queue[i] /\ AtQ(d, i)
      <4> SUFFICES ASSUME NEW i \in DOMAIN queue', AtQ(d, i)'
                   PROVE  i \in DOMAIN queue /\ queue'[i] = queue[i] /\ AtQ(d, i)
        OBVIOUS
      <4>1. CASE i - Len(queue) \in DOMAIN ItemsOf(b) /\ queue'[i] = ItemsOf(b)[i - Len(queue)]
        <5>1. queue'[i].doc \in Range(sub[b].pending)
          BY <2>2, <4>1 DEF Range
        <5>2. QED
          BY <2>7, <5>1 DEF AtQ
      <4>2. CASE i \in DOMAIN queue /\ queue'[i] = queue[i]
        BY <1>1, <4>2 DEF AtQ
      <4>3. QED
        BY <2>3, <4>1, <4>2
    <3>2. \A i \in DOMAIN queue' : AtQ(d, i)' => row'[d].st # "completed" /\ Ready(queue[i])'
      <4> SUFFICES ASSUME NEW i \in DOMAIN queue', AtQ(d, i)'
                   PROVE  row'[d].st # "completed" /\ Ready(queue[i])'
        OBVIOUS
      <4>1. i \in DOMAIN queue /\ queue'[i] = queue[i] /\ AtQ(d, i)
        BY <3>1
      <4>2. PICK it \in Item : it = queue[i] /\ ItemOK(it) /\ Ready(it) /\ it.doc = d
        BY <1>0, <4>1 DEF AtQ, Alone
      <4>3. Ready(it)'
        BY <1>1, <1>2, <4>2, ReadyStays
      <4>4. QED
        BY <1>1, <4>1, <4>2, <4>3 DEF Alone, Ready
    <3>3. QED
      BY <1>1, <2>5, <2>6, <3>1, <3>2 DEF Alone
  <2>8. CASE d \in Range(sub[b].pending)
    <3>1. ~Live(d) /\ ~Uncleared(b, d) /\ ~Overtaken(d)
      BY <2>1, <2>8
    <3>2. \A i \in DOMAIN queue : queue[i].doc # d
      BY <3>1 DEF Live, Queued
    <3>3. \A w \in Workers : ~AtW(d, w)
      BY <3>1 DEF Live, Holding, AtW
    <3>4. \A i \in DOMAIN queue' : AtQ(d, i)' =>
            /\ i - Len(queue) \in DOMAIN sub[b].pending /\ sub[b].pending[i - Len(queue)] = d
            /\ queue'[i].batch = b
      BY <2>2, <2>3, <3>2 DEF AtQ
    <3>5. \A i, j \in DOMAIN queue' : AtQ(d, i)' /\ AtQ(d, j)' => i = j
      <4> SUFFICES ASSUME NEW i \in DOMAIN queue', NEW j \in DOMAIN queue', AtQ(d, i)', AtQ(d, j)'
                   PROVE  i = j
        OBVIOUS
      <4>1. i - Len(queue) = j - Len(queue)
        BY <3>4 DEF Links, BatchInv, BatchOK
      <4>2. QED
        BY <2>4, <4>1
    <3>6. \A i \in DOMAIN queue' : AtQ(d, i)' => row'[d].st # "completed" /\ Ready(queue[i])'
      <4> SUFFICES ASSUME NEW i \in DOMAIN queue', AtQ(d, i)'
                   PROVE  row'[d].st # "completed" /\ Ready(queue[i])'
        OBVIOUS
      <4>1. queue'[i].batch = b /\ queue'[i].doc = d
        BY <3>4 DEF AtQ
      <4>2. sub'[b].seen[d] = "failed" \/ chunks'[d] = NoChunks
        BY <1>1, <2>1, <2>8, <3>1 DEF Uncleared
      <4>3. QED
        BY <1>0, <1>1, <3>1, <4>1, <4>2 DEF Ready, Overtaken
    <3>7. QED
      BY <2>5, <2>6, <3>3, <3>5, <3>6 DEF Alone
  <2>9. QED
    BY <2>7, <2>8
<1>5. QED
  BY <1>3, <1>4, BatchEnqueued


\* The scan: the documents it claims lose their standing, the others see
\* nothing of it.
LEMMA AloneOrphans ==
  ASSUME Base, Base', Links, EnqueueOrphans, NEW d \in Docs, Alone(d), d \notin tainted'
  PROVE  Alone(d)'
<1>0. /\ queue \in Seq(Item) /\ Types
      /\ \A i \in DOMAIN queue : queue[i] \in Item /\ ItemOK(queue[i])
  BY QueueItems DEF Base, Shape, Types, Links, ItemInv
<1>1. wk' = wk /\ chunks' = chunks /\ sub' = sub /\ SeenStays
  BY OrphanStep DEF SeenStays
<1>2. PICK claimed \in SUBSET Orphaned :
              \/ /\ row' = [e \in Docs |-> IF e \in claimed
                                     THEN [row[e] EXCEPT !.st = "processing"]
                                     ELSE row[e]]
                 /\ queue' = queue \o OrphanItems(claimed)
                 /\ tainted' = tainted \cup claimed
              \/ UNCHANGED <<row, queue, tainted>>
  BY OrphanStep
<1>3. CASE UNCHANGED <<row, queue, tainted>>
  BY <1>1, <1>3, AloneFrame
<1>4. CASE ~UNCHANGED <<row, queue, tainted>>
  <2>1. row'[d] = row[d] /\ d \notin claimed /\ queue' = queue \o OrphanItems(claimed)
    BY <1>2, <1>4
  <2>2. /\ OrphanItems(claimed) \in Seq(Item)
        /\ \A j \in DOMAIN OrphanItems(claimed) : OrphanItems(claimed)[j].doc \in claimed
    <3>1. claimed \in SUBSET Docs
      BY DEF Orphaned
    <3>2. QED
      BY <1>0, <3>1, OrphanFacts
  <2>3. \A i \in DOMAIN queue' : AtQ(d, i)' => i \in DOMAIN queue /\ queue'[i] = queue[i] /\ AtQ(d, i)
    <3> SUFFICES ASSUME NEW i \in DOMAIN queue', AtQ(d, i)'
                 PROVE  i \in DOMAIN queue /\ queue'[i] = queue[i] /\ AtQ(d, i)
      OBVIOUS
    <3>1. \/ i \in DOMAIN queue /\ queue'[i] = queue[i]
          \/ i - Len(queue) \in DOMAIN OrphanItems(claimed) /\ queue'[i] = OrphanItems(claimed)[i - Len(queue)]
      BY <1>0, <2>1, <2>2, ConcatFacts
    <3>2. queue'[i].doc = d /\ queue'[i].inc = row'[d].inc
      BY DEF AtQ
    <3>3. QED
      BY <2>1, <2>2, <3>1, <3>2 DEF AtQ
  <2>4. \A w \in Workers : (AtW(d, w)' <=> AtW(d, w)) /\ (AtW(d, w) => WorkOK(w)')
    <3>1. \A w \in Workers : AtW(d, w)' <=> AtW(d, w)
      BY <1>1, <2>1 DEF AtW, Busy
    <3>2. \A w \in Workers : AtW(d, w) => wk[w].item \in Item /\ ItemOK(wk[w].item) /\ WorkOK(w)
      BY DEF AtW, Alone, Base, Shape, BusyHasItem, Links, ItemInv
    <3>3. QED
      BY <1>1, <3>1, <3>2, WorkStays
  <2>5. row'[d].st = "completed" => Written(d, row[d].ver, Windows + 1)'
    BY <1>1, <2>1 DEF Alone, Written
  <2>6. \A i \in DOMAIN queue' : AtQ(d, i)' => row'[d].st # "completed" /\ Ready(queue[i])'
    <3> SUFFICES ASSUME NEW i \in DOMAIN queue', AtQ(d, i)'
                 PROVE  row'[d].st # "completed" /\ Ready(queue[i])'
      OBVIOUS
    <3>1. i \in DOMAIN queue /\ queue'[i] = queue[i] /\ AtQ(d, i)
      BY <2>3
    <3>2. PICK it \in Item : it = queue[i] /\ ItemOK(it) /\ Ready(it) /\ it.doc = d
      BY <1>0, <3>1 DEF AtQ, Alone
    <3>3. Ready(it)'
      BY <1>1, <3>2, ReadyStays
    <3>4. QED
      BY <2>1, <3>1, <3>2, <3>3 DEF Alone, Ready
  <2>7. QED
    BY <2>1, <2>3, <2>4, <2>5, <2>6 DEF Alone
<1>5. QED
  BY <1>3, <1>4

\* A stop or a crash: the documents that lose a worker lose their standing, the
\* others at most the items that waited for them.
LEMMA AloneEnds ==
  ASSUME Base, Links, stop_pending_processor \/ Crash, NEW d \in Docs, Alone(d), d \notin tainted'
  PROVE  Alone(d)'
<1>1. /\ wk' = [w \in Workers |-> Resting] /\ row' = row /\ chunks' = chunks
      /\ (queue' = queue /\ sub' = sub) \/ queue' = <<>>
  BY DEF stop_pending_processor, Crash
<1>2. \A w \in Workers : ~AtW(d, w)'
  BY <1>1 DEF AtW, Busy, Resting
<1>3. \A i \in DOMAIN queue' : i \in DOMAIN queue /\ queue'[i] = queue[i] /\ sub' = sub
  <2>1. DOMAIN <<>> = {}
    BY EmptySeq, LenProperties
  <2>2. QED
    BY <1>1, <2>1
<1>4. \A i \in DOMAIN queue' : AtQ(d, i)' => AtQ(d, i)
  BY <1>1, <1>3 DEF AtQ
<1>5. \A i \in DOMAIN queue' : AtQ(d, i)' => row'[d].st # "completed" /\ Ready(queue[i])'
  BY <1>1, <1>3, <1>4 DEF Alone, Ready
<1>6. row'[d].st = "completed" => Written(d, row[d].ver, Windows + 1)'
  BY <1>1 DEF Alone, Written
<1>7. QED
  BY <1>2, <1>3, <1>4, <1>5, <1>6 DEF Alone

\* A document is deleted: nothing is of its next incarnation yet.
LEMMA AloneForget ==
  ASSUME Base, Links, NEW e \in Docs, Forget(e), NEW d \in Docs, d = e \/ Alone(d)
  PROVE  Alone(d)'
<1>1. queue' = queue /\ wk' = wk /\ sub' = sub /\ SeenStays
  BY DEF Forget, SeenStays
<1>2. row \in [Docs -> RowRec] /\ chunks \in [Docs -> Copies] /\ row[e].inc \in Nat
  BY DEF Base, Shape, Types, RowRec
<1>3. CASE d # e
  <2>1. row'[d] = row[d] /\ chunks'[d] = chunks[d]
    BY <1>2, <1>3 DEF Forget
  <2>2. QED
    BY <1>1, <1>3, <2>1, AloneFrame
<1>4. CASE d = e
  <2>1. row'[d].st = "none" /\ row'[d].inc = row[d].inc + 1
    BY <1>2, <1>4 DEF Forget
  <2>2. \A i \in DOMAIN queue : queue[i].doc = d => queue[i].inc <= row[d].inc /\ queue[i].inc \in Nat
    BY QueueItems DEF Base, Shape, Links, ItemInv, ItemOK, IncOK, Item
  <2>3. \A w \in Workers : Busy(w) /\ wk[w].item.doc = d => wk[w].item.inc <= row[d].inc /\ wk[w].item.inc \in Nat
    BY DEF Base, Shape, BusyHasItem, Links, ItemInv, ItemOK, IncOK, Item
  <2>4. \A i \in DOMAIN queue' : ~AtQ(d, i)'
    BY <1>1, <1>2, <1>4, <2>1, <2>2 DEF AtQ
  <2>5. \A w \in Workers : ~AtW(d, w)'
    BY <1>1, <1>2, <1>4, <2>1, <2>3 DEF AtW, Busy
  <2>6. QED
    BY <2>1, <2>4, <2>5 DEF Alone
<1>5. QED
  BY <1>3, <1>4


\* An item is taken from the queue, by a worker or to no avail.
LEMMA AloneLoad ==
  ASSUME Base, Links, Next, NEW w \in Workers, LoadDocument(w), NEW d \in Docs, Alone(d)
  PROVE  Alone(d)'
<1>0. /\ queue \in Seq(Item) /\ queue # <<>> /\ queue' = Tail(queue) /\ row' = row /\ chunks' = chunks /\ sub' = sub
      /\ SeenStays /\ ~Busy(w) /\ wk \in [Workers -> WkRec]
      /\ \A i \in DOMAIN queue : queue[i] \in Item /\ ItemOK(queue[i])
      /\ \A x \in Workers : Busy(x) => wk[x].item \in Item /\ ItemOK(wk[x].item)
  BY QueueItems DEF Base, Shape, Types, BusyHasItem, Links, ItemInv, LoadDocument, FirstIdle, SeenStays
<1>1. /\ 1 \in DOMAIN queue /\ Head(queue) = queue[1]
      /\ \A i \in DOMAIN queue' : i + 1 \in DOMAIN queue /\ i + 1 # 1 /\ queue'[i] = queue[i + 1] /\ i \in Nat
  BY <1>0, TailFacts
<1>2. \A i \in DOMAIN queue' : AtQ(d, i)' <=> AtQ(d, i + 1)
  BY <1>0, <1>1 DEF AtQ
<1>3. \A i, j \in DOMAIN queue' : AtQ(d, i)' /\ AtQ(d, j)' => i = j
  <2> SUFFICES ASSUME NEW i \in DOMAIN queue', NEW j \in DOMAIN queue', AtQ(d, i)', AtQ(d, j)'
               PROVE  i = j
    OBVIOUS
  <2>1. i + 1 = j + 1
    BY <1>1, <1>2 DEF Alone
  <2>2. QED
    BY <1>1, <2>1
<1>4. \A i \in DOMAIN queue' : AtQ(d, i)' => row'[d].st # "completed" /\ Ready(queue[i])'
  <2> SUFFICES ASSUME NEW i \in DOMAIN queue', AtQ(d, i)'
               PROVE  row'[d].st # "completed" /\ Ready(queue[i])'
    OBVIOUS
  <2>1. i + 1 \in DOMAIN queue /\ queue'[i] = queue[i + 1] /\ AtQ(d, i + 1)
    BY <1>1, <1>2
  <2>2. Ready(queue[i + 1]) /\ row[d].st # "completed"
    BY <2>1 DEF Alone
  <2>3. QED
    BY <1>0, <2>1, <2>2 DEF Ready
<1>5. row'[d].st = "completed" => Written(d, row[d].ver, Windows + 1)'
  BY <1>0 DEF Alone, Written
<1>6. \A x \in Workers : wk'[x] = wk[x] => (AtW(d, x)' <=> AtW(d, x)) /\ (AtW(d, x) => WorkOK(x)')
  <2> SUFFICES ASSUME NEW x \in Workers, wk'[x] = wk[x]
               PROVE  (AtW(d, x)' <=> AtW(d, x)) /\ (AtW(d, x) => WorkOK(x)')
    OBVIOUS
  <2>1. AtW(d, x)' <=> AtW(d, x)
    BY <1>0 DEF AtW, Busy
  <2>2. AtW(d, x) => wk[x].item \in Item /\ ItemOK(wk[x].item) /\ WorkOK(x)
    BY <1>0 DEF AtW, Alone
  <2>3. QED
    BY <1>0, <2>1, <2>2, WorkStays
<1>7. CASE wk' = wk
  BY <1>0, <1>1, <1>2, <1>3, <1>4, <1>5, <1>6, <1>7 DEF Alone
<1>8. CASE wk' # wk
  <2>1. \A x \in Workers : x # w => wk'[x] = wk[x]
    BY <1>0 DEF LoadDocument
  <2>2. Busy(w)'
    <3>1. wk' = [wk EXCEPT ![w].pc = "gate", ![w].item = Head(queue), ![w].ver = row[Head(queue).doc].ver]
      BY <1>8 DEF LoadDocument
    <3>2. wk'[w].pc = "gate"
      BY <1>0, <3>1 DEF WkRec
    <3>3. QED
      BY <3>2 DEF Busy
  <2>3. Taken(w)
    BY <1>0, <2>2, WorkersStep DEF Kept
  <2>4. CASE Head(queue).doc # d
    <3>1. ~AtW(d, w)'
      BY <2>3, <2>4 DEF Taken, AtW
    <3>2. QED
      BY <1>0, <1>1, <1>2, <1>3, <1>4, <1>5, <1>6, <2>1, <3>1 DEF Alone
  <2>5. CASE Head(queue).doc = d
    <3>1. AtQ(d, 1)
      BY <1>1, <2>3, <2>5 DEF Taken, AtQ
    <3>2. /\ \A x \in Workers : ~AtW(d, x)
          /\ \A i \in DOMAIN queue' : ~AtQ(d, i)'
      BY <1>1, <1>2, <3>1 DEF Alone
    <3>3. \A x \in Workers : AtW(d, x)' => x = w
      BY <1>6, <2>1, <3>2
    <3>4. row'[d].st # "completed" /\ Ready(queue[1])
      BY <1>0, <1>1, <3>1 DEF Alone
    <3>5. WorkOK(w)'
      <4>1. PICK it \in Item : it = queue[1] /\ ItemOK(it) /\ Ready(it) /\ it.doc = d
        BY <1>0, <1>1, <2>5, <3>4
      <4>2. Ready(it)'
        BY <1>0, <4>1, ReadyStays
      <4>3. wk'[w].item = it /\ wk'[w].pc = "gate"
        BY <1>1, <2>3, <4>1 DEF Taken
      <4>4. QED
        BY <4>2, <4>3 DEF WorkOK, Ready
    <3>6. QED
      BY <1>5, <3>2, <3>3, <3>4, <3>5 DEF Alone
  <2>6. QED
    BY <2>4, <2>5
<1>9. QED
  BY <1>7, <1>8

\* No chunks at all is what a worker at its first window has written.
LEMMA NothingWritten ==
  ASSUME NEW d, NEW v, chunks[d] = NoChunks
  PROVE  Written(d, v, 1)
BY Numbers DEF Written, NoChunks

\* A worker passes the gate, clears and takes a token.
LEMMA AloneEnter ==
  ASSUME Base, Links, NEW w \in Workers, EnterGate(w) \/ ClearExtraction(w) \/ AcquireWindow(w),
         NEW d \in Docs, Alone(d), d \notin tainted'
  PROVE  Alone(d)'
<1>0. /\ wk \in [Workers -> WkRec] /\ wk[w] \in WkRec /\ chunks \in [Docs -> Copies] /\ SeenStays
      /\ queue' = queue /\ row' = row /\ sub' = sub
  BY DEF Base, Shape, Types, SeenStays, EnterGate, ClearExtraction, AcquireWindow
<1>1. Busy(w) /\ wk[w].item \in Item
  BY DEF EnterGate, ClearExtraction, AcquireWindow, Busy, Base, Shape, BusyHasItem
<1>2. AtW(d, w) => row[d].st # "completed" /\ WorkOK(w)
  BY DEF Alone
<1>3. CASE EnterGate(w)
  <2>1. PICK p \in {"clear", "window"} :
          /\ wk' = [wk EXCEPT ![w] = [wk[w] EXCEPT !.win = 1, !.bounded = sem.made, !.pc = p]]
          /\ p = "window" => ~(wk[w].item.batch # None /\ sub[wk[w].item.batch].seen[wk[w].item.doc] = "failed")
    BY <1>0, <1>3 DEF EnterGate
  <2> DEFINE r == [wk[w] EXCEPT !.win = 1, !.bounded = sem.made, !.pc = p]
  <2>2. r.item = wk[w].item /\ r.win = 1 /\ r.pc = p /\ r.ver = wk[w].ver
    BY <1>0 DEF WkRec
  <2>3. wk' = [wk EXCEPT ![w] = r] /\ wk'[w] = r /\ chunks' = chunks
    BY <1>0, <1>3, <2>1 DEF EnterGate
  <2> HIDE DEF r
  <2>4. ASSUME AtW(d, w) PROVE WorkOK(w)'
    <3>1. Ready(wk[w].item) /\ wk[w].item.doc = d
      BY <1>2, <1>3, <2>4 DEF WorkOK, EnterGate, AtW
    <3>2. CASE p = "clear"
      BY <2>2, <2>3, <3>2 DEF WorkOK
    <3>3. CASE p = "window"
      <4>1. chunks[d] = NoChunks
        BY <2>1, <3>1, <3>3 DEF Ready
      <4>2. Written(d, wk[w].ver, 1)
        BY <4>1, NothingWritten
      <4>3. 1 \in 1..Windows
        BY Numbers
      <4>4. wk'[w].win = 1 /\ wk'[w].ver = wk[w].ver /\ wk'[w].item.doc = d /\ wk'[w].pc = "window"
        BY <2>2, <2>3, <3>1, <3>3
      <4>5. QED
        BY <2>3, <4>2, <4>3, <4>4 DEF WorkOK, Written
    <3>4. QED
      BY <3>2, <3>3
  <2>5. QED
    BY <1>0, <1>1, <1>2, <2>2, <2>3, <2>4, AloneMove
<1>4. CASE ClearExtraction(w)
  <2> DEFINE r == [wk[w] EXCEPT !.pc = "window"]
  <2>1. r.item = wk[w].item /\ r.win = wk[w].win /\ r.pc = "window" /\ r.ver = wk[w].ver
    BY <1>0 DEF WkRec
  <2>2. wk' = [wk EXCEPT ![w] = r] /\ wk'[w] = r
    BY <1>0, <1>4 DEF ClearExtraction
  <2> HIDE DEF r
  <2>3. ~AtW(d, w) => chunks'[d] = chunks[d]
    BY <1>0, <1>1, <1>4 DEF ClearExtraction, AtW
  <2>4. ASSUME AtW(d, w) PROVE WorkOK(w)'
    <3>1. wk[w].item.doc = d /\ row[d].inc = wk[w].item.inc /\ wk[w].win = 1
      BY <1>2, <1>4, <2>4 DEF WorkOK, ClearExtraction, AtW
    <3>2. chunks'[d] = NoChunks
      BY <1>0, <1>4, <3>1 DEF ClearExtraction
    <3>3. \A x \in Batches, k \in 1..Windows : chunks'[d][x][k] = 0 /\ ~(k < 1)
      BY <3>2, Numbers DEF NoChunks
    <3>4. 1 \in 1..Windows
      BY Numbers
    <3>5. wk'[w].win = 1 /\ wk'[w].ver = wk[w].ver /\ wk'[w].item.doc = d /\ wk'[w].pc = "window"
      BY <2>1, <2>2, <3>1
    <3>6. QED
      BY <3>3, <3>4, <3>5 DEF WorkOK, Written
  <2>5. QED
    BY <1>0, <1>1, <1>2, <2>1, <2>2, <2>3, <2>4, AloneMove
<1>5. CASE AcquireWindow(w)
  <2> DEFINE r == [wk[w] EXCEPT !.pc = "store"]
  <2>1. r.item = wk[w].item /\ r.win = wk[w].win /\ r.pc = "store" /\ r.ver = wk[w].ver
    BY <1>0 DEF WkRec
  <2>2. wk' = [wk EXCEPT ![w] = r] /\ wk'[w] = r /\ chunks' = chunks
    BY <1>0, <1>5 DEF AcquireWindow
  <2> HIDE DEF r
  <2>3. ASSUME AtW(d, w) PROVE WorkOK(w)'
    <3>1. wk[w].win \in 1..Windows /\ Written(wk[w].item.doc, wk[w].ver, wk[w].win)
      BY <1>2, <1>5, <2>3 DEF WorkOK, AcquireWindow
    <3>2. wk'[w].win = wk[w].win /\ wk'[w].ver = wk[w].ver /\ wk'[w].item = wk[w].item /\ wk'[w].pc = "store"
      BY <2>1, <2>2
    <3>3. QED
      BY <2>2, <3>1, <3>2 DEF WorkOK, Written
  <2>4. QED
    BY <1>0, <1>1, <1>2, <2>1, <2>2, <2>3, AloneMove
<1>6. QED
  BY <1>3, <1>4, <1>5


\* A window is written, or its writing fails.
LEMMA AloneStore ==
  ASSUME Base, Links, NEW w \in Workers, StoreWindow(w), NEW d \in Docs, Alone(d)
  PROVE  Alone(d)'
<1>0. /\ wk \in [Workers -> WkRec] /\ wk[w] \in WkRec /\ chunks \in [Docs -> Copies] /\ SeenStays
      /\ queue' = queue /\ row' = row /\ sub' = sub
  BY DEF Base, Shape, Types, SeenStays, StoreWindow
<1>1. Busy(w) /\ wk[w].item \in Item /\ wk[w].ver \in Batches
  BY DEF StoreWindow, Busy, Base, Shape, BusyHasItem, Links, ItemInv
<1>2. AtW(d, w) => /\ row[d].st # "completed" /\ wk[w].win \in 1..Windows
                   /\ Written(wk[w].item.doc, wk[w].ver, wk[w].win)
  BY DEF Alone, StoreWindow, WorkOK
<1>3. ~AtW(d, w) => chunks'[d] = chunks[d]
  BY <1>0, <1>1 DEF StoreWindow, AtW
<1> DEFINE good == [wk[w] EXCEPT !.win = @ + 1, !.pc = IF wk[w].win = Windows THEN "finish" ELSE "window"]
           bad == [wk[w] EXCEPT !.pc = "fail"]
<1>4. \/ /\ wk' = [wk EXCEPT ![w] = good]
         /\ chunks' = IF row[wk[w].item.doc].inc = wk[w].item.inc
                      THEN [chunks EXCEPT ![wk[w].item.doc][wk[w].ver][wk[w].win] = IF @ < 2 THEN @ + 1 ELSE 2]
                      ELSE chunks
      \/ wk' = [wk EXCEPT ![w] = bad]
  BY <1>0 DEF StoreWindow
<1>5. CASE wk' = [wk EXCEPT ![w] = bad]
  <2>1. bad.item = wk[w].item /\ bad.pc = "fail" /\ wk'[w] = bad
    BY <1>0, <1>5 DEF WkRec
  <2>2. WorkOK(w)'
    BY <2>1 DEF WorkOK
  <2> HIDE DEF bad
  <2>3. QED
    BY <1>0, <1>1, <1>2, <1>3, <1>5, <2>1, <2>2, AloneMove
<1>6. CASE /\ wk' = [wk EXCEPT ![w] = good]
           /\ chunks' = IF row[wk[w].item.doc].inc = wk[w].item.inc
                      THEN [chunks EXCEPT ![wk[w].item.doc][wk[w].ver][wk[w].win] = IF @ < 2 THEN @ + 1 ELSE 2]
                      ELSE chunks
  <2>1. /\ good.item = wk[w].item /\ good.ver = wk[w].ver /\ good.win = wk[w].win + 1
        /\ good.pc = (IF wk[w].win = Windows THEN "finish" ELSE "window") /\ good.pc # "idle"
        /\ wk'[w] = good
    BY <1>0, <1>6 DEF WkRec
  <2>2. ASSUME AtW(d, w) PROVE WorkOK(w)'
    <3>0. wk[w].item.doc = d /\ row[d].inc = wk[w].item.inc
      BY <2>2 DEF AtW
    <3>1. chunks'[d] = [chunks[d] EXCEPT ![wk[w].ver][wk[w].win] = IF @ < 2 THEN @ + 1 ELSE 2]
      BY <1>0, <1>6, <3>0
    <3>2. PICK v \in Batches, n \in 1..Windows : v = wk[w].ver /\ n = wk[w].win
      BY <1>1, <1>2, <2>2
    <3>3. chunks[d] \in [Batches -> [1..Windows -> 0..2]]
      BY <1>0 DEF Copies
    <3>4. \A x \in Batches, k \in 1..Windows : chunks[d][x][k] = (IF x = v /\ k < n THEN 1 ELSE 0)
      BY <1>2, <2>2, <3>0, <3>2 DEF Written
    <3>5. chunks[d][v][n] = 0
      BY <3>4
    <3>6. chunks'[d][v] = [chunks[d][v] EXCEPT ![n] = 1] /\ \A x \in Batches : x # v => chunks'[d][x] = chunks[d][x]
      BY <3>1, <3>2, <3>3, <3>5
    <3>7. \A k \in 1..Windows : chunks'[d][v][k] = (IF k < n + 1 THEN 1 ELSE 0)
      <4> TAKE k \in 1..Windows
      <4>1. chunks[d][v] \in [1..Windows -> 0..2]
        BY <3>3
      <4>2. CASE k = n
        <5>1. chunks'[d][v][k] = 1
          BY <3>6, <4>1, <4>2
        <5>2. k < n + 1
          BY <4>2, Numbers
        <5>3. QED
          BY <5>1, <5>2
      <4>3. CASE k # n
        <5>1. chunks'[d][v][k] = chunks[d][v][k]
          BY <3>6, <4>1, <4>3
        <5>2. k < n + 1 <=> k < n
          BY <4>3, Numbers
        <5>3. QED
          BY <3>4, <5>1, <5>2
      <4>4. QED
        BY <4>2, <4>3
    <3>8. \A x \in Batches, k \in 1..Windows : chunks'[d][x][k] = (IF x = v /\ k < n + 1 THEN 1 ELSE 0)
      <4> TAKE x \in Batches, k \in 1..Windows
      <4>1. CASE x = v
        BY <3>7, <4>1
      <4>2. CASE x # v
        BY <3>4, <3>6, <4>2
      <4>3. QED
        BY <4>1, <4>2
    <3>9. wk'[w].item.doc = d /\ wk'[w].ver = v /\ wk'[w].win = n + 1
      BY <2>1, <3>0, <3>2
    <3>10. Written(wk[w].item.doc, wk[w].ver, wk[w].win)'
      BY <3>8, <3>9 DEF Written
    <3>11. CASE n = Windows
      <4>1. wk'[w].pc = "finish" /\ wk'[w].win = Windows + 1
        BY <2>1, <3>2, <3>11
      <4>2. QED
        BY <3>10, <4>1 DEF WorkOK
    <3>12. CASE n # Windows
      <4>1. wk'[w].pc = "window" /\ wk'[w].win \in 1..Windows
        BY <2>1, <3>2, <3>9, <3>12, Numbers
      <4>2. QED
        BY <3>10, <4>1 DEF WorkOK
    <3>13. QED
      BY <3>11, <3>12
  <2> HIDE DEF good
  <2>3. QED
    BY <1>0, <1>1, <1>2, <1>3, <1>6, <2>1, <2>2, AloneMove
<1>7. QED
  BY <1>4, <1>5, <1>6

\* What an update leaves of the other documents, and of its own.
LEMMA UpdateFacts ==
  ASSUME Types, NEW it, NEW st, NEW v, update_document(it, st, v), NEW d \in Docs
  PROVE  /\ row'[d].inc = row[d].inc
         /\ ~(it.doc = d /\ it.inc = row[d].inc) => row'[d] = row[d]
         /\ it.doc = d /\ it.inc = row[d].inc /\ row[d].st # "none" => row'[d].st = st /\ row'[d].ver = v
BY DEF Types, RowRec, update_document

\* A worker ends, or falls into the handler.
LEMMA AloneEndsWork ==
  ASSUME Base, Links, NEW w \in Workers, Finish(w) \/ FailDocument(w) \/ PreTryFault(w), NEW d \in Docs, Alone(d)
  PROVE  Alone(d)'
<1>0. /\ wk \in [Workers -> WkRec] /\ wk[w] \in WkRec /\ SeenStays /\ Types
      /\ queue' = queue /\ chunks' = chunks /\ sub' = sub
  BY DEF Base, Shape, Types, SeenStays, Finish, FailDocument, PreTryFault
<1>1. Busy(w) /\ wk[w].item \in Item /\ IncOK(wk[w].item.doc, wk[w].item.inc)
  BY DEF Finish, FailDocument, PreTryFault, Busy, Base, Shape, BusyHasItem, Links, ItemInv, ItemOK
<1>2. AtW(d, w) => /\ row[d].st # "completed" /\ row[d].st # "none"
                   /\ wk[w].item.doc = d /\ wk[w].item.inc = row[d].inc
  BY <1>1 DEF Alone, AtW, IncOK
<1>3. CASE row' = row
  <2>1. PICK r \in {Resting, [wk[w] EXCEPT !.pc = "fail"]} : wk' = [wk EXCEPT ![w] = r]
    BY <1>0 DEF Finish, FailDocument, PreTryFault
  <2>2. r.pc = "idle" \/ (r.item = wk[w].item /\ r.pc = "fail")
    BY <1>0 DEF Resting, WkRec
  <2>3. wk'[w] = r
    BY <1>0, <2>1
  <2>4. r.pc # "idle" => WorkOK(w)'
    BY <2>2, <2>3 DEF WorkOK
  <2>5. QED
    BY <1>0, <1>1, <1>2, <1>3, <2>1, <2>2, <2>4, AloneMove
<1>4. CASE row' # row
  <2>1. PICK st \in {"failed", "completed"} :
          /\ update_document(wk[w].item, st, wk[w].ver)
          /\ st = "completed" => Finish(w)
          /\ wk' = [wk EXCEPT ![w] = Resting]
    BY <1>4 DEF Finish, FailDocument, PreTryFault
  <2>2. Resting.pc = "idle"
    BY DEF Resting
  <2>3. /\ row'[d].inc = row[d].inc
        /\ ~(wk[w].item.doc = d /\ wk[w].item.inc = row[d].inc) => row'[d] = row[d]
        /\ wk[w].item.doc = d /\ wk[w].item.inc = row[d].inc /\ row[d].st # "none" =>
             row'[d].st = st /\ row'[d].ver = wk[w].ver
    BY <1>0, <2>1, UpdateFacts
  <2>4. ~AtW(d, w) => row'[d] = row[d]
    BY <1>1, <2>3 DEF AtW
  <2>5. ASSUME AtW(d, w), row'[d].st = "completed" PROVE Written(d, row[d].ver, Windows + 1)'
    <3>1. row'[d].st = st /\ row'[d].ver = wk[w].ver
      BY <1>2, <2>3, <2>5
    <3>2. Finish(w)
      BY <2>1, <2>5, <3>1
    <3>3. Written(wk[w].item.doc, wk[w].ver, Windows + 1)
      BY <2>5, <3>2 DEF Alone, WorkOK, Finish
    <3>4. QED
      BY <1>0, <1>2, <2>5, <3>1, <3>3 DEF Written
  <2>6. QED
    BY <1>0, <1>1, <2>1, <2>2, <2>3, <2>4, <2>5, AloneMove
<1>5. QED
  BY <1>3, <1>4

\* Every step keeps the documents in good standing to one item each.
LEMMA AloneStep ==
  ASSUME Base, Base', Links, AloneInv, Next
  PROVE  AloneInv'
<1> SUFFICES ASSUME NEW d \in Docs, d \notin tainted' PROVE Alone(d)'
  BY DEF AloneInv
<1>1. CASE \E e \in Docs : Forget(e)
  <2>1. PICK e \in Docs : Forget(e)
    BY <1>1
  <2>2. d = e \/ Alone(d)
    BY <2>1 DEF Forget, AloneInv
  <2>3. QED
    BY <2>1, <2>2, AloneForget
<1>2. CASE ~(\E e \in Docs : Forget(e))
  <2>1. d \notin tainted
    <3>1. ASSUME NEW b \in Batches, Lookup(b) \/ Stage(b) \/ Enqueue(b) PROVE tainted \subseteq tainted'
      BY <3>1 DEF Lookup, Stage, StageRepeat, StageSkip, StageRequeue, StageInsert, Enqueue
    <3>2. CASE start_pending_processor \/ EnqueueOrphans \/ stop_pending_processor \/ Crash
      BY <3>2 DEF start_pending_processor, EnqueueOrphans, stop_pending_processor, Crash
    <3>3. ASSUME NEW w \in Workers, Step(w) \/ PreTryFault(w) PROVE tainted \subseteq tainted'
      BY <3>3 DEF Step, LoadDocument, EnterGate, ClearExtraction, AcquireWindow, StoreWindow, Finish,
                  FailDocument, PreTryFault
    <3>4. QED
      BY <1>2, <3>1, <3>2, <3>3 DEF Next
  <2>2. Alone(d)
    BY <2>1 DEF AloneInv
  <2>3. ASSUME NEW b \in Batches, Lookup(b) \/ Stage(b) \/ Enqueue(b) PROVE Alone(d)'
    BY <2>2, <2>3, AloneStage, AloneEnqueue
  <2>4. CASE start_pending_processor
    <3>1. SeenStays /\ UNCHANGED <<queue, wk, chunks, row>>
      BY <2>4 DEF start_pending_processor, SeenStays
    <3>2. QED
      BY <2>2, <3>1, AloneFrame
  <2>5. CASE EnqueueOrphans \/ stop_pending_processor \/ Crash
    BY <2>2, <2>5, AloneOrphans, AloneEnds
  <2>6. ASSUME NEW w \in Workers, Step(w) \/ PreTryFault(w) PROVE Alone(d)'
    BY <2>2, <2>6, AloneLoad, AloneEnter, AloneStore, AloneEndsWork DEF Step
  <2>7. QED
    BY <1>2, <2>3, <2>4, <2>5, <2>6 DEF Next
<1>3. QED
  BY <1>1, <1>2


Inv == Base /\ Links /\ AloneInv

\* Everything holds at first.
LEMMA InitInv == ASSUME Init PROVE Inv
<1>1. Base
  BY InitBase
<1>2. /\ row = [d \in Docs |-> [st |-> "none", ver |-> None, inc |-> 0]]
      /\ chunks = [d \in Docs |-> NoChunks] /\ queue = <<>> /\ wk = [w \in Workers |-> Resting]
  BY DEF Init
<1>3. DOMAIN queue = {} /\ DOMAIN <<>> = {}
  BY <1>2, EmptySeq, LenProperties
<1>4. \A w \in Workers : ~Busy(w)
  BY <1>2 DEF Busy, Resting
<1>5. ItemInv /\ RowInv /\ AloneInv
  BY <1>2, <1>3, <1>4 DEF ItemInv, RowInv, AloneInv, Alone, AtW
<1>6. BatchInv
  <2> SUFFICES ASSUME NEW b \in Batches PROVE BatchOK(b)
    BY DEF BatchInv
  <2>1. /\ sub[b].pc = "idle" /\ sub[b].pending = <<>> /\ sub[b].failed = {} /\ sub[b].skipped = {}
        /\ \A d \in Docs : sub[b].inc[d] = 0 /\ sub[b].seen[d] = "none"
    <3>1. PICK plan \in Plans : sub = [x \in Batches |-> [IdleSub EXCEPT !.todo = plan.submit[x]]]
      BY DEF Init
    <3>2. sub[b] = [IdleSub EXCEPT !.todo = plan.submit[b]]
      BY <3>1
    <3>3. QED
      BY <3>2 DEF IdleSub
  <2>2. Range(sub[b].pending) = {} /\ DOMAIN sub[b].pending = {}
    BY <1>3, <2>1 DEF Range
  <2>3. \A d \in Docs : sub[b].inc[d] <= row[d].inc
    BY <1>2, <2>1
  <2>4. QED
    BY <2>1, <2>2, <2>3 DEF BatchOK, Handled
<1>7. QED
  BY <1>1, <1>5, <1>6 DEF Inv, Links

\* A step that changes nothing keeps everything.
LEMMA StutterInv == ASSUME Inv, UNCHANGED vars PROVE Inv'
<1>1. Base'
  BY BaseStep DEF Inv
<1>2. UNCHANGED <<row, chunks, sub, handle, queue, wk, tainted>>
  BY DEF vars
<1>3. ItemInv' /\ RowInv'
  BY <1>2 DEF Inv, Links, ItemInv, ItemOK, IncOK, Busy, RowInv
<1>4. BatchInv'
  BY <1>2 DEF Inv, Links, BatchInv, BatchOK, Handled, IncOK
<1>5. AloneInv'
  BY <1>2 DEF Inv, AloneInv, Alone, AtQ, AtW, Busy, Ready, WorkOK, Written
<1>6. QED
  BY <1>1, <1>3, <1>4, <1>5 DEF Inv, Links

\* The inductive invariant.
LEMMA InvHolds == Spec => []Inv
<1>1. Inv /\ [Next]_vars => Inv'
  <2>1. ASSUME Inv, Next PROVE Inv'
    <3>1. Base'
      BY <2>1, BaseStep DEF Inv
    <3>2. QED
      BY <2>1, <3>1, LinksStep, AloneStep DEF Inv
  <2>2. QED
    BY <2>1, StutterInv
<1>2. QED
  BY <1>1, InitInv, PTL DEF Spec

\* COMPLETED means processed: the windows of the row's own content are all
\* there, for any batches, workers, windows, failures, stops and crashes, unless
\* two items were at the document, it was queued when another batch had just
\* completed it, or it lost a worker half way.
THEOREM CompletedStaysIndexed == Spec => []CompletedIsIndexed
<1>1. Inv => CompletedIsIndexed
  <2> SUFFICES ASSUME Inv, NEW d \in Docs, row[d].st = "completed", d \notin tainted PROVE Indexed(d)
    BY DEF CompletedIsIndexed
  <2>1. row[d].ver \in Batches /\ Written(d, row[d].ver, Windows + 1)
    BY DEF Inv, Links, RowInv, AloneInv, Alone
  <2>2. \A k \in 1..Windows : k < Windows + 1
    BY Numbers
  <2>3. \A k \in 1..Windows : chunks[d][row[d].ver][k] = 1
    BY <2>1, <2>2 DEF Written
  <2>4. QED
    BY <2>1, <2>3, ProcessorAssumption DEF Indexed
<1>2. QED
  BY <1>1, InvHolds, PTL

\* A retry leaves no duplicates: with the same exceptions a COMPLETED document
\* has one copy of every window of its own content and nothing of another's, so
\* clearing a FAILED document before it runs again is enough.
THEOREM RetriesLeaveNoDuplicates == Spec => []RetryLeavesNoDuplicates
<1>1. Inv => RetryLeavesNoDuplicates
  <2> SUFFICES ASSUME Inv, NEW d \in Docs, row[d].st = "completed", d \notin tainted,
                      NEW v \in Batches, NEW n \in 1..Windows
               PROVE  chunks[d][v][n] = (IF v = row[d].ver THEN 1 ELSE 0)
    BY DEF RetryLeavesNoDuplicates
  <2>1. Written(d, row[d].ver, Windows + 1)
    BY DEF Inv, AloneInv, Alone
  <2>2. n < Windows + 1
    BY Numbers
  <2>3. QED
    BY <2>1, <2>2 DEF Written
<1>2. QED
  BY <1>1, InvHolds, PTL


-----------------------------------------------------------------------------
(* The results of a batch                                                  *)

\* What a batch waits for is a finite set of documents.
LEMMA AwaitedFinite ==
  ASSUME Types, NEW b \in Batches
  PROVE  /\ Awaited(b) \in SUBSET Docs /\ IsFiniteSet(Awaited(b)) /\ Cardinality(Awaited(b)) \in Nat
         /\ Cardinality(Awaited(b)) = 0 <=> Awaited(b) = {}
<1>1. Awaited(b) \in SUBSET Docs
  BY DEF Types, HandleRec, Awaited
<1>2. QED
  BY <1>1, Numbers, FS_EmptySet

\* A handle that nothing is delivered to.
LEMMA HandleFrame ==
  ASSUME NEW b \in Batches, HandleOK(b), handle'[b].docs = handle[b].docs, handle'[b].fired = handle[b].fired,
         handle'[b].remaining = handle[b].remaining, handle'[b].done = handle[b].done
  PROVE  HandleOK(b)' /\ Awaited(b)' = Awaited(b)
<1>1. Awaited(b)' = Awaited(b)
  BY DEF Awaited
<1>2. QED
  BY <1>1, Zenon DEF HandleOK

\* One result: the document is no longer awaited, the count follows, and the
\* handle is done with the last.
LEMMA DeliverFacts ==
  ASSUME Types, NEW b \in Batches, HandleOK(b), NEW it \in Item, Deliver(it)
  PROVE  /\ it.batch # b => handle'[b] = handle[b]
         /\ it.batch = b /\ it.doc \in Awaited(b) =>
              /\ HandleOK(b)' /\ Awaited(b)' = Awaited(b) \ {it.doc}
              /\ handle'[b].lost = handle[b].lost
<1>0. /\ handle \in [Batches -> HandleRec] /\ handle[b] \in HandleRec /\ b # None
      /\ it.doc \in Docs /\ it.batch \in Batches \cup {None}
  BY ProcessorAssumption DEF Types, Item
<1>1. ASSUME it.batch # b PROVE handle'[b] = handle[b]
  BY <1>0, <1>1 DEF Deliver
<1>2. ASSUME it.batch = b, it.doc \in Awaited(b)
      PROVE  HandleOK(b)' /\ Awaited(b)' = Awaited(b) \ {it.doc} /\ handle'[b].lost = handle[b].lost
  <2> DEFINE h == handle[b]
             ds == {it.doc}
             rest == IF h.remaining > Cardinality(ds) THEN h.remaining - Cardinality(ds) ELSE 0
             fired == [d \in Docs |-> IF d \in ds /\ h.fired[d] < 2 THEN h.fired[d] + 1 ELSE h.fired[d]]
             done == h.done \/ (ds # {} /\ rest = 0)
  <2>1. handle'[b] = fire_result(h, ds)
    BY <1>0, <1>2 DEF Deliver
  <2>2. fire_result(h, ds) = [h EXCEPT !.fired = fired, !.remaining = rest, !.done = done]
    BY Zenon DEF fire_result
  <2>3. Cardinality(ds) = 1
    BY FS_Singleton
  <2>4. /\ Awaited(b) \in SUBSET Docs /\ IsFiniteSet(Awaited(b)) /\ Cardinality(Awaited(b)) \in Nat
        /\ Cardinality(Awaited(b)) = 0 <=> Awaited(b) = {}
    BY AwaitedFinite
  <2>5. h.fired[it.doc] = 0 /\ it.doc \in h.docs /\ h.fired \in [Docs -> 0..2]
    BY <1>0, <1>2 DEF Awaited, HandleRec
  <2>6. \A d \in Docs : fired[d] = IF d = it.doc THEN 1 ELSE h.fired[d]
    BY <2>5
  <2>7. h.remaining = Cardinality(Awaited(b)) /\ h.remaining # 0
    BY <1>2, <2>4 DEF HandleOK
  <2>8. rest = h.remaining - 1
    BY <2>3, <2>4, <2>7
  <2> DEFINE new == [h EXCEPT !.fired = fired, !.remaining = rest, !.done = done]
  <2>9. new.fired = fired /\ new.remaining = rest /\ new.done = done /\ new.docs = h.docs /\ new.lost = h.lost
    BY <1>0 DEF HandleRec
  <2>10. handle'[b] = new
    BY <2>1, <2>2
  <2> HIDE DEF new, fired, rest, done
  <2>11. Awaited(b)' = Awaited(b) \ {it.doc}
    <3>1. h.docs \subseteq Docs
      BY <1>0 DEF HandleRec
    <3>2. Awaited(b)' = {d \in h.docs : fired[d] = 0}
      BY <2>9, <2>10 DEF Awaited
    <3>3. Awaited(b) = {d \in h.docs : h.fired[d] = 0}
      BY DEF Awaited
    <3>4. QED
      BY <2>6, <3>1, <3>2, <3>3
  <2>12. Cardinality(Awaited(b)') = Cardinality(Awaited(b)) - 1 /\ IsFiniteSet(Awaited(b)')
    <3>1. /\ Cardinality(Awaited(b) \ {it.doc}) = Cardinality(Awaited(b)) - 1
          /\ IsFiniteSet(Awaited(b) \ {it.doc})
      BY <1>2, <2>4, FS_RemoveElement
    <3>2. QED
      BY <2>11, <3>1, Zenon
  <2>13. handle'[b].remaining = Cardinality(Awaited(b)')
    BY <2>7, <2>8, <2>9, <2>10, <2>12
  <2>14. rest = 0 <=> Awaited(b)' = {}
    BY <2>7, <2>8, <2>12, FS_EmptySet
  <2>15. ~h.done
    BY <1>2, Zenon DEF HandleOK
  <2>16. done <=> Awaited(b)' = {}
    BY <2>14, <2>15, Zenon DEF done
  <2>17. handle'[b].done <=> Awaited(b)' = {}
    BY <2>9, <2>10, <2>16, Zenon
  <2>18. \A d \in Docs : handle'[b].fired[d] <= 1 /\ (handle'[b].fired[d] = 1 => d \in handle'[b].docs)
    BY <2>5, <2>6, <2>9, <2>10 DEF HandleOK
  <2>19. QED
    BY <2>9, <2>10, <2>11, <2>13, <2>17, <2>18, Zenon DEF HandleOK
<1>3. QED
  BY <1>1, <1>2

\* The places of a batch's items when nothing of it moves.
LEMMA MatchSame ==
  ASSUME NEW b \in Batches, MatchOK(b), Awaited(b)' = Awaited(b), handle'[b].lost = handle[b].lost,
         queue' = queue, \A w \in Workers : /\ InW(b, w)' <=> InW(b, w)
                                            /\ InW(b, w) => wk'[w].item = wk[w].item
  PROVE  MatchOK(b)'
<1>1. DOMAIN queue' = DOMAIN queue /\ \A i \in DOMAIN queue : queue'[i] = queue[i] /\ (InQ(b, i)' <=> InQ(b, i))
  BY DEF InQ
<1> USE DEF MatchOK
<1>2. \A i, j \in DOMAIN queue' : InQ(b, i)' /\ InQ(b, j)' /\ queue'[i].doc = queue'[j].doc => i = j
  BY <1>1
<1>3. \A w, x \in Workers : InW(b, w)' /\ InW(b, x)' /\ wk'[w].item.doc = wk'[x].item.doc => w = x
  OBVIOUS
<1>4. \A i \in DOMAIN queue', w \in Workers : InQ(b, i)' /\ InW(b, w)' => queue'[i].doc # wk'[w].item.doc
  BY <1>1
<1>5. \A i \in DOMAIN queue' : InQ(b, i)' => queue'[i].doc \in Awaited(b)' \ handle'[b].lost
  BY <1>1
<1>6. \A w \in Workers : InW(b, w)' => wk'[w].item.doc \in Awaited(b)' \ handle'[b].lost
  OBVIOUS
<1>7. handle'[b].lost \subseteq Awaited(b)'
  OBVIOUS
<1>8. \A d \in Awaited(b)' : \/ d \in handle'[b].lost
                             \/ \E i \in DOMAIN queue' : InQ(b, i)' /\ queue'[i].doc = d
                             \/ \E w \in Workers : InW(b, w)' /\ wk'[w].item.doc = d
  BY <1>1
<1>9. QED
  BY <1>2, <1>3, <1>4, <1>5, <1>6, <1>7, <1>8, Zenon

\* The same when items of others are queued.
LEMMA MatchQueue ==
  ASSUME NEW b \in Batches, MatchOK(b), Awaited(b)' = Awaited(b), handle'[b].lost = handle[b].lost,
         wk' = wk, queue \in Seq(Item), NEW s \in Seq(Item), queue' = queue \o s,
         \A i \in DOMAIN s : s[i].batch # b
  PROVE  MatchOK(b)'
<1>1. /\ \A i \in DOMAIN queue' : InQ(b, i)' => i \in DOMAIN queue /\ queue'[i] = queue[i] /\ InQ(b, i)
      /\ \A i \in DOMAIN queue : i \in DOMAIN queue' /\ queue'[i] = queue[i] /\ (InQ(b, i)' <=> InQ(b, i))
  <2>1. /\ \A i \in DOMAIN queue' :
              \/ i \in DOMAIN queue /\ queue'[i] = queue[i]
              \/ i \notin DOMAIN queue /\ i - Len(queue) \in DOMAIN s /\ queue'[i] = s[i - Len(queue)]
        /\ \A i \in DOMAIN queue : i \in DOMAIN queue' /\ queue'[i] = queue[i]
    BY ConcatFacts
  <2>2. QED
    BY <2>1 DEF InQ
<1>0. \A w \in Workers : (InW(b, w)' <=> InW(b, w)) /\ wk'[w].item = wk[w].item
  BY DEF InW, Busy
<1> USE DEF MatchOK
<1>2. \A i, j \in DOMAIN queue' : InQ(b, i)' /\ InQ(b, j)' /\ queue'[i].doc = queue'[j].doc => i = j
  BY <1>1
<1>3. \A w, x \in Workers : InW(b, w)' /\ InW(b, x)' /\ wk'[w].item.doc = wk'[x].item.doc => w = x
  BY <1>0
<1>4. \A i \in DOMAIN queue', w \in Workers : InQ(b, i)' /\ InW(b, w)' => queue'[i].doc # wk'[w].item.doc
  BY <1>0, <1>1
<1>5. \A i \in DOMAIN queue' : InQ(b, i)' => queue'[i].doc \in Awaited(b)' \ handle'[b].lost
  BY <1>1
<1>6. \A w \in Workers : InW(b, w)' => wk'[w].item.doc \in Awaited(b)' \ handle'[b].lost
  BY <1>0
<1>7. handle'[b].lost \subseteq Awaited(b)'
  OBVIOUS
<1>8. \A d \in Awaited(b)' : \/ d \in handle'[b].lost
                             \/ \E i \in DOMAIN queue' : InQ(b, i)' /\ queue'[i].doc = d
                             \/ \E w \in Workers : InW(b, w)' /\ wk'[w].item.doc = d
  BY <1>0, <1>1
<1>9. QED
  BY <1>2, <1>3, <1>4, <1>5, <1>6, <1>7, <1>8, Zenon

\* An item goes from the queue to a worker, or its result is delivered at once.
LEMMA MatchLoad ==
  ASSUME NEW b \in Batches, MatchOK(b), handle'[b].lost = handle[b].lost, NEW w \in Workers, ~Busy(w),
         queue \in Seq(Item), queue # <<>>, queue' = Tail(queue), \A x \in Workers : x # w => wk'[x] = wk[x],
         \/ Busy(w)' /\ wk'[w].item = Head(queue) /\ Awaited(b)' = Awaited(b)
         \/ /\ ~Busy(w)'
            /\ Awaited(b)' = IF Head(queue).batch = b THEN Awaited(b) \ {Head(queue).doc} ELSE Awaited(b)
  PROVE  MatchOK(b)'
<1> DEFINE it == Head(queue)
<1>1. /\ 1 \in DOMAIN queue /\ it = queue[1]
      /\ \A i \in DOMAIN queue' : i \in Nat /\ i + 1 \in DOMAIN queue /\ i + 1 # 1 /\ queue'[i] = queue[i + 1]
      /\ \A i \in DOMAIN queue : i = 1 \/ (i \in Nat /\ i - 1 \in DOMAIN queue' /\ i - 1 + 1 = i)
  BY TailFacts
<1> HIDE DEF it
<1>2. \A x \in Workers : x # w => (InW(b, x)' <=> InW(b, x)) /\ wk'[x].item = wk[x].item
  BY DEF InW, Busy
<1>3. ~InW(b, w)
  BY DEF InW
<1>4. \A i \in DOMAIN queue' : InQ(b, i)' => InQ(b, i + 1)
  BY <1>1 DEF InQ
<1>5. \A i \in DOMAIN queue : InQ(b, i) /\ i # 1 => i - 1 \in DOMAIN queue' /\ InQ(b, i - 1)' /\ queue'[i - 1] = queue[i]
  <2> TAKE i \in DOMAIN queue
  <2> HAVE InQ(b, i) /\ i # 1
  <2>1. i - 1 \in DOMAIN queue' /\ i - 1 + 1 = i
    BY <1>1
  <2> DEFINE k == i - 1
  <2>2. queue'[k] = queue[k + 1]
    BY <1>1, <2>1
  <2>3. QED
    BY <2>1, <2>2 DEF InQ
<1>6. InQ(b, 1) <=> it.batch = b
  BY <1>1 DEF InQ
<1> USE DEF MatchOK
<1>7. \A i, j \in DOMAIN queue' : InQ(b, i)' /\ InQ(b, j)' /\ queue'[i].doc = queue'[j].doc => i = j
  <2> TAKE i, j \in DOMAIN queue'
  <2> HAVE InQ(b, i)' /\ InQ(b, j)' /\ queue'[i].doc = queue'[j].doc
  <2>1. InQ(b, i + 1) /\ InQ(b, j + 1) /\ queue[i + 1].doc = queue[j + 1].doc /\ i + 1 \in DOMAIN queue /\ j + 1 \in DOMAIN queue
    BY <1>1, <1>4
  <2>2. i + 1 = j + 1 /\ i \in Nat /\ j \in Nat
    BY <1>1, <2>1
  <2>3. QED
    BY <2>2
<1>8. \A i \in DOMAIN queue' : InQ(b, i)' => queue'[i].doc \in Awaited(b) \ handle[b].lost
  <2> TAKE i \in DOMAIN queue'
  <2> HAVE InQ(b, i)'
  <2>1. i + 1 \in DOMAIN queue /\ InQ(b, i + 1) /\ queue'[i] = queue[i + 1]
    BY <1>1, <1>4
  <2> DEFINE k == i + 1
  <2>2. k \in DOMAIN queue /\ InQ(b, k) /\ queue'[i] = queue[k]
    BY <2>1
  <2> HIDE DEF k
  <2>3. queue[k].doc \in Awaited(b) \ handle[b].lost
    BY <2>2
  <2> QED BY <2>2, <2>3
<1>9. \A i \in DOMAIN queue' : InQ(b, i)' /\ it.batch = b => queue'[i].doc # it.doc
  <2> TAKE i \in DOMAIN queue'
  <2> HAVE InQ(b, i)' /\ it.batch = b
  <2>1. InQ(b, i + 1) /\ i + 1 \in DOMAIN queue /\ i + 1 # 1 /\ queue'[i] = queue[i + 1]
    BY <1>1, <1>4
  <2>2. queue[i + 1].doc # queue[1].doc
    BY <1>1, <1>6, <2>1
  <2>3. QED
    BY <1>1, <2>1, <2>2
<1>10. \A x \in Workers : InW(b, x) /\ it.batch = b => wk[x].item.doc # it.doc
  BY <1>1, <1>6
<1>11. \A i \in DOMAIN queue', x \in Workers : InQ(b, i)' /\ InW(b, x) => queue'[i].doc # wk[x].item.doc
  BY <1>1, <1>4
<1>12. it.batch = b => it.doc \in Awaited(b) \ handle[b].lost
  BY <1>1, <1>6
<1>13. \A d \in Awaited(b) : \/ d \in handle[b].lost \/ (it.batch = b /\ d = it.doc)
                             \/ \E i \in DOMAIN queue' : InQ(b, i)' /\ queue'[i].doc = d
                             \/ \E x \in Workers : InW(b, x) /\ wk[x].item.doc = d
  <2> TAKE d \in Awaited(b)
  <2>1. CASE \E i \in DOMAIN queue : InQ(b, i) /\ queue[i].doc = d
    BY <1>1, <1>5, <1>6, <2>1
  <2>2. QED
    BY <2>1
<1>14. CASE Busy(w)' /\ wk'[w].item = Head(queue) /\ Awaited(b)' = Awaited(b)
  <2>1. wk'[w].item = it /\ (InW(b, w)' <=> it.batch = b)
    BY <1>14 DEF InW, it
  <2> HIDE DEF MatchOK
  <2>2. \A x \in Workers : InW(b, x)' => (x = w /\ it.batch = b) \/ (x # w /\ InW(b, x) /\ wk'[x].item = wk[x].item)
    BY <1>2, <2>1
  <2>3. \A x, y \in Workers : InW(b, x)' /\ InW(b, y)' /\ wk'[x].item.doc = wk'[y].item.doc => x = y
    <3>1. \A x, y \in Workers : InW(b, x) /\ InW(b, y) /\ wk[x].item.doc = wk[y].item.doc => x = y
      BY DEF MatchOK
    <3>2. QED
      BY <1>10, <2>1, <2>2, <3>1
  <2>4. \A i \in DOMAIN queue', x \in Workers : InQ(b, i)' /\ InW(b, x)' => queue'[i].doc # wk'[x].item.doc
    BY <1>9, <1>11, <2>1, <2>2
  <2>5. \A i \in DOMAIN queue' : InQ(b, i)' => queue'[i].doc \in Awaited(b)' \ handle'[b].lost
    BY <1>8, <1>14
  <2>6. \A x \in Workers : InW(b, x)' => wk'[x].item.doc \in Awaited(b)' \ handle'[b].lost
    BY <1>12, <1>14, <2>1, <2>2 DEF MatchOK
  <2>7. handle'[b].lost \subseteq Awaited(b)'
    BY <1>14 DEF MatchOK
  <2>8. \A d \in Awaited(b)' : \/ d \in handle'[b].lost
                               \/ \E i \in DOMAIN queue' : InQ(b, i)' /\ queue'[i].doc = d
                               \/ \E x \in Workers : InW(b, x)' /\ wk'[x].item.doc = d
    BY <1>2, <1>3, <1>13, <1>14, <2>1
  <2>9. QED
    BY <1>7, <2>3, <2>4, <2>5, <2>6, <2>7, <2>8, Zenon DEF MatchOK
<1>15. CASE /\ ~Busy(w)'
            /\ Awaited(b)' = IF Head(queue).batch = b THEN Awaited(b) \ {Head(queue).doc} ELSE Awaited(b)
  <2>1. ~InW(b, w)' /\ Awaited(b)' = IF it.batch = b THEN Awaited(b) \ {it.doc} ELSE Awaited(b)
    BY <1>15 DEF InW, it
  <2> HIDE DEF MatchOK
  <2>2. \A x \in Workers : InW(b, x)' => x # w /\ InW(b, x) /\ wk'[x].item = wk[x].item
    BY <1>2, <2>1
  <2>3. \A x, y \in Workers : InW(b, x)' /\ InW(b, y)' /\ wk'[x].item.doc = wk'[y].item.doc => x = y
    BY <2>2 DEF MatchOK
  <2>4. \A i \in DOMAIN queue', x \in Workers : InQ(b, i)' /\ InW(b, x)' => queue'[i].doc # wk'[x].item.doc
    BY <1>11, <2>2
  <2>5. \A i \in DOMAIN queue' : InQ(b, i)' => queue'[i].doc \in Awaited(b)' \ handle'[b].lost
    BY <1>8, <1>9, <2>1
  <2>6. \A x \in Workers : InW(b, x)' => wk'[x].item.doc \in Awaited(b)' \ handle'[b].lost
    BY <1>10, <2>1, <2>2 DEF MatchOK
  <2>7. handle'[b].lost \subseteq Awaited(b)'
    BY <1>12, <2>1 DEF MatchOK
  <2>8. \A d \in Awaited(b)' : \/ d \in handle'[b].lost
                               \/ \E i \in DOMAIN queue' : InQ(b, i)' /\ queue'[i].doc = d
                               \/ \E x \in Workers : InW(b, x)' /\ wk'[x].item.doc = d
    BY <1>2, <1>3, <1>13, <2>1
  <2>9. QED
    BY <1>7, <2>3, <2>4, <2>5, <2>6, <2>7, <2>8, Zenon DEF MatchOK
<1>16. QED
  BY <1>14, <1>15

\* A worker is done with its item and the result is delivered.
LEMMA MatchEnds ==
  ASSUME NEW b \in Batches, MatchOK(b), handle'[b].lost = handle[b].lost, NEW w \in Workers, Busy(w), ~Busy(w)',
         queue' = queue, \A x \in Workers : x # w => wk'[x] = wk[x],
         Awaited(b)' = IF wk[w].item.batch = b THEN Awaited(b) \ {wk[w].item.doc} ELSE Awaited(b)
  PROVE  MatchOK(b)'
<1>1. DOMAIN queue' = DOMAIN queue /\ \A i \in DOMAIN queue : queue'[i] = queue[i] /\ (InQ(b, i)' <=> InQ(b, i))
  BY DEF InQ
<1>2. \A x \in Workers : x # w => (InW(b, x)' <=> InW(b, x)) /\ wk'[x].item = wk[x].item
  BY DEF InW, Busy
<1>3. (InW(b, w) <=> wk[w].item.batch = b) /\ ~InW(b, w)'
  BY DEF InW
<1>4. \A x \in Workers : InW(b, x)' => x # w /\ InW(b, x) /\ wk'[x].item = wk[x].item
  BY <1>2, <1>3
<1>5. \A i, j \in DOMAIN queue' : InQ(b, i)' /\ InQ(b, j)' /\ queue'[i].doc = queue'[j].doc => i = j
  BY <1>1 DEF MatchOK
<1>6. \A x, y \in Workers : InW(b, x)' /\ InW(b, y)' /\ wk'[x].item.doc = wk'[y].item.doc => x = y
  BY <1>4 DEF MatchOK
<1>7. \A i \in DOMAIN queue', x \in Workers : InQ(b, i)' /\ InW(b, x)' => queue'[i].doc # wk'[x].item.doc
  BY <1>1, <1>4 DEF MatchOK
<1>8. \A i \in DOMAIN queue' : InQ(b, i)' => queue'[i].doc \in Awaited(b)' \ handle'[b].lost
  BY <1>1, <1>3 DEF MatchOK
<1>9. \A x \in Workers : InW(b, x)' => wk'[x].item.doc \in Awaited(b)' \ handle'[b].lost
  BY <1>3, <1>4 DEF MatchOK
<1>10. handle'[b].lost \subseteq Awaited(b)'
  BY <1>3 DEF MatchOK
<1>11. \A d \in Awaited(b)' : \/ d \in handle'[b].lost
                              \/ \E i \in DOMAIN queue' : InQ(b, i)' /\ queue'[i].doc = d
                              \/ \E x \in Workers : InW(b, x)' /\ wk'[x].item.doc = d
  BY <1>1, <1>2, <1>3 DEF MatchOK
<1>12. QED
  BY <1>5, <1>6, <1>7, <1>8, <1>9, <1>10, <1>11, Zenon DEF MatchOK

\* A stop takes the workers' items, which are lost.
LEMMA MatchStop ==
  ASSUME NEW b \in Batches, MatchOK(b), handle'[b].lost = handle[b].lost \cup DroppedOf(b),
         Awaited(b)' = Awaited(b), queue' = queue, \A w \in Workers : ~Busy(w)'
  PROVE  MatchOK(b)'
<1>1. DOMAIN queue' = DOMAIN queue /\ \A i \in DOMAIN queue : queue'[i] = queue[i] /\ (InQ(b, i)' <=> InQ(b, i))
  BY DEF InQ
<1>2. \A w \in Workers : ~InW(b, w)'
  BY DEF InW
<1>3. DroppedOf(b) = {wk[w].item.doc : w \in {x \in Workers : InW(b, x)}}
  BY DEF DroppedOf, Dropped, InW
<1>4. \A i, j \in DOMAIN queue' : InQ(b, i)' /\ InQ(b, j)' /\ queue'[i].doc = queue'[j].doc => i = j
  BY <1>1 DEF MatchOK
<1>5. \A i \in DOMAIN queue' : InQ(b, i)' => queue'[i].doc \in Awaited(b)' \ handle'[b].lost
  BY <1>1, <1>3 DEF MatchOK
<1>6. handle'[b].lost \subseteq Awaited(b)'
  BY <1>3 DEF MatchOK
<1>7. \A d \in Awaited(b)' : \/ d \in handle'[b].lost
                             \/ \E i \in DOMAIN queue' : InQ(b, i)' /\ queue'[i].doc = d
  BY <1>1, <1>3 DEF MatchOK
<1>8. QED
  BY <1>2, <1>4, <1>5, <1>6, <1>7, Zenon DEF MatchOK

\* Two disjoint sets.
LEMMA DisjointCards ==
  ASSUME NEW S, NEW T, IsFiniteSet(S), IsFiniteSet(T), S \cap T = {}
  PROVE  IsFiniteSet(S \cup T) /\ Cardinality(S \cup T) = Cardinality(S) + Cardinality(T)
<1>1. /\ IsFiniteSet(S \cup T)
      /\ Cardinality(S \cup T) = Cardinality(S) + Cardinality(T) - Cardinality(S \cap T)
  BY FS_Union
<1>2. Cardinality(S \cap T) = 0 /\ Cardinality(S) \in Nat /\ Cardinality(T) \in Nat
  BY FS_EmptySet, FS_CardinalityType
<1>3. QED
  BY <1>1, <1>2

\* A batch is queued: what it staged is awaited and in the queue, the rest has
\* its result.
LEMMA ResultEnqueued ==
  ASSUME Base, Base', Links, NEW b \in Batches, Enqueue(b), sub'[b].pc = "done"
  PROVE  HandleOK(b)' /\ MatchOK(b)'
<1> DEFINE pend == Range(sub[b].pending)
           ds == sub[b].failed \cup sub[b].skipped
           all == pend \cup sub[b].failed \cup sub[b].skipped
           h == [NewHandle EXCEPT !.docs = all, !.remaining = Cardinality(all)]
           rest == IF h.remaining > Cardinality(ds) THEN h.remaining - Cardinality(ds) ELSE 0
           fired == [d \in Docs |-> IF d \in ds /\ h.fired[d] < 2 THEN h.fired[d] + 1 ELSE h.fired[d]]
           done == h.done \/ (ds # {} /\ rest = 0)
<1>1. /\ Types /\ sub[b] \in SubRec /\ handle \in [Batches -> HandleRec] /\ queue \in Seq(Item)
      /\ sub[b].pc = "staging" /\ sub[b].todo = <<>> /\ BatchOK(b) /\ b # None
  BY ProcessorAssumption DEF Base, Shape, Types, Links, BatchInv, Enqueue
<1>2. /\ pend \subseteq Docs /\ sub[b].failed \subseteq Docs /\ sub[b].skipped \subseteq Docs
      /\ all \subseteq Docs /\ ds \subseteq Docs /\ all \ pend = ds /\ pend \cap ds = {} /\ all = pend \cup ds
  BY <1>1 DEF SubRec, BatchOK, Range
<1>3. all # {}
  BY <1>1 DEF BatchOK, Handled
<1>4. /\ h.docs = all /\ h.remaining = Cardinality(all) /\ h.fired = [d \in Docs |-> 0] /\ ~h.done /\ h.lost = {}
  BY Zenon DEF NewHandle
<1>5. handle'[b] = fire_result(h, ds)
  BY <1>1 DEF Enqueue
<1>6. fire_result(h, ds) = [h EXCEPT !.fired = fired, !.remaining = rest, !.done = done]
  BY Zenon DEF fire_result
<1> DEFINE new == [h EXCEPT !.fired = fired, !.remaining = rest, !.done = done]
<1>7. new.docs = all /\ new.fired = fired /\ new.remaining = rest /\ new.done = done /\ new.lost = {}
  <2>1. h \in HandleRec
    BY <1>2, ConstTypes, Numbers DEF HandleRec
  <2> HIDE DEF h, fired, rest, done
  <2>2. QED
    BY <1>4, <2>1 DEF HandleRec
<1>8. handle'[b] = new
  BY <1>5, <1>6
<1>9. \A d \in Docs : fired[d] = IF d \in ds THEN 1 ELSE 0
  BY <1>4
<1>10. /\ IsFiniteSet(pend) /\ IsFiniteSet(ds) /\ Cardinality(all) = Cardinality(pend) + Cardinality(ds)
       /\ Cardinality(pend) \in Nat /\ Cardinality(ds) \in Nat
  <2>1. IsFiniteSet(pend) /\ IsFiniteSet(ds) /\ Cardinality(pend) \in Nat /\ Cardinality(ds) \in Nat
    BY <1>2, Numbers
  <2>2. QED
    BY <1>2, <2>1, DisjointCards
<1> HIDE DEF h, new, fired
<1>11. rest = Cardinality(pend)
  BY <1>4, <1>10
<1>12. Awaited(b)' = pend
  <2>1. Awaited(b)' = {d \in all : fired[d] = 0}
    BY <1>7, <1>8 DEF Awaited
  <2> HIDE DEF all, pend, ds
  <2>2. QED
    BY <1>2, <1>9, <2>1
<1>13. done <=> pend = {}
  <2>1. rest = 0 <=> pend = {}
    BY <1>10, <1>11, FS_EmptySet
  <2>2. pend = {} => ds # {}
    BY <1>2, <1>3
  <2> HIDE DEF rest, pend, ds
  <2>3. QED
    BY <1>4, <2>1, <2>2, Zenon DEF done
<1>14. HandleOK(b)'
  <2>1. handle'[b].done <=> Awaited(b)' = {}
    BY <1>7, <1>8, <1>12, <1>13, Zenon
  <2>2. handle'[b].remaining = Cardinality(Awaited(b)')
    BY <1>7, <1>8, <1>11, <1>12
  <2>3. \A d \in Docs : handle'[b].fired[d] <= 1 /\ (handle'[b].fired[d] = 1 => d \in handle'[b].docs)
    BY <1>2, <1>7, <1>8, <1>9
  <2>4. QED
    BY <2>1, <2>2, <2>3, Zenon DEF HandleOK
<1>15. MatchOK(b)'
  <2>1. \A i \in DOMAIN queue : ~InQ(b, i)
    BY <1>1 DEF Links, ItemInv, ItemOK, InQ
  <2>2. \A w \in Workers : ~InW(b, w)'
    <3>1. wk' = wk
      BY DEF Enqueue
    <3>2. QED
      BY <1>1, <3>1 DEF Links, ItemInv, ItemOK, InW, Busy
  <2>3. queue' = queue \o ItemsOf(b)
    BY BatchEnqueued
  <2>4. /\ ItemsOf(b) \in Seq(Item) /\ DOMAIN ItemsOf(b) = DOMAIN sub[b].pending
        /\ \A i \in DOMAIN ItemsOf(b) : ItemsOf(b)[i].doc = sub[b].pending[i] /\ ItemsOf(b)[i].batch = b
    BY <1>1, ItemsFacts
  <2>5. /\ \A i \in DOMAIN queue' :
              \/ i \in DOMAIN queue /\ queue'[i] = queue[i]
              \/ i \notin DOMAIN queue /\ i - Len(queue) \in DOMAIN ItemsOf(b) /\ queue'[i] = ItemsOf(b)[i - Len(queue)]
        /\ \A i \in DOMAIN ItemsOf(b) : i + Len(queue) \in DOMAIN queue' /\ queue'[i + Len(queue)] = ItemsOf(b)[i]
        /\ \A i, j \in DOMAIN queue' : i - Len(queue) = j - Len(queue) => i = j
    BY <1>1, <2>3, <2>4, ConcatFacts
  <2>6. \A i \in DOMAIN queue' : InQ(b, i)' => /\ i - Len(queue) \in DOMAIN sub[b].pending
                                               /\ queue'[i].doc = sub[b].pending[i - Len(queue)]
    <3> TAKE i \in DOMAIN queue'
    <3> HAVE InQ(b, i)'
    <3>1. queue'[i].batch = b
      BY DEF InQ
    <3>2. ~(i \in DOMAIN queue /\ queue'[i] = queue[i])
      BY <2>1, <3>1 DEF InQ
    <3>3. i - Len(queue) \in DOMAIN ItemsOf(b) /\ queue'[i] = ItemsOf(b)[i - Len(queue)]
      BY <2>5, <3>2
    <3>4. QED
      BY <2>4, <3>3
  <2>7. \A i, j \in DOMAIN queue' : InQ(b, i)' /\ InQ(b, j)' /\ queue'[i].doc = queue'[j].doc => i = j
    <3>1. \A i, j \in DOMAIN sub[b].pending : sub[b].pending[i] = sub[b].pending[j] => i = j
      BY <1>1 DEF BatchOK
    <3>2. QED
      BY <2>5, <2>6, <3>1
  <2>8. \A i \in DOMAIN sub[b].pending : sub[b].pending[i] \in pend
    BY DEF Range
  <2>9. handle'[b].lost = {}
    BY <1>7, <1>8
  <2>10. \A i \in DOMAIN queue' : InQ(b, i)' => queue'[i].doc \in Awaited(b)' \ handle'[b].lost
    BY <1>12, <2>6, <2>8, <2>9
  <2>11. \A d \in pend : \E i \in DOMAIN queue' : InQ(b, i)' /\ queue'[i].doc = d
    <3> TAKE d \in pend
    <3>1. PICK j \in DOMAIN sub[b].pending : sub[b].pending[j] = d
      BY DEF Range
    <3> DEFINE i == j + Len(queue)
    <3>2. i \in DOMAIN queue' /\ queue'[i] = ItemsOf(b)[j]
      BY <2>4, <2>5
    <3>3. ItemsOf(b)[j].doc = d /\ ItemsOf(b)[j].batch = b
      BY <2>4, <3>1
    <3> HIDE DEF i
    <3>4. QED
      BY <3>2, <3>3 DEF InQ
  <2> HIDE DEF pend
  <2>12. QED
    BY <1>12, <2>2, <2>7, <2>9, <2>10, <2>11, Zenon DEF MatchOK
<1>16. QED
  BY <1>14, <1>15

\* A batch is submitted by its own Enqueue only.
LEMMA DoneWas ==
  ASSUME Base, Base', Next, NEW b \in Batches, ~Enqueue(b), sub'[b].pc = "done"
  PROVE  sub[b].pc = "done" /\ ~Crash
<1>0. sub \in [Batches -> SubRec] /\ sub[b] \in SubRec
  BY DEF Base, Shape, Types
<1>1. ASSUME Crash PROVE FALSE
  <2>1. sub'[b] = IF sub[b].pc = "idle" THEN sub[b] ELSE [IdleSub EXCEPT !.pc = "gone"]
    BY <1>1 DEF Crash
  <2>2. [IdleSub EXCEPT !.pc = "gone"].pc = "gone"
    BY DEF IdleSub
  <2>3. QED
    BY <2>1, <2>2
<1>2. CASE sub' = sub
  BY <1>1, <1>2
<1>3. ASSUME NEW c \in Batches, Lookup(c) \/ Stage(c) PROVE sub[b].pc = "done"
  <2>1. c # b => sub'[b] = sub[b]
    BY <1>0, <1>3 DEF Lookup, Stage, StageRepeat, StageSkip, StageRequeue, StageInsert
  <2>2. c = b => sub'[b].pc = "staging"
    <3>1. ASSUME c = b, Lookup(c) PROVE sub'[b].pc = "staging"
      <4> DEFINE f == [d \in Docs |-> IF Contains(sub[b].todo, d) THEN row[d].st ELSE "none"]
                 g == [d \in Docs |-> row[d].inc]
      <4>1. Lookup(b)
        BY <3>1
      <4>2. \/ sub' = [sub EXCEPT ![b] = [sub[b] EXCEPT !.pc = "staging", !.seen = f, !.inc = g]]
            \/ sub' = [sub EXCEPT ![b] = [sub[b] EXCEPT !.pc = "staging"]]
        BY <1>0, <4>1 DEF Lookup
      <4> HIDE DEF f, g
      <4>3. QED
        BY <1>0, <4>2 DEF SubRec
    <3>2. ASSUME c = b, Stage(c) PROVE sub'[b].pc = "staging"
      <4>1. PICK d \in Docs : StageRepeat(b, d) \/ StageSkip(b, d) \/ StageRequeue(b, d) \/ StageInsert(b, d)
        BY <3>2 DEF Stage
      <4>2. sub[b].pc = "staging"
        BY <4>1 DEF StageRepeat, StageSkip, StageRequeue, StageInsert, NextUp
      <4>3. \/ sub'[b] = [sub[b] EXCEPT !.todo = Tail(@)]
            \/ sub'[b] = [sub[b] EXCEPT !.todo = Tail(@), !.skipped = @ \cup {d}]
            \/ sub'[b] = [sub[b] EXCEPT !.todo = Tail(@), !.failed = @ \cup {d}]
            \/ sub'[b] = [sub[b] EXCEPT !.todo = Tail(@), !.pending = Append(@, d)]
            \/ sub'[b] = [sub[b] EXCEPT !.todo = Tail(@), !.pending = Append(@, d), !.inc[d] = row[d].inc]
        BY <1>0, <4>1 DEF StageRepeat, StageSkip, StageRequeue, StageInsert, SubRec
      <4>4. QED
        BY <1>0, <4>2, <4>3 DEF SubRec
    <3>3. QED
      BY <1>3, <3>1, <3>2
  <2>3. QED
    BY <2>1, <2>2
<1>4. ASSUME NEW c \in Batches, Enqueue(c) PROVE sub[b].pc = "done"
  BY <1>4, BatchEnqueued
<1>5. QED
  BY <1>1, <1>2, <1>3, <1>4, BatchIdle

\* A worker goes on with its item.
LEMMA ResultMoves ==
  ASSUME Base, NEW b \in Batches, HandleOK(b), MatchOK(b), NEW w \in Workers, Busy(w), Busy(w)',
         wk'[w].item = wk[w].item, \A x \in Workers : x # w => wk'[x] = wk[x], UNCHANGED <<queue, handle>>
  PROVE  HandleOK(b)' /\ MatchOK(b)'
<1>1. HandleOK(b)' /\ Awaited(b)' = Awaited(b)
  BY HandleFrame
<1>2. \A x \in Workers : (InW(b, x)' <=> InW(b, x)) /\ wk'[x].item = wk[x].item
  BY DEF InW, Busy
<1>3. QED
  BY <1>1, <1>2, MatchSame

\* A worker delivers the result of its item.
LEMMA ResultEnds ==
  ASSUME Base, NEW b \in Batches, HandleOK(b), MatchOK(b), NEW w \in Workers, Busy(w),
         wk' = [wk EXCEPT ![w] = Resting], queue' = queue, Deliver(wk[w].item)
  PROVE  HandleOK(b)' /\ MatchOK(b)'
<1>1. Types /\ wk[w].item \in Item
  BY DEF Base, Shape, BusyHasItem
<1>2. ~Busy(w)' /\ \A x \in Workers : x # w => wk'[x] = wk[x]
  BY <1>1 DEF Types, Busy, Resting
<1>3. CASE wk[w].item.batch = b
  <2>1. wk[w].item.doc \in Awaited(b)
    BY <1>3 DEF MatchOK, InW
  <2>2. HandleOK(b)' /\ Awaited(b)' = Awaited(b) \ {wk[w].item.doc} /\ handle'[b].lost = handle[b].lost
    BY <1>1, <1>3, <2>1, DeliverFacts
  <2>3. QED
    BY <1>2, <1>3, <2>2, MatchEnds
<1>4. CASE wk[w].item.batch # b
  <2>1. handle'[b] = handle[b]
    BY <1>1, <1>4, DeliverFacts
  <2>2. HandleOK(b)' /\ Awaited(b)' = Awaited(b) /\ handle'[b].lost = handle[b].lost
    BY <2>1, HandleFrame
  <2>3. QED
    BY <1>2, <1>4, <2>2, MatchEnds
<1>5. QED
  BY <1>3, <1>4

\* A worker takes an item, or delivers its result at once.
LEMMA ResultLoads ==
  ASSUME Base, NEW b \in Batches, HandleOK(b), MatchOK(b), NEW w \in Workers, LoadDocument(w)
  PROVE  HandleOK(b)' /\ MatchOK(b)'
<1> DEFINE it == Head(queue)
<1>1. /\ Types /\ queue \in Seq(Item) /\ queue # <<>> /\ queue' = Tail(queue) /\ ~Busy(w)
      /\ wk \in [Workers -> WkRec] /\ wk[w] \in WkRec
  BY DEF Base, Shape, Types, LoadDocument, FirstIdle
<1>2. it \in Item /\ 1 \in DOMAIN queue /\ it = queue[1]
  BY <1>1, TailFacts
<1>3. \/ wk' = [wk EXCEPT ![w].pc = "gate", ![w].item = it, ![w].ver = row[it.doc].ver] /\ handle' = handle
      \/ wk' = wk /\ Deliver(it)
  BY DEF LoadDocument
<1> HIDE DEF it
<1>4. CASE wk' = [wk EXCEPT ![w].pc = "gate", ![w].item = it, ![w].ver = row[it.doc].ver] /\ handle' = handle
  <2>1. /\ wk'[w] = [wk[w] EXCEPT !.pc = "gate", !.item = it, !.ver = row[it.doc].ver]
        /\ \A x \in Workers : x # w => wk'[x] = wk[x]
    BY <1>1, <1>4
  <2>2. wk'[w].pc = "gate" /\ wk'[w].item = it
    BY <1>1, <2>1 DEF WkRec
  <2>3. Busy(w)' /\ wk'[w].item = Head(queue)
    BY <2>2 DEF Busy, it
  <2>4. HandleOK(b)' /\ Awaited(b)' = Awaited(b) /\ handle'[b].lost = handle[b].lost
    BY <1>4, HandleFrame
  <2>5. QED
    BY <1>1, <2>1, <2>3, <2>4, MatchLoad
<1>5. CASE wk' = wk /\ Deliver(it)
  <2>1. ~Busy(w)' /\ \A x \in Workers : x # w => wk'[x] = wk[x]
    BY <1>1, <1>5 DEF Busy
  <2>2. CASE it.batch = b
    <3>1. it.doc \in Awaited(b)
      BY <1>2, <2>2 DEF MatchOK, InQ
    <3>2. HandleOK(b)' /\ Awaited(b)' = Awaited(b) \ {it.doc} /\ handle'[b].lost = handle[b].lost
      BY <1>1, <1>2, <1>5, <2>2, <3>1, DeliverFacts
    <3>3. Awaited(b)' = IF Head(queue).batch = b THEN Awaited(b) \ {Head(queue).doc} ELSE Awaited(b)
      BY <2>2, <3>2 DEF it
    <3>4. QED
      BY <1>1, <2>1, <3>2, <3>3, MatchLoad
  <2>3. CASE it.batch # b
    <3>1. handle'[b] = handle[b]
      BY <1>1, <1>2, <1>5, <2>3, DeliverFacts
    <3>2. HandleOK(b)' /\ Awaited(b)' = Awaited(b) /\ handle'[b].lost = handle[b].lost
      BY <3>1, HandleFrame
    <3>3. Awaited(b)' = IF Head(queue).batch = b THEN Awaited(b) \ {Head(queue).doc} ELSE Awaited(b)
      BY <2>3, <3>2 DEF it
    <3>4. QED
      BY <1>1, <2>1, <3>2, <3>3, MatchLoad
  <2>4. QED
    BY <2>2, <2>3
<1>6. QED
  BY <1>3, <1>4, <1>5

\* Every step keeps the results of the submitted batches exact.
LEMMA ResultStep ==
  ASSUME Base, Base', Links, ResultInv, Next
  PROVE  ResultInv'
<1> SUFFICES ASSUME NEW b \in Batches, sub'[b].pc = "done" PROVE HandleOK(b)' /\ MatchOK(b)'
  BY DEF ResultInv
<1>1. CASE Enqueue(b)
  BY <1>1, ResultEnqueued
<1>2. CASE ~Enqueue(b)
  <2>1. sub[b].pc = "done" /\ ~Crash
    BY <1>2, DoneWas
  <2>2. HandleOK(b) /\ MatchOK(b)
    BY <2>1 DEF ResultInv
  <2>3. /\ Types /\ handle \in [Batches -> HandleRec] /\ queue \in Seq(Item) /\ wk \in [Workers -> WkRec]
        /\ b # None
    BY ProcessorAssumption DEF Base, Shape, Types
  <2>4. ASSUME handle'[b] = handle[b], wk' = wk, queue' = queue PROVE HandleOK(b)' /\ MatchOK(b)'
    <3>1. HandleOK(b)' /\ Awaited(b)' = Awaited(b)
      BY <2>2, <2>4, HandleFrame
    <3>2. \A w \in Workers : (InW(b, w)' <=> InW(b, w)) /\ wk'[w].item = wk[w].item
      BY <2>4 DEF InW, Busy
    <3>3. QED
      BY <2>2, <2>4, <3>1, <3>2, MatchSame
  <2>5. ASSUME handle'[b] = handle[b], wk' = wk, NEW s \in Seq(Item), queue' = queue \o s,
               \A i \in DOMAIN s : s[i].batch # b
        PROVE  HandleOK(b)' /\ MatchOK(b)'
    <3>1. HandleOK(b)' /\ Awaited(b)' = Awaited(b)
      BY <2>2, <2>5, HandleFrame
    <3>2. QED
      BY <2>2, <2>3, <2>5, <3>1, MatchQueue
  <2>6. ASSUME NEW c \in Batches, Lookup(c) \/ Stage(c) PROVE HandleOK(b)' /\ MatchOK(b)'
    <3>1. UNCHANGED <<handle, wk, queue>>
      BY <2>6 DEF Lookup, Stage, StageRepeat, StageSkip, StageRequeue, StageInsert
    <3>2. QED
      BY <2>4, <3>1
  <2>7. ASSUME NEW c \in Batches, Enqueue(c) PROVE HandleOK(b)' /\ MatchOK(b)'
    <3>1. c # b
      BY <1>2, <2>7
    <3>2. handle'[b] = handle[b] /\ wk' = wk
      BY <2>3, <2>7, <3>1 DEF Enqueue
    <3>3. queue' = queue \/ queue' = queue \o ItemsOf(c)
      BY <2>7 DEF Enqueue
    <3>4. ItemsOf(c) \in Seq(Item) /\ \A i \in DOMAIN ItemsOf(c) : ItemsOf(c)[i].batch # b
      BY <2>3, <3>1, ItemsFacts
    <3>5. QED
      BY <2>4, <2>5, <3>2, <3>3, <3>4
  <2>8. CASE start_pending_processor \/ \E d \in Docs : Forget(d)
    <3>1. UNCHANGED <<handle, wk, queue>>
      BY <2>8 DEF start_pending_processor, Forget
    <3>2. QED
      BY <2>4, <3>1
  <2>9. CASE EnqueueOrphans
    <3>1. PICK claimed \in SUBSET Orphaned : queue' = queue \o OrphanItems(claimed) \/ queue' = queue
      BY <2>9, OrphanStep
    <3>2. UNCHANGED <<handle, wk>>
      BY <2>9, OrphanStep
    <3>3. claimed \in SUBSET Docs
      BY DEF Orphaned
    <3>4. OrphanItems(claimed) \in Seq(Item) /\ \A i \in DOMAIN OrphanItems(claimed) : OrphanItems(claimed)[i].batch # b
      BY <2>3, <3>3, OrphanFacts
    <3>5. QED
      BY <2>4, <2>5, <3>1, <3>2, <3>4
  <2>10. CASE stop_pending_processor
    <3>1. handle'[b] = [handle[b] EXCEPT !.lost = @ \cup DroppedOf(b)] /\ queue' = queue /\ wk' = [w \in Workers |-> Resting]
      BY <2>10 DEF stop_pending_processor
    <3>2. /\ handle'[b].docs = handle[b].docs /\ handle'[b].fired = handle[b].fired /\ handle'[b].done = handle[b].done
          /\ handle'[b].remaining = handle[b].remaining /\ handle'[b].lost = handle[b].lost \cup DroppedOf(b)
      BY <2>3, <3>1 DEF HandleRec
    <3>3. HandleOK(b)' /\ Awaited(b)' = Awaited(b)
      BY <2>2, <3>2, HandleFrame
    <3>4. \A w \in Workers : ~Busy(w)'
      BY <3>1 DEF Busy, Resting
    <3>5. QED
      BY <2>2, <3>1, <3>2, <3>3, <3>4, MatchStop
  <2>11. ASSUME NEW w \in Workers, Step(w) \/ PreTryFault(w) PROVE HandleOK(b)' /\ MatchOK(b)'
    <3>1. CASE LoadDocument(w)
      BY <2>2, <3>1, ResultLoads
    <3>2. ASSUME EnterGate(w) \/ ClearExtraction(w) \/ AcquireWindow(w) \/ StoreWindow(w) \/ (Finish(w) /\ Trouble /\ wk' = [wk EXCEPT ![w].pc = "fail"] /\ handle' = handle)
          PROVE  HandleOK(b)' /\ MatchOK(b)'
      <4>1. /\ UNCHANGED <<queue, handle>> /\ Busy(w) /\ \A x \in Workers : x # w => wk'[x] = wk[x]
        BY <2>3, <3>2 DEF EnterGate, ClearExtraction, AcquireWindow, StoreWindow, Finish, Busy
      <4>2. wk[w] \in WkRec
        BY <2>3
      <4>3. wk'[w].item = wk[w].item /\ wk'[w].pc # "idle"
        <5>1. CASE EnterGate(w)
          BY <2>3, <4>2, <5>1 DEF EnterGate, WkRec
        <5>2. CASE ClearExtraction(w)
          BY <2>3, <4>2, <5>2 DEF ClearExtraction, WkRec
        <5>3. CASE AcquireWindow(w)
          BY <2>3, <4>2, <5>3 DEF AcquireWindow, WkRec
        <5>4. CASE StoreWindow(w)
          BY <2>3, <4>2, <5>4 DEF StoreWindow, WkRec
        <5>5. CASE wk' = [wk EXCEPT ![w].pc = "fail"]
          BY <2>3, <4>2, <5>5 DEF WkRec
        <5>6. QED
          BY <3>2, <5>1, <5>2, <5>3, <5>4, <5>5
      <4>5. QED
        BY <2>2, <4>1, <4>3, ResultMoves DEF Busy
    <3>3. ASSUME FailDocument(w) \/ PreTryFault(w) \/ (Finish(w) /\ Deliver(wk[w].item) /\ wk' = [wk EXCEPT ![w] = Resting])
          PROVE  HandleOK(b)' /\ MatchOK(b)'
      <4>1. wk' = [wk EXCEPT ![w] = Resting] /\ queue' = queue /\ Deliver(wk[w].item) /\ Busy(w)
        BY <3>3 DEF FailDocument, PreTryFault, Finish, Busy
      <4>2. QED
        BY <2>2, <4>1, ResultEnds
    <3>4. Finish(w) => \/ Deliver(wk[w].item) /\ wk' = [wk EXCEPT ![w] = Resting]
                       \/ Trouble /\ wk' = [wk EXCEPT ![w].pc = "fail"] /\ handle' = handle
      BY DEF Finish
    <3>5. QED
      BY <2>11, <3>1, <3>2, <3>3, <3>4 DEF Step
  <2>12. QED
    BY <2>1, <2>6, <2>7, <2>8, <2>9, <2>10, <2>11 DEF Next
<1>3. QED
  BY <1>1, <1>2

\* As many places as documents in them, when no document is in two.
LEMMA SameCount ==
  ASSUME NEW S, NEW T, IsFiniteSet(S), NEW f \in [S -> T], \A x, y \in S : f[x] = f[y] => x = y,
         \A t \in T : \E x \in S : f[x] = t
  PROVE  IsFiniteSet(T) /\ Cardinality(T) = Cardinality(S)
<1>1. f \in Bijection(S, T)
  BY DEF Bijection, Injection, Surjection, IsInjective
<1>2. ExistsBijection(S, T)
  BY <1>1 DEF ExistsBijection
<1>3. QED
  BY <1>2, FS_Bijection

\* What the invariant says of places, counted.
LEMMA Counted ==
  ASSUME Base, NEW b \in Batches, HandleOK(b), MatchOK(b)
  PROVE  LET held == {w \in Workers : Busy(w) /\ wk[w].item.batch = b}
             items == {i \in DOMAIN queue : queue[i].batch = b}
         IN  /\ Cardinality(held) + Cardinality(items) + Cardinality(handle[b].lost) = handle[b].remaining
             /\ Awaited(b) = {wk[w].item.doc : w \in held} \cup {queue[i].doc : i \in items} \cup handle[b].lost
<1> DEFINE held == {w \in Workers : Busy(w) /\ wk[w].item.batch = b}
           items == {i \in DOMAIN queue : queue[i].batch = b}
           H == {wk[w].item.doc : w \in held}
           Q == {queue[i].doc : i \in items}
           L == handle[b].lost
<1>1. /\ \A w : w \in held <=> w \in Workers /\ InW(b, w)
      /\ \A i : i \in items <=> i \in DOMAIN queue /\ InQ(b, i)
  BY DEF InW, InQ
<1>2. Types /\ queue \in Seq(Item)
  BY DEF Base, Shape, Types
<1>3. Awaited(b) = H \cup Q \cup L
  <2>1. H \cup Q \cup L \subseteq Awaited(b)
    BY <1>1 DEF MatchOK
  <2>2. Awaited(b) \subseteq H \cup Q \cup L
    BY <1>1 DEF MatchOK
  <2>3. QED
    BY <2>1, <2>2
<1>4. H \cap Q = {} /\ (H \cup Q) \cap L = {}
  BY <1>1 DEF MatchOK
<1>5. IsFiniteSet(held) /\ IsFiniteSet(items)
  <2>1. IsFiniteSet(Workers) /\ held \in SUBSET Workers
    BY ProcessorAssumption
  <2>2. Len(queue) \in Nat /\ DOMAIN queue = 1..Len(queue)
    BY <1>2, LenProperties
  <2>3. IsFiniteSet(DOMAIN queue) /\ items \in SUBSET (DOMAIN queue)
    BY <2>2, FS_Interval
  <2>4. QED
    BY <2>1, <2>3, FS_Subset
<1>6. IsFiniteSet(H) /\ Cardinality(H) = Cardinality(held)
  <2> DEFINE f == [w \in held |-> wk[w].item.doc]
  <2>1. f \in [held -> H] /\ \A t \in H : \E w \in held : f[w] = t
    OBVIOUS
  <2>2. \A w, x \in held : f[w] = f[x] => w = x
    BY <1>1 DEF MatchOK
  <2> HIDE DEF f, held, H
  <2>3. QED
    BY <1>5, <2>1, <2>2, SameCount
<1>7. IsFiniteSet(Q) /\ Cardinality(Q) = Cardinality(items)
  <2> DEFINE f == [i \in items |-> queue[i].doc]
  <2>1. f \in [items -> Q] /\ \A t \in Q : \E i \in items : f[i] = t
    OBVIOUS
  <2>2. \A i, j \in items : f[i] = f[j] => i = j
    BY <1>1 DEF MatchOK
  <2> HIDE DEF f, items, Q
  <2>3. QED
    BY <1>5, <2>1, <2>2, SameCount
<1>8. IsFiniteSet(L)
  BY <1>2, Numbers DEF Types, HandleRec
<1> HIDE DEF held, items, H, Q, L
<1>9. IsFiniteSet(H \cup Q) /\ Cardinality(H \cup Q) = Cardinality(held) + Cardinality(items)
  BY <1>4, <1>6, <1>7, DisjointCards
<1>10. Cardinality(H \cup Q \cup L) = Cardinality(held) + Cardinality(items) + Cardinality(L)
  BY <1>4, <1>8, <1>9, DisjointCards
<1>11. handle[b].remaining = Cardinality(H \cup Q \cup L)
  BY <1>3 DEF HandleOK
<1>12. Cardinality(held) + Cardinality(items) + Cardinality(L) = handle[b].remaining /\ Awaited(b) = H \cup Q \cup L
  BY <1>3, <1>10, <1>11
<1>13. QED
  BY <1>12, Zenon DEF held, items, H, Q, L

\* wait() and on_result: whatever the batches, the workers and the failures, no
\* document of a submitted batch is reported twice, the handle is done exactly
\* when every document was reported, and until then every unreported document has
\* exactly one item, in the queue or with a worker, unless a stop took it.
THEOREM ResultsStayExact == Spec => []ResultsExact
<1>1. ASSUME Init PROVE ResultInv
  <2> SUFFICES ASSUME NEW b \in Batches PROVE sub[b].pc = "idle"
    BY DEF ResultInv
  <2>1. PICK plan \in Plans : sub = [x \in Batches |-> [IdleSub EXCEPT !.todo = plan.submit[x]]]
    BY <1>1 DEF Init
  <2>2. sub[b] = [IdleSub EXCEPT !.todo = plan.submit[b]]
    BY <2>1
  <2>3. QED
    BY <2>2 DEF IdleSub
<1>2. ASSUME Inv, Inv', ResultInv, [Next]_vars PROVE ResultInv'
  <2>1. CASE Next
    BY <1>2, <2>1, ResultStep DEF Inv
  <2>2. CASE UNCHANGED vars
    <3>1. UNCHANGED <<sub, handle, queue, wk>>
      BY <2>2 DEF vars
    <3> SUFFICES ASSUME NEW b \in Batches, sub'[b].pc = "done" PROVE HandleOK(b)' /\ MatchOK(b)'
      BY DEF ResultInv
    <3>2. HandleOK(b) /\ MatchOK(b)
      BY <1>2, <3>1 DEF ResultInv
    <3>3. HandleOK(b)' /\ Awaited(b)' = Awaited(b)
      BY <3>1, <3>2, HandleFrame
    <3>4. \A w \in Workers : (InW(b, w)' <=> InW(b, w)) /\ wk'[w].item = wk[w].item
      BY <3>1 DEF InW, Busy
    <3>5. QED
      BY <3>1, <3>2, <3>3, <3>4, MatchSame
  <2>3. QED
    BY <1>2, <2>1, <2>2
<1>3. ASSUME Inv, ResultInv PROVE ResultsExact
  <2> SUFFICES ASSUME NEW b \in {x \in Batches : sub[x].pc = "done"}
               PROVE  LET h == handle[b]
                          held == {w \in Workers : Busy(w) /\ wk[w].item.batch = b}
                          items == {i \in DOMAIN queue : queue[i].batch = b}
                      IN /\ \A d \in Docs : h.fired[d] <= 1 /\ (h.fired[d] = 1 => d \in h.docs)
                         /\ h.done <=> Awaited(b) = {}
                         /\ h.remaining = Cardinality(Awaited(b))
                         /\ Cardinality(held) + Cardinality(items) + Cardinality(h.lost) = h.remaining
                         /\ Awaited(b) = {wk[w].item.doc : w \in held}
                                           \cup {queue[i].doc : i \in items} \cup h.lost
    BY Zenon DEF ResultsExact
  <2>1. b \in Batches /\ Base /\ HandleOK(b) /\ MatchOK(b)
    BY <1>3 DEF Inv, ResultInv
  <2>2. QED
    BY <2>1, Counted, Zenon DEF HandleOK
<1>4. QED
  BY <1>1, <1>2, <1>3, InvHolds, PTL DEF Spec
=============================================================================
