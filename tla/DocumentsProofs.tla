---------------------------- MODULE DocumentsProofs ----------------------------
(***************************************************************************)
(* For any documents, texts, entities, callers and sessions: what a call   *)
(* that returns leaves of its document in the chunk stores, that a         *)
(* forgotten document sources nothing, that a cascade takes no entity that *)
(* another document mentions, that remember and forget implement the       *)
(* abstract store, and that every state is well typed.                     *)
(*                                                                         *)
(* The invariant has three layers.  CallInv says who is at a document: no  *)
(* other call beside one that is alone, and no forget beside a call whose  *)
(* document is not scarred (Company).  On that rests DocInv, what the call *)
(* alone on a document has made of its row and chunks at each of its steps *)
(* (OwnDocs); and EntityInv, what the two entity stores hold of a document *)
(* while a forget lists, deletes and strips, and a remember upserts.  The  *)
(* heart of it is Backed and Spared: pgvector alone decides what is an     *)
(* orphan, for both stores, and is right to, because a sound document is a *)
(* source in pgvector wherever it is one in the graph.                     *)
(***************************************************************************)
EXTENDS Documents, FiniteSetTheorems, WellFoundedInduction, TLAPS

Calls == [pc : Steps, kind : {"create", "replace", "forget"}, doc : Docs,
          inc : Nat, text : Texts \cup {None}, n : Nat,
          gone : SUBSET Entities, strip : SUBSET Entities, kept : SUBSET Entities,
          ids : [Entities -> Nat], alone : BOOLEAN, calm : BOOLEAN]
Stored == [there : BOOLEAN, id : Nat, src : SUBSET (Docs \X Nat), out : SUBSET (Docs \X Nat),
           retired : BOOLEAN]

\* As much of the types as the proof needs, without the bounds.
Shape ==
  /\ op \in [Callers -> {Idle, Absentee} \cup Calls]
  /\ row \in [Docs -> [st : Status, text : Texts \cup {None}, inc : Nat]]
  /\ khora \in [Docs -> [Texts -> Nat]] /\ nodes \in [Docs -> SUBSET Texts]
  /\ vec \in [Entities -> Stored] /\ graph \in [Entities -> Stored]
  /\ ops \in Nat /\ clean \subseteq Docs /\ scarred \subseteq Docs

\* The kind of a call goes with its step and its text.
ForgetSteps == {"list", "delvec", "delgraph", "stripvec", "stripgraph",
                "delnodes", "delchunks", "delrow"}
ReplaceSteps == {"wipe", "wipenodes", "mark", "prefetch", "commit", "retire",
                 "remap", "strip"}
KindOf(r) ==
  /\ r.pc \in ForgetSteps <=> r.kind = "forget"
  /\ r.kind = "forget" <=> r.text = None
  /\ r.pc \in {"insert", "complete"} => r.kind = "create"
  /\ r.pc \in ReplaceSteps => r.kind = "replace"
  /\ r.kind = "create" => r.kept = {}
Kinds == \A c \in Callers : Active(c) => KindOf(op[c])

Forgets(c) == Active(c) /\ op[c].kind = "forget"

\* Who is at a document: a call alone on it has no other beside it, and none
\* that runs beside a forget, or with one on its document, is unmarked.
Company ==
  \A c \in Callers : Active(c) =>
    /\ op[c].doc \notin clean
    /\ \A x \in Callers \ {c} : Active(x) =>
         /\ op[x].doc = op[c].doc => ~op[c].alone
         /\ op[x].kind = "forget" /\ op[c].kind # "forget" =>
              ~op[c].calm /\ op[c].doc \in scarred
         /\ op[x].doc = op[c].doc /\ op[x].kind = "forget" => op[c].doc \in scarred

\* The row a forget is about to delete is the one it found.
RowStays == \A f \in Callers : Forgets(f) /\ op[f].doc \notin scarred => Current(f)

RowOK == \A d \in Docs : row[d].st = "none" <=> row[d].text = None

CallInv == Shape /\ Kinds /\ Company /\ RowStays /\ RowOK

-------------------------------------------------------------------------------
(* The row and the chunks *)

Written == {"prefetch", "commit", "retire", "remap", "strip", "vector", "graph",
            "link", "complete"}

\* What the call that is alone on a document has made of it.
OwnDoc(c) ==
  LET d == op[c].doc  t == op[c].text  pc == op[c].pc IN
  /\ pc = "insert" => row[d].st = "none"
  /\ pc # "insert" => Current(c)
  /\ pc \in {"wipenodes", "write", "delrow"} => khora[d] = NoChunks
  /\ pc \in {"write", "mirror", "delchunks", "delrow"} => nodes[d] = {}
  /\ pc \in Written \cup {"mirror"} => khora[d] = One(t)
  /\ pc \in Written => nodes[d] \subseteq {t}
  /\ pc \in {"retire", "remap", "strip"}
       \/ (op[c].kind = "replace" /\ pc \in {"vector", "graph", "link"}) =>
       row[d].st = "completed" /\ row[d].text = t

OwnDocs == \A c \in Callers : Active(c) /\ op[c].alone => OwnDoc(c)
DocInv == OwnDocs /\ SettledIsExact

-------------------------------------------------------------------------------
(* The entities *)

Now(d) == <<d, row[d].inc>>

\* An entity that is not there has no sources, and no source is a document that
\* is yet to be inserted.
Sources(store) ==
  \A e \in Entities :
    /\ IsFiniteSet(store[e].src)
    /\ ~store[e].there => store[e].src = {}
    /\ \A d \in Docs, i \in Nat : <<d, i>> \in store[e].src \cup store[e].out => i <= row[d].inc
Fresh ==
  /\ Sources(vec) /\ Sources(graph)
  /\ \A c \in Callers : Active(c) => op[c].inc <= row[op[c].doc].inc

\* What a forget that is alone on its document has yet to remove from pgvector.
Listed(f) ==
  \A e \in Entities : Id(f) \in vec[e].src =>
    /\ op[f].pc \notin {"stripgraph", "delnodes", "delchunks", "delrow"}
    /\ op[f].pc = "delvec" => e \in op[f].gone \cup op[f].strip
    /\ op[f].pc \in {"delgraph", "stripvec"} => e \in op[f].strip
    /\ op[f].pc \in {"delvec", "delgraph", "stripvec"} => vec[e].id = op[f].ids[e]
ListedAll == \A f \in Callers : Forgets(f) /\ op[f].alone => Listed(f)

\* A document that no forget is at, or has been at and failed.
Sound(d) == /\ d \notin scarred /\ row[d].st # "none"
            /\ \A f \in Callers : Forgets(f) => op[f].doc # d

\* Whatever a sound document sources in the graph it sources in pgvector, which
\* is what decides, or has been pushed out of there; so what a forget has found to
\* be its own alone is its own in both, but for the documents pushed out.
Backed ==
  \A d \in Docs : Sound(d) =>
    \A e \in Entities : Now(d) \in graph[e].src => Now(d) \in vec[e].src \cup vec[e].out
Spared ==
  \A f \in Callers : Forgets(f) /\ op[f].pc \in {"delvec", "delgraph"} =>
    \A d \in Docs : Sound(d) =>
      \A e \in op[f].gone :
        Now(d) \notin vec[e].src /\ (Now(d) \in graph[e].src => Now(d) \in vec[e].out)
Upserted ==
  \A c \in Callers : At(c, "graph") /\ op[c].doc \notin scarred /\ Id(c) = Now(op[c].doc) =>
    \A e \in NetNew(c) : Id(c) \in vec[e].src \cup vec[e].out

\* The graph has the document as a source, or one of the stores pushed it out.
On(e, id) == id \in graph[e].src \/ id \in graph[e].out \/ id \in vec[e].out

\* What a remember that is alone on its document has of it in the graph.
Linked(c) ==
  /\ op[c].pc \in {"commit", "retire", "remap", "strip", "vector", "graph"} =>
       \A e \in op[c].kept : On(e, Id(c))
  /\ op[c].pc \in {"commit", "retire", "remap", "strip"} => op[c].kept \cap op[c].strip = {}
  /\ op[c].pc \in {"link", "complete"} => \A e \in Extracted(c) : On(e, Id(c))
LinkedAll ==
  \A c \in Callers : Active(c) /\ op[c].alone /\ op[c].doc \notin scarred => Linked(c)

Mentioned ==
  \A d \in clean \ scarred : row[d].st = "completed" =>
    \A e \in Mentions[row[d].text] : On(e, Now(d))

EntityInv ==
  /\ Fresh /\ ListedAll /\ ForgottenSourcesNothing
  /\ Backed /\ Spared /\ Upserted /\ LinkedAll /\ Mentioned

-------------------------------------------------------------------------------
(* Steps of a call *)

\* An active call is a record of a call.
LEMMA ActiveIsCall ==
  ASSUME Shape, NEW c \in Callers, Active(c)
  PROVE  op[c] \in Calls
BY DEF Shape, Active, Idle, Absentee, Steps

\* A call's record when it has listed entities and goes on, and what is so of it.
Listing(r, p, go, sr, ii) == [r EXCEPT !.pc = p, !.gone = go, !.strip = sr, !.ids = ii]
Lists(q, r, p, go, sr, ii) ==
  /\ q \in Calls /\ q.pc = p /\ q.gone = go /\ q.strip = sr /\ q.ids = ii /\ q.kept = r.kept
  /\ q.kind = r.kind /\ q.doc = r.doc /\ q.text = r.text /\ q.inc = r.inc /\ q.n = r.n
  /\ q.alone = r.alone /\ q.calm = r.calm

\* A call that lists entities and goes on keeps the rest of its record.
LEMMA CallLists ==
  ASSUME NEW r \in Calls, NEW p \in Steps, NEW go \in SUBSET Entities, NEW sr \in SUBSET Entities,
         NEW ii \in [Entities -> Nat]
  PROVE  Lists(Listing(r, p, go, sr, ii), r, p, go, sr, ii)
<1> DEFINE q == Listing(r, p, go, sr, ii)
<1>1. /\ q.pc = p /\ q.gone = go /\ q.strip = sr /\ q.ids = ii /\ q.kept = r.kept
      /\ q.kind = r.kind /\ q.doc = r.doc /\ q.text = r.text /\ q.inc = r.inc /\ q.n = r.n
      /\ q.alone = r.alone /\ q.calm = r.calm
  BY DEF Calls, Listing
<1>2. q \in Calls
  BY DEF Calls, Listing
<1> HIDE DEF q
<1>3. Lists(q, r, p, go, sr, ii)
  BY <1>1, <1>2 DEF Lists
<1> QED BY <1>3 DEF q

\* The record of a call that goes on to another step.
OnTo(c, p) ==
  /\ op'[c] \in Calls /\ op'[c].pc = p
  /\ op'[c].kind = op[c].kind /\ op'[c].doc = op[c].doc /\ op'[c].text = op[c].text
  /\ op'[c].inc = op[c].inc /\ op'[c].n = op[c].n /\ op'[c].ids = op[c].ids
  /\ op'[c].gone = op[c].gone /\ op'[c].strip = op[c].strip /\ op'[c].kept = op[c].kept
  /\ op'[c].alone = op[c].alone /\ op'[c].calm = op[c].calm

\* A call that goes on keeps everything but its step, and leaves the others alone.
LEMMA GoMoves ==
  ASSUME Shape, NEW c \in Callers, Active(c), NEW p \in Steps, Go(c, p)
  PROVE  /\ OnTo(c, p)
         /\ op' \in [Callers -> {Idle, Absentee} \cup Calls]
         /\ \A x \in Callers \ {c} : op'[x] = op[x]
<1>1. op[c] \in Calls
  BY ActiveIsCall
<1>2. op' = [op EXCEPT ![c].pc = p]
  BY DEF Go
<1>3. op'[c] = [op[c] EXCEPT !.pc = p] /\ \A x \in Callers \ {c} : op'[x] = op[x]
  BY <1>2 DEF Shape
<1>4. [op[c] EXCEPT !.pc = p] \in Calls
  BY <1>1 DEF Calls
<1>5. op' \in [Callers -> {Idle, Absentee} \cup Calls]
  BY <1>2, <1>3, <1>4 DEF Shape
<1>6. OnTo(c, p)
  BY <1>1, <1>3, <1>4 DEF Calls, OnTo
<1> QED BY <1>3, <1>5, <1>6

\* A call that returns or raises is over.
LEMMA EndMoves ==
  ASSUME Shape, NEW c \in Callers, Active(c), Return(c) \/ Raise(c)
  PROVE  /\ op'[c] = Idle
         /\ op' \in [Callers -> {Idle, Absentee} \cup Calls]
         /\ \A x \in Callers \ {c} : op'[x] = op[x]
         /\ clean' = clean \/ (op[c].alone /\ Return(c) /\ clean' = clean \cup {op[c].doc})
         /\ scarred' = scarred \/ scarred' = scarred \cup {op[c].doc}
         /\ Forgets(c) /\ Raise(c) => op[c].doc \in scarred'
<1>1. Cut({c}) = IF op[c].kind = "forget" THEN {op[c].doc} ELSE {}
  BY DEF Cut, Forgets
<1> QED BY <1>1 DEF Shape, Return, Raise, Forgets

\* What a step of a call leaves alone.
Frame(c) ==
  LET d == op[c].doc IN
  /\ Active(c) /\ d \in Docs
  /\ \A x \in Callers \ {c} : op'[x] = op[x]
  /\ \A e \in Docs \ {d} : row'[e] = row[e] /\ khora'[e] = khora[e] /\ nodes'[e] = nodes[e]
  /\ row'[d].inc >= row[d].inc
  /\ \/ /\ op'[c] \in Calls /\ op'[c].doc = d /\ KindOf(op'[c])
        /\ op'[c].alone = op[c].alone /\ op'[c].calm = op[c].calm
        /\ op'[c].kind = "forget" <=> op[c].kind = "forget"
        /\ clean' = clean
        /\ \/ scarred' = scarred
           \/ scarred' = scarred \ {d} /\ op[c].calm /\ op[c].kind # "forget"
        /\ op[c].kind = "forget" => row'[d] = row[d] /\ op'[c].inc = op[c].inc
     \/ /\ op'[c] = Idle
        /\ clean' = clean \/ (op[c].alone /\ clean' = clean \cup {d})
        /\ scarred' = scarred \/ scarred' = scarred \cup {d}

\* A step that goes on within its kind, and touches no row but its own.
LEMMA GoFrame ==
  ASSUME CallInv, NEW c \in Callers, Active(c), NEW p \in Steps, Go(c, p),
         KindOf([op[c] EXCEPT !.pc = p]), UNCHANGED <<clean, scarred>>,
         \A e \in Docs \ {op[c].doc} : row'[e] = row[e] /\ khora'[e] = khora[e] /\ nodes'[e] = nodes[e],
         row'[op[c].doc].inc >= row[op[c].doc].inc, Forgets(c) => UNCHANGED row
  PROVE  Frame(c)
<1>1. op[c] \in Calls /\ Shape
  BY ActiveIsCall DEF CallInv
<1>2. /\ OnTo(c, p)
      /\ op' \in [Callers -> {Idle, Absentee} \cup Calls]
      /\ \A x \in Callers \ {c} : op'[x] = op[x]
  BY <1>1, GoMoves
<1>3. KindOf(op'[c])
  BY <1>1, <1>2 DEF OnTo, KindOf, Calls
<1>4. op[c].doc \in Docs /\ row[op[c].doc].inc \in Nat
  BY <1>1 DEF Calls, Shape
<1> QED BY <1>1, <1>2, <1>3, <1>4 DEF Frame, OnTo, Forgets

\* A step that ends the call.
LEMMA EndFrame ==
  ASSUME CallInv, NEW c \in Callers, Active(c), Return(c) \/ Raise(c),
         \A e \in Docs \ {op[c].doc} : row'[e] = row[e] /\ khora'[e] = khora[e] /\ nodes'[e] = nodes[e],
         row'[op[c].doc].inc >= row[op[c].doc].inc
  PROVE  Frame(c)
<1>1. op[c] \in Calls /\ Shape
  BY ActiveIsCall DEF CallInv
<1>2. op[c].doc \in Docs
  BY <1>1 DEF Calls
<1> QED BY <1>1, <1>2, EndMoves DEF Frame

\* update_document writes one row, or none.
LEMMA UpdateRow ==
  ASSUME CallInv, NEW c \in Callers, Active(c), op[c].text # None,
         NEW st \in {"completed", "failed"}, update_document(c, st)
  PROVE  /\ row' \in [Docs -> [st : Status, text : Texts \cup {None}, inc : Nat]]
         /\ \A e \in Docs \ {op[c].doc} : row'[e] = row[e]
         /\ row'[op[c].doc].inc = row[op[c].doc].inc
         /\ Current(c) => row'[op[c].doc].st = st /\ row'[op[c].doc].text = op[c].text
         /\ RowOK'
<1>1. op[c] \in Calls /\ Shape /\ RowOK
  BY ActiveIsCall DEF CallInv
<1> DEFINE d == op[c].doc
<1>2. d \in Docs /\ op[c].text \in Texts \cup {None}
  BY <1>1 DEF Calls
<1>3. CASE Current(c)
  <2>1. row' = [row EXCEPT ![d].st = st, ![d].text = op[c].text]
    BY <1>3 DEF update_document
  <2>2. row[d] \in [st : Status, text : Texts \cup {None}, inc : Nat]
    BY <1>1, <1>2 DEF Shape
  <2>3. /\ row'[d] = [row[d] EXCEPT !.st = st, !.text = op[c].text]
        /\ \A e \in Docs \ {d} : row'[e] = row[e]
    BY <1>1, <1>2, <2>1 DEF Shape
  <2>4. /\ row'[d] \in [st : Status, text : Texts \cup {None}, inc : Nat]
        /\ row'[d].st = st /\ row'[d].text = op[c].text /\ row'[d].inc = row[d].inc
    BY <1>2, <2>2, <2>3 DEF Status
  <2>5. row' \in [Docs -> [st : Status, text : Texts \cup {None}, inc : Nat]]
    BY <1>1, <1>2, <2>1, <2>2, <2>3, <2>4 DEF Shape
  <2>6. RowOK'
    <3>1. row'[d].st # "none" /\ row'[d].text # None
      BY <2>4
    <3> QED BY <1>1, <2>3, <3>1 DEF RowOK
  <2> QED BY <2>3, <2>4, <2>5, <2>6
<1>4. CASE ~Current(c)
  BY <1>1, <1>4 DEF update_document, Shape, RowOK
<1> QED BY <1>3, <1>4

\* MERGE, DETACH DELETE and the stripping of a source keep the shape of a store.
LEMMA UpsertShape ==
  ASSUME NEW store \in [Entities -> Stored], NEW es, NEW id \in Docs \X Nat, NEW n \in Nat,
         NEW new \in Upsert(store, es, id, n)
  PROVE  new \in [Entities -> Stored]
<1>1. PICK lost \in Evictions(store, es, id) : new = Merge(store, es, id, n, lost)
  BY DEF Upsert
<1>2. ASSUME NEW e \in Entities, e \in es
      PROVE  [there |-> TRUE, id |-> IF store[e].there THEN store[e].id ELSE n,
              src |-> (store[e].src \cup {id}) \ lost[e],
              out |-> (store[e].out \cup lost[e]) \ {id},
              retired |-> store[e].there /\ store[e].retired] \in Stored
  <2>1. lost[e] \in SUBSET (store[e].src \ {id})
    BY <1>1, <1>2 DEF Evictions, Excess
  <2> QED BY <2>1 DEF Stored
<1> QED BY <1>1, <1>2, Zenon DEF Merge

\* Deleting does.
LEMMA DeleteShape ==
  ASSUME NEW store \in [Entities -> Stored], NEW es, NEW ids
  PROVE  Delete(store, es, ids) \in [Entities -> Stored]
<1>1. \A e \in Entities : [Absent EXCEPT !.out = store[e].out] \in Stored
  BY DEF Absent, Stored
<1> QED BY <1>1, Zenon DEF Delete

\* And so does stripping.
LEMMA StripShape ==
  ASSUME NEW store \in [Entities -> Stored], NEW es, NEW ids, NEW id
  PROVE  Strip(store, es, ids, id) \in [Entities -> Stored]
<1>1. \A e \in Entities : [store[e] EXCEPT !.src = @ \ {id}] \in Stored
  BY DEF Stored
<1> QED BY <1>1, Zenon DEF Strip

\* A step keeps what a call leaves alone, the shape and the rows' agreement.
StepOK(c) == Frame(c) /\ Shape' /\ RowOK'

\* What the stores look like after a step of a call.
Kept(c) ==
  LET d == op[c].doc IN
  /\ row' \in [Docs -> [st : Status, text : Texts \cup {None}, inc : Nat]]
  /\ khora' \in [Docs -> [Texts -> Nat]] /\ nodes' \in [Docs -> SUBSET Texts]
  /\ vec' \in [Entities -> Stored] /\ graph' \in [Entities -> Stored]
  /\ UNCHANGED ops /\ RowOK'
  /\ \A e \in Docs \ {d} : row'[e] = row[e] /\ khora'[e] = khora[e] /\ nodes'[e] = nodes[e]
  /\ row'[d].inc >= row[d].inc

\* Where a call goes, or that it ends.
Goes(c) ==
  \/ \E p \in Steps :
       /\ Go(c, p) /\ UNCHANGED <<clean, scarred>>
       /\ p \in ForgetSteps <=> op[c].kind = "forget"
       /\ p \in {"insert", "complete"} => op[c].kind = "create"
       /\ p \in ReplaceSteps => op[c].kind = "replace"
       /\ Forgets(c) => UNCHANGED row
  \/ Return(c) \/ Raise(c)

\* A step that goes where it may, or ends, and keeps the stores in shape is sound.
LEMMA GoesOK ==
  ASSUME CallInv, NEW c \in Callers, Active(c), Goes(c), Kept(c)
  PROVE  StepOK(c)
<1>1. Shape /\ RowOK /\ op[c] \in Calls /\ KindOf(op[c])
  BY ActiveIsCall DEF CallInv, Kinds
<1>2. ASSUME NEW p \in Steps, Go(c, p), UNCHANGED <<clean, scarred>>,
             p \in ForgetSteps <=> op[c].kind = "forget",
             p \in {"insert", "complete"} => op[c].kind = "create",
             p \in ReplaceSteps => op[c].kind = "replace", Forgets(c) => UNCHANGED row
      PROVE  StepOK(c)
  <2>1. KindOf([op[c] EXCEPT !.pc = p])
    BY <1>1, <1>2 DEF KindOf, Calls
  <2>2. Frame(c)
    BY <1>2, <2>1, GoFrame DEF Kept
  <2>3. op' \in [Callers -> {Idle, Absentee} \cup Calls]
    BY <1>1, <1>2, GoMoves
  <2>4. Shape'
    BY <1>1, <1>2, <2>3 DEF Shape, Kept
  <2> QED BY <2>2, <2>4 DEF StepOK, Kept
<1>3. CASE Return(c) \/ Raise(c)
  <2>1. op[c].doc \in Docs
    BY <1>1 DEF Calls
  <2>2. Frame(c)
    BY <1>3, EndFrame DEF Kept
  <2>3. /\ op' \in [Callers -> {Idle, Absentee} \cup Calls]
        /\ clean' \subseteq Docs /\ scarred' \subseteq Docs
    BY <1>1, <1>3, <2>1, EndMoves DEF Shape
  <2>4. Shape'
    BY <1>1, <2>3 DEF Shape, Kept
  <2> QED BY <2>2, <2>4 DEF StepOK, Kept
<1> QED BY <1>2, <1>3 DEF Goes

\* The text of a remember.
LEMMA RemembersText ==
  ASSUME CallInv, NEW c \in Callers, Active(c), op[c].pc \notin ForgetSteps
  PROVE  op[c].text \in Texts /\ op[c].text # None /\ op[c].kind # "forget"
BY ActiveIsCall DEF CallInv, Kinds, KindOf, Calls

\* A step that changes the stores of entities at most.
LEMMA EntityStep ==
  ASSUME CallInv, NEW c \in Callers, Active(c), Goes(c), UNCHANGED <<row, khora, nodes, ops>>,
         vec' \in [Entities -> Stored], graph' \in [Entities -> Stored]
  PROVE  StepOK(c)
<1>1. Shape /\ RowOK /\ op[c] \in Calls
  BY ActiveIsCall DEF CallInv
<1>2. op[c].doc \in Docs /\ row[op[c].doc].inc \in Nat
  BY <1>1 DEF Calls, Shape
<1>3. RowOK'
  BY <1>1 DEF RowOK
<1>4. Kept(c)
  BY <1>1, <1>2, <1>3 DEF Shape, Kept
<1> QED BY <1>4, GoesOK

\* A step that changes the chunks of its document at most.
LEMMA ChunkStep ==
  ASSUME CallInv, NEW c \in Callers, Active(c), Goes(c), UNCHANGED <<row, vec, graph, ops>>,
         khora' = khora \/ \E f \in [Texts -> Nat] : khora' = [khora EXCEPT ![op[c].doc] = f],
         nodes' = nodes \/ \E f \in SUBSET Texts : nodes' = [nodes EXCEPT ![op[c].doc] = f]
  PROVE  StepOK(c)
<1>1. Shape /\ RowOK /\ op[c] \in Calls
  BY ActiveIsCall DEF CallInv
<1>2. op[c].doc \in Docs /\ row[op[c].doc].inc \in Nat
  BY <1>1 DEF Calls, Shape
<1>3. RowOK'
  BY <1>1 DEF RowOK
<1>4. khora' \in [Docs -> [Texts -> Nat]] /\ \A e \in Docs \ {op[c].doc} : khora'[e] = khora[e]
  <2>1. khora \in [Docs -> [Texts -> Nat]]
    BY <1>1 DEF Shape
  <2>2. CASE khora' = khora
    BY <2>1, <2>2
  <2>3. CASE \E f \in [Texts -> Nat] : khora' = [khora EXCEPT ![op[c].doc] = f]
    BY <1>2, <2>1, <2>3
  <2> QED BY <2>2, <2>3
<1>5. nodes' \in [Docs -> SUBSET Texts] /\ \A e \in Docs \ {op[c].doc} : nodes'[e] = nodes[e]
  BY <1>1, <1>2 DEF Shape
<1>6. Kept(c)
  BY <1>1, <1>2, <1>3, <1>4, <1>5 DEF Shape, Kept
<1> QED BY <1>6, GoesOK

\* A step that updates the row of its document at most.
LEMMA RowStep ==
  ASSUME CallInv, NEW c \in Callers, Active(c), Goes(c), op[c].text # None,
         UNCHANGED <<khora, nodes, vec, graph, ops>>,
         row' = row \/ \E st \in {"completed", "failed"} : update_document(c, st)
  PROVE  StepOK(c)
<1>1. Shape /\ RowOK /\ op[c] \in Calls
  BY ActiveIsCall DEF CallInv
<1>2. op[c].doc \in Docs /\ row[op[c].doc].inc \in Nat
  BY <1>1 DEF Calls, Shape
<1>3. CASE row' = row
  BY <1>3, EntityStep, <1>1 DEF Shape
<1>4. CASE \E st \in {"completed", "failed"} : update_document(c, st)
  <2>1. Kept(c)
    BY <1>1, <1>2, <1>4, UpdateRow DEF Shape, Kept
  <2> QED BY <2>1, GoesOK
<1> QED BY <1>3, <1>4

\* The steps of a remember, but for the insert
LEMMA RememberStepOK ==
  ASSUME CallInv, NEW c \in Callers, Remember(c), ~Insert(c) PROVE StepOK(c)
<1>0. Shape
  BY DEF CallInv
<1>s. \A i \in Steps : At(c, i) => Active(c) /\ op[c].pc = i
  BY DEF At
<1>g. ASSUME NEW p \in Steps \ (ForgetSteps \cup {"insert", "complete"}), Active(c),
             op[c].pc \notin ForgetSteps, Go(c, p), UNCHANGED <<clean, scarred>>,
             p \in ReplaceSteps => op[c].kind = "replace"
      PROVE  Goes(c)
  BY <1>g, RemembersText DEF Goes, Forgets, Steps
<1>k. ASSUME Active(c), op[c].pc \notin ForgetSteps
      PROVE  op[c].kind = "create" \/ op[c].kind = "replace"
  BY <1>k, RemembersText, ActiveIsCall, <1>0 DEF Calls
<1>r. ASSUME Active(c), op[c].pc \in ReplaceSteps PROVE op[c].kind = "replace"
  BY <1>r DEF CallInv, Kinds, KindOf
<1>d. ASSUME Active(c)
      PROVE  /\ op[c].doc \in Docs /\ khora[op[c].doc] \in [Texts -> Nat]
             /\ nodes[op[c].doc] \in SUBSET Texts
             /\ NoChunks \in [Texts -> Nat] /\ Id(c) \in Docs \X Nat /\ op[c].n \in Nat
  BY <1>d, ActiveIsCall, <1>0 DEF Calls, Shape, NoChunks, Id
<1>1. CASE WipeChunks(c)
  <2>1. Active(c) /\ op[c].pc = "wipe"
    BY <1>1 DEF WipeChunks, At
  <2>2. Goes(c)
    BY <1>1, <2>1, <1>g, <1>r DEF WipeChunks, History, Goes, ForgetSteps, ReplaceSteps, Steps
  <2> QED BY <1>1, <1>d, <2>1, <2>2, ChunkStep DEF WipeChunks
<1>2. CASE WipeNodes(c)
  <2>1. Active(c) /\ op[c].pc = "wipenodes"
    BY <1>2 DEF WipeNodes, At
  <2>2. Goes(c)
    BY <1>2, <2>1, <1>g, <1>r DEF WipeNodes, History, Goes, ForgetSteps, ReplaceSteps, Steps
  <2> QED BY <1>2, <1>d, <2>1, <2>2, ChunkStep DEF WipeNodes
<1>3. CASE WriteChunks(c)
  <2>1. Active(c) /\ op[c].pc = "write"
    BY <1>3 DEF WriteChunks, At
  <2>2. Goes(c)
    BY <1>3, <2>1, <1>g DEF WriteChunks, History, Goes, ForgetSteps, ReplaceSteps, Steps
  <2>3. op[c].text \in Texts
    BY <2>1, RemembersText DEF ForgetSteps
  <2>4. khora' = khora \/ \E f \in [Texts -> Nat] : khora' = [khora EXCEPT ![op[c].doc] = f]
    <3> DEFINE h == khora[op[c].doc]
               f == [h EXCEPT ![op[c].text] = IF @ < 2 THEN @ + 1 ELSE 2]
    <3>1. f \in [Texts -> Nat]
      BY <1>d, <2>1, <2>3
    <3>2. khora' = khora \/ khora' = [khora EXCEPT ![op[c].doc] = f]
      BY <1>3 DEF WriteChunks
    <3> QED BY <3>1, <3>2
  <2> QED BY <1>3, <2>1, <2>2, <2>4, ChunkStep DEF WriteChunks
<1>4. CASE MirrorChunks(c)
  <2>1. Active(c) /\ op[c].pc = "mirror"
    BY <1>4 DEF MirrorChunks, At
  <2>2. op[c].text \in Texts /\ op[c].kind \in {"create", "replace"}
    BY <2>1, <1>k, RemembersText DEF ForgetSteps
  <2>3. Goes(c)
    <3>1. CASE op[c].kind = "replace"
      BY <1>4, <2>1, <3>1, <1>g DEF MirrorChunks, History, ForgetSteps, ReplaceSteps, Steps
    <3>2. CASE op[c].kind = "create" /\ Extracted(c) # {}
      BY <1>4, <2>1, <3>2, <1>g DEF MirrorChunks, History, ForgetSteps, ReplaceSteps, Steps
    <3>3. CASE op[c].kind = "create" /\ Extracted(c) = {}
      BY <1>4, <2>1, <3>3 DEF MirrorChunks, History, ForgetSteps, ReplaceSteps, Steps, Goes, Forgets
    <3> QED BY <2>2, <3>1, <3>2, <3>3
  <2>4. nodes[op[c].doc] \cup {op[c].text} \in SUBSET Texts
    BY <1>d, <2>1, <2>2
  <2>5. nodes' = nodes \/ nodes' = [nodes EXCEPT ![op[c].doc] = nodes[op[c].doc] \cup {op[c].text}]
    BY <1>4 DEF MirrorChunks
  <2>6. UNCHANGED <<row, khora, vec, graph, ops>>
    BY <1>4 DEF MirrorChunks
  <2> QED BY <2>1, <2>3, <2>4, <2>5, <2>6, ChunkStep
<1>5. CASE MarkFailed(c)
  <2>1. Active(c) /\ op[c].pc = "mark"
    BY <1>5 DEF MarkFailed, At
  <2>2. Goes(c)
    BY <1>5 DEF MarkFailed, Goes
  <2> QED BY <1>5, <2>1, <2>2, RemembersText, RowStep DEF MarkFailed, ForgetSteps
<1>6. CASE Commit(c)
  <2>1. Active(c) /\ op[c].pc = "commit"
    BY <1>6 DEF Commit, At
  <2>2. Goes(c)
    BY <1>6, <2>1, <1>g, <1>r DEF Commit, History, Goes, ForgetSteps, ReplaceSteps, Steps
  <2> QED BY <1>6, <2>1, <2>2, RemembersText, RowStep DEF Commit, ForgetSteps
<1>7. CASE Complete(c)
  <2>1. Active(c) /\ op[c].pc = "complete"
    BY <1>7 DEF Complete, At
  <2>2. Goes(c)
    BY <1>7 DEF Complete, Goes
  <2> QED BY <1>7, <2>1, <2>2, RemembersText, RowStep DEF Complete, ForgetSteps
<1>8. CASE Retire(c)
  <2>1. Active(c) /\ op[c].pc = "retire"
    BY <1>8 DEF Retire, At
  <2>2. Goes(c)
    BY <1>8, <2>1, <1>g, <1>r DEF Retire, Degrade, History, Goes, ForgetSteps, ReplaceSteps, Steps
  <2>3. graph' \in [Entities -> Stored]
    <3>1. \A e \in Entities : [graph[e] EXCEPT !.retired = TRUE] \in Stored
      BY <1>0 DEF Shape, Stored
    <3> QED BY <1>0, <1>8, <3>1 DEF Retire, Shape
  <2> QED BY <1>0, <1>8, <2>1, <2>2, <2>3, EntityStep DEF Retire, Shape
<1>9. CASE Remap(c)
  <2>1. Active(c) /\ op[c].pc = "remap"
    BY <1>9 DEF Remap, At
  <2>2. Goes(c)
    BY <1>9, <2>1, <1>g, <1>r DEF Remap, Degrade, History, Goes, ForgetSteps, ReplaceSteps, Steps
  <2> QED BY <1>0, <1>9, <2>1, <2>2, EntityStep DEF Remap, Shape
<1>10. CASE StripDropped(c)
  <2>1. Active(c) /\ op[c].pc = "strip"
    BY <1>10 DEF StripDropped, At
  <2>2. Goes(c)
    BY <1>10, <2>1, <1>g DEF StripDropped, Degrade, History, Goes, ForgetSteps, ReplaceSteps, Steps
  <2>3. graph' \in [Entities -> Stored]
    <3>1. Strip(graph, op[c].strip, op[c].ids, Id(c)) \in [Entities -> Stored]
      BY <1>0, <1>d, <2>1, StripShape DEF Shape
    <3> QED BY <1>0, <1>10, <3>1 DEF StripDropped, Shape
  <2> QED BY <1>0, <1>10, <2>1, <2>2, <2>3, EntityStep DEF StripDropped, Shape
<1>11. CASE UpsertVector(c)
  <2>1. Active(c) /\ op[c].pc = "vector"
    BY <1>11 DEF UpsertVector, At
  <2>2. Goes(c)
    BY <1>11, <2>1, <1>g DEF UpsertVector, Degrade, History, Goes, ForgetSteps, ReplaceSteps, Steps
  <2>3. vec' \in [Entities -> Stored]
    <3>1. ASSUME vec' \in Upsert(vec, NetNew(c), Id(c), op[c].n) PROVE vec' \in [Entities -> Stored]
      BY <1>0, <1>d, <2>1, <3>1, UpsertShape DEF Shape
    <3> QED BY <1>0, <1>11, <3>1 DEF UpsertVector, Shape
  <2> QED BY <1>0, <1>11, <2>1, <2>2, <2>3, EntityStep DEF UpsertVector, Shape
<1>12. CASE UpsertGraph(c)
  <2>1. Active(c) /\ op[c].pc = "graph"
    BY <1>12 DEF UpsertGraph, At
  <2>2. Goes(c)
    BY <1>12, <2>1, <1>g DEF UpsertGraph, Degrade, History, Goes, ForgetSteps, ReplaceSteps, Steps
  <2>3. graph' \in [Entities -> Stored]
    <3>1. ASSUME graph' \in Upsert(graph, NetNew(c), Id(c), op[c].n) PROVE graph' \in [Entities -> Stored]
      BY <1>0, <1>d, <2>1, <3>1, UpsertShape DEF Shape
    <3> QED BY <1>0, <1>12, <3>1 DEF UpsertGraph, Shape
  <2> QED BY <1>0, <1>12, <2>1, <2>2, <2>3, EntityStep DEF UpsertGraph, Shape
<1>13. CASE Link(c)
  <2>1. Active(c) /\ op[c].pc = "link"
    BY <1>13 DEF Link, At
  <2>2. Goes(c)
    <3>1. CASE op[c].kind = "create" /\ Go(c, "complete") /\ UNCHANGED History
      BY <3>1 DEF Goes, History, Forgets, Steps, ForgetSteps, ReplaceSteps
    <3>2. CASE op[c].kind = "replace" /\ Go(c, "mark") /\ UNCHANGED History
      BY <2>1, <3>2, <1>g DEF History, Steps, ForgetSteps, ReplaceSteps
    <3>3. CASE Return(c) \/ Raise(c)
      BY <3>3 DEF Goes
    <3> QED BY <1>13, <3>1, <3>2, <3>3 DEF Link, History
  <2> QED BY <1>0, <1>13, <2>1, <2>2, EntityStep DEF Link, Shape
<1>14. CASE Prefetch(c)
  <2>1. Active(c) /\ op[c].pc = "prefetch"
    BY <1>14 DEF Prefetch, At
  <2>2. UNCHANGED <<row, khora, nodes, vec, graph, ops>>
    BY <1>14 DEF Prefetch
  <2>3. CASE Raise(c)
    BY <1>0, <2>1, <2>2, <2>3, EntityStep DEF Goes, Shape
  <2>4. CASE ~Raise(c)
    <3>1. PICK ke \in SUBSET Entities, go \in SUBSET Entities, sr \in SUBSET Entities,
               ii \in [Entities -> Nat] :
            op' = [op EXCEPT ![c].pc = "commit", ![c].kept = ke, ![c].gone = go,
                             ![c].strip = sr, ![c].ids = ii]
      <4>1. [e \in Entities |-> graph[e].id] \in [Entities -> Nat]
        BY <1>0 DEF Shape, Stored
      <4>2. fetch_document_extraction_state(c) \in SUBSET Entities
        BY DEF fetch_document_extraction_state, Sourced
      <4> QED BY <1>14, <2>4, <4>1, <4>2 DEF Prefetch, Sole
    <3>2. op[c] \in Calls /\ KindOf(op[c])
      BY <2>1, <1>0, ActiveIsCall DEF CallInv, Kinds
    <3>3. /\ op'[c] = [op[c] EXCEPT !.pc = "commit", !.kept = ke, !.gone = go,
                                    !.strip = sr, !.ids = ii]
          /\ \A x \in Callers \ {c} : op'[x] = op[x]
      BY <1>0, <3>1 DEF Shape
    <3>4. /\ op'[c] \in Calls /\ op'[c].doc = op[c].doc /\ op'[c].kind = op[c].kind
          /\ op'[c].alone = op[c].alone /\ op'[c].calm = op[c].calm /\ op'[c].inc = op[c].inc
          /\ op'[c].pc = "commit" /\ op'[c].text = op[c].text
      <4> DEFINE r == [op[c] EXCEPT !.kept = ke]
      <4>1. /\ r \in Calls /\ r.doc = op[c].doc /\ r.kind = op[c].kind /\ r.alone = op[c].alone
            /\ r.calm = op[c].calm /\ r.inc = op[c].inc /\ r.text = op[c].text
        BY <3>1, <3>2 DEF Calls
      <4>2. op'[c] = Listing(r, "commit", go, sr, ii)
        BY <3>2, <3>3 DEF Calls, Listing
      <4>3. "commit" \in Steps
        BY DEF Steps
      <4> HIDE DEF r
      <4>4. Lists(op'[c], r, "commit", go, sr, ii)
        BY <3>1, <4>1, <4>2, <4>3, CallLists
      <4> QED BY <4>1, <4>4 DEF Lists
    <3>5. KindOf(op'[c])
      BY <1>r, <2>1, <3>2, <3>4 DEF KindOf, ForgetSteps, ReplaceSteps
    <3>6. op' \in [Callers -> {Idle, Absentee} \cup Calls]
      BY <1>0, <3>1, <3>3, <3>4 DEF Shape
    <3>7. UNCHANGED History
      BY <1>14, <2>4 DEF Prefetch
    <3>8. row[op[c].doc].inc \in Nat
      BY <1>0, <1>d, <2>1 DEF Shape
    <3>9. Frame(c)
      BY <1>d, <2>1, <2>2, <3>3, <3>4, <3>5, <3>7, <3>8 DEF Frame, History
    <3>10. Shape' /\ RowOK'
      BY <1>0, <2>2, <3>6, <3>7 DEF Shape, History, CallInv, RowOK
    <3> QED BY <3>9, <3>10 DEF StepOK
  <2> QED BY <2>3, <2>4
<1> QED BY <1>1, <1>2, <1>3, <1>4, <1>5, <1>6, <1>7, <1>8, <1>9, <1>10, <1>11, <1>12, <1>13, <1>14
    DEF Remember

\* The insert
LEMMA InsertStepOK ==
  ASSUME CallInv, NEW c \in Callers, Insert(c) PROVE StepOK(c)
<1>0. Shape /\ RowOK
  BY DEF CallInv
<1>1. Active(c) /\ op[c].pc = "insert"
  BY DEF Insert, At
<1>2. op[c] \in Calls /\ KindOf(op[c])
  BY <1>0, <1>1, ActiveIsCall DEF CallInv, Kinds
<1>3. op[c].kind = "create" /\ op[c].text \in Texts /\ op[c].text # None /\ op[c].kept = {}
  BY <1>1, <1>2, RemembersText DEF KindOf, ForgetSteps
<1> DEFINE d == op[c].doc
<1>4. d \in Docs /\ row[d] \in [st : Status, text : Texts \cup {None}, inc : Nat]
  BY <1>0, <1>2 DEF Calls, Shape
<1>5. CASE Return(c) \/ Raise(c)
  <2>2. op' = [op EXCEPT ![c] = Idle]
    BY <1>5 DEF Return, Raise
  <2>3. op'[c] = Idle
    BY <1>0, <2>2 DEF Shape
  <2>4. UNCHANGED <<row, khora, nodes, vec, graph, ops>>
    <3>1. ASSUME NEW p, NEW i, op' = [op EXCEPT ![c].pc = p, ![c].inc = i] PROVE op'[c] # Idle
      <4>1. op'[c] = [op[c] EXCEPT !.pc = p, !.inc = i]
        BY <1>0, <3>1 DEF Shape
      <4>2. op'[c].kind = "create" /\ DOMAIN op'[c] = DOMAIN op[c]
        BY <1>2, <1>3, <4>1 DEF Calls
      <4>3. "doc" \in DOMAIN op[c] /\ "doc" \notin DOMAIN Idle
        BY <1>2 DEF Calls, Idle
      <4> QED BY <4>2, <4>3
    <3>2. ASSUME NEW p, NEW i, NEW k, op' = [op EXCEPT ![c].pc = p, ![c].inc = i, ![c].kind = k]
          PROVE  op'[c] # Idle
      <4>1. op'[c] = [op[c] EXCEPT !.pc = p, !.inc = i, !.kind = k]
        BY <1>0, <3>2 DEF Shape
      <4>2. DOMAIN op'[c] = DOMAIN op[c]
        BY <1>2, <1>3, <4>1 DEF Calls
      <4>3. "doc" \in DOMAIN op[c] /\ "doc" \notin DOMAIN Idle
        BY <1>2 DEF Calls, Idle
      <4> QED BY <4>2, <4>3
    <3> QED BY <2>3, <3>1, <3>2 DEF Insert
  <2> QED BY <1>0, <1>1, <1>5, <2>4, EntityStep DEF Goes, Shape
<1>6. CASE /\ row[d].st = "none"
           /\ row' = [row EXCEPT ![d] = [st |-> "pending", text |-> op[c].text,
                                         inc |-> row[d].inc + 1]]
           /\ khora' = [khora EXCEPT ![d] = NoChunks]
           /\ nodes' = [nodes EXCEPT ![d] = {}]
           /\ scarred' = IF op[c].calm THEN scarred \ {d} ELSE scarred
           /\ op' = [op EXCEPT ![c].pc = "write", ![c].inc = row[d].inc + 1]
           /\ UNCHANGED <<clean, left>>
  <2>1. /\ op'[c] = [op[c] EXCEPT !.pc = "write", !.inc = row[d].inc + 1]
        /\ \A x \in Callers \ {c} : op'[x] = op[x]
    BY <1>0, <1>6 DEF Shape
  <2>2. /\ op'[c] \in Calls /\ op'[c].doc = d /\ op'[c].kind = op[c].kind
        /\ op'[c].alone = op[c].alone /\ op'[c].calm = op[c].calm
        /\ op'[c].pc = "write" /\ op'[c].text = op[c].text /\ op'[c].kept = op[c].kept
    <3>1. row[d].inc + 1 \in Nat /\ "write" \in Steps
      BY <1>4 DEF Steps
    <3> QED BY <1>2, <2>1, <3>1 DEF Calls
  <2>3. KindOf(op'[c])
    BY <1>3, <2>2 DEF KindOf, ForgetSteps, ReplaceSteps
  <2>4. op' \in [Callers -> {Idle, Absentee} \cup Calls]
    BY <1>0, <1>6, <2>1, <2>2 DEF Shape
  <2>5. /\ row' \in [Docs -> [st : Status, text : Texts \cup {None}, inc : Nat]]
        /\ \A e \in Docs \ {d} : row'[e] = row[e]
        /\ row'[d] = [st |-> "pending", text |-> op[c].text, inc |-> row[d].inc + 1]
    BY <1>0, <1>3, <1>4, <1>6 DEF Shape, Status
  <2>6. RowOK'
    BY <1>0, <1>3, <2>5 DEF RowOK
  <2>7. /\ khora' \in [Docs -> [Texts -> Nat]] /\ nodes' \in [Docs -> SUBSET Texts]
        /\ \A e \in Docs \ {d} : khora'[e] = khora[e] /\ nodes'[e] = nodes[e]
    BY <1>0, <1>4, <1>6 DEF Shape, NoChunks
  <2>8. UNCHANGED <<vec, graph, ops>>
    BY DEF Insert
  <2>9. Shape'
    BY <1>0, <1>6, <2>4, <2>5, <2>7, <2>8 DEF Shape
  <2>10. row'[d].inc >= row[d].inc
    BY <1>4, <2>5
  <2>11. scarred' = scarred \/ (scarred' = scarred \ {d} /\ op[c].calm)
    BY <1>6
  <2>12. Frame(c)
    BY <1>1, <1>3, <1>4, <1>6, <2>1, <2>2, <2>3, <2>5, <2>7, <2>10, <2>11 DEF Frame
  <2> QED BY <2>6, <2>9, <2>12 DEF StepOK
<1>7. CASE /\ op' = [op EXCEPT ![c].pc = "wipe", ![c].inc = row[d].inc, ![c].kind = "replace"]
           /\ UNCHANGED <<row, khora, nodes, History, left>>
  <2>1. /\ op'[c] = [op[c] EXCEPT !.pc = "wipe", !.inc = row[d].inc, !.kind = "replace"]
        /\ \A x \in Callers \ {c} : op'[x] = op[x]
    BY <1>0, <1>7 DEF Shape
  <2>2. /\ op'[c] \in Calls /\ op'[c].doc = d /\ op'[c].kind = "replace"
        /\ op'[c].alone = op[c].alone /\ op'[c].calm = op[c].calm
        /\ op'[c].pc = "wipe" /\ op'[c].text = op[c].text
    BY <1>2, <1>4, <2>1 DEF Calls, Steps
  <2>3. KindOf(op'[c])
    BY <1>3, <2>2 DEF KindOf, ForgetSteps, ReplaceSteps
  <2>4. op' \in [Callers -> {Idle, Absentee} \cup Calls]
    BY <1>0, <1>7, <2>1, <2>2 DEF Shape
  <2>5. UNCHANGED <<vec, graph, ops>>
    BY DEF Insert
  <2>6. Shape' /\ RowOK'
    BY <1>0, <1>7, <2>4, <2>5 DEF Shape, RowOK, History
  <2>7. Frame(c)
    <3>1. row[d].inc \in Nat /\ row'[d].inc >= row[d].inc
      BY <1>4, <1>7
    <3>2. UNCHANGED <<row, khora, nodes, clean, scarred>>
      BY <1>7 DEF History
    <3>3. op[c].kind # "forget" /\ op'[c].kind # "forget"
      BY <1>3, <2>2
    <3> QED BY <1>1, <1>4, <2>1, <2>2, <2>3, <3>1, <3>2, <3>3 DEF Frame
  <2> QED BY <2>6, <2>7 DEF StepOK
<1> QED BY <1>5, <1>6, <1>7 DEF Insert

\* The steps of a forget
LEMMA ForgetStepOK ==
  ASSUME CallInv, NEW c \in Callers, Forget(c) PROVE StepOK(c)
<1>0. Shape /\ RowOK
  BY DEF CallInv
<1>d. ASSUME Active(c)
      PROVE  /\ op[c] \in Calls /\ op[c].doc \in Docs
             /\ row[op[c].doc] \in [st : Status, text : Texts \cup {None}, inc : Nat]
             /\ NoChunks \in [Texts -> Nat]
  BY <1>d, ActiveIsCall, <1>0 DEF Calls, Shape, NoChunks
<1>f. ASSUME Active(c), op[c].pc \in ForgetSteps PROVE op[c].kind = "forget"
  BY <1>f DEF CallInv, Kinds, KindOf
<1>g. ASSUME NEW p \in ForgetSteps, Active(c), op[c].pc \in ForgetSteps, Go(c, p),
             UNCHANGED <<clean, scarred, row>>
      PROVE  Goes(c)
  BY <1>g, <1>f DEF Goes, Steps, ForgetSteps, ReplaceSteps
<1>1. CASE DeleteVector(c)
  <2>1. Active(c) /\ op[c].pc = "delvec"
    BY <1>1 DEF DeleteVector, At
  <2>2. Goes(c)
    BY <1>1, <2>1, <1>g DEF DeleteVector, History, Goes, ForgetSteps
  <2>3. Delete(vec, op[c].gone, op[c].ids) \in [Entities -> Stored]
    BY <1>0, DeleteShape DEF Shape
  <2> QED BY <1>0, <1>1, <2>1, <2>2, <2>3, EntityStep DEF DeleteVector, Shape
<1>2. CASE DeleteGraph(c)
  <2>1. Active(c) /\ op[c].pc = "delgraph"
    BY <1>2 DEF DeleteGraph, At
  <2>2. Goes(c)
    BY <1>2, <2>1, <1>g DEF DeleteGraph, History, Goes, ForgetSteps
  <2>3. Delete(graph, op[c].gone, op[c].ids) \in [Entities -> Stored]
    BY <1>0, DeleteShape DEF Shape
  <2> QED BY <1>0, <1>2, <2>1, <2>2, <2>3, EntityStep DEF DeleteGraph, Shape
<1>3. CASE StripVector(c)
  <2>1. Active(c) /\ op[c].pc = "stripvec"
    BY <1>3 DEF StripVector, At
  <2>2. Goes(c)
    BY <1>3, <2>1, <1>g DEF StripVector, History, Goes, ForgetSteps
  <2>3. Strip(vec, op[c].strip, op[c].ids, Id(c)) \in [Entities -> Stored]
    BY <1>0, StripShape DEF Shape
  <2> QED BY <1>0, <1>3, <2>1, <2>2, <2>3, EntityStep DEF StripVector, Shape
<1>4. CASE StripGraph(c)
  <2>1. Active(c) /\ op[c].pc = "stripgraph"
    BY <1>4 DEF StripGraph, At
  <2>2. Goes(c)
    BY <1>4, <2>1, <1>g DEF StripGraph, History, Goes, ForgetSteps
  <2>3. Strip(graph, op[c].strip, op[c].ids, Id(c)) \in [Entities -> Stored]
    BY <1>0, StripShape DEF Shape
  <2> QED BY <1>0, <1>4, <2>1, <2>2, <2>3, EntityStep DEF StripGraph, Shape
<1>5. CASE DeleteNodes(c)
  <2>1. Active(c) /\ op[c].pc = "delnodes"
    BY <1>5 DEF DeleteNodes, At
  <2>2. Goes(c)
    BY <1>5, <2>1, <1>g DEF DeleteNodes, History, Goes, ForgetSteps
  <2> QED BY <1>5, <2>1, <2>2, ChunkStep DEF DeleteNodes
<1>6. CASE DeleteChunks(c)
  <2>1. Active(c) /\ op[c].pc = "delchunks"
    BY <1>6 DEF DeleteChunks, At
  <2>2. Goes(c)
    BY <1>6, <2>1, <1>g DEF DeleteChunks, History, Goes, ForgetSteps
  <2> QED BY <1>6, <1>d, <2>1, <2>2, ChunkStep DEF DeleteChunks
<1>7. CASE delete_document(c)
  <2>1. Active(c)
    BY <1>7 DEF delete_document, At
  <2>2. Goes(c)
    BY <1>7 DEF delete_document, Goes
  <2> DEFINE d == op[c].doc
  <2>3. CASE row' = row
    BY <1>0, <1>7, <2>1, <2>2, <2>3, EntityStep DEF delete_document, Shape
  <2>4. CASE row' = [row EXCEPT ![d].st = "none", ![d].text = None]
    <3>1. /\ row'[d] = [row[d] EXCEPT !.st = "none", !.text = None]
          /\ \A e \in Docs \ {d} : row'[e] = row[e]
      BY <1>0, <1>d, <2>1, <2>4 DEF Shape
    <3>2. /\ row'[d] \in [st : Status, text : Texts \cup {None}, inc : Nat]
          /\ row'[d].st = "none" /\ row'[d].text = None /\ row'[d].inc = row[d].inc
      BY <1>d, <2>1, <3>1 DEF Status
    <3>3. row' \in [Docs -> [st : Status, text : Texts \cup {None}, inc : Nat]]
      BY <1>0, <1>d, <2>1, <2>4, <3>1, <3>2 DEF Shape
    <3>4. RowOK'
      BY <1>0, <3>1, <3>2 DEF RowOK
    <3>5. row'[d].inc >= row[d].inc
      BY <1>d, <2>1, <3>2
    <3>6. Kept(c)
      BY <1>0, <1>7, <3>1, <3>3, <3>4, <3>5 DEF Kept, Shape, delete_document
    <3> QED BY <2>1, <2>2, <3>6, GoesOK
  <2> QED BY <1>7, <2>3, <2>4 DEF delete_document
<1>8. CASE List(c)
  <2>1. Active(c) /\ op[c].pc = "list"
    BY <1>8 DEF List, At
  <2>2. UNCHANGED <<row, khora, nodes, vec, graph, ops>>
    BY <1>8 DEF List
  <2>3. CASE Raise(c)
    BY <1>0, <2>1, <2>2, <2>3, EntityStep DEF Goes, Shape
  <2>4. CASE ~Raise(c)
    <3>1. PICK go \in SUBSET Entities, sr \in SUBSET Entities, ii \in [Entities -> Nat] :
            op' = [op EXCEPT ![c].pc = "delvec", ![c].gone = go, ![c].strip = sr, ![c].ids = ii]
      <4>1. [e \in Entities |-> vec[e].id] \in [Entities -> Nat]
        BY <1>0 DEF Shape, Stored
      <4>2. Sourced(vec, Id(c)) \in SUBSET Entities
        BY DEF Sourced
      <4> QED BY <1>8, <2>4, <4>1, <4>2 DEF List, Sole
    <3>2. op[c] \in Calls /\ KindOf(op[c]) /\ op[c].kind = "forget"
      BY <1>d, <1>f, <2>1 DEF CallInv, Kinds, ForgetSteps
    <3>3. /\ op'[c] = [op[c] EXCEPT !.pc = "delvec", !.gone = go, !.strip = sr, !.ids = ii]
          /\ \A x \in Callers \ {c} : op'[x] = op[x]
      BY <1>0, <3>1 DEF Shape
    <3>4. /\ op'[c] \in Calls /\ op'[c].doc = op[c].doc /\ op'[c].kind = op[c].kind
          /\ op'[c].alone = op[c].alone /\ op'[c].calm = op[c].calm /\ op'[c].inc = op[c].inc
          /\ op'[c].pc = "delvec" /\ op'[c].text = op[c].text
      <4>1. "delvec" \in Steps
        BY DEF Steps
      <4>2. op'[c] = Listing(op[c], "delvec", go, sr, ii)
        BY <3>3 DEF Listing
      <4>3. Lists(op'[c], op[c], "delvec", go, sr, ii)
        BY <3>1, <3>2, <4>1, <4>2, CallLists
      <4> QED BY <4>3 DEF Lists
    <3>5. KindOf(op'[c])
      BY <2>1, <3>2, <3>4 DEF KindOf, ForgetSteps, ReplaceSteps
    <3>6. op' \in [Callers -> {Idle, Absentee} \cup Calls]
      BY <1>0, <3>1, <3>3, <3>4 DEF Shape
    <3>7. UNCHANGED History
      BY <1>8, <2>4 DEF List
    <3>8. row[op[c].doc].inc \in Nat
      BY <1>d, <2>1
    <3>9. Frame(c)
      BY <1>d, <2>1, <2>2, <3>3, <3>4, <3>5, <3>7, <3>8 DEF Frame, History
    <3>10. Shape' /\ RowOK'
      BY <1>0, <2>2, <3>6, <3>7 DEF Shape, History, RowOK
    <3> QED BY <3>9, <3>10 DEF StepOK
  <2> QED BY <2>3, <2>4
<1> QED BY <1>1, <1>2, <1>3, <1>4, <1>5, <1>6, <1>7, <1>8 DEF Forget

\* A step of a call keeps the invariant on calls.
LEMMA StepCallInv ==
  ASSUME CallInv, NEW c \in Callers, Remember(c) \/ Forget(c)
  PROVE  Frame(c) /\ CallInv'
<1>1. StepOK(c)
  BY RememberStepOK, InsertStepOK, ForgetStepOK
<1>2. Shape /\ Shape' /\ RowOK' /\ Frame(c)
  BY <1>1 DEF StepOK, CallInv
<1> SUFFICES ASSUME NEW d, d = op[c].doc PROVE Kinds' /\ Company' /\ RowStays'
  BY <1>2 DEF CallInv
<1>3. ASSUME NEW x \in Callers, x # c
      PROVE  op'[x] = op[x] /\ (Active(x)' <=> Active(x)) /\ (Forgets(x)' <=> Forgets(x))
  BY <1>2, <1>3 DEF Frame, Active, Forgets
<1>4. Active(c) /\ d \in Docs
  BY <1>2 DEF Frame
<1>5. ~Active(c)' \/ /\ op'[c] \in Calls /\ op'[c].doc = d /\ KindOf(op'[c])
                     /\ op'[c].alone = op[c].alone /\ op'[c].calm = op[c].calm
                     /\ op'[c].kind = "forget" <=> op[c].kind = "forget"
                     /\ clean' = clean
                     /\ \/ scarred' = scarred
                        \/ scarred' = scarred \ {d} /\ op[c].calm /\ op[c].kind # "forget"
                     /\ op[c].kind = "forget" => row'[d] = row[d] /\ op'[c].inc = op[c].inc
  BY <1>2 DEF Frame, Active, Idle, Steps
<1>6. /\ clean' = clean \/ (op[c].alone /\ clean' = clean \cup {d} /\ ~Active(c)')
      /\ \/ scarred \subseteq scarred'
         \/ scarred' = scarred \ {d} /\ op[c].calm /\ op[c].kind # "forget"
  BY <1>2 DEF Frame, Active, Idle, Steps
<1>7. Kinds'
  BY <1>3, <1>5 DEF Kinds, CallInv
<1>8. \A x \in Callers \ {c} : Active(x) =>
        /\ op[x].doc = d => ~op[c].alone /\ ~op[x].alone
        /\ op[x].kind = "forget" /\ op[c].kind # "forget" => ~op[c].calm /\ d \in scarred
        /\ op[x].doc = d /\ op[x].kind = "forget" => d \in scarred
        /\ op[c].kind = "forget" /\ op[x].kind # "forget" => ~op[x].calm /\ op[x].doc \in scarred
        /\ op[x].doc = d /\ op[c].kind = "forget" => d \in scarred
        /\ op[x].doc \notin clean
  BY <1>4 DEF CallInv, Company
<1>9. ASSUME NEW y \in Callers, NEW x \in Callers, x # y, Active(x)', Active(y)'
      PROVE  /\ op'[y].doc \notin clean'
             /\ op'[x].doc = op'[y].doc => ~op'[y].alone
             /\ op'[x].kind = "forget" /\ op'[y].kind # "forget" =>
                  ~op'[y].calm /\ op'[y].doc \in scarred'
             /\ op'[x].doc = op'[y].doc /\ op'[x].kind = "forget" => op'[y].doc \in scarred'
  <2>1. CASE y = c
    BY <1>3, <1>4, <1>5, <1>8, <1>9, <2>1 DEF CallInv, Company
  <2>2. CASE x = c
    BY <1>3, <1>4, <1>5, <1>8, <1>9, <2>2
  <2>3. CASE x # c /\ y # c
    <3>1. /\ op[y].doc \notin clean
          /\ op[x].doc = op[y].doc => ~op[y].alone
          /\ op[x].kind = "forget" /\ op[y].kind # "forget" => ~op[y].calm /\ op[y].doc \in scarred
          /\ op[x].doc = op[y].doc /\ op[x].kind = "forget" => op[y].doc \in scarred
      BY <1>3, <1>9, <2>3 DEF CallInv, Company
    <3>2. op[y].doc \notin clean'
      BY <1>3, <1>6, <1>8, <1>9, <2>3, <3>1
    <3>3. op[x].kind = "forget" /\ op[y].doc \in scarred => op[y].doc \in scarred'
      BY <1>3, <1>6, <1>8, <1>9, <2>3
    <3> QED BY <1>3, <2>3, <3>1, <3>2, <3>3
  <2> QED BY <2>1, <2>2, <2>3
<1>10. ASSUME NEW y \in Callers, Active(y)' PROVE op'[y].doc \notin clean'
  <2>1. CASE y = c
    BY <1>4, <1>5, <1>10, <2>1 DEF CallInv, Company
  <2>2. CASE y # c
    BY <1>3, <1>6, <1>8, <1>10, <2>2
  <2> QED BY <2>1, <2>2
<1>11. Company'
  BY <1>9, <1>10 DEF Company
<1>12. RowStays'
  <2> SUFFICES ASSUME NEW f \in Callers, Forgets(f)', op'[f].doc \notin scarred' PROVE Current(f)'
    BY DEF RowStays
  <2>1. CASE f = c
    <3>1. /\ op[c].kind = "forget" /\ d \notin scarred /\ op'[c].doc = d
          /\ row'[d] = row[d] /\ op'[c].inc = op[c].inc
      BY <1>5, <2>1 DEF Forgets
    <3>2. Current(c)
      BY <1>4, <3>1 DEF CallInv, RowStays, Forgets
    <3> QED BY <2>1, <3>1, <3>2 DEF Current
  <2>2. CASE f # c
    <3>1. Forgets(f) /\ op'[f] = op[f]
      BY <1>3, <2>2
    <3>2. op[f].doc # d /\ op[f].doc \notin scarred
      BY <1>6, <1>8, <2>2, <3>1 DEF Forgets
    <3>3. Current(f) /\ op[f].doc \in Docs
      BY <1>2, <3>1, <3>2, ActiveIsCall DEF CallInv, RowStays, Forgets, Calls
    <3>4. row'[op[f].doc] = row[op[f].doc]
      BY <1>2, <3>2, <3>3 DEF Frame
    <3> QED BY <3>1, <3>3, <3>4 DEF Current
  <2> QED BY <2>1, <2>2
<1> QED BY <1>7, <1>11, <1>12

\* What the beginning of a call changes, and what it begins with.
Begins(c, d, t, kind) ==
  /\ \A x \in Callers \ {c} :
       /\ ~Active(x) => op'[x] = op[x]
       /\ Active(x) =>
            /\ op'[x] \in Calls
            /\ op'[x].pc = op[x].pc /\ op'[x].kind = op[x].kind /\ op'[x].doc = op[x].doc
            /\ op'[x].text = op[x].text /\ op'[x].inc = op[x].inc /\ op'[x].n = op[x].n
            /\ op'[x].gone = op[x].gone /\ op'[x].strip = op[x].strip
            /\ op'[x].kept = op[x].kept /\ op'[x].ids = op[x].ids
            /\ op'[x].alone => op[x].alone /\ op[x].doc # d
            /\ op'[x].calm => op[x].calm /\ kind # "forget"
  /\ op'[c] \in Calls /\ KindOf(op'[c])
  /\ op'[c].pc \in {"list", "insert", "wipe"} /\ op'[c].kind = kind /\ op'[c].doc = d
  /\ op'[c].text = t /\ op'[c].inc = row[d].inc /\ op'[c].kept = {}
  /\ kind = "create" => row[d].st = "none"
  /\ kind # "create" => row[d].st # "none"
  /\ op'[c].alone => \A x \in Callers \ {c} : Active(x) => op[x].doc # d
  /\ op'[c].calm => \A x \in Callers \ {c} : ~Forgets(x)
  /\ ~Active(c) /\ kind \in {"forget", "create", "replace"}
  /\ clean' = clean \ {d} /\ scarred \subseteq scarred'
  /\ kind = "forget" => \A x \in Callers \ {c} : Active(x) => op[x].doc \in scarred'
  /\ kind # "forget" /\ (\E x \in Callers \ {c} : Forgets(x)) => d \in scarred'
  /\ UNCHANGED <<row, khora, nodes, vec, graph>>

\* A Begin is the beginning of a call of one of the three kinds.
LEMMA BeginBegins ==
  ASSUME Shape, NEW c \in Callers, NEW d \in Docs, NEW t \in Texts \cup {None}, Begin(c, d, t)
  PROVE  /\ \E kind : Begins(c, d, t, kind)
         /\ Shape'
<1> DEFINE others == {x \in Callers \ {c} : Active(x)}
           same == {x \in others : op[x].doc = d}
           kind == IF t = None THEN "forget"
                   ELSE IF row[d].st = "none" THEN "create" ELSE "replace"
           calm == \A x \in others : op[x].kind # "forget"
           me == [pc |-> CASE kind = "forget" -> "list"
                           [] kind = "create" -> "insert"
                           [] kind = "replace" -> "wipe",
                  kind |-> kind, doc |-> d, inc |-> row[d].inc, text |-> t, n |-> ops,
                  gone |-> {}, strip |-> {}, kept |-> {}, ids |-> [e \in Entities |-> 0],
                  alone |-> same = {}, calm |-> calm]
           Other(x) == [op[x] EXCEPT !.alone = @ /\ x \notin same,
                                     !.calm = @ /\ kind # "forget"]
<1>1. /\ op' = [x \in Callers |-> IF x = c THEN me ELSE IF x \in others THEN Other(x) ELSE op[x]]
      /\ op[c] = Idle /\ ops > 0 /\ ops' = ops - 1
      /\ kind = "forget" => row[d].st # "none"
      /\ clean' = clean \ {d}
      /\ scarred' = scarred \cup (IF kind = "forget" THEN {op[x].doc : x \in others}
                                  ELSE IF calm THEN {} ELSE {d})
      /\ UNCHANGED <<row, khora, nodes, vec, graph>>
  BY DEF Begin
<1>b. op[c] = Idle /\ ops > 0 /\ ops' = ops - 1
  BY DEF Begin
<1>2. /\ kind \in {"forget", "create", "replace"}
      /\ kind = "create" => row[d].st = "none"
      /\ kind # "create" => row[d].st # "none"
      /\ kind = "forget" <=> t = None
      /\ me.pc \in {"list", "insert", "wipe"}
      /\ me.pc = "list" <=> kind = "forget"
      /\ me.pc = "insert" <=> kind = "create"
  BY <1>1
<1>3. me \in Calls
  <2>1. (same = {}) \in BOOLEAN /\ calm \in BOOLEAN /\ me.pc \in Steps
    BY <1>2 DEF Steps
  <2>2. row[d].inc \in Nat /\ ops \in Nat /\ [e \in Entities |-> 0] \in [Entities -> Nat]
    BY DEF Shape
  <2> HIDE DEF same, others, calm, kind
  <2> QED BY <1>2, <2>1, <2>2, Zenon DEF Calls
<1>4. ASSUME NEW x \in others
      PROVE  /\ Other(x) \in Calls
             /\ Other(x).pc = op[x].pc /\ Other(x).kind = op[x].kind /\ Other(x).doc = op[x].doc
             /\ Other(x).text = op[x].text /\ Other(x).inc = op[x].inc /\ Other(x).n = op[x].n
             /\ Other(x).gone = op[x].gone /\ Other(x).strip = op[x].strip
             /\ Other(x).kept = op[x].kept /\ Other(x).ids = op[x].ids
             /\ Other(x).alone = (op[x].alone /\ x \notin same)
             /\ Other(x).calm = (op[x].calm /\ kind # "forget")
  <2>1. op[x] \in Calls
    BY <1>4, ActiveIsCall
  <2> DEFINE a == op[x].alone /\ x \notin same
             b == op[x].calm /\ kind # "forget"
             q == [op[x] EXCEPT !.alone = a, !.calm = b]
  <2>2. a \in BOOLEAN /\ b \in BOOLEAN
    OBVIOUS
  <2>3. Other(x) = q
    OBVIOUS
  <2> HIDE DEF a, b
  <2>4. /\ q \in Calls
        /\ q.pc = op[x].pc /\ q.kind = op[x].kind /\ q.doc = op[x].doc /\ q.text = op[x].text
        /\ q.inc = op[x].inc /\ q.n = op[x].n /\ q.gone = op[x].gone /\ q.strip = op[x].strip
        /\ q.kept = op[x].kept /\ q.ids = op[x].ids /\ q.alone = a /\ q.calm = b
    BY <2>1, <2>2 DEF Calls
  <2> HIDE DEF q, Other, same, others, calm, kind
  <2> QED BY <2>3, <2>4, Zenon DEF a, b
<1>5. Shape'
  <2>1. op' \in [Callers -> {Idle, Absentee} \cup Calls]
    <3> HIDE DEF me, Other, others, same, kind, calm
    <3> QED BY <1>1, <1>3, <1>4 DEF Shape
  <2>2. scarred' \subseteq Docs
    <3>1. \A x \in others : op[x].doc \in Docs
      BY ActiveIsCall DEF Calls
    <3>2. scarred' \subseteq scarred \cup {d} \cup {op[x].doc : x \in others}
      BY <1>1
    <3> HIDE DEF others
    <3> QED BY <3>1, <3>2 DEF Shape
  <2>3. ops' \in Nat
    BY <1>b DEF Shape
  <2> QED BY <1>1, <2>1, <2>2, <2>3 DEF Shape
<1>6. KindOf(me)
  BY <1>2 DEF KindOf, ForgetSteps, ReplaceSteps
<1>7. Begins(c, d, t, kind)
  <2>1. op'[c] = me
    BY <1>1
  <2>2. \A x \in Callers \ {c} : op'[x] = IF x \in others THEN Other(x) ELSE op[x]
    BY <1>1
  <2>3. /\ me.kind = kind /\ me.doc = d /\ me.text = t /\ me.inc = row[d].inc /\ me.kept = {}
        /\ me.alone = (same = {}) /\ me.calm = calm
    BY Zenon
  <2>4. ~Active(c)
    BY <1>b DEF Active, Idle, Steps
  <2>5. /\ same = {} => \A x \in Callers \ {c} : Active(x) => op[x].doc # d
        /\ calm <=> \A x \in Callers \ {c} : ~Forgets(x)
    BY DEF Forgets
  <2>6. \A x \in others : op[x].doc = d <=> x \in same
    OBVIOUS
  <2>7. \A x \in Callers \ {c} : x \in others <=> Active(x)
    OBVIOUS
  <2>8. /\ scarred \subseteq scarred'
        /\ kind = "forget" => \A x \in others : op[x].doc \in scarred'
        /\ kind # "forget" /\ ~calm => d \in scarred'
    BY <1>1
  <2> HIDE DEF me, Other, others, same, kind, calm
  <2>9. ASSUME NEW x \in Callers \ {c}, Active(x)
        PROVE  /\ op'[x] \in Calls
               /\ op'[x].pc = op[x].pc /\ op'[x].kind = op[x].kind /\ op'[x].doc = op[x].doc
               /\ op'[x].text = op[x].text /\ op'[x].inc = op[x].inc /\ op'[x].n = op[x].n
               /\ op'[x].gone = op[x].gone /\ op'[x].strip = op[x].strip
               /\ op'[x].kept = op[x].kept /\ op'[x].ids = op[x].ids
               /\ op'[x].alone => op[x].alone /\ op[x].doc # d
               /\ op'[x].calm => op[x].calm /\ kind # "forget"
    <3>1. op'[x] = Other(x) /\ x \in others /\ (op[x].doc = d <=> x \in same)
      BY <2>2, <2>6, <2>7, <2>9, Zenon
    <3>2. /\ Other(x) \in Calls
          /\ Other(x).pc = op[x].pc /\ Other(x).kind = op[x].kind /\ Other(x).doc = op[x].doc
          /\ Other(x).text = op[x].text /\ Other(x).inc = op[x].inc /\ Other(x).n = op[x].n
          /\ Other(x).gone = op[x].gone /\ Other(x).strip = op[x].strip
          /\ Other(x).kept = op[x].kept /\ Other(x).ids = op[x].ids
      BY <1>4, <3>1, Zenon
    <3>3. /\ Other(x).alone => op[x].alone /\ op[x].doc # d
          /\ Other(x).calm => op[x].calm /\ kind # "forget"
      BY <1>4, <3>1, Zenon
    <3> QED BY <3>1, <3>2, <3>3, Zenon
  <2>10. \A x \in Callers \ {c} : ~Active(x) => op'[x] = op[x]
    BY <2>2, <2>7
  <2>11. /\ op'[c].alone => \A x \in Callers \ {c} : Active(x) => op[x].doc # d
         /\ op'[c].calm => \A x \in Callers \ {c} : ~Forgets(x)
    BY <2>1, <2>3, <2>5, Zenon
  <2>12. /\ kind = "forget" => \A x \in Callers \ {c} : Active(x) => op[x].doc \in scarred'
         /\ kind # "forget" /\ (\E x \in Callers \ {c} : Forgets(x)) => d \in scarred'
    BY <2>5, <2>7, <2>8
  <2> QED
    BY <1>1, <1>2, <1>3, <1>6, <2>1, <2>3, <2>4, <2>8, <2>9, <2>10, <2>11, <2>12, Zenon DEF Begins
<1> QED BY <1>5, <1>7

\* The beginning of a call keeps the invariant on calls.
LEMMA BeginCallInv ==
  ASSUME CallInv, NEW c \in Callers, NEW d \in Docs, NEW t \in Texts \cup {None}, NEW kind,
         Begins(c, d, t, kind), Shape'
  PROVE  CallInv'
<1>0. Shape /\ RowOK /\ RowOK'
  BY DEF CallInv, Begins, RowOK
<1>1. Active(c)'
  BY DEF Begins, Active, Calls
<1>2. ASSUME NEW x \in Callers, x # c
      PROVE  /\ Active(x)' <=> Active(x)
             /\ Active(x) => /\ op'[x].pc = op[x].pc /\ op'[x].kind = op[x].kind
                             /\ op'[x].doc = op[x].doc /\ op'[x].text = op[x].text
                             /\ op'[x].inc = op[x].inc /\ op'[x].kept = op[x].kept
                             /\ op'[x].alone => op[x].alone /\ op[x].doc # d
                             /\ op'[x].calm => op[x].calm /\ kind # "forget"
  BY <1>2 DEF Begins, Active
<1>3. Kinds'
  <2>1. ASSUME NEW x \in Callers, x # c, Active(x) PROVE KindOf(op[x])
    BY <2>1 DEF CallInv, Kinds
  <2>2. ASSUME NEW x \in Callers, Active(x)' PROVE KindOf(op'[x])
    BY <1>2, <2>1, <2>2 DEF Begins, KindOf
  <2> QED BY <2>2 DEF Kinds
<1>4. clean' = clean \ {d} /\ scarred \subseteq scarred' /\ op'[c].doc = d /\ op'[c].kind = kind
  BY DEF Begins
<1>5. Company'
  <2>1. ASSUME NEW y \in Callers, Active(y)' PROVE op'[y].doc \notin clean'
    BY <1>2, <1>4, <2>1 DEF CallInv, Company
  <2>2. ASSUME NEW y \in Callers, NEW x \in Callers, x # y, Active(x)', Active(y)'
        PROVE  /\ op'[x].doc = op'[y].doc => ~op'[y].alone
               /\ op'[x].kind = "forget" /\ op'[y].kind # "forget" =>
                    ~op'[y].calm /\ op'[y].doc \in scarred'
               /\ op'[x].doc = op'[y].doc /\ op'[x].kind = "forget" => op'[y].doc \in scarred'
    <3>1. CASE y = c
      <4>1. Active(x) /\ op'[x].doc = op[x].doc /\ op'[x].kind = op[x].kind
        BY <1>2, <2>2, <3>1
      <4>2. op[x].kind = "forget" => Forgets(x)
        BY <4>1 DEF Forgets
      <4>3. op[x].kind = "forget" /\ kind # "forget" => ~op'[c].calm /\ d \in scarred'
        BY <2>2, <3>1, <4>2 DEF Begins
      <4>4. kind = "forget" => op[x].doc \in scarred'
        BY <2>2, <3>1, <4>1 DEF Begins
      <4>5. op[x].doc = d => ~op'[c].alone
        BY <2>2, <3>1, <4>1 DEF Begins
      <4> QED BY <1>4, <3>1, <4>1, <4>3, <4>4, <4>5
    <3>2. CASE x = c
      <4>1. Active(y) /\ op'[y].doc = op[y].doc /\ op'[y].kind = op[y].kind
        BY <1>2, <2>2, <3>2
      <4>2. kind = "forget" => op[y].doc \in scarred'
        BY <2>2, <3>2, <4>1 DEF Begins
      <4> QED BY <1>2, <1>4, <2>2, <3>2, <4>1, <4>2
    <3>3. CASE x # c /\ y # c
      BY <1>2, <1>4, <2>2, <3>3 DEF CallInv, Company
    <3> QED BY <3>1, <3>2, <3>3
  <2> QED BY <2>1, <2>2 DEF Company
<1>6. RowStays'
  <2> SUFFICES ASSUME NEW f \in Callers, Forgets(f)', op'[f].doc \notin scarred' PROVE Current(f)'
    BY DEF RowStays
  <2>1. CASE f = c
    BY <2>1 DEF Begins, Forgets, Current
  <2>2. CASE f # c
    <3>1. Forgets(f) /\ op'[f].doc = op[f].doc /\ op'[f].inc = op[f].inc
      BY <1>2, <2>2 DEF Forgets
    <3>2. Current(f)
      BY <1>4, <3>1 DEF CallInv, RowStays
    <3> QED BY <3>1, <3>2 DEF Current, Begins
  <2> QED BY <2>1, <2>2
<1> QED BY <1>0, <1>3, <1>5, <1>6 DEF CallInv

\* Nothing is left of the calls after a crash.
LEMMA CrashCallInv ==
  ASSUME CallInv, Crash
  PROVE  /\ CallInv' /\ \A c \in Callers : ~Active(c)'
         /\ scarred \subseteq scarred'
         /\ \A f \in Callers : Forgets(f) => op[f].doc \in scarred'
<1>1. Shape
  BY DEF CallInv
<1>2. \A c \in Callers : op'[c] = IF Active(c) THEN Idle ELSE op[c]
  BY DEF Crash
<1>3. \A c \in Callers : ~Active(c)'
  BY <1>2 DEF Active, Idle, Steps
<1>4. scarred' = scarred \cup Cut(Callers)
  BY DEF Crash
<1>5. Cut(Callers) \subseteq Docs
  BY <1>1, ActiveIsCall DEF Cut, Calls
<1>6. Shape'
  BY <1>1, <1>2, <1>4, <1>5 DEF Crash, Shape
<1>7. CallInv'
  BY <1>3, <1>6 DEF CallInv, Kinds, Company, RowStays, RowOK, Forgets, Crash
<1> QED BY <1>3, <1>4, <1>7 DEF Cut, Forgets

\* Before the first call.
LEMMA InitCallInv ==
  ASSUME Init PROVE CallInv /\ \A c \in Callers : ~Active(c)
<1>1. PICK ss \in Sessions : /\ op = [c \in Callers |-> IF c \in ss.callers THEN Idle ELSE Absentee]
                             /\ ops = ss.calls
  BY DEF Init
<1>2. \A c \in Callers : ~Active(c)
  BY <1>1 DEF Active, Idle, Absentee, Steps
<1>3. ops \in Nat
  BY <1>1, DocumentsAssumption
<1>4. Absent \in Stored
  BY DEF Absent, Stored
<1>5. Shape
  BY <1>1, <1>3, <1>4 DEF Init, Shape, NoChunks, Status
<1>6. RowOK
  BY DEF Init, RowOK
<1> QED BY <1>2, <1>5, <1>6 DEF CallInv, Kinds, Company, RowStays, Forgets

-------------------------------------------------------------------------------
(* The row and the chunks *)

\* A call alone on its document finds it as it was after a step of another.
LEMMA OthersDoc ==
  ASSUME CallInv, NEW c \in Callers, Frame(c), NEW x \in Callers, x # c,
         Active(x), op[x].alone, OwnDoc(x), op'[x] = op[x]
  PROVE  OwnDoc(x)' /\ row'[op[x].doc] = row[op[x].doc]
<1>1. Active(c)
  BY DEF Frame
<1>2. op[x].doc # op[c].doc
  BY <1>1 DEF CallInv, Company
<1>3. op[x].doc \in Docs
  BY ActiveIsCall DEF CallInv, Calls
<1>4. /\ row'[op[x].doc] = row[op[x].doc] /\ khora'[op[x].doc] = khora[op[x].doc]
      /\ nodes'[op[x].doc] = nodes[op[x].doc]
  BY <1>2, <1>3 DEF Frame
<1> QED BY <1>4 DEF OwnDoc, Current

\* What is settled is not touched by a call on it.
LEMMA SettledStays ==
  ASSUME CallInv, NEW c \in Callers, Frame(c), NEW d \in clean
  PROVE  /\ d # op[c].doc /\ d \in Docs
         /\ row'[d] = row[d] /\ khora'[d] = khora[d] /\ nodes'[d] = nodes[d]
BY DEF CallInv, Company, Frame, Shape

\* What SettledIsExact says of a document.
Exact(d) ==
  \/ /\ row[d].st = "completed"
     /\ khora[d] = One(row[d].text) /\ nodes[d] \subseteq {row[d].text}
  \/ /\ row[d].st = "none"
     /\ khora[d] = NoChunks /\ nodes[d] = {}

\* What a step makes of the document its call is alone on: the next step finds
\* it so, or it has settled on the text of the call.
Own(c, d, t) ==
  /\ Active(c)' => OwnDoc(c)'
  /\ d \in clean' => Exact(d)' /\ row'[d].text = t

\* A call that fails owes nothing.
LEMMA RaiseOwn ==
  ASSUME CallInv, NEW c \in Callers, Active(c), Raise(c), NEW d, d = op[c].doc, NEW t
  PROVE  Own(c, d, t)
<1>1. op'[c] = Idle /\ clean' = clean
  BY EndMoves DEF CallInv, Raise
<1>2. d \notin clean'
  BY <1>1 DEF CallInv, Company
<1> QED BY <1>1, <1>2 DEF Own, Active, Idle, Steps

\* A call that goes on has its document in mind.
LEMMA GoOwn ==
  ASSUME CallInv, NEW c \in Callers, Active(c), NEW p \in Steps, Go(c, p), clean' = clean,
         NEW d, d = op[c].doc, NEW t
  PROVE  /\ OnTo(c, p) /\ d \notin clean'
         /\ OwnDoc(c)' => Own(c, d, t)
BY GoMoves DEF CallInv, Company, Own

\* A call that goes on with its row still there still has it.
LEMMA StaleOwn ==
  ASSUME CallInv, NEW c \in Callers, Active(c), NEW p \in Steps, Go(c, p), clean' = clean,
         NEW d, d = op[c].doc, NEW t, t = op[c].text, op[c].pc # "insert",
         Current(c), UNCHANGED row \/ (row'[d].st # "none" /\ row'[d].inc = row[d].inc)
  PROVE  /\ Current(c)' /\ d \notin clean' /\ op'[c].pc = p
         /\ op'[c].doc = d /\ op'[c].text = t /\ op'[c].kind = op[c].kind
BY GoOwn DEF Current, OnTo

\* The chunk stores under a replace and a create
LEMMA WipeOwn ==
  ASSUME CallInv, NEW c \in Callers, WipeChunks(c) \/ WipeNodes(c), op[c].alone, OwnDoc(c),
         NEW d, d = op[c].doc, NEW t, t = op[c].text
  PROVE  Own(c, d, t)
<1>1. Shape /\ Active(c) /\ op[c].pc \in {"wipe", "wipenodes"} /\ Current(c)
  BY DEF WipeChunks, WipeNodes, At, CallInv, OwnDoc
<1>2. d \in Docs
  BY <1>1, ActiveIsCall DEF Calls
<1>3. CASE Raise(c)
  BY <1>1, <1>3, RaiseOwn
<1>4. CASE Go(c, "mark") /\ UNCHANGED <<row, clean>>
  <2>1. /\ Current(c)' /\ d \notin clean' /\ op'[c].pc = "mark"
        /\ op'[c].doc = d /\ op'[c].text = t /\ op'[c].kind = op[c].kind
    <3>1. "mark" \in Steps /\ "wipenodes" \in Steps /\ "write" \in Steps /\ "mirror" \in Steps
      BY DEF Steps
    <3> QED BY <1>1, <1>4, <3>1, StaleOwn
  <2> QED BY <2>1 DEF Own, OwnDoc, Written
<1>5. CASE Go(c, "wipenodes") /\ UNCHANGED <<row, clean>> /\ khora' = [khora EXCEPT ![d] = NoChunks]
  <2>1. /\ Current(c)' /\ d \notin clean' /\ op'[c].pc = "wipenodes"
        /\ op'[c].doc = d /\ op'[c].text = t /\ op'[c].kind = op[c].kind
    <3>1. "mark" \in Steps /\ "wipenodes" \in Steps /\ "write" \in Steps /\ "mirror" \in Steps
      BY DEF Steps
    <3> QED BY <1>1, <1>5, <3>1, StaleOwn
  <2>2. khora'[d] = NoChunks
    BY <1>1, <1>2, <1>5 DEF Shape
  <2> QED BY <2>1, <2>2 DEF Own, OwnDoc, Written
<1>6. CASE /\ Go(c, "write") /\ UNCHANGED <<row, clean, khora>> /\ op[c].pc = "wipenodes"
           /\ nodes' = [nodes EXCEPT ![d] = {}]
  <2>1. /\ Current(c)' /\ d \notin clean' /\ op'[c].pc = "write"
        /\ op'[c].doc = d /\ op'[c].text = t /\ op'[c].kind = op[c].kind
    <3>1. "mark" \in Steps /\ "wipenodes" \in Steps /\ "write" \in Steps /\ "mirror" \in Steps
      BY DEF Steps
    <3> QED BY <1>1, <1>6, <3>1, StaleOwn
  <2>2. nodes'[d] = {} /\ khora'[d] = NoChunks
    BY <1>1, <1>2, <1>6 DEF Shape, OwnDoc
  <2> QED BY <2>1, <2>2 DEF Own, OwnDoc, Written
<1> QED BY <1>1, <1>3, <1>4, <1>5, <1>6 DEF WipeChunks, WipeNodes, At, History

\* The chunks written and mirrored are those of the text, once.
LEMMA WriteOwn ==
  ASSUME CallInv, NEW c \in Callers, WriteChunks(c) \/ MirrorChunks(c), op[c].alone, OwnDoc(c),
         NEW d, d = op[c].doc, NEW t, t = op[c].text
  PROVE  Own(c, d, t)
<1>1. Shape /\ Active(c) /\ op[c].pc \in {"write", "mirror"} /\ Current(c)
  BY DEF WriteChunks, MirrorChunks, At, CallInv, OwnDoc
<1>2. d \in Docs /\ t \in Texts /\ op[c].kind \in {"create", "replace"}
  BY <1>1, ActiveIsCall, RemembersText DEF Calls, ForgetSteps
<1>3. CASE Raise(c)
  BY <1>1, <1>3, RaiseOwn
<1>4. CASE Go(c, "mark") /\ UNCHANGED <<row, clean>>
  <2>1. /\ Current(c)' /\ d \notin clean' /\ op'[c].pc = "mark"
        /\ op'[c].doc = d /\ op'[c].text = t /\ op'[c].kind = op[c].kind
    <3>1. "mark" \in Steps /\ "wipenodes" \in Steps /\ "write" \in Steps /\ "mirror" \in Steps
      BY DEF Steps
    <3> QED BY <1>1, <1>4, <3>1, StaleOwn
  <2> QED BY <2>1 DEF Own, OwnDoc, Written
<1>5. CASE /\ op[c].pc = "write" /\ Go(c, "mirror") /\ UNCHANGED <<row, clean, nodes>>
           /\ khora' = [khora EXCEPT ![d][t] = IF @ < 2 THEN @ + 1 ELSE 2]
  <2>1. /\ Current(c)' /\ d \notin clean' /\ op'[c].pc = "mirror"
        /\ op'[c].doc = d /\ op'[c].text = t /\ op'[c].kind = op[c].kind
    <3>1. "mark" \in Steps /\ "wipenodes" \in Steps /\ "write" \in Steps /\ "mirror" \in Steps
      BY DEF Steps
    <3> QED BY <1>1, <1>5, <3>1, StaleOwn
  <2>2. nodes[d] = {} /\ khora[d] = NoChunks
    BY <1>5 DEF OwnDoc
  <2>3. khora'[d] = One(t)
    <3>1. khora'[d] = [NoChunks EXCEPT ![t] = IF @ < 2 THEN @ + 1 ELSE 2]
      BY <1>1, <1>2, <1>5, <2>2 DEF Shape
    <3> QED BY <1>2, <3>1 DEF NoChunks, One
  <2> QED BY <1>5, <2>1, <2>2, <2>3 DEF Own, OwnDoc, Written
<1>6. CASE /\ op[c].pc = "mirror" /\ UNCHANGED <<row, clean, khora>>
           /\ \E p \in {"prefetch", "vector", "complete"} :
                Go(c, p) /\ (p # "prefetch" => op[c].kind = "create")
           /\ nodes' = nodes \/ nodes' = [nodes EXCEPT ![d] = @ \cup {t}]
  <2>1. PICK p \in {"prefetch", "vector", "complete"} :
          Go(c, p) /\ (p # "prefetch" => op[c].kind = "create")
    BY <1>6
  <2>2. p \in Steps /\ clean' = clean /\ row' = row
    BY <1>6 DEF Steps
  <2>3. /\ Current(c)' /\ d \notin clean' /\ op'[c].pc = p
        /\ op'[c].doc = d /\ op'[c].text = t /\ op'[c].kind = op[c].kind
    BY <1>1, <2>1, <2>2, StaleOwn
  <2>4. nodes[d] = {} /\ khora[d] = One(t)
    BY <1>6 DEF OwnDoc
  <2>5. nodes'[d] \subseteq {t} /\ khora'[d] = One(t)
    BY <1>1, <1>2, <1>6, <2>4 DEF Shape
  <2> QED BY <2>1, <2>3, <2>5 DEF Own, OwnDoc, Written
<1>7. CASE WriteChunks(c)
  BY <1>1, <1>3, <1>4, <1>5, <1>7 DEF WriteChunks, At, History
<1>8. CASE MirrorChunks(c)
  <2>1. \E p \in {"prefetch", "vector", "complete"} :
          Go(c, p) /\ (p # "prefetch" => op[c].kind = "create")
    <3>1. CASE op[c].kind = "replace"
      BY <1>8, <3>1 DEF MirrorChunks
    <3>2. CASE op[c].kind = "create" /\ Extracted(c) # {}
      BY <1>8, <3>2 DEF MirrorChunks
    <3>3. CASE op[c].kind = "create" /\ Extracted(c) = {}
      BY <1>8, <3>3 DEF MirrorChunks
    <3> QED BY <1>2, <3>1, <3>2, <3>3
  <2> QED BY <1>6, <1>8, <2>1 DEF MirrorChunks, At, History
<1> QED BY <1>7, <1>8

\* The steps of a remember that leave the row and the chunks alone
LEMMA LateOwn ==
  ASSUME CallInv, NEW c \in Callers, op[c].alone, OwnDoc(c),
         Retire(c) \/ Remap(c) \/ StripDropped(c) \/ UpsertVector(c) \/ UpsertGraph(c) \/ Link(c),
         NEW d, d = op[c].doc, NEW t, t = op[c].text
  PROVE  Own(c, d, t)
<1>0. /\ Active(c) /\ op[c].pc \in {"retire", "remap", "strip", "vector", "graph", "link"}
      /\ UNCHANGED <<row, khora, nodes>>
  BY DEF Retire, Remap, StripDropped, UpsertVector, UpsertGraph, Link, At
<1>1. Shape /\ Current(c)
  BY <1>0 DEF CallInv, OwnDoc
<1>2. d \in Docs /\ t \in Texts /\ op[c].kind \in {"create", "replace"}
  BY <1>0, <1>1, ActiveIsCall, RemembersText DEF Calls, ForgetSteps
<1>3. op[c].pc \in {"retire", "remap", "strip"} => op[c].kind = "replace"
  BY <1>0 DEF CallInv, Kinds, KindOf, ReplaceSteps
<1>4. CASE Raise(c)
  BY <1>0, <1>4, RaiseOwn
<1>5. CASE \E p \in {"remap", "strip", "vector", "graph", "link", "complete", "mark"} :
             /\ Go(c, p) /\ clean' = clean
             /\ p \in {"remap", "strip"} => op[c].kind = "replace"
  <2>1. PICK p \in {"remap", "strip", "vector", "graph", "link", "complete", "mark"} :
          /\ Go(c, p) /\ clean' = clean
          /\ p \in {"remap", "strip"} => op[c].kind = "replace"
    BY <1>5
  <2>2. p \in Steps
    BY DEF Steps
  <2>3. /\ Current(c)' /\ d \notin clean' /\ op'[c].pc = p
        /\ op'[c].doc = d /\ op'[c].text = t /\ op'[c].kind = op[c].kind
    BY <1>0, <1>1, <2>1, <2>2, StaleOwn
  <2>4. /\ khora'[d] = One(t) /\ nodes'[d] \subseteq {t}
        /\ op[c].kind = "replace" => row'[d].st = "completed" /\ row'[d].text = t
    BY <1>0 DEF OwnDoc, Written
  <2> QED BY <2>1, <2>3, <2>4 DEF Own, OwnDoc, Written
<1>6. CASE Return(c) /\ op[c].pc = "link" /\ op[c].kind = "replace"
  <2>1. /\ khora'[d] = One(t) /\ nodes'[d] \subseteq {t}
        /\ row'[d].st = "completed" /\ row'[d].text = t
    BY <1>0, <1>6 DEF OwnDoc, Written
  <2>2. ~Active(c)'
    BY <1>0, <1>1, <1>6, EndMoves DEF Active, Idle, Steps
  <2> QED BY <2>1, <2>2 DEF Own, Exact
<1>7. CASE Link(c)
  BY <1>0, <1>4, <1>5, <1>6, <1>7 DEF Link, At, History
<1>8. CASE Retire(c) \/ Remap(c)
  BY <1>0, <1>3, <1>4, <1>5, <1>8 DEF Retire, Remap, Degrade, At, History
<1>9. CASE StripDropped(c) \/ UpsertVector(c) \/ UpsertGraph(c)
  BY <1>0, <1>4, <1>5, <1>9 DEF StripDropped, UpsertVector, UpsertGraph, Degrade, At, History
<1> QED BY <1>7, <1>8, <1>9

\* What the prefetch finds, and that it changes nothing else.
KeptBy(c) == fetch_document_extraction_state(c) \cap Extracted(c)
SoleOf(c) == Sole(graph, fetch_document_extraction_state(c))
PrefetchDoes(c, old, k, s) ==
  /\ op[c] \in Calls /\ op'[c] \in Calls
  /\ op'[c].pc = "commit" /\ op'[c].kept = k /\ op'[c].gone = s \ k
  /\ op'[c].strip = (old \ s) \ k
  /\ op'[c].kind = op[c].kind /\ op'[c].doc = op[c].doc /\ op'[c].text = op[c].text
  /\ op'[c].inc = op[c].inc /\ op'[c].n = op[c].n
  /\ op'[c].alone = op[c].alone /\ op'[c].calm = op[c].calm
  /\ \A x \in Callers \ {c} : op'[x] = op[x]
  /\ UNCHANGED <<row, khora, nodes, vec, graph, ops, clean, scarred>>

\* The prefetch sorts the entities the graph has of the document.
LEMMA PrefetchSets ==
  ASSUME Shape, NEW c \in Callers, Prefetch(c), ~Raise(c)
  PROVE  PrefetchDoes(c, fetch_document_extraction_state(c), KeptBy(c), SoleOf(c))
<1> SUFFICES ASSUME NEW old, old = fetch_document_extraction_state(c),
                    NEW k, k = old \cap Extracted(c), NEW s, s = Sole(graph, old)
             PROVE  PrefetchDoes(c, old, k, s)
  BY DEF KeptBy, SoleOf
<1>1. op[c] \in Calls
  BY ActiveIsCall DEF Prefetch, At
<1>2. old \in SUBSET Entities /\ k \in SUBSET Entities /\ s \in SUBSET Entities
  BY DEF fetch_document_extraction_state, Sourced, Sole
<1> DEFINE ii == [e \in Entities |-> graph[e].id]
<1>3. ii \in [Entities -> Nat]
  BY DEF Shape, Stored
<1>4. op' = [op EXCEPT ![c].pc = "commit", ![c].kept = k, ![c].gone = s \ k,
                       ![c].strip = (old \ s) \ k, ![c].ids = ii]
  BY DEF Prefetch
<1> HIDE DEF ii
<1>5. op'[c] = [op[c] EXCEPT !.pc = "commit", !.kept = k, !.gone = s \ k,
                             !.strip = (old \ s) \ k, !.ids = ii]
  BY <1>4 DEF Shape
<1>6. "commit" \in Steps
  BY DEF Steps
<1>7. \A x \in Callers \ {c} : op'[x] = op[x]
  BY <1>4 DEF Shape
<1>8. UNCHANGED <<row, khora, nodes, vec, graph, ops, clean, scarred>>
  BY DEF Prefetch, History
<1>9. /\ op'[c] \in Calls
      /\ op'[c].pc = "commit" /\ op'[c].kept = k /\ op'[c].gone = s \ k
      /\ op'[c].strip = (old \ s) \ k
      /\ op'[c].kind = op[c].kind /\ op'[c].doc = op[c].doc /\ op'[c].text = op[c].text
      /\ op'[c].inc = op[c].inc /\ op'[c].n = op[c].n
      /\ op'[c].alone = op[c].alone /\ op'[c].calm = op[c].calm
  <2> DEFINE g == s \ k
             h == (old \ s) \ k
             q == op'[c]
             r == op[c]
  <2>1. g \in SUBSET Entities /\ h \in SUBSET Entities
    BY <1>2
  <2>2. q = [r EXCEPT !.pc = "commit", !.kept = k, !.gone = g, !.strip = h, !.ids = ii]
    BY <1>5
  <2>3. r \in Calls
    BY <1>1
  <2> HIDE DEF g, h, q, r
  <2>4. /\ q \in Calls /\ q.pc = "commit" /\ q.kept = k /\ q.gone = g /\ q.strip = h
        /\ q.kind = r.kind /\ q.doc = r.doc /\ q.text = r.text /\ q.inc = r.inc /\ q.n = r.n
        /\ q.alone = r.alone /\ q.calm = r.calm
    BY <1>2, <1>3, <1>6, <2>1, <2>2, <2>3 DEF Calls
  <2> QED BY <2>4 DEF g, h, q, r
<1> QED BY <1>1, <1>7, <1>8, <1>9 DEF PrefetchDoes

\* What a forget lists, and that it changes nothing else.
LEMMA ListSets ==
  ASSUME Shape, NEW c \in Callers, List(c), ~Raise(c),
         NEW mine, mine = Sourced(vec, Id(c)), NEW s, s = Sole(vec, mine)
  PROVE  /\ op[c] \in Calls /\ op'[c] \in Calls
         /\ op'[c].pc = "delvec" /\ op'[c].gone = s /\ op'[c].strip = mine \ s
         /\ op'[c].ids = [e \in Entities |-> vec[e].id] /\ op'[c].kept = op[c].kept
         /\ op'[c].kind = op[c].kind /\ op'[c].doc = op[c].doc /\ op'[c].text = op[c].text
         /\ op'[c].inc = op[c].inc /\ op'[c].n = op[c].n
         /\ op'[c].alone = op[c].alone /\ op'[c].calm = op[c].calm
         /\ \A x \in Callers \ {c} : op'[x] = op[x]
         /\ UNCHANGED <<row, khora, nodes, vec, graph, ops, clean, scarred>>
<1>1. op[c] \in Calls
  BY ActiveIsCall DEF List, At
<1>2. mine \in SUBSET Entities /\ s \in SUBSET Entities
  BY DEF Sourced, Sole
<1> DEFINE ii == [e \in Entities |-> vec[e].id]
<1>3. ii \in [Entities -> Nat]
  BY DEF Shape, Stored
<1>4. op' = [op EXCEPT ![c].pc = "delvec", ![c].gone = s, ![c].strip = mine \ s, ![c].ids = ii]
  BY DEF List
<1>i. ii = [e \in Entities |-> vec[e].id]
  OBVIOUS
<1> HIDE DEF ii
<1>5. op'[c] = [op[c] EXCEPT !.pc = "delvec", !.gone = s, !.strip = mine \ s, !.ids = ii]
  BY <1>4 DEF Shape
<1>6. "delvec" \in Steps
  BY DEF Steps
<1>7. \A x \in Callers \ {c} : op'[x] = op[x]
  BY <1>4 DEF Shape
<1>8. UNCHANGED <<row, khora, nodes, vec, graph, ops, clean, scarred>>
  BY DEF List, History
<1>9. /\ op'[c] \in Calls
      /\ op'[c].pc = "delvec" /\ op'[c].gone = s /\ op'[c].strip = mine \ s /\ op'[c].ids = ii
      /\ op'[c].kept = op[c].kept
      /\ op'[c].kind = op[c].kind /\ op'[c].doc = op[c].doc /\ op'[c].text = op[c].text
      /\ op'[c].inc = op[c].inc /\ op'[c].n = op[c].n
      /\ op'[c].alone = op[c].alone /\ op'[c].calm = op[c].calm
  <2>1. mine \ s \in SUBSET Entities
    BY <1>2
  <2>2. op'[c] = Listing(op[c], "delvec", s, mine \ s, ii)
    BY <1>5 DEF Listing
  <2>3. Lists(op'[c], op[c], "delvec", s, mine \ s, ii)
    BY <1>1, <1>2, <1>3, <1>6, <2>1, <2>2, CallLists
  <2> QED BY <2>3 DEF Lists
<1> QED BY <1>1, <1>7, <1>8, <1>9, <1>i

\* The steps that write the row, and the prefetch
LEMMA RowOwn ==
  ASSUME CallInv, NEW c \in Callers, op[c].alone, OwnDoc(c),
         MarkFailed(c) \/ Prefetch(c) \/ Commit(c) \/ Complete(c),
         NEW d, d = op[c].doc, NEW t, t = op[c].text
  PROVE  Own(c, d, t)
<1>0. /\ Active(c) /\ op[c].pc \in {"mark", "prefetch", "commit", "complete"}
      /\ UNCHANGED <<khora, nodes>>
  BY DEF MarkFailed, Prefetch, Commit, Complete, At
<1>1. Shape /\ Current(c)
  BY <1>0 DEF CallInv, OwnDoc
<1>2. d \in Docs /\ t \in Texts /\ op[c].text # None
  BY <1>0, <1>1, ActiveIsCall, RemembersText DEF Calls, ForgetSteps
<1>3. CASE Raise(c)
  BY <1>0, <1>3, RaiseOwn
<1>4. op[c].pc # "mark" => khora'[d] = One(t) /\ nodes'[d] \subseteq {t}
  BY <1>0 DEF OwnDoc, Written
<1>5. update_document(c, "completed") =>
        row'[d].st = "completed" /\ row'[d].text = t /\ row'[d].inc = row[d].inc
  BY <1>0, <1>1, <1>2, UpdateRow
<1>6. CASE update_document(c, "completed") /\ Go(c, "retire") /\ UNCHANGED History /\ op[c].pc = "commit"
  <2>1. /\ Current(c)' /\ d \notin clean' /\ op'[c].pc = "retire"
        /\ op'[c].doc = d /\ op'[c].text = t /\ op'[c].kind = op[c].kind
    <3>1. "retire" \in Steps /\ clean' = clean /\ row'[d].st # "none" /\ row'[d].inc = row[d].inc
      BY <1>5, <1>6 DEF Steps, History
    <3> QED BY <1>0, <1>1, <1>6, <3>1, StaleOwn
  <2> QED BY <1>4, <1>5, <1>6, <2>1 DEF Own, OwnDoc, Written
<1>7. CASE update_document(c, "completed") /\ Return(c) /\ op[c].pc = "complete"
  <2>1. ~Active(c)'
    BY <1>0, <1>1, <1>7, EndMoves DEF Active, Idle, Steps
  <2> QED BY <1>4, <1>5, <1>7, <2>1 DEF Own, Exact
<1>8. CASE Prefetch(c) /\ ~Raise(c)
  <2>1. /\ op'[c].pc = "commit" /\ op'[c].doc = d /\ op'[c].text = t /\ op'[c].inc = op[c].inc
        /\ op'[c].kind = op[c].kind /\ UNCHANGED <<row, clean>>
    BY <1>1, <1>8, PrefetchSets DEF PrefetchDoes
  <2>2. d \notin clean' /\ Current(c)'
    BY <1>0, <1>1, <2>1 DEF CallInv, Company, Current
  <2>3. op[c].pc = "prefetch"
    BY <1>8 DEF Prefetch, At
  <2> QED BY <1>4, <2>1, <2>2, <2>3 DEF Own, OwnDoc, Written
<1> QED BY <1>0, <1>3, <1>6, <1>7, <1>8 DEF MarkFailed, Prefetch, Commit, Complete, At

\* The insert
LEMMA InsertOwn ==
  ASSUME CallInv, NEW c \in Callers, op[c].alone, OwnDoc(c), Insert(c),
         NEW d, d = op[c].doc, NEW t, t = op[c].text
  PROVE  Own(c, d, t)
<1>0. Active(c) /\ op[c].pc = "insert"
  BY DEF Insert, At
<1>1. Shape /\ row[d].st = "none" /\ d \notin clean
  BY <1>0 DEF CallInv, OwnDoc, Company
<1>2. op[c] \in Calls /\ d \in Docs /\ t \in Texts /\ t # None /\ row[d].inc \in Nat
  BY <1>0, <1>1, ActiveIsCall, RemembersText DEF Calls, ForgetSteps, Shape
<1>3. CASE Raise(c)
  BY <1>0, <1>3, RaiseOwn
<1>4. ~(row[d].st # "failed" /\ row[d].text = op[c].text)
  BY <1>1, <1>2 DEF CallInv, RowOK
<1>5. CASE ~Raise(c)
  <2>1. /\ row' = [row EXCEPT ![d] = [st |-> "pending", text |-> t, inc |-> row[d].inc + 1]]
        /\ khora' = [khora EXCEPT ![d] = NoChunks] /\ nodes' = [nodes EXCEPT ![d] = {}]
        /\ op' = [op EXCEPT ![c].pc = "write", ![c].inc = row[d].inc + 1] /\ clean' = clean
    BY <1>1, <1>4, <1>5 DEF Insert
  <2>2. op'[c] = [op[c] EXCEPT !.pc = "write", !.inc = row[d].inc + 1]
    BY <1>1, <2>1 DEF Shape
  <2>3. /\ op'[c].pc = "write" /\ op'[c].doc = d /\ op'[c].inc = row[d].inc + 1
    BY <1>2, <2>2 DEF Calls
  <2>4. /\ row'[d].st = "pending" /\ row'[d].inc = row[d].inc + 1
        /\ khora'[d] = NoChunks /\ nodes'[d] = {}
    BY <1>1, <1>2, <2>1 DEF Shape
  <2> QED BY <1>1, <2>1, <2>3, <2>4 DEF Own, OwnDoc, Written, Current
<1> QED BY <1>3, <1>5

\* The steps of a forget
LEMMA ForgetOwn ==
  ASSUME CallInv, NEW c \in Callers, op[c].alone, OwnDoc(c), Forget(c),
         NEW d, d = op[c].doc, NEW t, t = op[c].text
  PROVE  Own(c, d, t)
<1>0. Active(c) /\ op[c].pc \in ForgetSteps
  BY DEF Forget, List, DeleteVector, DeleteGraph, StripVector, StripGraph, DeleteNodes,
         DeleteChunks, delete_document, At, ForgetSteps
<1>1. Shape /\ Current(c) /\ t = None /\ op[c].kind = "forget"
  BY <1>0 DEF CallInv, OwnDoc, Kinds, KindOf, ForgetSteps
<1>2. d \in Docs /\ op[c] \in Calls
  BY <1>0, <1>1, ActiveIsCall DEF Calls
<1>3. CASE Raise(c)
  BY <1>0, <1>3, RaiseOwn
<1>4. CASE \E p \in {"delgraph", "stripvec", "stripgraph", "delnodes", "delchunks", "delrow"} :
             /\ Go(c, p) /\ UNCHANGED <<row, clean>>
             /\ p = "delchunks" => nodes' = [nodes EXCEPT ![d] = {}]
             /\ p = "delrow" => /\ op[c].pc = "delchunks" /\ nodes' = nodes
                                /\ khora' = [khora EXCEPT ![d] = NoChunks]
  <2>1. PICK p \in {"delgraph", "stripvec", "stripgraph", "delnodes", "delchunks", "delrow"} :
             /\ Go(c, p) /\ UNCHANGED <<row, clean>>
             /\ p = "delchunks" => nodes' = [nodes EXCEPT ![d] = {}]
             /\ p = "delrow" => /\ op[c].pc = "delchunks" /\ nodes' = nodes
                                /\ khora' = [khora EXCEPT ![d] = NoChunks]
    BY <1>4
  <2>2. p \in Steps /\ op[c].pc # "insert"
    BY <1>0 DEF Steps, ForgetSteps
  <2>a. Go(c, p) /\ clean' = clean /\ UNCHANGED row
    BY <2>1
  <2>3. /\ Current(c)' /\ d \notin clean' /\ op'[c].pc = p
        /\ op'[c].doc = d /\ op'[c].text = t /\ op'[c].kind = op[c].kind
    BY <1>0, <1>1, <2>a, <2>2, StaleOwn
  <2>4. /\ p \in {"delchunks", "delrow"} => nodes'[d] = {}
        /\ p = "delrow" => khora'[d] = NoChunks
    BY <1>1, <1>2, <2>1 DEF OwnDoc, Shape
  <2> QED BY <2>1, <2>3, <2>4 DEF Own, OwnDoc, Written
<1>5. CASE List(c) /\ ~Raise(c)
  <2>1. /\ op'[c].pc = "delvec" /\ op'[c].doc = d /\ op'[c].inc = op[c].inc
        /\ UNCHANGED <<row, clean>>
    BY <1>1, <1>5, ListSets
  <2>2. d \notin clean' /\ Current(c)'
    BY <1>0, <1>1, <2>1 DEF CallInv, Company, Current
  <2> QED BY <2>1, <2>2 DEF Own, OwnDoc, Written
<1>6. CASE delete_document(c) /\ ~Raise(c)
  <2>1. /\ row' = [row EXCEPT ![d].st = "none", ![d].text = None]
        /\ Return(c) /\ UNCHANGED <<khora, nodes>> /\ op[c].pc = "delrow"
    BY <1>1, <1>6 DEF delete_document, At
  <2>2. row[d] \in [st : Status, text : Texts \cup {None}, inc : Nat]
    BY <1>1, <1>2 DEF Shape
  <2>3. row'[d] = [row[d] EXCEPT !.st = "none", !.text = None]
    BY <1>1, <1>2, <2>1 DEF Shape
  <2>4. row'[d].st = "none" /\ row'[d].text = None
    BY <2>2, <2>3
  <2>5. khora'[d] = NoChunks /\ nodes'[d] = {}
    BY <2>1 DEF OwnDoc
  <2>6. ~Active(c)'
    BY <1>0, <1>1, <2>1, EndMoves DEF Active, Idle, Steps
  <2> QED BY <1>1, <2>4, <2>5, <2>6 DEF Own, Exact
<1>7. CASE DeleteNodes(c) \/ DeleteChunks(c)
  BY <1>1, <1>3, <1>4, <1>7 DEF DeleteNodes, DeleteChunks, At, History
<1>8. CASE DeleteVector(c) \/ DeleteGraph(c) \/ StripVector(c) \/ StripGraph(c)
  BY <1>3, <1>4, <1>8 DEF DeleteVector, DeleteGraph, StripVector, StripGraph, History
<1> QED BY <1>3, <1>5, <1>6, <1>7, <1>8 DEF Forget
\* A step of a call that is alone on its document.
LEMMA StepOwn ==
  ASSUME CallInv, NEW c \in Callers, op[c].alone, OwnDoc(c), Remember(c) \/ Forget(c),
         NEW d, d = op[c].doc, NEW t, t = op[c].text
  PROVE  Own(c, d, t)
BY WipeOwn, WriteOwn, LateOwn, RowOwn, InsertOwn, ForgetOwn DEF Remember

\* A step of a call keeps what is said of the rows and the chunks.
LEMMA StepDocInv ==
  ASSUME CallInv, DocInv, NEW c \in Callers, Remember(c) \/ Forget(c)
  PROVE  DocInv'
<1>1. Frame(c) /\ Active(c)
  BY StepCallInv DEF Frame
<1>2. ASSUME op[c].alone, NEW d, d = op[c].doc, NEW t, t = op[c].text PROVE Own(c, d, t)
  BY <1>1, <1>2, StepOwn DEF DocInv, OwnDocs
<1>3. ASSUME NEW x \in Callers, Active(x)', op'[x].alone PROVE OwnDoc(x)'
  <2>1. CASE x = c
    <3>1. op[c].alone
      BY <1>1, <1>3, <2>1 DEF Frame, Active, Idle, Steps
    <3> QED BY <1>2, <1>3, <2>1, <3>1 DEF Own
  <2>2. CASE x # c
    <3>1. op'[x] = op[x] /\ Active(x)
      BY <1>1, <1>3, <2>2 DEF Frame, Active
    <3> QED BY <1>1, <1>3, <2>2, <3>1, OthersDoc DEF DocInv, OwnDocs
  <2> QED BY <2>1, <2>2
<1>4. ASSUME NEW d \in clean' PROVE Exact(d)'
  <2>1. CASE d \in clean
    BY <1>1, <2>1, SettledStays DEF DocInv, SettledIsExact, Exact
  <2>2. CASE d \notin clean
    <3>1. op[c].alone /\ d = op[c].doc
      BY <1>1, <1>4, <2>2 DEF Frame
    <3> QED BY <1>2, <1>4, <3>1 DEF Own
  <2> QED BY <2>1, <2>2
<1> QED BY <1>3, <1>4 DEF DocInv, OwnDocs, SettledIsExact, Exact

\* So does the beginning of a call.
LEMMA BeginDocInv ==
  ASSUME CallInv, DocInv, NEW c \in Callers, NEW d \in Docs, NEW t, NEW kind, Begins(c, d, t, kind)
  PROVE  DocInv'
<1>1. UNCHANGED <<row, khora, nodes>> /\ clean' \subseteq clean
  BY DEF Begins
<1>2. SettledIsExact'
  BY <1>1 DEF DocInv, SettledIsExact
<1>3. ASSUME NEW x \in Callers, Active(x)', op'[x].alone PROVE OwnDoc(x)'
  <2>1. CASE x = c
    <3>1. /\ op'[c].pc \in {"list", "insert", "wipe"} /\ op'[c].doc = d
          /\ op'[c].inc = row[d].inc
          /\ op'[c].pc = "insert" => row[d].st = "none"
          /\ op'[c].pc # "insert" => row[d].st # "none"
      BY DEF Begins, KindOf, ForgetSteps, ReplaceSteps
    <3> QED BY <1>1, <2>1, <3>1 DEF OwnDoc, Current, Written
  <2>2. CASE x # c
    <3>1. Active(x) /\ op[x].alone /\ op'[x].pc = op[x].pc /\ op'[x].kind = op[x].kind
          /\ op'[x].doc = op[x].doc /\ op'[x].text = op[x].text /\ op'[x].inc = op[x].inc
      BY <1>3, <2>2 DEF Begins, Active
    <3>2. OwnDoc(x)
      BY <3>1 DEF DocInv, OwnDocs
    <3> QED BY <1>1, <3>1, <3>2 DEF OwnDoc, Current
  <2> QED BY <2>1, <2>2
<1> QED BY <1>2, <1>3 DEF DocInv, OwnDocs

\* Every step of the system keeps the invariant on calls and what is said of the
\* rows and the chunks.
LEMMA NextDocInv ==
  ASSUME CallInv, DocInv, [Next]_vars PROVE CallInv' /\ DocInv'
<1>1. ASSUME NEW c \in Callers, NEW d \in Docs, NEW t \in Texts \cup {None}, Begin(c, d, t)
      PROVE  CallInv' /\ DocInv'
  <2>1. PICK kind : Begins(c, d, t, kind)
    BY <1>1, BeginBegins DEF CallInv
  <2>2. Shape'
    BY <1>1, BeginBegins DEF CallInv
  <2> QED BY <2>1, <2>2, BeginCallInv, BeginDocInv
<1>2. ASSUME NEW c \in Callers, Remember(c) \/ Forget(c) PROVE CallInv' /\ DocInv'
  BY <1>2, StepCallInv, StepDocInv
<1>3. CASE Crash
  BY <1>3, CrashCallInv DEF Crash, DocInv, OwnDocs, SettledIsExact
<1>4. CASE UNCHANGED vars
  BY <1>4 DEF vars, CallInv, Shape, Kinds, Company, RowStays, RowOK, Active, Forgets, Current,
              DocInv, OwnDocs, OwnDoc, SettledIsExact
<1> QED BY <1>1, <1>2, <1>3, <1>4 DEF Next

\* And it holds at first.
LEMMA InitDocInv ==
  ASSUME Init PROVE CallInv /\ DocInv
BY InitCallInv DEF Init, DocInv, OwnDocs, SettledIsExact

\* The invariant on calls, rows and chunks holds in every state.
LEMMA DocInvHolds == Spec => [](CallInv /\ DocInv)
<1>1. Init => CallInv /\ DocInv
  BY InitDocInv
<1>2. CallInv /\ DocInv /\ [Next]_vars => (CallInv /\ DocInv)'
  BY NextDocInv
<1> QED BY <1>1, <1>2, PTL DEF Spec

\* Whatever failures, crashes and races went before, a remember that returns
\* leaves its document COMPLETED with its own text searchable exactly once, and
\* a forget that returns leaves no row, chunk or node of it, unless another call
\* was at the same document.
THEOREM SettlesExactly == Spec => []SettledIsExact
<1>1. DocInv => SettledIsExact
  BY DEF DocInv
<1> QED BY <1>1, DocInvHolds, PTL DEF Spec

-------------------------------------------------------------------------------
(* The abstract store *)

\* What callers see of a document.
Held(d) == IF d \in clean THEN row[d].text ELSE "torn"
Found(d) == IF d \in clean THEN {t \in Texts : khora[d][t] > 0} ELSE {}

\* A step of a call settles its document or is none to callers.
LEMMA StepRefines ==
  ASSUME CallInv, DocInv, NEW c \in Callers, Remember(c) \/ Forget(c)
  PROVE  Store!Next \/ UNCHANGED Store!vars
<1>1. Frame(c) /\ Active(c) /\ CallInv'
  BY StepCallInv DEF Frame
<1> SUFFICES ASSUME NEW d, d = op[c].doc, NEW t, t = op[c].text
             PROVE  Store!Next \/ UNCHANGED Store!vars
  OBVIOUS
<1>2. d \in Docs /\ d \notin clean /\ t \in Texts \cup {None}
  BY <1>1, ActiveIsCall DEF CallInv, Company, Calls
<1>3. \A e \in Docs \ {d} : Held(e)' = Held(e) /\ Found(e)' = Found(e)
  BY <1>1 DEF Frame, Held, Found
<1>4. Held(d) = "torn" /\ Found(d) = {}
  BY <1>2 DEF Held, Found
<1>5. ASSUME d \in clean'
      PROVE  Held(d)' = t /\ Found(d)' = IF t = None THEN {} ELSE {t}
  <2>1. op[c].alone
    BY <1>1, <1>2, <1>5 DEF Frame
  <2>2. Own(c, d, t)
    BY <1>1, <2>1, StepOwn DEF DocInv, OwnDocs
  <2>3. Exact(d)' /\ row'[d].text = t
    BY <1>5, <2>2 DEF Own
  <2>4. row'[d].st = "none" <=> t = None
    BY <1>1, <1>2, <2>3 DEF CallInv, RowOK
  <2>5. khora'[d] = IF t = None THEN NoChunks ELSE One(t)
    BY <2>3, <2>4 DEF Exact
  <2>6. {u \in Texts : khora'[d][u] > 0} = IF t = None THEN {} ELSE {t}
    BY <1>2, <2>5 DEF NoChunks, One
  <2> QED BY <1>5, <2>3, <2>6 DEF Held, Found
<1>6. CASE d \in clean'
  <2>1. Store!Settle(d, t)
    BY <1>2, <1>3, <1>4, <1>5, <1>6 DEF Store!Settle, Held, Found
  <2> QED BY <1>2, <2>1 DEF Store!Next
<1>7. CASE d \notin clean'
  <2>1. Held(d)' = "torn" /\ Found(d)' = {}
    BY <1>7 DEF Held, Found
  <2> QED BY <1>2, <1>3, <1>4, <2>1 DEF Store!vars, Held, Found
<1> QED BY <1>6, <1>7

\* The beginning of a call tears its document.
LEMMA BeginRefines ==
  ASSUME NEW c \in Callers, NEW d \in Docs, NEW t \in Texts \cup {None}, Begin(c, d, t)
  PROVE  Store!Next
<1>1. clean' = clean \ {d} /\ UNCHANGED <<row, khora>>
  BY DEF Begin
<1>2. \A e \in Docs \ {d} : Held(e)' = Held(e) /\ Found(e)' = Found(e)
  BY <1>1 DEF Held, Found
<1>3. Held(d)' = "torn" /\ Found(d)' = {}
  BY <1>1 DEF Held, Found
<1>4. Store!Touch(d)
  <2>1. [e \in Docs |-> Held(e)]' = [[e \in Docs |-> Held(e)] EXCEPT ![d] = "torn"]
    BY <1>2, <1>3
  <2>2. [e \in Docs |-> Found(e)]' = [[e \in Docs |-> Found(e)] EXCEPT ![d] = {}]
    BY <1>2, <1>3
  <2> QED BY <2>1, <2>2, Zenon DEF Store!Touch, Held, Found
<1> QED BY <1>4 DEF Store!Next

\* remember and forget implement the abstract store behind every backend:
\* whatever the interleaving of calls, the failing stores and the crashes, a
\* document settles on the text of a call that nothing disturbed when that call
\* returns, and nothing else ever changes what callers find of it.
THEOREM DocumentsRefine == Spec => ImplementsMemory
<1>1. Init => Store!Init
  BY DEF Init, Store!Init, NoChunks
<1>2. CallInv /\ DocInv /\ [Next]_vars => [Store!Next]_(Store!vars)
  <2> SUFFICES ASSUME CallInv, DocInv, [Next]_vars PROVE Store!Next \/ UNCHANGED Store!vars
    OBVIOUS
  <2>1. ASSUME NEW c \in Callers, NEW d \in Docs, NEW t \in Texts \cup {None}, Begin(c, d, t)
        PROVE  Store!Next
    BY <2>1, BeginRefines
  <2>2. ASSUME NEW c \in Callers, Remember(c) \/ Forget(c)
        PROVE  Store!Next \/ UNCHANGED Store!vars
    BY <2>2, StepRefines
  <2>3. CASE Crash
    BY <2>3 DEF Crash, Store!vars
  <2>4. CASE UNCHANGED vars
    BY <2>4 DEF vars, Store!vars
  <2> QED BY <2>1, <2>2, <2>3, <2>4 DEF Next
<1> QED BY <1>1, <1>2, DocInvHolds, PTL DEF Spec, ImplementsMemory, Store!Spec
-------------------------------------------------------------------------------
(* The entities: what one step does to one of them *)

\* From o to n: nothing, a source more, a source less, or all of it.
Same(o, n) == n.there = o.there /\ n.id = o.id /\ n.src = o.src /\ n.out = o.out
Grown(o, n, id) ==
  /\ n.there /\ (o.there => n.id = o.id)
  /\ id \in n.src /\ n.src \subseteq o.src \cup {id}
  /\ o.src \subseteq n.src \cup n.out
  /\ n.out \subseteq o.out \cup o.src /\ o.out \subseteq n.out \cup {id}
Shed(o, n, id) == n.there = o.there /\ n.id = o.id /\ n.src = o.src \ {id} /\ n.out = o.out
Gone(o, n) == ~n.there /\ n.src = {} /\ n.out = o.out

\* MERGE adds the document as a source, and may push others out.
LEMMA UpsertGrows ==
  ASSUME NEW store \in [Entities -> Stored], Sources(store), NEW es, NEW id, NEW n,
         NEW new \in Upsert(store, es, id, n), NEW e \in Entities
  PROVE  IF e \in es THEN Grown(store[e], new[e], id) ELSE new[e] = store[e]
<1>1. PICK lost \in Evictions(store, es, id) : new = Merge(store, es, id, n, lost)
  BY DEF Upsert
<1>2. CASE e \notin es
  BY <1>1, <1>2 DEF Merge
<1>3. CASE e \in es
  <2>1. lost[e] \subseteq store[e].src \ {id}
    BY <1>1, <1>3 DEF Evictions, Excess
  <2>2. new[e] = [there |-> TRUE, id |-> IF store[e].there THEN store[e].id ELSE n,
                  src |-> (store[e].src \cup {id}) \ lost[e],
                  out |-> (store[e].out \cup lost[e]) \ {id},
                  retired |-> store[e].there /\ store[e].retired]
    BY <1>1, <1>3 DEF Merge
  <2> QED BY <1>3, <2>1, <2>2 DEF Grown
<1> QED BY <1>2, <1>3

\* DETACH DELETE takes what it matches.
LEMMA DeleteTakes ==
  ASSUME NEW store, NEW es \in SUBSET Entities, NEW ids, NEW new, new = Delete(store, es, ids), NEW e \in Entities
  PROVE  IF e \in es /\ store[e].there /\ store[e].id = ids[e]
         THEN Gone(store[e], new[e]) ELSE new[e] = store[e]
BY DEF Delete, Matched, Gone, Absent

\* Stripping takes one source from what it matches.
LEMMA StripSheds ==
  ASSUME NEW store \in [Entities -> Stored], NEW es \in SUBSET Entities, NEW ids, NEW id, NEW new,
         new = Strip(store, es, ids, id), NEW e \in Entities
  PROVE  IF e \in es /\ store[e].there /\ store[e].id = ids[e]
         THEN Shed(store[e], new[e], id) ELSE new[e] = store[e]
<1>1. CASE e \in Matched(store, es, ids)
  <2>1. new[e] = [store[e] EXCEPT !.src = @ \ {id}]
    BY <1>1 DEF Strip
  <2> QED BY <1>1, <2>1 DEF Shed, Stored, Matched
<1>2. CASE e \notin Matched(store, es, ids)
  BY <1>2 DEF Strip, Matched
<1> QED BY <1>1, <1>2

\* What a step of a call does to the two stores, and where.
Moves(c) ==
  \A e \in Entities :
    /\ \/ Same(vec[e], vec'[e])
       \/ op[c].pc = "vector" /\ e \in NetNew(c) /\ Grown(vec[e], vec'[e], Id(c))
       \/ op[c].pc = "stripvec" /\ Shed(vec[e], vec'[e], Id(c))
       \/ op[c].pc = "delvec" /\ e \in op[c].gone /\ Gone(vec[e], vec'[e])
    /\ \/ Same(graph[e], graph'[e])
       \/ op[c].pc = "graph" /\ e \in NetNew(c) /\ Grown(graph[e], graph'[e], Id(c))
       \/ op[c].pc \in {"strip", "stripgraph"} /\ Shed(graph[e], graph'[e], Id(c))
       \/ op[c].pc = "delgraph" /\ e \in op[c].gone /\ Gone(graph[e], graph'[e])

\* Every step is one of these changes, at the step of the call that makes it.
LEMMA StepMoves ==
  ASSUME CallInv, Fresh, NEW c \in Callers, Remember(c) \/ Forget(c)
  PROVE  Moves(c)
<1>0. Shape /\ Sources(vec) /\ Sources(graph)
  BY DEF CallInv, Fresh
<1>a. Active(c) /\ op[c] \in Calls
  BY <1>0, StepCallInv, ActiveIsCall DEF Frame
<1>b. op[c].gone \in SUBSET Entities /\ op[c].strip \in SUBSET Entities
  BY <1>a DEF Calls
<1>s. /\ vec' = vec => \A e \in Entities : Same(vec[e], vec'[e])
      /\ graph' = graph => \A e \in Entities : Same(graph[e], graph'[e])
  BY DEF Same
<1>1. CASE UNCHANGED <<vec, graph>>
  BY <1>1, <1>s DEF Moves
<1>2. CASE Retire(c)
  <2>1. ASSUME NEW e \in Entities PROVE Same(graph[e], graph'[e])
    <3>1. graph'[e] = [graph[e] EXCEPT !.retired = TRUE] \/ graph'[e] = graph[e]
      BY <1>2 DEF Retire
    <3> QED BY <1>0, <3>1 DEF Same, Shape, Stored
  <2>2. vec' = vec
    BY <1>2 DEF Retire
  <2> QED BY <1>s, <2>1, <2>2 DEF Moves
<1>3. CASE UpsertVector(c)
  <2>1. op[c].pc = "vector" /\ graph' = graph
        /\ (vec' = vec \/ vec' \in Upsert(vec, NetNew(c), Id(c), op[c].n))
    BY <1>3 DEF UpsertVector, At
  <2>2. ASSUME vec' \in Upsert(vec, NetNew(c), Id(c), op[c].n), NEW e \in Entities
        PROVE  IF e \in NetNew(c) THEN Grown(vec[e], vec'[e], Id(c)) ELSE vec'[e] = vec[e]
    BY <1>0, <2>2, UpsertGrows DEF Shape
  <2> QED BY <1>s, <2>1, <2>2 DEF Moves, Same
<1>4. CASE UpsertGraph(c)
  <2>1. op[c].pc = "graph" /\ vec' = vec
        /\ (graph' = graph \/ graph' \in Upsert(graph, NetNew(c), Id(c), op[c].n))
    BY <1>4 DEF UpsertGraph, At
  <2>2. ASSUME graph' \in Upsert(graph, NetNew(c), Id(c), op[c].n), NEW e \in Entities
        PROVE  IF e \in NetNew(c) THEN Grown(graph[e], graph'[e], Id(c)) ELSE graph'[e] = graph[e]
    BY <1>0, <2>2, UpsertGrows DEF Shape
  <2> QED BY <1>s, <2>1, <2>2 DEF Moves, Same
<1>5. CASE StripVector(c)
  <2>1. op[c].pc = "stripvec" /\ graph' = graph
        /\ (vec' = vec \/ vec' = Strip(vec, op[c].strip, op[c].ids, Id(c)))
    BY <1>5 DEF StripVector, At
  <2>2. ASSUME vec' = Strip(vec, op[c].strip, op[c].ids, Id(c)), NEW e \in Entities
        PROVE  Shed(vec[e], vec'[e], Id(c)) \/ vec'[e] = vec[e]
    <3>1. vec \in [Entities -> Stored]
      BY <1>0 DEF Shape
    <3> QED BY <1>0, <1>b, <2>2, <3>1, StripSheds
  <2> QED BY <1>s, <2>1, <2>2 DEF Moves, Same
<1>6. CASE StripGraph(c) \/ StripDropped(c)
  <2>1. op[c].pc \in {"strip", "stripgraph"} /\ vec' = vec
        /\ (graph' = graph \/ graph' = Strip(graph, op[c].strip, op[c].ids, Id(c)))
    BY <1>6 DEF StripGraph, StripDropped, At
  <2>2. ASSUME graph' = Strip(graph, op[c].strip, op[c].ids, Id(c)), NEW e \in Entities
        PROVE  Shed(graph[e], graph'[e], Id(c)) \/ graph'[e] = graph[e]
    <3>1. graph \in [Entities -> Stored]
      BY <1>0 DEF Shape
    <3> QED BY <1>0, <1>b, <2>2, <3>1, StripSheds
  <2> QED BY <1>s, <2>1, <2>2 DEF Moves, Same
<1>7. CASE DeleteVector(c)
  <2>1. op[c].pc = "delvec" /\ graph' = graph
        /\ (vec' = vec \/ vec' = Delete(vec, op[c].gone, op[c].ids))
    BY <1>7 DEF DeleteVector, At
  <2>2. ASSUME vec' = Delete(vec, op[c].gone, op[c].ids), NEW e \in Entities
        PROVE  (e \in op[c].gone /\ Gone(vec[e], vec'[e])) \/ vec'[e] = vec[e]
    BY <1>b, <2>2, DeleteTakes
  <2> QED BY <1>s, <2>1, <2>2 DEF Moves, Same
<1>8. CASE DeleteGraph(c)
  <2>1. op[c].pc = "delgraph" /\ vec' = vec
        /\ (graph' = graph \/ graph' = Delete(graph, op[c].gone, op[c].ids))
    BY <1>8 DEF DeleteGraph, At
  <2>2. ASSUME graph' = Delete(graph, op[c].gone, op[c].ids), NEW e \in Entities
        PROVE  (e \in op[c].gone /\ Gone(graph[e], graph'[e])) \/ graph'[e] = graph[e]
    BY <1>b, <2>2, DeleteTakes
  <2> QED BY <1>s, <2>1, <2>2 DEF Moves, Same
<1>9. CASE \/ Insert(c) \/ WipeChunks(c) \/ WipeNodes(c) \/ WriteChunks(c) \/ MirrorChunks(c)
           \/ MarkFailed(c) \/ Prefetch(c) \/ Commit(c) \/ Remap(c) \/ Link(c) \/ Complete(c)
           \/ List(c) \/ DeleteNodes(c) \/ DeleteChunks(c) \/ delete_document(c)
  BY <1>1, <1>9 DEF Insert, WipeChunks, WipeNodes, WriteChunks, MirrorChunks, MarkFailed, Prefetch,
       Commit, Remap, Link, Complete, List, DeleteNodes, DeleteChunks, delete_document
<1> QED BY <1>2, <1>3, <1>4, <1>5, <1>6, <1>7, <1>8, <1>9 DEF Remember, Forget
\* What every step but the insert leaves of its call and its document.
Steady(c) ==
  LET d == op[c].doc IN
  /\ row'[d].inc = row[d].inc /\ (row[d].st = "none" => row'[d].st = "none")
  /\ scarred \subseteq scarred'
  /\ Active(c)' => op'[c].inc = op[c].inc /\ op'[c].text = op[c].text /\ op'[c].kind = op[c].kind

\* Row ids, scars and the text of a call outlive every step but the insert.
LEMMA StepSteady ==
  ASSUME CallInv, NEW c \in Callers, Remember(c) \/ Forget(c), ~Insert(c)
  PROVE  Steady(c)
<1>0. Shape /\ Active(c) /\ op[c] \in Calls /\ op[c].doc \in Docs
  BY StepCallInv, ActiveIsCall DEF CallInv, Frame
<1> SUFFICES ASSUME NEW d, d = op[c].doc, d \in Docs PROVE Steady(c)
  BY <1>0
<1>r. row[d] \in [st : Status, text : Texts \cup {None}, inc : Nat]
  BY <1>0 DEF Shape
<1>1. row'[d].inc = row[d].inc /\ (row[d].st = "none" => row'[d].st = "none")
  <2>1. ASSUME NEW st \in {"completed", "failed"}, update_document(c, st), op[c].pc \notin ForgetSteps
        PROVE  row'[d].inc = row[d].inc /\ (row[d].st = "none" => row'[d].st = "none")
    <3>1. CASE Current(c)
      <4>1. row'[d].inc = row[d].inc
        BY <1>0, <2>1, UpdateRow, RemembersText
      <4> QED BY <3>1, <4>1 DEF Current
    <3>2. CASE ~Current(c)
      BY <2>1, <3>2 DEF update_document
    <3> QED BY <3>1, <3>2
  <2>2. CASE MarkFailed(c) \/ Commit(c) \/ Complete(c)
    <3>1. op[c].pc \notin ForgetSteps
      BY <2>2 DEF MarkFailed, Commit, Complete, At, ForgetSteps
    <3>2. row' = row \/ \E st \in {"completed", "failed"} : update_document(c, st)
      BY <2>2 DEF MarkFailed, Commit, Complete
    <3> QED BY <2>1, <3>1, <3>2
  <2>3. CASE delete_document(c)
    <3>1. CASE row' = row
      BY <3>1
    <3>2. CASE row' = [row EXCEPT ![d].st = "none", ![d].text = None]
      <4>1. row'[d] = [row[d] EXCEPT !.st = "none", !.text = None]
        BY <1>0, <3>2 DEF Shape
      <4> QED BY <1>r, <4>1
    <3> QED BY <2>3, <3>1, <3>2 DEF delete_document
  <2>4. CASE ~(MarkFailed(c) \/ Commit(c) \/ Complete(c) \/ delete_document(c))
    <3>1. row' = row
      BY <2>4 DEF Remember, Forget, WipeChunks, WipeNodes, WriteChunks, MirrorChunks, Prefetch,
         Retire, Remap, StripDropped, UpsertVector, UpsertGraph, Link, List, DeleteVector,
         DeleteGraph, StripVector, StripGraph, DeleteNodes, DeleteChunks
    <3> QED BY <3>1
  <2> QED BY <2>2, <2>3, <2>4
<1>2. CASE Return(c) \/ Raise(c)
  <2>1. scarred \subseteq scarred' /\ ~Active(c)'
    BY <1>0, <1>2, EndMoves DEF Active, Idle, Steps
  <2> QED BY <1>1, <2>1 DEF Steady
<1>3. CASE Prefetch(c) /\ ~Raise(c)
  BY <1>0, <1>1, <1>3, PrefetchSets DEF Steady, PrefetchDoes
<1>4. CASE List(c) /\ ~Raise(c)
  BY <1>0, <1>1, <1>4, ListSets DEF Steady
<1>5. CASE UNCHANGED scarred /\ \E p \in Steps : Go(c, p)
  BY <1>0, <1>1, <1>5, GoMoves DEF Steady, OnTo
<1>6. ASSUME ~(Return(c) \/ Raise(c)), ~Prefetch(c), ~List(c)
      PROVE  UNCHANGED scarred /\ \E p \in Steps : Go(c, p)
  <2>1. CASE WipeChunks(c) \/ WipeNodes(c) \/ WriteChunks(c)
    BY <1>6, <2>1 DEF WipeChunks, WipeNodes, WriteChunks, History, Steps
  <2>2. CASE MirrorChunks(c)
    <3>1. UNCHANGED scarred
      BY <2>2 DEF MirrorChunks, History
    <3> DEFINE p == CASE op[c].kind = "replace" -> "prefetch"
                      [] op[c].kind = "create" /\ Extracted(c) # {} -> "vector"
                      [] OTHER -> "complete"
    <3>2. Go(c, p)
      BY <2>2 DEF MirrorChunks
    <3>3. p \in Steps
      BY DEF Steps
    <3> QED BY <3>1, <3>2, <3>3
  <2>3. CASE MarkFailed(c) \/ Commit(c) \/ Complete(c) \/ Link(c)
    BY <1>6, <2>3 DEF MarkFailed, Commit, Complete, Link, History, Steps
  <2>4. CASE Retire(c) \/ Remap(c) \/ StripDropped(c) \/ UpsertVector(c) \/ UpsertGraph(c)
    BY <1>6, <2>4 DEF Retire, Remap, StripDropped, UpsertVector, UpsertGraph, Degrade, History, Steps
  <2>5. CASE DeleteVector(c) \/ DeleteGraph(c) \/ StripVector(c) \/ StripGraph(c)
    BY <1>6, <2>5 DEF DeleteVector, DeleteGraph, StripVector, StripGraph, History, Steps
  <2>6. CASE DeleteNodes(c) \/ DeleteChunks(c) \/ delete_document(c)
    BY <1>6, <2>6 DEF DeleteNodes, DeleteChunks, delete_document, History, Steps
  <2> QED BY <1>6, <2>1, <2>2, <2>3, <2>4, <2>5, <2>6 DEF Remember, Forget
<1> QED BY <1>2, <1>3, <1>4, <1>5, <1>6

\* The insert makes a new row, under a new id, or is as steady as the others.
Inserts(c) ==
  LET d == op[c].doc IN
  /\ row[d].st = "none" /\ row'[d].inc = row[d].inc + 1
  /\ Active(c)' /\ op'[c].inc = row'[d].inc /\ op'[c].pc = "write" /\ op'[c].kind = op[c].kind
  /\ UNCHANGED <<vec, graph>>

\* The insert is one or the other.
LEMMA InsertSteady ==
  ASSUME CallInv, NEW c \in Callers, Insert(c)
  PROVE  \/ Inserts(c)
         \/ /\ UNCHANGED <<row, vec, graph>> /\ scarred \subseteq scarred'
            /\ Active(c)' => op'[c].inc = row[op[c].doc].inc /\ op'[c].pc = "wipe"
<1>0. Shape /\ Active(c) /\ op[c].doc \in Docs /\ op[c].pc = "insert"
  BY StepCallInv DEF CallInv, Frame, Insert, At, Remember
<1>1. op[c] \in Calls /\ row[op[c].doc].inc \in Nat
  BY <1>0, ActiveIsCall DEF Shape
<1> SUFFICES ASSUME NEW d, d = op[c].doc, d \in Docs
             PROVE  \/ Inserts(c)
                    \/ /\ UNCHANGED <<row, vec, graph>> /\ scarred \subseteq scarred'
                       /\ Active(c)' => op'[c].inc = row[d].inc /\ op'[c].pc = "wipe"
  BY <1>0
<1>2. UNCHANGED <<vec, graph>>
  BY DEF Insert
<1>3. CASE /\ row[d].st = "none"
           /\ row' = [row EXCEPT ![d] = [st |-> "pending", text |-> op[c].text, inc |-> row[d].inc + 1]]
           /\ op' = [op EXCEPT ![c].pc = "write", ![c].inc = row[d].inc + 1]
  <2>1. op'[c] = [op[c] EXCEPT !.pc = "write", !.inc = row[d].inc + 1]
    BY <1>0, <1>3 DEF Shape
  <2>2. op'[c].inc = row[d].inc + 1 /\ op'[c].pc = "write" /\ op'[c].kind = op[c].kind
    BY <1>1, <2>1 DEF Calls
  <2>3. row'[d].inc = row[d].inc + 1
    BY <1>0, <1>3 DEF Shape
  <2> QED BY <1>2, <1>3, <2>2, <2>3 DEF Inserts, Active, Steps
<1>4. CASE /\ op' = [op EXCEPT ![c].pc = "wipe", ![c].inc = row[d].inc, ![c].kind = "replace"]
           /\ UNCHANGED <<row, scarred>>
  <2>1. op'[c] = [op[c] EXCEPT !.pc = "wipe", !.inc = row[d].inc, !.kind = "replace"]
    BY <1>0, <1>4 DEF Shape
  <2>2. op'[c].inc = row[d].inc /\ op'[c].pc = "wipe"
    BY <1>1, <2>1 DEF Calls
  <2> QED BY <1>2, <1>4, <2>2
<1>5. CASE (Return(c) \/ Raise(c)) /\ UNCHANGED row
  <2>1. scarred \subseteq scarred' /\ ~Active(c)'
    BY <1>0, <1>5, EndMoves DEF Active, Idle, Steps
  <2> QED BY <1>2, <1>5, <2>1
<1> QED BY <1>3, <1>4, <1>5 DEF Insert, History
\* Either way
Stays(c) ==
  LET d == op[c].doc IN
  /\ row'[d].inc = row[d].inc /\ (row[d].st = "none" => row'[d].st = "none")
  /\ scarred \subseteq scarred'
  /\ Active(c)' => op'[c].inc = op[c].inc \/ (op'[c].inc = row[d].inc /\ op'[c].pc = "wipe")

\* So is every step.
LEMMA StepStays ==
  ASSUME CallInv, NEW c \in Callers, Remember(c) \/ Forget(c)
  PROVE  Stays(c) \/ (Insert(c) /\ Inserts(c))
<1>1. CASE Insert(c)
  BY <1>1, InsertSteady DEF Stays
<1>2. CASE ~Insert(c)
  BY <1>2, StepSteady DEF Stays, Steady
<1> QED BY <1>1, <1>2

\* The sources of an entity after any of the changes.
LEMMA MovedSources ==
  ASSUME NEW o, NEW n, NEW id, IsFiniteSet(o.src), ~o.there => o.src = {},
         Same(o, n) \/ Grown(o, n, id) \/ Shed(o, n, id) \/ Gone(o, n)
  PROVE  /\ IsFiniteSet(n.src) /\ (~n.there => n.src = {})
         /\ \A x \in n.src \cup n.out : x \in o.src \cup o.out \/ x = id
<1>1. IsFiniteSet(o.src \cup {id})
  BY FS_AddElement
<1>2. IsFiniteSet(o.src \ {id})
  BY FS_RemoveElement
<1>3. IsFiniteSet({})
  BY FS_EmptySet
<1>4. CASE Same(o, n)
  BY <1>4 DEF Same
<1>5. CASE Grown(o, n, id)
  BY <1>1, <1>5, FS_Subset DEF Grown
<1>6. CASE Shed(o, n, id)
  BY <1>2, <1>6 DEF Shed
<1>7. CASE Gone(o, n)
  BY <1>3, <1>7 DEF Gone
<1> QED BY <1>4, <1>5, <1>6, <1>7

\* Every source is a document that has been inserted.
LEMMA StepFresh ==
  ASSUME CallInv, Fresh, NEW c \in Callers, Remember(c) \/ Forget(c) PROVE Fresh'
<1>0. Shape /\ Shape' /\ Frame(c) /\ Active(c) /\ op[c].doc \in Docs /\ Moves(c) /\ op[c] \in Calls
  BY StepCallInv, StepMoves, ActiveIsCall DEF CallInv, Frame
<1>1. \A d \in Docs : row[d].inc \in Nat /\ row'[d].inc \in Nat /\ row[d].inc <= row'[d].inc
  <2> SUFFICES ASSUME NEW d \in Docs
               PROVE  row[d].inc \in Nat /\ row'[d].inc \in Nat /\ row[d].inc <= row'[d].inc
    OBVIOUS
  <2>1. row[d].inc \in Nat /\ row'[d].inc \in Nat
    BY <1>0 DEF Shape
  <2>2. row'[d].inc = row[d].inc \/ row'[d].inc >= row[d].inc
    BY <1>0 DEF Frame
  <2> QED BY <2>1, <2>2
<1>2. op[c].inc \in Nat /\ op[c].inc <= row[op[c].doc].inc
  BY <1>0 DEF Fresh, Calls
<1>3. ASSUME NEW o, NEW n, Same(o, n) \/ Grown(o, n, Id(c)) \/ Shed(o, n, Id(c)) \/ Gone(o, n),
             IsFiniteSet(o.src), ~o.there => o.src = {},
             \A d \in Docs, i \in Nat : <<d, i>> \in o.src \cup o.out => i <= row[d].inc
      PROVE  /\ IsFiniteSet(n.src) /\ (~n.there => n.src = {})
             /\ \A d \in Docs, i \in Nat : <<d, i>> \in n.src \cup n.out => i <= row'[d].inc
  <2>1. /\ IsFiniteSet(n.src) /\ (~n.there => n.src = {})
        /\ \A x \in n.src \cup n.out : x \in o.src \cup o.out \/ x = Id(c)
    BY <1>3, MovedSources
  <2>2. ASSUME NEW d \in Docs, NEW i \in Nat, <<d, i>> \in n.src \cup n.out PROVE i <= row'[d].inc
    <3>1. CASE <<d, i>> \in o.src \cup o.out
      <4>1. i <= row[d].inc
        BY <1>3, <3>1
      <4> QED BY <1>1, <4>1
    <3>2. CASE <<d, i>> = Id(c)
      <4>1. d = op[c].doc /\ i = op[c].inc
        BY <3>2 DEF Id
      <4> QED BY <1>1, <1>2, <4>1
    <3> QED BY <2>1, <2>2, <3>1, <3>2
  <2> QED BY <2>1, <2>2
<1>4. Sources(vec)' /\ Sources(graph)'
  <2>1. ASSUME NEW e \in Entities
        PROVE  /\ \/ Same(vec[e], vec'[e]) \/ Grown(vec[e], vec'[e], Id(c))
                  \/ Shed(vec[e], vec'[e], Id(c)) \/ Gone(vec[e], vec'[e])
               /\ \/ Same(graph[e], graph'[e]) \/ Grown(graph[e], graph'[e], Id(c))
                  \/ Shed(graph[e], graph'[e], Id(c)) \/ Gone(graph[e], graph'[e])
    BY <1>0 DEF Moves
  <2>2. ASSUME NEW e \in Entities
        PROVE  /\ IsFiniteSet(vec'[e].src) /\ (~vec'[e].there => vec'[e].src = {})
               /\ \A d \in Docs, i \in Nat : <<d, i>> \in vec'[e].src \cup vec'[e].out => i <= row'[d].inc
    BY <1>3, <2>1 DEF Fresh, Sources
  <2>3. ASSUME NEW e \in Entities
        PROVE  /\ IsFiniteSet(graph'[e].src) /\ (~graph'[e].there => graph'[e].src = {})
               /\ \A d \in Docs, i \in Nat : <<d, i>> \in graph'[e].src \cup graph'[e].out => i <= row'[d].inc
    BY <1>3, <2>1 DEF Fresh, Sources
  <2> QED BY <2>2, <2>3 DEF Sources
<1>5. ASSUME NEW x \in Callers, Active(x)' PROVE op'[x].inc <= row'[op'[x].doc].inc
  <2>1. CASE x = c
    <3>1. op'[c].doc = op[c].doc
      BY <1>0, <1>5, <2>1 DEF Frame, Active, Idle, Steps
    <3>2. CASE Stays(c)
      <4>1. op'[c].inc = op[c].inc \/ op'[c].inc = row[op[c].doc].inc
        BY <1>5, <2>1, <3>2 DEF Stays
      <4> QED BY <1>0, <1>1, <1>2, <2>1, <3>1, <4>1
    <3>3. CASE Inserts(c)
      BY <1>0, <1>1, <2>1, <3>1, <3>3 DEF Inserts
    <3> QED BY <3>2, <3>3, StepStays
  <2>2. CASE x # c
    <3>1. op'[x] = op[x] /\ Active(x)
      BY <1>0, <1>5, <2>2 DEF Frame, Active
    <3>2. op[x].inc <= row[op[x].doc].inc /\ op[x].doc \in Docs /\ op[x].inc \in Nat
      BY <1>0, <3>1, ActiveIsCall DEF Fresh, Calls
    <3> QED BY <1>1, <3>1, <3>2
  <2> QED BY <2>1, <2>2
<1> QED BY <1>4, <1>5 DEF Fresh
\* What becomes of the sources other documents are.
LEMMA OtherSources ==
  ASSUME Fresh, NEW c \in Callers, Moves(c), NEW e \in Entities, NEW x, x # Id(c)
  PROVE  /\ x \in vec'[e].src => x \in vec[e].src /\ vec'[e].id = vec[e].id
         /\ x \in graph'[e].src => x \in graph[e].src
         /\ x \in vec[e].out => x \in vec'[e].out
         /\ x \in graph[e].out => x \in graph'[e].out
         /\ x \in vec[e].src /\ x \notin vec'[e].src =>
              x \in vec'[e].out \/ (op[c].pc = "delvec" /\ e \in op[c].gone)
         /\ x \in graph[e].src /\ x \notin graph'[e].src =>
              x \in graph'[e].out \/ (op[c].pc = "delgraph" /\ e \in op[c].gone)
<1>1. /\ x \in vec[e].src => vec[e].there
      /\ x \in graph[e].src => graph[e].there
  BY DEF Fresh, Sources
<1>2. /\ \/ Same(vec[e], vec'[e]) \/ Grown(vec[e], vec'[e], Id(c)) \/ Shed(vec[e], vec'[e], Id(c))
         \/ op[c].pc = "delvec" /\ e \in op[c].gone /\ Gone(vec[e], vec'[e])
      /\ \/ Same(graph[e], graph'[e]) \/ Grown(graph[e], graph'[e], Id(c))
         \/ Shed(graph[e], graph'[e], Id(c))
         \/ op[c].pc = "delgraph" /\ e \in op[c].gone /\ Gone(graph[e], graph'[e])
  BY DEF Moves
<1>3. /\ x \in vec'[e].src => x \in vec[e].src /\ vec'[e].id = vec[e].id
      /\ x \in vec[e].out => x \in vec'[e].out
      /\ x \in vec[e].src /\ x \notin vec'[e].src =>
           x \in vec'[e].out \/ (op[c].pc = "delvec" /\ e \in op[c].gone)
  BY <1>1, <1>2 DEF Same, Grown, Shed, Gone
<1>4. /\ x \in graph'[e].src => x \in graph[e].src
      /\ x \in graph[e].out => x \in graph'[e].out
      /\ x \in graph[e].src /\ x \notin graph'[e].src =>
           x \in graph'[e].out \/ (op[c].pc = "delgraph" /\ e \in op[c].gone)
  BY <1>1, <1>2 DEF Same, Grown, Shed, Gone
<1> QED BY <1>3, <1>4

-------------------------------------------------------------------------------
(* What a forget has listed *)

\* The forget's own steps
LEMMA ForgetLists ==
  ASSUME CallInv, Fresh, NEW f \in Callers, Forget(f), Active(f)', op[f].alone, Listed(f)
  PROVE  Listed(f)'
<1>0. Shape /\ Active(f) /\ op[f] \in Calls /\ ~Return(f) /\ ~Raise(f)
  BY StepCallInv, ActiveIsCall, EndMoves DEF CallInv, Frame, Active, Idle, Steps
<1>1. \A e \in Entities : Id(f) \in vec[e].src => vec[e].there
  BY DEF Fresh, Sources
<1>g. op[f].gone \in SUBSET Entities /\ op[f].strip \in SUBSET Entities
  BY <1>0 DEF Calls
<1>t. vec \in [Entities -> Stored]
  BY <1>0 DEF Shape
<1>s. "delgraph" \in Steps /\ "stripvec" \in Steps /\ "stripgraph" \in Steps
      /\ "delnodes" \in Steps /\ "delchunks" \in Steps /\ "delrow" \in Steps
  BY DEF Steps
<1>2. CASE List(f)
  <2> DEFINE mine == Sourced(vec, Id(f))
             s == Sole(vec, mine)
  <2>1. /\ op'[f].pc = "delvec" /\ op'[f].gone = s /\ op'[f].strip = mine \ s
        /\ op'[f].ids = [e \in Entities |-> vec[e].id]
        /\ op'[f].doc = op[f].doc /\ op'[f].inc = op[f].inc /\ vec' = vec
    BY <1>0, <1>2, ListSets
  <2>2. Id(f)' = Id(f)
    BY <2>1 DEF Id
  <2>3. ASSUME NEW e \in Entities, Id(f) \in vec[e].src PROVE e \in mine /\ op'[f].ids[e] = vec[e].id
    BY <1>1, <2>1, <2>3 DEF Sourced
  <2> HIDE DEF mine, s
  <2> QED BY <2>1, <2>2, <2>3 DEF Listed
<1>3. ASSUME NEW p \in Steps, Go(f, p)
      PROVE  /\ op'[f].pc = p /\ op'[f].gone = op[f].gone /\ op'[f].strip = op[f].strip
             /\ op'[f].ids = op[f].ids /\ Id(f)' = Id(f)
  BY <1>0, <1>3, GoMoves DEF OnTo, Id
<1>4. CASE DeleteVector(f)
  <2>1. vec' = Delete(vec, op[f].gone, op[f].ids) /\ Go(f, "delgraph") /\ op[f].pc = "delvec"
    BY <1>0, <1>4 DEF DeleteVector, At
  <2>2. ASSUME NEW e \in Entities, Id(f) \in vec'[e].src
        PROVE  e \in op[f].strip /\ vec'[e].id = op[f].ids[e]
    <3>1. IF e \in op[f].gone /\ vec[e].there /\ vec[e].id = op[f].ids[e]
          THEN Gone(vec[e], vec'[e]) ELSE vec'[e] = vec[e]
      BY <1>g, <2>1, DeleteTakes
    <3>2. ~Gone(vec[e], vec'[e])
      BY <2>2 DEF Gone
    <3> QED BY <1>1, <2>1, <2>2, <3>1, <3>2 DEF Listed
  <2> QED BY <1>3, <1>s, <2>1, <2>2 DEF Listed
<1>5. CASE DeleteGraph(f)
  <2>1. vec' = vec /\ Go(f, "stripvec") /\ op[f].pc = "delgraph"
    BY <1>0, <1>5 DEF DeleteGraph, At
  <2> QED BY <1>3, <1>s, <2>1 DEF Listed
<1>6. CASE StripVector(f)
  <2>1. vec' = Strip(vec, op[f].strip, op[f].ids, Id(f)) /\ Go(f, "stripgraph") /\ op[f].pc = "stripvec"
    BY <1>0, <1>6 DEF StripVector, At
  <2>2. ASSUME NEW e \in Entities PROVE Id(f) \notin vec'[e].src
    <3>1. IF e \in op[f].strip /\ vec[e].there /\ vec[e].id = op[f].ids[e]
          THEN Shed(vec[e], vec'[e], Id(f)) ELSE vec'[e] = vec[e]
      BY <1>g, <1>t, <2>1, StripSheds
    <3> QED BY <1>1, <2>1, <3>1 DEF Shed, Listed
  <2> QED BY <1>3, <1>s, <2>1, <2>2 DEF Listed
<1>7. CASE StripGraph(f) \/ DeleteNodes(f) \/ DeleteChunks(f) \/ delete_document(f)
  <2>1. /\ vec' = vec /\ op[f].pc \in {"stripgraph", "delnodes", "delchunks", "delrow"}
        /\ \E p \in {"delnodes", "delchunks", "delrow"} : Go(f, p)
    BY <1>0, <1>7 DEF StripGraph, DeleteNodes, DeleteChunks, delete_document, At
  <2>2. Id(f)' = Id(f) /\ op'[f].pc \in {"delnodes", "delchunks", "delrow"}
    BY <1>3, <1>s, <2>1
  <2>3. \A e \in Entities : Id(f) \notin vec[e].src
    BY <2>1 DEF Listed
  <2> QED BY <2>1, <2>2, <2>3 DEF Listed
<1> QED BY <1>2, <1>4, <1>5, <1>6, <1>7 DEF Forget

\* Other calls add nothing to it and keep the ids it listed.
LEMMA StepListed ==
  ASSUME CallInv, Fresh, ListedAll, NEW c \in Callers, Remember(c) \/ Forget(c) PROVE ListedAll'
<1>0. Shape /\ Frame(c) /\ Active(c) /\ Moves(c) /\ op[c] \in Calls
  BY StepCallInv, StepMoves, ActiveIsCall DEF CallInv, Frame
<1> SUFFICES ASSUME NEW f \in Callers, Forgets(f)', op'[f].alone PROVE Listed(f)'
  BY DEF ListedAll
<1>1. CASE f = c
  <2>1. op[c].kind = "forget" /\ op[c].alone
    BY <1>0, <1>1 DEF Frame, Forgets, Active, Idle, Steps
  <2>2. Forget(c)
    <3>1. op[c].pc \in ForgetSteps
      BY <1>0, <2>1 DEF CallInv, Kinds, KindOf
    <3> QED BY <3>1 DEF Remember, Insert, WipeChunks, WipeNodes, WriteChunks, MirrorChunks,
         MarkFailed, Prefetch, Commit, Retire, Remap, StripDropped, UpsertVector, UpsertGraph, Link,
         Complete, At, ForgetSteps
  <2> QED BY <1>0, <1>1, <2>1, <2>2, ForgetLists DEF ListedAll, Forgets
<1>2. CASE f # c
  <2>1. op'[f] = op[f] /\ Forgets(f) /\ op[f].alone
    BY <1>0, <1>2 DEF Frame, Forgets, Active
  <2>2. op[f].doc # op[c].doc
    BY <1>0, <1>2, <2>1 DEF CallInv, Company, Forgets
  <2>3. Id(f) # Id(c) /\ Id(f)' = Id(f)
    BY <2>1, <2>2 DEF Id
  <2>4. Listed(f)
    BY <2>1 DEF ListedAll
  <2>5. \A e \in Entities : Id(f) \in vec'[e].src => Id(f) \in vec[e].src /\ vec'[e].id = vec[e].id
    BY <1>0, <2>3, OtherSources
  <2> QED BY <2>1, <2>3, <2>4, <2>5 DEF Listed
<1> QED BY <1>1, <1>2
-------------------------------------------------------------------------------
(* What is settled *)

\* A document settles with a call that was alone on it, in its last step.
LEMMA Settles ==
  ASSUME CallInv, DocInv, NEW c \in Callers, Remember(c) \/ Forget(c), NEW d \in clean', d \notin clean
  PROVE  /\ d = op[c].doc /\ op[c].alone /\ Exact(d)' /\ row'[d].text = op[c].text
         /\ op[c].pc \in {"link", "complete", "delrow"} /\ Current(c)
         /\ UNCHANGED <<vec, graph, scarred>> /\ row'[d].inc = row[d].inc
<1>1. Shape /\ Frame(c) /\ Active(c)
  BY StepCallInv DEF CallInv, Frame
<1>2. d = op[c].doc /\ op[c].alone /\ d \in Docs
  BY <1>1 DEF Frame
<1>3. OwnDoc(c) /\ Own(c, d, op[c].text)
  <2> SUFFICES ASSUME NEW t, t = op[c].text PROVE OwnDoc(c) /\ Own(c, d, t)
    BY DEF Own
  <2> QED BY <1>1, <1>2, StepOwn DEF DocInv, OwnDocs
<1>4. Exact(d)' /\ row'[d].text = op[c].text
  BY <1>3 DEF Own
<1>5. ~Insert(c)
  <2> SUFFICES ASSUME Insert(c) PROVE FALSE
    OBVIOUS
  <2>1. row[d].st = "none" /\ row[d].text = None /\ op[c].text # None /\ op[c].pc = "insert"
    <3>1. op[c].pc = "insert"
      BY DEF Insert, At
    <3>2. row[d].st = "none"
      BY <1>2, <1>3, <3>1 DEF OwnDoc
    <3>3. op[c].text # None
      BY <1>1, <3>1, RemembersText DEF ForgetSteps
    <3> QED BY <1>2, <3>1, <3>2, <3>3 DEF CallInv, RowOK
  <2>2. clean' # clean
    OBVIOUS
  <2> QED BY <1>2, <2>1, <2>2 DEF Insert, Raise, History
<1>6. (Link(c) \/ Complete(c) \/ delete_document(c)) /\ Return(c)
  <2>1. clean' # clean
    OBVIOUS
  <2>2. ~Raise(c)
    BY <2>1 DEF Raise
  <2>3. ~(WipeChunks(c) \/ WipeNodes(c) \/ WriteChunks(c) \/ MirrorChunks(c) \/ MarkFailed(c)
          \/ Prefetch(c) \/ Commit(c))
    BY <2>1, <2>2 DEF WipeChunks, WipeNodes, WriteChunks, MirrorChunks, MarkFailed, Prefetch, Commit, History
  <2>4. ~(Retire(c) \/ Remap(c) \/ StripDropped(c) \/ UpsertVector(c) \/ UpsertGraph(c))
    BY <2>1, <2>2 DEF Retire, Remap, StripDropped, UpsertVector, UpsertGraph, Degrade, History
  <2>5. ~(List(c) \/ DeleteVector(c) \/ DeleteGraph(c) \/ StripVector(c) \/ StripGraph(c)
          \/ DeleteNodes(c) \/ DeleteChunks(c))
    BY <2>1, <2>2 DEF List, DeleteVector, DeleteGraph, StripVector, StripGraph, DeleteNodes,
         DeleteChunks, History
  <2>6. Link(c) \/ Complete(c) \/ delete_document(c)
    BY <1>5, <2>3, <2>4, <2>5 DEF Remember, Forget
  <2>7. Return(c)
    BY <2>1, <2>2, <2>6 DEF Link, Complete, delete_document, History
  <2> QED BY <2>6, <2>7
<1>7. op[c].pc \in {"link", "complete", "delrow"} /\ UNCHANGED <<vec, graph>>
  BY <1>6 DEF Link, Complete, delete_document, At
<1>8. Current(c) /\ scarred' = scarred
  BY <1>3, <1>6, <1>7 DEF OwnDoc, Return
<1>9. row'[d].inc = row[d].inc
  BY <1>2, <1>5, StepSteady DEF Steady
<1> QED BY <1>2, <1>4, <1>7, <1>8, <1>9

\* What a forget that was alone leaves of its document in pgvector: nothing.
LEMMA StepForgotten ==
  ASSUME CallInv, DocInv, Fresh, ListedAll, ForgottenSourcesNothing,
         NEW c \in Callers, Remember(c) \/ Forget(c)
  PROVE  ForgottenSourcesNothing'
<1>0. Frame(c) /\ Active(c) /\ Moves(c)
  BY StepCallInv, StepMoves DEF Frame
<1> SUFFICES ASSUME NEW d \in clean', row'[d].st = "none", NEW e \in Entities
             PROVE  <<d, row'[d].inc>> \notin vec'[e].src
  BY DEF ForgottenSourcesNothing
<1>1. CASE d \in clean
  <2>1. d # op[c].doc /\ row'[d] = row[d]
    BY <1>0, <1>1, SettledStays
  <2>2. <<d, row[d].inc>> # Id(c)
    BY <2>1 DEF Id
  <2>3. <<d, row[d].inc>> \notin vec[e].src
    BY <1>1, <2>1 DEF ForgottenSourcesNothing
  <2> QED BY <1>0, <2>1, <2>2, <2>3, OtherSources
<1>2. CASE d \notin clean
  <2>1. /\ d = op[c].doc /\ op[c].alone /\ Exact(d)' /\ row'[d].text = op[c].text
        /\ op[c].pc \in {"link", "complete", "delrow"} /\ Current(c)
        /\ vec' = vec /\ row'[d].inc = row[d].inc
    BY <1>2, Settles
  <2>2. op[c].text = None
    <3>1. d \in Docs /\ RowOK'
      BY <1>0, <2>1, StepCallInv DEF Frame, CallInv
    <3> QED BY <2>1, <3>1 DEF RowOK
  <2>3. Forgets(c) /\ op[c].pc = "delrow"
    BY <1>0, <2>1, <2>2 DEF CallInv, Kinds, KindOf, ForgetSteps, Forgets
  <2>4. Id(c) \notin vec[e].src
    BY <2>1, <2>3 DEF ListedAll, Listed
  <2>5. Id(c) = <<d, row'[d].inc>>
    BY <2>1 DEF Current, Id
  <2> QED BY <2>1, <2>4, <2>5
<1> QED BY <1>1, <1>2
-------------------------------------------------------------------------------
(* The two stores of entities *)

\* The calls that forget are those in its steps.
LEMMA WhoForgets ==
  ASSUME CallInv, NEW c \in Callers, Remember(c) \/ Forget(c)
  PROVE  Forget(c) <=> op[c].kind = "forget"
<1>1. Active(c)
  BY StepCallInv DEF Frame
<1>2. op[c].pc \in ForgetSteps <=> op[c].kind = "forget"
  BY <1>1 DEF CallInv, Kinds, KindOf
<1>3. Remember(c) => op[c].pc \notin ForgetSteps
  BY DEF Remember, Insert, WipeChunks, WipeNodes, WriteChunks, MirrorChunks, MarkFailed, Prefetch,
     Commit, Retire, Remap, StripDropped, UpsertVector, UpsertGraph, Link, Complete, At, ForgetSteps
<1>4. Forget(c) => op[c].pc \in ForgetSteps
  BY DEF Forget, List, DeleteVector, DeleteGraph, StripVector, StripGraph, DeleteNodes,
     DeleteChunks, delete_document, At, ForgetSteps
<1> QED BY <1>2, <1>3, <1>4

\* A forget that ends and does not fail has deleted the row it found.
LEMMA ForgetEnds ==
  ASSUME CallInv, NEW c \in Callers, Forget(c), ~Active(c)', ~Raise(c), Current(c)
  PROVE  row'[op[c].doc].st = "none"
<1>0. Shape /\ Active(c) /\ op[c] \in Calls /\ op[c].doc \in Docs
  BY StepCallInv, ActiveIsCall DEF CallInv, Frame
<1>1. ASSUME NEW p \in Steps PROVE ~Go(c, p)
  <2> SUFFICES ASSUME Go(c, p) PROVE FALSE
    OBVIOUS
  <2>1. op'[c].pc = p
    BY <1>0, GoMoves DEF OnTo
  <2> QED BY <2>1 DEF Active
<1>2. ~List(c)
  <2> SUFFICES ASSUME List(c) PROVE FALSE
    OBVIOUS
  <2>1. op'[c].pc = "delvec"
    BY <1>0, ListSets
  <2> QED BY <2>1 DEF Active, Steps
<1>3. ~(DeleteVector(c) \/ DeleteGraph(c) \/ StripVector(c) \/ StripGraph(c))
  BY <1>1 DEF DeleteVector, DeleteGraph, StripVector, StripGraph, Steps
<1>4. ~(DeleteNodes(c) \/ DeleteChunks(c))
  BY <1>1 DEF DeleteNodes, DeleteChunks, Steps
<1>5. row' = [row EXCEPT ![op[c].doc].st = "none", ![op[c].doc].text = None]
  BY <1>2, <1>3, <1>4 DEF Forget, delete_document
<1>6. row[op[c].doc] \in [st : Status, text : Texts \cup {None}, inc : Nat]
  BY <1>0 DEF Shape
<1>7. row'[op[c].doc] = [row[op[c].doc] EXCEPT !.st = "none", !.text = None]
  BY <1>0, <1>5 DEF Shape
<1> QED BY <1>6, <1>7

\* A document that is sound after a step was sound before, or is new.
LEMMA SoundBefore ==
  ASSUME CallInv, NEW c \in Callers, Remember(c) \/ Forget(c), NEW d \in Docs, Sound(d)'
  PROVE  \/ Sound(d) /\ row'[d].inc = row[d].inc
         \/ Insert(c) /\ Inserts(c) /\ d = op[c].doc
<1>0. Shape /\ Frame(c) /\ Active(c) /\ op[c].doc \in Docs
  BY StepCallInv DEF CallInv, Frame
<1>1. d \notin scarred' /\ row'[d].st # "none"
  BY DEF Sound
<1>2. ASSUME NEW f \in Callers, f # c, Forgets(f) PROVE op[f].doc # d
  <2>1. op'[f] = op[f] /\ Forgets(f)'
    BY <1>0, <1>2 DEF Frame, Forgets, Active
  <2> QED BY <2>1 DEF Sound
<1>3. CASE d # op[c].doc
  <2>1. row'[d] = row[d] /\ d \notin scarred
    BY <1>0, <1>1, <1>3 DEF Frame
  <2> QED BY <1>1, <1>2, <1>3, <2>1 DEF Sound
<1>4. CASE d = op[c].doc /\ Stays(c)
  <2>1. row'[d].inc = row[d].inc /\ row[d].st # "none" /\ d \notin scarred
    BY <1>1, <1>4 DEF Stays
  <2>2. ~Forgets(c)
    <3> SUFFICES ASSUME Forgets(c) PROVE FALSE
      OBVIOUS
    <3>1. Forget(c)
      BY WhoForgets DEF Forgets
    <3>2. ~Active(c)'
      <4> SUFFICES ASSUME Active(c)' PROVE FALSE
        OBVIOUS
      <4>1. op'[c].doc = d /\ op'[c].kind = "forget"
        BY <1>0, <1>4 DEF Frame, Forgets, Active, Idle, Steps
      <4> QED BY <4>1 DEF Sound, Forgets
    <3>3. ~Raise(c)
      BY <1>0, <1>1, <1>4, EndMoves
    <3>4. Current(c)
      BY <1>4, <2>1 DEF CallInv, RowStays
    <3> QED BY <1>1, <1>4, <3>1, <3>2, <3>3, <3>4, ForgetEnds
  <2> QED BY <1>2, <2>1, <2>2 DEF Sound
<1> QED BY <1>3, <1>4, StepStays

\* A document that is about to be inserted is no source yet.
LEMMA NewIsNoSource ==
  ASSUME CallInv, Fresh, NEW c \in Callers, Insert(c), Inserts(c), NEW d, d = op[c].doc,
         NEW e \in Entities
  PROVE  <<d, row'[d].inc>> \notin vec'[e].src /\ <<d, row'[d].inc>> \notin graph'[e].src
<1>1. d \in Docs /\ row[d].inc \in Nat
  BY StepCallInv DEF CallInv, Frame, Remember, Shape
<1>2. row'[d].inc = row[d].inc + 1 /\ vec' = vec /\ graph' = graph
  BY DEF Inserts
<1> QED BY <1>1, <1>2 DEF Fresh, Sources

\* What a sound document sources in the graph it sources in pgvector, too.
LEMMA StepBacked ==
  ASSUME CallInv, Fresh, Backed, Spared, Upserted, NEW c \in Callers, Remember(c) \/ Forget(c)
  PROVE  Backed'
<1>0. Frame(c) /\ Active(c) /\ Moves(c)
  BY StepCallInv, StepMoves DEF Frame
<1> SUFFICES ASSUME NEW d \in Docs, Sound(d)', NEW e \in Entities, <<d, row'[d].inc>> \in graph'[e].src
             PROVE  <<d, row'[d].inc>> \in vec'[e].src \cup vec'[e].out
  BY DEF Backed, Now
<1>1. CASE Insert(c) /\ Inserts(c) /\ d = op[c].doc
  BY <1>1, NewIsNoSource
<1>2. CASE Sound(d) /\ row'[d].inc = row[d].inc
  <2> DEFINE n == <<d, row[d].inc>>
  <2>0. n = Now(d) /\ n = <<d, row'[d].inc>>
    BY <1>2 DEF Now
  <2> HIDE DEF n
  <2>1. n \in vec[e].src \cup vec[e].out
    <3>1. CASE n \in graph[e].src
      BY <1>2, <2>0, <3>1 DEF Backed
    <3>2. CASE n \notin graph[e].src
      <4>1. n = Id(c) /\ n \in graph'[e].src
        BY <1>0, <2>0, <3>2, OtherSources
      <4>2. op[c].pc = "graph" /\ e \in NetNew(c)
        BY <1>0, <3>2, <4>1 DEF Moves, Same, Shed, Gone
      <4>3. op[c].doc = d
        BY <2>0, <4>1 DEF Id, Now
      <4>4. At(c, "graph") /\ op[c].doc \notin scarred /\ Id(c) = Now(op[c].doc)
        BY <1>0, <1>2, <2>0, <4>1, <4>2, <4>3 DEF At, Sound
      <4> QED BY <4>1, <4>2, <4>4 DEF Upserted
    <3> QED BY <3>1, <3>2
  <2>2. CASE n # Id(c)
    <3>1. ASSUME n \notin vec'[e].src \cup vec'[e].out PROVE FALSE
      <4>1. op[c].pc = "delvec" /\ e \in op[c].gone /\ n \in vec[e].src
        BY <1>0, <2>1, <2>2, <3>1, OtherSources
      <4>2. Forgets(c)
        BY <1>0, <4>1 DEF CallInv, Kinds, KindOf, ForgetSteps, Forgets
      <4> QED BY <1>2, <2>0, <4>1, <4>2 DEF Spared
    <3> QED BY <2>0, <3>1
  <2>3. CASE n = Id(c)
    <3>1. op[c].doc = d
      BY <2>0, <2>3 DEF Id, Now
    <3>2. ~Forgets(c)
      BY <1>2, <3>1 DEF Sound
    <3>3. op[c].pc \notin {"stripvec", "delvec"}
      BY <1>0, <3>2 DEF CallInv, Kinds, KindOf, ForgetSteps, Forgets
    <3>4. n \in vec'[e].src \cup vec'[e].out
      BY <1>0, <2>1, <2>3, <3>3 DEF Moves, Same, Grown
    <3> QED BY <2>0, <3>4
  <2> QED BY <2>2, <2>3
<1> QED BY <1>1, <1>2, SoundBefore
\* A remember beside a forget is at a document that is not sound.
LEMMA BesideForget ==
  ASSUME CallInv, NEW c \in Callers, NEW f \in Callers, f # c, Active(c), ~Forgets(c), Forgets(f)
  PROVE  op[c].doc \in scarred
BY DEF CallInv, Company, Forgets

\* The orphans a forget lists: what its document alone sources.
LEMMA ListsOrphans ==
  ASSUME Shape, NEW f \in Callers, List(f), ~Raise(f), NEW e \in op'[f].gone
  PROVE  /\ Id(f) \in vec[e].src /\ Cardinality(vec[e].src) = 1
         /\ vec' = vec /\ graph' = graph
<1> DEFINE mine == Sourced(vec, Id(f))
           s == Sole(vec, mine)
<1>1. /\ op'[f].pc = "delvec" /\ op'[f].gone = s /\ op'[f].strip = mine \ s
      /\ op'[f].ids = [x \in Entities |-> vec[x].id]
      /\ op'[f].doc = op[f].doc /\ op'[f].inc = op[f].inc /\ vec' = vec /\ graph' = graph
  BY ListSets
<1> QED BY <1>1 DEF Sole, Sourced

\* What a forget has found to be its own alone no sound document sources.
LEMMA StepSpared ==
  ASSUME CallInv, Fresh, Backed, Spared, NEW c \in Callers, Remember(c) \/ Forget(c)
  PROVE  Spared'
<1>0. Shape /\ Shape' /\ Frame(c) /\ Active(c) /\ Moves(c)
  BY StepCallInv, StepMoves DEF CallInv, Frame
<1> SUFFICES ASSUME NEW f \in Callers, Forgets(f)', op'[f].pc \in {"delvec", "delgraph"},
                    NEW d \in Docs, Sound(d)', NEW e \in op'[f].gone
             PROVE  /\ <<d, row'[d].inc>> \notin vec'[e].src
                    /\ <<d, row'[d].inc>> \in graph'[e].src => <<d, row'[d].inc>> \in vec'[e].out
  BY DEF Spared, Now
<1>e. e \in Entities
  <2>1. op'[f] \in Calls
    <3>1. op'[f] \in {Idle, Absentee} \cup Calls
      BY <1>0 DEF Shape
    <3>2. Idle.pc = "idle" /\ Absentee.pc = "absent"
      BY DEF Idle, Absentee
    <3> QED BY <3>1, <3>2
  <2> QED BY <2>1 DEF Calls
<1>1. CASE Insert(c) /\ Inserts(c) /\ d = op[c].doc
  BY <1>1, <1>e, NewIsNoSource
<1>2. CASE Sound(d) /\ row'[d].inc = row[d].inc
  <2> DEFINE n == <<d, row[d].inc>>
  <2>0. n = Now(d) /\ n = <<d, row'[d].inc>>
    BY <1>2 DEF Now
  <2> HIDE DEF n
  <2>1. CASE f = c
    <3>1. Forgets(c) /\ Active(c)'
      BY <1>0, <2>1 DEF Frame, Forgets, Active, Idle, Steps
    <3>2. op[c].doc # d /\ Forget(c) /\ ~Raise(c) /\ ~Return(c) /\ op[c] \in Calls
      BY <1>0, <1>2, <3>1, WhoForgets, EndMoves, ActiveIsCall DEF Sound, Forgets, Active, Idle, Steps
    <3>3. n # Id(c)
      BY <2>0, <3>2 DEF Id, Now
    <3>4. CASE List(c)
      <4>1. Id(c) \in vec[e].src /\ Cardinality(vec[e].src) = 1 /\ vec' = vec /\ graph' = graph
        BY <1>0, <2>1, <3>2, <3>4, ListsOrphans
      <4>3. n \notin vec[e].src
        <5>1. IsFiniteSet(vec[e].src)
          BY <1>e DEF Fresh, Sources
        <5>2. \E x : vec[e].src = {x}
          BY <4>1, <5>1, FS_Singleton
        <5> QED BY <3>3, <4>1, <5>2
      <4>4. n \in graph[e].src => n \in vec[e].out
        BY <1>2, <1>e, <2>0, <4>3 DEF Backed
      <4> QED BY <2>0, <4>1, <4>3, <4>4
    <3>5. CASE DeleteVector(c)
      <4>1. op[c].pc = "delvec" /\ Go(c, "delgraph") /\ "delgraph" \in Steps
        BY <3>2, <3>5 DEF DeleteVector, At, Steps
      <4>2. op'[c].gone = op[c].gone
        BY <1>0, <4>1, GoMoves DEF OnTo
      <4>3. n \notin vec[e].src /\ (n \in graph[e].src => n \in vec[e].out)
        BY <1>2, <2>0, <2>1, <3>1, <4>1, <4>2 DEF Spared
      <4> QED BY <1>0, <1>e, <2>0, <3>3, <4>3, OtherSources
    <3>6. CASE ~List(c) /\ ~DeleteVector(c)
      <4>1. \E p \in {"stripvec", "stripgraph", "delnodes", "delchunks", "delrow"} : Go(c, p)
        BY <3>2, <3>6 DEF Forget, DeleteGraph, StripVector, StripGraph, DeleteNodes, DeleteChunks,
           delete_document
      <4>2. op'[c].pc \in {"stripvec", "stripgraph", "delnodes", "delchunks", "delrow"}
        BY <1>0, <4>1, GoMoves DEF OnTo, Steps
      <4> QED BY <2>1, <4>2
    <3> QED BY <3>4, <3>5, <3>6
  <2>2. CASE f # c
    <3>1. op'[f] = op[f] /\ Forgets(f)
      BY <1>0, <2>2 DEF Frame, Forgets, Active
    <3>2. n \notin vec[e].src /\ (n \in graph[e].src => n \in vec[e].out)
      BY <1>2, <2>0, <3>1 DEF Spared
    <3>3. CASE n # Id(c)
      BY <1>0, <1>e, <2>0, <3>2, <3>3, OtherSources
    <3>4. CASE n = Id(c)
      <4>1. op[c].doc = d
        BY <2>0, <3>4 DEF Id, Now
      <4>2. Forgets(c)
        BY <1>0, <1>2, <2>2, <3>1, <4>1, BesideForget DEF Sound
      <4> QED BY <1>2, <4>1, <4>2 DEF Sound
    <3> QED BY <3>3, <3>4
  <2> QED BY <2>1, <2>2
<1> QED BY <1>1, <1>2, SoundBefore

\* Until a remember is through with the graph nothing takes what it has put into
\* pgvector.
LEMMA StepUpserted ==
  ASSUME CallInv, Fresh, Upserted, NEW c \in Callers, Remember(c) \/ Forget(c)
  PROVE  Upserted'
<1>0. Shape /\ Shape' /\ Frame(c) /\ Active(c) /\ Moves(c) /\ op[c] \in Calls
  BY StepCallInv, StepMoves, ActiveIsCall DEF CallInv, Frame
<1> SUFFICES ASSUME NEW x \in Callers, At(x, "graph")', op'[x].doc \notin scarred',
                    Id(x)' = <<op'[x].doc, row'[op'[x].doc].inc>>, NEW e \in NetNew(x)'
             PROVE  Id(x)' \in vec'[e].src \cup vec'[e].out
  BY DEF Upserted, Now
<1>1. CASE x = c
  <2>1. UpsertVector(c) /\ Go(c, "graph") /\ "graph" \in Steps
    <3>1. ~Return(c) /\ ~Raise(c)
      BY <1>0, <1>1, EndMoves DEF At, Active, Idle, Steps
    <3>2. op'[c].pc = "graph"
      BY <1>1 DEF At
    <3>3. ASSUME NEW p \in Steps, Go(c, p) PROVE p = "graph"
      BY <1>0, <3>2, <3>3, GoMoves DEF OnTo
    <3>4. ~Insert(c)
      <4>1. Insert(c) => Inserts(c) \/ op'[c].pc = "wipe"
        BY <1>0, <1>1, InsertSteady DEF At
      <4> QED BY <3>2, <4>1 DEF Inserts
    <3>5. ~Prefetch(c) /\ ~List(c)
      BY <1>0, <3>1, <3>2, PrefetchSets, ListSets DEF PrefetchDoes
    <3>6. \A p \in Steps : p # "graph" => ~Go(c, p)
      BY <3>3
    <3>7. ~(WipeChunks(c) \/ WipeNodes(c) \/ WriteChunks(c) \/ MarkFailed(c) \/ Commit(c) \/ Complete(c))
      BY <3>1, <3>6 DEF WipeChunks, WipeNodes, WriteChunks, MarkFailed, Commit, Complete, Steps
    <3>8. ~MirrorChunks(c)
      <4>1. MirrorChunks(c) => Go(c, "prefetch") \/ Go(c, "vector") \/ Go(c, "complete")
        BY DEF MirrorChunks
      <4> QED BY <3>6, <4>1 DEF Steps
    <3>9. ~(Retire(c) \/ Remap(c) \/ StripDropped(c) \/ UpsertGraph(c) \/ Link(c))
      BY <3>1, <3>6 DEF Retire, Remap, StripDropped, UpsertGraph, Link, Degrade, Steps
    <3>10. ~Forget(c)
      BY <3>1, <3>5, <3>6 DEF Forget, DeleteVector, DeleteGraph, StripVector, StripGraph, DeleteNodes,
         DeleteChunks, delete_document, Steps
    <3>11. UpsertVector(c)
      BY <3>4, <3>5, <3>7, <3>8, <3>9, <3>10 DEF Remember
    <3> QED BY <3>1, <3>11 DEF UpsertVector, Degrade, Steps
  <2>2. NetNew(c)' = NetNew(c) /\ Id(c)' = Id(c)
    BY <1>0, <2>1, GoMoves DEF OnTo, NetNew, Extracted, Id
  <2>3. vec' \in Upsert(vec, NetNew(c), Id(c), op[c].n)
    BY <1>0, <1>1, <2>1, EndMoves DEF UpsertVector, Degrade, At, Active, Idle, Steps
  <2>4. e \in Entities
    BY <1>0, <1>1, <2>2, RemembersText, DocumentsAssumption, <2>1
       DEF NetNew, Extracted, UpsertVector, At, ForgetSteps
  <2>5. Grown(vec[e], vec'[e], Id(c))
    <3>1. vec \in [Entities -> Stored] /\ Sources(vec)
      BY <1>0 DEF Shape, Fresh
    <3>2. e \in NetNew(c)
      BY <1>1, <2>2
    <3> QED BY <2>3, <2>4, <3>1, <3>2, UpsertGrows
  <2> QED BY <1>1, <2>2, <2>5 DEF Grown
<1>2. CASE x # c
  <2>1. op'[x] = op[x] /\ At(x, "graph")
    BY <1>0, <1>2 DEF Frame, At, Active
  <2>2. Id(x)' = Id(x) /\ NetNew(x)' = NetNew(x) /\ ~Forgets(x) /\ Active(x)
    BY <2>1 DEF Id, NetNew, Extracted, CallInv, Kinds, KindOf, ForgetSteps, Forgets, At
  <2>3. op[x].doc \in Docs /\ op[x].inc \in Nat /\ op[x].inc <= row[op[x].doc].inc
    BY <1>0, <2>2, ActiveIsCall DEF Calls, Fresh
  <2>4. op[x].inc = row'[op[x].doc].inc
    BY <2>1 DEF Id, Now
  <2>5. row'[op[x].doc].inc = row[op[x].doc].inc /\ op[x].doc \notin scarred
    <3>1. CASE op[x].doc # op[c].doc
      BY <1>0, <2>1, <2>3, <3>1 DEF Frame
    <3>2. CASE op[x].doc = op[c].doc /\ Stays(c)
      BY <2>1, <3>2 DEF Stays
    <3>3. CASE op[x].doc = op[c].doc /\ Inserts(c)
      BY <1>0, <2>3, <2>4, <3>3 DEF Inserts, Shape
    <3> QED BY <3>1, <3>2, <3>3, StepStays
  <2>6. e \in Entities /\ Id(x) \in vec[e].src \cup vec[e].out
    <3>1. Id(x) = Now(op[x].doc)
      BY <2>4, <2>5 DEF Id, Now
    <3>2. e \in NetNew(x)
      BY <2>2
    <3>3. Id(x) \in vec[e].src \cup vec[e].out
      BY <2>1, <2>5, <3>1, <3>2 DEF Upserted
    <3>4. op[x].text \in Texts
      BY <2>1, <2>2, RemembersText DEF At, ForgetSteps
    <3> QED BY <3>2, <3>3, <3>4, DocumentsAssumption DEF NetNew, Extracted
  <2>7. ~Forgets(c)
    BY <1>0, <1>2, <2>2, <2>5, BesideForget
  <2>8. op[c].pc \notin {"delvec", "stripvec"}
    BY <1>0, <2>7 DEF CallInv, Kinds, KindOf, ForgetSteps, Forgets
  <2>9. Id(x) \in vec'[e].src \cup vec'[e].out
    BY <1>0, <2>6, <2>8 DEF Moves, Same, Grown
  <2> QED BY <2>2, <2>9
<1> QED BY <1>1, <1>2
\* What a replace keeps is its own, and it does not strip it.
LEMMA PrefetchSorts ==
  ASSUME Shape, NEW c \in Callers, Prefetch(c), ~Raise(c)
  PROVE  /\ op'[c].pc = "commit" /\ Id(c)' = Id(c) /\ graph' = graph
         /\ \A e \in op'[c].kept : Id(c) \in graph[e].src
         /\ vec' = vec
         /\ op'[c].kept \cap op'[c].strip = {}
<1>1. /\ op'[c].pc = "commit" /\ op'[c].kept = KeptBy(c)
      /\ op'[c].strip = (fetch_document_extraction_state(c) \ SoleOf(c)) \ KeptBy(c)
      /\ op'[c].doc = op[c].doc /\ op'[c].inc = op[c].inc /\ UNCHANGED <<vec, graph>>
  BY PrefetchSets DEF PrefetchDoes
<1>2. \A e \in KeptBy(c) : Id(c) \in graph[e].src
  BY DEF KeptBy, fetch_document_extraction_state, Sourced
<1>3. Id(c)' = Id(c)
  BY <1>1 DEF Id
<1> QED BY <1>1, <1>2, <1>3

\* A remember that is alone puts into the graph what its text mentions: what the
\* document has already is neither upserted nor stripped.
LEMMA OwnLinked ==
  ASSUME CallInv, Fresh, NEW c \in Callers, Remember(c) \/ Forget(c), Active(c)',
         op[c].doc \notin scarred => Linked(c), op'[c].doc \notin scarred'
  PROVE  Linked(c)'
<1>0. /\ Shape /\ Frame(c) /\ Active(c) /\ op[c] \in Calls /\ ~Return(c) /\ ~Raise(c)
      /\ op'[c].doc = op[c].doc /\ KindOf(op'[c]) /\ KindOf(op[c])
      /\ op'[c].kind = "forget" <=> op[c].kind = "forget"
  BY StepCallInv, ActiveIsCall, EndMoves DEF CallInv, Kinds, Frame, Active, Idle, Steps
<1>1. CASE Insert(c)
  <2>1. op'[c].pc \in {"write", "wipe"}
    BY <1>0, <1>1, InsertSteady DEF Inserts
  <2> QED BY <2>1 DEF Linked
<1>2. CASE Forget(c)
  <2>1. op'[c].pc \in ForgetSteps
    BY <1>0, <1>2, WhoForgets DEF KindOf
  <2> QED BY <2>1 DEF Linked, ForgetSteps
<1>3. CASE ~Insert(c) /\ ~Forget(c)
  <2>0. Linked(c) /\ op[c].kind # "forget"
    BY <1>0, <1>3, StepSteady, WhoForgets DEF Steady
  <2>1. ASSUME NEW p \in Steps, Go(c, p)
        PROVE  /\ op'[c].pc = p /\ op'[c].kept = op[c].kept /\ op'[c].strip = op[c].strip
               /\ op'[c].text = op[c].text /\ op'[c].kind = op[c].kind /\ Id(c)' = Id(c)
               /\ Extracted(c)' = Extracted(c)
    BY <1>0, <2>1, GoMoves DEF OnTo, Id, Extracted
  <2>2. CASE WipeChunks(c) \/ WipeNodes(c) \/ WriteChunks(c) \/ MarkFailed(c) \/ Complete(c)
    <3>1. \E p \in {"wipenodes", "write", "mirror", "mark"} : Go(c, p)
      BY <1>0, <2>2 DEF WipeChunks, WipeNodes, WriteChunks, MarkFailed, Complete
    <3>2. op'[c].pc \in {"wipenodes", "write", "mirror", "mark"}
      BY <2>1, <3>1 DEF Steps
    <3> QED BY <3>2 DEF Linked
  <2>3. CASE MirrorChunks(c)
    <3>1. \/ Go(c, "prefetch")
          \/ Go(c, "vector") /\ op[c].kind = "create"
          \/ Go(c, "complete") /\ op[c].kind # "replace" /\ ~(op[c].kind = "create" /\ Extracted(c) # {})
      BY <2>3 DEF MirrorChunks
    <3>2. "prefetch" \in Steps /\ "vector" \in Steps /\ "complete" \in Steps
      BY DEF Steps
    <3>3. CASE Go(c, "prefetch")
      BY <2>1, <3>2, <3>3 DEF Linked
    <3>4. CASE Go(c, "vector") /\ op[c].kind = "create"
      <4>1. op'[c].pc = "vector" /\ op'[c].kept = {}
        BY <1>0, <2>1, <3>2, <3>4 DEF KindOf
      <4> QED BY <4>1 DEF Linked
    <3>5. CASE Go(c, "complete") /\ op[c].kind # "replace" /\ ~(op[c].kind = "create" /\ Extracted(c) # {})
      <4>1. Extracted(c) = {}
        BY <1>0, <2>0, <3>5 DEF Calls
      <4>2. op'[c].pc = "complete" /\ Extracted(c)' = {}
        BY <2>1, <3>2, <3>5, <4>1
      <4> QED BY <4>2 DEF Linked
    <3> QED BY <3>1, <3>3, <3>4, <3>5
  <2>4. CASE Prefetch(c)
    <3>1. /\ op'[c].pc = "commit" /\ Id(c)' = Id(c) /\ graph' = graph
          /\ \A e \in op'[c].kept : Id(c) \in graph[e].src
          /\ vec' = vec
          /\ op'[c].kept \cap op'[c].strip = {}
      BY <1>0, <2>4, PrefetchSorts
    <3> QED BY <3>1 DEF Linked, On
  <2>5. CASE Commit(c) \/ Remap(c)
    <3>1. /\ op[c].pc \in {"commit", "remap"} /\ graph' = graph /\ vec' = vec
          /\ \E p \in {"retire", "strip"} : Go(c, p)
      BY <1>0, <2>5 DEF Commit, Remap, Degrade, At
    <3>2. PICK p \in {"retire", "strip"} : Go(c, p)
      BY <3>1
    <3>3. p \in Steps
      BY DEF Steps
    <3>4. /\ op'[c].pc = p /\ op'[c].kept = op[c].kept /\ op'[c].strip = op[c].strip /\ Id(c)' = Id(c)
      BY <2>1, <3>2, <3>3
    <3> QED BY <2>0, <3>1, <3>4 DEF Linked, On
  <2>6. CASE Retire(c)
    <3>1. /\ op[c].pc = "retire" /\ Go(c, "remap") /\ "remap" \in Steps
          /\ Moves(c)
      BY <1>0, <2>6, StepMoves DEF Retire, Degrade, At, Steps
    <3>2. \A e \in op[c].kept : On(e, Id(c))'
      <4>1. \A e \in op[c].kept : e \in Entities /\ On(e, Id(c))
        BY <1>0, <2>0, <3>1 DEF Linked, Calls
      <4> QED BY <2>1, <3>1, <4>1 DEF Moves, Same, On
    <3> QED BY <2>0, <2>1, <3>1, <3>2 DEF Linked
  <2>7. CASE StripDropped(c)
    <3>1. /\ op[c].pc = "strip" /\ Go(c, "vector") /\ "vector" \in Steps
          /\ graph' = Strip(graph, op[c].strip, op[c].ids, Id(c)) /\ vec' = vec
      BY <1>0, <2>7 DEF StripDropped, Degrade, At, Steps
    <3>2. \A e \in op[c].kept : e \in Entities /\ e \notin op[c].strip /\ On(e, Id(c))
      BY <1>0, <2>0, <3>1 DEF Linked, Calls
    <3>3. \A e \in op[c].kept : On(e, Id(c))'
      <4>1. \A e \in op[c].kept : graph'[e] = graph[e]
        BY <3>1, <3>2 DEF Strip, Matched
      <4> QED BY <2>1, <3>1, <3>2, <4>1 DEF On
    <3> QED BY <2>1, <3>1, <3>3 DEF Linked
  <2>8. CASE UpsertVector(c)
    <3>1. /\ op[c].pc = "vector" /\ Go(c, "graph") /\ "graph" \in Steps /\ graph' = graph
          /\ vec' \in Upsert(vec, NetNew(c), Id(c), op[c].n)
      BY <1>0, <2>8 DEF UpsertVector, Degrade, At, Steps
    <3>2. ASSUME NEW e \in op[c].kept PROVE On(e, Id(c))'
      <4>1. e \in Entities /\ e \notin NetNew(c) /\ On(e, Id(c))
        BY <1>0, <2>0, <3>1 DEF Linked, NetNew, Calls
      <4>2. vec'[e] = vec[e]
        BY <1>0, <3>1, <4>1, UpsertGrows DEF Fresh, Shape
      <4> QED BY <2>1, <3>1, <4>1, <4>2 DEF On
    <3> QED BY <2>0, <2>1, <3>1, <3>2 DEF Linked
  <2>9. CASE UpsertGraph(c)
    <3>1. /\ op[c].pc = "graph" /\ Go(c, "link") /\ "link" \in Steps
          /\ graph' \in Upsert(graph, NetNew(c), Id(c), op[c].n) /\ vec' = vec
      BY <1>0, <2>9 DEF UpsertGraph, Degrade, At, Steps
    <3>2. op[c].text \in Texts
      BY <1>0, <3>1, RemembersText DEF ForgetSteps
    <3>3. ASSUME NEW e \in Extracted(c) PROVE On(e, Id(c))'
      <4>1. e \in Entities
        BY <3>2, DocumentsAssumption DEF Extracted
      <4>2. IF e \in NetNew(c) THEN Grown(graph[e], graph'[e], Id(c)) ELSE graph'[e] = graph[e]
        BY <1>0, <3>1, <4>1, UpsertGrows DEF Fresh, Shape
      <4>3. e \notin NetNew(c) => On(e, Id(c))
        BY <2>0, <3>1 DEF NetNew, Linked
      <4> QED BY <2>1, <3>1, <4>2, <4>3 DEF Grown, On
    <3>4. op'[c].pc = "link" /\ Extracted(c)' = Extracted(c) /\ Id(c)' = Id(c)
      BY <2>1, <3>1
    <3> QED BY <3>3, <3>4 DEF Linked
  <2>10. CASE Link(c)
    <3>1. /\ op[c].pc = "link" /\ graph' = graph /\ vec' = vec
          /\ \E p \in {"complete", "mark"} : Go(c, p)
      BY <1>0, <2>10 DEF Link, At
    <3>2. PICK p \in {"complete", "mark"} : Go(c, p)
      BY <3>1
    <3>3. p \in Steps
      BY DEF Steps
    <3>4. op'[c].pc = p /\ Extracted(c)' = Extracted(c) /\ Id(c)' = Id(c)
      BY <2>1, <3>2, <3>3
    <3>5. \A e \in Extracted(c) : On(e, Id(c))
      BY <2>0, <3>1 DEF Linked
    <3> QED BY <3>1, <3>4, <3>5 DEF Linked, On
  <2> QED BY <1>3, <2>2, <2>3, <2>4, <2>5, <2>6, <2>7, <2>8, <2>9, <2>10 DEF Remember
<1> QED BY <1>1, <1>2, <1>3

\* Nothing another call does takes that away.
LEMMA StepLinked ==
  ASSUME CallInv, Fresh, LinkedAll, NEW c \in Callers, Remember(c) \/ Forget(c)
  PROVE  LinkedAll'
<1>0. Shape /\ Frame(c) /\ Active(c) /\ Moves(c)
  BY StepCallInv, StepMoves DEF CallInv, Frame
<1> SUFFICES ASSUME NEW x \in Callers, Active(x)', op'[x].alone, op'[x].doc \notin scarred'
             PROVE  Linked(x)'
  BY DEF LinkedAll
<1>1. CASE x = c
  <2>1. op[c].alone
    BY <1>0, <1>1 DEF Frame, Active, Idle, Steps
  <2>2. op[c].doc \notin scarred => Linked(c)
    BY <1>0, <2>1 DEF LinkedAll
  <2> QED BY <1>1, <2>2, OwnLinked
<1>2. CASE x # c
  <2>1. op'[x] = op[x] /\ Active(x) /\ op[x].alone /\ op[x] \in Calls
    BY <1>0, <1>2, ActiveIsCall DEF Frame, Active
  <2>2. op[x].doc # op[c].doc
    BY <1>0, <1>2, <2>1 DEF CallInv, Company
  <2>3. op[x].doc \notin scarred
    BY <1>0, <2>1, <2>2 DEF Frame
  <2>4. Linked(x) /\ Id(x)' = Id(x) /\ Extracted(x)' = Extracted(x)
    BY <2>1, <2>3 DEF LinkedAll, Id, Extracted
  <2>5. CASE Forgets(x)
    <3>1. op'[x].pc \in ForgetSteps
      BY <2>1, <2>5 DEF CallInv, Kinds, KindOf, Forgets
    <3> QED BY <3>1 DEF Linked, ForgetSteps
  <2>6. CASE ~Forgets(x)
    <3>1. ~Forgets(c)
      BY <1>2, <2>1, <2>3, <2>6, BesideForget
    <3>2. op[c].pc # "delgraph"
      BY <1>0, <3>1 DEF CallInv, Kinds, KindOf, ForgetSteps, Forgets
    <3>3. Id(x) # Id(c)
      BY <2>2 DEF Id
    <3>4. \A e \in Entities : On(e, Id(x)) => On(e, Id(x))'
      BY <1>0, <2>4, <3>2, <3>3, OtherSources DEF On
    <3>5. op[x].text \in Texts /\ op[x].kept \subseteq Entities
      BY <2>1, <2>6, RemembersText DEF CallInv, Kinds, KindOf, Forgets, Calls
    <3>6. Extracted(x) \subseteq Entities
      BY <3>5, DocumentsAssumption DEF Extracted
    <3> QED BY <2>1, <2>4, <3>4, <3>5, <3>6 DEF Linked
  <2> QED BY <2>5, <2>6
<1> QED BY <1>1, <1>2

\* Nor from a document that has settled.
LEMMA StepMentioned ==
  ASSUME CallInv, DocInv, Fresh, Spared, LinkedAll, Mentioned,
         NEW c \in Callers, Remember(c) \/ Forget(c)
  PROVE  Mentioned'
<1>0. Shape /\ Frame(c) /\ Active(c) /\ Moves(c) /\ CallInv'
  BY StepCallInv, StepMoves DEF CallInv, Frame
<1> SUFFICES ASSUME NEW d \in clean' \ scarred', row'[d].st = "completed",
                    NEW e \in Mentions[row'[d].text]
             PROVE  On(e, Now(d))'
  BY DEF Mentioned
<1>d. d \in Docs /\ row'[d].text \in Texts /\ e \in Entities
  <2>1. d \in Docs
    BY <1>0 DEF CallInv, Shape
  <2>2. row'[d].text \in Texts
    BY <1>0, <2>1 DEF CallInv, Shape, RowOK
  <2> QED BY <2>1, <2>2, DocumentsAssumption
<1>1. CASE d \in clean
  <2>1. d # op[c].doc /\ row'[d] = row[d]
    BY <1>0, <1>1, SettledStays
  <2>2. d \notin scarred
    BY <1>0, <2>1 DEF Frame
  <2>3. On(e, Now(d)) /\ Now(d)' = Now(d)
    BY <1>1, <2>1, <2>2 DEF Mentioned, Now
  <2>4. Now(d) # Id(c)
    BY <2>1 DEF Now, Id
  <2>5. Sound(d)
    <3>1. \A f \in Callers : Forgets(f) => op[f].doc # d
      BY <1>1 DEF CallInv, Company, Forgets
    <3> QED BY <2>1, <2>2, <3>1 DEF Sound
  <2>6. op[c].pc = "delgraph" => Forgets(c)
    BY <1>0 DEF CallInv, Kinds, KindOf, ForgetSteps, Forgets
  <2>7. op[c].pc = "delgraph" /\ e \in op[c].gone /\ Now(d) \in graph[e].src => Now(d) \in vec[e].out
    BY <1>0, <1>d, <2>5, <2>6 DEF Spared
  <2> QED BY <1>0, <1>d, <2>3, <2>4, <2>7, OtherSources DEF On
<1>2. CASE d \notin clean
  <2>1. /\ d = op[c].doc /\ op[c].alone /\ Exact(d)' /\ row'[d].text = op[c].text
        /\ op[c].pc \in {"link", "complete", "delrow"} /\ Current(c)
        /\ graph' = graph /\ vec' = vec /\ scarred' = scarred /\ row'[d].inc = row[d].inc
    BY <1>2, Settles
  <2>2. op[c].pc \in {"link", "complete"}
    <3>1. op[c].text # None
      BY <1>d, <2>1, DocumentsAssumption
    <3> QED BY <1>0, <2>1, <3>1 DEF CallInv, Kinds, KindOf, ForgetSteps
  <2>3. On(e, Id(c))
    BY <1>0, <2>1, <2>2 DEF LinkedAll, Linked, Extracted
  <2>4. Id(c) = Now(d)'
    BY <2>1 DEF Current, Id, Now
  <2> QED BY <2>1, <2>3, <2>4 DEF On
<1> QED BY <1>1, <1>2
\* The beginning of a call changes no store and no other call's part.
LEMMA BeginEntityInv ==
  ASSUME CallInv, EntityInv, NEW c \in Callers, NEW d \in Docs, NEW t, NEW kind, Begins(c, d, t, kind)
  PROVE  EntityInv'
<1>0. /\ UNCHANGED <<row, vec, graph>> /\ ~Active(c) /\ scarred \subseteq scarred' /\ clean' \subseteq clean
      /\ op'[c].pc \in {"list", "insert", "wipe"} /\ op'[c].doc = d /\ op'[c].inc = row[d].inc
  BY DEF Begins
<1>1. ASSUME NEW x \in Callers, x # c, Active(x)'
      PROVE  /\ Active(x) /\ op'[x].pc = op[x].pc /\ op'[x].kind = op[x].kind
             /\ op'[x].doc = op[x].doc /\ op'[x].inc = op[x].inc
             /\ op'[x].gone = op[x].gone /\ op'[x].strip = op[x].strip /\ op'[x].ids = op[x].ids
             /\ op'[x].alone => op[x].alone
             /\ Id(x)' = Id(x) /\ Extracted(x)' = Extracted(x) /\ NetNew(x)' = NetNew(x)
             /\ op'[x].kept = op[x].kept
  BY <1>1 DEF Begins, Active, Id, Extracted, NetNew
<1>2. ASSUME NEW x \in Callers, Active(x) PROVE Active(x)' /\ x # c
  BY <1>0, <1>2 DEF Begins, Active
<1>3. \A y \in Docs : Now(y)' = Now(y)
  BY <1>0 DEF Now
<1>4. ASSUME NEW y \in Docs, Sound(y)' PROVE Sound(y)
  BY <1>0, <1>1, <1>2, <1>4 DEF Sound, Forgets
<1>5. Fresh'
  <2>1. Sources(vec)' /\ Sources(graph)'
    BY <1>0 DEF EntityInv, Fresh, Sources
  <2>2. ASSUME NEW x \in Callers, Active(x)' PROVE op'[x].inc <= row'[op'[x].doc].inc
    <3>1. CASE x = c
      <4>1. row[d].inc \in Nat
        BY DEF CallInv, Shape
      <4> QED BY <1>0, <3>1, <4>1
    <3>2. CASE x # c
      BY <1>0, <1>1, <2>2, <3>2 DEF EntityInv, Fresh
    <3> QED BY <3>1, <3>2
  <2> QED BY <2>1, <2>2 DEF Fresh
<1>6. ListedAll'
  <2> SUFFICES ASSUME NEW f \in Callers, Forgets(f)', op'[f].alone PROVE Listed(f)'
    BY DEF ListedAll
  <2>1. CASE f = c
    BY <1>0, <2>1 DEF Listed
  <2>2. CASE f # c
    <3>1. Forgets(f) /\ op[f].alone
      BY <1>1, <2>2 DEF Forgets
    <3>2. Listed(f)
      BY <3>1 DEF EntityInv, ListedAll
    <3>3. /\ op'[f].pc = op[f].pc /\ op'[f].gone = op[f].gone /\ op'[f].strip = op[f].strip
          /\ op'[f].ids = op[f].ids /\ Id(f)' = Id(f) /\ vec' = vec
      BY <1>0, <1>1, <2>2 DEF Forgets
    <3> QED BY <3>2, <3>3 DEF Listed
  <2> QED BY <2>1, <2>2
<1>7. ForgottenSourcesNothing'
  BY <1>0 DEF EntityInv, ForgottenSourcesNothing
<1>8. Backed'
  BY <1>0, <1>3, <1>4 DEF EntityInv, Backed
<1>9. Spared'
  <2> SUFFICES ASSUME NEW f \in Callers, Forgets(f)', op'[f].pc \in {"delvec", "delgraph"},
                      NEW y \in Docs, Sound(y)', NEW e \in op'[f].gone
               PROVE  /\ Now(y)' \notin vec'[e].src
                      /\ Now(y)' \in graph'[e].src => Now(y)' \in vec'[e].out
    BY DEF Spared
  <2>1. f # c
    BY <1>0
  <2>2. Forgets(f) /\ op[f].pc \in {"delvec", "delgraph"} /\ e \in op[f].gone
    BY <1>1, <2>1 DEF Forgets
  <2> QED BY <1>0, <1>3, <1>4, <2>2 DEF EntityInv, Spared
<1>10. Upserted'
  <2> SUFFICES ASSUME NEW x \in Callers, At(x, "graph")', op'[x].doc \notin scarred',
                      Id(x)' = <<op'[x].doc, row'[op'[x].doc].inc>>, NEW e \in NetNew(x)'
               PROVE  Id(x)' \in vec'[e].src \cup vec'[e].out
    BY DEF Upserted, Now
  <2>1. x # c
    BY <1>0 DEF At
  <2>2. /\ At(x, "graph") /\ op[x].doc \notin scarred /\ Id(x) = Now(op[x].doc) /\ e \in NetNew(x)
        /\ Id(x)' = Id(x)
    BY <1>0, <1>1, <2>1 DEF At, Now
  <2> QED BY <1>0, <2>2 DEF EntityInv, Upserted
<1>11. LinkedAll'
  <2> SUFFICES ASSUME NEW x \in Callers, Active(x)', op'[x].alone, op'[x].doc \notin scarred'
               PROVE  Linked(x)'
    BY DEF LinkedAll
  <2>1. CASE x = c
    BY <1>0, <2>1 DEF Linked
  <2>2. CASE x # c
    <3>1. Active(x) /\ op[x].alone /\ op[x].doc \notin scarred
      BY <1>0, <1>1, <2>2
    <3>2. Linked(x)
      BY <3>1 DEF EntityInv, LinkedAll
    <3>3. /\ op'[x].pc = op[x].pc /\ op'[x].kept = op[x].kept /\ op'[x].strip = op[x].strip
          /\ Id(x)' = Id(x) /\ Extracted(x)' = Extracted(x) /\ UNCHANGED <<vec, graph>>
      BY <1>0, <1>1, <2>2
    <3> QED BY <3>2, <3>3 DEF Linked, On
  <2> QED BY <2>1, <2>2
<1>12. Mentioned'
  <2>1. clean' \subseteq Docs
    BY <1>0 DEF CallInv, Shape
  <2> QED BY <1>0, <1>3, <2>1 DEF EntityInv, Mentioned, On
<1> QED BY <1>5, <1>6, <1>7, <1>8, <1>9, <1>10, <1>11, <1>12 DEF EntityInv

\* After a crash no call has a part any more.
LEMMA CrashEntityInv ==
  ASSUME CallInv, EntityInv, Crash PROVE EntityInv'
<1>0. /\ UNCHANGED <<row, vec, graph, clean>> /\ scarred \subseteq scarred'
      /\ \A x \in Callers : ~Active(x)'
      /\ \A f \in Callers : Forgets(f) => op[f].doc \in scarred'
  BY CrashCallInv DEF Crash
<1>1. \A x \in Callers : ~Forgets(x)' /\ ~At(x, "graph")'
  BY <1>0 DEF Forgets, At
<1>2. \A y \in Docs : Now(y)' = Now(y) /\ (Sound(y)' => Sound(y))
  BY <1>0 DEF Now, Sound
<1>3. Fresh'
  BY <1>0 DEF EntityInv, Fresh, Sources
<1>4. ForgottenSourcesNothing' /\ Backed'
  BY <1>0, <1>2 DEF EntityInv, ForgottenSourcesNothing, Backed
<1>5. Mentioned'
  <2>1. clean' \subseteq Docs
    BY <1>0 DEF CallInv, Shape
  <2> QED BY <1>0, <1>2, <2>1 DEF EntityInv, Mentioned, On
<1>6. ListedAll' /\ Spared' /\ Upserted' /\ LinkedAll'
  BY <1>0, <1>1 DEF ListedAll, Spared, Upserted, LinkedAll
<1> QED BY <1>3, <1>4, <1>5, <1>6 DEF EntityInv

\* Before the first call nothing sources anything.
LEMMA InitEntityInv ==
  ASSUME Init PROVE EntityInv
<1>0. \A c \in Callers : ~Active(c) /\ ~Forgets(c) /\ ~At(c, "graph")
  BY InitCallInv DEF Forgets, At
<1>1. /\ \A e \in Entities : vec[e].src = {} /\ graph[e].src = {} /\ vec[e].out = {} /\ graph[e].out = {}
      /\ \A d \in Docs : row[d].st = "none" /\ row[d].inc = 0
      /\ clean = Docs
  BY DEF Init, Absent
<1>2. Fresh
  BY <1>0, <1>1, FS_EmptySet DEF Fresh, Sources
<1>3. ListedAll /\ Spared /\ Upserted /\ LinkedAll
  BY <1>0 DEF ListedAll, Spared, Upserted, LinkedAll
<1>4. ForgottenSourcesNothing /\ Backed /\ Mentioned
  BY <1>1 DEF ForgottenSourcesNothing, Backed, Mentioned
<1> QED BY <1>2, <1>3, <1>4 DEF EntityInv

\* Every step keeps what is said of the entities.
LEMMA NextEntityInv ==
  ASSUME CallInv, DocInv, EntityInv, [Next]_vars PROVE EntityInv'
<1>1. ASSUME NEW c \in Callers, NEW d \in Docs, NEW t \in Texts \cup {None}, Begin(c, d, t)
      PROVE  EntityInv'
  BY <1>1, BeginBegins, BeginEntityInv DEF CallInv
<1>2. ASSUME NEW c \in Callers, Remember(c) \/ Forget(c) PROVE EntityInv'
  <2>1. Fresh' /\ ListedAll' /\ ForgottenSourcesNothing'
    BY <1>2, StepFresh, StepListed, StepForgotten DEF EntityInv
  <2>2. Backed' /\ Spared' /\ Upserted'
    BY <1>2, StepBacked, StepSpared, StepUpserted DEF EntityInv
  <2>3. LinkedAll' /\ Mentioned'
    BY <1>2, StepLinked, StepMentioned DEF EntityInv
  <2> QED BY <2>1, <2>2, <2>3 DEF EntityInv
<1>3. CASE Crash
  BY <1>3, CrashEntityInv
<1>4. CASE UNCHANGED vars
  <2>1. /\ Fresh' /\ ListedAll' /\ ForgottenSourcesNothing'
    BY <1>4 DEF vars, EntityInv, Fresh, Sources, ListedAll, Listed, ForgottenSourcesNothing,
       Active, Forgets, Id
  <2>2. Backed' /\ Spared' /\ Upserted'
    BY <1>4 DEF vars, EntityInv, Backed, Spared, Upserted, Sound, Now, Active, Forgets, Id, At,
       NetNew, Extracted
  <2>3. LinkedAll' /\ Mentioned'
    BY <1>4 DEF vars, EntityInv, LinkedAll, Linked, On, Mentioned, Now, Active, Id, Extracted
  <2> QED BY <2>1, <2>2, <2>3 DEF EntityInv
<1> QED BY <1>1, <1>2, <1>3, <1>4 DEF Next

\* The whole invariant holds in every state.
LEMMA EntityInvHolds == Spec => [](CallInv /\ EntityInv)
<1>1. Init => EntityInv
  BY InitEntityInv
<1>2. (CallInv /\ DocInv) /\ EntityInv /\ [Next]_vars => EntityInv'
  BY NextEntityInv
<1> QED BY <1>1, <1>2, DocInvHolds, PTL DEF Spec

\* A forget that returns, undisturbed on its document, leaves it the source of
\* no entity of pgvector, whatever was remembered and forgotten beside it.
THEOREM ForgetsAll == Spec => []ForgottenSourcesNothing
<1>1. EntityInv => ForgottenSourcesNothing
  BY DEF EntityInv
<1> QED BY <1>1, EntityInvHolds, PTL

\* No cascade of a forget takes an entity that a remembered text mentions: it is
\* in the graph, sourced by its document, unless newer sources have pushed the
\* document off a full list, for any length of the lists, a forget of that document
\* was cut half way or a forget ran beside one of the calls that remembered it.
THEOREM CascadeSparesOthers == Spec => []MentionedIsThere
<1>1. CallInv /\ EntityInv => MentionedIsThere
  <2> SUFFICES ASSUME CallInv, EntityInv, NEW d \in clean \ scarred, row[d].st = "completed",
                      NEW e \in Mentions[row[d].text], ~PushedOut(e, d)
               PROVE  graph[e].there /\ <<d, row[d].inc>> \in graph[e].src
    BY DEF MentionedIsThere
  <2>1. <<d, row[d].inc>> \in graph[e].src
    BY DEF EntityInv, Mentioned, Now, On, PushedOut
  <2>2. e \in Entities
    <3>1. d \in Docs /\ row[d].text \in Texts
      BY DEF CallInv, Shape, RowOK
    <3> QED BY <3>1, DocumentsAssumption
  <2> QED BY <2>1, <2>2 DEF EntityInv, Fresh, Sources
<1> QED BY <1>1, EntityInvHolds, PTL

-------------------------------------------------------------------------------
(* The types, with their bounds *)

\* A set of numbers that is not empty has a smallest one.
LEMMA Smallest ==
  ASSUME NEW T \in SUBSET Nat, T # {}
  PROVE  \E x \in T : \A y \in T : ~(y < x)
<1> DEFINE R == OpToRel(<, Nat)
<1>1. IsWellFoundedOn(R, Nat) BY NatLessThanWellFounded
<1>2. \A x, y \in Nat : y < x => <<y, x>> \in R BY DEF OpToRel
<1> HIDE DEF R
<1>3. PICK x \in T : \A y \in T : ~(<<y, x>> \in R) BY <1>1, WFMin
<1> QED BY <1>2, <1>3

\* A finite one has a largest: the smallest one without would have a smaller.
LEMMA Largest ==
  ASSUME NEW S \in SUBSET Nat, IsFiniteSet(S), S # {}
  PROVE  Max(S) \in S /\ \A y \in S : Max(S) >= y
<1> DEFINE Bad(U) == IsFiniteSet(U) /\ U # {} /\ \A x \in U : \E y \in U : ~(x >= y)
           T == {k \in Nat : \E U \in SUBSET Nat : Bad(U) /\ Cardinality(U) = k}
<1>1. T = {}
  <2> SUFFICES ASSUME T # {} PROVE FALSE OBVIOUS
  <2>1. PICK k \in T : \A j \in T : ~(j < k) BY Smallest
  <2>2. PICK U \in SUBSET Nat : Bad(U) /\ Cardinality(U) = k OBVIOUS
  <2>3. PICK u : u \in U BY <2>2
  <2>4. /\ IsFiniteSet(U \ {u}) /\ Cardinality(U \ {u}) = k - 1
    BY <2>2, <2>3, FS_RemoveElement
  <2>5. Cardinality(U \ {u}) \in Nat BY <2>4, FS_CardinalityType
  <2>6. ~Bad(U \ {u})
    <3> SUFFICES ASSUME Bad(U \ {u}) PROVE FALSE OBVIOUS
    <3>1. k - 1 \in T BY <2>4, <2>5
    <3> HIDE DEF T
    <3>2. k \in Nat /\ k - 1 < k BY DEF T
    <3> QED BY <2>1, <3>1, <3>2
  <2>7. CASE U \ {u} = {} BY <2>2, <2>3, <2>7
  <2>8. CASE U \ {u} # {}
    <3>1. PICK m \in U \ {u} : \A y \in U \ {u} : m >= y BY <2>4, <2>6, <2>8
    <3>2. m \in Nat /\ u \in Nat /\ \A y \in U : y \in Nat BY <2>3
    <3>3. CASE m >= u BY <2>2, <3>1, <3>3
    <3>4. CASE ~(m >= u)
      <4>1. \A y \in U : u >= y BY <3>1, <3>2, <3>4
      <4> QED BY <2>2, <2>3, <4>1
    <3> QED BY <3>3, <3>4
  <2> QED BY <2>7, <2>8
<1>2. Cardinality(S) \in Nat BY FS_CardinalityType
<1>3. ~Bad(S) BY <1>1, <1>2
<1>4. \E x \in S : \A y \in S : x >= y BY <1>3
<1> QED BY <1>4 DEF Max

\* No session begins more calls than MaxOps.
LEMMA CallsFit == \A s \in Sessions : MaxOps \in Nat /\ s.calls \in 0 .. MaxOps
<1> SUFFICES ASSUME NEW s \in Sessions PROVE MaxOps \in Nat /\ s.calls \in 0 .. MaxOps OBVIOUS
<1> DEFINE calls == {r.calls : r \in Sessions}
<1>1. calls \in SUBSET Nat /\ s.calls \in calls BY DocumentsAssumption
<1>2. IsFiniteSet(calls)
  <2> DEFINE f == [r \in Sessions |-> r.calls]
  <2>1. f \in Surjection(Sessions, calls) BY DEF Surjection
  <2> QED BY <2>1, DocumentsAssumption, FS_Surjection DEF ExistsSurjection
<1> HIDE DEF calls
<1>3. Max(calls) \in calls /\ \A y \in calls : Max(calls) >= y BY <1>1, <1>2, Largest
<1> QED BY <1>1, <1>3 DEF MaxOps, calls

\* The numbers of the calls that have begun, and those among them whose call is
\* still to insert the document.
Begun == (ops + 1) .. MaxOps
Waiting(d) == {op[c].n : c \in {x \in Callers : At(x, "insert") /\ op[x].doc = d}}

\* A call has a number of its own, and a document was inserted no more often
\* than there are numbers to account for it.
Numbers ==
  /\ MaxOps \in Nat /\ ops \in 0 .. MaxOps
  /\ \A c \in Callers : Active(c) => op[c].n \in Begun
  /\ \A c, x \in Callers : Active(c) /\ Active(x) /\ op[c].n = op[x].n => c = x
  /\ \A d \in Docs : row[d].inc <= Cardinality(Begun \ Waiting(d))

IdsFit(store) == \A e \in Entities : store[e].id <= MaxOps

\* Entities have the numbers of calls for ids, and counting stops at two copies.
Bounds ==
  /\ IdsFit(vec) /\ IdsFit(graph)
  /\ \A c \in Callers : Active(c) => \A e \in Entities : op[c].ids[e] <= MaxOps
  /\ \A d \in Docs, t \in Texts : khora[d][t] <= 2
  /\ left \in Nat

\* Where a step takes its call: out, or on, past the insert, under its number.
Carries(c) ==
  \/ op'[c] = Idle
  \/ /\ op'[c].n = op[c].n /\ op'[c].pc # "insert"
     /\ \A e \in Entities : op'[c].ids[e] \in {op[c].ids[e], vec[e].id, graph[e].id}

\* A step that moves its call on, or ends it.
LEMMA GoCarries ==
  ASSUME Shape, NEW c \in Callers, Active(c),
         (\E p \in Steps \ {"insert"} : Go(c, p)) \/ Return(c) \/ Raise(c)
  PROVE  Carries(c)
<1>1. ASSUME NEW p \in Steps \ {"insert"}, Go(c, p) PROVE Carries(c)
  BY <1>1, GoMoves DEF OnTo, Carries
<1> QED BY <1>1, EndMoves DEF Carries

\* Every step does.
LEMMA StepCarries ==
  ASSUME CallInv, NEW c \in Callers, Remember(c) \/ Forget(c) PROVE Carries(c)
<1>0. Shape /\ Active(c) /\ op[c] \in Calls /\ op[c].doc \in Docs
  BY StepCallInv, ActiveIsCall DEF CallInv, Frame
<1>1. CASE \/ WipeChunks(c) \/ WipeNodes(c) \/ WriteChunks(c) \/ MirrorChunks(c) \/ MarkFailed(c)
           \/ Commit(c) \/ Retire(c) \/ Remap(c) \/ StripDropped(c)
  <2>1. (\E p \in {"wipenodes", "mark", "write", "mirror", "prefetch", "vector", "complete",
                   "retire", "remap", "strip"} : Go(c, p)) \/ Raise(c)
    BY <1>1 DEF WipeChunks, WipeNodes, WriteChunks, MirrorChunks, MarkFailed, Commit, Retire, Remap,
         StripDropped, Degrade
  <2>2. (\E p \in Steps \ {"insert"} : Go(c, p)) \/ Raise(c) BY <2>1 DEF Steps
  <2> QED BY <1>0, <2>2, GoCarries
<1>2. CASE \/ UpsertVector(c) \/ UpsertGraph(c) \/ Link(c) \/ Complete(c)
           \/ DeleteVector(c) \/ DeleteGraph(c) \/ StripVector(c) \/ StripGraph(c)
           \/ DeleteNodes(c) \/ DeleteChunks(c) \/ delete_document(c)
  <2>1. \/ \E p \in {"graph", "link", "complete", "mark", "delgraph", "stripvec", "stripgraph",
                     "delnodes", "delchunks", "delrow"} : Go(c, p)
        \/ Return(c) \/ Raise(c)
    BY <1>2 DEF UpsertVector, UpsertGraph, Link, Complete, DeleteVector, DeleteGraph, StripVector,
         StripGraph, DeleteNodes, DeleteChunks, delete_document, Degrade
  <2>2. (\E p \in Steps \ {"insert"} : Go(c, p)) \/ Return(c) \/ Raise(c) BY <2>1 DEF Steps
  <2> QED BY <1>0, <2>2, GoCarries
<1>3. CASE Insert(c)
  <2>1. CASE Return(c) \/ Raise(c) BY <1>0, <2>1, GoCarries
  <2>2. CASE op' = [op EXCEPT ![c].pc = "write", ![c].inc = row[op[c].doc].inc + 1]
    <3>1. op'[c] = [op[c] EXCEPT !.pc = "write", !.inc = row[op[c].doc].inc + 1]
      BY <1>0, <2>2 DEF Shape
    <3>2. op'[c].n = op[c].n /\ op'[c].pc = "write" /\ op'[c].ids = op[c].ids
      BY <1>0, <3>1 DEF Calls
    <3> QED BY <3>2 DEF Carries
  <2>3. CASE op' = [op EXCEPT ![c].pc = "wipe", ![c].inc = row[op[c].doc].inc, ![c].kind = "replace"]
    <3>1. op'[c] = [op[c] EXCEPT !.pc = "wipe", !.inc = row[op[c].doc].inc, !.kind = "replace"]
      BY <1>0, <2>3 DEF Shape
    <3>2. op'[c].n = op[c].n /\ op'[c].pc = "wipe" /\ op'[c].ids = op[c].ids
      BY <1>0, <3>1 DEF Calls
    <3> QED BY <3>2 DEF Carries
  <2> QED BY <1>3, <2>1, <2>2, <2>3 DEF Insert
<1>4. CASE Prefetch(c)
  <2>1. CASE Raise(c) BY <1>0, <2>1, GoCarries
  <2>2. CASE ~Raise(c)
    <3> DEFINE old == fetch_document_extraction_state(c)
               kept == old \cap Extracted(c)
               sole == Sole(graph, old)
               ii == [e \in Entities |-> graph[e].id]
    <3>1. op' = [op EXCEPT ![c].pc = "commit", ![c].kept = kept, ![c].gone = sole \ kept,
                           ![c].strip = (old \ sole) \ kept, ![c].ids = ii]
      BY <1>4, <2>2 DEF Prefetch
    <3> HIDE DEF old, kept, sole, ii
    <3>2. op'[c] = [op[c] EXCEPT !.pc = "commit", !.kept = kept, !.gone = sole \ kept,
                                 !.strip = (old \ sole) \ kept, !.ids = ii]
      BY <1>0, <3>1 DEF Shape
    <3>3. op'[c].n = op[c].n /\ op'[c].pc = "commit" /\ op'[c].ids = ii BY <1>0, <3>2 DEF Calls
    <3> QED BY <3>3 DEF Carries, ii
  <2> QED BY <2>1, <2>2
<1>5. CASE List(c)
  <2>1. CASE Raise(c) BY <1>0, <2>1, GoCarries
  <2>2. CASE ~Raise(c)
    <3>1. op'[c].pc = "delvec" /\ op'[c].n = op[c].n /\ op'[c].ids = [e \in Entities |-> vec[e].id]
      BY <1>0, <1>5, <2>2, ListSets
    <3> QED BY <3>1 DEF Carries
  <2> QED BY <2>1, <2>2
<1> QED BY <1>1, <1>2, <1>3, <1>4, <1>5 DEF Remember, Forget

\* The numbers that account for a document are finitely many, at most MaxOps.
LEMMA Accounts ==
  ASSUME MaxOps \in Nat, ops \in 0 .. MaxOps, NEW d
  PROVE  /\ IsFiniteSet(Begun \ Waiting(d))
         /\ Cardinality(Begun \ Waiting(d)) \in Nat
         /\ Cardinality(Begun \ Waiting(d)) <= MaxOps
<1>1. IsFiniteSet(1 .. MaxOps) /\ Cardinality(1 .. MaxOps) = MaxOps BY FS_Interval
<1>2. Begun \ Waiting(d) \in SUBSET (1 .. MaxOps) BY DEF Begun
<1> HIDE DEF Begun, Waiting
<1>3. /\ IsFiniteSet(Begun \ Waiting(d))
      /\ Cardinality(Begun \ Waiting(d)) <= Cardinality(1 .. MaxOps)
  BY <1>1, <1>2, FS_Subset
<1> QED BY <1>1, <1>3, FS_CardinalityType

\* More numbers account for as much.
LEMMA AccountsGrow ==
  ASSUME MaxOps \in Nat, (ops \in 0 .. MaxOps)', NEW d,
         (Begun \ Waiting(d)) \subseteq (Begun \ Waiting(d))'
  PROVE  /\ Cardinality(Begun \ Waiting(d)) \in Nat
         /\ Cardinality(Begun \ Waiting(d)) <= Cardinality((Begun \ Waiting(d))')
         /\ Cardinality((Begun \ Waiting(d))') \in Nat
<1> DEFINE A == Begun \ Waiting(d)
           B == (Begun \ Waiting(d))'
<1>1. IsFiniteSet(1 .. MaxOps) BY FS_Interval
<1>2. B \in SUBSET (1 .. MaxOps) BY DEF Begun
<1>3. A \subseteq B OBVIOUS
<1> HIDE DEF A, B
<1>4. IsFiniteSet(B) BY <1>1, <1>2, FS_Subset
<1>5. IsFiniteSet(A) /\ Cardinality(A) <= Cardinality(B) BY <1>3, <1>4, FS_Subset
<1>6. Cardinality(A) \in Nat /\ Cardinality(B) \in Nat BY <1>4, <1>5, FS_CardinalityType
<1> QED BY <1>5, <1>6 DEF A, B

\* A step of a call: its number is taken off the list when it inserts.
LEMMA StepNumbers ==
  ASSUME CallInv, Numbers, NEW c \in Callers, Remember(c) \/ Forget(c), ops' = ops
  PROVE  Numbers'
<1>0. Shape /\ Active(c) /\ op[c] \in Calls /\ op[c].doc \in Docs
  BY StepCallInv, ActiveIsCall DEF CallInv, Frame
<1>1. Carries(c) /\ \A x \in Callers \ {c} : op'[x] = op[x] BY StepCarries, StepCallInv DEF Frame
<1>2. /\ MaxOps \in Nat /\ ops \in 0 .. MaxOps /\ ops' \in 0 .. MaxOps /\ Begun' = Begun
  BY DEF Numbers, Begun
<1>3. \A x \in Callers : Active(x)' => Active(x) /\ op'[x].n = op[x].n
  BY <1>0, <1>1 DEF Carries, Active, Idle, Steps
<1>4. \A x \in Callers : Active(x)' => op'[x].n \in Begun' BY <1>2, <1>3 DEF Numbers
<1>5. \A y, x \in Callers : Active(y)' /\ Active(x)' /\ op'[y].n = op'[x].n => y = x
  BY <1>3 DEF Numbers
<1>6. \A x \in Callers : At(x, "insert")' => x # c /\ op'[x] = op[x] /\ At(x, "insert")
  BY <1>1 DEF Carries, At, Active, Idle
<1>7. \A d \in Docs : Waiting(d)' \subseteq Waiting(d) BY <1>6 DEF Waiting
<1>8. ASSUME NEW d \in Docs, row'[d].inc = row[d].inc
      PROVE  row'[d].inc <= Cardinality((Begun \ Waiting(d))')
  <2>1. (Begun \ Waiting(d)) \subseteq (Begun \ Waiting(d))' BY <1>2, <1>7
  <2>2. row[d].inc \in Nat /\ row[d].inc <= Cardinality(Begun \ Waiting(d))
    BY <1>0 DEF Shape, Numbers
  <2> QED BY <1>2, <1>8, <2>1, <2>2, AccountsGrow
<1>9. ASSUME NEW d \in Docs, d = op[c].doc, Insert(c), Inserts(c)
      PROVE  row'[d].inc <= Cardinality((Begun \ Waiting(d))')
  <2> DEFINE A == Begun \ Waiting(d)
             B == (Begun \ Waiting(d))'
             n == op[c].n
  <2>1. At(c, "insert") BY <1>9 DEF Insert
  <2>2. n \in Waiting(d) /\ n \in Begun BY <1>0, <1>9, <2>1 DEF Waiting, Numbers
  <2>3. n \notin Waiting(d)'
    <3> SUFFICES ASSUME NEW x \in Callers, At(x, "insert")', op'[x].n = n PROVE FALSE
      BY DEF Waiting
    <3>1. x # c /\ op[x].n = n /\ Active(x) BY <1>6 DEF At
    <3> QED BY <1>0, <3>1 DEF Numbers
  <2>4. A \cup {n} \subseteq B BY <1>2, <1>7, <2>2, <2>3
  <2>5. n \notin A BY <2>2
  <2>6. IsFiniteSet(A) /\ Cardinality(A) \in Nat BY <1>2, Accounts
  <2>7. row[d].inc \in Nat /\ row[d].inc <= Cardinality(A) /\ row'[d].inc = row[d].inc + 1
    BY <1>0, <1>9 DEF Shape, Numbers, Inserts
  <2>8. IsFiniteSet(B)
    <3>1. IsFiniteSet(1 .. MaxOps) BY <1>2, FS_Interval
    <3>2. B \in SUBSET (1 .. MaxOps) BY <1>2 DEF Begun
    <3> HIDE DEF B
    <3> QED BY <3>1, <3>2, FS_Subset
  <2> HIDE DEF A, B, n
  <2>9. Cardinality(A \cup {n}) = Cardinality(A) + 1 BY <2>5, <2>6, FS_AddElement
  <2>10. Cardinality(A \cup {n}) <= Cardinality(B) BY <2>4, <2>8, FS_Subset
  <2>11. Cardinality(B) \in Nat BY <2>8, FS_CardinalityType
  <2>12. row'[d].inc <= Cardinality(B) BY <2>6, <2>7, <2>9, <2>10, <2>11
  <2> QED BY <2>12 DEF B
<1>10. ASSUME NEW d \in Docs PROVE row'[d].inc <= Cardinality((Begun \ Waiting(d))')
  <2>1. CASE d # op[c].doc
    <3>1. row'[d] = row[d] BY <2>1, StepCallInv DEF Frame
    <3> QED BY <1>8, <3>1
  <2>2. CASE d = op[c].doc BY <1>8, <1>9, <2>2, StepStays DEF Stays
  <2> QED BY <2>1, <2>2
<1> QED BY <1>2, <1>4, <1>5, <1>10 DEF Numbers

\* A call begins under the next number.
LEMMA BeginNumbers ==
  ASSUME CallInv, Numbers, NEW c \in Callers, NEW d \in Docs, NEW t \in Texts \cup {None},
         Begin(c, d, t)
  PROVE  Numbers'
<1>0. Shape BY DEF CallInv
<1>1. PICK kind : Begins(c, d, t, kind) BY <1>0, BeginBegins
<1>2. op'[c].n = ops /\ ops > 0 /\ ops' = ops - 1 BY DEF Begin
<1>3. /\ MaxOps \in Nat /\ ops \in 1 .. MaxOps /\ ops' \in 0 .. MaxOps
  BY <1>2 DEF Numbers
<1>4. Begun' = Begun \cup {ops} /\ ops \notin Begun BY <1>2, <1>3 DEF Begun
<1>5. \A x \in Callers \ {c} : Active(x)' => Active(x) /\ op'[x].n = op[x].n
                                             /\ op'[x].pc = op[x].pc /\ op'[x].doc = op[x].doc
  BY <1>1 DEF Begins, Active
<1>6. \A x \in Callers : Active(x)' => op'[x].n \in Begun' BY <1>2, <1>4, <1>5 DEF Numbers
<1>7. \A y, x \in Callers : Active(y)' /\ Active(x)' /\ op'[y].n = op'[x].n => y = x
  <2> SUFFICES ASSUME NEW y \in Callers, NEW x \in Callers, Active(y)', Active(x)',
                      op'[y].n = op'[x].n, x # y
               PROVE  FALSE
    OBVIOUS
  <2>1. CASE x # c /\ y # c BY <1>5, <2>1 DEF Numbers
  <2>2. \A z \in Callers \ {c} : Active(z)' => op'[z].n # ops BY <1>4, <1>5 DEF Numbers
  <2> QED BY <1>2, <2>1, <2>2
<1>8. ASSUME NEW e \in Docs PROVE row'[e].inc <= Cardinality((Begun \ Waiting(e))')
  <2>1. Waiting(e)' \subseteq Waiting(e) \cup {ops} BY <1>2, <1>5 DEF Waiting, At
  <2>2. (Begun \ Waiting(e)) \subseteq (Begun \ Waiting(e))' BY <1>4, <2>1
  <2>3. row'[e].inc = row[e].inc /\ row[e].inc \in Nat
        /\ row[e].inc <= Cardinality(Begun \ Waiting(e))
    BY <1>0, <1>1 DEF Begins, Shape, Numbers
  <2> QED BY <1>3, <2>2, <2>3, AccountsGrow
<1> QED BY <1>3, <1>6, <1>7, <1>8 DEF Numbers

\* Every step keeps the account.
LEMMA NextNumbers ==
  ASSUME CallInv, Numbers, [Next]_vars PROVE Numbers'
<1>1. ASSUME NEW c \in Callers, Remember(c) \/ Forget(c) PROVE Numbers'
  <2>1. ops' = ops
    BY <1>1 DEF Remember, Forget, Insert, WipeChunks, WipeNodes, WriteChunks, MirrorChunks,
       MarkFailed, Prefetch, Commit, Retire, Remap, StripDropped, UpsertVector, UpsertGraph, Link,
       Complete, List, DeleteVector, DeleteGraph, StripVector, StripGraph, DeleteNodes,
       DeleteChunks, delete_document
  <2> QED BY <1>1, <2>1, StepNumbers
<1>2. CASE Crash
  <2>1. \A c \in Callers : ~Active(c)' BY <1>2, CrashCallInv
  <2>2. ops' = ops /\ row' = row /\ Begun' = Begun BY <1>2 DEF Crash, Begun
  <2>3. ASSUME NEW d \in Docs PROVE row'[d].inc <= Cardinality((Begun \ Waiting(d))')
    <3>1. Waiting(d)' = {} BY <2>1 DEF Waiting, At
    <3>2. (Begun \ Waiting(d)) \subseteq (Begun \ Waiting(d))' BY <2>2, <3>1
    <3>3. row[d].inc \in Nat /\ row[d].inc <= Cardinality(Begun \ Waiting(d))
      BY DEF Numbers, CallInv, Shape
    <3>4. MaxOps \in Nat /\ ops' \in 0 .. MaxOps BY <2>2 DEF Numbers
    <3> QED BY <2>2, <3>2, <3>3, <3>4, AccountsGrow
  <2> QED BY <2>1, <2>2, <2>3 DEF Numbers
<1>3. CASE UNCHANGED vars
  <2>1. Begun' = Begun /\ \A d : Waiting(d)' = Waiting(d)
    BY <1>3 DEF vars, Begun, Waiting, At, Active
  <2> QED BY <1>3, <2>1 DEF vars, Numbers, Active
<1> QED BY <1>1, <1>2, <1>3, BeginNumbers DEF Next

\* The entities' ids, whatever a step does to a store.
LEMMA StoresFit ==
  ASSUME MaxOps \in Nat, NEW store \in [Entities -> Stored], IdsFit(store)
  PROVE  /\ \A es, id, n, new : n \in 0 .. MaxOps /\ new \in Upsert(store, es, id, n) => IdsFit(new)
         /\ \A es, ids : IdsFit(Delete(store, es, ids))
         /\ \A es, ids, id : IdsFit(Strip(store, es, ids, id))
<1>1. ASSUME NEW es, NEW id, NEW n \in 0 .. MaxOps, NEW new \in Upsert(store, es, id, n),
             NEW e \in Entities
      PROVE  new[e].id <= MaxOps
  <2>1. new[e].id \in {store[e].id, n} BY <1>1 DEF Upsert, Merge
  <2>2. store[e].id <= MaxOps BY DEF IdsFit
  <2> QED BY <2>1, <2>2
<1>2. ASSUME NEW es, NEW ids, NEW e \in Entities PROVE Delete(store, es, ids)[e].id <= MaxOps
  BY DEF Delete, Absent, IdsFit
<1>3. ASSUME NEW es, NEW ids, NEW id, NEW e \in Entities
      PROVE  Strip(store, es, ids, id)[e].id <= MaxOps
  <2>1. [store[e] EXCEPT !.src = @ \ {id}].id = store[e].id BY DEF Stored
  <2>2. Strip(store, es, ids, id)[e] \in {store[e], [store[e] EXCEPT !.src = @ \ {id}]}
    BY Zenon DEF Strip
  <2> QED BY <2>1, <2>2 DEF IdsFit
<1> QED BY <1>1, <1>2, <1>3 DEF IdsFit

\* What a step does to the stores, by name.
LEMMA StepStores ==
  ASSUME CallInv, NEW c \in Callers, Remember(c) \/ Forget(c)
  PROVE  /\ \/ vec' = vec \/ vec' \in Upsert(vec, NetNew(c), Id(c), op[c].n)
            \/ vec' = Delete(vec, op[c].gone, op[c].ids)
            \/ vec' = Strip(vec, op[c].strip, op[c].ids, Id(c))
         /\ \/ graph' = graph \/ graph' \in Upsert(graph, NetNew(c), Id(c), op[c].n)
            \/ graph' = Delete(graph, op[c].gone, op[c].ids)
            \/ graph' = Strip(graph, op[c].strip, op[c].ids, Id(c))
            \/ Retire(c)
         /\ left' = left \/ Trouble
         /\ Insert(c) \/ WipeChunks(c) \/ WriteChunks(c) \/ DeleteChunks(c) \/ khora' = khora
<1>1. CASE Remember(c)
  BY <1>1 DEF Remember, Insert, WipeChunks, WipeNodes, WriteChunks, MirrorChunks, MarkFailed,
     Prefetch, Commit, Retire, Remap, StripDropped, UpsertVector, UpsertGraph, Link, Complete, Degrade
<1>2. CASE Forget(c)
  BY <1>2 DEF Forget, List, DeleteVector, DeleteGraph, StripVector, StripGraph, DeleteNodes,
     DeleteChunks, delete_document
<1> QED BY <1>1, <1>2

\* A step of a call keeps the bounds.
LEMMA StepBounds ==
  ASSUME CallInv, Numbers, Bounds, NEW c \in Callers, Remember(c) \/ Forget(c)
  PROVE  Bounds'
<1>0. Shape /\ Active(c) /\ op[c] \in Calls /\ op[c].doc \in Docs /\ op[c].text \in Texts \cup {None}
      /\ MaxOps \in Nat
  BY StepCallInv, ActiveIsCall DEF CallInv, Frame, Calls, Numbers
<1>1. op[c].n \in 0 .. MaxOps /\ vec \in [Entities -> Stored] /\ graph \in [Entities -> Stored]
      /\ IdsFit(vec) /\ IdsFit(graph) /\ left \in Nat
  BY <1>0 DEF Numbers, Begun, Shape, Bounds
<1>2. IdsFit(vec')
  <2>1. \/ vec' \in Upsert(vec, NetNew(c), Id(c), op[c].n)
        \/ vec' \in {vec, Delete(vec, op[c].gone, op[c].ids),
                     Strip(vec, op[c].strip, op[c].ids, Id(c))}
    BY StepStores
  <2> QED BY <1>0, <1>1, <2>1, StoresFit
<1>3. IdsFit(graph')
  <2>1. CASE Retire(c) /\ graph' # graph
    <3> SUFFICES ASSUME NEW e \in Entities PROVE graph'[e].id <= MaxOps BY DEF IdsFit
    <3>1. graph'[e] = [graph[e] EXCEPT !.retired = TRUE] \/ graph'[e] = graph[e]
      BY <2>1 DEF Retire
    <3>2. graph'[e].id = graph[e].id BY <1>1, <3>1 DEF Stored
    <3> QED BY <1>1, <3>2 DEF IdsFit
  <2>2. CASE \/ graph' \in Upsert(graph, NetNew(c), Id(c), op[c].n)
             \/ graph' \in {graph, Delete(graph, op[c].gone, op[c].ids),
                            Strip(graph, op[c].strip, op[c].ids, Id(c))}
    BY <1>0, <1>1, <2>2, StoresFit
  <2> QED BY <2>1, <2>2, StepStores
<1>4. \A x \in Callers : Active(x)' => \A e \in Entities : op'[x].ids[e] <= MaxOps
  <2>1. \A x \in Callers \ {c} : op'[x] = op[x] BY StepCallInv DEF Frame
  <2>2. Active(c)' => \A e \in Entities : op'[c].ids[e] <= MaxOps
    <3>1. Active(c)' => \A e \in Entities : op'[c].ids[e] \in {op[c].ids[e], vec[e].id, graph[e].id}
      BY StepCarries DEF Carries, Active, Idle, Steps
    <3> QED BY <1>0, <1>1, <3>1 DEF Bounds, IdsFit
  <2> QED BY <2>1, <2>2 DEF Bounds, Active
<1>5. \A d \in Docs, t \in Texts : khora'[d][t] <= 2
  <2>1. khora \in [Docs -> [Texts -> Nat]] /\ \A d \in Docs, t \in Texts : khora[d][t] <= 2
    BY <1>0 DEF Shape, Bounds
  <2>2. CASE khora' = khora \/ khora' = [khora EXCEPT ![op[c].doc] = NoChunks]
    BY <1>0, <2>1, <2>2 DEF NoChunks
  <2>3. CASE khora' = [khora EXCEPT ![op[c].doc][op[c].text] = IF @ < 2 THEN @ + 1 ELSE 2]
    <3> SUFFICES ASSUME NEW d \in Docs, NEW t \in Texts PROVE khora'[d][t] <= 2 OBVIOUS
    <3>1. khora'[d] = IF d = op[c].doc
                      THEN [khora[d] EXCEPT ![op[c].text] = IF @ < 2 THEN @ + 1 ELSE 2] ELSE khora[d]
      BY <1>0, <2>1, <2>3
    <3>2. khora[d] \in [Texts -> Nat] /\ khora[d][t] \in Nat /\ khora[d][t] <= 2 BY <2>1
    <3>3. khora'[d][t] \in {khora[d][t], IF khora[d][t] < 2 THEN khora[d][t] + 1 ELSE 2}
      BY <3>1, <3>2
    <3> QED BY <3>2, <3>3
  <2> QED BY <2>2, <2>3, StepStores DEF Insert, WipeChunks, WriteChunks, DeleteChunks
<1>6. left' \in Nat BY <1>1, StepStores DEF Trouble
<1> QED BY <1>2, <1>3, <1>4, <1>5, <1>6 DEF Bounds

\* So does every other.
LEMMA NextBounds ==
  ASSUME CallInv, Numbers, Bounds, [Next]_vars PROVE Bounds'
<1>1. ASSUME NEW c \in Callers, NEW d \in Docs, NEW t \in Texts \cup {None}, Begin(c, d, t)
      PROVE  Bounds'
  <2>0. Shape /\ MaxOps \in Nat BY DEF CallInv, Numbers
  <2>1. PICK kind : Begins(c, d, t, kind) BY <1>1, <2>0, BeginBegins
  <2>2. op'[c].ids = [e \in Entities |-> 0] /\ UNCHANGED <<vec, graph, khora, left>>
    BY <1>1 DEF Begin
  <2>3. \A x \in Callers \ {c} : Active(x)' => Active(x) /\ op'[x].ids = op[x].ids
    BY <2>1 DEF Begins, Active
  <2> QED BY <2>0, <2>2, <2>3 DEF Bounds, IdsFit
<1>2. CASE Crash
  <2>1. \A c \in Callers : ~Active(c)' BY <1>2, CrashCallInv
  <2> QED BY <1>2, <2>1 DEF Bounds, IdsFit, Crash, Trouble
<1>3. CASE UNCHANGED vars BY <1>3 DEF vars, Bounds, IdsFit, Active
<1> QED BY <1>1, <1>2, <1>3, StepBounds DEF Next

\* Before the first call.
LEMMA InitTypes == ASSUME Init PROVE Numbers /\ Bounds
<1>0. CallInv /\ \A c \in Callers : ~Active(c) BY InitCallInv
<1>1. PICK s \in Sessions : ops = s.calls /\ left = s.trouble BY DEF Init
<1>2. MaxOps \in Nat /\ ops \in 0 .. MaxOps /\ left \in Nat BY <1>1, CallsFit, DocumentsAssumption
<1>3. ASSUME NEW d \in Docs PROVE row[d].inc <= Cardinality(Begun \ Waiting(d))
  <2>1. row[d].inc = 0 BY DEF Init
  <2> QED BY <1>2, <2>1, Accounts
<1>4. \A d \in Docs, t \in Texts : khora[d][t] <= 2 BY DEF Init, NoChunks
<1>5. IdsFit(vec) /\ IdsFit(graph) BY <1>2 DEF Init, Absent, IdsFit
<1> QED BY <1>0, <1>2, <1>3, <1>4, <1>5 DEF Numbers, Bounds

\* Every state of the stores is well typed, for any documents, texts, entities,
\* callers and sessions: a document has had no more ids than calls have begun,
\* and every source, entity id and listed id is one that a call has given.
THEOREM DocumentTypes == Spec => []TypeOK
<1>1. Init => Numbers /\ Bounds BY InitTypes
<1>2. CallInv /\ (Numbers /\ Bounds) /\ [Next]_vars => (Numbers /\ Bounds)'
  BY NextNumbers, NextBounds
<1>3. CallInv /\ EntityInv /\ Numbers /\ Bounds => TypeOK
  <2> SUFFICES ASSUME CallInv, EntityInv, Numbers, Bounds PROVE TypeOK OBVIOUS
  <2>0. Shape /\ RowOK /\ Fresh BY DEF CallInv, EntityInv
  <2>1. MaxOps \in Nat /\ ops \in 0 .. MaxOps BY DEF Numbers
  <2>2. \A d \in Docs : row[d].inc \in 0 .. MaxOps
    <3> TAKE d \in Docs
    <3>1. row[d].inc \in Nat /\ row[d].inc <= Cardinality(Begun \ Waiting(d))
      BY <2>0 DEF Shape, Numbers
    <3> QED BY <2>1, <3>1, Accounts
  <2>3. row \in [Docs -> [st : Status, text : Texts \cup {None}, inc : 0 .. MaxOps]]
    BY <2>0, <2>2 DEF Shape
  <2>4. khora \in [Docs -> [Texts -> 0 .. 2]]
    <3>1. khora \in [Docs -> [Texts -> Nat]] BY <2>0 DEF Shape
    <3>2. \A d \in Docs, t \in Texts : khora[d][t] <= 2 BY DEF Bounds
    <3>3. ASSUME NEW d \in Docs PROVE khora[d] \in [Texts -> 0 .. 2]
      <4>1. khora[d] \in [Texts -> Nat] BY <3>1
      <4>2. \A t \in Texts : khora[d][t] \in 0 .. 2 BY <3>2, <4>1
      <4> QED BY <4>1, <4>2
    <3> QED BY <3>1, <3>3
  <2>5. ASSUME NEW store \in [Entities -> Stored], IdsFit(store), Sources(store)
        PROVE  store \in [Entities -> Entity]
    <3> SUFFICES ASSUME NEW e \in Entities PROVE store[e] \in Entity BY <2>5
    <3>1. store[e].id \in 0 .. MaxOps BY <2>1, <2>5 DEF Stored, IdsFit
    <3>2. ASSUME NEW x \in store[e].src \cup store[e].out PROVE x \in Ids
      <4>1. PICK d \in Docs, i \in Nat : x = <<d, i>> BY <2>5 DEF Stored
      <4>2. i <= row[d].inc BY <2>5, <4>1 DEF Sources
      <4> QED BY <2>1, <2>2, <4>1, <4>2 DEF Ids
    <3> QED BY <2>5, <3>1, <3>2 DEF Stored, Entity
  <2>6. vec \in [Entities -> Entity] /\ graph \in [Entities -> Entity]
    BY <2>0, <2>5 DEF Shape, Fresh, Bounds
  <2> DEFINE C == [pc : Steps, kind : {"create", "replace", "forget"}, doc : Docs,
                   inc : 0..MaxOps, text : Texts \cup {None}, n : 1..MaxOps,
                   gone : SUBSET Entities, strip : SUBSET Entities,
                   kept : SUBSET Entities, ids : [Entities -> 0..MaxOps],
                   alone : BOOLEAN, calm : BOOLEAN]
  <2>7. ASSUME NEW c \in Callers PROVE op[c] \in {Idle, Absentee} \cup C
    <3>1. CASE ~Active(c) BY <2>0, <3>1 DEF Shape, Active, Calls
    <3>2. CASE Active(c)
      <4>1. op[c] \in Calls BY <2>0, <3>2, ActiveIsCall
      <4>2. op[c].inc \in 0 .. MaxOps
        <5>1. op[c].inc \in Nat /\ op[c].doc \in Docs /\ op[c].inc <= row[op[c].doc].inc
          BY <2>0, <3>2, <4>1 DEF Calls, Fresh
        <5> QED BY <2>1, <2>2, <5>1
      <4>3. op[c].n \in 1 .. MaxOps BY <2>1, <3>2 DEF Numbers, Begun
      <4>4. op[c].ids \in [Entities -> 0 .. MaxOps]
        <5>1. op[c].ids \in [Entities -> Nat] /\ \A e \in Entities : op[c].ids[e] <= MaxOps
          BY <3>2, <4>1 DEF Calls, Bounds
        <5> QED BY <2>1, <5>1
      <4> QED BY <4>1, <4>2, <4>3, <4>4 DEF Calls
    <3> QED BY <3>1, <3>2
  <2>8. op \in [Callers -> {Idle, Absentee} \cup C] BY <2>0, <2>7 DEF Shape
  <2> QED BY <2>0, <2>1, <2>3, <2>4, <2>6, <2>8 DEF TypeOK, Shape, RowOK, Bounds
<1> QED BY <1>1, <1>2, <1>3, DocInvHolds, EntityInvHolds, PTL DEF Spec
===============================================================================
