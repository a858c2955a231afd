------------------------------ MODULE Documents ------------------------------
(***************************************************************************)
(* What Khora's remember and forget do to the stores behind one namespace: *)
(* the documents table, khora_chunks, the :Chunk mirror and the two entity *)
(* stores (pgvector's table and the Neo4j graph).                          *)
(*                                                                         *)
(* remember creates a document or, when its external id is known, replaces *)
(* it in place; forget removes it.  None of them is a transaction: each is *)
(* a series of calls to one store at a time, several callers run at once,  *)
(* every call may fail and the process may die between any two.            *)
(* Entities are shared: a store keeps with each the documents it came      *)
(* from, the newest SourceCap of them, and the last one takes it away.     *)
(*                                                                         *)
(* Relationships are treated like entities by the same code and are left   *)
(* out, as are embeddings, versions and MENTIONED_IN links (but not the    *)
(* failure of the linking call).                                           *)
(***************************************************************************)
EXTENDS Naturals, FiniteSets, FiniteSetsExt

CONSTANTS
  Docs,       \* external ids
  Texts,      \* contents
  Entities,   \* entity keys, (name, type)
  Mentions,   \* the entities extraction finds in each text
  Callers,    \* concurrent calls
  None,       \* no text
  SourceCap,  \* the most documents an entity keeps as its sources
  Sessions    \* the callers, and the bounds on calls and on trouble (failing
              \* store calls and crashes), of each kind of session

ASSUME DocumentsAssumption ==
  /\ None \notin Texts /\ SourceCap \in Nat \ {0}
  /\ Mentions \in [Texts -> SUBSET Entities]
  /\ Sessions \subseteq [callers : SUBSET Callers, calls : Nat, trouble : Nat]
  /\ IsFiniteSet(Sessions)

VARIABLES
  row,    \* documents: status, text and incarnation (a new id per insert)
  khora,  \* khora_chunks of the document's current id: copies of each text
  nodes,  \* :Chunk nodes of the document's current id
  vec,    \* entities in pgvector
  graph,  \* entities in Neo4j
  op,     \* the call each caller is in
  ops,    \* calls that may still begin
  clean,  \* history: documents whose last call succeeded, alone on them
  scarred, \* history: documents one of whose forgets was cut half way, or one
           \* of whose calls another call's forget ran beside
  left    \* trouble that may still come

vars == <<row, khora, nodes, vec, graph, op, ops, clean, scarred, left>>

MaxOps == Max({s.calls : s \in Sessions})

Status == {"none", "pending", "completed", "failed"}
Ids == Docs \X (0..MaxOps)
\* out is history: the sources that newer ones have pushed out.
Entity == [there : BOOLEAN, id : 0..MaxOps, src : SUBSET Ids, out : SUBSET Ids,
           retired : BOOLEAN]
Idle == [pc |-> "idle"]
Absentee == [pc |-> "absent"]
Steps == {"insert", "wipe", "wipenodes", "write", "mirror", "mark",
          "prefetch", "commit", "retire", "remap", "strip", "vector", "graph",
          "link", "complete", "list", "delvec", "delgraph", "stripvec",
          "stripgraph", "delnodes", "delchunks", "delrow"}

TypeOK ==
  /\ row \in [Docs -> [st : Status, text : Texts \cup {None}, inc : 0..MaxOps]]
  /\ \A d \in Docs : row[d].st = "none" <=> row[d].text = None
  /\ khora \in [Docs -> [Texts -> 0..2]]
  /\ nodes \in [Docs -> SUBSET Texts]
  /\ vec \in [Entities -> Entity] /\ graph \in [Entities -> Entity]
  /\ op \in [Callers -> {Idle, Absentee} \cup
             [pc : Steps, kind : {"create", "replace", "forget"}, doc : Docs,
              inc : 0..MaxOps, text : Texts \cup {None}, n : 1..MaxOps,
              gone : SUBSET Entities, strip : SUBSET Entities,
              kept : SUBSET Entities, ids : [Entities -> 0..MaxOps],
              alone : BOOLEAN, calm : BOOLEAN]]
  /\ ops \in 0..MaxOps
  /\ clean \subseteq Docs /\ scarred \subseteq Docs
  /\ left \in Nat

NoChunks == [t \in Texts |-> 0]
Absent == [there |-> FALSE, id |-> 0, src |-> {}, out |-> {}, retired |-> FALSE]

Init ==
  /\ row = [d \in Docs |-> [st |-> "none", text |-> None, inc |-> 0]]
  /\ khora = [d \in Docs |-> NoChunks]
  /\ nodes = [d \in Docs |-> {}]
  /\ vec = [e \in Entities |-> Absent]
  /\ graph = [e \in Entities |-> Absent]
  /\ \E s \in Sessions :
       /\ op = [c \in Callers |-> IF c \in s.callers THEN Idle ELSE Absentee]
       /\ ops = s.calls
       /\ left = s.trouble
  /\ clean = Docs /\ scarred = {}

-----------------------------------------------------------------------------
\* Helpers

Trouble == left > 0 /\ left' = left - 1
Active(c) == op[c].pc \in Steps
At(c, pc) == Active(c) /\ op[c].pc = pc
Go(c, pc) == op' = [op EXCEPT ![c].pc = pc]
Id(c) == <<op[c].doc, op[c].inc>>

\* The document's row is still the one the call found or inserted.
Current(c) == row[op[c].doc].st # "none" /\ row[op[c].doc].inc = op[c].inc

\* update_document: by id, so nothing happens to a row that is gone.
update_document(c, st) ==
  row' = IF Current(c)
         THEN [row EXCEPT ![op[c].doc].st = st, ![op[c].doc].text = op[c].text]
         ELSE row

\* The documents whose forget, by one of the callers, stops here.
Cut(cs) == {op[c].doc : c \in {x \in cs : Active(x) /\ op[x].kind = "forget"}}

Raise(c) ==
  /\ op' = [op EXCEPT ![c] = Idle]
  /\ scarred' = scarred \cup Cut({c})
  /\ UNCHANGED clean

Return(c) ==
  LET d == op[c].doc IN
  /\ op' = [op EXCEPT ![c] = Idle]
  /\ clean' = IF op[c].alone THEN clean \cup {d} ELSE clean
  /\ UNCHANGED scarred

History == <<clean, scarred>>

\* A source id is added (MERGE, ON CONFLICT), and what a full list then lets go:
\* its oldest ids, but the order is not kept here and it may be any.  (Neo4j
\* appends an id it has already, so that two calls that replace one document at
\* once fill its list sooner and spare an entity that is their document's alone
\* the retirement; no property is about that.)
Excess(src, id) ==
  {out \in SUBSET (src \ {id}) :
     Cardinality(out) = Max({0, Cardinality(src \cup {id}) - SourceCap})}
Evictions(store, es, id) ==
  {f \in [es -> SUBSET UNION {store[e].src : e \in es}] :
     \A e \in es : f[e] \in Excess(store[e].src, id)}

\* An entity that is created takes the id the call's extraction gave it.
Merge(store, es, id, n, lost) ==
  [e \in Entities |->
     IF e \notin es THEN store[e]
     ELSE [there |-> TRUE, id |-> IF store[e].there THEN store[e].id ELSE n,
           src |-> (store[e].src \cup {id}) \ lost[e],
           out |-> (store[e].out \cup lost[e]) \ {id},
           retired |-> store[e].there /\ store[e].retired]]
\* Mutant: a full list keeps its old ids and lets the new one go.
KeepOldest(store, es, id, n) ==
  {[f \in Entities |->
      IF f \in es /\ Cardinality(store[f].src \ {id}) >= SourceCap THEN store[f]
      ELSE Merge(store, es, id, n, [e \in es |-> {}])[f]]}

Upsert(store, es, id, n) ==
  {Merge(store, es, id, n, lost) : lost \in Evictions(store, es, id)}

\* The entities a document sources; of those, the ones no other document does
\* (_is_orphan; the rest are _is_survivor).
Sourced(store, id) == {e \in Entities : store[e].there /\ id \in store[e].src}
Sole(store, es) == {e \in es : Cardinality(store[e].src) = 1}

\* Rows are matched by the entity id the caller listed, not by key.
Matched(store, es, ids) == {e \in es : store[e].there /\ store[e].id = ids[e]}
Delete(store, es, ids) ==
  [e \in Entities |-> IF e \in Matched(store, es, ids)
                      THEN [Absent EXCEPT !.out = store[e].out] ELSE store[e]]
Strip(store, es, ids, id) ==
  [e \in Entities |-> IF e \in Matched(store, es, ids)
                      THEN [store[e] EXCEPT !.src = @ \ {id}] ELSE store[e]]

\* Chunks are extracted in memory: a text mentions what it mentions.
Extracted(c) == Mentions[op[c].text]

-----------------------------------------------------------------------------
\* remember: create or replace

\* A call begins: get_document_by_external_id (remember), get_document (forget,
\* which returns False when there is none and is then no call at all).
Begin(c, d, t) ==
  LET others == {x \in Callers \ {c} : Active(x)}
      same == {x \in others : op[x].doc = d}
      kind == IF t = None THEN "forget"
              ELSE IF row[d].st = "none" THEN "create" ELSE "replace"
      calm == \A x \in others : op[x].kind # "forget"
      me == [pc |-> CASE kind = "forget" -> "list"
                      [] kind = "create" -> "insert"
                      [] kind = "replace" -> "wipe",
             kind |-> kind, doc |-> d, inc |-> row[d].inc, text |-> t, n |-> ops,
             gone |-> {}, strip |-> {}, kept |-> {}, ids |-> [e \in Entities |-> 0],
             alone |-> same = {}, calm |-> calm]
  IN
  /\ op[c] = Idle /\ ops > 0
  /\ kind = "forget" => row[d].st # "none"
  /\ ops' = ops - 1
  /\ op' = [x \in Callers |->
              IF x = c THEN me
              ELSE IF x \in others
                   THEN [op[x] EXCEPT !.alone = @ /\ x \notin same,
                                      !.calm = @ /\ kind # "forget"]
                   ELSE op[x]]
  /\ clean' = clean \ {d}
  /\ scarred' = scarred \cup (IF kind = "forget" THEN {op[x].doc : x \in others}
                              ELSE IF calm THEN {} ELSE {d})
  /\ UNCHANGED <<row, khora, nodes, vec, graph, left>>

\* create_document.  The unique index makes the loser of a race replace the
\* winner's row; when the winner brought the same text and has not failed, the
\* checksum is found before that and the call is a duplicate.
Insert(c) ==
  LET d == op[c].doc  inc == row[d].inc + 1 IN
  /\ At(c, "insert")
  /\ \/ /\ row[d].st = "none"
        /\ row' = [row EXCEPT ![d] = [st |-> "pending", text |-> op[c].text, inc |-> inc]]
        /\ khora' = [khora EXCEPT ![d] = NoChunks]
        /\ nodes' = [nodes EXCEPT ![d] = {}]
        /\ scarred' = IF op[c].calm THEN scarred \ {d} ELSE scarred
        /\ op' = [op EXCEPT ![c].pc = "write", ![c].inc = inc]
        /\ UNCHANGED <<clean, left>>
     \/ /\ row[d].st # "none"
        /\ op' = [op EXCEPT ![c].pc = "wipe", ![c].inc = row[d].inc, ![c].kind = "replace"]
        /\ UNCHANGED <<row, khora, nodes, History, left>>
     \/ /\ row[d].st # "failed" /\ row[d].text = op[c].text
        /\ Return(c)
        /\ UNCHANGED <<row, khora, nodes, left>>
     \/ Trouble /\ Raise(c) /\ UNCHANGED <<row, khora, nodes>>
  /\ UNCHANGED <<vec, graph, ops>>

\* Mutant: only the mirror is wiped.
WipeForgotten(c) ==
  /\ At(c, "wipe")
  /\ Go(c, "wipenodes")
  /\ UNCHANGED <<row, khora, nodes, vec, graph, ops, History, left>>

\* _remember_via_replace chunks, embeds and extracts in memory, where a failure
\* changes nothing, and then wipes both chunk stores before it writes anything.
WipeChunks(c) ==
  LET d == op[c].doc IN
  /\ At(c, "wipe")
  /\ \/ /\ khora' = IF Current(c) THEN [khora EXCEPT ![d] = NoChunks] ELSE khora
        /\ Go(c, "wipenodes") /\ UNCHANGED <<left, History>>
     \/ Trouble /\ Go(c, "mark") /\ UNCHANGED <<khora, History>>
     \/ Trouble /\ Raise(c) /\ UNCHANGED khora
  /\ UNCHANGED <<row, nodes, vec, graph, ops>>

WipeNodes(c) ==
  LET d == op[c].doc IN
  /\ At(c, "wipenodes")
  /\ \/ /\ nodes' = IF Current(c) THEN [nodes EXCEPT ![d] = {}] ELSE nodes
        /\ Go(c, "write") /\ UNCHANGED left
     \/ Trouble /\ Go(c, "mark") /\ UNCHANGED nodes
  /\ UNCHANGED <<row, khora, vec, graph, ops, History>>

\* create_chunks_batch, under new chunk ids.  A failure leaves a created row
\* PENDING; a replaced one is marked FAILED.  Chunks of a row that is gone are
\* out of reach and not followed.
WriteChunks(c) ==
  /\ At(c, "write")
  /\ \/ /\ khora' = IF Current(c)
                    THEN [khora EXCEPT ![op[c].doc][op[c].text] = IF @ < 2 THEN @ + 1 ELSE 2]
                    ELSE khora
        /\ Go(c, "mirror") /\ UNCHANGED <<left, History>>
     \/ /\ Trouble /\ UNCHANGED khora
        /\ \/ op[c].kind = "create" /\ Raise(c)
           \/ op[c].kind = "replace" /\ Go(c, "mark") /\ UNCHANGED History
  /\ UNCHANGED <<row, nodes, vec, graph, ops>>

\* _mirror_chunks_or_degrade: the :Chunk nodes; a failure is only reported.
MirrorChunks(c) ==
  /\ At(c, "mirror")
  /\ \/ /\ nodes' = IF Current(c) THEN [nodes EXCEPT ![op[c].doc] = @ \cup {op[c].text}]
                    ELSE nodes
        /\ UNCHANGED left
     \/ Trouble /\ UNCHANGED nodes
  /\ Go(c, CASE op[c].kind = "replace" -> "prefetch"
             [] op[c].kind = "create" /\ Extracted(c) # {} -> "vector"
             [] OTHER -> "complete")
  /\ UNCHANGED <<row, khora, vec, graph, ops, History>>

\* mark_failed on the way out, best effort.
MarkFailed(c) ==
  /\ At(c, "mark")
  /\ \/ update_document(c, "failed") /\ UNCHANGED left
     \/ Trouble /\ UNCHANGED row
  /\ Raise(c)
  /\ UNCHANGED <<khora, nodes, vec, graph, ops>>

\* What the graph holds of the old text.
fetch_document_extraction_state(c) == Sourced(graph, Id(c))

\* replace_document_extraction, 1: the old entities are sorted into survivors,
\* entities to retire and entities to strip.
Prefetch(c) ==
  LET old == fetch_document_extraction_state(c)
      kept == old \cap Extracted(c)
      sole == Sole(graph, old)
  IN
  /\ At(c, "prefetch")
  /\ \/ /\ op' = [op EXCEPT ![c].pc = "commit", ![c].kept = kept,
                            ![c].gone = sole \ kept, ![c].strip = (old \ sole) \ kept,
                            ![c].ids = [e \in Entities |-> graph[e].id]]
        /\ UNCHANGED <<left, History>>
     \/ Trouble /\ Raise(c)
  /\ UNCHANGED <<row, khora, nodes, vec, graph, ops>>

\* 2: the transaction stamps COMPLETED; when it fails nothing of it happened,
\* and the row is left as it was.
Commit(c) ==
  /\ At(c, "commit")
  /\ \/ update_document(c, "completed") /\ Go(c, "retire") /\ UNCHANGED <<left, History>>
     \/ Trouble /\ Raise(c) /\ UNCHANGED row
  /\ UNCHANGED <<khora, nodes, vec, graph, ops>>

\* The call ends here: a create raises, a replace has committed and returns
\* degraded (GraphMirrorFailedAfterPGCommitError).
Degrade(c) == Trouble /\ Raise(c)

\* 3: the graph, after the commit.  Retired entities keep their sources.
Retire(c) ==
  /\ At(c, "retire")
  /\ \/ /\ graph' = [e \in Entities |-> IF e \in Matched(graph, op[c].gone, op[c].ids)
                                        THEN [graph[e] EXCEPT !.retired = TRUE] ELSE graph[e]]
        /\ Go(c, "remap") /\ UNCHANGED <<left, History>>
     \/ op[c].gone # {} /\ Degrade(c) /\ UNCHANGED graph
  /\ UNCHANGED <<row, khora, nodes, vec, ops>>

\* The old document id is swapped for the new one, which is the same id: the
\* survivors' sources are rewritten as they are.
Remap(c) ==
  /\ At(c, "remap")
  /\ \/ Go(c, "strip") /\ UNCHANGED <<left, History>>
     \/ op[c].kept # {} /\ Degrade(c)
  /\ UNCHANGED <<row, khora, nodes, vec, graph, ops>>

StripDropped(c) ==
  /\ At(c, "strip")
  /\ \/ /\ graph' = Strip(graph, op[c].strip, op[c].ids, Id(c))
        /\ Go(c, "vector") /\ UNCHANGED <<left, History>>
     \/ op[c].strip # {} /\ Degrade(c) /\ UNCHANGED graph
  /\ UNCHANGED <<row, khora, nodes, vec, ops>>

NetNew(c) == Extracted(c) \ op[c].kept

\* upsert_entities_batch: pgvector first, then the graph.
UpsertVector(c) ==
  /\ At(c, "vector")
  /\ \/ /\ vec' \in Upsert(vec, NetNew(c), Id(c), op[c].n)
        /\ Go(c, "graph") /\ UNCHANGED <<left, History>>
     \/ NetNew(c) # {} /\ Degrade(c) /\ UNCHANGED vec
  /\ UNCHANGED <<row, khora, nodes, graph, ops>>

UpsertGraph(c) ==
  /\ At(c, "graph")
  /\ \/ /\ graph' \in Upsert(graph, NetNew(c), Id(c), op[c].n)
        /\ Go(c, "link") /\ UNCHANGED <<left, History>>
     \/ NetNew(c) # {} /\ Degrade(c) /\ UNCHANGED graph
  /\ UNCHANGED <<row, khora, nodes, vec, ops>>

\* link_entities_to_chunks_batch.  In a replace its failure marks the document
\* FAILED; that of the source-chunk resets which end it does not.
Link(c) ==
  /\ At(c, "link")
  /\ \/ op[c].kind = "create" /\ Go(c, "complete") /\ UNCHANGED <<left, History>>
     \/ op[c].kind = "replace" /\ Return(c) /\ UNCHANGED left
     \/ /\ Extracted(c) # {} /\ Trouble
        /\ \/ op[c].kind = "create" /\ Raise(c)
           \/ op[c].kind = "replace" /\ Go(c, "mark") /\ UNCHANGED History
           \/ op[c].kind = "replace" /\ Raise(c)
  /\ UNCHANGED <<row, khora, nodes, vec, graph, ops>>

\* _process_document ends: mark_completed.
Complete(c) ==
  /\ At(c, "complete")
  /\ \/ update_document(c, "completed") /\ Return(c) /\ UNCHANGED left
     \/ Trouble /\ Raise(c) /\ UNCHANGED row
  /\ UNCHANGED <<khora, nodes, vec, graph, ops>>

-----------------------------------------------------------------------------
\* forget

\* Mutant: whatever the document sources is an orphan.
ListUncounted(c) ==
  /\ At(c, "list")
  /\ op' = [op EXCEPT ![c].pc = "delvec",
                      ![c].gone = Sourced(vec, Id(c)),
                      ![c].ids = [e \in Entities |-> vec[e].id]]
  /\ UNCHANGED <<row, khora, nodes, vec, graph, ops, History, left>>

\* cascade_forget_extraction: pgvector's sources decide what is an orphan and
\* what survives, for both stores.
List(c) ==
  LET mine == Sourced(vec, Id(c))
      orphans == Sole(vec, mine)
  IN
  /\ At(c, "list")
  /\ \/ /\ op' = [op EXCEPT ![c].pc = "delvec", ![c].gone = orphans,
                            ![c].strip = mine \ orphans,
                            ![c].ids = [e \in Entities |-> vec[e].id]]
        /\ UNCHANGED <<left, History>>
     \/ Trouble /\ Raise(c)
  /\ UNCHANGED <<row, khora, nodes, vec, graph, ops>>

DeleteVector(c) ==
  /\ At(c, "delvec")
  /\ \/ /\ vec' = Delete(vec, op[c].gone, op[c].ids)
        /\ Go(c, "delgraph") /\ UNCHANGED <<left, History>>
     \/ op[c].gone # {} /\ Trouble /\ Raise(c) /\ UNCHANGED vec
  /\ UNCHANGED <<row, khora, nodes, graph, ops>>

DeleteGraph(c) ==
  /\ At(c, "delgraph")
  /\ \/ /\ graph' = Delete(graph, op[c].gone, op[c].ids)
        /\ Go(c, "stripvec") /\ UNCHANGED <<left, History>>
     \/ op[c].gone # {} /\ Trouble /\ Raise(c) /\ UNCHANGED graph
  /\ UNCHANGED <<row, khora, nodes, vec, ops>>

\* Mutant: only the graph is stripped.
StripSkipsVector(c) ==
  /\ At(c, "stripvec")
  /\ Go(c, "stripgraph")
  /\ UNCHANGED <<row, khora, nodes, vec, graph, ops, History, left>>

StripVector(c) ==
  /\ At(c, "stripvec")
  /\ \/ /\ vec' = Strip(vec, op[c].strip, op[c].ids, Id(c))
        /\ Go(c, "stripgraph") /\ UNCHANGED <<left, History>>
     \/ op[c].strip # {} /\ Trouble /\ Raise(c) /\ UNCHANGED vec
  /\ UNCHANGED <<row, khora, nodes, graph, ops>>

StripGraph(c) ==
  /\ At(c, "stripgraph")
  /\ \/ /\ graph' = Strip(graph, op[c].strip, op[c].ids, Id(c))
        /\ Go(c, "delnodes") /\ UNCHANGED <<left, History>>
     \/ op[c].strip # {} /\ Trouble /\ Raise(c) /\ UNCHANGED graph
  /\ UNCHANGED <<row, khora, nodes, vec, ops>>

\* Then the mirror, the chunks and last the row.
DeleteNodes(c) ==
  /\ At(c, "delnodes")
  /\ \/ /\ nodes' = IF Current(c) THEN [nodes EXCEPT ![op[c].doc] = {}] ELSE nodes
        /\ Go(c, "delchunks") /\ UNCHANGED <<left, History>>
     \/ Trouble /\ Raise(c) /\ UNCHANGED nodes
  /\ UNCHANGED <<row, khora, vec, graph, ops>>

DeleteChunks(c) ==
  /\ At(c, "delchunks")
  /\ \/ /\ khora' = IF Current(c) THEN [khora EXCEPT ![op[c].doc] = NoChunks] ELSE khora
        /\ Go(c, "delrow") /\ UNCHANGED <<left, History>>
     \/ Trouble /\ Raise(c) /\ UNCHANGED khora
  /\ UNCHANGED <<row, nodes, vec, graph, ops>>

\* Mutant: every document with the same checksum goes, chunks and all.
DeleteByChecksum(c) ==
  LET twins == {d \in Docs : Current(c) /\ row[d].text = row[op[c].doc].text} IN
  /\ At(c, "delrow")
  /\ row' = [d \in Docs |-> IF d \in twins
                            THEN [row[d] EXCEPT !.st = "none", !.text = None] ELSE row[d]]
  /\ khora' = [d \in Docs |-> IF d \in twins THEN NoChunks ELSE khora[d]]
  /\ nodes' = [d \in Docs |-> IF d \in twins THEN {} ELSE nodes[d]]
  /\ Return(c)
  /\ UNCHANGED <<vec, graph, ops, left>>

delete_document(c) ==
  /\ At(c, "delrow")
  /\ \/ /\ row' = IF Current(c) THEN [row EXCEPT ![op[c].doc].st = "none",
                                                 ![op[c].doc].text = None] ELSE row
        /\ Return(c) /\ UNCHANGED left
     \/ Trouble /\ Raise(c) /\ UNCHANGED row
  /\ UNCHANGED <<khora, nodes, vec, graph, ops>>

-----------------------------------------------------------------------------
\* The process dies: every call stops where it is.
Crash ==
  /\ Trouble /\ \E c \in Callers : Active(c)
  /\ op' = [c \in Callers |-> IF Active(c) THEN Idle ELSE op[c]]
  /\ scarred' = scarred \cup Cut(Callers)
  /\ UNCHANGED <<row, khora, nodes, vec, graph, ops, clean>>

Remember(c) ==
  \/ Insert(c) \/ WipeChunks(c) \/ WipeNodes(c) \/ WriteChunks(c) \/ MirrorChunks(c)
  \/ MarkFailed(c) \/ Prefetch(c) \/ Commit(c) \/ Retire(c) \/ Remap(c)
  \/ StripDropped(c) \/ UpsertVector(c) \/ UpsertGraph(c) \/ Link(c) \/ Complete(c)

Forget(c) ==
  \/ List(c) \/ DeleteVector(c) \/ DeleteGraph(c) \/ StripVector(c) \/ StripGraph(c)
  \/ DeleteNodes(c) \/ DeleteChunks(c) \/ delete_document(c)

Next ==
  \/ \E c \in Callers, d \in Docs, t \in Texts \cup {None} : Begin(c, d, t)
  \/ \E c \in Callers : Remember(c) \/ Forget(c)
  \/ Crash

Spec == Init /\ [][Next]_vars

-----------------------------------------------------------------------------
\* Properties

One(t) == [u \in Texts |-> IF u = t THEN 1 ELSE 0]

\* Whatever failures, crashes and races went before, a remember that returns
\* leaves the document COMPLETED with its own text searchable exactly once,
\* and a forget that returns leaves nothing of it to find - unless another
\* call was at the same document meanwhile.
SettledIsExact ==
  \A d \in clean :
    \/ /\ row[d].st = "completed"
       /\ khora[d] = One(row[d].text) /\ nodes[d] \subseteq {row[d].text}
    \/ /\ row[d].st = "none"
       /\ khora[d] = NoChunks /\ nodes[d] = {}

\* forget: a document that is gone sources no entity of the authoritative
\* store.
ForgottenSourcesNothing ==
  \A d \in clean : row[d].st = "none" =>
    \A e \in Entities : <<d, row[d].inc>> \notin vec[e].src

\* A newer source has pushed the document out of the entity's list.
PushedOut(e, d) == <<d, row[d].inc>> \in vec[e].out \cup graph[e].out

\* The cascade never takes an entity another document still has: what a
\* remembered text mentions is in the graph, sourced by its document - unless the
\* entity's list of sources is so long that the document is no longer on it, a
\* forget of that document was cut half way, or any forget ran beside one of the
\* calls that remembered it.
MentionedIsThere ==
  \A d \in clean \ scarred : row[d].st = "completed" =>
    \A e \in Mentions[row[d].text] :
      \/ graph[e].there /\ <<d, row[d].inc>> \in graph[e].src
      \/ PushedOut(e, d)

\* remember and forget implement the abstract store: a document settles when
\* a call that nothing disturbed on it returns, and is torn meanwhile.
Store == INSTANCE Memory WITH
  Torn <- "torn",
  held <- [d \in Docs |-> IF d \in clean THEN row[d].text ELSE "torn"],
  found <- [d \in Docs |-> IF d \in clean THEN {t \in Texts : khora[d][t] > 0} ELSE {}]

ImplementsMemory == Store!Spec
=============================================================================
