---------------------------- MODULE EmbeddedStore ----------------------------
(***************************************************************************)
(* The database behind a vault: Khora's remember and forget on the         *)
(* embedded stack the sidecar configures, one SQLite file and a LanceDB    *)
(* directory, with entity extraction off.                                  *)
(*                                                                         *)
(* The documents table is written through SQLAlchemy, a transaction per    *)
(* call.  The chunk tables are written through one aiosqlite connection    *)
(* that all coroutines share: a statement is one await and the commit the  *)
(* next, so that a commit takes along whatever the others have executed,   *)
(* and SQLite lets one connection write at a time.  Vectors are in LanceDB *)
(* and follow after the commit.  Statements fail, alone or with the        *)
(* transaction they are in, and the process dies between any two steps.    *)
(*                                                                         *)
(* What one call writes for a text counts as one chunk, or as a part of    *)
(* one when the batch of its rows fails half way.  The table chunks, which *)
(* a replace fills beside khora_chunks, a forget empties and no search of  *)
(* the vault reads, is there by its statements only, as is its LanceDB     *)
(* table.                                                                  *)
(***************************************************************************)
EXTENDS Naturals, FiniteSets, FiniteSetsExt

CONSTANTS
  Docs,      \* external ids, the paths of notes
  Texts,     \* contents
  Callers,   \* concurrent requests
  None,      \* no text
  Sessions   \* the callers, and the bounds on calls and on trouble (failing
             \* store calls and crashes), of each kind of session

ASSUME EmbeddedAssumption ==
  /\ None \notin Texts
  /\ Sessions \subseteq [callers : SUBSET Callers, calls : Nat, trouble : Nat]
  /\ IsFiniteSet(Sessions)

VARIABLES
  row,    \* documents: status, text and id (0 before the first insert)
  mem,    \* khora_chunks as the shared connection sees it
  disk,   \* khora_chunks as committed
  lock,   \* the shared connection has SQLite's write lock
  vec,    \* khora_chunks_vec, the chunks that have a vector
  op,     \* the call each caller is in
  ops,    \* calls that may still begin
  clean,  \* history: documents whose last call succeeded undisturbed
  leaky,  \* history: documents that may have left something behind
  left    \* trouble that may still come

vars == <<row, mem, disk, lock, vec, op, ops, clean, leaky, left>>

MaxOps == Max({s.calls : s \in Sessions})

\* A call's number serves as the id of what it inserts.
Chunk == [doc : 1..MaxOps, id : 1..MaxOps, text : Texts, whole : BOOLEAN]
Idle == [pc |-> "idle"]
Absentee == [pc |-> "absent"]
Commits == {"wipecommit", "rowscommit", "olddelcommit", "oldinscommit"}
Steps == Commits \cup {"insert", "wipe", "unvec", "rows", "addvec", "olddel",
                       "oldins", "oldvec", "complete", "mark", "delrow"}

TypeOK ==
  /\ row \in [Docs -> [st : {"none", "pending", "completed", "failed"},
                       text : Texts \cup {None}, id : 0..MaxOps]]
  /\ mem \in [Docs -> SUBSET Chunk] /\ disk \in [Docs -> SUBSET Chunk]
  /\ vec \in [Docs -> SUBSET Chunk]
  /\ lock \in BOOLEAN
  /\ op \in [Callers -> {Idle, Absentee} \cup
             [pc : Steps, kind : {"create", "replace", "forget"}, doc : Docs,
              id : 0..MaxOps, text : Texts \cup {None}, n : 1..MaxOps,
              hit : BOOLEAN, calm : BOOLEAN]]
  /\ ops \in 0..MaxOps
  /\ clean \subseteq Docs /\ leaky \subseteq Docs
  /\ left \in Nat

Init ==
  /\ row = [d \in Docs |-> [st |-> "none", text |-> None, id |-> 0]]
  /\ mem = [d \in Docs |-> {}] /\ disk = mem /\ vec = mem
  /\ lock = FALSE
  /\ \E s \in Sessions :
       /\ op = [c \in Callers |-> IF c \in s.callers THEN Idle ELSE Absentee]
       /\ ops = s.calls
       /\ left = s.trouble
  /\ clean = Docs /\ leaky = {}

-----------------------------------------------------------------------------
\* Helpers

Trouble == left > 0 /\ left' = left - 1
Active(c) == op[c].pc \in Steps
At(c, pc) == Active(c) /\ op[c].pc = pc
Go(c, pc) == op' = [op EXCEPT ![c].pc = pc]
Mine(c) == [doc |-> op[c].id, id |-> op[c].n, text |-> op[c].text, whole |-> TRUE]
Without(table, c) == [table EXCEPT ![op[c].doc] = {k \in @ : k.doc # op[c].id}]
Plus(table, c, k) == [table EXCEPT ![op[c].doc] = @ \cup {k}]
With(table, c) == Plus(table, c, Mine(c))
Half(c) == [Mine(c) EXCEPT !.whole = FALSE]

\* The document's row is still the one the call found or inserted.
Current(c) == row[op[c].doc].st # "none" /\ row[op[c].doc].id = op[c].id

\* A wipe that stops before the vectors are gone: the rows that would lead a
\* later wipe to them are gone first.
HalfWiped(cs) == {op[c].doc : c \in {x \in cs : Active(x) /\ op[x].hit
                                       /\ op[x].pc \in {"wipecommit", "unvec"}}}

\* The handlers of remember and forget: a replace whose chunks were not
\* written is marked FAILED on the way out, every other call just raises.
Failed(c) ==
  IF op[c].kind = "replace" /\ op[c].pc \in {"wipe", "wipecommit", "unvec", "rows",
                                             "rowscommit", "addvec"}
  THEN [op[c] EXCEPT !.pc = "mark"] ELSE Idle

Fail(c) ==
  /\ op' = [op EXCEPT ![c] = Failed(c)]
  /\ leaky' = leaky \cup HalfWiped({c})

Return(c) ==
  /\ op' = [op EXCEPT ![c] = Idle]
  /\ clean' = IF op[c].calm THEN clean \cup {op[c].doc} ELSE clean

\* SQLite (external): a failing statement is undone, in the transaction it may
\* have begun, or takes the whole transaction with it (a full disk, an I/O
\* error), which is everybody's.
Undone(c) == Trouble /\ Fail(c) /\ lock' \in {lock, TRUE} /\ UNCHANGED mem
RolledBack(c) ==
  LET pending == {x \in Callers : op[x].pc \in Commits} IN
  /\ Trouble
  /\ mem' = disk /\ lock' = FALSE
  /\ op' = [x \in Callers |-> IF x = c THEN Failed(c)
                              ELSE IF x \in pending THEN [op[x] EXCEPT !.calm = FALSE]
                              ELSE op[x]]
  /\ leaky' = leaky \cup {op[x].doc : x \in pending}
SqlFails(c) == Undone(c) \/ RolledBack(c)

\* A write of the documents table waits while the shared connection is about
\* to commit.  When nobody is going to, it gives up after busy_timeout.
Stuck == lock /\ \A c \in Callers : op[c].pc \notin Commits
RowFails == \/ Stuck /\ UNCHANGED left
            \/ Trouble

-----------------------------------------------------------------------------
\* remember and forget

\* A call begins: get_document_by_external_id (remember), get_document (forget,
\* which returns False when there is none and is then no call at all).  Without
\* an entity store there is nothing for the forget cascade to do.
Begin(c, d, t) ==
  LET same == {x \in Callers \ {c} : Active(x) /\ op[x].doc = d}
      kind == IF t = None THEN "forget"
              ELSE IF row[d].st = "none" THEN "create" ELSE "replace"
      me == [pc |-> IF kind = "create" THEN "insert" ELSE "wipe",
             kind |-> kind, doc |-> d, id |-> row[d].id, text |-> t, n |-> ops,
             hit |-> FALSE, calm |-> same = {}]
  IN
  /\ op[c] = Idle /\ ops > 0
  /\ kind = "forget" => row[d].st # "none"
  /\ ops' = ops - 1
  /\ op' = [x \in Callers |-> IF x = c THEN me
                              ELSE IF x \in same THEN [op[x] EXCEPT !.calm = FALSE]
                              ELSE op[x]]
  /\ clean' = clean \ {d}
  /\ leaky' = IF same = {} THEN leaky ELSE leaky \cup {d}
  /\ UNCHANGED <<row, mem, disk, lock, vec, left>>

\* create_document.  The unique index makes the loser of a race replace the
\* winner's row; when the winner brought the same text and has not failed, the
\* checksum is found before that and the call is a duplicate.
Insert(c) ==
  LET d == op[c].doc IN
  /\ At(c, "insert")
  /\ \/ /\ row[d].st = "none" /\ ~lock
        /\ row' = [row EXCEPT ![d] = [st |-> "pending", text |-> op[c].text, id |-> op[c].n]]
        /\ op' = [op EXCEPT ![c].pc = "rows", ![c].id = op[c].n]
        /\ UNCHANGED <<clean, leaky, left>>
     \/ /\ row[d].st # "none" /\ ~lock
        /\ op' = [op EXCEPT ![c].pc = "wipe", ![c].id = row[d].id, ![c].kind = "replace"]
        /\ UNCHANGED <<row, clean, leaky, left>>
     \/ /\ row[d].st \notin {"none", "failed"} /\ row[d].text = op[c].text
        /\ Return(c) /\ UNCHANGED <<row, leaky, left>>
     \/ RowFails /\ Fail(c) /\ UNCHANGED <<row, clean>>
  /\ UNCHANGED <<mem, disk, lock, vec, ops>>

\* Mutants: the commit is left to the caller; rowcount is read after it.
WipeUncommitted(c) ==
  /\ At(c, "wipe")
  /\ mem' = Without(mem, c) /\ lock' = TRUE
  /\ Go(c, IF op[c].kind = "forget" THEN "olddel" ELSE "rows")
  /\ UNCHANGED <<row, disk, vec, ops, clean, leaky, left>>

WipeUncounted(c) ==
  /\ At(c, "wipe")
  /\ mem' = Without(mem, c) /\ lock' = TRUE
  /\ Go(c, "wipecommit")
  /\ UNCHANGED <<row, disk, vec, ops, clean, leaky, left>>

\* delete_chunks_by_document, first statement; rowcount is kept.  A replace has
\* chunked and embedded before, where a failure changes nothing.
Wipe(c) ==
  /\ At(c, "wipe")
  /\ \/ /\ mem' = Without(mem, c) /\ lock' = TRUE
        /\ op' = [op EXCEPT ![c].pc = "wipecommit", ![c].hit = mem # mem']
        /\ UNCHANGED <<leaky, left>>
     \/ SqlFails(c)
     \/ /\ op[c].kind = "replace" /\ Trouble
        /\ op' = [op EXCEPT ![c] = Idle] /\ UNCHANGED <<mem, lock, leaky>>
  /\ UNCHANGED <<row, disk, vec, ops, clean>>

\* Where a call goes on from its commits.
Wiped(c) == IF op[c].kind = "forget" THEN "olddel" ELSE "rows"
Then(c) == CASE op[c].pc = "wipecommit" -> IF op[c].hit THEN "unvec" ELSE Wiped(c)
             [] op[c].pc = "rowscommit" -> "addvec"
             [] op[c].pc = "olddelcommit" ->
                  IF op[c].kind = "forget" THEN "delrow" ELSE "oldins"
             [] op[c].pc = "oldinscommit" -> "oldvec"

\* commit() of the shared connection: all that anyone has executed on it.  A
\* commit that fails rolls back.
Commit(c) ==
  /\ Active(c) /\ op[c].pc \in Commits
  /\ \/ /\ disk' = mem /\ lock' = FALSE
        /\ Go(c, Then(c)) /\ UNCHANGED <<mem, leaky, left>>
     \/ lock /\ RolledBack(c) /\ UNCHANGED disk
  /\ UNCHANGED <<row, vec, ops, clean>>

\* The vectors of what was wiped.  A failure is logged and leaves them; only
\* one to open the table raises.
DeleteVectors(c) ==
  /\ At(c, "unvec")
  /\ \/ vec' = Without(vec, c) /\ Go(c, Wiped(c)) /\ UNCHANGED <<leaky, left>>
     \/ /\ Trouble /\ UNCHANGED vec
        /\ \/ Go(c, Wiped(c)) /\ leaky' = leaky \cup {op[c].doc}
           \/ Fail(c)
  /\ UNCHANGED <<row, mem, disk, lock, ops, clean>>

\* create_chunks_batch: SQLite first, LanceDB after the commit.  A create
\* embeds just before; the id of the row is not a foreign key here.  The rows
\* are executed one after the other: when a later one fails, the earlier ones
\* stay, in a transaction that nobody commits or rolls back.
InsertRows(c) ==
  /\ At(c, "rows")
  /\ \/ /\ mem' = With(mem, c) /\ lock' = TRUE
        /\ Go(c, "rowscommit") /\ UNCHANGED <<leaky, left>>
     \/ /\ mem' = Plus(mem, c, Half(c)) /\ lock' = TRUE
        /\ Trouble /\ Fail(c)
     \/ SqlFails(c)
  /\ UNCHANGED <<row, disk, vec, ops, clean>>

AddVectors(c) ==
  /\ At(c, "addvec")
  /\ \/ /\ vec' = With(vec, c)
        /\ Go(c, IF op[c].kind = "create" THEN "complete" ELSE "olddel")
        /\ UNCHANGED <<leaky, left>>
     \/ Trouble /\ Fail(c) /\ UNCHANGED vec
  /\ UNCHANGED <<row, mem, disk, lock, ops, clean>>

\* The table chunks: delete_chunks_by_document of the vector adapter, which
\* replace_document_extraction and the coordinator's delete_document call (its
\* vectors follow the commit, and a failure is logged), and create_chunks_batch
\* in a replace.  Here the document's id is a foreign key.  A refused INSERT is
\* undone, and nobody rolls back: the connection is left in its transaction.
OldDelete(c) ==
  /\ At(c, "olddel")
  /\ \/ /\ lock' = TRUE /\ Go(c, "olddelcommit") /\ UNCHANGED <<mem, leaky, left>>
     \/ SqlFails(c)
  /\ UNCHANGED <<row, disk, vec, ops, clean>>

OldInsert(c) ==
  /\ At(c, "oldins")
  /\ \/ /\ lock' = TRUE /\ UNCHANGED <<mem, left>>
        /\ \/ Current(c) /\ Go(c, "oldinscommit") /\ UNCHANGED leaky
           \/ ~Current(c) /\ Fail(c)
     \/ SqlFails(c)
  /\ UNCHANGED <<row, disk, vec, ops, clean>>

OldVectors(c) ==
  /\ At(c, "oldvec")
  /\ \/ Go(c, "complete") /\ UNCHANGED <<leaky, left>>
     \/ Trouble /\ Fail(c)
  /\ UNCHANGED <<row, mem, disk, lock, vec, ops, clean>>

\* Mutant: the row keeps the text it was found with.
UpdateStatusOnly(c, st) ==
  row' = IF Current(c) THEN [row EXCEPT ![op[c].doc].st = st] ELSE row

\* update_document: by id, so nothing happens to a row that is gone.
update_document(c, st) ==
  row' = IF Current(c)
         THEN [row EXCEPT ![op[c].doc].st = st, ![op[c].doc].text = op[c].text]
         ELSE row

\* mark_completed ends a remember; a replace whose stamp fails leaves the row
\* as it was.
Complete(c) ==
  /\ At(c, "complete")
  /\ \/ ~lock /\ update_document(c, "completed") /\ Return(c) /\ UNCHANGED <<leaky, left>>
     \/ RowFails /\ Fail(c) /\ UNCHANGED <<row, clean>>
  /\ UNCHANGED <<mem, disk, lock, vec, ops>>

\* mark_failed, best effort.
MarkFailed(c) ==
  /\ At(c, "mark")
  /\ \/ ~lock /\ update_document(c, "failed") /\ UNCHANGED left
     \/ RowFails /\ UNCHANGED row
  /\ op' = [op EXCEPT ![c] = Idle]
  /\ UNCHANGED <<mem, disk, lock, vec, ops, clean, leaky>>

\* The relational delete_document ends a forget.
delete_document(c) ==
  /\ At(c, "delrow")
  /\ \/ /\ ~lock
        /\ row' = IF Current(c) THEN [row EXCEPT ![op[c].doc].st = "none",
                                                 ![op[c].doc].text = None] ELSE row
        /\ Return(c) /\ UNCHANGED <<leaky, left>>
     \/ RowFails /\ Fail(c) /\ UNCHANGED <<row, clean>>
  /\ UNCHANGED <<mem, disk, lock, vec, ops>>

\* The sidecar dies: every call stops where it is, and SQLite recovers what
\* was committed.
Crash ==
  /\ Trouble /\ \E c \in Callers : Active(c)
  /\ op' = [c \in Callers |-> IF Active(c) THEN Idle ELSE op[c]]
  /\ mem' = disk /\ lock' = FALSE
  /\ leaky' = leaky \cup HalfWiped(Callers)
  /\ UNCHANGED <<row, disk, vec, ops, clean>>

Step(c) ==
  \/ Insert(c) \/ Wipe(c) \/ Commit(c) \/ DeleteVectors(c) \/ InsertRows(c)
  \/ AddVectors(c) \/ OldDelete(c) \/ OldInsert(c) \/ OldVectors(c) \/ Complete(c)
  \/ MarkFailed(c) \/ delete_document(c)

Next ==
  \/ \E c \in Callers, d \in Docs, t \in Texts \cup {None} : Begin(c, d, t)
  \/ \E c \in Callers : Step(c)
  \/ Crash

Spec == Init /\ [][Next]_vars

-----------------------------------------------------------------------------
\* Properties

\* No wipe on the shared connection is left to a later, unrelated commit, and no
\* finished batch of rows: when no call is about to commit, nothing committed is
\* gone from the connection, and all it has beyond that is the part of a batch
\* that failed half way.
OnlyHalfBatchesStayPending ==
  (\A c \in Callers : op[c].pc \notin Commits) =>
    \A d \in Docs : disk[d] \subseteq mem[d] /\ \A k \in mem[d] \ disk[d] : ~k.whole

Rows(d) == {k \in mem[d] : k.doc = row[d].id}

\* A document that settled leaves no chunk of another text, of an earlier id
\* or without a document, and no vector without its chunk - unless two calls
\* were at it, or a call was cut between SQLite and LanceDB.
NothingIsLeftBehind ==
  \A d \in clean \ leaky : mem[d] = Rows(d) /\ vec[d] = Rows(d)

\* What a search finds of a settled document, by its vector, and after a
\* restart as well.
Whole(d) == Rows(d) \subseteq vec[d] /\ Rows(d) \subseteq disk[d]
            /\ row[d].st \in {"none", "completed"}

\* remember and forget implement the same abstract store as on the other
\* stack: a document settles, whole, when a call that nothing disturbed
\* returns, and is torn meanwhile.
Store == INSTANCE Memory WITH
  Torn <- "torn",
  held <- [d \in Docs |-> IF d \notin clean THEN "torn"
                          ELSE IF Whole(d) THEN row[d].text ELSE "broken"],
  found <- [d \in Docs |-> IF d \in clean THEN {k.text : k \in Rows(d)} ELSE {}]

ImplementsMemory == Store!Spec
=============================================================================
