---------------------------- MODULE IndexerProofs ----------------------------
(***************************************************************************)
(* Proofs about module Indexer, for every vault, every number of           *)
(* coroutines and sidecar processes, and every value of the bounds.        *)
(***************************************************************************)
EXTENDS Indexer, Integers, FiniteSetTheorems, TLAPS

\* The part of the invariant that says the state is what the code builds.
Shape == TypeOK /\ WellFormed /\ ClosedIsEmpty

Budget == [edits : Nat, renames : Nat, fails : Nat, runs : Nat, sound : BOOLEAN]

----------------------------------------------------------------------------
(* What the helpers of the model do to the variables they assign *)

\* A vault change draws on the budget and ends the quiet of a run.
LEMMA EditType ==
  ASSUME TypeOK, Edit PROVE budget' \in Budget /\ quiet' \in BOOLEAN
<1>1. budget \in Budget BY DEF TypeOK, Budget
<1>2. budget' = [budget EXCEPT !.edits = @ - 1] /\ budget.edits > 0 /\ quiet' = FALSE
  BY DEF Edit
<1>3. budget.edits - 1 \in Nat BY <1>1, <1>2 DEF Budget
<1> QED BY <1>1, <1>2, <1>3 DEF Budget

\* debounce queues a well-formed timer.
LEMMA OnChangeType ==
  ASSUME TypeOK, NEW f \in Files, NEW p \in Paths, OnChange(f, p)
  PROVE timers' \subseteq Timer
<1>1. timers \subseteq Timer /\ gen \in 0 .. MaxEpochs BY DEF TypeOK
<1>2. CASE gen # 0 /\ p \notin ignored
  <2>1. [key |-> p, file |-> f, tracked |-> TRUE, gen |-> gen] \in Timer
    BY <1>1, <1>2, ConstantsAssumption DEF Timer, Gens
  <2> QED BY <1>1, <1>2, <2>1 DEF OnChange, Debounce
<1>3. CASE ~(gen # 0 /\ p \notin ignored) BY <1>1, <1>3 DEF OnChange
<1> QED BY <1>2, <1>3

\* A request is recorded for its sender and for nobody else.
LEMMA SendType ==
  ASSUME TypeOK, NEW a \in Actors, NEW op \in {"remember", "forget"},
         NEW key \in Paths \cup {None}, NEW hash \in Hash,
         NEW client \in 0 .. MaxEpochs, Send(a, op, key, hash, client)
  PROVE /\ call' \in [Actors -> Call]
        /\ call'[a].op = op /\ call'[a].key = key /\ call'[a].hash = hash /\ call'[a].st = "sent"
        /\ \A b \in Actors \ {a} : call'[b] = call[b]
<1>1. call \in [Actors -> Call] BY DEF TypeOK
<1> DEFINE c == [op |-> op, key |-> key, hash |-> hash, client |-> client, st |-> "sent"]
<1>2. c \in Call BY DEF Call
<1>3. call' = [call EXCEPT ![a] = c] BY DEF Send
<1>4. call'[a] = c BY <1>1, <1>3
<1> QED BY <1>1, <1>2, <1>3, <1>4

\* An answer is taken off the sender's slot.
LEMMA ReturnType ==
  ASSUME TypeOK, NEW a \in Actors, Return(a)
  PROVE /\ call' \in [Actors -> Call]
        /\ call'[a] = NoCall
        /\ \A b \in Actors \ {a} : call'[b] = call[b]
<1>1. call \in [Actors -> Call] BY DEF TypeOK
<1>2. NoCall \in Call BY ConstantsAssumption DEF NoCall, Call, Hash
<1>3. call' = [call EXCEPT ![a] = NoCall] BY DEF Return
<1> QED BY <1>1, <1>2, <1>3

\* One slot of the event handlers is assigned, the others keep their task.
LEMMA TaskUpdate ==
  ASSUME TypeOK, NEW s \in Slots, NEW t \in Task, task' = [task EXCEPT ![s] = t]
  PROVE task' \in [Slots -> Task] /\ task'[s] = t /\ \A r \in Slots \ {s} : task'[r] = task[r]
BY DEF TypeOK

\* No task is a task.
LEMMA NoTaskType == NoTask \in Task
BY ConstantsAssumption DEF NoTask, Task, Hash

\* No run is a run.
LEMMA NoRunType == NoRun \in RunType
<1>1. NoDoc \in Doc \cup {NoDoc} OBVIOUS
<1>2. Retries \in Nat /\ MaxEpochs \in Nat BY ConstantsAssumption
<1> QED BY <1>1, <1>2 DEF NoRun, RunType

\* An Indexer that the code reaches through gen was created.
LEMMA GenIsCreated == ASSUME TypeOK, gen # 0 PROVE gen \in Gens
BY ConstantsAssumption DEF TypeOK, Gens

\* A change of one entry of a store leaves all stores well formed.
LEMMA StoreUpdate ==
  ASSUME TypeOK, NEW g \in Gens, NEW p, NEW h \in Hash, store' = [store EXCEPT ![g][p] = h]
  PROVE store' \in [Gens -> Index] /\ store'[g] \in Index
<1>1. store \in [Gens -> Index] BY DEF TypeOK
<1>2. [store[g] EXCEPT ![p] = h] \in Index BY <1>1 DEF Index
<1>3. store' = [store EXCEPT ![g] = [store[g] EXCEPT ![p] = h]] OBVIOUS
<1> QED BY <1>1, <1>2, <1>3

\* handleDelete either returns at once or sends a forget from a free slot.
LEMMA HandleDeleteType ==
  ASSUME TypeOK, NEW s \in Slots, NEW p \in Paths, NEW f \in Files \cup {None},
         HandleDelete(s, p, f)
  PROVE /\ task' \in [Slots -> Task] /\ call' \in [Actors -> Call]
        /\ \A r \in Slots : task'[r] # task[r] =>
             gen # 0 /\ task'[r].gen \in Gens /\ task'[r].pc = "forget"
        /\ \A b \in Actors : call'[b] # call[b] =>
             call'[b].op = "forget" /\ call'[b].st = "sent" /\ b \in Slots /\ task'[b] # task[b]
<1>1. CASE gen # 0 /\ HasClient
  <2> DEFINE t == [pc |-> "forget", gen |-> gen, client |-> epoch, file |-> f, hash |-> None]
  <2>1. task' = [task EXCEPT ![s] = t] /\ Send(s, "forget", p, None, epoch) /\ task[s].pc = "idle"
    BY <1>1 DEF HandleDelete, Free
  <2>2. gen \in Gens BY <1>1, GenIsCreated
  <2>3. epoch \in 0 .. MaxEpochs /\ gen \in 0 .. MaxEpochs BY DEF TypeOK
  <2>4. t \in Task BY <2>3 DEF Task, Hash
  <2>5. /\ task' \in [Slots -> Task] /\ task'[s] = t
        /\ \A r \in Slots \ {s} : task'[r] = task[r]
    BY <2>1, <2>4, TaskUpdate
  <2>6. s \in Actors /\ None \in Hash /\ p \in Paths \cup {None} BY DEF Actors, Hash
  <2>7. /\ call' \in [Actors -> Call] /\ call'[s].op = "forget" /\ call'[s].st = "sent"
        /\ \A b \in Actors \ {s} : call'[b] = call[b]
    BY <2>1, <2>3, <2>6, SendType
  <2> QED BY <1>1, <2>1, <2>2, <2>5, <2>7
<1>2. CASE ~(gen # 0 /\ HasClient) BY <1>2 DEF HandleDelete, TypeOK
<1> QED BY <1>1, <1>2

----------------------------------------------------------------------------
(* The state stays well formed: one step per action *)

\* What the user does to the vault keeps the types.
LEMMA VaultShape == ASSUME Shape, VaultStep PROVE Shape'
<1>0. TypeOK /\ WellFormed /\ ClosedIsEmpty BY DEF Shape
<1>1. ASSUME NEW f \in Files, NEW p \in Paths, NEW c \in Contents \cup {Blank}, Create(f, p, c)
      PROVE Shape'
  <2>1. timers' \subseteq Timer BY <1>0, <1>1, OnChangeType DEF Create
  <2>2. budget' \in Budget /\ quiet' \in BOOLEAN BY <1>0, <1>1, EditType DEF Create
  <2>3. /\ live' \subseteq Files /\ path' \in [Files -> Paths \cup {None}]
        /\ content' \in [Files -> Contents \cup {Blank}]
        /\ \A n \in live' : path'[n] \in Paths
    BY <1>0, <1>1 DEF Create, TypeOK, WellFormed
  <2>4. TypeOK' BY <1>0, <1>1, <2>1, <2>2, <2>3
                DEF Create, TypeOK, Budget, flags, process, server
  <2>5. WellFormed' BY <1>0, <1>1, <2>1, <2>2, <2>3 DEF Create, WellFormed, Indexing, flags, process
  <2>6. ClosedIsEmpty' BY <1>0, <1>1 DEF Create, ClosedIsEmpty, process
  <2> QED BY <2>4, <2>5, <2>6 DEF Shape
<1>2. ASSUME NEW f \in Files, NEW c \in Contents \cup {Blank}, Modify(f, c) PROVE Shape'
  <2>1. path[f] \in Paths BY <1>0, <1>2 DEF Modify, WellFormed
  <2>2. timers' \subseteq Timer BY <1>0, <1>2, <2>1, OnChangeType DEF Modify
  <2>3. budget' \in Budget /\ quiet' \in BOOLEAN BY <1>0, <1>2, EditType DEF Modify
  <2>4. content' \in [Files -> Contents \cup {Blank}] BY <1>0, <1>2 DEF Modify, TypeOK
  <2>5. TypeOK' BY <1>0, <1>2, <2>2, <2>3, <2>4
                DEF Modify, TypeOK, Budget, flags, process, server
  <2>6. WellFormed' BY <1>0, <1>2, <2>2, <2>3, <2>4 DEF Modify, WellFormed, Indexing, flags, process
  <2>7. ClosedIsEmpty' BY <1>0, <1>2 DEF Modify, ClosedIsEmpty, process
  <2> QED BY <2>5, <2>6, <2>7 DEF Shape
<1>3. ASSUME NEW f \in Files, NEW s \in Slots, Delete(f, s) PROVE Shape'
  <2>1. path[f] \in Paths BY <1>0, <1>3 DEF Delete, WellFormed
  <2>2. /\ task' \in [Slots -> Task] /\ call' \in [Actors -> Call]
        /\ \A r \in Slots : task'[r] # task[r] =>
             gen # 0 /\ task'[r].gen \in Gens /\ task'[r].pc = "forget"
        /\ \A b \in Actors : call'[b] # call[b] => call'[b].op = "forget"
    BY <1>0, <1>3, <2>1, HandleDeleteType DEF Delete
  <2>3. budget' \in Budget /\ quiet' \in BOOLEAN BY <1>0, <1>3, EditType DEF Delete
  <2>4. live' \subseteq live BY <1>3 DEF Delete
  <2>5. TypeOK' BY <1>3, <2>2, <2>3, <2>4
                DEF Delete, Shape, TypeOK, Budget, flags, process, server
  <2>6. WellFormed' BY <1>0, <1>3, <2>2, <2>4
                    DEF Delete, WellFormed, Indexing, flags, process
  <2>7. ClosedIsEmpty' BY <1>3, <2>2 DEF Delete, Shape, ClosedIsEmpty, process
  <2> QED BY <2>5, <2>6, <2>7 DEF Shape
<1>4. ASSUME NEW f \in Files, NEW p \in Paths, NEW s \in Slots, Rename(f, p, s) PROVE Shape'
  <2>1. path[f] \in Paths BY <1>0, <1>4 DEF Rename, WellFormed
  <2>2. /\ task' \in [Slots -> Task] /\ call' \in [Actors -> Call]
        /\ \A r \in Slots : task'[r] # task[r] =>
             gen # 0 /\ task'[r].gen \in Gens /\ task'[r].pc = "forget"
        /\ \A b \in Actors : call'[b] # call[b] => call'[b].op = "forget"
    BY <1>0, <1>4, <2>1, HandleDeleteType DEF Rename
  <2>3. budget' \in Budget
    <3>1. budget \in Budget BY <1>0 DEF TypeOK, Budget
    <3>2. budget.edits - 1 \in Nat /\ budget.renames - 1 \in Nat BY <1>4, <3>1 DEF Rename, Budget
    <3> QED BY <1>4, <3>1, <3>2 DEF Rename, Budget
  <2>4. /\ path' \in [Files -> Paths \cup {None}]
        /\ \A n \in live' : path'[n] \in Paths
    BY <1>0, <1>4 DEF Rename, TypeOK, WellFormed
  <2>5. TypeOK' BY <1>4, <2>2, <2>3, <2>4
                DEF Rename, Shape, TypeOK, Budget, flags, process, server
  <2>6. WellFormed' BY <1>0, <1>4, <2>2, <2>4
                    DEF Rename, WellFormed, Indexing, flags, process
  <2>7. ClosedIsEmpty' BY <1>4, <2>2 DEF Rename, Shape, ClosedIsEmpty, process
  <2> QED BY <2>5, <2>6, <2>7 DEF Shape
<1>5. ASSUME NEW p \in Paths, EditIgnore(p) PROVE Shape'
  <2>1. budget' \in Budget /\ quiet' \in BOOLEAN BY <1>0, <1>5, EditType DEF EditIgnore
  <2>2. ignored' \subseteq Ignorable BY <1>0, <1>5 DEF EditIgnore, TypeOK
  <2>3. TypeOK' BY <1>0, <1>5, <2>1, <2>2
                DEF EditIgnore, TypeOK, Budget, flags, process, server
  <2>4. WellFormed' BY <1>0, <1>5 DEF EditIgnore, WellFormed, Indexing, flags, process
  <2>5. ClosedIsEmpty' BY <1>0, <1>5 DEF EditIgnore, ClosedIsEmpty, process
  <2> QED BY <2>3, <2>4, <2>5 DEF Shape
<1> QED BY <1>1, <1>2, <1>3, <1>4, <1>5 DEF VaultStep

\* A step of a task keeps the types.
LEMMA TaskShape == ASSUME Shape, NEW s \in Slots, TaskStep(s) PROVE Shape'
<1>0. TypeOK /\ WellFormed /\ ClosedIsEmpty /\ task[s] \in Task /\ s \in Actors
  BY DEF Shape, TypeOK, Actors
<1>1. ASSUME NEW t \in timers, Fire(t, s) PROVE Shape'
  <2>1. t \in Timer /\ timers \subseteq Timer BY <1>0 DEF TypeOK
  <2>2. timers' \subseteq Timer BY <1>1, <2>1 DEF Fire, Timer
  <2>3. CASE HasClient
    <3>1. ReindexOne(s, t.file, t.gen) BY <1>1, <2>3 DEF Fire
    <3> DEFINE u == [pc |-> "read", gen |-> t.gen, client |-> epoch, file |-> t.file, hash |-> None]
    <3>2. t.gen \in Gens /\ t.file \in Files BY <2>1 DEF Timer
    <3>3. u \in Task BY <1>0, <3>2, ConstantsAssumption DEF Task, Hash, TypeOK, Gens
    <3>4. task' \in [Slots -> Task] /\ task'[s] = u /\ \A r \in Slots \ {s} : task'[r] = task[r]
      BY <1>0, <3>1, <3>3, TaskUpdate DEF ReindexOne
    <3>5. TypeOK' BY <1>0, <1>1, <2>2, <3>4
                  DEF Fire, TypeOK, vault, flags, process, server
    <3>6. WellFormed' BY <1>0, <1>1, <3>2, <3>4
                      DEF Fire, WellFormed, Indexing, vault, flags, process
    <3>7. ClosedIsEmpty' BY <1>1, <2>3 DEF Fire, HasClient, ClosedIsEmpty, process
    <3> QED BY <3>5, <3>6, <3>7 DEF Shape
  <2>4. CASE ~HasClient
    <3>1. task' = task BY <1>1, <2>4 DEF Fire
    <3>2. TypeOK' BY <1>0, <1>1, <2>2, <3>1
                  DEF Fire, TypeOK, vault, flags, process, server
    <3>3. WellFormed' BY <1>0, <1>1, <3>1
                      DEF Fire, WellFormed, Indexing, vault, flags, process
    <3>4. ClosedIsEmpty' BY <1>0, <1>1, <3>1 DEF Fire, ClosedIsEmpty, process
    <3> QED BY <3>2, <3>3, <3>4 DEF Shape
  <2> QED BY <2>3, <2>4
<1>2. ASSUME TaskRead(s) PROVE Shape'
  <2> DEFINE f == task[s].file
             skip == \/ f \notin live \/ content[f] = Blank
                     \/ store[task[s].gen][path[f]] = content[f]
  <2>1. CASE skip
    <3>1. task' = [task EXCEPT ![s] = NoTask] /\ call' = call BY <1>2, <2>1 DEF TaskRead
    <3>2. task' \in [Slots -> Task] /\ task'[s] = NoTask /\ \A r \in Slots \ {s} : task'[r] = task[r]
      BY <1>0, <3>1, NoTaskType, TaskUpdate
    <3>3. task'[s].pc = "idle" BY <3>2 DEF NoTask
    <3>4. TypeOK' BY <1>0, <1>2, <3>1, <3>2
                  DEF TaskRead, TypeOK, vault, flags, process, server
    <3>5. WellFormed' BY <1>0, <1>2, <3>1, <3>2, <3>3
                      DEF TaskRead, WellFormed, Indexing, vault, flags, process
    <3>6. ClosedIsEmpty' BY <1>0, <1>2, <3>2, <3>3 DEF TaskRead, ClosedIsEmpty, process
    <3> QED BY <3>4, <3>5, <3>6 DEF Shape
  <2>2. CASE ~skip
    <3>1. /\ task' = [task EXCEPT ![s].pc = "remember", ![s].hash = content[f]]
          /\ Send(s, "remember", path[f], content[f], task[s].client)
      BY <1>2, <2>2 DEF TaskRead
    <3>2. path[f] \in Paths /\ content[f] \in Contents
      BY <1>0, <2>2 DEF TypeOK, WellFormed
    <3> DEFINE u == [task[s] EXCEPT !.pc = "remember", !.hash = content[f]]
    <3>3. u \in Task /\ u.gen = task[s].gen BY <1>0, <3>2 DEF Task, Hash
    <3>4. task' = [task EXCEPT ![s] = u] BY <1>0, <3>1 DEF TypeOK
    <3>5. task' \in [Slots -> Task] /\ task'[s] = u /\ \A r \in Slots \ {s} : task'[r] = task[r]
      BY <1>0, <3>3, <3>4, TaskUpdate
    <3>6. task[s].client \in 0 .. MaxEpochs /\ content[f] \in Hash /\ path[f] \in Paths \cup {None}
      BY <1>0, <3>2 DEF Task, Hash
    <3>7. /\ call' \in [Actors -> Call] /\ call'[s].key = path[f] /\ call'[s].hash = content[f]
          /\ \A b \in Actors \ {s} : call'[b] = call[b]
      BY <1>0, <3>1, <3>6, SendType
    <3>8. task[s].pc = "read" BY <1>2 DEF TaskRead
    <3>9. TypeOK' BY <1>0, <1>2, <3>5, <3>7
                  DEF TaskRead, TypeOK, vault, flags, process, server
    <3>10. WellFormed'
      <4>1. UNCHANGED <<live, path, gen, run, backend, epoch>>
        BY <1>2 DEF TaskRead, vault, process
      <4> QED BY <1>0, <3>2, <3>3, <3>5, <3>7, <3>8, <4>1 DEF WellFormed, Indexing
    <3>11. ClosedIsEmpty' BY <1>0, <1>2, <3>8 DEF TaskRead, ClosedIsEmpty, process
    <3> QED BY <3>9, <3>10, <3>11 DEF Shape
  <2> QED BY <2>1, <2>2
<1>3. ASSUME TaskRemembered(s) PROVE Shape'
  <2>1. task[s].gen \in Gens /\ task[s].hash \in Hash
    BY <1>0, <1>3 DEF TaskRemembered, WellFormed, Task
  <2>2. store' \in [Gens -> Index] /\ disk' \in Index
    <3>1. CASE call[s].st = "ok"
      <4>1. /\ store' = [store EXCEPT ![task[s].gen][path[task[s].file]] = task[s].hash]
            /\ disk' = store'[task[s].gen]
        BY <1>3, <3>1 DEF TaskRemembered
      <4>2. store' \in [Gens -> Index] /\ store'[task[s].gen] \in Index
        BY <1>0, <2>1, <4>1, StoreUpdate
      <4> QED BY <4>1, <4>2
    <3>2. CASE call[s].st # "ok"
      BY <1>0, <1>3, <3>2 DEF TaskRemembered, TypeOK
    <3> QED BY <3>1, <3>2
  <2>3. task' \in [Slots -> Task] /\ task'[s] = NoTask /\ \A r \in Slots \ {s} : task'[r] = task[r]
    BY <1>0, <1>3, NoTaskType, TaskUpdate DEF TaskRemembered
  <2>4. call' \in [Actors -> Call] /\ call'[s] = NoCall /\ \A b \in Actors \ {s} : call'[b] = call[b]
    BY <1>0, <1>3, ReturnType DEF TaskRemembered
  <2>5. task'[s].pc = "idle" /\ call'[s].op = "none" BY <2>3, <2>4 DEF NoTask, NoCall
  <2>a. saver' \in 0 .. MaxEpochs BY <1>0, <1>3 DEF TaskRemembered, TypeOK, Task
  <2>6. TypeOK' BY <1>0, <1>3, <2>2, <2>3, <2>4, <2>a
                DEF TaskRemembered, TypeOK, vault, flags, process, server
  <2>7. WellFormed' BY <1>0, <1>3, <2>3, <2>4, <2>5
                    DEF TaskRemembered, WellFormed, Indexing, vault, flags, process
  <2>8. ClosedIsEmpty' BY <1>0, <1>3 DEF TaskRemembered, ClosedIsEmpty, process
  <2> QED BY <2>6, <2>7, <2>8 DEF Shape
<1>4. ASSUME TaskForgot(s) PROVE Shape'
  <2>1. task[s].gen \in Gens /\ None \in Hash
    BY <1>0, <1>4 DEF TaskForgot, WellFormed, Hash
  <2>2. store' \in [Gens -> Index] /\ disk' \in Index
    BY <1>0, <1>4, <2>1, StoreUpdate DEF TaskForgot
  <2> DEFINE f == task[s].file
             u == [pc |-> "read", gen |-> task[s].gen, client |-> epoch, file |-> f, hash |-> None]
  <2>3. \/ task' = [task EXCEPT ![s] = u]
        \/ task' = [task EXCEPT ![s] = NoTask]
    BY <1>4 DEF TaskForgot, ReindexOne
  <2>4. u \in Task /\ u.gen \in Gens BY <1>0, <2>1 DEF Task, Hash, TypeOK
  <2>5. /\ task' \in [Slots -> Task] /\ \A r \in Slots \ {s} : task'[r] = task[r]
        /\ task'[s].pc # "idle" => task'[s].gen \in Gens
    <3>1. CASE task' = [task EXCEPT ![s] = u]
      BY <1>0, <2>4, <3>1, TaskUpdate
    <3>2. CASE task' = [task EXCEPT ![s] = NoTask]
      BY <1>0, <3>2, NoTaskType, TaskUpdate DEF NoTask
    <3> QED BY <2>3, <3>1, <3>2
  <2>6. call' \in [Actors -> Call] /\ call'[s] = NoCall /\ \A b \in Actors \ {s} : call'[b] = call[b]
    BY <1>0, <1>4, ReturnType DEF TaskForgot
  <2>7. call'[s].op = "none" BY <2>6 DEF NoCall
  <2>a. saver' \in 0 .. MaxEpochs BY <1>0, <1>4 DEF TaskForgot, Task
  <2>8. TypeOK' BY <1>0, <1>4, <2>2, <2>5, <2>6, <2>a
                DEF TaskForgot, TypeOK, vault, flags, process, server
  <2>9. WellFormed' BY <1>0, <1>4, <2>5, <2>6, <2>7
                    DEF TaskForgot, WellFormed, Indexing, vault, flags, process
  <2>10. ClosedIsEmpty' BY <1>0, <1>4 DEF TaskForgot, ClosedIsEmpty, process
  <2> QED BY <2>8, <2>9, <2>10 DEF Shape
<1> QED BY <1>1, <1>2, <1>3, <1>4 DEF TaskStep

\* A server step changes the fate of one call and what Khora holds.
LEMMA ServerShape == ASSUME Shape, NEW a \in Actors, ServerStep(a) PROVE Shape'
<1>0. /\ TypeOK /\ WellFormed /\ ClosedIsEmpty
      /\ call \in [Actors -> Call] /\ call[a] \in Call /\ khora \in Index
  BY DEF Shape, TypeOK
<1>1. /\ call' \in [Actors -> Call]
      /\ \A b \in Actors : /\ call'[b].op = call[b].op /\ call'[b].key = call[b].key
                           /\ call'[b].hash = call[b].hash
  <2> DEFINE answer(st) == [call[a] EXCEPT !.st = st]
  <2>1. \E st \in {"ok", "err"} : call' = [call EXCEPT ![a] = answer(st)]
    BY <1>0 DEF ServerStep, ServerApply, ServerRefuse, ServerFail
  <2>2. \A st \in {"ok", "err"} : /\ answer(st) \in Call /\ answer(st).op = call[a].op
                                  /\ answer(st).key = call[a].key /\ answer(st).hash = call[a].hash
    BY <1>0 DEF Call
  <2> QED BY <1>0, <2>1, <2>2
<1>2. Effect(call[a]) \in Index
  BY <1>0 DEF Effect, Index, Call
<1>3. khora' \in Index
  BY <1>0, <1>2 DEF ServerStep, ServerApply, ServerRefuse, ServerFail, server
<1>4. acked' \subseteq Paths \X Contents
  <2>1. acked \subseteq Paths \X Contents BY <1>0 DEF TypeOK
  <2>2. call[a].op = "remember" => call[a].key \in Paths /\ call[a].hash \in Contents
    BY <1>0 DEF WellFormed
  <2> QED BY <2>1, <2>2 DEF ServerStep, ServerApply, ServerRefuse, ServerFail, server
<1>5. budget' \in Budget
  <2>1. budget \in Budget BY <1>0 DEF TypeOK, Budget
  <2>2. CASE ServerFail(a)
    <3>1. budget.fails - 1 \in Nat BY <2>1, <2>2 DEF ServerFail, Budget
    <3> QED BY <2>1, <2>2, <3>1 DEF ServerFail, Budget
  <2> QED BY <2>1, <2>2 DEF ServerStep, ServerApply, ServerRefuse
<1>6. UNCHANGED <<live, path, content, ignored, gen, store, timers, cancel, task, run, disk,
                  flag, flagDisk, backend, epoch, quiet, indexed, saver>>
  BY DEF ServerStep, ServerApply, ServerRefuse, ServerFail, vault, flags, process
<1>7. TypeOK' BY <1>0, <1>1, <1>3, <1>4, <1>5, <1>6 DEF TypeOK, Budget
<1>8. WellFormed' BY <1>0, <1>1, <1>6 DEF WellFormed, Indexing
<1>9. ClosedIsEmpty' BY <1>0, <1>6 DEF ClosedIsEmpty
<1> QED BY <1>7, <1>8, <1>9 DEF Shape

\* Starting and stopping a run
LEMMA UserShape ==
  ASSUME Shape, Stop \/ \E force \in BOOLEAN : Reindex(force) PROVE Shape'
<1>0. TypeOK /\ WellFormed /\ ClosedIsEmpty BY DEF Shape
<1>1. CASE Stop
  BY <1>0, <1>1 DEF Stop, Shape, TypeOK, WellFormed, ClosedIsEmpty, Indexing, RunVars,
                    vault, flags, process, server
<1>2. ASSUME NEW force \in BOOLEAN, Reindex(force) PROVE Shape'
  <2>1. budget' \in Budget
    <3>1. budget \in Budget BY <1>0 DEF TypeOK, Budget
    <3>2. budget.runs > 0 /\ budget' = [budget EXCEPT !.runs = @ - 1] BY <1>2 DEF Reindex
    <3>3. budget.runs - 1 \in Nat BY <3>1, <3>2 DEF Budget
    <3> QED BY <3>1, <3>2, <3>3 DEF Budget
  <2>2. run' \in RunType /\ run'.pc = "flag"
    <3>1. NoRun \in RunType BY NoRunType
    <3> QED BY <1>2, <3>1 DEF Reindex, RunType
  <2>3. gen \in Gens BY <1>0, <1>2, GenIsCreated DEF Reindex
  <2>4. TypeOK' BY <1>0, <1>2, <2>1, <2>2
                DEF Reindex, TypeOK, Budget, RunVars, vault, process, server
  <2>5. WellFormed' BY <1>0, <1>2, <2>2, <2>3
                    DEF Reindex, WellFormed, Indexing, RunVars, vault, process
  <2>6. ClosedIsEmpty' BY <1>0, <1>2 DEF Reindex, ClosedIsEmpty, RunVars, process
  <2> QED BY <2>4, <2>5, <2>6 DEF Shape
<1> QED BY <1>1, <1>2

\* A step of the run assigns run, and of the other variables only these.
RunFrame == /\ UNCHANGED <<live, path, content, ignored, gen, timers, task, backend, epoch,
                           khora, acked, budget>>
            /\ cancel' \in BOOLEAN /\ flag' \in BOOLEAN /\ flagDisk' \in BOOLEAN
            /\ quiet' \in BOOLEAN /\ indexed' \in BOOLEAN /\ saver' \in 0 .. MaxEpochs

\* A step of a run stays within its frame.
LEMMA RunStepFrame == ASSUME TypeOK, RunStep PROVE RunFrame
<1>1. saver \in 0 .. MaxEpochs /\ run.gen \in 0 .. MaxEpochs BY DEF TypeOK, RunType
<1>2. saver' \in {saver, run.gen}
  BY DEF NoteDone, RunStep, RunBegin, RunRefused, RunForgot, RunAttempt, RunForgotFirst,
         RunRemembered, RunRetry, RunGaveUp, RunNothing, RunEnd, RunUnflag, RunForget, RunRead,
         RunAborted, RunNote, Finish
<1>3. saver' \in 0 .. MaxEpochs BY <1>1, <1>2
<1> QED
  BY <1>3 DEF NoteDone, RunStep, RunFrame, TypeOK, RunBegin, RunRefused, RunForgot, RunAttempt, RunForgotFirst,
       RunRemembered, RunRetry, RunGaveUp, RunNothing, RunEnd, RunUnflag, RunForget, RunRead,
       RunAborted, RunNote, Finish, RunVars, vault, flags, process, server

\* The run stays well formed if these four facts hold after the step.
LEMMA RunShapeFrom ==
  ASSUME Shape, RunFrame,
         run' \in RunType, store' \in [Gens -> Index], disk' \in Index,
         /\ call' \in [Actors -> Call]
         /\ \A b \in Actors : call'[b] # call[b] /\ call'[b].op = "remember"
                                => call'[b].key \in Paths /\ call'[b].hash \in Contents,
         run.pc # "idle",
         run'.pc \in {"loop", "attempt", "wait"} => run'.gen \in Gens,
         run'.pc # "flag",
         run'.pc \in {"attempt", "wait"} => run'.doc \in Doc
  PROVE Shape'
<1>1. TypeOK' BY DEF Shape, TypeOK, RunFrame
<1>2. WellFormed' BY DEF Shape, WellFormed, Indexing, RunFrame
<1>3. ClosedIsEmpty' BY DEF Shape, ClosedIsEmpty, RunFrame
<1> QED BY <1>1, <1>2, <1>3 DEF Shape

\* A step of a run keeps the types.
LEMMA RunShape == ASSUME Shape, RunStep PROVE Shape'
<1>0. /\ TypeOK /\ WellFormed /\ RunFrame /\ Run \in Actors /\ None \in Hash
      /\ run \in RunType /\ store \in [Gens -> Index] /\ disk \in Index
      /\ call \in [Actors -> Call]
  BY RunStepFrame DEF Shape, TypeOK, Actors, Hash
<1>a. run.pc \in {"loop", "attempt", "wait"} => run.gen \in Gens BY <1>0 DEF WellFormed, Indexing
<1>b. run.pc \in {"attempt", "wait"} => run.doc \in Doc BY <1>0 DEF WellFormed
<1>c. \A d \in Doc : d.path \in Paths /\ d.hash \in Contents BY DEF Doc
<1>d. run.client \in 0 .. MaxEpochs BY <1>0 DEF RunType
<1>1. CASE RunBegin
  <2>1. run' = [run EXCEPT !.pc = "loop", !.gen = gen, !.client = epoch, !.files = Present,
                  !.gone = {p \in Paths : store[gen][p] # None} \ {path[f] : f \in Present}]
    BY <1>1 DEF RunBegin
  <2>2. gen \in Gens /\ gen \in 0 .. MaxEpochs /\ epoch \in 0 .. MaxEpochs
    BY <1>0, <1>1 DEF RunBegin, WellFormed, TypeOK
  <2>3. Present \subseteq Files BY <1>0 DEF Present, TypeOK
  <2>4. run' \in RunType /\ run'.pc = "loop" /\ run'.gen = gen BY <1>0, <2>1, <2>2, <2>3 DEF RunType
  <2> QED BY <1>0, <1>1, <2>2, <2>4, RunShapeFrom DEF RunBegin
<1>2. ASSUME NEW done \in BOOLEAN, Finish(done), UNCHANGED <<store, call>>, run.pc # "idle",
             disk' \in Index
      PROVE Shape'
  <2>1. run' \in RunType /\ run'.pc = "unflag" BY <1>0, <1>2 DEF Finish, RunType
  <2> QED BY <1>0, <1>2, <2>1, RunShapeFrom
<1>3. CASE RunRefused BY <1>0, <1>2, <1>3 DEF RunRefused
<1>4. ASSUME NEW f \in Files, RunAborted(f) PROVE Shape' BY <1>0, <1>2, <1>4 DEF RunAborted, Scanning
<1>5. CASE RunNothing BY <1>0, <1>2, <1>5 DEF RunNothing, Sending
<1>6. CASE RunEnd
  <2>1. disk' \in Index BY <1>0, <1>a, <1>6 DEF RunEnd, Sending
  <2>2. Finish(TRUE) \/ Finish(FALSE) BY <1>6 DEF RunEnd
  <2> QED BY <1>0, <1>2, <1>6, <2>1, <2>2 DEF RunEnd, Sending
<1>7. ASSUME NEW p \in Paths, RunForget(p) PROVE Shape'
  <2>1. Send(Run, "forget", p, None, run.client) /\ UNCHANGED <<run, store, disk>>
        /\ run.pc = "loop"
    BY <1>7 DEF RunForget
  <2>2. /\ call' \in [Actors -> Call] /\ call'[Run].op = "forget"
        /\ \A b \in Actors \ {Run} : call'[b] = call[b]
    BY <1>0, <1>d, <2>1, SendType
  <2> QED BY <1>0, <1>a, <1>b, <2>1, <2>2, RunShapeFrom
<1>8. ASSUME Return(Run)
      PROVE /\ call' \in [Actors -> Call]
            /\ \A b \in Actors : call'[b] # call[b] => call'[b].op = "none"
  BY <1>0, <1>8, ReturnType DEF NoCall
<1>9. CASE RunForgot
  <2>1. run' \in RunType /\ run'.pc = "loop" /\ run'.gen = run.gen
    BY <1>0, <1>9 DEF RunForgot, RunType
  <2>2. store' \in [Gens -> Index] BY <1>0, <1>a, <1>9, StoreUpdate DEF RunForgot
  <2> QED BY <1>0, <1>a, <1>8, <1>9, <2>1, <2>2, RunShapeFrom DEF RunForgot
<1>10. ASSUME NEW f \in Files, RunRead(f) PROVE Shape'
  <2>1. path[f] \in Paths /\ content[f] \in Contents \cup {Blank}
    BY <1>0, <1>10 DEF RunRead, WellFormed, TypeOK
  <2>2. Gate(f) \subseteq Doc
    <3> DEFINE same == store[run.gen][path[f]] = content[f]
    <3>1. CASE content[f] = Blank BY <3>1 DEF Gate
    <3>2. CASE content[f] # Blank
      <4>1. [path |-> path[f], hash |-> content[f], forgetFirst |-> same] \in Doc
        BY <2>1, <3>2 DEF Doc
      <4> QED BY <4>1 DEF Gate
    <3> QED BY <3>1, <3>2
  <2>3. run' \in RunType /\ run'.pc = run.pc /\ run'.gen = run.gen /\ run.pc = "loop"
    BY <1>0, <1>10, <2>2 DEF RunRead, Scanning, RunType
  <2> QED BY <1>0, <1>a, <1>10, <2>3, RunShapeFrom DEF RunRead
<1>11. ASSUME NEW d \in run.docs, RunNote(d) PROVE Shape'
  <2>1. d \in Doc /\ 1 \in 0 .. Retries BY <1>0, ConstantsAssumption DEF RunType
  <2>2. run' \in RunType /\ run'.pc = "attempt" /\ run'.gen = run.gen /\ run'.doc = d /\ run.pc = "loop"
    BY <1>0, <1>11, <2>1 DEF RunNote, Sending, RunType
  <2> QED BY <1>0, <1>a, <1>11, <2>1, <2>2, RunShapeFrom DEF RunNote
<1>12. CASE RunAttempt
  <2>1. run' \in RunType /\ run'.pc = "wait" /\ run'.gen = run.gen /\ run'.doc = run.doc
        /\ run.pc = "attempt"
    BY <1>0, <1>12 DEF RunAttempt, RunType
  <2>2. run.doc.path \in Paths /\ run.doc.hash \in Contents BY <1>b, <1>c, <2>1
  <2>3. \/ Send(Run, "forget", run.doc.path, None, run.client)
        \/ Send(Run, "remember", run.doc.path, run.doc.hash, run.client)
    BY <1>12 DEF RunAttempt
  <2>4. run.doc.path \in Paths \cup {None} /\ run.doc.hash \in Hash BY <2>2 DEF Hash
  <2>5. /\ call' \in [Actors -> Call] /\ call'[Run].key = run.doc.path
        /\ call'[Run].op = "remember" => call'[Run].hash = run.doc.hash
        /\ \A b \in Actors \ {Run} : call'[b] = call[b]
    <3>0. TypeOK /\ Run \in Actors BY <1>0
    <3>1. CASE Send(Run, "forget", run.doc.path, None, run.client)
      <4>1. None \in Hash BY DEF Hash
      <4> QED BY <1>d, <2>4, <3>0, <3>1, <4>1, SendType
    <3>2. CASE Send(Run, "remember", run.doc.path, run.doc.hash, run.client)
      BY <1>d, <2>4, <3>0, <3>2, SendType
    <3> QED BY <2>3, <3>1, <3>2
  <2> QED BY <1>0, <1>a, <1>b, <1>12, <2>1, <2>2, <2>5, RunShapeFrom DEF RunAttempt
<1>13. CASE RunForgotFirst
  <2>1. run.pc = "wait" /\ run.doc \in Doc BY <1>b, <1>13 DEF RunForgotFirst
  <2>2. run' \in RunType /\ run'.pc = "wait" /\ run'.gen = run.gen /\ run'.doc \in Doc
    <3>1. [run.doc EXCEPT !.forgetFirst = FALSE] \in Doc BY <2>1 DEF Doc
    <3>2. run' = [run EXCEPT !.doc = [run.doc EXCEPT !.forgetFirst = FALSE]]
      BY <1>0, <1>13 DEF RunForgotFirst
    <3> QED BY <1>0, <2>1, <3>1, <3>2 DEF RunType
  <2>3. run.doc.path \in Paths \cup {None} /\ run.doc.hash \in Hash BY <1>c, <2>1 DEF Hash
  <2>4. Send(Run, "remember", run.doc.path, run.doc.hash, run.client) BY <1>13 DEF RunForgotFirst
  <2>5. /\ call' \in [Actors -> Call] /\ call'[Run].key = run.doc.path
        /\ call'[Run].hash = run.doc.hash
        /\ \A b \in Actors \ {Run} : call'[b] = call[b]
    <3>1. TypeOK /\ Run \in Actors BY <1>0
    <3> QED BY <1>d, <2>3, <2>4, <3>1, SendType
  <2> QED BY <1>0, <1>a, <1>c, <1>13, <2>1, <2>2, <2>5, RunShapeFrom DEF RunForgotFirst
<1>14. ASSUME NEW n \in {0, 1}, NoteDone(n), Return(Run), store' \in [Gens -> Index],
              run.pc \in {"attempt", "wait"}
       PROVE Shape'
  <2>1. run.done + 1 \in Nat /\ run.failed + n \in Nat BY <1>0 DEF RunType
  <2>2. run' = [run EXCEPT !.pc = "loop", !.done = @ + 1, !.failed = @ + n]
    BY <1>14 DEF NoteDone
  <2>3. run' \in RunType /\ run'.pc = "loop" /\ run'.gen = run.gen
    BY <1>0, <2>1, <2>2 DEF RunType
  <2>4. disk' \in Index BY <1>0, <1>a, <1>14 DEF NoteDone
  <2> QED BY <1>0, <1>a, <1>8, <1>14, <2>3, <2>4, RunShapeFrom
<1>15. CASE RunRemembered
  <2>1. run.doc.hash \in Hash BY <1>b, <1>c, <1>15 DEF RunRemembered, Hash
  <2>2. store' \in [Gens -> Index] BY <1>0, <1>a, <1>15, <2>1, StoreUpdate DEF RunRemembered
  <2> QED BY <1>14, <1>15, <2>2 DEF RunRemembered
<1>16. CASE RunGaveUp BY <1>0, <1>14, <1>16 DEF RunGaveUp
<1>17. CASE RunRetry
  <2>1. run.attempt + 1 \in 0 .. Retries BY <1>0, <1>17, ConstantsAssumption DEF RunRetry, RunType
  <2>2. run' \in RunType /\ run'.pc = "attempt" /\ run'.gen = run.gen /\ run'.doc = run.doc
        /\ run.pc = "wait"
    BY <1>0, <1>17, <2>1 DEF RunRetry, RunType
  <2> QED BY <1>0, <1>a, <1>b, <1>8, <1>17, <2>2, RunShapeFrom DEF RunRetry
<1>18. CASE RunUnflag
  <2>1. run' \in RunType /\ run'.pc = "idle" BY <1>18, NoRunType DEF RunUnflag, NoRun
  <2> QED BY <1>0, <1>18, <2>1, RunShapeFrom DEF RunUnflag
<1> QED BY <1>1, <1>3, <1>4, <1>5, <1>6, <1>7, <1>9, <1>10, <1>11, <1>12, <1>13, <1>15,
           <1>16, <1>17, <1>18 DEF RunStep

\* A sidecar that ends leaves every call with its contents.
LEMMA HangupType ==
  ASSUME TypeOK, Hangup
  PROVE /\ call' \in [Actors -> Call] /\ indexed' \in BOOLEAN
        /\ \A b \in Actors : /\ call'[b].op = call[b].op /\ call'[b].key = call[b].key
                             /\ call'[b].hash = call[b].hash
                             /\ call'[b].st = "ok" => call[b].st = "ok"
<1>1. call \in [Actors -> Call] BY DEF TypeOK
<1>2. PICK lost \in SUBSET {a \in Actors : call[a].st = "ok"} :
        call' = [a \in Actors |-> IF call[a].st = "sent" \/ a \in lost
                                    THEN [call[a] EXCEPT !.st = "err"] ELSE call[a]]
  BY DEF Hangup
<1>3. \A b \in Actors : LET c == [call[b] EXCEPT !.st = "err"]
                        IN c \in Call /\ c.op = call[b].op /\ c.key = call[b].key
                           /\ c.hash = call[b].hash /\ c.st = "err"
  BY <1>1 DEF Call
<1> QED BY <1>1, <1>2, <1>3 DEF Hangup

\* A step of the backend keeps the types.
LEMMA BackendShape == ASSUME Shape, BackendStep PROVE Shape'
<1>0. TypeOK /\ WellFormed /\ ClosedIsEmpty /\ MaxEpochs \in Nat BY ConstantsAssumption DEF Shape
<1>1. CASE SidecarCrash \/ ManagerStop
  <2>1. /\ call' \in [Actors -> Call] /\ indexed' \in BOOLEAN
        /\ \A b \in Actors : /\ call'[b].op = call[b].op /\ call'[b].key = call[b].key
                             /\ call'[b].hash = call[b].hash
    BY <1>0, <1>1, HangupType DEF SidecarCrash, ManagerStop
  <2>2. /\ UNCHANGED <<live, path, content, ignored, gen, store, timers, cancel, task, run, disk,
                       flag, flagDisk, epoch, khora, acked, quiet, saver, budget>>
        /\ backend' \in {"crashed", "down"}
    BY <1>1 DEF SidecarCrash, ManagerStop, vault, flags, server
  <2>3. TypeOK' BY <1>0, <2>1, <2>2 DEF TypeOK
  <2>4. WellFormed' BY <1>0, <2>1, <2>2 DEF WellFormed, Indexing
  <2>5. ClosedIsEmpty' BY <2>2 DEF ClosedIsEmpty
  <2> QED BY <2>3, <2>4, <2>5 DEF Shape
<1>2. CASE SidecarRespawn \/ SidecarReady \/ Boot
  <2>1. /\ UNCHANGED <<live, path, content, ignored, gen, store, timers, cancel, task, run, disk,
                       flag, flagDisk, call, khora, acked, quiet, indexed, saver, budget>>
        /\ backend' \in {"starting", "up", "booting"} /\ epoch' \in 0 .. MaxEpochs
        /\ backend' = "booting" => epoch' \in Gens
    BY <1>0, <1>2 DEF SidecarRespawn, SidecarReady, Boot, TypeOK, Gens,
                      vault, flags, server
  <2>2. TypeOK' BY <1>0, <2>1 DEF TypeOK
  <2>3. WellFormed' BY <1>0, <2>1 DEF WellFormed, Indexing
  <2>4. ClosedIsEmpty' BY <2>1 DEF ClosedIsEmpty
  <2> QED BY <2>2, <2>3, <2>4 DEF Shape
<1>3. CASE StartIndexer
  <2>1. epoch \in Gens BY <1>0, <1>3 DEF StartIndexer, WellFormed
  <2>2. disk' \in Index BY <1>0, <1>3, GenIsCreated DEF StartIndexer, TypeOK
  <2>3. store' \in [Gens -> Index] BY <1>0, <1>3, <2>1, <2>2 DEF StartIndexer, TypeOK
  <2>4. timers' \subseteq Timer /\ cancel' \in BOOLEAN BY <1>0, <1>3 DEF StartIndexer, TypeOK
  <2>5. TypeOK' BY <1>0, <1>3, <2>2, <2>3, <2>4
                DEF StartIndexer, TypeOK, vault, flags, server
  <2>6. WellFormed' BY <1>0, <1>3, <2>1 DEF StartIndexer, WellFormed, Indexing, vault
  <2>7. ClosedIsEmpty' BY <1>3 DEF StartIndexer, ClosedIsEmpty
  <2> QED BY <2>5, <2>6, <2>7 DEF Shape
<1>4. ASSUME NEW flush \in BOOLEAN, Close(flush) PROVE Shape'
  <2>1. disk' \in Index BY <1>0, <1>4, GenIsCreated DEF Close, TypeOK
  <2>2. store' \in [Gens -> Index] BY <1>4 DEF Close, Empty, Index, Hash
  <2>3. task' \in [Slots -> Task] /\ \A s \in Slots : task'[s].pc = "idle"
    BY <1>4, NoTaskType DEF Close, NoTask
  <2>4. run' \in RunType /\ run'.pc = "idle" BY <1>4, NoRunType DEF Close, NoRun
  <2>5. /\ call' \in [Actors -> Call]
        /\ \A a \in Actors : call'[a].op = "remember" => call'[a] = call[a]
    <3>1. NoCall \in Call /\ NoCall.op = "none" BY <1>0 DEF NoCall, Call, Hash
    <3> QED BY <1>0, <1>4, <3>1 DEF Close, TypeOK
  <2>6. /\ UNCHANGED <<live, path, content, ignored, flag, flagDisk, epoch, khora, acked, budget>>
        /\ backend' = "closed" /\ gen' = 0 /\ timers' = {} /\ cancel' = FALSE
        /\ quiet' = FALSE /\ indexed' = FALSE
    BY <1>0, <1>4 DEF Close, TypeOK, vault, flags, server
  <2>7. TypeOK'
    <3>1. gen' \in 0 .. MaxEpochs /\ saver' \in 0 .. MaxEpochs BY <1>0, <1>4 DEF Close
    <3>2. timers' \subseteq Timer BY <1>4 DEF Close
    <3>3. cancel' \in BOOLEAN /\ quiet' \in BOOLEAN /\ indexed' \in BOOLEAN BY <1>4 DEF Close
    <3> QED BY <1>0, <2>1, <2>2, <2>3, <2>4, <2>5, <2>6, <3>1, <3>2, <3>3 DEF TypeOK
  <2>8. WellFormed' BY <1>0, <2>3, <2>4, <2>5, <2>6 DEF WellFormed, Indexing
  <2>9. ClosedIsEmpty' BY <2>3, <2>4, <2>6 DEF ClosedIsEmpty
  <2> QED BY <2>7, <2>8, <2>9 DEF Shape
<1>5. CASE Open
  <2>1. /\ call' \in [Actors -> Call] /\ \A a \in Actors : call'[a].op = "none"
    BY <1>0, <1>5 DEF Open, NoCall, Call, Hash
  <2>2. /\ UNCHANGED <<live, path, content, ignored, gen, store, timers, cancel, task, run, disk,
                       flagDisk, khora, acked, quiet, indexed, saver, budget>>
        /\ backend' = "booting" /\ epoch' \in 0 .. MaxEpochs /\ epoch' \in Gens
        /\ flag' \in BOOLEAN
    BY <1>0, <1>5 DEF Open, TypeOK, Gens, vault, server
  <2>3. gen = 0 /\ run.pc = "idle" BY <1>0, <1>5 DEF Open, ClosedIsEmpty
  <2>4. TypeOK' BY <1>0, <2>1, <2>2 DEF TypeOK
  <2>5. WellFormed' BY <1>0, <2>1, <2>2, <2>3 DEF WellFormed, Indexing
  <2>6. ClosedIsEmpty' BY <2>2 DEF ClosedIsEmpty
  <2> QED BY <2>4, <2>5, <2>6 DEF Shape
<1> QED BY <1>1, <1>2, <1>3, <1>4, <1>5 DEF BackendStep

\* The types hold at first.
LEMMA InitShape == ASSUME Init PROVE Shape
<1>1. NoCall \in Call /\ NoCall.op = "none" /\ MaxEpochs \in Nat
  BY ConstantsAssumption DEF NoCall, Call, Hash
<1>2. task \in [Slots -> Task] /\ \A s \in Slots : task[s].pc = "idle"
  BY NoTaskType DEF Init, NoTask
<1>3. run \in RunType /\ run.pc = "idle" BY NoRunType DEF Init, NoRun
<1>4. store \in [Gens -> Index] /\ disk \in Index /\ khora \in Index
  BY DEF Init, Empty, Index, Hash
<1>5. call \in [Actors -> Call] /\ \A a \in Actors : call[a].op = "none" BY <1>1 DEF Init
<1>6. budget \in Budget BY ConstantsAssumption DEF Init, Budget
<1>7. TypeOK
  <2>1. /\ live \subseteq Files /\ path \in [Files -> Paths \cup {None}]
        /\ content \in [Files -> Contents \cup {Blank}] /\ ignored \subseteq Ignorable
    BY DEF Init
  <2>2. gen \in 0 .. MaxEpochs /\ epoch \in 0 .. MaxEpochs /\ saver \in 0 .. MaxEpochs BY <1>1 DEF Init
  <2>3. timers \subseteq Timer /\ acked \subseteq Paths \X Contents BY DEF Init
  <2>4. /\ cancel \in BOOLEAN /\ flag \in BOOLEAN /\ flagDisk \in BOOLEAN /\ quiet \in BOOLEAN
        /\ indexed \in BOOLEAN
        /\ backend \in {"closed", "down", "booting", "up", "crashed", "starting"}
    BY DEF Init
  <2> QED BY <1>2, <1>3, <1>4, <1>5, <1>6, <2>1, <2>2, <2>3, <2>4 DEF TypeOK, Budget
<1>8. WellFormed BY <1>2, <1>3, <1>5 DEF Init, WellFormed, Indexing
<1>9. ClosedIsEmpty BY <1>2, <1>3 DEF Init, ClosedIsEmpty
<1> QED BY <1>7, <1>8, <1>9 DEF Shape

\* Every step keeps the types.
LEMMA NextShape == ASSUME Shape, [Next]_vars PROVE Shape'
<1>1. CASE Next
  BY <1>1, VaultShape, TaskShape, ServerShape, UserShape, RunShape, BackendShape DEF Next
<1>2. CASE UNCHANGED vars
  BY <1>2 DEF vars, Shape, TypeOK, WellFormed, ClosedIsEmpty, Indexing,
              vault, flags, process, server
<1> QED BY <1>1, <1>2

\* The program's state is always of the kind the code declares: stores map
\* paths to hashes, calls carry notes, coroutines work on Indexers that exist.
THEOREM TypeCorrectness == Spec => []TypeOK
<1>1. Init => Shape BY InitShape
<1>2. Shape /\ [Next]_vars => Shape' BY NextShape
<1>3. Shape => TypeOK BY DEF Shape
<1> QED BY <1>1, <1>2, <1>3, PTL DEF Spec

----------------------------------------------------------------------------
(* An interrupted run is found out: the flag is on disk while it works *)

\* RunIsFlaggedOnDisk with what makes it inductive: between reindex and the
\* first step of fullIndex the flag is set in memory.
Flagged == RunIsFlaggedOnDisk /\ (run.pc = "flag" => flag)

\* Every step keeps the flags of the runs right.
LEMMA NextFlagged == ASSUME Shape, Flagged, [Next]_vars PROVE Flagged'
<1>0. TypeOK /\ ClosedIsEmpty /\ run \in RunType BY DEF Shape, TypeOK
<1>1. CASE UNCHANGED <<run, flag, flagDisk>>
  BY <1>1 DEF Flagged, RunIsFlaggedOnDisk, Indexing
<1>2. CASE VaultStep \/ (\E s \in Slots : TaskStep(s)) \/ (\E a \in Actors : ServerStep(a)) \/ Stop
  BY <1>1, <1>2 DEF VaultStep, Create, Modify, Delete, Rename, EditIgnore, TaskStep, Fire, TaskRead,
                    TaskRemembered, TaskForgot, ServerStep, ServerApply, ServerRefuse, ServerFail,
                    Stop, flags
<1>3. ASSUME NEW force \in BOOLEAN, Reindex(force) PROVE Flagged'
  <2>1. flag' = TRUE /\ run' = [NoRun EXCEPT !.pc = "flag", !.force = force] BY <1>3 DEF Reindex
  <2>2. run'.pc = "flag" BY <2>1 DEF NoRun
  <2> QED BY <2>1, <2>2 DEF Flagged, RunIsFlaggedOnDisk, Indexing
<1>4. CASE RunStep
  <2>1. CASE RunBegin
    <3>1. run'.pc = "loop" BY <1>0, <2>1 DEF RunBegin, RunType
    <3>2. flag /\ flagDisk' = flag /\ flag' = flag BY <2>1 DEF RunBegin, Flagged
    <3> QED BY <3>1, <3>2 DEF Flagged, RunIsFlaggedOnDisk
  <2>2. CASE \E done \in BOOLEAN : Finish(done)
    BY <1>0, <2>2 DEF Finish, RunType, Flagged, RunIsFlaggedOnDisk, Indexing
  <2>3. CASE RunUnflag
    BY <2>3 DEF RunUnflag, NoRun, Flagged, RunIsFlaggedOnDisk, Indexing
  <2>4. ASSUME Indexing, run'.pc \in {"loop", "attempt", "wait"}, UNCHANGED <<flag, flagDisk>>
        PROVE Flagged'
    BY <2>4 DEF Flagged, RunIsFlaggedOnDisk
  <2>5. CASE RunForgot BY <1>0, <2>4, <2>5 DEF RunForgot, RunType, Indexing, flags
  <2>6. CASE RunAttempt BY <1>0, <2>4, <2>6 DEF RunAttempt, RunType, Indexing, flags
  <2>7. CASE RunForgotFirst BY <1>0, <2>4, <2>7 DEF RunForgotFirst, RunType, Indexing, flags
  <2>8. CASE RunRemembered BY <1>0, <2>4, <2>8 DEF RunRemembered, NoteDone, RunType, Indexing, flags
  <2>9. CASE RunRetry BY <1>0, <2>4, <2>9 DEF RunRetry, RunType, Indexing, flags
  <2>10. CASE RunGaveUp BY <1>0, <2>4, <2>10 DEF RunGaveUp, NoteDone, RunType, Indexing, flags
  <2>11. ASSUME NEW p \in Paths, RunForget(p) PROVE Flagged' BY <1>1, <2>11 DEF RunForget, flags
  <2>12. ASSUME NEW f \in Files, RunRead(f) PROVE Flagged'
    BY <1>0, <2>4, <2>12 DEF RunRead, Scanning, RunType, Indexing, flags
  <2>13. ASSUME NEW d \in run.docs, RunNote(d) PROVE Flagged'
    BY <1>0, <2>4, <2>13 DEF RunNote, Sending, RunType, Indexing, flags
  <2> QED
    BY <1>4, <2>1, <2>2, <2>3, <2>5, <2>6, <2>7, <2>8, <2>9, <2>10, <2>11, <2>12, <2>13
    DEF RunStep, RunRefused, RunNothing, RunEnd, RunAborted
<1>5. CASE BackendStep
  <2>1. CASE Open
    <3>1. run.pc = "idle" /\ run' = run BY <1>0, <2>1 DEF Open, ClosedIsEmpty
    <3> QED BY <3>1 DEF Flagged, RunIsFlaggedOnDisk, Indexing
  <2>2. ASSUME NEW flush \in BOOLEAN, Close(flush) PROVE Flagged'
    <3>1. run'.pc = "idle" BY <2>2 DEF Close, NoRun
    <3> QED BY <3>1 DEF Flagged, RunIsFlaggedOnDisk, Indexing
  <2> QED BY <1>1, <1>5, <2>1, <2>2 DEF BackendStep, SidecarCrash, SidecarRespawn, SidecarReady,
                                        ManagerStop, Boot, StartIndexer, flags
<1>6. CASE UNCHANGED vars BY <1>1, <1>6 DEF vars, flags
<1> QED BY <1>2, <1>3, <1>4, <1>5, <1>6 DEF Next

\* Whenever Obsidian may die in the middle of a run, the flag that makes the
\* next start offer "Resume" is already on disk.
THEOREM InterruptionIsFlagged == Spec => []RunIsFlaggedOnDisk
<1>1. Init => Shape /\ Flagged
  <2>1. Init => Flagged BY DEF Init, NoRun, Flagged, RunIsFlaggedOnDisk, Indexing
  <2> QED BY <2>1, InitShape
<1>2. (Shape /\ Flagged) /\ [Next]_vars => (Shape /\ Flagged)' BY NextShape, NextFlagged
<1>3. Shape /\ Flagged => RunIsFlaggedOnDisk BY DEF Flagged
<1> QED BY <1>1, <1>2, <1>3, PTL DEF Spec

----------------------------------------------------------------------------
(* The hash store claims only what Khora has accepted *)

\* The texts Khora has accepted, and the indexes made of them
Known      == {h \in Hash : h # None => \E q \in Paths : <<q, h>> \in acked}
KnownIndex == [Paths -> Known]

\* The entries were acknowledged when the indexes are made of accepted texts.
LEMMA EntriesAreKnown ==
  ASSUME TypeOK
  PROVE EntriesWereAcknowledged <=> store \in [Gens -> KnownIndex] /\ disk \in KnownIndex
<1>1. store \in [Gens -> [Paths -> Hash]] /\ disk \in [Paths -> Hash] BY DEF TypeOK, Index
<1>2. ASSUME EntriesWereAcknowledged PROVE store \in [Gens -> KnownIndex] /\ disk \in KnownIndex
  BY <1>1, <1>2 DEF EntriesWereAcknowledged, KnownIndex, Known
<1>3. ASSUME store \in [Gens -> KnownIndex], disk \in KnownIndex PROVE EntriesWereAcknowledged
  BY <1>1, <1>3 DEF EntriesWereAcknowledged, KnownIndex, Known
<1> QED BY <1>2, <1>3

\* The same after a step.
LEMMA EntriesAreKnownNext ==
  ASSUME TypeOK', (store \in [Gens -> KnownIndex] /\ disk \in KnownIndex)'
  PROVE EntriesWereAcknowledged'
<1>1. (store \in [Gens -> [Paths -> Hash]] /\ disk \in [Paths -> Hash])' BY DEF TypeOK, Index
<1> QED BY <1>1 DEF EntriesWereAcknowledged, KnownIndex, Known

\* One entry is set to an accepted text, or dropped.
LEMMA KnownUpdate ==
  ASSUME NEW g \in Gens, NEW p, NEW h \in Known, store \in [Gens -> KnownIndex],
         store' = [store EXCEPT ![g][p] = h]
  PROVE store' \in [Gens -> KnownIndex] /\ store'[g] \in KnownIndex
<1>1. [store[g] EXCEPT ![p] = h] \in KnownIndex BY DEF KnownIndex
<1>2. store' = [store EXCEPT ![g] = [store[g] EXCEPT ![p] = h]] OBVIOUS
<1> QED BY <1>1, <1>2

Claims == EntriesWereAcknowledged /\ AnswersAreTrue

\* Steps that leave what Khora accepted alone
LEMMA ClaimsFrom ==
  ASSUME Shape', UNCHANGED acked, AnswersAreTrue',
         store' \in [Gens -> KnownIndex], disk' \in KnownIndex
  PROVE Claims'
<1>1. TypeOK' /\ KnownIndex' = KnownIndex BY DEF Shape, KnownIndex, Known
<1> QED BY <1>1, EntriesAreKnownNext DEF Claims

\* What the user does to the vault adds no claim.
LEMMA VaultClaims == ASSUME Shape, Shape', Claims, VaultStep PROVE Claims'
<1>0. /\ TypeOK /\ WellFormed /\ AnswersAreTrue /\ Run \notin Slots /\ Run \in Actors
      /\ Slots \subseteq Actors
      /\ store \in [Gens -> KnownIndex] /\ disk \in KnownIndex
  BY EntriesAreKnown, ConstantsAssumption DEF Shape, Claims, Actors
<1>1. UNCHANGED <<acked, store, disk, run>>
  BY DEF VaultStep, Create, Modify, Delete, Rename, EditIgnore, server
<1>2. ASSUME UNCHANGED <<task, call>> PROVE AnswersAreTrue'
  BY <1>0, <1>1, <1>2 DEF AnswersAreTrue
<1>3. ASSUME NEW s \in Slots, NEW p \in Paths, NEW f \in Files \cup {None}, HandleDelete(s, p, f)
      PROVE AnswersAreTrue'
  <2>1. /\ \A r \in Slots : task'[r] # task[r] => task'[r].pc = "forget"
        /\ \A b \in Actors : call'[b] # call[b] =>
             call'[b].op = "forget" /\ b \in Slots /\ task'[b] # task[b]
    BY <1>0, <1>3, HandleDeleteType
  <2> QED BY <1>0, <1>1, <2>1 DEF AnswersAreTrue
<1>4. AnswersAreTrue'
  <2>1. ASSUME NEW f \in Files, NEW s \in Slots, Delete(f, s) PROVE AnswersAreTrue'
    BY <1>0, <1>3, <2>1 DEF Delete, WellFormed
  <2>2. ASSUME NEW f \in Files, NEW p \in Paths, NEW s \in Slots, Rename(f, p, s)
        PROVE AnswersAreTrue'
    BY <1>0, <1>3, <2>2 DEF Rename, WellFormed
  <2> QED BY <1>2, <2>1, <2>2 DEF VaultStep, Create, Modify, EditIgnore
<1> QED BY <1>0, <1>1, <1>4, ClaimsFrom

\* A step of a task adds only claims that Khora has accepted.
LEMMA TaskClaims == ASSUME Shape, Shape', Claims, NEW s \in Slots, TaskStep(s) PROVE Claims'
<1>0. /\ TypeOK /\ WellFormed /\ AnswersAreTrue /\ Run \notin Slots /\ Run \in Actors
      /\ s \in Actors /\ Slots \subseteq Actors /\ None \in Known
      /\ store \in [Gens -> KnownIndex] /\ disk \in KnownIndex
      /\ task \in [Slots -> Task] /\ call \in [Actors -> Call] /\ task[s] \in Task
  BY EntriesAreKnown, ConstantsAssumption DEF Shape, Claims, Actors, Known, Hash, TypeOK
<1>1. UNCHANGED <<acked, run>>
  BY DEF TaskStep, Fire, TaskRead, TaskRemembered, TaskForgot, server
\* The other slots and the run keep task and call; this slot is told apart.
<1>2. ASSUME \A r \in Slots \ {s} : task'[r] = task[r],
             \A b \in Actors \ {s} : call'[b] = call[b],
             call'[s].op = "remember" /\ call'[s].st = "ok" =>
                <<call'[s].key, call'[s].hash>> \in acked,
             task'[s].pc = "remember" =>
                call'[s].op = "remember" /\ call'[s].hash = task'[s].hash
      PROVE AnswersAreTrue'
  BY <1>0, <1>1, <1>2 DEF AnswersAreTrue
<1>3. ASSUME NEW t \in timers, Fire(t, s) PROVE Claims'
  <2>1. /\ \A r \in Slots \ {s} : task'[r] = task[r]
        /\ task'[s] = task[s] \/ task'[s].pc = "read"
    BY <1>0, <1>3 DEF Fire, ReindexOne
  <2>2. UNCHANGED <<call, store, disk>> BY <1>3 DEF Fire
  <2>3. AnswersAreTrue' BY <1>0, <1>2, <2>1, <2>2 DEF AnswersAreTrue
  <2> QED BY <1>0, <1>1, <2>2, <2>3, ClaimsFrom
<1>4. ASSUME TaskRead(s) PROVE Claims'
  <2>1. UNCHANGED <<store, disk>> BY <1>4 DEF TaskRead
  <2> DEFINE f == task[s].file
  <2>2. CASE task' = [task EXCEPT ![s] = NoTask] /\ UNCHANGED call
    <3>1. task'[s].pc = "idle" /\ \A r \in Slots \ {s} : task'[r] = task[r]
      BY <1>0, <2>2 DEF NoTask
    <3> QED BY <1>0, <1>1, <1>2, <2>1, <2>2, <3>1, ClaimsFrom DEF AnswersAreTrue
  <2>3. CASE /\ f \in live /\ content[f] # Blank
             /\ task' = [task EXCEPT ![s].pc = "remember", ![s].hash = content[f]]
             /\ Send(s, "remember", path[f], content[f], task[s].client)
    <3>1. task'[s].hash = content[f] /\ \A r \in Slots \ {s} : task'[r] = task[r]
      BY <1>0, <2>3 DEF Task
    <3>2. path[f] \in Paths \cup {None} /\ content[f] \in Hash /\ task[s].client \in 0 .. MaxEpochs
      <4>1. path[f] \in Paths BY <1>0, <2>3 DEF WellFormed
      <4>2. content[f] \in Contents BY <1>0, <2>3 DEF TypeOK
      <4> QED BY <1>0, <4>1, <4>2 DEF Hash, Task
    <3>3. /\ call'[s].op = "remember" /\ call'[s].hash = content[f] /\ call'[s].st = "sent"
          /\ \A b \in Actors \ {s} : call'[b] = call[b]
      <4>1. TypeOK /\ s \in Actors BY <1>0 DEF Actors
      <4>2. Send(s, "remember", path[f], content[f], task[s].client) BY <2>3
      <4> QED BY <3>2, <4>1, <4>2, SendType
    <3> QED BY <1>0, <1>1, <1>2, <2>1, <3>1, <3>3, ClaimsFrom
  <2> QED BY <1>4, <2>2, <2>3 DEF TaskRead
<1>5. ASSUME task'[s] = NoTask \/ task'[s].pc = "read", \A r \in Slots \ {s} : task'[r] = task[r],
             Return(s)
      PROVE AnswersAreTrue'
  <2>1. call'[s].op = "none" /\ \A b \in Actors \ {s} : call'[b] = call[b]
    BY <1>0, <1>5, ReturnType DEF NoCall
  <2> QED BY <1>2, <1>5, <2>1 DEF NoTask
<1>6. ASSUME TaskRemembered(s) PROVE Claims'
  <2>1. AnswersAreTrue' BY <1>0, <1>5, <1>6 DEF TaskRemembered
  <2>2. task[s].gen \in Gens BY <1>0, <1>6 DEF TaskRemembered, WellFormed
  <2>3. CASE call[s].st = "ok"
    <3>1. /\ call[s].op = "remember" /\ call[s].hash = task[s].hash
          /\ <<call[s].key, call[s].hash>> \in acked
      BY <1>0, <1>6, <2>3 DEF TaskRemembered, AnswersAreTrue
    <3>2. call[s].key \in Paths /\ task[s].hash \in Hash
      BY <1>0, <3>1 DEF WellFormed, Task
    <3>3. task[s].hash \in Known BY <3>1, <3>2 DEF Known
    <3>4. store' \in [Gens -> KnownIndex] /\ disk' \in KnownIndex
      BY <1>0, <1>6, <2>2, <2>3, <3>3, KnownUpdate DEF TaskRemembered
    <3> QED BY <1>1, <2>1, <3>4, ClaimsFrom
  <2>4. CASE call[s].st # "ok"
    <3>1. UNCHANGED <<store, disk>> BY <1>6, <2>4 DEF TaskRemembered
    <3> QED BY <1>0, <1>1, <2>1, <3>1, ClaimsFrom
  <2> QED BY <2>3, <2>4
<1>7. ASSUME TaskForgot(s) PROVE Claims'
  <2>1. /\ task'[s] = NoTask \/ task'[s].pc = "read"
        /\ \A r \in Slots \ {s} : task'[r] = task[r]
    BY <1>0, <1>7 DEF TaskForgot, ReindexOne
  <2>2. AnswersAreTrue' BY <1>5, <1>7, <2>1 DEF TaskForgot
  <2>3. task[s].gen \in Gens BY <1>0, <1>7 DEF TaskForgot, WellFormed
  <2>4. store' \in [Gens -> KnownIndex] /\ disk' \in KnownIndex
    BY <1>0, <1>7, <2>3, KnownUpdate DEF TaskForgot
  <2> QED BY <1>1, <2>2, <2>4, ClaimsFrom
<1> QED BY <1>3, <1>4, <1>6, <1>7 DEF TaskStep

\* "ok" is answered in the step that adds the text to what Khora accepted.
LEMMA ServerClaims == ASSUME Shape, Shape', Claims, NEW a \in Actors, ServerStep(a) PROVE Claims'
<1>0. /\ TypeOK /\ TypeOK' /\ AnswersAreTrue /\ Slots \subseteq Actors /\ Run \in Actors
      /\ store \in [Gens -> KnownIndex] /\ disk \in KnownIndex
      /\ call \in [Actors -> Call] /\ call[a] \in Call
  BY EntriesAreKnown DEF Shape, Claims, Actors, TypeOK
<1>1. UNCHANGED <<store, disk, task, run>> /\ acked \subseteq acked'
  BY DEF ServerStep, ServerApply, ServerRefuse, ServerFail, server
<1>2. KnownIndex \subseteq KnownIndex' BY <1>1 DEF KnownIndex, Known
<1>3. (store \in [Gens -> KnownIndex] /\ disk \in KnownIndex)' BY <1>0, <1>1, <1>2
<1>4. \A b \in Actors : call'[b].op = call[b].op /\ call'[b].key = call[b].key
                        /\ call'[b].hash = call[b].hash
  BY <1>0 DEF ServerStep, ServerApply, ServerRefuse, ServerFail, Call
<1>5. \A b \in Actors : call'[b].st = "ok" /\ call[b].st # "ok" /\ call[b].op = "remember"
                          => <<call[b].key, call[b].hash>> \in acked'
  BY <1>0 DEF ServerStep, ServerApply, ServerRefuse, ServerFail, Call
<1>6. AnswersAreTrue' BY <1>0, <1>1, <1>4, <1>5 DEF AnswersAreTrue
<1> QED BY <1>0, <1>3, <1>6, EntriesAreKnownNext DEF Claims

\* So does a step of a run.
LEMMA RunClaims == ASSUME Shape, Shape', Claims, RunStep PROVE Claims'
<1>0. /\ TypeOK /\ WellFormed /\ AnswersAreTrue /\ RunFrame /\ Run \notin Slots /\ Run \in Actors
      /\ Slots \subseteq Actors /\ None \in Known /\ run \in RunType
      /\ store \in [Gens -> KnownIndex] /\ disk \in KnownIndex
  BY EntriesAreKnown, RunStepFrame, ConstantsAssumption
  DEF Shape, Claims, Actors, Known, Hash, TypeOK
<1>1. UNCHANGED <<acked, task>> BY <1>0 DEF RunFrame
<1>a. run.pc \in {"loop", "attempt", "wait"} => run.gen \in Gens BY <1>0 DEF WellFormed, Indexing
<1>b. run.pc \in {"attempt", "wait"} => run.doc \in Doc BY <1>0 DEF WellFormed
<1>c. run.client \in 0 .. MaxEpochs BY <1>0 DEF RunType
\* The handlers keep task and call; the call of the run is told apart.
<1>2. ASSUME \A b \in Actors \ {Run} : call'[b] = call[b],
             call'[Run].op = "remember" /\ call'[Run].st = "ok" =>
                <<call'[Run].key, call'[Run].hash>> \in acked,
             run'.pc = "wait" /\ call'[Run].op = "remember" =>
                call'[Run].hash = run'.doc.hash
      PROVE AnswersAreTrue'
  BY <1>0, <1>1, <1>2 DEF AnswersAreTrue
<1>3. ASSUME UNCHANGED call, run'.pc # "wait" PROVE AnswersAreTrue'
  BY <1>0, <1>2, <1>3 DEF AnswersAreTrue
<1>4. ASSUME Return(Run) PROVE AnswersAreTrue'
  <2>1. call'[Run].op = "none" /\ \A b \in Actors \ {Run} : call'[b] = call[b]
    BY <1>0, <1>4, ReturnType DEF NoCall
  <2> QED BY <1>2, <2>1
<1>5. ASSUME NEW p \in Paths, NEW h \in Contents, run'.doc.hash = h \/ run'.pc # "wait",
             \/ Send(Run, "forget", p, None, run.client)
             \/ Send(Run, "remember", p, h, run.client)
      PROVE AnswersAreTrue'
  <2>1. p \in Paths \cup {None} /\ None \in Hash /\ h \in Hash BY DEF Hash
  <2>2. CASE Send(Run, "forget", p, None, run.client)
    <3>1. call'[Run].op = "forget" /\ \A b \in Actors \ {Run} : call'[b] = call[b]
      BY <1>0, <1>c, <2>1, <2>2, SendType
    <3> QED BY <1>2, <3>1
  <2>3. CASE Send(Run, "remember", p, h, run.client)
    <3>1. /\ call'[Run].hash = h /\ call'[Run].st = "sent"
          /\ \A b \in Actors \ {Run} : call'[b] = call[b]
      BY <1>0, <1>c, <2>1, <2>3, SendType
    <3> QED BY <1>2, <1>5, <3>1
  <2> QED BY <1>5, <2>2, <2>3
<1>6. ASSUME UNCHANGED <<store, disk>>, AnswersAreTrue' PROVE Claims'
  BY <1>0, <1>1, <1>6, ClaimsFrom
<1>7. CASE RunBegin
  <2>1. run'.pc = "loop" BY <1>0, <1>7 DEF RunBegin, RunType
  <2> QED BY <1>3, <1>6, <1>7, <2>1 DEF RunBegin
<1>8. CASE RunRefused \/ RunNothing \/ \E f \in Files : RunAborted(f)
  <2>1. run'.pc = "unflag" BY <1>0, <1>8 DEF RunRefused, RunNothing, RunAborted, Finish, RunType
  <2> QED BY <1>3, <1>6, <1>8, <2>1 DEF RunRefused, RunNothing, RunAborted
<1>9. CASE RunEnd
  <2>1. run'.pc = "unflag" BY <1>0, <1>9 DEF RunEnd, Finish, RunType
  <2>2. disk' \in KnownIndex BY <1>0, <1>a, <1>9 DEF RunEnd, Sending
  <2> QED BY <1>0, <1>1, <1>3, <1>9, <2>1, <2>2, ClaimsFrom DEF RunEnd
<1>10. ASSUME NEW p \in Paths, RunForget(p) PROVE Claims'
  <2>1. Send(Run, "forget", p, None, run.client) /\ UNCHANGED <<run, store, disk>> /\ run.pc = "loop"
    BY <1>10 DEF RunForget
  <2>2. p \in Paths \cup {None} /\ None \in Hash BY DEF Hash
  <2>3. call'[Run].op = "forget" /\ \A b \in Actors \ {Run} : call'[b] = call[b]
    BY <1>0, <1>c, <2>1, <2>2, SendType
  <2> QED BY <1>2, <1>6, <2>1, <2>3
<1>11. CASE RunForgot
  <2>1. store' \in [Gens -> KnownIndex] BY <1>0, <1>a, <1>11, KnownUpdate DEF RunForgot
  <2> QED BY <1>0, <1>1, <1>4, <1>11, <2>1, ClaimsFrom DEF RunForgot
<1>12. ASSUME NEW f \in Files, RunRead(f) PROVE Claims'
  <2>1. run'.pc = "loop" BY <1>0, <1>12 DEF RunRead, Scanning, RunType
  <2> QED BY <1>3, <1>6, <1>12, <2>1 DEF RunRead
<1>13. ASSUME NEW d \in run.docs, RunNote(d) PROVE Claims'
  <2>1. run'.pc = "attempt" BY <1>0, <1>13 DEF RunNote, RunType
  <2> QED BY <1>3, <1>6, <1>13, <2>1 DEF RunNote
<1>14. CASE RunAttempt
  <2>1. run.doc \in Doc /\ run'.doc = run.doc BY <1>0, <1>b, <1>14 DEF RunAttempt, RunType
  <2>2. run.doc.path \in Paths /\ run.doc.hash \in Contents BY <2>1 DEF Doc
  <2>3. AnswersAreTrue' BY <1>5, <1>14, <2>1, <2>2 DEF RunAttempt
  <2> QED BY <1>6, <1>14, <2>3 DEF RunAttempt
<1>15. CASE RunForgotFirst
  <2>1. run.doc \in Doc BY <1>b, <1>15 DEF RunForgotFirst
  <2>2. run.doc.path \in Paths /\ run.doc.hash \in Contents BY <2>1 DEF Doc
  <2>3. run' = [run EXCEPT !.doc = [run.doc EXCEPT !.forgetFirst = FALSE]]
    BY <1>0, <1>15 DEF RunForgotFirst
  <2>4. run'.doc.hash = run.doc.hash BY <1>0, <2>1, <2>3 DEF RunType, Doc
  <2>5. AnswersAreTrue' BY <1>5, <1>15, <2>2, <2>4 DEF RunForgotFirst
  <2> QED BY <1>6, <1>15, <2>5 DEF RunForgotFirst
<1>16. ASSUME NEW n \in {0, 1}, NoteDone(n), Return(Run), store' \in [Gens -> KnownIndex],
              run.pc \in {"attempt", "wait"}
       PROVE Claims'
  <2>1. disk' \in KnownIndex BY <1>0, <1>a, <1>16 DEF NoteDone
  <2> QED BY <1>1, <1>4, <1>16, <2>1, ClaimsFrom
<1>17. CASE RunRemembered
  <2>1. /\ run.pc = "wait" /\ call[Run].op = "remember" /\ call[Run].st = "ok"
        /\ store' = [store EXCEPT ![run.gen][run.doc.path] = run.doc.hash]
    BY <1>17 DEF RunRemembered
  <2>2. /\ call[Run].hash = run.doc.hash /\ <<call[Run].key, call[Run].hash>> \in acked
        /\ call[Run].key \in Paths /\ run.doc.hash \in Hash
    BY <1>0, <1>b, <2>1 DEF AnswersAreTrue, WellFormed, Doc, Hash
  <2>3. run.doc.hash \in Known BY <2>2 DEF Known
  <2>4. store' \in [Gens -> KnownIndex] BY <1>0, <1>a, <2>1, <2>3, KnownUpdate
  <2> QED BY <1>16, <1>17, <2>4 DEF RunRemembered
<1>18. CASE RunGaveUp BY <1>0, <1>16, <1>18 DEF RunGaveUp
<1>19. CASE RunRetry BY <1>4, <1>6, <1>19 DEF RunRetry
<1>20. CASE RunUnflag
  <2>1. run'.pc = "idle" BY <1>20 DEF RunUnflag, NoRun
  <2> QED BY <1>3, <1>6, <1>20, <2>1 DEF RunUnflag
<1> QED BY <1>7, <1>8, <1>9, <1>10, <1>11, <1>12, <1>13, <1>14, <1>15, <1>17, <1>18, <1>19, <1>20
        DEF RunStep

\* The backend takes back nothing it has accepted.
LEMMA BackendClaims == ASSUME Shape, Shape', Claims, BackendStep PROVE Claims'
<1>0. /\ TypeOK /\ ClosedIsEmpty /\ AnswersAreTrue /\ Slots \subseteq Actors /\ Run \in Actors
      /\ store \in [Gens -> KnownIndex] /\ disk \in KnownIndex
  BY EntriesAreKnown DEF Shape, Claims, Actors
<1>1. UNCHANGED acked
  BY DEF BackendStep, SidecarCrash, SidecarRespawn, SidecarReady, ManagerStop, Boot, StartIndexer,
         Open, Close, server
<1>2. CASE SidecarCrash \/ ManagerStop
  <2>1. \A b \in Actors : /\ call'[b].op = call[b].op /\ call'[b].key = call[b].key
                          /\ call'[b].hash = call[b].hash
                          /\ call'[b].st = "ok" => call[b].st = "ok"
    BY <1>0, <1>2, HangupType DEF SidecarCrash, ManagerStop
  <2>2. UNCHANGED <<store, disk, task, run>> BY <1>2 DEF SidecarCrash, ManagerStop
  <2>3. AnswersAreTrue' BY <1>0, <1>1, <2>1, <2>2 DEF AnswersAreTrue
  <2> QED BY <1>0, <1>1, <2>2, <2>3, ClaimsFrom
<1>3. CASE SidecarRespawn \/ SidecarReady \/ Boot
  <2>1. UNCHANGED <<store, disk, task, run, call>> BY <1>3 DEF SidecarRespawn, SidecarReady, Boot
  <2>2. AnswersAreTrue' BY <1>0, <1>1, <2>1 DEF AnswersAreTrue
  <2> QED BY <1>0, <1>1, <2>1, <2>2, ClaimsFrom
<1>4. CASE StartIndexer
  <2>1. UNCHANGED <<task, run, call>> BY <1>4 DEF StartIndexer
  <2>2. AnswersAreTrue' BY <1>0, <1>1, <2>1 DEF AnswersAreTrue
  <2>3. disk' \in KnownIndex BY <1>0, <1>4, GenIsCreated DEF StartIndexer
  <2>4. store' \in [Gens -> KnownIndex] BY <1>0, <1>4, <2>3 DEF StartIndexer
  <2> QED BY <1>1, <2>2, <2>3, <2>4, ClaimsFrom
<1>5. ASSUME NEW flush \in BOOLEAN, Close(flush) PROVE Claims'
  <2>1. disk' \in KnownIndex BY <1>0, <1>5, GenIsCreated DEF Close
  <2>2. store' \in [Gens -> KnownIndex] BY <1>5 DEF Close, Empty, KnownIndex, Known, Hash
  <2>3. /\ run'.pc = "idle" /\ \A s \in Slots : task'[s].pc = "idle"
        /\ \A a \in Actors : call'[a].st # "ok"
    BY <1>5 DEF Close, NoRun, NoTask, NoCall
  <2>4. AnswersAreTrue' BY <2>3 DEF AnswersAreTrue
  <2> QED BY <1>1, <2>1, <2>2, <2>4, ClaimsFrom
<1>6. CASE Open
  <2>1. /\ run.pc = "idle" /\ \A s \in Slots : task[s].pc = "idle" BY <1>0, <1>6 DEF Open, ClosedIsEmpty
  <2>2. /\ UNCHANGED <<store, disk, task, run>> /\ \A a \in Actors : call'[a].st # "ok"
    BY <1>6 DEF Open, NoCall
  <2>3. AnswersAreTrue' BY <2>1, <2>2 DEF AnswersAreTrue
  <2> QED BY <1>0, <1>1, <2>2, <2>3, ClaimsFrom
<1> QED BY <1>2, <1>3, <1>4, <1>5, <1>6 DEF BackendStep

\* Every step keeps the claims covered.
LEMMA NextClaims == ASSUME Shape, Shape', Claims, [Next]_vars PROVE Claims'
<1>0. /\ TypeOK /\ AnswersAreTrue /\ store \in [Gens -> KnownIndex] /\ disk \in KnownIndex
      /\ Run \in Actors
  BY EntriesAreKnown DEF Shape, Claims, Actors
<1>1. CASE Stop
  <2>1. UNCHANGED <<store, disk, task, run, call, acked>> BY <1>1 DEF Stop, RunVars, server
  <2>2. AnswersAreTrue' BY <1>0, <2>1 DEF AnswersAreTrue
  <2> QED BY <1>0, <2>1, <2>2, ClaimsFrom
<1>2. ASSUME NEW force \in BOOLEAN, Reindex(force) PROVE Claims'
  <2>1. UNCHANGED <<store, disk, task, call, acked>> BY <1>2 DEF Reindex, RunVars, server
  <2>2. run'.pc = "flag" BY <1>2 DEF Reindex, NoRun
  <2>3. AnswersAreTrue' BY <1>0, <2>1, <2>2 DEF AnswersAreTrue
  <2> QED BY <1>0, <2>1, <2>3, ClaimsFrom
<1>3. CASE UNCHANGED vars
  <2>1. UNCHANGED <<store, disk, task, run, call, acked>> BY <1>3 DEF vars, server
  <2>2. AnswersAreTrue' BY <1>0, <2>1 DEF AnswersAreTrue
  <2> QED BY <1>0, <2>1, <2>2, ClaimsFrom
<1> QED BY <1>1, <1>2, <1>3, VaultClaims, TaskClaims, ServerClaims, RunClaims, BackendClaims DEF Next

\* An entry of the hash store, in memory or on disk, always carries a text that
\* Khora accepted: no failure, retry, overtaken answer, crash, restart or pair
\* of Indexers makes the content-hash gate skip a text that was never indexed.
THEOREM StoreIsHonest == Spec => []EntriesWereAcknowledged
<1>1. Init => Shape /\ Claims
  <2>1. ASSUME Init PROVE Claims
    <3>1. EntriesWereAcknowledged BY <2>1 DEF Init, Empty, EntriesWereAcknowledged
    <3>2. AnswersAreTrue BY <2>1, ConstantsAssumption
                         DEF Init, NoCall, NoTask, NoRun, AnswersAreTrue, Actors
    <3> QED BY <3>1, <3>2 DEF Claims
  <2> QED BY <2>1, InitShape
<1>2. (Shape /\ Claims) /\ [Next]_vars => (Shape /\ Claims)' BY NextShape, NextClaims
<1>3. Shape /\ Claims => EntriesWereAcknowledged BY DEF Claims
<1> QED BY <1>1, <1>2, <1>3, PTL DEF Spec

----------------------------------------------------------------------------
(* The order of things: Indexers, the calls of a coroutine, the phases of a run *)

\* A run works for an Indexer that is no newer than the current one, and a
\* boot that has not created its Indexer yet is newer than both.
GenOrder == gen <= epoch /\ run.gen <= gen /\ (backend = "booting" => gen < epoch)

\* Two notes never have the same path.
PathsApart == \A f, g \in live : path[f] = path[g] => f = g

\* What the run's slot holds in each of its phases: nothing, the forget of a
\* deleted path, or a call for the note in hand.
RunCalls ==
  /\ backend # "closed" /\ run.pc \in {"idle", "flag", "attempt", "unflag"} => call[Run] = NoCall
  /\ run.pc = "loop" /\ call[Run] # NoCall => call[Run].op = "forget" /\ call[Run].key \in run.gone
  /\ run.pc = "wait" => call[Run].op # "none" /\ call[Run].key = run.doc.path

\* A handler that is not waiting for the sidecar has no call under way.
SlotCalls ==
  backend # "closed" => \A s \in Slots : task[s].pc \in {"idle", "read"} => call[s] = NoCall

\* While the vault has been quiet since the run began, no handler is at work.
QuietSlots == quiet => \A s \in Slots : task[s].pc = "idle"

\* Deletions come first, then the gate, then the send loop; a run that reports
\* completion is through with all three.
RunPhases ==
  /\ run.pc \in {"idle", "flag"} => run.docs = {} /\ run.done = 0
  /\ run.done # 0 \/ run.pc \in {"attempt", "wait"} => run.gone = {} /\ run.files = {}
  /\ run.pc = "unflag" /\ run.completed => run.gone = {} /\ run.files = {} /\ run.docs = {}

Coherent == GenOrder /\ PathsApart /\ RunCalls /\ SlotCalls /\ QuietSlots /\ RunPhases

----------------------------------------------------------------------------
(* What a run has done and has still to do *)

\* The notes that passed the gate and are not through: the one in hand too
InHand == run.docs \cup (IF run.pc \in {"attempt", "wait"} THEN {run.doc} ELSE {})
Queued(f) == \E d \in InHand : d.path = path[f] /\ d.hash = content[f]

\* Every note is blank, still to be looked at, still to be sent, or held.
Covers(index) ==
  \A f \in Present : content[f] = Blank \/ f \in run.files \/ Queued(f) \/ index[path[f]] = content[f]

\* The list of files and the deletions fit the vault, as they did when the run
\* began; every note in hand is one of the vault's, with its present text; an
\* entry is of a note of the vault or will be dropped.
Walk ==
  /\ run.files \subseteq Present
  /\ \A f \in Present : path[f] \notin run.gone
  /\ \A d \in InHand : \E f \in Present : path[f] = d.path /\ content[f] = d.hash
  /\ \A p \in Paths : store[run.gen][p] # None => p \in run.gone \/ \E f \in Present : path[f] = p
  /\ Covers(store[run.gen])
  /\ run.force => Covers(khora)
  /\ run.force /\ run.pc = "wait" /\ call[Run].op = "remember" /\ call[Run].st = "ok"
       => khora[run.doc.path] = run.doc.hash

\* The runs the properties speak of: undisturbed, and no note has failed
OnCourse == quiet /\ run.failed = 0 /\ (Indexing \/ (run.pc = "unflag" /\ run.completed))
WalkInv  == OnCourse => Walk

\* What the periodic save leaves unsaved
Allowance == IF Indexing /\ run.gen = gen THEN run.done % SaveEvery ELSE 0
LossInv   == gen # 0 /\ saver = gen => IsFiniteSet(Unsaved) /\ Cardinality(Unsaved) <= Allowance

----------------------------------------------------------------------------
(* What each step of the run does to the run *)

\* fullIndex begins.
LEMMA RunBeginIs ==
  ASSUME run \in RunType, RunBegin
  PROVE  /\ run.pc = "flag" /\ run'.pc = "loop" /\ run'.gen = gen /\ run'.files = Present
         /\ run'.gone = {p \in Paths : store[gen][p] # None} \ {path[f] : f \in Present}
         /\ run'.force = run.force /\ run'.docs = run.docs /\ run'.done = run.done
         /\ run'.failed = run.failed
BY DEF RunBegin, RunType

\* fullIndex returns.
LEMMA FinishIs ==
  ASSUME run \in RunType, NEW done \in BOOLEAN, Finish(done)
  PROVE  /\ run'.pc = "unflag" /\ run'.completed = done /\ run'.gen = run.gen
         /\ run'.files = run.files /\ run'.gone = run.gone /\ run'.force = run.force
         /\ run'.docs = run.docs /\ run'.done = run.done /\ run'.failed = run.failed
BY DEF Finish, RunType

\* A deleted path is forgotten.
LEMMA RunForgotIs ==
  ASSUME run \in RunType, RunForgot
  PROVE  /\ run.pc = "loop" /\ run'.pc = "loop" /\ run'.gen = run.gen
         /\ run'.gone = run.gone \ {call[Run].key}
         /\ run'.files = run.files /\ run'.force = run.force
         /\ run'.docs = run.docs /\ run'.done = run.done /\ run'.failed = run.failed
BY DEF RunForgot, RunType

\* The gate has looked at a note.
LEMMA RunReadIs ==
  ASSUME run \in RunType, NEW f, RunRead(f)
  PROVE  /\ run.pc = "loop" /\ run'.pc = "loop" /\ run'.gen = run.gen /\ run'.gone = run.gone
         /\ run'.files = run.files \ {f} /\ run'.docs = run.docs \cup Gate(f)
         /\ run'.force = run.force /\ run'.done = run.done /\ run'.failed = run.failed
BY DEF RunRead, Scanning, RunType

\* A note is taken in hand.
LEMMA RunNoteIs ==
  ASSUME run \in RunType, NEW d, RunNote(d)
  PROVE  /\ run.pc = "loop" /\ run'.pc = "attempt" /\ run'.gen = run.gen /\ run'.gone = run.gone
         /\ run'.files = run.files /\ run'.docs = run.docs \ {d} /\ run'.doc = d
         /\ run'.force = run.force /\ run'.done = run.done /\ run'.failed = run.failed
BY DEF RunNote, Sending, RunType

\* A try begins, or is to be made again.
LEMMA RunTryIs ==
  ASSUME run \in RunType, RunAttempt \/ RunRetry
  PROVE  /\ run.pc \in {"attempt", "wait"} /\ run'.pc = IF run.pc = "wait" THEN "attempt" ELSE "wait"
         /\ run'.gen = run.gen /\ run'.gone = run.gone
         /\ run'.files = run.files /\ run'.docs = run.docs /\ run'.doc = run.doc
         /\ run'.force = run.force /\ run'.done = run.done /\ run'.failed = run.failed
BY DEF RunAttempt, RunRetry, RunType

\* The note in hand was forgotten and is sent.
LEMMA RunForgotFirstIs ==
  ASSUME run \in RunType, run.pc = "wait" => run.doc \in Doc, RunForgotFirst
  PROVE  /\ run.pc = "wait" /\ run'.pc = "wait" /\ run'.gen = run.gen /\ run'.gone = run.gone
         /\ run'.files = run.files /\ run'.docs = run.docs
         /\ run'.doc.path = run.doc.path /\ run'.doc.hash = run.doc.hash
         /\ run'.force = run.force /\ run'.done = run.done /\ run'.failed = run.failed
<1>1. run.pc = "wait" /\ run.doc \in Doc BY DEF RunForgotFirst
<1> DEFINE d == [run.doc EXCEPT !.forgetFirst = FALSE]
<1>2. d.path = run.doc.path /\ d.hash = run.doc.hash BY <1>1 DEF Doc
<1>3. run' = [run EXCEPT !.doc = d] BY DEF RunForgotFirst, RunType
<1> HIDE DEF d
<1> QED BY <1>1, <1>2, <1>3 DEF RunType

\* The note in hand is through.
LEMMA NoteDoneIs ==
  ASSUME run \in RunType, NEW n, NoteDone(n)
  PROVE  /\ run'.pc = "loop" /\ run'.gen = run.gen /\ run'.gone = run.gone
         /\ run'.files = run.files /\ run'.docs = run.docs /\ run'.force = run.force
         /\ run'.done = run.done + 1 /\ run'.failed = run.failed + n
BY DEF NoteDone, RunType

\* No run is under way, or one is asked for.
LEMMA NoRunIs ==
  ASSUME \/ run' = NoRun \/ \E force \in BOOLEAN : run' = [NoRun EXCEPT !.pc = "flag", !.force = force]
  PROVE  /\ run'.pc \in {"idle", "flag"} /\ run'.gen = 0 /\ run'.gone = {} /\ run'.files = {}
         /\ run'.docs = {} /\ run'.done = 0
<1>1. CASE run' = NoRun BY <1>1 DEF NoRun
<1>2. ASSUME NEW force \in BOOLEAN, run' = [NoRun EXCEPT !.pc = "flag", !.force = force]
      PROVE  run'.pc = "flag" /\ run'.gen = 0 /\ run'.gone = {} /\ run'.files = {}
             /\ run'.docs = {} /\ run'.done = 0
  BY <1>2 DEF NoRun
<1> QED BY <1>1, <1>2

\* A step that keeps the run in its phases and changes its slot as it should.
LEMMA RunCoherentFrom ==
  ASSUME Shape, Coherent, RunFrame, quiet' => \A s \in Slots : task[s].pc = "idle",
         run.pc # "idle", run'.gen \in {0, run.gen, gen},
         \A b \in Actors \ {Run} : call'[b] = call[b],
         run'.pc \in {"idle", "flag", "attempt", "unflag"} => call'[Run] = NoCall,
         run'.pc = "loop" /\ call'[Run] # NoCall => call'[Run].op = "forget" /\ call'[Run].key \in run'.gone,
         run'.pc = "wait" => call'[Run].op # "none" /\ call'[Run].key = run'.doc.path,
         RunPhases'
  PROVE  Coherent'
<1>1. GenOrder'
  <2>1. gen \in Nat /\ epoch \in Nat BY ConstantsAssumption DEF Shape, TypeOK
  <2> QED BY <2>1 DEF Coherent, GenOrder, RunFrame
<1>2. PathsApart' BY DEF Coherent, PathsApart, RunFrame
<1>3. RunCalls' BY DEF RunCalls
<1>4. SlotCalls' /\ QuietSlots'
  <2>1. Slots \subseteq Actors \ {Run} BY ConstantsAssumption DEF Actors
  <2> QED BY <2>1 DEF Coherent, SlotCalls, QuietSlots, RunFrame
<1> QED BY <1>1, <1>2, <1>3, <1>4 DEF Coherent

\* A step of the run
LEMMA RunCoherent == ASSUME Shape, Coherent, RunStep PROVE Coherent'
<1>0. /\ TypeOK /\ WellFormed /\ RunFrame /\ run \in RunType /\ call \in [Actors -> Call]
      /\ Run \in Actors /\ None \in Hash /\ run.client \in 0 .. MaxEpochs
      /\ run.pc \in {"idle", "flag", "loop", "attempt", "wait", "unflag"}
  BY RunStepFrame DEF Shape, TypeOK, Actors, Hash, RunType
<1>a. run.pc \in {"attempt", "wait"} => run.doc \in Doc BY <1>0 DEF WellFormed
<1>b. \A d \in Doc : d.path \in Paths /\ d.hash \in Contents BY DEF Doc
<1>c. run.pc # "idle" => backend # "closed" BY DEF Shape, ClosedIsEmpty
<1>d. run.pc \in {"flag", "attempt", "unflag"} => call[Run] = NoCall BY <1>c DEF Coherent, RunCalls
<1>e. run.pc = "loop" /\ run.gone = {} => call[Run] = NoCall BY DEF Coherent, RunCalls
<1>f. /\ run.pc \in {"idle", "flag"} => run.docs = {} /\ run.done = 0
      /\ run.done # 0 \/ run.pc \in {"attempt", "wait"} => run.gone = {} /\ run.files = {}
  BY DEF Coherent, RunPhases
<1>g. quiet => \A s \in Slots : task[s].pc = "idle" BY DEF Coherent, QuietSlots
<1>h. ASSUME Return(Run) PROVE call'[Run] = NoCall /\ \A b \in Actors \ {Run} : call'[b] = call[b]
  BY <1>0, <1>h, ReturnType
<1>1. CASE RunBegin
  <2>1. UNCHANGED call /\ quiet' = \A s \in Slots : task[s].pc = "idle" BY <1>1 DEF RunBegin
  <2>2. run'.pc = "loop" /\ run'.gen = gen /\ run'.done = 0 /\ run.pc = "flag"
    BY <1>0, <1>1, <1>f, RunBeginIs
  <2>3. RunPhases' BY <2>2 DEF RunPhases
  <2> QED BY <1>0, <1>d, <2>1, <2>2, <2>3, RunCoherentFrom
<1>2. ASSUME NEW done \in BOOLEAN, Finish(done), UNCHANGED <<call, quiet>>, run.pc # "idle",
             call[Run] = NoCall, done => run.gone = {} /\ run.files = {} /\ run.docs = {}
      PROVE Coherent'
  <2>1. /\ run'.pc = "unflag" /\ run'.completed = done /\ run'.gen = run.gen /\ run'.files = run.files
        /\ run'.gone = run.gone /\ run'.docs = run.docs /\ run'.done = run.done
    BY <1>0, <1>2, FinishIs
  <2>2. RunPhases' BY <1>2, <1>f, <2>1 DEF RunPhases
  <2> QED BY <1>0, <1>2, <1>g, <2>1, <2>2, RunCoherentFrom
<1>3. CASE RunRefused BY <1>2, <1>3, <1>d DEF RunRefused
<1>4. ASSUME NEW f \in Files, RunAborted(f) PROVE Coherent'
  BY <1>2, <1>4, <1>e DEF RunAborted, Scanning
<1>5. CASE RunNothing BY <1>2, <1>5, <1>e DEF RunNothing, Sending
<1>6. CASE RunEnd
  <2>1. Finish(run.docs = {}) /\ (run.docs = {}) \in BOOLEAN BY <1>6 DEF RunEnd
  <2> QED BY <1>2, <1>6, <1>e, <2>1 DEF RunEnd, Sending
<1>7. ASSUME NEW p \in Paths, RunForget(p) PROVE Coherent'
  <2>1. /\ Send(Run, "forget", p, None, run.client) /\ UNCHANGED <<run, quiet>> /\ run.pc = "loop"
        /\ p \in run.gone
    BY <1>7 DEF RunForget
  <2>2. /\ call'[Run].op = "forget" /\ call'[Run].key = p /\ \A b \in Actors \ {Run} : call'[b] = call[b]
    BY <1>0, <2>1, SendType
  <2>3. RunPhases' BY <2>1 DEF Coherent, RunPhases
  <2> QED BY <1>0, <1>g, <2>1, <2>2, <2>3, RunCoherentFrom
<1>8. CASE RunForgot
  <2>1. Return(Run) /\ UNCHANGED quiet BY <1>8 DEF RunForgot
  <2>2. RunPhases' BY <1>0, <1>8, <1>f, RunForgotIs DEF RunPhases
  <2> QED BY <1>0, <1>8, <1>g, <1>h, <2>1, <2>2, RunForgotIs, RunCoherentFrom
<1>9. ASSUME NEW f \in Files, RunRead(f) PROVE Coherent'
  <2>1. UNCHANGED <<call, quiet>> /\ run.gone = {} BY <1>9 DEF RunRead, Scanning
  <2>2. RunPhases' BY <1>0, <1>9, <1>f, RunReadIs DEF RunPhases
  <2> QED BY <1>0, <1>9, <1>e, <1>g, <2>1, <2>2, RunReadIs, RunCoherentFrom
<1>10. ASSUME NEW d \in run.docs, RunNote(d) PROVE Coherent'
  <2>1. UNCHANGED <<call, quiet>> /\ run.gone = {} /\ run.files = {} BY <1>10 DEF RunNote, Sending
  <2>2. RunPhases' BY <1>0, <1>10, <2>1, RunNoteIs DEF RunPhases
  <2> QED BY <1>0, <1>10, <1>e, <1>g, <2>1, <2>2, RunNoteIs, RunCoherentFrom
<1>11. CASE RunAttempt
  <2>1. UNCHANGED quiet /\ run.pc = "attempt" BY <1>11 DEF RunAttempt
  <2>2. run.doc.path \in Paths \cup {None} /\ run.doc.hash \in Hash BY <1>a, <1>b, <2>1 DEF Hash
  <2>3. /\ call'[Run].op # "none" /\ call'[Run].key = run.doc.path
        /\ \A b \in Actors \ {Run} : call'[b] = call[b]
    <3>1. CASE Send(Run, "forget", run.doc.path, None, run.client)
      BY <1>0, <2>2, <3>1, SendType
    <3>2. CASE Send(Run, "remember", run.doc.path, run.doc.hash, run.client)
      BY <1>0, <2>2, <3>2, SendType
    <3> QED BY <1>11, <3>1, <3>2 DEF RunAttempt
  <2>4. RunPhases' BY <1>0, <1>11, <1>f, RunTryIs DEF RunPhases
  <2> QED BY <1>0, <1>11, <1>g, <2>1, <2>3, <2>4, RunTryIs, RunCoherentFrom
<1>12. CASE RunForgotFirst
  <2>1. UNCHANGED quiet /\ run.pc = "wait" /\ Send(Run, "remember", run.doc.path, run.doc.hash, run.client)
    BY <1>12 DEF RunForgotFirst
  <2>2. run.doc.path \in Paths \cup {None} /\ run.doc.hash \in Hash BY <1>a, <1>b, <2>1 DEF Hash
  <2>3. /\ call'[Run].op = "remember" /\ call'[Run].key = run.doc.path
        /\ \A b \in Actors \ {Run} : call'[b] = call[b]
    BY <1>0, <2>1, <2>2, SendType
  <2>4. RunPhases' BY <1>0, <1>12, <1>a, <1>f, RunForgotFirstIs DEF RunPhases
  <2> QED BY <1>0, <1>12, <1>a, <1>g, <2>1, <2>3, <2>4, RunForgotFirstIs, RunCoherentFrom
<1>13. CASE RunRetry
  <2>1. UNCHANGED quiet /\ run.pc = "wait" /\ Return(Run) BY <1>13 DEF RunRetry
  <2>2. RunPhases' BY <1>0, <1>13, <1>f, RunTryIs DEF RunPhases
  <2> QED BY <1>0, <1>13, <1>g, <1>h, <2>1, <2>2, RunTryIs, RunCoherentFrom
<1>14. ASSUME NEW n \in {0, 1}, NoteDone(n), Return(Run), UNCHANGED quiet, run.pc \in {"attempt", "wait"}
       PROVE Coherent'
  <2>1. RunPhases' BY <1>0, <1>14, <1>f, NoteDoneIs DEF RunPhases
  <2> QED BY <1>0, <1>14, <1>g, <1>h, <2>1, NoteDoneIs, RunCoherentFrom
<1>15. CASE RunRemembered BY <1>14, <1>15 DEF RunRemembered
<1>16. CASE RunGaveUp BY <1>14, <1>16 DEF RunGaveUp
<1>17. CASE RunUnflag
  <2>1. UNCHANGED <<call, quiet>> /\ run.pc = "unflag" /\ run' = NoRun BY <1>17 DEF RunUnflag
  <2>2. run'.pc = "idle" BY <2>1 DEF NoRun
  <2>3. RunPhases' BY <2>1, <2>2, NoRunIs DEF RunPhases
  <2> QED BY <1>0, <1>d, <1>g, <2>1, <2>2, <2>3, NoRunIs, RunCoherentFrom
<1> QED BY <1>1, <1>3, <1>4, <1>5, <1>6, <1>7, <1>8, <1>9, <1>10, <1>11, <1>12, <1>13, <1>15,
           <1>16, <1>17 DEF RunStep

\* What the user does to the vault
LEMMA VaultCoherent == ASSUME Shape, Coherent, VaultStep PROVE Coherent'
<1>0. /\ TypeOK /\ WellFormed /\ ClosedIsEmpty /\ Slots \subseteq Actors /\ Run \in Actors
      /\ Run \notin Slots
  BY ConstantsAssumption DEF Shape, Actors
<1>1. UNCHANGED <<gen, epoch, run, backend>> /\ quiet' = FALSE
  BY DEF VaultStep, Create, Modify, Delete, Rename, EditIgnore, Edit, process
<1>2. GenOrder' /\ QuietSlots' /\ RunPhases'
  BY <1>1 DEF Coherent, GenOrder, QuietSlots, RunPhases
<1>3. PathsApart'
  <2>1. ASSUME NEW f \in Files, NEW p \in Paths, NEW c \in Contents \cup {Blank}, Create(f, p, c)
        PROVE PathsApart'
    <3>1. f \notin live BY <1>0, <2>1, ConstantsAssumption DEF Create, WellFormed
    <3>2. \A g \in live : path'[g] = path[g] /\ path[g] # p
      BY <1>0, <2>1, <3>1 DEF Create, Unoccupied, TypeOK
    <3>3. path'[f] = p /\ live' = live \cup {f} BY <1>0, <2>1 DEF Create, TypeOK
    <3> QED BY <3>2, <3>3 DEF Coherent, PathsApart
  <2>2. ASSUME NEW f \in Files, NEW p \in Paths, NEW s \in Slots, Rename(f, p, s) PROVE PathsApart'
    <3>1. path' = [path EXCEPT ![f] = p] /\ live' = live BY <2>2 DEF Rename
    <3>2. /\ path'[f] = p /\ \A g \in live \ {f} : path'[g] = path[g] /\ path[g] # p
      BY <1>0, <2>2, <3>1 DEF Rename, Unoccupied, TypeOK
    <3> QED BY <3>1, <3>2 DEF Coherent, PathsApart
  <2>3. ASSUME live' \subseteq live, UNCHANGED path PROVE PathsApart'
    BY <2>3 DEF Coherent, PathsApart
  <2> QED BY <2>1, <2>2, <2>3 DEF VaultStep, Modify, Delete, EditIgnore
<1>4. RunCalls' /\ SlotCalls'
  <2>1. ASSUME UNCHANGED <<task, call>> PROVE RunCalls' /\ SlotCalls'
    BY <1>1, <2>1 DEF Coherent, RunCalls, SlotCalls
  <2>2. ASSUME NEW s \in Slots, NEW p \in Paths, NEW f \in Files \cup {None}, HandleDelete(s, p, f)
        PROVE RunCalls' /\ SlotCalls'
    <3>1. /\ \A r \in Slots : task'[r] # task[r] => task'[r].pc = "forget"
          /\ \A b \in Actors : call'[b] # call[b] => b \in Slots /\ task'[b] # task[b]
      BY <1>0, <2>2, HandleDeleteType
    <3>2. call'[Run] = call[Run] BY <1>0, <3>1
    <3>3. \A r \in Slots : task'[r].pc \in {"idle", "read"} => task'[r] = task[r] /\ call'[r] = call[r]
      BY <1>0, <3>1
    <3> QED BY <1>1, <3>2, <3>3 DEF Coherent, RunCalls, SlotCalls
  <2>3. ASSUME NEW f \in Files, NEW s \in Slots, Delete(f, s) PROVE RunCalls' /\ SlotCalls'
    BY <1>0, <2>2, <2>3 DEF Delete, WellFormed
  <2>4. ASSUME NEW f \in Files, NEW p \in Paths, NEW s \in Slots, Rename(f, p, s)
        PROVE RunCalls' /\ SlotCalls'
    BY <1>0, <2>2, <2>4 DEF Rename, WellFormed
  <2> QED BY <2>1, <2>3, <2>4 DEF VaultStep, Create, Modify, EditIgnore
<1> QED BY <1>2, <1>3, <1>4 DEF Coherent

\* A step of a handler
LEMMA TaskCoherent == ASSUME Shape, Coherent, NEW s \in Slots, TaskStep(s) PROVE Coherent'
<1>0. /\ TypeOK /\ WellFormed /\ s \in Actors /\ Slots \subseteq Actors /\ Run \in Actors
      /\ Run \notin Slots /\ task[s] \in Task /\ task \in [Slots -> Task] /\ call \in [Actors -> Call]
  BY ConstantsAssumption DEF Shape, Actors, TypeOK
<1>1. UNCHANGED <<live, path, gen, epoch, run, backend>> /\ quiet' = FALSE
  BY DEF TaskStep, Fire, TaskRead, TaskRemembered, TaskForgot, vault, process
<1>2. GenOrder' /\ PathsApart' /\ QuietSlots' /\ RunPhases'
  BY <1>1 DEF Coherent, GenOrder, PathsApart, QuietSlots, RunPhases
<1>3. ASSUME \A r \in Slots \ {s} : task'[r] = task[r], \A b \in Actors \ {s} : call'[b] = call[b],
             backend # "closed" /\ task'[s].pc \in {"idle", "read"} => call'[s] = NoCall
      PROVE  Coherent'
  <2>1. RunCalls' BY <1>0, <1>1, <1>3 DEF Coherent, RunCalls
  <2>2. SlotCalls' BY <1>0, <1>1, <1>3 DEF Coherent, SlotCalls
  <2> QED BY <1>2, <2>1, <2>2 DEF Coherent
<1>4. ASSUME NEW t \in timers, Fire(t, s) PROVE Coherent'
  <2>1. /\ UNCHANGED call /\ \A r \in Slots \ {s} : task'[r] = task[r]
        /\ UNCHANGED task \/ call[s] = NoCall
    BY <1>0, <1>4 DEF Fire, ReindexOne, Free
  <2> QED BY <1>0, <1>3, <2>1 DEF Coherent, SlotCalls
<1>5. CASE TaskRead(s)
  <2>1. CASE task' = [task EXCEPT ![s] = NoTask] /\ UNCHANGED call
    <3>1. \A r \in Slots \ {s} : task'[r] = task[r] BY <1>0, <2>1
    <3>2. backend # "closed" => call'[s] = NoCall
      BY <1>5, <2>1 DEF TaskRead, Coherent, SlotCalls
    <3> QED BY <1>0, <1>3, <2>1, <3>1, <3>2
  <2>2. CASE /\ task' = [task EXCEPT ![s].pc = "remember", ![s].hash = content[task[s].file]]
             /\ \E k, h, c : Send(s, "remember", k, h, c)
    <3>1. task'[s].pc = "remember" /\ \A r \in Slots \ {s} : task'[r] = task[r] BY <1>0, <2>2 DEF Task
    <3>2. \A b \in Actors \ {s} : call'[b] = call[b] BY <1>0, <2>2 DEF Send
    <3> QED BY <1>3, <3>1, <3>2
  <2> QED BY <1>5, <2>1, <2>2 DEF TaskRead
<1>6. CASE TaskRemembered(s) \/ TaskForgot(s)
  <2>1. Return(s) BY <1>6 DEF TaskRemembered, TaskForgot
  <2>2. \E t : task' = [task EXCEPT ![s] = t] BY <1>6 DEF TaskRemembered, TaskForgot, ReindexOne
  <2>3. \A r \in Slots \ {s} : task'[r] = task[r] BY <1>0, <2>2
  <2> QED BY <1>0, <1>3, <2>1, <2>3, ReturnType
<1> QED BY <1>4, <1>5, <1>6 DEF TaskStep

\* The sidecar answers a call: the call keeps its contents.
LEMMA AnswerIs ==
  ASSUME Shape, NEW a \in Actors, ServerStep(a)
  PROVE  /\ call[a].st = "sent" /\ call'[a].st \in {"ok", "err"}
         /\ \A b \in Actors : /\ call'[b].op = call[b].op /\ call'[b].key = call[b].key
                              /\ call'[b].hash = call[b].hash
         /\ \A b \in Actors \ {a} : call'[b] = call[b]
         /\ UNCHANGED <<live, path, content, ignored, gen, store, timers, cancel, task, run, disk,
                        flag, flagDisk, backend, epoch, quiet, indexed, saver>>
<1>1. call \in [Actors -> Call] /\ call[a] \in Call BY DEF Shape, TypeOK
<1>2. \E st \in {"ok", "err"} : call' = [call EXCEPT ![a] = [call[a] EXCEPT !.st = st]]
  BY <1>1 DEF ServerStep, ServerApply, ServerRefuse, ServerFail
<1>3. \A st \in {"ok", "err"} : LET c == [call[a] EXCEPT !.st = st]
                                IN c.op = call[a].op /\ c.key = call[a].key /\ c.hash = call[a].hash
                                   /\ c.st = st
  BY <1>1 DEF Call
<1>4. call[a].st = "sent" BY DEF ServerStep, ServerApply, ServerRefuse, ServerFail
<1>5. UNCHANGED <<live, path, content, ignored, gen, store, timers, cancel, task, run, disk,
                  flag, flagDisk, backend, epoch, quiet, indexed, saver>>
  BY DEF ServerStep, ServerApply, ServerRefuse, ServerFail, vault, flags, process
<1> QED BY <1>1, <1>2, <1>3, <1>4, <1>5

\* The server's steps
LEMMA ServerCoherent == ASSUME Shape, Coherent, NEW a \in Actors, ServerStep(a) PROVE Coherent'
<1>0. Slots \subseteq Actors /\ Run \in Actors BY DEF Actors
<1>1. \A b \in Actors : call[b] = NoCall => call'[b] = NoCall
  BY AnswerIs DEF NoCall
<1>2. GenOrder' /\ PathsApart' /\ QuietSlots' /\ RunPhases'
  BY AnswerIs DEF Coherent, GenOrder, PathsApart, QuietSlots, RunPhases
<1>3. SlotCalls' BY <1>0, <1>1, AnswerIs DEF Coherent, SlotCalls
<1>4. RunCalls' BY <1>0, <1>1, AnswerIs DEF Coherent, RunCalls
<1> QED BY <1>2, <1>3, <1>4 DEF Coherent

\* A run is asked for, or asked to stop.
LEMMA UserCoherent ==
  ASSUME Shape, Coherent, Stop \/ \E force \in BOOLEAN : Reindex(force) PROVE Coherent'
<1>1. CASE Stop
  <2>1. UNCHANGED <<live, path, gen, task, run, backend, epoch, call, quiet>>
    BY <1>1 DEF Stop, RunVars, vault, process
  <2> QED BY <2>1 DEF Coherent, GenOrder, PathsApart, RunCalls, SlotCalls, QuietSlots, RunPhases
<1>2. ASSUME NEW force \in BOOLEAN, Reindex(force) PROVE Coherent'
  <2>1. /\ UNCHANGED <<live, path, gen, task, backend, epoch, call, quiet>> /\ run.pc = "idle"
        /\ run' = [NoRun EXCEPT !.pc = "flag", !.force = force]
    BY <1>2 DEF Reindex, RunVars, vault, process
  <2>2. gen \in Nat BY ConstantsAssumption DEF Shape, TypeOK
  <2>3. run'.pc = "flag" /\ run'.gen = 0 BY <2>1 DEF NoRun
  <2>4. GenOrder' BY <2>1, <2>2, <2>3 DEF Coherent, GenOrder
  <2>5. PathsApart' /\ SlotCalls' /\ QuietSlots'
    BY <2>1 DEF Coherent, PathsApart, SlotCalls, QuietSlots
  <2>6. RunCalls' BY <2>1, <2>3 DEF Coherent, RunCalls
  <2>7. RunPhases' BY <2>1, <2>3, NoRunIs DEF RunPhases
  <2> QED BY <2>4, <2>5, <2>6, <2>7 DEF Coherent
<1> QED BY <1>1, <1>2

\* The backend
LEMMA BackendCoherent == ASSUME Shape, Coherent, BackendStep PROVE Coherent'
<1>0. /\ TypeOK /\ ClosedIsEmpty /\ gen \in Nat /\ epoch \in Nat /\ run.gen \in Nat
      /\ Slots \subseteq Actors /\ Run \in Actors
  BY ConstantsAssumption DEF Shape, TypeOK, RunType, Actors
<1>1. ASSUME NEW flush \in BOOLEAN, Close(flush) PROVE Coherent'
  <2>1. /\ UNCHANGED <<live, path, epoch>> /\ gen' = 0 /\ run' = NoRun /\ quiet' = FALSE
        /\ backend' = "closed"
    BY <1>1 DEF Close, vault
  <2>2. run'.pc = "idle" BY <2>1 DEF NoRun
  <2>3. GenOrder' BY <1>0, <2>1, NoRunIs DEF GenOrder
  <2>4. RunPhases' BY <2>1, <2>2, NoRunIs DEF RunPhases
  <2>5. PathsApart' /\ SlotCalls' /\ QuietSlots' /\ RunCalls'
    BY <2>1, <2>2 DEF Coherent, PathsApart, SlotCalls, QuietSlots, RunCalls
  <2> QED BY <2>3, <2>4, <2>5 DEF Coherent
<1>2. ASSUME UNCHANGED <<live, path, task, run, quiet>>, GenOrder', RunCalls', SlotCalls' PROVE Coherent'
  BY <1>2 DEF Coherent, PathsApart, QuietSlots, RunPhases
<1>3. CASE Open
  <2>1. /\ UNCHANGED <<live, path, gen, task, run, quiet>> /\ backend' = "booting" /\ epoch' = epoch + 1
        /\ \A a \in Actors : call'[a] = NoCall
    BY <1>3 DEF Open, vault
  <2>2. GenOrder' BY <1>0, <2>1 DEF Coherent, GenOrder
  <2>3. run.pc = "idle" BY <1>0, <1>3 DEF Open, ClosedIsEmpty
  <2>4. RunCalls' /\ SlotCalls' BY <1>0, <2>1, <2>3 DEF RunCalls, SlotCalls
  <2> QED BY <1>2, <2>1, <2>2, <2>4
<1>4. CASE SidecarRespawn \/ SidecarReady \/ Boot \/ StartIndexer
  <2>1. /\ UNCHANGED <<live, path, task, run, quiet, call>> /\ backend # "closed" /\ backend' # "closed"
    BY <1>4 DEF SidecarRespawn, SidecarReady, Boot, StartIndexer, vault
  <2>2. GenOrder'
    BY <1>0, <1>4 DEF SidecarRespawn, SidecarReady, Boot, StartIndexer, Coherent, GenOrder
  <2>3. RunCalls' /\ SlotCalls' BY <2>1 DEF Coherent, RunCalls, SlotCalls
  <2> QED BY <1>2, <2>1, <2>2, <2>3
<1>5. CASE SidecarCrash \/ ManagerStop
  <2>1. /\ UNCHANGED <<live, path, gen, epoch, task, run, quiet>> /\ backend # "closed"
        /\ backend' \in {"crashed", "down"} /\ Hangup
    BY <1>5 DEF SidecarCrash, ManagerStop, vault
  <2>2. \A b \in Actors : /\ call'[b].op = call[b].op /\ call'[b].key = call[b].key
                          /\ call[b] = NoCall => call'[b] = NoCall
    <3>1. \A b \in Actors : call[b] = NoCall => call'[b] = NoCall BY <2>1 DEF Hangup, NoCall
    <3> QED BY <1>0, <2>1, <3>1, HangupType
  <2>3. GenOrder' BY <2>1 DEF Coherent, GenOrder
  <2>4. RunCalls' /\ SlotCalls' BY <1>0, <2>1, <2>2 DEF Coherent, RunCalls, SlotCalls
  <2> QED BY <1>2, <2>1, <2>3, <2>4
<1> QED BY <1>1, <1>3, <1>4, <1>5 DEF BackendStep

\* Every step keeps the order of things.
LEMMA NextCoherent == ASSUME Shape, Coherent, [Next]_vars PROVE Coherent'
<1>1. CASE Next
  BY <1>1, VaultCoherent, TaskCoherent, ServerCoherent, UserCoherent, RunCoherent, BackendCoherent DEF Next
<1>2. CASE UNCHANGED vars
  BY <1>2 DEF vars, vault, process, Coherent, GenOrder, PathsApart, RunCalls, SlotCalls, QuietSlots, RunPhases
<1> QED BY <1>1, <1>2

\* And it holds at first.
LEMMA InitCoherent == ASSUME Init PROVE Coherent
<1>1. backend = "closed" /\ gen = 0 /\ epoch = 0 /\ quiet = FALSE /\ run = NoRun BY DEF Init
<1>2. PathsApart BY DEF Init, PathsApart
<1>3. GenOrder /\ RunPhases BY <1>1 DEF GenOrder, RunPhases, NoRun
<1>4. RunCalls /\ SlotCalls /\ QuietSlots BY <1>1 DEF RunCalls, SlotCalls, QuietSlots, NoRun
<1> QED BY <1>2, <1>3, <1>4 DEF Coherent

----------------------------------------------------------------------------
(* A completed run covers the vault *)

\* A step that leaves the vault, the index in question and the notes in hand
\* as they are, whether or not one of them changes its place.
LEMMA WalkKept ==
  ASSUME Walk, UNCHANGED <<live, path, content, ignored, khora>>,
         store'[run'.gen] = store[run.gen], run'.files = run.files, run'.gone = run.gone,
         run'.force = run.force,
         \A d \in InHand' : \E e \in InHand : e.path = d.path /\ e.hash = d.hash,
         \A d \in InHand : \E e \in InHand' : e.path = d.path /\ e.hash = d.hash,
         run'.force /\ run'.pc = "wait" /\ call'[Run].op = "remember" /\ call'[Run].st = "ok"
           => khora[run'.doc.path] = run'.doc.hash
  PROVE  Walk'
<1>1. Present' = Present BY DEF Present
<1>2. \A f \in Present : Queued(f) => Queued(f)'
  BY DEF Queued
<1>3. (\A d \in InHand : \E f \in Present : path[f] = d.path /\ content[f] = d.hash)'
  BY <1>1 DEF Walk
<1>4. Covers(store[run.gen])' BY <1>1, <1>2 DEF Walk, Covers
<1>5. run'.force => Covers(khora)' BY <1>1, <1>2 DEF Walk, Covers
<1>6. (\A p \in Paths : store[run.gen][p] # None => p \in run.gone \/ \E f \in Present : path[f] = p)'
  BY <1>1 DEF Walk
<1>7. run'.files \subseteq Present' /\ \A f \in Present' : path'[f] \notin run'.gone
  BY <1>1 DEF Walk
<1> QED BY <1>3, <1>4, <1>5, <1>6, <1>7 DEF Walk

\* The walk begins: all notes are still to be looked at.
LEMMA BeginWalk == ASSUME Shape, Coherent, RunBegin PROVE Walk'
<1>1. run \in RunType /\ UNCHANGED <<live, path, content, ignored, store, call>>
  BY DEF Shape, TypeOK, RunBegin, RunVars, vault
<1>2. /\ run.pc = "flag" /\ run'.pc = "loop" /\ run'.gen = gen /\ run'.files = Present
      /\ run'.gone = {p \in Paths : store[gen][p] # None} \ {path[f] : f \in Present}
      /\ run'.docs = run.docs
  BY <1>1, RunBeginIs
<1>3. Present' = Present BY <1>1 DEF Present
<1>4. InHand' = {} BY <1>2 DEF InHand, Coherent, RunPhases
<1>5. (\A p \in Paths : store[run.gen][p] # None => p \in run.gone \/ \E f \in Present : path[f] = p)'
  BY <1>1, <1>2, <1>3
<1>6. \A f \in Present' : path'[f] \notin run'.gone BY <1>1, <1>2, <1>3
<1>7. Covers(store[run.gen])' /\ Covers(khora)' BY <1>2, <1>3 DEF Covers
<1> QED BY <1>2, <1>3, <1>4, <1>5, <1>6, <1>7 DEF Walk

\* An entry of a deleted path goes; no note of the vault has that path.
LEMMA ForgotWalk == ASSUME Shape, Coherent, Walk, RunForgot PROVE Walk'
<1>1. /\ run \in RunType /\ UNCHANGED <<live, path, content, ignored, khora>>
      /\ store' = [store EXCEPT ![run.gen][call[Run].key] = None]
      /\ run.gen \in Gens /\ store \in [Gens -> Index]
  BY DEF Shape, TypeOK, WellFormed, Indexing, RunForgot, RunVars, vault, server
<1>2. call[Run].key \in run.gone
  <2>1. call[Run] # NoCall /\ run.pc = "loop" BY DEF RunForgot, Answered, NoCall
  <2> QED BY <2>1 DEF Coherent, RunCalls
<1>3. /\ run.pc = "loop" /\ run'.pc = "loop" /\ run'.gen = run.gen /\ run'.gone = run.gone \ {call[Run].key}
      /\ run'.files = run.files /\ run'.docs = run.docs /\ run'.force = run.force
  BY <1>1, RunForgotIs
<1> DEFINE k == call[Run].key
           old == store[run.gen]
           new == store'[run'.gen]
<1>4. k \in Paths BY <1>1, <1>2 DEF RunType
<1>5. new[k] = None /\ \A p \in Paths \ {k} : new[p] = old[p]
  BY <1>1, <1>3, <1>4 DEF Index
<1> HIDE DEF k, old, new
<1>6. Present' = Present /\ InHand' = InHand BY <1>1, <1>3 DEF Present, InHand
<1>7. \A f \in Present : path[f] \in Paths /\ path[f] # k
  BY <1>2 DEF Walk, Present, Shape, WellFormed, k
<1>8. (\A p \in Paths : store[run.gen][p] # None => p \in run.gone \/ \E f \in Present : path[f] = p)'
  <2>1. \A p \in Paths : new[p] # None => p # k /\ old[p] # None BY <1>5
  <2> QED BY <1>1, <1>3, <1>6, <2>1 DEF Walk, new, old, k
<1>9. \A f \in Present : new[path[f]] = old[path[f]] BY <1>5, <1>7
<1>10. Covers(store[run.gen])'
  BY <1>1, <1>3, <1>6, <1>9 DEF Walk, Covers, Queued, new, old
<1>11. run'.force => Covers(khora)' BY <1>1, <1>3, <1>6 DEF Walk, Covers, Queued
<1>12. (\A d \in InHand : \E f \in Present : path[f] = d.path /\ content[f] = d.hash)'
  BY <1>1, <1>6 DEF Walk
<1>13. run'.files \subseteq Present' /\ \A f \in Present' : path'[f] \notin run'.gone
  BY <1>1, <1>3, <1>6 DEF Walk
<1> QED BY <1>3, <1>8, <1>10, <1>11, <1>12, <1>13 DEF Walk

\* The gate lets a note pass unless it is blank or the store has its text; a
\* forced run lets every note pass that is not blank.
LEMMA ReadWalk == ASSUME Shape, Coherent, Walk, NEW f \in Files, RunRead(f) PROVE Walk'
<1>1. /\ run \in RunType /\ UNCHANGED <<live, path, content, ignored, khora, store>>
      /\ f \in run.files
  BY DEF Shape, TypeOK, RunRead, Scanning, RunVars, vault, server
<1>2. /\ run.pc = "loop" /\ run'.pc = "loop" /\ run'.gen = run.gen /\ run'.gone = run.gone
      /\ run'.files = run.files \ {f} /\ run'.docs = run.docs \cup Gate(f) /\ run'.force = run.force
  BY <1>1, RunReadIs
<1>3. Present' = Present /\ InHand' = InHand \cup Gate(f) BY <1>1, <1>2 DEF Present, InHand
<1>4. /\ \A d \in Gate(f) : d.path = path[f] /\ d.hash = content[f]
      /\ content[f] = Blank \/ Gate(f) # {} \/ (~run.force /\ store[run.gen][path[f]] = content[f])
  <2> DEFINE same == store[run.gen][path[f]] = content[f]
             d == [path |-> path[f], hash |-> content[f], forgetFirst |-> same]
  <2>1. Gate(f) = IF content[f] = Blank \/ (~run.force /\ same) THEN {} ELSE {d} BY DEF Gate
  <2>2. d.path = path[f] /\ d.hash = content[f] OBVIOUS
  <2> HIDE DEF d
  <2> QED BY <2>1, <2>2
<1>5. \A g \in Present : Queued(g) => Queued(g)' BY <1>1, <1>3 DEF Queued
<1>6. Gate(f) # {} => Queued(f)' BY <1>1, <1>3, <1>4 DEF Queued
<1>7. f \in Present BY <1>1 DEF Walk
<1>8. (\A d \in InHand : \E g \in Present : path[g] = d.path /\ content[g] = d.hash)'
  <2>1. \A d \in InHand \cup Gate(f) : \E g \in Present : path[g] = d.path /\ content[g] = d.hash
    BY <1>4, <1>7 DEF Walk
  <2> QED BY <1>1, <1>3, <2>1
<1>9. Covers(store[run.gen])' BY <1>1, <1>2, <1>3, <1>4, <1>5, <1>6 DEF Walk, Covers
<1>10. run'.force => Covers(khora)' BY <1>1, <1>2, <1>3, <1>4, <1>5, <1>6 DEF Walk, Covers
<1>11. (\A p \in Paths : store[run.gen][p] # None => p \in run.gone \/ \E g \in Present : path[g] = p)'
  BY <1>1, <1>2, <1>3 DEF Walk
<1>12. run'.files \subseteq Present' /\ \A g \in Present' : path'[g] \notin run'.gone
  BY <1>1, <1>2, <1>3 DEF Walk
<1> QED BY <1>2, <1>8, <1>9, <1>10, <1>11, <1>12 DEF Walk

\* The note in hand was remembered: its entry, and in a forced run Khora, have
\* its text, and no other note has its path.
LEMMA RememberedWalk == ASSUME Shape, Coherent, Walk, RunRemembered PROVE Walk'
<1>1. /\ run \in RunType /\ UNCHANGED <<live, path, content, ignored, khora>> /\ run.pc = "wait"
      /\ call[Run].op = "remember" /\ call[Run].st = "ok"
      /\ store' = [store EXCEPT ![run.gen][run.doc.path] = run.doc.hash]
      /\ run.gen \in Gens /\ store \in [Gens -> Index] /\ run.doc \in Doc
  BY DEF Shape, TypeOK, WellFormed, Indexing, RunRemembered, RunVars, vault, server
<1>2. /\ run'.pc = "loop" /\ run'.gen = run.gen /\ run'.gone = run.gone /\ run'.files = run.files
      /\ run'.docs = run.docs /\ run'.force = run.force
  BY <1>1, NoteDoneIs DEF RunRemembered
<1> DEFINE k == run.doc.path
           h == run.doc.hash
           old == store[run.gen]
           new == store'[run'.gen]
<1>3. k \in Paths /\ h \in Contents BY <1>1 DEF Doc
<1>4. new[k] = h /\ \A p \in Paths \ {k} : new[p] = old[p]
  BY <1>1, <1>2, <1>3 DEF Index
<1>5. run.force => khora[k] = h BY <1>1 DEF Walk
<1>6. run.doc \in InHand BY <1>1 DEF InHand
<1>7. PICK n \in Present : path[n] = k /\ content[n] = h BY <1>6 DEF Walk
<1> HIDE DEF k, h, old, new
<1>8. Present' = Present /\ InHand' \subseteq InHand /\ \A d \in InHand : d = run.doc \/ d \in InHand'
  BY <1>1, <1>2 DEF Present, InHand
<1>9. \A f \in Present : path[f] \in Paths /\ (path[f] = k => f = n)
  BY <1>7 DEF Coherent, PathsApart, Present, Shape, WellFormed
<1>10. \A f \in Present \ {n} : Queued(f) => Queued(f)'
  <2>1. \A f \in Present \ {n} : \A d \in InHand : d.path = path[f] => d \in InHand'
    BY <1>8, <1>9 DEF k
  <2> QED BY <1>1, <2>1 DEF Queued
<1>11. Covers(store[run.gen])'
  <2>1. \A f \in Present : \/ content[f] = Blank \/ f \in run.files \/ Queued(f)'
                           \/ new[path[f]] = content[f]
    <3> TAKE f \in Present
    <3>1. CASE f = n BY <1>4, <1>7, <3>1
    <3>2. CASE f # n
      <4>1. new[path[f]] = old[path[f]] BY <1>4, <1>9, <3>2
      <4> QED BY <1>10, <3>2, <4>1 DEF Walk, Covers, old
    <3> QED BY <3>1, <3>2
  <2> QED BY <1>1, <1>2, <1>8, <2>1 DEF Covers, new
<1>12. run'.force => Covers(khora)'
  <2>1. ASSUME run.force
        PROVE  \A f \in Present : \/ content[f] = Blank \/ f \in run.files \/ Queued(f)'
                                  \/ khora[path[f]] = content[f]
    <3> TAKE f \in Present
    <3>1. CASE f = n BY <1>5, <1>7, <2>1, <3>1
    <3>2. CASE f # n BY <1>10, <2>1, <3>2 DEF Walk, Covers
    <3> QED BY <3>1, <3>2
  <2> QED BY <1>1, <1>2, <1>8, <2>1 DEF Covers
<1>13. (\A p \in Paths : store[run.gen][p] # None => p \in run.gone \/ \E f \in Present : path[f] = p)'
  <2>1. \A p \in Paths : new[p] # None => p = k \/ old[p] # None BY <1>4
  <2>2. \A p \in Paths : new[p] # None => p \in run.gone \/ \E f \in Present : path[f] = p
    BY <1>7, <2>1 DEF Walk, old
  <2> QED BY <1>1, <1>2, <1>8, <2>2 DEF new
<1>14. (\A d \in InHand : \E f \in Present : path[f] = d.path /\ content[f] = d.hash)'
  BY <1>1, <1>8 DEF Walk
<1>15. run'.files \subseteq Present' /\ \A f \in Present' : path'[f] \notin run'.gone
  BY <1>1, <1>2, <1>8 DEF Walk
<1> QED BY <1>2, <1>11, <1>12, <1>13, <1>14, <1>15 DEF Walk

\* A step of a run that is on course
LEMMA RunWalk == ASSUME Shape, Coherent, WalkInv, RunStep PROVE WalkInv'
<1> SUFFICES ASSUME OnCourse' PROVE Walk' BY DEF WalkInv
<1>0. /\ run \in RunType /\ RunFrame /\ run.failed \in Nat /\ Run \in Actors
      /\ run.pc \in {"attempt", "wait"} => run.doc \in Doc
  BY RunStepFrame DEF Shape, TypeOK, WellFormed, RunType, Actors
<1>a. UNCHANGED <<live, path, content, ignored, khora>> BY <1>0 DEF RunFrame
<1>1. CASE RunBegin BY <1>1, BeginWalk
<1>2. ASSUME UNCHANGED quiet, run.pc \in {"loop", "attempt", "wait"}, run'.failed = run.failed PROVE Walk
  BY <1>2 DEF WalkInv, OnCourse, Indexing
<1>3. ASSUME Finish(TRUE), UNCHANGED <<store, quiet>>, Sending PROVE Walk'
  <2>1. /\ run'.pc = "unflag" /\ run'.gen = run.gen /\ run'.files = run.files /\ run'.gone = run.gone
        /\ run'.force = run.force /\ run'.docs = run.docs /\ run'.failed = run.failed /\ run.pc = "loop"
    BY <1>0, <1>3, FinishIs DEF Sending
  <2>2. InHand' = InHand BY <2>1 DEF InHand
  <2>3. Walk BY <1>2, <1>3, <2>1
  <2> QED BY <1>3, <1>a, <2>1, <2>2, <2>3, WalkKept
<1>4. ASSUME Finish(FALSE) PROVE FALSE
  BY <1>0, <1>4, FinishIs DEF OnCourse, Indexing
<1>5. CASE RunNothing BY <1>3, <1>5 DEF RunNothing
<1>6. CASE RunEnd
  <2>1. CASE run.docs = {} BY <1>3, <1>6, <2>1 DEF RunEnd
  <2>2. CASE run.docs # {} BY <1>4, <1>6, <2>2 DEF RunEnd
  <2> QED BY <2>1, <2>2
<1>7. ASSUME NEW p \in Paths, RunForget(p) PROVE Walk'
  <2>1. UNCHANGED <<run, store, quiet>> /\ run.pc = "loop" BY <1>7 DEF RunForget
  <2>2. Walk BY <1>2, <2>1
  <2>3. InHand' = InHand BY <2>1 DEF InHand
  <2> QED BY <1>a, <2>1, <2>2, <2>3, WalkKept
<1>8. CASE RunForgot
  <2>1. UNCHANGED quiet BY <1>8 DEF RunForgot
  <2>2. Walk BY <1>0, <1>2, <1>8, <2>1, RunForgotIs
  <2> QED BY <1>8, <2>2, ForgotWalk
<1>9. ASSUME NEW f \in Files, RunRead(f) PROVE Walk'
  <2>1. UNCHANGED quiet BY <1>9 DEF RunRead
  <2>2. Walk BY <1>0, <1>2, <1>9, <2>1, RunReadIs
  <2> QED BY <1>9, <2>2, ReadWalk
<1>10. ASSUME NEW d \in run.docs, RunNote(d) PROVE Walk'
  <2>1. UNCHANGED <<quiet, store>> BY <1>10 DEF RunNote
  <2>2. /\ run.pc = "loop" /\ run'.pc = "attempt" /\ run'.gen = run.gen /\ run'.gone = run.gone
        /\ run'.files = run.files /\ run'.docs = run.docs \ {d} /\ run'.doc = d
        /\ run'.force = run.force /\ run'.failed = run.failed
    BY <1>0, <1>10, RunNoteIs
  <2>3. Walk BY <1>2, <2>1, <2>2
  <2>4. InHand' = InHand BY <2>2 DEF InHand
  <2> QED BY <1>a, <2>1, <2>2, <2>3, <2>4, WalkKept
<1>11. CASE RunAttempt \/ RunRetry
  <2>1. UNCHANGED <<quiet, store>> BY <1>11 DEF RunAttempt, RunRetry
  <2>2. /\ run.pc \in {"attempt", "wait"} /\ run'.pc \in {"attempt", "wait"} /\ run'.gen = run.gen
        /\ run'.gone = run.gone /\ run'.files = run.files /\ run'.docs = run.docs /\ run'.doc = run.doc
        /\ run'.force = run.force /\ run'.failed = run.failed
    BY <1>0, <1>11, RunTryIs
  <2>3. Walk BY <1>2, <2>1, <2>2
  <2>4. InHand' = InHand BY <2>2 DEF InHand
  <2>5. run'.pc = "wait" => call'[Run].st # "ok"
    BY <1>0, <1>11, RunTryIs DEF RunAttempt, RunRetry, Send, Shape, TypeOK
  <2> QED BY <1>a, <2>1, <2>2, <2>3, <2>4, <2>5, WalkKept
<1>12. CASE RunForgotFirst
  <2>1. UNCHANGED <<quiet, store>> BY <1>12 DEF RunForgotFirst
  <2>2. /\ run.pc = "wait" /\ run'.pc = "wait" /\ run'.gen = run.gen /\ run'.gone = run.gone
        /\ run'.files = run.files /\ run'.docs = run.docs
        /\ run'.doc.path = run.doc.path /\ run'.doc.hash = run.doc.hash
        /\ run'.force = run.force /\ run'.failed = run.failed
    BY <1>0, <1>12, RunForgotFirstIs
  <2>3. Walk BY <1>2, <2>1, <2>2
  <2>4. InHand' = run.docs \cup {run'.doc} /\ InHand = run.docs \cup {run.doc} BY <2>2 DEF InHand
  <2>5. call'[Run].st # "ok" BY <1>0, <1>12 DEF RunForgotFirst, Send, Shape, TypeOK
  <2> QED BY <1>a, <2>1, <2>2, <2>3, <2>4, <2>5, WalkKept
<1>13. CASE RunRemembered
  <2>1. NoteDone(0) /\ UNCHANGED quiet /\ run.pc = "wait" BY <1>13 DEF RunRemembered
  <2>2. run'.failed = run.failed BY <1>0, <2>1, NoteDoneIs
  <2>3. Walk BY <1>2, <2>1, <2>2
  <2> QED BY <1>13, <2>3, RememberedWalk
<1>14. CASE RunGaveUp
  <2>1. run'.failed = run.failed + 1 BY <1>0, <1>14, NoteDoneIs DEF RunGaveUp
  <2> QED BY <1>0, <2>1 DEF OnCourse
<1>15. CASE RunUnflag
  BY <1>15 DEF RunUnflag, NoRun, OnCourse, Indexing
<1> QED BY <1>1, <1>4, <1>5, <1>6, <1>7, <1>8, <1>9, <1>10, <1>11, <1>12, <1>13, <1>14, <1>15
        DEF RunStep, RunRefused, RunAborted

\* The sidecar answers: while the vault is quiet only the run has calls under
\* way, and they are for a deleted path or for the note in hand.
LEMMA ServerWalk == ASSUME Shape, Claims, Coherent, WalkInv, NEW a \in Actors, ServerStep(a) PROVE WalkInv'
<1> SUFFICES ASSUME OnCourse' PROVE Walk' BY DEF WalkInv
<1>1. /\ call[a].st = "sent" /\ call'[a].st \in {"ok", "err"} /\ call'[a].op = call[a].op
      /\ UNCHANGED <<live, path, content, ignored, store, task, run, backend, quiet>>
  BY AnswerIs
<1>2. OnCourse /\ Walk BY <1>1 DEF OnCourse, Indexing, WalkInv
<1>3. backend # "closed" BY <1>2 DEF OnCourse, Indexing, Shape, ClosedIsEmpty
<1>4. a = Run
  <2>1. \A s \in Slots : call[s] = NoCall BY <1>2, <1>3 DEF OnCourse, Coherent, QuietSlots, SlotCalls
  <2> QED BY <1>1, <2>1 DEF NoCall, Actors
<1> DEFINE c == call[Run]
<1>5. c.key \in run.gone \/ (run.pc = "wait" /\ c.key = run.doc.path)
  <2>1. c # NoCall BY <1>1, <1>4 DEF NoCall
  <2> QED BY <1>2, <1>3, <2>1 DEF OnCourse, Indexing, Coherent, RunCalls
<1>6. c.key \in Paths
  BY <1>5 DEF Shape, TypeOK, RunType, WellFormed, Doc
<1>7. khora \in [Paths -> Hash] BY DEF Shape, TypeOK, Index
<1>8. \A p \in Paths \ {c.key} : khora'[p] = khora[p]
  BY <1>4, <1>6, <1>7 DEF ServerStep, ServerApply, ServerRefuse, ServerFail, Effect, server
<1>9. Present' = Present /\ InHand' = InHand BY <1>1 DEF Present, InHand
<1>10. \A f \in Present : Queued(f) <=> Queued(f)' BY <1>1, <1>9 DEF Queued
<1>11. run'.force => Covers(khora)'
  <2> SUFFICES ASSUME run.force, NEW f \in Present
               PROVE  content[f] = Blank \/ f \in run.files \/ Queued(f) \/ khora'[path[f]] = content[f]
    BY <1>1, <1>9, <1>10 DEF Covers
  <2>1. path[f] \in Paths BY DEF Present, Shape, WellFormed
  <2>2. CASE path[f] # c.key BY <1>2, <1>8, <2>1, <2>2 DEF Walk, Covers
  <2>3. CASE path[f] = c.key
    <3>1. path[f] \notin run.gone BY <1>2 DEF Walk
    <3>2. run.pc = "wait" /\ path[f] = run.doc.path /\ run.doc \in InHand BY <1>5, <2>3, <3>1 DEF InHand
    <3>3. PICK g \in Present : path[g] = run.doc.path /\ content[g] = run.doc.hash
      BY <1>2, <3>2 DEF Walk
    <3>4. g = f BY <3>2, <3>3 DEF Coherent, PathsApart, Present
    <3> QED BY <3>2, <3>3, <3>4 DEF Queued
  <2> QED BY <2>2, <2>3
<1>12. run.pc = "wait" /\ call'[Run].op = "remember" /\ call'[Run].st = "ok"
         => khora'[run.doc.path] = run.doc.hash
  <2> SUFFICES ASSUME run.pc = "wait", call'[Run].op = "remember", call'[Run].st = "ok"
               PROVE  khora'[run.doc.path] = run.doc.hash
    OBVIOUS
  <2>1. ServerApply(Run)
    <3>1. call \in [Actors -> Call] /\ Run \in Actors BY DEF Shape, TypeOK, Actors
    <3>2. ASSUME call' = [call EXCEPT ![Run].st = "err"] PROVE FALSE BY <3>1, <3>2 DEF Call
    <3> QED BY <1>4, <3>2 DEF ServerStep, ServerRefuse, ServerFail
  <2>2. c.op = "remember" /\ c.key = run.doc.path BY <1>1, <1>4 DEF Coherent, RunCalls
  <2>3. c.hash = run.doc.hash
    BY <1>1, <1>4, <2>2 DEF Claims, AnswersAreTrue
  <2> QED BY <1>6, <1>7, <2>1, <2>2, <2>3 DEF ServerApply, Effect
<1>13. (\A d \in InHand : \E f \in Present : path[f] = d.path /\ content[f] = d.hash)'
  BY <1>1, <1>2, <1>9 DEF Walk
<1>14. Covers(store[run.gen])' BY <1>1, <1>2, <1>9, <1>10 DEF Walk, Covers
<1>15. (\A p \in Paths : store[run.gen][p] # None => p \in run.gone \/ \E f \in Present : path[f] = p)'
  BY <1>1, <1>2, <1>9 DEF Walk
<1>16. run'.files \subseteq Present' /\ \A f \in Present' : path'[f] \notin run'.gone
  BY <1>1, <1>2, <1>9 DEF Walk
<1> QED BY <1>1, <1>11, <1>12, <1>13, <1>14, <1>15, <1>16 DEF Walk

\* The backend: the Indexer that is created has a store of its own.
LEMMA BackendWalk == ASSUME Shape, Coherent, WalkInv, BackendStep PROVE WalkInv'
<1> SUFFICES ASSUME OnCourse' PROVE Walk' BY DEF WalkInv
<1>0. TypeOK /\ Run \in Actors BY DEF Shape, Actors
<1>1. ASSUME NEW flush \in BOOLEAN, Close(flush) PROVE FALSE BY <1>1 DEF Close, OnCourse
<1>2. UNCHANGED <<live, path, content, ignored, khora, run, quiet>>
  BY <1>1 DEF BackendStep, SidecarCrash, SidecarRespawn, SidecarReady, ManagerStop, Boot,
              StartIndexer, Open, vault, server
<1>3. OnCourse /\ Walk BY <1>2 DEF OnCourse, Indexing, WalkInv
<1>4. ~Open BY <1>3 DEF Open, Shape, ClosedIsEmpty, OnCourse, Indexing
<1>5. store'[run.gen] = store[run.gen]
  <2>1. CASE StartIndexer
    <3>1. run.gen # epoch
      BY <1>0, <2>1, ConstantsAssumption DEF StartIndexer, Coherent, GenOrder, TypeOK, RunType
    <3> QED BY <1>0, <2>1, <3>1 DEF StartIndexer, TypeOK
  <2> QED BY <1>1, <1>4, <2>1 DEF BackendStep, SidecarCrash, SidecarRespawn, SidecarReady, ManagerStop, Boot
<1>6. call'[Run].op = call[Run].op /\ (call'[Run].st = "ok" => call[Run].st = "ok")
  <2>1. CASE SidecarCrash \/ ManagerStop BY <1>0, <2>1, HangupType DEF SidecarCrash, ManagerStop
  <2> QED BY <1>1, <1>4, <2>1 DEF BackendStep, SidecarRespawn, SidecarReady, Boot, StartIndexer
<1>7. InHand' = InHand BY <1>2 DEF InHand
<1>8. run.force /\ run.pc = "wait" /\ call'[Run].op = "remember" /\ call'[Run].st = "ok"
        => khora[run.doc.path] = run.doc.hash
  BY <1>3, <1>6 DEF Walk
<1> QED BY <1>2, <1>3, <1>5, <1>7, <1>8, WalkKept

\* Every step keeps the walk right.
LEMMA NextWalk == ASSUME Shape, Claims, Coherent, WalkInv, [Next]_vars PROVE WalkInv'
<1>1. CASE VaultStep \/ \E s \in Slots : TaskStep(s)
  <2>1. quiet' = FALSE
    BY <1>1 DEF VaultStep, Create, Modify, Delete, Rename, EditIgnore, Edit, TaskStep, Fire, TaskRead,
                TaskRemembered, TaskForgot
  <2> QED BY <2>1 DEF WalkInv, OnCourse
<1>2. ASSUME NEW force \in BOOLEAN, Reindex(force) PROVE WalkInv'
  <2>1. run'.pc = "flag" BY <1>2 DEF Reindex, NoRun
  <2> QED BY <2>1 DEF WalkInv, OnCourse, Indexing
<1>3. CASE Stop \/ UNCHANGED vars
  <2>1. UNCHANGED <<live, path, content, ignored, khora, run, quiet, store, call>>
    BY <1>3 DEF Stop, RunVars, vars, vault, server
  <2>2. Present' = Present /\ InHand' = InHand BY <2>1 DEF Present, InHand
  <2>3. Walk => Walk' BY <2>1, <2>2, WalkKept DEF Walk
  <2> QED BY <2>1, <2>3 DEF WalkInv, OnCourse, Indexing
<1> QED BY <1>1, <1>2, <1>3, RunWalk, ServerWalk, BackendWalk DEF Next

\* The invariant of the runs
RunInv == Shape /\ Claims /\ Coherent /\ WalkInv

\* It holds at first and every step keeps it.
LEMMA RunInvHolds == Spec => []RunInv
<1>1. Init => RunInv
  <2>1. ASSUME Init PROVE Claims
    <3>1. EntriesWereAcknowledged BY <2>1 DEF Init, Empty, EntriesWereAcknowledged
    <3>2. AnswersAreTrue BY <2>1, ConstantsAssumption
                         DEF Init, NoCall, NoTask, NoRun, AnswersAreTrue, Actors
    <3> QED BY <3>1, <3>2 DEF Claims
  <2>2. Init => WalkInv BY DEF Init, WalkInv, OnCourse
  <2> QED BY <2>1, <2>2, InitShape, InitCoherent DEF RunInv
<1>2. RunInv /\ [Next]_vars => RunInv' BY NextShape, NextClaims, NextCoherent, NextWalk DEF RunInv
<1> QED BY <1>1, <1>2, PTL DEF Spec

\* A full index that reports completion, had no failed note and ran while the
\* vault and its handlers were quiet leaves the store equal to the vault, for
\* every vault, whatever an earlier Indexer or the sidecar did meanwhile.
THEOREM CompletionIsTrue == Spec => []CompletedRunCoversVault
<1>1. RunInv => CompletedRunCoversVault
  <2> SUFFICES ASSUME RunInv, run.pc = "unflag", run.completed, run.failed = 0, quiet
               PROVE  /\ \A f \in Present : content[f] # Blank => store[run.gen][path[f]] = content[f]
                      /\ \A p \in Paths : store[run.gen][p] # None => \E f \in Present : path[f] = p
    BY DEF CompletedRunCoversVault
  <2>1. Walk BY DEF RunInv, WalkInv, OnCourse
  <2>2. run.files = {} /\ run.gone = {} /\ InHand = {} BY DEF RunInv, Coherent, RunPhases, InHand
  <2> QED BY <2>1, <2>2 DEF Walk, Covers, Queued
<1> QED BY <1>1, RunInvHolds, PTL

\* After a forced run that completed undisturbed and without a failed note
\* Khora holds the text of every note that is not blank, whatever it held.
THEOREM ForcedRunRepairs == Spec => []ForcedRunHeals
<1>1. RunInv => ForcedRunHeals
  <2> SUFFICES ASSUME RunInv, run.pc = "unflag", run.completed, run.failed = 0, quiet, run.force
               PROVE  \A f \in Present : content[f] # Blank => khora[path[f]] = content[f]
    BY DEF ForcedRunHeals
  <2>1. Walk BY DEF RunInv, WalkInv, OnCourse
  <2>2. run.files = {} /\ InHand = {} BY DEF RunInv, Coherent, RunPhases, InHand
  <2> QED BY <2>1, <2>2 DEF Walk, Covers, Queued
<1> QED BY <1>1, RunInvHolds, PTL

\* Once a stop is requested, the only text the run still sends is that of the
\* note whose forget is already under way.
THEOREM StopIsHeard == Spec => StopsAfterCurrentNote
<1> DEFINE Heard == cancel /\ cancel' /\ call'[Run] # call[Run]
                    /\ call'[Run].op = "remember" /\ call'[Run].st = "sent"
                      => call[Run].op = "forget" /\ call[Run].key = call'[Run].key
<1>1. RunInv /\ [Next]_vars => [Heard]_vars
  <2> SUFFICES ASSUME RunInv, Next, cancel, call'[Run] # call[Run],
                      call'[Run].op = "remember", call'[Run].st = "sent"
               PROVE  call[Run].op = "forget" /\ call[Run].key = call'[Run].key
    OBVIOUS
  <2>0. /\ TypeOK /\ WellFormed /\ call \in [Actors -> Call] /\ Run \in Actors /\ Run \notin Slots
        /\ Slots \subseteq Actors /\ None \in Hash /\ run.client \in 0 .. MaxEpochs
    BY ConstantsAssumption DEF RunInv, Shape, TypeOK, Actors, Hash, RunType
  <2>1. CASE RunForgotFirst
    <3>1. run.pc = "wait" /\ call[Run].op = "forget" /\ run.doc \in Doc
      BY <2>0, <2>1 DEF RunForgotFirst, WellFormed
    <3>2. call[Run].key = run.doc.path BY <3>1 DEF RunInv, Coherent, RunCalls
    <3>3. call'[Run].key = run.doc.path BY <2>0, <2>1 DEF RunForgotFirst, Send
    <3> QED BY <3>1, <3>2, <3>3
  <2>2. ASSUME NEW p \in Paths, RunForget(p) PROVE FALSE
    BY <2>0, <2>2 DEF RunForget, Send
  <2>3. ~RunAttempt BY DEF RunAttempt
  <2>4. ASSUME Return(Run) PROVE FALSE BY <2>0, <2>4, ReturnType DEF NoCall
  <2>5. RunStep => RunForgotFirst
    BY <2>2, <2>3, <2>4 DEF RunStep, RunBegin, RunRefused, RunForgot, RunRemembered, RunRetry, RunGaveUp,
       RunNothing, RunEnd, RunUnflag, RunRead, RunAborted, RunNote
  <2>6. ~VaultStep
    <3>1. ASSUME NEW s \in Slots, NEW p \in Paths, NEW f \in Files \cup {None}, HandleDelete(s, p, f)
          PROVE FALSE
      BY <2>0, <3>1, HandleDeleteType
    <3>2. ASSUME NEW f \in Files, NEW s \in Slots, Delete(f, s) PROVE FALSE
      BY <2>0, <3>1, <3>2 DEF Delete, WellFormed
    <3>3. ASSUME NEW f \in Files, NEW p \in Paths, NEW s \in Slots, Rename(f, p, s) PROVE FALSE
      BY <2>0, <3>1, <3>3 DEF Rename, WellFormed
    <3> QED BY <3>2, <3>3 DEF VaultStep, Create, Modify, EditIgnore
  <2>7. ASSUME NEW s \in Slots, TaskStep(s) PROVE FALSE
    BY <2>0, <2>7 DEF TaskStep, Fire, TaskRead, TaskRemembered, TaskForgot, Send, Return
  <2>8. ASSUME NEW a \in Actors, ServerStep(a) PROVE FALSE
    BY <2>0, <2>8, AnswerIs DEF RunInv
  <2>9. ~BackendStep
    <3>1. ~Hangup BY <2>0 DEF Hangup, Call
    <3>2. ASSUME Open PROVE FALSE
      <4>1. call'[Run] = NoCall BY <2>0, <3>2 DEF Open
      <4> QED BY <4>1 DEF NoCall
    <3>3. ASSUME NEW flush \in BOOLEAN, Close(flush) PROVE FALSE
      <4>1. call'[Run] = call[Run] \/ call'[Run] = NoCall BY <2>0, <3>3 DEF Close
      <4> QED BY <4>1 DEF NoCall
    <3> QED BY <3>1, <3>2, <3>3 DEF BackendStep, SidecarCrash, SidecarRespawn, SidecarReady, ManagerStop,
                              Boot, StartIndexer
  <2>10. ~Stop /\ \A force \in BOOLEAN : ~Reindex(force) BY DEF Stop, Reindex
  <2> QED BY <2>1, <2>5, <2>6, <2>7, <2>8, <2>9, <2>10 DEF Next
<1>2. [][Heard]_vars => StopsAfterCurrentNote BY DEF StopsAfterCurrentNote
<1> QED BY <1>1, <1>2, RunInvHolds, PTL DEF Spec

----------------------------------------------------------------------------
(* What a kill may cost *)

\* A remainder is below the divisor.
LEMMA Remainder ==
  ASSUME NEW n \in Nat
  PROVE  n % SaveEvery \in 0 .. SaveEvery - 1 /\ \E q \in Nat : n = SaveEvery * q + (n % SaveEvery)
<1>1. /\ n \div SaveEvery \in Nat /\ n = SaveEvery * (n \div SaveEvery) + (n % SaveEvery)
      /\ n % SaveEvery \in 0 .. SaveEvery - 1
  BY ConstantsAssumption, SMT
<1> QED BY <1>1

\* A multiple that is smaller than the divisor is zero.
LEMMA SmallMultiple ==
  ASSUME NEW k \in Int, -SaveEvery < SaveEvery * k, SaveEvery * k < SaveEvery PROVE k = 0
<1>0. SaveEvery \in Nat \ {0} BY ConstantsAssumption
<1>1. CASE k >= 1
  <2>1. SaveEvery * k >= SaveEvery /\ SaveEvery * k \in Int BY <1>0, <1>1, SMT
  <2> QED BY <1>0, <2>1
<1>2. CASE k <= -1
  <2>1. SaveEvery * k <= -SaveEvery /\ SaveEvery * k \in Int BY <1>0, <1>2, SMT
  <2> QED BY <1>0, <2>1
<1> QED BY <1>1, <1>2

\* Counting notes up to the next save
LEMMA NextSave ==
  ASSUME NEW n \in Nat
  PROVE  /\ n % SaveEvery \in 0 .. SaveEvery - 1
         /\ (n + 1) % SaveEvery = 0 \/ (n + 1) % SaveEvery = (n % SaveEvery) + 1
<1>0. SaveEvery \in Nat \ {0} BY ConstantsAssumption
<1> DEFINE S == SaveEvery
           r == n % S
           t == (n + 1) % S
<1>1. PICK q \in Nat : n = S * q + r BY Remainder
<1>2. PICK u \in Nat : n + 1 = S * u + t BY Remainder
<1>3. r \in 0 .. S - 1 /\ t \in 0 .. S - 1 BY Remainder
<1> HIDE DEF r, t
<1>4. S * q \in Int /\ S * u \in Int /\ S * (u - q) = S * u - S * q BY <1>0, SMT
<1>5. S * (u - q) = r + 1 - t BY <1>0, <1>1, <1>2, <1>3, <1>4
<1>6. CASE t # 0
  <2>1. -S < S * (u - q) /\ S * (u - q) < S BY <1>0, <1>3, <1>5, <1>6
  <2>2. u - q = 0 BY <2>1, SmallMultiple
  <2>3. S * (u - q) = 0 BY <1>0, <2>2
  <2> QED BY <1>0, <1>3, <1>5, <2>3 DEF r, t
<1> QED BY <1>3, <1>6 DEF r, t

\* The allowance is below the interval between two saves.
LEMMA AllowanceBound ==
  ASSUME Shape PROVE Allowance \in Nat /\ Allowance < SaveEvery
<1>1. run.done \in Nat BY DEF Shape, TypeOK, RunType
<1> QED BY <1>1, NextSave, ConstantsAssumption DEF Allowance

\* Nothing is unsaved.
LEMMA NoLoss == ASSUME Shape', Unsaved' = {} PROVE LossInv'
<1>1. IsFiniteSet(Unsaved') /\ Cardinality(Unsaved') = 0 BY FS_EmptySet
<1>2. Allowance' \in Nat
  <2>1. run'.done \in Nat BY DEF Shape, TypeOK, RunType
  <2>2. run'.done % SaveEvery \in Nat BY <2>1, NextSave
  <2> QED BY <2>2 DEF Allowance
<1> QED BY <1>1, <1>2 DEF LossInv

\* No more is unsaved than before, and the allowance has not shrunk.
LEMMA LossFrom ==
  ASSUME Shape, Shape', LossInv, gen' # 0 /\ saver' = gen' => gen # 0 /\ saver = gen /\ Unsaved' \subseteq Unsaved,
         gen' # 0 /\ saver' = gen' => Allowance <= Allowance'
  PROVE  LossInv'
<1> SUFFICES ASSUME gen' # 0, saver' = gen'
             PROVE  IsFiniteSet(Unsaved') /\ Cardinality(Unsaved') <= Allowance'
  BY DEF LossInv
<1>1. IsFiniteSet(Unsaved) /\ Cardinality(Unsaved) <= Allowance BY DEF LossInv
<1>2. IsFiniteSet(Unsaved') /\ Cardinality(Unsaved') <= Cardinality(Unsaved)
  BY <1>1, FS_Subset
<1>3. Cardinality(Unsaved) \in Nat /\ Cardinality(Unsaved') \in Nat BY <1>1, <1>2, FS_CardinalityType
<1>4. Allowance \in Nat /\ Allowance' \in Nat
  <2>1. run.done \in Nat /\ run'.done \in Nat BY DEF Shape, TypeOK, RunType
  <2>2. run.done % SaveEvery \in Nat /\ run'.done % SaveEvery \in Nat BY <2>1, NextSave
  <2> QED BY <2>2 DEF Allowance
<1> QED BY <1>1, <1>2, <1>3, <1>4

\* An Indexer saves its store: the current one leaves nothing unsaved, and after
\* another the file is not the current one's.
LEMMA SaveLoss ==
  ASSUME Shape, Shape', NEW g \in Gens, disk' = store'[g], saver' = g, UNCHANGED gen
  PROVE  LossInv'
<1>1. CASE g = gen
  <2>1. Unsaved' = {} BY <1>1 DEF Unsaved
  <2> QED BY <2>1, NoLoss
<1>2. CASE g # gen BY <1>2 DEF LossInv
<1> QED BY <1>1, <1>2

\* A note of the run is through: one more entry may be unsaved, until the save.
LEMMA NoteLoss ==
  ASSUME Shape, Shape', Coherent, LossInv, run.pc \in {"attempt", "wait"}, UNCHANGED gen,
         NEW n \in {0, 1}, NoteDone(n), NEW k,
         store' = store \/ \E h : store' = [store EXCEPT ![run.gen][k] = h]
  PROVE  LossInv'
<1>0. /\ run \in RunType /\ run.gen \in Gens /\ run.done \in Nat /\ store \in [Gens -> Index]
      /\ gen # 0 => gen \in Gens
  BY GenIsCreated DEF Shape, TypeOK, WellFormed, Indexing, RunType
<1>1. CASE (run.done + 1) % SaveEvery = 0
  BY <1>0, <1>1, SaveLoss DEF NoteDone
<1>2. CASE (run.done + 1) % SaveEvery # 0
  <2>1. UNCHANGED <<disk, saver>> BY <1>2 DEF NoteDone
  <2>2. run'.pc = "loop" /\ run'.gen = run.gen /\ run'.done = run.done + 1 BY <1>0, NoteDoneIs
  <2>3. /\ run.done % SaveEvery \in Nat
        /\ (run.done + 1) % SaveEvery = (run.done % SaveEvery) + 1
    BY <1>0, <1>2, NextSave
  <2>4. CASE run.gen # gen
    <3>1. gen # 0 => store'[gen] = store[gen] BY <1>0, <2>4
    <3>2. gen # 0 => Unsaved' = Unsaved BY <2>1, <3>1 DEF Unsaved
    <3>3. Allowance' = Allowance BY <2>2, <2>4 DEF Allowance
    <3>4. Allowance \in Nat BY AllowanceBound
    <3> QED BY <2>1, <3>2, <3>3, <3>4, LossFrom
  <2>5. CASE run.gen = gen
    <3> SUFFICES ASSUME gen # 0, saver = gen
                 PROVE  IsFiniteSet(Unsaved') /\ Cardinality(Unsaved') <= Allowance'
      BY <2>1 DEF LossInv
    <3>1. Unsaved' \subseteq Unsaved \cup {k}
      <4>1. \A p \in Paths : p # k => store'[gen][p] = store[gen][p] BY <1>0, <2>5 DEF Index
      <4> QED BY <2>1, <4>1 DEF Unsaved
    <3>2. /\ IsFiniteSet(Unsaved) /\ Cardinality(Unsaved) <= run.done % SaveEvery
          /\ Allowance' = (run.done % SaveEvery) + 1
      BY <2>2, <2>3, <2>5 DEF LossInv, Allowance, Indexing
    <3>3. /\ IsFiniteSet(Unsaved \cup {k})
          /\ Cardinality(Unsaved \cup {k}) = Cardinality(Unsaved)
               \/ Cardinality(Unsaved \cup {k}) = Cardinality(Unsaved) + 1
      BY <3>2, FS_AddElement
    <3>4. /\ IsFiniteSet(Unsaved') /\ Cardinality(Unsaved') <= Cardinality(Unsaved \cup {k})
      BY <3>1, <3>3, FS_Subset
    <3>5. Cardinality(Unsaved) \in Nat /\ Cardinality(Unsaved') \in Nat
      BY <3>2, <3>4, FS_CardinalityType
    <3>6. Cardinality(Unsaved \cup {k}) \in Nat BY <3>3, FS_CardinalityType
    <3> QED BY <2>3, <3>2, <3>3, <3>4, <3>5, <3>6
  <2> QED BY <2>4, <2>5
<1> QED BY <1>1, <1>2

\* Every step keeps the loss bounded.
LEMMA NextLoss == ASSUME Shape, Shape', Coherent, LossInv, [Next]_vars PROVE LossInv'
<1>0. /\ TypeOK /\ WellFormed /\ run \in RunType /\ run.done \in Nat /\ store \in [Gens -> Index]
      /\ Allowance \in Nat
      /\ gen # 0 => gen \in Gens
  BY AllowanceBound, GenIsCreated DEF Shape, TypeOK, RunType
<1>1. ASSUME UNCHANGED <<gen, store, disk, saver>>, Allowance' = Allowance PROVE LossInv'
  BY <1>0, <1>1, LossFrom DEF Unsaved
<1>2. ASSUME UNCHANGED <<gen, store, disk, saver, run>> PROVE LossInv'
  BY <1>1, <1>2 DEF Allowance, Indexing
<1>3. CASE VaultStep \/ (\E a \in Actors : ServerStep(a)) \/ Stop \/ UNCHANGED vars
  BY <1>2, <1>3, AnswerIs DEF VaultStep, Create, Modify, Delete, Rename, EditIgnore, Stop, RunVars, vars
<1>4. ASSUME NEW s \in Slots, TaskStep(s) PROVE LossInv'
  <2>1. CASE TaskForgot(s) \/ (TaskRemembered(s) /\ call[s].st = "ok")
    <3>1. task[s].gen \in Gens BY <1>0, <2>1 DEF TaskForgot, TaskRemembered, WellFormed
    <3>2. disk' = store'[task[s].gen] /\ saver' = task[s].gen /\ UNCHANGED gen
      BY <2>1 DEF TaskForgot, TaskRemembered
    <3> QED BY <3>1, <3>2, SaveLoss
  <2> QED BY <1>2, <1>4, <2>1 DEF TaskStep, Fire, TaskRead, TaskRemembered
<1>5. ASSUME NEW force \in BOOLEAN, Reindex(force) PROVE LossInv'
  <2>1. run.pc = "idle" /\ run'.pc = "flag" /\ UNCHANGED <<gen, store, disk, saver>>
    BY <1>5 DEF Reindex, NoRun, RunVars
  <2> QED BY <1>1, <2>1 DEF Allowance, Indexing
<1>6. CASE RunStep
  <2>0. UNCHANGED gen BY <1>0, <1>6, RunStepFrame DEF RunFrame
  <2>a. Indexing => run.gen \in Gens BY <1>0 DEF WellFormed
  <2>1. CASE RunBegin
    <3>1. run.pc = "flag" /\ run'.pc = "loop" /\ run'.done = 0
      BY <1>0, <2>1, RunBeginIs DEF Coherent, RunPhases
    <3>2. 0 % SaveEvery = 0 BY ConstantsAssumption
    <3>3. Allowance' = 0 /\ Allowance = 0 BY <3>1, <3>2 DEF Allowance, Indexing
    <3> QED BY <1>1, <2>1, <3>3 DEF RunBegin, RunVars
  <2>2. ASSUME NEW done \in BOOLEAN, Finish(done), run.done = 0 \/ ~Indexing, UNCHANGED <<store, disk, saver>>
        PROVE  LossInv'
    <3>1. run'.pc = "unflag" BY <1>0, <2>2, FinishIs
    <3>2. 0 % SaveEvery = 0 BY ConstantsAssumption
    <3>3. Allowance' = 0 /\ Allowance = 0 BY <2>2, <3>1, <3>2 DEF Allowance, Indexing
    <3> QED BY <1>1, <2>0, <2>2, <3>3
  <2>3. CASE RunRefused BY <2>2, <2>3 DEF RunRefused, Indexing
  <2>4. ASSUME NEW f \in Files, RunAborted(f) PROVE LossInv'
    BY <2>2, <2>4 DEF RunAborted, Scanning, Coherent, RunPhases
  <2>5. CASE RunNothing BY <2>2, <2>5 DEF RunNothing
  <2>6. CASE RunEnd
    <3>1. run.gen \in Gens /\ disk' = store'[run.gen] /\ saver' = run.gen
      BY <2>a, <2>6 DEF RunEnd, Sending, Indexing
    <3> QED BY <2>0, <3>1, SaveLoss
  <2>7. ASSUME run.pc \in {"loop", "attempt", "wait"}, run'.pc \in {"loop", "attempt", "wait"},
               run'.gen = run.gen, run'.done = run.done, UNCHANGED <<store, disk, saver>>
        PROVE  LossInv'
    BY <1>1, <2>0, <2>7 DEF Allowance, Indexing
  <2>8. ASSUME NEW p \in Paths, RunForget(p) PROVE LossInv' BY <1>2, <2>0, <2>8 DEF RunForget
  <2>9. ASSUME NEW f \in Files, RunRead(f) PROVE LossInv' BY <1>0, <2>7, <2>9, RunReadIs DEF RunRead
  <2>10. ASSUME NEW d \in run.docs, RunNote(d) PROVE LossInv' BY <1>0, <2>7, <2>10, RunNoteIs DEF RunNote
  <2>11. CASE RunAttempt \/ RunRetry BY <1>0, <2>7, <2>11, RunTryIs DEF RunAttempt, RunRetry
  <2>12. CASE RunForgotFirst
    <3>1. run.pc = "wait" => run.doc \in Doc BY <1>0 DEF WellFormed
    <3> QED BY <1>0, <2>7, <2>12, <3>1, RunForgotFirstIs DEF RunForgotFirst
  <2>13. CASE RunForgot
    <3>1. run.pc = "loop" /\ run'.pc = "loop" /\ run'.gen = run.gen /\ run'.done = run.done
      BY <1>0, <2>13, RunForgotIs
    <3>2. Allowance' = Allowance BY <2>0, <3>1 DEF Allowance, Indexing
    <3>3. UNCHANGED <<disk, saver>> /\ store' = [store EXCEPT ![run.gen][call[Run].key] = None]
      BY <2>13 DEF RunForgot
    <3>4. gen # 0 => \A p \in Paths : store'[gen][p] = None \/ store'[gen][p] = store[gen][p]
      BY <1>0, <3>3 DEF Index
    <3>5. gen # 0 => Unsaved' \subseteq Unsaved BY <2>0, <3>3, <3>4 DEF Unsaved
    <3> QED BY <1>0, <2>0, <3>2, <3>3, <3>5, LossFrom
  <2>14. CASE RunRemembered BY <2>0, <2>14, NoteLoss DEF RunRemembered
  <2>15. CASE RunGaveUp BY <2>0, <2>15, NoteLoss DEF RunGaveUp
  <2>16. CASE RunUnflag
    <3>1. run.pc = "unflag" /\ run'.pc = "idle" /\ UNCHANGED <<store, disk, saver>>
      BY <2>16 DEF RunUnflag, NoRun
    <3> QED BY <1>1, <2>0, <3>1 DEF Allowance, Indexing
  <2> QED BY <1>6, <2>1, <2>3, <2>4, <2>5, <2>6, <2>8, <2>9, <2>10, <2>11, <2>12, <2>13, <2>14,
             <2>15, <2>16 DEF RunStep
<1>7. CASE BackendStep
  <2>1. CASE StartIndexer
    <3>1. epoch \in Gens /\ gen' = epoch /\ store'[epoch] = disk'
      BY <1>0, <2>1 DEF StartIndexer, WellFormed
    <3>2. Unsaved' = {} BY <3>1 DEF Unsaved
    <3> QED BY <3>2, NoLoss
  <2>2. ASSUME NEW flush \in BOOLEAN, Close(flush) PROVE LossInv' BY <2>2 DEF Close, LossInv
  <2> QED BY <1>2, <1>7, <2>1, <2>2 DEF BackendStep, SidecarCrash, SidecarRespawn, SidecarReady,
                                        ManagerStop, Boot, Open
<1> QED BY <1>3, <1>4, <1>5, <1>6, <1>7 DEF Next

\* Killing Obsidian at any moment costs fewer than SaveEvery notes of a run,
\* for every length of a run, whatever edits and runs came before - as long as
\* no coroutine of a retired Indexer has written the file last.
THEOREM KillCostsLittle == Spec => []LossIsBounded
<1>1. Init => LossInv BY DEF Init, LossInv
<1>2. RunInv /\ RunInv' /\ LossInv /\ [Next]_vars => LossInv' BY NextLoss DEF RunInv
<1>3. RunInv /\ LossInv => LossIsBounded
  <2> SUFFICES ASSUME Shape, LossInv, gen # 0, saver = gen PROVE Cardinality(Unsaved) < SaveEvery
    BY DEF RunInv, LossIsBounded
  <2>1. IsFiniteSet(Unsaved) /\ Cardinality(Unsaved) <= Allowance BY DEF LossInv
  <2>2. Cardinality(Unsaved) \in Nat BY <2>1, FS_CardinalityType
  <2> QED BY <2>1, <2>2, AllowanceBound, ConstantsAssumption
<1> QED BY <1>1, <1>2, <1>3, RunInvHolds, PTL DEF Spec
=============================================================================
