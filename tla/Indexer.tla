------------------------------ MODULE Indexer ------------------------------
(***************************************************************************)
(* How Uru keeps Khora's index in step with an Obsidian vault.             *)
(*                                                                         *)
(*   src/indexing/indexer.ts    fullIndex, reindexOne, handleDelete,       *)
(*                              handleRename, debounce, stop               *)
(*   src/indexing/hashStore.ts  the {path -> hash} map and when it is      *)
(*                              written to index-state.json                *)
(*   main.ts                    reindex/doReindex (the persisted           *)
(*                              indexInterrupted flag), startIndexer/      *)
(*                              stopIndexer, restartBackend, onunload      *)
(*   sidecar/client.ts, app.py  /remember and /forget, as calls that are   *)
(*                              sent, take effect, and are answered        *)
(*                                                                         *)
(* JavaScript is single threaded: an action is the code between two awaits *)
(* of one coroutine.  A call to the sidecar is three steps - sent, taking  *)
(* effect (or failing), and the coroutine going on - so that answers come  *)
(* back in any order and the vault changes while a call is under way.      *)
(* A note's text is its hash; Khora is the text it holds for each path.    *)
(***************************************************************************)
EXTENDS Naturals, FiniteSets

CONSTANTS
  Files,      \* TFile objects; one is never reused after its note is deleted
  Paths,      \* vault-relative paths of Markdown notes (external_id)
  Contents,   \* note texts that are not blank
  Blank,      \* a text that is only white space (or only frontmatter)
  None,       \* no path, no text, no file
  Ignorable,  \* the paths the ignore globs may come to match
  Slots,      \* event-handler coroutines that may be under way at once
  Run,        \* the full-index coroutine
  SaveEvery,  \* notes between two saves of a full index (10 in the code)
  Retries,    \* tries of one note (3 in the code)
  MaxEpochs,  \* sidecar processes started: boots and crash-restarts
  Sessions    \* what may happen besides: vault changes (and how many of them
              \* are renames), calls that fail although the sidecar is up,
              \* full index runs; sound: no call fails

ASSUME ConstantsAssumption ==
  /\ SaveEvery \in Nat \ {0} /\ Retries \in Nat \ {0}
  /\ MaxEpochs \in Nat
  /\ Sessions \subseteq
       [edits : Nat, renames : Nat, fails : Nat, runs : Nat, sound : BOOLEAN]
  /\ \A s \in Sessions : s.sound => s.fails = 0
  /\ Blank \notin Contents /\ None \notin Contents \cup {Blank}
  /\ None \notin Paths /\ None \notin Files /\ Run \notin Slots
  /\ Ignorable \subseteq Paths

VARIABLES
  live, path, content, ignored,         \* the vault
  gen, store, timers, cancel, task, run,\* Indexer objects and their coroutines
  disk,                                 \* index-state.json
  flag, flagDisk,                       \* settings.indexInterrupted, data.json
  backend, epoch, call, khora,          \* the sidecar behind client()
  acked, quiet, indexed, saver,         \* history: see the properties
  budget                                \* what is left of each bound

vault   == <<live, path, content, ignored>>
flags   == <<flag, flagDisk>>
process == <<backend, epoch>>
server  == <<khora, acked>>
vars    == <<vault, gen, store, timers, cancel, task, run, disk, flags,
             process, call, server, quiet, indexed, saver, budget>>

----------------------------------------------------------------------------
(* Types *)

Gens    == 1 .. MaxEpochs
Actors  == Slots \cup {Run}
Hash    == Contents \cup {None}
Index   == [Paths -> Hash]
Empty   == [p \in Paths |-> None]

\* A queued debounce timer; tracked: the pending map still holds its id.
Timer   == [key : Paths, file : Files, tracked : BOOLEAN, gen : Gens]

\* A request to the sidecar: client is the process it is addressed to.
Call    == [op : {"none", "remember", "forget"}, key : Paths \cup {None},
            hash : Hash, client : 0 .. MaxEpochs,
            st : {"none", "sent", "ok", "err"}]
NoCall  == [op |-> "none", key |-> None, hash |-> None, client |-> 0, st |-> "none"]

\* reindexOne / handleDelete / handleRename
Task    == [pc : {"idle", "read", "remember", "forget"}, gen : 0 .. MaxEpochs,
            client : 0 .. MaxEpochs, file : Files \cup {None}, hash : Hash]
NoTask  == [pc |-> "idle", gen |-> 0, client |-> 0, file |-> None, hash |-> None]

Doc     == [path : Paths, hash : Contents, forgetFirst : BOOLEAN]
NoDoc   == [path |-> None, hash |-> None, forgetFirst |-> FALSE]

\* doReindex + fullIndex + rememberWithRetry
RunType == [pc : {"idle", "flag", "loop", "attempt", "wait", "unflag"},
            force : BOOLEAN, gen : 0 .. MaxEpochs, client : 0 .. MaxEpochs,
            gone : SUBSET Paths, files : SUBSET Files, docs : SUBSET Doc,
            doc : Doc \cup {NoDoc},
            attempt : 0 .. Retries, done : Nat, failed : Nat, completed : BOOLEAN]
NoRun   == [pc |-> "idle", force |-> FALSE, gen |-> 0, client |-> 0,
            gone |-> {}, files |-> {}, docs |-> {}, doc |-> NoDoc,
            attempt |-> 0, done |-> 0, failed |-> 0, completed |-> FALSE]

TypeOK ==
  /\ live \subseteq Files /\ path \in [Files -> Paths \cup {None}]
  /\ content \in [Files -> Contents \cup {Blank}] /\ ignored \subseteq Ignorable
  /\ gen \in 0 .. MaxEpochs /\ store \in [Gens -> Index] /\ timers \subseteq Timer
  /\ cancel \in BOOLEAN /\ task \in [Slots -> Task] /\ run \in RunType
  /\ disk \in Index /\ flag \in BOOLEAN /\ flagDisk \in BOOLEAN
  /\ backend \in {"closed", "down", "booting", "up", "crashed", "starting"}
  /\ epoch \in 0 .. MaxEpochs /\ call \in [Actors -> Call] /\ khora \in Index
  /\ acked \subseteq Paths \X Contents /\ quiet \in BOOLEAN
  /\ indexed \in BOOLEAN /\ saver \in 0 .. MaxEpochs
  /\ budget \in [edits : Nat, renames : Nat, fails : Nat, runs : Nat, sound : BOOLEAN]

----------------------------------------------------------------------------
(* Calls.  client() is null when the manager is (restartBackend, runSetup); *)
(* a call reaches the process whose port and token it carries, or none.     *)

HasClient == backend \in {"booting", "up", "crashed", "starting"}

Send(a, op, key, hash, client) ==
  call' = [call EXCEPT ![a] = [op |-> op, key |-> key, hash |-> hash,
                               client |-> client, st |-> "sent"]]
Return(a)    == call' = [call EXCEPT ![a] = NoCall]
Answered(a)  == call[a].st \in {"ok", "err"}
Reachable(c) == c.client = epoch /\ backend \in {"up", "closed"}

\* /remember replaces the text held for the path; /forget drops it.
Effect(c) == [khora EXCEPT ![c.key] = c.hash]

ServerApply(a) ==
  /\ call[a].st = "sent" /\ Reachable(call[a])
  /\ khora' = Effect(call[a])
  /\ call' = [call EXCEPT ![a].st = "ok"]
  /\ acked' = IF call[a].op = "remember"
                THEN acked \cup {<<call[a].key, call[a].hash>>} ELSE acked
  /\ UNCHANGED <<vault, gen, store, timers, cancel, task, run, disk, saver, flags,
                 process, quiet, budget, indexed>>

\* Connection refused, 500 from a runtime that is still starting, wrong port.
ServerRefuse(a) ==
  /\ call[a].st = "sent" /\ backend # "closed" /\ ~Reachable(call[a])
  /\ call' = [call EXCEPT ![a].st = "err"]
  /\ UNCHANGED <<vault, gen, store, timers, cancel, task, run, disk, saver, flags,
                 process, server, quiet, budget, indexed>>

\* An error from a sidecar that is up; the call may have taken effect.
ServerFail(a) ==
  /\ call[a].st = "sent" /\ backend = "up" /\ Reachable(call[a])
  /\ budget.fails > 0
  /\ budget' = [budget EXCEPT !.fails = @ - 1]
  /\ khora' \in {khora, Effect(call[a])}
  /\ call' = [call EXCEPT ![a].st = "err"]
  /\ UNCHANGED <<vault, gen, store, timers, cancel, task, run, disk, saver, flags,
                 process, acked, quiet, indexed>>

----------------------------------------------------------------------------
(* Incremental indexing: vault events and the coroutines they start *)

\* debounce(file): the timer that was pending for the path is cleared.
Debounce(f, p) ==
  timers' = {t \in timers : ~(t.tracked /\ t.key = p /\ t.gen = gen)}
              \cup {[key |-> p, file |-> f, tracked |-> TRUE, gen |-> gen]}

\* onChange, when an Indexer is listening
OnChange(f, p) ==
  IF gen # 0 /\ p \notin ignored THEN Debounce(f, p) ELSE UNCHANGED timers

Free(s) == task[s].pc = "idle" /\ call[s] = NoCall

\* reindexOne(file) up to the await of cachedRead, on the store of Indexer g
ReindexOne(s, f, g) ==
  task' = [task EXCEPT ![s] = [pc |-> "read", gen |-> g, client |-> epoch,
                               file |-> f, hash |-> None]]

\* handleDelete(path) up to the await of forget; f is handleRename's file
HandleDelete(s, p, f) ==
  IF gen # 0 /\ HasClient
    THEN /\ Free(s)
         /\ task' = [task EXCEPT ![s] = [pc |-> "forget", gen |-> gen,
                          client |-> epoch, file |-> f, hash |-> None]]
         /\ Send(s, "forget", p, None, epoch)
    ELSE UNCHANGED <<task, call>>

Edit == budget.edits > 0 /\ budget' = [budget EXCEPT !.edits = @ - 1] /\ quiet' = FALSE
Unoccupied(p) == \A f \in live : path[f] # p

Create(f, p, c) ==
  /\ path[f] = None /\ Unoccupied(p) /\ Edit
  /\ live' = live \cup {f}
  /\ path' = [path EXCEPT ![f] = p] /\ content' = [content EXCEPT ![f] = c]
  /\ OnChange(f, p)
  /\ UNCHANGED <<ignored, gen, store, cancel, task, run, disk, saver, flags,
                 process, call, server, indexed>>

Modify(f, c) ==
  /\ f \in live /\ c # content[f] /\ Edit
  /\ content' = [content EXCEPT ![f] = c]
  /\ OnChange(f, path[f])
  /\ UNCHANGED <<live, path, ignored, gen, store, cancel, task, run, disk, saver,
                 flags, process, call, server, indexed>>

Delete(f, s) ==
  /\ f \in live /\ Edit
  /\ live' = live \ {f}
  /\ HandleDelete(s, path[f], None)
  /\ UNCHANGED <<path, content, ignored, gen, store, timers, cancel, run, disk, saver,
                 flags, process, server, indexed>>

\* TFile.path changes in place: a timer or coroutine that holds f sees it.
Rename(f, p, s) ==
  /\ f \in live /\ Unoccupied(p)
  /\ budget.edits > 0 /\ budget.renames > 0
  /\ budget' = [budget EXCEPT !.edits = @ - 1, !.renames = @ - 1]
  /\ quiet' = FALSE
  /\ path' = [path EXCEPT ![f] = p]
  /\ HandleDelete(s, path[f], f)
  /\ UNCHANGED <<live, content, ignored, gen, store, timers, cancel, run, disk, saver,
                 flags, process, server, indexed>>

\* The ignore globs are edited: applyIgnorePatterns takes effect at once; what
\* is indexed follows with the next run.
EditIgnore(p) ==
  /\ p \in Ignorable /\ Edit
  /\ ignored' = IF p \in ignored THEN ignored \ {p} ELSE ignored \cup {p}
  /\ indexed' = FALSE
  /\ UNCHANGED <<live, path, content, gen, store, timers, cancel, task, run, disk, saver,
                 flags, process, call, server>>

\* A debounce timer fires.  pending.delete(file.path) reads the path now, so
\* after a rename it drops another timer's entry, which cancelPending misses.
Fire(t, s) ==
  /\ t \in timers
  /\ timers' = {IF u.tracked /\ u.gen = t.gen /\ u.key = path[t.file]
                  THEN [u EXCEPT !.tracked = FALSE] ELSE u : u \in timers \ {t}}
  /\ IF HasClient THEN Free(s) /\ ReindexOne(s, t.file, t.gen) ELSE UNCHANGED task
  /\ quiet' = FALSE
  /\ UNCHANGED <<vault, gen, store, cancel, run, disk, saver, flags, process, call,
                 server, budget, indexed>>

\* reindexOne goes on after cachedRead (which throws if the note is gone):
\* blank and unchanged notes are left alone, others are sent.
TaskRead(s) ==
  LET t == task[s]
      f == t.file
      skip == f \notin live \/ content[f] = Blank \/ store[t.gen][path[f]] = content[f]
  IN /\ t.pc = "read"
     /\ IF skip
          THEN task' = [task EXCEPT ![s] = NoTask] /\ UNCHANGED call
          ELSE /\ task' = [task EXCEPT ![s].pc = "remember", ![s].hash = content[f]]
               /\ Send(s, "remember", path[f], content[f], t.client)
     /\ quiet' = FALSE
     /\ UNCHANGED <<vault, gen, store, timers, cancel, run, disk, saver, flags, process,
                    server, budget, indexed>>

\* reindexOne goes on after remember: the entry is filed under file.path as
\* it is now, and the store is saved; an error is swallowed.
TaskRemembered(s) ==
  LET t == task[s]
  IN /\ t.pc = "remember" /\ Answered(s)
     /\ IF call[s].st = "ok"
          THEN /\ store' = [store EXCEPT ![t.gen][path[t.file]] = t.hash]
               /\ disk' = store'[t.gen] /\ saver' = t.gen
          ELSE UNCHANGED <<store, disk, saver>>
     /\ task' = [task EXCEPT ![s] = NoTask] /\ Return(s)
     /\ quiet' = FALSE
     /\ UNCHANGED <<vault, gen, timers, cancel, run, flags, process, server, budget, indexed>>

\* Mutant: a rename drops the old path and does not index the new one.
TaskForgotOnly(s) ==
  LET t == task[s]
  IN /\ t.pc = "forget" /\ Answered(s)
     /\ store' = [store EXCEPT ![t.gen][call[s].key] = None]
     /\ disk' = store'[t.gen] /\ saver' = t.gen
     /\ task' = [task EXCEPT ![s] = NoTask]
     /\ Return(s)
     /\ quiet' = FALSE
     /\ UNCHANGED <<vault, gen, timers, cancel, run, flags, process, server, budget, indexed>>

\* handleDelete goes on after forget, answered or failed: the entry is dropped
\* and the store saved.  A rename then re-indexes the note under its new path.
TaskForgot(s) ==
  LET t == task[s]
      again == t.file # None /\ path[t.file] \notin ignored /\ HasClient
  IN /\ t.pc = "forget" /\ Answered(s)
     /\ store' = [store EXCEPT ![t.gen][call[s].key] = None]
     /\ disk' = store'[t.gen] /\ saver' = t.gen
     /\ IF again THEN ReindexOne(s, t.file, t.gen)
                 ELSE task' = [task EXCEPT ![s] = NoTask]
     /\ Return(s)
     /\ quiet' = FALSE
     /\ UNCHANGED <<vault, gen, timers, cancel, run, flags, process, server, budget, indexed>>

----------------------------------------------------------------------------
(* The full index: reindex, doReindex, fullIndex, rememberWithRetry *)

Indexing == run.pc \in {"loop", "attempt", "wait"}
Present  == {f \in live : path[f] \notin ignored}
RunVars  == <<vault, gen, timers, task, process, server>>

\* reindex: refused while a run is under way (isIndexing, reindexInFlight).
Reindex(force) ==
  /\ gen # 0 /\ run.pc = "idle" /\ budget.runs > 0
  /\ budget' = [budget EXCEPT !.runs = @ - 1]
  /\ run' = [NoRun EXCEPT !.pc = "flag", !.force = force]
  /\ flag' = TRUE
  /\ UNCHANGED <<RunVars, store, cancel, disk, saver, flagDisk, call, quiet, indexed>>

\* Mutant: the flag is only set in memory before the run begins.
RunBeginUnsaved ==
  /\ run.pc = "flag" /\ HasClient
  /\ cancel' = FALSE
  /\ run' = [run EXCEPT !.pc = "loop", !.gen = gen, !.client = epoch,
               !.files = Present,
               !.gone = {p \in Paths : store[gen][p] # None} \ {path[f] : f \in Present}]
  /\ quiet' = \A s \in Slots : task[s].pc = "idle"
  /\ UNCHANGED <<RunVars, store, disk, saver, flags, call, budget, indexed>>

\* The flag is on disk; fullIndex begins on the Indexer that is current now.
RunBegin ==
  /\ run.pc = "flag" /\ HasClient
  /\ flagDisk' = flag /\ cancel' = FALSE
  /\ run' = [run EXCEPT !.pc = "loop", !.gen = gen, !.client = epoch,
               !.files = Present,
               !.gone = {p \in Paths : store[gen][p] # None} \ {path[f] : f \in Present}]
  /\ quiet' = \A s \in Slots : task[s].pc = "idle"
  /\ UNCHANGED <<RunVars, store, disk, saver, flag, call, budget, indexed>>

\* fullIndex has returned: doReindex settles the flag; only a run that ticked
\* its status (some note was begun) and did not complete leaves it set.
Finish(completed) ==
  /\ run' = [run EXCEPT !.pc = "unflag", !.completed = completed]
  /\ flag' = (~completed /\ run.doc # NoDoc)
  /\ cancel' = FALSE

\* client() is null: fullIndex returns false at once.
RunRefused ==
  /\ run.pc = "flag" /\ ~HasClient
  /\ flagDisk' = flag
  /\ Finish(FALSE)
  /\ UNCHANGED <<RunVars, store, disk, saver, call, quiet, budget, indexed>>

\* Deletions: tracked paths that are no longer in the vault.
RunForget(p) ==
  /\ run.pc = "loop" /\ call[Run] = NoCall /\ p \in run.gone
  /\ Send(Run, "forget", p, None, run.client)
  /\ UNCHANGED <<RunVars, store, cancel, run, disk, saver, flags, quiet, budget, indexed>>

RunForgot ==
  /\ run.pc = "loop" /\ Answered(Run)
  /\ store' = [store EXCEPT ![run.gen][call[Run].key] = None]
  /\ run' = [run EXCEPT !.gone = @ \ {call[Run].key}]
  /\ Return(Run)
  /\ UNCHANGED <<RunVars, cancel, disk, saver, flags, quiet, budget, indexed>>

Scanning == run.pc = "loop" /\ run.gone = {} /\ run.files # {}

\* Mutants: the gate asks only whether the path is known; it ignores force.
GateByPath(f) ==
  LET known == store[run.gen][path[f]] # None
  IN IF content[f] = Blank \/ (~run.force /\ known) THEN {}
     ELSE {[path |-> path[f], hash |-> content[f], forgetFirst |-> known]}

GateUnforced(f) ==
  IF content[f] = Blank \/ store[run.gen][path[f]] = content[f] THEN {}
  ELSE {[path |-> path[f], hash |-> content[f], forgetFirst |-> FALSE]}

\* The content-hash gate for one note
Gate(f) ==
  LET same == store[run.gen][path[f]] = content[f]
  IN IF content[f] = Blank \/ (~run.force /\ same) THEN {}
     ELSE {[path |-> path[f], hash |-> content[f], forgetFirst |-> same]}

RunRead(f) ==
  /\ Scanning /\ f \in run.files /\ f \in live
  /\ run' = [run EXCEPT !.files = @ \ {f}, !.docs = @ \cup Gate(f)]
  /\ UNCHANGED <<RunVars, store, cancel, disk, saver, flags, call, quiet, budget, indexed>>

\* cachedRead of a note deleted since the walk began throws out of fullIndex.
RunAborted(f) ==
  /\ Scanning /\ f \in run.files /\ f \notin live
  /\ Finish(FALSE)
  /\ UNCHANGED <<RunVars, store, disk, saver, flagDisk, call, quiet, budget, indexed>>

Sending == run.pc = "loop" /\ run.gone = {} /\ run.files = {}

\* Mutant: the loop does not look at the cancel flag, nor does the first try.
RunNoteAnyway(d) ==
  /\ Sending /\ d \in run.docs
  /\ run' = [run EXCEPT !.pc = "wait", !.doc = d, !.docs = @ \ {d}, !.attempt = 1]
  /\ Send(Run, "remember", d.path, d.hash, run.client)
  /\ UNCHANGED <<RunVars, store, cancel, disk, saver, flags, quiet, budget, indexed>>

\* The send loop takes its next note unless a stop was requested.
RunNote(d) ==
  /\ Sending /\ d \in run.docs /\ ~cancel
  /\ run' = [run EXCEPT !.pc = "attempt", !.doc = d, !.docs = @ \ {d}, !.attempt = 1]
  /\ UNCHANGED <<RunVars, store, cancel, disk, saver, flags, call, quiet, budget, indexed>>

\* One attempt of rememberWithRetry: a forced, unchanged note is forgotten
\* first, once.
RunAttempt ==
  /\ run.pc = "attempt" /\ ~cancel
  /\ run' = [run EXCEPT !.pc = "wait"]
  /\ IF run.doc.forgetFirst
       THEN Send(Run, "forget", run.doc.path, None, run.client)
       ELSE Send(Run, "remember", run.doc.path, run.doc.hash, run.client)
  /\ UNCHANGED <<RunVars, store, cancel, disk, saver, flags, quiet, budget, indexed>>

RunForgotFirst ==
  /\ run.pc = "wait" /\ Answered(Run) /\ call[Run].op = "forget"
  /\ run' = [run EXCEPT !.doc.forgetFirst = FALSE]
  /\ Send(Run, "remember", run.doc.path, run.doc.hash, run.client)
  /\ UNCHANGED <<RunVars, store, cancel, disk, saver, flags, quiet, budget, indexed>>

\* Mutant: the save comes one note late.
NoteDoneLateSave(failures) ==
  /\ run' = [run EXCEPT !.pc = "loop", !.done = @ + 1, !.failed = @ + failures]
  /\ IF (run.done + 1) % (SaveEvery + 1) = 0
       THEN disk' = store'[run.gen] /\ saver' = run.gen ELSE UNCHANGED <<disk, saver>>

\* done++, and a save every SaveEvery notes
NoteDone(failures) ==
  /\ run' = [run EXCEPT !.pc = "loop", !.done = @ + 1, !.failed = @ + failures]
  /\ IF (run.done + 1) % SaveEvery = 0
       THEN disk' = store'[run.gen] /\ saver' = run.gen ELSE UNCHANGED <<disk, saver>>

RunRemembered ==
  /\ run.pc = "wait" /\ call[Run].op = "remember" /\ call[Run].st = "ok"
  /\ store' = [store EXCEPT ![run.gen][run.doc.path] = run.doc.hash]
  /\ NoteDone(0)
  /\ Return(Run)
  /\ UNCHANGED <<RunVars, cancel, flags, quiet, budget, indexed>>

\* Mutant: the try is not counted.
RunRetryUncounted ==
  /\ run.pc = "wait" /\ call[Run].op = "remember" /\ call[Run].st = "err"
  /\ run.attempt < Retries
  /\ run' = [run EXCEPT !.pc = "attempt"]
  /\ Return(Run)
  /\ UNCHANGED <<RunVars, store, cancel, disk, saver, flags, quiet, budget, indexed>>

\* Back-off and waitForHealth, then another attempt with the same client.
RunRetry ==
  /\ run.pc = "wait" /\ call[Run].op = "remember" /\ call[Run].st = "err"
  /\ run.attempt < Retries
  /\ run' = [run EXCEPT !.pc = "attempt", !.attempt = @ + 1]
  /\ Return(Run)
  /\ UNCHANGED <<RunVars, store, cancel, disk, saver, flags, quiet, budget, indexed>>

\* Mutant: a note that was given up is recorded as indexed.
RunGaveUpRecorded ==
  /\ \/ /\ run.pc = "wait" /\ call[Run].op = "remember" /\ call[Run].st = "err"
        /\ run.attempt = Retries
     \/ run.pc = "attempt" /\ cancel
  /\ store' = [store EXCEPT ![run.gen][run.doc.path] = run.doc.hash]
  /\ NoteDone(1)
  /\ Return(Run)
  /\ UNCHANGED <<RunVars, cancel, flags, quiet, budget, indexed>>

\* The note is counted as failed: last try lost, or cancelled before a try.
RunGaveUp ==
  /\ \/ /\ run.pc = "wait" /\ call[Run].op = "remember" /\ call[Run].st = "err"
        /\ run.attempt = Retries
     \/ run.pc = "attempt" /\ cancel
  /\ UNCHANGED store
  /\ NoteDone(1)
  /\ Return(Run)
  /\ UNCHANGED <<RunVars, cancel, flags, quiet, budget, indexed>>

\* Nothing to send: completed, and the store is not saved.
RunNothing ==
  /\ Sending /\ run.docs = {} /\ run.done = 0
  /\ Finish(TRUE)
  /\ UNCHANGED <<RunVars, store, disk, saver, flagDisk, call, quiet, budget, indexed>>

\* The send loop is over: all notes tried, or stopped with notes left.
RunEnd ==
  /\ Sending
  /\ \/ run.docs = {} /\ run.done > 0
     \/ run.docs # {} /\ cancel
  /\ disk' = store[run.gen] /\ saver' = run.gen
  /\ Finish(run.docs = {})
  /\ UNCHANGED <<RunVars, store, flagDisk, call, quiet, budget, indexed>>

\* doReindex's last saveSettings
RunUnflag ==
  /\ run.pc = "unflag"
  /\ flagDisk' = flag
  /\ indexed' = (indexed \/ (run.completed /\ run.failed = 0 /\ quiet))
  /\ run' = NoRun
  /\ UNCHANGED <<RunVars, store, cancel, disk, saver, flag, call, quiet, budget>>

\* "Stop indexing": only a run of the current Indexer hears it.
Stop ==
  /\ Indexing /\ run.gen = gen /\ ~cancel
  /\ cancel' = TRUE
  /\ UNCHANGED <<RunVars, store, run, disk, saver, flags, call, quiet, budget, indexed>>

----------------------------------------------------------------------------
(* The backend under the Indexer, and Obsidian itself *)

\* The sidecar process ends: unanswered calls fail, answers may be lost.
Hangup ==
  /\ \E lost \in SUBSET {a \in Actors : call[a].st = "ok"} :
       call' = [a \in Actors |->
                  IF call[a].st = "sent" \/ a \in lost
                    THEN [call[a] EXCEPT !.st = "err"] ELSE call[a]]
  /\ indexed' = FALSE

SidecarCrash ==
  /\ backend = "up" /\ epoch < MaxEpochs
  /\ backend' = "crashed" /\ Hangup
  /\ UNCHANGED <<vault, gen, store, timers, cancel, task, run, disk, saver, flags, epoch,
                 server, quiet, budget>>

\* scheduleRestart: a new process, port, token and SidecarClient
SidecarRespawn ==
  /\ backend = "crashed" /\ epoch < MaxEpochs
  /\ backend' = "starting" /\ epoch' = epoch + 1
  /\ UNCHANGED <<vault, gen, store, timers, cancel, task, run, disk, saver, flags, call,
                 server, quiet, budget, indexed>>

SidecarReady ==
  /\ backend = "starting" /\ backend' = "up"
  /\ UNCHANGED <<vault, gen, store, timers, cancel, task, run, disk, saver, flags, epoch,
                 call, server, quiet, budget, indexed>>

\* restartBackend / runSetup: the manager is stopped and dropped.
ManagerStop ==
  /\ backend \in {"up", "crashed", "starting"} /\ epoch < MaxEpochs
  /\ backend' = "down" /\ Hangup
  /\ UNCHANGED <<vault, gen, store, timers, cancel, task, run, disk, saver, flags, epoch,
                 server, quiet, budget>>

\* doRunBackend spawns a sidecar; the old Indexer, if any, still listens.
Boot ==
  /\ backend = "down" /\ epoch < MaxEpochs
  /\ backend' = "booting" /\ epoch' = epoch + 1
  /\ UNCHANGED <<vault, gen, store, timers, cancel, task, run, disk, saver, flags, call,
                 server, quiet, budget, indexed>>

\* startIndexer: stopIndexer retires the old Indexer (stop, cancelPending,
\* flush), and a new one loads what is on disk.  Coroutines of the old one
\* that are under way go on, with the old store.
StartIndexer ==
  /\ backend = "booting" /\ backend' = "up"
  /\ gen' = epoch
  /\ cancel' = (cancel \/ Indexing)
  /\ timers' = {t \in timers : ~(t.tracked /\ t.gen = gen)}
  /\ disk' = IF gen = 0 THEN disk ELSE store[gen]
  /\ saver' = epoch
  /\ store' = [store EXCEPT ![epoch] = disk']
  /\ UNCHANGED <<vault, task, run, flags, epoch, call, server, quiet, budget, indexed>>

\* Obsidian quits (onunload flushes the store) or dies; memory is lost.  A
\* call that was sent may still take effect while the sidecar lives on.
Close(flush) ==
  /\ backend # "closed" /\ epoch < MaxEpochs
  /\ backend' = "closed"
  /\ disk' = IF flush /\ gen # 0 THEN store[gen] ELSE disk
  /\ gen' = 0 /\ saver' = 0 /\ timers' = {} /\ cancel' = FALSE /\ run' = NoRun
  /\ task' = [s \in Slots |-> NoTask]
  /\ store' = [g \in Gens |-> Empty]
  /\ call' = [a \in Actors |-> IF call[a].st = "sent" THEN call[a] ELSE NoCall]
  /\ quiet' = FALSE /\ indexed' = FALSE
  /\ UNCHANGED <<vault, flags, epoch, server, budget>>

\* Obsidian starts: settings are loaded, takeOverExisting kills what is left
\* of the previous sidecar, and a new one is spawned.
Open ==
  /\ backend = "closed" /\ epoch < MaxEpochs
  /\ backend' = "booting" /\ epoch' = epoch + 1
  /\ flag' = flagDisk
  /\ call' = [a \in Actors |-> NoCall]
  /\ UNCHANGED <<vault, gen, store, timers, cancel, task, run, disk, saver, flagDisk,
                 server, quiet, budget, indexed>>

----------------------------------------------------------------------------
(* A vault that has never been indexed, before the first boot *)
Init ==
  /\ live \in SUBSET Files
  /\ path \in {m \in [Files -> Paths \cup {None}] :
                 /\ \A f \in Files : m[f] # None <=> f \in live
                 /\ \A f, g \in live : m[f] = m[g] => f = g}
  /\ content \in {m \in [Files -> Contents \cup {Blank}] :
                    \A f \in Files \ live : m[f] = Blank}
  /\ ignored = {}
  /\ gen = 0 /\ store = [g \in Gens |-> Empty] /\ timers = {} /\ cancel = FALSE
  /\ task = [s \in Slots |-> NoTask] /\ run = NoRun
  /\ disk = Empty /\ flag = FALSE /\ flagDisk = FALSE
  /\ backend = "closed" /\ epoch = 0 /\ call = [a \in Actors |-> NoCall]
  /\ khora = Empty /\ acked = {} /\ quiet = FALSE /\ indexed = FALSE /\ saver = 0
  /\ budget \in Sessions

VaultStep ==
  \/ \E f \in Files, p \in Paths, c \in Contents \cup {Blank} : Create(f, p, c)
  \/ \E f \in Files, c \in Contents \cup {Blank} : Modify(f, c)
  \/ \E f \in Files, s \in Slots : Delete(f, s)
  \/ \E f \in Files, p \in Paths, s \in Slots : Rename(f, p, s)
  \/ \E p \in Paths : EditIgnore(p)

TaskStep(s) ==
  \/ \E t \in timers : Fire(t, s)
  \/ TaskRead(s) \/ TaskRemembered(s) \/ TaskForgot(s)

RunStep ==
  \/ RunBegin \/ RunRefused \/ RunForgot \/ RunAttempt \/ RunForgotFirst
  \/ RunRemembered \/ RunRetry \/ RunGaveUp \/ RunNothing \/ RunEnd \/ RunUnflag
  \/ \E p \in Paths : RunForget(p)
  \/ \E f \in Files : RunRead(f) \/ RunAborted(f)
  \/ \E d \in run.docs : RunNote(d)

ServerStep(a) == ServerApply(a) \/ ServerRefuse(a) \/ ServerFail(a)

BackendStep ==
  \/ SidecarCrash \/ SidecarRespawn \/ SidecarReady \/ ManagerStop \/ Boot
  \/ StartIndexer \/ Open \/ \E flush \in BOOLEAN : Close(flush)

Next ==
  \/ VaultStep \/ BackendStep \/ RunStep \/ Stop
  \/ \E s \in Slots : TaskStep(s)
  \/ \E force \in BOOLEAN : Reindex(force)
  \/ \E a \in Actors : ServerStep(a)

Spec == Init /\ [][Next]_vars

\* Coroutines go on once their await is resolved, timers fire, and a call is
\* answered or refused.  Nobody has to edit, stop, restart or close, and a
\* sidecar that died need not come back.
Fairness == /\ WF_vars(RunStep) /\ \A a \in Actors : WF_vars(ServerStep(a))
            /\ \A s \in Slots : WF_vars(TaskStep(s))

FairSpec == Spec /\ Fairness

----------------------------------------------------------------------------
(* Properties *)

\* The content-hash gate rests on this: an entry of the hash store, in memory
\* or in index-state.json, carries a text that Khora has accepted - whatever
\* calls failed, were retried or overtaken, and whatever was lost to a crash.
EntriesWereAcknowledged ==
  \A p \in Paths :
    /\ \A g \in Gens : store[g][p] # None => \E q \in Paths : <<q, store[g][p]>> \in acked
    /\ disk[p] # None => \E q \in Paths : <<q, disk[p]>> \in acked

\* A crash or quit in the middle of a run is found out at the next start:
\* the flag is on disk before fullIndex makes its first call and stays there
\* until the run is over.
RunIsFlaggedOnDisk == Indexing => flag /\ flagDisk

\* A full index that reports completion, had no failed note and ran while the
\* vault and its handlers were quiet leaves the store equal to the vault:
\* every note's text, and no entry for a path that is gone or ignored.
CompletedRunCoversVault ==
  run.pc = "unflag" /\ run.completed /\ run.failed = 0 /\ quiet =>
    /\ \A f \in Present : content[f] # Blank => store[run.gen][path[f]] = content[f]
    /\ \A p \in Paths : store[run.gen][p] # None => \E f \in Present : path[f] = p

\* "Re-index everything" repairs whatever earlier crashes, lost answers and
\* overtaken calls have left: after such a run Khora holds the text of every
\* note that is not blank.
ForcedRunHeals ==
  run.pc = "unflag" /\ run.completed /\ run.failed = 0 /\ quiet /\ run.force =>
    \A f \in Present : content[f] # Blank => khora[path[f]] = content[f]

\* "Stopping after the current note": once a stop is requested the only text
\* the run still sends is that of the note whose forget is already under way.
\* No other note is begun and no failed try is repeated.
StopsAfterCurrentNote ==
  [][cancel /\ cancel' /\ call'[Run] # call[Run]
       /\ call'[Run].op = "remember" /\ call'[Run].st = "sent"
     => call[Run].op = "forget" /\ call[Run].key = call'[Run].key]_vars

\* What is in the memory of the current Indexer and not in index-state.json
Unsaved == {p \in Paths : store[gen][p] # None /\ disk[p] # store[gen][p]}

\* Killing Obsidian at any moment costs at most SaveEvery - 1 notes of a run:
\* no more entries than that are in memory and not yet in index-state.json.
\* (saver: the Indexer that wrote the file last or was loaded from it.  When a
\* coroutine of a retired Indexer was the last to save, nothing is promised
\* until the current one saves again.)
LossIsBounded == gen # 0 /\ saver = gen => Cardinality(Unsaved) < SaveEvery

Quiescent ==
  /\ gen # 0 /\ timers = {} /\ run.pc = "idle"
  /\ \A a \in Actors : call[a] = NoCall
  /\ \A s \in Slots : task[s].pc = "idle"

\* What Khora should hold for a path (Blank: a note with nothing in it)
Wanted(p) == IF \E f \in Present : path[f] = p
               THEN content[CHOOSE f \in Present : path[f] = p] ELSE None

\* A vault that was indexed completely under the present ignore globs stays in
\* step: when every timer has fired and every handler is done, Khora holds
\* each note's text and nothing for an unused path, if no call failed.  (Two
\* exceptions: a note that was emptied keeps its old text, since reindexOne
\* returns before it sends anything; and the text of an ignored note may be
\* there, since a timer does not look at the globs again.)
StaysInStep ==
  budget.sound /\ indexed /\ Quiescent =>
    \A p \in Paths \ ignored : Wanted(p) \in {khora[p], Blank}

\* A run that was begun ends, whatever fails, crashes or is edited meanwhile.
RunEnds == (run.pc # "idle") ~> (run.pc = "idle")

----------------------------------------------------------------------------
(* What makes the proved properties inductive (module IndexerProofs) *)

\* A coroutine works on the store of an Indexer that was created, and a note
\* in the vault has a path.
WellFormed ==
  /\ \A f \in live : path[f] \in Paths
  /\ \A s \in Slots : task[s].pc # "idle" => task[s].gen \in Gens
  /\ Indexing => run.gen \in Gens
  /\ run.pc = "flag" => gen \in Gens
  /\ backend = "booting" => epoch \in Gens
  /\ \A a \in Actors :
       call[a].op = "remember" => call[a].key \in Paths /\ call[a].hash \in Contents
  /\ run.pc \in {"attempt", "wait"} => run.doc \in Doc

\* Nothing of the plugin survives in memory while Obsidian is closed.
ClosedIsEmpty ==
  backend = "closed" => gen = 0 /\ run.pc = "idle" /\ \A s \in Slots : task[s].pc = "idle"

\* A coroutine that waits for /remember waits for the text it will record, and
\* an "ok" it may see stands for a text that Khora accepted.
AnswersAreTrue ==
  /\ \A a \in Actors : call[a].op = "remember" /\ call[a].st = "ok"
                         => <<call[a].key, call[a].hash>> \in acked
  /\ \A s \in Slots : task[s].pc = "remember"
                         => call[s].op = "remember" /\ call[s].hash = task[s].hash
  /\ run.pc = "wait" /\ call[Run].op = "remember" => call[Run].hash = run.doc.hash
=============================================================================
