--------------------------- MODULE SidecarManager ---------------------------
(***************************************************************************)
(* How the plugin spawns, watches, restarts and stops the sidecar process. *)
(*                                                                         *)
(*   src/sidecar/manager.ts  start, takeOverExisting, awaitReady, the      *)
(*                           exit handler, scheduleRestart, stop, the lock *)
(*   main.ts                 runBackend (single flight), restartBackend,   *)
(*                           runSetup, deleteData, onunload                *)
(*                                                                         *)
(* A chain is a coroutine that is in start() or in the sleep of            *)
(* scheduleRestart(); an action is what it does between two awaits.  Every *)
(* boot makes a new SidecarManager, and the old one's handlers and chains  *)
(* live on.  Signals are POSIX ones (the Windows branches are left out),   *)
(* llama-server processes are part of the sidecar that started them, and   *)
(* times are left out: a sleep ends and a deadline passes at any moment.   *)
(* Slots are reused once nothing refers to them, so behaviours have no     *)
(* bound on their length.                                                  *)
(***************************************************************************)
EXTENDS Naturals, FiniteSets

CONSTANTS
  Procs,     \* process slots: ChildProcess objects with what they stand for
  Managers,  \* SidecarManager objects
  Chains,    \* start/restart coroutines that may be under way at once
  Stops,     \* calls of stop() that may be under way at once
  Backoffs,  \* RESTART_BACKOFF_MS.length (5 in the code)
  None

ASSUME ConstantsAssumption ==
  /\ Backoffs \in Nat
  /\ None \notin Procs /\ None \notin Managers

VARIABLES
  proc,      \* the processes
  mgr,       \* the managers' fields
  chain,     \* the coroutines
  stop,      \* the calls of stop()
  cur,       \* the plugin's this.manager
  due,       \* a boot that has not made its manager yet (bootPromise is set)
  lock,      \* the pid in uru-sidecar.lock, None if there is none
  open, unloaded  \* Obsidian runs; the plugin has been disabled

plugin == <<cur, due, open, unloaded>>
managerVars == <<proc, mgr, chain, stop, lock, plugin>>

(* History, which guards nothing: `unseen' marks a process that came up when   *)
(* another start() had already looked for sidecars; `crossed' a manager whose  *)
(* stop() was called while one of its start()s was on its way to the spawn;    *)
(* `gone' one of whose stop()s has returned.                                   *)
Fresh   == [stopped |-> FALSE, attempts |-> 0, proc |-> None, failed |-> FALSE,
            crossed |-> FALSE, gone |-> FALSE]
Idle    == [pc |-> "idle", mgr |-> None, boot |-> FALSE]
NoProc  == [st |-> "none", sig |-> FALSE, owner |-> None, unseen |-> FALSE]
NoStop  == [pc |-> "none", mgr |-> None, on |-> None, again |-> FALSE]

(* A process starts, is ok or in error, dies, and has exited once its 'exit'   *)
(* event was handled.  An unborn one is a spawn that failed: no event comes.   *)
ManagerTypeOK ==
  /\ proc \in [Procs -> [st : {"none", "starting", "ok", "error", "dead",
                               "exited", "unborn"},
                         sig : BOOLEAN, owner : Managers \cup {None},
                         unseen : BOOLEAN]]
  /\ mgr \in [Managers -> [stopped : BOOLEAN, attempts : 0..Backoffs,
                           proc : Procs \cup {None}, failed : BOOLEAN,
                           crossed : BOOLEAN, gone : BOOLEAN]]
  /\ chain \in [Chains -> [pc : {"idle", "sleep", "lock", "orphans", "port",
                                 "ready"},
                           mgr : Managers \cup {None}, boot : BOOLEAN]]
  /\ stop \in [Stops -> [pc : {"none", "waiting", "ending"},
                         mgr : Managers \cup {None}, on : Procs \cup {None},
                         again : BOOLEAN]]
  /\ cur \in Managers \cup {None} /\ lock \in Procs \cup {None}
  /\ due \in BOOLEAN /\ open \in BOOLEAN /\ unloaded \in BOOLEAN

ManagerInit ==
  /\ proc = [p \in Procs |-> NoProc]
  /\ mgr = [m \in Managers |-> Fresh]
  /\ chain = [c \in Chains |-> Idle]
  /\ stop = [s \in Stops |-> NoStop]
  /\ cur = None /\ due = TRUE /\ lock = None
  /\ open = TRUE /\ unloaded = FALSE

-----------------------------------------------------------------------------
(* Processes                                                               *)

Runs(p) == proc[p].st \in {"starting", "ok", "error"}

(* ChildProcess.exitCode is a number: it stays null for a process that runs,  *)
(* and for one that a signal ended (Node sets signalCode instead).            *)
HasExitCode(p) == proc[p].st \in {"exited", "unborn"} /\ ~proc[p].sig

(* What is left of p when it ends: a process of an earlier session has no      *)
(* handlers, so nothing more is heard of it.                                   *)
Ended(p, sig) ==
  IF proc[p].owner = None THEN NoProc
  ELSE [proc[p] EXCEPT !.st = "dead", !.sig = sig]

(* killTree(pid, "SIGKILL") of every process in P. *)
Killed(P) == [p \in Procs |-> IF p \in P /\ Runs(p) THEN Ended(p, TRUE)
                              ELSE proc[p]]

(* The processes pr, when the manager that had q as its process lets go of it: *)
(* the slot of one that is over is free again.                                 *)
Released(pr, q) ==
  IF q # None /\ pr[q].st \in {"exited", "unborn"}
  THEN [pr EXCEPT ![q] = NoProc] ELSE pr

FreeManager(m) ==
  /\ m # cur
  /\ \A s \in Stops : stop[s].mgr # m
  /\ \A c \in Chains : chain[c].mgr # m
  /\ \A p \in Procs : proc[p].owner = m => ~Runs(p) /\ proc[p].st # "dead"

(* Startup of a sidecar, a failure it reports, and death: its own, the idle    *)
(* watchdog's, a signal's (killGroup sends SIGTERM, and SIGKILL 4 s later).     *)
BecomesOk(p) ==
  /\ proc[p].st = "starting"
  /\ proc' = [proc EXCEPT ![p].st = "ok"]
  /\ UNCHANGED <<mgr, chain, stop, lock, plugin>>

BecomesError(p) ==
  /\ proc[p].st = "starting"
  /\ proc' = [proc EXCEPT ![p].st = "error"]
  /\ UNCHANGED <<mgr, chain, stop, lock, plugin>>

Dies(p) ==
  /\ Runs(p)
  /\ \E sig \in BOOLEAN : proc' = [proc EXCEPT ![p] = Ended(p, sig)]
  /\ UNCHANGED <<mgr, chain, stop, lock, plugin>>

-----------------------------------------------------------------------------
(* start()                                                                 *)

(* Between the first step of start() and its spawn: a ps, a pgrep and a port   *)
(* probe.  Another start(), or a stop(), may come in between.                  *)
InStart(c) == chain[c].pc \in {"lock", "orphans", "port"}

Goto(c, pc) == chain' = [chain EXCEPT ![c].pc = pc]

(* takeOverExisting, the lock file: the process it names dies if its command   *)
(* line is ours; the lock is removed.                                          *)
TakeLock(c) ==
  /\ chain[c].pc = "lock"
  /\ proc' = Killed({lock}) /\ lock' = None
  /\ Goto(c, "orphans")
  /\ UNCHANGED <<mgr, stop, plugin>>

MutantOrphans == {}  \* Mutant: only the lock is believed

(* findOrphans, verified by looksLikeOurs: the sidecars on this database. *)
Orphans == {p \in Procs : Runs(p)}

(* takeOverExisting, findOrphans: every sidecar on this database dies.  Then   *)
(* start() takes back stoppedByUs and spawnError.                              *)
TakeOrphans(c) ==
  LET m == chain[c].mgr IN
  /\ chain[c].pc = "orphans"
  /\ proc' = Killed(Orphans)
  /\ mgr' = [mgr EXCEPT ![m].stopped = FALSE, ![m].failed = FALSE]
  /\ Goto(c, "port")
  /\ UNCHANGED <<stop, lock, plugin>>

(* Another start() has looked for sidecars, and will spawn without a new look. *)
Overlaps(c) == \E d \in Chains \ {c} : chain[d].pc = "port"

Spawn(c, p) ==
  LET m    == chain[c].mgr
      left == Released(proc, mgr[m].proc) IN
  /\ chain[c].pc = "port" /\ left[p].st = "none"
  /\ proc' = [left EXCEPT ![p] =
                [st |-> "starting", sig |-> FALSE, owner |-> m,
                 unseen |-> Overlaps(c)]]
  /\ mgr' = [mgr EXCEPT ![m].proc = p]
  /\ lock' = p
  /\ Goto(c, "ready")
  /\ UNCHANGED <<stop, plugin>>

(* The spawn fails and an 'error' event comes: no pid, a lock without one.     *)
(* Whether exitCode stays null, as the comments expect, is left open.          *)
SpawnFails(c, p) ==
  LET m    == chain[c].mgr
      left == Released(proc, mgr[m].proc) IN
  /\ chain[c].pc = "port" /\ left[p].st = "none"
  /\ \E sig \in BOOLEAN :
       proc' = [left EXCEPT ![p] =
                  [st |-> "unborn", sig |-> sig, owner |-> m,
                   unseen |-> FALSE]]
  /\ mgr' = [mgr EXCEPT ![m].proc = p, ![m].failed = TRUE]
  /\ lock' = None
  /\ Goto(c, "ready")
  /\ UNCHANGED <<stop, plugin>>

-----------------------------------------------------------------------------
(* awaitReady(), scheduleRestart(), the exit handler                       *)

(* scheduleRestart() up to its sleep, run by chain c on the managers mm: the   *)
(* next delay, or none is left and the manager gives up.                       *)
Schedule(c, m, mm) ==
  IF mm[m].attempts < Backoffs
  THEN /\ mgr' = [mm EXCEPT ![m].attempts = @ + 1]
       /\ chain' = [chain EXCEPT ![c] =
                      [pc |-> "sleep", mgr |-> m, boot |-> FALSE]]
  ELSE /\ mgr' = mm
       /\ chain' = [chain EXCEPT ![c] = Idle]

(* The sleep is over. *)
MutantWake(c) ==  \* Mutant: stoppedByUs is not looked at after the sleep
  /\ chain[c].pc = "sleep"
  /\ Goto(c, "lock")
  /\ UNCHANGED <<proc, mgr, stop, lock, plugin>>

Wake(c) ==
  /\ chain[c].pc = "sleep"
  /\ IF mgr[chain[c].mgr].stopped THEN chain' = [chain EXCEPT ![c] = Idle]
                                  ELSE Goto(c, "lock")
  /\ UNCHANGED <<proc, mgr, stop, lock, plugin>>

(* stop() up to its wait for the process' exit, or for the answer of           *)
(* /shutdown if exitCode says that the process has gone.  The wait is for ever *)
(* if the 'exit' event has come already, or never comes.                       *)
BeginStop(s, m, mm, again) ==
  LET p == mm[m].proc
      running == p # None /\ ~HasExitCode(p)
      heard   == running /\ proc[p].st \notin {"exited", "unborn"} IN
  /\ stop[s].pc = "none"
  /\ mgr' = [mm EXCEPT ![m].stopped = TRUE,
               ![m].crossed = @ \/ \E c \in Chains : chain[c].mgr = m /\ InStart(c)]
  /\ stop' = [stop EXCEPT ![s] = [pc |-> IF running THEN "waiting" ELSE "ending",
                 mgr |-> m, on |-> IF heard THEN p ELSE None, again |-> again]]

(* /health of the manager's process, as awaitReady asks for it. *)
AnswersOk(m) ==
  ~mgr[m].failed /\ mgr[m].proc # None /\ proc[mgr[m].proc].st = "ok"

(* /health says ok.  A boot whose plugin was disabled meanwhile stops it.      *)
ReadyOk(c) ==
  LET m     == chain[c].mgr
      ready == [mgr EXCEPT ![m].attempts = 0] IN
  /\ chain[c].pc = "ready" /\ AnswersOk(m)
  /\ chain' = [chain EXCEPT ![c] = Idle]
  /\ IF chain[c].boot /\ unloaded
     THEN \E s \in Stops : BeginStop(s, m, ready, FALSE)
     ELSE mgr' = ready /\ UNCHANGED stop
  /\ UNCHANGED <<proc, lock, plugin>>

(* awaitReady throws: the spawn failed, there is no process, it has an exit    *)
(* code, it says error, or the deadline passes.  start() stops what still      *)
(* runs; a restart goes on to the next one, a boot reports the error.          *)
ReadyThrows(c) ==
  LET m    == chain[c].mgr
      p    == mgr[m].proc
      running == p # None /\ ~HasExitCode(p)
      mm   == IF running THEN [mgr EXCEPT ![m].stopped = TRUE] ELSE mgr IN
  /\ chain[c].pc = "ready" /\ ~AnswersOk(m)
  /\ IF chain[c].boot THEN mgr' = mm /\ chain' = [chain EXCEPT ![c] = Idle]
     ELSE Schedule(c, m, mm)
  /\ UNCHANGED <<proc, stop, lock, plugin>>

(* The 'exit' event of p: the lock goes, a stop() waiting for it goes on, and  *)
(* a death nobody asked for is followed by a restart.                          *)
MutantExitEvent(p, c) ==  \* Mutant: a start under way is trusted to restart
  LET m == proc[p].owner IN
  /\ proc[p].st = "dead" /\ chain[c].pc = "idle"
  /\ proc' = [proc EXCEPT ![p] = IF mgr[m].proc = p
                 THEN [@ EXCEPT !.st = "exited"] ELSE NoProc]
  /\ lock' = None
  /\ stop' = [s \in Stops |-> IF stop[s].on = p
                  THEN [stop[s] EXCEPT !.pc = "ending", !.on = None] ELSE stop[s]]
  /\ IF mgr[m].stopped \/ \E d \in Chains : chain[d].mgr = m
     THEN UNCHANGED <<mgr, chain>> ELSE Schedule(c, m, mgr)
  /\ UNCHANGED plugin

ExitEvent(p, c) ==
  LET m == proc[p].owner IN
  /\ proc[p].st = "dead" /\ chain[c].pc = "idle"
  /\ proc' = [proc EXCEPT ![p] = IF mgr[m].proc = p
                 THEN [@ EXCEPT !.st = "exited"] ELSE NoProc]
  /\ lock' = None
  /\ stop' = [s \in Stops |-> IF stop[s].on = p
                  THEN [stop[s] EXCEPT !.pc = "ending", !.on = None] ELSE stop[s]]
  /\ IF mgr[m].stopped THEN UNCHANGED <<mgr, chain>> ELSE Schedule(c, m, mgr)
  /\ UNCHANGED plugin

-----------------------------------------------------------------------------
(* The plugin                                                              *)

(* bootPromise is set: runBackend joins the boot that is under way. *)
Booting == due \/ \E c \in Chains : chain[c].boot

(* stop() returns; restartBackend boots again, runSetup and deleteData do not. *)
StopEnd(s) ==
  LET m == stop[s].mgr IN
  /\ stop[s].pc = "ending"
  /\ stop' = [stop EXCEPT ![s] = NoStop]
  /\ mgr' = [mgr EXCEPT ![m].proc = None, ![m].gone = TRUE]
  /\ proc' = Released(proc, mgr[m].proc)
  /\ lock' = None
  /\ cur' = IF unloaded THEN cur ELSE None
  /\ due' = (due \/ (stop[s].again /\ ~unloaded /\ ~Booting))
  /\ UNCHANGED <<chain, open, unloaded>>

(* runBackend, from restartBackend without a manager or from the set-up dialog *)
(* (with or without one).                                                      *)
RunBackend ==
  /\ open /\ ~unloaded /\ ~Booting
  /\ due' = TRUE
  /\ UNCHANGED <<proc, mgr, chain, stop, lock, cur, open, unloaded>>

(* ensureBackend is done: a new manager, and its start(). *)
Boot(c, m) ==
  /\ due /\ ~unloaded
  /\ chain[c].pc = "idle" /\ FreeManager(m)
  /\ due' = FALSE /\ cur' = m
  /\ mgr' = [mgr EXCEPT ![m] = Fresh]
  /\ proc' = Released(proc, mgr[m].proc)
  /\ chain' = [chain EXCEPT ![c] = [pc |-> "lock", mgr |-> m, boot |-> TRUE]]
  /\ UNCHANGED <<stop, lock, open, unloaded>>

(* The plugin was disabled during ensureBackend. *)
BootDropped ==
  /\ due /\ unloaded
  /\ due' = FALSE
  /\ UNCHANGED <<proc, mgr, chain, stop, lock, cur, open, unloaded>>

(* restartBackend (which boots again), runSetup and deleteData, with a manager. *)
Stop(s, again) ==
  /\ open /\ ~unloaded /\ ~Booting /\ cur # None
  /\ BeginStop(s, cur, mgr, again)
  /\ UNCHANGED <<proc, chain, lock, plugin>>

Unload ==
  /\ open /\ ~unloaded
  /\ unloaded' = TRUE
  /\ IF cur # None THEN \E s \in Stops : BeginStop(s, cur, mgr, FALSE)
     ELSE UNCHANGED <<mgr, stop>>
  /\ UNCHANGED <<proc, chain, lock, cur, due, open>>

(* Obsidian ends, by a quit or by a crash: its coroutines are gone, the lock   *)
(* and the processes stay.                                                     *)
Close ==
  /\ open
  /\ open' = FALSE /\ unloaded' = FALSE /\ cur' = None /\ due' = FALSE
  /\ proc' = [p \in Procs |-> IF Runs(p) THEN [proc[p] EXCEPT !.owner = None]
                              ELSE NoProc]
  /\ lock' = IF lock # None /\ Runs(lock) THEN lock ELSE None
  /\ mgr' = [m \in Managers |-> Fresh]
  /\ chain' = [c \in Chains |-> Idle]
  /\ stop' = [s \in Stops |-> NoStop]

Open ==
  /\ ~open
  /\ open' = TRUE /\ due' = TRUE
  /\ UNCHANGED <<proc, mgr, chain, stop, lock, cur, unloaded>>

-----------------------------------------------------------------------------
ChainStep(c) ==
  \/ Wake(c) \/ TakeLock(c) \/ TakeOrphans(c)
  \/ \E p \in Procs : Spawn(c, p) \/ SpawnFails(c, p)
  \/ ReadyOk(c) \/ ReadyThrows(c)

ManagerNext ==
  \/ \E c \in Chains : ChainStep(c)
  \/ \E p \in Procs : BecomesOk(p) \/ BecomesError(p) \/ Dies(p)
                      \/ \E c \in Chains : ExitEvent(p, c)
  \/ \E s \in Stops : StopEnd(s) \/ Stop(s, TRUE) \/ Stop(s, FALSE)
  \/ \E m \in Managers, c \in Chains : Boot(c, m)
  \/ RunBackend \/ BootDropped \/ Unload \/ Close \/ Open

ManagerSpec == ManagerInit /\ [][ManagerNext]_managerVars

-----------------------------------------------------------------------------
(* Two sidecars run on one database only if two starts overlapped, and the one *)
(* that came up first did so when the other had looked already: a start kills  *)
(* what it finds before it spawns, whatever became of the lock and of earlier  *)
(* sessions (manager.ts 260-285).                                              *)
OneSidecar ==
  \A p, q \in Procs : Runs(p) /\ Runs(q) /\ p # q =>
    proc[p].unseen \/ proc[q].unseen

(* Once a stop() has returned, nothing its manager started runs, now or later: *)
(* a restart that was asleep does not wake up to spawn (manager.ts 380,        *)
(* 389-427).  What is excepted: a stop() called while a start() of this manager *)
(* was on its way to the spawn, which takes stoppedByUs back (manager.ts 89),  *)
(* and a sidecar that overlapping starts left to nobody.                       *)
StoppedIsGone ==
  \A p \in Procs : Runs(p) /\ proc[p].owner # None =>
    LET m == mgr[proc[p].owner] IN m.gone => m.crossed \/ proc[p].unseen

(* A sidecar that died and that nobody stopped is being replaced, or its       *)
(* manager has used up its restarts (manager.ts 330-346, 372-386).             *)
NeverSilentlyDown ==
  \A m \in Managers :
    /\ mgr[m].proc # None /\ proc[mgr[m].proc].st = "exited" /\ ~mgr[m].stopped
    => mgr[m].attempts = Backoffs \/ \E c \in Chains : chain[c].mgr = m
=============================================================================
