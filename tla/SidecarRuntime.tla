--------------------------- MODULE SidecarRuntime ---------------------------
(***************************************************************************)
(* The sidecar process: when it starts, serves, heals and ends.            *)
(*                                                                         *)
(*   __main__.py   boot, the idle and the parent watchdog, the lifespan    *)
(*   lifecycle.py  SidecarRuntime.start, stop, health, run_supervisor, the *)
(*                 count of requests in flight                             *)
(*   app.py        the middleware, streaming bodies, /shutdown             *)
(*   llama.py      LlamaServer.start, wait_ready, restart, stop            *)
(*                                                                         *)
(* One event loop: an action is what a coroutine does between two awaits.  *)
(* LlamaServer.restart runs in a worker thread and interleaves with it.    *)
(* Time is a flag: idle says that idle_seconds() is over the timeout.      *)
(* uvicorn is external: SIGTERM makes it refuse requests, wait for those   *)
(* under way, and then run the end of the lifespan.                        *)
(***************************************************************************)
EXTENDS Naturals, FiniteSets

CONSTANTS
  Reqs       \* requests that may be under way at once

ASSUME RuntimeAssumption == IsFiniteSet(Reqs)

Servers == {"chat", "embed"}
Stoppers == {"dog", "parent", "route", "lifespan"}  \* who may run stop()

VARIABLES
  status,    \* SidecarRuntime.status
  boot,      \* where boot() is
  llama,     \* the llama-server processes
  sup,       \* run_supervisor and its worker thread
  stopper,   \* where each stop() is
  server,    \* uvicorn
  req,       \* requests other than /health and /shutdown
  inflight,  \* _inflight
  idle,      \* idle_seconds() > idle_timeout
  slept,     \* the clock jumped during the watchdog's sleep
  parent,    \* Obsidian is there
  awake,     \* history: the timeout passed with the machine awake
  loose      \* history: a stop() was cancelled halfway, or a llama-server was
             \* started after one began

work == <<req, inflight>>
time == <<idle, slept, awake>>
vars == <<status, boot, llama, sup, stopper, server, work, time, parent, loose>>

Resting == [pc |-> "sleep", on |-> "chat", tries |-> 1, cancelled |-> FALSE]

TypeOK ==
  /\ status \in {"starting", "ok", "error", "stopping"}
  /\ boot \in {"start", "wait", "proxy", "connect", "over"}
  /\ llama \in [Servers -> {"none", "loading", "up", "down"}]
  /\ sup \in [pc : {"sleep", "check", "spawn", "wait", "off"}, on : Servers,
              tries : 1..2, cancelled : BOOLEAN]
  /\ stopper \in [Stoppers -> {"idle", "closing", "over"}]
  /\ server \in {"serving", "draining", "lifespan", "exited"}
  /\ req \in [Reqs -> {"idle", "handler", "headers", "body"}]
  /\ inflight \in Nat
  /\ idle \in BOOLEAN /\ slept \in BOOLEAN /\ awake \in BOOLEAN
  /\ parent \in BOOLEAN /\ loose \in BOOLEAN

Init ==
  /\ status = "starting" /\ boot = "start" /\ server = "serving"
  /\ llama = [s \in Servers |-> "none"]
  /\ sup = Resting
  /\ stopper = [a \in Stoppers |-> "idle"]
  /\ req = [r \in Reqs |-> "idle"] /\ inflight = 0
  /\ idle = FALSE /\ slept = FALSE /\ awake = FALSE
  /\ parent = TRUE /\ loose = FALSE

Running == server # "exited"
Alive(s) == llama[s] \in {"loading", "up"}

-----------------------------------------------------------------------------
(* boot() and SidecarRuntime.start()                                       *)

BootFails ==
  /\ status' = "error" /\ boot' = "over"

(* Both llama-servers are spawned; or a Popen raises.  There is no await before *)
(* this and boot() is the first task, so nothing else runs earlier.             *)
BootSpawn ==
  /\ boot = "start"
  /\ \/ /\ llama' = [s \in Servers |-> "loading"]
        /\ boot' = "wait" /\ UNCHANGED status
     \/ /\ llama' \in {llama, [llama EXCEPT !["chat"] = "loading"]}
        /\ BootFails
  /\ UNCHANGED <<sup, stopper, server, work, time, parent, loose>>

(* Both wait_ready return; or one raises, because its process has ended or     *)
(* its deadline passed.                                                        *)
BootWaited ==
  /\ boot = "wait"
  /\ \/ (\A s \in Servers : llama[s] = "up") /\ boot' = "proxy" /\ UNCHANGED status
     \/ (\E s \in Servers : llama[s] # "up") /\ BootFails
  /\ UNCHANGED <<llama, sup, stopper, server, work, time, parent, loose>>

(* _start_proxy. *)
BootProxy ==
  /\ boot = "proxy"
  /\ \/ boot' = "connect" /\ UNCHANGED status
     \/ BootFails
  /\ UNCHANGED <<llama, sup, stopper, server, work, time, parent, loose>>

(* Khora.connect and the namespace. *)
BootConnect ==
  /\ boot = "connect"
  /\ \/ boot' = "over" /\ status' = "ok"
     \/ BootFails
  /\ UNCHANGED <<llama, sup, stopper, server, work, time, parent, loose>>

-----------------------------------------------------------------------------
(* llama-server processes and their supervisor                             *)

LlamaReady(s) ==
  /\ llama[s] = "loading"
  /\ llama' = [llama EXCEPT ![s] = "up"]
  /\ UNCHANGED <<status, boot, sup, stopper, server, work, time, parent, loose>>

LlamaDies(s) ==
  /\ Alive(s) /\ Running
  /\ llama' = [llama EXCEPT ![s] = "down"]
  /\ UNCHANGED <<status, boot, sup, stopper, server, work, time, parent, loose>>

MutantSupNext ==  \* Mutant: every round begins, and ends, with chat
  IF sup.cancelled THEN [Resting EXCEPT !.pc = "off"] ELSE Resting

(* The loop goes from chat to embed and then sleeps; a cancelled one ends.     *)
SupNext ==
  IF sup.cancelled THEN [Resting EXCEPT !.pc = "off"]
  ELSE IF sup.on = "chat" THEN [Resting EXCEPT !.pc = "check", !.on = "embed"]
  ELSE Resting

SupRound ==
  /\ sup.pc = "sleep" /\ status = "ok"
  /\ sup' = [Resting EXCEPT !.pc = "check"]
  /\ UNCHANGED <<status, boot, llama, stopper, server, work, time, parent, loose>>

SupCheck ==
  /\ sup.pc = "check"
  /\ sup' = IF llama[sup.on] = "none" \/ Alive(sup.on) THEN SupNext
            ELSE [sup EXCEPT !.pc = "spawn"]
  /\ UNCHANGED <<status, boot, llama, stopper, server, work, time, parent, loose>>

(* The worker thread, LlamaServer.restart: stop what runs, spawn. *)
SupSpawn ==
  /\ sup.pc = "spawn"
  /\ llama' = [llama EXCEPT ![sup.on] = "loading"]
  /\ sup' = [sup EXCEPT !.pc = "wait"]
  /\ loose' = (loose \/ \E a \in Stoppers : stopper[a] # "idle")
  /\ UNCHANGED <<status, boot, stopper, server, work, time, parent>>

(* Popen raises: restart() has no second try for that. *)
SupSpawnFails ==
  /\ sup.pc = "spawn"
  /\ llama' = [llama EXCEPT ![sup.on] = "down"]
  /\ sup' = SupNext
  /\ status' = IF sup.cancelled THEN status ELSE "error"
  /\ UNCHANGED <<boot, stopper, server, work, time, parent, loose>>

(* wait_ready: up; or it raises, a first time (another try on a fresh port) or *)
(* a second time, and then status is latched if the supervisor still listens.  *)
SupReady ==
  /\ sup.pc = "wait" /\ llama[sup.on] = "up"
  /\ sup' = SupNext
  /\ UNCHANGED <<status, boot, llama, stopper, server, work, time, parent, loose>>

SupFails ==
  /\ sup.pc = "wait" /\ llama[sup.on] # "up"
  /\ IF sup.tries = 2
     THEN /\ sup' = SupNext
          /\ status' = IF sup.cancelled THEN status ELSE "error"
     ELSE sup' = [sup EXCEPT !.pc = "spawn", !.tries = @ + 1] /\ UNCHANGED status
  /\ UNCHANGED <<boot, llama, stopper, server, work, time, parent, loose>>

-----------------------------------------------------------------------------
(* Requests                                                                *)

Touch == idle' = FALSE /\ awake' = FALSE /\ UNCHANGED slept

(* The middleware before call_next; /health only touches. *)
Arrive(r) ==
  /\ server = "serving" /\ req[r] = "idle"
  /\ req' = [req EXCEPT ![r] = "handler"]
  /\ inflight' = inflight + 1
  /\ Touch
  /\ UNCHANGED <<status, boot, llama, sup, stopper, server, parent, loose>>

Heartbeat ==
  /\ server = "serving" /\ parent /\ idle
  /\ Touch
  /\ UNCHANGED <<status, boot, llama, sup, stopper, server, work, parent, loose>>

(* end_request. *)
Fewer(n) == IF n = 0 THEN 0 ELSE n - 1

(* The middleware after call_next: a plain answer is over, or the handler      *)
(* raised, or a streaming answer has its headers.                              *)
MutantAnswer(r) ==  \* Mutant: the activity clock is not set when a request ends
  /\ req[r] = "handler"
  /\ \E next \in {"idle", "headers"} : req' = [req EXCEPT ![r] = next]
  /\ inflight' = Fewer(inflight)
  /\ UNCHANGED <<status, boot, llama, sup, stopper, server, time, parent, loose>>

Answer(r) ==
  /\ req[r] = "handler"
  /\ \E next \in {"idle", "headers"} : req' = [req EXCEPT ![r] = next]
  /\ inflight' = Fewer(inflight)
  /\ Touch
  /\ UNCHANGED <<status, boot, llama, sup, stopper, server, parent, loose>>

(* The body generator runs; or the client has gone and it never does. *)
BodyBegin(r) ==
  /\ req[r] = "headers"
  /\ req' = [req EXCEPT ![r] = "body"]
  /\ inflight' = inflight + 1
  /\ UNCHANGED <<status, boot, llama, sup, stopper, server, time, parent, loose>>

MutantVanish(r) ==  \* Mutant: the guard is taken in the endpoint, not in the body
  /\ req[r] = "headers"
  /\ req' = [req EXCEPT ![r] = "idle"]
  /\ inflight' = inflight + 1
  /\ UNCHANGED <<status, boot, llama, sup, stopper, server, time, parent, loose>>

Vanish(r) ==
  /\ req[r] = "headers"
  /\ req' = [req EXCEPT ![r] = "idle"]
  /\ UNCHANGED <<status, boot, llama, sup, stopper, server, inflight, time, parent, loose>>

(* The generator ends, or is closed because the client has gone. *)
BodyEnd(r) ==
  /\ req[r] = "body"
  /\ req' = [req EXCEPT ![r] = "idle"]
  /\ inflight' = Fewer(inflight)
  /\ Touch
  /\ UNCHANGED <<status, boot, llama, sup, stopper, server, parent, loose>>

-----------------------------------------------------------------------------
(* Time                                                                    *)

(* idle_timeout passes, which only the watchdog looks at.  The gap between an  *)
(* answer's headers and its body is far shorter and follows a touch.           *)
IdleTimeout ==
  /\ stopper["dog"] = "idle" /\ \A r \in Reqs : req[r] # "headers"
  /\ idle' = TRUE /\ awake' = TRUE /\ UNCHANGED slept
  /\ UNCHANGED <<status, boot, llama, sup, stopper, server, work, parent, loose>>

(* The machine is suspended, and wakes. *)
Suspend ==
  /\ stopper["dog"] = "idle"
  /\ idle' = TRUE /\ slept' = TRUE /\ UNCHANGED awake
  /\ UNCHANGED <<status, boot, llama, sup, stopper, server, work, parent, loose>>

ParentExits ==
  /\ parent /\ Running
  /\ parent' = FALSE
  /\ UNCHANGED <<status, boot, llama, sup, stopper, server, work, time, loose>>

-----------------------------------------------------------------------------
(* SidecarRuntime.stop() and who runs it                                   *)

Begin(a) ==
  /\ status' = "stopping"
  /\ stopper' = [stopper EXCEPT ![a] = "closing"]

MutantJumped == FALSE  \* Mutant: a suspended machine counts as idle

(* watchdog(), after its sleep: the wall clock says that the machine slept. *)
Jumped == slept

DogForgives ==
  /\ stopper["dog"] = "idle" /\ Jumped
  /\ idle' = FALSE /\ awake' = FALSE /\ slept' = FALSE
  /\ UNCHANGED <<status, boot, llama, sup, stopper, server, work, parent, loose>>

DogBegins ==
  /\ stopper["dog"] = "idle" /\ server \in {"serving", "draining"}
  /\ ~Jumped /\ status = "ok" /\ inflight = 0 /\ idle
  /\ Begin("dog")
  /\ UNCHANGED <<boot, llama, sup, server, work, time, parent, loose>>

MutantParentBegins ==  \* Mutant: waits for the boot, as the idle watchdog does
  /\ stopper["parent"] = "idle" /\ server \in {"serving", "draining"} /\ ~parent
  /\ status = "ok"
  /\ Begin("parent")
  /\ UNCHANGED <<boot, llama, sup, server, work, time, parent, loose>>

(* parent_watchdog(), when getppid() has changed. *)
ParentBegins ==
  /\ stopper["parent"] = "idle" /\ server \in {"serving", "draining"} /\ ~parent
  /\ Begin("parent")
  /\ UNCHANGED <<boot, llama, sup, server, work, time, parent, loose>>

(* POST /shutdown, a request like any other to the middleware. *)
RouteBegins ==
  /\ stopper["route"] = "idle" /\ server = "serving" /\ parent
  /\ Begin("route")
  /\ inflight' = inflight + 1
  /\ Touch
  /\ UNCHANGED <<boot, llama, sup, server, req, parent, loose>>

(* Khora is disconnected and the proxy has ended (two awaits): LlamaServer.stop *)
(* of both, SIGTERM to this process; the route's request ends.                  *)
StopOver(a) ==
  /\ stopper[a] = "closing"
  /\ stopper' = [stopper EXCEPT ![a] = "over"]
  /\ llama' = [s \in Servers |-> IF Alive(s) THEN "down" ELSE llama[s]]
  /\ server' = IF server = "serving" THEN "draining" ELSE server
  /\ IF a = "route" THEN inflight' = Fewer(inflight) /\ Touch
     ELSE UNCHANGED <<inflight, time>>
  /\ UNCHANGED <<status, boot, sup, req, parent, loose>>

(* The plugin's SIGTERM, to the whole process group. *)
Sigterm ==
  /\ server = "serving" /\ parent
  /\ server' = "draining"
  /\ llama' = [s \in Servers |-> IF Alive(s) THEN "down" ELSE llama[s]]
  /\ UNCHANGED <<status, boot, sup, stopper, work, time, parent, loose>>

MutantMustStop == status = "ok"  \* Mutant: only a boot that succeeded is undone

MustStop == status # "stopping"

(* No request is left: the lifespan cancels the four tasks, a stop() in one of *)
(* them included, and stops the runtime unless somebody began to.              *)
LifespanEnds ==
  /\ server = "draining" /\ stopper["route"] # "closing"
  /\ \A r \in Reqs : req[r] = "idle"
  /\ server' = "lifespan"
  /\ boot' = "over"
  /\ sup' = IF sup.pc \in {"spawn", "wait"} THEN [sup EXCEPT !.cancelled = TRUE]
            ELSE [Resting EXCEPT !.pc = "off"]
  /\ loose' = (loose \/ stopper["dog"] = "closing" \/ stopper["parent"] = "closing")
  /\ status' = IF MustStop THEN "stopping" ELSE status
  /\ stopper' = [a \in Stoppers |->
       IF a = "lifespan" THEN IF MustStop THEN "closing" ELSE "over"
       ELSE IF a = "route" THEN stopper[a] ELSE "over"]
  /\ UNCHANGED <<llama, work, time, parent>>

(* The event loop ends and joins its worker threads. *)
Exit ==
  /\ server = "lifespan" /\ stopper["lifespan"] = "over" /\ sup.pc = "off"
  /\ server' = "exited"
  /\ UNCHANGED <<status, boot, llama, sup, stopper, work, time, parent, loose>>
-----------------------------------------------------------------------------
SupStep == SupRound \/ SupCheck \/ SupSpawn \/ SupSpawnFails \/ SupReady \/ SupFails
ReqStep(r) == Answer(r) \/ BodyBegin(r) \/ Vanish(r) \/ BodyEnd(r)
Loads(s) == llama[s] = "loading" /\ (LlamaReady(s) \/ LlamaDies(s))

Next ==
  \/ BootSpawn
  \/ /\ boot # "start"
     /\ \/ BootWaited \/ BootProxy \/ BootConnect
        \/ SupStep
        \/ \E s \in Servers : LlamaReady(s) \/ LlamaDies(s)
        \/ \E r \in Reqs : Arrive(r) \/ ReqStep(r)
        \/ Heartbeat \/ IdleTimeout \/ Suspend \/ ParentExits
        \/ DogForgives \/ DogBegins \/ ParentBegins \/ RouteBegins
        \/ \E a \in Stoppers : StopOver(a)
        \/ Sigterm \/ LifespanEnds \/ Exit

Spec == Init /\ [][Next]_vars

(* The event loop and the worker thread go on, a llama-server loads or ends,   *)
(* and a request is over some day (a client that went closes its answer).      *)
FairSpec ==
  /\ Spec
  /\ WF_vars(BootSpawn) /\ WF_vars(BootWaited) /\ WF_vars(SupStep)
  /\ \A s \in Servers : WF_vars(Loads(s))
  /\ \A r \in Reqs : WF_vars(ReqStep(r))
  /\ WF_vars(ParentBegins) /\ WF_vars(LifespanEnds) /\ WF_vars(Exit)
  /\ \A a \in Stoppers : WF_vars(StopOver(a))

-----------------------------------------------------------------------------
DogActs == stopper["dog"] = "idle" /\ stopper'["dog"] = "closing"

(* The idle watchdog does not stop the sidecar under a request, be it in its   *)
(* handler, streaming its body or between the two (__main__.py 78-84, app.py   *)
(* 52-65, 108-119).                                                            *)
IdleSparesRequests == [][DogActs => \A r \in Reqs : req[r] = "idle"]_vars

(* The idle watchdog acts on time the machine was awake, never on a suspension *)
(* (__main__.py 70-77).                                                        *)
SleepIsForgiven == [][DogActs => awake]_vars

(* _inflight is the number of requests being worked on: no end is lost and no  *)
(* begin without an end, whenever a client goes away (app.py 60-65, 109-119).  *)
InflightIsExact ==
  inflight = Cardinality({r \in Reqs : req[r] \in {"handler", "body"}})
             + IF stopper["route"] = "closing" THEN 1 ELSE 0

(* When the process has ended no llama-server is left, unless a stop() was cut *)
(* short or raced with a restart (__main__.py 86-100, lifecycle.py 142-159).   *)
ExitLeavesNothing == server = "exited" /\ ~loose => \A s \in Servers : ~Alive(s)

(* A llama-server that died is brought back, or /health tells for good that it *)
(* is not, or the sidecar ends (lifecycle.py 240-262).                         *)
SupervisorHeals ==
  \A s \in Servers : status = "ok" /\ llama[s] = "down" ~> llama[s] = "up" \/ status # "ok"

(* When Obsidian has gone, however it went, the sidecar ends too (__main__.py  *)
(* 45-60).                                                                     *)
FollowsItsParent == ~parent ~> server = "exited"
=============================================================================
