---------------------------- MODULE SidecarProofs ----------------------------
(***************************************************************************)
(* The sidecar, from inside and from outside.                              *)
(*                                                                         *)
(* SidecarRuntime, for any finite set of requests: the count of requests   *)
(* in flight is the number of requests being worked on, the idle watchdog  *)
(* stops the sidecar under none of them and never because the machine      *)
(* slept, and a process that has ended leaves no llama-server unless a     *)
(* stop() was cut short or raced with a restart.                           *)
(*                                                                         *)
(* SidecarManager, for any sets of processes, managers and coroutines and  *)
(* any number of backoffs: a sidecar that dies is replaced or given up     *)
(* after all its restarts, and, when nothing comes between the steps of a  *)
(* start(), two never run at once and none runs after a stop().            *)
(***************************************************************************)
EXTENDS SidecarRuntime, SidecarManager, FiniteSetTheorems, TLAPS

\* Nothing but boot() has run before boot() has spawned.
BootIsFirst ==
  boot = "start" => server = "serving" /\ \A a \in Stoppers : stopper[a] = "idle"

\* Until the lifespan ends its own stop() has not begun, status says
\* "stopping" only when somebody's has, and when one is over both llama-servers
\* are gone, or the stop was raced with.
BeforeTheEnd ==
  server \in {"serving", "draining"} =>
    /\ stopper["lifespan"] = "idle"
    /\ status = "stopping" => \E a \in Stoppers : stopper[a] # "idle"
    /\ ~loose /\ (\E a \in Stoppers : stopper[a] = "over") => \A s \in Servers : ~Alive(s)

\* From then on boot() is over, the lifespan's stop() has begun, the others are
\* over or never began, and when the lifespan's is over too nothing is left.
AfterTheEnd ==
  server \in {"lifespan", "exited"} =>
    /\ boot = "over"
    /\ stopper["lifespan"] # "idle"
    /\ \A a \in {"dog", "parent"} : stopper[a] = "over"
    /\ stopper["route"] # "closing"
    /\ server = "exited" => stopper["lifespan"] = "over"
    /\ ~loose /\ stopper["lifespan"] = "over" => \A s \in Servers : ~Alive(s)

\* The states of the supervisor.
SupStates == [pc : {"sleep", "check", "spawn", "wait", "off"}, on : Servers,
              tries : 1..2, cancelled : BOOLEAN]

\* The types of everything but the flags, and those of the flags.
Shape ==
  /\ status \in {"starting", "ok", "error", "stopping"}
  /\ boot \in {"start", "wait", "proxy", "connect", "over"}
  /\ llama \in [Servers -> {"none", "loading", "up", "down"}]
  /\ sup \in SupStates
  /\ stopper \in [Stoppers -> {"idle", "closing", "over"}]
  /\ server \in {"serving", "draining", "lifespan", "exited"}
  /\ req \in [Reqs -> {"idle", "handler", "headers", "body"}]
  /\ inflight \in Nat

Flags == /\ idle \in BOOLEAN /\ slept \in BOOLEAN /\ awake \in BOOLEAN
         /\ parent \in BOOLEAN /\ loose \in BOOLEAN

EndInv == Shape /\ BootIsFirst /\ BeforeTheEnd /\ AfterTheEnd

\* The timeout that the watchdog may act on passed with the machine awake and
\* no answer between its headers and its body.
IdleIsHonest == idle /\ ~slept => awake /\ \A r \in Reqs : req[r] # "headers"

WorkInv == Shape /\ InflightIsExact /\ IdleIsHonest

-------------------------------------------------------------------------------
(* The end of the process                                                  *)

\* The supervisor's first state.
LEMMA RestingType == Resting \in SupStates
<1>1. 1 \in 1..2 /\ "chat" \in Servers
  BY DEF Servers
<1>2. QED
  BY <1>1, Zenon DEF Resting, SupStates

\* What the supervisor goes on to is one of its states.
LEMMA SupNextType ==
  ASSUME Shape
  PROVE  /\ SupNext \in SupStates
         /\ Resting \in SupStates
         /\ [Resting EXCEPT !.pc = "off"] \in SupStates
         /\ [Resting EXCEPT !.pc = "check"] \in SupStates
<1>1. 1 \in 1..2 /\ "chat" \in Servers /\ "embed" \in Servers
  BY DEF Servers
<1>2. Resting \in SupStates
  BY RestingType
<1>3. \A x \in SupStates, pc \in {"check", "off"}, on \in Servers :
        [x EXCEPT !.pc = pc] \in SupStates /\ [x EXCEPT !.pc = pc, !.on = on] \in SupStates
  BY DEF SupStates
<1>4. QED
  BY <1>1, <1>2, <1>3 DEF SupNext

\* The steps of boot() keep what leads to the end.
LEMMA BootEnd ==
  ASSUME EndInv, BootSpawn \/ (boot # "start" /\ (BootWaited \/ BootProxy \/ BootConnect))
  PROVE  EndInv'
<1>1. CASE BootSpawn
  <2>1. Shape'
    BY <1>1 DEF EndInv, Shape, BootSpawn, BootFails, work, time, Servers
  <2>2. QED
    BY <1>1, <2>1 DEF EndInv, BootIsFirst, BeforeTheEnd, AfterTheEnd, BootSpawn, BootFails,
                      Alive, Stoppers
<1>2. CASE boot # "start" /\ (BootWaited \/ BootProxy \/ BootConnect)
  <2>1. Shape'
    BY <1>2 DEF EndInv, Shape, BootWaited, BootProxy, BootConnect, BootFails, work, time
  <2>2. QED
    BY <1>2, <2>1 DEF EndInv, BootIsFirst, BeforeTheEnd, AfterTheEnd, BootWaited, BootProxy,
                      BootConnect, BootFails, Alive
<1>3. QED
  BY <1>1, <1>2

\* The supervisor spawns only before any stop() has begun, or sets loose.
LEMMA SupEnd ==
  ASSUME EndInv, boot # "start", SupStep
  PROVE  EndInv'
<1>1. Shape'
  <2>1. CASE SupRound
    BY <2>1, SupNextType DEF EndInv, Shape, SupRound, work, time
  <2>2. CASE SupCheck \/ SupReady
    <3>1. [sup EXCEPT !.pc = "spawn"] \in SupStates
      BY DEF EndInv, Shape, SupStates
    <3>2. QED
      BY <2>2, <3>1, SupNextType DEF EndInv, Shape, SupCheck, SupReady, work, time
  <2>3. CASE SupSpawn
    BY <2>3 DEF EndInv, Shape, SupSpawn, work, time, SupStates
  <2>4. CASE SupSpawnFails
    BY <2>4, SupNextType DEF EndInv, Shape, SupSpawnFails, work, time
  <2>5. CASE SupFails
    <3>1. sup.tries # 2 => sup.tries + 1 \in 1..2
      BY DEF EndInv, Shape, SupStates
    <3>2. sup' \in SupStates
      <4>1. CASE sup.tries = 2
        BY <2>5, <4>1, SupNextType DEF EndInv, SupFails
      <4>2. CASE sup.tries # 2
        BY <2>5, <3>1, <4>2 DEF EndInv, Shape, SupFails, SupStates
      <4>3. QED
        BY <4>1, <4>2
    <3>3. QED
      BY <2>5, <3>2 DEF EndInv, Shape, SupFails, work, time
  <2>6. QED
    BY <2>1, <2>2, <2>3, <2>4, <2>5 DEF SupStep
<1>2. CASE SupSpawn
  BY <1>1, <1>2 DEF EndInv, Shape, BootIsFirst, BeforeTheEnd, AfterTheEnd, SupSpawn, Alive,
                    Stoppers
<1>3. CASE SupRound \/ SupCheck \/ SupReady \/ SupSpawnFails \/ SupFails
  BY <1>1, <1>3 DEF EndInv, Shape, BootIsFirst, BeforeTheEnd, AfterTheEnd, SupRound, SupCheck,
                    SupReady, SupSpawnFails, SupFails, Alive
<1>4. QED
  BY <1>2, <1>3 DEF SupStep

\* A llama-server gets ready or dies.
LEMMA LlamaEnd ==
  ASSUME EndInv, boot # "start", NEW s \in Servers, LlamaReady(s) \/ LlamaDies(s)
  PROVE  EndInv'
<1>1. Shape'
  BY DEF EndInv, Shape, LlamaReady, LlamaDies, work, time
<1>2. \A x \in Servers : Alive(x)' => Alive(x)
  BY DEF EndInv, Shape, LlamaReady, LlamaDies, Alive
<1>3. QED
  BY <1>1, <1>2 DEF EndInv, BootIsFirst, BeforeTheEnd, AfterTheEnd, LlamaReady, LlamaDies

\* The steps of requests and of time touch neither the processes nor the stops.
LEMMA QuietEnd ==
  ASSUME EndInv, Shape', UNCHANGED <<status, boot, llama, stopper, server, loose>>
  PROVE  EndInv'
BY DEF EndInv, BootIsFirst, BeforeTheEnd, AfterTheEnd, Alive

\* The steps of requests keep the types.
LEMMA ReqType ==
  ASSUME Shape, NEW r \in Reqs, Arrive(r) \/ ReqStep(r)
  PROVE  Shape' /\ UNCHANGED <<status, boot, llama, stopper, server, loose>>
<1>1. Fewer(inflight) \in Nat /\ inflight + 1 \in Nat
  BY DEF Fewer, Shape
<1>2. QED
  BY <1>1 DEF Shape, Arrive, ReqStep, Answer, BodyBegin, Vanish, BodyEnd, Touch, time

\* The steps of time keep the types.
LEMMA TimeType ==
  ASSUME Shape, Heartbeat \/ IdleTimeout \/ Suspend \/ ParentExits \/ DogForgives
  PROVE  Shape' /\ UNCHANGED <<status, boot, llama, stopper, server, loose, work>>
BY DEF Shape, Heartbeat, IdleTimeout, Suspend, ParentExits, DogForgives, Touch, work, time

\* A stop() begins.
LEMMA BeginEnd ==
  ASSUME EndInv, boot # "start", DogBegins \/ ParentBegins \/ RouteBegins
  PROVE  EndInv'
<1>1. PICK a \in {"dog", "parent", "route"} :
        Begin(a) /\ stopper[a] = "idle" /\ server \in {"serving", "draining"}
  BY DEF DogBegins, ParentBegins, RouteBegins
<1>2. /\ UNCHANGED <<boot, llama, sup, server, parent, loose, req>>
      /\ inflight' \in Nat
  BY DEF EndInv, Shape, DogBegins, ParentBegins, RouteBegins, Touch, work, time
<1>3. Shape'
  BY <1>1, <1>2 DEF EndInv, Shape, Begin, Stoppers
<1>4. QED
  BY <1>1, <1>2, <1>3 DEF EndInv, Shape, BootIsFirst, BeforeTheEnd, AfterTheEnd, Begin,
                          Stoppers, Alive

\* A stop() is over, and the llama-servers are gone with it.
LEMMA OverEnd ==
  ASSUME EndInv, boot # "start", NEW a \in Stoppers, StopOver(a)
  PROVE  EndInv'
<1>1. Shape'
  BY DEF EndInv, Shape, StopOver, Touch, Fewer, time, Alive
<1>2. \A s \in Servers : ~Alive(s)'
  BY DEF StopOver, Alive
<1>3. QED
  BY <1>1, <1>2 DEF EndInv, Shape, BootIsFirst, BeforeTheEnd, AfterTheEnd, StopOver, Stoppers

\* The plugin's SIGTERM ends the llama-servers too.
LEMMA SigtermEnd ==
  ASSUME EndInv, boot # "start", Sigterm
  PROVE  EndInv'
<1>1. Shape'
  BY DEF EndInv, Shape, Sigterm, work, time, Alive
<1>2. \A s \in Servers : ~Alive(s)'
  BY DEF Sigterm, Alive
<1>3. QED
  BY <1>1, <1>2 DEF EndInv, Shape, BootIsFirst, BeforeTheEnd, AfterTheEnd, Sigterm

\* The lifespan's own stop() begins, or somebody's is over, or one is cut short.
LEMMA LifespanEnd ==
  ASSUME EndInv, LifespanEnds
  PROVE  EndInv'
<1>1. Shape'
  <2>1. [sup EXCEPT !.cancelled = TRUE] \in SupStates
    BY DEF EndInv, Shape, SupStates
  <2>2. QED
    BY <2>1, SupNextType DEF EndInv, Shape, LifespanEnds, work, time
<1>2. BootIsFirst' /\ BeforeTheEnd'
  BY DEF LifespanEnds, BootIsFirst, BeforeTheEnd
<1>3. ~loose' /\ status = "stopping" => \A s \in Servers : ~Alive(s)
  BY DEF EndInv, Shape, BeforeTheEnd, LifespanEnds, Stoppers
<1>4. AfterTheEnd'
  BY <1>3 DEF EndInv, AfterTheEnd, LifespanEnds, MustStop, Stoppers, Alive
<1>5. QED
  BY <1>1, <1>2, <1>4 DEF EndInv

\* The event loop ends.
LEMMA ExitEnd ==
  ASSUME EndInv, Exit
  PROVE  EndInv'
<1>1. Shape'
  BY DEF EndInv, Shape, Exit, work, time
<1>2. QED
  BY <1>1 DEF EndInv, Exit, BootIsFirst, BeforeTheEnd, AfterTheEnd, Alive

\* Every step keeps what leads to the end.
LEMMA EndInvStep ==
  ASSUME EndInv, [Next]_vars
  PROVE  EndInv'
<1>1. CASE BootSpawn
  BY <1>1, BootEnd
<1>2. CASE boot # "start" /\ (BootWaited \/ BootProxy \/ BootConnect)
  BY <1>2, BootEnd
<1>3. CASE boot # "start" /\ SupStep
  BY <1>3, SupEnd
<1>4. CASE boot # "start" /\ \E s \in Servers : LlamaReady(s) \/ LlamaDies(s)
  BY <1>4, LlamaEnd
<1>5. CASE \E r \in Reqs : Arrive(r) \/ ReqStep(r)
  BY <1>5, ReqType, QuietEnd DEF EndInv
<1>6. CASE Heartbeat \/ IdleTimeout \/ Suspend \/ ParentExits \/ DogForgives
  BY <1>6, TimeType, QuietEnd DEF EndInv
<1>7. CASE boot # "start" /\ (DogBegins \/ ParentBegins \/ RouteBegins)
  BY <1>7, BeginEnd
<1>8. CASE boot # "start" /\ \E a \in Stoppers : StopOver(a)
  BY <1>8, OverEnd
<1>9. CASE boot # "start" /\ Sigterm
  BY <1>9, SigtermEnd
<1>10. CASE LifespanEnds
  BY <1>10, LifespanEnd
<1>11. CASE Exit
  BY <1>11, ExitEnd
<1>12. CASE UNCHANGED vars
  <2>1. Shape'
    BY <1>12 DEF EndInv, Shape, vars, work, time
  <2>2. QED
    BY <1>12, <2>1, QuietEnd DEF vars
<1>13. QED
  BY <1>1, <1>2, <1>3, <1>4, <1>5, <1>6, <1>7, <1>8, <1>9, <1>10, <1>11, <1>12 DEF Next

\* The sidecar begins there.
LEMMA EndInvInit ==
  ASSUME Init
  PROVE  EndInv
<1>1. Resting \in SupStates
  BY RestingType
<1>2. QED
  BY <1>1 DEF Init, EndInv, Shape, BootIsFirst, BeforeTheEnd, AfterTheEnd, Servers, Stoppers

\* The invariant on the end of the sidecar holds in every state.
LEMMA EndInvHolds == Spec => []EndInv
BY EndInvInit, EndInvStep, PTL DEF Spec

-------------------------------------------------------------------------------
\* The flags are set to truth values.
LEMMA FlagsStep ==
  ASSUME Flags, [Next]_vars
  PROVE  Flags'
<1>1. CASE \/ BootSpawn \/ BootWaited \/ BootProxy \/ BootConnect
           \/ SupRound \/ SupCheck \/ SupSpawnFails \/ SupReady \/ SupFails
           \/ DogBegins \/ ParentBegins \/ Sigterm \/ Exit
  BY <1>1, Zenon DEF Flags, BootSpawn, BootWaited, BootProxy, BootConnect, SupRound, SupCheck,
       SupSpawnFails, SupReady, SupFails, DogBegins, ParentBegins, Sigterm, Exit, time
<1>2. CASE SupSpawn \/ LifespanEnds
  BY <1>2, Zenon DEF Flags, SupSpawn, LifespanEnds, time
<1>3. CASE \E s \in Servers : LlamaReady(s) \/ LlamaDies(s)
  BY <1>3, Zenon DEF Flags, LlamaReady, LlamaDies, time
<1>4. CASE \E r \in Reqs : Arrive(r) \/ ReqStep(r)
  BY <1>4, Zenon DEF Flags, Arrive, ReqStep, Answer, BodyBegin, Vanish, BodyEnd, Touch, time
<1>5. CASE Heartbeat \/ IdleTimeout \/ Suspend \/ ParentExits \/ DogForgives \/ RouteBegins
  BY <1>5, Zenon DEF Flags, Heartbeat, IdleTimeout, Suspend, ParentExits, DogForgives,
       RouteBegins, Touch, time
<1>6. CASE \E a \in Stoppers : StopOver(a)
  BY <1>6, Zenon DEF Flags, StopOver, Touch, time
<1>7. CASE UNCHANGED vars
  BY <1>7, Zenon DEF Flags, vars, time
<1>8. QED
  BY <1>1, <1>2, <1>3, <1>4, <1>5, <1>6, <1>7 DEF Next, SupStep

\* The variables keep their types.
THEOREM TypeCorrect == Spec => []TypeOK
<1>1. Init => Flags
  BY Zenon DEF Init, Flags
<1>2. Spec => []Flags
  BY <1>1, FlagsStep, PTL DEF Spec
<1>3. EndInv /\ Flags => TypeOK
  BY DEF EndInv, Shape, SupStates, Flags, TypeOK
<1>4. QED
  BY <1>2, <1>3, EndInvHolds, PTL

\* A process that has ended leaves no llama-server, unless a stop() was cut
\* short or raced with a restart (__main__.py 86-100, lifecycle.py 142-159).
THEOREM NothingIsLeft == Spec => []ExitLeavesNothing
<1>1. EndInv => ExitLeavesNothing
  BY DEF EndInv, AfterTheEnd, ExitLeavesNothing
<1>2. QED
  BY <1>1, EndInvHolds, PTL

-------------------------------------------------------------------------------
(* The requests                                                            *)

Worked == {r \in Reqs : req[r] \in {"handler", "body"}}

\* A request is taken up: one more is worked on.
LEMMA TakenUp ==
  ASSUME Shape, NEW r \in Reqs, req[r] \in {"idle", "headers"},
         NEW to \in {"handler", "body"}, req' = [req EXCEPT ![r] = to]
  PROVE  Cardinality(Worked') = Cardinality(Worked) + 1
<1>1. IsFiniteSet(Worked) /\ r \notin Worked
  BY RuntimeAssumption, FS_Subset DEF Worked
<1>2. Worked' = Worked \cup {r}
  BY DEF Shape, Worked
<1>3. QED
  BY <1>1, <1>2, FS_AddElement

\* A request is put down: one fewer is worked on.
LEMMA PutDown ==
  ASSUME Shape, NEW r \in Reqs, req[r] \in {"handler", "body"},
         NEW to \in {"idle", "headers"}, req' = [req EXCEPT ![r] = to]
  PROVE  /\ Cardinality(Worked) \in Nat \ {0}
         /\ Cardinality(Worked') = Cardinality(Worked) - 1
<1>1. IsFiniteSet(Worked) /\ r \in Worked
  BY RuntimeAssumption, FS_Subset DEF Worked
<1>2. Worked' = Worked \ {r}
  BY DEF Shape, Worked
<1>3. Cardinality(Worked) \in Nat /\ Cardinality(Worked) # 0
  BY <1>1, FS_CardinalityType, FS_EmptySet
<1>4. QED
  BY <1>1, <1>2, <1>3, FS_RemoveElement

\* Requests keep the count and what the watchdog goes by.
LEMMA ReqWork ==
  ASSUME WorkInv, NEW r \in Reqs, Arrive(r) \/ ReqStep(r)
  PROVE  WorkInv'
<1> USE DEF InflightIsExact
<1>1. Shape' /\ UNCHANGED stopper
  BY ReqType DEF WorkInv
<1>2. Cardinality(Worked) \in Nat
  BY RuntimeAssumption, FS_Subset, FS_CardinalityType DEF Worked
<1>3. InflightIsExact'
  <2> DEFINE more == IF stopper["route"] = "closing" THEN 1 ELSE 0
  <2>1. inflight = Cardinality(Worked) + more /\ more \in Nat
    BY DEF WorkInv, Worked
  <2>2. SUFFICES inflight' = Cardinality(Worked') + more
    BY <1>1 DEF Worked
  <2> HIDE DEF more
  <2>3. CASE Arrive(r)
    <3>1. Cardinality(Worked') = Cardinality(Worked) + 1
      BY <2>3, TakenUp DEF WorkInv, Arrive
    <3>2. QED
      BY <1>2, <2>1, <2>3, <3>1 DEF Arrive
  <2>4. CASE BodyBegin(r)
    <3>1. Cardinality(Worked') = Cardinality(Worked) + 1
      BY <2>4, TakenUp DEF WorkInv, BodyBegin
    <3>2. QED
      BY <1>2, <2>1, <2>4, <3>1 DEF BodyBegin
  <2>5. CASE Answer(r)
    <3>1. PICK to \in {"idle", "headers"} : req' = [req EXCEPT ![r] = to]
      BY <2>5 DEF Answer
    <3>2. /\ Cardinality(Worked) \in Nat \ {0}
          /\ Cardinality(Worked') = Cardinality(Worked) - 1
      BY <2>5, <3>1, PutDown DEF WorkInv, Answer
    <3>3. QED
      BY <2>1, <2>5, <3>2 DEF Answer, Fewer
  <2>6. CASE BodyEnd(r)
    <3>1. /\ Cardinality(Worked) \in Nat \ {0}
          /\ Cardinality(Worked') = Cardinality(Worked) - 1
      BY <2>6, PutDown DEF WorkInv, BodyEnd
    <3>2. QED
      BY <2>1, <2>6, <3>1 DEF BodyEnd, Fewer
  <2>7. CASE Vanish(r)
    <3>1. Worked' = Worked
      BY <2>7 DEF WorkInv, Shape, Vanish, Worked
    <3>2. QED
      BY <2>1, <2>7, <3>1 DEF Vanish
  <2>8. QED
    BY <2>3, <2>4, <2>5, <2>6, <2>7 DEF ReqStep
<1>4. IdleIsHonest'
  BY DEF WorkInv, Shape, IdleIsHonest, Arrive, ReqStep, Answer, BodyBegin, Vanish, BodyEnd,
         Touch, time
<1>5. QED
  BY <1>1, <1>3, <1>4 DEF WorkInv

\* A step that leaves the requests, the count and the route's stop() alone.
LEMMA QuietCount ==
  ASSUME InflightIsExact, UNCHANGED <<req, inflight>>,
         stopper'["route"] = "closing" <=> stopper["route"] = "closing"
  PROVE  InflightIsExact'
BY DEF InflightIsExact

\* /shutdown is a request too: it counts from its beginning to its end.
LEMMA RouteCount ==
  ASSUME Shape, InflightIsExact, NEW a \in Stoppers, RouteBegins \/ StopOver(a)
  PROVE  InflightIsExact'
<1>1. Cardinality(Worked) \in Nat
  BY RuntimeAssumption, FS_Subset, FS_CardinalityType DEF Worked
<1>2. UNCHANGED req /\ Worked' = Worked
  BY DEF RouteBegins, StopOver, Worked
<1>3. inflight = Cardinality(Worked) + IF stopper["route"] = "closing" THEN 1 ELSE 0
  BY DEF InflightIsExact, Worked
<1>4. SUFFICES inflight' = Cardinality(Worked) + IF stopper'["route"] = "closing" THEN 1 ELSE 0
  BY <1>2 DEF InflightIsExact, Worked
<1>5. "route" \in Stoppers
  BY DEF Stoppers
<1>6. CASE RouteBegins
  BY <1>1, <1>3, <1>5, <1>6 DEF RouteBegins, Begin, Shape
<1>7. CASE StopOver(a) /\ a = "route"
  BY <1>1, <1>3, <1>5, <1>7 DEF StopOver, Fewer, Shape
<1>8. CASE StopOver(a) /\ a # "route"
  BY <1>1, <1>3, <1>5, <1>8 DEF StopOver, Shape
<1>9. QED
  BY <1>6, <1>7, <1>8

\* Every step keeps the count and what the watchdog goes by.
LEMMA WorkInvStep ==
  ASSUME WorkInv, Shape', [Next]_vars
  PROVE  WorkInv'
<1>1. CASE \E r \in Reqs : Arrive(r) \/ ReqStep(r)
  BY <1>1, ReqWork
<1>2. CASE RouteBegins \/ \E a \in Stoppers : StopOver(a)
  <2>1. InflightIsExact'
    BY <1>2, RouteCount DEF WorkInv, Stoppers
  <2>2. IdleIsHonest'
    BY <1>2 DEF WorkInv, IdleIsHonest, RouteBegins, StopOver, Touch, time
  <2>3. QED
    BY <2>1, <2>2 DEF WorkInv
<1>3. CASE Heartbeat \/ IdleTimeout \/ Suspend \/ ParentExits \/ DogForgives
  <2>1. UNCHANGED <<req, inflight, stopper>>
    BY <1>3 DEF Heartbeat, IdleTimeout, Suspend, ParentExits, DogForgives, work
  <2>2. IdleIsHonest'
    BY <1>3, <2>1 DEF WorkInv, IdleIsHonest, Heartbeat, IdleTimeout, Suspend, ParentExits,
                      DogForgives, Touch, time
  <2>3. QED
    BY <2>1, <2>2, QuietCount DEF WorkInv
<1>4. CASE \/ BootSpawn \/ BootWaited \/ BootProxy \/ BootConnect \/ SupStep
           \/ (\E s \in Servers : LlamaReady(s) \/ LlamaDies(s))
           \/ Sigterm \/ Exit \/ UNCHANGED vars
  <2>1. UNCHANGED <<req, inflight, stopper, idle, slept, awake>>
    BY <1>4 DEF BootSpawn, BootWaited, BootProxy, BootConnect, SupStep, SupRound, SupCheck,
         SupSpawn, SupSpawnFails, SupReady, SupFails, LlamaReady, LlamaDies, Sigterm, Exit,
         vars, work, time
  <2>2. QED
    BY <2>1, QuietCount DEF WorkInv, IdleIsHonest
<1>5. CASE DogBegins \/ ParentBegins \/ LifespanEnds
  <2>1. UNCHANGED <<req, inflight, idle, slept, awake>>
    BY <1>5 DEF DogBegins, ParentBegins, LifespanEnds, work, time
  <2>2. stopper'["route"] = stopper["route"]
    BY <1>5 DEF DogBegins, ParentBegins, LifespanEnds, Begin, WorkInv, Shape, Stoppers
  <2>3. QED
    BY <2>1, <2>2, QuietCount DEF WorkInv, IdleIsHonest
<1>6. QED
  BY <1>1, <1>2, <1>3, <1>4, <1>5 DEF Next

\* The invariant of the requests.
LEMMA WorkInvHolds == Spec => []WorkInv
<1>1. Init => WorkInv
  <2> SUFFICES ASSUME Init PROVE WorkInv
    OBVIOUS
  <2>1. Worked = {} /\ Cardinality(Worked) = 0
    BY FS_EmptySet DEF Init, Worked
  <2>2. InflightIsExact
    BY <2>1 DEF Init, InflightIsExact, Worked, Stoppers
  <2>3. Shape /\ IdleIsHonest
    BY EndInvInit DEF EndInv, Init, IdleIsHonest
  <2>4. QED
    BY <2>2, <2>3 DEF WorkInv
<1>2. EndInv' => Shape'
  BY DEF EndInv
<1>3. QED
  BY <1>1, <1>2, WorkInvStep, EndInvHolds, PTL DEF Spec

\* _inflight is the number of requests being worked on (app.py 60-65, 109-119).
THEOREM CountIsExact == Spec => []InflightIsExact
<1>1. WorkInv => InflightIsExact
  BY DEF WorkInv
<1>2. QED
  BY <1>1, WorkInvHolds, PTL

\* Only the watchdog begins its own stop().
LEMMA OnlyTheDog ==
  ASSUME Shape, [Next]_vars, DogActs
  PROVE  DogBegins
<1>1. CASE \E r \in Reqs : Arrive(r) \/ ReqStep(r)
  BY <1>1 DEF DogActs, Arrive, ReqStep, Answer, BodyBegin, Vanish, BodyEnd
<1>2. CASE RouteBegins \/ ParentBegins \/ LifespanEnds
  BY <1>2 DEF DogActs, Shape, RouteBegins, ParentBegins, LifespanEnds, Begin, Stoppers
<1>3. CASE \E a \in Stoppers : StopOver(a)
  BY <1>3 DEF DogActs, Shape, StopOver, Stoppers
<1>4. CASE Heartbeat \/ IdleTimeout \/ Suspend \/ ParentExits \/ DogForgives
  BY <1>4 DEF DogActs, Heartbeat, IdleTimeout, Suspend, ParentExits, DogForgives
<1>5. CASE \/ BootSpawn \/ BootWaited \/ BootProxy \/ BootConnect \/ SupStep
           \/ (\E s \in Servers : LlamaReady(s) \/ LlamaDies(s))
           \/ Sigterm \/ Exit \/ UNCHANGED vars
  BY <1>5 DEF DogActs, BootSpawn, BootWaited, BootProxy, BootConnect, SupStep, SupRound,
       SupCheck, SupSpawn, SupSpawnFails, SupReady, SupFails, LlamaReady, LlamaDies, Sigterm,
       Exit, vars
<1>6. QED
  BY <1>1, <1>2, <1>3, <1>4, <1>5 DEF Next

\* When the watchdog acts every request is over, and the machine was awake.
LEMMA DogIsRight ==
  ASSUME WorkInv, [Next]_vars, DogActs
  PROVE  awake /\ \A r \in Reqs : req[r] = "idle"
<1>1. DogBegins
  BY OnlyTheDog DEF WorkInv
<1>2. awake /\ \A r \in Reqs : req[r] # "headers"
  BY <1>1 DEF WorkInv, IdleIsHonest, DogBegins, Jumped
<1>3. IsFiniteSet(Worked) /\ Cardinality(Worked) \in Nat
  BY RuntimeAssumption, FS_Subset, FS_CardinalityType DEF Worked
<1>4. Cardinality(Worked) = 0
  BY <1>1, <1>3 DEF WorkInv, InflightIsExact, Worked, DogBegins
<1>5. Worked = {}
  BY <1>3, <1>4, FS_EmptySet
<1>6. QED
  BY <1>2, <1>5 DEF Worked, WorkInv, Shape

\* The idle watchdog does not stop the sidecar under a request, be it in its
\* handler, streaming its body or between the two (__main__.py 78-84).
THEOREM DogSparesRequests == Spec => IdleSparesRequests
<1>1. WorkInv /\ [Next]_vars => [DogActs => \A r \in Reqs : req[r] = "idle"]_vars
  BY DogIsRight
<1>2. QED
  BY <1>1, WorkInvHolds, PTL DEF Spec, IdleSparesRequests

\* The idle watchdog acts on time the machine was awake, never on a suspension
\* (__main__.py 70-77).
THEOREM DogForgivesSleep == Spec => SleepIsForgiven
<1>1. WorkInv /\ [Next]_vars => [DogActs => awake]_vars
  BY DogIsRight
<1>2. QED
  BY <1>1, WorkInvHolds, PTL DEF Spec, SleepIsForgiven

-----------------------------------------------------------------------------
(* The managers: what the steps keep                                       *)

\* What a process, a manager, a coroutine and a stop() may be.
ProcStates == [st : {"none", "starting", "ok", "error", "dead", "exited", "unborn"},
               sig : BOOLEAN, owner : Managers \cup {None}, unseen : BOOLEAN]
MgrStates == [stopped : BOOLEAN, attempts : 0..Backoffs,
              proc : Procs \cup {None}, failed : BOOLEAN,
              crossed : BOOLEAN, gone : BOOLEAN]
ChainStates == [pc : {"idle", "sleep", "lock", "orphans", "port", "ready"},
                mgr : Managers \cup {None}, boot : BOOLEAN]
StopStates == [pc : {"none", "waiting", "ending"}, mgr : Managers \cup {None},
               on : Procs \cup {None}, again : BOOLEAN]

\* The types of everything but the plugin's flags.
ManagerShape ==
  /\ proc \in [Procs -> ProcStates] /\ mgr \in [Managers -> MgrStates]
  /\ chain \in [Chains -> ChainStates] /\ stop \in [Stops -> StopStates]
  /\ cur \in Managers \cup {None} /\ lock \in Procs \cup {None}

ManagerFlags == due \in BOOLEAN /\ open \in BOOLEAN /\ unloaded \in BOOLEAN

\* A coroutine that is under way has a manager, and only such a one.
Chained == \A c \in Chains : chain[c].mgr = None <=> chain[c].pc = "idle"

\* A stop() that is under way has a manager, and waits for a process or for ever.
Called ==
  \A s \in Stops : /\ stop[s].mgr = None <=> stop[s].pc = "none"
                   /\ stop[s].pc # "waiting" => stop[s].on = None

\* A death that is still to be heard of is that of a process with a manager.
Heard == \A p \in Procs : proc[p].st = "dead" => proc[p].owner # None

\* A manager's process is its own, and its slot is not free.
Holds ==
  \A m \in Managers : mgr[m].proc # None =>
    proc[mgr[m].proc].owner = m /\ proc[mgr[m].proc].st # "none"

\* NeverSilentlyDown, and the replacement does not rest on a boot that has
\* spawned already.
Excused(m) ==
  \/ mgr[m].attempts = Backoffs
  \/ \E c \in Chains : chain[c].mgr = m /\ (~chain[c].boot \/ InStart(c))

Replaced ==
  \A m \in Managers :
    /\ mgr[m].proc # None /\ proc[mgr[m].proc].st = "exited" /\ ~mgr[m].stopped
    => Excused(m)

WatchInv == ManagerShape /\ Chained /\ Called /\ Heard /\ Holds /\ Replaced

-----------------------------------------------------------------------------
(* What the helpers of SidecarManager return                               *)

\* A process record with some of its fields replaced.
LEMMA ProcRecords ==
  ASSUME NEW x \in ProcStates, NEW sig \in BOOLEAN
  PROVE  /\ [x EXCEPT !.st = "dead", !.sig = sig] \in ProcStates
         /\ [x EXCEPT !.st = "exited"] \in ProcStates
         /\ \A st \in {"ok", "error"} : [x EXCEPT !.st = st] \in ProcStates
         /\ [x EXCEPT !.owner = None] \in ProcStates
  BY DEF ProcStates

\* The first values are well typed.
LEMMA FirstValues ==
  /\ NoProc \in ProcStates /\ Fresh \in MgrStates
  /\ Idle \in ChainStates /\ NoStop \in StopStates
<1>1. 0 \in 0..Backoffs
  BY ConstantsAssumption
<1>2. NoProc \in ProcStates
  BY DEF NoProc, ProcStates
<1>3. Fresh \in MgrStates
  BY <1>1 DEF Fresh, MgrStates
<1>4. Idle \in ChainStates
  BY DEF Idle, ChainStates
<1>5. NoStop \in StopStates
  BY DEF NoStop, StopStates
<1>6. QED
  BY <1>2, <1>3, <1>4, <1>5

\* The states of a process that runs.
RunStates == {"starting", "ok", "error"}

\* The processes new come from proc by deaths, signals and progress alone.
Tame(new) ==
  /\ new \in [Procs -> ProcStates]
  /\ \A p \in Procs :
       /\ new[p].owner = proc[p].owner
       /\ new[p].st = "none" => proc[p].st = "none" \/ proc[p].owner = None
       /\ new[p].st \in RunStates =>
            proc[p].st \in RunStates /\ new[p].unseen = proc[p].unseen
       /\ new[p].st = "exited" => proc[p].st = "exited"
       /\ new[p].st = "dead" => proc[p].owner # None

\* The processes new come from proc by freeing the slot q, if at all.
Freed(q, new) ==
  /\ new \in [Procs -> ProcStates]
  /\ \A p \in Procs : new[p] = proc[p] \/ (p = q /\ new[p] = NoProc /\ ~Runs(p))

\* A process that ends keeps its owner; it is dead, or forgotten if nobody listens.
LEMMA EndedIs ==
  ASSUME ManagerShape, NEW p \in Procs, NEW sig \in BOOLEAN
  PROVE  /\ Ended(p, sig) \in ProcStates
         /\ Ended(p, sig).owner = proc[p].owner
         /\ \/ Ended(p, sig).st = "none" /\ proc[p].owner = None
            \/ Ended(p, sig).st = "dead" /\ proc[p].owner # None
<1>1. proc[p] \in ProcStates
  BY DEF ManagerShape
<1>2. CASE proc[p].owner = None
  <2>1. Ended(p, sig) = NoProc
    BY <1>2 DEF Ended
  <2>2. NoProc.owner = None /\ NoProc.st = "none"
    BY DEF NoProc
  <2>3. QED
    BY <1>2, <2>1, <2>2, FirstValues
<1>3. CASE proc[p].owner # None
  <2>1. Ended(p, sig) = [proc[p] EXCEPT !.st = "dead", !.sig = sig]
    BY <1>3 DEF Ended
  <2>2. [proc[p] EXCEPT !.st = "dead", !.sig = sig] \in ProcStates
    BY <1>1, ProcRecords
  <2>3. /\ [proc[p] EXCEPT !.st = "dead", !.sig = sig].owner = proc[p].owner
        /\ [proc[p] EXCEPT !.st = "dead", !.sig = sig].st = "dead"
    BY <1>1 DEF ProcStates
  <2>4. QED
    BY <1>3, <2>1, <2>2, <2>3
<1>4. QED
  BY <1>2, <1>3

\* killTree lets nobody live on that it was to kill, and starts nothing.
LEMMA KilledIsTame ==
  ASSUME ManagerShape, Heard, NEW P
  PROVE  /\ Tame(Killed(P))
         /\ \A p \in Procs \cap P : Killed(P)[p].st \notin RunStates
<1>0. /\ Killed(P) = [p \in Procs |-> Killed(P)[p]]
      /\ \A p \in Procs : Killed(P)[p] = IF p \in P /\ Runs(p) THEN Ended(p, TRUE) ELSE proc[p]
  BY DEF Killed
<1>1. ASSUME NEW p \in Procs
      PROVE  /\ Killed(P)[p] \in ProcStates
             /\ Killed(P)[p].owner = proc[p].owner
             /\ Killed(P)[p].st = "none" => proc[p].st = "none" \/ proc[p].owner = None
             /\ Killed(P)[p].st \in RunStates =>
                  proc[p].st \in RunStates /\ Killed(P)[p].unseen = proc[p].unseen
             /\ Killed(P)[p].st = "exited" => proc[p].st = "exited"
             /\ Killed(P)[p].st = "dead" => proc[p].owner # None
             /\ p \in P => Killed(P)[p].st \notin RunStates
  <2>1. CASE p \in P /\ Runs(p)
    BY <1>0, <2>1, EndedIs DEF RunStates
  <2>2. CASE ~(p \in P /\ Runs(p))
    BY <1>0, <2>2 DEF RunStates, Runs, ManagerShape, Heard
  <2>3. QED
    BY <2>1, <2>2
<1>2. Killed(P) \in [Procs -> ProcStates]
  BY <1>0, <1>1
<1>3. QED
  BY <1>1, <1>2 DEF Tame

\* Letting go of a process frees at most its slot, and only once it is over.
LEMMA ReleasedIsFreed ==
  ASSUME ManagerShape, NEW q \in Procs \cup {None}
  PROVE  Freed(q, Released(proc, q))
<1>1. CASE q # None /\ proc[q].st \in {"exited", "unborn"}
  <2>1. Released(proc, q) = [proc EXCEPT ![q] = NoProc] /\ q \in Procs
    BY <1>1 DEF Released
  <2>2. ~Runs(q)
    BY <1>1 DEF Runs
  <2>3. QED
    BY <2>1, <2>2, FirstValues DEF Freed, ManagerShape
<1>2. CASE ~(q # None /\ proc[q].st \in {"exited", "unborn"})
  BY <1>2 DEF Released, Freed, ManagerShape
<1>3. QED
  BY <1>1, <1>2

\* Of a coroutine that moves on only the place changes.
LEMMA GotoIs ==
  ASSUME ManagerShape, Chained, NEW c \in Chains, chain[c].pc # "idle",
         NEW pc \in {"lock", "orphans", "port", "ready"}, Goto(c, pc)
  PROVE  /\ chain' \in [Chains -> ChainStates] /\ Chained'
         /\ \A d \in Chains : chain'[d].mgr = chain[d].mgr /\ chain'[d].boot = chain[d].boot
         /\ \A d \in Chains \ {c} : chain'[d] = chain[d]
         /\ chain'[c].pc = pc /\ chain[c].mgr \in Managers
<1> DEFINE x == chain[c]
<1>1. x \in ChainStates
  BY DEF ManagerShape
<1>2. chain' = [chain EXCEPT ![c] = [x EXCEPT !.pc = pc]]
  BY DEF Goto
<1>3. /\ [x EXCEPT !.pc = pc] \in ChainStates
      /\ [x EXCEPT !.pc = pc].pc = pc
      /\ [x EXCEPT !.pc = pc].mgr = x.mgr
      /\ [x EXCEPT !.pc = pc].boot = x.boot
  <2> HIDE DEF x
  <2> QED
    BY <1>1 DEF ChainStates
<1>4. /\ chain' \in [Chains -> ChainStates]
      /\ \A d \in Chains : chain'[d].mgr = chain[d].mgr /\ chain'[d].boot = chain[d].boot
      /\ \A d \in Chains \ {c} : chain'[d] = chain[d]
      /\ chain'[c].pc = pc
  BY <1>2, <1>3 DEF ManagerShape
<1>5. Chained'
  BY <1>4 DEF Chained
<1>6. chain[c].mgr \in Managers
  BY <1>1 DEF Chained, ChainStates
<1>7. QED
  BY <1>4, <1>5, <1>6

\* scheduleRestart() leaves a coroutine asleep, or a manager that has given up.
LEMMA ScheduleIs ==
  ASSUME ManagerShape, Chained, NEW c \in Chains, NEW m \in Managers,
         NEW mm \in [Managers -> MgrStates], Schedule(c, m, mm)
  PROVE  /\ mgr' \in [Managers -> MgrStates]
         /\ chain' \in [Chains -> ChainStates] /\ Chained'
         /\ \A k \in Managers : mgr'[k].proc = mm[k].proc /\ mgr'[k].stopped = mm[k].stopped
         /\ \A k \in Managers : mgr'[k].gone = mm[k].gone /\ mgr'[k].crossed = mm[k].crossed
         /\ \A k \in Managers \ {m} : mgr'[k] = mm[k]
         /\ \A d \in Chains \ {c} : chain'[d] = chain[d]
         /\ \/ chain'[c].pc = "sleep" /\ chain'[c].mgr = m /\ ~chain'[c].boot
            \/ chain'[c] = Idle /\ mgr'[m].attempts = Backoffs
<1> DEFINE x == mm[m]
<1> DEFINE z == [pc |-> "sleep", mgr |-> m, boot |-> FALSE]
<1>1. x \in MgrStates /\ x.attempts \in 0..Backoffs
  BY DEF MgrStates
<1>2. Idle \in ChainStates /\ Idle.pc = "idle" /\ Idle.mgr = None
  BY FirstValues DEF Idle
<1>3. z \in ChainStates /\ z.pc = "sleep" /\ z.mgr = m /\ ~z.boot /\ m # None
  BY ConstantsAssumption DEF ChainStates
<1>4. CASE x.attempts < Backoffs
  <2>1. /\ mgr' = [mm EXCEPT ![m] = [x EXCEPT !.attempts = @ + 1]]
        /\ chain' = [chain EXCEPT ![c] = z]
    BY <1>4 DEF Schedule
  <2>2. /\ [x EXCEPT !.attempts = @ + 1] \in MgrStates
        /\ [x EXCEPT !.attempts = @ + 1].proc = x.proc
        /\ [x EXCEPT !.attempts = @ + 1].stopped = x.stopped
        /\ [x EXCEPT !.attempts = @ + 1].gone = x.gone
        /\ [x EXCEPT !.attempts = @ + 1].crossed = x.crossed
    <3>1. x.attempts + 1 \in 0..Backoffs
      BY <1>1, <1>4, ConstantsAssumption
    <3> HIDE DEF x
    <3>2. QED
      BY <1>1, <3>1 DEF MgrStates
  <2> HIDE DEF z
  <2>3. /\ chain' \in [Chains -> ChainStates]
        /\ \A d \in Chains \ {c} : chain'[d] = chain[d]
        /\ chain'[c] = z
    BY <2>1, <1>3 DEF ManagerShape
  <2>4. Chained'
    BY <2>3, <1>3 DEF Chained
  <2>5. QED
    BY <2>1, <2>2, <2>3, <2>4, <1>3
<1>5. CASE ~(x.attempts < Backoffs)
  <2>1. mgr' = mm /\ chain' = [chain EXCEPT ![c] = Idle]
    BY <1>5 DEF Schedule
  <2>2. x.attempts = Backoffs
    BY <1>1, <1>5, ConstantsAssumption
  <2>3. /\ chain' \in [Chains -> ChainStates]
        /\ \A d \in Chains \ {c} : chain'[d] = chain[d]
        /\ chain'[c] = Idle
    BY <2>1, <1>2 DEF ManagerShape
  <2>4. Chained'
    BY <2>3, <1>2 DEF Chained
  <2>5. QED
    BY <2>1, <2>2, <2>3, <2>4
<1>6. QED
  BY <1>4, <1>5

\* The managers mm with stoppedByUs set in m.
Halted(mm, m) == [mm EXCEPT ![m].stopped = TRUE]

\* It is all that changes.
LEMMA HaltedIs ==
  ASSUME NEW mm \in [Managers -> MgrStates], NEW m \in Managers
  PROVE  /\ Halted(mm, m) \in [Managers -> MgrStates]
         /\ \A k \in Managers : /\ Halted(mm, m)[k].proc = mm[k].proc
                                /\ Halted(mm, m)[k].attempts = mm[k].attempts
                                /\ mm[k].stopped => Halted(mm, m)[k].stopped
                                /\ Halted(mm, m)[k].gone = mm[k].gone
                                /\ Halted(mm, m)[k].crossed = mm[k].crossed
         /\ \A k \in Managers \ {m} : Halted(mm, m)[k] = mm[k]
         /\ Halted(mm, m)[m].stopped
<1> DEFINE x == mm[m]
           y == [x EXCEPT !.stopped = TRUE]
<1>1. x \in MgrStates
  OBVIOUS
<1>2. /\ y \in MgrStates /\ y.proc = x.proc /\ y.attempts = x.attempts /\ y.stopped
      /\ y.gone = x.gone /\ y.crossed = x.crossed
  <2> HIDE DEF x
  <2> QED
    BY <1>1 DEF MgrStates
<1>3. Halted(mm, m) = [mm EXCEPT ![m] = y]
  BY DEF Halted
<1> HIDE DEF y
<1>4. QED
  BY <1>2, <1>3

\* stop() sets stoppedByUs, and waits for its manager's process if that runs.
LEMMA BeginStopIs ==
  ASSUME ManagerShape, Called, NEW s \in Stops, NEW m \in Managers, NEW again \in BOOLEAN,
         NEW mm \in [Managers -> MgrStates],
         \A k \in Managers : mm[k].proc = mgr[k].proc, BeginStop(s, m, mm, again)
  PROVE  /\ mgr' \in [Managers -> MgrStates] /\ stop' \in [Stops -> StopStates]
         /\ \A k \in Managers : /\ mgr'[k].proc = mgr[k].proc /\ mgr'[k].attempts = mm[k].attempts
                                /\ mgr'[k].gone = mm[k].gone
                                /\ mm[k].stopped => mgr'[k].stopped
                                /\ mm[k].crossed => mgr'[k].crossed
         /\ \A k \in Managers \ {m} : mgr'[k] = mm[k]
         /\ mgr'[m].stopped
         /\ \A c \in Chains : chain[c].mgr = m /\ InStart(c) => mgr'[m].crossed
         /\ \A t \in Stops \ {s} : stop'[t] = stop[t]
         /\ stop[s].pc = "none" /\ stop'[s].mgr = m /\ Called'
         /\ mgr[m].proc # None /\ Runs(mgr[m].proc) => stop'[s].on = mgr[m].proc
<1> DEFINE p == mm[m].proc
           running == p # None /\ ~HasExitCode(p)
           heard == running /\ proc[p].st \notin {"exited", "unborn"}
           z == [pc |-> IF running THEN "waiting" ELSE "ending",
                 mgr |-> m, on |-> IF heard THEN p ELSE None, again |-> again]
           x == mm[m]
           cross == x.crossed \/ \E c \in Chains : chain[c].mgr = m /\ InStart(c)
           y == [x EXCEPT !.stopped = TRUE, !.crossed = cross]
<1>1. /\ mgr' = [mm EXCEPT ![m] = y] /\ stop' = [stop EXCEPT ![s] = z] /\ stop[s].pc = "none"
  BY DEF BeginStop
<1>2. p \in Procs \cup {None} /\ p = mgr[m].proc /\ x \in MgrStates
  BY DEF MgrStates
<1>3. /\ y \in MgrStates /\ y.proc = x.proc /\ y.attempts = x.attempts /\ y.gone = x.gone
      /\ y.stopped /\ y.crossed = cross
  <2>1. cross \in BOOLEAN
    OBVIOUS
  <2> HIDE DEF x, cross
  <2>2. QED
    BY <1>2, <2>1 DEF MgrStates
<1>4. /\ z \in StopStates /\ z.mgr = m /\ z.pc \in {"waiting", "ending"}
      /\ z.pc = IF running THEN "waiting" ELSE "ending"
      /\ z.on = IF heard THEN p ELSE None
  <2> HIDE DEF p, running, heard
  <2> QED
    BY <1>2 DEF StopStates
<1>5. p # None /\ Runs(p) => heard
  BY DEF Runs, HasExitCode
<1>6. z.pc # "waiting" => z.on = None
  BY <1>4
<1> HIDE DEF y, z
<1>7. /\ mgr' \in [Managers -> MgrStates] /\ mgr'[m] = y
      /\ \A k \in Managers \ {m} : mgr'[k] = mm[k]
  BY <1>1, <1>3
<1>8. /\ stop' \in [Stops -> StopStates] /\ stop'[s] = z
      /\ \A t \in Stops \ {s} : stop'[t] = stop[t]
  BY <1>1, <1>4 DEF ManagerShape
<1>9. \A k \in Managers : /\ mgr'[k].proc = mgr[k].proc /\ mgr'[k].attempts = mm[k].attempts
                          /\ mgr'[k].gone = mm[k].gone
                          /\ mm[k].stopped => mgr'[k].stopped
                          /\ mm[k].crossed => mgr'[k].crossed
  BY <1>3, <1>7
<1>10. \A c \in Chains : chain[c].mgr = m /\ InStart(c) => mgr'[m].crossed
  BY <1>3, <1>7
<1>11. p # None /\ Runs(p) => z.on = p
  BY <1>4, <1>5
<1>12. Called'
  BY <1>4, <1>6, <1>8, ConstantsAssumption DEF Called
<1> HIDE DEF p
<1>13. QED
  BY <1>1, <1>2, <1>3, <1>4, <1>7, <1>8, <1>9, <1>10, <1>11, <1>12

\* What a step that lets every manager keep its process has to show.
LEMMA Steady ==
  ASSUME WatchInv, Tame(proc'), mgr' \in [Managers -> MgrStates],
         chain' \in [Chains -> ChainStates], stop' \in [Stops -> StopStates],
         cur' \in Managers \cup {None}, lock' \in Procs \cup {None}, Chained', Called',
         \A m \in Managers : mgr'[m].proc = mgr[m].proc,
         \A m \in Managers :
           /\ mgr[m].proc # None /\ proc[mgr[m].proc].st = "exited" /\ ~mgr'[m].stopped
           /\ mgr[m].stopped \/ Excused(m)
           => Excused(m)'
  PROVE  WatchInv'
<1>1. ManagerShape'
  BY DEF ManagerShape, Tame
<1>2. Heard'
  BY DEF Heard, Tame
<1>3. \A m \in Managers : mgr[m].proc \in Procs \cup {None}
  BY DEF WatchInv, ManagerShape, MgrStates
<1>4. Holds'
  <2> SUFFICES ASSUME NEW m \in Managers, mgr[m].proc # None
               PROVE  proc'[mgr[m].proc].owner = m /\ proc'[mgr[m].proc].st # "none"
    BY DEF Holds
  <2>1. mgr[m].proc \in Procs /\ proc[mgr[m].proc].owner = m
        /\ proc[mgr[m].proc].st # "none" /\ m # None
    BY <1>3, ConstantsAssumption DEF WatchInv, Holds
  <2>2. QED
    BY <2>1 DEF Tame
<1>5. Replaced'
  <2> SUFFICES ASSUME NEW m \in Managers, mgr[m].proc # None,
                      proc'[mgr[m].proc].st = "exited", ~mgr'[m].stopped
               PROVE  Excused(m)'
    BY DEF Replaced
  <2>1. proc[mgr[m].proc].st = "exited"
    BY <1>3 DEF Tame
  <2>2. QED
    BY <2>1 DEF WatchInv, Replaced
<1>6. QED
  BY <1>1, <1>2, <1>4, <1>5 DEF WatchInv

\* What a step has to show that moves no coroutine to an end.
LEMMA SteadyExcuse ==
  ASSUME \A m \in Managers : mgr'[m].attempts = mgr[m].attempts,
         \A c \in Chains : /\ chain'[c].mgr = chain[c].mgr /\ chain'[c].boot = chain[c].boot
                           /\ InStart(c) => InStart(c)',
         NEW m \in Managers, Excused(m)
  PROVE  Excused(m)'
  BY DEF Excused

\* Progress and deaths of processes.
LEMMA ProcIsTame ==
  ASSUME WatchInv, NEW p \in Procs, BecomesOk(p) \/ BecomesError(p) \/ Dies(p)
  PROVE  Tame(proc')
<1> DEFINE x == proc[p]
<1>1. x \in ProcStates
  BY DEF WatchInv, ManagerShape
<1>2. ASSUME NEW y \in ProcStates, proc' = [proc EXCEPT ![p] = y], y.owner = proc[p].owner,
             y.unseen = proc[p].unseen \/ y.st \notin RunStates, x.st \in RunStates,
             \/ y.st \in {"ok", "error"}
             \/ y.st = "none" /\ x.owner = None
             \/ y.st = "dead" /\ x.owner # None
      PROVE  Tame(proc')
  <2>1. proc' \in [Procs -> ProcStates] /\ proc'[p] = y
    BY <1>2 DEF WatchInv, ManagerShape
  <2>2. \A q \in Procs \ {p} : proc'[q] = proc[q]
    BY <1>2 DEF WatchInv, ManagerShape
  <2>3. Tame(proc)
    BY DEF Tame, WatchInv, ManagerShape, Heard
  <2>4. QED
    BY <1>2, <2>1, <2>2, <2>3 DEF Tame, RunStates
<1>3. CASE BecomesOk(p) \/ BecomesError(p)
  <2>1. PICK st \in {"ok", "error"} : proc' = [proc EXCEPT ![p].st = st]
    BY <1>3 DEF BecomesOk, BecomesError
  <2>2. x.st = "starting"
    BY <1>3 DEF BecomesOk, BecomesError
  <2>3. proc' = [proc EXCEPT ![p] = [x EXCEPT !.st = st]]
    BY <2>1
  <2>4. /\ [x EXCEPT !.st = st] \in ProcStates
        /\ [x EXCEPT !.st = st].owner = x.owner /\ [x EXCEPT !.st = st].unseen = x.unseen
        /\ [x EXCEPT !.st = st].st = st
    <3> HIDE DEF x
    <3> QED
      BY <1>1 DEF ProcStates
  <2>5. QED
    BY <1>2, <2>2, <2>3, <2>4 DEF RunStates
<1>4. CASE Dies(p)
  <2>1. PICK sig \in BOOLEAN : proc' = [proc EXCEPT ![p] = Ended(p, sig)]
    BY <1>4 DEF Dies
  <2>2. x.st \in RunStates
    BY <1>4 DEF Dies, Runs, RunStates
  <2>3. /\ Ended(p, sig) \in ProcStates
        /\ Ended(p, sig).owner = proc[p].owner
        /\ \/ Ended(p, sig).st = "none" /\ proc[p].owner = None
           \/ Ended(p, sig).st = "dead" /\ proc[p].owner # None
    BY EndedIs DEF WatchInv
  <2>4. QED
    BY <1>2, <2>1, <2>2, <2>3 DEF RunStates
<1>5. QED
  BY <1>3, <1>4

\* They leave the managers watching.
LEMMA ProcWatch ==
  ASSUME WatchInv, NEW p \in Procs, BecomesOk(p) \/ BecomesError(p) \/ Dies(p)
  PROVE  WatchInv'
<1>1. UNCHANGED <<mgr, chain, stop, lock, cur>>
  BY DEF BecomesOk, BecomesError, Dies, plugin
<1>2. Tame(proc')
  BY ProcIsTame
<1>3. \A m \in Managers : Excused(m) => Excused(m)'
  BY <1>1 DEF Excused, InStart
<1>4. /\ mgr' \in [Managers -> MgrStates] /\ chain' \in [Chains -> ChainStates]
      /\ stop' \in [Stops -> StopStates] /\ cur' \in Managers \cup {None}
      /\ lock' \in Procs \cup {None} /\ Chained' /\ Called'
      /\ \A m \in Managers : mgr'[m].proc = mgr[m].proc /\ mgr'[m].stopped = mgr[m].stopped
  BY <1>1 DEF WatchInv, ManagerShape, Chained, Called
<1>5. QED
  BY <1>2, <1>3, <1>4, Steady

\* Steps of the plugin that start or drop a boot, and the opening of Obsidian.
LEMMA PluginWatch ==
  ASSUME WatchInv, RunBackend \/ BootDropped \/ Open
  PROVE  WatchInv'
<1>1. UNCHANGED <<proc, mgr, chain, stop, lock, cur>>
  BY DEF RunBackend, BootDropped, Open
<1>2. QED
  BY <1>1 DEF WatchInv, ManagerShape, Chained, Called, Heard, Holds, Replaced, Excused, InStart

\* Wake: the start begins, or the coroutine of a stopped manager ends.
LEMMA WakeWatch ==
  ASSUME WatchInv, NEW c \in Chains, Wake(c)
  PROVE  WatchInv'
<1>1. UNCHANGED <<proc, mgr, stop, lock, cur>> /\ chain[c].pc = "sleep"
  BY DEF Wake, plugin
<1>2. /\ Tame(proc') /\ mgr' \in [Managers -> MgrStates] /\ stop' \in [Stops -> StopStates]
      /\ cur' \in Managers \cup {None} /\ lock' \in Procs \cup {None}
      /\ \A m \in Managers : mgr'[m] = mgr[m]
      /\ Called'
  BY <1>1 DEF WatchInv, ManagerShape, Tame, Heard, Called
<1>3. CASE mgr[chain[c].mgr].stopped
  <2>1. chain' = [chain EXCEPT ![c] = Idle]
    BY <1>3 DEF Wake
  <2>2. /\ chain' \in [Chains -> ChainStates] /\ chain'[c] = Idle
        /\ \A d \in Chains \ {c} : chain'[d] = chain[d]
    BY <2>1, FirstValues DEF WatchInv, ManagerShape
  <2>3. Chained'
    BY <2>2 DEF WatchInv, Chained, Idle
  <2>4. \A m \in Managers : Excused(m) /\ ~mgr[m].stopped => Excused(m)'
    BY <1>2, <1>3, <2>2 DEF Excused, InStart
  <2>5. QED
    BY <1>2, <2>2, <2>3, <2>4, Steady
<1>4. CASE ~mgr[chain[c].mgr].stopped
  <2>1. Goto(c, "lock")
    BY <1>4 DEF Wake
  <2>2. /\ chain' \in [Chains -> ChainStates] /\ Chained'
        /\ \A d \in Chains : chain'[d].mgr = chain[d].mgr /\ chain'[d].boot = chain[d].boot
        /\ \A d \in Chains \ {c} : chain'[d] = chain[d]
        /\ chain'[c].pc = "lock"
    BY <1>1, <2>1, GotoIs DEF WatchInv
  <2>3. \A m \in Managers : Excused(m) => Excused(m)'
    BY <1>2, <2>2 DEF Excused, InStart
  <2>4. QED
    BY <1>2, <2>2, <2>3, Steady
<1>5. QED
  BY <1>3, <1>4

\* The two steps of the take-over.
LEMMA TakeIs ==
  ASSUME WatchInv, NEW c \in Chains, TakeLock(c) \/ TakeOrphans(c), NEW m, m = chain[c].mgr
  PROVE  /\ UNCHANGED <<stop, cur>> /\ lock' \in Procs \cup {None}
         /\ InStart(c) /\ InStart(c)' /\ m \in Managers
         /\ chain' \in [Chains -> ChainStates] /\ Chained'
         /\ \A d \in Chains : chain'[d].mgr = chain[d].mgr /\ chain'[d].boot = chain[d].boot
         /\ \A d \in Chains \ {c} : chain'[d] = chain[d]
         /\ Tame(proc') /\ mgr' \in [Managers -> MgrStates]
         /\ \A k \in Managers : mgr'[k].proc = mgr[k].proc /\ mgr'[k].attempts = mgr[k].attempts
         /\ \A k \in Managers : mgr'[k].gone = mgr[k].gone /\ mgr'[k].crossed = mgr[k].crossed
         /\ \A k \in Managers \ {m} : mgr'[k] = mgr[k]
         /\ \/ mgr' = mgr /\ chain'[c].pc = "orphans"
            \/ ~mgr'[m].stopped /\ \A p \in Procs : proc'[p].st \notin RunStates
<1>1. CASE TakeLock(c)
  <2>1. /\ UNCHANGED <<stop, cur>> /\ chain[c].pc = "lock" /\ Goto(c, "orphans")
        /\ mgr' = mgr /\ lock' = None /\ proc' = Killed({lock})
    BY <1>1 DEF TakeLock, plugin
  <2>2. /\ chain' \in [Chains -> ChainStates] /\ Chained'
        /\ \A d \in Chains : chain'[d].mgr = chain[d].mgr /\ chain'[d].boot = chain[d].boot
        /\ \A d \in Chains \ {c} : chain'[d] = chain[d]
        /\ chain'[c].pc = "orphans" /\ chain[c].mgr \in Managers
    BY <2>1, GotoIs DEF WatchInv
  <2>3. Tame(proc') /\ mgr' \in [Managers -> MgrStates]
    BY <2>1, KilledIsTame DEF WatchInv, ManagerShape
  <2>4. InStart(c) /\ InStart(c)'
    BY <2>1, <2>2 DEF InStart
  <2>5. QED
    BY <2>1, <2>2, <2>3, <2>4
<1>2. CASE TakeOrphans(c)
  <2> DEFINE x == mgr[m]
             y == [x EXCEPT !.stopped = FALSE, !.failed = FALSE]
  <2>1. /\ UNCHANGED <<stop, lock, cur>> /\ chain[c].pc = "orphans" /\ Goto(c, "port")
        /\ mgr' = [mgr EXCEPT ![m] = y] /\ proc' = Killed(Orphans)
    BY <1>2 DEF TakeOrphans, plugin
  <2>2. /\ chain' \in [Chains -> ChainStates] /\ Chained'
        /\ \A d \in Chains : chain'[d].mgr = chain[d].mgr /\ chain'[d].boot = chain[d].boot
        /\ \A d \in Chains \ {c} : chain'[d] = chain[d]
        /\ chain'[c].pc = "port" /\ m \in Managers
    BY <2>1, GotoIs DEF WatchInv
  <2>3. Tame(proc') /\ \A p \in Procs : proc'[p].st \notin RunStates
    <3>1. /\ Tame(proc')
          /\ \A p \in Procs \cap Orphans : proc'[p].st \notin RunStates
      BY <2>1, KilledIsTame DEF WatchInv
    <3>2. ASSUME NEW p \in Procs, proc'[p].st \in RunStates PROVE p \in Orphans
      BY <3>1, <3>2 DEF Tame, Orphans, Runs, RunStates
    <3>3. QED
      BY <3>1, <3>2
  <2>4. InStart(c) /\ InStart(c)'
    BY <2>1, <2>2 DEF InStart
  <2>5. x \in MgrStates
    BY <2>2 DEF WatchInv, ManagerShape
  <2>6. /\ y \in MgrStates /\ y.proc = x.proc /\ y.attempts = x.attempts /\ ~y.stopped
        /\ y.gone = x.gone /\ y.crossed = x.crossed
    <3> HIDE DEF x
    <3> QED
      BY <2>5 DEF MgrStates
  <2> HIDE DEF y
  <2>7. /\ mgr' \in [Managers -> MgrStates] /\ ~mgr'[m].stopped
        /\ \A k \in Managers : mgr'[k].proc = mgr[k].proc /\ mgr'[k].attempts = mgr[k].attempts
        /\ \A k \in Managers : mgr'[k].gone = mgr[k].gone /\ mgr'[k].crossed = mgr[k].crossed
        /\ \A k \in Managers \ {m} : mgr'[k] = mgr[k]
    BY <2>1, <2>2, <2>6 DEF WatchInv, ManagerShape
  <2>8. lock' \in Procs \cup {None}
    BY <2>1 DEF WatchInv, ManagerShape
  <2>9. QED
    BY <2>1, <2>2, <2>3, <2>4, <2>7, <2>8
<1>3. QED
  BY <1>1, <1>2

\* A take-over takes no excuse away: the coroutine is one itself.
LEMMA TakeWatch ==
  ASSUME WatchInv, NEW c \in Chains, TakeLock(c) \/ TakeOrphans(c)
  PROVE  WatchInv'
<1>1. PICK m : m = chain[c].mgr
  OBVIOUS
<1>2. /\ UNCHANGED <<stop, cur>> /\ lock' \in Procs \cup {None}
      /\ InStart(c) /\ InStart(c)' /\ m \in Managers
      /\ chain' \in [Chains -> ChainStates] /\ Chained'
      /\ \A d \in Chains : chain'[d].mgr = chain[d].mgr /\ chain'[d].boot = chain[d].boot
      /\ \A d \in Chains \ {c} : chain'[d] = chain[d]
      /\ Tame(proc') /\ mgr' \in [Managers -> MgrStates]
      /\ \A k \in Managers : mgr'[k].proc = mgr[k].proc /\ mgr'[k].attempts = mgr[k].attempts
      /\ \A k \in Managers \ {m} : mgr'[k] = mgr[k]
  BY <1>1, TakeIs
<1>3. \A d \in Chains : InStart(d) => InStart(d)'
  BY <1>2 DEF InStart
<1>4. \A k \in Managers : Excused(k) => Excused(k)'
  BY <1>2, <1>3, SteadyExcuse
<1>5. ASSUME NEW k \in Managers, mgr[k].stopped, ~mgr'[k].stopped
      PROVE  Excused(k)'
  <2>1. k = m
    BY <1>2, <1>5
  <2>2. chain'[c].mgr = k
    BY <1>1, <1>2, <2>1
  <2>3. QED
    BY <1>2, <2>2 DEF Excused
<1>6. stop' \in [Stops -> StopStates] /\ cur' \in Managers \cup {None} /\ Called'
  BY <1>2 DEF WatchInv, ManagerShape, Called
<1>7. QED
  BY <1>2, <1>4, <1>5, <1>6, Steady

\* A coroutine that is over.
LEMMA OverIs ==
  ASSUME ManagerShape, Chained, NEW c \in Chains, chain' = [chain EXCEPT ![c] = Idle]
  PROVE  /\ chain' \in [Chains -> ChainStates] /\ Chained'
         /\ chain'[c] = Idle /\ \A d \in Chains \ {c} : chain'[d] = chain[d]
<1>1. /\ chain' \in [Chains -> ChainStates] /\ chain'[c] = Idle
      /\ \A d \in Chains \ {c} : chain'[d] = chain[d]
  BY FirstValues DEF ManagerShape
<1>2. Chained'
  BY <1>1 DEF Chained, Idle
<1>3. QED
  BY <1>1, <1>2

\* stop(), called by the plugin.
LEMMA StopWatch ==
  ASSUME WatchInv, NEW s \in Stops, NEW m \in Managers, NEW again \in BOOLEAN,
         BeginStop(s, m, mgr, again), UNCHANGED <<proc, chain, lock, cur>>
  PROVE  WatchInv'
<1>0. Tame(proc')
  BY DEF Tame, WatchInv, ManagerShape, Heard
<1>1. /\ mgr' \in [Managers -> MgrStates] /\ stop' \in [Stops -> StopStates] /\ Called'
      /\ \A k \in Managers : mgr'[k].proc = mgr[k].proc /\ mgr'[k].attempts = mgr[k].attempts
      /\ \A k \in Managers \ {m} : mgr'[k] = mgr[k]
      /\ mgr'[m].stopped
  <2>1. mgr \in [Managers -> MgrStates] /\ ManagerShape /\ Called
    BY DEF WatchInv, ManagerShape
  <2>2. QED
    BY <2>1, BeginStopIs
<1>2. \A k \in Managers : Excused(k) => Excused(k)'
  BY <1>1 DEF Excused, InStart
<1>3. /\ chain' \in [Chains -> ChainStates] /\ Chained'
      /\ cur' \in Managers \cup {None} /\ lock' \in Procs \cup {None}
  BY DEF WatchInv, ManagerShape, Chained
<1>4. \A k \in Managers : ~mgr'[k].stopped => ~mgr[k].stopped
  BY <1>1
<1>5. QED
  BY <1>0, <1>1, <1>2, <1>3, <1>4, Steady

\* awaitReady() returns, or the boot goes on to stop what it started.
LEMMA ReadyOkIs ==
  ASSUME WatchInv, NEW c \in Chains, ReadyOk(c), NEW m, m = chain[c].mgr
  PROVE  /\ chain[c].pc = "ready" /\ AnswersOk(m) /\ m \in Managers
         /\ UNCHANGED <<proc, lock, cur>> /\ chain' = [chain EXCEPT ![c] = Idle]
         /\ mgr' \in [Managers -> MgrStates] /\ stop' \in [Stops -> StopStates] /\ Called'
         /\ \A k \in Managers : /\ mgr'[k].proc = mgr[k].proc /\ mgr'[k].gone = mgr[k].gone
                                /\ mgr[k].stopped => mgr'[k].stopped
                                /\ mgr[k].crossed => mgr'[k].crossed
         /\ \A k \in Managers \ {m} : mgr'[k] = mgr[k]
         /\ \/ stop' = stop
            \/ \E mm \in [Managers -> MgrStates], s \in Stops :
                 /\ BeginStop(s, m, mm, FALSE)
                 /\ \A k \in Managers : /\ mm[k].proc = mgr[k].proc /\ mm[k].gone = mgr[k].gone
                                        /\ mgr[k].stopped => mm[k].stopped
                                        /\ mgr[k].crossed => mm[k].crossed
<1> DEFINE ready == [mgr EXCEPT ![m].attempts = 0]
<1>1. /\ chain[c].pc = "ready" /\ AnswersOk(m) /\ UNCHANGED <<proc, lock, cur>>
      /\ chain' = [chain EXCEPT ![c] = Idle]
      /\ \/ \E s \in Stops : BeginStop(s, m, ready, FALSE)
         \/ mgr' = ready /\ UNCHANGED stop
  BY DEF ReadyOk, plugin
<1>2. m \in Managers
  BY <1>1 DEF WatchInv, ManagerShape, Chained, ChainStates
<1>3. /\ ready \in [Managers -> MgrStates]
      /\ \A k \in Managers : /\ ready[k].proc = mgr[k].proc /\ ready[k].stopped = mgr[k].stopped
                             /\ ready[k].gone = mgr[k].gone /\ ready[k].crossed = mgr[k].crossed
      /\ \A k \in Managers \ {m} : ready[k] = mgr[k]
  <2> DEFINE x == mgr[m]
             y == [x EXCEPT !.attempts = 0]
  <2>1. x \in MgrStates /\ 0 \in 0..Backoffs
    BY <1>2, ConstantsAssumption DEF WatchInv, ManagerShape
  <2>2. /\ y \in MgrStates /\ y.proc = x.proc /\ y.stopped = x.stopped
        /\ y.gone = x.gone /\ y.crossed = x.crossed
    <3> HIDE DEF x
    <3> QED
      BY <2>1 DEF MgrStates
  <2>3. ready = [mgr EXCEPT ![m] = y]
    OBVIOUS
  <2> HIDE DEF ready, y
  <2>4. QED
    BY <1>2, <2>2, <2>3 DEF WatchInv, ManagerShape
<1> HIDE DEF ready
<1>4. ASSUME NEW s \in Stops, BeginStop(s, m, ready, FALSE)
      PROVE  /\ mgr' \in [Managers -> MgrStates] /\ stop' \in [Stops -> StopStates] /\ Called'
             /\ \A k \in Managers : /\ mgr'[k].proc = mgr[k].proc /\ mgr'[k].gone = mgr[k].gone
                                    /\ mgr[k].stopped => mgr'[k].stopped
                                    /\ mgr[k].crossed => mgr'[k].crossed
             /\ \A k \in Managers \ {m} : mgr'[k] = mgr[k]
  <2>1. ManagerShape /\ Called
    BY DEF WatchInv
  <2>2. PICK again \in BOOLEAN : BeginStop(s, m, ready, again)
    BY <1>4
  <2>3. /\ mgr' \in [Managers -> MgrStates] /\ stop' \in [Stops -> StopStates] /\ Called'
        /\ \A k \in Managers : /\ mgr'[k].proc = mgr[k].proc /\ mgr'[k].gone = ready[k].gone
                               /\ ready[k].stopped => mgr'[k].stopped
                               /\ ready[k].crossed => mgr'[k].crossed
        /\ \A k \in Managers \ {m} : mgr'[k] = ready[k]
    BY <1>2, <1>3, <2>1, <2>2, BeginStopIs
  <2>4. QED
    BY <1>3, <2>3
<1>5. CASE \E s \in Stops : BeginStop(s, m, ready, FALSE)
  BY <1>1, <1>2, <1>3, <1>4, <1>5
<1>6. CASE mgr' = ready /\ UNCHANGED stop
  <2>1. stop' \in [Stops -> StopStates] /\ Called'
    BY <1>6 DEF WatchInv, ManagerShape, Called
  <2>2. QED
    BY <1>1, <1>2, <1>3, <1>6, <2>1
<1>7. QED
  BY <1>1, <1>5, <1>6

\* A manager whose process answers has no exited one to excuse.
LEMMA ReadyOkWatch ==
  ASSUME WatchInv, NEW c \in Chains, ReadyOk(c)
  PROVE  WatchInv'
<1>1. PICK m : m = chain[c].mgr
  OBVIOUS
<1>2. /\ AnswersOk(m) /\ m \in Managers
      /\ UNCHANGED <<proc, lock, cur>> /\ chain' = [chain EXCEPT ![c] = Idle]
      /\ mgr' \in [Managers -> MgrStates] /\ stop' \in [Stops -> StopStates] /\ Called'
      /\ \A k \in Managers : mgr'[k].proc = mgr[k].proc /\ (mgr[k].stopped => mgr'[k].stopped)
      /\ \A k \in Managers \ {m} : mgr'[k] = mgr[k]
  BY <1>1, ReadyOkIs
<1>3. proc[mgr[m].proc].st # "exited"
  BY <1>2 DEF AnswersOk
<1>4. /\ chain' \in [Chains -> ChainStates] /\ Chained'
      /\ chain'[c] = Idle /\ \A d \in Chains \ {c} : chain'[d] = chain[d]
  BY <1>2, OverIs DEF WatchInv
<1>5. \A k \in Managers \ {m} : Excused(k) => Excused(k)'
  BY <1>1, <1>2, <1>4 DEF Excused, InStart
<1>6. Tame(proc') /\ cur' \in Managers \cup {None} /\ lock' \in Procs \cup {None}
  BY <1>2 DEF WatchInv, ManagerShape, Tame, Heard
<1>7. \A k \in Managers :
           /\ mgr[k].proc # None /\ proc[mgr[k].proc].st = "exited" /\ ~mgr'[k].stopped
           /\ mgr[k].stopped \/ Excused(k)
           => Excused(k)'
  BY <1>2, <1>3, <1>5
<1>8. QED
  BY <1>2, <1>4, <1>6, <1>7, Steady

\* awaitReady() throws.
LEMMA ReadyThrowsIs ==
  ASSUME WatchInv, NEW c \in Chains, ReadyThrows(c), NEW m, m = chain[c].mgr
  PROVE  /\ chain[c].pc = "ready" /\ m \in Managers /\ UNCHANGED <<proc, stop, lock, cur>>
         /\ mgr' \in [Managers -> MgrStates] /\ chain' \in [Chains -> ChainStates] /\ Chained'
         /\ \A k \in Managers : mgr'[k].proc = mgr[k].proc /\ (mgr[k].stopped => mgr'[k].stopped)
         /\ \A k \in Managers : mgr'[k].gone = mgr[k].gone /\ mgr'[k].crossed = mgr[k].crossed
         /\ \A k \in Managers \ {m} : mgr'[k] = mgr[k]
         /\ \A d \in Chains \ {c} : chain'[d] = chain[d]
         /\ chain'[c].pc \in {"idle", "sleep"}
         /\ \/ chain[c].boot /\ mgr'[m].attempts = mgr[m].attempts
            \/ chain'[c].mgr = m /\ ~chain'[c].boot
            \/ mgr'[m].attempts = Backoffs
<1> DEFINE p == mgr[m].proc
           running == p # None /\ ~HasExitCode(p)
           mm == IF running THEN [mgr EXCEPT ![m].stopped = TRUE] ELSE mgr
<1>1. /\ chain[c].pc = "ready" /\ UNCHANGED <<proc, stop, lock, cur>>
      /\ IF chain[c].boot THEN mgr' = mm /\ chain' = [chain EXCEPT ![c] = Idle]
         ELSE Schedule(c, m, mm)
  BY DEF ReadyThrows, plugin
<1>2. m \in Managers
  BY <1>1 DEF WatchInv, ManagerShape, Chained, ChainStates
<1>3. p \in Procs \cup {None}
  BY <1>2 DEF WatchInv, ManagerShape, MgrStates
<1>4. /\ mm \in [Managers -> MgrStates]
      /\ \A k \in Managers : /\ mm[k].proc = mgr[k].proc /\ mm[k].attempts = mgr[k].attempts
                             /\ mgr[k].stopped => mm[k].stopped
                             /\ mm[k].gone = mgr[k].gone /\ mm[k].crossed = mgr[k].crossed
      /\ \A k \in Managers \ {m} : mm[k] = mgr[k]
  <2>1. mgr \in [Managers -> MgrStates]
    BY DEF WatchInv, ManagerShape
  <2>2. CASE running
    <3>1. mm = Halted(mgr, m)
      BY <2>2 DEF Halted
    <3> HIDE DEF mm
    <3>2. QED
      BY <1>2, <2>1, <3>1, HaltedIs
  <2>3. CASE ~running
    BY <2>1, <2>3
  <2>4. QED
    BY <2>2, <2>3
<1> HIDE DEF mm, running
<1>6. /\ mgr' \in [Managers -> MgrStates] /\ chain' \in [Chains -> ChainStates] /\ Chained'
      /\ \A k \in Managers : mgr'[k].proc = mgr[k].proc /\ (mgr[k].stopped => mgr'[k].stopped)
      /\ \A k \in Managers : mgr'[k].gone = mgr[k].gone /\ mgr'[k].crossed = mgr[k].crossed
      /\ \A k \in Managers \ {m} : mgr'[k] = mgr[k]
      /\ \A d \in Chains \ {c} : chain'[d] = chain[d]
      /\ chain'[c].pc \in {"idle", "sleep"}
      /\ \/ chain[c].boot /\ mgr'[m].attempts = mgr[m].attempts
         \/ chain'[c].mgr = m /\ ~chain'[c].boot
         \/ mgr'[m].attempts = Backoffs
  <2>0. ManagerShape /\ Chained /\ Idle.pc = "idle"
    BY DEF WatchInv, Idle
  <2>1. CASE chain[c].boot
    <3>1. mgr' = mm /\ chain' = [chain EXCEPT ![c] = Idle]
      BY <1>1, <2>1
    <3>2. QED
      BY <1>2, <1>4, <2>0, <2>1, <3>1, OverIs
  <2>2. CASE ~chain[c].boot
    <3>1. Schedule(c, m, mm)
      BY <1>1, <2>2
    <3>2. QED
      BY <1>2, <1>4, <2>0, <3>1, ScheduleIs
  <2>3. QED
    BY <2>1, <2>2
<1>7. QED
  BY <1>1, <1>2, <1>6

\* A restart that fails goes on to the next, or has used them up.
LEMMA ReadyThrowsWatch ==
  ASSUME WatchInv, NEW c \in Chains, ReadyThrows(c)
  PROVE  WatchInv'
<1>0. PICK m : m = chain[c].mgr
  OBVIOUS
<1>1. chain[c].pc = "ready" /\ UNCHANGED <<proc, stop, lock, cur>> /\ m \in Managers
  BY <1>0, ReadyThrowsIs
<1>6. /\ mgr' \in [Managers -> MgrStates] /\ chain' \in [Chains -> ChainStates] /\ Chained'
      /\ \A k \in Managers : mgr'[k].proc = mgr[k].proc /\ (mgr[k].stopped => mgr'[k].stopped)
      /\ \A k \in Managers \ {m} : mgr'[k] = mgr[k]
      /\ \A d \in Chains \ {c} : chain'[d] = chain[d]
      /\ \/ chain[c].boot /\ mgr'[m].attempts = mgr[m].attempts
         \/ chain'[c].mgr = m /\ ~chain'[c].boot
         \/ mgr'[m].attempts = Backoffs
  BY <1>0, ReadyThrowsIs
<1>7. \A k \in Managers \ {m} : Excused(k) => Excused(k)'
  BY <1>0, <1>6 DEF Excused, InStart
<1>8. ASSUME NEW k \in Managers, k = m, Excused(k)
      PROVE  Excused(k)'
  <2>1. CASE chain[c].boot /\ mgr'[m].attempts = mgr[m].attempts
    <3>1. mgr'[k].attempts = mgr[k].attempts
      BY <1>8, <2>1
    <3>2. ~(~chain[c].boot \/ InStart(c))
      BY <1>1, <2>1 DEF InStart
    <3>3. QED
      BY <1>6, <1>8, <3>1, <3>2 DEF Excused, InStart
  <2>2. CASE (chain'[c].mgr = m /\ ~chain'[c].boot) \/ mgr'[m].attempts = Backoffs
    BY <1>8, <2>2 DEF Excused
  <2>3. QED
    BY <1>6, <2>1, <2>2
<1>9. /\ stop' \in [Stops -> StopStates] /\ Called' /\ Tame(proc')
      /\ cur' \in Managers \cup {None} /\ lock' \in Procs \cup {None}
  BY <1>1 DEF WatchInv, ManagerShape, Called, Tame, Heard
<1>10. \A k \in Managers :
           /\ mgr[k].proc # None /\ proc[mgr[k].proc].st = "exited" /\ ~mgr'[k].stopped
           /\ mgr[k].stopped \/ Excused(k)
           => Excused(k)'
  BY <1>6, <1>7, <1>8
<1>11. QED
  BY <1>1, <1>6, <1>9, <1>10, Steady

\* The exit event: what becomes of the process and of the stops that wait for it.
LEMMA ExitIs ==
  ASSUME WatchInv, NEW p \in Procs, NEW c \in Chains, ExitEvent(p, c)
  PROVE  /\ proc' \in [Procs -> ProcStates] /\ stop' \in [Stops -> StopStates] /\ Called'
         /\ lock' = None /\ UNCHANGED <<cur>>
         /\ \A q \in Procs \ {p} : proc'[q] = proc[q]
         /\ \/ proc'[p] = NoProc /\ mgr[proc[p].owner].proc # p
            \/ /\ proc'[p].st = "exited" /\ proc'[p].owner = proc[p].owner
               /\ mgr[proc[p].owner].proc = p
         /\ proc[p].owner \in Managers /\ proc[p].st = "dead" /\ chain[c].pc = "idle"
         /\ \A k \in Stops : \/ stop'[k] = stop[k]
                             \/ /\ stop[k].on = p /\ stop'[k].mgr = stop[k].mgr
                                /\ stop'[k].pc = "ending" /\ stop'[k].on = None
<1> DEFINE x == proc[p]
           y == [x EXCEPT !.st = "exited"]
           m == proc[p].owner
<1>1. /\ proc[p].st = "dead" /\ chain[c].pc = "idle" /\ lock' = None /\ UNCHANGED <<cur>>
      /\ proc' = [proc EXCEPT ![p] = IF mgr[m].proc = p THEN y ELSE NoProc]
  BY DEF ExitEvent, plugin
<1>2. x \in ProcStates
  BY DEF WatchInv, ManagerShape
<1>3. m \in Managers
  BY <1>1, <1>2 DEF WatchInv, Heard, ProcStates
<1>4. y \in ProcStates /\ y.st = "exited" /\ y.owner = x.owner
  <2> HIDE DEF x
  <2> QED
    BY <1>2 DEF ProcStates
<1>5. /\ stop' \in [Stops -> StopStates]
      /\ \A k \in Stops : \/ stop'[k] = stop[k]
                          \/ /\ stop[k].on = p /\ stop'[k].mgr = stop[k].mgr
                             /\ stop'[k].pc = "ending" /\ stop'[k].on = None
  <2>1. stop' = [s \in Stops |-> IF stop[s].on = p
                    THEN [stop[s] EXCEPT !.pc = "ending", !.on = None] ELSE stop[s]]
    BY DEF ExitEvent
  <2>2. ASSUME NEW k \in Stops
        PROVE  /\ stop'[k] \in StopStates
               /\ \/ stop'[k] = stop[k]
                  \/ /\ stop[k].on = p /\ stop'[k].mgr = stop[k].mgr
                     /\ stop'[k].pc = "ending" /\ stop'[k].on = None
    <3> DEFINE s == stop[k]
               z == [s EXCEPT !.pc = "ending", !.on = None]
    <3>1. s \in StopStates
      BY DEF WatchInv, ManagerShape
    <3>2. z \in StopStates /\ z.pc = "ending" /\ z.on = None /\ z.mgr = s.mgr
      <4> HIDE DEF s
      <4> QED
        BY <3>1 DEF StopStates
    <3>3. stop'[k] = IF s.on = p THEN z ELSE s
      BY <2>1
    <3> HIDE DEF z
    <3>4. QED
      BY <3>1, <3>2, <3>3
  <2>3. stop' = [k \in Stops |-> stop'[k]]
    BY <2>1
  <2>4. QED
    BY <2>2, <2>3
<1> HIDE DEF y
<1>6. /\ proc' \in [Procs -> ProcStates]
      /\ \A q \in Procs \ {p} : proc'[q] = proc[q]
      /\ proc'[p] = IF mgr[m].proc = p THEN y ELSE NoProc
  BY <1>1, <1>4, FirstValues DEF WatchInv, ManagerShape
<1>7. Called'
  BY <1>5, ConstantsAssumption DEF WatchInv, Called
<1>8. QED
  BY <1>1, <1>3, <1>4, <1>5, <1>6, <1>7

\* A slot that no manager has may be freed.
LEMMA ExitWatch ==
  ASSUME WatchInv, NEW p \in Procs, NEW c \in Chains, ExitEvent(p, c)
  PROVE  WatchInv'
<1> DEFINE m == proc[p].owner
<1>1. /\ proc' \in [Procs -> ProcStates] /\ stop' \in [Stops -> StopStates] /\ Called'
      /\ lock' = None /\ UNCHANGED <<cur>>
      /\ \A q \in Procs \ {p} : proc'[q] = proc[q]
      /\ \/ proc'[p] = NoProc /\ mgr[m].proc # p
         \/ proc'[p].st = "exited" /\ proc'[p].owner = m /\ mgr[m].proc = p
      /\ m \in Managers /\ proc[p].st = "dead" /\ chain[c].pc = "idle"
  BY ExitIs
<1>2. /\ mgr' \in [Managers -> MgrStates] /\ chain' \in [Chains -> ChainStates] /\ Chained'
      /\ \A k \in Managers : mgr'[k].proc = mgr[k].proc /\ mgr'[k].stopped = mgr[k].stopped
      /\ \A k \in Managers \ {m} : mgr'[k] = mgr[k]
      /\ \A d \in Chains \ {c} : chain'[d] = chain[d]
      /\ \/ mgr[m].stopped /\ mgr' = mgr /\ chain' = chain
         \/ chain'[c].pc = "sleep" /\ chain'[c].mgr = m /\ ~chain'[c].boot
         \/ mgr'[m].attempts = Backoffs
  <2>1. CASE mgr[m].stopped
    <3>1. mgr' = mgr /\ chain' = chain
      BY <2>1 DEF ExitEvent
    <3>2. QED
      BY <2>1, <3>1 DEF WatchInv, ManagerShape, Chained
  <2>2. CASE ~mgr[m].stopped
    <3>1. Schedule(c, m, mgr)
      BY <2>2 DEF ExitEvent
    <3>2. ManagerShape /\ Chained /\ mgr \in [Managers -> MgrStates]
      BY DEF WatchInv, ManagerShape
    <3>3. m \in Managers
      BY <1>1
    <3> HIDE DEF m
    <3>4. QED
      BY <3>1, <3>2, <3>3, ScheduleIs
  <2>3. QED
    BY <2>1, <2>2
<1>3. chain[c].mgr = None
  BY <1>1 DEF WatchInv, Chained
<1>4. NoProc.st = "none" /\ NoProc.owner = None
  BY DEF NoProc
<1>5. ManagerShape'
  BY <1>1, <1>2 DEF WatchInv, ManagerShape
<1>6. Heard'
  BY <1>1, <1>4 DEF WatchInv, Heard
<1>7. \A k \in Managers : mgr[k].proc \in Procs \cup {None}
  BY DEF WatchInv, ManagerShape, MgrStates
<1>8. \A k \in Managers : mgr[k].proc = p => k = m
  BY <1>1, ConstantsAssumption DEF WatchInv, Holds
<1>9. Holds'
  <2> SUFFICES ASSUME NEW k \in Managers, mgr[k].proc # None
               PROVE  proc'[mgr[k].proc].owner = k /\ proc'[mgr[k].proc].st # "none"
    BY <1>2 DEF Holds
  <2>1. CASE mgr[k].proc = p
    BY <1>1, <1>8, <2>1
  <2>2. CASE mgr[k].proc # p
    BY <1>1, <1>7, <2>2 DEF WatchInv, Holds
  <2>3. QED
    BY <2>1, <2>2
<1>10. ASSUME NEW k \in Managers, mgr[k].proc # None,
              proc'[mgr[k].proc].st = "exited", ~mgr[k].stopped
       PROVE  Excused(k)'
  <2>1. CASE k = m
    <3>1. \/ chain'[c].pc = "sleep" /\ chain'[c].mgr = k /\ ~chain'[c].boot
          \/ mgr'[k].attempts = Backoffs
      BY <1>2, <1>10, <2>1
    <3>2. QED
      BY <3>1 DEF Excused
  <2>2. CASE k # m
    <3>1. proc[mgr[k].proc].st = "exited"
      BY <1>1, <1>7, <1>8, <1>10, <2>2
    <3>2. Excused(k)
      BY <1>10, <3>1 DEF WatchInv, Replaced
    <3>3. k # None /\ mgr'[k] = mgr[k]
      BY <1>2, <2>2, ConstantsAssumption
    <3>4. QED
      BY <1>2, <1>3, <3>2, <3>3 DEF Excused, InStart
  <2>3. QED
    BY <2>1, <2>2
<1>11. Replaced'
  BY <1>2, <1>10 DEF Replaced
<1>12. QED
  BY <1>1, <1>2, <1>5, <1>6, <1>9, <1>11 DEF WatchInv

\* A spawn, whether it fails or not: the manager lets go of the process it had
\* and has p from now on.
LEMMA BirthIs ==
  ASSUME WatchInv, NEW c \in Chains, NEW p \in Procs, Spawn(c, p) \/ SpawnFails(c, p)
  PROVE  /\ chain[c].pc = "port" /\ chain[c].mgr \in Managers
         /\ proc' \in [Procs -> ProcStates]
         /\ mgr' \in [Managers -> MgrStates]
         /\ Goto(c, "ready") /\ UNCHANGED <<stop, cur>> /\ lock' \in Procs \cup {None}
         /\ proc'[p].st \in {"starting", "unborn"} /\ proc'[p].owner = chain[c].mgr
         /\ \A r \in Procs \ {p} :
              \/ proc'[r] = proc[r]
              \/ r = mgr[chain[c].mgr].proc /\ proc'[r] = NoProc
         /\ proc[p].st = "none" \/ p = mgr[chain[c].mgr].proc
         /\ \A k \in Managers : mgr'[k].stopped = mgr[k].stopped
         /\ \A k \in Managers : mgr'[k].gone = mgr[k].gone /\ mgr'[k].crossed = mgr[k].crossed
         /\ proc'[p].st = "starting" => proc'[p].unseen = Overlaps(c)
         /\ \A k \in Managers \ {chain[c].mgr} : mgr'[k] = mgr[k]
         /\ mgr'[chain[c].mgr].proc = p
<1> DEFINE m == chain[c].mgr
           q == mgr[m].proc
           left == Released(proc, q)
           x == mgr[m]
<1>1. /\ chain[c].pc = "port" /\ left[p].st = "none"
      /\ Goto(c, "ready") /\ UNCHANGED <<stop, cur>> /\ lock' \in Procs \cup {None}
  BY DEF Spawn, SpawnFails, plugin
<1>2. m \in Managers
  BY <1>1 DEF WatchInv, ManagerShape, Chained, ChainStates
<1>3. x \in MgrStates /\ q \in Procs \cup {None}
  BY <1>2 DEF WatchInv, ManagerShape, MgrStates
<1>4. Freed(q, left)
  <2>1. ManagerShape
    BY DEF WatchInv
  <2> HIDE DEF q
  <2>2. QED
    BY <1>3, <2>1, ReleasedIsFreed
<1>5. PICK y \in ProcStates : /\ proc' = [left EXCEPT ![p] = y]
                              /\ y.st \in {"starting", "unborn"} /\ y.owner = m
                              /\ y.st = "starting" => y.unseen = Overlaps(c)
  <2>1. CASE Spawn(c, p)
    <3> DEFINE ov == Overlaps(c)
               y == [st |-> "starting", sig |-> FALSE, owner |-> m, unseen |-> ov]
    <3>0. ov \in BOOLEAN
      BY DEF Overlaps
    <3>1. /\ y \in ProcStates /\ y.st \in {"starting", "unborn"} /\ y.owner = m
          /\ y.unseen = ov
      <4> HIDE DEF m, ov
      <4> QED
        BY <1>2, <3>0 DEF ProcStates
    <3>2. proc' = [left EXCEPT ![p] = y]
      BY <2>1 DEF Spawn
    <3> HIDE DEF y, left, m
    <3>3. QED
      BY <3>1, <3>2
  <2>2. CASE SpawnFails(c, p)
    <3>1. PICK sig \in BOOLEAN :
             proc' = [left EXCEPT ![p] =
                        [st |-> "unborn", sig |-> sig, owner |-> m, unseen |-> FALSE]]
      BY <2>2 DEF SpawnFails
    <3> DEFINE y == [st |-> "unborn", sig |-> sig, owner |-> m, unseen |-> FALSE]
    <3>2. y \in ProcStates /\ y.st \in {"starting", "unborn"} /\ y.st = "unborn" /\ y.owner = m
      <4> HIDE DEF m
      <4> QED
        BY <1>2, <3>1 DEF ProcStates
    <3>3. proc' = [left EXCEPT ![p] = y]
      BY <3>1
    <3> HIDE DEF y, left, m
    <3>4. QED
      BY <3>2, <3>3
  <2>3. QED
    BY <2>1, <2>2
<1>6. PICK z \in MgrStates : /\ mgr' = [mgr EXCEPT ![m] = z]
                             /\ z.proc = p /\ z.stopped = x.stopped
                             /\ z.gone = x.gone /\ z.crossed = x.crossed
  <2>1. CASE Spawn(c, p)
    <3> DEFINE z == [x EXCEPT !.proc = p]
    <3>1. mgr' = [mgr EXCEPT ![m] = z]
      BY <2>1 DEF Spawn
    <3>2. z \in MgrStates /\ z.proc = p /\ z.stopped = x.stopped /\ z.gone = x.gone /\ z.crossed = x.crossed
      <4> HIDE DEF x
      <4> QED
        BY <1>3 DEF MgrStates
    <3> HIDE DEF z, x, m
    <3>3. QED
      BY <3>1, <3>2
  <2>2. CASE SpawnFails(c, p)
    <3> DEFINE z == [x EXCEPT !.proc = p, !.failed = TRUE]
    <3>1. mgr' = [mgr EXCEPT ![m] = z]
      BY <2>2 DEF SpawnFails
    <3>2. z \in MgrStates /\ z.proc = p /\ z.stopped = x.stopped /\ z.gone = x.gone /\ z.crossed = x.crossed
      <4> HIDE DEF x
      <4> QED
        BY <1>3 DEF MgrStates
    <3> HIDE DEF z, x, m
    <3>3. QED
      BY <3>1, <3>2
  <2>3. QED
    BY <2>1, <2>2
<1>7. /\ left \in [Procs -> ProcStates]
      /\ \A r \in Procs : left[r] = proc[r] \/ (r = q /\ left[r] = NoProc)
  BY <1>4 DEF Freed
<1> HIDE DEF left
<1>8. /\ proc' \in [Procs -> ProcStates] /\ proc'[p] = y
      /\ \A r \in Procs \ {p} : proc'[r] = left[r]
  BY <1>5, <1>7
<1>9. /\ mgr' \in [Managers -> MgrStates] /\ mgr'[m] = z
      /\ \A k \in Managers \ {m} : mgr'[k] = mgr[k]
  BY <1>2, <1>6 DEF WatchInv, ManagerShape
<1>10. proc[p].st = "none" \/ p = q
  BY <1>1, <1>7
<1>11. \A k \in Managers : /\ mgr'[k].stopped = mgr[k].stopped
                           /\ mgr'[k].gone = mgr[k].gone /\ mgr'[k].crossed = mgr[k].crossed
  BY <1>6, <1>9
<1>12. \A r \in Procs \ {p} : proc'[r] = proc[r] \/ (r = q /\ proc'[r] = NoProc)
  BY <1>7, <1>8
<1>13. QED
  BY <1>1, <1>2, <1>5, <1>6, <1>8, <1>9, <1>10, <1>11, <1>12

\* No two managers have the same process.
LEMMA OwnProcess ==
  ASSUME WatchInv, NEW k \in Managers, NEW m \in Managers, mgr[k].proc = mgr[m].proc,
         mgr[k].proc # None
  PROVE  k = m
  BY DEF WatchInv, Holds

\* The new process has not exited, and nobody else's slot is touched.
LEMMA BirthWatch ==
  ASSUME WatchInv, NEW c \in Chains, NEW p \in Procs, Spawn(c, p) \/ SpawnFails(c, p)
  PROVE  WatchInv'
<1>1. PICK m \in Managers : m = chain[c].mgr
  BY BirthIs
<1>2. /\ chain[c].pc = "port"
      /\ proc' \in [Procs -> ProcStates] /\ mgr' \in [Managers -> MgrStates]
      /\ Goto(c, "ready") /\ UNCHANGED <<stop, cur>> /\ lock' \in Procs \cup {None}
      /\ proc'[p].st \in {"starting", "unborn"} /\ proc'[p].owner = m
      /\ \A r \in Procs \ {p} :
           proc'[r] = proc[r] \/ (r = mgr[m].proc /\ proc'[r] = NoProc)
      /\ proc[p].st = "none" \/ p = mgr[m].proc
      /\ \A k \in Managers : mgr'[k].stopped = mgr[k].stopped
      /\ \A k \in Managers \ {m} : mgr'[k] = mgr[k]
      /\ mgr'[m].proc = p
  BY <1>1, BirthIs
<1>3. /\ chain' \in [Chains -> ChainStates] /\ Chained'
      /\ \A d \in Chains : chain'[d].mgr = chain[d].mgr /\ chain'[d].boot = chain[d].boot
      /\ \A d \in Chains \ {c} : chain'[d] = chain[d]
  BY <1>2, GotoIs DEF WatchInv
<1>4. ManagerShape'
  BY <1>2, <1>3 DEF WatchInv, ManagerShape
<1>5. NoProc.st = "none" /\ NoProc.owner = None
  BY DEF NoProc
<1>6. Heard'
  BY <1>2, <1>5 DEF WatchInv, Heard
<1>7. ASSUME NEW k \in Managers \ {m}, mgr[k].proc # None
      PROVE  mgr[k].proc \in Procs \ {p} /\ proc'[mgr[k].proc] = proc[mgr[k].proc]
  <2>1. mgr[k].proc \in Procs /\ proc[mgr[k].proc].st # "none"
    BY <1>7 DEF WatchInv, ManagerShape, MgrStates, Holds
  <2>2. mgr[k].proc # mgr[m].proc
    BY <1>7, OwnProcess
  <2>3. QED
    BY <1>2, <2>1, <2>2
<1>8. Holds'
  <2> SUFFICES ASSUME NEW k \in Managers, mgr'[k].proc # None
               PROVE  proc'[mgr'[k].proc].owner = k /\ proc'[mgr'[k].proc].st # "none"
    BY DEF Holds
  <2>1. CASE k = m
    BY <1>2, <2>1
  <2>2. CASE k # m
    BY <1>2, <1>7, <2>2 DEF WatchInv, Holds
  <2>3. QED
    BY <2>1, <2>2
<1>9. Replaced'
  <2> SUFFICES ASSUME NEW k \in Managers, mgr'[k].proc # None,
                      proc'[mgr'[k].proc].st = "exited", ~mgr'[k].stopped
               PROVE  Excused(k)'
    BY DEF Replaced
  <2>1. k # m
    BY <1>2
  <2>2. mgr'[k] = mgr[k] /\ mgr[k].proc # None
    BY <1>2, <2>1
  <2>3. Excused(k)
    BY <1>7, <2>1, <2>2 DEF WatchInv, Replaced
  <2>4. QED
    BY <1>1, <1>3, <2>1, <2>2, <2>3 DEF Excused, InStart
<1>10. Called'
  BY <1>2 DEF WatchInv, Called
<1>11. QED
  BY <1>3, <1>4, <1>6, <1>8, <1>9, <1>10 DEF WatchInv

\* A manager that lets go of its process: the end of stop(), a manager replaced.
LEMMA LetGo ==
  ASSUME WatchInv, NEW m \in Managers, proc' = Released(proc, mgr[m].proc),
         mgr' \in [Managers -> MgrStates], mgr'[m].proc = None,
         \A k \in Managers \ {m} : mgr'[k] = mgr[k],
         chain' \in [Chains -> ChainStates], stop' \in [Stops -> StopStates],
         cur' \in Managers \cup {None}, lock' \in Procs \cup {None}, Chained', Called',
         \A c \in Chains : chain[c].pc # "idle" => chain'[c] = chain[c]
  PROVE  WatchInv'
<1>1. mgr[m].proc \in Procs \cup {None} /\ ManagerShape
  BY DEF WatchInv, ManagerShape, MgrStates
<1>2. Freed(mgr[m].proc, proc')
  BY <1>1, ReleasedIsFreed
<1>3. ManagerShape'
  BY <1>2 DEF ManagerShape, Freed
<1>4. Heard'
  BY <1>2 DEF Freed, WatchInv, Heard, NoProc
<1>5. ASSUME NEW k \in Managers, mgr'[k].proc # None
      PROVE  k # m /\ mgr'[k] = mgr[k] /\ proc'[mgr[k].proc] = proc[mgr[k].proc]
  <2>1. k # m /\ mgr'[k] = mgr[k]
    BY <1>5
  <2>2. mgr[k].proc \in Procs /\ mgr[k].proc # mgr[m].proc
    BY <1>5, <2>1, OwnProcess DEF WatchInv, ManagerShape, MgrStates
  <2>3. QED
    BY <1>2, <2>1, <2>2 DEF Freed
<1>6. Holds'
  BY <1>5 DEF WatchInv, Holds
<1>7. Replaced'
  <2> SUFFICES ASSUME NEW k \in Managers, mgr'[k].proc # None,
                      proc'[mgr'[k].proc].st = "exited", ~mgr'[k].stopped
               PROVE  Excused(k)'
    BY DEF Replaced
  <2>1. Excused(k) /\ mgr'[k] = mgr[k] /\ k # None
    BY <1>5, ConstantsAssumption DEF WatchInv, Replaced
  <2>2. \A c \in Chains : chain[c].mgr = k => chain'[c] = chain[c]
    BY <2>1 DEF WatchInv, Chained
  <2>3. QED
    BY <2>1, <2>2 DEF Excused, InStart
<1>8. QED
  BY <1>3, <1>4, <1>6, <1>7 DEF WatchInv

\* The end of stop(): the manager has no process any more.
LEMMA StopEndIs ==
  ASSUME WatchInv, NEW s \in Stops, StopEnd(s), NEW m, m = stop[s].mgr, m # None
  PROVE  /\ m \in Managers /\ proc' = Released(proc, mgr[m].proc)
         /\ mgr' \in [Managers -> MgrStates] /\ mgr'[m].proc = None /\ mgr'[m].gone
         /\ mgr'[m].stopped = mgr[m].stopped /\ mgr'[m].crossed = mgr[m].crossed
         /\ \A k \in Managers \ {m} : mgr'[k] = mgr[k]
         /\ stop' \in [Stops -> StopStates] /\ stop'[s] = NoStop
         /\ \A t \in Stops \ {s} : stop'[t] = stop[t]
         /\ lock' = None /\ cur' \in {cur, None} /\ UNCHANGED <<chain>>
<1> DEFINE x == mgr[m]
           y == [x EXCEPT !.proc = None, !.gone = TRUE]
<1>1. /\ proc' = Released(proc, mgr[m].proc) /\ mgr' = [mgr EXCEPT ![m] = y]
      /\ stop' = [stop EXCEPT ![s] = NoStop]
      /\ lock' = None /\ cur' \in {cur, None} /\ UNCHANGED <<chain>>
  BY DEF StopEnd
<1>2. m \in Managers
  BY DEF WatchInv, ManagerShape, StopStates
<1>3. x \in MgrStates
  BY <1>2 DEF WatchInv, ManagerShape
<1>4. /\ y \in MgrStates /\ y.proc = None /\ y.gone
      /\ y.stopped = x.stopped /\ y.crossed = x.crossed
  <2> HIDE DEF x
  <2> QED
    BY <1>3 DEF MgrStates
<1> HIDE DEF y
<1>5. /\ mgr' \in [Managers -> MgrStates] /\ mgr'[m] = y
      /\ \A k \in Managers \ {m} : mgr'[k] = mgr[k]
  BY <1>1, <1>2, <1>4 DEF WatchInv, ManagerShape
<1>6. /\ stop' \in [Stops -> StopStates] /\ stop'[s] = NoStop
      /\ \A t \in Stops \ {s} : stop'[t] = stop[t]
  BY <1>1, FirstValues DEF WatchInv, ManagerShape
<1>7. QED
  BY <1>1, <1>2, <1>4, <1>5, <1>6

\* The end of stop().
LEMMA StopEndWatch ==
  ASSUME WatchInv, NEW s \in Stops, StopEnd(s)
  PROVE  WatchInv'
<1>1. PICK m : m = stop[s].mgr
  OBVIOUS
<1>2. m # None
  BY <1>1 DEF WatchInv, Called, StopEnd
<1>3. /\ m \in Managers /\ proc' = Released(proc, mgr[m].proc)
      /\ mgr' \in [Managers -> MgrStates] /\ mgr'[m].proc = None
      /\ \A k \in Managers \ {m} : mgr'[k] = mgr[k]
      /\ stop' \in [Stops -> StopStates]
      /\ lock' = None /\ cur' \in {cur, None} /\ UNCHANGED <<chain>>
      /\ stop'[s] = NoStop /\ \A t \in Stops \ {s} : stop'[t] = stop[t]
  BY <1>1, <1>2, StopEndIs
<1>4. /\ chain' \in [Chains -> ChainStates] /\ Chained'
      /\ cur' \in Managers \cup {None} /\ lock' \in Procs \cup {None}
  BY <1>3 DEF WatchInv, ManagerShape, Chained
<1>5. Called'
  BY <1>3 DEF WatchInv, Called, NoStop
<1>6. QED
  BY <1>3, <1>4, <1>5, LetGo

\* A boot takes a manager that nothing refers to.
LEMMA BootWatch ==
  ASSUME WatchInv, NEW c \in Chains, NEW m \in Managers, Boot(c, m)
  PROVE  WatchInv'
<1> DEFINE z == [pc |-> "lock", mgr |-> m, boot |-> TRUE]
<1>1. /\ proc' = Released(proc, mgr[m].proc) /\ mgr' = [mgr EXCEPT ![m] = Fresh]
      /\ chain' = [chain EXCEPT ![c] = z]
      /\ UNCHANGED <<stop, lock>> /\ cur' = m /\ chain[c].pc = "idle"
  BY DEF Boot
<1>2. z \in ChainStates /\ z.pc = "lock" /\ z.mgr = m /\ m # None
  BY ConstantsAssumption DEF ChainStates
<1> HIDE DEF z
<1>3. /\ mgr' \in [Managers -> MgrStates] /\ mgr'[m] = Fresh
      /\ \A k \in Managers \ {m} : mgr'[k] = mgr[k]
  BY <1>1, FirstValues DEF WatchInv, ManagerShape
<1>4. Fresh.proc = None
  BY DEF Fresh
<1>5. /\ stop' \in [Stops -> StopStates] /\ Called'
      /\ cur' \in Managers \cup {None} /\ lock' \in Procs \cup {None}
  BY <1>1, FirstValues DEF WatchInv, ManagerShape, Called
<1>6. /\ chain' \in [Chains -> ChainStates] /\ chain'[c] = z
      /\ \A d \in Chains \ {c} : chain'[d] = chain[d]
  BY <1>1, <1>2 DEF WatchInv, ManagerShape
<1>7. Chained'
  BY <1>2, <1>6 DEF WatchInv, Chained
<1>8. QED
  BY <1>1, <1>3, <1>4, <1>5, <1>6, <1>7, LetGo

\* Obsidian ends.
LEMMA CloseIs ==
  ASSUME WatchInv, Close
  PROVE  /\ proc' \in [Procs -> ProcStates]
         /\ \A p \in Procs : /\ proc'[p].owner = None
                             /\ proc'[p].st \in RunStates \cup {"none"}
                             /\ proc'[p].st \in RunStates =>
                                  proc[p].st \in RunStates /\ proc'[p].unseen = proc[p].unseen
         /\ lock' \in Procs \cup {None}
<1>1. ASSUME NEW p \in Procs
      PROVE  /\ proc'[p] \in ProcStates
             /\ proc'[p].owner = None
             /\ proc'[p].st \in RunStates \cup {"none"}
             /\ proc'[p].st \in RunStates =>
                  proc[p].st \in RunStates /\ proc'[p].unseen = proc[p].unseen
  <2> DEFINE x == proc[p]
             y == [x EXCEPT !.owner = None]
  <2>1. x \in ProcStates
    BY DEF WatchInv, ManagerShape
  <2>2. y \in ProcStates /\ y.owner = None /\ y.st = x.st /\ y.unseen = x.unseen
    <3> HIDE DEF x
    <3> QED
      BY <2>1 DEF ProcStates
  <2>3. proc'[p] = IF Runs(p) THEN y ELSE NoProc
    BY DEF Close
  <2>4. NoProc.owner = None /\ NoProc.st = "none"
    BY DEF NoProc
  <2> HIDE DEF y
  <2>5. QED
    BY <2>2, <2>3, <2>4, FirstValues DEF Runs, RunStates
<1>2. proc' = [p \in Procs |-> proc'[p]]
  BY DEF Close
<1>3. lock' \in Procs \cup {None}
  BY DEF Close, WatchInv, ManagerShape
<1>4. QED
  BY <1>1, <1>2, <1>3

\* After the end of Obsidian nobody watches, and nobody has to.
LEMMA CloseWatch ==
  ASSUME WatchInv, Close
  PROVE  WatchInv'
<1>1. /\ mgr' = [m \in Managers |-> Fresh] /\ chain' = [c \in Chains |-> Idle]
      /\ stop' = [s \in Stops |-> NoStop] /\ cur' = None
  BY DEF Close
<1>2. /\ proc' \in [Procs -> ProcStates] /\ lock' \in Procs \cup {None}
      /\ \A p \in Procs : proc'[p].st # "dead"
  BY CloseIs DEF RunStates
<1>3. ManagerShape'
  BY <1>1, <1>2, FirstValues DEF ManagerShape
<1>4. Chained' /\ Called' /\ Heard' /\ Holds' /\ Replaced'
  BY <1>1, <1>2 DEF Chained, Called, Heard, Holds, Replaced, Idle, Fresh, NoStop
<1>5. QED
  BY <1>3, <1>4 DEF WatchInv

\* WatchInv holds at first, every step keeps it, so it always holds.
LEMMA WatchInvInit == ManagerInit => WatchInv
<1> SUFFICES ASSUME ManagerInit PROVE WatchInv
  OBVIOUS
<1>1. ManagerShape
  BY FirstValues DEF ManagerInit, ManagerShape
<1>2. Chained /\ Called /\ Heard /\ Holds /\ Replaced
  BY DEF ManagerInit, Chained, Called, Heard, Holds, Replaced, NoProc, Fresh, Idle, NoStop
<1>3. QED
  BY <1>1, <1>2 DEF WatchInv

\* One step per action.
LEMMA WatchInvStep == WatchInv /\ [ManagerNext]_managerVars => WatchInv'
<1> SUFFICES ASSUME WatchInv, [ManagerNext]_managerVars PROVE WatchInv'
  OBVIOUS
<1>1. CASE UNCHANGED managerVars
  BY <1>1 DEF managerVars, plugin, WatchInv, ManagerShape, Chained, Called, Heard, Holds,
              Replaced, Excused, InStart
<1>2. ASSUME NEW c \in Chains, ChainStep(c) PROVE WatchInv'
  BY <1>2, WakeWatch, TakeWatch, BirthWatch, ReadyOkWatch, ReadyThrowsWatch DEF ChainStep
<1>3. ASSUME NEW p \in Procs, BecomesOk(p) \/ BecomesError(p) \/ Dies(p) PROVE WatchInv'
  BY <1>3, ProcWatch
<1>4. ASSUME NEW p \in Procs, NEW c \in Chains, ExitEvent(p, c) PROVE WatchInv'
  BY <1>4, ExitWatch
<1>5. ASSUME NEW s \in Stops, StopEnd(s) PROVE WatchInv'
  BY <1>5, StopEndWatch
<1>6. ASSUME NEW m \in Managers, NEW c \in Chains, Boot(c, m) PROVE WatchInv'
  BY <1>6, BootWatch
<1>7. CASE RunBackend \/ BootDropped \/ Open
  BY <1>7, PluginWatch
<1>8. ASSUME NEW s \in Stops, NEW again \in BOOLEAN, Stop(s, again) PROVE WatchInv'
  <2>1. PICK m \in Managers : m = cur
    BY <1>8 DEF Stop, WatchInv, ManagerShape
  <2>2. BeginStop(s, m, mgr, again) /\ UNCHANGED <<proc, chain, lock, cur>>
    BY <1>8, <2>1 DEF Stop, plugin
  <2>3. QED
    BY <1>8, <2>2, StopWatch
<1>9. CASE Unload
  <2>1. UNCHANGED <<proc, chain, lock, cur>>
    BY <1>9 DEF Unload
  <2>2. CASE cur # None
    <3>1. PICK m \in Managers : m = cur
      BY <2>2 DEF WatchInv, ManagerShape
    <3>2. PICK s \in Stops : BeginStop(s, m, mgr, FALSE)
      BY <1>9, <2>2, <3>1 DEF Unload
    <3>3. QED
      BY <2>1, <3>2, StopWatch
  <2>3. CASE cur = None
    <3>1. UNCHANGED <<mgr, stop>>
      BY <1>9, <2>3 DEF Unload
    <3>2. QED
      BY <2>1, <3>1 DEF WatchInv, ManagerShape, Chained, Called, Heard, Holds, Replaced, Excused, InStart
  <2>4. QED
    BY <2>2, <2>3
<1>10. CASE Close
  BY <1>10, CloseWatch
<1>11. QED
  BY <1>1, <1>2, <1>3, <1>4, <1>5, <1>6, <1>7, <1>8, <1>9, <1>10 DEF ManagerNext

\* The plugin's flags keep their types.
LEMMA ManagerFlagsStep ==
  ASSUME ManagerFlags, [ManagerNext]_managerVars
  PROVE  ManagerFlags'
<1>1. ASSUME NEW c \in Chains, ChainStep(c) PROVE ManagerFlags'
  BY <1>1, Zenon DEF ManagerFlags, ChainStep, Wake, TakeLock, TakeOrphans, Spawn, SpawnFails,
                     ReadyOk, ReadyThrows, plugin
<1>2. ASSUME NEW p \in Procs, BecomesOk(p) \/ BecomesError(p) \/ Dies(p) PROVE ManagerFlags'
  BY <1>2, Zenon DEF ManagerFlags, BecomesOk, BecomesError, Dies, plugin
<1>3. ASSUME NEW p \in Procs, NEW c \in Chains, ExitEvent(p, c) PROVE ManagerFlags'
  BY <1>3, Zenon DEF ManagerFlags, ExitEvent, plugin
<1>4. ASSUME NEW s \in Stops, StopEnd(s) PROVE ManagerFlags'
  <2>1. UNCHANGED <<open, unloaded>> /\ due' \in BOOLEAN
    BY <1>4, Zenon DEF StopEnd
  <2>2. QED
    BY <2>1, Zenon DEF ManagerFlags
<1>5. ASSUME NEW m \in Managers, NEW c \in Chains, Boot(c, m) PROVE ManagerFlags'
  BY <1>5, Zenon DEF ManagerFlags, Boot
<1>6. CASE RunBackend \/ BootDropped \/ Unload \/ Close \/ Open
  BY <1>6, Zenon DEF ManagerFlags, RunBackend, BootDropped, Unload, Close, Open
<1>7. ASSUME NEW s \in Stops, Stop(s, TRUE) \/ Stop(s, FALSE) PROVE ManagerFlags'
  BY <1>7, Zenon DEF ManagerFlags, Stop, plugin
<1>8. CASE UNCHANGED managerVars
  BY <1>8, Zenon DEF ManagerFlags, managerVars, plugin
<1>9. QED
  BY <1>1, <1>2, <1>3, <1>4, <1>5, <1>6, <1>7, <1>8 DEF ManagerNext

\* The managers always watch.
LEMMA WatchInvHolds == ManagerSpec => []WatchInv
  BY WatchInvInit, WatchInvStep, PTL DEF ManagerSpec

\* The managers' variables keep their types, whatever interleaves.
THEOREM ManagerTypeCorrect == ManagerSpec => []ManagerTypeOK
<1>1. ManagerInit => ManagerFlags
  BY Zenon DEF ManagerInit, ManagerFlags
<1>2. ManagerSpec => []ManagerFlags
  BY <1>1, ManagerFlagsStep, PTL DEF ManagerSpec
<1>3. WatchInv /\ ManagerFlags => ManagerTypeOK
  BY DEF WatchInv, ManagerShape, ManagerFlags, ManagerTypeOK, ProcStates, MgrStates,
         ChainStates, StopStates
<1>4. QED
  BY <1>2, <1>3, WatchInvHolds, PTL

\* A sidecar that died and that nobody stopped is being replaced, or its manager
\* has used up its restarts (manager.ts 330-346, 372-386).  Nothing is assumed of
\* what comes between the steps of a start().
THEOREM NobodyMissing == ManagerSpec => []NeverSilentlyDown
<1>1. WatchInv => NeverSilentlyDown
  BY DEF WatchInv, Replaced, Excused, NeverSilentlyDown
<1>2. QED
  BY <1>1, WatchInvHolds, PTL

-----------------------------------------------------------------------------
(* One sidecar, and none after a stop                                      *)

\* A process that every start() yet to spawn will look for: none is past its look.
Seen ==
  \A p \in Procs : Runs(p) /\ ~proc[p].unseen => \A c \in Chains : chain[c].pc # "port"

\* p runs, was started by m, and is marked neither by overlapping starts nor by a
\* stop() that crossed a start().
Plain(m, p) == proc[p].owner = m /\ Runs(p) /\ ~proc[p].unseen /\ ~mgr[m].crossed

\* Such a process is the one that its manager has, and that each of its stop()s
\* waits for; once one has returned there is none.
Owned == \A m \in Managers, p \in Procs : Plain(m, p) => mgr[m].proc = p
Awaited ==
  \A m \in Managers, p \in Procs, s \in Stops :
    Plain(m, p) /\ stop[s].mgr = m => stop[s].on = p
NoneLeft == \A m \in Managers, p \in Procs : Plain(m, p) => ~mgr[m].gone

\* A manager that is being stopped, or was, says so and starts nothing, unless the
\* stop() crossed a start().
Halting(m) == mgr[m].gone \/ \E s \in Stops : stop[s].mgr = m
CalmAt(m) ==
  Halting(m) /\ ~mgr[m].crossed =>
    mgr[m].stopped /\ \A c \in Chains : chain[c].mgr = m => ~InStart(c)
Calm == \A m \in Managers : CalmAt(m)

SingleInv == Seen /\ Owned /\ Awaited /\ NoneLeft /\ Calm /\ OneSidecar

\* What a tame step has to show that lets every manager keep its process: a start()
\* that has looked left nothing that runs, and a new stop() waits for what runs.
LEMMA SteadySingle ==
  ASSUME SingleInv, Tame(proc'), Calm',
         \A m \in Managers : /\ mgr'[m].proc = mgr[m].proc /\ mgr'[m].gone = mgr[m].gone
                             /\ mgr[m].crossed => mgr'[m].crossed,
         \A c \in Chains : chain'[c].pc = "port" =>
           chain[c].pc = "port" \/ \A p \in Procs : proc'[p].st \notin RunStates,
         \A s \in Stops, m \in Managers : stop'[s].mgr = m =>
           \/ stop[s].mgr = m /\ stop'[s].on = stop[s].on
           \/ \A p \in Procs : mgr[m].proc = p /\ Runs(p) => stop'[s].on = p
  PROVE  SingleInv'
<1>1. \A p \in Procs : proc'[p].st \in RunStates =>
        Runs(p) /\ proc'[p].owner = proc[p].owner /\ proc'[p].unseen = proc[p].unseen
  BY DEF Tame, Runs, RunStates
<1>2. \A m \in Managers, p \in Procs : Plain(m, p)' => Plain(m, p)
  BY <1>1 DEF Plain, Runs, RunStates
<1>3. Seen'
  BY <1>1 DEF SingleInv, Seen, Runs, RunStates
<1>4. Owned' /\ NoneLeft'
  BY <1>2 DEF SingleInv, Owned, NoneLeft
<1>5. Awaited'
  <2> SUFFICES ASSUME NEW m \in Managers, NEW p \in Procs, NEW s \in Stops,
                      Plain(m, p)', stop'[s].mgr = m
               PROVE  stop'[s].on = p
    BY DEF Awaited
  <2>1. Plain(m, p) /\ mgr[m].proc = p /\ Runs(p)
    BY <1>2 DEF SingleInv, Owned, Plain
  <2>2. QED
    BY <2>1 DEF SingleInv, Awaited
<1>6. OneSidecar'
  BY <1>1 DEF SingleInv, OneSidecar, Runs, RunStates
<1>7. QED
  BY <1>3, <1>4, <1>5, <1>6 DEF SingleInv

\* Calm is kept where no manager begins to be stopped and no start() begins.
LEMMA CalmKept ==
  ASSUME SingleInv, NEW m \in Managers, mgr'[m].gone = mgr[m].gone,
         mgr[m].crossed => mgr'[m].crossed, mgr[m].stopped => mgr'[m].stopped,
         \A s \in Stops : stop'[s].mgr = m => stop[s].mgr = m,
         \A c \in Chains : chain'[c].mgr = m /\ InStart(c)' => chain[c].mgr = m /\ InStart(c)
  PROVE  CalmAt(m)'
  BY DEF SingleInv, Calm, CalmAt, Halting

\* Deaths and progress start nothing.
LEMMA ProcSingle ==
  ASSUME WatchInv, SingleInv, NEW p \in Procs, BecomesOk(p) \/ BecomesError(p) \/ Dies(p)
  PROVE  SingleInv'
<1>1. UNCHANGED <<mgr, chain, stop>>
  BY DEF BecomesOk, BecomesError, Dies
<1>2. Tame(proc')
  BY ProcIsTame
<1>3. Calm'
  BY <1>1 DEF SingleInv, Calm, CalmAt, Halting, InStart
<1>4. QED
  BY <1>1, <1>2, <1>3, SteadySingle

\* A restart wakes up to start only for a manager that nobody has stopped.
LEMMA WakeSingle ==
  ASSUME WatchInv, SingleInv, NEW c \in Chains, Wake(c)
  PROVE  SingleInv'
<1>1. UNCHANGED <<proc, mgr, stop>> /\ chain[c].pc = "sleep"
  BY DEF Wake
<1>2. /\ \A d \in Chains \ {c} : chain'[d] = chain[d]
      /\ \/ chain'[c] = Idle
         \/ /\ chain'[c].pc = "lock" /\ chain'[c].mgr = chain[c].mgr
            /\ ~mgr[chain[c].mgr].stopped
  <2>1. CASE mgr[chain[c].mgr].stopped
    <3>1. chain' = [chain EXCEPT ![c] = Idle]
      BY <2>1 DEF Wake
    <3>2. QED
      BY <3>1, OverIs DEF WatchInv
  <2>2. CASE ~mgr[chain[c].mgr].stopped
    <3>1. Goto(c, "lock")
      BY <2>2 DEF Wake
    <3>2. QED
      BY <1>1, <2>2, <3>1, GotoIs DEF WatchInv
  <2>3. QED
    BY <2>1, <2>2
<1>3. \A d \in Chains : chain'[d].pc = "port" => chain[d].pc = "port"
  BY <1>2 DEF Idle
<1>4. ASSUME NEW m \in Managers PROVE CalmAt(m)'
  <2>1. CASE mgr[m].stopped
    <3>1. \A d \in Chains : chain'[d].mgr = m /\ InStart(d)' => chain[d].mgr = m /\ InStart(d)
      BY <1>2, <2>1 DEF InStart, Idle
    <3>2. QED
      BY <1>1, <3>1, CalmKept
  <2>2. CASE ~mgr[m].stopped
    BY <1>1, <2>2 DEF SingleInv, Calm, CalmAt, Halting
  <2>3. QED
    BY <2>1, <2>2
<1>5. Tame(proc')
  BY <1>1 DEF WatchInv, ManagerShape, Tame, Heard
<1>6. QED
  BY <1>1, <1>3, <1>4, <1>5, SteadySingle DEF Calm

\* The take-over leaves nothing that runs.  It takes stoppedByUs back, but only
\* in a manager that was not stopped, or was stopped across this very start().
LEMMA TakeSingle ==
  ASSUME WatchInv, SingleInv, NEW c \in Chains, TakeLock(c) \/ TakeOrphans(c)
  PROVE  SingleInv'
<1>1. PICK m : m = chain[c].mgr
  OBVIOUS
<1>2. /\ UNCHANGED <<stop>> /\ InStart(c) /\ InStart(c)' /\ m \in Managers
      /\ \A d \in Chains : chain'[d].mgr = chain[d].mgr
      /\ \A d \in Chains \ {c} : chain'[d] = chain[d]
      /\ Tame(proc')
      /\ \A k \in Managers : mgr'[k].proc = mgr[k].proc
      /\ \A k \in Managers : mgr'[k].gone = mgr[k].gone /\ mgr'[k].crossed = mgr[k].crossed
      /\ \A k \in Managers \ {m} : mgr'[k] = mgr[k]
      /\ \/ mgr' = mgr /\ chain'[c].pc = "orphans"
         \/ ~mgr'[m].stopped /\ \A p \in Procs : proc'[p].st \notin RunStates
  BY <1>1, TakeIs
<1>3. ~Halting(m) \/ mgr[m].crossed
  BY <1>1, <1>2 DEF SingleInv, Calm, CalmAt
<1>4. ASSUME NEW k \in Managers PROVE CalmAt(k)'
  <2>1. CASE k = m
    BY <1>2, <1>3, <2>1 DEF CalmAt, Halting
  <2>2. CASE k # m
    <3>1. mgr'[k] = mgr[k]
      BY <1>2, <2>2
    <3>2. \A d \in Chains : chain'[d].mgr = k /\ InStart(d)' => chain[d].mgr = k /\ InStart(d)
      BY <1>1, <1>2, <2>2 DEF InStart
    <3>3. QED
      BY <1>2, <3>1, <3>2, CalmKept
  <2>3. QED
    BY <2>1, <2>2
<1>5. \A d \in Chains : chain'[d].pc = "port" =>
         chain[d].pc = "port" \/ \A p \in Procs : proc'[p].st \notin RunStates
  BY <1>2
<1>6. QED
  BY <1>2, <1>4, <1>5, SteadySingle DEF Calm

\* stop(): it marks its manager if a start() is on its way, and otherwise waits
\* for what runs.
LEMMA StopSingle ==
  ASSUME WatchInv, SingleInv, NEW s \in Stops, NEW m \in Managers, NEW again \in BOOLEAN,
         NEW mm \in [Managers -> MgrStates],
         \A k \in Managers : /\ mm[k].proc = mgr[k].proc /\ mm[k].gone = mgr[k].gone
                             /\ mgr[k].stopped => mm[k].stopped
                             /\ mgr[k].crossed => mm[k].crossed,
         BeginStop(s, m, mm, again), UNCHANGED <<proc>>,
         \A c \in Chains : InStart(c)' => chain'[c] = chain[c]
  PROVE  SingleInv'
<1>0. ManagerShape /\ Called
  BY DEF WatchInv
<1>1. /\ \A k \in Managers : /\ mgr'[k].proc = mgr[k].proc /\ mgr'[k].gone = mm[k].gone
                             /\ mm[k].stopped => mgr'[k].stopped
                             /\ mm[k].crossed => mgr'[k].crossed
      /\ mgr'[m].stopped
      /\ \A c \in Chains : chain[c].mgr = m /\ InStart(c) => mgr'[m].crossed
      /\ \A t \in Stops \ {s} : stop'[t] = stop[t]
      /\ stop'[s].mgr = m
      /\ mgr[m].proc # None /\ Runs(mgr[m].proc) => stop'[s].on = mgr[m].proc
  BY <1>0, BeginStopIs
<1>2. \A c \in Chains : InStart(c)' => InStart(c) /\ chain'[c] = chain[c]
  BY DEF InStart
<1>3. ASSUME NEW k \in Managers PROVE CalmAt(k)'
  <2>1. CASE k = m
    BY <1>1, <1>2, <2>1 DEF CalmAt
  <2>2. CASE k # m
    <3>1. \A t \in Stops : stop'[t].mgr = k => stop[t].mgr = k
      BY <1>1, <2>2
    <3>2. QED
      BY <1>1, <1>2, <3>1, CalmKept
  <2>3. QED
    BY <2>1, <2>2
<1>4. ASSUME NEW t \in Stops, NEW k \in Managers, stop'[t].mgr = k
      PROVE  \/ stop[t].mgr = k /\ stop'[t].on = stop[t].on
             \/ \A p \in Procs : mgr[k].proc = p /\ Runs(p) => stop'[t].on = p
  BY <1>1, <1>4, ConstantsAssumption
<1>5. Tame(proc')
  BY DEF WatchInv, ManagerShape, Tame, Heard
<1>6. \A c \in Chains : chain'[c].pc = "port" => chain[c].pc = "port"
  BY <1>2 DEF InStart
<1>7. QED
  BY <1>1, <1>3, <1>4, <1>5, <1>6, SteadySingle DEF Calm

\* The end of awaitReady().
LEMMA ReadySingle ==
  ASSUME WatchInv, SingleInv, NEW c \in Chains, ReadyOk(c) \/ ReadyThrows(c)
  PROVE  SingleInv'
<1>1. PICK m : m = chain[c].mgr
  OBVIOUS
<1>2. /\ m \in Managers /\ chain'[c].pc \in {"idle", "sleep"} /\ UNCHANGED <<proc>>
      /\ \A d \in Chains \ {c} : chain'[d] = chain[d]
      /\ \A k \in Managers : /\ mgr'[k].proc = mgr[k].proc /\ mgr'[k].gone = mgr[k].gone
                             /\ mgr[k].stopped => mgr'[k].stopped
                             /\ mgr[k].crossed => mgr'[k].crossed
      /\ \/ stop' = stop
         \/ \E mm \in [Managers -> MgrStates], s \in Stops :
              /\ BeginStop(s, m, mm, FALSE)
              /\ \A k \in Managers : /\ mm[k].proc = mgr[k].proc /\ mm[k].gone = mgr[k].gone
                                     /\ mgr[k].stopped => mm[k].stopped
                                     /\ mgr[k].crossed => mm[k].crossed
  <2>1. CASE ReadyOk(c)
    <3>1. chain' = [chain EXCEPT ![c] = Idle]
      BY <2>1 DEF ReadyOk
    <3>2. chain'[c].pc = "idle" /\ \A d \in Chains \ {c} : chain'[d] = chain[d]
      BY <3>1, OverIs DEF WatchInv, Idle
    <3>3. QED
      BY <1>1, <2>1, <3>2, ReadyOkIs
  <2>2. CASE ReadyThrows(c)
    BY <1>1, <2>2, ReadyThrowsIs
  <2>3. QED
    BY <2>1, <2>2
<1>3. \A d \in Chains : InStart(d)' => chain'[d] = chain[d] /\ InStart(d)
  BY <1>2 DEF InStart
<1>4. CASE stop' = stop
  <2>1. \A k \in Managers : CalmAt(k)'
    BY <1>2, <1>3, <1>4, CalmKept
  <2>2. Tame(proc')
    BY <1>2 DEF WatchInv, ManagerShape, Tame, Heard
  <2>3. \A d \in Chains : chain'[d].pc = "port" => chain[d].pc = "port"
    BY <1>3 DEF InStart
  <2>4. QED
    BY <1>2, <1>4, <2>1, <2>2, <2>3, SteadySingle DEF Calm
<1>5. CASE stop' # stop
  <2>1. PICK mm \in [Managers -> MgrStates], s \in Stops :
              /\ BeginStop(s, m, mm, FALSE)
              /\ \A k \in Managers : /\ mm[k].proc = mgr[k].proc /\ mm[k].gone = mgr[k].gone
                                     /\ mgr[k].stopped => mm[k].stopped
                                     /\ mgr[k].crossed => mm[k].crossed
    BY <1>2, <1>5
  <2>2. QED
    BY <1>2, <1>3, <2>1, StopSingle
<1>6. QED
  BY <1>4, <1>5

\* The spawn: what else runs is marked, and so is the manager if it is stopped.
LEMMA BirthSingle ==
  ASSUME WatchInv, SingleInv, NEW c \in Chains, NEW p \in Procs, Spawn(c, p) \/ SpawnFails(c, p)
  PROVE  SingleInv'
<1>1. PICK m \in Managers : m = chain[c].mgr
  BY BirthIs
<1>2. /\ chain[c].pc = "port" /\ Goto(c, "ready") /\ UNCHANGED <<stop>>
      /\ proc'[p].st \in {"starting", "unborn"} /\ proc'[p].owner = m
      /\ proc'[p].st = "starting" => proc'[p].unseen = Overlaps(c)
      /\ \A r \in Procs \ {p} :
           proc'[r] = proc[r] \/ (r = mgr[m].proc /\ proc'[r] = NoProc)
      /\ \A k \in Managers : /\ mgr'[k].stopped = mgr[k].stopped
                             /\ mgr'[k].gone = mgr[k].gone /\ mgr'[k].crossed = mgr[k].crossed
      /\ \A k \in Managers \ {m} : mgr'[k] = mgr[k]
      /\ mgr'[m].proc = p
  BY <1>1, BirthIs
<1>3. /\ \A d \in Chains : chain'[d].mgr = chain[d].mgr
      /\ \A d \in Chains \ {c} : chain'[d] = chain[d]
      /\ chain'[c].pc = "ready"
  BY <1>2, GotoIs DEF WatchInv
<1>4. InStart(c)
  BY <1>2 DEF InStart
<1>5. ~Halting(m) \/ mgr[m].crossed
  BY <1>1, <1>4 DEF SingleInv, Calm, CalmAt
<1>6. \A r \in Procs \ {p} : proc'[r].st \in RunStates =>
        proc'[r] = proc[r] /\ Runs(r) /\ proc[r].unseen
  BY <1>2 DEF SingleInv, Seen, Runs, RunStates, NoProc
<1>7. \A k \in Managers, r \in Procs : Plain(k, r)' => r = p /\ k = m /\ ~mgr[m].crossed
  BY <1>2, <1>6 DEF Plain, Runs, RunStates
<1>8. Seen'
  <2> SUFFICES ASSUME NEW r \in Procs, proc'[r].st \in RunStates, ~proc'[r].unseen,
                      NEW d \in Chains, chain'[d].pc = "port"
               PROVE  FALSE
    BY DEF Seen, Runs, RunStates
  <2>1. r = p
    BY <1>6
  <2>2. d # c /\ chain[d].pc = "port"
    BY <1>3
  <2>3. proc'[p].st = "starting"
    BY <1>2, <2>1 DEF RunStates
  <2>4. QED
    BY <1>2, <2>1, <2>2, <2>3 DEF Overlaps
<1>9. Owned'
  BY <1>2, <1>7 DEF Owned
<1>10. Awaited' /\ NoneLeft'
  BY <1>2, <1>5, <1>7 DEF Awaited, NoneLeft, Halting
<1>11. ASSUME NEW k \in Managers PROVE CalmAt(k)'
  BY <1>2, <1>3, CalmKept DEF InStart
<1>12. OneSidecar'
  BY <1>6 DEF OneSidecar, Runs, RunStates
<1>13. QED
  BY <1>8, <1>9, <1>10, <1>11, <1>12 DEF SingleInv, Calm

\* The exit event: a stop() goes on only if it waited for the process that is gone.
LEMMA ExitSingle ==
  ASSUME WatchInv, SingleInv, NEW p \in Procs, NEW c \in Chains, ExitEvent(p, c)
  PROVE  SingleInv'
<1>1. PICK m \in Managers : m = proc[p].owner
  BY ExitIs
<1>2. /\ \A q \in Procs \ {p} : proc'[q] = proc[q]
      /\ proc'[p] = NoProc \/ proc'[p].st = "exited"
      /\ proc[p].st = "dead" /\ chain[c].pc = "idle"
      /\ \A k \in Stops : \/ stop'[k] = stop[k]
                          \/ stop[k].on = p /\ stop'[k].mgr = stop[k].mgr
  BY ExitIs
<1>3. /\ \A k \in Managers : /\ mgr'[k].proc = mgr[k].proc /\ mgr'[k].stopped = mgr[k].stopped
                             /\ mgr'[k].gone = mgr[k].gone /\ mgr'[k].crossed = mgr[k].crossed
      /\ \A d \in Chains \ {c} : chain'[d] = chain[d]
      /\ ~InStart(c)'
  <2>1. CASE mgr[m].stopped
    <3>1. mgr' = mgr /\ chain' = chain
      BY <1>1, <2>1 DEF ExitEvent
    <3>2. QED
      BY <1>2, <3>1 DEF InStart
  <2>2. CASE ~mgr[m].stopped
    <3>1. Schedule(c, m, mgr)
      BY <1>1, <2>2 DEF ExitEvent
    <3>2. ManagerShape /\ Chained /\ mgr \in [Managers -> MgrStates]
      BY DEF WatchInv, ManagerShape
    <3>3. /\ \A k \in Managers : /\ mgr'[k].proc = mgr[k].proc /\ mgr'[k].stopped = mgr[k].stopped
                                 /\ mgr'[k].gone = mgr[k].gone /\ mgr'[k].crossed = mgr[k].crossed
          /\ \A d \in Chains \ {c} : chain'[d] = chain[d]
          /\ chain'[c].pc = "sleep" \/ chain'[c] = Idle
      BY <3>1, <3>2, ScheduleIs
    <3>4. QED
      BY <3>3 DEF InStart, Idle
  <2>3. QED
    BY <2>1, <2>2
<1>4. \A d \in Chains : InStart(d)' => InStart(d) /\ chain'[d] = chain[d]
  BY <1>3 DEF InStart
<1>5. \A q \in Procs : proc'[q].st \in RunStates => q # p /\ Runs(q) /\ proc'[q] = proc[q]
  BY <1>2 DEF Runs, RunStates, NoProc
<1>6. \A k \in Managers, q \in Procs : Plain(k, q)' => q # p /\ Plain(k, q)
  BY <1>3, <1>5 DEF Plain, Runs, RunStates
<1>7. Seen'
  <2> SUFFICES ASSUME NEW q \in Procs, proc'[q].st \in RunStates, ~proc'[q].unseen,
                      NEW d \in Chains, chain'[d].pc = "port"
               PROVE  FALSE
    BY DEF Seen, Runs, RunStates
  <2>1. chain[d].pc = "port"
    BY <1>4 DEF InStart
  <2>2. QED
    BY <1>5, <2>1 DEF SingleInv, Seen
<1>8. Owned' /\ NoneLeft'
  BY <1>3, <1>6 DEF SingleInv, Owned, NoneLeft
<1>9. Awaited'
  <2> SUFFICES ASSUME NEW k \in Managers, NEW q \in Procs, NEW s \in Stops,
                      Plain(k, q)', stop'[s].mgr = k
               PROVE  stop'[s].on = q
    BY DEF Awaited
  <2>1. stop[s].mgr = k /\ Plain(k, q) /\ q # p
    BY <1>2, <1>6
  <2>2. stop[s].on = q
    BY <2>1 DEF SingleInv, Awaited
  <2>3. QED
    BY <1>2, <2>1, <2>2
<1>10. ASSUME NEW k \in Managers PROVE CalmAt(k)'
  <2>1. \A s \in Stops : stop'[s].mgr = k => stop[s].mgr = k
    BY <1>2
  <2>2. QED
    BY <1>3, <1>4, <2>1, CalmKept
<1>11. OneSidecar'
  BY <1>5 DEF SingleInv, OneSidecar, Runs, RunStates
<1>12. QED
  BY <1>7, <1>8, <1>9, <1>10, <1>11 DEF SingleInv, Calm

\* A manager of which nothing plain runs lets go of its process.
LEMMA LetGoSingle ==
  ASSUME WatchInv, SingleInv, NEW m \in Managers, proc' = Released(proc, mgr[m].proc),
         \A p \in Procs : ~Plain(m, p), mgr[m].crossed => mgr'[m].crossed \/
           \A p \in Procs : proc[p].owner = m => ~Runs(p),
         \A k \in Managers \ {m} : mgr'[k] = mgr[k],
         \A s \in Stops, k \in Managers \ {m} :
           stop'[s].mgr = k => stop[s].mgr = k /\ stop'[s].on = stop[s].on,
         \A c \in Chains : chain'[c].pc = "port" => chain[c].pc = "port", Calm'
  PROVE  SingleInv'
<1>1. mgr[m].proc \in Procs \cup {None} /\ ManagerShape
  BY DEF WatchInv, ManagerShape, MgrStates
<1>2. Freed(mgr[m].proc, proc')
  BY <1>1, ReleasedIsFreed
<1>3. \A q \in Procs : proc'[q].st \in RunStates => Runs(q) /\ proc'[q] = proc[q]
  BY <1>2 DEF Freed, Runs, RunStates, NoProc
<1>4. \A k \in Managers, q \in Procs : Plain(k, q)' => k # m /\ Plain(k, q)
  <2> SUFFICES ASSUME NEW k \in Managers, NEW q \in Procs, Plain(k, q)'
               PROVE  k # m /\ Plain(k, q)
    OBVIOUS
  <2>1. Runs(q) /\ proc'[q] = proc[q] /\ proc[q].owner = k /\ ~proc[q].unseen
    BY <1>3 DEF Plain, Runs, RunStates
  <2>2. k # m
    BY <2>1 DEF Plain
  <2>3. QED
    BY <2>1, <2>2 DEF Plain
<1>5. Seen'
  BY <1>3 DEF SingleInv, Seen, Runs, RunStates
<1>6. Owned' /\ NoneLeft' /\ Awaited'
  BY <1>4 DEF SingleInv, Owned, NoneLeft, Awaited
<1>7. OneSidecar'
  BY <1>3 DEF SingleInv, OneSidecar, Runs, RunStates
<1>8. QED
  BY <1>5, <1>6, <1>7 DEF SingleInv

\* The end of stop(): what it waited for is gone.
LEMMA StopEndSingle ==
  ASSUME WatchInv, SingleInv, NEW s \in Stops, StopEnd(s)
  PROVE  SingleInv'
<1>1. PICK m : m = stop[s].mgr
  OBVIOUS
<1>2. m # None /\ stop[s].pc = "ending" /\ stop[s].on = None
  BY <1>1 DEF WatchInv, Called, StopEnd
<1>3. /\ m \in Managers /\ proc' = Released(proc, mgr[m].proc)
      /\ mgr'[m].stopped = mgr[m].stopped /\ mgr'[m].crossed = mgr[m].crossed
      /\ \A k \in Managers \ {m} : mgr'[k] = mgr[k]
      /\ stop'[s] = NoStop /\ \A t \in Stops \ {s} : stop'[t] = stop[t]
      /\ UNCHANGED <<chain>>
  BY <1>1, <1>2, StopEndIs
<1>4. \A p \in Procs : ~Plain(m, p)
  BY <1>1, <1>2, <1>3, ConstantsAssumption DEF SingleInv, Awaited
<1>5. NoStop.mgr = None /\ \A k \in Managers : k # None
  BY ConstantsAssumption DEF NoStop
<1>6. \A t \in Stops, k \in Managers :
        stop'[t].mgr = k => stop[t].mgr = k /\ stop'[t].on = stop[t].on
  BY <1>3, <1>5
<1>7. ASSUME NEW k \in Managers PROVE CalmAt(k)'
  <2>1. CASE k = m
    <3>1. Halting(m)
      BY <1>1 DEF Halting
    <3>2. QED
      BY <1>3, <2>1, <3>1 DEF SingleInv, Calm, CalmAt, InStart
  <2>2. CASE k # m
    BY <1>3, <1>6, <2>2, CalmKept DEF InStart
  <2>3. QED
    BY <2>1, <2>2
<1>8. Calm'
  BY <1>7 DEF Calm
<1>9. QED
  BY <1>3, <1>4, <1>6, <1>8, LetGoSingle

\* A boot takes a manager that nothing refers to.
LEMMA BootSingle ==
  ASSUME WatchInv, SingleInv, NEW c \in Chains, NEW m \in Managers, Boot(c, m)
  PROVE  SingleInv'
<1> DEFINE z == [pc |-> "lock", mgr |-> m, boot |-> TRUE]
<1>1. /\ proc' = Released(proc, mgr[m].proc) /\ mgr' = [mgr EXCEPT ![m] = Fresh]
      /\ chain' = [chain EXCEPT ![c] = z] /\ UNCHANGED <<stop>>
      /\ \A s \in Stops : stop[s].mgr # m
      /\ \A p \in Procs : proc[p].owner = m => ~Runs(p)
  BY DEF Boot, FreeManager
<1>2. z.pc = "lock" /\ z.mgr = m
  OBVIOUS
<1> HIDE DEF z
<1>3. /\ mgr'[m] = Fresh
      /\ \A k \in Managers \ {m} : mgr'[k] = mgr[k]
      /\ chain'[c] = z /\ \A d \in Chains \ {c} : chain'[d] = chain[d]
  BY <1>1 DEF WatchInv, ManagerShape
<1>4. ~Fresh.gone
  BY DEF Fresh
<1>5. ASSUME NEW k \in Managers PROVE CalmAt(k)'
  <2>1. CASE k = m
    BY <1>1, <1>3, <1>4, <2>1 DEF CalmAt, Halting
  <2>2. CASE k # m
    <3>1. \A d \in Chains : chain'[d].mgr = k /\ InStart(d)' => chain[d].mgr = k /\ InStart(d)
      BY <1>2, <1>3, <2>2 DEF InStart
    <3>2. QED
      BY <1>1, <1>3, <2>2, <3>1, CalmKept
  <2>3. QED
    BY <2>1, <2>2
<1>6. \A d \in Chains : chain'[d].pc = "port" => chain[d].pc = "port"
  BY <1>2, <1>3
<1>7. \A p \in Procs : ~Plain(m, p)
  BY <1>1 DEF Plain
<1>8. Calm'
  BY <1>5 DEF Calm
<1>9. QED
  BY <1>1, <1>3, <1>6, <1>7, <1>8, LetGoSingle

\* What runs when Obsidian ends is nobody's from then on.
LEMMA CloseSingle ==
  ASSUME WatchInv, SingleInv, Close
  PROVE  SingleInv'
<1>1. /\ mgr' = [m \in Managers |-> Fresh] /\ chain' = [c \in Chains |-> Idle]
      /\ stop' = [s \in Stops |-> NoStop]
  BY DEF Close
<1>2. \A p \in Procs : /\ proc'[p].owner = None
                       /\ proc'[p].st \in RunStates =>
                            proc[p].st \in RunStates /\ proc'[p].unseen = proc[p].unseen
  BY CloseIs
<1>3. \A m \in Managers : m # None
  BY ConstantsAssumption
<1>4. \A m \in Managers, p \in Procs : ~Plain(m, p)'
  BY <1>2, <1>3 DEF Plain
<1>5. Owned' /\ NoneLeft' /\ Awaited'
  BY <1>4 DEF Owned, NoneLeft, Awaited
<1>6. Seen' /\ Calm'
  BY <1>1, <1>3 DEF Seen, Calm, CalmAt, Halting, Idle, NoStop, Fresh
<1>7. OneSidecar'
  BY <1>2 DEF SingleInv, OneSidecar, Runs, RunStates
<1>8. QED
  BY <1>5, <1>6, <1>7 DEF SingleInv

\* Steps of the plugin alone.
LEMMA SingleSame ==
  ASSUME SingleInv, UNCHANGED <<proc, mgr, chain, stop>>
  PROVE  SingleInv'
  BY DEF SingleInv, Seen, Owned, Awaited, NoneLeft, Plain, Calm, CalmAt, Halting,
         OneSidecar, Runs, InStart

\* SingleInv holds at first, every step keeps it, so it always holds.
LEMMA SingleInvInit == ManagerInit => SingleInv
<1> SUFFICES ASSUME ManagerInit PROVE SingleInv
  OBVIOUS
<1>1. \A p \in Procs : ~Runs(p)
  BY DEF ManagerInit, Runs, NoProc
<1>2. Seen /\ Owned /\ Awaited /\ NoneLeft /\ OneSidecar
  BY <1>1 DEF Seen, Owned, Awaited, NoneLeft, OneSidecar, Plain
<1>3. Calm
  BY ConstantsAssumption DEF ManagerInit, Calm, CalmAt, Halting, Fresh, NoStop
<1>4. QED
  BY <1>2, <1>3 DEF SingleInv

\* One step per action; WatchInv says whose process is whose.
LEMMA SingleInvStep ==
  ASSUME WatchInv, SingleInv, [ManagerNext]_managerVars
  PROVE  SingleInv'
<1>1. CASE UNCHANGED managerVars
  BY <1>1, SingleSame DEF managerVars
<1>2. ASSUME NEW c \in Chains, ChainStep(c) PROVE SingleInv'
  BY <1>2, WakeSingle, TakeSingle, BirthSingle, ReadySingle DEF ChainStep
<1>3. ASSUME NEW p \in Procs, BecomesOk(p) \/ BecomesError(p) \/ Dies(p) PROVE SingleInv'
  BY <1>3, ProcSingle
<1>4. ASSUME NEW p \in Procs, NEW c \in Chains, ExitEvent(p, c) PROVE SingleInv'
  BY <1>4, ExitSingle
<1>5. ASSUME NEW s \in Stops, StopEnd(s) PROVE SingleInv'
  BY <1>5, StopEndSingle
<1>6. ASSUME NEW m \in Managers, NEW c \in Chains, Boot(c, m) PROVE SingleInv'
  BY <1>6, BootSingle
<1>7. CASE RunBackend \/ BootDropped \/ Open
  BY <1>7, SingleSame DEF RunBackend, BootDropped, Open
<1>8. mgr \in [Managers -> MgrStates]
  BY DEF WatchInv, ManagerShape
<1>9. ASSUME NEW s \in Stops, NEW again \in BOOLEAN, Stop(s, again) PROVE SingleInv'
  <2>1. PICK m \in Managers : m = cur
    BY <1>9 DEF Stop, WatchInv, ManagerShape
  <2>2. BeginStop(s, m, mgr, again) /\ UNCHANGED <<proc, chain>>
    BY <1>9, <2>1 DEF Stop
  <2>3. QED
    BY <1>8, <1>9, <2>2, StopSingle
<1>10. CASE Unload
  <2>1. UNCHANGED <<proc, chain>>
    BY <1>10 DEF Unload
  <2>2. CASE cur # None
    <3>1. PICK m \in Managers : m = cur
      BY <2>2 DEF WatchInv, ManagerShape
    <3>2. PICK s \in Stops : BeginStop(s, m, mgr, FALSE)
      BY <1>10, <2>2, <3>1 DEF Unload
    <3>3. QED
      BY <1>8, <2>1, <3>2, StopSingle
  <2>3. CASE cur = None
    <3>1. UNCHANGED <<mgr, stop>>
      BY <1>10, <2>3 DEF Unload
    <3>2. QED
      BY <2>1, <3>1, SingleSame
  <2>4. QED
    BY <2>2, <2>3
<1>11. CASE Close
  BY <1>11, CloseSingle
<1>12. QED
  BY <1>1, <1>2, <1>3, <1>4, <1>5, <1>6, <1>7, <1>9, <1>10, <1>11 DEF ManagerNext

\* Starts and stops always meet in this order.
LEMMA SingleInvHolds == ManagerSpec => []SingleInv
  BY SingleInvInit, SingleInvStep, WatchInvHolds, PTL DEF ManagerSpec

\* Two sidecars run on one database only if two starts overlapped, whatever became
\* of the lock, of earlier sessions and of the handlers of replaced managers
\* (manager.ts 260-285).  Nothing is assumed of what comes between two awaits.
THEOREM NeverTwo == ManagerSpec => []OneSidecar
<1>1. SingleInv => OneSidecar
  BY DEF SingleInv
<1>2. QED
  BY <1>1, SingleInvHolds, PTL

\* Nothing that a manager has started runs once a stop() of it has returned, unless
\* that stop() crossed a start() of the manager or two starts overlapped
\* (manager.ts 89, 380, 389-427).
THEOREM StopIsFinal == ManagerSpec => []StoppedIsGone
<1>1. ASSUME WatchInv, SingleInv PROVE StoppedIsGone
  <2> SUFFICES ASSUME NEW p \in Procs, Runs(p), proc[p].owner # None,
                      mgr[proc[p].owner].gone, ~mgr[proc[p].owner].crossed, ~proc[p].unseen
               PROVE  FALSE
    BY DEF StoppedIsGone
  <2>1. proc[p].owner \in Managers
    BY <1>1 DEF WatchInv, ManagerShape, ProcStates
  <2>2. QED
    BY <1>1, <2>1 DEF SingleInv, NoneLeft, Plain
<1>2. QED
  BY <1>1, WatchInvHolds, SingleInvHolds, PTL
=============================================================================
