------------------------- MODULE SessionSupervision -------------------------
(***************************************************************************)
(* How one host follows the container of one session: the registry of      *)
(* running sessions (container-runner.ts), the session events hub that     *)
(* turns hints into one verified terminal per incarnation                  *)
(* (drivers/session-events.ts), the Docker handle and its event stream     *)
(* (drivers/docker-driver.ts) and the container that wears the session's   *)
(* name.                                                                   *)
(*                                                                         *)
(* A runtime, the handle it holds and the hub's state for that handle are  *)
(* created together and share one number, the wake that made them.  Code   *)
(* between two awaits is one step.  Claims on sessions are SessionClaims'. *)
(***************************************************************************)
EXTENDS Naturals

CONSTANTS
  MaxWakes,   \* bound on the runtimes of one host life
  Calls,      \* slots for stop() calls under way (a bound)
  MaxBoxes,   \* bound on the containers created
  MaxFaults,  \* bound on lost streams, failed lists, failed calls, kernel
              \* restarts and failed database writes
  MaxStops    \* bound on the stops other parts of the host ask for

ASSUME SupervisionAssumption ==
  /\ MaxWakes \in Nat \ {0} /\ MaxBoxes \in Nat \ {0}
  /\ MaxFaults \in Nat /\ MaxStops \in Nat

VARIABLES
  cur,     \* the runtime in activeContainers, 0 for none
  last,    \* runtimes made so far
  waking,  \* the wake in wakePromises: "no", or the await it is in
  adopt,   \* adoptRunningSessions: "listed", "armed" or "no" when it is done
  stage,   \* of a runtime: "unborn", "tracked", "finishing", "finished", or
           \* "dropped" by a wake that failed after it was registered
  lease,   \* runtimes and wakes that hold a gateway lease
  owed,    \* runtimes with an exit callback that has not run
  hub,     \* the hub's KeyState objects
  key,     \* the one the hub finds under the session's key, 0 for none
  told,    \* how a runtime's end was reported: "no", "stopped" or "failed"
  handle,  \* DockerHandle: its container, its attach process, its flags
  call,    \* stop() calls under way
  reg,     \* the container of the kernel's registry entry, 0 for none
  box,     \* the container that wears the session's name
  made,    \* containers created so far
  dead,    \* containers that ended
  crashed, \* those that ended with a non-zero exit code
  stream,  \* the `docker events` subscription: "off", "down", "up", or
           \* "connecting" from its start until the daemon serves it
  event,   \* an event of the stream on its way to the host
  faults, stops

runner == <<cur, last, waking, adopt, stage, lease, owed>>
hubv   == <<hub, key, told>>
docker == <<reg, box, made, dead, crashed>>
watch  == <<stream, event>>
bounds == <<faults, stops>>
vars   == <<runner, hubv, handle, call, docker, watch, bounds>>

Wakes == 1 .. MaxWakes
Boxes == 1 .. MaxBoxes
NoBox == [st |-> "absent", id |-> 0]

Fault == faults < MaxFaults /\ faults' = faults + 1

FreshState  == [cb |-> FALSE, stop |-> FALSE, fired |-> FALSE,
                pending |-> FALSE, recheck |-> FALSE, read |-> "no"]
Tracked     == [FreshState EXCEPT !.cb = TRUE]
UnusedHandle == [box |-> 0, own |-> FALSE, attach |-> "none",
                 stopping |-> FALSE]

\* A fresh host, or one that listed a container a previous host left running
\* (the kernel may have restarted with the host; other sessions of the
\* install may have opened the stream).
Init ==
  /\ \/ /\ adopt = "no" /\ box = NoBox /\ made = 0 /\ reg = 0
        /\ last = 0 /\ key = 0 /\ lease = {}
     \/ /\ adopt = "listed" /\ box = [st |-> "running", id |-> 1] /\ made = 1
        /\ reg \in {0, 1} /\ last = 1 /\ key = 1 /\ lease = {1}
  /\ cur = 0 /\ waking = "no" /\ owed = {}
  /\ stage = [n \in Wakes |-> "unborn"]
  /\ hub = [n \in Wakes |-> FreshState]
  /\ told = [n \in Wakes |-> "no"]
  /\ handle = [n \in Wakes |->
                 IF n = last THEN [UnusedHandle EXCEPT !.box = 1]
                 ELSE UnusedHandle]
  /\ call = [c \in Calls |-> [rt |-> 0, at |-> "free", reg |-> 0]]
  /\ dead = {} /\ crashed = {}
  /\ stream \in (IF adopt = "no" THEN {"off"} ELSE {"off", "up"})
  /\ event = FALSE /\ faults = 0 /\ stops = 0

-----------------------------------------------------------------------------
(* The container runtime                                                   *)

\* The container ends; `--rm` removes it a moment later.
Ends(bad) ==
  /\ box' = [box EXCEPT !.st = "exited"]
  /\ dead' = dead \cup {box.id}
  /\ crashed' = IF bad THEN crashed \cup {box.id} ELSE crashed
  /\ event' = (event \/ stream = "up")

BoxExits ==
  /\ box.st = "running"
  /\ \E bad \in BOOLEAN : Ends(bad)
  /\ UNCHANGED <<runner, hubv, handle, call, reg, made, stream, bounds>>

BoxRemoved ==
  /\ box.st = "exited"
  /\ box' = NoBox
  /\ UNCHANGED <<runner, hubv, handle, call, reg, made, dead, crashed, watch,
                 bounds>>

\* mutant: a missing container is gone, whatever the attach process does
StatusWithoutAttach(h, n) ==
  CASE box.st = "running" -> "running"
    [] box.st = "created" -> "ready"
    [] box.st = "exited"  -> IF box.id \in crashed THEN "failed" ELSE "stopped"
    [] OTHER ->
       CASE ~h[n].stopping /\ h[n].attach = "nonzero" -> "failed"
         [] h[n].own /\ h[n].attach = "none" -> "ready"
         [] OTHER -> "stopped"

\* DockerHandle.status: what the container that wears the name shows, else
\* what the attach process left behind.
status(h, n) ==
  CASE box.st = "running" -> "running"
    [] box.st = "created" -> "ready"
    [] box.st = "exited"  -> IF box.id \in crashed THEN "failed" ELSE "stopped"
    [] OTHER ->
       CASE h[n].stopping -> "stopped"
         [] h[n].attach = "nonzero" -> "failed"
         [] h[n].attach \in {"live", "refused"} -> "running"
         [] h[n].own /\ h[n].attach = "none" -> "ready"
         [] OTHER -> "stopped"

-----------------------------------------------------------------------------
(* The session events hub                                                  *)

\* mutant: a hint that lands while an answer is awaited is dropped
VerifyDropsHint(s, answer) ==
  IF s.fired \/ s.stop \/ s.read # "no" THEN s
  ELSE [s EXCEPT !.read = answer, !.recheck = FALSE]

\* A hint asks the handle, which reads at once; its answer is awaited.
verify(s, answer) ==
  IF s.fired \/ s.stop THEN s
  ELSE IF s.read # "no" THEN [s EXCEPT !.recheck = TRUE]
  ELSE [s EXCEPT !.read = answer, !.recheck = FALSE]

\* The hub after a terminal hint for the session's key.
onEvent(h) ==
  IF key = 0 THEN hub ELSE [hub EXCEPT ![key] = verify(@, status(h, key))]

\* finishAndResolve: the runtime is looked up under the session's id.
finishAndResolve ==
  stage' = IF cur # 0 /\ stage[cur] = "tracked"
           THEN [stage EXCEPT ![cur] = "finishing"] ELSE stage

\* At most one terminal per state, none for an end the host asked for.
deliver(n, how) ==
  IF hub[n].fired \/ hub[n].stop
  THEN /\ hub' = [hub EXCEPT ![n].read = "no"]
       /\ UNCHANGED <<told, stage>>
  ELSE /\ hub' = [hub EXCEPT ![n].read = "no", ![n].fired = TRUE,
                             ![n].pending = ~hub[n].cb]
       /\ told' = [told EXCEPT ![n] = how]
       /\ IF hub[n].cb THEN finishAndResolve ELSE UNCHANGED stage

VerifyEnds(n) ==
  /\ hub[n].read # "no"
  /\ IF hub[n].read \in {"stopped", "failed"} THEN deliver(n, hub[n].read)
     ELSE LET again == hub[n].recheck /\ ~hub[n].fired /\ ~hub[n].stop IN
          /\ hub' = [hub EXCEPT ![n].recheck = FALSE,
                 ![n].read = IF again THEN status(handle, n) ELSE "no"]
          /\ UNCHANGED <<told, stage>>
  /\ UNCHANGED <<cur, last, waking, adopt, lease, owed, key, handle, call,
                 docker, watch, bounds>>

-----------------------------------------------------------------------------
(* The driver's event stream                                               *)

EventArrives ==
  /\ event
  /\ event' = FALSE
  /\ hub' = onEvent(handle)
  /\ UNCHANGED <<runner, key, told, handle, call, docker, stream, bounds>>

Subscribed ==
  /\ stream = "connecting"
  /\ stream' = "up"
  /\ UNCHANGED <<runner, hubv, handle, call, docker, event, bounds>>

StreamDrops ==
  /\ stream \in {"connecting", "up"} /\ Fault
  /\ stream' = "down" /\ event' = FALSE
  /\ UNCHANGED <<runner, hubv, handle, call, docker, stops>>

\* connectWatch again after its backoff, with reconcileWatchGap: the list is
\* read while the new subscription is still on its way to the daemon.
Reconnect ==
  /\ stream = "down"
  /\ stream' = "connecting"
  /\ \/ /\ hub' = IF box.st \in {"running", "created"} THEN hub
                  ELSE onEvent(handle)
        /\ UNCHANGED faults
     \/ Fault /\ UNCHANGED hub
  /\ UNCHANGED <<runner, key, told, handle, call, docker, event, stops>>

\* The attach process of a handle ends and hints through the same stream.
AttachEnds(n) ==
  /\ \/ handle[n].attach = "refused"
     \/ handle[n].attach = "live" /\ handle[n].box \in dead
  /\ handle' = [handle EXCEPT ![n].attach =
        IF @ = "live" /\ handle[n].box \notin crashed
        THEN "zero" ELSE "nonzero"]
  /\ hub' = onEvent(handle')
  /\ UNCHANGED <<runner, key, told, call, docker, watch, bounds>>

\* proc.kill() took it: no exit code, but the same hint.
KilledAttachEnds(n) ==
  /\ handle[n].attach = "killing"
  /\ handle' = [handle EXCEPT ![n].attach = "killed"]
  /\ hub' = onEvent(handle')
  /\ UNCHANGED <<runner, key, told, call, docker, watch, bounds>>

-----------------------------------------------------------------------------
(* Waking                                                                  *)

\* wakeContainer: not while a runtime is registered or a wake is in flight.
wakeContainer ==
  /\ adopt = "no" /\ cur = 0 /\ waking = "no" /\ last < MaxWakes
  /\ last' = last + 1 /\ lease' = lease \cup {last + 1}
  /\ waking' = "preparing"
  /\ UNCHANGED <<cur, adopt, stage, owed, hubv, handle, call, docker, watch,
                 bounds>>

\* The driver cannot give a handle; a kernel stopped between `docker create`
\* and its rollback leaves the container behind.
PrepareFails ==
  /\ waking = "preparing" /\ box.st = "absent" /\ Fault
  /\ waking' = "no" /\ lease' = lease \ {last}
  /\ \/ UNCHANGED <<box, made>>
     \/ /\ made < MaxBoxes /\ made' = made + 1
        /\ box' = [st |-> "created", id |-> made + 1]
  /\ UNCHANGED <<cur, last, adopt, stage, owed, hubv, handle, call, reg, dead,
                 crashed, watch, stops>>

\* driver.prepare, registerRuntime and armSessionLifecycle up to the write of
\* container_status: an existing container is the session, else the kernel
\* creates and starts one.  onTerminal first, then start() attaches.
Prepare ==
  /\ waking = "preparing"
  /\ IF box.st # "absent" THEN UNCHANGED <<box, made, reg>>
     ELSE /\ made < MaxBoxes /\ made' = made + 1 /\ reg' = made + 1
          /\ box' = [st |-> "running", id |-> made + 1]
  /\ handle' = [handle EXCEPT ![last] =
        [box |-> box'.id, own |-> box.st = "absent", stopping |-> FALSE,
         attach |-> IF box'.st = "running" THEN "live" ELSE "refused"]]
  /\ hub' = [hub EXCEPT ![last] = Tracked] /\ key' = last
  /\ cur' = last /\ stage' = [stage EXCEPT ![last] = "tracked"]
  /\ stream' = IF stream = "off" THEN "connecting" ELSE stream
  /\ waking' = "marking"
  /\ UNCHANGED <<last, adopt, lease, owed, told, call, dead, crashed, event,
                 bounds>>

MarkRunning ==
  /\ waking = "marking"
  /\ waking' = "no"
  /\ UNCHANGED <<cur, last, adopt, stage, lease, owed, hubv, handle, call,
                 docker, watch, bounds>>

\* mutant: the failed wake always waits for the runtime's end
ArmFailsWaits ==
  /\ waking = "marking" /\ Fault
  /\ lease' = lease \ {last}
  /\ waking' = "awaiting"
  /\ UNCHANGED <<cur, stage, last, adopt, owed, hubv, handle, call, docker,
                 watch, stops>>

\* The write fails: claim and lease are released and the runtime is dropped,
\* unless it is being finished, which the wake then waits for.
ArmFails ==
  /\ waking = "marking" /\ Fault
  /\ lease' = lease \ {last}
  /\ IF cur = last /\ stage[last] = "tracked"
     THEN /\ cur' = 0 /\ stage' = [stage EXCEPT ![last] = "dropped"]
          /\ waking' = "no"
     ELSE waking' = "awaiting" /\ UNCHANGED <<cur, stage>>
  /\ UNCHANGED <<last, adopt, owed, hubv, handle, call, docker, watch, stops>>

WakeGivesUp ==
  /\ waking = "awaiting" /\ stage[last] = "finished"
  /\ waking' = "no"
  /\ UNCHANGED <<cur, last, adopt, stage, lease, owed, hubv, handle, call,
                 docker, watch, bounds>>

\* finish(): row, typing, lease, registry, exit callbacks.
finish(n) ==
  /\ stage[n] = "finishing"
  /\ stage' = [stage EXCEPT ![n] = "finished"]
  /\ lease' = lease \ {n}
  /\ cur' = IF cur = n THEN 0 ELSE cur
  /\ owed' = owed \ {n}
  /\ UNCHANGED <<last, waking, adopt, hubv, handle, call, docker, watch,
                 bounds>>

-----------------------------------------------------------------------------
(* Adoption at start-up                                                    *)

\* adoptOneSession registers and arms; an end confirmed before is delivered.
adoptOneSession ==
  /\ adopt = "listed"
  /\ cur' = 1
  /\ stage' = [stage EXCEPT ![1] =
                 IF hub[1].pending THEN "finishing" ELSE "tracked"]
  /\ hub' = [hub EXCEPT ![1].cb = TRUE, ![1].pending = FALSE]
  /\ stream' = IF stream = "off" THEN "connecting" ELSE stream
  /\ adopt' = "armed"
  /\ UNCHANGED <<last, waking, lease, owed, key, told, handle, call, docker,
                 event, bounds>>

\* hub.resync: the ends nobody listened for.  A listed corpse is delivered
\* without a read, an unlisted container is confirmed by the handle.
resync ==
  /\ adopt = "armed" /\ adopt' = "no"
  /\ LET s == hub[1]
         armed == s.cb /\ ~s.fired /\ ~s.stop IN
     CASE armed /\ box.st = "exited" ->
            /\ hub' = [hub EXCEPT ![1].fired = TRUE]
            /\ told' = [told EXCEPT ![1] = "stopped"]
            /\ finishAndResolve
       [] armed /\ box.st = "absent" ->
            /\ hub' = [hub EXCEPT ![1] = verify(@, status(handle, 1))]
            /\ UNCHANGED <<told, stage>>
       [] OTHER -> UNCHANGED <<hub, told, stage>>
  /\ UNCHANGED <<cur, last, waking, lease, owed, key, handle, call, docker,
                 watch, bounds>>

\* listSessions fails, and the host starts without the resync.
ResyncFails ==
  /\ adopt = "armed" /\ adopt' = "no" /\ Fault
  /\ UNCHANGED <<cur, last, waking, stage, lease, owed, hubv, handle, call,
                 docker, watch, stops>>

-----------------------------------------------------------------------------
(* Stopping                                                                *)

\* killContainer: the exit callback is registered, the intent marked under
\* the session's key, the kernel asked.
killContainer(c, notify) ==
  /\ cur # 0 /\ call[c].at = "free"
  /\ call' = [call EXCEPT ![c] = [rt |-> cur, at |-> "asked", reg |-> 0]]
  /\ handle' = [handle EXCEPT ![cur].stopping = TRUE]
  /\ hub' = [hub EXCEPT ![key].stop = TRUE]
  /\ owed' = IF notify THEN owed \cup {cur} ELSE owed
  /\ UNCHANGED <<cur, last, waking, adopt, stage, lease, key, told, docker,
                 watch>>

\* A restart, a rebuild, a lost gateway lease, a stuck claim, a deleted group.
StopAsked(c) ==
  /\ stops < MaxStops /\ stops' = stops + 1
  /\ \E notify \in BOOLEAN : killContainer(c, notify)
  /\ UNCHANGED faults

\* Nothing is under way for the session.
Quiet ==
  /\ adopt = "no" /\ waking = "no" /\ stream = "up" /\ ~event
  /\ box.st # "exited"
  /\ \A n \in Wakes : hub[n].read = "no" /\ stage[n] # "finishing"
                      /\ handle[n].attach \notin {"refused", "killing"}
                      /\ ~(handle[n].attach = "live" /\ handle[n].box \in dead)
  /\ \A c \in Calls : call[c].at = "free"

\* mutant: no start time is kept for an adopted container
CeilingSparesAdopted ==
  /\ Quiet /\ box.st # "running" /\ cur # 0
  /\ handle[cur].attach # "none"

\* Past the sweep's ceiling: thirty minutes without a heartbeat are longer
\* than anything else here takes, and a container that is not running has none.
PastCeiling ==
  Quiet /\ box.st # "running" /\ cur # 0

CeilingKill(c) ==
  /\ PastCeiling
  /\ killContainer(c, FALSE)
  /\ UNCHANGED bounds

\* The kernel knows the session: `docker stop` on the name it registered.
KernelStops(c) ==
  /\ call[c].at = "asked" /\ reg # 0
  /\ call' = [call EXCEPT ![c].at = "stopped", ![c].reg = reg]
  /\ IF box.st = "running" THEN \E bad \in BOOLEAN : Ends(bad)
     ELSE UNCHANGED <<box, dead, crashed, event>>
  /\ UNCHANGED <<runner, hubv, handle, reg, made, stream, bounds>>

Removed ==
  /\ box' = NoBox
  /\ IF box.st = "running"
     THEN /\ dead' = dead \cup {box.id} /\ crashed' = crashed \cup {box.id}
          /\ event' = (event \/ stream = "up")
     ELSE UNCHANGED <<dead, crashed, event>>

\* Then `docker rm --force` on the name, whoever wears it by now, and the
\* registry entry goes if it is still the same.
KernelRemoves(c) ==
  /\ call[c].at = "stopped"
  /\ call' = [call EXCEPT ![c].at = "done"]
  /\ Removed
  /\ reg' = IF reg = call[c].reg THEN 0 ELSE reg
  /\ UNCHANGED <<runner, hubv, handle, made, stream, bounds>>

\* unknown-session: the host stops and removes the name itself.
StopsDirectly(c) ==
  /\ call[c].at = "asked" /\ reg = 0
  /\ call' = [call EXCEPT ![c].at = "done"]
  /\ Removed
  /\ UNCHANGED <<runner, hubv, handle, reg, made, stream, bounds>>

\* Any other error: the attach process is killed and stop() throws.
KernelFails(c) ==
  /\ call[c].at \in {"asked", "stopped"} /\ Fault
  /\ call' = [call EXCEPT ![c].at = "done"]
  /\ handle' = [handle EXCEPT ![call[c].rt].attach =
                  IF @ \in {"live", "refused"} THEN "killing" ELSE @]
  /\ UNCHANGED <<runner, hubv, docker, watch, stops>>

KernelRestarts ==
  /\ reg # 0 /\ Fault
  /\ reg' = 0
  /\ call' = [c \in Calls |-> IF call[c].at \in {"asked", "stopped"}
                              THEN [call[c] EXCEPT !.at = "done"] ELSE call[c]]
  /\ handle' = [n \in Wakes |->
        IF /\ handle[n].attach \in {"live", "refused"}
           /\ \E c \in Calls : /\ call[c].rt = n
                              /\ call[c].at \in {"asked", "stopped"}
        THEN [handle[n] EXCEPT !.attach = "killing"] ELSE handle[n]]
  /\ UNCHANGED <<runner, hubv, box, made, dead, crashed, watch, stops>>

\* mutant: whatever runs under the session's id is finished
StopReturnsUnchecked(c) ==
  /\ call[c].at = "done"
  /\ call' = [call EXCEPT ![c] = [rt |-> 0, at |-> "free", reg |-> 0]]
  /\ finishAndResolve
  /\ UNCHANGED <<cur, last, waking, adopt, lease, owed, hubv, handle, docker,
                 watch, bounds>>

\* stop() resolved or failed: what it was asked for is finished, if the
\* runtime was not already.
StopReturns(c) ==
  /\ call[c].at = "done"
  /\ call' = [call EXCEPT ![c] = [rt |-> 0, at |-> "free", reg |-> 0]]
  /\ IF stage[call[c].rt] \in {"tracked", "dropped"} THEN finishAndResolve
     ELSE UNCHANGED stage
  /\ UNCHANGED <<cur, last, waking, adopt, lease, owed, hubv, handle, docker,
                 watch, bounds>>

-----------------------------------------------------------------------------
Next ==
  \/ BoxExits \/ BoxRemoved
  \/ EventArrives \/ Subscribed \/ StreamDrops \/ Reconnect
  \/ wakeContainer \/ PrepareFails \/ Prepare \/ MarkRunning \/ ArmFails
  \/ WakeGivesUp
  \/ adoptOneSession \/ resync \/ ResyncFails
  \/ KernelRestarts
  \/ \E n \in Wakes : \/ VerifyEnds(n) \/ finish(n)
                      \/ AttachEnds(n) \/ KilledAttachEnds(n)
  \/ \E c \in Calls : \/ StopAsked(c) \/ CeilingKill(c)
                      \/ KernelStops(c) \/ KernelRemoves(c)
                      \/ StopsDirectly(c) \/ KernelFails(c) \/ StopReturns(c)

Spec == Init /\ [][Next]_vars

\* What was begun goes on: reads and processes end, the stream reconnects,
\* the kernel answers, the sweep runs.  Containers need not end and wakes and
\* stops need not be asked for.  Each of these is bounded, so that fairness of
\* them all together makes each of them happen.
Goes ==
  \/ BoxRemoved \/ EventArrives \/ Subscribed \/ Reconnect
  \/ Prepare \/ MarkRunning \/ WakeGivesUp \/ adoptOneSession \/ resync
  \/ \E n \in Wakes : \/ VerifyEnds(n) \/ finish(n)
                      \/ AttachEnds(n) \/ KilledAttachEnds(n)
  \/ \E c \in Calls : \/ KernelStops(c) \/ KernelRemoves(c)
                      \/ StopsDirectly(c) \/ StopReturns(c) \/ CeilingKill(c)

\* WF_vars(Goes), its ENABLED written out: TLC would evaluate it on every step.
GoesOn ==
  \/ adopt # "no" \/ event \/ stream \in {"connecting", "down"}
  \/ box.st = "exited"
  \/ waking = "preparing" /\ (box.st # "absent" \/ made < MaxBoxes)
  \/ waking = "marking"
  \/ waking = "awaiting" /\ stage[last] = "finished"
  \/ \E n \in Wakes : \/ hub[n].read # "no" \/ stage[n] = "finishing"
                      \/ handle[n].attach \in {"refused", "killing"}
                      \/ handle[n].attach = "live" /\ handle[n].box \in dead
  \/ \E c \in Calls : call[c].at # "free"
  \/ PastCeiling

FairSpec == Spec /\ ([]<>~GoesOn \/ []<><<Goes>>_vars)

-----------------------------------------------------------------------------
(* Properties                                                              *)

Answer   == {"running", "ready", "stopped", "failed"}
HubState == [cb : BOOLEAN, stop : BOOLEAN, fired : BOOLEAN, pending : BOOLEAN,
             recheck : BOOLEAN, read : Answer \cup {"no"}]
Handle   == [box : 0 .. MaxBoxes, own : BOOLEAN, stopping : BOOLEAN,
             attach : {"none", "live", "refused", "zero", "nonzero",
                       "killing", "killed"}]

Box      == [st : {"created", "running", "exited"}, id : Boxes]
Call     == [rt : 0 .. MaxWakes, reg : 0 .. MaxBoxes,
             at : {"free", "asked", "stopped", "done"}]

\* Runner, hub, handles and containers keep their types.
TypeOK ==
  /\ cur \in 0 .. MaxWakes /\ last \in 0 .. MaxWakes /\ key \in 0 .. MaxWakes
  /\ waking \in {"no", "preparing", "marking", "awaiting"}
  /\ adopt \in {"no", "listed", "armed"}
  /\ stage \in [Wakes -> {"unborn", "tracked", "finishing", "finished",
                          "dropped"}]
  /\ lease \subseteq Wakes /\ owed \subseteq Wakes
  /\ hub \in [Wakes -> HubState] /\ handle \in [Wakes -> Handle]
  /\ told \in [Wakes -> {"no", "stopped", "failed"}]
  /\ call \in [Calls -> Call]
  /\ reg \in 0 .. MaxBoxes /\ made \in 0 .. MaxBoxes
  /\ box \in Box \cup {NoBox}
  /\ dead \subseteq Boxes /\ crashed \subseteq dead
  /\ stream \in {"off", "connecting", "up", "down"} /\ event \in BOOLEAN
  /\ faults \in 0 .. MaxFaults /\ stops \in 0 .. MaxStops

\* A runtime a failed wake dropped is not marked finished: its late stop may
\* finish its successor, the one thing the properties of ends leave out.
Orphaned(n) == \E m \in Wakes : m < n /\ stage[m] = "dropped"

\* The container ended, or was removed before it ever ran.
Gone(n) == handle[n].box \in dead \/ handle[n].box # box.id

\* A runtime is finished because its own container is gone or its own stop
\* returned, never on another incarnation's account (finishAndResolve looks
\* up by session id, container-runner.ts:517).
FinishedForItsOwnEnd ==
  [][\A n \in Wakes :
       stage[n] = "tracked" /\ stage'[n] = "finishing" =>
         \/ Gone(n) \/ Orphaned(n)
         \/ \E c \in Calls : call[c].rt = n /\ call[c].at = "done"]_vars

\* onTerminal fires only for ends the host did not ask for, also when the
\* stop lands between a truth read and its answer (session-events.ts:187).
IntendedStopsStaySilent ==
  [][\A n \in Wakes :
       told[n] = "no" /\ told'[n] # "no" => ~handle[n].stopping]_vars

\* An end is acted on for the runtime it happened to, and told only if nobody
\* asked for it.
EndsAreToldRight == FinishedForItsOwnEnd /\ IntendedStopsStaySilent

\* A container this host started and that exits non-zero is reported as
\* failed, whichever of event stream and attach process is first
\* (docker-driver.ts:505).  A dropped runtime's report reaches nobody.
CrashIsReportedAsFailure ==
  \A n \in Wakes :
    handle[n].own /\ told[n] = "stopped" /\ stage[n] # "dropped" /\ ~Orphaned(n)
      => handle[n].box \notin crashed

\* Gateway leases belong to the registered runtime or to a wake or adoption
\* that is about to register one: no path leaves one behind
\* (container-runner.ts:421, :452 and :560).
LeaseEndsWithSession ==
  lease \subseteq ({cur} \cup (IF waking = "preparing" THEN {last} ELSE {})
                         \cup (IF adopt = "listed" THEN {1} ELSE {}))

\* The end of a container with an attach process never needs the sweep's
\* ceiling to be noticed: when nothing is under way any more, the runtime is
\* finished (hints queued during a read, session-events.ts:163).
AttachedEndIsNoticed ==
  Quiet /\ cur # 0 /\ handle[cur].attach # "none"
    => handle[cur].box \notin dead

\* Registry, leases and hub agree in every state.
SupervisionInvariant == TypeOK /\ LeaseEndsWithSession /\ AttachedEndIsNoticed

\* No runtime stays registered when its container does not run, however many
\* hints were lost; while it stays, every wake is answered "already running".
NoRuntimeOutlivesItsContainer ==
  \A n \in Wakes :
    (stage[n] = "tracked" /\ box.st # "running") ~> (stage[n] # "tracked")

\* An exit callback (the wake of a restart) runs, whether the stop succeeds
\* or fails, unless the wake that registered the runtime dropped it.
CallbackRuns ==
  \A n \in Wakes :
    n \in owed ~> (n \notin owed \/ stage[n] = "dropped")

\* An in-flight wake settles: a promise that stayed in wakePromises would
\* answer every later wake of the session.
WakeSettles == waking # "no" ~> waking = "no"

\* Whoever waits for a wake or a stop is answered.
WakesAndStopsSettle == CallbackRuns /\ WakeSettles

=============================================================================
