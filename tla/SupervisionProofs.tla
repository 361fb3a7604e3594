------------------------- MODULE SupervisionProofs -------------------------
(***************************************************************************)
(* Proofs about the host's two supervisors.  First SessionSupervision, for *)
(* every number of wakes, containers, stop() calls and faults.  Then       *)
(* KernelSupervisor, for any number of kernel processes, of host lives and *)
(* of faults: the lock's hold on the control socket, no restart after a    *)
(* shutdown, no theft of the own child's socket.  The two share no state   *)
(* and no name; every theorem is about the specification it states.        *)
(***************************************************************************)
EXTENDS SessionSupervision, KernelSupervisor, TLAPS

-----------------------------------------------------------------------------
(* The session's supervisor: registry, hub, Docker handle and container.   *)

\* A truth read has one of four answers (DockerHandle.status).
LEMMA StatusAnswers == ASSUME NEW h, NEW n PROVE status(h, n) \in Answer
BY DEF status, Answer

\* What a hint does to a state: it starts a read, or marks the one under way.
LEMMA VerifyDoes ==
  ASSUME NEW s \in HubState, NEW answer \in Answer
  PROVE  /\ verify(s, answer) \in HubState
         /\ verify(s, answer).cb = s.cb /\ verify(s, answer).stop = s.stop
         /\ verify(s, answer).fired = s.fired
         /\ verify(s, answer).pending = s.pending
         /\ s.fired \/ s.stop => verify(s, answer) = s
         /\ ~s.fired /\ ~s.stop /\ s.read = "no" => verify(s, answer).read = answer
         /\ ~s.fired /\ ~s.stop /\ s.read # "no" =>
               verify(s, answer).read = s.read /\ verify(s, answer).recheck = TRUE
BY DEF verify, HubState, Answer

\* The same of the hub's state of a runtime.
LEMMA VerifiedState ==
  ASSUME NEW n, NEW h, hub[n] \in HubState, hub'[n] = verify(hub[n], status(h, n))
  PROVE  /\ hub'[n].cb = hub[n].cb /\ hub'[n].stop = hub[n].stop
         /\ hub'[n].fired = hub[n].fired /\ hub'[n].pending = hub[n].pending
         /\ hub[n].fired \/ hub[n].stop => hub'[n] = hub[n]
         /\ ~hub[n].fired /\ ~hub[n].stop /\ hub[n].read = "no" =>
               hub'[n].read = status(h, n)
         /\ ~hub[n].fired /\ ~hub[n].stop /\ hub[n].read # "no" =>
               hub'[n].read = hub[n].read /\ hub'[n].recheck = TRUE
<1> DEFINE v == verify(hub[n], status(h, n))
<1>1. /\ v.cb = hub[n].cb /\ v.stop = hub[n].stop
      /\ v.fired = hub[n].fired /\ v.pending = hub[n].pending
      /\ hub[n].fired \/ hub[n].stop => v = hub[n]
      /\ ~hub[n].fired /\ ~hub[n].stop /\ hub[n].read = "no" => v.read = status(h, n)
      /\ ~hub[n].fired /\ ~hub[n].stop /\ hub[n].read # "no" =>
            v.read = hub[n].read /\ v.recheck = TRUE
  BY VerifyDoes, StatusAnswers
<1> QED  BY <1>1

\* The same of a hint for the session's key, whichever handles it reads.
LEMMA HintDoes ==
  ASSUME TypeOK, NEW h
  PROVE  /\ onEvent(h) \in [Wakes -> HubState]
         /\ \A n \in Wakes : n # key => onEvent(h)[n] = hub[n]
         /\ key # 0 => onEvent(h)[key] = verify(hub[key], status(h, key))
<1>1. CASE key = 0
  BY <1>1 DEF onEvent, TypeOK
<1>2. CASE key # 0
  <2>1. key \in Wakes /\ hub \in [Wakes -> HubState]
    BY <1>2 DEF TypeOK, Wakes
  <2>2. verify(hub[key], status(h, key)) \in HubState
    BY <2>1, VerifyDoes, StatusAnswers
  <2> QED  BY <1>2, <2>1, <2>2 DEF onEvent
<1> QED  BY <1>1, <1>2

\* Updates of a field keep the records what they are.
LEMMA HubUpdates ==
  ASSUME NEW s \in HubState
  PROVE  /\ [s EXCEPT !.stop = TRUE] \in HubState
         /\ [s EXCEPT !.fired = TRUE] \in HubState
         /\ [s EXCEPT !.cb = TRUE, !.pending = FALSE] \in HubState
         /\ [s EXCEPT !.read = "no"] \in HubState
         /\ \A answer \in Answer :
               [s EXCEPT !.recheck = FALSE, !.read = answer] \in HubState
         /\ [s EXCEPT !.recheck = FALSE, !.read = "no"] \in HubState
         /\ [s EXCEPT !.read = "no", !.fired = TRUE, !.pending = ~s.cb] \in HubState
BY DEF HubState

LEMMA HandleUpdates ==
  ASSUME NEW s \in Handle
  PROVE  /\ [s EXCEPT !.stopping = TRUE] \in Handle
         /\ \A a \in {"none", "live", "refused", "zero", "nonzero", "killing",
                      "killed"} : [s EXCEPT !.attach = a] \in Handle
BY DEF Handle

LEMMA CallUpdates ==
  ASSUME NEW s \in Call
  PROVE  \A a \in {"free", "asked", "stopped", "done"}, r \in 0 .. MaxBoxes :
           /\ [s EXCEPT !.at = a] \in Call
           /\ [s EXCEPT !.at = a, !.reg = r] \in Call
BY DEF Call

\* The container that wears the name, when it ends or is removed.
LEMMA EndsDoes ==
  ASSUME TypeOK, box.st = "running", NEW bad, Ends(bad)
  PROVE  /\ box' \in Box \cup {NoBox} /\ event' \in BOOLEAN
         /\ dead' \subseteq Boxes /\ crashed' \subseteq dead'
<1>1. event' \in BOOLEAN
  BY Zenon DEF Ends
<1>2. box \in Box
  BY DEF TypeOK, NoBox
<1>3. box' \in Box
  BY <1>2 DEF Ends, Box
<1>4. dead' \subseteq Boxes /\ crashed' \subseteq dead'
  BY <1>2 DEF Ends, TypeOK, Box
<1> QED  BY <1>1, <1>3, <1>4

LEMMA RemovedDoes ==
  ASSUME TypeOK, Removed
  PROVE  /\ box' \in Box \cup {NoBox} /\ event' \in BOOLEAN
         /\ dead' \subseteq Boxes /\ crashed' \subseteq dead'
<1>1. CASE box.st = "running"
  <2>1. event' \in BOOLEAN
    BY <1>1, Zenon DEF Removed
  <2>2. box \in Box
    BY <1>1 DEF TypeOK, NoBox
  <2>3. dead' \subseteq Boxes /\ crashed' \subseteq dead'
    BY <1>1, <2>2 DEF Removed, TypeOK, Box
  <2> QED  BY <2>1, <2>3 DEF Removed
<1>2. CASE box.st # "running"
  BY <1>2 DEF Removed, TypeOK
<1> QED  BY <1>1, <1>2

\* What a stop asks: an intent for the handle and the hub, a call, a callback.
LEMMA KillDoes ==
  ASSUME TypeOK, NEW c \in Calls, NEW notify \in BOOLEAN, killContainer(c, notify)
  PROVE  /\ hub' \in [Wakes -> HubState] /\ handle' \in [Wakes -> Handle]
         /\ call' \in [Calls -> Call] /\ owed' \subseteq Wakes
<1>1. cur \in Wakes
  BY DEF killContainer, TypeOK, Wakes
<1>2. hub' \in [Wakes -> HubState]
  <2>1. \A n \in Wakes : [hub[n] EXCEPT !.stop = TRUE] \in HubState
    BY HubUpdates DEF TypeOK
  <2> QED  BY <2>1 DEF killContainer, TypeOK
<1>3. handle' \in [Wakes -> Handle]
  BY <1>1, HandleUpdates DEF killContainer, TypeOK
<1>4. call' \in [Calls -> Call] /\ owed' \subseteq Wakes
  <2>1. [rt |-> cur, at |-> "asked", reg |-> 0] \in Call
    BY <1>1, SupervisionAssumption DEF Call, Wakes
  <2> QED  BY <1>1, <2>1 DEF killContainer, TypeOK
<1> QED  BY <1>2, <1>3, <1>4

\* The fault budget stays in range.
LEMMA FaultInRange == TypeOK /\ Fault => faults' \in 0 .. MaxFaults
BY SupervisionAssumption DEF TypeOK, Fault

\* Every step keeps the types.
LEMMA StepType ==
  ASSUME TypeOK, [Next]_vars
  PROVE  TypeOK'
<1> USE DEF runner, hubv, docker, watch, bounds, Wakes, Boxes
<1> USE SupervisionAssumption
<1>1. CASE UNCHANGED vars
  BY <1>1 DEF vars, TypeOK
<1>2. CASE Subscribed \/ MarkRunning \/ WakeGivesUp
  BY <1>2 DEF Subscribed, MarkRunning, WakeGivesUp, TypeOK
<1>3. CASE BoxExits
  <2>1. /\ box' \in Box \cup {NoBox} /\ event' \in BOOLEAN
        /\ dead' \subseteq Boxes /\ crashed' \subseteq dead'
    BY <1>3, EndsDoes DEF BoxExits
  <2> QED  BY <1>3, <2>1 DEF BoxExits, TypeOK
<1>4. CASE BoxRemoved
  BY <1>4 DEF BoxRemoved, TypeOK
<1>5. CASE EventArrives
  <2>1. hub' \in [Wakes -> HubState]
    BY <1>5, HintDoes DEF EventArrives
  <2> QED  BY <1>5, <2>1 DEF EventArrives, TypeOK
<1>6. CASE StreamDrops \/ ResyncFails
  <2>1. faults' \in 0 .. MaxFaults
    BY <1>6, FaultInRange DEF StreamDrops, ResyncFails
  <2> QED  BY <1>6, <2>1 DEF StreamDrops, ResyncFails, TypeOK
<1>7. CASE Reconnect
  <2>1. hub' \in [Wakes -> HubState]
    BY <1>7, HintDoes DEF Reconnect, TypeOK
  <2>2. faults' \in 0 .. MaxFaults
    BY <1>7, FaultInRange DEF Reconnect, TypeOK
  <2> QED  BY <1>7, <2>1, <2>2 DEF Reconnect, TypeOK
<1>8. CASE wakeContainer
  BY <1>8 DEF wakeContainer, TypeOK
<1>9. CASE PrepareFails
  <2>1. box' \in Box \cup {NoBox} /\ made' \in 0 .. MaxBoxes
    BY <1>9 DEF PrepareFails, TypeOK, Box
  <2>2. faults' \in 0 .. MaxFaults
    BY <1>9, FaultInRange DEF PrepareFails
  <2> QED  BY <1>9, <2>1, <2>2 DEF PrepareFails, TypeOK
<1>10. CASE Prepare
  <2>1. /\ box' \in Box /\ made' \in 0 .. MaxBoxes /\ reg' \in 0 .. MaxBoxes
    BY <1>10 DEF Prepare, TypeOK, Box, NoBox
  <2>2. [box |-> box'.id, own |-> box.st = "absent", stopping |-> FALSE,
         attach |-> IF box'.st = "running" THEN "live" ELSE "refused"] \in Handle
    BY <1>10, <2>1 DEF Box, Handle
  <2>3. handle' \in [Wakes -> Handle]
    BY <1>10, <2>2 DEF Prepare, TypeOK
  <2>4. Tracked \in HubState
    BY <1>10 DEF Tracked, FreshState, HubState
  <2>5. hub' \in [Wakes -> HubState]
    BY <1>10, <2>4 DEF Prepare, TypeOK
  <2> QED  BY <1>10, <2>1, <2>2, <2>3, <2>4, <2>5 DEF Prepare, TypeOK
<1>11. CASE ArmFails
  <2>1. faults' \in 0 .. MaxFaults
    BY <1>11, FaultInRange DEF ArmFails
  <2> QED  BY <1>11, <2>1 DEF ArmFails, TypeOK
<1>12. CASE adoptOneSession
  <2>1. hub' \in [Wakes -> HubState]
    BY <1>12, HubUpdates DEF adoptOneSession, TypeOK
  <2> QED  BY <1>12, <2>1 DEF adoptOneSession, TypeOK
<1>13. CASE resync
  <2>1. 1 \in Wakes /\ hub[1] \in HubState
    BY DEF TypeOK
  <2>2. hub' \in [Wakes -> HubState]
    <3>1. /\ [hub[1] EXCEPT !.fired = TRUE] \in HubState
          /\ verify(hub[1], status(handle, 1)) \in HubState
      BY <2>1, HubUpdates, VerifyDoes, StatusAnswers
    <3>2. \/ hub' = [hub EXCEPT ![1] = [hub[1] EXCEPT !.fired = TRUE]]
          \/ hub' = [hub EXCEPT ![1] = verify(hub[1], status(handle, 1))]
          \/ hub' = hub
      BY <1>13 DEF resync, TypeOK
    <3> QED  BY <3>1, <3>2 DEF TypeOK
  <2>3. /\ told' \in [Wakes -> {"no", "stopped", "failed"}]
        /\ stage' \in [Wakes -> {"unborn", "tracked", "finishing", "finished",
                                  "dropped"}]
    BY <1>13 DEF resync, finishAndResolve, TypeOK
  <2> QED  BY <1>13, <2>2, <2>3 DEF resync, TypeOK
<1>14. CASE KernelRestarts
  <2>1. call' \in [Calls -> Call]
    BY <1>14, CallUpdates DEF KernelRestarts, TypeOK
  <2>2. handle' \in [Wakes -> Handle]
    BY <1>14, HandleUpdates DEF KernelRestarts, TypeOK
  <2>3. faults' \in 0 .. MaxFaults
    BY <1>14, FaultInRange DEF KernelRestarts
  <2> QED  BY <1>14, <2>1, <2>2, <2>3 DEF KernelRestarts, TypeOK
<1>15. ASSUME NEW k \in Wakes, VerifyEnds(k) PROVE TypeOK'
  <2>1. hub[k] \in HubState
    BY DEF TypeOK
  <2>2. hub' \in [Wakes -> HubState]
    <3>1. CASE hub[k].read \in {"stopped", "failed"}
      BY <1>15, <2>1, <3>1, HubUpdates DEF VerifyEnds, deliver, TypeOK
    <3>2. CASE hub[k].read \notin {"stopped", "failed"}
      <4>1. PICK a \in Answer \cup {"no"} :
              hub' = [hub EXCEPT ![k] = [hub[k] EXCEPT !.recheck = FALSE, !.read = a]]
        BY <1>15, <3>2, StatusAnswers DEF VerifyEnds, TypeOK
      <4> QED  BY <4>1, <2>1, HubUpdates DEF TypeOK
    <3> QED  BY <3>1, <3>2
  <2>3. /\ told' \in [Wakes -> {"no", "stopped", "failed"}]
        /\ stage' \in [Wakes -> {"unborn", "tracked", "finishing", "finished",
                                  "dropped"}]
    BY <1>15 DEF VerifyEnds, deliver, finishAndResolve, TypeOK
  <2> QED  BY <1>15, <2>2, <2>3 DEF VerifyEnds, TypeOK
<1>16. ASSUME NEW k \in Wakes, finish(k) PROVE TypeOK'
  BY <1>16 DEF finish, TypeOK
<1>17. ASSUME NEW k \in Wakes, AttachEnds(k) PROVE TypeOK'
  <2>1. handle' \in [Wakes -> Handle]
    BY <1>17, HandleUpdates DEF AttachEnds, TypeOK
  <2>2. hub' \in [Wakes -> HubState]
    BY <1>17, HintDoes DEF AttachEnds, TypeOK
  <2> QED  BY <1>17, <2>1, <2>2 DEF AttachEnds, TypeOK
<1>18. ASSUME NEW k \in Wakes, KilledAttachEnds(k) PROVE TypeOK'
  <2>1. handle' \in [Wakes -> Handle]
    BY <1>18, HandleUpdates DEF KilledAttachEnds, TypeOK
  <2>2. hub' \in [Wakes -> HubState]
    BY <1>18, HintDoes DEF KilledAttachEnds, TypeOK
  <2> QED  BY <1>18, <2>1, <2>2 DEF KilledAttachEnds, TypeOK
<1>19. ASSUME NEW c \in Calls, StopAsked(c) PROVE TypeOK'
  <2>1. PICK notify \in BOOLEAN : killContainer(c, notify)
    BY <1>19 DEF StopAsked
  <2>2. faults' \in 0 .. MaxFaults /\ stops' \in 0 .. MaxStops
    BY <1>19 DEF StopAsked, TypeOK
  <2>3. /\ hub' \in [Wakes -> HubState] /\ handle' \in [Wakes -> Handle]
        /\ call' \in [Calls -> Call] /\ owed' \subseteq Wakes
    BY <2>1, KillDoes
  <2> QED  BY <2>1, <2>2, <2>3 DEF killContainer, TypeOK
<1>20. ASSUME NEW c \in Calls, CeilingKill(c) PROVE TypeOK'
  <2>1. PICK notify \in BOOLEAN : killContainer(c, notify)
    BY <1>20 DEF CeilingKill
  <2>2. faults' \in 0 .. MaxFaults /\ stops' \in 0 .. MaxStops
    BY <1>20 DEF CeilingKill, TypeOK
  <2>3. /\ hub' \in [Wakes -> HubState] /\ handle' \in [Wakes -> Handle]
        /\ call' \in [Calls -> Call] /\ owed' \subseteq Wakes
    BY <2>1, KillDoes
  <2> QED  BY <2>1, <2>2, <2>3 DEF killContainer, TypeOK
<1>21. ASSUME NEW c \in Calls, KernelStops(c) PROVE TypeOK'
  <2>1. /\ box' \in Box \cup {NoBox} /\ event' \in BOOLEAN
        /\ dead' \subseteq Boxes /\ crashed' \subseteq dead'
    BY <1>21, EndsDoes DEF KernelStops, TypeOK
  <2>2. call' \in [Calls -> Call]
    BY <1>21 DEF KernelStops, TypeOK, Call
  <2> QED  BY <1>21, <2>1, <2>2 DEF KernelStops, TypeOK
<1>22. ASSUME NEW c \in Calls, KernelRemoves(c) PROVE TypeOK'
  <2>1. /\ box' \in Box \cup {NoBox} /\ event' \in BOOLEAN
        /\ dead' \subseteq Boxes /\ crashed' \subseteq dead'
    BY <1>22, RemovedDoes DEF KernelRemoves
  <2>2. call' \in [Calls -> Call]
    BY <1>22, CallUpdates DEF KernelRemoves, TypeOK
  <2> QED  BY <1>22, <2>1, <2>2 DEF KernelRemoves, TypeOK
<1>23. ASSUME NEW c \in Calls, StopsDirectly(c) PROVE TypeOK'
  <2>1. /\ box' \in Box \cup {NoBox} /\ event' \in BOOLEAN
        /\ dead' \subseteq Boxes /\ crashed' \subseteq dead'
    BY <1>23, RemovedDoes DEF StopsDirectly
  <2>2. call' \in [Calls -> Call]
    BY <1>23, CallUpdates DEF StopsDirectly, TypeOK
  <2> QED  BY <1>23, <2>1, <2>2 DEF StopsDirectly, TypeOK
<1>24. ASSUME NEW c \in Calls, KernelFails(c) PROVE TypeOK'
  <2>1. call' \in [Calls -> Call]
    BY <1>24, CallUpdates DEF KernelFails, TypeOK
  <2>2. handle' \in [Wakes -> Handle]
    <3> DEFINE r == call[c].rt
    <3>1. CASE r \in Wakes
      <4>1. handle[r] \in Handle /\ handle[r].attach \in {"none", "live", "refused", "zero",
               "nonzero", "killing", "killed"}
        BY <3>1 DEF TypeOK, Handle
      <4>2. [handle[r] EXCEPT !.attach = IF handle[r].attach \in {"live", "refused"}
                                         THEN "killing" ELSE handle[r].attach] \in Handle
        BY <4>1, HandleUpdates
      <4> QED  BY <1>24, <4>2 DEF KernelFails, TypeOK
    <3>2. CASE r \notin Wakes
      BY <1>24, <3>2 DEF KernelFails, TypeOK
    <3> QED  BY <3>1, <3>2
  <2> QED  BY <1>24, <2>1, <2>2, FaultInRange DEF KernelFails, TypeOK
<1>25. ASSUME NEW c \in Calls, StopReturns(c) PROVE TypeOK'
  <2>1. call' \in [Calls -> Call]
    BY <1>25 DEF StopReturns, TypeOK, Call
  <2>2. stage' \in [Wakes -> {"unborn", "tracked", "finishing", "finished",
                                 "dropped"}]
    BY <1>25 DEF StopReturns, finishAndResolve, TypeOK
  <2> QED  BY <1>25, <2>1, <2>2 DEF StopReturns, TypeOK
<1> QED
  BY <1>1, <1>2, <1>3, <1>4, <1>5, <1>6, <1>7, <1>8, <1>9, <1>10, <1>11,
     <1>12, <1>13, <1>14, <1>15, <1>16, <1>17, <1>18, <1>19, <1>20, <1>21,
     <1>22, <1>23, <1>24, <1>25 DEF Next

-----------------------------------------------------------------------------
(***************************************************************************)
(* The invariant.  One runtime is registered at a time, the newest, and    *)
(* the hub's key and the container of that name are its own; a runtime is  *)
(* marked as ended only when its end was fired or asked for.               *)
(***************************************************************************)

\* The registry and the hub's key move together, and only forward.
Registry ==
  /\ cur # 0 => cur = key /\ hub[cur].cb
  /\ key <= last
  /\ waking = "preparing" => cur = 0 /\ key < last
  /\ adopt # "no" => waking = "no" /\ last = 1 /\ key = 1
  /\ adopt = "listed" => cur = 0 /\ stage[1] = "unborn"
  /\ \A n \in Wakes : /\ stage[n] \in {"tracked", "finishing"} <=> n = cur
                      /\ n > key => stage[n] = "unborn" /\ hub[n].read = "no"

\* An adopted runtime was not started by this host and has no attach process;
\* its container ran before.
Adopted ==
  adopt # "no" => /\ ~handle[1].own /\ handle[1].attach = "none"
                  /\ box.st # "created"
                  /\ adopt = "listed" => ~handle[1].stopping

\* A container that runs or ran last is the one of the hub's key; no number is
\* used twice, so that what ended stays ended.
Containers ==
  /\ box.id <= made
  /\ box.st \in {"running", "created"} => box.id \notin dead
  /\ box.st = "exited" => box.id \in dead
  /\ \A b \in dead : b <= made
  /\ \A n \in Wakes : handle[n].box <= made
  /\ key # 0 => handle[key].box # 0
  /\ box.st \in {"running", "exited"} => key # 0 /\ handle[key].box = box.id
  /\ cur # 0 /\ box.st # "absent" => handle[cur].box = box.id

\* What the attach process of a handle tells of its container, and that the
\* hub and the handle know the same intents.
Attachments ==
  \A n \in Wakes :
    /\ handle[n].attach = "zero" => handle[n].box \in dead \ crashed
    /\ handle[n].attach \in {"killing", "killed"} => handle[n].stopping
    /\ box.st = "running" /\ handle[n].box = box.id =>
          handle[n].attach \notin {"zero", "nonzero", "refused"}
    /\ hub[n].stop <=> handle[n].stopping

\* A stop under way is for a runtime that was registered, and a registered
\* runtime that is to stop has one.
StopsUnderWay ==
  /\ \A c \in Calls : call[c].at # "free" =>
        call[c].rt \in 1 .. key /\ handle[call[c].rt].stopping
  /\ cur # 0 /\ stage[cur] = "tracked" /\ handle[cur].stopping =>
        \E c \in Calls : call[c].rt = cur /\ call[c].at # "free"

\* An end has a reason.
Endings ==
  \A n \in Wakes :
    /\ stage[n] = "tracked" => ~hub[n].fired
    /\ hub[n].pending => hub[n].fired
    /\ hub[n].fired => hub[n].cb \/ hub[n].pending
    /\ stage[n] = "unborn" => ~hub[n].cb /\ ~handle[n].own
    /\ stage[n] \in {"finishing", "finished"} =>
          hub[n].fired \/ hub[n].stop \/ Orphaned(n)

Watched(n) == stage[n] = "tracked" \/ (adopt = "listed" /\ n = 1)

\* The answer a read under way will give is true when it is given, and an end
\* that the attach process hinted is being read.
TrueRead(n) ==
  /\ hub[n].read \in {"stopped", "failed"} => Gone(n)
  /\ hub[n].read = "stopped" /\ handle[n].own => handle[n].box \in dead \ crashed
  /\ handle[n].attach \in {"zero", "nonzero"} /\ handle[n].box \in dead =>
        \/ hub[n].read \in {"stopped", "failed"}
        \/ hub[n].read # "no" /\ hub[n].recheck

\* So are the reads of a runtime the hub watches and nobody stopped.
Reads == \A n \in Wakes : Watched(n) /\ ~hub[n].stop => TrueRead(n)

\* And what was told of it stays true.
Told ==
  \A n \in Wakes :
    /\ n > key => told[n] = "no"
    /\ handle[n].own /\ told[n] = "stopped" /\ stage[n] # "dropped" /\ ~Orphaned(n) =>
         handle[n].box \in dead \ crashed

\* What a hint leaves alone.
HubKept ==
  \A n \in Wakes :
    /\ hub'[n].cb = hub[n].cb /\ hub'[n].stop = hub[n].stop
    /\ hub'[n].fired = hub[n].fired /\ hub'[n].pending = hub[n].pending
    /\ n # key => hub'[n] = hub[n]

LEMMA HintKeeps ==
  ASSUME TypeOK,
         \/ EventArrives \/ Reconnect
         \/ \E k \in Wakes : AttachEnds(k) \/ KilledAttachEnds(k)
  PROVE  HubKept
<1>1. key = 0 \/ key \in Wakes
  BY DEF TypeOK, Wakes
<1>2. ASSUME NEW h, hub' = onEvent(h) PROVE HubKept
  <2>1. SUFFICES ASSUME NEW n \in Wakes
        PROVE  /\ hub'[n].cb = hub[n].cb /\ hub'[n].stop = hub[n].stop
               /\ hub'[n].fired = hub[n].fired /\ hub'[n].pending = hub[n].pending
               /\ n # key => hub'[n] = hub[n]
    BY DEF HubKept
  <2>2. CASE n # key
    BY <1>2, <2>2, HintDoes
  <2>3. CASE n = key
    <3>1. hub'[n] = verify(hub[n], status(h, n)) /\ hub[n] \in HubState
      BY <1>1, <1>2, <2>3, HintDoes DEF TypeOK, Wakes
    <3> QED  BY <3>1, <2>3, VerifiedState
  <2> QED  BY <2>2, <2>3
<1>3. CASE hub' = hub
  BY <1>3 DEF HubKept
<1> QED
  BY <1>2, <1>3 DEF EventArrives, Reconnect, AttachEnds, KilledAttachEnds

\* finishAndResolve ends the registered runtime, if it has not ended.
FinishesCur ==
  \A n \in Wakes :
    stage'[n] = IF n = cur /\ stage[n] = "tracked" THEN "finishing" ELSE stage[n]

LEMMA FinishDoes == ASSUME TypeOK, finishAndResolve PROVE FinishesCur
BY DEF finishAndResolve, FinishesCur, TypeOK, Wakes

\* What the answer of a read does: it fires the end, or is let go.
Fires(k) ==
  /\ hub[k].read \in {"stopped", "failed"} /\ ~hub[k].fired /\ ~hub[k].stop
  /\ hub'[k].fired /\ hub'[k].read = "no" /\ (hub'[k].pending <=> ~hub[k].cb)
  /\ told' = [told EXCEPT ![k] = hub[k].read]
  /\ IF hub[k].cb THEN FinishesCur ELSE stage' = stage

LetsGo(k) ==
  /\ hub'[k].fired = hub[k].fired /\ hub'[k].pending = hub[k].pending
  /\ stage' = stage /\ told' = told
  /\ hub[k].read \in {"stopped", "failed"} => hub[k].fired \/ hub[k].stop
  /\ \/ hub'[k].read = "no" /\ ~(hub[k].recheck /\ ~hub[k].fired /\ ~hub[k].stop
                                  /\ hub[k].read \notin {"stopped", "failed"})
     \/ hub'[k].read = status(handle, k)

LEMMA AnswerDoes ==
  ASSUME TypeOK, NEW k \in Wakes, VerifyEnds(k)
  PROVE  /\ \A n \in Wakes : /\ hub'[n].cb = hub[n].cb /\ hub'[n].stop = hub[n].stop
                             /\ n # k => hub'[n] = hub[n]
         /\ hub[k].read # "no"
         /\ Fires(k) \/ LetsGo(k)
<1>1. hub[k] \in HubState
  BY DEF TypeOK
<1>2. CASE hub[k].read \in {"stopped", "failed"} /\ ~hub[k].fired /\ ~hub[k].stop
  <2>1. hub' = [hub EXCEPT ![k] = [hub[k] EXCEPT !.read = "no", !.fired = TRUE,
                                                 !.pending = ~hub[k].cb]]
    BY <1>2 DEF VerifyEnds, deliver, TypeOK
  <2>2. /\ told' = [told EXCEPT ![k] = hub[k].read]
        /\ IF hub[k].cb THEN finishAndResolve ELSE stage' = stage
    BY <1>2 DEF VerifyEnds, deliver
  <2>3. hub'[k].fired /\ hub'[k].read = "no" /\ (hub'[k].pending <=> ~hub[k].cb)
        /\ hub'[k].cb = hub[k].cb /\ hub'[k].stop = hub[k].stop
    BY <1>1, <2>1 DEF TypeOK, HubState
  <2>4. \A n \in Wakes : n # k => hub'[n] = hub[n]
    BY <2>1 DEF TypeOK
  <2> QED  BY <1>2, <2>2, <2>3, <2>4, FinishDoes DEF Fires
<1>3. CASE hub[k].read \in {"stopped", "failed"} /\ (hub[k].fired \/ hub[k].stop)
  <2>1. hub' = [hub EXCEPT ![k] = [hub[k] EXCEPT !.read = "no"]]
        /\ stage' = stage /\ told' = told
    BY <1>3 DEF VerifyEnds, deliver, TypeOK
  <2>2. hub'[k] = [hub[k] EXCEPT !.read = "no"]
    BY <2>1 DEF TypeOK
  <2> QED  BY <1>1, <1>3, <2>1, <2>2 DEF LetsGo, TypeOK, HubState
<1>4. CASE hub[k].read \notin {"stopped", "failed"}
  <2> DEFINE a == IF hub[k].recheck /\ ~hub[k].fired /\ ~hub[k].stop
                  THEN status(handle, k) ELSE "no"
  <2>1. hub' = [hub EXCEPT ![k] = [hub[k] EXCEPT !.recheck = FALSE, !.read = a]]
        /\ stage' = stage /\ told' = told /\ hub[k].read # "no"
    BY <1>4 DEF VerifyEnds, TypeOK
  <2>2. hub'[k] = [hub[k] EXCEPT !.recheck = FALSE, !.read = a]
    BY <2>1 DEF TypeOK
  <2> QED  BY <1>1, <1>4, <2>1, <2>2 DEF LetsGo, TypeOK, HubState
<1> QED  BY <1>2, <1>3, <1>4 DEF VerifyEnds

\* The resync fires an end it has seen, or asks for one; it listens again.
LEMMA ResyncDoes ==
  ASSUME TypeOK, resync, NEW k \in Wakes, k = 1
  PROVE  /\ hub'[k].cb = hub[k].cb /\ hub'[k].stop = hub[k].stop
         /\ hub'[k].pending = hub[k].pending
         /\ \A n \in Wakes : n # k => hub'[n] = hub[n]
         /\ \/ /\ hub[k].cb /\ ~hub[k].fired /\ ~hub[k].stop /\ box.st = "exited"
               /\ hub'[k].fired /\ hub'[k].read = hub[k].read
               /\ told' = [told EXCEPT ![k] = "stopped"] /\ FinishesCur
            \/ /\ hub'[k] = verify(hub[k], status(handle, k))
               /\ hub'[k].fired = hub[k].fired /\ stage' = stage /\ told' = told
               /\ box.st = "absent"
            \/ /\ hub' = hub /\ stage' = stage /\ told' = told
               /\ box.st # "exited" \/ hub[k].fired \/ hub[k].stop \/ ~hub[k].cb
<1>0. hub[k] \in HubState
  BY DEF TypeOK
<1> DEFINE armed == hub[k].cb /\ ~hub[k].fired /\ ~hub[k].stop
<1>1. CASE armed /\ box.st = "exited"
  <2>1. hub' = [hub EXCEPT ![k] = [hub[k] EXCEPT !.fired = TRUE]]
        /\ told' = [told EXCEPT ![k] = "stopped"] /\ finishAndResolve
    BY <1>1 DEF resync, TypeOK
  <2>2. hub'[k] = [hub[k] EXCEPT !.fired = TRUE] /\ \A n \in Wakes : n # k => hub'[n] = hub[n]
    BY <2>1 DEF TypeOK
  <2>3. hub'[k].cb = hub[k].cb /\ hub'[k].stop = hub[k].stop
        /\ hub'[k].pending = hub[k].pending /\ hub'[k].read = hub[k].read /\ hub'[k].fired
    BY <1>0, <2>2 DEF HubState
  <2> QED  BY <1>1, <2>1, <2>2, <2>3, FinishDoes
<1>2. CASE armed /\ box.st = "absent"
  <2>1. hub' = [hub EXCEPT ![k] = verify(hub[k], status(handle, k))]
        /\ told' = told /\ stage' = stage
    BY <1>2 DEF resync, TypeOK
  <2>2. hub'[k] = verify(hub[k], status(handle, k))
        /\ \A n \in Wakes : n # k => hub'[n] = hub[n]
    BY <2>1 DEF TypeOK
  <2>3. hub'[k].cb = hub[k].cb /\ hub'[k].stop = hub[k].stop
        /\ hub'[k].pending = hub[k].pending /\ hub'[k].fired = hub[k].fired
    BY <1>0, <2>2, VerifiedState
  <2> QED  BY <1>2, <2>1, <2>2, <2>3
<1>3. CASE ~armed \/ box.st \notin {"exited", "absent"}
  BY <1>3 DEF resync
<1> QED  BY <1>1, <1>2, <1>3

\* Steps that register nobody.
LEMMA RegistryKept ==
  ASSUME TypeOK, Registry, UNCHANGED <<cur, last, waking, key>>, adopt' \in {adopt, "no"},
         \A n \in Wakes :
           /\ hub'[n].cb = hub[n].cb
           /\ n # key /\ hub[n].read = "no" => hub'[n].read = "no"
           /\ \/ stage'[n] = stage[n]
              \/ n = cur /\ stage[n] = "tracked" /\ stage'[n] = "finishing"
  PROVE  Registry'
<1>1. PICK k \in Wakes : k = 1
  BY SupervisionAssumption DEF Wakes
<1>2. cur # 0 => cur \in Wakes
  BY DEF TypeOK, Wakes
<1>3. /\ cur # 0 => cur = key /\ hub'[cur].cb
      /\ adopt' # "no" => waking = "no" /\ last = 1 /\ key = 1
  BY <1>2 DEF Registry
<1>4. adopt' = "listed" => cur = 0 /\ stage'[1] = "unborn"
  BY <1>1 DEF Registry
<1>5. key \in Nat
  BY SupervisionAssumption DEF TypeOK
<1>6. ASSUME NEW n \in Wakes
      PROVE  /\ stage'[n] \in {"tracked", "finishing"} <=> n = cur
             /\ n > key => stage'[n] = "unborn" /\ hub'[n].read = "no"
  <2>1. n > key => n # key
    BY <1>5 DEF Wakes
  <2>2. n > key => stage[n] = "unborn" /\ hub[n].read = "no"
    BY DEF Registry
  <2>3. stage[n] \in {"tracked", "finishing"} <=> n = cur
    BY DEF Registry
  <2> QED  BY <2>1, <2>2, <2>3
<1> QED  BY <1>3, <1>4, <1>6 DEF Registry

\* A reconciliation keeps the registry: it only ever touches the one runtime.
LEMMA ResyncRegistry ==
  ASSUME TypeOK, Registry, resync
  PROVE  Registry'
<1>1. PICK k \in Wakes : k = 1
  BY SupervisionAssumption DEF Wakes
<1>2. \A n \in Wakes : \/ stage'[n] = stage[n]
                       \/ n = cur /\ stage[n] = "tracked" /\ stage'[n] = "finishing"
  BY FinishDoes DEF resync, FinishesCur, TypeOK
<1>3. hub'[k].cb = hub[k].cb /\ \A n \in Wakes : n # k => hub'[n] = hub[n]
  BY <1>1, ResyncDoes
<1>4. adopt' = "no" /\ UNCHANGED <<cur, last, waking, key>> /\ key = k
  BY <1>1 DEF resync, Registry, runner
<1> QED  BY <1>1, <1>2, <1>3, <1>4, RegistryKept

\* One runtime is registered at a time, under the hub's key.
LEMMA StepRegistry ==
  ASSUME TypeOK, Registry, [Next]_vars
  PROVE  Registry'
<1> USE DEF runner, hubv, docker, watch, bounds, Wakes, Boxes, TypeOK, Registry
<1> USE SupervisionAssumption
<1>1. CASE UNCHANGED vars
  BY <1>1 DEF vars
<1>2. CASE BoxExits \/ BoxRemoved \/ Subscribed \/ StreamDrops \/ ResyncFails \/
          MarkRunning \/ WakeGivesUp
  BY <1>2 DEF BoxExits, Ends, BoxRemoved, Subscribed, StreamDrops, ResyncFails, MarkRunning,
     WakeGivesUp
<1>3. ASSUME NEW c \in Calls, KernelStops(c) \/ KernelRemoves(c) \/ StopsDirectly(c)
      PROVE  Registry'
  BY <1>3 DEF KernelStops, Ends, KernelRemoves, Removed, StopsDirectly
<1>4. CASE EventArrives
  <2>1. HubKept
    BY <1>4, HintKeeps
  <2>2. UNCHANGED <<runner, key>>
    BY <1>4 DEF EventArrives
  <2> QED  BY <2>1, <2>2, RegistryKept DEF HubKept
<1>5. CASE Reconnect
  <2>1. HubKept
    BY <1>5, HintKeeps
  <2>2. UNCHANGED <<runner, key>>
    BY <1>5 DEF Reconnect
  <2> QED  BY <2>1, <2>2, RegistryKept DEF HubKept
<1>6. CASE wakeContainer
  BY <1>6 DEF wakeContainer
<1>7. CASE PrepareFails
  BY <1>7 DEF PrepareFails
<1>8. CASE Prepare
  <2>1. last \in Wakes /\ hub[last] \in HubState
    BY <1>8 DEF Prepare, TypeOK
  <2>2. \A n \in Wakes : stage'[n] = IF n = last THEN "tracked" ELSE stage[n]
    BY <1>8 DEF Prepare, TypeOK
  <2>3. hub'[last].cb /\ \A n \in Wakes : n # last => hub'[n] = hub[n]
    BY <1>8, <2>1 DEF Prepare, TypeOK, Tracked, FreshState
  <2> QED  BY <1>8, <2>1, <2>2, <2>3 DEF Prepare
<1>9. CASE ArmFails
  BY <1>9 DEF ArmFails
<1>10. CASE adoptOneSession
  BY <1>10 DEF adoptOneSession
<1>11. CASE resync
  BY <1>11, ResyncRegistry
<1>12. CASE KernelRestarts
  BY <1>12 DEF KernelRestarts
<1>13. ASSUME NEW k \in Wakes, VerifyEnds(k) PROVE Registry'
  <2>1. \A n \in Wakes : \/ stage'[n] = stage[n]
                         \/ n = cur /\ stage[n] = "tracked" /\ stage'[n] = "finishing"
    BY <1>13, AnswerDoes DEF Fires, LetsGo, FinishesCur
  <2>2. \A n \in Wakes : /\ hub'[n].cb = hub[n].cb
                         /\ hub[n].read = "no" => hub'[n].read = "no"
    BY <1>13, AnswerDoes
  <2>3. UNCHANGED <<cur, last, waking, adopt, key>>
    BY <1>13 DEF VerifyEnds
  <2> QED  BY <2>1, <2>2, <2>3, RegistryKept
<1>14. ASSUME NEW k \in Wakes, finish(k) PROVE Registry'
  BY <1>14 DEF finish
<1>15. ASSUME NEW k \in Wakes, AttachEnds(k) PROVE Registry'
  <2>1. HubKept
    BY <1>15, HintKeeps
  <2>2. UNCHANGED <<runner, key>>
    BY <1>15 DEF AttachEnds
  <2> QED  BY <2>1, <2>2, RegistryKept DEF HubKept
<1>16. ASSUME NEW k \in Wakes, KilledAttachEnds(k) PROVE Registry'
  <2>1. HubKept
    BY <1>16, HintKeeps
  <2>2. UNCHANGED <<runner, key>>
    BY <1>16 DEF KilledAttachEnds
  <2> QED  BY <2>1, <2>2, RegistryKept DEF HubKept
<1>17. ASSUME NEW c \in Calls, StopAsked(c) PROVE Registry'
  BY <1>17 DEF StopAsked, killContainer
<1>18. ASSUME NEW c \in Calls, CeilingKill(c) PROVE Registry'
  BY <1>18 DEF CeilingKill, killContainer
<1>19. ASSUME NEW c \in Calls, KernelFails(c) PROVE Registry'
  BY <1>19 DEF KernelFails
<1>20. ASSUME NEW c \in Calls, StopReturns(c) PROVE Registry'
  <2>1. \A n \in Wakes : \/ stage'[n] = stage[n]
                         \/ n = cur /\ stage[n] = "tracked" /\ stage'[n] = "finishing"
    BY <1>20, FinishDoes DEF StopReturns, FinishesCur
  <2>2. UNCHANGED <<cur, last, waking, adopt, key, hub>>
    BY <1>20 DEF StopReturns
  <2> QED  BY <2>1, <2>2, RegistryKept
<1> QED
  BY <1>1, <1>2, <1>3, <1>4, <1>5, <1>6, <1>7, <1>8, <1>9, <1>10, <1>11,
     <1>12, <1>13, <1>14, <1>15, <1>16, <1>17, <1>18, <1>19, <1>20 DEF Next

\* The adopted runtime's handle stays without an attach process.
LEMMA StepAdopted ==
  ASSUME TypeOK, Registry, Adopted, [Next]_vars
  PROVE  Adopted'
<1> USE DEF runner, hubv, docker, watch, bounds, Wakes, Boxes, TypeOK, Registry, Adopted
<1> USE SupervisionAssumption
<1>1. CASE UNCHANGED vars
  BY <1>1 DEF vars
<1>2. CASE EventArrives \/ Subscribed \/ StreamDrops \/ ResyncFails \/ Reconnect \/
          MarkRunning \/ ArmFails \/ WakeGivesUp
  BY <1>2 DEF EventArrives, Subscribed, StreamDrops, ResyncFails, Reconnect, MarkRunning,
     ArmFails, WakeGivesUp
<1>3. ASSUME NEW k \in Wakes, VerifyEnds(k) \/ finish(k)
      PROVE  Adopted'
  BY <1>3 DEF VerifyEnds, finishAndResolve, finish
<1>4. ASSUME NEW c \in Calls, StopReturns(c)
      PROVE  Adopted'
  BY <1>4 DEF StopReturns, finishAndResolve
<1>5. CASE BoxExits
  <2>1. box'.st = "exited" \/ adopt = "no"
    BY <1>5 DEF BoxExits, Ends, NoBox, Box
  <2> QED  BY <1>5, <2>1 DEF BoxExits
<1>6. CASE BoxRemoved
  BY <1>6 DEF BoxRemoved, NoBox
<1>7. CASE wakeContainer
  BY <1>7 DEF wakeContainer
<1>8. CASE PrepareFails
  BY <1>8 DEF PrepareFails
<1>9. CASE Prepare
  BY <1>9 DEF Prepare
<1>10. CASE adoptOneSession
  BY <1>10 DEF adoptOneSession
<1>11. CASE resync
  BY <1>11 DEF resync, finishAndResolve
<1>12. CASE KernelRestarts
  BY <1>12 DEF KernelRestarts
<1>13. ASSUME NEW k \in Wakes, AttachEnds(k) PROVE Adopted'
  BY <1>13 DEF AttachEnds
<1>14. ASSUME NEW k \in Wakes, KilledAttachEnds(k) PROVE Adopted'
  BY <1>14 DEF KilledAttachEnds
<1>15. ASSUME NEW c \in Calls, StopAsked(c) PROVE Adopted'
  BY <1>15 DEF StopAsked, killContainer
<1>16. ASSUME NEW c \in Calls, CeilingKill(c) PROVE Adopted'
  BY <1>16 DEF CeilingKill, killContainer
<1>17. ASSUME NEW c \in Calls, KernelStops(c) PROVE Adopted'
  <2>1. box'.st = "exited" \/ box' = box
    BY <1>17 DEF KernelStops, Ends, NoBox, Box
  <2> QED  BY <1>17, <2>1 DEF KernelStops
<1>18. ASSUME NEW c \in Calls, KernelRemoves(c) PROVE Adopted'
  BY <1>18 DEF KernelRemoves, Removed, NoBox
<1>19. ASSUME NEW c \in Calls, StopsDirectly(c) PROVE Adopted'
  BY <1>19 DEF StopsDirectly, Removed, NoBox
<1>20. ASSUME NEW c \in Calls, KernelFails(c) PROVE Adopted'
  BY <1>20 DEF KernelFails
<1> QED
  BY <1>1, <1>2, <1>3, <1>4, <1>5, <1>6, <1>7, <1>8, <1>9, <1>10, <1>11,
     <1>12, <1>13, <1>14, <1>15, <1>16, <1>17, <1>18, <1>19, <1>20 DEF Next

\* A handle names one container for good.
LEMMA HandlesStay ==
  ASSUME TypeOK, [Next]_vars, ~Prepare, NEW n \in Wakes
  PROVE  handle'[n].box = handle[n].box /\ handle'[n].own = handle[n].own
<1> USE DEF runner, hubv, docker, watch, bounds, Wakes, Boxes, TypeOK, Handle
<1>1. CASE UNCHANGED vars
  BY <1>1 DEF vars
<1>2. CASE BoxExits \/ BoxRemoved \/ EventArrives \/ Subscribed \/
          StreamDrops \/ ResyncFails \/ Reconnect \/ wakeContainer \/ PrepareFails
          \/ Prepare \/ MarkRunning \/ ArmFails \/ WakeGivesUp \/
          adoptOneSession \/ resync
  BY <1>2 DEF BoxExits, BoxRemoved, EventArrives, Subscribed, StreamDrops, ResyncFails,
     Reconnect, wakeContainer, PrepareFails, Prepare, MarkRunning,
     ArmFails, WakeGivesUp, adoptOneSession, resync
<1>3. ASSUME NEW k \in Wakes, VerifyEnds(k) \/ finish(k)
      PROVE  handle'[n].box = handle[n].box /\ handle'[n].own = handle[n].own
  BY <1>3 DEF VerifyEnds, finish
<1>4. ASSUME NEW c \in Calls, KernelStops(c) \/ KernelRemoves(c) \/ StopsDirectly(c) \/
             StopReturns(c)
      PROVE  handle'[n].box = handle[n].box /\ handle'[n].own = handle[n].own
  BY <1>4 DEF KernelStops, KernelRemoves, StopsDirectly, StopReturns
<1>5. CASE KernelRestarts
  BY <1>5 DEF KernelRestarts
<1>6. ASSUME NEW k \in Wakes, AttachEnds(k)
      PROVE  handle'[n].box = handle[n].box /\ handle'[n].own = handle[n].own
  BY <1>6 DEF AttachEnds
<1>7. ASSUME NEW k \in Wakes, KilledAttachEnds(k)
      PROVE  handle'[n].box = handle[n].box /\ handle'[n].own = handle[n].own
  BY <1>7 DEF KilledAttachEnds
<1>8. ASSUME NEW c \in Calls, StopAsked(c)
      PROVE  handle'[n].box = handle[n].box /\ handle'[n].own = handle[n].own
  BY <1>8 DEF StopAsked, killContainer
<1>9. ASSUME NEW c \in Calls, CeilingKill(c)
      PROVE  handle'[n].box = handle[n].box /\ handle'[n].own = handle[n].own
  BY <1>9 DEF CeilingKill, killContainer
<1>10. ASSUME NEW c \in Calls, KernelFails(c)
      PROVE  handle'[n].box = handle[n].box /\ handle'[n].own = handle[n].own
  BY <1>10 DEF KernelFails
<1> QED
  BY <1>1, <1>2, <1>3, <1>4, <1>5, <1>6, <1>7, <1>8, <1>9, <1>10 DEF Next

\* Steps that leave the containers alone, and those that end or remove one.
LEMMA ContainersKept ==
  ASSUME TypeOK, Containers, UNCHANGED <<key, made, box, dead>>, cur' \in {0, cur},
         \A n \in Wakes : handle'[n].box = handle[n].box
  PROVE  Containers'
<1>1. (key = 0 \/ key \in Wakes) /\ (cur = 0 \/ cur \in Wakes)
  BY DEF TypeOK, Wakes
<1>2. /\ key # 0 => handle'[key].box = handle[key].box
      /\ cur # 0 => handle'[cur].box = handle[cur].box
  BY <1>1
<1> QED  BY <1>2 DEF Containers

LEMMA ContainerEnds ==
  ASSUME TypeOK, Containers, UNCHANGED <<cur, key, made, handle>>,
         box.st = "running", NEW bad \in BOOLEAN, Ends(bad)
  PROVE  Containers'
<1>1. box \in Box
  BY DEF TypeOK, NoBox
<1>2. box'.id = box.id /\ box'.st = "exited" /\ dead' = dead \cup {box.id}
  BY <1>1 DEF Ends, Box
<1> QED  BY <1>2 DEF Containers

LEMMA ContainerGoes ==
  ASSUME TypeOK, Containers, UNCHANGED <<cur, key, made, handle>>,
         dead' \in {dead, dead \cup {box.id}}, box' = NoBox
  PROVE  Containers'
BY DEF Containers, NoBox, TypeOK

\* The name's container stays the registered runtime's.
LEMMA StepContainers ==
  ASSUME TypeOK, Registry, Adopted, Containers, [Next]_vars
  PROVE  Containers'
<1> USE DEF runner, hubv, docker, watch, bounds, Wakes, Boxes, TypeOK, Registry, Containers
<1> USE SupervisionAssumption
<1>1. CASE UNCHANGED vars
  BY <1>1 DEF vars
<1>2. CASE EventArrives \/ Subscribed \/ StreamDrops \/ ResyncFails \/ Reconnect \/
          wakeContainer \/ MarkRunning \/ WakeGivesUp \/ resync
  BY <1>2 DEF EventArrives, Subscribed, StreamDrops, ResyncFails, Reconnect, wakeContainer,
     MarkRunning, WakeGivesUp, resync
<1>3. ASSUME NEW k \in Wakes, VerifyEnds(k)
      PROVE  Containers'
  BY <1>3 DEF VerifyEnds
<1>4. ASSUME NEW c \in Calls, StopReturns(c)
      PROVE  Containers'
  BY <1>4 DEF StopReturns
<1>5. CASE BoxExits
  BY <1>5, ContainerEnds DEF BoxExits
<1>6. CASE BoxRemoved
  BY <1>6, ContainerGoes DEF BoxRemoved
<1>7. CASE PrepareFails
  <2>1. CASE UNCHANGED <<box, made>>
    BY <1>7, <2>1, ContainersKept DEF PrepareFails
  <2>2. CASE made' = made + 1 /\ box' = [st |-> "created", id |-> made + 1]
    <3>1. box'.st = "created" /\ box'.id = made + 1
      BY <2>2
    <3>2. UNCHANGED <<cur, key, dead, handle>> /\ cur = 0
      BY <1>7 DEF PrepareFails, Registry
    <3>3. made \in Nat
      BY SupervisionAssumption DEF TypeOK
    <3>4. \A n \in Wakes : handle[n].box \in Nat
      BY SupervisionAssumption DEF TypeOK, Handle
    <3>5. dead \subseteq Nat
      BY SupervisionAssumption DEF TypeOK
    <3> QED  BY <2>2, <3>1, <3>2, <3>3, <3>4, <3>5 DEF Containers
  <2> QED  BY <1>7, <2>1, <2>2 DEF PrepareFails
<1>8. CASE Prepare
  <2>1. last \in Wakes /\ last # 0
    BY <1>8 DEF Prepare, Registry
  <2>2. handle'[last].box = box'.id /\ \A n \in Wakes : n # last => handle'[n] = handle[n]
    BY <1>8, <2>1 DEF Prepare, TypeOK
  <2>3. cur' = last /\ key' = last /\ dead' = dead
    BY <1>8 DEF Prepare
  <2>4. made \in Nat /\ dead \subseteq Nat /\ \A n \in Wakes : handle[n].box \in Nat
    BY SupervisionAssumption DEF TypeOK, Handle
  <2>5. CASE box.st = "absent"
    <3>1. box' = [st |-> "running", id |-> made + 1] /\ made' = made + 1
      BY <1>8, <2>5 DEF Prepare
    <3>2. box'.id = made + 1 /\ box'.st = "running"
      BY <3>1
    <3>3. made + 1 \notin dead
      BY <2>4 DEF Containers
    <3>4. \A n \in Wakes : handle'[n].box <= made'
      <4>1. TAKE n \in Wakes
      <4>2. handle[n].box <= made /\ handle[n].box \in Nat
        BY <2>4 DEF Containers
      <4> QED  BY <2>2, <2>4, <3>1, <3>2, <4>2
    <3>5. \A b \in dead : b <= made'
      BY <2>4, <3>1 DEF Containers
    <3> HIDE DEF docker, Boxes, Wakes, TypeOK, Registry
    <3> QED  BY <2>1, <2>2, <2>3, <2>4, <3>1, <3>2, <3>3, <3>4, <3>5 DEF Containers
  <2>6. CASE box.st # "absent"
    <3>1. box' = box /\ made' = made /\ box \in Box
      BY <1>8, <2>6 DEF Prepare, NoBox
    <3>2. box.id # 0
      BY <3>1 DEF Box
    <3> QED  BY <2>1, <2>2, <2>3, <2>4, <3>1, <3>2 DEF Containers
  <2> QED  BY <2>5, <2>6
<1>9. CASE ArmFails
  BY <1>9, ContainersKept DEF ArmFails
<1>10. CASE adoptOneSession
  <2>1. PICK k \in Wakes : k = 1
    BY SupervisionAssumption
  <2>2. cur' = k /\ key = k /\ UNCHANGED <<key, made, box, dead, handle>>
    BY <1>10, <2>1 DEF adoptOneSession, Registry
  <2>3. box.st = "created" => handle[k].box = box.id
    BY <1>10 DEF adoptOneSession, Adopted
  <2>4. box.st \in {"running", "exited", "created", "absent"}
    BY DEF TypeOK, Box, NoBox
  <2> QED  BY <2>1, <2>2, <2>3, <2>4 DEF Containers
<1>11. CASE KernelRestarts
  <2>1. \A n \in Wakes : handle'[n].box = handle[n].box
    BY HandlesStay, <1>11 DEF KernelRestarts, Prepare
  <2>2. UNCHANGED <<cur, key, made, box, dead>>
    BY <1>11 DEF KernelRestarts
  <2> QED  BY <2>1, <2>2, ContainersKept
<1>12. ASSUME NEW k \in Wakes, finish(k) PROVE Containers'
  BY <1>12, ContainersKept DEF finish
<1>13. ASSUME NEW k \in Wakes, AttachEnds(k) PROVE Containers'
  <2>1. \A n \in Wakes : handle'[n].box = handle[n].box
    BY HandlesStay, <1>13 DEF AttachEnds, Prepare
  <2>2. UNCHANGED <<cur, key, made, box, dead>>
    BY <1>13 DEF AttachEnds
  <2> QED  BY <2>1, <2>2, ContainersKept
<1>14. ASSUME NEW k \in Wakes, KilledAttachEnds(k) PROVE Containers'
  <2>1. \A n \in Wakes : handle'[n].box = handle[n].box
    BY HandlesStay, <1>14 DEF KilledAttachEnds, Prepare
  <2>2. UNCHANGED <<cur, key, made, box, dead>>
    BY <1>14 DEF KilledAttachEnds
  <2> QED  BY <2>1, <2>2, ContainersKept
<1>15. ASSUME NEW c \in Calls, StopAsked(c) PROVE Containers'
  <2>1. \A n \in Wakes : handle'[n].box = handle[n].box
    BY HandlesStay, <1>15 DEF StopAsked, killContainer, Prepare
  <2>2. UNCHANGED <<cur, key, made, box, dead>>
    BY <1>15 DEF StopAsked, killContainer
  <2> QED  BY <2>1, <2>2, ContainersKept
<1>16. ASSUME NEW c \in Calls, CeilingKill(c) PROVE Containers'
  <2>1. \A n \in Wakes : handle'[n].box = handle[n].box
    BY HandlesStay, <1>16 DEF CeilingKill, killContainer, Prepare
  <2>2. UNCHANGED <<cur, key, made, box, dead>>
    BY <1>16 DEF CeilingKill, killContainer
  <2> QED  BY <2>1, <2>2, ContainersKept
<1>17. ASSUME NEW c \in Calls, KernelStops(c) PROVE Containers'
  <2>1. CASE box.st = "running"
    BY <1>17, <2>1, ContainerEnds DEF KernelStops
  <2>2. CASE box.st # "running"
    BY <1>17, <2>2, ContainersKept DEF KernelStops
  <2> QED  BY <2>1, <2>2
<1>18. ASSUME NEW c \in Calls, KernelRemoves(c) PROVE Containers'
  BY <1>18, ContainerGoes DEF KernelRemoves, Removed
<1>19. ASSUME NEW c \in Calls, StopsDirectly(c) PROVE Containers'
  BY <1>19, ContainerGoes DEF StopsDirectly, Removed
<1>20. ASSUME NEW c \in Calls, KernelFails(c) PROVE Containers'
  <2>1. \A n \in Wakes : handle'[n].box = handle[n].box
    BY HandlesStay, <1>20 DEF KernelFails, Prepare
  <2>2. UNCHANGED <<cur, key, made, box, dead>>
    BY <1>20 DEF KernelFails
  <2> QED  BY <2>1, <2>2, ContainersKept
<1> QED
  BY <1>1, <1>2, <1>3, <1>4, <1>5, <1>6, <1>7, <1>8, <1>9, <1>10, <1>11,
     <1>12, <1>13, <1>14, <1>15, <1>16, <1>17, <1>18, <1>19, <1>20 DEF Next

\* What an attach process tells stays true.
LEMMA StepAttachments ==
  ASSUME TypeOK, Registry, Containers, Attachments, StopsUnderWay, [Next]_vars
  PROVE  Attachments'
<1> USE DEF runner, hubv, docker, watch, bounds
<1>1. CASE UNCHANGED vars
  BY <1>1 DEF vars, Attachments
<1>2. CASE Subscribed \/ StreamDrops \/ ResyncFails \/ wakeContainer \/ MarkRunning
          \/ ArmFails \/ WakeGivesUp
  BY <1>2 DEF Subscribed, StreamDrops, ResyncFails, wakeContainer, MarkRunning, ArmFails,
     WakeGivesUp, Attachments
<1>3. ASSUME NEW k \in Wakes, finish(k)
      PROVE  Attachments'
  BY <1>3 DEF finish, Attachments
<1>4. ASSUME NEW c \in Calls, StopReturns(c)
      PROVE  Attachments'
  BY <1>4 DEF StopReturns, Attachments
<1>5. CASE BoxExits
  <2>1. UNCHANGED <<handle, hub>> /\ box.st = "running"
    BY <1>5 DEF BoxExits
  <2>2. box.id \notin dead /\ dead' = dead \cup {box.id} /\ crashed' \subseteq crashed \cup {box.id}
        /\ box'.st # "running"
    BY <1>5 DEF BoxExits, Ends, Containers, TypeOK, Box, NoBox
  <2> QED  BY <2>1, <2>2 DEF Attachments
<1>6. CASE BoxRemoved
  BY <1>6 DEF BoxRemoved, NoBox, Attachments
<1>7. CASE EventArrives
  <2>1. HubKept
    BY <1>7, HintKeeps
  <2>2. UNCHANGED <<handle, box, dead, crashed>>
    BY <1>7 DEF EventArrives
  <2> QED  BY <2>1, <2>2 DEF HubKept, Attachments
<1>8. CASE Reconnect
  <2>1. HubKept
    BY <1>8, HintKeeps
  <2>2. UNCHANGED <<handle, box, dead, crashed>>
    BY <1>8 DEF Reconnect
  <2> QED  BY <2>1, <2>2 DEF HubKept, Attachments
<1>9. CASE PrepareFails
  <2>1. UNCHANGED <<handle, hub, dead, crashed>> /\ box.st = "absent"
    BY <1>9 DEF PrepareFails
  <2>2. box'.st # "running"
    BY <1>9 DEF PrepareFails
  <2> QED  BY <2>1, <2>2 DEF Attachments
<1>10. CASE Prepare
  <2>1. last \in Wakes
    BY <1>10, SupervisionAssumption DEF Prepare, TypeOK, Registry, Wakes
  <2>2. /\ handle'[last].box = box'.id /\ ~handle'[last].stopping
        /\ handle'[last].attach = IF box'.st = "running" THEN "live" ELSE "refused"
        /\ \A n \in Wakes : n # last => handle'[n] = handle[n]
    BY <1>10, <2>1 DEF Prepare, TypeOK
  <2>3. ~hub'[last].stop /\ \A n \in Wakes : n # last => hub'[n] = hub[n]
    BY <1>10, <2>1 DEF Prepare, TypeOK, Tracked, FreshState
  <2>4. UNCHANGED <<dead, crashed>>
    BY <1>10 DEF Prepare
  <2>5. \A n \in Wakes : box'.st = "running" /\ handle[n].box = box'.id =>
                            box.st = "running" /\ box'.id = box.id
    <3>1. CASE box.st = "absent"
      <4>1. box'.id = made + 1
        BY <1>10, <3>1 DEF Prepare
      <4>2. made \in Nat /\ \A n \in Wakes : handle[n].box \in Nat /\ handle[n].box <= made
        BY SupervisionAssumption DEF TypeOK, Handle, Containers
      <4> QED  BY <4>1, <4>2
    <3>2. CASE box.st # "absent"
      BY <1>10, <3>2 DEF Prepare
    <3> QED  BY <3>1, <3>2
  <2> QED  BY <2>1, <2>2, <2>3, <2>4, <2>5 DEF Attachments
<1>11. CASE adoptOneSession
  <2>1. \A n \in Wakes : hub'[n].stop = hub[n].stop
    BY <1>11 DEF adoptOneSession, TypeOK, HubState
  <2>2. UNCHANGED <<handle, box, dead, crashed>>
    BY <1>11 DEF adoptOneSession
  <2> QED  BY <2>1, <2>2 DEF Attachments
<1>12. CASE resync
  <2>0. PICK k \in Wakes : k = 1
    BY SupervisionAssumption DEF Wakes
  <2>1. \A n \in Wakes : hub'[n].stop = hub[n].stop
    BY <1>12, <2>0, ResyncDoes
  <2>2. UNCHANGED <<handle, box, dead, crashed>>
    BY <1>12 DEF resync
  <2> QED  BY <2>1, <2>2 DEF Attachments
<1>13. CASE KernelRestarts
  <2>1. UNCHANGED <<hub, box, dead, crashed>>
    BY <1>13 DEF KernelRestarts
  <2>2. \A n \in Wakes : \/ handle'[n] = handle[n]
                         \/ /\ handle'[n] = [handle[n] EXCEPT !.attach = "killing"]
                            /\ \E c \in Calls : call[c].rt = n /\ call[c].at # "free"
    BY <1>13 DEF KernelRestarts
  <2>3. \A n \in Wakes : /\ handle'[n].box = handle[n].box
                         /\ handle'[n].stopping = handle[n].stopping
                         /\ \/ handle'[n].attach = handle[n].attach
                            \/ handle'[n].attach = "killing" /\ handle[n].stopping
    <3>1. TAKE n \in Wakes
    <3>2. handle[n] \in Handle
      BY DEF TypeOK
    <3>3. (\E c \in Calls : call[c].rt = n /\ call[c].at # "free") => handle[n].stopping
      BY DEF StopsUnderWay
    <3> QED  BY <2>2, <3>2, <3>3 DEF Handle
  <2> QED  BY <2>1, <2>3 DEF Attachments
<1>14. ASSUME NEW k \in Wakes, VerifyEnds(k) PROVE Attachments'
  <2>1. \A n \in Wakes : hub'[n].stop = hub[n].stop
    BY <1>14, AnswerDoes
  <2>2. UNCHANGED <<handle, box, dead, crashed>>
    BY <1>14 DEF VerifyEnds
  <2> QED  BY <2>1, <2>2 DEF Attachments
<1>15. ASSUME NEW k \in Wakes, AttachEnds(k) PROVE Attachments'
  <2>1. HubKept
    BY <1>15, HintKeeps
  <2>2. UNCHANGED <<box, dead, crashed>>
    BY <1>15 DEF AttachEnds
  <2>3. \A n \in Wakes : /\ handle'[n].box = handle[n].box
                         /\ handle'[n].stopping = handle[n].stopping
                         /\ n # k => handle'[n].attach = handle[n].attach
    BY <1>15 DEF AttachEnds, TypeOK, Handle
  <2>4. \/ handle'[k].attach = "zero" /\ handle[k].box \in dead \ crashed
        \/ handle'[k].attach = "nonzero"
           /\ (handle[k].attach = "refused" \/ handle[k].box \in dead)
    BY <1>15 DEF AttachEnds, TypeOK, Handle
  <2>5. ~(box.st = "running" /\ handle[k].box = box.id)
    BY <1>15 DEF AttachEnds, Attachments, Containers
  <2> QED  BY <2>1, <2>2, <2>3, <2>4, <2>5 DEF HubKept, Attachments
<1>16. ASSUME NEW k \in Wakes, KilledAttachEnds(k) PROVE Attachments'
  <2>1. HubKept
    BY <1>16, HintKeeps
  <2>2. UNCHANGED <<box, dead, crashed>> /\ handle[k].attach = "killing"
    BY <1>16 DEF KilledAttachEnds
  <2>3. \A n \in Wakes : /\ handle'[n].box = handle[n].box
                         /\ handle'[n].stopping = handle[n].stopping
                         /\ n # k => handle'[n].attach = handle[n].attach
    BY <1>16 DEF KilledAttachEnds, TypeOK, Handle
  <2>4. handle'[k].attach = "killed"
    BY <1>16 DEF KilledAttachEnds, TypeOK, Handle
  <2> QED  BY <2>1, <2>2, <2>3, <2>4 DEF HubKept, Attachments
<1>17. ASSUME NEW c \in Calls, StopAsked(c) PROVE Attachments'
  <2>1. cur \in Wakes /\ key = cur
    BY <1>17 DEF StopAsked, killContainer, TypeOK, Registry, Wakes
  <2>2. \A n \in Wakes : /\ handle'[n].attach = handle[n].attach /\ handle'[n].box = handle[n].box
                         /\ handle'[n].stopping <=> (handle[n].stopping \/ n = cur)
                         /\ hub'[n].stop <=> (hub[n].stop \/ n = cur)
    BY <1>17, <2>1 DEF StopAsked, killContainer, TypeOK, Handle, HubState
  <2>3. UNCHANGED <<box, dead, crashed>>
    BY <1>17 DEF StopAsked, killContainer
  <2> QED  BY <2>2, <2>3 DEF Attachments
<1>18. ASSUME NEW c \in Calls, CeilingKill(c) PROVE Attachments'
  <2>1. cur \in Wakes /\ key = cur
    BY <1>18 DEF CeilingKill, killContainer, TypeOK, Registry, Wakes
  <2>2. \A n \in Wakes : /\ handle'[n].attach = handle[n].attach /\ handle'[n].box = handle[n].box
                         /\ handle'[n].stopping <=> (handle[n].stopping \/ n = cur)
                         /\ hub'[n].stop <=> (hub[n].stop \/ n = cur)
    BY <1>18, <2>1 DEF CeilingKill, killContainer, TypeOK, Handle, HubState
  <2>3. UNCHANGED <<box, dead, crashed>>
    BY <1>18 DEF CeilingKill, killContainer
  <2> QED  BY <2>2, <2>3 DEF Attachments
<1>19. ASSUME NEW c \in Calls, KernelStops(c) PROVE Attachments'
  <2>1. UNCHANGED <<handle, hub>>
    BY <1>19 DEF KernelStops
  <2>2. CASE box.st = "running"
    <3>1. /\ box.id \notin dead /\ dead' = dead \cup {box.id}
          /\ crashed' \subseteq crashed \cup {box.id} /\ box'.st # "running"
      BY <1>19, <2>2 DEF KernelStops, Ends, Containers, TypeOK, Box, NoBox
    <3> QED  BY <2>1, <3>1 DEF Attachments
  <2>3. CASE box.st # "running"
    <3>1. UNCHANGED <<dead, crashed>> /\ box'.st # "running"
      BY <1>19, <2>3 DEF KernelStops, Ends, NoBox
    <3> QED  BY <2>1, <3>1 DEF Attachments
  <2> QED  BY <2>2, <2>3
<1>20. ASSUME NEW c \in Calls, KernelRemoves(c) PROVE Attachments'
  <2>1. UNCHANGED <<handle, hub>>
    BY <1>20 DEF KernelRemoves
  <2>2. CASE box.st = "running"
    <3>1. /\ box.id \notin dead /\ dead' = dead \cup {box.id}
          /\ crashed' \subseteq crashed \cup {box.id} /\ box'.st # "running"
      BY <1>20, <2>2 DEF KernelRemoves, Removed, Containers, TypeOK, Box, NoBox
    <3> QED  BY <2>1, <3>1 DEF Attachments
  <2>3. CASE box.st # "running"
    <3>1. UNCHANGED <<dead, crashed>> /\ box'.st # "running"
      BY <1>20, <2>3 DEF KernelRemoves, Removed, NoBox
    <3> QED  BY <2>1, <3>1 DEF Attachments
  <2> QED  BY <2>2, <2>3
<1>21. ASSUME NEW c \in Calls, StopsDirectly(c) PROVE Attachments'
  <2>1. UNCHANGED <<handle, hub>>
    BY <1>21 DEF StopsDirectly
  <2>2. CASE box.st = "running"
    <3>1. /\ box.id \notin dead /\ dead' = dead \cup {box.id}
          /\ crashed' \subseteq crashed \cup {box.id} /\ box'.st # "running"
      BY <1>21, <2>2 DEF StopsDirectly, Removed, Containers, TypeOK, Box, NoBox
    <3> QED  BY <2>1, <3>1 DEF Attachments
  <2>3. CASE box.st # "running"
    <3>1. UNCHANGED <<dead, crashed>> /\ box'.st # "running"
      BY <1>21, <2>3 DEF StopsDirectly, Removed, NoBox
    <3> QED  BY <2>1, <3>1 DEF Attachments
  <2> QED  BY <2>2, <2>3
<1>22. ASSUME NEW c \in Calls, KernelFails(c) PROVE Attachments'
  <2>1. UNCHANGED <<hub, box, dead, crashed>>
    BY <1>22 DEF KernelFails
  <2>2. \A n \in Wakes : /\ handle'[n].box = handle[n].box
                         /\ handle'[n].stopping = handle[n].stopping
                         /\ \/ handle'[n].attach = handle[n].attach
                            \/ handle'[n].attach = "killing" /\ n = call[c].rt
    BY <1>22 DEF KernelFails, TypeOK, Handle
  <2>3. handle[call[c].rt].stopping
    BY <1>22 DEF KernelFails, StopsUnderWay
  <2> QED  BY <2>1, <2>2, <2>3 DEF Attachments
<1> QED
  BY <1>1, <1>2, <1>3, <1>4, <1>5, <1>6, <1>7, <1>8, <1>9, <1>10, <1>11,
     <1>12, <1>13, <1>14, <1>15, <1>16, <1>17, <1>18, <1>19, <1>20, <1>21,
     <1>22 DEF Next

\* Steps that neither stop a runtime nor let a call go.
LEMMA StopsKept ==
  ASSUME TypeOK, StopsUnderWay, key' = key, cur' \in {0, cur},
         \A n \in Wakes : /\ handle'[n].stopping = handle[n].stopping
                          /\ stage'[n] = "tracked" => stage[n] = "tracked",
         \A c \in Calls : /\ call'[c].rt = call[c].rt
                          /\ call'[c].at # "free" <=> call[c].at # "free"
  PROVE  StopsUnderWay'
<1>1. cur = 0 \/ cur \in Wakes
  BY DEF TypeOK, Wakes
<1>2. \A n \in 1 .. key : n \in Wakes
  BY SupervisionAssumption DEF TypeOK, Wakes
<1> QED  BY <1>1, <1>2 DEF StopsUnderWay

\* A registered runtime that is to stop has a call under way.
LEMMA StepStopsUnderWay ==
  ASSUME TypeOK, Registry, Adopted, StopsUnderWay, [Next]_vars
  PROVE  StopsUnderWay'
<1> USE DEF runner, hubv, docker, watch, bounds
<1>1. CASE UNCHANGED vars
  BY <1>1 DEF vars, StopsUnderWay
<1>2. CASE BoxExits \/ BoxRemoved \/ EventArrives \/ Subscribed \/
          StreamDrops \/ ResyncFails \/ Reconnect \/ wakeContainer \/ PrepareFails
          \/ MarkRunning \/ WakeGivesUp
  BY <1>2 DEF BoxExits, BoxRemoved, EventArrives, Subscribed, StreamDrops, ResyncFails,
     Reconnect, wakeContainer, PrepareFails, MarkRunning, WakeGivesUp,
     StopsUnderWay
<1>3. CASE Prepare
  <2>1. last \in Wakes /\ key < last /\ key \in Nat
    BY <1>3, SupervisionAssumption DEF Prepare, TypeOK, Registry, Wakes
  <2>2. cur' = last /\ key' = last /\ call' = call
    BY <1>3 DEF Prepare
  <2>3. ~handle'[last].stopping /\ \A n \in Wakes : n # last => handle'[n] = handle[n]
    BY <1>3, <2>1 DEF Prepare, TypeOK
  <2>4. \A n \in 1 .. key : n \in Wakes /\ n # last /\ n \in 1 .. last
    BY <2>1, SupervisionAssumption DEF TypeOK, Wakes
  <2> QED  BY <2>1, <2>2, <2>3, <2>4 DEF StopsUnderWay
<1>4. CASE ArmFails
  <2>1. \A n \in Wakes : handle'[n].stopping = handle[n].stopping
    BY <1>4 DEF ArmFails, TypeOK, Handle
  <2>2. \A c \in Calls : /\ call'[c].rt = call[c].rt
                         /\ call'[c].at # "free" <=> call[c].at # "free"
    BY <1>4 DEF ArmFails, TypeOK, Call
  <2>3. \A n \in Wakes : stage'[n] = "tracked" => stage[n] = "tracked"
    BY <1>4 DEF ArmFails, TypeOK
  <2>4. key' = key /\ cur' \in {0, cur}
    BY <1>4 DEF ArmFails
  <2> QED  BY <2>1, <2>2, <2>3, <2>4, StopsKept
<1>5. CASE adoptOneSession
  <2>1. ~handle[1].stopping /\ cur' = 1
    BY <1>5 DEF adoptOneSession, Adopted
  <2>2. UNCHANGED <<key, call, handle>>
    BY <1>5 DEF adoptOneSession
  <2> QED  BY <2>1, <2>2 DEF StopsUnderWay
<1>6. CASE resync
  <2>1. \A n \in Wakes : handle'[n].stopping = handle[n].stopping
    BY <1>6 DEF resync, TypeOK, Handle
  <2>2. \A c \in Calls : /\ call'[c].rt = call[c].rt
                         /\ call'[c].at # "free" <=> call[c].at # "free"
    BY <1>6 DEF resync, TypeOK, Call
  <2>3. \A n \in Wakes : stage'[n] = "tracked" => stage[n] = "tracked"
    BY <1>6, FinishDoes DEF resync, FinishesCur
  <2>4. key' = key /\ cur' \in {0, cur}
    BY <1>6 DEF resync
  <2> QED  BY <2>1, <2>2, <2>3, <2>4, StopsKept
<1>7. CASE KernelRestarts
  <2>1. \A n \in Wakes : handle'[n].stopping = handle[n].stopping
    BY <1>7 DEF KernelRestarts, TypeOK, Handle
  <2>2. \A c \in Calls : /\ call'[c].rt = call[c].rt
                         /\ call'[c].at # "free" <=> call[c].at # "free"
    BY <1>7 DEF KernelRestarts, TypeOK, Call
  <2>3. \A n \in Wakes : stage'[n] = "tracked" => stage[n] = "tracked"
    BY <1>7 DEF KernelRestarts, TypeOK
  <2>4. key' = key /\ cur' \in {0, cur}
    BY <1>7 DEF KernelRestarts
  <2> QED  BY <2>1, <2>2, <2>3, <2>4, StopsKept
<1>8. ASSUME NEW k \in Wakes, VerifyEnds(k) PROVE StopsUnderWay'
  <2>1. \A n \in Wakes : handle'[n].stopping = handle[n].stopping
    BY <1>8 DEF VerifyEnds, TypeOK, Handle
  <2>2. \A c \in Calls : /\ call'[c].rt = call[c].rt
                         /\ call'[c].at # "free" <=> call[c].at # "free"
    BY <1>8 DEF VerifyEnds, TypeOK, Call
  <2>3. \A n \in Wakes : stage'[n] = "tracked" => stage[n] = "tracked"
    BY <1>8, AnswerDoes DEF Fires, LetsGo, FinishesCur
  <2>4. key' = key /\ cur' \in {0, cur}
    BY <1>8 DEF VerifyEnds
  <2> QED  BY <2>1, <2>2, <2>3, <2>4, StopsKept
<1>9. ASSUME NEW k \in Wakes, finish(k) PROVE StopsUnderWay'
  <2>1. \A n \in Wakes : handle'[n].stopping = handle[n].stopping
    BY <1>9 DEF finish, TypeOK, Handle
  <2>2. \A c \in Calls : /\ call'[c].rt = call[c].rt
                         /\ call'[c].at # "free" <=> call[c].at # "free"
    BY <1>9 DEF finish, TypeOK, Call
  <2>3. \A n \in Wakes : stage'[n] = "tracked" => stage[n] = "tracked"
    BY <1>9 DEF finish, TypeOK
  <2>4. key' = key /\ cur' \in {0, cur}
    BY <1>9 DEF finish
  <2> QED  BY <2>1, <2>2, <2>3, <2>4, StopsKept
<1>10. ASSUME NEW k \in Wakes, AttachEnds(k) PROVE StopsUnderWay'
  <2>1. \A n \in Wakes : handle'[n].stopping = handle[n].stopping
    BY <1>10 DEF AttachEnds, TypeOK, Handle
  <2>2. \A c \in Calls : /\ call'[c].rt = call[c].rt
                         /\ call'[c].at # "free" <=> call[c].at # "free"
    BY <1>10 DEF AttachEnds, TypeOK, Call
  <2>3. \A n \in Wakes : stage'[n] = "tracked" => stage[n] = "tracked"
    BY <1>10 DEF AttachEnds, TypeOK
  <2>4. key' = key /\ cur' \in {0, cur}
    BY <1>10 DEF AttachEnds
  <2> QED  BY <2>1, <2>2, <2>3, <2>4, StopsKept
<1>11. ASSUME NEW k \in Wakes, KilledAttachEnds(k) PROVE StopsUnderWay'
  <2>1. \A n \in Wakes : handle'[n].stopping = handle[n].stopping
    BY <1>11 DEF KilledAttachEnds, TypeOK, Handle
  <2>2. \A c \in Calls : /\ call'[c].rt = call[c].rt
                         /\ call'[c].at # "free" <=> call[c].at # "free"
    BY <1>11 DEF KilledAttachEnds, TypeOK, Call
  <2>3. \A n \in Wakes : stage'[n] = "tracked" => stage[n] = "tracked"
    BY <1>11 DEF KilledAttachEnds, TypeOK
  <2>4. key' = key /\ cur' \in {0, cur}
    BY <1>11 DEF KilledAttachEnds
  <2> QED  BY <2>1, <2>2, <2>3, <2>4, StopsKept
<1>12. ASSUME NEW c \in Calls, StopAsked(c) PROVE StopsUnderWay'
  <2>1. cur \in Wakes /\ key = cur /\ UNCHANGED <<cur, key, stage>>
    BY <1>12 DEF StopAsked, killContainer, TypeOK, Registry, Wakes
  <2>2. \A n \in Wakes : handle'[n].stopping <=> (handle[n].stopping \/ n = cur)
    BY <1>12, <2>1 DEF StopAsked, killContainer, TypeOK, Handle
  <2>3. call[c].at = "free" /\ call' = [call EXCEPT ![c] = [rt |-> cur, at |-> "asked", reg |-> 0]]
    BY <1>12 DEF StopAsked, killContainer
  <2>4. /\ call'[c].rt = cur /\ call'[c].at = "asked"
        /\ \A d \in Calls : d # c => call'[d] = call[d]
    BY <2>3 DEF TypeOK
  <2>5. \A n \in 1 .. key : n \in Wakes
    BY SupervisionAssumption DEF TypeOK, Wakes
  <2>6. cur \in 1 .. key
    BY <2>1 DEF Wakes
  <2>7. \A d \in Calls : call'[d].at # "free" =>
           call'[d].rt \in 1 .. key /\ handle'[call'[d].rt].stopping
    <3>1. TAKE d \in Calls
    <3>2. CASE d = c
      BY <3>2, <2>1, <2>2, <2>4, <2>6
    <3>3. CASE d # c
      <4>1. call[d].at # "free" =>
               call[d].rt \in 1 .. key /\ handle[call[d].rt].stopping
        BY DEF StopsUnderWay
      <4> QED  BY <3>3, <4>1, <2>2, <2>4, <2>5
    <3> QED  BY <3>2, <3>3
  <2>8. \E d \in Calls : call'[d].rt = cur /\ call'[d].at # "free"
    BY <2>4
  <2> QED  BY <2>1, <2>7, <2>8 DEF StopsUnderWay
<1>13. ASSUME NEW c \in Calls, CeilingKill(c) PROVE StopsUnderWay'
  <2>1. cur \in Wakes /\ key = cur /\ UNCHANGED <<cur, key, stage>>
    BY <1>13 DEF CeilingKill, killContainer, TypeOK, Registry, Wakes
  <2>2. \A n \in Wakes : handle'[n].stopping <=> (handle[n].stopping \/ n = cur)
    BY <1>13, <2>1 DEF CeilingKill, killContainer, TypeOK, Handle
  <2>3. call[c].at = "free" /\ call' = [call EXCEPT ![c] = [rt |-> cur, at |-> "asked", reg |-> 0]]
    BY <1>13 DEF CeilingKill, killContainer
  <2>4. /\ call'[c].rt = cur /\ call'[c].at = "asked"
        /\ \A d \in Calls : d # c => call'[d] = call[d]
    BY <2>3 DEF TypeOK
  <2>5. \A n \in 1 .. key : n \in Wakes
    BY SupervisionAssumption DEF TypeOK, Wakes
  <2>6. cur \in 1 .. key
    BY <2>1 DEF Wakes
  <2>7. \A d \in Calls : call'[d].at # "free" =>
           call'[d].rt \in 1 .. key /\ handle'[call'[d].rt].stopping
    <3>1. TAKE d \in Calls
    <3>2. CASE d = c
      BY <3>2, <2>1, <2>2, <2>4, <2>6
    <3>3. CASE d # c
      <4>1. call[d].at # "free" =>
               call[d].rt \in 1 .. key /\ handle[call[d].rt].stopping
        BY DEF StopsUnderWay
      <4> QED  BY <3>3, <4>1, <2>2, <2>4, <2>5
    <3> QED  BY <3>2, <3>3
  <2>8. \E d \in Calls : call'[d].rt = cur /\ call'[d].at # "free"
    BY <2>4
  <2> QED  BY <2>1, <2>7, <2>8 DEF StopsUnderWay
<1>14. ASSUME NEW c \in Calls, KernelStops(c) PROVE StopsUnderWay'
  <2>1. \A n \in Wakes : handle'[n].stopping = handle[n].stopping
    BY <1>14 DEF KernelStops, TypeOK, Handle
  <2>2. \A d \in Calls : /\ call'[d].rt = call[d].rt
                         /\ call'[d].at # "free" <=> call[d].at # "free"
    BY <1>14 DEF KernelStops, TypeOK, Call
  <2>3. \A n \in Wakes : stage'[n] = "tracked" => stage[n] = "tracked"
    BY <1>14 DEF KernelStops, TypeOK
  <2>4. key' = key /\ cur' \in {0, cur}
    BY <1>14 DEF KernelStops
  <2> QED  BY <2>1, <2>2, <2>3, <2>4, StopsKept
<1>15. ASSUME NEW c \in Calls, KernelRemoves(c) PROVE StopsUnderWay'
  <2>1. \A n \in Wakes : handle'[n].stopping = handle[n].stopping
    BY <1>15 DEF KernelRemoves, TypeOK, Handle
  <2>2. \A d \in Calls : /\ call'[d].rt = call[d].rt
                         /\ call'[d].at # "free" <=> call[d].at # "free"
    BY <1>15 DEF KernelRemoves, TypeOK, Call
  <2>3. \A n \in Wakes : stage'[n] = "tracked" => stage[n] = "tracked"
    BY <1>15 DEF KernelRemoves, TypeOK
  <2>4. key' = key /\ cur' \in {0, cur}
    BY <1>15 DEF KernelRemoves
  <2> QED  BY <2>1, <2>2, <2>3, <2>4, StopsKept
<1>16. ASSUME NEW c \in Calls, StopsDirectly(c) PROVE StopsUnderWay'
  <2>1. \A n \in Wakes : handle'[n].stopping = handle[n].stopping
    BY <1>16 DEF StopsDirectly, TypeOK, Handle
  <2>2. \A d \in Calls : /\ call'[d].rt = call[d].rt
                         /\ call'[d].at # "free" <=> call[d].at # "free"
    BY <1>16 DEF StopsDirectly, TypeOK, Call
  <2>3. \A n \in Wakes : stage'[n] = "tracked" => stage[n] = "tracked"
    BY <1>16 DEF StopsDirectly, TypeOK
  <2>4. key' = key /\ cur' \in {0, cur}
    BY <1>16 DEF StopsDirectly
  <2> QED  BY <2>1, <2>2, <2>3, <2>4, StopsKept
<1>17. ASSUME NEW c \in Calls, KernelFails(c) PROVE StopsUnderWay'
  <2>1. \A n \in Wakes : handle'[n].stopping = handle[n].stopping
    BY <1>17 DEF KernelFails, TypeOK, Handle
  <2>2. \A d \in Calls : /\ call'[d].rt = call[d].rt
                         /\ call'[d].at # "free" <=> call[d].at # "free"
    BY <1>17 DEF KernelFails, TypeOK, Call
  <2>3. \A n \in Wakes : stage'[n] = "tracked" => stage[n] = "tracked"
    BY <1>17 DEF KernelFails, TypeOK
  <2>4. key' = key /\ cur' \in {0, cur}
    BY <1>17 DEF KernelFails
  <2> QED  BY <2>1, <2>2, <2>3, <2>4, StopsKept
<1>18. ASSUME NEW c \in Calls, StopReturns(c) PROVE StopsUnderWay'
  <2>1. UNCHANGED <<cur, key, handle>>
    BY <1>18 DEF StopReturns
  <2>2. call'[c].at = "free" /\ \A d \in Calls : d # c => call'[d] = call[d]
    BY <1>18 DEF StopReturns, TypeOK
  <2>3. IF stage[call[c].rt] \in {"tracked", "dropped"} THEN FinishesCur ELSE stage' = stage
    BY <1>18, FinishDoes DEF StopReturns
  <2>4. ASSUME cur # 0, stage'[cur] = "tracked" PROVE stage[cur] = "tracked" /\ call[c].rt # cur
    <3>1. cur \in Wakes
      BY <2>4 DEF TypeOK, Wakes
    <3> QED  BY <2>3, <2>4, <3>1 DEF FinishesCur
  <2> QED  BY <2>1, <2>2, <2>4 DEF StopsUnderWay
<1> QED
  BY <1>1, <1>2, <1>3, <1>4, <1>5, <1>6, <1>7, <1>8, <1>9, <1>10, <1>11,
     <1>12, <1>13, <1>14, <1>15, <1>16, <1>17, <1>18 DEF Next

\* A dropped runtime stays dropped.
LEMMA DroppedStays ==
  ASSUME TypeOK, Registry, [Next]_vars, NEW n \in Wakes, stage[n] = "dropped"
  PROVE  stage'[n] = "dropped"
<1> USE DEF runner, hubv, docker, watch, bounds
<1>1. CASE UNCHANGED vars
  BY <1>1 DEF vars
<1>2. CASE BoxExits \/ BoxRemoved \/ EventArrives \/ Subscribed \/
          StreamDrops \/ ResyncFails \/ Reconnect \/ wakeContainer \/ PrepareFails
          \/ MarkRunning \/ WakeGivesUp \/ KernelRestarts
  BY <1>2 DEF BoxExits, BoxRemoved, EventArrives, Subscribed, StreamDrops, ResyncFails,
     Reconnect, wakeContainer, PrepareFails, MarkRunning, WakeGivesUp,
     KernelRestarts
<1>3. ASSUME NEW k \in Wakes, AttachEnds(k) \/ KilledAttachEnds(k)
      PROVE  stage'[n] = "dropped"
  BY <1>3 DEF AttachEnds, KilledAttachEnds
<1>4. ASSUME NEW c \in Calls, StopAsked(c) \/ CeilingKill(c) \/ KernelStops(c) \/
             KernelRemoves(c) \/ StopsDirectly(c) \/ KernelFails(c)
      PROVE  stage'[n] = "dropped"
  BY <1>4 DEF StopAsked, killContainer, CeilingKill, KernelStops, KernelRemoves,
     StopsDirectly, KernelFails
<1>5. CASE Prepare
  <2>1. last \in Wakes /\ key < last
    BY <1>5, SupervisionAssumption DEF Prepare, TypeOK, Registry, Wakes
  <2>2. stage[last] = "unborn"
    BY <2>1 DEF Registry
  <2> QED  BY <1>5, <2>2 DEF Prepare, TypeOK
<1>6. CASE ArmFails
  BY <1>6 DEF ArmFails, TypeOK
<1>7. CASE adoptOneSession
  BY <1>7 DEF adoptOneSession, Registry, TypeOK
<1>8. CASE resync
  BY <1>8, FinishDoes DEF resync, FinishesCur
<1>9. ASSUME NEW k \in Wakes, VerifyEnds(k) PROVE stage'[n] = "dropped"
  BY <1>9, AnswerDoes DEF Fires, LetsGo, FinishesCur
<1>10. ASSUME NEW k \in Wakes, finish(k) PROVE stage'[n] = "dropped"
  BY <1>10 DEF finish, TypeOK
<1>11. ASSUME NEW c \in Calls, StopReturns(c) PROVE stage'[n] = "dropped"
  BY <1>11, FinishDoes DEF StopReturns, FinishesCur
<1> QED
  BY <1>1, <1>2, <1>3, <1>4, <1>5, <1>6, <1>7, <1>8, <1>9, <1>10, <1>11 DEF Next

LEMMA OrphansStay ==
  ASSUME TypeOK, Registry, [Next]_vars, NEW n \in Wakes, Orphaned(n)
  PROVE  Orphaned(n)'
<1>1. PICK m \in Wakes : m < n /\ stage[m] = "dropped"
  BY DEF Orphaned
<1>2. stage'[m] = "dropped"
  BY <1>1, DroppedStays
<1> QED  BY <1>1, <1>2 DEF Orphaned

\* An answer that finishes a runtime is its own, or a dropped one's.
LEMMA AnswerFinishes ==
  ASSUME TypeOK, Registry, Endings, NEW k \in Wakes, VerifyEnds(k),
         NEW n \in Wakes, stage[n] = "tracked", stage'[n] # "tracked"
  PROVE  /\ n = cur /\ Fires(k) /\ hub[k].cb /\ stage'[n] = "finishing"
         /\ k = n \/ Orphaned(n)
<1>0. n = cur /\ key = cur
  BY DEF Registry, Wakes
<1>1. n = cur /\ key = cur /\ stage'[n] = "finishing"
  BY <1>0, AnswerDoes DEF Fires, LetsGo, FinishesCur
<1>2. Fires(k) /\ hub[k].cb
  BY AnswerDoes DEF Fires, LetsGo
<1>3. hub[k].read # "no" /\ k <= key
  BY AnswerDoes, SupervisionAssumption DEF Registry, Wakes, TypeOK
<1>4. CASE k # n
  <2>1. k < n /\ stage[k] \notin {"tracked", "finishing", "unborn"}
    BY <1>1, <1>2, <1>3, <1>4, SupervisionAssumption DEF Registry, Endings, Wakes
  <2>2. CASE stage[k] = "dropped"
    BY <2>1, <2>2, <1>1, <1>2 DEF Orphaned
  <2>3. CASE stage[k] = "finished"
    <3>1. Orphaned(k)
      BY <2>3, <1>2 DEF Endings, Fires
    <3> QED  BY <2>1, <3>1, <1>1, <1>2, SupervisionAssumption DEF Orphaned, Wakes
  <2> QED  BY <2>1, <2>2, <2>3 DEF TypeOK
<1> QED  BY <1>1, <1>2, <1>4

\* So is a stop that returns.
LEMMA StopFinishes ==
  ASSUME TypeOK, Registry, StopsUnderWay, NEW c \in Calls, StopReturns(c),
         NEW n \in Wakes, stage[n] = "tracked", stage'[n] # "tracked"
  PROVE  /\ n = cur /\ call[c].at = "done" /\ stage'[n] = "finishing"
         /\ call[c].rt = n \/ Orphaned(n)
<1> DEFINE r == call[c].rt
<1>0. n = cur /\ key = cur
  BY DEF Registry, Wakes
<1>1. n = cur /\ key = cur /\ stage'[n] = "finishing" /\ stage[r] \in {"tracked", "dropped"}
  BY <1>0, FinishDoes DEF StopReturns, FinishesCur
<1>2. r \in Wakes /\ r <= key
  BY SupervisionAssumption DEF StopReturns, StopsUnderWay, Wakes, TypeOK
<1>3. CASE stage[r] = "tracked"
  BY <1>1, <1>2, <1>3 DEF StopReturns, Registry
<1>4. CASE stage[r] = "dropped"
  <2>1. r < n
    BY <1>1, <1>2, <1>4, SupervisionAssumption DEF Wakes
  <2> QED  BY <1>1, <1>2, <1>4, <2>1 DEF Orphaned, StopReturns
<1> QED  BY <1>1, <1>3, <1>4

\* And an end the resync lists is the adopted runtime's.
LEMMA ResyncFinishes ==
  ASSUME TypeOK, Registry, resync,
         NEW n \in Wakes, stage[n] = "tracked", stage'[n] # "tracked"
  PROVE  n = 1 /\ n = cur /\ stage'[n] = "finishing" /\ box.st = "exited" /\ ~hub[n].stop
<1>1. PICK k \in Wakes : k = 1
  BY SupervisionAssumption DEF Wakes
<1>2. FinishesCur /\ box.st = "exited" /\ ~hub[k].stop
  BY <1>1, ResyncDoes
<1>3. key = 1
  BY DEF resync, Registry
<1> QED  BY <1>1, <1>2, <1>3 DEF FinishesCur, Registry, Wakes

\* Steps that neither fire an end nor mark a runtime as ended.
LEMMA EndingsKept ==
  ASSUME Endings,
         \A n \in Wakes :
           /\ Orphaned(n) => Orphaned(n)'
           /\ handle'[n].own = handle[n].own
           /\ hub'[n].cb = hub[n].cb /\ (hub[n].stop => hub'[n].stop)
           /\ hub'[n].fired = hub[n].fired /\ hub'[n].pending = hub[n].pending
           /\ \/ stage'[n] = stage[n] \/ stage'[n] = "dropped"
              \/ stage[n] = "finishing" /\ stage'[n] = "finished"
  PROVE  Endings'
BY DEF Endings

\* A runtime is marked as ended for a reason.
LEMMA StepEndings ==
  ASSUME TypeOK, Registry, Attachments, StopsUnderWay, Endings, [Next]_vars
  PROVE  Endings'
<1> USE DEF runner, hubv, docker, watch, bounds
<1>0. \A n \in Wakes : Orphaned(n) => Orphaned(n)'
  BY OrphansStay
<1>1. CASE UNCHANGED vars
  BY <1>0, <1>1 DEF vars, Endings
<1>2. CASE BoxExits \/ BoxRemoved \/ Subscribed \/ StreamDrops \/ ResyncFails \/
          wakeContainer \/ PrepareFails \/ MarkRunning \/
          WakeGivesUp
  BY <1>0, <1>2 DEF BoxExits, BoxRemoved, Subscribed, StreamDrops, ResyncFails, wakeContainer,
     PrepareFails, MarkRunning, WakeGivesUp, Endings
<1>3. ASSUME NEW c \in Calls, KernelStops(c) \/ KernelRemoves(c) \/ StopsDirectly(c)
      PROVE  Endings'
  BY <1>0, <1>3 DEF KernelStops, KernelRemoves, StopsDirectly, Endings
<1>4. CASE EventArrives
  <2>1. \A n \in Wakes : /\ hub'[n].cb = hub[n].cb /\ (hub[n].stop => hub'[n].stop)
                         /\ hub'[n].fired = hub[n].fired /\ hub'[n].pending = hub[n].pending
    BY <1>4, HintKeeps DEF HubKept
  <2>2. \A n \in Wakes : \/ stage'[n] = stage[n] \/ stage'[n] = "dropped"
                         \/ stage[n] = "finishing" /\ stage'[n] = "finished"
    BY <1>4 DEF EventArrives
  <2>3. \A n \in Wakes : handle'[n].own = handle[n].own
    BY <1>4, HandlesStay DEF EventArrives, Prepare
  <2> QED  BY <1>0, <2>1, <2>2, <2>3, EndingsKept
<1>5. CASE Reconnect
  <2>1. \A n \in Wakes : /\ hub'[n].cb = hub[n].cb /\ (hub[n].stop => hub'[n].stop)
                         /\ hub'[n].fired = hub[n].fired /\ hub'[n].pending = hub[n].pending
    BY <1>5, HintKeeps DEF HubKept
  <2>2. \A n \in Wakes : \/ stage'[n] = stage[n] \/ stage'[n] = "dropped"
                         \/ stage[n] = "finishing" /\ stage'[n] = "finished"
    BY <1>5 DEF Reconnect
  <2>3. \A n \in Wakes : handle'[n].own = handle[n].own
    BY <1>5, HandlesStay DEF Reconnect, Prepare
  <2> QED  BY <1>0, <2>1, <2>2, <2>3, EndingsKept
<1>6. CASE Prepare
  <2>1. last \in Wakes /\ hub[last] \in HubState
    BY <1>6, SupervisionAssumption DEF Prepare, TypeOK, Registry, Wakes
  <2>2. stage'[last] = "tracked" /\ hub'[last] = Tracked
    BY <1>6, <2>1 DEF Prepare, TypeOK
  <2>3. ~hub'[last].fired /\ ~hub'[last].pending
    BY <2>2 DEF Tracked, FreshState
  <2>4. \A n \in Wakes : n # last => UNCHANGED <<stage[n], hub[n], handle[n]>>
    BY <1>6, <2>1 DEF Prepare, TypeOK
  <2> QED  BY <1>0, <2>2, <2>3, <2>4 DEF Endings
<1>7. CASE ArmFails
  <2>1. \A n \in Wakes : /\ hub'[n].cb = hub[n].cb /\ (hub[n].stop => hub'[n].stop)
                         /\ hub'[n].fired = hub[n].fired /\ hub'[n].pending = hub[n].pending
    BY <1>7 DEF ArmFails
  <2>2. \A n \in Wakes : \/ stage'[n] = stage[n] \/ stage'[n] = "dropped"
                         \/ stage[n] = "finishing" /\ stage'[n] = "finished"
    BY <1>7 DEF ArmFails, TypeOK
  <2>3. \A n \in Wakes : handle'[n].own = handle[n].own
    BY <1>7 DEF ArmFails
  <2> QED  BY <1>0, <2>1, <2>2, <2>3, EndingsKept
<1>8. CASE adoptOneSession
  <2>0. PICK k \in Wakes : k = 1
    BY SupervisionAssumption DEF Wakes
  <2>1. stage[k] = "unborn" /\ hub[k] \in HubState
    BY <1>8, <2>0 DEF adoptOneSession, Registry, TypeOK
  <2>2. /\ hub'[k].cb /\ ~hub'[k].pending /\ hub'[k].fired = hub[k].fired
        /\ stage'[k] = IF hub[k].pending THEN "finishing" ELSE "tracked"
    BY <1>8, <2>0, <2>1 DEF adoptOneSession, HubState, TypeOK
  <2>3. \A n \in Wakes : n # k => UNCHANGED <<stage[n], hub[n]>>
    BY <1>8, <2>0 DEF adoptOneSession, TypeOK
  <2>4. handle' = handle
    BY <1>8 DEF adoptOneSession
  <2> QED  BY <1>0, <2>1, <2>2, <2>3, <2>4 DEF Endings
<1>9. CASE resync
  <2>0. PICK k \in Wakes : k = 1
    BY SupervisionAssumption DEF Wakes
  <2>1. handle' = handle
    BY <1>9 DEF resync
  <2>2. \A n \in Wakes : stage[n] = "tracked" => n = k
    BY <1>9, <2>0 DEF resync, Registry, Wakes
  <2>3. /\ hub'[k].cb = hub[k].cb /\ hub'[k].stop = hub[k].stop
        /\ hub'[k].pending = hub[k].pending
        /\ \A n \in Wakes : n # k => hub'[n] = hub[n]
    BY <1>9, <2>0, ResyncDoes
  <2>4. \/ hub[k].cb /\ hub'[k].fired /\ FinishesCur
        \/ hub'[k].fired = hub[k].fired /\ stage' = stage
    BY <1>9, <2>0, ResyncDoes
  <2>7. ASSUME NEW n \in Wakes
        PROVE  /\ stage'[n] = "tracked" => ~hub'[n].fired
               /\ hub'[n].pending => hub'[n].fired
               /\ hub'[n].fired => hub'[n].cb \/ hub'[n].pending
               /\ stage'[n] = "unborn" => ~hub'[n].cb /\ ~handle'[n].own
               /\ stage'[n] \in {"finishing", "finished"} =>
                     hub'[n].fired \/ hub'[n].stop \/ Orphaned(n)'
    <3>1. CASE n # k
      BY <1>0, <2>1, <2>2, <2>3, <2>4, <3>1 DEF Endings, FinishesCur
    <3>2. CASE n = k
      <4>1. stage[n] = "tracked" => n = cur
        BY DEF Registry
      <4> QED  BY <1>0, <2>1, <2>3, <2>4, <3>2, <4>1 DEF Endings, FinishesCur
    <3> QED  BY <3>1, <3>2
  <2> QED  BY <2>7 DEF Endings
<1>10. CASE KernelRestarts
  <2>1. \A n \in Wakes : /\ hub'[n].cb = hub[n].cb /\ (hub[n].stop => hub'[n].stop)
                         /\ hub'[n].fired = hub[n].fired /\ hub'[n].pending = hub[n].pending
    BY <1>10 DEF KernelRestarts
  <2>2. \A n \in Wakes : \/ stage'[n] = stage[n] \/ stage'[n] = "dropped"
                         \/ stage[n] = "finishing" /\ stage'[n] = "finished"
    BY <1>10 DEF KernelRestarts
  <2>3. \A n \in Wakes : handle'[n].own = handle[n].own
    BY <1>10, HandlesStay DEF KernelRestarts, Prepare
  <2> QED  BY <1>0, <2>1, <2>2, <2>3, EndingsKept
<1>11. ASSUME NEW k \in Wakes, VerifyEnds(k) PROVE Endings'
  <2>1. handle' = handle
    BY <1>11 DEF VerifyEnds
  <2>2. ASSUME NEW n \in Wakes, stage'[n] # stage[n]
        PROVE  n = cur /\ Fires(k) /\ stage[n] = "tracked" /\ stage'[n] = "finishing"
               /\ (k = n \/ Orphaned(n))
    <3>1. stage[n] = "tracked"
      BY <1>11, <2>2, AnswerDoes DEF Fires, LetsGo, FinishesCur
    <3> QED  BY <1>11, <2>2, <3>1, AnswerFinishes
  <2>3. ASSUME Fires(k) PROVE stage'[k] # "tracked"
    <3>1. stage[k] = "tracked" => k = cur /\ hub[k].cb
      BY DEF Registry, TypeOK, Wakes
    <3> QED  BY <2>3, <3>1 DEF Fires, FinishesCur
  <2>4. \A n \in Wakes : /\ hub'[n].cb = hub[n].cb /\ hub'[n].stop = hub[n].stop
                         /\ n # k => hub'[n] = hub[n]
    BY <1>11, AnswerDoes
  <2>5. \/ Fires(k) /\ hub'[k].fired /\ (hub'[k].pending <=> ~hub[k].cb)
        \/ hub'[k].fired = hub[k].fired /\ hub'[k].pending = hub[k].pending /\ stage' = stage
    BY <1>11, AnswerDoes DEF Fires, LetsGo
  <2>7. ASSUME NEW n \in Wakes
        PROVE  /\ stage'[n] = "tracked" => ~hub'[n].fired
               /\ hub'[n].pending => hub'[n].fired
               /\ hub'[n].fired => hub'[n].cb \/ hub'[n].pending
               /\ stage'[n] = "unborn" => ~hub'[n].cb /\ ~handle'[n].own
               /\ stage'[n] \in {"finishing", "finished"} =>
                     hub'[n].fired \/ hub'[n].stop \/ Orphaned(n)'
    <3>1. CASE n # k
      BY <1>0, <2>1, <2>2, <2>4, <3>1 DEF Endings
    <3>2. CASE n = k
      BY <1>0, <2>1, <2>2, <2>3, <2>4, <2>5, <3>2 DEF Endings
    <3> QED  BY <3>1, <3>2
  <2> QED  BY <2>7 DEF Endings
<1>12. ASSUME NEW k \in Wakes, finish(k) PROVE Endings'
  <2>1. \A n \in Wakes : /\ hub'[n].cb = hub[n].cb /\ (hub[n].stop => hub'[n].stop)
                         /\ hub'[n].fired = hub[n].fired /\ hub'[n].pending = hub[n].pending
    BY <1>12 DEF finish
  <2>2. \A n \in Wakes : \/ stage'[n] = stage[n] \/ stage'[n] = "dropped"
                         \/ stage[n] = "finishing" /\ stage'[n] = "finished"
    BY <1>12 DEF finish, TypeOK
  <2>3. \A n \in Wakes : handle'[n].own = handle[n].own
    BY <1>12 DEF finish
  <2> QED  BY <1>0, <2>1, <2>2, <2>3, EndingsKept
<1>13. ASSUME NEW k \in Wakes, AttachEnds(k) PROVE Endings'
  <2>1. \A n \in Wakes : /\ hub'[n].cb = hub[n].cb /\ (hub[n].stop => hub'[n].stop)
                         /\ hub'[n].fired = hub[n].fired /\ hub'[n].pending = hub[n].pending
    BY <1>13, HintKeeps DEF HubKept
  <2>2. \A n \in Wakes : \/ stage'[n] = stage[n] \/ stage'[n] = "dropped"
                         \/ stage[n] = "finishing" /\ stage'[n] = "finished"
    BY <1>13 DEF AttachEnds
  <2>3. \A n \in Wakes : handle'[n].own = handle[n].own
    BY <1>13, HandlesStay DEF AttachEnds, Prepare
  <2> QED  BY <1>0, <2>1, <2>2, <2>3, EndingsKept
<1>14. ASSUME NEW k \in Wakes, KilledAttachEnds(k) PROVE Endings'
  <2>1. \A n \in Wakes : /\ hub'[n].cb = hub[n].cb /\ (hub[n].stop => hub'[n].stop)
                         /\ hub'[n].fired = hub[n].fired /\ hub'[n].pending = hub[n].pending
    BY <1>14, HintKeeps DEF HubKept
  <2>2. \A n \in Wakes : \/ stage'[n] = stage[n] \/ stage'[n] = "dropped"
                         \/ stage[n] = "finishing" /\ stage'[n] = "finished"
    BY <1>14 DEF KilledAttachEnds
  <2>3. \A n \in Wakes : handle'[n].own = handle[n].own
    BY <1>14, HandlesStay DEF KilledAttachEnds, Prepare
  <2> QED  BY <1>0, <2>1, <2>2, <2>3, EndingsKept
<1>15. ASSUME NEW c \in Calls, StopAsked(c) PROVE Endings'
  <2>1. \A n \in Wakes : /\ hub'[n].cb = hub[n].cb /\ (hub[n].stop => hub'[n].stop)
                         /\ hub'[n].fired = hub[n].fired /\ hub'[n].pending = hub[n].pending
    BY <1>15 DEF StopAsked, killContainer, TypeOK, HubState
  <2>2. \A n \in Wakes : \/ stage'[n] = stage[n] \/ stage'[n] = "dropped"
                         \/ stage[n] = "finishing" /\ stage'[n] = "finished"
    BY <1>15 DEF StopAsked, killContainer
  <2>3. \A n \in Wakes : handle'[n].own = handle[n].own
    BY <1>15, HandlesStay DEF StopAsked, killContainer, Prepare
  <2> QED  BY <1>0, <2>1, <2>2, <2>3, EndingsKept
<1>16. ASSUME NEW c \in Calls, CeilingKill(c) PROVE Endings'
  <2>1. \A n \in Wakes : /\ hub'[n].cb = hub[n].cb /\ (hub[n].stop => hub'[n].stop)
                         /\ hub'[n].fired = hub[n].fired /\ hub'[n].pending = hub[n].pending
    BY <1>16 DEF CeilingKill, killContainer, TypeOK, HubState
  <2>2. \A n \in Wakes : \/ stage'[n] = stage[n] \/ stage'[n] = "dropped"
                         \/ stage[n] = "finishing" /\ stage'[n] = "finished"
    BY <1>16 DEF CeilingKill, killContainer
  <2>3. \A n \in Wakes : handle'[n].own = handle[n].own
    BY <1>16, HandlesStay DEF CeilingKill, killContainer, Prepare
  <2> QED  BY <1>0, <2>1, <2>2, <2>3, EndingsKept
<1>17. ASSUME NEW c \in Calls, KernelFails(c) PROVE Endings'
  <2>1. \A n \in Wakes : /\ hub'[n].cb = hub[n].cb /\ (hub[n].stop => hub'[n].stop)
                         /\ hub'[n].fired = hub[n].fired /\ hub'[n].pending = hub[n].pending
    BY <1>17 DEF KernelFails
  <2>2. \A n \in Wakes : \/ stage'[n] = stage[n] \/ stage'[n] = "dropped"
                         \/ stage[n] = "finishing" /\ stage'[n] = "finished"
    BY <1>17 DEF KernelFails
  <2>3. \A n \in Wakes : handle'[n].own = handle[n].own
    BY <1>17, HandlesStay DEF KernelFails, Prepare
  <2> QED  BY <1>0, <2>1, <2>2, <2>3, EndingsKept
<1>18. ASSUME NEW c \in Calls, StopReturns(c) PROVE Endings'
  <2>1. UNCHANGED <<handle, hub>>
    BY <1>18 DEF StopReturns
  <2>2. ASSUME NEW n \in Wakes, stage'[n] # stage[n]
        PROVE  n = cur /\ stage[n] = "tracked" /\ stage'[n] = "finishing"
               /\ (hub[n].stop \/ Orphaned(n))
    <3>1. stage[n] = "tracked"
      BY <1>18, <2>2, FinishDoes DEF StopReturns, FinishesCur
    <3>2. n = cur /\ stage'[n] = "finishing" /\ (call[c].rt = n \/ Orphaned(n))
      BY <1>18, <2>2, <3>1, StopFinishes
    <3>3. call[c].rt = n => hub[n].stop
      BY <1>18 DEF StopReturns, StopsUnderWay, Attachments
    <3> QED  BY <3>1, <3>2, <3>3
  <2>7. ASSUME NEW n \in Wakes
        PROVE  /\ stage'[n] = "tracked" => ~hub'[n].fired
               /\ hub'[n].pending => hub'[n].fired
               /\ hub'[n].fired => hub'[n].cb \/ hub'[n].pending
               /\ stage'[n] = "unborn" => ~hub'[n].cb /\ ~handle'[n].own
               /\ stage'[n] \in {"finishing", "finished"} =>
                     hub'[n].fired \/ hub'[n].stop \/ Orphaned(n)'
    BY <1>0, <2>1, <2>2 DEF Endings
  <2> QED  BY <2>7 DEF Endings
<1> QED
  BY <1>1, <1>2, <1>3, <1>4, <1>5, <1>6, <1>7, <1>8, <1>9, <1>10, <1>11,
     <1>12, <1>13, <1>14, <1>15, <1>16, <1>17, <1>18 DEF Next

\* Only the runtime under the hub's key is watched.
LEMMA WatchedIsKey ==
  ASSUME TypeOK, Registry, NEW n \in Wakes, Watched(n)
  PROVE  n = key /\ (n = cur \/ (adopt = "listed" /\ n = 1 /\ stage[n] = "unborn"))
<1>1. CASE stage[n] = "tracked"
  <2>1. n = cur /\ cur # 0
    BY <1>1 DEF Registry, Wakes
  <2>2. cur = key
    BY <2>1 DEF Registry
  <2> QED  BY <2>1, <2>2
<1>2. CASE adopt = "listed" /\ n = 1
  BY <1>2 DEF Registry
<1> QED  BY <1>1, <1>2 DEF Watched

\* What DockerHandle.status tells of a watched runtime nobody stopped.
LEMMA StatusIsTrue ==
  ASSUME TypeOK, Containers, NEW n \in Wakes, n = key,
         n = cur \/ box.st # "created",
         NEW h, h[n] \in Handle, h[n].box = handle[n].box, h[n].own = handle[n].own,
         ~h[n].stopping, h[n].attach \notin {"killing", "killed"},
         h[n].attach = "zero" => handle[n].box \in dead \ crashed,
         box.st = "running" => h[n].attach \notin {"zero", "nonzero", "refused"}
  PROVE  /\ status(h, n) \in {"stopped", "failed"} => Gone(n)
         /\ status(h, n) = "stopped" /\ handle[n].own => handle[n].box \in dead \ crashed
         /\ h[n].attach \in {"zero", "nonzero"} /\ handle[n].box \in dead =>
               status(h, n) \in {"stopped", "failed"}
<1>1. box \in Box \/ box = NoBox
  BY DEF TypeOK
<1>2. key # 0 /\ handle[n].box # 0
  BY DEF Wakes, Containers
<1>3. CASE box.st = "running"
  BY <1>3 DEF status
<1>4. CASE box.st = "created"
  <2>1. status(h, n) = "ready"
    BY <1>4 DEF status
  <2>2. handle[n].box \notin dead
    BY <1>2, <1>4 DEF Containers
  <2> QED  BY <2>1, <2>2
<1>5. CASE box.st = "exited"
  <2>1. handle[n].box = box.id /\ box.id \in dead
    BY <1>5 DEF Containers
  <2>2. status(h, n) = IF box.id \in crashed THEN "failed" ELSE "stopped"
    BY <1>5 DEF status
  <2> QED  BY <2>1, <2>2 DEF Gone
<1>6. CASE box = NoBox
  <2>1. Gone(n)
    BY <1>2, <1>6 DEF Gone, NoBox
  <2>2. /\ h[n].attach = "nonzero" => status(h, n) = "failed"
        /\ h[n].attach = "zero" => status(h, n) = "stopped"
        /\ h[n].attach \in {"live", "refused"} => status(h, n) = "running"
        /\ h[n].attach = "none" /\ h[n].own => status(h, n) = "ready"
    BY <1>6 DEF status, NoBox
  <2>3. h[n].attach \in {"none", "live", "refused", "zero", "nonzero"}
    BY DEF Handle
  <2> QED  BY <2>1, <2>2, <2>3
<1> QED  BY <1>1, <1>3, <1>4, <1>5, <1>6 DEF Box

\* The same, from the invariant, when the read is asked of the handle.
LEMMA ReadIsTrue ==
  ASSUME TypeOK, TypeOK', Registry, Adopted, Containers, Attachments, Attachments',
         NEW n \in Wakes, Watched(n), ~hub[n].stop, hub'[n].stop = hub[n].stop,
         UNCHANGED <<box, dead, crashed>>, handle'[n].box = handle[n].box,
         handle'[n].own = handle[n].own, hub'[n].read = status(handle', n)
  PROVE  TrueRead(n)'
<1>1. n = key /\ (n = cur \/ box.st # "created")
  BY WatchedIsKey DEF Adopted
<1>2. handle'[n] \in Handle
  BY DEF TypeOK
<1>3. box.st = "running" => handle[n].box = box.id
  BY <1>1 DEF Containers
<1>4. /\ ~handle'[n].stopping /\ handle'[n].attach \notin {"killing", "killed"}
      /\ handle'[n].attach = "zero" => handle[n].box \in dead \ crashed
      /\ box.st = "running" => handle'[n].attach \notin {"zero", "nonzero", "refused"}
  BY <1>3 DEF Attachments
<1>5. /\ status(handle', n) \in {"stopped", "failed"} => Gone(n)
      /\ status(handle', n) = "stopped" /\ handle[n].own => handle[n].box \in dead \ crashed
      /\ handle'[n].attach \in {"zero", "nonzero"} /\ handle[n].box \in dead =>
            status(handle', n) \in {"stopped", "failed"}
  BY <1>1, <1>2, <1>4, StatusIsTrue
<1>6. Gone(n) => Gone(n)'
  BY DEF Gone
<1> QED  BY <1>5, <1>6 DEF TrueRead

\* After a hint the read under way is true, or is asked again.
LEMMA HintIsRead ==
  ASSUME TypeOK, TypeOK', Registry, Adopted, Containers, Attachments, Attachments',
         NEW n \in Wakes, Watched(n), ~hub[n].stop, TrueRead(n),
         UNCHANGED <<box, dead, crashed>>, handle'[n].box = handle[n].box,
         handle'[n].own = handle[n].own, hub'[n] = verify(hub[n], status(handle', n)),
         hub[n].fired => handle'[n].attach = handle[n].attach
  PROVE  TrueRead(n)'
<1>1. hub[n] \in HubState
  BY DEF TypeOK
<1>2. hub'[n].stop = hub[n].stop
  BY <1>1, VerifiedState
<1>3. Gone(n) => Gone(n)'
  BY DEF Gone
<1>4. CASE hub[n].fired
  <2>1. hub'[n] = hub[n]
    BY <1>1, <1>4, VerifiedState
  <2> QED  BY <1>3, <1>4, <2>1 DEF TrueRead
<1>5. CASE ~hub[n].fired /\ hub[n].read = "no"
  <2>1. hub'[n].read = status(handle', n)
    BY <1>1, <1>5, VerifiedState
  <2> QED  BY <1>2, <2>1, ReadIsTrue
<1>6. CASE ~hub[n].fired /\ hub[n].read # "no"
  <2>1. hub'[n].read = hub[n].read /\ hub'[n].recheck = TRUE
    BY <1>1, <1>6, VerifiedState
  <2> QED  BY <1>3, <1>6, <2>1 DEF TrueRead
<1> QED  BY <1>4, <1>5, <1>6

\* A container that ends or goes leaves the reads under way true.
LEMMA ReadsOutliveBox ==
  ASSUME TypeOK, Registry, Containers, Attachments, Reads,
         UNCHANGED <<adopt, stage, hub, handle>>, box'.id \in {box.id, 0},
         IF box.st = "running"
         THEN dead' = dead \cup {box.id} /\ crashed' \subseteq crashed \cup {box.id}
         ELSE UNCHANGED <<dead, crashed>>
  PROVE  Reads'
<1>1. SUFFICES ASSUME NEW n \in Wakes, Watched(n), ~hub[n].stop
      PROVE  TrueRead(n)'
  BY DEF Reads, Watched
<1>2. TrueRead(n)
  BY <1>1 DEF Reads
<1>3. key # 0 /\ handle[n].box # 0
  BY <1>1, WatchedIsKey DEF Containers, Wakes
<1>4. Gone(n) => Gone(n)'
  BY <1>3 DEF Gone
<1>5. CASE box.st = "running"
  <2>1. handle[n].box = box.id /\ box.id \notin dead
    BY <1>1, <1>5, WatchedIsKey DEF Containers
  <2>2. handle[n].attach \notin {"zero", "nonzero"}
    BY <1>5, <2>1 DEF Attachments
  <2> QED  BY <1>2, <1>4, <1>5, <2>1, <2>2 DEF TrueRead
<1>6. CASE box.st # "running"
  BY <1>2, <1>4, <1>6 DEF TrueRead
<1> QED  BY <1>5, <1>6

\* Steps that leave the reads and the containers alone.
LEMMA ReadsKept ==
  ASSUME Reads, UNCHANGED <<box, dead, crashed>>,
         \A n \in Wakes : Watched(n)' /\ ~hub'[n].stop =>
           /\ Watched(n) /\ ~hub[n].stop
           /\ hub'[n].read = hub[n].read /\ hub'[n].recheck = hub[n].recheck
           /\ handle'[n].box = handle[n].box /\ handle'[n].own = handle[n].own
           /\ \/ handle'[n].attach = handle[n].attach
              \/ handle'[n].attach \notin {"zero", "nonzero"}
  PROVE  Reads'
<1>1. SUFFICES ASSUME NEW n \in Wakes, Watched(n)', ~hub'[n].stop PROVE TrueRead(n)'
  BY DEF Reads
<1>2. TrueRead(n) /\ (Gone(n) => Gone(n)')
  BY <1>1 DEF Reads, Gone
<1> QED  BY <1>1, <1>2 DEF TrueRead

\* Reads under way stay true.
LEMMA StepReads ==
  ASSUME TypeOK, Registry, Adopted, Containers, Attachments, StopsUnderWay,
         Endings, Reads, [Next]_vars
  PROVE  Reads'
<1> USE DEF runner, hubv, docker, watch, bounds
<1>0. TypeOK' /\ Attachments'
  BY StepType, StepAttachments
<1>1. CASE UNCHANGED vars
  BY <1>1 DEF vars, Reads, Watched, TrueRead, Gone
<1>2. CASE Subscribed \/ StreamDrops \/ ResyncFails \/ wakeContainer \/ MarkRunning
          \/ WakeGivesUp
  BY <1>2 DEF Subscribed, StreamDrops, ResyncFails, wakeContainer, MarkRunning, WakeGivesUp,
     Reads, Watched, TrueRead, Gone
<1>3. CASE BoxExits
  <2>1. box'.id \in {box.id, 0}
    BY <1>3 DEF BoxExits, Ends, TypeOK, Box, NoBox
  <2>2. IF box.st = "running"
        THEN dead' = dead \cup {box.id} /\ crashed' \subseteq crashed \cup {box.id}
        ELSE UNCHANGED <<dead, crashed>>
    BY <1>3 DEF BoxExits, Ends
  <2>3. UNCHANGED <<adopt, stage, hub, handle>>
    BY <1>3 DEF BoxExits
  <2> QED  BY <2>1, <2>2, <2>3, ReadsOutliveBox
<1>4. CASE BoxRemoved
  <2>1. box'.id \in {box.id, 0}
    BY <1>4 DEF BoxRemoved, TypeOK, Box, NoBox
  <2>2. IF box.st = "running"
        THEN dead' = dead \cup {box.id} /\ crashed' \subseteq crashed \cup {box.id}
        ELSE UNCHANGED <<dead, crashed>>
    BY <1>4 DEF BoxRemoved
  <2>3. UNCHANGED <<adopt, stage, hub, handle>>
    BY <1>4 DEF BoxRemoved
  <2> QED  BY <2>1, <2>2, <2>3, ReadsOutliveBox
<1>5. CASE EventArrives
  <2>1. SUFFICES ASSUME NEW n \in Wakes, Watched(n)', ~hub'[n].stop PROVE TrueRead(n)'
    BY DEF Reads
  <2>2. UNCHANGED <<adopt, stage, key, box, dead, crashed>>
    BY <1>5 DEF EventArrives
  <2>3. handle'[n].box = handle[n].box /\ handle'[n].own = handle[n].own
    BY <1>5, HandlesStay DEF EventArrives, Prepare
  <2>4. hub'[n].stop = hub[n].stop
    BY <1>5, HintKeeps DEF HubKept
  <2>5. Watched(n) /\ TrueRead(n) /\ ~hub[n].stop
    BY <2>1, <2>2, <2>4 DEF Watched, Reads
  <2>6. n = key /\ key # 0 /\ (hub[n].fired => adopt = "listed" /\ n = 1)
    BY <2>5, WatchedIsKey DEF Endings, Watched, Wakes
  <2>7. hub[n].fired => handle'[n].attach = handle[n].attach
    BY <1>5, <2>6 DEF EventArrives, Adopted, TypeOK
  <2>8. hub'[n] = verify(hub[n], status(handle', n))
    BY <1>5, <2>6, HintDoes DEF EventArrives
  <2> QED  BY <2>2, <2>3, <2>5, <2>7, <2>8, <1>0, HintIsRead
<1>6. CASE Reconnect
  <2>1. SUFFICES ASSUME NEW n \in Wakes, Watched(n)', ~hub'[n].stop PROVE TrueRead(n)'
    BY DEF Reads
  <2>2. UNCHANGED <<adopt, stage, key, box, dead, crashed>>
    BY <1>6 DEF Reconnect
  <2>3. handle'[n].box = handle[n].box /\ handle'[n].own = handle[n].own
    BY <1>6, HandlesStay DEF Reconnect, Prepare
  <2>4. hub'[n].stop = hub[n].stop
    BY <1>6, HintKeeps DEF HubKept
  <2>5. Watched(n) /\ TrueRead(n) /\ ~hub[n].stop
    BY <2>1, <2>2, <2>4 DEF Watched, Reads
  <2>6. n = key /\ key # 0 /\ (hub[n].fired => adopt = "listed" /\ n = 1)
    BY <2>5, WatchedIsKey DEF Endings, Watched, Wakes
  <2>7. hub[n].fired => handle'[n].attach = handle[n].attach
    BY <1>6, <2>6 DEF Reconnect, Adopted, TypeOK
  <2>8. (hub' = hub /\ handle' = handle) \/ hub'[n] = verify(hub[n], status(handle', n))
    BY <1>6, <2>6, HintDoes DEF Reconnect
  <2>9. hub' = hub /\ handle' = handle => TrueRead(n)'
    BY <2>2, <2>5 DEF TrueRead, Gone
  <2> QED  BY <2>2, <2>3, <2>5, <2>7, <2>8, <2>9, <1>0, HintIsRead
<1>7. CASE PrepareFails
  <2>1. \A n \in Wakes : ~Watched(n)'
    BY <1>7 DEF PrepareFails, Registry, Watched, Wakes
  <2> QED  BY <2>1 DEF Reads
<1>8. CASE Prepare
  <2>1. last \in Wakes
    BY <1>8, SupervisionAssumption DEF Prepare, TypeOK, Registry, Wakes
  <2>2. ASSUME NEW n \in Wakes, Watched(n)' PROVE n = last
    <3>1. cur = 0 /\ adopt' = "no" /\ \A m \in Wakes : m # last => stage'[m] = stage[m]
      BY <1>8 DEF Prepare, Registry, TypeOK
    <3> QED  BY <2>2, <3>1 DEF Watched, Registry, Wakes
  <2>3. hub'[last].read = "no" /\ handle'[last].attach \in {"live", "refused"}
    BY <1>8, <2>1 DEF Prepare, TypeOK, Tracked, FreshState
  <2> QED  BY <2>2, <2>3 DEF Reads, TrueRead
<1>9. CASE ArmFails
  <2>1. UNCHANGED <<box, dead, crashed, handle, hub>>
    BY <1>9 DEF ArmFails
  <2>2. \A n \in Wakes : Watched(n)' => Watched(n)
    BY <1>9 DEF ArmFails, Watched, TypeOK
  <2> QED  BY <2>1, <2>2, ReadsKept
<1>10. CASE adoptOneSession
  <2>1. UNCHANGED <<box, dead, crashed, handle>>
    BY <1>10 DEF adoptOneSession
  <2>2. \A n \in Wakes : hub'[n].read = hub[n].read /\ hub'[n].recheck = hub[n].recheck
                         /\ hub'[n].stop = hub[n].stop
    BY <1>10 DEF adoptOneSession, TypeOK, HubState
  <2>3. \A n \in Wakes : Watched(n)' => Watched(n)
    BY <1>10 DEF adoptOneSession, Watched, TypeOK
  <2> QED  BY <2>1, <2>2, <2>3, ReadsKept
<1>11. CASE resync
  <2>0. PICK k \in Wakes : k = 1
    BY SupervisionAssumption DEF Wakes
  <2>1. SUFFICES ASSUME NEW n \in Wakes, Watched(n)', ~hub'[n].stop PROVE TrueRead(n)'
    BY DEF Reads
  <2>2. UNCHANGED <<box, dead, crashed, handle>> /\ adopt' = "no" /\ adopt = "armed"
    BY <1>11 DEF resync
  <2>3. stage[n] = "tracked" /\ stage'[n] = "tracked"
    BY <1>11, <2>1, <2>2, FinishDoes DEF resync, Watched, FinishesCur
  <2>4. Watched(n) /\ n = cur /\ n = k
    BY <1>11, <2>0, <2>3 DEF Watched, resync, Registry, Wakes
  <2>5. hub'[n].stop = hub[n].stop
    BY <1>11, <2>0, <2>4, ResyncDoes
  <2>6. TrueRead(n) /\ ~hub[n].stop /\ ~hub[n].fired
    BY <2>1, <2>3, <2>4, <2>5 DEF Reads, Endings
  <2>7. hub'[n] = verify(hub[n], status(handle, n)) \/ hub' = hub
    BY <1>11, <2>0, <2>3, <2>4, ResyncDoes DEF FinishesCur
  <2>8. hub' = hub => TrueRead(n)'
    BY <2>2, <2>6 DEF TrueRead, Gone
  <2> QED  BY <2>2, <2>4, <2>6, <2>7, <2>8, <1>0, HintIsRead
<1>12. CASE KernelRestarts
  <2>1. UNCHANGED <<box, dead, crashed, stage, adopt, hub>>
    BY <1>12 DEF KernelRestarts
  <2>2. \A n \in Wakes : /\ handle'[n].box = handle[n].box /\ handle'[n].own = handle[n].own
                         /\ \/ handle'[n].attach = handle[n].attach
                            \/ handle'[n].attach = "killing"
    BY <1>12 DEF KernelRestarts, TypeOK, Handle
  <2>3. \A n \in Wakes : Watched(n)' => Watched(n)
    BY <2>1 DEF Watched
  <2> QED  BY <2>1, <2>2, <2>3, ReadsKept
<1>13. ASSUME NEW k \in Wakes, VerifyEnds(k) PROVE Reads'
  <2>1. SUFFICES ASSUME NEW n \in Wakes, Watched(n)', ~hub'[n].stop PROVE TrueRead(n)'
    BY DEF Reads
  <2>2. UNCHANGED <<adopt, box, dead, crashed, handle>>
    BY <1>13 DEF VerifyEnds
  <2>3. hub'[n].stop = hub[n].stop /\ (n # k => hub'[n] = hub[n])
    BY <1>13, AnswerDoes
  <2>4. Watched(n)
    BY <1>13, <2>1, <2>2, AnswerDoes DEF Watched, Fires, LetsGo, FinishesCur
  <2>5. TrueRead(n) /\ ~hub[n].stop /\ (Gone(n) => Gone(n)')
    BY <2>1, <2>2, <2>3, <2>4 DEF Reads, Gone
  <2>6. CASE n # k
    BY <2>2, <2>3, <2>5, <2>6 DEF TrueRead
  <2>7. CASE n = k /\ Fires(k)
    <3>1. stage[n] = "tracked" => stage'[n] = "finishing"
      <4>1. stage[n] = "tracked" => n = cur /\ hub[cur].cb
        BY DEF Registry, Wakes
      <4> QED  BY <2>7, <4>1 DEF Fires, FinishesCur
    <3>2. adopt = "listed" /\ n = 1
      BY <2>1, <2>2, <2>4, <3>1 DEF Watched
    <3>3. handle[n].attach = "none"
      BY <3>2 DEF Adopted
    <3> QED  BY <2>2, <2>7, <3>3 DEF TrueRead, Fires
  <2>8. CASE n = k /\ LetsGo(k) /\ hub'[k].read = status(handle, k)
    BY <2>2, <2>3, <2>4, <2>5, <2>8, <1>0, ReadIsTrue
  <2>9. CASE n = k /\ LetsGo(k) /\ hub'[k].read = "no" /\ hub'[k].read # status(handle, k)
    <3>1. hub[n].fired => handle[n].attach = "none"
      BY <2>4 DEF Watched, Endings, Adopted
    <3>2. ~(handle[n].attach \in {"zero", "nonzero"} /\ handle[n].box \in dead)
      BY <2>5, <2>9, <3>1 DEF LetsGo, TrueRead
    <3> QED  BY <2>2, <2>9, <3>2 DEF TrueRead
  <2>10. Fires(k) \/ LetsGo(k)
    BY <1>13, AnswerDoes
  <2> QED  BY <2>6, <2>7, <2>8, <2>9, <2>10 DEF LetsGo
<1>14. ASSUME NEW k \in Wakes, finish(k) PROVE Reads'
  <2>1. UNCHANGED <<box, dead, crashed, handle, hub>>
    BY <1>14 DEF finish
  <2>2. \A n \in Wakes : Watched(n)' => Watched(n)
    BY <1>14 DEF finish, Watched, TypeOK
  <2> QED  BY <2>1, <2>2, ReadsKept
<1>15. ASSUME NEW k \in Wakes, AttachEnds(k) PROVE Reads'
  <2>1. SUFFICES ASSUME NEW n \in Wakes, Watched(n)', ~hub'[n].stop PROVE TrueRead(n)'
    BY DEF Reads
  <2>2. UNCHANGED <<adopt, stage, key, box, dead, crashed>>
    BY <1>15 DEF AttachEnds
  <2>3. handle'[n].box = handle[n].box /\ handle'[n].own = handle[n].own
    BY <1>15, HandlesStay DEF AttachEnds, Prepare
  <2>4. hub'[n].stop = hub[n].stop
    BY <1>15, HintKeeps DEF HubKept
  <2>5. Watched(n) /\ TrueRead(n) /\ ~hub[n].stop
    BY <2>1, <2>2, <2>4 DEF Watched, Reads
  <2>6. n = key /\ key # 0 /\ (hub[n].fired => adopt = "listed" /\ n = 1)
    BY <2>5, WatchedIsKey DEF Endings, Watched, Wakes
  <2>7. hub[n].fired => handle'[n].attach = handle[n].attach
    BY <1>15, <2>6 DEF AttachEnds, Adopted, TypeOK
  <2>8. hub'[n] = verify(hub[n], status(handle', n))
    BY <1>15, <2>6, HintDoes DEF AttachEnds
  <2> QED  BY <2>2, <2>3, <2>5, <2>7, <2>8, <1>0, HintIsRead
<1>16. ASSUME NEW k \in Wakes, KilledAttachEnds(k) PROVE Reads'
  <2>1. SUFFICES ASSUME NEW n \in Wakes, Watched(n)', ~hub'[n].stop PROVE TrueRead(n)'
    BY DEF Reads
  <2>2. UNCHANGED <<adopt, stage, key, box, dead, crashed>>
    BY <1>16 DEF KilledAttachEnds
  <2>3. handle'[n].box = handle[n].box /\ handle'[n].own = handle[n].own
    BY <1>16, HandlesStay DEF KilledAttachEnds, Prepare
  <2>4. hub'[n].stop = hub[n].stop
    BY <1>16, HintKeeps DEF HubKept
  <2>5. Watched(n) /\ TrueRead(n) /\ ~hub[n].stop
    BY <2>1, <2>2, <2>4 DEF Watched, Reads
  <2>6. n = key /\ key # 0 /\ (hub[n].fired => adopt = "listed" /\ n = 1)
    BY <2>5, WatchedIsKey DEF Endings, Watched, Wakes
  <2>7. hub[n].fired => handle'[n].attach = handle[n].attach
    BY <1>16, <2>6 DEF KilledAttachEnds, Adopted, TypeOK
  <2>8. hub'[n] = verify(hub[n], status(handle', n))
    BY <1>16, <2>6, HintDoes DEF KilledAttachEnds
  <2> QED  BY <2>2, <2>3, <2>5, <2>7, <2>8, <1>0, HintIsRead
<1>17. ASSUME NEW c \in Calls, StopAsked(c) PROVE Reads'
  <2>1. UNCHANGED <<box, dead, crashed, stage, adopt>>
    BY <1>17 DEF StopAsked, killContainer
  <2>2. key = cur /\ cur # 0 /\ cur \in Wakes
    BY <1>17 DEF StopAsked, killContainer, Registry, TypeOK, Wakes
  <2>3. \A n \in Wakes : n # key => hub'[n] = hub[n] /\ handle'[n] = handle[n]
    BY <1>17, <2>2 DEF StopAsked, killContainer, TypeOK
  <2>4. hub'[key].stop
    BY <1>17, <2>2 DEF StopAsked, killContainer, TypeOK, HubState
  <2>5. \A n \in Wakes : Watched(n)' => Watched(n)
    BY <2>1 DEF Watched
  <2> QED  BY <2>1, <2>3, <2>4, <2>5, ReadsKept
<1>18. ASSUME NEW c \in Calls, CeilingKill(c) PROVE Reads'
  <2>1. UNCHANGED <<box, dead, crashed, stage, adopt>>
    BY <1>18 DEF CeilingKill, killContainer
  <2>2. key = cur /\ cur # 0 /\ cur \in Wakes
    BY <1>18 DEF CeilingKill, killContainer, Registry, TypeOK, Wakes
  <2>3. \A n \in Wakes : n # key => hub'[n] = hub[n] /\ handle'[n] = handle[n]
    BY <1>18, <2>2 DEF CeilingKill, killContainer, TypeOK
  <2>4. hub'[key].stop
    BY <1>18, <2>2 DEF CeilingKill, killContainer, TypeOK, HubState
  <2>5. \A n \in Wakes : Watched(n)' => Watched(n)
    BY <2>1 DEF Watched
  <2> QED  BY <2>1, <2>3, <2>4, <2>5, ReadsKept
<1>19. ASSUME NEW c \in Calls, KernelStops(c) PROVE Reads'
  <2>1. box'.id \in {box.id, 0}
    BY <1>19 DEF KernelStops, Ends, TypeOK, Box, NoBox
  <2>2. IF box.st = "running"
        THEN dead' = dead \cup {box.id} /\ crashed' \subseteq crashed \cup {box.id}
        ELSE UNCHANGED <<dead, crashed>>
    BY <1>19 DEF KernelStops, Ends
  <2>3. UNCHANGED <<adopt, stage, hub, handle>>
    BY <1>19 DEF KernelStops
  <2> QED  BY <2>1, <2>2, <2>3, ReadsOutliveBox
<1>20. ASSUME NEW c \in Calls, KernelRemoves(c) PROVE Reads'
  <2>1. box'.id \in {box.id, 0}
    BY <1>20 DEF KernelRemoves, Removed, TypeOK, Box, NoBox
  <2>2. IF box.st = "running"
        THEN dead' = dead \cup {box.id} /\ crashed' \subseteq crashed \cup {box.id}
        ELSE UNCHANGED <<dead, crashed>>
    BY <1>20 DEF KernelRemoves, Removed
  <2>3. UNCHANGED <<adopt, stage, hub, handle>>
    BY <1>20 DEF KernelRemoves
  <2> QED  BY <2>1, <2>2, <2>3, ReadsOutliveBox
<1>21. ASSUME NEW c \in Calls, StopsDirectly(c) PROVE Reads'
  <2>1. box'.id \in {box.id, 0}
    BY <1>21 DEF StopsDirectly, Removed, TypeOK, Box, NoBox
  <2>2. IF box.st = "running"
        THEN dead' = dead \cup {box.id} /\ crashed' \subseteq crashed \cup {box.id}
        ELSE UNCHANGED <<dead, crashed>>
    BY <1>21 DEF StopsDirectly, Removed
  <2>3. UNCHANGED <<adopt, stage, hub, handle>>
    BY <1>21 DEF StopsDirectly
  <2> QED  BY <2>1, <2>2, <2>3, ReadsOutliveBox
<1>22. ASSUME NEW c \in Calls, KernelFails(c) PROVE Reads'
  <2>1. UNCHANGED <<box, dead, crashed, stage, adopt, hub>>
    BY <1>22 DEF KernelFails
  <2>2. \A n \in Wakes : /\ handle'[n].box = handle[n].box /\ handle'[n].own = handle[n].own
                         /\ \/ handle'[n].attach = handle[n].attach
                            \/ handle'[n].attach = "killing"
    BY <1>22 DEF KernelFails, TypeOK, Handle
  <2>3. \A n \in Wakes : Watched(n)' => Watched(n)
    BY <2>1 DEF Watched
  <2> QED  BY <2>1, <2>2, <2>3, ReadsKept
<1>23. ASSUME NEW c \in Calls, StopReturns(c) PROVE Reads'
  <2>1. UNCHANGED <<box, dead, crashed, handle, hub>>
    BY <1>23 DEF StopReturns
  <2>2. \A n \in Wakes : Watched(n)' => Watched(n)
    BY <1>23, FinishDoes DEF StopReturns, Watched, FinishesCur
  <2> QED  BY <2>1, <2>2, ReadsKept
<1> QED
  BY <1>1, <1>2, <1>3, <1>4, <1>5, <1>6, <1>7, <1>8, <1>9, <1>10, <1>11,
     <1>12, <1>13, <1>14, <1>15, <1>16, <1>17, <1>18, <1>19, <1>20, <1>21,
     <1>22, <1>23 DEF Next

\* Steps that tell nothing and revive nobody.
LEMMA ToldKept ==
  ASSUME TypeOK, Told, key' = key, told' = told, dead \subseteq dead',
         crashed' \cap dead \subseteq crashed,
         \A n \in Wakes : /\ Orphaned(n) => Orphaned(n)'
                          /\ stage[n] = "dropped" => stage'[n] = "dropped"
                          /\ handle'[n].own = handle[n].own
                          /\ handle'[n].box = handle[n].box
  PROVE  Told'
<1>1. SUFFICES ASSUME NEW n \in Wakes
      PROVE  /\ n > key => told[n] = "no"
             /\ handle[n].own /\ told[n] = "stopped" /\ stage'[n] # "dropped"
                  /\ ~Orphaned(n)' => handle[n].box \in dead' \ crashed'
  BY DEF Told
<1> QED  BY DEF Told

\* What was told of an end stays true.
LEMMA StepTold ==
  ASSUME TypeOK, Registry, Adopted, Containers, Endings, Reads, Told, [Next]_vars
  PROVE  Told'
<1> USE DEF runner, hubv, docker, watch, bounds
<1>0. \A n \in Wakes : /\ Orphaned(n) => Orphaned(n)'
                       /\ stage[n] = "dropped" => stage'[n] = "dropped"
  BY OrphansStay, DroppedStays
<1>1. CASE UNCHANGED vars
  BY <1>0, <1>1 DEF vars, Told
<1>2. CASE BoxRemoved \/ Subscribed \/ StreamDrops \/ ResyncFails \/ wakeContainer
          \/ MarkRunning \/ WakeGivesUp
  BY <1>0, <1>2 DEF BoxRemoved, Subscribed, StreamDrops, ResyncFails, wakeContainer, MarkRunning,
     WakeGivesUp, Told
<1>3. CASE BoxExits
  <2>1. key' = key /\ told' = told
    BY <1>3 DEF BoxExits
  <2>2. dead \subseteq dead' /\ crashed' \cap dead \subseteq crashed
    BY <1>3 DEF BoxExits, Ends, Containers
  <2>3. \A n \in Wakes : handle'[n].own = handle[n].own /\ handle'[n].box = handle[n].box
    BY <1>3, HandlesStay DEF BoxExits, Prepare
  <2> QED  BY <1>0, <2>1, <2>2, <2>3, ToldKept
<1>4. CASE EventArrives
  <2>1. key' = key /\ told' = told
    BY <1>4 DEF EventArrives
  <2>2. dead \subseteq dead' /\ crashed' \cap dead \subseteq crashed
    BY <1>4 DEF EventArrives
  <2>3. \A n \in Wakes : handle'[n].own = handle[n].own /\ handle'[n].box = handle[n].box
    BY <1>4, HandlesStay DEF EventArrives, Prepare
  <2> QED  BY <1>0, <2>1, <2>2, <2>3, ToldKept
<1>5. CASE Reconnect
  <2>1. key' = key /\ told' = told
    BY <1>5 DEF Reconnect
  <2>2. dead \subseteq dead' /\ crashed' \cap dead \subseteq crashed
    BY <1>5 DEF Reconnect
  <2>3. \A n \in Wakes : handle'[n].own = handle[n].own /\ handle'[n].box = handle[n].box
    BY <1>5, HandlesStay DEF Reconnect, Prepare
  <2> QED  BY <1>0, <2>1, <2>2, <2>3, ToldKept
<1>6. CASE PrepareFails
  <2>1. key' = key /\ told' = told
    BY <1>6 DEF PrepareFails
  <2>2. dead \subseteq dead' /\ crashed' \cap dead \subseteq crashed
    BY <1>6 DEF PrepareFails
  <2>3. \A n \in Wakes : handle'[n].own = handle[n].own /\ handle'[n].box = handle[n].box
    BY <1>6, HandlesStay DEF PrepareFails, Prepare
  <2> QED  BY <1>0, <2>1, <2>2, <2>3, ToldKept
<1>7. CASE Prepare
  <2>1. last \in Wakes /\ key < last /\ key \in Nat
    BY <1>7, SupervisionAssumption DEF Prepare, TypeOK, Registry, Wakes
  <2>2. UNCHANGED <<told, dead, crashed>> /\ key' = last
    BY <1>7 DEF Prepare
  <2>3. told[last] = "no"
    BY <2>1 DEF Told, Wakes
  <2>4. \A n \in Wakes : n # last => handle'[n] = handle[n] /\ stage'[n] = stage[n]
    BY <1>7, <2>1 DEF Prepare, TypeOK
  <2>5. ASSUME NEW n \in Wakes
        PROVE  /\ n > key' => told'[n] = "no"
               /\ handle'[n].own /\ told'[n] = "stopped" /\ stage'[n] # "dropped"
                    /\ ~Orphaned(n)' => handle'[n].box \in dead' \ crashed'
    <3>1. n > key' => n > key
      BY <2>1, <2>2 DEF Wakes
    <3>2. CASE n = last
      BY <2>2, <2>3, <3>1, <3>2
    <3>3. CASE n # last
      BY <1>0, <2>2, <2>4, <3>1, <3>3 DEF Told
    <3> QED  BY <3>2, <3>3
  <2> QED  BY <2>5 DEF Told
<1>8. CASE ArmFails
  <2>1. key' = key /\ told' = told
    BY <1>8 DEF ArmFails
  <2>2. dead \subseteq dead' /\ crashed' \cap dead \subseteq crashed
    BY <1>8 DEF ArmFails
  <2>3. \A n \in Wakes : handle'[n].own = handle[n].own /\ handle'[n].box = handle[n].box
    BY <1>8, HandlesStay DEF ArmFails, Prepare
  <2> QED  BY <1>0, <2>1, <2>2, <2>3, ToldKept
<1>9. CASE adoptOneSession
  <2>1. key' = key /\ told' = told
    BY <1>9 DEF adoptOneSession
  <2>2. dead \subseteq dead' /\ crashed' \cap dead \subseteq crashed
    BY <1>9 DEF adoptOneSession
  <2>3. \A n \in Wakes : handle'[n].own = handle[n].own /\ handle'[n].box = handle[n].box
    BY <1>9, HandlesStay DEF adoptOneSession, Prepare
  <2> QED  BY <1>0, <2>1, <2>2, <2>3, ToldKept
<1>10. CASE resync
  <2>0. PICK k \in Wakes : k = 1
    BY SupervisionAssumption DEF Wakes
  <2>1. UNCHANGED <<key, handle, dead, crashed>> /\ key = k /\ ~handle[k].own
    BY <1>10, <2>0 DEF resync, Registry, Adopted
  <2>2. \A n \in Wakes : n # k => told'[n] = told[n]
    BY <1>10, <2>0, ResyncDoes DEF TypeOK
  <2>3. ASSUME NEW n \in Wakes
        PROVE  /\ n > key' => told'[n] = "no"
               /\ handle'[n].own /\ told'[n] = "stopped" /\ stage'[n] # "dropped"
                    /\ ~Orphaned(n)' => handle'[n].box \in dead' \ crashed'
    <3>1. CASE n = k
      BY <2>1, <3>1, SupervisionAssumption DEF Wakes
    <3>2. CASE n # k
      BY <1>0, <2>1, <2>2, <3>2 DEF Told
    <3> QED  BY <3>1, <3>2
  <2> QED  BY <2>3 DEF Told
<1>11. CASE KernelRestarts
  <2>1. key' = key /\ told' = told
    BY <1>11 DEF KernelRestarts
  <2>2. dead \subseteq dead' /\ crashed' \cap dead \subseteq crashed
    BY <1>11 DEF KernelRestarts
  <2>3. \A n \in Wakes : handle'[n].own = handle[n].own /\ handle'[n].box = handle[n].box
    BY <1>11, HandlesStay DEF KernelRestarts, Prepare
  <2> QED  BY <1>0, <2>1, <2>2, <2>3, ToldKept
<1>12. ASSUME NEW k \in Wakes, VerifyEnds(k) PROVE Told'
  <2>1. UNCHANGED <<key, handle, dead, crashed>>
    BY <1>12 DEF VerifyEnds
  <2>2. k <= key /\ key \in Nat
    BY <1>12, AnswerDoes, SupervisionAssumption DEF Registry, TypeOK, Wakes
  <2>3. Fires(k) \/ LetsGo(k)
    BY <1>12, AnswerDoes
  <2>4. CASE LetsGo(k)
    BY <1>0, <2>1, <2>4, ToldKept DEF LetsGo
  <2>5. CASE Fires(k)
    <3>1. /\ told'[k] = hub[k].read
          /\ \A n \in Wakes : n # k => told'[n] = told[n]
      BY <2>5 DEF Fires, TypeOK
    <3>2. ASSUME handle[k].own, hub[k].read = "stopped", stage[k] # "dropped", ~Orphaned(k)
          PROVE  handle[k].box \in dead \ crashed
      <4>1. stage[k] = "tracked"
        BY <2>5, <3>2 DEF Endings, Fires, TypeOK
      <4>2. TrueRead(k)
        BY <2>5, <4>1 DEF Reads, Watched, Fires
      <4> QED  BY <3>2, <4>2 DEF TrueRead
    <3>3. ASSUME NEW n \in Wakes
          PROVE  /\ n > key' => told'[n] = "no"
                 /\ handle'[n].own /\ told'[n] = "stopped" /\ stage'[n] # "dropped"
                      /\ ~Orphaned(n)' => handle'[n].box \in dead' \ crashed'
      <4>1. CASE n = k
        BY <1>0, <2>1, <2>2, <3>1, <3>2, <4>1 DEF Wakes
      <4>2. CASE n # k
        BY <1>0, <2>1, <3>1, <4>2 DEF Told
      <4> QED  BY <4>1, <4>2
    <3> QED  BY <3>3 DEF Told
  <2> QED  BY <2>3, <2>4, <2>5
<1>13. ASSUME NEW k \in Wakes, finish(k) PROVE Told'
  <2>1. key' = key /\ told' = told
    BY <1>13 DEF finish
  <2>2. dead \subseteq dead' /\ crashed' \cap dead \subseteq crashed
    BY <1>13 DEF finish
  <2>3. \A n \in Wakes : handle'[n].own = handle[n].own /\ handle'[n].box = handle[n].box
    BY <1>13, HandlesStay DEF finish, Prepare
  <2> QED  BY <1>0, <2>1, <2>2, <2>3, ToldKept
<1>14. ASSUME NEW k \in Wakes, AttachEnds(k) PROVE Told'
  <2>1. key' = key /\ told' = told
    BY <1>14 DEF AttachEnds
  <2>2. dead \subseteq dead' /\ crashed' \cap dead \subseteq crashed
    BY <1>14 DEF AttachEnds
  <2>3. \A n \in Wakes : handle'[n].own = handle[n].own /\ handle'[n].box = handle[n].box
    BY <1>14, HandlesStay DEF AttachEnds, Prepare
  <2> QED  BY <1>0, <2>1, <2>2, <2>3, ToldKept
<1>15. ASSUME NEW k \in Wakes, KilledAttachEnds(k) PROVE Told'
  <2>1. key' = key /\ told' = told
    BY <1>15 DEF KilledAttachEnds
  <2>2. dead \subseteq dead' /\ crashed' \cap dead \subseteq crashed
    BY <1>15 DEF KilledAttachEnds
  <2>3. \A n \in Wakes : handle'[n].own = handle[n].own /\ handle'[n].box = handle[n].box
    BY <1>15, HandlesStay DEF KilledAttachEnds, Prepare
  <2> QED  BY <1>0, <2>1, <2>2, <2>3, ToldKept
<1>16. ASSUME NEW c \in Calls, StopAsked(c) PROVE Told'
  <2>1. key' = key /\ told' = told
    BY <1>16 DEF StopAsked, killContainer
  <2>2. dead \subseteq dead' /\ crashed' \cap dead \subseteq crashed
    BY <1>16 DEF StopAsked, killContainer
  <2>3. \A n \in Wakes : handle'[n].own = handle[n].own /\ handle'[n].box = handle[n].box
    BY <1>16, HandlesStay DEF StopAsked, Prepare, killContainer
  <2> QED  BY <1>0, <2>1, <2>2, <2>3, ToldKept
<1>17. ASSUME NEW c \in Calls, CeilingKill(c) PROVE Told'
  <2>1. key' = key /\ told' = told
    BY <1>17 DEF CeilingKill, killContainer
  <2>2. dead \subseteq dead' /\ crashed' \cap dead \subseteq crashed
    BY <1>17 DEF CeilingKill, killContainer
  <2>3. \A n \in Wakes : handle'[n].own = handle[n].own /\ handle'[n].box = handle[n].box
    BY <1>17, HandlesStay DEF CeilingKill, Prepare, killContainer
  <2> QED  BY <1>0, <2>1, <2>2, <2>3, ToldKept
<1>18. ASSUME NEW c \in Calls, KernelStops(c) PROVE Told'
  <2>1. key' = key /\ told' = told
    BY <1>18 DEF KernelStops
  <2>2. dead \subseteq dead' /\ crashed' \cap dead \subseteq crashed
    BY <1>18 DEF KernelStops, Ends, Containers
  <2>3. \A n \in Wakes : handle'[n].own = handle[n].own /\ handle'[n].box = handle[n].box
    BY <1>18, HandlesStay DEF KernelStops, Prepare
  <2> QED  BY <1>0, <2>1, <2>2, <2>3, ToldKept
<1>19. ASSUME NEW c \in Calls, KernelRemoves(c) PROVE Told'
  <2>1. key' = key /\ told' = told
    BY <1>19 DEF KernelRemoves
  <2>2. dead \subseteq dead' /\ crashed' \cap dead \subseteq crashed
    BY <1>19 DEF KernelRemoves, Removed, Containers
  <2>3. \A n \in Wakes : handle'[n].own = handle[n].own /\ handle'[n].box = handle[n].box
    BY <1>19, HandlesStay DEF KernelRemoves, Prepare
  <2> QED  BY <1>0, <2>1, <2>2, <2>3, ToldKept
<1>20. ASSUME NEW c \in Calls, StopsDirectly(c) PROVE Told'
  <2>1. key' = key /\ told' = told
    BY <1>20 DEF StopsDirectly
  <2>2. dead \subseteq dead' /\ crashed' \cap dead \subseteq crashed
    BY <1>20 DEF StopsDirectly, Removed, Containers
  <2>3. \A n \in Wakes : handle'[n].own = handle[n].own /\ handle'[n].box = handle[n].box
    BY <1>20, HandlesStay DEF StopsDirectly, Prepare
  <2> QED  BY <1>0, <2>1, <2>2, <2>3, ToldKept
<1>21. ASSUME NEW c \in Calls, KernelFails(c) PROVE Told'
  <2>1. key' = key /\ told' = told
    BY <1>21 DEF KernelFails
  <2>2. dead \subseteq dead' /\ crashed' \cap dead \subseteq crashed
    BY <1>21 DEF KernelFails
  <2>3. \A n \in Wakes : handle'[n].own = handle[n].own /\ handle'[n].box = handle[n].box
    BY <1>21, HandlesStay DEF KernelFails, Prepare
  <2> QED  BY <1>0, <2>1, <2>2, <2>3, ToldKept
<1>22. ASSUME NEW c \in Calls, StopReturns(c) PROVE Told'
  <2>1. key' = key /\ told' = told
    BY <1>22 DEF StopReturns
  <2>2. dead \subseteq dead' /\ crashed' \cap dead \subseteq crashed
    BY <1>22 DEF StopReturns
  <2>3. \A n \in Wakes : handle'[n].own = handle[n].own /\ handle'[n].box = handle[n].box
    BY <1>22, HandlesStay DEF StopReturns, Prepare
  <2> QED  BY <1>0, <2>1, <2>2, <2>3, ToldKept
<1> QED
  BY <1>1, <1>2, <1>3, <1>4, <1>5, <1>6, <1>7, <1>8, <1>9, <1>10, <1>11,
     <1>12, <1>13, <1>14, <1>15, <1>16, <1>17, <1>18, <1>19, <1>20, <1>21,
     <1>22 DEF Next

\* A lease belongs to a runtime, a wake or an adoption.
LEMMA StepLease ==
  ASSUME TypeOK, Registry, LeaseEndsWithSession, [Next]_vars
  PROVE  LeaseEndsWithSession'
<1> USE DEF runner, hubv, docker, watch, bounds
<1>1. CASE UNCHANGED vars
  BY <1>1 DEF vars, LeaseEndsWithSession
<1>2. CASE BoxExits \/ BoxRemoved \/ EventArrives \/ Subscribed \/
          StreamDrops \/ ResyncFails \/ Reconnect \/ MarkRunning \/ WakeGivesUp \/
          resync \/ KernelRestarts
  BY <1>2 DEF BoxExits, BoxRemoved, EventArrives, Subscribed, StreamDrops, ResyncFails,
     Reconnect, MarkRunning, WakeGivesUp, resync, KernelRestarts,
     LeaseEndsWithSession
<1>3. ASSUME NEW k \in Wakes, VerifyEnds(k) \/ AttachEnds(k) \/ KilledAttachEnds(k)
      PROVE  LeaseEndsWithSession'
  BY <1>3 DEF VerifyEnds, AttachEnds, KilledAttachEnds, LeaseEndsWithSession
<1>4. ASSUME NEW c \in Calls, StopAsked(c) \/ CeilingKill(c) \/ KernelStops(c) \/
             KernelRemoves(c) \/ StopsDirectly(c) \/ KernelFails(c) \/
             StopReturns(c)
      PROVE  LeaseEndsWithSession'
  BY <1>4 DEF StopAsked, killContainer, CeilingKill, KernelStops, KernelRemoves,
     StopsDirectly, KernelFails, StopReturns, LeaseEndsWithSession
<1>5. CASE wakeContainer
  <2>1. 0 \notin lease
    BY DEF TypeOK, Wakes
  <2> QED  BY <1>5, <2>1 DEF wakeContainer, LeaseEndsWithSession, Registry
<1>6. CASE PrepareFails
  <2>1. 0 \notin lease
    BY DEF TypeOK, Wakes
  <2> QED  BY <1>6, <2>1 DEF PrepareFails, LeaseEndsWithSession, Registry
<1>7. CASE Prepare
  <2>1. cur = 0 /\ adopt = "no" /\ waking = "preparing"
    BY <1>7 DEF Prepare, Registry
  <2>2. lease' = lease /\ cur' = last
    BY <1>7 DEF Prepare
  <2>3. 0 \notin lease
    BY DEF TypeOK, Wakes
  <2> QED  BY <2>1, <2>2, <2>3 DEF LeaseEndsWithSession
<1>8. CASE ArmFails
  <2>1. 0 \notin lease
    BY DEF TypeOK, Wakes
  <2> QED  BY <1>8, <2>1 DEF ArmFails, LeaseEndsWithSession, Registry
<1>9. CASE adoptOneSession
  <2>1. 0 \notin lease
    BY DEF TypeOK, Wakes
  <2> QED  BY <1>9, <2>1 DEF adoptOneSession, LeaseEndsWithSession, Registry
<1>10. ASSUME NEW k \in Wakes, finish(k) PROVE LeaseEndsWithSession'
  <2>1. 0 \notin lease
    BY DEF TypeOK, Wakes
  <2> QED  BY <1>10, <2>1 DEF finish, LeaseEndsWithSession, Registry
<1> QED
  BY <1>1, <1>2, <1>3, <1>4, <1>5, <1>6, <1>7, <1>8, <1>9, <1>10 DEF Next

-----------------------------------------------------------------------------
(***************************************************************************)
(* The theorems.                                                           *)
(***************************************************************************)

\* Everything the proofs carry along.
SupervisionInv ==
  /\ TypeOK /\ Registry /\ Adopted /\ Containers /\ Attachments
  /\ StopsUnderWay /\ Endings /\ Reads /\ Told /\ LeaseEndsWithSession

\* A fresh host and one that listed a container both start in order.
LEMMA InitSupervision == Init => SupervisionInv
<1> SUFFICES ASSUME Init PROVE SupervisionInv
  OBVIOUS
<1> USE SupervisionAssumption
<1>1. /\ \A n \in Wakes : stage[n] = "unborn" /\ told[n] = "no" /\ hub[n] = FreshState
      /\ last \in {0, 1} /\ key = last /\ made = last
  BY DEF Init, Wakes
<1>2. /\ FreshState \in HubState /\ ~FreshState.cb /\ ~FreshState.stop
      /\ ~FreshState.fired /\ ~FreshState.pending /\ FreshState.read = "no"
  BY DEF FreshState, HubState
<1>3. \A n \in Wakes : /\ handle[n] \in Handle /\ ~handle[n].own
                       /\ ~handle[n].stopping /\ handle[n].attach = "none"
                       /\ handle[n].box = IF n = last THEN 1 ELSE 0
  <2>1. 0 \in 0 .. MaxBoxes /\ 1 \in 0 .. MaxBoxes
    OBVIOUS
  <2>2. UnusedHandle \in Handle
    BY <2>1 DEF UnusedHandle, Handle
  <2>3. /\ UnusedHandle.box = 0 /\ ~UnusedHandle.own /\ ~UnusedHandle.stopping
        /\ UnusedHandle.attach = "none"
    BY DEF UnusedHandle
  <2>4. \A s \in Handle : /\ [s EXCEPT !.box = 1] \in Handle
                          /\ [s EXCEPT !.box = 1].box = 1
                          /\ [s EXCEPT !.box = 1].own = s.own
                          /\ [s EXCEPT !.box = 1].stopping = s.stopping
                          /\ [s EXCEPT !.box = 1].attach = s.attach
    BY <2>1 DEF Handle
  <2>5. \A n \in Wakes : handle[n] = IF n = last THEN [UnusedHandle EXCEPT !.box = 1]
                                     ELSE UnusedHandle
    BY DEF Init
  <2> QED  BY <2>2, <2>3, <2>4, <2>5
<1>5. /\ box \in Box \cup {NoBox} /\ dead = {} /\ crashed = {}
      /\ \/ box.st = "absent" /\ box.id = 0 /\ last = 0 /\ adopt = "no" /\ lease = {}
         \/ box.st = "running" /\ box.id = 1 /\ last = 1 /\ adopt = "listed" /\ lease = {1}
  BY DEF Init, Box, Boxes, NoBox
<1>6. cur = 0 /\ waking = "no" /\ owed = {} /\ \A c \in Calls : call[c].at = "free"
  BY DEF Init
<1>7. TypeOK
  <2>1. hub \in [Wakes -> HubState] /\ handle \in [Wakes -> Handle]
    BY <1>1, <1>2, <1>3 DEF Init
  <2>2. call \in [Calls -> Call]
    BY DEF Init, Call
  <2>3. lease \subseteq Wakes /\ owed \subseteq Wakes
    BY <1>5, <1>6 DEF Wakes
  <2>4. last \in 0 .. MaxWakes /\ key \in 0 .. MaxWakes /\ made \in 0 .. MaxBoxes
        /\ reg \in 0 .. MaxBoxes
    BY <1>1 DEF Init
  <2>5. /\ stage \in [Wakes -> {"unborn", "tracked", "finishing", "finished", "dropped"}]
        /\ told \in [Wakes -> {"no", "stopped", "failed"}]
    BY DEF Init
  <2>6. /\ stream \in {"off", "connecting", "up", "down"} /\ event = FALSE
        /\ faults = 0 /\ stops = 0
    BY DEF Init
  <2>7. cur \in 0 .. MaxWakes /\ waking = "no" /\ adopt \in {"no", "listed", "armed"}
        /\ dead \subseteq Boxes /\ crashed \subseteq dead /\ box \in Box \cup {NoBox}
    BY <1>5, <1>6
  <2>8. faults \in 0 .. MaxFaults /\ stops \in 0 .. MaxStops
    BY <2>6
  <2>9. event \in BOOLEAN
    BY <2>6
  <2>10. waking \in {"no", "preparing", "marking", "awaiting"}
    BY <2>7
  <2> QED  BY <2>1, <2>2, <2>3, <2>4, <2>5, <2>6, <2>7, <2>8, <2>9, <2>10, Zenon DEF TypeOK
<1>8. Registry
  BY <1>1, <1>2, <1>5, <1>6 DEF Registry, Wakes
<1>9. Adopted /\ LeaseEndsWithSession
  <2>1. PICK k \in Wakes : k = 1
    BY DEF Wakes
  <2>2. Adopted
    BY <1>3, <1>5, <2>1 DEF Adopted
  <2> QED  BY <1>5, <2>2 DEF LeaseEndsWithSession
<1>10. Containers
  <2>1. \A n \in Wakes : handle[n].box <= made
    BY <1>1, <1>3 DEF Wakes
  <2>2. key # 0 => handle[key].box = 1
    BY <1>1, <1>3 DEF Wakes
  <2> QED  BY <1>1, <1>5, <1>6, <2>1, <2>2 DEF Containers
<1>11. Attachments /\ Endings /\ Told
  BY <1>1, <1>2, <1>3 DEF Attachments, Endings, Told
<1>12. StopsUnderWay /\ Reads
  BY <1>1, <1>2, <1>3, <1>5, <1>6 DEF StopsUnderWay, Reads, TrueRead
<1> QED  BY <1>7, <1>8, <1>9, <1>10, <1>11, <1>12 DEF SupervisionInv

LEMMA StepSupervision == SupervisionInv /\ [Next]_vars => SupervisionInv'
BY StepType, StepRegistry, StepAdopted, StepContainers, StepAttachments,
   StepStopsUnderWay, StepEndings, StepReads, StepTold, StepLease
   DEF SupervisionInv

\* The invariant every theorem below rests on (container-runner.ts:517,
\* session-events.ts:163).
THEOREM SupervisionHolds == Spec => []SupervisionInv
BY InitSupervision, StepSupervision, PTL DEF Spec

\* When nothing is under way any more, a runtime whose attach process told of
\* its container's end is not registered.
LEMMA EndIsNoticed == SupervisionInv => AttachedEndIsNoticed
<1> SUFFICES ASSUME SupervisionInv, Quiet, cur # 0, handle[cur].attach # "none",
                    handle[cur].box \in dead
             PROVE  FALSE
  BY DEF AttachedEndIsNoticed
<1>1. cur \in Wakes /\ handle[cur] \in Handle
  BY DEF SupervisionInv, TypeOK, Wakes
<1>2. stage[cur] = "tracked"
  BY <1>1 DEF SupervisionInv, Registry, Quiet
<1>3. ~handle[cur].stopping /\ ~hub[cur].stop
  BY <1>1, <1>2 DEF SupervisionInv, StopsUnderWay, Attachments, Quiet
<1>4. handle[cur].attach \in {"zero", "nonzero"}
  BY <1>1, <1>3 DEF SupervisionInv, Attachments, Quiet, Handle
<1>5. TrueRead(cur)
  BY <1>1, <1>2, <1>3 DEF SupervisionInv, Reads, Watched
<1> QED  BY <1>1, <1>4, <1>5 DEF TrueRead, Quiet

\* Types, leases that end with their session, and no end that only the sweep's
\* ceiling would notice (container-runner.ts:452, session-events.ts:163).
THEOREM SupervisionStaysInOrder == Spec => []SupervisionInvariant
<1>1. SupervisionInv => SupervisionInvariant
  BY EndIsNoticed DEF SupervisionInvariant, SupervisionInv
<1> QED  BY <1>1, SupervisionHolds, PTL

\* A crash of a container this host started is never told as a clean stop
\* (docker-driver.ts:505).
THEOREM CrashesAreTold == Spec => []CrashIsReportedAsFailure
<1>1. SupervisionInv => CrashIsReportedAsFailure
  BY DEF SupervisionInv, Told, CrashIsReportedAsFailure
<1> QED  BY <1>1, SupervisionHolds, PTL

\* Who finishes a runtime: its own end, its own stop, or an orphan's.
LEMMA StepFinishesItsOwn ==
  ASSUME SupervisionInv, [Next]_vars, NEW n \in Wakes,
         stage[n] = "tracked", stage'[n] = "finishing"
  PROVE  \/ Gone(n) \/ Orphaned(n)
         \/ \E c \in Calls : call[c].rt = n /\ call[c].at = "done"
<1> USE DEF runner, SupervisionInv
<1>1. CASE UNCHANGED vars
  BY <1>1 DEF vars
<1>2. ASSUME NEW k \in Wakes, VerifyEnds(k)
      PROVE  Gone(n) \/ Orphaned(n)
  <2>1. Fires(k) /\ (k = n \/ Orphaned(n))
    BY <1>2, AnswerFinishes
  <2>2. k = n => TrueRead(n)
    BY <2>1 DEF Reads, Watched, Fires
  <2> QED  BY <2>1, <2>2 DEF TrueRead, Fires
<1>3. ASSUME resync PROVE Gone(n)
  <2>1. n = cur /\ box.st = "exited"
    BY <1>3, ResyncFinishes
  <2>2. cur # 0
    BY <2>1 DEF Wakes
  <2> QED  BY <2>1, <2>2 DEF Containers, Gone
<1>4. ASSUME NEW c \in Calls, StopReturns(c)
      PROVE  Orphaned(n) \/ (call[c].rt = n /\ call[c].at = "done")
  BY <1>4, StopFinishes
<1>5. CASE \/ BoxExits \/ BoxRemoved \/ EventArrives \/ Subscribed \/ StreamDrops \/ ResyncFails
           \/ Reconnect \/ wakeContainer \/ PrepareFails \/ MarkRunning
           \/ WakeGivesUp \/ KernelRestarts
  BY <1>5 DEF BoxExits, BoxRemoved, EventArrives, Subscribed, StreamDrops, ResyncFails,
     Reconnect, wakeContainer, PrepareFails, MarkRunning, WakeGivesUp,
     KernelRestarts
<1>6. CASE Prepare \/ ArmFails
  BY <1>6 DEF Prepare, ArmFails, TypeOK
<1>7. CASE adoptOneSession
  <2>1. n # 1
    BY <1>7 DEF adoptOneSession, Registry
  <2> QED  BY <1>7, <2>1 DEF adoptOneSession, TypeOK
<1>8. ASSUME NEW k \in Wakes, finish(k) \/ AttachEnds(k) \/ KilledAttachEnds(k)
      PROVE  FALSE
  BY <1>8 DEF finish, AttachEnds, KilledAttachEnds, TypeOK
<1>9. ASSUME NEW c \in Calls, \/ StopAsked(c) \/ CeilingKill(c) \/ KernelStops(c)
                              \/ KernelRemoves(c) \/ StopsDirectly(c) \/ KernelFails(c)
      PROVE  FALSE
  BY <1>9 DEF StopAsked, CeilingKill, KernelStops, KernelRemoves, StopsDirectly,
     KernelFails, killContainer
<1> QED
  BY <1>1, <1>2, <1>3, <1>4, <1>5, <1>6, <1>7, <1>8, <1>9 DEF Next

\* Who is told of an end: nobody who asked for it.
LEMMA StepTellsUnasked ==
  ASSUME SupervisionInv, [Next]_vars, NEW n \in Wakes,
         told[n] = "no", told'[n] # "no"
  PROVE  ~handle[n].stopping
<1> USE DEF hubv, SupervisionInv
<1>1. CASE UNCHANGED vars
  BY <1>1 DEF vars
<1>2. ASSUME NEW k \in Wakes, VerifyEnds(k)
      PROVE  ~handle[n].stopping
  <2>1. Fires(k) /\ n = k
    BY <1>2, AnswerDoes DEF Fires, LetsGo, TypeOK
  <2> QED  BY <2>1 DEF Fires, Attachments
<1>3. ASSUME resync PROVE ~handle[n].stopping
  <2>1. PICK k \in Wakes : k = 1
    BY SupervisionAssumption DEF Wakes
  <2>2. n = k /\ ~hub[k].stop
    BY <1>3, <2>1, ResyncDoes DEF TypeOK
  <2> QED  BY <2>2 DEF Attachments
<1>4. CASE \/ BoxExits \/ BoxRemoved \/ EventArrives \/ Subscribed \/ StreamDrops \/ ResyncFails
           \/ Reconnect \/ wakeContainer \/ PrepareFails \/ Prepare \/ MarkRunning
           \/ ArmFails \/ WakeGivesUp \/ adoptOneSession \/ KernelRestarts
  BY <1>4 DEF BoxExits, BoxRemoved, EventArrives, Subscribed, StreamDrops, ResyncFails,
     Reconnect, wakeContainer, PrepareFails, Prepare, MarkRunning, ArmFails,
     WakeGivesUp, adoptOneSession, KernelRestarts
<1>5. ASSUME NEW k \in Wakes, finish(k) \/ AttachEnds(k) \/ KilledAttachEnds(k)
      PROVE  FALSE
  BY <1>5 DEF finish, AttachEnds, KilledAttachEnds
<1>6. ASSUME NEW c \in Calls,
             \/ StopAsked(c) \/ CeilingKill(c) \/ KernelStops(c) \/ KernelRemoves(c)
             \/ StopsDirectly(c) \/ KernelFails(c) \/ StopReturns(c)
      PROVE  FALSE
  BY <1>6 DEF StopAsked, CeilingKill, KernelStops, KernelRemoves, StopsDirectly,
     KernelFails, StopReturns, killContainer
<1> QED
  BY <1>1, <1>2, <1>3, <1>4, <1>5, <1>6 DEF Next

\* An end is acted on for the runtime it happened to, and told only if nobody
\* asked for it (container-runner.ts:517, session-events.ts:187).
THEOREM EndsStayRight == Spec => EndsAreToldRight
<1>1. SupervisionInv /\ [Next]_vars =>
        [\A n \in Wakes :
           stage[n] = "tracked" /\ stage'[n] = "finishing" =>
             \/ Gone(n) \/ Orphaned(n)
             \/ \E c \in Calls : call[c].rt = n /\ call[c].at = "done"]_vars
  BY StepFinishesItsOwn
<1>2. SupervisionInv /\ [Next]_vars =>
        [\A n \in Wakes :
           told[n] = "no" /\ told'[n] # "no" => ~handle[n].stopping]_vars
  BY StepTellsUnasked
<1> QED
  BY <1>1, <1>2, SupervisionHolds, PTL
     DEF Spec, EndsAreToldRight, FinishedForItsOwnEnd, IntendedStopsStaySilent

-----------------------------------------------------------------------------
(* The kernel's supervisor.                                                *)

\* A kernel past its lock holds it, and the socket path leads to such a one.
LockInv ==
  /\ \A p \in Proc : proc[p] \in {"locked", "serving"} <=> lock = p
  /\ \A p \in Proc : socket = p => proc[p] = "serving"

\* Another attempt is pending only while the count allows one, without a
\* child, and not during a shutdown.
PendingInv ==
  /\ (timer \/ child \in Proc \/ main = "booting") => failures < MaxFailures
  /\ (timer \/ main = "booting") => child \notin Proc
  /\ (shut # "no" \/ main = "booting") => ~timer

KernelInv == KernelTypeOK /\ LockInv /\ PendingInv

\* The supervisor and the kernels start with nothing held.
LEMMA Initially == KernelInit => KernelInv
<1>. SUFFICES ASSUME KernelInit PROVE KernelInv
  OBVIOUS
<1>1. timer \in BOOLEAN
  BY Zenon DEF KernelInit
<1>2. KernelTypeOK
  BY <1>1, SupervisorAssumption DEF KernelInit, KernelTypeOK
<1>3. LockInv /\ PendingInv
  BY SupervisorAssumption DEF KernelInit, LockInv, PendingInv
<1>. QED BY <1>2, <1>3 DEF KernelInv

\* spawnKernel, from a host that may start one, keeps the invariant's parts.
LEMMA SpawnKeeps ==
  ASSUME KernelInv, spawnKernel, UNCHANGED install,
         main' \in {"booting", "started"}, UNCHANGED shut,
         failures < MaxFailures, main' # "booting", child \notin Proc
  PROVE  KernelInv'
<1>. USE SupervisorAssumption DEF KernelInv
<1>1. CASE Spawns
  <2>0. timer' \in BOOLEAN
    BY <1>1, Zenon DEF Spawns
  <2>1. KernelTypeOK'
    BY <1>1, <2>0 DEF Spawns, KernelTypeOK, KernelFault
  <2>2. LockInv'
    BY <1>1 DEF Spawns, KernelTypeOK, LockInv, KernelFault
  <2>3. PendingInv'
    BY <1>1 DEF Spawns, KernelTypeOK, PendingInv, KernelFault
  <2>. QED BY <2>1, <2>2, <2>3
<1>2. CASE BuildArgsFails
  <2>0. failures + 1 \in 0..MaxFailures
    BY DEF KernelTypeOK
  <2>1. timer' \in BOOLEAN
    BY <1>2, Zenon DEF BuildArgsFails, scheduleRestart
  <2>2. KernelTypeOK'
    BY <1>2, <2>0, <2>1 DEF BuildArgsFails, KernelTypeOK, KernelFault, kernel, scheduleRestart
  <2>3. LockInv'
    BY <1>2 DEF BuildArgsFails, LockInv, kernel
  <2>4. timer' => shut = "no" /\ failures' < MaxFailures
    BY <1>2 DEF BuildArgsFails, scheduleRestart
  <2>5. PendingInv'
    BY <1>2, <2>4 DEF BuildArgsFails, PendingInv
  <2>. QED BY <2>2, <2>3, <2>5
<1>. QED BY <1>1, <1>2 DEF spawnKernel

\* The end of a kernel process, by whatever cause, keeps the lock's facts.
LEMMA KilledKeeps ==
  ASSUME KernelInv, NEW p \in Proc, Killed(p), kernelFaults' \in 0..MaxKernelFaults
  PROVE  KernelInv'
<1>. USE SupervisorAssumption DEF KernelInv, Killed, KernelEnds, Release, host
<1>1. KernelTypeOK'
  BY DEF KernelTypeOK
<1>2. LockInv'
  BY DEF KernelTypeOK, LockInv
<1>3. PendingInv'
  BY DEF PendingInv
<1>. QED BY <1>1, <1>2, <1>3

\* A host that is gone keeps nothing in memory; the processes live on.
LEMMA GoneKeeps ==
  ASSUME KernelInv, HostGone, kernelFaults' \in 0..MaxKernelFaults
  PROVE  KernelInv'
<1>. USE SupervisorAssumption DEF KernelInv, HostGone
<1>0. timer' \in BOOLEAN
  BY Zenon
<1>1. KernelTypeOK'
  BY <1>0 DEF KernelTypeOK
<1>2. LockInv'
  BY DEF KernelTypeOK, LockInv
<1>3. PendingInv'
  BY DEF PendingInv
<1>. QED BY <1>1, <1>2, <1>3

\* The supervisor's and the host's own steps keep the invariant.
LEMMA HostKeeps ==
  ASSUME KernelInv,
         HostBoots \/ onHostStart \/ RestartTimerFires \/ OnExit
           \/ onHostShutdown \/ HostExits \/ HostDies
  PROVE  KernelInv'
<1>. USE SupervisorAssumption DEF KernelInv
<1>1. CASE HostBoots
  <2>1. timer' \in BOOLEAN
    BY <1>1, Zenon DEF HostBoots
  <2>2. KernelTypeOK'
    BY <1>1, <2>1 DEF HostBoots, kernel, KernelTypeOK
  <2>3. LockInv' /\ PendingInv'
    BY <1>1 DEF HostBoots, kernel, LockInv, PendingInv
  <2>. QED BY <2>2, <2>3
<1>2. CASE onHostStart
  <2>1. CASE install = "missing"
    BY <1>2, <2>1 DEF onHostStart, kernel, KernelTypeOK, LockInv, PendingInv
  <2>2. CASE install # "missing"
    <3>1. spawnKernel /\ UNCHANGED install /\ main' = "started" /\ UNCHANGED shut
          /\ failures < MaxFailures /\ child \notin Proc
      BY <1>2, <2>2 DEF onHostStart, PendingInv
    <3>. QED BY <3>1, SpawnKeeps
  <2>. QED BY <2>1, <2>2
<1>3. CASE RestartTimerFires
  <2>1. spawnKernel /\ UNCHANGED <<install, main, shut>> /\ main # "down" /\ timer
    BY <1>3 DEF RestartTimerFires
  <2>. QED BY <2>1, SpawnKeeps DEF PendingInv, KernelTypeOK
<1>4. CASE OnExit
  <2>1. child \in Proc /\ proc[child] = "exited" /\ failures < MaxFailures
    BY <1>4 DEF OnExit, PendingInv
  <2>2. failures' \in 0..MaxFailures
    BY <1>4, <2>1 DEF OnExit, KernelTypeOK, scheduleRestart
  <2>3. timer' \in BOOLEAN
    <3>1. CASE UNCHANGED timer
      BY <3>1, Zenon DEF KernelTypeOK
    <3>2. CASE \E f \in {1, failures + 1} : scheduleRestart(f)
      BY <3>2, Zenon DEF scheduleRestart
    <3>. QED BY <1>4, <3>1, <3>2 DEF OnExit
  <2>4. KernelTypeOK'
    BY <1>4, <2>2, <2>3 DEF OnExit, KernelTypeOK
  <2>5. LockInv'
    BY <1>4, <2>1 DEF OnExit, KernelTypeOK, LockInv
  <2>6. child' = None /\ main' = main
    BY <1>4 DEF OnExit
  <2>7. timer' => shut' = "no" /\ failures' < MaxFailures
    <3>1. CASE shut # "no"
      BY <1>4, <2>1, <3>1 DEF OnExit, PendingInv
    <3>2. CASE shut = "no"
      BY <1>4, <2>1, <3>2 DEF OnExit, PendingInv, scheduleRestart
    <3>. QED BY <3>1, <3>2
  <2>8. main # "booting"
    BY <2>1 DEF PendingInv
  <2>9. PendingInv'
    BY <2>6, <2>7, <2>8 DEF PendingInv
  <2>. QED BY <2>4, <2>5, <2>9
<1>5. CASE onHostShutdown
  <2>1. timer' \in BOOLEAN
    BY <1>5, Zenon DEF onHostShutdown
  <2>2. KernelTypeOK'
    BY <1>5, <2>1 DEF onHostShutdown, KernelTypeOK, Live
  <2>3. LockInv' /\ PendingInv'
    BY <1>5 DEF onHostShutdown, LockInv, PendingInv
  <2>. QED BY <2>2, <2>3
<1>6. CASE HostExits
  <2>1. kernelFaults' \in 0..MaxKernelFaults
    BY <1>6 DEF HostExits, KernelTypeOK
  <2>. QED BY <1>6, <2>1, GoneKeeps DEF HostExits
<1>7. CASE HostDies
  <2>1. kernelFaults' \in 0..MaxKernelFaults
    BY <1>7 DEF HostDies, KernelFault, KernelTypeOK
  <2>. QED BY <1>7, <2>1, GoneKeeps DEF HostDies
<1>. QED BY <1>1, <1>2, <1>3, <1>4, <1>5, <1>6, <1>7

\* The steps of the kernel processes keep the invariant.
LEMMA KernelKeeps ==
  ASSUME KernelInv, NEW p \in Proc,
         KernelStep(p) \/ Crashes(p) \/ SigKill(p) \/ ServedByHand(p)
  PROVE  KernelInv'
<1>. USE SupervisorAssumption DEF KernelInv
<1>1. CASE acquireServeLock(p) \/ Listen(p)
  <2>1. KernelTypeOK'
    BY <1>1 DEF acquireServeLock, Listen, host, KernelTypeOK
  <2>2. LockInv'
    BY <1>1 DEF acquireServeLock, Listen, host, KernelTypeOK, LockInv
  <2>3. PendingInv'
    BY <1>1 DEF acquireServeLock, Listen, host, PendingInv
  <2>. QED BY <2>1, <2>2, <2>3
<1>2. CASE LockRefused(p) \/ ConfigError(p) \/ Crashes(p) \/ SigKill(p)
  <2>1. Killed(p) /\ kernelFaults' \in 0..MaxKernelFaults
    BY <1>2 DEF LockRefused, ConfigError, Crashes, SigKill, KernelFault, KernelTypeOK
  <2>. QED BY <2>1, KilledKeeps
<1>3. CASE StopsOnTerm(p)
  <2>1. KernelTypeOK'
    BY <1>3 DEF StopsOnTerm, KernelEnds, Release, host, KernelTypeOK
  <2>2. LockInv'
    BY <1>3 DEF StopsOnTerm, KernelEnds, Release, host, KernelTypeOK, LockInv, Live
  <2>3. PendingInv'
    BY <1>3 DEF StopsOnTerm, host, PendingInv
  <2>. QED BY <2>1, <2>2, <2>3
<1>4. CASE ServedByHand(p)
  BY <1>4 DEF ServedByHand, KernelFault, host, KernelTypeOK, LockInv, PendingInv
<1>. QED BY <1>1, <1>2, <1>3, <1>4 DEF KernelStep

\* The invariant of the supervisor is inductive.
THEOREM SupervisorInvariant == KernelSpec => []KernelInv
<1>1. KernelInv /\ [KernelNext]_kernelVars => KernelInv'
  <2>. SUFFICES ASSUME KernelInv, [KernelNext]_kernelVars PROVE KernelInv'
    OBVIOUS
  <2>1. CASE UNCHANGED kernelVars
    BY <2>1 DEF kernelVars, host, kernel, KernelInv, KernelTypeOK, LockInv, PendingInv
  <2>2. CASE KernelNext
    BY <2>2, HostKeeps, KernelKeeps DEF KernelNext
  <2>. QED BY <2>1, <2>2
<1>. QED BY Initially, <1>1, PTL DEF KernelSpec

\* The supervisor's memory, the processes and the files keep their types.
THEOREM KernelTypes == KernelSpec => []KernelTypeOK
BY SupervisorInvariant, PTL DEF KernelInv

\* Through crashes, handovers and kernels started by hand, the control socket
\* leads to the kernel that holds the lock, or to none.
THEOREM SocketNeverSwapped == KernelSpec => []SocketBelongsToLockHolder
<1>1. KernelInv => SocketBelongsToLockHolder
  BY DEF KernelInv, LockInv, SocketBelongsToLockHolder
<1>. QED BY <1>1, SupervisorInvariant, PTL

\* After onHostShutdown no restart starts a kernel.
LEMMA ShutdownEndsRestarts == KernelSpec => NoRestartAfterShutdown
<1>1. KernelInv /\ [KernelNext]_kernelVars =>
        [(shut # "no" /\ main = "started" /\ main' = "started" /\ shut' # "no")
           => child' \in {child, None}]_kernelVars
  <2>. SUFFICES ASSUME KernelInv, KernelNext, shut # "no", main = "started", main' = "started"
                PROVE  child' \in {child, None}
    OBVIOUS
  <2>1. CASE \E p \in Proc : KernelStep(p) \/ Crashes(p) \/ SigKill(p) \/ ServedByHand(p)
    BY <2>1 DEF KernelStep, Crashes, SigKill, ServedByHand, acquireServeLock,
       LockRefused, ConfigError, Listen, StopsOnTerm, Killed, host
  <2>2. ~RestartTimerFires
    BY DEF RestartTimerFires, KernelInv, PendingInv
  <2>3. CASE HostBoots \/ onHostStart \/ OnExit \/ onHostShutdown
             \/ HostExits \/ HostDies
    BY <2>3 DEF HostBoots, onHostStart, OnExit, onHostShutdown, HostExits,
       HostDies, HostGone
  <2>. QED BY <2>1, <2>2, <2>3 DEF KernelNext
<1>. QED BY <1>1, SupervisorInvariant, PTL DEF KernelSpec, NoRestartAfterShutdown

\* The supervisor never unlinks the socket on which its own child listens.
LEMMA OwnSocketIsSafe == KernelSpec => OwnSocketStays
<1>1. KernelInv /\ [KernelNext]_kernelVars =>
        [(Up /\ socket \in Children /\ socket' # socket)
           => proc'[socket] # "serving"]_kernelVars
  <2>. SUFFICES ASSUME KernelInv, KernelNext, Up, socket \in Children, socket' # socket
                PROVE  proc'[socket] # "serving"
    OBVIOUS
  <2>1. socket = child /\ child \in Proc /\ proc[socket] = "serving" /\ lock = socket
    BY DEF Children, KernelInv, LockInv
  <2>2. ~RestartTimerFires /\ ~onHostStart
    BY <2>1 DEF RestartTimerFires, onHostStart, Up, KernelInv, PendingInv
  <2>3. UNCHANGED socket
    \/ \E p \in Proc : KernelStep(p) \/ Crashes(p) \/ SigKill(p)
    BY <2>2 DEF KernelNext, HostBoots, OnExit, onHostShutdown, HostExits, HostDies,
       HostGone, kernel, ServedByHand
  <2>4. CASE \E p \in Proc : KernelStep(p) \/ Crashes(p) \/ SigKill(p)
    <3>1. PICK p \in Proc : KernelStep(p) \/ Crashes(p) \/ SigKill(p)
      BY <2>4
    <3>2. CASE acquireServeLock(p) \/ Listen(p)
      BY <2>1, <3>2 DEF acquireServeLock, Listen, KernelInv, LockInv
    <3>3. CASE Killed(p)
      BY <2>1, <3>3 DEF Killed, KernelEnds, KernelInv, KernelTypeOK
    <3>4. CASE StopsOnTerm(p)
      BY <2>1, <3>4 DEF StopsOnTerm, KernelEnds, KernelInv, KernelTypeOK, LockInv
    <3>. QED BY <3>1, <3>2, <3>3, <3>4 DEF KernelStep, Crashes, SigKill,
           LockRefused, ConfigError
  <2>. QED BY <2>3, <2>4
<1>. QED BY <1>1, SupervisorInvariant, PTL DEF KernelSpec, OwnSocketStays

\* The restart loop (kernel-supervisor/index.ts: scheduleRestart) neither
\* unlinks the socket of its own child nor starts a kernel after the shutdown.
THEOREM RestartsStaySafe == KernelSpec => RestartsAreSafe
BY ShutdownEndsRestarts, OwnSocketIsSafe, PTL DEF RestartsAreSafe
=============================================================================
