---------------------- MODULE ChannelRegistrationProofs ----------------------
(***************************************************************************)
(* For any number of messages, senders, agents, handlers and restarts: a   *)
(* stranger's message is in no session, a message kept for an approver is  *)
(* not lost without a decision, and a yes brings its message to the agent  *)
(* unless a duplicate earlier in the fan-out ends the replay.              *)
(***************************************************************************)
EXTENDS ChannelRegistration, SequenceTheorems, TLAPS

\* a's wiring takes m in, to wake the agent for it or as context.
Wants(m, a) == Engages(m, a) \/ a \in keeps

IsWired(a) == \E i \in 1 .. Len(wired) : wired[i] = a

\* The part of the fan-out that task s has not come to yet is the end of the
\* list of wirings as it was when the task read it.
Listed(s, a) == \E i \in 1 .. Len(tasks[s].todo) : tasks[s].todo[i] = a
ListInv(s) ==
  \E k \in 0 .. Len(wired) :
    /\ k + Len(tasks[s].todo) <= Len(wired)
    /\ \A i \in 1 .. Len(tasks[s].todo) : tasks[s].todo[i] = wired[k + i]

Works(s, m, a, ats) ==
  tasks[s].msg = m /\ tasks[s].agent = a /\ tasks[s].at \in ats

\* A task that follows a yes for message m and agent a.
Carries(s, m, a) ==
  Works(s, m, a, {"admit", "unpend", "unpendSender", "route", "fan"})

\* The task that routes m when it arrives.
First(s, m) == Works(s, m, None, {"route", "fan"})

Denying(m) == \E s \in Slots : tasks[s].msg = m /\ tasks[s].at \in {"deny", "drop"}
Dropping(m, a) == \E s \in Slots : Works(s, m, a, {"dropSender"})
Asked(m, a) == \E r \in requests : r.msg = m /\ r.agent = a
IsHeld(m, a) == \E h \in held : h.msg = m /\ h.agent = a

\* m is in a session already, or a yes will bring it there.
Stored(m) ==
  \/ \E a \in Agents : m \in inbox[a]
  \/ \E s \in Slots, a \in Agents : Carries(s, m, a)

\* The first fan-out of m will not come to agent a any more.
Past(m, a) ==
  \A s \in Slots : First(s, m) => tasks[s].at = "fan" /\ ~Listed(s, a)

\* A task knows its message; one that follows a yes finds its agent wired and
\* its sender admitted, and passes the agent or has stored the message there.
Follows(s) ==
  \/ tasks[s].at \in {"unpend", "unpendSender"}
  \/ tasks[s].at \in {"route", "fan"} /\ tasks[s].agent # None
TaskInv(s) ==
  LET t == tasks[s] IN
  /\ t.at # "idle" => t.msg \in sent
  /\ t.at = "wire" => t.agent \in groups
  /\ t.at \in {"admit", "unpend", "admitSender", "unpendSender",
               "dropSender"} => t.agent \in Agents
  /\ t.at \in {"admit", "admitSender"} \/ Follows(s) => IsWired(t.agent)
  /\ t.at \in {"admit", "admitSender"} \/ Follows(s) => Wants(t.msg, t.agent)
  /\ Follows(s) => <<From[t.msg], t.agent>> \in members
  /\ t.at = "fan" => ListInv(s)
  /\ t.at = "fan" /\ t.agent # None =>
       Listed(s, t.agent) \/ t.msg \in inbox[t.agent]

WiredInv ==
  \A i, j \in 1 .. Len(wired) : wired[i] = wired[j] => i = j

RowsInv ==
  /\ \A r \in requests :
       r.msg \in sent /\ (r.agent # None => IsWired(r.agent) /\ Wants(r.msg, r.agent))
  /\ \A h \in held : h.msg \in sent /\ IsWired(h.agent) /\ Wants(h.msg, h.agent)
  /\ row # None => row \in sent

\* The gate is asked about what engages the agent, which it will do again.
RefusedInv == \A p \in refused : Engages(p[1], p[2])

FirstOnce == \A m \in Messages : \A s, t \in Slots :
  First(s, m) /\ First(t, m) => s = t

\* The owner is asked once for each message: no row or refusal of it is left
\* to a later request.
ChannelInv(m) ==
  /\ row = m \/ Denying(m) => ~Asked(m, None)
  /\ row = m \/ Denying(m) \/ Asked(m, None) =>
       \A s \in Slots : First(s, m) => tasks[s].at = "fan"

\* The same for an unknown sender's message and an agent, until a yes.
SenderInv(m, a) ==
  Stored(m) \/
  /\ IsHeld(m, a) \/ Dropping(m, a) => ~Asked(m, a)
  /\ IsHeld(m, a) \/ Dropping(m, a) \/ Asked(m, a) => Past(m, a)

Safe(m) ==
  \/ Stored(m)
  \/ row = m /\ ~Denying(m)
  \/ \E a \in Agents : IsHeld(m, a) /\ ~Dropping(m, a)

Behind(m, a) ==
  \E i, j \in 1 .. Len(wired) :
    i < j /\ wired[j] = a /\ m \in inbox[wired[i]]
Reached(m, a) ==
  \/ m \in inbox[a]
  \/ \E s \in Slots : Carries(s, m, a)
  \/ Behind(m, a)

IInv ==
  /\ TypeOK /\ WiredInv /\ RowsInv /\ FirstOnce
  /\ RefusedInv /\ StrangersAreNotStored
  /\ \A s \in Slots : TaskInv(s)
  /\ \A m \in Messages : ChannelInv(m)
  /\ \A m \in Messages, a \in Agents : SenderInv(m, a)
  /\ \A m \in owed : Safe(m)
  /\ \A p \in approved : Reached(p[1], p[2])

-----------------------------------------------------------------------------
USE RegistrationAssumption

\* What only grows: wirings are appended, members and messages are added.
Grows ==
  /\ sent \subseteq sent' /\ members \subseteq members'
  /\ UNCHANGED <<engages, sticky>> /\ keeps \subseteq keeps'
  /\ \A a \in Agents : inbox[a] \subseteq inbox'[a]
  /\ Len(wired) <= Len(wired')
  /\ \A i \in 1 .. Len(wired) : wired'[i] = wired[i]

LEMMA Wired ==
  ASSUME TypeOK
  PROVE  /\ wired \in Seq(Agents) /\ Len(wired) \in Nat
         /\ \A a : a \in Range(wired) <=> IsWired(a)
         /\ \A i \in 1 .. Len(wired) : wired[i] \in groups
<1>1. wired \in Seq(groups) /\ groups \subseteq Agents
  BY DEF TypeOK
<1>2. DOMAIN wired = 1 .. Len(wired) /\ Len(wired) \in Nat
  BY <1>1
<1> QED  BY <1>1, <1>2, SeqMonotonic DEF Range, IsWired

\* One more wiring.
LEMMA WiresOneMore ==
  ASSUME TypeOK, WiredInv, NEW a \in Agents, a \in groups', groups \subseteq groups',
         ~IsWired(a), wired' = Append(wired, a)
  PROVE  /\ wired' \in Seq(groups') /\ WiredInv'
         /\ Len(wired) <= Len(wired')
         /\ \A i \in 1 .. Len(wired) : wired'[i] = wired[i]
         /\ IsWired(a)'
<1>1. wired \in Seq(groups')
  BY SeqMonotonic DEF TypeOK
<1>2. /\ wired' \in Seq(groups') /\ Len(wired') = Len(wired) + 1
      /\ \A i \in 1 .. Len(wired) : wired'[i] = wired[i]
      /\ wired'[Len(wired) + 1] = a /\ Len(wired) \in Nat
  BY <1>1, AppendProperties, LenProperties
<1> QED  BY <1>2 DEF WiredInv, IsWired

LEMMA InitTypes == Init => TypeOK
<1> SUFFICES ASSUME Init PROVE TypeOK
  OBVIOUS
<1>1. wired \in Seq(groups)
  <2>1. PICK n \in 0 .. Cardinality(groups) : wired \in [1 .. n -> groups]
    BY DEF Init, SeqOf
  <2> QED  BY <2>1, SeqDef
<1>2. Idle \in Task
  BY EmptySeq DEF Idle, Task
<1>3. tasks \in [Slots -> Task]
  BY <1>2 DEF Init
<1>4. groups \subseteq Agents /\ members \subseteq Senders \X Agents
  BY DEF Init
<1>5. /\ inbox \in [Agents -> SUBSET Messages] /\ faults \in 0 .. MaxFaults
      /\ context = {} /\ refused = {}
  BY DEF Init
<1>8. /\ policy \in {"request_approval", "strict"} /\ mentions \subseteq Messages
      /\ engages \in [Agents -> SUBSET Messages]
      /\ sticky \subseteq Agents /\ keeps \subseteq Agents
  <2>1. PICK c \in Setups :
          /\ policy = c.policy /\ mentions = c.mentions
          /\ engages = c.engages /\ sticky = c.sticky /\ keeps = c.keeps
    BY DEF Init
  <2>2. c \in Setup
    BY <2>1, RegistrationAssumption
  <2> QED  BY <2>1, <2>2 DEF Setup
<1>6. requests \subseteq [msg : Messages, agent : Agents \cup {None}]
  BY DEF Init
<1>7. held \subseteq Held /\ approved \subseteq Messages \X Agents
  BY DEF Init
<1> QED  BY <1>1, <1>3, <1>4, <1>5, <1>6, <1>7, <1>8 DEF Init, TypeOK

-----------------------------------------------------------------------------
(* How tasks change: one of them at a time.                                *)

At == {"idle", "route", "fan", "wire", "admit", "unpend", "deny",
       "drop", "admitSender", "unpendSender", "dropSender"}

Others(s) == \A t \in Slots \ {s} : tasks'[t] = tasks[t]

LEMMA TaskParts ==
  ASSUME TypeOK, NEW s \in Slots
  PROVE  /\ tasks[s] \in Task /\ tasks[s].at \in At
         /\ tasks[s].msg \in Messages \cup {None}
         /\ tasks[s].agent \in Agents \cup {None}
         /\ tasks[s].todo \in Seq(Agents) /\ Len(tasks[s].todo) \in Nat
BY LenProperties DEF TypeOK, Task, At

LEMMA StartingTask ==
  ASSUME TypeOK, NEW at \in At, NEW m \in Messages, NEW a \in Agents \cup {None},
         Starts(Does(at, m, a))
  PROVE  /\ tasks' \in [Slots -> Task]
         /\ \E s \in Slots :
              /\ tasks[s] = Idle /\ Others(s)
              /\ tasks'[s].at = at /\ tasks'[s].msg = m /\ tasks'[s].agent = a
<1>1. Does(at, m, a) \in Task
  BY EmptySeq DEF Does, Task, At
<1> QED  BY <1>1 DEF Starts, TypeOK, Others, Does

LEMMA GoingOn ==
  ASSUME TypeOK, NEW s \in Slots, NEW at \in At, Next_(s, at)
  PROVE  /\ tasks' \in [Slots -> Task] /\ Others(s)
         /\ tasks'[s].at = at /\ tasks'[s].msg = tasks[s].msg
         /\ tasks'[s].agent = tasks[s].agent /\ tasks'[s].todo = tasks[s].todo
<1>1. tasks[s] \in Task /\ tasks \in [Slots -> Task]
  BY DEF TypeOK
<1>2. [tasks[s] EXCEPT !.at = at] \in Task
  BY <1>1 DEF Task, At
<1> QED  BY <1>1, <1>2 DEF Next_, Others, Task

LEMMA EndingTask ==
  ASSUME TypeOK, NEW s \in Slots, Ends(s)
  PROVE  tasks' \in [Slots -> Task] /\ Others(s) /\ tasks'[s] = Idle
<1>1. Idle \in Task
  BY EmptySeq DEF Idle, Task
<1> QED  BY <1>1 DEF TypeOK, Ends, Others

\* The next agent of the fan-out.
LEMMA FanningOut ==
  ASSUME TypeOK, NEW s \in Slots, tasks[s].todo # <<>>
  PROVE  /\ Head(tasks[s].todo) \in Agents
         /\ Head(tasks[s].todo) = tasks[s].todo[1] /\ Len(tasks[s].todo) > 0
         /\ Len(Tail(tasks[s].todo)) = Len(tasks[s].todo) - 1
         /\ \A i \in 1 .. Len(Tail(tasks[s].todo)) :
              Tail(tasks[s].todo)[i] = tasks[s].todo[i + 1]
         /\ tasks' = [tasks EXCEPT ![s].todo = Tail(@)] =>
              /\ tasks' \in [Slots -> Task] /\ Others(s)
              /\ tasks'[s].at = tasks[s].at /\ tasks'[s].msg = tasks[s].msg
              /\ tasks'[s].agent = tasks[s].agent
              /\ tasks'[s].todo = Tail(tasks[s].todo)
<1>1. tasks[s] \in Task /\ tasks[s].todo \in Seq(Agents)
  BY TaskParts
<1>2. /\ Head(tasks[s].todo) \in Agents /\ Tail(tasks[s].todo) \in Seq(Agents)
      /\ Len(Tail(tasks[s].todo)) = Len(tasks[s].todo) - 1
      /\ \A i \in 1 .. Len(Tail(tasks[s].todo)) :
           Tail(tasks[s].todo)[i] = tasks[s].todo[i + 1]
  BY <1>1, HeadTailProperties
<1>3. Head(tasks[s].todo) = tasks[s].todo[1] /\ Len(tasks[s].todo) > 0
  BY <1>1, EmptySeq
<1>4. [tasks[s] EXCEPT !.todo = Tail(@)] \in Task
  BY <1>1, <1>2 DEF Task
<1>5. ASSUME tasks' = [tasks EXCEPT ![s].todo = Tail(@)]
      PROVE  /\ tasks' \in [Slots -> Task] /\ Others(s)
             /\ tasks'[s].at = tasks[s].at /\ tasks'[s].msg = tasks[s].msg
             /\ tasks'[s].agent = tasks[s].agent
             /\ tasks'[s].todo = Tail(tasks[s].todo)
  <2>1. tasks \in [Slots -> Task]
    BY DEF TypeOK
  <2>2. tasks'[s] = [tasks[s] EXCEPT !.todo = Tail(@)]
    BY <1>5, <2>1
  <2>3. tasks' \in [Slots -> Task] /\ Others(s)
    BY <1>4, <1>5, <2>1 DEF Others
  <2> QED  BY <1>1, <2>2, <2>3 DEF Task
<1> QED  BY <1>2, <1>3, <1>5

\* A task at work is about a message.
LEMMA AtWork ==
  ASSUME TypeOK, NEW s \in Slots, TaskInv(s), tasks[s].at # "idle"
  PROVE  tasks[s].msg \in Messages /\ tasks[s].msg \in sent
BY DEF TypeOK, TaskInv

\* The fan-out takes the list of wirings as it is.
LEMMA Routed ==
  ASSUME TypeOK, NEW s \in Slots,
         tasks' = [tasks EXCEPT ![s].at = "fan", ![s].todo = wired]
  PROVE  /\ tasks' \in [Slots -> Task] /\ Others(s)
         /\ tasks'[s].at = "fan" /\ tasks'[s].msg = tasks[s].msg
         /\ tasks'[s].agent = tasks[s].agent /\ tasks'[s].todo = wired
<1>1. tasks[s] \in Task /\ tasks \in [Slots -> Task] /\ wired \in Seq(Agents)
  BY Wired DEF TypeOK
<1>2. tasks' = [tasks EXCEPT ![s] = [tasks[s] EXCEPT !.at = "fan", !.todo = wired]]
  OBVIOUS
<1>3. [tasks[s] EXCEPT !.at = "fan", !.todo = wired] \in Task
  BY <1>1 DEF Task
<1> QED  BY <1>1, <1>2, <1>3 DEF Others, Task

-----------------------------------------------------------------------------
(* Types.                                                                  *)

LEMMA TypeStep ==
  ASSUME TypeOK, WiredInv, \A s \in Slots : TaskInv(s), Step, faults' <= MaxFaults
  PROVE  TypeOK'
<1> USE DEF chat, setup, sessions, rows, flights, ghosts
<1>1. ASSUME NEW m \in Messages, Arrives(m) PROVE TypeOK'
  <2>1. tasks' \in [Slots -> Task]
    BY <1>1, StartingTask DEF Arrives, At
  <2> QED  BY <1>1, <2>1 DEF Arrives, TypeOK
<1>2. ASSUME NEW a \in Agents, Wires(a) PROVE TypeOK'
  <2>1. wired' \in Seq(groups)
    <3>1. wired \in Seq(groups)
      BY DEF TypeOK
    <3>2. groups' = groups /\ a \in groups /\ wired' = Append(wired, a)
      BY <1>2 DEF Wires
    <3> QED  BY <3>1, <3>2, AppendProperties
  <2> QED  BY <1>2, <2>1 DEF Wires, TypeOK
<1>3. ASSUME NEW a \in Agents, ClicksConnect(a) PROVE TypeOK'
  <2>1. tasks' \in [Slots -> Task]
    BY <1>3, StartingTask DEF ClicksConnect, TypeOK, At
  <2> QED  BY <1>3, <2>1 DEF ClicksConnect, TypeOK
<1>4. ASSUME NEW s \in Slots, routeInbound(s) PROVE TypeOK'
  <2>1. tasks[s].msg \in Messages
    BY <1>4, AtWork DEF routeInbound
  <2>2. CASE wired = <<>>
    <3>1. tasks' \in [Slots -> Task]
      BY <1>4, <2>2, EndingTask DEF routeInbound
    <3>2. requests' \subseteq [msg : Messages, agent : Agents \cup {None}]
      BY <1>4, <2>1, <2>2 DEF routeInbound, TypeOK
    <3> QED  BY <1>4, <3>1, <3>2 DEF routeInbound, TypeOK
  <2>3. CASE wired # <<>>
    <3>1. tasks' \in [Slots -> Task]
      BY <1>4, <2>3, Routed DEF routeInbound
    <3> QED  BY <1>4, <2>3, <3>1 DEF routeInbound, TypeOK
  <2> QED  BY <2>2, <2>3
<1>5. ASSUME NEW s \in Slots, FansOut(s) PROVE TypeOK'
  <2> DEFINE a == Head(tasks[s].todo)
             m == tasks[s].msg
  <2>1. m \in Messages /\ a \in Agents
    BY <1>5, AtWork, FanningOut DEF FansOut
  <2>2. tasks' \in [Slots -> Task]
    BY <1>5, FanningOut, EndingTask DEF FansOut, Refuses, Stores, Passes
  <2>3. requests' \subseteq [msg : Messages, agent : Agents \cup {None}]
    BY <1>5, <2>1 DEF FansOut, Refuses, Stores, Passes, TypeOK
  <2>4. inbox' \in [Agents -> SUBSET Messages]
    BY <1>5, <2>1 DEF FansOut, Refuses, Stores, Passes, TypeOK
  <2>5. context' \subseteq Messages \X Agents /\ refused' \subseteq Messages \X Agents
    BY <1>5, <2>1 DEF FansOut, Refuses, Stores, TypeOK
  <2> QED  BY <1>5, <2>2, <2>3, <2>4, <2>5 DEF FansOut, TypeOK
<1>6. ASSUME NEW s \in Slots, FanOutEnds(s) PROVE TypeOK'
  BY <1>6, EndingTask DEF FanOutEnds, TypeOK
<1>7. ASSUME NEW s \in Slots, WiresApproved(s) PROVE TypeOK'
  <2>1. tasks[s].msg \in Messages /\ tasks[s].agent \in groups
    BY <1>7, AtWork DEF WiresApproved, TaskInv
  <2>2. tasks' \in [Slots -> Task]
    BY <1>7, EndingTask, GoingOn DEF WiresApproved, At
  <2>3. wired' \in Seq(groups)
    <3>1. wired \in Seq(groups)
      BY DEF TypeOK
    <3>2. Append(wired, tasks[s].agent) \in Seq(groups)
      BY <2>1, <3>1, AppendProperties
    <3>3. groups' = groups /\ (wired' = wired \/ wired' = Append(wired, tasks[s].agent))
      BY <1>7 DEF WiresApproved
    <3> QED  BY <3>1, <3>2, <3>3
  <2>4. approved' \subseteq Messages \X Agents
    BY <1>7, <2>1 DEF WiresApproved, TypeOK
  <2>5. keeps' \subseteq Agents
    BY <1>7, <2>1 DEF WiresApproved, TypeOK
  <2> QED  BY <1>7, <2>2, <2>3, <2>4, <2>5 DEF WiresApproved, TypeOK
<1>8. ASSUME NEW s \in Slots, AdmitsSender(s) PROVE TypeOK'
  <2>1. tasks[s].msg \in Messages /\ tasks[s].agent \in Agents
    BY <1>8, AtWork DEF AdmitsSender, TaskInv
  <2>2. members' \subseteq Senders \X Agents
    BY <1>8, <2>1 DEF AdmitsSender, TypeOK
  <2>3. tasks' \in [Slots -> Task]
    BY <1>8, GoingOn DEF AdmitsSender, At
  <2> QED  BY <1>8, <2>2, <2>3 DEF AdmitsSender, TypeOK
<1>9. ASSUME NEW s \in Slots, ReplaysChannel(s) PROVE TypeOK'
  <2>1. tasks' \in [Slots -> Task]
    BY <1>9, GoingOn DEF ReplaysChannel, At
  <2> QED  BY <1>9, <2>1 DEF ReplaysChannel, DeletesRow, TypeOK
<1>10. ASSUME NEW s \in Slots, Denies(s) PROVE TypeOK'
  <2>1. tasks' \in [Slots -> Task]
    BY <1>10, GoingOn DEF Denies, At
  <2> QED  BY <1>10, <2>1 DEF Denies, TypeOK
<1>11. ASSUME NEW s \in Slots, Drops(s) PROVE TypeOK'
  <2>1. tasks' \in [Slots -> Task]
    BY <1>11, EndingTask DEF Drops
  <2> QED  BY <1>11, <2>1 DEF Drops, DeletesRow, TypeOK
<1>12. ASSUME NEW s \in Slots, ApprovesSender(s) PROVE TypeOK'
  <2>1. tasks[s].msg \in Messages /\ tasks[s].agent \in Agents
    BY <1>12, AtWork DEF ApprovesSender, TaskInv
  <2>2. members' \subseteq Senders \X Agents
    BY <1>12, <2>1 DEF ApprovesSender, TypeOK
  <2>3. approved' \subseteq Messages \X Agents
    BY <1>12, <2>1 DEF ApprovesSender, TypeOK
  <2>4. tasks' \in [Slots -> Task]
    BY <1>12, GoingOn DEF ApprovesSender, At
  <2> QED  BY <1>12, <2>2, <2>3, <2>4 DEF ApprovesSender, TypeOK
<1>13. ASSUME NEW s \in Slots, ReplaysSender(s) PROVE TypeOK'
  <2>1. tasks' \in [Slots -> Task]
    BY <1>13, GoingOn DEF ReplaysSender, At
  <2> QED  BY <1>13, <2>1 DEF ReplaysSender, TypeOK
<1>14. ASSUME NEW s \in Slots, DropsSender(s) PROVE TypeOK'
  <2>1. tasks' \in [Slots -> Task]
    BY <1>14, EndingTask DEF DropsSender
  <2> QED  BY <1>14, <2>1 DEF DropsSender, TypeOK
<1>15. ASSUME NEW r \in requests, requestChannelApproval(r) PROVE TypeOK'
  <2>1. r.msg \in Messages
    BY DEF TypeOK
  <2> QED  BY <1>15, <2>1 DEF requestChannelApproval, Shown, TypeOK
<1>16. ASSUME NEW r \in requests, requestSenderApproval(r) PROVE TypeOK'
  <2>1. r.msg \in Messages /\ r.agent \in Agents
    BY <1>16 DEF requestSenderApproval, TypeOK
  <2>2. held' \subseteq Held
    BY <1>16, <2>1 DEF requestSenderApproval, TypeOK, Held
  <2> QED  BY <1>16, <2>1, <2>2 DEF requestSenderApproval, Shown, TypeOK
<1>17. ASSUME NEW r \in requests, NobodyToAsk(r) PROVE TypeOK'
  BY <1>17 DEF NobodyToAsk, TypeOK
<1>18. CASE ClicksReject
  <2>1. tasks' \in [Slots -> Task]
    BY <1>18, StartingTask DEF ClicksReject, TypeOK, At
  <2> QED  BY <1>18, <2>1 DEF ClicksReject, TypeOK
<1>19. CASE ClicksNewAgent
  BY <1>19 DEF ClicksNewAgent, Shown, TypeOK
<1>20. CASE Names
  <2>1. tasks' \in [Slots -> Task]
    BY <1>20, StartingTask DEF Names, TypeOK, At
  <2>2. groups \subseteq groups' /\ groups' \subseteq Agents
    BY <1>20 DEF Names, TypeOK
  <2>3. wired' \in Seq(groups')
    BY <1>20, <2>2, SeqMonotonic DEF Names, TypeOK
  <2> QED  BY <1>20, <2>1, <2>2, <2>3 DEF Names, TypeOK
<1>21. ASSUME NEW h \in held, NEW yes \in BOOLEAN, ClicksSender(h, yes)
       PROVE  TypeOK'
  <2>1. h.msg \in Messages /\ h.agent \in Agents
    BY DEF TypeOK, Held
  <2>2. tasks' \in [Slots -> Task]
    <3>1. CASE yes
      BY <1>21, <2>1, <3>1, StartingTask DEF ClicksSender, At
    <3>2. CASE ~yes
      BY <1>21, <2>1, <3>2, StartingTask DEF ClicksSender, At
    <3> QED  BY <3>1, <3>2
  <2>3. owed' \subseteq Messages
    BY <1>21 DEF ClicksSender, TypeOK
  <2> QED  BY <1>21, <2>2, <2>3 DEF ClicksSender, TypeOK
<1>23. ASSUME NEW s \in Slots, GivesUpWiring(s) PROVE TypeOK'
  <2>1. tasks' \in [Slots -> Task]
    BY <1>23, EndingTask DEF GivesUpWiring
  <2> QED  BY <1>23, <2>1 DEF GivesUpWiring, TypeOK
<1>22. CASE Restarts
  <2>1. Idle \in Task
    BY EmptySeq DEF Idle, Task
  <2>2. tasks' \in [Slots -> Task]
    BY <1>22, <2>1 DEF Restarts
  <2>3. owed' \subseteq Messages /\ approved' \subseteq Messages \X Agents
    BY <1>22 DEF Restarts, TypeOK
  <2>4. /\ requests' = {} /\ awaiting' = FALSE /\ faults' = faults + 1
        /\ UNCHANGED <<chat, sessions, rows, sent, refused>>
    BY <1>22 DEF Restarts
  <2>5. requests' \subseteq [msg : Messages, agent : Agents \cup {None}]
    BY <2>4
  <2>6. /\ groups' \subseteq Agents /\ wired' \in Seq(groups')
        /\ engages' \in [Agents -> SUBSET Messages]
        /\ sticky' \subseteq Agents /\ keeps' \subseteq Agents
    BY <2>4 DEF TypeOK
  <2>7. members' \subseteq Senders \X Agents /\ held' \subseteq Held
    BY <2>4 DEF TypeOK
  <2>8. faults' \in 0 .. MaxFaults
    BY <2>4 DEF TypeOK
  <2>9. /\ inbox' \in [Agents -> SUBSET Messages] /\ sent' \subseteq Messages
        /\ context' \subseteq Messages \X Agents /\ refused' \subseteq Messages \X Agents
    BY <2>4 DEF TypeOK
  <2> QED  BY <2>2, <2>3, <2>4, <2>5, <2>6, <2>7, <2>8, <2>9 DEF TypeOK
<1> QED
  BY <1>1, <1>2, <1>3, <1>4, <1>5, <1>6, <1>7, <1>8, <1>9, <1>10, <1>11, <1>12,
     <1>13, <1>14, <1>15, <1>16, <1>17, <1>18, <1>19, <1>20, <1>21, <1>22, <1>23
     DEF Step, Handles, Asks

-----------------------------------------------------------------------------
(* Growth, and what it keeps.                                              *)

LEMMA StepGrows ==
  ASSUME TypeOK, WiredInv, \A s \in Slots : TaskInv(s), Step
  PROVE  Grows /\ WiredInv' /\ groups \subseteq groups'
<1> USE DEF chat, setup, sessions, rows, flights, ghosts
<1>0. Len(wired) \in Nat
  BY Wired
<1>1. ASSUME NEW a \in Agents, Wires(a) PROVE Grows /\ WiredInv' /\ groups \subseteq groups'
  <2>1. ~IsWired(a) /\ a \in groups' /\ groups' = groups
    BY <1>1, Wired DEF Wires
  <2> QED  BY <1>1, <2>1, WiresOneMore DEF Wires, Grows
<1>2. ASSUME NEW s \in Slots, WiresApproved(s)
      PROVE  Grows /\ WiredInv' /\ groups \subseteq groups'
  <2>1. CASE tasks[s].agent \in Range(wired)
    BY <1>0, <1>2, <2>1 DEF WiresApproved, Grows, WiredInv
  <2>2. CASE tasks[s].agent \notin Range(wired)
    <3>1. /\ ~IsWired(tasks[s].agent) /\ tasks[s].agent \in groups'
          /\ groups' = groups /\ tasks[s].agent \in Agents
      BY <1>2, <2>2, Wired DEF WiresApproved, TaskInv, TypeOK
    <3>2. wired' = Append(wired, tasks[s].agent)
      BY <1>2, <2>2 DEF WiresApproved
    <3>3. /\ WiredInv' /\ Len(wired) <= Len(wired')
          /\ \A i \in 1 .. Len(wired) : wired'[i] = wired[i]
      BY <3>1, <3>2, WiresOneMore
    <3> QED  BY <1>2, <3>1, <3>3 DEF WiresApproved, Grows
  <2> QED  BY <2>1, <2>2
<1>3. ASSUME NEW s \in Slots, FansOut(s)
      PROVE  Grows /\ WiredInv' /\ groups \subseteq groups'
  <2>1. \A a \in Agents : inbox[a] \subseteq inbox'[a]
    BY <1>3 DEF FansOut, Refuses, Stores, Passes, TypeOK
  <2> QED  BY <1>0, <1>3, <2>1 DEF FansOut, Grows, WiredInv
<1>4. ASSUME UNCHANGED <<wired, keeps, engages, sticky, inbox>>,
             groups \subseteq groups', members \subseteq members', sent \subseteq sent'
      PROVE  Grows /\ WiredInv' /\ groups \subseteq groups'
  BY <1>0, <1>4 DEF Grows, WiredInv
<1>5. CASE \E m \in Messages : Arrives(m)
  BY <1>4, <1>5 DEF Arrives
<1>6. CASE \E a \in Agents : ClicksConnect(a)
  BY <1>4, <1>6 DEF ClicksConnect
<1>7. ASSUME NEW s \in Slots, routeInbound(s) \/ FanOutEnds(s)
      PROVE  Grows /\ WiredInv' /\ groups \subseteq groups'
  BY <1>4, <1>7 DEF routeInbound, FanOutEnds
<1>8. ASSUME NEW s \in Slots, AdmitsSender(s) \/ ApprovesSender(s)
      PROVE  Grows /\ WiredInv' /\ groups \subseteq groups'
  BY <1>4, <1>8 DEF AdmitsSender, ApprovesSender
<1>9. ASSUME NEW s \in Slots,
             GivesUpWiring(s) \/ ReplaysChannel(s) \/ Denies(s) \/ Drops(s)
      PROVE  Grows /\ WiredInv' /\ groups \subseteq groups'
  BY <1>4, <1>9 DEF GivesUpWiring, ReplaysChannel, Denies, Drops
<1>10. ASSUME NEW s \in Slots, ReplaysSender(s) \/ DropsSender(s)
       PROVE  Grows /\ WiredInv' /\ groups \subseteq groups'
  BY <1>4, <1>10 DEF ReplaysSender, DropsSender
<1>11. ASSUME NEW r \in requests,
              requestChannelApproval(r) \/ requestSenderApproval(r) \/ NobodyToAsk(r)
       PROVE  Grows /\ WiredInv' /\ groups \subseteq groups'
  BY <1>4, <1>11 DEF requestChannelApproval, requestSenderApproval, NobodyToAsk
<1>12. CASE ClicksReject \/ ClicksNewAgent \/ Names \/ Restarts
  BY <1>4, <1>12 DEF ClicksReject, ClicksNewAgent, Names, Restarts
<1>13. CASE \E h \in held, yes \in BOOLEAN : ClicksSender(h, yes)
  BY <1>4, <1>13 DEF ClicksSender
<1> QED
  BY <1>1, <1>2, <1>3, <1>5, <1>6, <1>7, <1>8, <1>9, <1>10, <1>11, <1>12, <1>13
  DEF Step, Handles, Asks

LEMMA WiredStays ==
  ASSUME TypeOK, TypeOK', Grows, NEW a, IsWired(a)
  PROVE  IsWired(a)'
<1>1. Len(wired) \in Nat /\ Len(wired') \in Nat
  BY LenProperties DEF TypeOK
<1> QED  BY <1>1 DEF IsWired, Grows

LEMMA WantsStays ==
  ASSUME Grows, NEW m, NEW a \in Agents
  PROVE  /\ Engages(m, a) => Engages(m, a)'
         /\ Wants(m, a) => Wants(m, a)'
BY DEF Wants, Engages, Grows

LEMMA BehindStays ==
  ASSUME TypeOK, TypeOK', Grows, NEW m, NEW a, Behind(m, a)
  PROVE  Behind(m, a)'
<1>1. Len(wired) \in Nat /\ Len(wired') \in Nat
  BY LenProperties DEF TypeOK
<1>2. \A i \in 1 .. Len(wired) : wired[i] \in Agents
  BY Wired DEF TypeOK
<1> QED  BY <1>1, <1>2 DEF Behind, Grows

\* A task no handler touches keeps its part of the invariant.
LEMMA TaskStays ==
  ASSUME TypeOK, TypeOK', Grows, groups \subseteq groups', NEW s \in Slots,
         TaskInv(s), tasks'[s] = tasks[s]
  PROVE  TaskInv(s)'
<1>1. Len(wired) \in Nat /\ Len(wired') \in Nat
  BY LenProperties DEF TypeOK
<1>2. Len(tasks[s].todo) \in Nat
  BY TaskParts
<1>3. ASSUME ListInv(s) PROVE ListInv(s)'
  <2>1. PICK k \in 0 .. Len(wired) :
          /\ k + Len(tasks[s].todo) <= Len(wired)
          /\ \A i \in 1 .. Len(tasks[s].todo) : tasks[s].todo[i] = wired[k + i]
    BY <1>3 DEF ListInv
  <2>2. k \in 0 .. Len(wired') /\ k + Len(tasks'[s].todo) <= Len(wired')
    BY <1>1, <1>2, <2>1 DEF Grows
  <2>3. ASSUME NEW i \in 1 .. Len(tasks[s].todo)
        PROVE  tasks'[s].todo[i] = wired'[k + i]
    <3>1. k + i \in 1 .. Len(wired)
      BY <1>1, <1>2, <2>1
    <3> QED  BY <2>1, <3>1 DEF Grows
  <2> QED  BY <2>2, <2>3 DEF ListInv
<1>4. \A a \in Agents \cup {None} : IsWired(a) => IsWired(a)'
  BY WiredStays
<1>5. Listed(s, tasks[s].agent) => Listed(s, tasks[s].agent)'
  BY DEF Listed
<1>6. tasks[s].agent \in Agents \cup {None} /\ tasks[s].at \in At
  BY TaskParts
<1>7. Follows(s)' <=> Follows(s)
  BY DEF Follows
<1>8. IsWired(tasks[s].agent) => IsWired(tasks[s].agent)'
  BY <1>4, <1>6
<1>9. tasks[s].agent # None /\ tasks[s].msg \in inbox[tasks[s].agent] =>
        tasks'[s].msg \in inbox'[tasks'[s].agent]
  BY <1>6 DEF Grows
<1>10. tasks[s].agent # None /\ Wants(tasks[s].msg, tasks[s].agent) =>
         Wants(tasks[s].msg, tasks[s].agent)'
  BY <1>6 DEF Wants, Engages, Grows
<1>11. tasks[s].at \in {"admit", "admitSender"} \/ Follows(s) => tasks[s].agent # None
  BY RegistrationAssumption DEF TaskInv, Follows
<1>12. tasks[s].at \in {"admit", "admitSender"} \/ Follows(s) =>
         Wants(tasks[s].msg, tasks[s].agent)'
  BY <1>10, <1>11 DEF TaskInv
<1> QED  BY <1>3, <1>5, <1>7, <1>8, <1>9, <1>12 DEF TaskInv, Grows

-----------------------------------------------------------------------------
(* Every task's part of the invariant.                                     *)

LEMMA EndedTask ==
  ASSUME TypeOK, NEW s \in Slots, Ends(s)
  PROVE  TaskInv(s)' /\ Others(s)
<1>1. tasks'[s].at = "idle" /\ Others(s)
  BY EndingTask DEF Idle
<1> QED  BY <1>1 DEF TaskInv, Follows

\* A task that has just read the wirings has them all before it.
LEMMA RoutedTask ==
  ASSUME TypeOK, TypeOK', NEW s \in Slots, TaskInv(s), routeInbound(s), wired # <<>>
  PROVE  TaskInv(s)' /\ Others(s)
<1>1. /\ Others(s) /\ tasks'[s].at = "fan" /\ tasks'[s].msg = tasks[s].msg
      /\ tasks'[s].agent = tasks[s].agent /\ tasks'[s].todo = wired
  BY Routed DEF routeInbound
<1>2. /\ UNCHANGED <<wired, keeps, engages, sticky, inbox, sent, members, groups>>
      /\ tasks[s].at = "route"
  BY DEF routeInbound, chat, setup, sessions
<1>3. Len(wired) \in Nat
  BY Wired
<1>4. ListInv(s)'
  BY <1>1, <1>2, <1>3 DEF ListInv
<1>5. tasks[s].agent # None => Follows(s)
  BY <1>2 DEF Follows
<1>6. tasks[s].agent # None => IsWired(tasks[s].agent)' /\ Listed(s, tasks[s].agent)'
  BY <1>1, <1>2, <1>5 DEF TaskInv, IsWired, Listed
<1>7. tasks[s].agent # None => Wants(tasks[s].msg, tasks[s].agent)'
  BY <1>1, <1>2, <1>5 DEF TaskInv, Wants, Engages
<1> QED  BY <1>1, <1>2, <1>4, <1>5, <1>6, <1>7 DEF TaskInv, Follows

\* A fan-out that goes past its next agent keeps to the list of wirings, and
\* passes its own agent only if that is not the one.
LEMMA FannedTask ==
  ASSUME TypeOK, TypeOK', NEW s \in Slots, TaskInv(s), Grows, groups \subseteq groups',
         tasks[s].at = "fan", tasks[s].todo # <<>>,
         tasks' = [tasks EXCEPT ![s].todo = Tail(@)],
         Head(tasks[s].todo) # tasks[s].agent
           \/ tasks[s].msg \in inbox'[Head(tasks[s].todo)]
  PROVE  TaskInv(s)' /\ Others(s)
<1> DEFINE todo == tasks[s].todo
<1>1. /\ Head(todo) = todo[1] /\ Len(todo) > 0 /\ Len(Tail(todo)) = Len(todo) - 1
      /\ \A i \in 1 .. Len(Tail(todo)) : Tail(todo)[i] = todo[i + 1]
  BY FanningOut
<1>2. /\ Others(s) /\ tasks'[s].at = "fan" /\ tasks'[s].msg = tasks[s].msg
      /\ tasks'[s].agent = tasks[s].agent /\ tasks'[s].todo = Tail(todo)
  BY FanningOut
<1>3. Len(wired) \in Nat /\ Len(wired') \in Nat /\ Len(todo) \in Nat
  BY TaskParts, LenProperties DEF TypeOK
<1>4. PICK k \in 0 .. Len(wired) :
        /\ k + Len(todo) <= Len(wired)
        /\ \A i \in 1 .. Len(todo) : todo[i] = wired[k + i]
  BY DEF TaskInv, ListInv
<1>5. ListInv(s)'
  <2>1. k + 1 \in 0 .. Len(wired') /\ (k + 1) + Len(Tail(todo)) <= Len(wired')
    BY <1>1, <1>3, <1>4 DEF Grows
  <2>2. ASSUME NEW i \in 1 .. Len(Tail(todo))
        PROVE  Tail(todo)[i] = wired'[(k + 1) + i]
    <3>1. i + 1 \in 1 .. Len(todo) /\ k + (i + 1) \in 1 .. Len(wired)
      BY <1>1, <1>3, <1>4
    <3>2. Tail(todo)[i] = wired[k + (i + 1)] /\ k + (i + 1) = (k + 1) + i
      BY <1>1, <1>3, <1>4, <3>1
    <3> QED  BY <3>1, <3>2 DEF Grows
  <2> QED  BY <1>2, <2>1, <2>2 DEF ListInv
<1>6. ASSUME tasks[s].agent # None
      PROVE  Listed(s, tasks[s].agent)' \/ tasks[s].msg \in inbox'[tasks[s].agent]
  <2>1. CASE tasks[s].msg \in inbox[tasks[s].agent]
    BY <1>6, <2>1, TaskParts DEF Grows
  <2>2. CASE Listed(s, tasks[s].agent)
    <3>1. PICK i \in 1 .. Len(todo) : todo[i] = tasks[s].agent
      BY <2>2 DEF Listed
    <3>2. CASE i = 1
      BY <1>1, <3>1, <3>2
    <3>3. CASE i # 1
      <4>1. i - 1 \in 1 .. Len(Tail(todo)) /\ Tail(todo)[i - 1] = todo[i]
        BY <1>1, <1>3, <3>1, <3>3
      <4> QED  BY <1>2, <3>1, <4>1 DEF Listed
    <3> QED  BY <3>2, <3>3
  <2> QED  BY <1>6, <2>1, <2>2 DEF TaskInv
<1>7. /\ tasks[s].msg \in sent'
      /\ Follows(s)' => /\ IsWired(tasks[s].agent)'
                        /\ <<From[tasks[s].msg], tasks[s].agent>> \in members'
  BY <1>2, WiredStays DEF TaskInv, Follows, Grows
<1>8. Follows(s)' => Wants(tasks[s].msg, tasks[s].agent)'
  <2>1. Follows(s)' => tasks[s].agent \in Agents /\ Wants(tasks[s].msg, tasks[s].agent)
    BY <1>2, TaskParts DEF TaskInv, Follows
  <2> QED  BY <1>2, <2>1 DEF Wants, Engages, Grows
<1> QED  BY <1>2, <1>5, <1>6, <1>7, <1>8 DEF TaskInv, Follows

\* What a step starts from, and what is known of its end already.
Stepping ==
  /\ IInv /\ Step /\ TypeOK' /\ Grows /\ groups \subseteq groups' /\ WiredInv'

LEMMA TasksStep ==
  ASSUME Stepping, NEW t \in Slots
  PROVE  TaskInv(t)'
<1> USE DEF chat, setup, sessions, rows, flights, ghosts
<1>a. TypeOK /\ TypeOK' /\ Grows /\ groups \subseteq groups' /\ RowsInv /\ WiredInv
  BY DEF Stepping, IInv
<1>b. \A s \in Slots : TaskInv(s)
  BY DEF Stepping, IInv
<1>c. ASSUME tasks'[t] = tasks[t] PROVE TaskInv(t)'
  BY <1>a, <1>b, <1>c, TaskStays
<1>d. ASSUME NEW s \in Slots, Others(s), TaskInv(s)' PROVE TaskInv(t)'
  BY <1>c, <1>d DEF Others
<1>1. ASSUME NEW m \in Messages, Arrives(m) PROVE TaskInv(t)'
  <2>1. PICK s \in Slots : /\ Others(s) /\ tasks'[s].at = "route"
                           /\ tasks'[s].msg = m /\ tasks'[s].agent = None
    BY <1>1, <1>a, StartingTask DEF Arrives, At
  <2>2. TaskInv(s)'
    BY <1>1, <2>1 DEF TaskInv, Follows, Arrives
  <2> QED  BY <1>d, <2>1, <2>2
<1>2. ASSUME NEW a \in Agents, ClicksConnect(a) PROVE TaskInv(t)'
  <2>1. row \in Messages /\ row \in sent
    BY <1>2, <1>a DEF ClicksConnect, TypeOK, RowsInv
  <2>2. PICK s \in Slots : /\ Others(s) /\ tasks'[s].at = "wire"
                           /\ tasks'[s].msg = row /\ tasks'[s].agent = a
    BY <1>2, <1>a, <2>1, StartingTask DEF ClicksConnect, At
  <2>3. TaskInv(s)'
    BY <1>2, <2>1, <2>2 DEF TaskInv, Follows, ClicksConnect
  <2> QED  BY <1>d, <2>2, <2>3
<1>3. CASE ClicksReject
  <2>1. row \in Messages /\ row \in sent
    BY <1>3, <1>a DEF ClicksReject, TypeOK, RowsInv
  <2>2. PICK s \in Slots : /\ Others(s) /\ tasks'[s].at = "deny" /\ tasks'[s].msg = row
    BY <1>3, <1>a, <2>1, StartingTask DEF ClicksReject, At
  <2>3. TaskInv(s)'
    BY <1>3, <2>1, <2>2 DEF TaskInv, Follows, ClicksReject
  <2> QED  BY <1>d, <2>2, <2>3
<1>4. CASE Names
  <2>1. CASE UNCHANGED tasks
    BY <1>c, <2>1
  <2>2. CASE ~UNCHANGED tasks
    <3>1. PICK a \in Agents \ groups : /\ row # None /\ groups' = groups \cup {a}
                                       /\ Starts(Does("wire", row, a))
      BY <1>4, <2>2 DEF Names
    <3>2. row \in Messages /\ row \in sent /\ sent' = sent
      BY <1>4, <1>a, <3>1 DEF Names, TypeOK, RowsInv
    <3>3. PICK s \in Slots : /\ Others(s) /\ tasks'[s].at = "wire"
                             /\ tasks'[s].msg = row /\ tasks'[s].agent = a
      BY <1>a, <3>1, <3>2, StartingTask DEF At
    <3>4. TaskInv(s)'
      BY <3>1, <3>2, <3>3 DEF TaskInv, Follows
    <3> QED  BY <1>d, <3>3, <3>4
  <2> QED  BY <2>1, <2>2
<1>5. ASSUME NEW h \in held, NEW yes \in BOOLEAN, ClicksSender(h, yes)
      PROVE  TaskInv(t)'
  <2>1. /\ h.msg \in Messages /\ h.agent \in Agents /\ h.msg \in sent
        /\ IsWired(h.agent) /\ Wants(h.msg, h.agent)
        /\ UNCHANGED <<wired, keeps, engages, sticky, inbox, sent>>
    BY <1>5, <1>a DEF TypeOK, Held, RowsInv, ClicksSender
  <2>2. PICK s \in Slots : /\ Others(s) /\ tasks'[s].at \in {"admitSender", "dropSender"}
                           /\ tasks'[s].msg = h.msg /\ tasks'[s].agent = h.agent
    <3>1. CASE yes
      BY <1>5, <1>a, <2>1, <3>1, StartingTask DEF ClicksSender, At
    <3>2. CASE ~yes
      BY <1>5, <1>a, <2>1, <3>2, StartingTask DEF ClicksSender, At
    <3> QED  BY <3>1, <3>2
  <2>3. TaskInv(s)'
    BY <2>1, <2>2 DEF TaskInv, Follows, IsWired, Wants, Engages
  <2> QED  BY <1>d, <2>2, <2>3
<1>6. ASSUME NEW s \in Slots, routeInbound(s) PROVE TaskInv(t)'
  <2>1. CASE wired = <<>>
    BY <1>6, <1>a, <1>d, <2>1, EndedTask DEF routeInbound
  <2>2. CASE wired # <<>>
    BY <1>6, <1>a, <1>b, <1>d, <2>2, RoutedTask
  <2> QED  BY <2>1, <2>2
<1>7. ASSUME NEW s \in Slots, FansOut(s) PROVE TaskInv(t)'
  <2>1. CASE Ends(s)
    BY <1>a, <1>d, <2>1, EndedTask
  <2>2. CASE ~Ends(s)
    <3> DEFINE a == Head(tasks[s].todo)
               m == tasks[s].msg
    <3>1. /\ tasks[s].at = "fan" /\ tasks[s].todo # <<>> /\ UNCHANGED members
          /\ tasks' = [tasks EXCEPT ![s].todo = Tail(@)]
      BY <1>7, <2>2 DEF FansOut, Refuses, Stores, Passes
    <3>2. a # tasks[s].agent \/ m \in inbox'[a]
      <4>0. a \in Agents /\ None \notin Agents
        BY <1>a, <3>1, FanningOut DEF RegistrationAssumption
      <4>1. CASE a = tasks[s].agent
        <5>1. Known(From[m], a) /\ Wants(m, a)
          BY <1>b, <3>1, <4>0, <4>1 DEF TaskInv, Follows, Known
        <5>2. PICK wakes \in BOOLEAN : Stores(s, a, wakes)
          BY <1>7, <5>1 DEF FansOut, Wants
        <5> QED  BY <1>a, <2>2, <4>0, <5>2 DEF Stores, TypeOK
      <4>2. CASE a # tasks[s].agent
        BY <4>2
      <4> QED  BY <4>1, <4>2
    <3> QED  BY <1>a, <1>b, <1>d, <3>1, <3>2, FannedTask
  <2> QED  BY <2>1, <2>2
<1>8. ASSUME NEW s \in Slots,
             FanOutEnds(s) \/ GivesUpWiring(s) \/ Drops(s) \/ DropsSender(s)
      PROVE  TaskInv(t)'
  BY <1>8, <1>a, <1>d, EndedTask DEF FanOutEnds, GivesUpWiring, Drops, DropsSender
<1>9. ASSUME NEW s \in Slots, WiresApproved(s) PROVE TaskInv(t)'
  <2>1. CASE tasks[s].agent \in Range(wired)
    BY <1>9, <1>a, <1>d, <2>1, EndedTask DEF WiresApproved
  <2>2. CASE tasks[s].agent \notin Range(wired)
    <3>1. PICK a \in Agents : a = tasks[s].agent /\ a \in groups /\ ~IsWired(a)
      BY <1>9, <1>a, <1>b, <2>2, Wired DEF WiresApproved, TaskInv, TypeOK
    <3>2. /\ wired' = Append(wired, a) /\ Next_(s, "admit") /\ a \in keeps'
          /\ sent' = sent /\ groups' = groups
      BY <1>9, <2>2, <3>1 DEF WiresApproved
    <3>3. IsWired(a)'
      BY <1>a, <3>1, <3>2, WiresOneMore
    <3>4. /\ Others(s) /\ tasks'[s].at = "admit" /\ tasks'[s].msg = tasks[s].msg
          /\ tasks'[s].agent = a
      BY <1>a, <3>1, <3>2, GoingOn DEF At
    <3>5. tasks[s].msg \in sent
      BY <1>9, <1>a, <1>b, AtWork DEF WiresApproved
    <3>6. IsWired(tasks[s].agent)'
      BY <3>3, <3>4
    <3>7. TaskInv(s)'
      BY <3>2, <3>4, <3>5, <3>6 DEF TaskInv, Follows, Wants
    <3> QED  BY <1>d, <3>4, <3>7
  <2> QED  BY <2>1, <2>2
<1>10. ASSUME NEW s \in Slots, AdmitsSender(s) \/ ApprovesSender(s) PROVE TaskInv(t)'
  <2>1. PICK at \in {"unpend", "unpendSender"} : Next_(s, at)
    BY <1>10 DEF AdmitsSender, ApprovesSender
  <2>2. /\ Others(s) /\ tasks'[s].at = at /\ tasks'[s].msg = tasks[s].msg
        /\ tasks'[s].agent = tasks[s].agent
    BY <1>a, <2>1, GoingOn DEF At
  <2>3. /\ tasks[s].at \in {"admit", "admitSender"} /\ UNCHANGED <<wired, sent>>
        /\ UNCHANGED <<keeps, engages, sticky, inbox>>
        /\ <<From[tasks[s].msg], tasks[s].agent>> \in members'
    BY <1>10 DEF AdmitsSender, ApprovesSender
  <2>4. /\ tasks[s].msg \in sent /\ IsWired(tasks[s].agent) /\ tasks[s].agent \in Agents
        /\ Wants(tasks[s].msg, tasks[s].agent)
    BY <1>b, <2>3 DEF TaskInv
  <2>5. TaskInv(s)'
    BY <2>2, <2>3, <2>4 DEF TaskInv, Follows, IsWired, Wants, Engages
  <2> QED  BY <1>d, <2>2, <2>5
<1>11. ASSUME NEW s \in Slots, ReplaysChannel(s) \/ ReplaysSender(s) PROVE TaskInv(t)'
  <2>1. Next_(s, "route") /\ tasks[s].at \in {"unpend", "unpendSender"}
    BY <1>11 DEF ReplaysChannel, ReplaysSender
  <2>2. /\ Others(s) /\ tasks'[s].at = "route" /\ tasks'[s].msg = tasks[s].msg
        /\ tasks'[s].agent = tasks[s].agent
    BY <1>a, <2>1, GoingOn DEF At
  <2>3. UNCHANGED <<wired, keeps, engages, sticky, inbox, sent, members>>
    BY <1>11 DEF ReplaysChannel, ReplaysSender
  <2>4. TaskInv(s)'
    BY <1>b, <2>1, <2>2, <2>3 DEF TaskInv, Follows, IsWired, Wants, Engages
  <2> QED  BY <1>d, <2>2, <2>4
<1>12. ASSUME NEW s \in Slots, Denies(s) PROVE TaskInv(t)'
  <2>1. /\ Others(s) /\ tasks'[s].at = "drop" /\ tasks'[s].msg = tasks[s].msg
        /\ sent' = sent
    BY <1>12, <1>a, GoingOn DEF Denies, At
  <2>2. tasks[s].msg \in sent
    BY <1>12, <1>a, <1>b, AtWork DEF Denies
  <2>3. TaskInv(s)'
    BY <2>1, <2>2 DEF TaskInv, Follows
  <2> QED  BY <1>d, <2>1, <2>3
<1>13. CASE Restarts
  <2>1. tasks'[t].at = "idle"
    BY <1>13 DEF Restarts, Idle
  <2> QED  BY <2>1 DEF TaskInv, Follows
<1>14. CASE \E a \in Agents : Wires(a)
  BY <1>14, <1>c DEF Wires
<1>15. CASE Asks \/ ClicksNewAgent \/ \E r \in requests : NobodyToAsk(r)
  BY <1>15, <1>c DEF Asks, requestChannelApproval, requestSenderApproval,
     ClicksNewAgent, NobodyToAsk
<1> QED
  BY <1>1, <1>2, <1>3, <1>4, <1>5, <1>6, <1>7, <1>8, <1>9, <1>10, <1>11, <1>12,
     <1>13, <1>14, <1>15
  DEF Stepping, Step, Handles

-----------------------------------------------------------------------------
(* Which task a step moves.                                                *)

LEMMA HandlesOne ==
  ASSUME TypeOK, NEW s \in Slots, Handles(s)
  PROVE  Others(s)
<1>1. CASE routeInbound(s)
  BY <1>1, EndingTask, Routed DEF routeInbound
<1>2. CASE FansOut(s)
  BY <1>2, EndingTask, FanningOut DEF FansOut, Refuses, Stores, Passes
<1>3. CASE FanOutEnds(s) \/ GivesUpWiring(s) \/ Drops(s) \/ DropsSender(s)
  BY <1>3, EndingTask DEF FanOutEnds, GivesUpWiring, Drops, DropsSender
<1>4. CASE WiresApproved(s)
  BY <1>4, EndingTask, GoingOn DEF WiresApproved, At
<1>5. CASE AdmitsSender(s) \/ ReplaysChannel(s) \/ Denies(s)
  BY <1>5, GoingOn DEF AdmitsSender, ReplaysChannel, Denies, At
<1>6. CASE ApprovesSender(s) \/ ReplaysSender(s)
  BY <1>6, GoingOn DEF ApprovesSender, ReplaysSender, At
<1> QED  BY <1>1, <1>2, <1>3, <1>4, <1>5, <1>6 DEF Handles

\* A task that starts, and the step that starts it.
Started(u) ==
  /\ tasks[u] = Idle /\ Others(u)
  /\ \/ /\ Arrives(tasks'[u].msg) /\ tasks'[u].msg \in Messages
        /\ tasks'[u].at = "route" /\ tasks'[u].agent = None
     \/ tasks'[u].at = "wire"
     \/ ClicksReject /\ tasks'[u].at = "deny" /\ tasks'[u].msg = row
     \/ tasks'[u].at = "admitSender"
     \/ \E h \in held :
          /\ ClicksSender(h, FALSE) /\ tasks'[u].at = "dropSender"
          /\ tasks'[u].msg = h.msg /\ tasks'[u].agent = h.agent

LEMMA Origin ==
  ASSUME Stepping, NEW u \in Slots, tasks'[u] # tasks[u]
  PROVE  Handles(u) \/ Restarts \/ Started(u)
<1> USE DEF chat, setup, sessions, rows, flights, ghosts
<1>a. TypeOK
  BY DEF Stepping, IInv
<1>1. ASSUME NEW m \in Messages, Arrives(m) PROVE Started(u)
  <2>1. \E s \in Slots :
          /\ tasks[s] = Idle /\ Others(s)
          /\ tasks'[s].at = "route" /\ tasks'[s].msg = m /\ tasks'[s].agent = None
    BY <1>1, <1>a, StartingTask DEF Arrives, At
  <2> QED  BY <1>1, <2>1 DEF Others, Started
<1>2. ASSUME NEW a \in Agents, ClicksConnect(a) PROVE Started(u)
  <2>1. row \in Messages
    BY <1>2, <1>a DEF ClicksConnect, TypeOK
  <2>2. \E s \in Slots : tasks[s] = Idle /\ Others(s) /\ tasks'[s].at = "wire"
    BY <1>2, <1>a, <2>1, StartingTask DEF ClicksConnect, At
  <2> QED  BY <2>2 DEF Others, Started
<1>3. CASE ClicksReject
  <2>1. row \in Messages
    BY <1>3, <1>a DEF ClicksReject, TypeOK
  <2>2. \E s \in Slots : /\ tasks[s] = Idle /\ Others(s)
                         /\ tasks'[s].at = "deny" /\ tasks'[s].msg = row
    BY <1>3, <1>a, <2>1, StartingTask DEF ClicksReject, At
  <2> QED  BY <1>3, <2>2 DEF Others, Started
<1>4. CASE Names
  <2>1. PICK a \in Agents : row # None /\ Starts(Does("wire", row, a))
    BY <1>4 DEF Names
  <2>2. row \in Messages
    BY <1>a, <2>1 DEF TypeOK
  <2>3. \E s \in Slots : tasks[s] = Idle /\ Others(s) /\ tasks'[s].at = "wire"
    BY <1>a, <2>1, <2>2, StartingTask DEF At
  <2> QED  BY <2>3 DEF Others, Started
<1>5. ASSUME NEW h \in held, ClicksSender(h, TRUE) PROVE Started(u)
  <2>1. h.msg \in Messages /\ h.agent \in Agents
    BY <1>a DEF TypeOK, Held
  <2>2. \E s \in Slots : tasks[s] = Idle /\ Others(s) /\ tasks'[s].at = "admitSender"
    BY <1>5, <1>a, <2>1, StartingTask DEF ClicksSender, At
  <2> QED  BY <2>2 DEF Others, Started
<1>6. ASSUME NEW h \in held, ClicksSender(h, FALSE) PROVE Started(u)
  <2>1. h.msg \in Messages /\ h.agent \in Agents
    BY <1>a DEF TypeOK, Held
  <2>2. \E s \in Slots : /\ tasks[s] = Idle /\ Others(s)
                         /\ tasks'[s].at = "dropSender"
                         /\ tasks'[s].msg = h.msg /\ tasks'[s].agent = h.agent
    BY <1>6, <1>a, <2>1, StartingTask DEF ClicksSender, At
  <2> QED  BY <1>6, <2>2 DEF Others, Started
<1>7. ASSUME NEW s \in Slots, Handles(s) PROVE Handles(u)
  BY <1>7, <1>a, HandlesOne DEF Others
<1>8. CASE \E a \in Agents : Wires(a)
  BY <1>8 DEF Wires
<1>9. CASE Asks \/ ClicksNewAgent \/ \E r \in requests : NobodyToAsk(r)
  BY <1>9 DEF Asks, requestChannelApproval, requestSenderApproval,
     ClicksNewAgent, NobodyToAsk
<1>10. Step
  BY DEF Stepping
<1>11. CASE \E h \in held, yes \in BOOLEAN : ClicksSender(h, yes)
  BY <1>5, <1>6, <1>11
<1> QED
  BY <1>1, <1>2, <1>3, <1>4, <1>7, <1>8, <1>9, <1>10, <1>11 DEF Step

\* Only its own handler and a restart move a task at work.
LEMMA BusyStays ==
  ASSUME Stepping, NEW u \in Slots, tasks[u].at # "idle", ~Handles(u), ~Restarts
  PROVE  tasks'[u] = tasks[u]
<1>1. Started(u) => tasks[u] = Idle
  BY DEF Started
<1>2. Idle.at = "idle"
  BY DEF Idle
<1> QED  BY <1>1, <1>2, Origin

\* Where a task that routes a new message comes from.
LEMMA FirstStep ==
  ASSUME Stepping, NEW t \in Slots, NEW m \in Messages, First(t, m)'
  PROVE  \/ /\ First(t, m)
            /\ tasks'[t].at = tasks[t].at \/ tasks[t].at = "route"
            /\ tasks[t].at = "fan" => \A a : Listed(t, a)' => Listed(t, a)
         \/ m \notin sent /\ Others(t)
<1>a. TypeOK /\ TaskInv(t)
  BY DEF Stepping, IInv
<1>1. CASE tasks'[t] = tasks[t]
  BY <1>1 DEF First, Works, Listed
<1>2. CASE Handles(t)
  <2>0. tasks'[t].at \in {"route", "fan"} /\ tasks'[t].agent = None /\ tasks'[t].msg = m
    BY DEF First, Works
  <2>1. ~Ends(t)
    BY <1>a, <2>0, EndingTask DEF Idle
  <2>2. ASSUME NEW at \in At, Next_(t, at)
        PROVE  at \in {"route", "fan"} /\ tasks[t].agent = None
    BY <1>a, <2>0, <2>2, GoingOn DEF At
  <2>3. CASE routeInbound(t)
    <3>1. /\ tasks[t].at = "route" /\ tasks'[t].msg = tasks[t].msg
          /\ tasks'[t].agent = tasks[t].agent
      BY <1>a, <2>1, <2>3, Routed DEF routeInbound
    <3> QED  BY <2>0, <3>1 DEF First, Works
  <2>4. CASE FansOut(t)
    <3>1. /\ tasks[t].at = "fan" /\ tasks[t].todo # <<>>
          /\ tasks' = [tasks EXCEPT ![t].todo = Tail(@)]
      BY <2>1, <2>4 DEF FansOut, Refuses, Stores, Passes
    <3>2. /\ tasks'[t].msg = tasks[t].msg /\ tasks'[t].agent = tasks[t].agent
          /\ tasks'[t].at = "fan" /\ tasks'[t].todo = Tail(tasks[t].todo)
          /\ Len(Tail(tasks[t].todo)) = Len(tasks[t].todo) - 1
          /\ \A i \in 1 .. Len(Tail(tasks[t].todo)) :
               Tail(tasks[t].todo)[i] = tasks[t].todo[i + 1]
      BY <1>a, <3>1, FanningOut
    <3>3. Len(tasks[t].todo) \in Nat
      BY <1>a, TaskParts
    <3>4. \A a : Listed(t, a)' => Listed(t, a)
      BY <3>2, <3>3 DEF Listed
    <3> QED  BY <2>0, <3>1, <3>2, <3>4 DEF First, Works
  <2>5. CASE ReplaysChannel(t) \/ ReplaysSender(t)
    <3>1. tasks[t].agent = None /\ tasks[t].at \in {"unpend", "unpendSender"}
      BY <2>2, <2>5 DEF ReplaysChannel, ReplaysSender, At
    <3> QED  BY <1>a, <3>1 DEF TaskInv, RegistrationAssumption
  <2>6. CASE FanOutEnds(t) \/ GivesUpWiring(t) \/ Drops(t) \/ DropsSender(t)
    BY <2>1, <2>6 DEF FanOutEnds, GivesUpWiring, Drops, DropsSender
  <2>7. CASE WiresApproved(t) \/ AdmitsSender(t) \/ Denies(t) \/ ApprovesSender(t)
    BY <2>1, <2>2, <2>7 DEF WiresApproved, AdmitsSender, Denies, ApprovesSender, At
  <2> QED  BY <1>2, <2>3, <2>4, <2>5, <2>6, <2>7 DEF Handles
<1>3. CASE Restarts
  BY <1>3 DEF Restarts, Idle, First, Works
<1>4. CASE Started(t)
  <2>1. CASE Arrives(tasks'[t].msg)
    BY <1>4, <2>1 DEF Started, Arrives, First, Works
  <2>2. CASE ~Arrives(tasks'[t].msg)
    BY <1>4, <2>2 DEF Started, First, Works
  <2> QED  BY <2>1, <2>2
<1> QED  BY <1>1, <1>2, <1>3, <1>4, Origin

LEMMA FirstOnceStep ==
  ASSUME Stepping
  PROVE  FirstOnce'
<1> SUFFICES ASSUME NEW m \in Messages, NEW s \in Slots, NEW t \in Slots,
                    First(s, m)', First(t, m)', s # t
             PROVE  FALSE
  BY DEF FirstOnce
<1>1. \A u \in Slots : First(u, m) => m \in sent
  BY DEF Stepping, IInv, TaskInv, First, Works
<1>2. CASE m \in sent
  BY <1>2, FirstStep DEF Stepping, IInv, FirstOnce
<1>3. CASE m \notin sent
  <2>1. Others(s)
    BY <1>1, <1>3, FirstStep
  <2>2. First(t, m)
    BY <2>1 DEF Others, First, Works
  <2> QED  BY <1>1, <1>3, <2>2
<1> QED  BY <1>2, <1>3

-----------------------------------------------------------------------------
(* Rows, requests and sessions.                                            *)

\* The agent the fan-out is at is wired.
LEMMA NextIsWired ==
  ASSUME TypeOK, NEW s \in Slots, TaskInv(s), tasks[s].at = "fan",
         tasks[s].todo # <<>>
  PROVE  IsWired(Head(tasks[s].todo)) /\ Listed(s, Head(tasks[s].todo))
<1>1. /\ Head(tasks[s].todo) = tasks[s].todo[1] /\ Len(tasks[s].todo) > 0
      /\ Len(tasks[s].todo) \in Nat /\ Len(wired) \in Nat
  BY FanningOut, TaskParts, Wired
<1>2. PICK k \in 0 .. Len(wired) :
        /\ k + Len(tasks[s].todo) <= Len(wired)
        /\ \A i \in 1 .. Len(tasks[s].todo) : tasks[s].todo[i] = wired[k + i]
  BY DEF TaskInv, ListInv
<1>3. k + 1 \in 1 .. Len(wired) /\ tasks[s].todo[1] = wired[k + 1]
  BY <1>1, <1>2
<1> QED  BY <1>1, <1>3 DEF IsWired, Listed

\* A new request is made by a task that routes its message: for the owner when
\* nobody serves the chat, for a sender at the agent that does not know them.
LEMMA AskedBy ==
  ASSUME Stepping, NEW r \in requests', r \notin requests
  PROVE  \E s \in Slots :
           /\ tasks[s].msg = r.msg /\ r.msg \in sent /\ Others(s) /\ UNCHANGED <<row, held>>
           /\ \/ /\ routeInbound(s) /\ tasks[s].at = "route" /\ wired = <<>>
                 /\ Ends(s) /\ r.agent = None
              \/ /\ FansOut(s) /\ tasks[s].at = "fan" /\ tasks[s].todo # <<>>
                 /\ r.agent = Head(tasks[s].todo) /\ r.agent \in Agents
                 /\ IsWired(r.agent) /\ Listed(s, r.agent) /\ Wants(r.msg, r.agent)
                 /\ tasks' = [tasks EXCEPT ![s].todo = Tail(@)]
<1> USE DEF chat, setup, sessions, rows, flights, ghosts
<1>a. TypeOK /\ (\A s \in Slots : TaskInv(s)) /\ Step
  BY DEF Stepping, IInv
<1>1. PICK s \in Slots : routeInbound(s) \/ FansOut(s)
  BY <1>a DEF Step, Handles, Asks, Arrives, Wires, ClicksConnect, FanOutEnds,
     WiresApproved, GivesUpWiring, AdmitsSender, ReplaysChannel, Denies, Drops,
     ApprovesSender,
     ReplaysSender, DropsSender, requestChannelApproval, requestSenderApproval,
     NobodyToAsk, ClicksReject, ClicksNewAgent, Names, ClicksSender, Restarts
<1>2. Others(s) /\ tasks[s].msg \in sent
  BY <1>1, <1>a, HandlesOne, AtWork DEF Handles, routeInbound, FansOut
<1>3. CASE routeInbound(s)
  BY <1>2, <1>3 DEF routeInbound
<1>4. CASE FansOut(s)
  <2>1. /\ Refuses(s, Head(tasks[s].todo)) /\ Passes(s) /\ tasks[s].at = "fan"
        /\ tasks[s].todo # <<>> /\ UNCHANGED <<row, held>>
        /\ Engages(tasks[s].msg, Head(tasks[s].todo))
    BY <1>4 DEF FansOut
  <2>2. r = [msg |-> tasks[s].msg, agent |-> Head(tasks[s].todo)]
    BY <2>1 DEF Refuses
  <2>3. Head(tasks[s].todo) \in Agents
    BY <1>a, <2>1, FanningOut
  <2>4. IsWired(Head(tasks[s].todo)) /\ Listed(s, Head(tasks[s].todo))
    BY <1>a, <2>1, NextIsWired
  <2> QED  BY <1>2, <1>4, <2>1, <2>2, <2>3, <2>4 DEF Refuses, Passes, Wants
<1> QED  BY <1>1, <1>3, <1>4

\* A new row, and a new registration row, stand for a request that they end.
LEMMA HeldFrom ==
  ASSUME Stepping, NEW h \in held', h \notin held
  PROVE  \E r \in requests :
           /\ r.agent # None /\ h.msg = r.msg /\ h.agent = r.agent
           /\ ~Asked(r.msg, r.agent)' /\ requests' \subseteq requests
           /\ UNCHANGED <<tasks, row>>
<1> USE DEF chat, setup, sessions, rows, flights, ghosts
<1>a. Step /\ TypeOK
  BY DEF Stepping, IInv
<1>1. PICK r \in requests : requestSenderApproval(r)
  BY <1>a DEF Step, Handles, Asks, Arrives, Wires, ClicksConnect, routeInbound,
     FansOut, FanOutEnds,
     WiresApproved, GivesUpWiring, AdmitsSender, ReplaysChannel, Denies, Drops,
     ApprovesSender,
     ReplaysSender, DropsSender, requestChannelApproval,
     NobodyToAsk, ClicksReject, ClicksNewAgent, Names, ClicksSender, Restarts
<1>2. /\ r.agent # None /\ requests' = requests \ {r} /\ UNCHANGED <<tasks, row>>
      /\ h.msg = r.msg /\ h.agent = r.agent
  BY <1>1 DEF requestSenderApproval
<1>3. \A q \in requests : q.msg = r.msg /\ q.agent = r.agent => q = r
  BY <1>a DEF TypeOK
<1> QED  BY <1>2, <1>3 DEF Asked

LEMMA RowFrom ==
  ASSUME Stepping, row' # row, row' # None
  PROVE  /\ row = None /\ Asked(row', None) /\ row' \in sent
         /\ \E r \in requests :
              /\ r.agent = None /\ row' = r.msg /\ requests' = requests \ {r}
         /\ UNCHANGED tasks
<1> USE DEF chat, setup, sessions, rows, flights, ghosts
<1>a. Step /\ RowsInv
  BY DEF Stepping, IInv
<1>1. PICK r \in requests : requestChannelApproval(r)
  BY <1>a DEF Step, Handles, Asks, Arrives, Wires, ClicksConnect, routeInbound,
     FansOut, FanOutEnds, DeletesRow,
     WiresApproved, GivesUpWiring, AdmitsSender, ReplaysChannel, Denies, Drops,
     ApprovesSender,
     ReplaysSender, DropsSender, requestSenderApproval,
     NobodyToAsk, ClicksReject, ClicksNewAgent, Names, ClicksSender, Restarts
<1>2. /\ r.agent = None /\ requests' = requests \ {r} /\ UNCHANGED tasks
      /\ row = None /\ row' = r.msg
  BY <1>1 DEF requestChannelApproval
<1> QED  BY <1>2, <1>a DEF Asked, RowsInv

LEMMA RowsStep ==
  ASSUME Stepping
  PROVE  RowsInv'
<1> USE DEF chat, setup, sessions, rows, flights, ghosts
<1>a. TypeOK /\ TypeOK' /\ RowsInv /\ Grows /\ Step
  BY DEF Stepping, IInv
<1>1. \A a : IsWired(a) => IsWired(a)'
  BY <1>a, WiredStays
<1>3. \A m, a : a \in Agents /\ Wants(m, a) => Wants(m, a)'
  BY <1>a, WantsStays
<1>2. ASSUME NEW r \in requests'
      PROVE  /\ r.msg \in sent'
             /\ r.agent # None => IsWired(r.agent)' /\ Wants(r.msg, r.agent)'
  <2>1. CASE r \in requests
    <3>1. r.agent \in Agents \cup {None}
      BY <1>a, <2>1 DEF TypeOK
    <3> QED  BY <1>1, <1>3, <1>a, <2>1, <3>1 DEF RowsInv, Grows
  <2>2. CASE r \notin requests
    BY <1>1, <1>3, <1>a, <2>2, AskedBy DEF Grows
  <2> QED  BY <2>1, <2>2
<1>5. ASSUME NEW h \in held'
      PROVE  h.msg \in sent' /\ IsWired(h.agent)' /\ Wants(h.msg, h.agent)'
  <2>1. PICK m \in Messages, a \in Agents : h.msg = m /\ h.agent = a
    BY <1>a DEF TypeOK, Held
  <2>2. m \in sent /\ IsWired(a) /\ Wants(m, a)
    <3>1. CASE h \in held
      BY <1>a, <2>1, <3>1 DEF RowsInv
    <3>2. CASE h \notin held
      BY <1>a, <2>1, <3>2, HeldFrom DEF RowsInv
    <3> QED  BY <3>1, <3>2
  <2> QED  BY <1>1, <1>3, <1>a, <2>1, <2>2 DEF Grows
<1>6. row' # None => row' \in sent'
  BY <1>a, RowFrom DEF RowsInv, Grows
<1> QED  BY <1>2, <1>5, <1>6 DEF RowsInv

\* Only a fan-out stores or refuses, one message for one agent.
LEMMA FanOutOnly ==
  ASSUME Stepping, ~UNCHANGED <<inbox, context, refused>>
  PROVE  \E s \in Slots : /\ FansOut(s)
                          /\ tasks[s].msg \in Messages
                          /\ Head(tasks[s].todo) \in Agents
<1> USE DEF chat, setup, sessions, rows, flights, ghosts
<1>a. TypeOK /\ Step /\ \A s \in Slots : TaskInv(s)
  BY DEF Stepping, IInv
<1>1. PICK s \in Slots : FansOut(s)
  BY <1>a DEF Step, Handles, Asks, Arrives, Wires, ClicksConnect, routeInbound,
       FanOutEnds, WiresApproved, GivesUpWiring, AdmitsSender, ReplaysChannel,
       Denies, Drops, ApprovesSender, ReplaysSender, DropsSender,
       requestChannelApproval, requestSenderApproval, NobodyToAsk, ClicksReject,
       ClicksNewAgent, Names, ClicksSender, Restarts
<1> QED  BY <1>a, <1>1, AtWork, FanningOut DEF FansOut

LEMMA RefusedStep ==
  ASSUME Stepping
  PROVE  RefusedInv'
<1>a. TypeOK /\ RefusedInv /\ Grows
  BY DEF Stepping, IInv
<1>b. \A m, a : a \in Agents /\ Engages(m, a) => Engages(m, a)'
  BY <1>a, WantsStays
<1>c. \A p \in refused : p[1] \in Messages /\ p[2] \in Agents
  BY <1>a DEF TypeOK
<1>1. CASE UNCHANGED refused
  BY <1>1, <1>a, <1>b, <1>c DEF RefusedInv
<1>2. CASE ~UNCHANGED refused
  <2>1. PICK s \in Slots : /\ FansOut(s) /\ tasks[s].msg \in Messages
                          /\ Head(tasks[s].todo) \in Agents
    BY <1>2, FanOutOnly
  <2>2. /\ Engages(tasks[s].msg, Head(tasks[s].todo))
        /\ refused' = refused \cup {<<tasks[s].msg, Head(tasks[s].todo)>>}
    BY <1>2, <2>1 DEF FansOut, Refuses
  <2>3. \A p \in refused' : /\ Engages(p[1], p[2]) /\ p[2] \in Agents
    BY <1>a, <1>c, <2>1, <2>2 DEF RefusedInv
  <2> QED  BY <1>b, <2>3 DEF RefusedInv
<1> QED  BY <1>1, <1>2

LEMMA StrangersStep ==
  ASSUME Stepping
  PROVE  StrangersAreNotStored'
<1>a. TypeOK /\ RefusedInv /\ StrangersAreNotStored /\ Grows
  BY DEF Stepping, IInv
<1>1. \A z, a : Known(z, a) => Known(z, a)'
  BY <1>a DEF Known, Grows
<1>2. CASE UNCHANGED <<inbox, context, refused>>
  BY <1>1, <1>2, <1>a DEF StrangersAreNotStored
<1>3. CASE ~UNCHANGED <<inbox, context, refused>>
  <2>1. PICK s \in Slots : /\ FansOut(s) /\ tasks[s].msg \in Messages
                          /\ Head(tasks[s].todo) \in Agents
    BY <1>3, FanOutOnly
  <2> DEFINE b == Head(tasks[s].todo)
             n == tasks[s].msg
  <2>2. CASE UNCHANGED sessions
    <3>1. UNCHANGED <<inbox, context>>
      BY <2>2 DEF sessions
    <3>2. /\ n \in inbox[b] => refused' = refused
          /\ refused' \subseteq refused \cup {<<n, b>>}
      BY <2>1 DEF FansOut, Refuses
    <3> QED  BY <1>1, <1>a, <3>1, <3>2 DEF StrangersAreNotStored
  <2>3. CASE ~UNCHANGED sessions
    <3>1. /\ UNCHANGED refused
          /\ \/ Known(From[n], b) /\ Stores(s, b, TRUE)
             \/ ~Engages(n, b) /\ Stores(s, b, FALSE)
      BY <2>1, <2>3 DEF FansOut
    <3>2. ASSUME NEW a \in Agents, NEW m \in inbox'[a], m \notin inbox[a]
          PROVE  a = b /\ m = n
      BY <1>a, <2>1, <3>1, <3>2 DEF Stores, sessions, TypeOK
    <3>3. context \subseteq context'
      BY <3>1 DEF Stores, sessions
    <3>4. ASSUME n \in inbox'[b], n \notin inbox[b]
          PROVE  Known(From[n], b) \/ <<n, b>> \in context' \ refused
      <4>1. ~Engages(n, b) => <<n, b>> \notin refused
        BY <1>a DEF RefusedInv
      <4> QED  BY <3>1, <3>4, <4>1 DEF Stores, sessions
    <3>5. ASSUME NEW a \in Agents, NEW m \in inbox'[a]
          PROVE  Known(From[m], a) \/ <<m, a>> \in context' \ refused'
      <4>1. CASE m \in inbox[a]
        BY <1>a, <3>1, <3>3, <4>1 DEF StrangersAreNotStored
      <4>2. CASE m \notin inbox[a]
        BY <3>1, <3>2, <3>4, <4>2
      <4> QED  BY <4>1, <4>2
    <3> QED  BY <1>1, <3>5 DEF StrangersAreNotStored
  <2> QED  BY <2>2, <2>3
<1> QED  BY <1>2, <1>3

-----------------------------------------------------------------------------
(* The owner and the approvers are asked once.                             *)

LEMMA DenyingFrom ==
  ASSUME Stepping, NEW m \in Messages, Denying(m)'
  PROVE  Denying(m) \/ (row = m /\ m \notin owed')
<1>a. TypeOK
  BY DEF Stepping, IInv
<1>1. PICK s \in Slots : tasks'[s].msg = m /\ tasks'[s].at \in {"deny", "drop"}
  BY DEF Denying
<1>2. CASE tasks'[s] = tasks[s]
  BY <1>1, <1>2 DEF Denying
<1>3. CASE Handles(s)
  <2>1. ~Ends(s)
    BY <1>a, <1>1, EndingTask DEF Idle
  <2>2. ASSUME NEW at \in At, Next_(s, at)
        PROVE  at \in {"deny", "drop"} /\ tasks[s].msg = m
    BY <1>a, <1>1, <2>2, GoingOn
  <2>3. ~routeInbound(s)
    BY <1>a, <1>1, <2>1, Routed DEF routeInbound
  <2>4. ~FansOut(s)
    BY <1>a, <1>1, <2>1, FanningOut DEF FansOut, Refuses, Stores, Passes
  <2>5. Denies(s)
    BY <1>3, <2>1, <2>2, <2>3, <2>4
    DEF Handles, FanOutEnds, WiresApproved, GivesUpWiring, AdmitsSender, ReplaysChannel, Drops,
        ApprovesSender, ReplaysSender, DropsSender, At
  <2> QED  BY <2>2, <2>5 DEF Denies, Denying, At
<1>4. CASE Restarts
  BY <1>1, <1>4 DEF Restarts, Idle
<1>5. CASE Started(s)
  BY <1>1, <1>5 DEF Started, ClicksReject
<1> QED  BY <1>2, <1>3, <1>4, <1>5, Origin

\* The owner is asked by the task that routes the message for the first time.
LEMMA OwnerAskedBy ==
  ASSUME Stepping, NEW m \in Messages, Asked(m, None)', ~Asked(m, None)
  PROVE  \E s \in Slots : /\ First(s, m) /\ tasks[s].at = "route"
                          /\ Ends(s) /\ Others(s) /\ UNCHANGED <<row, held>>
<1>a. TypeOK /\ \A s \in Slots : TaskInv(s)
  BY DEF Stepping, IInv
<1>1. PICK r \in requests' : r.msg = m /\ r.agent = None /\ r \notin requests
  BY DEF Asked
<1>2. PICK s \in Slots : /\ tasks[s].msg = m /\ Others(s) /\ UNCHANGED <<row, held>>
                         /\ tasks[s].at = "route" /\ wired = <<>> /\ Ends(s)
  BY <1>1, AskedBy DEF RegistrationAssumption
<1>3. ~IsWired(tasks[s].agent)
  BY <1>2 DEF IsWired
<1>4. tasks[s].agent = None
  BY <1>a, <1>2, <1>3 DEF TaskInv, Follows
<1> QED  BY <1>2, <1>4 DEF First, Works

LEMMA ChannelStep ==
  ASSUME Stepping, NEW m \in Messages
  PROVE  ChannelInv(m)'
<1> DEFINE P == row = m \/ Denying(m) \/ Asked(m, None)
<1>a. TypeOK /\ RowsInv /\ ChannelInv(m) /\ FirstOnce /\ m # None
  BY DEF Stepping, IInv, RegistrationAssumption
<1>b. (row = m \/ Denying(m))' => P
  BY <1>a, DenyingFrom, RowFrom
<1>1. CASE ~P
  <2>1. SUFFICES ASSUME Asked(m, None)' PROVE ChannelInv(m)'
    BY <1>b, <1>1 DEF ChannelInv
  <2>2. PICK s \in Slots : First(s, m) /\ Ends(s) /\ Others(s)
    BY <1>1, <2>1, OwnerAskedBy
  <2>3. tasks'[s].at = "idle"
    BY <1>a, <2>2, EndingTask DEF Idle
  <2>4. ASSUME NEW t \in Slots PROVE ~First(t, m)'
    BY <1>a, <2>2, <2>3 DEF FirstOnce, Others, First, Works
  <2> QED  BY <1>b, <1>1, <2>4 DEF ChannelInv
<1>2. CASE P
  <2>1. m \in sent
    BY <1>a, <1>2 DEF RowsInv, Denying, Asked, Stepping, IInv, TaskInv
  <2>2. \A t \in Slots : First(t, m) => tasks[t].at = "fan"
    BY <1>a, <1>2 DEF ChannelInv
  <2>3. ASSUME NEW t \in Slots, First(t, m)' PROVE tasks'[t].at = "fan"
    BY <2>1, <2>2, <2>3, FirstStep
  <2>4. Asked(m, None)' => Asked(m, None)
    BY <2>2, OwnerAskedBy
  <2>5. row = m \/ Denying(m) => ~Asked(m, None)'
    BY <1>a, <2>4 DEF ChannelInv
  <2>6. ASSUME row' = m, row # m PROVE ~Asked(m, None)'
    <3>1. PICK r \in requests : /\ r.agent = None /\ r.msg = m
                                /\ requests' = requests \ {r}
      BY <1>a, <2>6, RowFrom
    <3>2. \A q \in requests : q.msg = r.msg /\ q.agent = r.agent => q = r
      BY <1>a DEF TypeOK
    <3> QED  BY <3>1, <3>2 DEF Asked
  <2> QED  BY <2>3, <2>5, <2>6, DenyingFrom DEF ChannelInv
<1> QED  BY <1>1, <1>2

-----------------------------------------------------------------------------
(* What becomes of a message after a yes.                                  *)

\* An insert that throws leaves the agents behind it without the message.
LEMMA ThrownBehind ==
  ASSUME TypeOK, NEW s \in Slots, TaskInv(s), tasks[s].at = "fan",
         tasks[s].todo # <<>>, NEW m, NEW a, Listed(s, a),
         a # Head(tasks[s].todo), m \in inbox[Head(tasks[s].todo)]
  PROVE  Behind(m, a)
<1> DEFINE todo == tasks[s].todo
<1>1. Head(todo) = todo[1] /\ Len(todo) \in Nat /\ Len(wired) \in Nat
  BY FanningOut, TaskParts, Wired
<1>2. PICK k \in 0 .. Len(wired) :
        /\ k + Len(todo) <= Len(wired)
        /\ \A i \in 1 .. Len(todo) : todo[i] = wired[k + i]
  BY DEF TaskInv, ListInv
<1>3. PICK j \in 1 .. Len(todo) : todo[j] = a
  BY DEF Listed
<1>4. j > 1 /\ 1 \in 1 .. Len(todo)
  BY <1>1, <1>3
<1>5. wired[k + j] = a /\ m \in inbox[wired[k + 1]]
  <2>1. todo[1] = wired[k + 1] /\ todo[j] = wired[k + j]
    BY <1>2, <1>3, <1>4
  <2> QED  BY <1>1, <1>3, <2>1
<1>6. k + 1 \in 1 .. Len(wired) /\ k + j \in 1 .. Len(wired) /\ k + 1 < k + j
  <2>1. /\ k \in Nat /\ j \in Nat /\ Len(todo) \in Nat /\ Len(wired) \in Nat
        /\ j <= Len(todo) /\ j > 1 /\ k + Len(todo) <= Len(wired)
    BY <1>1, <1>2, <1>3, <1>4
  <2> HIDE DEF todo
  <2> QED  BY <2>1
<1> QED  BY <1>5, <1>6 DEF Behind

LEMMA CarrierStep ==
  ASSUME Stepping, ~Restarts, NEW s \in Slots, NEW m \in Messages, NEW a \in Agents,
         Carries(s, m, a)
  PROVE  Reached(m, a)'
<1> USE DEF chat, setup, sessions, rows, flights, ghosts
<1>a. TypeOK /\ TypeOK' /\ Grows /\ TaskInv(s) /\ a # None
  BY DEF Stepping, IInv, RegistrationAssumption
<1>b. /\ tasks[s].msg = m /\ tasks[s].agent = a
      /\ tasks[s].at \in {"admit", "unpend", "unpendSender", "route", "fan"}
  BY DEF Carries, Works
<1>c. ASSUME /\ tasks'[s].msg = m /\ tasks'[s].agent = a
             /\ tasks'[s].at \in {"admit", "unpend", "unpendSender", "route", "fan"}
      PROVE  Reached(m, a)'
  BY <1>c DEF Reached, Carries, Works
<1>d. m \in inbox[a] => Reached(m, a)'
  BY <1>a DEF Reached, Grows
<1>1. CASE ~Handles(s)
  BY <1>1, <1>b, <1>c, BusyStays
<1>2. CASE routeInbound(s)
  <2>1. tasks[s].at = "route" /\ IsWired(a)
    BY <1>2, <1>a, <1>b DEF routeInbound, TaskInv, Follows
  <2>2. wired # <<>>
    BY <2>1 DEF IsWired
  <2> QED  BY <1>2, <1>a, <1>b, <1>c, <2>2, Routed DEF routeInbound
<1>3. CASE FansOut(s)
  <2> DEFINE b == Head(tasks[s].todo)
  <2>1. tasks[s].at = "fan" /\ tasks[s].todo # <<>>
    BY <1>3 DEF FansOut
  <2>2. m \in inbox[a] \/ Listed(s, a)
    BY <1>a, <1>b, <2>1 DEF TaskInv
  <2>3. CASE tasks' = [tasks EXCEPT ![s].todo = Tail(@)]
    BY <1>a, <1>b, <1>c, <2>1, <2>3, FanningOut
  <2>4. CASE m \in inbox[b]
    <3>1. CASE m \in inbox[a]
      BY <1>d, <3>1
    <3>2. CASE m \notin inbox[a]
      <4>1. Behind(m, a)
        BY <1>a, <2>1, <2>2, <2>4, <3>2, ThrownBehind
      <4> QED  BY <1>a, <4>1, BehindStays DEF Reached
    <3> QED  BY <3>1, <3>2
  <2> QED  BY <1>3, <1>b, <2>3, <2>4 DEF FansOut, Refuses, Stores, Passes
<1>4. CASE FanOutEnds(s)
  <2>1. tasks[s].at = "fan" /\ ~Listed(s, a)
    BY <1>4 DEF FanOutEnds, Listed
  <2> QED  BY <1>a, <1>b, <1>d, <2>1 DEF TaskInv
<1>5. CASE AdmitsSender(s) \/ ReplaysChannel(s) \/ ReplaysSender(s)
  <2>1. PICK at \in {"unpend", "route"} : Next_(s, at)
    BY <1>5 DEF AdmitsSender, ReplaysChannel, ReplaysSender
  <2> QED  BY <1>a, <1>b, <1>c, <2>1, GoingOn DEF At
<1> QED
  BY <1>1, <1>2, <1>3, <1>4, <1>5, <1>b
  DEF Handles, WiresApproved, GivesUpWiring, Denies, Drops, ApprovesSender, DropsSender

LEMMA ReachedStep ==
  ASSUME Stepping, ~Restarts, NEW m \in Messages, NEW a \in Agents, Reached(m, a)
  PROVE  Reached(m, a)'
<1>1. TypeOK /\ TypeOK' /\ Grows
  BY DEF Stepping, IInv
<1> QED  BY <1>1, CarrierStep, BehindStays DEF Reached, Grows

LEMMA StoredStep ==
  ASSUME Stepping, ~Restarts, NEW m \in Messages, Stored(m)
  PROVE  Stored(m)'
<1>1. TypeOK /\ TypeOK' /\ Grows
  BY DEF Stepping, IInv
<1>2. ASSUME NEW a \in Agents, Reached(m, a)' PROVE Stored(m)'
  <2>1. CASE Behind(m, a)'
    <3>1. \A i \in 1 .. Len(wired') : wired'[i] \in groups'
      BY <1>1, Wired DEF TypeOK
    <3> QED  BY <1>1, <2>1, <3>1 DEF Behind, Stored, TypeOK
  <2> QED  BY <1>2, <2>1 DEF Reached, Stored
<1> QED  BY <1>1, <1>2, CarrierStep DEF Stored, Grows

-----------------------------------------------------------------------------
(* The cards of unknown senders.                                           *)

LEMMA DroppingFrom ==
  ASSUME Stepping, NEW m \in Messages, NEW a \in Agents, Dropping(m, a)'
  PROVE  Dropping(m, a) \/ (IsHeld(m, a) /\ m \notin owed')
<1>a. TypeOK
  BY DEF Stepping, IInv
<1>1. PICK s \in Slots : Works(s, m, a, {"dropSender"})'
  BY DEF Dropping
<1>2. CASE tasks'[s] = tasks[s]
  BY <1>1, <1>2 DEF Dropping, Works
<1>3. ~Handles(s)
  <2>1. SUFFICES ASSUME Handles(s) PROVE FALSE
    OBVIOUS
  <2>2. ~Ends(s)
    BY <1>a, <1>1, EndingTask DEF Idle, Works
  <2>3. ASSUME NEW at \in At, Next_(s, at) PROVE at = "dropSender"
    BY <1>a, <1>1, <2>3, GoingOn DEF Works
  <2>4. ~routeInbound(s)
    BY <1>a, <1>1, <2>2, Routed DEF routeInbound, Works
  <2>5. ~FansOut(s)
    BY <1>a, <1>1, <2>2, FanningOut DEF FansOut, Refuses, Stores, Passes, Works
  <2> QED
    BY <2>1, <2>2, <2>3, <2>4, <2>5
    DEF Handles, FanOutEnds, WiresApproved, GivesUpWiring, AdmitsSender, ReplaysChannel, Denies,
        Drops, ApprovesSender, ReplaysSender, DropsSender, At
<1>4. CASE Restarts
  BY <1>1, <1>4 DEF Restarts, Idle, Works
<1>5. CASE Started(s)
  <2>1. PICK h \in held : ClicksSender(h, FALSE) /\ h.msg = m /\ h.agent = a
    BY <1>1, <1>5 DEF Started, Works
  <2> QED  BY <2>1 DEF ClicksSender, IsHeld
<1> QED  BY <1>2, <1>3, <1>4, <1>5, Origin

\* For a message that no yes has let through, the approver is asked by its
\* first fan-out, when it comes to the agent.
LEMMA ApproverAskedBy ==
  ASSUME Stepping, NEW m \in Messages, NEW a \in Agents,
         Asked(m, a)', ~Asked(m, a), ~Stored(m)
  PROVE  /\ m \in sent /\ UNCHANGED held
         /\ \E s \in Slots : /\ First(s, m) /\ tasks[s].at = "fan" /\ Listed(s, a)
                             /\ tasks[s].todo # <<>> /\ a = Head(tasks[s].todo)
                             /\ tasks' = [tasks EXCEPT ![s].todo = Tail(@)]
<1>a. TypeOK /\ a # None
  BY DEF Stepping, IInv, RegistrationAssumption
<1>1. PICK r \in requests' : r.msg = m /\ r.agent = a /\ r \notin requests
  BY DEF Asked
<1>2. PICK s \in Slots :
        /\ tasks[s].msg = m /\ m \in sent /\ UNCHANGED held
        /\ tasks[s].at = "fan" /\ Listed(s, a)
        /\ tasks[s].todo # <<>> /\ a = Head(tasks[s].todo)
        /\ tasks' = [tasks EXCEPT ![s].todo = Tail(@)]
  BY <1>1, <1>a, AskedBy
<1>3. tasks[s].agent = None
  <2>1. tasks[s].agent \in Agents \cup {None}
    BY <1>a, TaskParts
  <2>2. tasks[s].agent \in Agents => Carries(s, m, tasks[s].agent)
    BY <1>2 DEF Carries, Works
  <2> QED  BY <2>1, <2>2 DEF Stored
<1> QED  BY <1>2, <1>3 DEF First, Works

\* A fan-out does not come to an agent twice.
LEMMA PassedOnce ==
  ASSUME TypeOK, WiredInv, NEW s \in Slots, TaskInv(s), tasks[s].at = "fan",
         tasks[s].todo # <<>>, tasks' = [tasks EXCEPT ![s].todo = Tail(@)],
         NEW a, a = Head(tasks[s].todo)
  PROVE  ~Listed(s, a)' /\ tasks'[s].at = "fan" /\ Others(s)
<1> DEFINE todo == tasks[s].todo
<1>1. /\ Head(todo) = todo[1] /\ Len(todo) > 0 /\ Len(Tail(todo)) = Len(todo) - 1
      /\ \A i \in 1 .. Len(Tail(todo)) : Tail(todo)[i] = todo[i + 1]
      /\ tasks'[s].todo = Tail(todo) /\ tasks'[s].at = "fan" /\ Others(s)
  BY FanningOut
<1>2. Len(wired) \in Nat /\ Len(todo) \in Nat
  BY TaskParts, Wired
<1>3. PICK k \in 0 .. Len(wired) :
        /\ k + Len(todo) <= Len(wired)
        /\ \A i \in 1 .. Len(todo) : todo[i] = wired[k + i]
  BY DEF TaskInv, ListInv
<1>4. ASSUME NEW i \in 1 .. Len(Tail(todo)) PROVE Tail(todo)[i] # a
  <2>1. i + 1 \in 1 .. Len(todo) /\ 1 \in 1 .. Len(todo)
    BY <1>1, <1>2
  <2>2. todo[i + 1] = wired[k + (i + 1)] /\ todo[1] = wired[k + 1]
    BY <1>3, <2>1
  <2>3. /\ k + (i + 1) \in 1 .. Len(wired) /\ k + 1 \in 1 .. Len(wired)
        /\ k + (i + 1) # k + 1
    <3>1. /\ i \in Nat /\ i >= 1 /\ i + 1 <= Len(todo) /\ k \in Nat
          /\ k + Len(todo) <= Len(wired)
      BY <1>1, <1>2, <1>3
    <3> HIDE DEF todo
    <3> QED  BY <1>2, <3>1
  <2> QED  BY <1>1, <2>2, <2>3 DEF WiredInv
<1> QED  BY <1>1, <1>4 DEF Listed

LEMMA SenderStep ==
  ASSUME Stepping, NEW m \in Messages, NEW a \in Agents
  PROVE  SenderInv(m, a)'
<1> DEFINE Q == IsHeld(m, a) \/ Dropping(m, a) \/ Asked(m, a)
<1>a. /\ TypeOK /\ RowsInv /\ SenderInv(m, a) /\ FirstOnce /\ WiredInv /\ a # None
      /\ \A s \in Slots : TaskInv(s)
  BY DEF Stepping, IInv, RegistrationAssumption
<1>b. ASSUME IsHeld(m, a)', ~IsHeld(m, a) PROVE Asked(m, a) /\ ~Asked(m, a)'
  <2>1. PICK h \in held' : h.msg = m /\ h.agent = a /\ h \notin held
    BY <1>b DEF IsHeld
  <2> QED  BY <2>1, HeldFrom DEF Asked
<1>1. CASE Restarts
  <2>1. requests' = {} /\ \A s \in Slots : tasks'[s].at = "idle"
    BY <1>1 DEF Restarts, Idle
  <2> QED  BY <2>1 DEF SenderInv, Asked, Dropping, Past, First, Works
<1>2. CASE ~Restarts /\ Stored(m)
  BY <1>2, StoredStep DEF SenderInv
<1>3. CASE ~Stored(m) /\ ~Q
  <2>1. SUFFICES ASSUME Asked(m, a)' PROVE SenderInv(m, a)'
    BY <1>b, <1>3, DroppingFrom DEF SenderInv
  <2>2. PICK s \in Slots : /\ First(s, m) /\ tasks[s].at = "fan"
                           /\ tasks[s].todo # <<>> /\ a = Head(tasks[s].todo)
                           /\ tasks' = [tasks EXCEPT ![s].todo = Tail(@)]
    BY <1>3, <2>1, ApproverAskedBy
  <2>3. ~Listed(s, a)' /\ tasks'[s].at = "fan" /\ Others(s)
    BY <1>a, <2>2, PassedOnce
  <2>4. ASSUME NEW t \in Slots, First(t, m)' PROVE t = s
    BY <1>a, <2>2, <2>3, <2>4 DEF FirstOnce, Others, First, Works
  <2>5. Past(m, a)'
    BY <2>3, <2>4 DEF Past
  <2> QED  BY <1>b, <1>3, <2>5, DroppingFrom DEF SenderInv
<1>4. CASE ~Stored(m) /\ Q
  <2>1. m \in sent
    BY <1>a, <1>4 DEF RowsInv, IsHeld, Dropping, Works, Asked, TaskInv
  <2>2. Past(m, a)
    BY <1>a, <1>4 DEF SenderInv
  <2>3. ASSUME NEW t \in Slots, First(t, m)'
        PROVE  tasks'[t].at = "fan" /\ ~Listed(t, a)'
    BY <2>1, <2>2, <2>3, FirstStep DEF Past
  <2>4. Past(m, a)'
    BY <2>3 DEF Past
  <2>5. Asked(m, a)' => Asked(m, a)
    BY <1>4, <2>2, ApproverAskedBy DEF Past
  <2>6. IsHeld(m, a) \/ Dropping(m, a) => ~Asked(m, a)'
    BY <1>a, <1>4, <2>5 DEF SenderInv
  <2> QED  BY <1>b, <2>4, <2>6, DroppingFrom DEF SenderInv
<1> QED  BY <1>1, <1>2, <1>3, <1>4

-----------------------------------------------------------------------------
(* What is owed and what is approved.                                      *)

\* A row that goes takes its message to the agent, or was refused, or goes by
\* a click that had read an earlier row.
LEMMA RowGone ==
  ASSUME Stepping, ~Restarts, NEW m \in Messages, row = m, row' # m,
         ~Denying(m), m \in owed'
  PROVE  Stored(m)
<1> USE DEF chat, setup, sessions, rows, flights, ghosts
<1>a. Step /\ TypeOK /\ (\A s \in Slots : TaskInv(s)) /\ m # None
  BY DEF Stepping, IInv, RegistrationAssumption
<1>1. row' = None
  BY <1>a, RowFrom
<1>2. PICK s \in Slots : ReplaysChannel(s) \/ Drops(s) \/ GivesUpWiring(s)
  BY <1>1, <1>a DEF Step, Handles, Asks, Arrives, Wires, ClicksConnect, routeInbound,
     FansOut, FanOutEnds, WiresApproved,
     AdmitsSender, Denies, ApprovesSender,
     ReplaysSender, DropsSender, requestSenderApproval, requestChannelApproval,
     NobodyToAsk, ClicksReject, ClicksNewAgent, Names, ClicksSender
<1>3. tasks[s].msg = m /\ ~GivesUpWiring(s)
  BY <1>2, <1>a DEF ReplaysChannel, Drops, DeletesRow, GivesUpWiring
<1>4. tasks[s].at = "unpend"
  BY <1>2, <1>3 DEF ReplaysChannel, Drops, Denying
<1>5. tasks[s].agent \in Agents
  BY <1>4, <1>a DEF TaskInv
<1> QED  BY <1>3, <1>4, <1>5 DEF Stored, Carries, Works

LEMMA HeldGone ==
  ASSUME Stepping, NEW m \in Messages, NEW a \in Agents,
         IsHeld(m, a), ~IsHeld(m, a)', ~Dropping(m, a)
  PROVE  Stored(m)
<1> USE DEF chat, setup, sessions, rows, flights, ghosts
<1>a. Step
  BY DEF Stepping, IInv
<1>1. PICK h \in held : h.msg = m /\ h.agent = a /\ h \notin held'
  BY DEF IsHeld
<1>2. PICK s \in Slots : ReplaysSender(s) \/ DropsSender(s)
  BY <1>1, <1>a DEF Step, Handles, Asks, Arrives, Wires, ClicksConnect, routeInbound,
     FansOut, FanOutEnds, WiresApproved, GivesUpWiring,
     AdmitsSender, Denies, ApprovesSender,
     ReplaysChannel, Drops, requestSenderApproval, requestChannelApproval,
     NobodyToAsk, ClicksReject, ClicksNewAgent, Names, ClicksSender, Restarts
<1>3. tasks[s].msg = m /\ tasks[s].agent = a
  BY <1>1, <1>2 DEF ReplaysSender, DropsSender
<1>4. tasks[s].at = "unpendSender"
  BY <1>2, <1>3 DEF ReplaysSender, DropsSender, Dropping, Works
<1> QED  BY <1>3, <1>4 DEF Stored, Carries, Works

\* What a step adds to the messages kept for an approver is in a row.
LEMMA NewlyOwed ==
  ASSUME Stepping, NEW m \in Messages, m \in owed', m \notin owed
  PROVE  /\ UNCHANGED tasks /\ ~Restarts
         /\ \/ row' = m /\ Asked(m, None)
            \/ \E a \in Agents : IsHeld(m, a)' /\ Asked(m, a)
<1> USE DEF chat, setup, sessions, rows, flights, ghosts
<1>a. Step /\ TypeOK
  BY DEF Stepping, IInv
<1>1. PICK r \in requests : requestChannelApproval(r) \/ requestSenderApproval(r)
  BY <1>a DEF Step, Handles, Asks, Arrives, Wires, ClicksConnect, routeInbound,
     FansOut, FanOutEnds, WiresApproved, GivesUpWiring,
     AdmitsSender, Denies, ApprovesSender,
     ReplaysChannel, Drops, ReplaysSender, DropsSender, DeletesRow,
     NobodyToAsk, ClicksReject, ClicksNewAgent, Names, ClicksSender, Restarts
<1>2. CASE requestChannelApproval(r)
  BY <1>2 DEF requestChannelApproval, Restarts, Asked
<1>3. CASE requestSenderApproval(r)
  <2>1. r.agent \in Agents /\ r.msg = m
    BY <1>3, <1>a DEF requestSenderApproval, TypeOK
  <2>2. PICK yes \in BOOLEAN :
          held' = held \cup {[msg |-> r.msg, agent |-> r.agent, shown |-> yes]}
    BY <1>3 DEF requestSenderApproval
  <2>3. IsHeld(m, r.agent)' /\ Asked(m, r.agent)
    <3>1. PICK h \in held' : h = [msg |-> r.msg, agent |-> r.agent, shown |-> yes]
      BY <2>2
    <3>2. h.msg = m /\ h.agent = r.agent
      BY <2>1, <3>1
    <3>3. IsHeld(m, r.agent)'
      BY <3>2 DEF IsHeld
    <3> QED  BY <2>1, <3>3 DEF Asked
  <2>4. UNCHANGED tasks /\ ~Restarts
    BY <1>3, <2>1 DEF requestSenderApproval, Restarts
  <2> QED  BY <2>1, <2>3, <2>4
<1> QED  BY <1>1, <1>2, <1>3

LEMMA SafeStep ==
  ASSUME Stepping, NEW m \in Messages, m \in owed'
  PROVE  Safe(m)'
<1> USE DEF chat, setup, sessions, rows, flights, ghosts
<1>a. m \in owed => Safe(m)
  BY DEF Stepping, IInv
<1>1. CASE Restarts
  <2>1. m \in owed /\ ~InFlight(m) /\ UNCHANGED <<inbox, row, held>>
    BY <1>1 DEF Restarts
  <2>2. \A s \in Slots : tasks'[s].at = "idle"
    BY <1>1 DEF Restarts, Idle
  <2>3. ~Denying(m)' /\ \A a \in Agents : ~Dropping(m, a)'
    BY <2>2 DEF Denying, Dropping, Works
  <2>4. CASE Stored(m)
    BY <2>1, <2>4 DEF Stored, Carries, Works, InFlight, Safe
  <2>5. CASE row = m
    BY <2>1, <2>3, <2>5 DEF Safe
  <2>6. ASSUME NEW a \in Agents, IsHeld(m, a) PROVE Safe(m)'
    BY <2>1, <2>3, <2>6 DEF Safe, IsHeld
  <2> QED  BY <1>a, <2>1, <2>4, <2>5, <2>6 DEF Safe
<1>2. CASE ~Restarts /\ Stored(m)
  BY <1>2, StoredStep DEF Safe
<1>3. CASE ~Restarts /\ ~Stored(m) /\ m \in owed
  <2>1. CASE row = m /\ ~Denying(m)
    <3>1. row' = m
      BY <1>3, <2>1, RowGone
    <3>2. ~Denying(m)'
      BY <2>1, DenyingFrom
    <3> QED  BY <3>1, <3>2 DEF Safe
  <2>2. ASSUME NEW a \in Agents, IsHeld(m, a), ~Dropping(m, a) PROVE Safe(m)'
    <3>1. IsHeld(m, a)'
      BY <1>3, <2>2, HeldGone
    <3>2. ~Dropping(m, a)'
      BY <2>2, DroppingFrom
    <3> QED  BY <3>1, <3>2 DEF Safe
  <2> QED  BY <1>a, <1>3, <2>1, <2>2 DEF Safe
<1>4. CASE ~Stored(m) /\ m \notin owed
  <2>1. UNCHANGED tasks
    BY <1>4, NewlyOwed
  <2>2. CASE row' = m /\ Asked(m, None)
    <3>1. ~Denying(m)
      BY <2>2 DEF Stepping, IInv, ChannelInv
    <3>2. ~Denying(m)'
      BY <2>1, <3>1 DEF Denying
    <3> QED  BY <2>2, <3>2 DEF Safe
  <2>3. ASSUME NEW a \in Agents, IsHeld(m, a)', Asked(m, a) PROVE Safe(m)'
    <3>1. ~Dropping(m, a)
      BY <1>4, <2>3 DEF Stepping, IInv, SenderInv
    <3>2. ~Dropping(m, a)'
      BY <2>1, <3>1 DEF Dropping, Works
    <3> QED  BY <2>3, <3>2 DEF Safe
  <2> QED  BY <1>4, <2>2, <2>3, NewlyOwed
<1> QED  BY <1>1, <1>2, <1>3, <1>4

LEMMA ApprovedStep ==
  ASSUME Stepping, NEW p \in approved'
  PROVE  Reached(p[1], p[2])'
<1> USE DEF chat, setup, sessions, rows, flights, ghosts
<1>a. /\ Step /\ TypeOK /\ p[1] \in Messages /\ p[2] \in Agents
      /\ p = <<p[1], p[2]>>
      /\ p \in approved => Reached(p[1], p[2])
      /\ \A s \in Slots : TaskInv(s)
  BY DEF Stepping, IInv, TypeOK
<1>1. CASE Restarts
  <2>1. p \in approved /\ ~InFlight(p[1]) /\ UNCHANGED <<wired, inbox>>
    BY <1>1 DEF Restarts
  <2>2. p[1] \in inbox[p[2]] \/ Behind(p[1], p[2])
    BY <1>a, <2>1 DEF Reached, Carries, Works, InFlight
  <2> QED  BY <2>1, <2>2 DEF Reached, Behind
<1>2. CASE ~Restarts /\ p \in approved
  BY <1>2, <1>a, ReachedStep
<1>3. CASE ~Restarts /\ p \notin approved
  <2>1. PICK s \in Slots : WiresApproved(s) \/ ApprovesSender(s)
    BY <1>3, <1>a DEF Step, Handles, Asks, Arrives, Wires, ClicksConnect, routeInbound,
       FansOut, FanOutEnds, GivesUpWiring, AdmitsSender, Denies,
       ReplaysChannel, Drops, ReplaysSender, DropsSender, requestSenderApproval,
       requestChannelApproval,
       NobodyToAsk, ClicksReject, ClicksNewAgent, Names, ClicksSender, Restarts
  <2>2. /\ Next_(s, "admit") \/ Next_(s, "unpendSender")
        /\ p = <<tasks[s].msg, tasks[s].agent>>
    BY <1>3, <2>1 DEF WiresApproved, ApprovesSender
  <2>3. Carries(s, p[1], p[2])'
    BY <1>a, <2>2, GoingOn DEF At, Carries, Works
  <2> QED  BY <2>3 DEF Reached
<1> QED  BY <1>1, <1>2, <1>3

-----------------------------------------------------------------------------
(* The invariant.                                                          *)

LEMMA InitKeeps == Init => IInv
<1> SUFFICES ASSUME Init PROVE IInv
  OBVIOUS
<1>1. TypeOK
  BY InitTypes
<1>2. DOMAIN wired = 1 .. Len(wired)
  BY <1>1 DEF TypeOK
<1>3. WiredInv
  BY <1>2 DEF Init, IsInjective, WiredInv
<1>4. RowsInv /\ RefusedInv /\ StrangersAreNotStored
  BY DEF Init, RowsInv, RefusedInv, StrangersAreNotStored
<1>5. \A s \in Slots : tasks[s].at = "idle"
  BY DEF Init, Idle
<1>6. FirstOnce /\ \A s \in Slots : TaskInv(s)
  BY <1>5 DEF FirstOnce, First, Works, TaskInv, Follows
<1>7. ASSUME NEW m \in Messages PROVE ChannelInv(m)
  BY <1>5, RegistrationAssumption
  DEF Init, ChannelInv, Denying, Asked
<1>8. ASSUME NEW m \in Messages, NEW a \in Agents PROVE SenderInv(m, a)
  BY <1>5 DEF Init, SenderInv, IsHeld, Dropping, Works, Asked
<1>9. owed = {} /\ approved = {}
  BY DEF Init
<1> QED  BY <1>1, <1>3, <1>4, <1>6, <1>7, <1>8, <1>9 DEF IInv

LEMMA StepKeeps == IInv /\ [Next]_vars => IInv'
<1> SUFFICES ASSUME IInv, [Next]_vars PROVE IInv'
  OBVIOUS
<1>1. CASE Next
  <2>1. Step /\ faults' <= MaxFaults /\ TypeOK /\ WiredInv /\ \A s \in Slots : TaskInv(s)
    BY <1>1 DEF Next, IInv
  <2>2. Stepping
    BY <2>1, TypeStep, StepGrows DEF Stepping
  <2>3. TypeOK' /\ WiredInv'
    BY <2>2 DEF Stepping
  <2>4. RowsInv' /\ FirstOnce' /\ RefusedInv' /\ StrangersAreNotStored'
    BY <2>2, RowsStep, FirstOnceStep, RefusedStep, StrangersStep
  <2>5. (\A s \in Slots : TaskInv(s))'
    BY <2>2, TasksStep
  <2>6. (\A m \in Messages : ChannelInv(m))'
    BY <2>2, ChannelStep
  <2>7. (\A m \in Messages, a \in Agents : SenderInv(m, a))'
    BY <2>2, SenderStep
  <2>8. (\A m \in owed : Safe(m))'
    BY <2>2, <2>3, SafeStep DEF TypeOK
  <2>9. (\A p \in approved : Reached(p[1], p[2]))'
    BY <2>2, ApprovedStep
  <2> QED  BY <2>3, <2>4, <2>5, <2>6, <2>7, <2>8, <2>9 DEF IInv
<1>2. CASE UNCHANGED vars
  <2>1. UNCHANGED <<policy, mentions, engages, sticky, groups, wired, keeps, denied,
                    members, inbox, context, row, card, held, awaiting, tasks,
                    requests, sent, approved, owed, refused, faults>>
    BY <1>2 DEF vars, chat, setup, sessions, rows, flights, ghosts
  <2>2. /\ TypeOK' /\ WiredInv' /\ RowsInv' /\ FirstOnce'
        /\ RefusedInv' /\ StrangersAreNotStored'
    BY <2>1 DEF IInv, TypeOK, WiredInv, RowsInv, IsWired, FirstOnce, First, Works,
       StrangersAreNotStored, RefusedInv, Known, Wants, Engages
  <2>3. (\A s \in Slots : TaskInv(s))'
    BY <2>1 DEF IInv, TaskInv, Follows, IsWired, ListInv, Listed, Wants, Engages
  <2>4. (\A m \in Messages : ChannelInv(m))'
    BY <2>1 DEF IInv, ChannelInv, Denying, Asked, First, Works
  <2>5. \A m \in Messages : Stored(m) <=> Stored(m)'
    BY <2>1 DEF Stored, Carries, Works
  <2>6. (\A m \in Messages, a \in Agents : SenderInv(m, a))'
    BY <2>1, <2>5
    DEF IInv, SenderInv, IsHeld, Dropping, Asked, Past, First, Works, Listed
  <2>7. (\A m \in owed : Safe(m))'
    BY <2>1, <2>2, <2>5 DEF IInv, TypeOK, Safe, Denying, Dropping, Works, IsHeld
  <2>8. (\A p \in approved : Reached(p[1], p[2]))'
    BY <2>1 DEF IInv, Reached, Carries, Works, Behind
  <2> QED  BY <2>2, <2>3, <2>4, <2>6, <2>7, <2>8 DEF IInv
<1> QED  BY <1>1, <1>2

\* Every reachable state: the router, the cards and the replays keep to all of
\* the parts above, whatever overtakes them and whenever the host restarts.
THEOREM RegistrationInvariant == Spec => []IInv
<1> QED  BY InitKeeps, StepKeeps, PTL DEF Spec

\* The rows, tasks and requests of the router and the cards have their types.
THEOREM TypeCorrect == Spec => []TypeOK
<1>1. IInv => TypeOK
  BY DEF IInv
<1> QED  BY <1>1, RegistrationInvariant, PTL

\* The sender gate of the router lets no stranger's message into a session,
\* also when it is routed again after a yes for another agent.
THEOREM StrangersStayOut == Spec => []StrangersAreNotStored
<1>1. IInv => StrangersAreNotStored
  BY DEF IInv
<1> QED  BY <1>1, RegistrationInvariant, PTL

\* A message kept in a pending row of either kind is there, on its way or in a
\* session until somebody says no: no overlap of clicks, routings and deletions
\* of rows loses it, but the two ways HeldIsAnswered names.
THEOREM HeldIsKept == Spec => []HeldIsAnswered
<1>1. IInv => HeldIsAnswered
  <2> SUFFICES ASSUME IInv, NEW m \in owed
               PROVE  \/ row = m
                      \/ \E h \in held : h.msg = m
                      \/ InFlight(m)
                      \/ \E a \in Agents : m \in inbox[a]
    BY DEF HeldIsAnswered
  <2>1. Safe(m)
    BY DEF IInv
  <2> QED  BY <2>1 DEF Safe, Stored, Carries, Works, InFlight, IsHeld
<1> QED  BY <1>1, RegistrationInvariant, PTL

\* A yes, on a registration card or on a sender's, brings the message to the
\* agent it was about, but for a duplicate insert earlier in the fan-out.
THEOREM HeardOrDuplicate == Spec => []UnheardOnlyBehindADuplicate
<1>1. IInv => UnheardOnlyBehindADuplicate
  <2> SUFFICES ASSUME IInv, NEW p \in approved
               PROVE  \/ Heard(p[1], p[2])
                      \/ \E i, j \in 1 .. Len(wired) :
                           i < j /\ wired[j] = p[2] /\ p[1] \in inbox[wired[i]]
    BY DEF UnheardOnlyBehindADuplicate
  <2>1. Reached(p[1], p[2])
    BY DEF IInv
  <2> QED  BY <2>1 DEF Reached, Carries, Works, Behind, Heard, InFlight
<1> QED  BY <1>1, RegistrationInvariant, PTL
=============================================================================
