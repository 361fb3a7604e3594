------------------------ MODULE ChannelRegistration ------------------------
(***************************************************************************)
(* One chat that an agent may or may not be connected to yet: the router   *)
(* (router.ts), the registration cards of an unwired chat and the cards    *)
(* for unknown senders (modules/permissions).  A message that needs a yes  *)
(* is kept in a pending row and routed again, from the top, once the       *)
(* approver has said yes.                                                  *)
(*                                                                         *)
(* A handler is a task that other tasks overtake at every await that       *)
(* writes; reads that nothing can overtake with effect are part of the     *)
(* step that uses them.  The rows survive a restart, the tasks, requests   *)
(* on their way and the prompt for a new agent's name do not.              *)
(***************************************************************************)
EXTENDS Naturals, Sequences, FiniteSets, SequencesExt, FiniteSetsExt

CONSTANTS
  Messages,  \* messages of the chat
  Senders,
  Owners,    \* senders every agent may be talked to by
  From,      \* sender of each message
  Agents,    \* agent groups, those created later included
  Slots,     \* handlers that may run at a time
  Setups,    \* chats to begin with
  MaxFaults, \* bound on restarts, failed deliveries and unusable rows
  None

\* What is settled about a chat when the host starts: the policy for unknown
\* senders, the messages that mention the bot, those that the wiring of each
\* agent engages on, the mention-sticky wirings and those that accumulate.
Setup == [policy : {"request_approval", "strict"}, mentions : SUBSET Messages,
          engages : [Agents -> SUBSET Messages], sticky : SUBSET Agents,
          keeps : SUBSET Agents]

ASSUME RegistrationAssumption ==
  /\ Owners \subseteq Senders
  /\ From \in [Messages -> Senders]
  /\ Setups \subseteq Setup
  /\ MaxFaults \in Nat
  /\ None \notin Messages \cup Agents

VARIABLES
  policy,    \* unknown_sender_policy of the chat
  mentions,  \* messages that mention the bot
  engages,   \* messages each agent's wiring engages on: by its pattern for
             \* one, by the mention for another
  sticky,    \* agents whose wiring is mention-sticky, in a group chat
  groups,    \* agent groups that exist
  wired,     \* messaging_group_agents of the chat, in fan-out order
  keeps,     \* agents whose wiring accumulates what it does not engage on
  denied,    \* denied_at is set
  members,   \* agent_group_members
  inbox,     \* messages in the chat's session of each agent
  context,   \* message and agent of those stored without a wake (trigger 0)
  row,       \* pending_channel_approvals: the message it keeps, or None
  card,      \* a registration card for the chat was delivered
  held,      \* pending_sender_approvals; message and agent tell rows apart
  awaiting,  \* awaitingNameInput has an entry for the chat
  tasks, requests,
  sent,      \* messages the channel has handed over
  approved,  \* ghost: message and agent of each yes that took effect and
             \* whose replay no restart caught
  owed,      \* ghost: messages kept in a row and neither refused since, nor
             \* lost: in flight at a restart, or in a row deleted by a click
             \* that had read an earlier row of the chat or cannot wire its own
  refused,   \* ghost: message and agent of each refusal by the sender gate of
             \* what was not in the session yet
  faults

setup    == <<policy, mentions, engages, sticky>>
chat     == <<setup, groups, wired, keeps, denied, members>>
sessions == <<inbox, context>>
rows     == <<row, card, held>>
flights  == <<awaiting, tasks, requests>>
ghosts   == <<approved, owed, refused>>
vars == <<chat, sessions, rows, flights, sent, ghosts, faults>>

\* What a handler has to do next, with the row it read when it started.
Task == [at : {"idle", "route", "fan", "wire", "admit", "unpend", "deny",
               "drop", "admitSender", "unpendSender", "dropSender"},
         msg : Messages \cup {None}, agent : Agents \cup {None},
         todo : Seq(Agents)]
Held == [msg : Messages, agent : Agents, shown : BOOLEAN]

Idle == [at |-> "idle", msg |-> None, agent |-> None, todo |-> <<>>]
Does(at, m, a) == [at |-> at, msg |-> m, agent |-> a, todo |-> <<>>]

Starts(t) ==
  \E s \in Slots : tasks[s] = Idle /\ tasks' = [tasks EXCEPT ![s] = t]
Next_(s, at) == tasks' = [tasks EXCEPT ![s].at = at]
Ends(s) == tasks' = [tasks EXCEPT ![s] = Idle]

\* canAccessAgentGroup
Known(sender, a) == sender \in Owners \/ <<sender, a>> \in members

\* The card reaches the approver, or its delivery fails and is only logged.
Shown(yes) == faults' = IF yes THEN faults ELSE faults + 1

Init ==
  /\ \E c \in Setups :
       /\ policy = c.policy /\ mentions = c.mentions
       /\ engages = c.engages /\ sticky = c.sticky /\ keeps = c.keeps
  /\ groups \in {G \in SUBSET Agents : G # {}}
  /\ wired \in {w \in SeqOf(groups, Cardinality(groups)) : IsInjective(w)}
  /\ denied = FALSE /\ members = {} /\ inbox = [a \in Agents |-> {}]
  /\ context = {} /\ refused = {}
  /\ row = None /\ card = FALSE /\ held = {}
  /\ awaiting = FALSE /\ tasks = [s \in Slots |-> Idle] /\ requests = {}
  /\ sent = {} /\ approved = {} /\ owed = {}
  /\ faults = 0

-----------------------------------------------------------------------------
(* Routing.                                                                *)

Arrives(m) ==
  /\ m \notin sent /\ sent' = sent \cup {m}
  /\ Starts(Does("route", m, None))
  /\ UNCHANGED <<chat, sessions, rows, awaiting, requests, ghosts, faults>>

\* An operator connects an agent, from a setup script or the command line.
Wires(a) ==
  /\ a \in groups \ Range(wired) /\ wired' = Append(wired, a)
  /\ UNCHANGED <<setup, groups, keeps, denied, members, sessions, rows,
                 flights, sent, ghosts, faults>>

\* A chat nobody serves: whoever addressed the bot is dropped, and the
\* owner is asked in the background unless the chat was denied.
routeInbound(s) ==
  LET m == tasks[s].msg IN
  /\ tasks[s].at = "route"
  /\ IF wired = <<>>
       THEN /\ Ends(s)
            /\ requests' = requests \cup
                 (IF m \in mentions /\ ~denied
                    THEN {[msg |-> m, agent |-> None]} ELSE {})
       ELSE /\ tasks' = [tasks EXCEPT ![s].at = "fan", ![s].todo = wired]
            /\ UNCHANGED requests
  /\ UNCHANGED <<chat, sessions, rows, awaiting, sent, ghosts, faults>>

\* evaluateEngage: a mention-sticky wiring follows on once its agent has a
\* session.
Engages(m, a) == m \in engages[a] \/ (a \in sticky /\ inbox[a] # {})

Passes(s) == tasks' = [tasks EXCEPT ![s].todo = Tail(@)]

\* deliverToAgent: the row's id is derived from the message and the agent,
\* and the insert of an id the session has throws out of routeInbound.
Stores(s, a, wakes) ==
  LET m == tasks[s].msg IN
  IF m \in inbox[a]
    THEN Ends(s) /\ UNCHANGED sessions
    ELSE /\ inbox' = [inbox EXCEPT ![a] = @ \cup {m}]
         /\ context' = IF wakes THEN context ELSE context \cup {<<m, a>>}
         /\ Passes(s)

\* handleUnknownSender
Refuses(s, a) ==
  LET m == tasks[s].msg IN
  /\ refused' = IF m \in inbox[a] THEN refused ELSE refused \cup {<<m, a>>}
  /\ requests' = requests \cup
       (IF policy = "request_approval" THEN {[msg |-> m, agent |-> a]} ELSE {})

\* Mutant: a wiring that accumulates keeps what its gate refused, too.
KeepsRefused(s) ==
  /\ tasks[s].at = "fan" /\ tasks[s].todo # <<>>
  /\ LET m == tasks[s].msg
         a == Head(tasks[s].todo)
         passed == Engages(m, a) /\ Known(From[m], a)
     IN /\ IF passed \/ a \in keeps THEN Stores(s, a, passed)
                                    ELSE Passes(s) /\ UNCHANGED sessions
        /\ IF Engages(m, a) /\ ~passed THEN Refuses(s, a)
                                       ELSE UNCHANGED <<requests, refused>>
  /\ UNCHANGED <<chat, rows, awaiting, sent, approved, owed, faults>>

\* One wiring of the fan-out, by its own mode and policy.  The sender gate is
\* asked about a message that engages the agent, and what it refuses is not
\* accumulated; what does not engage the agent is, whoever wrote it.
FansOut(s) ==
  /\ tasks[s].at = "fan" /\ tasks[s].todo # <<>>
  /\ LET m == tasks[s].msg
         a == Head(tasks[s].todo)
     IN \/ /\ Engages(m, a) /\ Known(From[m], a) /\ Stores(s, a, TRUE)
           /\ UNCHANGED <<requests, refused>>
        \/ /\ Engages(m, a) /\ ~Known(From[m], a) /\ Refuses(s, a)
           /\ Passes(s) /\ UNCHANGED sessions
        \/ /\ ~Engages(m, a) /\ a \in keeps /\ Stores(s, a, FALSE)
           /\ UNCHANGED <<requests, refused>>
        \/ /\ ~Engages(m, a) /\ a \notin keeps /\ Passes(s)
           /\ UNCHANGED <<sessions, requests, refused>>
  /\ UNCHANGED <<chat, rows, awaiting, sent, approved, owed, faults>>

FanOutEnds(s) ==
  /\ tasks[s].at = "fan" /\ tasks[s].todo = <<>> /\ Ends(s)
  /\ UNCHANGED <<chat, sessions, rows, awaiting, requests, sent, ghosts, faults>>
-----------------------------------------------------------------------------
(* Cards.  The check for a row in flight and the insert, which throws on a *)
(* duplicate key, amount to one test at either moment.                     *)

requestChannelApproval(r) ==
  /\ r \in requests /\ r.agent = None /\ requests' = requests \ {r}
  /\ IF row # None
       THEN UNCHANGED <<row, card, owed, faults>>
       ELSE /\ row' = r.msg /\ owed' = owed \cup {r.msg}
            /\ \E yes \in BOOLEAN :
                 Shown(yes) /\ card' = (card \/ yes)
  /\ UNCHANGED <<chat, sessions, held, awaiting, tasks, sent,
                 approved, refused>>

requestSenderApproval(r) ==
  /\ r \in requests /\ r.agent # None /\ requests' = requests \ {r}
  /\ IF \E h \in held : From[h.msg] = From[r.msg]
       THEN UNCHANGED <<held, owed, faults>>
       ELSE \E yes \in BOOLEAN :
              /\ held' = held \cup {[msg |-> r.msg, agent |-> r.agent,
                                     shown |-> yes]}
              /\ owed' = owed \cup {r.msg}
              /\ Shown(yes)
  /\ UNCHANGED <<chat, sessions, row, card, awaiting, tasks, sent,
                 approved, refused>>

\* No owner or admin, none that can be reached, or a module took it over.
NobodyToAsk(r) ==
  /\ r \in requests /\ requests' = requests \ {r} /\ faults' = faults + 1
  /\ UNCHANGED <<chat, sessions, rows, awaiting, tasks, sent, ghosts>>
-----------------------------------------------------------------------------
(* Clicks on the registration card.  Its buttons stay, so it may be        *)
(* clicked again, also when a later row of the chat has replaced the       *)
(* first.                                                                  *)

ClicksConnect(a) ==
  /\ card /\ row # None /\ a \in groups
  /\ Starts(Does("wire", row, a))
  /\ UNCHANGED <<chat, sessions, rows, awaiting, requests, sent, ghosts, faults>>

ClicksReject ==
  /\ card /\ row # None /\ Starts(Does("deny", row, None))
  /\ owed' = owed \ {row}
  /\ UNCHANGED <<chat, sessions, rows, awaiting, requests, sent, approved,
                 refused, faults>>

\* The prompt for a name, which may fail; a second click asks again.
ClicksNewAgent ==
  /\ card /\ row # None
  /\ \E yes \in BOOLEAN : awaiting' = yes /\ Shown(yes)
  /\ UNCHANGED <<chat, sessions, rows, tasks, requests, sent, ghosts>>

\* The approver's next direct message is taken for the name; an empty one,
\* or one that comes after the row has gone, only ends the waiting.
Names ==
  /\ awaiting /\ awaiting' = FALSE
  /\ \/ UNCHANGED <<groups, tasks>>
     \/ /\ row # None /\ Agents \ groups # {}
        /\ \E a \in Agents \ groups :
             /\ groups' = groups \cup {a}
             /\ Starts(Does("wire", row, a))
  /\ UNCHANGED <<setup, wired, keeps, denied, members, sessions, rows, requests,
                 sent, ghosts, faults>>

\* Mutant: the sender of the kept message is not admitted.
WiresOnly(s) ==
  LET t == tasks[s] IN
  /\ t.at = "wire" /\ t.agent \notin Range(wired)
  /\ wired' = Append(wired, t.agent) /\ keeps' = keeps \cup {t.agent}
  /\ Next_(s, "unpend") /\ approved' = approved \cup {<<t.msg, t.agent>>}
  /\ UNCHANGED <<setup, groups, denied, members, sessions, rows, awaiting,
                 requests, sent, owed, refused, faults>>

\* wireApprovedChannel, one write after the other.  The wiring accumulates.  A
\* second wiring of the same agent throws, and the row stays.
WiresApproved(s) ==
  LET t == tasks[s] IN
  /\ t.at = "wire"
  /\ IF t.agent \in Range(wired)
       THEN Ends(s) /\ UNCHANGED <<wired, keeps, approved>>
       ELSE /\ wired' = Append(wired, t.agent) /\ keeps' = keeps \cup {t.agent}
            /\ Next_(s, "admit") /\ approved' = approved \cup {<<t.msg, t.agent>>}
  /\ UNCHANGED <<setup, groups, denied, members, sessions, rows, awaiting,
                 requests, sent, owed, refused, faults>>

\* The stored event does not parse, the channel's defaults do not resolve or
\* the agent has gone: the row is deleted with whatever it keeps.
GivesUpWiring(s) ==
  /\ tasks[s].at = "wire" /\ Ends(s) /\ faults' = faults + 1
  /\ row' = None /\ owed' = owed \ {row, tasks[s].msg}
  /\ UNCHANGED <<chat, sessions, card, held, awaiting, requests, sent,
                 approved, refused>>

AdmitsSender(s) ==
  LET t == tasks[s] IN
  /\ t.at = "admit" /\ Next_(s, "unpend")
  /\ members' = members \cup {<<From[t.msg], t.agent>>}
  /\ UNCHANGED <<setup, groups, wired, keeps, denied, sessions, rows, awaiting,
                 requests, sent, ghosts, faults>>

\* The row is deleted by the chat it is for, whatever message it keeps now.
DeletesRow(s) ==
  /\ row' = None
  /\ owed' = owed \ ({row} \ {tasks[s].msg})

\* Mutant: the chat is connected and the message forgotten.
ConnectsOnly(s) ==
  /\ tasks[s].at = "unpend" /\ Ends(s) /\ DeletesRow(s)
  /\ UNCHANGED <<chat, sessions, card, held, awaiting, requests, sent,
                 approved, refused, faults>>

ReplaysChannel(s) ==
  /\ tasks[s].at = "unpend" /\ Next_(s, "route") /\ DeletesRow(s)
  /\ UNCHANGED <<chat, sessions, card, held, awaiting, requests, sent,
                 approved, refused, faults>>

Denies(s) ==
  /\ tasks[s].at = "deny" /\ Next_(s, "drop") /\ denied' = TRUE
  /\ UNCHANGED <<setup, groups, wired, keeps, members, sessions, rows, awaiting,
                 requests, sent, ghosts, faults>>

Drops(s) ==
  /\ tasks[s].at = "drop" /\ Ends(s) /\ DeletesRow(s)
  /\ UNCHANGED <<chat, sessions, card, held, awaiting, requests, sent,
                 approved, refused, faults>>
-----------------------------------------------------------------------------
(* Clicks on the card of an unknown sender.                                *)

ClicksSender(h, yes) ==
  /\ h \in held /\ h.shown
  /\ Starts(Does(IF yes THEN "admitSender" ELSE "dropSender",
                 h.msg, h.agent))
  /\ owed' = IF yes THEN owed ELSE owed \ {h.msg}
  /\ UNCHANGED <<chat, sessions, rows, awaiting, requests, sent, approved,
                 refused, faults>>

ApprovesSender(s) ==
  LET t == tasks[s] IN
  /\ t.at = "admitSender" /\ Next_(s, "unpendSender")
  /\ members' = members \cup {<<From[t.msg], t.agent>>}
  /\ approved' = approved \cup {<<t.msg, t.agent>>}
  /\ UNCHANGED <<setup, groups, wired, keeps, denied, sessions, rows, awaiting,
                 requests, sent, owed, refused, faults>>

\* The row goes before the replay, or the replay would take it for a card in
\* flight.
ReplaysSender(s) ==
  LET t == tasks[s] IN
  /\ t.at = "unpendSender" /\ Next_(s, "route")
  /\ held' = held \ {h \in held : h.msg = t.msg /\ h.agent = t.agent}
  /\ UNCHANGED <<chat, sessions, row, card, awaiting, requests, sent,
                 ghosts, faults>>

DropsSender(s) ==
  LET t == tasks[s] IN
  /\ t.at = "dropSender" /\ Ends(s)
  /\ held' = held \ {h \in held : h.msg = t.msg /\ h.agent = t.agent}
  /\ UNCHANGED <<chat, sessions, row, card, awaiting, requests, sent,
                 ghosts, faults>>
-----------------------------------------------------------------------------
InFlight(m) ==
  \/ \E s \in Slots : tasks[s].msg = m
  \/ \E r \in requests : r.msg = m

Restarts ==
  /\ faults' = faults + 1 /\ awaiting' = FALSE /\ requests' = {}
  /\ tasks' = [s \in Slots |-> Idle]
  /\ owed' = {m \in owed : ~InFlight(m)}
  /\ approved' = {p \in approved : ~InFlight(p[1])}
  /\ UNCHANGED <<chat, sessions, rows, sent, refused>>

Handles(s) ==
  \/ routeInbound(s) \/ FansOut(s) \/ FanOutEnds(s)
  \/ WiresApproved(s) \/ GivesUpWiring(s) \/ AdmitsSender(s) \/ ReplaysChannel(s)
  \/ Denies(s) \/ Drops(s)
  \/ ApprovesSender(s) \/ ReplaysSender(s) \/ DropsSender(s)

Asks == \E r \in requests : requestChannelApproval(r) \/ requestSenderApproval(r)

Step ==
  \/ \E m \in Messages : Arrives(m)
  \/ \E a \in Agents : Wires(a) \/ ClicksConnect(a)
  \/ \E s \in Slots : Handles(s)
  \/ Asks
  \/ \E r \in requests : NobodyToAsk(r)
  \/ ClicksReject \/ ClicksNewAgent \/ Names
  \/ \E h \in held, yes \in BOOLEAN : ClicksSender(h, yes)
  \/ Restarts

Next == Step /\ faults' <= MaxFaults

Spec == Init /\ [][Next]_vars
-----------------------------------------------------------------------------
TypeOK ==
  /\ policy \in {"request_approval", "strict"} /\ mentions \subseteq Messages
  /\ engages \in [Agents -> SUBSET Messages]
  /\ sticky \subseteq Agents /\ keeps \subseteq Agents
  /\ groups \subseteq Agents
  /\ wired \in Seq(groups) /\ denied \in BOOLEAN
  /\ members \subseteq Senders \X Agents
  /\ inbox \in [Agents -> SUBSET Messages]
  /\ context \subseteq Messages \X Agents /\ refused \subseteq Messages \X Agents
  /\ row \in Messages \cup {None} /\ card \in BOOLEAN
  /\ held \subseteq Held
  /\ awaiting \in BOOLEAN /\ tasks \in [Slots -> Task]
  /\ requests \subseteq [msg : Messages, agent : Agents \cup {None}]
  /\ sent \subseteq Messages /\ approved \subseteq Messages \X Agents
  /\ owed \subseteq Messages /\ faults \in 0 .. MaxFaults

\* A stranger's message is in an agent's session only as context of a wiring
\* it did not engage, and wakes nobody; what the sender gate of an agent turned
\* away is in its session in no form until the sender is a member, whatever
\* replays, other wirings and an opened session let through meanwhile.
StrangersAreNotStored ==
  \A a \in Agents : \A m \in inbox[a] :
    Known(From[m], a) \/ <<m, a>> \in context \ refused

\* A message kept for an approver is not lost without a decision: as long as
\* nobody said no, it is in a row, on its way, or in the session of some
\* agent, unless a restart caught it in flight, a late click on an earlier
\* card of the chat took its row away or the row could not be wired.
HeldIsAnswered ==
  \A m \in owed :
    \/ row = m
    \/ \E h \in held : h.msg = m
    \/ InFlight(m)
    \/ \E a \in Agents : m \in inbox[a]

Heard(m, a) == m \in inbox[a] \/ InFlight(m)

\* A yes for a message and an agent brings the message to that agent, except
\* where an agent earlier in the fan-out has it already: the second insert
\* there ends the replay.
UnheardOnlyBehindADuplicate ==
  \A p \in approved :
    \/ Heard(p[1], p[2])
    \/ \E i, j \in 1 .. Len(wired) :
         i < j /\ wired[j] = p[2] /\ p[1] \in inbox[wired[i]]

\* What sender-approval.ts says of a yes: the second routing attempt passes
\* the gate because the sender is a member now.
ApprovedIsHeard == \A p \in approved : Heard(p[1], p[2])
=============================================================================
