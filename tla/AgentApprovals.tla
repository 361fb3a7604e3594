--------------------------- MODULE AgentApprovals ---------------------------
(***************************************************************************)
(* Approvals that agents ask for: requestApproval records a row and shows  *)
(* a card; a click approves, rejects, or holds the row for the reason that *)
(* the approver types as the next direct message; the host sweep rejects   *)
(* holds whose window elapsed.  Clicks, messages and the sweep end in the  *)
(* same few calls and run interleaved at every await.                      *)
(*                                                                         *)
(* All cards go to one approver's DM channel, the case in which they meet  *)
(* in awaitingReason.                                                      *)
(***************************************************************************)
EXTENDS Naturals, FiniteSets

CONSTANTS
  Approval,   \* approval ids
  Click,      \* presses of a card button (a bound)
  Reply,      \* direct messages the approver types (a bound)
  Sweeper,    \* the sweep tick
  None,
  MaxFaults   \* bound on crashes, failed deliveries and failed notes together

ASSUME ApprovalAssumption ==
  /\ MaxFaults \in Nat /\ None \notin Approval
  /\ Click \cap Reply = {} /\ Sweeper \notin Click \cup Reply

Actor == Click \cup Reply \cup {Sweeper}

VARIABLES
  up,
  faults,   \* crashes, failed deliveries and failed notes so far
  row,      \* the row's status, "none" without a row
  due,      \* held rows whose expires_at has passed
  won,      \* the final decisions ever committed (history)
  request,  \* where requestApproval stands
  card,     \* cards with live buttons
  withdrawn,\* requests whose row went because deliver() threw (history)
  excuses,  \* notes to the agent that its request could not be delivered
  notes,    \* outcome notes written to the agent's session
  ran,      \* executions of the approved action, with what it reports itself
  armed,    \* awaitingReason's entry for the DM channel
  found,    \* expired holds the sweep tick has read and not visited
  at,       \* where an actor stands, a click's button before it is handled
  on,       \* the approval it works on
  seen,     \* finalizeReject's expectedStatus
  cut       \* decided, then a crash or a failed note before the agent heard

db    == <<row, due, won>>
agent == <<excuses, notes, ran, cut>>
ask   == <<request, card, withdrawn>>
actor == <<at, on, seen>>
host  == <<up, faults>>
vars  == <<host, db, agent, ask, armed, found, actor>>

Options == {"approve", "reject", "reject_with_reason"}
Final   == {"approved", "rejected"}

\* The agent has the outcome of the decision.
Heard(a) == notes[a] + ran[a] > 0

Init ==
  /\ up = TRUE /\ faults = 0
  /\ row = [a \in Approval |-> "none"] /\ due = {}
  /\ won = [a \in Approval |-> {}]
  /\ request = [a \in Approval |-> "none"] /\ card = {}
  /\ withdrawn = {} /\ excuses = [a \in Approval |-> 0]
  /\ notes = [a \in Approval |-> 0] /\ ran = [a \in Approval |-> 0]
  /\ armed = None /\ found = {} /\ cut = {}
  /\ at = [x \in Actor |-> "idle"] /\ on = [x \in Actor |-> None]
  /\ seen = [x \in Actor |-> "pending"]

\* mutant: the UPDATE does not ask for the expected status
transitionUnconditional(a, expected, s) ==
  /\ row[a] # "none"
  /\ row' = [row EXCEPT ![a] = s]
  /\ won' = IF s \in Final THEN [won EXCEPT ![a] = @ \cup {s}] ELSE won
  /\ UNCHANGED due

\* UPDATE ... SET status = s WHERE approval_id = a AND status = expected
transitionPendingApprovalStatus(a, expected, s) ==
  /\ row[a] = expected
  /\ row' = [row EXCEPT ![a] = s]
  /\ won' = IF s \in Final THEN [won EXCEPT ![a] = @ \cup {s}] ELSE won
  /\ UNCHANGED due

deletePendingApproval(a) ==
  /\ row' = [row EXCEPT ![a] = "none"] /\ due' = due \ {a}
  /\ UNCHANGED won

Fault == faults < MaxFaults /\ faults' = faults + 1

\* Moves actor x on, into finalizeReject with the status it expects, or out of
\* its call; the sweep's loop is then idle between two rows.
Goto(x, l) == at' = [at EXCEPT ![x] = l] /\ UNCHANGED <<on, seen>>

Rejects(x, s) == /\ at' = [at EXCEPT ![x] = "rejecting"]
                 /\ seen' = [seen EXCEPT ![x] = s]

Return(x) == /\ at' = [at EXCEPT ![x] = IF x = Sweeper THEN "idle" ELSE "done"]
             /\ on' = [on EXCEPT ![x] = None]
             /\ seen' = [seen EXCEPT ![x] = "pending"]

-----------------------------------------------------------------------------
(* requestApproval                                                         *)

requestApproval(a) ==
  /\ up /\ request[a] = "none"
  /\ row' = [row EXCEPT ![a] = "pending"]
  /\ request' = [request EXCEPT ![a] = "delivering"]
  /\ UNCHANGED <<host, due, won, agent, card, withdrawn, armed, found, actor>>

CardAppears(a) ==
  /\ up /\ request[a] = "delivering"
  /\ card' = card \cup {a}
  /\ request' = [request EXCEPT ![a] = "shown"]
  /\ UNCHANGED <<host, db, agent, withdrawn, armed, found, actor>>

Delivered(a) ==
  /\ up /\ request[a] = "shown"
  /\ request' = [request EXCEPT ![a] = "done"]
  /\ UNCHANGED <<host, db, agent, card, withdrawn, armed, found, actor>>

\* deliver() throws, also when the card is out: the row goes, whatever was
\* decided or held meanwhile.
DeliverFails(a) ==
  /\ up /\ request[a] \in {"delivering", "shown"}
  /\ deletePendingApproval(a)
  /\ request' = [request EXCEPT ![a] = "failing"]
  /\ withdrawn' = withdrawn \cup {a} /\ Fault
  /\ UNCHANGED <<up, agent, card, armed, found, actor>>

\* notifyAgent, which may throw too.
TellUndelivered(a) ==
  /\ up /\ request[a] = "failing"
  /\ \/ excuses' = [excuses EXCEPT ![a] = @ + 1] /\ UNCHANGED faults
     \/ Fault /\ UNCHANGED excuses
  /\ request' = [request EXCEPT ![a] = "done"]
  /\ UNCHANGED <<up, db, notes, ran, cut, card, withdrawn, armed, found,
                 actor>>

-----------------------------------------------------------------------------
(* Clicks                                                                  *)

Press(c, a, o) ==
  /\ up /\ at[c] = "idle" /\ a \in card
  /\ at' = [at EXCEPT ![c] = o] /\ on' = [on EXCEPT ![c] = a]
  /\ UNCHANGED <<host, db, agent, ask, armed, found, seen>>

\* The click's approval row is read once; a missing row or an approver
\* without authority ends the handling.
handleApprovalsResponse(c) ==
  /\ at[c] \in Options
  /\ \/ Return(c)
     \/ /\ row[on[c]] # "none"
        /\ \/ at[c] = "approve" /\ Goto(c, "approving")
           \/ at[c] = "reject_with_reason" /\ Goto(c, "parking")
           \/ /\ at[c] = "reject" /\ UNCHANGED on
              /\ Rejects(c, IF row[on[c]] = "awaiting_reason"
                              THEN "awaiting_reason" ELSE "pending")
  /\ UNCHANGED <<host, db, agent, ask, armed, found>>

\* The transition to approved; the click that loses it does nothing.
Approve(c) ==
  /\ at[c] = "approving"
  /\ \/ transitionPendingApprovalStatus(on[c], "pending", "approved") /\ Goto(c, "approved")
     \/ row[on[c]] # "pending" /\ Return(c) /\ UNCHANGED db
  /\ UNCHANGED <<host, agent, ask, armed, found>>

\* The handler re-enters the guard.  The grant counts while its row is there;
\* the structural checks run again and may deny, of which the agent is told.
guard(c) ==
  /\ at[c] = "approved"
  /\ \/ row[on[c]] # "none" /\ Goto(c, "granted")
     \/ Goto(c, "telling")
  /\ UNCHANGED <<host, db, agent, ask, armed, found>>

HandlerRuns(c) ==
  /\ at[c] = "granted"
  /\ ran' = [ran EXCEPT ![on[c]] = @ + 1] /\ Goto(c, "closing")
  /\ UNCHANGED <<host, db, excuses, notes, cut, ask, armed, found>>

\* The handler throws before its effect: the agent is told that it failed.
HandlerThrows(c) ==
  /\ at[c] = "granted" /\ Goto(c, "telling")
  /\ UNCHANGED <<host, db, agent, ask, armed, found>>

-----------------------------------------------------------------------------
(* finalizeReject, for clicks, captured reasons and the sweep; the note and *)
(* the deletion also end an approval                                        *)

\* mutant: the result of the transition is not looked at
finalizeRejectAnyway(x) ==
  /\ at[x] = "rejecting" /\ Goto(x, "telling")
  /\ \/ transitionPendingApprovalStatus(on[x], seen[x], "rejected")
     \/ row[on[x]] # seen[x] /\ UNCHANGED db
  /\ UNCHANGED <<host, agent, ask, armed, found>>

finalizeReject(x) ==
  /\ at[x] = "rejecting"
  /\ \/ transitionPendingApprovalStatus(on[x], seen[x], "rejected") /\ Goto(x, "telling")
     \/ row[on[x]] # seen[x] /\ Return(x) /\ UNCHANGED db
  /\ UNCHANGED <<host, agent, ask, armed, found>>

writeSessionMessage(x) ==
  /\ at[x] = "telling" /\ Goto(x, "closing")
  /\ notes' = [notes EXCEPT ![on[x]] = @ + 1]
  /\ UNCHANGED <<host, db, excuses, ran, cut, ask, armed, found>>

\* writeSessionMessage throws: this ends the handler, and the sweep's loop.
NoteFails(x) ==
  /\ at[x] = "telling" /\ Return(x) /\ Fault
  /\ cut' = cut \cup {on[x]}
  /\ found' = IF x = Sweeper THEN {} ELSE found
  /\ UNCHANGED <<up, db, excuses, notes, ran, ask, armed>>

\* Drops the row, calls the resolved callbacks and wakes the container.
Close(x) ==
  /\ at[x] = "closing" /\ Return(x)
  /\ deletePendingApproval(on[x])
  /\ UNCHANGED <<host, agent, ask, armed, found>>

-----------------------------------------------------------------------------
(* Reject with reason                                                      *)

markApprovalAwaitingReason(c) ==
  /\ at[c] = "parking"
  /\ \/ transitionPendingApprovalStatus(on[c], "pending", "awaiting_reason")
        /\ Goto(c, "prompting")
     \/ row[on[c]] # "pending" /\ Return(c) /\ UNCHANGED db
  /\ UNCHANGED <<host, agent, ask, armed, found>>

\* The prompt reaches the approver and the next message is awaited, in place
\* of any other hold's; or nobody can be asked and the reject is final.
armReasonCapture(c) ==
  /\ at[c] = "prompting"
  /\ \/ armed' = on[c] /\ Return(c)
     \/ Rejects(c, "awaiting_reason") /\ UNCHANGED <<on, armed>>
  /\ UNCHANGED <<host, db, agent, ask, found>>

\* The next message disarms the channel whatever becomes of it.
captureReasonReply(m) ==
  /\ up /\ at[m] = "idle" /\ armed # None
  /\ on' = [on EXCEPT ![m] = armed] /\ armed' = None
  /\ at' = [at EXCEPT ![m] = "captured"]
  /\ UNCHANGED <<host, db, agent, ask, found, seen>>

\* A message for a hold that is over routes on; else it is its reason.
CheckHold(m) ==
  /\ at[m] = "captured"
  /\ \/ row[on[m]] = "awaiting_reason" /\ Rejects(m, "awaiting_reason") /\ UNCHANGED on
     \/ row[on[m]] # "awaiting_reason" /\ Return(m)
  /\ UNCHANGED <<host, db, agent, ask, armed, found>>

\* The reply window of a held row elapses.
WindowElapses(a) ==
  /\ row[a] = "awaiting_reason" /\ a \notin due
  /\ due' = due \cup {a}
  /\ UNCHANGED <<host, row, won, agent, ask, armed, found, actor>>

\* mutant: the sweep looks only at holds still armed in this process
ExpiredArmedOnly == {a \in due : row[a] = "awaiting_reason" /\ a = armed}

getExpiredAwaitingReasonApprovals == {a \in due : row[a] = "awaiting_reason"}

sweepAwaitingReasonRejects ==
  /\ up /\ at[Sweeper] = "idle" /\ found = {}
  /\ getExpiredAwaitingReasonApprovals # {}
  /\ found' = getExpiredAwaitingReasonApprovals
  /\ UNCHANGED <<host, db, agent, ask, armed, actor>>

SweepNext(a) ==
  /\ at[Sweeper] = "idle" /\ a \in found
  /\ found' = found \ {a} /\ on' = [on EXCEPT ![Sweeper] = a]
  /\ Rejects(Sweeper, "awaiting_reason")
  /\ UNCHANGED <<host, db, agent, ask, armed>>

-----------------------------------------------------------------------------

\* Rows and cards survive; arming, requests and handlers under way do not.
Crash ==
  /\ up /\ up' = FALSE /\ Fault
  /\ armed' = None /\ found' = {}
  /\ cut' = cut \cup {a \in Approval : won[a] # {} /\ ~Heard(a)}
  /\ request' = [a \in Approval |->
                   IF request[a] = "none" THEN "none" ELSE "done"]
  /\ at' = [x \in Actor |-> IF x = Sweeper \/ at[x] = "idle" THEN "idle" ELSE "done"]
  /\ on' = [x \in Actor |-> None] /\ seen' = [x \in Actor |-> "pending"]
  /\ UNCHANGED <<db, excuses, notes, ran, card, withdrawn>>

Restart ==
  /\ ~up /\ up' = TRUE
  /\ UNCHANGED <<faults, db, agent, ask, armed, found, actor>>

-----------------------------------------------------------------------------

Request(a) ==
  CardAppears(a) \/ Delivered(a) \/ DeliverFails(a) \/ TellUndelivered(a)

Handle(c) ==
  \/ handleApprovalsResponse(c) \/ Approve(c) \/ guard(c) \/ HandlerRuns(c)
  \/ HandlerThrows(c) \/ markApprovalAwaitingReason(c) \/ armReasonCapture(c)

Finish(x) ==
  finalizeReject(x) \/ writeSessionMessage(x) \/ NoteFails(x) \/ Close(x)

Sweep == sweepAwaitingReasonRejects \/ \E a \in Approval : SweepNext(a)

Next ==
  \/ \E a \in Approval : requestApproval(a) \/ Request(a) \/ WindowElapses(a)
  \/ \E c \in Click : Handle(c)
  \/ \E c \in Click, a \in Approval, o \in Options : Press(c, a, o)
  \/ \E m \in Reply : captureReasonReply(m) \/ CheckHold(m)
  \/ \E x \in Actor : Finish(x)
  \/ Sweep \/ Crash \/ Restart

Spec == Init /\ [][Next]_vars

\* What a live process has begun goes on, the sweep ticks, windows elapse and
\* the service manager restarts a crashed host.  Nobody has to click.
Fairness ==
  /\ \A a \in Approval : WF_vars(Request(a) \/ WindowElapses(a))
  /\ \A c \in Click : WF_vars(Handle(c) \/ Finish(c))
  /\ \A m \in Reply : WF_vars(CheckHold(m) \/ Finish(m))
  /\ WF_vars(Sweep \/ Finish(Sweeper)) /\ WF_vars(Restart)

FairSpec == Spec /\ Fairness

-----------------------------------------------------------------------------

\* Types of the rows, the arming and the handlers under way.
TypeOK ==
  /\ up \in BOOLEAN /\ faults \in 0..MaxFaults
  /\ row \in [Approval -> {"none", "pending", "awaiting_reason"} \cup Final]
  /\ due \subseteq {a \in Approval : row[a] # "none"}
  /\ won \in [Approval -> SUBSET Final]
  /\ request \in [Approval -> {"none", "delivering", "shown", "failing", "done"}]
  /\ card \subseteq Approval /\ withdrawn \subseteq Approval
  /\ excuses \in [Approval -> 0..1]
  /\ notes \in [Approval -> 0..2] /\ ran \in [Approval -> 0..2]
  /\ armed \in Approval \cup {None} /\ found \subseteq Approval
  /\ at \in [Actor -> Options \cup {"idle", "approving", "approved", "granted",
                       "parking", "prompting", "captured", "rejecting",
                       "telling", "closing", "done"}]
  /\ on \in [Actor -> Approval \cup {None}]
  /\ seen \in [Actor -> {"pending", "awaiting_reason"}]
  /\ cut \subseteq Approval

\* response-handler.ts, finalize.ts, reason-capture.ts: clicks, a typed reason
\* and the sweep together decide a request once; the decision has one outcome,
\* none precedes it, and the action runs only if it was approved.  (A request
\* withdrawn under a card that was out has its excuse as well.)
OneOutcome ==
  \A a \in Approval :
    /\ Cardinality(won[a]) <= 1 /\ notes[a] + ran[a] <= 1
    /\ Heard(a) => won[a] # {}
    /\ ran[a] > 0 => won[a] = {"approved"}

\* guard.ts wants the row live when the approved action is replayed: nobody
\* deletes it or decides it otherwise while its handler is at work, but a
\* deliver() that throws after the card is out.
GrantStaysLive ==
  \A c \in Click :
    at[c] \in {"approved", "granted"} =>
      row[on[c]] = "approved" \/ on[c] \in withdrawn

\* The one decision stands until its outcome is out, and has one outcome.
DecidedOnceForGood == OneOutcome /\ GrantStaysLive

\* A hold with an approver who never answers, a lost arming or a failed prompt
\* still ends: the outcome of whatever was decided or held reaches the agent,
\* unless a crash or a failed note falls between the commit and the note, or
\* the hold was withdrawn before anybody decided it.
DecisionReachesAgent ==
  \A a \in Approval :
    (won[a] # {} \/ row[a] = "awaiting_reason") ~>
      (Heard(a) \/ a \in cut \/ (a \in withdrawn /\ won[a] = {}))

\* reason-capture.ts:170: "Restart-safe - the hold is a durable row, so the
\* requesting agent always gets its decision."
HeldIsAlwaysTold ==
  \A a \in Approval : row[a] = "awaiting_reason" ~> Heard(a)

Contract(a) == INSTANCE ApprovalContract WITH
  decided <- won[a], told <- notes[a], done <- ran[a],
  failed <- a \in withdrawn, excused <- excuses[a]

\* Every request for approval behaves as ApprovalContract says: no click, typed
\* reason, sweep or restart retracts a decision, decides a request whose row
\* a failed delivery took, or lets an outcome precede or repeat its decision.
EachRequestKeepsItsContract ==
  /\ \A a \in Approval : Contract(a)!Init
  /\ [][\A a \in Approval : [Contract(a)!Next]_(Contract(a)!avars)]_vars
=============================================================================
