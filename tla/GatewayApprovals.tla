-------------------------- MODULE GatewayApprovals --------------------------
(***************************************************************************)
(* Gateway holds: the provider's request waits on decide() while an admin  *)
(* answers a card.  A hold lives in three places that no transaction ties  *)
(* together: the pending_approvals row, the promise in the `pending` map,  *)
(* and the card on the chat platform.                                      *)
(*                                                                         *)
(* Handlers run on one event loop; a step is the code between two awaits,  *)
(* so clicks, timers, the start-up sweep and a shutdown interleave at      *)
(* every database or platform call.                                        *)
(***************************************************************************)
EXTENDS Naturals, FiniteSets

CONSTANTS
  Request,     \* gateway requests (request.id)
  Click,       \* presses of a card button (a bound)
  None,
  Default,     \* requests whose trigger is "default"
  DbFaults,    \* the database calls that may throw
  MaxRestarts  \* bound on host restarts

ASSUME GatewayAssumption ==
  /\ Default \subseteq Request
  /\ DbFaults \subseteq {"undo", "locate", "claim", "settle", "drop", "expire", "sweep"}
  /\ MaxRestarts \in Nat /\ None \notin Request

VARIABLES
  host,      \* "up", "stopped" (shutdown callbacks ran) or "down"
  open,      \* the provider's subscription delivers requests
  row,       \* the row's status, "none" without a row
  located,   \* requests whose row carries, or last carried, a message id
  won,       \* the decisions ever committed to the row (history)
  card,      \* what the approver sees
  hold,      \* where decide() stands
  answer,    \* what decide() returned, "lost" when the process died first
  jammed,    \* requests whose decided row could not be deleted (history)
  pending,   \* keys of the `pending` map; each has an armed timer
  expiry,    \* where expireApproval stands
  sweep,     \* rows the start-up sweep has read and not dropped yet
  sweepAt,   \* the row whose card the sweep has edited
  at,        \* where the handling of a click stands
  on, says,  \* the card and the button of the click
  restarts

db    == <<row, located, won>>
calls == <<hold, answer, jammed, pending>>
sweeping == <<sweep, sweepAt>>
click == <<at, on, says>>
proc  == <<host, open, restarts>>
vars  == <<proc, db, card, calls, expiry, sweeping, click>>

Buttons  == {"approve", "reject"}
Statuses == {"pending", "approved", "rejected", "expired"}

\* The row status a button stands for.
Status(option) == IF option = "approve" THEN "approved" ELSE "rejected"

\* decision: every value but 'approve' denies.
Decision(option) == IF option = "approve" THEN "approve" ELSE "deny"

Running == host # "down"

Init ==
  /\ host = "up" /\ open = TRUE /\ restarts = 0
  /\ row = [r \in Request |-> "none"] /\ located = {}
  /\ won = [r \in Request |-> {}]
  /\ card = [r \in Request |-> "none"]
  /\ hold = [r \in Request |-> "none"]
  /\ answer = [r \in Request |-> "none"] /\ jammed = {} /\ pending = {}
  /\ expiry = [r \in Request |-> "none"]
  /\ sweep = {} /\ sweepAt = None
  /\ at = [c \in Click |-> "idle"] /\ on = [c \in Click |-> None]
  /\ says = [c \in Click |-> "reject"]

\* A promise settles once: resolve() on an answered call changes nothing.
Resolved(R, a) ==
  /\ answer' = [r \in Request |->
                  IF r \in R /\ answer[r] = "none" THEN a ELSE answer[r]]
  /\ hold' = [r \in Request |-> IF r \in R THEN "answered" ELSE hold[r]]

\* mutant: the UPDATE does not ask for the expected status
transitionUnconditional(r, s) ==
  /\ row[r] # "none"
  /\ row' = [row EXCEPT ![r] = s]
  /\ won' = [won EXCEPT ![r] = @ \cup {s}]
  /\ UNCHANGED located

\* UPDATE ... SET status = s WHERE approval_id = r AND status = 'pending'
transitionPendingApprovalStatus(r, s) ==
  /\ row[r] = "pending"
  /\ row' = [row EXCEPT ![r] = s]
  /\ won' = [won EXCEPT ![r] = @ \cup {s}]
  /\ UNCHANGED located

deletePendingApproval(r) ==
  /\ row' = [row EXCEPT ![r] = "none"]
  /\ UNCHANGED <<located, won>>

-----------------------------------------------------------------------------
(* decide()                                                                *)

Ask(r) ==
  /\ open /\ hold[r] = "none"
  /\ hold' = [hold EXCEPT ![r] = "resolving"]
  /\ UNCHANGED <<proc, db, card, answer, jammed, pending, expiry, sweeping,
                 click>>

\* Answered without a card: a default hold for a permitted destination, or
\* no group, approver, DM or row (an INSERT that throws denies too).
AnswerAtOnce(r) ==
  /\ Running /\ hold[r] = "resolving"
  /\ \/ r \in Default /\ Resolved({r}, "approve")
     \/ Resolved({r}, "deny")
  /\ UNCHANGED <<proc, db, card, jammed, pending, expiry, sweeping, click>>

createPendingApproval(r) ==
  /\ Running /\ hold[r] = "resolving"
  /\ row' = [row EXCEPT ![r] = "pending"]
  /\ hold' = [hold EXCEPT ![r] = "delivering"]
  /\ UNCHANGED <<proc, located, won, card, answer, jammed, pending, expiry,
                 sweeping, click>>

\* The platform shows the card before deliver() returns.
CardAppears(r) ==
  /\ Running /\ hold[r] = "delivering" /\ card[r] = "none"
  /\ card' = [card EXCEPT ![r] = "buttons"]
  /\ UNCHANGED <<proc, db, calls, expiry, sweeping, click>>

\* pending.set with a fresh timer.
StartsWaiting(r) ==
  /\ hold' = [hold EXCEPT ![r] = "waiting"]
  /\ pending' = pending \cup {r}
  /\ UNCHANGED answer

\* deliver() returns, with or without a message id.
Delivered(r) ==
  /\ Running /\ hold[r] = "delivering" /\ card[r] # "none"
  /\ \/ StartsWaiting(r)
     \/ hold' = [hold EXCEPT ![r] = "locating"] /\ UNCHANGED <<answer, pending>>
  /\ UNCHANGED <<proc, db, card, jammed, expiry, sweeping, click>>

\* deliver() throws, also when the card is out.
DeliverFails(r) ==
  /\ Running /\ hold[r] = "delivering"
  /\ hold' = [hold EXCEPT ![r] = "undoing"]
  /\ UNCHANGED <<proc, db, card, answer, jammed, pending, expiry, sweeping,
                 click>>

\* A decide() that throws is a denial to the provider, here and below: its
\* row stays, and its card keeps its buttons.
UndoDelivery(r) ==
  /\ Running /\ hold[r] = "undoing"
  /\ \/ deletePendingApproval(r)
     \/ "undo" \in DbFaults /\ UNCHANGED db
  /\ Resolved({r}, "deny")
  /\ UNCHANGED <<proc, card, jammed, pending, expiry, sweeping, click>>

setPendingApprovalPlatformMessageId(r) ==
  /\ Running /\ hold[r] = "locating"
  /\ \/ /\ located' = IF row[r] = "none" THEN located ELSE located \cup {r}
        /\ StartsWaiting(r)
     \/ /\ "locate" \in DbFaults /\ UNCHANGED <<located, pending>>
        /\ Resolved({r}, "deny")
  /\ UNCHANGED <<proc, row, won, card, jammed, expiry, sweeping, click>>

-----------------------------------------------------------------------------
(* A click: the bridge edits the card, then the response is dispatched     *)

Press(c, r, option) ==
  /\ Running /\ at[c] = "idle" /\ card[r] = "buttons"
  /\ at' = [at EXCEPT ![c] = "editing"]
  /\ on' = [on EXCEPT ![c] = r] /\ says' = [says EXCEPT ![c] = option]
  /\ UNCHANGED <<proc, db, card, calls, expiry, sweeping>>

\* editMessage shows the selected label; a failure is logged and passed over.
EditCard(c) ==
  /\ at[c] = "editing"
  /\ \/ card' = [card EXCEPT ![on[c]] = Status(says[c])]
     \/ UNCHANGED card
  /\ at' = [at EXCEPT ![c] = "dispatched"]
  /\ UNCHANGED <<proc, db, calls, expiry, sweeping, on, says>>

\* handleApprovalsResponse up to the row's transition: no row and no
\* authority end it, no waiting promise drops the row.
handleApprovalsResponse(c) ==
  /\ at[c] = "dispatched"
  /\ \/ at' = [at EXCEPT ![c] = "done"]
     \/ /\ row[on[c]] # "none"
        /\ at' = [at EXCEPT ![c] = IF on[c] \in pending THEN "claiming"
                                                       ELSE "dropping"]
  /\ UNCHANGED <<proc, db, card, calls, expiry, sweeping, on, says>>

\* mutant: the promise is taken off `pending` before the transition's outcome
ClaimDecisionDisarms(c) ==
  /\ at[c] = "claiming" /\ pending' = pending \ {on[c]}
  /\ \/ /\ transitionPendingApprovalStatus(on[c], Status(says[c]))
        /\ at' = [at EXCEPT ![c] = "claimed"]
     \/ /\ row[on[c]] # "pending"
        /\ at' = [at EXCEPT ![c] = "dropping"] /\ UNCHANGED db
     \/ /\ "claim" \in DbFaults
        /\ at' = [at EXCEPT ![c] = "done"] /\ UNCHANGED db
  /\ UNCHANGED <<proc, card, hold, answer, jammed, expiry, sweeping, on, says>>

\* The transition commits, finds the row no longer pending, or throws.
ClaimDecision(c) ==
  /\ at[c] = "claiming"
  /\ \/ /\ transitionPendingApprovalStatus(on[c], Status(says[c]))
        /\ at' = [at EXCEPT ![c] = "claimed"]
     \/ /\ row[on[c]] # "pending"
        /\ at' = [at EXCEPT ![c] = "dropping"] /\ UNCHANGED db
     \/ /\ "claim" \in DbFaults
        /\ at' = [at EXCEPT ![c] = "done"] /\ UNCHANGED db
  /\ UNCHANGED <<proc, card, calls, expiry, sweeping, on, says>>

\* pending.delete and clearTimeout.
Disarm(c) ==
  /\ at[c] = "claimed"
  /\ pending' = pending \ {on[c]}
  /\ at' = [at EXCEPT ![c] = "settling"]
  /\ UNCHANGED <<proc, db, card, hold, answer, jammed, expiry, sweeping, on,
                 says>>

\* mutant: the decided row is left for the start-up sweep
SettleClickKeepsRow(c) ==
  /\ at[c] = "settling"
  /\ Resolved({on[c]}, Decision(says[c]))
  /\ at' = [at EXCEPT ![c] = "done"]
  /\ UNCHANGED <<proc, db, card, jammed, pending, expiry, sweeping, on, says>>

\* state.resolve comes after the row is deleted, and is skipped when the
\* DELETE throws.
SettleClick(c) ==
  /\ at[c] = "settling"
  /\ \/ /\ deletePendingApproval(on[c])
        /\ Resolved({on[c]}, Decision(says[c])) /\ UNCHANGED jammed
     \/ /\ "settle" \in DbFaults /\ jammed' = jammed \cup {on[c]}
        /\ UNCHANGED <<db, hold, answer>>
  /\ at' = [at EXCEPT ![c] = "done"]
  /\ UNCHANGED <<proc, card, pending, expiry, sweeping, on, says>>

DropRow(c) ==
  /\ at[c] = "dropping"
  /\ \/ deletePendingApproval(on[c])
     \/ "drop" \in DbFaults /\ UNCHANGED db
  /\ at' = [at EXCEPT ![c] = "done"]
  /\ UNCHANGED <<proc, card, calls, expiry, sweeping, on, says>>

-----------------------------------------------------------------------------
(* Expiry                                                                  *)

TimerFires(r) ==
  /\ Running /\ r \in pending
  /\ pending' = pending \ {r} /\ Resolved({r}, "deny")
  /\ expiry' = [expiry EXCEPT ![r] = "claim"]
  /\ UNCHANGED <<proc, db, card, jammed, sweeping, click>>

\* expireApproval gives way to any other decision on the row.
expireApproval(r) ==
  /\ expiry[r] = "claim"
  /\ \/ /\ transitionPendingApprovalStatus(r, "expired")
        /\ expiry' = [expiry EXCEPT ![r] = "edit"]
     \/ /\ row[r] # "pending"
        /\ expiry' = [expiry EXCEPT ![r] = "none"] /\ UNCHANGED db
  /\ UNCHANGED <<proc, card, calls, sweeping, click>>

\* Needs the adapter and the card's message id; a failed edit is logged.
editCardExpired(r) ==
  \/ host = "up" /\ r \in located /\ card' = [card EXCEPT ![r] = "expired"]
  \/ UNCHANGED card

EditExpired(r) ==
  /\ expiry[r] = "edit" /\ editCardExpired(r)
  /\ expiry' = [expiry EXCEPT ![r] = "drop"]
  /\ UNCHANGED <<proc, db, calls, sweeping, click>>

DropExpired(r) ==
  /\ expiry[r] = "drop" /\ deletePendingApproval(r)
  /\ expiry' = [expiry EXCEPT ![r] = "none"]
  /\ UNCHANGED <<proc, card, calls, sweeping, click>>

ExpiryThrows(r) ==
  /\ "expire" \in DbFaults /\ expiry[r] \in {"claim", "drop"}
  /\ expiry' = [expiry EXCEPT ![r] = "none"]
  /\ UNCHANGED <<proc, db, card, calls, sweeping, click>>

-----------------------------------------------------------------------------
(* The coordinator's life                                                  *)

\* sweepStaleApprovals works off the rows it read at the start.
SweepCard(r) ==
  /\ sweepAt = None /\ r \in sweep
  /\ editCardExpired(r) /\ sweepAt' = r
  /\ UNCHANGED <<proc, db, calls, expiry, sweep, click>>

SweepRow ==
  /\ sweepAt # None
  /\ deletePendingApproval(sweepAt)
  /\ sweep' = sweep \ {sweepAt} /\ sweepAt' = None
  /\ UNCHANGED <<proc, card, calls, expiry, click>>

SweepThrows ==
  /\ "sweep" \in DbFaults /\ sweepAt # None
  /\ sweep' = {} /\ sweepAt' = None
  /\ UNCHANGED <<proc, db, card, calls, expiry, click>>

DenyPending == Resolved(pending, "deny") /\ pending' = {} /\ UNCHANGED jammed

\* The subscription rejects while its signal is active.
SubscriptionEnds ==
  /\ host = "up" /\ open /\ open' = FALSE
  /\ DenyPending
  /\ UNCHANGED <<host, restarts, db, card, expiry, sweeping, click>>

stopGatewayApprovalCoordinator ==
  /\ host = "up" /\ host' = "stopped" /\ open' = FALSE
  /\ DenyPending
  /\ UNCHANGED <<restarts, db, card, expiry, sweeping, click>>

\* The process exits or crashes: rows and cards are left as they are.
Die ==
  /\ Running /\ host' = "down" /\ open' = FALSE
  /\ Resolved({r \in Request : hold[r] # "none"}, "lost")
  /\ pending' = {} /\ expiry' = [r \in Request |-> "none"]
  /\ sweep' = {} /\ sweepAt' = None
  /\ at' = [c \in Click |-> IF at[c] = "idle" THEN "idle" ELSE "done"]
  /\ UNCHANGED <<restarts, db, card, jammed, on, says>>

startGatewayApprovalCoordinator ==
  /\ host = "down" /\ restarts < MaxRestarts
  /\ host' = "up" /\ open' = TRUE /\ restarts' = restarts + 1
  /\ sweep' = {r \in Request : row[r] # "none"}
  /\ UNCHANGED <<db, card, calls, expiry, sweepAt, click>>

-----------------------------------------------------------------------------

Decide(r) ==
  \/ AnswerAtOnce(r) \/ createPendingApproval(r) \/ CardAppears(r)
  \/ Delivered(r) \/ DeliverFails(r) \/ UndoDelivery(r)
  \/ setPendingApprovalPlatformMessageId(r)

Expire(r) ==
  expireApproval(r) \/ EditExpired(r) \/ DropExpired(r) \/ ExpiryThrows(r)

HandleClick(c) ==
  \/ EditCard(c) \/ handleApprovalsResponse(c) \/ ClaimDecision(c)
  \/ Disarm(c) \/ SettleClick(c) \/ DropRow(c)

Sweep == (\E r \in Request : SweepCard(r)) \/ SweepRow \/ SweepThrows

Next ==
  \/ \E r \in Request : Ask(r) \/ Decide(r) \/ TimerFires(r) \/ Expire(r)
  \/ \E c \in Click : HandleClick(c)
  \/ \E c \in Click, r \in Request, b \in Buttons : Press(c, r, b)
  \/ Sweep \/ SubscriptionEnds \/ stopGatewayApprovalCoordinator \/ Die
  \/ startGatewayApprovalCoordinator

Spec == Init /\ [][Next]_vars

\* Promises and timers of a live process complete; a delivery is assumed to
\* return or throw.
Fairness ==
  /\ \A r \in Request :
       WF_vars(Decide(r)) /\ WF_vars(TimerFires(r)) /\ WF_vars(Expire(r))
  /\ \A c \in Click : WF_vars(HandleClick(c))
  /\ WF_vars(Sweep)

FairSpec == Spec /\ Fairness

-----------------------------------------------------------------------------

\* Types of the coordinator's memory, the rows and the cards.
TypeOK ==
  /\ host \in {"up", "stopped", "down"} /\ open \in BOOLEAN
  /\ restarts \in 0..MaxRestarts
  /\ row \in [Request -> Statuses \cup {"none"}] /\ located \subseteq Request
  /\ won \in [Request -> SUBSET {"approved", "rejected", "expired"}]
  /\ card \in [Request -> {"none", "buttons", "approved", "rejected", "expired"}]
  /\ hold \in [Request -> {"none", "resolving", "delivering", "locating",
                           "undoing", "waiting", "answered"}]
  /\ answer \in [Request -> {"none", "approve", "deny", "lost"}]
  /\ jammed \subseteq Request
  /\ pending \subseteq {r \in Request : answer[r] = "none"}
  /\ expiry \in [Request -> {"none", "claim", "edit", "drop"}]
  /\ sweep \subseteq Request /\ sweepAt \in sweep \cup {None}
  /\ at \in [Click -> {"idle", "editing", "dispatched", "claiming", "claimed",
                       "settling", "dropping", "done"}]
  /\ on \in [Click -> Request \cup {None}] /\ says \in [Click -> Buttons]

\* Clicks, the timer and the sweep together commit at most one decision to a
\* row, and the provider gets an approval only for a committed one (or for a
\* default hold that never had a card).
ApprovedByTheOneDecision ==
  \A r \in Request :
    /\ Cardinality(won[r]) <= 1
    /\ answer[r] = "approve" =>
         \/ won[r] = {"approved"}
         \/ r \in Default /\ won[r] = {} /\ card[r] = "none"

\* The approver is never shown a time-out for a request that was let through.
TimedOutCardNeverApproved ==
  \A r \in Request : card[r] = "expired" => answer[r] # "approve"

\* A request that still waits, and whose card nobody pressed, can still be
\* answered: neither the sweep nor another hold's expiry took its row or card.
UnpressedCardStaysLive ==
  \A r \in pending :
    (\A c \in Click : on[c] # r) => row[r] = "pending" /\ card[r] = "buttons"

\* Every request the provider raises gets an answer: from a default, a click,
\* the timer, a shutdown or a failed call of decide().  It gets none when the
\* process dies first, nor when the DELETE after a committed click throws
\* (`jammed`): that request has left `pending` and hangs with the process.
EveryHoldIsAnswered ==
  \A r \in Request :
    hold[r] # "none" ~> answer[r] # "none" \/ r \in jammed
=============================================================================
