----------------------- MODULE GatewayApprovalsProofs -----------------------
(***************************************************************************)
(* For any number of requests, clicks, restarts and failing database       *)
(* calls: the coordinator's types, one decision per row with an approval   *)
(* only for a committed one, no time-out shown for an approved request,    *)
(* and no row or card taken from a request that nobody pressed.            *)
(***************************************************************************)
EXTENDS GatewayApprovals, FiniteSetTheorems, TLAPS

\* TypeOK without the link between `pending` and the answers.
Types ==
  /\ host \in {"up", "stopped", "down"} /\ open \in BOOLEAN
  /\ restarts \in 0..MaxRestarts
  /\ row \in [Request -> Statuses \cup {"none"}] /\ located \subseteq Request
  /\ won \in [Request -> SUBSET {"approved", "rejected", "expired"}]
  /\ card \in [Request -> {"none", "buttons", "approved", "rejected", "expired"}]
  /\ hold \in [Request -> {"none", "resolving", "delivering", "locating",
                           "undoing", "waiting", "answered"}]
  /\ answer \in [Request -> {"none", "approve", "deny", "lost"}]
  /\ jammed \subseteq Request /\ pending \subseteq Request
  /\ expiry \in [Request -> {"none", "claim", "edit", "drop"}]
  /\ sweep \subseteq Request /\ sweepAt \in sweep \cup {None}
  /\ at \in [Click -> {"idle", "editing", "dispatched", "claiming", "claimed",
                       "settling", "dropping", "done"}]
  /\ on \in [Click -> Request \cup {None}] /\ says \in [Click -> Buttons]

Refused == {"deny", "lost"}

\* Where decide() stands, against the three places a hold lives in.
HoldInv(r) ==
  /\ hold[r] \in {"none", "resolving"} => row[r] = "none" /\ won[r] = {} /\ card[r] = "none"
  /\ hold[r] = "answered" <=> answer[r] # "none"
  /\ r \in pending => hold[r] = "waiting"
  /\ hold[r] \in {"locating", "waiting"} => card[r] # "none"
  /\ card[r] = "none" => \A c \in Click : on[c] # r

\* The row's status is the one decision committed to it.
RowInv(r) ==
  /\ row[r] = "pending" => won[r] = {}
  /\ row[r] \in Statuses \ {"pending"} => won[r] = {row[r]}
  /\ \E s \in Statuses : won[r] \subseteq {s}
  /\ answer[r] = "approve" =>
       /\ row[r] = "none" /\ card[r] # "expired"
       /\ \/ won[r] = {"approved"}
          \/ r \in Default /\ won[r] = {} /\ card[r] = "none"

\* Expiry and sweep work on requests that were refused before.
RefusedInv(r) ==
  /\ expiry[r] # "none" => answer[r] \in Refused
  /\ r \in sweep => answer[r] \in Refused
  /\ card[r] = "expired" => answer[r] \in Refused
  /\ ~Running => hold[r] = "none" \/ hold[r] = "answered"

\* Until somebody presses its card a waiting request keeps row and buttons.
UnpressedInv(r) ==
  (hold[r] \in {"delivering", "locating", "waiting"} /\ \A c \in Click : on[c] # r)
    => row[r] = "pending" /\ card[r] \in {"none", "buttons"}

\* A click that committed its decision is the one that decided the row.
ClickInv(c) ==
  /\ at[c] = "idle" <=> on[c] = None
  /\ at[c] \in {"claimed", "settling"} => won[on[c]] = {Status(says[c])}
  /\ at[c] \in {"claiming", "claimed", "settling"} =>
       hold[on[c]] \in {"waiting", "answered"}
  /\ at[c] = "settling" => on[c] \notin pending

LifeInv ==
  /\ open => host = "up"
  /\ ~Running => sweep = {} /\ sweepAt = None

IInv ==
  /\ Types /\ LifeInv
  /\ \A r \in Request : HoldInv(r) /\ RowInv(r) /\ RefusedInv(r) /\ UnpressedInv(r)
  /\ \A c \in Click : ClickInv(c)

-----------------------------------------------------------------------------

USE GatewayAssumption

\* What an edit of an expired card can do to the cards.
LEMMA CardEdit ==
  ASSUME NEW r \in Request, editCardExpired(r),
         card \in [Request -> {"none", "buttons", "approved", "rejected", "expired"}]
  PROVE  /\ card' \in [Request -> {"none", "buttons", "approved", "rejected", "expired"}]
         /\ \A q \in Request : card'[q] = card[q] \/ (q = r /\ card'[q] = "expired")
<1>1. CASE card' = [card EXCEPT ![r] = "expired"]
  BY <1>1
<1>2. CASE card' = card
  BY <1>2
<1> QED  BY <1>1, <1>2 DEF editCardExpired

\* What settling a set of promises does to the types.
LEMMA ResolvedType ==
  ASSUME NEW R, NEW a \in {"approve", "deny", "lost"}, Resolved(R, a),
         answer \in [Request -> {"none", "approve", "deny", "lost"}],
         hold \in [Request -> {"none", "resolving", "delivering", "locating",
                               "undoing", "waiting", "answered"}]
  PROVE  /\ answer' \in [Request -> {"none", "approve", "deny", "lost"}]
         /\ hold' \in [Request -> {"none", "resolving", "delivering", "locating",
                                  "undoing", "waiting", "answered"}]
BY DEF Resolved

LEMMA InitKeeps == Init => IInv
BY DEF Init, IInv, Types, LifeInv, HoldInv, RowInv, RefusedInv, UnpressedInv,
       ClickInv, Statuses, Buttons, Refused, Running

LEMMA AskKeeps ==
  ASSUME IInv, NEW r \in Request, Ask(r)
  PROVE  IInv'
BY DEF Ask, IInv, Types, LifeInv, HoldInv, RowInv,
   RefusedInv, UnpressedInv, ClickInv, Statuses, Buttons, Refused, Running,
   proc, db, calls, sweeping, click

LEMMA AnswerKeeps ==
  ASSUME IInv, NEW r \in Request, AnswerAtOnce(r)
  PROVE  IInv'
BY DEF AnswerAtOnce, Resolved, IInv, Types, LifeInv, HoldInv, RowInv,
   RefusedInv, UnpressedInv, ClickInv, Statuses, Buttons, Refused, Running,
   proc, db, calls, sweeping, click

LEMMA CreateKeeps ==
  ASSUME IInv, NEW r \in Request, createPendingApproval(r)
  PROVE  IInv'
BY DEF createPendingApproval, IInv, Types, LifeInv, HoldInv, RowInv,
   RefusedInv, UnpressedInv, ClickInv, Statuses, Buttons, Refused, Running,
   proc, db, calls, sweeping, click

LEMMA CardKeeps ==
  ASSUME IInv, NEW r \in Request, CardAppears(r)
  PROVE  IInv'
BY DEF CardAppears, IInv, Types, LifeInv, HoldInv, RowInv,
   RefusedInv, UnpressedInv, ClickInv, Statuses, Buttons, Refused, Running,
   proc, db, calls, sweeping, click

LEMMA DeliveredKeeps ==
  ASSUME IInv, NEW r \in Request, Delivered(r)
  PROVE  IInv'
BY DEF Delivered, StartsWaiting, IInv, Types, LifeInv, HoldInv, RowInv,
   RefusedInv, UnpressedInv, ClickInv, Statuses, Buttons, Refused, Running,
   proc, db, calls, sweeping, click

LEMMA DeliverFailsKeeps ==
  ASSUME IInv, NEW r \in Request, DeliverFails(r)
  PROVE  IInv'
BY DEF DeliverFails, IInv, Types, LifeInv, HoldInv, RowInv,
   RefusedInv, UnpressedInv, ClickInv, Statuses, Buttons, Refused, Running,
   proc, db, calls, sweeping, click

LEMMA UndoKeeps ==
  ASSUME IInv, NEW r \in Request, UndoDelivery(r)
  PROVE  IInv'
<1> USE DEF UndoDelivery, Resolved, deletePendingApproval, IInv, proc, db, calls, sweeping, click, Running
<1>1. Types' /\ LifeInv'
  BY DEF Types, LifeInv, HoldInv, RefusedInv, ClickInv, Statuses, Buttons
<1>2. ASSUME NEW q \in Request PROVE HoldInv(q)'
  BY DEF Types, LifeInv, HoldInv, RefusedInv, ClickInv, Refused
<1>3. ASSUME NEW q \in Request PROVE RowInv(q)'
  BY DEF Types, HoldInv, RowInv, RefusedInv, ClickInv, Statuses, Buttons, Refused
<1>4. ASSUME NEW q \in Request PROVE RefusedInv(q)'
  BY DEF Types, LifeInv, HoldInv, RowInv, RefusedInv, ClickInv, Statuses, Refused
<1>5. ASSUME NEW q \in Request PROVE UnpressedInv(q)'
  BY DEF Types, HoldInv, RefusedInv, UnpressedInv, ClickInv, Refused
<1>6. ASSUME NEW d \in Click PROVE ClickInv(d)'
  BY DEF Types, LifeInv, HoldInv, RowInv, RefusedInv, ClickInv, Statuses, Buttons
<1> QED  BY <1>1, <1>2, <1>3, <1>4, <1>5, <1>6

LEMMA LocateKeeps ==
  ASSUME IInv, NEW r \in Request, setPendingApprovalPlatformMessageId(r)
  PROVE  IInv'
<1> USE DEF setPendingApprovalPlatformMessageId, StartsWaiting, Resolved, IInv, proc, db, calls, sweeping, click, Running
<1>1. Types' /\ LifeInv'
  BY DEF Types, LifeInv, HoldInv, RefusedInv, ClickInv, Statuses, Buttons
<1>2. ASSUME NEW q \in Request PROVE HoldInv(q)'
  BY DEF Types, LifeInv, HoldInv, RefusedInv, ClickInv, Refused
<1>3. ASSUME NEW q \in Request PROVE RowInv(q)'
  BY DEF Types, HoldInv, RowInv, RefusedInv, ClickInv, Statuses, Buttons, Refused
<1>4. ASSUME NEW q \in Request PROVE RefusedInv(q)'
  BY DEF Types, LifeInv, HoldInv, RowInv, RefusedInv, ClickInv, Statuses, Refused
<1>5. ASSUME NEW q \in Request PROVE UnpressedInv(q)'
  BY DEF Types, HoldInv, RefusedInv, UnpressedInv, ClickInv, Refused
<1>6. ASSUME NEW d \in Click PROVE ClickInv(d)'
  BY DEF Types, LifeInv, HoldInv, RowInv, RefusedInv, ClickInv, Statuses, Buttons
<1> QED  BY <1>1, <1>2, <1>3, <1>4, <1>5, <1>6

LEMMA EditCardKeeps ==
  ASSUME IInv, NEW c \in Click, EditCard(c)
  PROVE  IInv'
BY DEF EditCard, Status, IInv, Types, LifeInv, HoldInv, RowInv,
   RefusedInv, UnpressedInv, ClickInv, Statuses, Buttons, Refused, Running,
   proc, db, calls, sweeping, click

LEMMA ResponseKeeps ==
  ASSUME IInv, NEW c \in Click, handleApprovalsResponse(c)
  PROVE  IInv'
BY DEF handleApprovalsResponse, IInv, Types, LifeInv, HoldInv, RowInv,
   RefusedInv, UnpressedInv, ClickInv, Statuses, Buttons, Refused, Running,
   proc, db, calls, sweeping, click

LEMMA ClaimKeeps ==
  ASSUME IInv, NEW c \in Click, ClaimDecision(c)
  PROVE  IInv'
<1> USE DEF ClaimDecision, transitionPendingApprovalStatus, Status, IInv, proc, db, calls, sweeping, click, Running
<1>1. Types' /\ LifeInv'
  BY DEF Types, LifeInv, HoldInv, RefusedInv, ClickInv, Statuses, Buttons
<1>2. ASSUME NEW q \in Request PROVE HoldInv(q)'
  BY DEF Types, LifeInv, HoldInv, RefusedInv, ClickInv, Refused
<1>3. ASSUME NEW q \in Request PROVE RowInv(q)'
  BY DEF Types, HoldInv, RowInv, RefusedInv, ClickInv, Statuses, Buttons, Refused
<1>4. ASSUME NEW q \in Request PROVE RefusedInv(q)'
  BY DEF Types, LifeInv, HoldInv, RowInv, RefusedInv, ClickInv, Statuses, Refused
<1>5. ASSUME NEW q \in Request PROVE UnpressedInv(q)'
  BY DEF Types, HoldInv, RefusedInv, UnpressedInv, ClickInv, Refused
<1>6. ASSUME NEW d \in Click PROVE ClickInv(d)'
  <2>1. at[d] # "idle" => on[d] \in Request
    BY DEF Types, ClickInv
  <2>2. won[on[d]]' = won[on[d]] \/ at[d] \notin {"claimed", "settling"} \/ d = c
    <3>1. CASE row' = row /\ won' = won
      BY <3>1
    <3>2. CASE on[c] # on[d] /\ won' = [won EXCEPT ![on[c]] = @ \cup {Status(says[c])}]
      BY <2>1, <3>2 DEF Types
    <3>3. CASE on[c] = on[d] /\ row[on[c]] = "pending"
      <4>1. at[d] # "idle" => won[on[d]] = {}
        BY <2>1, <3>3 DEF RowInv
      <4> QED  BY <4>1 DEF ClickInv
    <3> QED  BY <3>1, <3>2, <3>3
  <2> QED  BY <2>1, <2>2 DEF Types, HoldInv, RowInv, ClickInv, Buttons
<1> QED  BY <1>1, <1>2, <1>3, <1>4, <1>5, <1>6

LEMMA DisarmKeeps ==
  ASSUME IInv, NEW c \in Click, Disarm(c)
  PROVE  IInv'
BY DEF Disarm, IInv, Types, LifeInv, HoldInv, RowInv,
   RefusedInv, UnpressedInv, ClickInv, Statuses, Buttons, Refused, Running,
   proc, db, calls, sweeping, click

LEMMA SettleKeeps ==
  ASSUME IInv, NEW c \in Click, SettleClick(c)
  PROVE  IInv'
<1> USE DEF SettleClick, deletePendingApproval, Resolved, Decision, Status, IInv, proc, db, calls, sweeping, click, Running
<1>1. Types' /\ LifeInv'
  BY DEF Types, LifeInv, HoldInv, RefusedInv, ClickInv, Statuses, Buttons
<1>2. ASSUME NEW q \in Request PROVE HoldInv(q)'
  BY DEF Types, LifeInv, HoldInv, RefusedInv, ClickInv, Refused
<1>3. ASSUME NEW q \in Request PROVE RowInv(q)'
  BY DEF Types, HoldInv, RowInv, RefusedInv, ClickInv, Statuses, Buttons, Refused
<1>4. ASSUME NEW q \in Request PROVE RefusedInv(q)'
  BY DEF Types, LifeInv, HoldInv, RowInv, RefusedInv, ClickInv, Statuses, Refused
<1>5. ASSUME NEW q \in Request PROVE UnpressedInv(q)'
  BY DEF Types, HoldInv, RefusedInv, UnpressedInv, ClickInv, Refused
<1>6. ASSUME NEW d \in Click PROVE ClickInv(d)'
  BY DEF Types, LifeInv, HoldInv, RowInv, RefusedInv, ClickInv, Statuses, Buttons
<1> QED  BY <1>1, <1>2, <1>3, <1>4, <1>5, <1>6

LEMMA DropRowKeeps ==
  ASSUME IInv, NEW c \in Click, DropRow(c)
  PROVE  IInv'
BY DEF DropRow, deletePendingApproval, IInv, Types, LifeInv, HoldInv, RowInv,
   RefusedInv, UnpressedInv, ClickInv, Statuses, Buttons, Refused, Running,
   proc, db, calls, sweeping, click

LEMMA TimerKeeps ==
  ASSUME IInv, NEW r \in Request, TimerFires(r)
  PROVE  IInv'
BY DEF TimerFires, Resolved, IInv, Types, LifeInv, HoldInv, RowInv,
   RefusedInv, UnpressedInv, ClickInv, Statuses, Buttons, Refused, Running,
   proc, db, calls, sweeping, click

LEMMA ExpireKeeps ==
  ASSUME IInv, NEW r \in Request, expireApproval(r)
  PROVE  IInv'
<1> USE DEF expireApproval, transitionPendingApprovalStatus, IInv, proc, db, calls, sweeping, click, Running
<1>1. Types' /\ LifeInv'
  BY DEF Types, LifeInv, HoldInv, RefusedInv, ClickInv, Statuses, Buttons
<1>2. ASSUME NEW q \in Request PROVE HoldInv(q)'
  BY DEF Types, LifeInv, HoldInv, RefusedInv, ClickInv, Refused
<1>3. ASSUME NEW q \in Request PROVE RowInv(q)'
  BY DEF Types, HoldInv, RowInv, RefusedInv, ClickInv, Statuses, Buttons, Refused
<1>4. ASSUME NEW q \in Request PROVE RefusedInv(q)'
  BY DEF Types, LifeInv, HoldInv, RowInv, RefusedInv, ClickInv, Statuses, Refused
<1>5. ASSUME NEW q \in Request PROVE UnpressedInv(q)'
  BY DEF Types, HoldInv, RefusedInv, UnpressedInv, ClickInv, Refused
<1>6. ASSUME NEW d \in Click PROVE ClickInv(d)'
  <2>1. at[d] # "idle" => on[d] \in Request
    BY DEF Types, ClickInv
  <2>2. won[on[d]]' = won[on[d]] \/ at[d] \notin {"claimed", "settling"}
    <3>1. CASE row' = row /\ won' = won
      BY <3>1
    <3>2. CASE r # on[d] /\ won' = [won EXCEPT ![r] = @ \cup {"expired"}]
      BY <2>1, <3>2 DEF Types
    <3>3. CASE r = on[d] /\ row[r] = "pending"
      <4>1. at[d] # "idle" => won[on[d]] = {}
        BY <2>1, <3>3 DEF RowInv
      <4> QED  BY <4>1 DEF ClickInv
    <3> QED  BY <3>1, <3>2, <3>3
  <2> QED  BY <2>1, <2>2 DEF Types, HoldInv, RowInv, ClickInv, Buttons
<1> QED  BY <1>1, <1>2, <1>3, <1>4, <1>5, <1>6

LEMMA EditExpiredKeeps ==
  ASSUME IInv, NEW r \in Request, EditExpired(r)
  PROVE  IInv'
<1> USE DEF EditExpired, IInv, proc, db, calls, sweeping, click, Running
<1>0. /\ card' \in [Request -> {"none", "buttons", "approved", "rejected", "expired"}]
      /\ \A q \in Request : card'[q] = card[q] \/ (q = r /\ card'[q] = "expired")
  BY CardEdit DEF Types
<1>1. Types' /\ LifeInv'
  BY <1>0 DEF Types, LifeInv, HoldInv, RefusedInv, ClickInv, Statuses, Buttons
<1>2. ASSUME NEW q \in Request PROVE HoldInv(q)'
  BY <1>0 DEF Types, LifeInv, HoldInv, RefusedInv, ClickInv, Refused
<1>3. ASSUME NEW q \in Request PROVE RowInv(q)'
  BY <1>0 DEF Types, HoldInv, RowInv, RefusedInv, ClickInv, Statuses, Buttons, Refused
<1>4. ASSUME NEW q \in Request PROVE RefusedInv(q)'
  BY <1>0 DEF Types, LifeInv, HoldInv, RowInv, RefusedInv, ClickInv, Statuses, Refused
<1>5. ASSUME NEW q \in Request PROVE UnpressedInv(q)'
  BY <1>0 DEF Types, HoldInv, RefusedInv, UnpressedInv, ClickInv, Refused
<1>6. ASSUME NEW d \in Click PROVE ClickInv(d)'
  BY <1>0 DEF Types, LifeInv, HoldInv, RowInv, RefusedInv, ClickInv, Statuses, Buttons
<1> QED  BY <1>1, <1>2, <1>3, <1>4, <1>5, <1>6

LEMMA DropExpiredKeeps ==
  ASSUME IInv, NEW r \in Request, DropExpired(r)
  PROVE  IInv'
BY DEF DropExpired, deletePendingApproval, IInv, Types, LifeInv, HoldInv, RowInv,
   RefusedInv, UnpressedInv, ClickInv, Statuses, Buttons, Refused, Running,
   proc, db, calls, sweeping, click

LEMMA ExpiryThrowsKeeps ==
  ASSUME IInv, NEW r \in Request, ExpiryThrows(r)
  PROVE  IInv'
BY DEF ExpiryThrows, IInv, Types, LifeInv, HoldInv, RowInv,
   RefusedInv, UnpressedInv, ClickInv, Statuses, Buttons, Refused, Running,
   proc, db, calls, sweeping, click

LEMMA SweepCardKeeps ==
  ASSUME IInv, NEW r \in Request, SweepCard(r)
  PROVE  IInv'
<1> USE DEF SweepCard, IInv, proc, db, calls, sweeping, click, Running
<1>0. /\ card' \in [Request -> {"none", "buttons", "approved", "rejected", "expired"}]
      /\ \A q \in Request : card'[q] = card[q] \/ (q = r /\ card'[q] = "expired")
  BY CardEdit DEF Types
<1>1. Types' /\ LifeInv'
  BY <1>0 DEF Types, LifeInv, HoldInv, RefusedInv, ClickInv, Statuses, Buttons
<1>2. ASSUME NEW q \in Request PROVE HoldInv(q)'
  BY <1>0 DEF Types, LifeInv, HoldInv, RefusedInv, ClickInv, Refused
<1>3. ASSUME NEW q \in Request PROVE RowInv(q)'
  BY <1>0 DEF Types, HoldInv, RowInv, RefusedInv, ClickInv, Statuses, Buttons, Refused
<1>4. ASSUME NEW q \in Request PROVE RefusedInv(q)'
  BY <1>0 DEF Types, LifeInv, HoldInv, RowInv, RefusedInv, ClickInv, Statuses, Refused
<1>5. ASSUME NEW q \in Request PROVE UnpressedInv(q)'
  BY <1>0 DEF Types, HoldInv, RefusedInv, UnpressedInv, ClickInv, Refused
<1>6. ASSUME NEW d \in Click PROVE ClickInv(d)'
  BY <1>0 DEF Types, LifeInv, HoldInv, RowInv, RefusedInv, ClickInv, Statuses, Buttons
<1> QED  BY <1>1, <1>2, <1>3, <1>4, <1>5, <1>6

LEMMA SweepRowKeeps ==
  ASSUME IInv, SweepRow
  PROVE  IInv'
BY DEF SweepRow, deletePendingApproval, IInv, Types, LifeInv, HoldInv, RowInv,
   RefusedInv, UnpressedInv, ClickInv, Statuses, Buttons, Refused, Running,
   proc, db, calls, sweeping, click

LEMMA SweepThrowsKeeps ==
  ASSUME IInv, SweepThrows
  PROVE  IInv'
BY DEF SweepThrows, IInv, Types, LifeInv, HoldInv, RowInv,
   RefusedInv, UnpressedInv, ClickInv, Statuses, Buttons, Refused, Running,
   proc, db, calls, sweeping, click

LEMMA EndsKeeps ==
  ASSUME IInv, SubscriptionEnds
  PROVE  IInv'
<1> USE DEF SubscriptionEnds, DenyPending, IInv, proc, db, calls, sweeping, click, Running
<1>0. \A q \in Request : /\ answer'[q] = answer[q] \/ (answer[q] = "none" /\ answer'[q] = "deny")
                         /\ hold'[q] = (IF q \in pending THEN "answered" ELSE hold[q])
                         /\ q \in pending => answer'[q] # "none"
                         /\ q \notin pending => answer'[q] = answer[q]
  BY DEF Resolved
<1>1. Types' /\ LifeInv'
  <2>1. /\ answer' \in [Request -> {"none", "approve", "deny", "lost"}]
        /\ hold' \in [Request -> {"none", "resolving", "delivering", "locating",
                                 "undoing", "waiting", "answered"}]
    BY ResolvedType DEF Types
  <2>2. host' \in {"up", "stopped", "down"} /\ open' \in BOOLEAN /\ LifeInv'
    BY DEF LifeInv, Types
  <2> QED  BY <2>1, <2>2 DEF Types
<1>2. ASSUME NEW q \in Request PROVE HoldInv(q)'
  BY <1>0 DEF Types, LifeInv, HoldInv, RefusedInv, ClickInv, Refused
<1>3. ASSUME NEW q \in Request PROVE RowInv(q)'
  BY <1>0 DEF Types, HoldInv, RowInv, RefusedInv, ClickInv, Statuses, Buttons, Refused
<1>4. ASSUME NEW q \in Request PROVE RefusedInv(q)'
  BY <1>0 DEF Types, LifeInv, HoldInv, RowInv, RefusedInv, ClickInv, Statuses, Refused
<1>5. ASSUME NEW q \in Request PROVE UnpressedInv(q)'
  BY <1>0 DEF Types, HoldInv, RefusedInv, UnpressedInv, ClickInv, Refused
<1>6. ASSUME NEW d \in Click PROVE ClickInv(d)'
  BY <1>0 DEF Types, LifeInv, HoldInv, RowInv, RefusedInv, ClickInv, Statuses, Buttons
<1> QED  BY <1>1, <1>2, <1>3, <1>4, <1>5, <1>6

LEMMA StopKeeps ==
  ASSUME IInv, stopGatewayApprovalCoordinator
  PROVE  IInv'
<1> USE DEF stopGatewayApprovalCoordinator, DenyPending, IInv, proc, db, calls, sweeping, click, Running
<1>0. \A q \in Request : /\ answer'[q] = answer[q] \/ (answer[q] = "none" /\ answer'[q] = "deny")
                         /\ hold'[q] = (IF q \in pending THEN "answered" ELSE hold[q])
                         /\ q \in pending => answer'[q] # "none"
                         /\ q \notin pending => answer'[q] = answer[q]
  BY DEF Resolved
<1>1. Types' /\ LifeInv'
  <2>1. /\ answer' \in [Request -> {"none", "approve", "deny", "lost"}]
        /\ hold' \in [Request -> {"none", "resolving", "delivering", "locating",
                                 "undoing", "waiting", "answered"}]
    BY ResolvedType DEF Types
  <2>2. host' \in {"up", "stopped", "down"} /\ open' \in BOOLEAN /\ LifeInv'
    BY DEF LifeInv, Types
  <2> QED  BY <2>1, <2>2 DEF Types
<1>2. ASSUME NEW q \in Request PROVE HoldInv(q)'
  BY <1>0 DEF Types, LifeInv, HoldInv, RefusedInv, ClickInv, Refused
<1>3. ASSUME NEW q \in Request PROVE RowInv(q)'
  BY <1>0 DEF Types, HoldInv, RowInv, RefusedInv, ClickInv, Statuses, Buttons, Refused
<1>4. ASSUME NEW q \in Request PROVE RefusedInv(q)'
  BY <1>0 DEF Types, LifeInv, HoldInv, RowInv, RefusedInv, ClickInv, Statuses, Refused
<1>5. ASSUME NEW q \in Request PROVE UnpressedInv(q)'
  BY <1>0 DEF Types, HoldInv, RefusedInv, UnpressedInv, ClickInv, Refused
<1>6. ASSUME NEW d \in Click PROVE ClickInv(d)'
  BY <1>0 DEF Types, LifeInv, HoldInv, RowInv, RefusedInv, ClickInv, Statuses, Buttons
<1> QED  BY <1>1, <1>2, <1>3, <1>4, <1>5, <1>6

LEMMA DieKeeps ==
  ASSUME IInv, Die
  PROVE  IInv'
<1> USE DEF Die, IInv, proc, db, calls, sweeping, click, Running
<1>0. \A q \in Request : /\ answer'[q] = answer[q] \/ (answer[q] = "none" /\ answer'[q] = "lost")
                         /\ hold'[q] = (IF q \in {x \in Request : hold[x] # "none"} THEN "answered" ELSE hold[q])
                         /\ q \in {x \in Request : hold[x] # "none"} => answer'[q] # "none"
                         /\ q \notin {x \in Request : hold[x] # "none"} => answer'[q] = answer[q]
  BY DEF Resolved
<1>1. Types' /\ LifeInv'
  <2>1. /\ answer' \in [Request -> {"none", "approve", "deny", "lost"}]
        /\ hold' \in [Request -> {"none", "resolving", "delivering", "locating",
                                 "undoing", "waiting", "answered"}]
    BY ResolvedType DEF Types
  <2>2. host' \in {"up", "stopped", "down"} /\ open' \in BOOLEAN /\ LifeInv'
    BY DEF LifeInv, Types
  <2>3. /\ expiry' \in [Request -> {"none", "claim", "edit", "drop"}]
        /\ at' \in [Click -> {"idle", "editing", "dispatched", "claiming",
                             "claimed", "settling", "dropping", "done"}]
    BY DEF Types
  <2> QED  BY <2>1, <2>2, <2>3 DEF Types
<1>2. ASSUME NEW q \in Request PROVE HoldInv(q)'
  BY <1>0 DEF Types, LifeInv, HoldInv, RefusedInv, ClickInv, Refused
<1>3. ASSUME NEW q \in Request PROVE RowInv(q)'
  BY <1>0 DEF Types, HoldInv, RowInv, RefusedInv, ClickInv, Statuses, Buttons, Refused
<1>4. ASSUME NEW q \in Request PROVE RefusedInv(q)'
  BY <1>0 DEF Types, LifeInv, HoldInv, RowInv, RefusedInv, ClickInv, Statuses, Refused
<1>5. ASSUME NEW q \in Request PROVE UnpressedInv(q)'
  BY <1>0 DEF Types, HoldInv, RefusedInv, UnpressedInv, ClickInv, Refused
<1>6. ASSUME NEW d \in Click PROVE ClickInv(d)'
  BY <1>0 DEF Types, LifeInv, HoldInv, RowInv, RefusedInv, ClickInv, Statuses, Buttons
<1> QED  BY <1>1, <1>2, <1>3, <1>4, <1>5, <1>6

LEMMA StartKeeps ==
  ASSUME IInv, startGatewayApprovalCoordinator
  PROVE  IInv'
BY DEF startGatewayApprovalCoordinator, IInv, Types, LifeInv, HoldInv, RowInv,
   RefusedInv, UnpressedInv, ClickInv, Statuses, Buttons, Refused, Running,
   proc, db, calls, sweeping, click

LEMMA PressKeeps ==
  ASSUME IInv, NEW c \in Click, NEW r \in Request, NEW b \in Buttons, Press(c, r, b)
  PROVE  IInv'
<1> USE DEF Press, IInv, proc, db, calls, sweeping, click, Running
<1>1. Types' /\ LifeInv'
  BY DEF Types, LifeInv, Statuses, Buttons
<1>2. ASSUME NEW q \in Request PROVE HoldInv(q)' /\ RowInv(q)'
  BY DEF Types, HoldInv, RowInv
<1>3. ASSUME NEW q \in Request PROVE RefusedInv(q)' /\ UnpressedInv(q)'
  BY DEF Types, HoldInv, RefusedInv, UnpressedInv, ClickInv
<1>4. ASSUME NEW d \in Click PROVE ClickInv(d)'
  BY DEF Types, ClickInv
<1> QED  BY <1>1, <1>2, <1>3, <1>4

-----------------------------------------------------------------------------

LEMMA NextKeeps == IInv /\ [Next]_vars => IInv'
<1> SUFFICES ASSUME IInv, [Next]_vars PROVE IInv'
  OBVIOUS
<1>1. ASSUME NEW r \in Request, Ask(r) \/ Decide(r) PROVE IInv'
  BY <1>1, AskKeeps, AnswerKeeps, CreateKeeps, CardKeeps, DeliveredKeeps,
     DeliverFailsKeeps, UndoKeeps, LocateKeeps DEF Decide
<1>2. ASSUME NEW r \in Request, TimerFires(r) \/ Expire(r) PROVE IInv'
  BY <1>2, TimerKeeps, ExpireKeeps, EditExpiredKeeps, DropExpiredKeeps,
     ExpiryThrowsKeeps DEF Expire
<1>3. ASSUME NEW c \in Click, HandleClick(c) PROVE IInv'
  BY <1>3, EditCardKeeps, ResponseKeeps, ClaimKeeps, DisarmKeeps, SettleKeeps,
     DropRowKeeps DEF HandleClick
<1>4. ASSUME NEW c \in Click, NEW r \in Request, NEW b \in Buttons, Press(c, r, b)
      PROVE  IInv'
  BY <1>4, PressKeeps
<1>5. CASE Sweep
  BY <1>5, SweepCardKeeps, SweepRowKeeps, SweepThrowsKeeps DEF Sweep
<1>6. CASE UNCHANGED vars
  BY <1>6 DEF vars, proc, db, calls, sweeping, click, IInv, Types, LifeInv,
     HoldInv, RowInv, RefusedInv, UnpressedInv, ClickInv, Running
<1> QED
  BY <1>1, <1>2, <1>3, <1>4, <1>5, <1>6, EndsKeeps, StopKeeps, DieKeeps,
     StartKeeps DEF Next

\* The inductive invariant of the coordinator.
THEOREM GatewayInvariant == Spec => []IInv
<1> QED  BY InitKeeps, NextKeeps, PTL DEF Spec

\* gateway-approval-coordinator.ts, db/sessions.ts: memory, rows and cards
\* keep their types, and only an unanswered request is in `pending`.
THEOREM TypeCorrect == Spec => []TypeOK
<1>1. IInv => TypeOK
  BY DEF IInv, Types, HoldInv, TypeOK
<1> QED  BY <1>1, GatewayInvariant, PTL

\* resolveGatewayApproval and expireApproval: however clicks, timer, sweep
\* and crashes interleave, one decision is committed to a row, and only a
\* committed approval lets the request through.
THEOREM OneDecision == Spec => []ApprovedByTheOneDecision
<1>1. ASSUME NEW S, NEW s, S \subseteq {s} PROVE Cardinality(S) <= 1
  <2>1. IsFiniteSet({s}) /\ Cardinality({s}) = 1
    BY FS_Singleton
  <2> QED  BY <1>1, <2>1, FS_Subset
<1>2. IInv => ApprovedByTheOneDecision
  BY <1>1 DEF IInv, RowInv, ApprovedByTheOneDecision
<1> QED  BY <1>2, GatewayInvariant, PTL

\* editCardExpired's two callers: a card that reports a time-out belongs to a
\* request that was refused.
THEOREM TimedOutIsRefused == Spec => []TimedOutCardNeverApproved
<1>1. IInv => TimedOutCardNeverApproved
  BY DEF IInv, RefusedInv, Refused, TimedOutCardNeverApproved
<1> QED  BY <1>1, GatewayInvariant, PTL

\* sweepStaleApprovals and expireApproval leave alone every request that still
\* waits and that nobody pressed.
THEOREM UnpressedStaysLive == Spec => []UnpressedCardStaysLive
<1>1. IInv => UnpressedCardStaysLive
  BY DEF IInv, Types, HoldInv, UnpressedInv, UnpressedCardStaysLive
<1> QED  BY <1>1, GatewayInvariant, PTL
=============================================================================
