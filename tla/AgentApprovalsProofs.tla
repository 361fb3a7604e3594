------------------------ MODULE AgentApprovalsProofs ------------------------
(***************************************************************************)
(* For any number of requests, clicks, replies, crashes and failing calls: *)
(* types, one decision and one outcome per request, a grant that stays     *)
(* live while it is used unless a failed delivery takes it, and the        *)
(* refinement of ApprovalContract.                                         *)
(***************************************************************************)
EXTENDS AgentApprovals, FiniteSetTheorems, TLAPS

\* The steps of a handler that holds a final decision.
Deciding == {"approved", "granted", "telling", "closing"}

AtWork(x) == at[x] \in Deciding

\* TypeOK, with only a bound on the sum of notes and executions left out.
Types ==
  /\ up \in BOOLEAN /\ faults \in 0..MaxFaults
  /\ row \in [Approval -> {"none", "pending", "awaiting_reason"} \cup Final]
  /\ due \subseteq Approval
  /\ won \in [Approval -> SUBSET Final]
  /\ request \in [Approval -> {"none", "delivering", "shown", "failing", "done"}]
  /\ card \subseteq Approval /\ withdrawn \subseteq Approval
  /\ excuses \in [Approval -> {0, 1}]
  /\ notes \in [Approval -> {0, 1}] /\ ran \in [Approval -> {0, 1}]
  /\ armed \in card \cup {None} /\ found \subseteq card
  /\ at \in [Actor -> Options \cup {"idle", "approving", "approved", "granted",
                       "parking", "prompting", "captured", "rejecting",
                       "telling", "closing", "done"}]
  /\ on \in [Actor -> Approval \cup {None}]
  /\ seen \in [Actor -> {"pending", "awaiting_reason"}]
  /\ cut \subseteq Approval

\* A request without a card was never decided; one whose delivery failed has
\* lost its row, and its agent has one excuse at most.
RequestInv(a) ==
  /\ request[a] = "none" => row[a] = "none"
  /\ request[a] \in {"none", "delivering"} => a \notin card
  /\ request[a] \in {"none", "delivering", "shown"} => a \notin withdrawn
  /\ request[a] = "failing" => a \in withdrawn
  /\ request[a] # "done" => excuses[a] = 0
  /\ a \in withdrawn => row[a] = "none"
  /\ a \notin withdrawn => excuses[a] = 0
  /\ a \notin card => row[a] \in {"none", "pending"} /\ won[a] = {}

\* The row's final status is the decision committed to it, and nothing is
\* said or done about a request before its decision.
RowInv(a) ==
  /\ row[a] = "none" => a \notin due
  /\ row[a] \in {"pending", "awaiting_reason"} => won[a] = {}
  /\ row[a] \in Final => won[a] = {row[a]}
  /\ \E s \in Final : won[a] \subseteq {s}
  /\ won[a] = {} => ran[a] = 0 /\ notes[a] = 0
  /\ notes[a] = 0 \/ ran[a] = 0
  /\ ran[a] = 1 => won[a] = {"approved"}

\* A handler on its way to the outcome works on a decided request, whose row
\* only a failed delivery takes from it, and has not produced the outcome yet.
WorkInv(x) ==
  /\ at[x] \notin {"idle", "done"} => on[x] \in card
  /\ AtWork(x) => won[on[x]] # {}
  /\ at[x] \in {"approved", "granted"} =>
       /\ won[on[x]] = {"approved"}
       /\ row[on[x]] = "approved" \/ on[x] \in withdrawn
  /\ at[x] \in Deciding \ {"closing"} => notes[on[x]] = 0 /\ ran[on[x]] = 0

\* Two handlers never hold the decision of one request.
OneWorker == \A x, y \in Actor : AtWork(x) /\ AtWork(y) /\ on[x] = on[y] => x = y

IInv ==
  /\ Types /\ OneWorker
  /\ \A a \in Approval : RequestInv(a) /\ RowInv(a)
  /\ \A x \in Actor : WorkInv(x)

-----------------------------------------------------------------------------

USE ApprovalAssumption

LEMMA InitKeeps == Init => IInv
BY DEF Init, IInv, Types, OneWorker, RequestInv, RowInv, WorkInv, AtWork,
       Deciding, Final, Options

LEMMA RequestKeeps ==
  ASSUME IInv, NEW a \in Approval, requestApproval(a)
  PROVE  IInv'
<1> USE DEF requestApproval, IInv, host, db, agent, ask, actor, Actor
<1>1. Types'
  BY DEF Types, RequestInv, RowInv, WorkInv, AtWork, Deciding, Final
<1>2. OneWorker'
  BY DEF Types, OneWorker, WorkInv, AtWork, Deciding, Final
<1>3. ASSUME NEW b \in Approval PROVE RequestInv(b)'
  BY DEF Types, RequestInv, RowInv, WorkInv, AtWork, Deciding, Final
<1>4. ASSUME NEW b \in Approval PROVE RowInv(b)'
  BY DEF Types, RequestInv, RowInv, WorkInv, AtWork, Deciding, Final
<1>5. ASSUME NEW y \in Actor PROVE WorkInv(y)'
  BY DEF Types, OneWorker, RequestInv, RowInv, WorkInv, AtWork, Deciding, Final
<1> QED  BY <1>1, <1>2, <1>3, <1>4, <1>5

LEMMA CardKeeps ==
  ASSUME IInv, NEW a \in Approval, CardAppears(a)
  PROVE  IInv'
<1> USE DEF CardAppears, IInv, host, db, agent, ask, actor, Actor
<1>1. Types'
  BY DEF Types, RequestInv, RowInv, WorkInv, AtWork, Deciding, Final
<1>2. OneWorker'
  BY DEF Types, OneWorker, WorkInv, AtWork, Deciding, Final
<1>3. ASSUME NEW b \in Approval PROVE RequestInv(b)'
  BY DEF Types, RequestInv, RowInv, WorkInv, AtWork, Deciding, Final
<1>4. ASSUME NEW b \in Approval PROVE RowInv(b)'
  BY DEF Types, RequestInv, RowInv, WorkInv, AtWork, Deciding, Final
<1>5. ASSUME NEW y \in Actor PROVE WorkInv(y)'
  BY DEF Types, OneWorker, RequestInv, RowInv, WorkInv, AtWork, Deciding, Final
<1> QED  BY <1>1, <1>2, <1>3, <1>4, <1>5

LEMMA DeliveredKeeps ==
  ASSUME IInv, NEW a \in Approval, Delivered(a)
  PROVE  IInv'
<1> USE DEF Delivered, IInv, host, db, agent, ask, actor, Actor
<1>1. Types'
  BY DEF Types, RequestInv, RowInv, WorkInv, AtWork, Deciding, Final
<1>2. OneWorker'
  BY DEF Types, OneWorker, WorkInv, AtWork, Deciding, Final
<1>3. ASSUME NEW b \in Approval PROVE RequestInv(b)'
  BY DEF Types, RequestInv, RowInv, WorkInv, AtWork, Deciding, Final
<1>4. ASSUME NEW b \in Approval PROVE RowInv(b)'
  BY DEF Types, RequestInv, RowInv, WorkInv, AtWork, Deciding, Final
<1>5. ASSUME NEW y \in Actor PROVE WorkInv(y)'
  BY DEF Types, OneWorker, RequestInv, RowInv, WorkInv, AtWork, Deciding, Final
<1> QED  BY <1>1, <1>2, <1>3, <1>4, <1>5

LEMMA FailsKeeps ==
  ASSUME IInv, NEW a \in Approval, DeliverFails(a)
  PROVE  IInv'
<1> USE DEF DeliverFails, Fault, deletePendingApproval, IInv, host, db, agent, ask, actor, Actor
<1>1. Types'
  <2>1. faults' \in 0..MaxFaults
    BY DEF Types
  <2> QED  BY <2>1 DEF Types
<1>2. OneWorker'
  BY DEF Types, OneWorker, WorkInv, AtWork, Deciding, Final
<1>3. ASSUME NEW b \in Approval PROVE RequestInv(b)'
  BY DEF Types, RequestInv, RowInv, WorkInv, AtWork, Deciding, Final
<1>4. ASSUME NEW b \in Approval PROVE RowInv(b)'
  BY DEF Types, RequestInv, RowInv, WorkInv, AtWork, Deciding, Final
<1>5. ASSUME NEW y \in Actor PROVE WorkInv(y)'
  BY DEF Types, OneWorker, RequestInv, RowInv, WorkInv, AtWork, Deciding, Final
<1> QED  BY <1>1, <1>2, <1>3, <1>4, <1>5

LEMMA UndeliveredKeeps ==
  ASSUME IInv, NEW a \in Approval, TellUndelivered(a)
  PROVE  IInv'
<1> USE DEF TellUndelivered, Fault, IInv, host, db, agent, ask, actor, Actor
<1>1. Types'
  BY DEF Types, RequestInv, RowInv, WorkInv, AtWork, Deciding, Final
<1>2. OneWorker'
  BY DEF Types, OneWorker, WorkInv, AtWork, Deciding, Final
<1>3. ASSUME NEW b \in Approval PROVE RequestInv(b)'
  BY DEF Types, RequestInv, RowInv, WorkInv, AtWork, Deciding, Final
<1>4. ASSUME NEW b \in Approval PROVE RowInv(b)'
  BY DEF Types, RequestInv, RowInv, WorkInv, AtWork, Deciding, Final
<1>5. ASSUME NEW y \in Actor PROVE WorkInv(y)'
  BY DEF Types, OneWorker, RequestInv, RowInv, WorkInv, AtWork, Deciding, Final
<1> QED  BY <1>1, <1>2, <1>3, <1>4, <1>5

LEMMA ResponseKeeps ==
  ASSUME IInv, NEW c \in Click, handleApprovalsResponse(c)
  PROVE  IInv'
<1> USE DEF handleApprovalsResponse, Rejects, Goto, Return, IInv, host, db, agent, ask, actor, Actor
<1>1. Types'
  BY DEF Types, RequestInv, RowInv, WorkInv, AtWork, Deciding, Final
<1>2. OneWorker'
  BY DEF Types, OneWorker, WorkInv, AtWork, Deciding, Final
<1>3. ASSUME NEW b \in Approval PROVE RequestInv(b)'
  BY DEF Types, RequestInv, RowInv, WorkInv, AtWork, Deciding, Final
<1>4. ASSUME NEW b \in Approval PROVE RowInv(b)'
  BY DEF Types, RequestInv, RowInv, WorkInv, AtWork, Deciding, Final
<1>5. ASSUME NEW y \in Actor PROVE WorkInv(y)'
  BY DEF Types, OneWorker, RequestInv, RowInv, WorkInv, AtWork, Deciding, Final
<1> QED  BY <1>1, <1>2, <1>3, <1>4, <1>5

LEMMA ApproveKeeps ==
  ASSUME IInv, NEW c \in Click, Approve(c)
  PROVE  IInv'
<1> USE DEF Approve, Goto, Return, transitionPendingApprovalStatus, IInv, host, db, agent, ask, actor, Actor
<1>1. Types'
  BY DEF Types, RequestInv, RowInv, WorkInv, AtWork, Deciding, Final
<1>2. OneWorker'
  <2>1. CASE row[on[c]] = "pending"
    <3>1. on[c] \in Approval /\ won[on[c]] = {}
      BY <2>1 DEF Types, WorkInv, RowInv
    <3>2. ASSUME NEW y \in Actor, y # c, AtWork(y)' PROVE on[y] # on[c]
      BY <3>1, <3>2 DEF Types, WorkInv, AtWork
    <3> QED  BY <2>1, <3>2 DEF Types, OneWorker, AtWork, Deciding
  <2>2. CASE row[on[c]] # "pending"
    BY <2>2 DEF Types, OneWorker, AtWork, Deciding
  <2> QED  BY <2>1, <2>2
<1>3. ASSUME NEW b \in Approval PROVE RequestInv(b)'
  BY DEF Types, RequestInv, RowInv, WorkInv, AtWork, Deciding, Final
<1>4. ASSUME NEW b \in Approval PROVE RowInv(b)'
  BY DEF Types, RequestInv, RowInv, WorkInv, AtWork, Deciding, Final
<1>5. ASSUME NEW y \in Actor PROVE WorkInv(y)'
  <2>1. CASE row[on[c]] = "pending"
    <3>1. on[c] \in Approval /\ won[on[c]] = {}
      BY <2>1 DEF Types, WorkInv, RowInv
    <3>2. /\ won' = [won EXCEPT ![on[c]] = {"approved"}]
          /\ row' = [row EXCEPT ![on[c]] = "approved"]
      BY <2>1, <3>1 DEF Types, Final
    <3>3. CASE y = c
      BY <2>1, <3>1, <3>2, <3>3 DEF Types, WorkInv, RowInv, AtWork, Deciding
    <3>4. CASE y # c
      BY <2>1, <3>1, <3>2, <3>4 DEF Types, WorkInv, AtWork, Deciding
    <3> QED  BY <3>3, <3>4
  <2>2. CASE row[on[c]] # "pending"
    BY <2>2 DEF Types, WorkInv, AtWork, Deciding
  <2> QED  BY <2>1, <2>2
<1> QED  BY <1>1, <1>2, <1>3, <1>4, <1>5

LEMMA GuardKeeps ==
  ASSUME IInv, NEW c \in Click, guard(c)
  PROVE  IInv'
<1> USE DEF guard, Goto, Return, IInv, host, db, agent, ask, actor, Actor
<1>1. Types'
  BY DEF Types, RequestInv, RowInv, WorkInv, AtWork, Deciding, Final
<1>2. OneWorker'
  BY DEF Types, OneWorker, WorkInv, AtWork, Deciding, Final
<1>3. ASSUME NEW b \in Approval PROVE RequestInv(b)'
  BY DEF Types, RequestInv, RowInv, WorkInv, AtWork, Deciding, Final
<1>4. ASSUME NEW b \in Approval PROVE RowInv(b)'
  BY DEF Types, RequestInv, RowInv, WorkInv, AtWork, Deciding, Final
<1>5. ASSUME NEW y \in Actor PROVE WorkInv(y)'
  BY DEF Types, OneWorker, RequestInv, RowInv, WorkInv, AtWork, Deciding, Final
<1> QED  BY <1>1, <1>2, <1>3, <1>4, <1>5

LEMMA RunKeeps ==
  ASSUME IInv, NEW c \in Click, HandlerRuns(c)
  PROVE  IInv'
<1> USE DEF HandlerRuns, Goto, IInv, host, db, agent, ask, actor, Actor
<1>1. Types'
  BY DEF Types, RequestInv, RowInv, WorkInv, AtWork, Deciding, Final
<1>2. OneWorker'
  BY DEF Types, OneWorker, WorkInv, AtWork, Deciding, Final
<1>3. ASSUME NEW b \in Approval PROVE RequestInv(b)'
  BY DEF Types, RequestInv, RowInv, WorkInv, AtWork, Deciding, Final
<1>4. ASSUME NEW b \in Approval PROVE RowInv(b)'
  <2>1. /\ on[c] \in card
        /\ notes[on[c]] = 0 /\ ran[on[c]] = 0 /\ won[on[c]] = {"approved"}
    BY DEF Types, RowInv, WorkInv, Deciding, Final
  <2>2. ran' = [ran EXCEPT ![on[c]] = 1]
    BY <2>1
  <2>3. CASE b = on[c]
    BY <2>1, <2>2, <2>3 DEF Types, RowInv, Final
  <2>4. CASE b # on[c]
    BY <2>2, <2>4 DEF Types, RowInv
  <2> QED  BY <2>3, <2>4
<1>5. ASSUME NEW y \in Actor PROVE WorkInv(y)'
  BY DEF Types, OneWorker, RequestInv, RowInv, WorkInv, AtWork, Deciding, Final
<1> QED  BY <1>1, <1>2, <1>3, <1>4, <1>5

LEMMA ThrowKeeps ==
  ASSUME IInv, NEW c \in Click, HandlerThrows(c)
  PROVE  IInv'
<1> USE DEF HandlerThrows, Goto, IInv, host, db, agent, ask, actor, Actor
<1>1. Types'
  BY DEF Types, RequestInv, RowInv, WorkInv, AtWork, Deciding, Final
<1>2. OneWorker'
  BY DEF Types, OneWorker, WorkInv, AtWork, Deciding, Final
<1>3. ASSUME NEW b \in Approval PROVE RequestInv(b)'
  BY DEF Types, RequestInv, RowInv, WorkInv, AtWork, Deciding, Final
<1>4. ASSUME NEW b \in Approval PROVE RowInv(b)'
  BY DEF Types, RequestInv, RowInv, WorkInv, AtWork, Deciding, Final
<1>5. ASSUME NEW y \in Actor PROVE WorkInv(y)'
  BY DEF Types, OneWorker, RequestInv, RowInv, WorkInv, AtWork, Deciding, Final
<1> QED  BY <1>1, <1>2, <1>3, <1>4, <1>5

LEMMA ParkKeeps ==
  ASSUME IInv, NEW c \in Click, markApprovalAwaitingReason(c)
  PROVE  IInv'
<1> USE DEF markApprovalAwaitingReason, Goto, Return, transitionPendingApprovalStatus, IInv, host, db, agent, ask, actor, Actor
<1>1. Types'
  BY DEF Types, RequestInv, RowInv, WorkInv, AtWork, Deciding, Final
<1>2. OneWorker'
  BY DEF Types, OneWorker, WorkInv, AtWork, Deciding, Final
<1>3. ASSUME NEW b \in Approval PROVE RequestInv(b)'
  BY DEF Types, RequestInv, RowInv, WorkInv, AtWork, Deciding, Final
<1>4. ASSUME NEW b \in Approval PROVE RowInv(b)'
  BY DEF Types, RequestInv, RowInv, WorkInv, AtWork, Deciding, Final
<1>5. ASSUME NEW y \in Actor PROVE WorkInv(y)'
  BY DEF Types, OneWorker, RequestInv, RowInv, WorkInv, AtWork, Deciding, Final
<1> QED  BY <1>1, <1>2, <1>3, <1>4, <1>5

LEMMA ArmKeeps ==
  ASSUME IInv, NEW c \in Click, armReasonCapture(c)
  PROVE  IInv'
<1> USE DEF armReasonCapture, Rejects, Goto, Return, IInv, host, db, agent, ask, actor, Actor
<1>1. Types'
  BY DEF Types, RequestInv, RowInv, WorkInv, AtWork, Deciding, Final
<1>2. OneWorker'
  BY DEF Types, OneWorker, WorkInv, AtWork, Deciding, Final
<1>3. ASSUME NEW b \in Approval PROVE RequestInv(b)'
  BY DEF Types, RequestInv, RowInv, WorkInv, AtWork, Deciding, Final
<1>4. ASSUME NEW b \in Approval PROVE RowInv(b)'
  BY DEF Types, RequestInv, RowInv, WorkInv, AtWork, Deciding, Final
<1>5. ASSUME NEW y \in Actor PROVE WorkInv(y)'
  BY DEF Types, OneWorker, RequestInv, RowInv, WorkInv, AtWork, Deciding, Final
<1> QED  BY <1>1, <1>2, <1>3, <1>4, <1>5

LEMMA CaptureKeeps ==
  ASSUME IInv, NEW m \in Reply, captureReasonReply(m)
  PROVE  IInv'
<1> USE DEF captureReasonReply, Goto, IInv, host, db, agent, ask, actor, Actor
<1>1. Types'
  BY DEF Types, RequestInv, RowInv, WorkInv, AtWork, Deciding, Final
<1>2. OneWorker'
  BY DEF Types, OneWorker, WorkInv, AtWork, Deciding, Final
<1>3. ASSUME NEW b \in Approval PROVE RequestInv(b)'
  BY DEF Types, RequestInv, RowInv, WorkInv, AtWork, Deciding, Final
<1>4. ASSUME NEW b \in Approval PROVE RowInv(b)'
  BY DEF Types, RequestInv, RowInv, WorkInv, AtWork, Deciding, Final
<1>5. ASSUME NEW y \in Actor PROVE WorkInv(y)'
  BY DEF Types, OneWorker, RequestInv, RowInv, WorkInv, AtWork, Deciding, Final
<1> QED  BY <1>1, <1>2, <1>3, <1>4, <1>5

LEMMA CheckKeeps ==
  ASSUME IInv, NEW m \in Reply, CheckHold(m)
  PROVE  IInv'
<1> USE DEF CheckHold, Rejects, Goto, Return, IInv, host, db, agent, ask, actor, Actor
<1>1. Types'
  BY DEF Types, RequestInv, RowInv, WorkInv, AtWork, Deciding, Final
<1>2. OneWorker'
  BY DEF Types, OneWorker, WorkInv, AtWork, Deciding, Final
<1>3. ASSUME NEW b \in Approval PROVE RequestInv(b)'
  BY DEF Types, RequestInv, RowInv, WorkInv, AtWork, Deciding, Final
<1>4. ASSUME NEW b \in Approval PROVE RowInv(b)'
  BY DEF Types, RequestInv, RowInv, WorkInv, AtWork, Deciding, Final
<1>5. ASSUME NEW y \in Actor PROVE WorkInv(y)'
  BY DEF Types, OneWorker, RequestInv, RowInv, WorkInv, AtWork, Deciding, Final
<1> QED  BY <1>1, <1>2, <1>3, <1>4, <1>5

LEMMA RejectKeeps ==
  ASSUME IInv, NEW x \in Actor, finalizeReject(x)
  PROVE  IInv'
<1> USE DEF finalizeReject, Goto, Return, transitionPendingApprovalStatus, IInv, host, db, agent, ask, actor, Actor
<1>1. Types'
  BY DEF Types, RequestInv, RowInv, WorkInv, AtWork, Deciding, Final
<1>2. OneWorker'
  <2>1. CASE row[on[x]] = seen[x]
    <3>1. on[x] \in Approval /\ won[on[x]] = {}
      BY <2>1 DEF Types, WorkInv, RowInv
    <3>2. ASSUME NEW y \in Actor, y # x, AtWork(y)' PROVE on[y] # on[x]
      BY <3>1, <3>2 DEF Types, WorkInv, AtWork
    <3> QED  BY <2>1, <3>2 DEF Types, OneWorker, AtWork, Deciding
  <2>2. CASE row[on[x]] # seen[x]
    BY <2>2 DEF Types, OneWorker, AtWork, Deciding
  <2> QED  BY <2>1, <2>2
<1>3. ASSUME NEW b \in Approval PROVE RequestInv(b)'
  BY DEF Types, RequestInv, RowInv, WorkInv, AtWork, Deciding, Final
<1>4. ASSUME NEW b \in Approval PROVE RowInv(b)'
  BY DEF Types, RequestInv, RowInv, WorkInv, AtWork, Deciding, Final
<1>5. ASSUME NEW y \in Actor PROVE WorkInv(y)'
  BY DEF Types, OneWorker, RequestInv, RowInv, WorkInv, AtWork, Deciding, Final
<1> QED  BY <1>1, <1>2, <1>3, <1>4, <1>5

LEMMA NoteKeeps ==
  ASSUME IInv, NEW x \in Actor, writeSessionMessage(x)
  PROVE  IInv'
<1> USE DEF writeSessionMessage, Goto, IInv, host, db, agent, ask, actor, Actor
<1>1. Types'
  BY DEF Types, RequestInv, RowInv, WorkInv, AtWork, Deciding, Final
<1>2. OneWorker'
  BY DEF Types, OneWorker, WorkInv, AtWork, Deciding, Final
<1>3. ASSUME NEW b \in Approval PROVE RequestInv(b)'
  BY DEF Types, RequestInv, RowInv, WorkInv, AtWork, Deciding, Final
<1>4. ASSUME NEW b \in Approval PROVE RowInv(b)'
  BY DEF Types, RequestInv, RowInv, WorkInv, AtWork, Deciding, Final
<1>5. ASSUME NEW y \in Actor PROVE WorkInv(y)'
  BY DEF Types, OneWorker, RequestInv, RowInv, WorkInv, AtWork, Deciding, Final
<1> QED  BY <1>1, <1>2, <1>3, <1>4, <1>5

LEMMA NoteFailsKeeps ==
  ASSUME IInv, NEW x \in Actor, NoteFails(x)
  PROVE  IInv'
<1> USE DEF NoteFails, Fault, Goto, Return, IInv, host, db, agent, ask, actor, Actor
<1>1. Types'
  BY DEF Types, RequestInv, RowInv, WorkInv, AtWork, Deciding, Final
<1>2. OneWorker'
  BY DEF Types, OneWorker, WorkInv, AtWork, Deciding, Final
<1>3. ASSUME NEW b \in Approval PROVE RequestInv(b)'
  BY DEF Types, RequestInv, RowInv, WorkInv, AtWork, Deciding, Final
<1>4. ASSUME NEW b \in Approval PROVE RowInv(b)'
  BY DEF Types, RequestInv, RowInv, WorkInv, AtWork, Deciding, Final
<1>5. ASSUME NEW y \in Actor PROVE WorkInv(y)'
  BY DEF Types, OneWorker, RequestInv, RowInv, WorkInv, AtWork, Deciding, Final
<1> QED  BY <1>1, <1>2, <1>3, <1>4, <1>5

LEMMA CloseKeeps ==
  ASSUME IInv, NEW x \in Actor, Close(x)
  PROVE  IInv'
<1> USE DEF Close, Goto, Return, deletePendingApproval, IInv, host, db, agent, ask, actor, Actor
<1>1. Types'
  BY DEF Types, RequestInv, RowInv, WorkInv, AtWork, Deciding, Final
<1>2. OneWorker'
  BY DEF Types, OneWorker, WorkInv, AtWork, Deciding, Final
<1>3. ASSUME NEW b \in Approval PROVE RequestInv(b)'
  BY DEF Types, RequestInv, RowInv, WorkInv, AtWork, Deciding, Final
<1>4. ASSUME NEW b \in Approval PROVE RowInv(b)'
  BY DEF Types, RequestInv, RowInv, WorkInv, AtWork, Deciding, Final
<1>5. ASSUME NEW y \in Actor PROVE WorkInv(y)'
  BY DEF Types, OneWorker, RequestInv, RowInv, WorkInv, AtWork, Deciding, Final
<1> QED  BY <1>1, <1>2, <1>3, <1>4, <1>5

LEMMA WindowKeeps ==
  ASSUME IInv, NEW a \in Approval, WindowElapses(a)
  PROVE  IInv'
<1> USE DEF WindowElapses, IInv, host, db, agent, ask, actor, Actor
<1>1. Types'
  BY DEF Types, RequestInv, RowInv, WorkInv, AtWork, Deciding, Final
<1>2. OneWorker'
  BY DEF Types, OneWorker, WorkInv, AtWork, Deciding, Final
<1>3. ASSUME NEW b \in Approval PROVE RequestInv(b)'
  BY DEF Types, RequestInv, RowInv, WorkInv, AtWork, Deciding, Final
<1>4. ASSUME NEW b \in Approval PROVE RowInv(b)'
  BY DEF Types, RequestInv, RowInv, WorkInv, AtWork, Deciding, Final
<1>5. ASSUME NEW y \in Actor PROVE WorkInv(y)'
  BY DEF Types, OneWorker, RequestInv, RowInv, WorkInv, AtWork, Deciding, Final
<1> QED  BY <1>1, <1>2, <1>3, <1>4, <1>5

LEMMA SweepKeeps ==
  ASSUME IInv, sweepAwaitingReasonRejects
  PROVE  IInv'
<1> USE DEF sweepAwaitingReasonRejects, getExpiredAwaitingReasonApprovals, IInv, host, db, agent, ask, actor, Actor
<1>1. Types'
  BY DEF Types, RequestInv, RowInv, WorkInv, AtWork, Deciding, Final
<1>2. OneWorker'
  BY DEF Types, OneWorker, WorkInv, AtWork, Deciding, Final
<1>3. ASSUME NEW b \in Approval PROVE RequestInv(b)'
  BY DEF Types, RequestInv, RowInv, WorkInv, AtWork, Deciding, Final
<1>4. ASSUME NEW b \in Approval PROVE RowInv(b)'
  BY DEF Types, RequestInv, RowInv, WorkInv, AtWork, Deciding, Final
<1>5. ASSUME NEW y \in Actor PROVE WorkInv(y)'
  BY DEF Types, OneWorker, RequestInv, RowInv, WorkInv, AtWork, Deciding, Final
<1> QED  BY <1>1, <1>2, <1>3, <1>4, <1>5

LEMMA NextRowKeeps ==
  ASSUME IInv, NEW a \in Approval, SweepNext(a)
  PROVE  IInv'
<1> USE DEF SweepNext, Rejects, Goto, IInv, host, db, agent, ask, actor, Actor
<1>1. Types'
  BY DEF Types, RequestInv, RowInv, WorkInv, AtWork, Deciding, Final
<1>2. OneWorker'
  BY DEF Types, OneWorker, WorkInv, AtWork, Deciding, Final
<1>3. ASSUME NEW b \in Approval PROVE RequestInv(b)'
  BY DEF Types, RequestInv, RowInv, WorkInv, AtWork, Deciding, Final
<1>4. ASSUME NEW b \in Approval PROVE RowInv(b)'
  BY DEF Types, RequestInv, RowInv, WorkInv, AtWork, Deciding, Final
<1>5. ASSUME NEW y \in Actor PROVE WorkInv(y)'
  BY DEF Types, OneWorker, RequestInv, RowInv, WorkInv, AtWork, Deciding, Final
<1> QED  BY <1>1, <1>2, <1>3, <1>4, <1>5

LEMMA CrashKeeps ==
  ASSUME IInv, Crash
  PROVE  IInv'
<1> USE DEF Crash, Fault, IInv, host, db, agent, ask, actor, Actor
<1>1. Types'
  <2>1. cut' \subseteq Approval
    BY DEF Types
  <2>2. faults' \in 0..MaxFaults
    BY DEF Types
  <2>3. request' \in [Approval -> {"none", "delivering", "shown", "failing", "done"}]
    OBVIOUS
  <2>4. at' \in [Actor -> {"idle", "pressed", "approving", "approved", "granted",
                          "parking", "prompting", "captured", "rejecting",
                          "telling", "closing", "done"}]
    OBVIOUS
  <2> QED  BY <2>1, <2>2, <2>3, <2>4 DEF Types
<1>2. OneWorker'
  BY DEF Types, OneWorker, WorkInv, AtWork, Deciding, Final
<1>3. ASSUME NEW b \in Approval PROVE RequestInv(b)'
  BY DEF Types, RequestInv, RowInv, WorkInv, AtWork, Deciding, Final
<1>4. ASSUME NEW b \in Approval PROVE RowInv(b)'
  BY DEF Types, RequestInv, RowInv, WorkInv, AtWork, Deciding, Final
<1>5. ASSUME NEW y \in Actor PROVE WorkInv(y)'
  BY DEF Types, OneWorker, RequestInv, RowInv, WorkInv, AtWork, Deciding, Final
<1> QED  BY <1>1, <1>2, <1>3, <1>4, <1>5

LEMMA RestartKeeps ==
  ASSUME IInv, Restart
  PROVE  IInv'
<1> USE DEF Restart, IInv, host, db, agent, ask, actor, Actor
<1>1. Types'
  BY DEF Types, RequestInv, RowInv, WorkInv, AtWork, Deciding, Final
<1>2. OneWorker'
  BY DEF Types, OneWorker, WorkInv, AtWork, Deciding, Final
<1>3. ASSUME NEW b \in Approval PROVE RequestInv(b)'
  BY DEF Types, RequestInv, RowInv, WorkInv, AtWork, Deciding, Final
<1>4. ASSUME NEW b \in Approval PROVE RowInv(b)'
  BY DEF Types, RequestInv, RowInv, WorkInv, AtWork, Deciding, Final
<1>5. ASSUME NEW y \in Actor PROVE WorkInv(y)'
  BY DEF Types, OneWorker, RequestInv, RowInv, WorkInv, AtWork, Deciding, Final
<1> QED  BY <1>1, <1>2, <1>3, <1>4, <1>5

LEMMA PressKeeps ==
  ASSUME IInv, NEW c \in Click, NEW a \in Approval, NEW o \in Options, Press(c, a, o)
  PROVE  IInv'
<1> USE DEF Press, Goto, IInv, host, db, agent, ask, actor, Actor
<1>1. Types'
  BY DEF Types
<1>2. OneWorker'
  BY DEF Types, OneWorker, AtWork, Deciding, Options
<1>3. ASSUME NEW b \in Approval PROVE RequestInv(b)' /\ RowInv(b)'
  BY DEF Types, RequestInv, RowInv
<1>4. ASSUME NEW y \in Actor PROVE WorkInv(y)'
  BY DEF Types, WorkInv, AtWork, Deciding, Options
<1> QED  BY <1>1, <1>2, <1>3, <1>4

-----------------------------------------------------------------------------

LEMMA NextKeeps == IInv /\ [Next]_vars => IInv'
<1> SUFFICES ASSUME IInv, [Next]_vars PROVE IInv'
  OBVIOUS
<1>1. ASSUME NEW a \in Approval,
             requestApproval(a) \/ Request(a) \/ WindowElapses(a)
      PROVE  IInv'
  BY <1>1, RequestKeeps, CardKeeps, DeliveredKeeps, FailsKeeps,
     UndeliveredKeeps, WindowKeeps DEF Request
<1>2. ASSUME NEW c \in Click, Handle(c) PROVE IInv'
  BY <1>2, ResponseKeeps, ApproveKeeps, GuardKeeps, RunKeeps, ThrowKeeps,
     ParkKeeps, ArmKeeps DEF Handle
<1>3. ASSUME NEW c \in Click, NEW a \in Approval, NEW o \in Options, Press(c, a, o)
      PROVE  IInv'
  BY <1>3, PressKeeps
<1>4. ASSUME NEW m \in Reply, captureReasonReply(m) \/ CheckHold(m) PROVE IInv'
  BY <1>4, CaptureKeeps, CheckKeeps
<1>5. ASSUME NEW x \in Actor, Finish(x) PROVE IInv'
  BY <1>5, RejectKeeps, NoteKeeps, NoteFailsKeeps, CloseKeeps DEF Finish
<1>6. CASE Sweep
  BY <1>6, SweepKeeps, NextRowKeeps DEF Sweep
<1>7. CASE UNCHANGED vars
  BY <1>7 DEF vars, host, db, agent, ask, actor, IInv, Types, OneWorker,
     RequestInv, RowInv, WorkInv, AtWork
<1> QED
  BY <1>1, <1>2, <1>3, <1>4, <1>5, <1>6, <1>7, CrashKeeps, RestartKeeps DEF Next

\* The inductive invariant of the agents' approvals.
THEOREM ApprovalInvariant == Spec => []IInv
<1>1. IInv /\ [Next]_vars => IInv'
  BY NextKeeps
<1> QED  BY InitKeeps, <1>1, PTL DEF Spec

\* db/sessions.ts, reason-capture.ts: rows, arming and handlers keep their
\* types, and a reply window belongs to a row.
THEOREM TypeCorrect == Spec => []TypeOK
<1>1. IInv => TypeOK
  BY DEF IInv, Types, RowInv, TypeOK
<1>2. Spec => []IInv
  BY ApprovalInvariant
<1> QED  BY <1>1, <1>2, PTL

\* response-handler.ts, finalize.ts, reason-capture.ts: however clicks, a
\* typed reason, the sweep and crashes interleave, a request is decided once
\* and has one outcome, and only an approved action runs.
THEOREM OneOutcomeEach == Spec => []OneOutcome
<1>1. ASSUME NEW S, NEW s, S \subseteq {s} PROVE Cardinality(S) <= 1
  <2>1. IsFiniteSet({s}) /\ Cardinality({s}) = 1
    BY FS_Singleton
  <2> QED  BY <1>1, <2>1, FS_Subset
<1>2. ASSUME IInv, NEW a \in Approval
      PROVE  /\ Cardinality(won[a]) <= 1 /\ notes[a] + ran[a] <= 1
             /\ Heard(a) => won[a] # {}
             /\ ran[a] > 0 => won[a] = {"approved"}
  <2>1. RowInv(a) /\ notes[a] \in {0, 1} /\ ran[a] \in {0, 1}
    BY <1>2 DEF IInv, Types
  <2>2. Cardinality(won[a]) <= 1
    BY <1>1, <2>1 DEF RowInv
  <2>3. notes[a] + ran[a] <= 1 /\ (ran[a] > 0 => won[a] = {"approved"})
    BY <2>1 DEF RowInv
  <2>4. Heard(a) => won[a] # {}
    BY <2>1 DEF RowInv, Heard
  <2> QED  BY <2>2, <2>3, <2>4
<1>3. IInv => OneOutcome
  BY <1>2 DEF OneOutcome
<1>4. Spec => []IInv
  BY ApprovalInvariant
<1> QED  BY <1>3, <1>4, PTL

\* guard.ts: the row an approved handler shows the guard is still there and
\* still approved when the guard reads it again, unless deliver() threw after
\* the card was out and took the row.
THEOREM GrantIsLive == Spec => []GrantStaysLive
<1>1. IInv => GrantStaysLive
  BY DEF IInv, WorkInv, GrantStaysLive, Actor
<1>2. Spec => []IInv
  BY ApprovalInvariant
<1> QED  BY <1>1, <1>2, PTL

\* response-handler.ts, finalize.ts, primitive.ts: the two together, for every
\* request; a failed delivery takes the row, never the one decision and its one
\* outcome.
THEOREM DecisionStands == Spec => []DecidedOnceForGood
<1>1. Spec => []OneOutcome
  BY OneOutcomeEach
<1>2. Spec => []GrantStaysLive
  BY GrantIsLive
<1>3. OneOutcome /\ GrantStaysLive => DecidedOnceForGood
  BY DEF DecidedOnceForGood
<1> QED  BY <1>1, <1>2, <1>3, PTL

-----------------------------------------------------------------------------
(* The refinement of ApprovalContract                                      *)

\* What a step may do to the decision and the outcome of request a.
ContractStep(a) == [Contract(a)!Next]_(Contract(a)!avars)

LEMMA ApproveSteps ==
  ASSUME IInv, NEW c \in Click, NEW a \in Approval, Approve(c)
  PROVE  ContractStep(a)
<1> USE DEF ask, Approve, Goto, Return, transitionPendingApprovalStatus, db, agent, Final
<1>1. on[c] \in card /\ WorkInv(c)
  BY DEF IInv, WorkInv, Actor
<1>2. CASE on[c] = a /\ row[a] = "pending"
  <2>1. won[a] = {} /\ a \notin withdrawn
    BY <1>1, <1>2 DEF IInv, RowInv, RequestInv, Types
  <2>2. won'[a] = {"approved"} /\ UNCHANGED <<notes, ran, withdrawn, excuses>>
    BY <1>2, <2>1 DEF IInv, Types
  <2> QED
    BY <2>1, <2>2 DEF ContractStep, Contract!Next, Contract!Decide
<1>3. CASE ~(on[c] = a /\ row[a] = "pending")
  <2>1. won'[a] = won[a] /\ UNCHANGED <<notes, ran, withdrawn, excuses>>
    BY <1>1, <1>3 DEF IInv, Types
  <2> QED  BY <2>1 DEF ContractStep, Contract!avars
<1> QED  BY <1>2, <1>3

LEMMA RejectSteps ==
  ASSUME IInv, NEW x \in Actor, NEW a \in Approval, finalizeReject(x)
  PROVE  ContractStep(a)
<1> USE DEF ask, finalizeReject, Goto, Return, transitionPendingApprovalStatus, db, agent, Final
<1>1. on[x] \in card /\ seen[x] \in {"pending", "awaiting_reason"}
  BY DEF IInv, WorkInv, Types
<1>2. CASE on[x] = a /\ row[a] = seen[x]
  <2>1. won[a] = {} /\ a \notin withdrawn
    BY <1>1, <1>2 DEF IInv, RowInv, RequestInv, Types
  <2>2. won'[a] = {"rejected"} /\ UNCHANGED <<notes, ran, withdrawn, excuses>>
    BY <1>2, <2>1 DEF IInv, Types
  <2> QED
    BY <2>1, <2>2 DEF ContractStep, Contract!Next, Contract!Decide
<1>3. CASE ~(on[x] = a /\ row[a] = seen[x])
  <2>1. won'[a] = won[a] /\ UNCHANGED <<notes, ran, withdrawn, excuses>>
    BY <1>1, <1>3 DEF IInv, Types
  <2> QED  BY <2>1 DEF ContractStep, Contract!avars
<1> QED  BY <1>2, <1>3

LEMMA RunSteps ==
  ASSUME IInv, NEW c \in Click, NEW a \in Approval, HandlerRuns(c)
  PROVE  ContractStep(a)
<1> USE DEF ask, HandlerRuns, Goto, db, Final
<1>1. /\ on[c] \in card /\ won[on[c]] = {"approved"}
      /\ notes[on[c]] = 0 /\ ran[on[c]] = 0
  BY DEF IInv, Types, RowInv, WorkInv, Deciding, Actor
<1>2. ran' = [ran EXCEPT ![on[c]] = 1] /\ UNCHANGED <<won, notes, withdrawn, excuses>>
  BY <1>1
<1>3. CASE on[c] = a
  BY <1>1, <1>2, <1>3 DEF IInv, Types, ContractStep, Contract!Next,
     Contract!Execute, Contract!NoOutcome
<1>4. CASE on[c] # a
  BY <1>2, <1>4 DEF IInv, Types, ContractStep, Contract!avars
<1> QED  BY <1>3, <1>4

LEMMA NoteSteps ==
  ASSUME IInv, NEW x \in Actor, NEW a \in Approval, writeSessionMessage(x)
  PROVE  ContractStep(a)
<1> USE DEF ask, writeSessionMessage, Goto, db
<1>1. /\ on[x] \in card /\ won[on[x]] # {}
      /\ notes[on[x]] = 0 /\ ran[on[x]] = 0
  BY DEF IInv, WorkInv, AtWork, Deciding
<1>2. notes' = [notes EXCEPT ![on[x]] = 1] /\ UNCHANGED <<won, ran, withdrawn, excuses>>
  BY <1>1
<1>3. CASE on[x] = a
  BY <1>1, <1>2, <1>3 DEF IInv, Types, ContractStep, Contract!Next,
     Contract!Tell, Contract!NoOutcome
<1>4. CASE on[x] # a
  BY <1>2, <1>4 DEF IInv, Types, ContractStep, Contract!avars
<1> QED  BY <1>3, <1>4

LEMMA FailsSteps ==
  ASSUME IInv, NEW b \in Approval, NEW a \in Approval, DeliverFails(b)
  PROVE  ContractStep(a)
<1> USE DEF DeliverFails, deletePendingApproval, agent
<1>1. b \notin withdrawn /\ won' = won /\ UNCHANGED <<notes, ran, excuses>>
  BY DEF IInv, RequestInv
<1>2. CASE b = a
  BY <1>1, <1>2 DEF ContractStep, Contract!Next, Contract!Withdraw
<1>3. CASE b # a
  BY <1>1, <1>3 DEF ContractStep, Contract!avars
<1> QED  BY <1>2, <1>3

LEMMA UndeliveredSteps ==
  ASSUME IInv, NEW b \in Approval, NEW a \in Approval, TellUndelivered(b)
  PROVE  ContractStep(a)
<1> USE DEF TellUndelivered, db
<1>1. b \in withdrawn /\ excuses[b] = 0
  BY DEF IInv, RequestInv
<1>2. UNCHANGED <<won, notes, ran, withdrawn>>
  OBVIOUS
<1>3. CASE b = a /\ excuses' = [excuses EXCEPT ![b] = @ + 1]
  <2>1. excuses'[a] = 1
    BY <1>1, <1>3 DEF IInv, Types
  <2> QED
    BY <1>1, <1>2, <1>3, <2>1 DEF ContractStep, Contract!Next, Contract!Excuse
<1>4. CASE b # a \/ excuses' = excuses
  BY <1>2, <1>4 DEF IInv, Types, ContractStep, Contract!avars
<1> QED  BY <1>3, <1>4

LEMMA NextSteps ==
  ASSUME IInv, [Next]_vars, NEW a \in Approval
  PROVE  ContractStep(a)
<1>1. SUFFICES ASSUME UNCHANGED <<won, notes, ran, withdrawn, excuses>> PROVE ContractStep(a)
  <2>1. ASSUME NEW b \in Approval,
               requestApproval(b) \/ Request(b) \/ WindowElapses(b)
        PROVE  UNCHANGED <<won, notes, ran, withdrawn, excuses>> \/ ContractStep(a)
    BY <2>1, FailsSteps, UndeliveredSteps DEF requestApproval, Request,
       WindowElapses, CardAppears, Delivered, db, agent, ask
  <2>2. ASSUME NEW c \in Click, Handle(c)
        PROVE  UNCHANGED <<won, notes, ran, withdrawn, excuses>> \/ ContractStep(a)
    <3>1. CASE markApprovalAwaitingReason(c)
      BY <3>1 DEF markApprovalAwaitingReason, transitionPendingApprovalStatus,
         Final, db, agent, ask
    <3>2. CASE handleApprovalsResponse(c) \/ guard(c) \/ HandlerThrows(c) \/ armReasonCapture(c)
      BY <3>2 DEF handleApprovalsResponse, guard, HandlerThrows,
         armReasonCapture, db, agent, ask
    <3> QED  BY <2>2, <3>1, <3>2, ApproveSteps, RunSteps DEF Handle
  <2>3. ASSUME NEW c \in Click, NEW b \in Approval, NEW o \in Options, Press(c, b, o)
        PROVE  UNCHANGED <<won, notes, ran, withdrawn, excuses>>
    BY <2>3 DEF Press, db, agent, ask
  <2>4. ASSUME NEW m \in Reply, captureReasonReply(m) \/ CheckHold(m)
        PROVE  UNCHANGED <<won, notes, ran, withdrawn, excuses>>
    BY <2>4 DEF captureReasonReply, CheckHold, db, agent, ask
  <2>5. ASSUME NEW x \in Actor, Finish(x)
        PROVE  UNCHANGED <<won, notes, ran, withdrawn, excuses>> \/ ContractStep(a)
    BY <2>5, RejectSteps, NoteSteps DEF Finish, NoteFails, Close,
       deletePendingApproval, db, agent, ask
  <2>6. CASE Sweep \/ Crash \/ Restart \/ UNCHANGED vars
    BY <2>6 DEF Sweep, sweepAwaitingReasonRejects, SweepNext, Crash, Restart,
       vars, db, agent, ask
  <2> QED
    BY <1>1, <2>1, <2>2, <2>3, <2>4, <2>5, <2>6 DEF Next
<1> QED  BY <1>1 DEF ContractStep, Contract!avars

\* primitive.ts, response-handler.ts, finalize.ts, reason-capture.ts: for each
\* request, every step of the handlers is a step of ApprovalContract or
\* leaves its decision and outcome alone.
THEOREM RequestsKeepTheirContract == Spec => EachRequestKeepsItsContract
<1>1. Init => \A a \in Approval : Contract(a)!Init
  BY DEF Init, Contract!Init, Contract!NoOutcome
<1>2. IInv /\ [Next]_vars => [\A a \in Approval : [Contract(a)!Next]_(Contract(a)!avars)]_vars
  BY NextSteps DEF ContractStep
<1>3. Spec => []IInv
  BY ApprovalInvariant
<1> QED
  BY <1>1, <1>2, <1>3, PTL DEF Spec, EachRequestKeepsItsContract
=============================================================================
