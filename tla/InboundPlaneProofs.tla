------------------------- MODULE InboundPlaneProofs -------------------------
(***************************************************************************)
(* Proofs about InboundPlane, for every set of rows, every prompt limit,   *)
(* retry limit and number of faults.                                       *)
(***************************************************************************)
EXTENDS InboundPlane, TLAPS

\* A poll only ever picks rows that have no ack (sqliteGetPendingMessages).
LEMMA SelectedUnclaimed ==
  ASSUME NEW first
  PROVE  /\ Selected(first) \subseteq Messages
         /\ \A m \in Selected(first) : ack[m] = "none" /\ status[m] = "pending"
BY ConstantsAssumption DEF Selected, Unclaimed, Oldest, Newest

\* mark keeps processing_ack well-formed (operations.ts mark).
LEMMA MarkedType ==
  ASSUME TypeOK, NEW S, NEW s \in {"none", "processing"} \cup TerminalAck
  PROVE  Marked(S, s) \in [Messages -> {"none", "processing"} \cup TerminalAck]
BY DEF TypeOK, Marked

\* The script verdicts leave well-formed acks (sqliteMarkScriptSkipped).
LEMMA SkippedType ==
  ASSUME TypeOK, NEW v
  PROVE  Skipped(v) \in [Messages -> {"none", "processing"} \cup TerminalAck]
BY DEF TypeOK, Skipped, TerminalAck

\* Mirroring the acks keeps messages_in.status well-formed, and
LEMMA SyncedType ==
  ASSUME TypeOK
  PROVE  Synced \in [Messages -> {"absent", "pending"} \cup TerminalStatus]
BY DEF TypeOK, Synced, TerminalStatus

\* so does the retry of the claimed rows, which never charges past MaxTries.
LEMMA RetryClaimedType ==
  ASSUME TypeOK,
         NEW st \in [Messages -> {"absent", "pending"} \cup TerminalStatus],
         RetryClaimed(st)
  PROVE  /\ status' \in [Messages -> {"absent", "pending"} \cup TerminalStatus]
         /\ tries' \in [Messages -> 0..MaxTries]
         /\ delayed' \subseteq Messages
         /\ sweep' = "drop"
<1>1. status' \in [Messages -> {"absent", "pending"} \cup TerminalStatus]
  BY DEF RetryClaimed, TerminalStatus
<1>2. tries' \in [Messages -> 0..MaxTries]
  BY ConstantsAssumption DEF RetryClaimed, TypeOK
<1>3. delayed' \subseteq Messages /\ sweep' = "drop"
  BY DEF RetryClaimed, TypeOK, Claims
<1> QED  BY <1>1, <1>2, <1>3

LEMMA InitType == Init => TypeOK
<1> SUFFICES ASSUME Init PROVE TypeOK
  OBVIOUS
<1>1. up \in BOOLEAN /\ tracked \in BOOLEAN /\ dying \in BOOLEAN
      /\ hung \in BOOLEAN /\ firstPoll \in BOOLEAN /\ torn \in BOOLEAN
  BY Zenon DEF Init
<1>2. /\ tries \in [Messages -> 0..MaxTries]
      /\ claims \in [Messages -> 0..(MaxTries + 1)]
      /\ faults \in 0..MaxFaults
  BY ConstantsAssumption DEF Init
<1>3. turns \in Seq(SUBSET Messages)
  BY DEF Init
<1> QED
  BY <1>1, <1>2, <1>3 DEF Init, TypeOK

\* Every step of the host keeps the types.
LEMMA HostStepType == TypeOK /\ HostStep => TypeOK'
<1> SUFFICES ASSUME TypeOK, HostStep PROVE TypeOK'
  OBVIOUS
<1> USE DEF inboundDb, host, poller, runner, history
<1>1. ASSUME NEW m \in Messages, Arrive(m) PROVE TypeOK'
  BY <1>1 DEF TypeOK, Arrive
<1>2. ASSUME NEW m \in Messages, BackoffElapses(m) PROVE TypeOK'
  BY <1>2 DEF TypeOK, BackoffElapses
<1>3. CASE SweepSession
  BY <1>3, SyncedType, RetryClaimedType DEF TypeOK, SweepSession
<1>4. CASE SlaOk
  BY <1>4 DEF TypeOK, SlaOk
<1>5. CASE SlaKill
  BY <1>5, RetryClaimedType DEF TypeOK, SlaKill
<1>6. CASE DropClaims
  BY <1>6, MarkedType DEF TypeOK, DropClaims, Claims
<1>7. CASE DropFails
  BY <1>7, ConstantsAssumption DEF TypeOK, DropFails
<1>8. CASE SweepWakes
  BY <1>8 DEF TypeOK, SweepWakes, Spawned
<1>9. CASE SweepWakeFails
  BY <1>9, ConstantsAssumption DEF TypeOK, SweepWakeFails
<1>10. CASE SweepAfterWake
  BY <1>10, RetryClaimedType DEF TypeOK, SweepAfterWake
<1>11. CASE HostWakes
  BY <1>11 DEF TypeOK, HostWakes, Spawned
<1>12. CASE ExitObserved
  BY <1>12 DEF TypeOK, ExitObserved
<1>13. CASE StopFails
  <2>1. up' \in BOOLEAN /\ tracked' \in BOOLEAN /\ dying' \in BOOLEAN
    BY <1>13, Zenon DEF StopFails, TypeOK
  <2> QED
    BY <1>13, <2>1, ConstantsAssumption DEF TypeOK, StopFails
<1>14. CASE HostCrashes
  <2>1. up' \in BOOLEAN /\ tracked' \in BOOLEAN /\ torn' \in BOOLEAN
    BY <1>14, Zenon DEF HostCrashes
  <2> QED
    BY <1>14, <2>1, ConstantsAssumption DEF TypeOK, HostCrashes
<1>15. CASE HostRestarts
  <2>1. up' \in BOOLEAN /\ tracked' \in BOOLEAN /\ dying' \in BOOLEAN
    BY <1>15, Zenon DEF HostRestarts, TypeOK
  <2> QED
    BY <1>15, <2>1 DEF TypeOK, HostRestarts
<1> QED
  BY <1>1, <1>2, <1>3, <1>4, <1>5, <1>6, <1>7, <1>8, <1>9, <1>10, <1>11,
     <1>12, <1>13, <1>14, <1>15 DEF HostStep

\* The open turns hold rows.
LEMMA UnansweredRows == TypeOK => Unanswered \subseteq Messages
BY DEF TypeOK, Unanswered

\* Every step of the runner keeps the types.
LEMMA RunnerStepType == TypeOK /\ RunnerStep => TypeOK'
<1> SUFFICES ASSUME TypeOK, RunnerStep PROVE TypeOK'
  OBVIOUS
<1> USE DEF inboundDb, host, poller, runner, history
<1>a. ASSUME NEW S \in SUBSET Messages, Claim(S)
      PROVE  /\ ack' \in [Messages -> {"none", "processing"} \cup TerminalAck]
             /\ claims' \in [Messages -> 0..(MaxTries + 1)]
  BY <1>a, MarkedType, ConstantsAssumption DEF TypeOK, Claim
<1>1. CASE Boot
  BY <1>1, MarkedType DEF TypeOK, Boot
<1>2. CASE OuterPoll
  <2> DEFINE ids == Selected(firstPoll)
  <2>1. ids \in SUBSET Messages
    BY SelectedUnclaimed
  <2>2. firstPoll' \in BOOLEAN
    BY <1>2, Zenon DEF OuterPoll
  <2>3. \/ UNCHANGED <<phase, batch, ack, claims>>
        \/ phase' = "claimed" /\ batch' = ids /\ Claim(ids)
    BY <1>2 DEF OuterPoll
  <2> HIDE DEF ids
  <2> QED
    BY <1>2, <1>a, <2>1, <2>2, <2>3 DEF TypeOK, OuterPoll
<1>3. CASE AnswerCommands
  BY <1>3, MarkedType DEF TypeOK, AnswerCommands, TerminalAck
<1>4. CASE OpenQuery
  <2>1. batch' \subseteq Messages
    BY <1>4 DEF TypeOK, OpenQuery, Kept
  <2>2. handed' \subseteq Messages /\ twice' \subseteq Messages
    BY <1>4, <2>1 DEF TypeOK, OpenQuery, Hand
  <2>3. turns' \in Seq(SUBSET Messages)
    <3>1. ASSUME NEW b \in SUBSET Messages PROVE <<b>> \in Seq(SUBSET Messages)
      OBVIOUS
    <3>2. <<batch'>> \in Seq(SUBSET Messages)
      BY <2>1, <3>1
    <3>3. turns' = turns \/ turns' = <<batch'>>
      BY <1>4 DEF OpenQuery
    <3> QED
      BY <3>2, <3>3 DEF TypeOK
  <2> QED
    BY <1>4, <2>1, <2>2, <2>3, SkippedType DEF TypeOK, OpenQuery
<1>5. CASE TurnResult
  <2>1. Head(turns) \subseteq Messages /\ turns' \in Seq(SUBSET Messages)
    BY <1>5 DEF TypeOK, TurnResult
  <2> QED
    BY <1>5, <2>1, MarkedType DEF TypeOK, TurnResult, TerminalAck
<1>6. CASE StreamEnds
  BY <1>6 DEF TypeOK, StreamEnds, EndQuery
<1>7. CASE CloseBatch
  <2>1. accounted' \subseteq Messages
    BY <1>7, UnansweredRows DEF TypeOK, CloseBatch
  <2>2. turns' \in Seq(SUBSET Messages)
    BY <1>7 DEF CloseBatch
  <2> QED
    BY <1>7, <2>1, <2>2, MarkedType DEF TypeOK, CloseBatch, TerminalAck
<1>8. CASE FollowUpPoll
  <2> DEFINE new == Selected(FALSE)
  <2>1. new \in SUBSET Messages
    BY SelectedUnclaimed
  <2>2. \/ EndQuery /\ UNCHANGED <<ack, claims>>
        \/ fup' = new /\ Claim(new) /\ UNCHANGED <<phase, stale>>
    BY <1>8 DEF FollowUpPoll
  <2> HIDE DEF new
  <2> QED
    BY <1>8, <1>a, <2>1, <2>2 DEF TypeOK, FollowUpPoll, EndQuery
<1>9. CASE FollowUpPush
  <2> PICK v \in Verdicts(fup) :
         LET keep == Kept(fup, v)
         IN  /\ ack' = [m \in Messages |-> IF m \in keep THEN "completed" ELSE Skipped(v)[m]]
             /\ turns' = IF keep = {} THEN turns ELSE Append(turns, keep)
             /\ Hand(keep)
    BY <1>9 DEF FollowUpPush
  <2>1. Kept(fup, v) \subseteq Messages
    BY DEF TypeOK, Kept
  <2>2. ack' \in [Messages -> {"none", "processing"} \cup TerminalAck]
    BY SkippedType DEF TerminalAck
  <2>3. turns' \in Seq(SUBSET Messages) /\ handed' \subseteq Messages /\ twice' \subseteq Messages
    BY <2>1 DEF TypeOK, Hand
  <2> QED
    BY <1>9, <2>2, <2>3 DEF TypeOK, FollowUpPush
<1>10. CASE StaleFollowUpEnds
  BY <1>10, SkippedType DEF TypeOK, StaleFollowUpEnds
<1>11. ASSUME NEW m \in Messages, ToolTakesAnswer(m) PROVE TypeOK'
  BY <1>11 DEF TypeOK, ToolTakesAnswer, TerminalAck
<1> QED
  BY <1>1, <1>2, <1>3, <1>4, <1>5, <1>6, <1>7, <1>8, <1>9, <1>10, <1>11
     DEF RunnerStep

\* And so does the loss of a container.
LEMMA LossType ==
  TypeOK /\ (Stopped \/ RunnerCrashes \/ PoisonCrash \/ RunnerHangs) => TypeOK'
<1> SUFFICES ASSUME TypeOK, Stopped \/ RunnerCrashes \/ PoisonCrash \/ RunnerHangs
             PROVE TypeOK'
  OBVIOUS
<1> USE DEF inboundDb, host, poller, runner, history
<1>1. Gone /\ faults' \in 0..MaxFaults => TypeOK'
  <2> SUFFICES ASSUME Gone, faults' \in 0..MaxFaults PROVE TypeOK'
    OBVIOUS
  <2>1. dying' \in BOOLEAN /\ hung' \in BOOLEAN /\ firstPoll' \in BOOLEAN
    BY Zenon DEF Gone
  <2>2. turns' \in Seq(SUBSET Messages)
    BY DEF Gone
  <2>3. accounted' \subseteq Messages
    BY UnansweredRows DEF TypeOK, Gone
  <2> QED
    BY <2>1, <2>2, <2>3 DEF TypeOK, Gone
<1>2. Stopped \/ RunnerCrashes \/ PoisonCrash => Gone /\ faults' \in 0..MaxFaults
  BY ConstantsAssumption DEF TypeOK, Stopped, RunnerCrashes, PoisonCrash
<1>3. CASE RunnerHangs
  BY <1>3, ConstantsAssumption DEF TypeOK, RunnerHangs
<1> QED
  BY <1>1, <1>2, <1>3

\* The databases, the host and the runner keep their shape for good: no retry
\* counter passes MAX_TRIES, whatever the host and the runner interleave.
THEOREM TypeCorrect == Spec => []TypeOK
<1>1. TypeOK /\ UNCHANGED vars => TypeOK'
  BY DEF TypeOK, vars, inboundDb, host, poller, runner, history
<1>2. TypeOK /\ [Next]_vars => TypeOK'
  BY <1>1, HostStepType, RunnerStepType, LossType DEF Next
<1> QED
  BY InitType, <1>2, PTL DEF Spec

-----------------------------------------------------------------------------
(* What a runner has finished stays finished. *)

\* Marking rows claimed or unclaimed cannot touch a finished one as long as it
\* only touches rows that are not finished.
LEMMA MarkedKeepsFinished ==
  ASSUME NEW S, NEW s, s \in TerminalAck \/ \A m \in S : ack[m] \notin TerminalAck
  PROVE  \A m \in Messages : ack[m] \in TerminalAck => Marked(S, s)[m] \in TerminalAck
BY DEF Marked

LEMMA SkippedKeepsFinished ==
  ASSUME NEW v
  PROVE  \A m \in Messages : ack[m] \in TerminalAck => Skipped(v)[m] \in TerminalAck
BY DEF Skipped, TerminalAck

LEMMA ClaimKeepsFinished ==
  ASSUME NEW first, Claim(Selected(first))
  PROVE  \A m \in Messages : ack[m] \in TerminalAck => ack'[m] \in TerminalAck
<1>1. \A m \in Selected(first) : ack[m] \notin TerminalAck
  BY SelectedUnclaimed DEF TerminalAck
<1> QED
  BY <1>1, MarkedKeepsFinished DEF Claim

LEMMA FinishedStaysFinished ==
  [Next]_vars => \A m \in Messages : ack[m] \in TerminalAck => ack'[m] \in TerminalAck
<1> SUFFICES ASSUME [Next]_vars
             PROVE  \A m \in Messages : ack[m] \in TerminalAck => ack'[m] \in TerminalAck
  OBVIOUS
<1> DEFINE Keeps == \A m \in Messages : ack[m] \in TerminalAck => ack'[m] \in TerminalAck
<1>1. CASE UNCHANGED ack
  BY <1>1
<1>2. \A m \in Claims : ack[m] \notin TerminalAck
  BY DEF Claims, TerminalAck
<1>3. CASE DropClaims
  BY <1>2, <1>3, MarkedKeepsFinished DEF DropClaims
<1>4. CASE Boot
  BY <1>2, <1>4, MarkedKeepsFinished DEF Boot
<1>5. CASE OuterPoll
  BY <1>5, ClaimKeepsFinished DEF OuterPoll
<1>6. CASE AnswerCommands
  BY <1>6, MarkedKeepsFinished DEF AnswerCommands, TerminalAck
<1>7. CASE OpenQuery
  BY <1>7, SkippedKeepsFinished DEF OpenQuery
<1>8. CASE TurnResult
  BY <1>8, MarkedKeepsFinished DEF TurnResult, TerminalAck
<1>9. CASE CloseBatch
  BY <1>9, MarkedKeepsFinished DEF CloseBatch, TerminalAck
<1>10. CASE FollowUpPoll
  BY <1>10, ClaimKeepsFinished DEF FollowUpPoll
<1>11. CASE FollowUpPush
  BY <1>11, SkippedKeepsFinished DEF FollowUpPush, TerminalAck
<1>12. CASE StaleFollowUpEnds
  BY <1>12, SkippedKeepsFinished DEF StaleFollowUpEnds
<1>13. ASSUME NEW m \in Messages, ToolTakesAnswer(m) PROVE Keeps
  BY <1>13 DEF ToolTakesAnswer, TerminalAck
<1>14. CASE HostStep /\ ~DropClaims
  BY <1>14, <1>1 DEF HostStep, Arrive, BackoffElapses, SweepSession, SlaOk,
     SlaKill, DropFails, SweepWakes, SweepWakeFails, SweepAfterWake, HostWakes,
     ExitObserved, StopFails, HostCrashes, HostRestarts
<1>15. CASE StreamEnds \/ Stopped \/ RunnerCrashes \/ PoisonCrash \/ RunnerHangs
  BY <1>15, <1>1 DEF StreamEnds, Stopped, RunnerCrashes, PoisonCrash, RunnerHangs, Gone
<1>16. CASE UNCHANGED vars
  BY <1>16, <1>1 DEF vars
<1> QED
  BY <1>3, <1>4, <1>5, <1>6, <1>7, <1>8, <1>9, <1>10, <1>11, <1>12, <1>13,
     <1>14, <1>15, <1>16 DEF Next, RunnerStep

-----------------------------------------------------------------------------
(* What the host has settled stays settled. *)

\* The sync leaves settled rows alone and settles only finished ones
\* (syncProcessingAcks: status NOT IN ('completed', 'failed')).
LEMMA SyncedRow ==
  ASSUME TypeOK, NEW m \in Messages
  PROVE  /\ status[m] \in TerminalStatus => Synced[m] = status[m]
         /\ Synced[m] = status[m]
              \/ (Synced[m] \in TerminalStatus /\ ack[m] \in TerminalAck)
         /\ Synced[m] = "pending" => status[m] = "pending" /\ ack[m] \notin TerminalAck
BY DEF TypeOK, Synced, TerminalStatus

\* A retry settles a claimed row at its limit and changes no other status.
LEMMA RetryClaimedRow ==
  ASSUME NEW st, RetryClaimed(st), NEW m \in Messages
  PROVE  \/ status'[m] = st[m] /\ tries'[m] = tries[m]
         \/ /\ status'[m] = st[m] /\ st[m] = "pending" /\ ack[m] = "processing"
            /\ ~(tries[m] >= MaxTries) /\ tries'[m] = tries[m] + 1
         \/ /\ status'[m] = "failed" /\ st[m] = "pending" /\ ack[m] = "processing"
            /\ tries[m] >= MaxTries /\ tries'[m] = tries[m]
BY DEF RetryClaimed, Claims

\* What one step can do to the host's record of a row: nothing, the insert,
\* the sync of a finished row, a charge, or the give-up.
RowStep(m) ==
  \/ status'[m] = status[m] /\ tries'[m] = tries[m]
  \/ /\ status[m] = "absent" /\ status'[m] = "pending"
     /\ tries'[m] = tries[m] /\ ack'[m] = ack[m]
  \/ /\ status[m] = "pending" /\ ack[m] \in TerminalAck /\ ack'[m] = ack[m]
     /\ status'[m] \in TerminalStatus /\ tries'[m] = tries[m]
  \/ /\ status[m] = "pending" /\ status'[m] = "pending" /\ ack'[m] = ack[m]
     /\ tries[m] < MaxTries /\ tries'[m] = tries[m] + 1
  \/ /\ status[m] = "pending" /\ status'[m] = "failed" /\ ack'[m] = ack[m]
     /\ tries[m] = MaxTries /\ tries'[m] = tries[m]

-----------------------------------------------------------------------------
(* The induction: nobody acks or holds a row that was never written. *)

AckedRowsExist ==
  \A m \in Messages : status[m] = "absent" =>
    ack[m] = "none" /\ m \notin batch \cup fup \cup stale

IInv == TypeOK /\ AckedRowsExist /\ SettledForAReason

\* A step of the host makes one of the row steps, and touches no ack but to
\* drop the claims.
LEMMA HostRowStep ==
  ASSUME TypeOK, AckedRowsExist, HostStep, NEW m \in Messages
  PROVE  /\ RowStep(m)
         /\ ack'[m] = ack[m] \/ (ack[m] = "processing" /\ ack'[m] = "none" /\ UNCHANGED <<status, tries>>)
         /\ UNCHANGED <<batch, fup, stale>>
<1> USE DEF inboundDb, host, poller, runner, history
<1> DEFINE Goal == /\ RowStep(m)
                   /\ \/ ack'[m] = ack[m]
                      \/ ack[m] = "processing" /\ ack'[m] = "none" /\ UNCHANGED <<status, tries>>
                   /\ UNCHANGED <<batch, fup, stale>>
<1>1. ASSUME UNCHANGED <<status, tries, ack, batch, fup, stale>> PROVE Goal
  BY <1>1 DEF RowStep
<1>2. ASSUME NEW k \in Messages, Arrive(k) PROVE Goal
  BY <1>2 DEF Arrive, RowStep, TypeOK
<1>3. CASE SweepSession
  <2>1. UNCHANGED <<ack, batch, fup, stale>>
    BY <1>3 DEF SweepSession
  <2>2. CASE status' = Synced /\ UNCHANGED tries
    BY <2>1, <2>2, SyncedRow DEF RowStep, TypeOK, AckedRowsExist, TerminalStatus, TerminalAck
  <2>3. CASE RetryClaimed(Synced)
    <3>1. /\ Synced[m] = "pending" => status[m] = "pending" /\ ack[m] \notin TerminalAck
          /\ \/ Synced[m] = status[m]
             \/ Synced[m] \in TerminalStatus /\ ack[m] \in TerminalAck
          /\ status[m] \in TerminalStatus => Synced[m] = status[m]
      BY SyncedRow
    <3>2. \/ status'[m] = Synced[m] /\ tries'[m] = tries[m]
          \/ /\ status'[m] = Synced[m] /\ Synced[m] = "pending" /\ ack[m] = "processing"
             /\ ~(tries[m] >= MaxTries) /\ tries'[m] = tries[m] + 1
          \/ /\ status'[m] = "failed" /\ Synced[m] = "pending" /\ ack[m] = "processing"
             /\ tries[m] >= MaxTries /\ tries'[m] = tries[m]
      BY <2>3, RetryClaimedRow
    <3>3. tries[m] \in 0..MaxTries /\ MaxTries \in Nat
      BY ConstantsAssumption DEF TypeOK
    <3> QED
      BY <2>1, <3>1, <3>2, <3>3 DEF RowStep, TypeOK, AckedRowsExist, TerminalStatus, TerminalAck
  <2> QED
    BY <1>3, <2>2, <2>3 DEF SweepSession
<1>4. ASSUME RetryClaimed(status), UNCHANGED <<ack, batch, fup, stale>> PROVE Goal
  <2>1. tries[m] \in 0..MaxTries /\ MaxTries \in Nat
    BY ConstantsAssumption DEF TypeOK
  <2> QED
    BY <1>4, <2>1, RetryClaimedRow DEF RowStep
<1>5. CASE SlaKill
  BY <1>4, <1>5 DEF SlaKill
<1>6. CASE SweepAfterWake
  BY <1>1, <1>4, <1>6 DEF SweepAfterWake
<1>7. CASE DropClaims
  BY <1>7 DEF DropClaims, Marked, Claims, RowStep
<1>8. ASSUME NEW k \in Messages, BackoffElapses(k) PROVE Goal
  BY <1>1, <1>8 DEF BackoffElapses
<1>9. CASE SlaOk \/ DropFails \/ SweepWakes \/ SweepWakeFails \/ HostWakes
           \/ ExitObserved \/ StopFails \/ HostCrashes \/ HostRestarts
  BY <1>1, <1>9 DEF SlaOk, DropFails, SweepWakes, SweepWakeFails, HostWakes,
     ExitObserved, StopFails, HostCrashes, HostRestarts
<1> QED
  BY <1>2, <1>3, <1>5, <1>6, <1>7, <1>8, <1>9 DEF HostStep

\* The runner never writes inbound.db, and acks or holds only rows it read there.
LEMMA RunnerRowStep ==
  ASSUME TypeOK, AckedRowsExist, RunnerStep
  PROVE  UNCHANGED <<status, tries>> /\ AckedRowsExist'
<1> USE DEF inboundDb, host, poller, runner, history
<1> DEFINE Goal == UNCHANGED <<status, tries>> /\ AckedRowsExist'
<1>1. ASSUME UNCHANGED <<status, tries>>,
             batch' \cup fup' \cup stale' \subseteq batch \cup fup \cup stale,
             \A m \in Messages : ack[m] = "none" /\ m \notin batch \cup fup \cup stale
                                => ack'[m] = "none"
      PROVE  Goal
  BY <1>1 DEF AckedRowsExist
<1>2. ASSUME UNCHANGED <<status, tries>>, NEW S, Claim(S),
             \A m \in S : status[m] = "pending",
             batch' \cup fup' \cup stale' \subseteq batch \cup fup \cup stale \cup S
      PROVE  Goal
  BY <1>2 DEF AckedRowsExist, Claim, Marked
<1>3. CASE Boot
  <2>1. \A m \in Messages : ack[m] = "none" => ack'[m] = "none"
    BY <1>3 DEF Boot, Marked
  <2> QED
    BY <1>1, <1>3, <2>1 DEF Boot
<1>4. CASE OuterPoll
  <2> DEFINE ids == Selected(firstPoll)
  <2>1. \A m \in ids : status[m] = "pending"
    BY SelectedUnclaimed
  <2>2. UNCHANGED <<status, tries, fup, stale>>
    BY <1>4 DEF OuterPoll
  <2>3. UNCHANGED <<batch, ack>> \/ (batch' = ids /\ Claim(ids))
    BY <1>4 DEF OuterPoll
  <2> HIDE DEF ids
  <2>4. CASE UNCHANGED <<batch, ack>>
    BY <1>1, <2>2, <2>4
  <2>5. CASE batch' = ids /\ Claim(ids)
    BY <1>2, <2>1, <2>2, <2>5
  <2> QED
    BY <2>3, <2>4, <2>5
<1>5. CASE AnswerCommands
  BY <1>1, <1>5 DEF AnswerCommands, Marked
<1>6. CASE OpenQuery
  BY <1>1, <1>6 DEF OpenQuery, Kept, Skipped, Verdicts
<1>7. CASE TurnResult
  BY <1>1, <1>7 DEF TurnResult, Marked
<1>8. CASE StreamEnds
  BY <1>1, <1>8 DEF StreamEnds, EndQuery
<1>9. CASE CloseBatch
  BY <1>1, <1>9 DEF CloseBatch, Marked
<1>10. CASE FollowUpPoll
  <2> DEFINE new == Selected(FALSE)
  <2>1. \A m \in new : status[m] = "pending"
    BY SelectedUnclaimed
  <2>2. UNCHANGED <<status, tries, batch>>
    BY <1>10 DEF FollowUpPoll
  <2>3. (EndQuery /\ UNCHANGED ack) \/ (fup' = new /\ Claim(new) /\ UNCHANGED stale)
    BY <1>10 DEF FollowUpPoll
  <2> HIDE DEF new
  <2>4. CASE EndQuery /\ UNCHANGED ack
    BY <1>1, <2>2, <2>4 DEF EndQuery
  <2>5. CASE fup' = new /\ Claim(new) /\ UNCHANGED stale
    BY <1>2, <2>1, <2>2, <2>5
  <2> QED
    BY <2>3, <2>4, <2>5
<1>11. CASE FollowUpPush
  BY <1>1, <1>11 DEF FollowUpPush, Kept, Skipped, Verdicts
<1>12. CASE StaleFollowUpEnds
  BY <1>1, <1>12 DEF StaleFollowUpEnds, Skipped, Verdicts
<1>13. ASSUME NEW k \in Messages, ToolTakesAnswer(k) PROVE Goal
  BY <1>13 DEF ToolTakesAnswer, AckedRowsExist, TypeOK
<1> QED
  BY <1>3, <1>4, <1>5, <1>6, <1>7, <1>8, <1>9, <1>10, <1>11, <1>12, <1>13
     DEF RunnerStep

\* A lost or silent container touches neither database.
LEMMA LossRowStep ==
  ASSUME AckedRowsExist, Stopped \/ RunnerCrashes \/ PoisonCrash \/ RunnerHangs
  PROVE  UNCHANGED <<status, tries, ack>> /\ AckedRowsExist'
<1>1. /\ UNCHANGED <<status, tries, ack>>
      /\ batch' \cup fup' \cup stale' \subseteq batch \cup fup \cup stale
  BY DEF Stopped, RunnerCrashes, PoisonCrash, RunnerHangs, Gone, inboundDb,
         runner, poller
<1> QED
  BY <1>1 DEF AckedRowsExist

-----------------------------------------------------------------------------
(* The row steps of Next, and what follows from them. *)

LEMMA NextRowStep ==
  ASSUME IInv, [Next]_vars
  PROVE  /\ \A m \in Messages : RowStep(m)
         /\ AckedRowsExist'
<1> USE DEF IInv
<1>1. CASE HostStep
  <2>1. ASSUME NEW m \in Messages, status'[m] = "absent"
        PROVE  ack'[m] = "none" /\ m \notin batch' \cup fup' \cup stale'
    <3>1. status[m] = "absent" /\ ack[m] = "none" /\ m \notin batch \cup fup \cup stale
      BY <1>1, <2>1, HostRowStep DEF RowStep, AckedRowsExist, TerminalStatus
    <3> QED
      BY <1>1, <3>1, HostRowStep
  <2> QED
    BY <1>1, <2>1, HostRowStep DEF AckedRowsExist
<1>2. CASE RunnerStep
  BY <1>2, RunnerRowStep DEF RowStep
<1>3. CASE Stopped \/ RunnerCrashes \/ PoisonCrash \/ RunnerHangs
  BY <1>3, LossRowStep DEF RowStep
<1>4. CASE UNCHANGED vars
  BY <1>4 DEF vars, inboundDb, poller, runner, RowStep, AckedRowsExist
<1> QED
  BY <1>1, <1>2, <1>3, <1>4 DEF Next

LEMMA SettledStep ==
  ASSUME IInv, [Next]_vars
  PROVE  /\ SettledForAReason'
         /\ \A m \in Messages : status[m] \in TerminalStatus => status'[m] = status[m]
<1>1. \A m \in Messages : status[m] \in TerminalStatus
                          => status'[m] = status[m] /\ tries'[m] = tries[m]
  BY NextRowStep DEF RowStep, TerminalStatus
<1>2. ASSUME NEW m \in Messages, status'[m] = "completed" PROVE ack'[m] \in TerminalAck
  <2>1. ack[m] \in TerminalAck
    BY <1>2, NextRowStep DEF RowStep, IInv, SettledForAReason
  <2> QED
    BY <2>1, FinishedStaysFinished
<1>3. ASSUME NEW m \in Messages, status'[m] = "failed"
      PROVE  ack'[m] \in TerminalAck \/ tries'[m] = MaxTries
  <2>1. ack[m] \in TerminalAck \/ tries'[m] = MaxTries
    BY <1>3, NextRowStep DEF RowStep, IInv, SettledForAReason
  <2> QED
    BY <2>1, FinishedStaysFinished
<1> QED
  BY <1>1, <1>2, <1>3 DEF SettledForAReason

\* The inductive invariant: the host settles a row only on an ack or at the
\* limit because no ack is ever taken back and no unwritten row is acked.
THEOREM InboundInvariant == Spec => []IInv
<1>1. Init => IInv
  BY InitType DEF Init, IInv, AckedRowsExist, SettledForAReason, TerminalAck
<1>2. IInv /\ [Next]_vars => IInv'
  <2> SUFFICES ASSUME IInv, [Next]_vars PROVE IInv'
    OBVIOUS
  <2>1. TypeOK'
    BY HostStepType, RunnerStepType, LossType
    DEF IInv, Next, TypeOK, vars, inboundDb, host, poller, runner, history
  <2> QED
    BY <2>1, NextRowStep, SettledStep DEF IInv
<1> QED
  BY <1>1, <1>2, PTL DEF Spec

\* A completed row was acked by a runner, a failed one acked or out of tries.
THEOREM RowsSettleForAReason == Spec => []SettledForAReason
<1>1. IInv => SettledForAReason
  BY DEF IInv
<1> QED
  BY <1>1, InboundInvariant, PTL

\* No step of either process un-finishes a row or relabels a settled one.
THEOREM RowsStaySettled == Spec => SettledStaysSettled
<1>1. IInv /\ [Next]_vars =>
        [\A m \in Messages :
           /\ ack[m] \in TerminalAck => ack'[m] \in TerminalAck
           /\ status[m] \in TerminalStatus => status'[m] = status[m]]_vars
  BY FinishedStaysFinished, SettledStep
<1> QED
  BY <1>1, InboundInvariant, PTL DEF Spec, SettledStaysSettled

\* The two databases with their writers implement, for every row, the
\* contract of MessageContract.
THEOREM RowsKeepTheirContract == Spec => EachRowKeepsItsContract
<1>1. Init => \A m \in Messages : Contract(m)!Init
  BY DEF Init, Contract!Init, TerminalAck
<1>2. IInv /\ [Next]_vars => [\A m \in Messages : [Contract(m)!Next]_(Contract(m)!cvars)]_vars
  <2> SUFFICES ASSUME IInv, [Next]_vars, NEW m \in Messages
               PROVE  [Contract(m)!Next]_(Contract(m)!cvars)
    OBVIOUS
  <2>1. RowStep(m)
    BY NextRowStep
  <2>2. ack[m] \in TerminalAck => ack'[m] \in TerminalAck
    BY FinishedStaysFinished
  <2>3. status'[m] = "absent" => ack'[m] = "none"
    BY NextRowStep DEF AckedRowsExist
  <2>4. /\ status[m] = "completed" => ack[m] \in TerminalAck
        /\ status[m] \in {"absent", "pending"} \cup TerminalStatus
        /\ tries[m] \in Nat /\ MaxTries \in Nat
    BY ConstantsAssumption DEF IInv, SettledForAReason, TypeOK
  <2> QED
    BY <2>1, <2>2, <2>3, <2>4 DEF RowStep, TerminalAck, TerminalStatus, Contract!Next, Contract!cvars,
       Contract!Accept, Contract!Take, Contract!Charge, Contract!GiveUp, Contract!Settle
<1> QED
  BY <1>1, <1>2, InboundInvariant, PTL DEF Spec, EachRowKeepsItsContract

-----------------------------------------------------------------------------
(* What one container hands to the agent.                                  *)

\* A container starts with nothing in hand.
StartsEmpty ==
  phase \in {"off", "boot"} =>
    batch = {} /\ stale = {} /\ handed = {} /\ twice = {}

\* Follow-ups belong to an open query, prompts to one not closed yet.
OnlyInQuery ==
  /\ phase # "query" => fup = {}
  /\ phase \notin {"query", "closing"} => turns = <<>>

\* A batch that has not reached the agent is claimed and new to it, once it
\* has reached it the agent knows it.
BatchFollowsPhase ==
  /\ phase \in {"claimed", "scripts"} =>
       \A m \in batch \ disturbed : ack[m] = "processing" /\ m \notin handed
  /\ phase = "query" => batch \subseteq handed

\* No row the runner has picked up looks unclaimed to its polls, unless the
\* host dropped the claim.
HeldKeepAck ==
  \A m \in (batch \cup fup \cup stale \cup handed) \ disturbed : ack[m] # "none"

\* A follow-up repeats nothing of the batch and nothing handed over.
FollowUpsAreNew ==
  /\ batch \cap (fup \cup stale) \subseteq disturbed
  /\ fup \cap handed \subseteq disturbed

\* A row of the batch waits in the first turn or has had its result,
BatchIsWaitedFor ==
  phase \in {"query", "closing"} =>
    \A m \in batch : m \in accounted \/ (turns # <<>> /\ m \in turns[1])

\* and until then it is claimed, unless the host dropped the claim.
BatchClaimedUntilResult ==
  \A m \in batch : m \in disturbed \/ ack[m] = "processing" \/ m \in accounted

HandInv ==
  /\ StartsEmpty /\ OnlyInQuery /\ BatchFollowsPhase
  /\ HeldKeepAck /\ FollowUpsAreNew /\ HandedOnce

AccountInv == BatchIsWaitedFor /\ BatchClaimedUntilResult /\ AckedIsAccountedFor

RunnerInv == HandInv /\ AccountInv

Holding == <<batch, fup, stale, accounted, handed, twice, turns>>

\* The host reaches into the runner only where it drops the claims.
LEMMA HostLeavesRunner ==
  ASSUME HostStep
  PROVE  /\ UNCHANGED Holding
         /\ phase' = phase \/ (phase = "off" /\ phase' = "boot")
         /\ UNCHANGED <<ack, disturbed>> \/ DropClaims
<1> USE DEF inboundDb, host, poller, runner, history, Holding
<1>1. ASSUME NEW m \in Messages, Arrive(m) \/ BackoffElapses(m)
      PROVE  UNCHANGED <<ack, phase, disturbed, Holding>>
  BY <1>1 DEF Arrive, BackoffElapses
<1>2. CASE SweepSession \/ SlaOk \/ SlaKill \/ DropFails \/ SweepWakeFails
           \/ SweepAfterWake \/ ExitObserved \/ StopFails \/ HostCrashes
           \/ HostRestarts
  BY <1>2 DEF SweepSession, SlaOk, SlaKill, DropFails, SweepWakeFails,
     SweepAfterWake, ExitObserved, StopFails, HostCrashes, HostRestarts
<1>3. CASE SweepWakes \/ HostWakes
  BY <1>3 DEF SweepWakes, HostWakes, Spawned
<1>4. CASE DropClaims
  BY <1>4 DEF DropClaims
<1> QED
  BY <1>1, <1>2, <1>3, <1>4 DEF HostStep

\* While a container runs, whose claim the host drops is remembered.
LEMMA HostKeepsHandInv ==
  ASSUME TypeOK, HandInv, HostStep
  PROVE  HandInv'
<1> USE DEF HandInv, Holding
<1>1. CASE UNCHANGED <<ack, disturbed>>
  <2>1. StartsEmpty' /\ OnlyInQuery' /\ BatchFollowsPhase'
    BY <1>1, HostLeavesRunner DEF StartsEmpty, OnlyInQuery, BatchFollowsPhase
  <2>2. HeldKeepAck' /\ FollowUpsAreNew' /\ HandedOnce'
    BY <1>1, HostLeavesRunner
    DEF HeldKeepAck, FollowUpsAreNew, HandedOnce
  <2> QED  BY <2>1, <2>2
<1>2. CASE DropClaims
  <2>1. UNCHANGED Holding /\ phase' = phase
    BY <1>2 DEF DropClaims, runner, poller
  <2>2. \A m \in Messages : ack[m] # "processing" => ack'[m] = ack[m]
    BY <1>2 DEF DropClaims, Marked, Claims, TypeOK
  <2>3. CASE phase = "off"
    BY <2>1, <2>3 DEF StartsEmpty, OnlyInQuery, BatchFollowsPhase, HeldKeepAck,
       FollowUpsAreNew, HandedOnce
  <2>4. CASE phase # "off"
    <3>1. disturbed' = disturbed \cup Claims
      BY <1>2, <2>4 DEF DropClaims
    <3>2. \A m \in Messages \ disturbed' : ack'[m] = ack[m]
      BY <2>2, <3>1 DEF Claims
    <3>3. /\ batch \subseteq Messages /\ fup \subseteq Messages
          /\ stale \subseteq Messages /\ handed \subseteq Messages
      BY DEF TypeOK
    <3>4. StartsEmpty' /\ OnlyInQuery'
      BY <2>1 DEF StartsEmpty, OnlyInQuery
    <3>5. BatchFollowsPhase' /\ HeldKeepAck'
      BY <2>1, <3>1, <3>2, <3>3 DEF BatchFollowsPhase, HeldKeepAck
    <3>6. FollowUpsAreNew' /\ HandedOnce'
      BY <2>1, <3>1 DEF FollowUpsAreNew, HandedOnce
    <3> QED  BY <3>4, <3>5, <3>6
  <2> QED  BY <2>3, <2>4
<1> QED  BY <1>1, <1>2, HostLeavesRunner

\* A claim takes rows the runner does not hold undisturbed, and leaves the
\* acks of the others alone.
LEMMA ClaimTakesNew ==
  ASSUME TypeOK, HandInv, NEW first, Claim(Selected(first))
  PROVE  /\ Selected(first) \cap (batch \cup fup \cup stale \cup handed)
               \subseteq disturbed
         /\ \A m \in Selected(first) : ack'[m] = "processing"
         /\ \A m \in Messages \ Selected(first) : ack'[m] = ack[m]
         /\ \A m \in Messages : ack[m] # "none" => ack'[m] = ack[m]
<1>1. \A m \in Selected(first) : m \in Messages /\ ack[m] = "none"
  BY SelectedUnclaimed
<1>2. ack' = Marked(Selected(first), "processing")
  BY DEF Claim
<1> QED
  BY <1>1, <1>2 DEF HandInv, HeldKeepAck, Marked

\* What the scripts of a batch or follow-up keep is part of it, and only its
\* own rows get an ack.
LEMMA VerdictRows ==
  ASSUME NEW S \in SUBSET Messages, NEW v \in Verdicts(S)
  PROVE  /\ Kept(S, v) \subseteq S
         /\ \A m \in Kept(S, v) : Skipped(v)[m] = ack[m]
         /\ \A m \in Messages \ S : Skipped(v)[m] = ack[m]
         /\ \A m \in Messages : ack[m] # "none" => Skipped(v)[m] # "none"
BY DEF Verdicts, Kept, Skipped

LEMMA OuterPollKeeps ==
  ASSUME TypeOK, HandInv, OuterPoll
  PROVE  HandInv'
<1> USE DEF HandInv
<1> DEFINE ids == Selected(firstPoll)
<1>1. /\ phase = "poll" /\ UNCHANGED <<fup, stale, turns, handed, twice, disturbed>>
      /\ \/ UNCHANGED <<phase, batch, ack>>
         \/ phase' = "claimed" /\ batch' = ids /\ Claim(ids)
  BY DEF OuterPoll, poller
<1>2. CASE UNCHANGED <<phase, batch, ack>>
  BY <1>1, <1>2 DEF StartsEmpty, OnlyInQuery, BatchFollowsPhase, HeldKeepAck,
     FollowUpsAreNew, HandedOnce
<1>3. CASE phase' = "claimed" /\ batch' = ids /\ Claim(ids)
  <2>1. /\ ids \cap (batch \cup fup \cup stale \cup handed) \subseteq disturbed
        /\ \A m \in ids : ack'[m] = "processing"
        /\ \A m \in Messages : ack[m] # "none" => ack'[m] = ack[m]
    BY <1>3, ClaimTakesNew
  <2>2. ids \subseteq Messages
    BY SelectedUnclaimed
  <2> HIDE DEF ids
  <2>3. StartsEmpty' /\ OnlyInQuery' /\ BatchFollowsPhase'
    BY <1>1, <1>3, <2>1 DEF StartsEmpty, OnlyInQuery, BatchFollowsPhase
  <2>4. HeldKeepAck'
    BY <1>1, <1>3, <2>1 DEF HeldKeepAck, TypeOK
  <2>5. FollowUpsAreNew' /\ HandedOnce'
    BY <1>1, <1>3, <2>1 DEF FollowUpsAreNew, HandedOnce
  <2> QED  BY <2>3, <2>4, <2>5
<1> QED  BY <1>1, <1>2, <1>3

LEMMA AnswerCommandsKeeps ==
  ASSUME TypeOK, HandInv, AnswerCommands
  PROVE  HandInv'
<1> USE DEF HandInv
<1>1. /\ phase = "claimed" /\ phase' \in {"poll", "scripts"}
      /\ batch' = batch \ BuiltIn
      /\ UNCHANGED <<fup, stale, turns, handed, twice, disturbed>>
  BY DEF AnswerCommands, poller, history
<1>2. /\ \A m \in Messages \ (batch \cap BuiltIn) : ack'[m] = ack[m]
      /\ \A m \in batch \cap BuiltIn : m \in Messages => ack'[m] = "completed"
  BY DEF AnswerCommands, Marked
<1>3. turns = <<>> /\ fup = {}
  BY <1>1 DEF OnlyInQuery
<1>4. StartsEmpty' /\ OnlyInQuery' /\ HandedOnce' /\ FollowUpsAreNew'
  BY <1>1, <1>3 DEF StartsEmpty, OnlyInQuery, HandedOnce, FollowUpsAreNew
<1>5. BatchFollowsPhase'
  BY <1>1, <1>2 DEF BatchFollowsPhase, TypeOK
<1>6. HeldKeepAck'
  BY <1>1, <1>2 DEF HeldKeepAck, TypeOK
<1> QED  BY <1>4, <1>5, <1>6

LEMMA OpenQueryKeeps ==
  ASSUME TypeOK, HandInv, OpenQuery
  PROVE  HandInv'
<1> USE DEF HandInv
<1>1. PICK v \in Verdicts(batch) : ack' = Skipped(v) /\ batch' = Kept(batch, v)
  BY DEF OpenQuery
<1>2. /\ phase = "scripts" /\ UNCHANGED <<fup, stale, disturbed>>
      /\ \/ batch' = {} /\ phase' = "poll" /\ UNCHANGED <<turns, handed, twice>>
         \/ phase' = "query" /\ turns' = <<batch'>> /\ Hand(batch')
  BY DEF OpenQuery, poller
<1>3. turns = <<>> /\ fup = {}
  BY <1>2 DEF OnlyInQuery
<1>4. /\ batch' \subseteq batch
      /\ \A m \in batch' : ack'[m] = ack[m]
      /\ \A m \in Messages : ack[m] # "none" => ack'[m] # "none"
      /\ batch \subseteq Messages /\ stale \subseteq Messages
      /\ handed \subseteq Messages
  <2>1. batch \in SUBSET Messages /\ stale \subseteq Messages
        /\ handed \subseteq Messages
    BY DEF TypeOK
  <2>2. /\ Kept(batch, v) \subseteq batch
        /\ \A m \in Kept(batch, v) : Skipped(v)[m] = ack[m]
        /\ \A m \in Messages : ack[m] # "none" => Skipped(v)[m] # "none"
    BY <2>1, VerdictRows
  <2> QED  BY <1>1, <2>1, <2>2
<1>5. \A m \in batch \ disturbed : ack[m] = "processing" /\ m \notin handed
  BY <1>2 DEF BatchFollowsPhase
<1>6. CASE batch' = {} /\ phase' = "poll" /\ UNCHANGED <<turns, handed, twice>>
  BY <1>2, <1>3, <1>4, <1>6
  DEF StartsEmpty, OnlyInQuery, BatchFollowsPhase, HeldKeepAck, FollowUpsAreNew,
      HandedOnce
<1>7. CASE phase' = "query" /\ turns' = <<batch'>> /\ Hand(batch')
  <2>1. handed' = handed \cup batch' /\ twice' = twice \cup (batch' \cap handed)
    BY <1>7 DEF Hand
  <2>2. StartsEmpty' /\ OnlyInQuery' /\ BatchFollowsPhase'
    BY <1>7, <2>1 DEF StartsEmpty, OnlyInQuery, BatchFollowsPhase
  <2>3. HeldKeepAck'
    BY <1>2, <1>3, <1>4, <1>5, <2>1 DEF HeldKeepAck
  <2>4. FollowUpsAreNew' /\ HandedOnce'
    BY <1>2, <1>3, <1>4, <1>5, <2>1 DEF FollowUpsAreNew, HandedOnce
  <2> QED  BY <2>2, <2>3, <2>4
<1> QED  BY <1>2, <1>6, <1>7

\* A result acks the batch and closes the turn that held it.
LEMMA TurnResultKeeps ==
  ASSUME TypeOK, HandInv, TurnResult
  PROVE  HandInv'
<1> USE DEF HandInv
<1>1. /\ phase = "query" /\ turns # <<>> /\ turns' = Tail(turns)
      /\ UNCHANGED <<phase, batch, fup, stale, handed, twice, disturbed>>
  BY DEF TurnResult, poller, history
<1>2. \A m \in Messages : ack'[m] = IF m \in batch THEN "completed" ELSE ack[m]
  BY DEF TurnResult, Marked
<1>3. StartsEmpty' /\ OnlyInQuery' /\ BatchFollowsPhase' /\ FollowUpsAreNew'
      /\ HandedOnce'
  BY <1>1 DEF StartsEmpty, OnlyInQuery, BatchFollowsPhase, FollowUpsAreNew, HandedOnce
<1>4. HeldKeepAck'
  BY <1>1, <1>2 DEF HeldKeepAck, TypeOK
<1> QED  BY <1>3, <1>4

LEMMA CloseBatchKeeps ==
  ASSUME TypeOK, HandInv, Boot \/ CloseBatch \/ StreamEnds
  PROVE  HandInv'
<1> USE DEF HandInv
<1>1. CASE Boot
  <2>1. /\ phase = "boot" /\ phase' = "poll"
        /\ UNCHANGED <<batch, turns, fup, stale, handed, twice, disturbed>>
    BY <1>1 DEF Boot, poller, history
  <2> QED
    BY <2>1 DEF StartsEmpty, OnlyInQuery, BatchFollowsPhase, HeldKeepAck,
       FollowUpsAreNew, HandedOnce
<1>2. CASE CloseBatch
  <2>1. /\ phase = "closing" /\ phase' = "poll" /\ batch' = {}
        /\ turns' = <<>> /\ UNCHANGED <<fup, stale, handed, twice, disturbed>>
    BY <1>2 DEF CloseBatch, poller, history
  <2>2. \A m \in Messages : ack'[m] = IF m \in batch THEN "completed" ELSE ack[m]
    BY <1>2 DEF CloseBatch, Marked
  <2>3. HeldKeepAck'
    BY <2>1, <2>2 DEF HeldKeepAck, TypeOK
  <2> QED
    BY <2>1, <2>3 DEF StartsEmpty, OnlyInQuery, BatchFollowsPhase,
       FollowUpsAreNew, HandedOnce
<1>3. CASE StreamEnds
  BY <1>3 DEF StreamEnds, EndQuery, history, StartsEmpty, OnlyInQuery,
     BatchFollowsPhase, HeldKeepAck, FollowUpsAreNew, HandedOnce
<1> QED  BY <1>1, <1>2, <1>3

LEMMA FollowUpPollKeeps ==
  ASSUME TypeOK, HandInv, FollowUpPoll
  PROVE  HandInv'
<1> USE DEF HandInv
<1> DEFINE new == Selected(FALSE)
<1>1. /\ phase = "query" /\ fup = {} /\ UNCHANGED <<batch, turns, handed, twice, disturbed>>
      /\ \/ EndQuery /\ UNCHANGED ack
         \/ fup' = new /\ Claim(new) /\ UNCHANGED <<phase, stale>>
  BY DEF FollowUpPoll
<1>2. CASE EndQuery /\ UNCHANGED ack
  BY <1>1, <1>2 DEF EndQuery, StartsEmpty, OnlyInQuery, BatchFollowsPhase,
     HeldKeepAck, FollowUpsAreNew, HandedOnce
<1>3. CASE fup' = new /\ Claim(new) /\ UNCHANGED <<phase, stale>>
  <2>1. /\ new \cap (batch \cup fup \cup stale \cup handed) \subseteq disturbed
        /\ \A m \in new : ack'[m] = "processing"
        /\ \A m \in Messages : ack[m] # "none" => ack'[m] = ack[m]
    BY <1>3, ClaimTakesNew
  <2> HIDE DEF new
  <2>2. batch \subseteq Messages /\ stale \subseteq Messages
        /\ handed \subseteq Messages
    BY DEF TypeOK
  <2>3. StartsEmpty' /\ OnlyInQuery' /\ BatchFollowsPhase'
    BY <1>1, <1>3 DEF StartsEmpty, OnlyInQuery, BatchFollowsPhase
  <2>4. HeldKeepAck'
    BY <1>1, <1>3, <2>1, <2>2 DEF HeldKeepAck
  <2>5. FollowUpsAreNew' /\ HandedOnce'
    BY <1>1, <1>3, <2>1 DEF FollowUpsAreNew, HandedOnce
  <2> QED  BY <2>3, <2>4, <2>5
<1> QED  BY <1>1, <1>2, <1>3

\* A follow-up becomes a turn of its own, which has nothing of the batch.
LEMMA FollowUpPushKeeps ==
  ASSUME TypeOK, HandInv, FollowUpPush
  PROVE  HandInv'
<1> USE DEF HandInv
<1>1. /\ phase = "query" /\ fup' = {}
      /\ UNCHANGED <<phase, batch, stale, disturbed>>
  BY DEF FollowUpPush
<1>2. PICK v \in Verdicts(fup) :
        LET keep == Kept(fup, v)
        IN  /\ ack' = [m \in Messages |-> IF m \in keep THEN "completed" ELSE Skipped(v)[m]]
            /\ turns' = IF keep = {} THEN turns ELSE Append(turns, keep)
            /\ Hand(keep)
  BY DEF FollowUpPush
<1> DEFINE keep == Kept(fup, v)
<1>3. /\ fup \in SUBSET Messages /\ batch \subseteq Messages
      /\ stale \subseteq Messages /\ handed \subseteq Messages
      /\ turns \in Seq(SUBSET Messages)
  BY DEF TypeOK
<1>4. keep \subseteq fup
  BY <1>3, VerdictRows
<1>5. /\ \A m \in Messages \ fup : ack'[m] = ack[m]
      /\ \A m \in Messages : ack[m] # "none" => ack'[m] # "none"
      /\ \A m \in keep : ack'[m] = "completed"
  <2>1. /\ \A m \in Messages \ fup : Skipped(v)[m] = ack[m]
        /\ \A m \in Messages : ack[m] # "none" => Skipped(v)[m] # "none"
    BY <1>3, VerdictRows
  <2>2. \A m \in Messages :
          ack'[m] = IF m \in keep THEN "completed" ELSE Skipped(v)[m]
    BY <1>2
  <2> HIDE DEF keep
  <2> QED  BY <1>3, <1>4, <2>1, <2>2
<1>6. handed' = handed \cup keep /\ twice' = twice \cup (keep \cap handed)
  BY <1>2 DEF Hand
<1>7. turns' = turns \/ turns' = Append(turns, keep)
  BY <1>2
<1> HIDE DEF keep
<1>8. StartsEmpty' /\ OnlyInQuery' /\ BatchFollowsPhase'
  BY <1>1, <1>6 DEF StartsEmpty, OnlyInQuery, BatchFollowsPhase
<1>9. HeldKeepAck'
  BY <1>1, <1>3, <1>4, <1>5, <1>6 DEF HeldKeepAck
<1>10. FollowUpsAreNew' /\ HandedOnce'
  BY <1>1, <1>4, <1>6 DEF FollowUpsAreNew, HandedOnce
<1> QED  BY <1>8, <1>9, <1>10

LEMMA StaleAndAnswersKeep ==
  ASSUME TypeOK, HandInv,
         StaleFollowUpEnds \/ \E m \in Messages : ToolTakesAnswer(m)
  PROVE  HandInv'
<1> USE DEF HandInv
<1>1. /\ UNCHANGED <<phase, batch, turns, fup, handed, twice, disturbed>>
      /\ stale' \subseteq stale
      /\ \A m \in Messages : ack[m] # "none" => ack'[m] # "none"
      /\ \A m \in Messages \ stale : ack[m] # "none" => ack'[m] = ack[m]
  <2>1. CASE StaleFollowUpEnds
    <3>1. PICK v \in Verdicts(stale) : ack' = Skipped(v)
      BY <2>1 DEF StaleFollowUpEnds
    <3>2. stale \in SUBSET Messages
      BY DEF TypeOK
    <3>3. /\ \A m \in Messages \ stale : Skipped(v)[m] = ack[m]
          /\ \A m \in Messages : ack[m] # "none" => Skipped(v)[m] # "none"
      BY <3>2, VerdictRows
    <3> QED  BY <2>1, <3>1, <3>3 DEF StaleFollowUpEnds, runner, history
  <2>2. ASSUME NEW k \in Messages, ToolTakesAnswer(k)
        PROVE  /\ UNCHANGED <<phase, batch, turns, fup, stale, handed, twice, disturbed>>
               /\ \A m \in Messages : ack[m] # "none" => ack'[m] = ack[m]
    BY <2>2 DEF ToolTakesAnswer, runner, poller, history, TypeOK
  <2> QED  BY <2>1, <2>2
<1>2. /\ batch \subseteq Messages /\ fup \subseteq Messages
      /\ stale \subseteq Messages /\ handed \subseteq Messages
  BY DEF TypeOK
<1>3. StartsEmpty' /\ OnlyInQuery' /\ FollowUpsAreNew' /\ HandedOnce'
  BY <1>1 DEF StartsEmpty, OnlyInQuery, FollowUpsAreNew, HandedOnce
<1>4. HeldKeepAck'
  BY <1>1, <1>2 DEF HeldKeepAck
<1>5. \A m \in batch \ disturbed : m \notin stale
  BY DEF FollowUpsAreNew
<1>6. BatchFollowsPhase'
  BY <1>1, <1>2, <1>5 DEF BatchFollowsPhase
<1> QED  BY <1>3, <1>4, <1>6

LEMMA RunnerKeepsHandInv ==
  ASSUME TypeOK, HandInv, RunnerStep
  PROVE  HandInv'
BY OuterPollKeeps, AnswerCommandsKeeps, OpenQueryKeeps, TurnResultKeeps,
   CloseBatchKeeps, FollowUpPollKeeps, FollowUpPushKeeps, StaleAndAnswersKeep
DEF RunnerStep

\* A container that is lost takes what it held along; one that hangs keeps it.
LEMMA LossKeepsHandInv ==
  ASSUME HandInv, Stopped \/ RunnerCrashes \/ PoisonCrash \/ RunnerHangs
  PROVE  HandInv'
<1> USE DEF HandInv, StartsEmpty, OnlyInQuery, BatchFollowsPhase, HeldKeepAck,
       FollowUpsAreNew, HandedOnce
<1>1. CASE Gone
  BY <1>1 DEF Gone
<1>2. CASE RunnerHangs
  BY <1>2 DEF RunnerHangs, poller, history
<1> QED
  BY <1>1, <1>2 DEF Stopped, RunnerCrashes, PoisonCrash

-----------------------------------------------------------------------------
(* What becomes of the rows a container was given.                         *)

\* The host takes claims away, remembered while a container runs, and acks
\* nothing.
LEMMA HostKeepsAccountInv ==
  ASSUME TypeOK, RunnerInv, HostStep
  PROVE  AccountInv'
<1> USE DEF RunnerInv, HandInv, AccountInv, Holding
<1>1. UNCHANGED Holding /\ (phase' = phase \/ (phase = "off" /\ phase' = "boot"))
  BY HostLeavesRunner
<1>2. BatchIsWaitedFor'
  BY <1>1 DEF BatchIsWaitedFor
<1>3. CASE UNCHANGED <<ack, disturbed>>
  BY <1>1, <1>2, <1>3 DEF BatchClaimedUntilResult, AckedIsAccountedFor, Unanswered
<1>4. CASE DropClaims
  <2>1. \A m \in Messages : ack'[m] = ack[m] \/ (ack[m] = "processing" /\ ack'[m] = "none")
    BY <1>4 DEF DropClaims, Marked, Claims
  <2>2. disturbed' = IF phase = "off" THEN disturbed ELSE disturbed \cup Claims
    BY <1>4 DEF DropClaims
  <2>3. BatchClaimedUntilResult'
    BY <1>1, <2>1, <2>2 DEF BatchClaimedUntilResult, StartsEmpty, Claims, TypeOK
  <2>4. AckedIsAccountedFor'
    BY <1>1, <2>1 DEF AckedIsAccountedFor, Unanswered
  <2> QED  BY <1>2, <2>3, <2>4
<1> QED  BY <1>3, <1>4, HostLeavesRunner

\* A step that acks no plain row and takes no turn away keeps the account.
LEMMA AccountKept ==
  ASSUME AckedIsAccountedFor, UNCHANGED <<turns, accounted>>,
         \A m \in Messages \ (BuiltIn \cup Scripted \cup System) :
           ack'[m] = "completed" => ack[m] = "completed"
  PROVE  AckedIsAccountedFor'
BY DEF AckedIsAccountedFor, Unanswered

\* The scripts of a set of rows ack scripted rows of that set only.
LEMMA ScriptedOnly ==
  ASSUME NEW S \in SUBSET Messages, NEW v \in Verdicts(S)
  PROVE  \A m \in Messages \ Scripted : Skipped(v)[m] = ack[m]
BY DEF Verdicts, Skipped

LEMMA PollsKeepAccount ==
  ASSUME TypeOK, RunnerInv, OuterPoll \/ FollowUpPoll \/ StreamEnds \/ Boot
  PROVE  AccountInv'
<1> USE DEF RunnerInv, HandInv, AccountInv
<1>1. CASE OuterPoll
  <2> DEFINE ids == Selected(firstPoll)
  <2>1. /\ phase = "poll" /\ UNCHANGED <<turns, accounted, disturbed>>
        /\ \/ UNCHANGED <<phase, batch, ack>>
           \/ phase' = "claimed" /\ batch' = ids /\ Claim(ids)
    BY <1>1 DEF OuterPoll
  <2>2. CASE UNCHANGED <<phase, batch, ack>>
    BY <2>1, <2>2 DEF BatchIsWaitedFor, BatchClaimedUntilResult, AckedIsAccountedFor, Unanswered
  <2>3. CASE phase' = "claimed" /\ batch' = ids /\ Claim(ids)
    <3>1. /\ \A m \in ids : ack'[m] = "processing"
          /\ \A m \in Messages \ ids : ack'[m] = ack[m]
      BY <2>3, ClaimTakesNew
    <3> HIDE DEF ids
    <3> QED
      BY <2>1, <2>3, <3>1, AccountKept DEF BatchIsWaitedFor, BatchClaimedUntilResult
  <2> QED  BY <2>1, <2>2, <2>3
<1>2. CASE FollowUpPoll
  <2> DEFINE new == Selected(FALSE)
  <2>1. /\ phase = "query" /\ UNCHANGED <<batch, turns, accounted, disturbed>>
        /\ phase' \in {"query", "closing"}
        /\ UNCHANGED ack \/ Claim(new)
    BY <1>2 DEF FollowUpPoll, EndQuery
  <2>2. BatchIsWaitedFor'
    BY <2>1 DEF BatchIsWaitedFor
  <2>3. CASE UNCHANGED ack
    BY <2>1, <2>2, <2>3 DEF BatchClaimedUntilResult, AckedIsAccountedFor, Unanswered
  <2>4. CASE Claim(new)
    <3>1. /\ \A m \in new : ack'[m] = "processing"
          /\ \A m \in Messages \ new : ack'[m] = ack[m]
      BY <2>4, ClaimTakesNew
    <3>2. batch \subseteq Messages
      BY DEF TypeOK
    <3> HIDE DEF new
    <3>3. BatchClaimedUntilResult'
      BY <2>1, <3>1, <3>2 DEF BatchClaimedUntilResult
    <3>4. AckedIsAccountedFor'
      BY <2>1, <3>1, AccountKept
    <3> QED  BY <2>2, <3>3, <3>4
  <2> QED  BY <2>1, <2>3, <2>4
<1>3. CASE StreamEnds
  BY <1>3 DEF StreamEnds, EndQuery, history, BatchIsWaitedFor,
     BatchClaimedUntilResult, AckedIsAccountedFor, Unanswered
<1>4. CASE Boot
  <2>1. /\ phase = "boot" /\ phase' = "poll" /\ batch = {}
        /\ UNCHANGED <<batch, turns, accounted>>
    BY <1>4 DEF Boot, history, StartsEmpty
  <2>2. \A m \in Messages : ack'[m] = "completed" => ack[m] = "completed"
    BY <1>4 DEF Boot, Marked
  <2> QED
    BY <2>1, <2>2, AccountKept DEF BatchIsWaitedFor, BatchClaimedUntilResult
<1> QED  BY <1>1, <1>2, <1>3, <1>4

LEMMA OpeningKeepsAccount ==
  ASSUME TypeOK, RunnerInv, AnswerCommands \/ OpenQuery
  PROVE  AccountInv'
<1> USE DEF RunnerInv, HandInv, AccountInv
<1>1. CASE AnswerCommands
  <2>1. /\ phase' \in {"poll", "scripts"} /\ batch' = batch \ BuiltIn
        /\ UNCHANGED <<turns, accounted, disturbed>>
    BY <1>1 DEF AnswerCommands, history
  <2>2. \A m \in Messages \ BuiltIn : ack'[m] = ack[m]
    BY <1>1 DEF AnswerCommands, Marked
  <2>3. batch \subseteq Messages
    BY DEF TypeOK
  <2> QED
    BY <2>1, <2>2, <2>3, AccountKept DEF BatchIsWaitedFor, BatchClaimedUntilResult
<1>2. CASE OpenQuery
  <2>1. PICK v \in Verdicts(batch) : ack' = Skipped(v) /\ batch' = Kept(batch, v)
    BY <1>2 DEF OpenQuery
  <2>2. /\ phase = "scripts" /\ UNCHANGED <<accounted, disturbed>>
        /\ \/ phase' = "poll" /\ UNCHANGED turns
           \/ phase' = "query" /\ turns' = <<batch'>>
    BY <1>2 DEF OpenQuery
  <2>3. batch \in SUBSET Messages
    BY DEF TypeOK
  <2>4. /\ batch' \subseteq batch
        /\ \A m \in batch' : ack'[m] = ack[m]
        /\ \A m \in Messages \ Scripted : ack'[m] = ack[m]
    BY <2>1, <2>3, VerdictRows, ScriptedOnly
  <2>5. BatchIsWaitedFor'
    BY <2>2 DEF BatchIsWaitedFor
  <2>6. BatchClaimedUntilResult'
    BY <2>2, <2>4 DEF BatchClaimedUntilResult
  <2>7. Unanswered = {}
    BY <2>2 DEF OnlyInQuery, Unanswered
  <2>8. AckedIsAccountedFor'
    BY <2>2, <2>4, <2>7 DEF AckedIsAccountedFor
  <2> QED  BY <2>5, <2>6, <2>8
<1> QED  BY <1>1, <1>2

\* A result accounts for the first turn and with it for all of the batch.
LEMMA TurnResultKeepsAccount ==
  ASSUME TypeOK, RunnerInv, TurnResult
  PROVE  AccountInv'
<1> USE DEF RunnerInv, HandInv, AccountInv
<1>1. /\ phase = "query" /\ turns # <<>> /\ turns' = Tail(turns)
      /\ accounted' = accounted \cup turns[1]
      /\ UNCHANGED <<phase, batch, disturbed>>
  <2>1. Head(turns) = turns[1]
    BY DEF TypeOK, TurnResult
  <2> QED  BY <2>1 DEF TurnResult
<1>2. \A m \in Messages : ack'[m] = IF m \in batch THEN "completed" ELSE ack[m]
  BY DEF TurnResult, Marked
<1>3. batch \subseteq accounted'
  BY <1>1 DEF BatchIsWaitedFor
<1>4. Unanswered \subseteq turns[1] \cup Unanswered'
  <2> SUFFICES ASSUME NEW i \in DOMAIN turns, NEW m \in turns[i], i # 1
               PROVE  m \in Unanswered'
    BY DEF Unanswered
  <2>1. i - 1 \in DOMAIN turns' /\ turns'[i - 1] = turns[i]
    BY <1>1 DEF TypeOK
  <2> QED  BY <2>1 DEF Unanswered
<1>5. AckedIsAccountedFor'
  BY <1>1, <1>2, <1>3, <1>4 DEF AckedIsAccountedFor
<1> QED
  BY <1>1, <1>3, <1>5 DEF BatchIsWaitedFor, BatchClaimedUntilResult

\* The end of a query accounts for all it held.
LEMMA CloseBatchKeepsAccount ==
  ASSUME TypeOK, RunnerInv, CloseBatch
  PROVE  AccountInv'
<1> USE DEF RunnerInv, HandInv, AccountInv
<1>1. /\ phase = "closing" /\ phase' = "poll" /\ batch' = {}
      /\ accounted' = accounted \cup Unanswered
  BY DEF CloseBatch
<1>2. \A m \in Messages : ack'[m] = IF m \in batch THEN "completed" ELSE ack[m]
  BY DEF CloseBatch, Marked
<1>3. turns # <<>> => turns[1] \subseteq Unanswered
  BY DEF TypeOK, Unanswered
<1>4. batch \subseteq accounted'
  BY <1>1, <1>3 DEF BatchIsWaitedFor
<1> QED
  BY <1>1, <1>2, <1>4
  DEF BatchIsWaitedFor, BatchClaimedUntilResult, AckedIsAccountedFor

\* A pushed follow-up is acked and waits in its turn.
LEMMA FollowUpPushKeepsAccount ==
  ASSUME TypeOK, RunnerInv, FollowUpPush
  PROVE  AccountInv'
<1> USE DEF RunnerInv, HandInv, AccountInv
<1>1. phase = "query" /\ UNCHANGED <<phase, batch, accounted, disturbed>>
  BY DEF FollowUpPush
<1>2. PICK v \in Verdicts(fup) :
        LET keep == Kept(fup, v)
        IN  /\ ack' = [m \in Messages |-> IF m \in keep THEN "completed" ELSE Skipped(v)[m]]
            /\ turns' = IF keep = {} THEN turns ELSE Append(turns, keep)
            /\ Hand(keep)
  BY DEF FollowUpPush
<1> DEFINE keep == Kept(fup, v)
<1>3. fup \in SUBSET Messages /\ batch \subseteq Messages /\ turns \in Seq(SUBSET Messages)
  BY DEF TypeOK
<1>4. keep \subseteq fup
  BY <1>3, VerdictRows
<1>5. /\ \A m \in Messages \ fup : ack'[m] = ack[m]
      /\ \A m \in Messages \ (Scripted \cup keep) : ack'[m] = ack[m]
  <2>1. /\ \A m \in Messages \ fup : Skipped(v)[m] = ack[m]
        /\ \A m \in Messages \ Scripted : Skipped(v)[m] = ack[m]
    BY <1>3, VerdictRows, ScriptedOnly
  <2>2. \A m \in Messages :
          ack'[m] = IF m \in keep THEN "completed" ELSE Skipped(v)[m]
    BY <1>2
  <2> HIDE DEF keep
  <2> QED  BY <1>4, <2>1, <2>2
<1>6. \/ keep = {} /\ turns' = turns
      \/ turns' = Append(turns, keep)
  BY <1>2
<1>7. keep \in SUBSET Messages
  BY <1>3, <1>4
<1> HIDE DEF keep
<1>8. /\ \A i \in DOMAIN turns : i \in DOMAIN turns' /\ turns'[i] = turns[i]
      /\ keep = {} \/ \E i \in DOMAIN turns' : turns'[i] = keep
      /\ turns # <<>> => turns' # <<>> /\ turns'[1] = turns[1]
  <2>1. CASE keep = {} /\ turns' = turns
    BY <2>1
  <2>2. CASE turns' = Append(turns, keep)
    <3>1. /\ DOMAIN turns = 1..Len(turns) /\ DOMAIN turns' = 1..(Len(turns) + 1)
          /\ Len(turns) \in Nat /\ turns'[Len(turns) + 1] = keep
          /\ \A i \in 1..Len(turns) : turns'[i] = turns[i]
          /\ turns' # <<>> /\ (turns # <<>> => Len(turns) # 0)
      BY <1>3, <1>7, <2>2
    <3> QED  BY <3>1
  <2> QED  BY <1>6, <2>1, <2>2
<1>9. Unanswered \cup keep \subseteq Unanswered'
  BY <1>8 DEF Unanswered
<1>10. BatchIsWaitedFor'
  BY <1>1, <1>8 DEF BatchIsWaitedFor
<1>11. BatchClaimedUntilResult'
  BY <1>1, <1>3, <1>5 DEF BatchClaimedUntilResult, FollowUpsAreNew
<1>12. AckedIsAccountedFor'
  BY <1>1, <1>5, <1>9 DEF AckedIsAccountedFor
<1> QED  BY <1>10, <1>11, <1>12

LEMMA StaleAndAnswersKeepAccount ==
  ASSUME TypeOK, RunnerInv,
         StaleFollowUpEnds \/ \E m \in Messages : ToolTakesAnswer(m)
  PROVE  AccountInv'
<1> USE DEF RunnerInv, HandInv, AccountInv
<1>1. batch \subseteq Messages /\ stale \in SUBSET Messages
  BY DEF TypeOK
<1>2. CASE StaleFollowUpEnds
  <2>1. PICK v \in Verdicts(stale) : ack' = Skipped(v)
    BY <1>2 DEF StaleFollowUpEnds
  <2>2. /\ \A m \in Messages \ stale : ack'[m] = ack[m]
        /\ \A m \in Messages \ Scripted : ack'[m] = ack[m]
    BY <1>1, <2>1, VerdictRows, ScriptedOnly
  <2>3. UNCHANGED <<phase, batch, turns, accounted, disturbed>>
    BY <1>2 DEF StaleFollowUpEnds, runner, history
  <2>4. BatchIsWaitedFor' /\ BatchClaimedUntilResult'
    BY <1>1, <2>2, <2>3
    DEF BatchIsWaitedFor, BatchClaimedUntilResult, FollowUpsAreNew
  <2> QED  BY <2>2, <2>3, <2>4, AccountKept
<1>3. ASSUME NEW k \in Messages, ToolTakesAnswer(k) PROVE AccountInv'
  <2>1. /\ k \in System /\ ack[k] = "none" /\ ack' = [ack EXCEPT ![k] = "completed"]
        /\ UNCHANGED <<phase, batch, turns, accounted, disturbed>>
    BY <1>3 DEF ToolTakesAnswer, runner, history
  <2>2. \A m \in Messages \ {k} : ack'[m] = ack[m]
    BY <2>1 DEF TypeOK
  <2>3. BatchIsWaitedFor' /\ BatchClaimedUntilResult'
    BY <1>1, <2>1, <2>2 DEF BatchIsWaitedFor, BatchClaimedUntilResult
  <2> QED  BY <2>1, <2>2, <2>3, AccountKept
<1> QED  BY <1>2, <1>3

LEMMA RunnerKeepsAccountInv ==
  ASSUME TypeOK, RunnerInv, RunnerStep
  PROVE  AccountInv'
BY PollsKeepAccount, OpeningKeepsAccount, TurnResultKeepsAccount,
   CloseBatchKeepsAccount, FollowUpPushKeepsAccount, StaleAndAnswersKeepAccount
DEF RunnerStep

\* A container that dies leaves no plain row acked that is not accounted for:
\* an unanswered row of its batch is still claimed.
LEMMA LossKeepsAccountInv ==
  ASSUME RunnerInv, Stopped \/ RunnerCrashes \/ PoisonCrash \/ RunnerHangs
  PROVE  AccountInv'
<1> USE DEF RunnerInv, HandInv, AccountInv
<1>1. CASE Gone
  <2>1. /\ batch' = {} /\ UNCHANGED ack
        /\ accounted' = accounted \cup {m \in Unanswered : m \notin batch \/ m \in disturbed}
    BY <1>1 DEF Gone
  <2>2. ASSUME NEW m \in Messages \ (BuiltIn \cup Scripted \cup System), ack[m] = "completed"
        PROVE  m \in accounted'
    <3>1. m \in accounted \/ m \in Unanswered
      BY <2>2 DEF AckedIsAccountedFor
    <3>2. m \in batch => m \in disturbed \/ m \in accounted
      BY <2>2 DEF BatchClaimedUntilResult
    <3> QED  BY <2>1, <3>1, <3>2
  <2>3. AckedIsAccountedFor'
    BY <2>1, <2>2 DEF AckedIsAccountedFor
  <2> QED  BY <2>1, <2>3 DEF BatchIsWaitedFor, BatchClaimedUntilResult
<1>2. CASE RunnerHangs
  BY <1>2 DEF RunnerHangs, poller, history, BatchIsWaitedFor,
     BatchClaimedUntilResult, AckedIsAccountedFor, Unanswered
<1> QED
  BY <1>1, <1>2 DEF Stopped, RunnerCrashes, PoisonCrash

\* The runner's hands and its account in one induction: what it holds is
\* claimed, new to the agent, and waited for until its result, except where the
\* host dropped a claim; what it acked has its answer or was given up.
THEOREM RunnerInvariant == Spec => []RunnerInv
<1>1. Init => RunnerInv
  BY DEF Init, RunnerInv, HandInv, AccountInv, StartsEmpty, OnlyInQuery,
     BatchFollowsPhase, HeldKeepAck, FollowUpsAreNew, HandedOnce,
     BatchIsWaitedFor, BatchClaimedUntilResult, AckedIsAccountedFor
<1>2. TypeOK /\ RunnerInv /\ UNCHANGED vars => RunnerInv'
  BY DEF RunnerInv, HandInv, AccountInv, StartsEmpty, OnlyInQuery,
     BatchFollowsPhase, HeldKeepAck, FollowUpsAreNew, HandedOnce,
     BatchIsWaitedFor, BatchClaimedUntilResult, AckedIsAccountedFor, Unanswered,
     vars, runner, poller, history
<1>3. TypeOK /\ RunnerInv /\ [Next]_vars => RunnerInv'
  BY <1>2, HostKeepsHandInv, RunnerKeepsHandInv, LossKeepsHandInv,
     HostKeepsAccountInv, RunnerKeepsAccountInv, LossKeepsAccountInv
  DEF Next, RunnerInv
<1> QED
  BY <1>1, <1>3, TypeCorrect, PTL DEF Spec

\* No container gives the agent a row twice unless the host dropped the row's
\* claim under it: the ack filter holds against every interleaving of outer
\* polls, follow-ups, scripts, aborted queries and restarts.
THEOREM RowsAreHandedOnce == Spec => []HandedOnce
<1>1. RunnerInv => HandedOnce
  BY DEF RunnerInv, HandInv
<1> QED
  BY <1>1, RunnerInvariant, PTL

\* An acked row had its answer, waits for it, or was given up by the end of its
\* query or as a follow-up; the death of a container gives up none of its batch.
THEOREM AckedRowsAreAccountedFor == Spec => []AckedIsAccountedFor
<1>1. RunnerInv => AckedIsAccountedFor
  BY DEF RunnerInv, AccountInv
<1> QED
  BY <1>1, RunnerInvariant, PTL
=============================================================================
