---------------------------- MODULE InboundPlane ----------------------------
(***************************************************************************)
(* The inbound half of one session: the host writes rows into inbound.db,  *)
(* the runner in the container claims them through processing_ack rows in  *)
(* outbound.db, and the host sweep reconciles the two files, wakes the     *)
(* container, kills one that went quiet and retries what it had claimed.   *)
(*                                                                         *)
(* Each SQLite statement (or transaction) is one step; the three processes *)
(* (host, runner loop, follow-up poller) interleave between them.  Time is *)
(* abstract: a backoff may elapse at any step, and a claim may be found    *)
(* older than its tolerance at any sweep of a container (see Overdue).     *)
(***************************************************************************)
EXTENDS Naturals, FiniteSets, Sequences

CONSTANTS
  Messages,   \* row ids; a number, so that id order is seq order
  Trigger,    \* rows with trigger = 1 (the others are accumulated context)
  OnWake,     \* rows with on_wake = 1
  System,     \* rows of kind 'system' (answers to a blocking MCP tool)
  Commands,   \* slash commands: an open query is aborted for them
  BuiltIn,    \* of these, /clear and /upload-trace: the runner answers itself
  Scripted,   \* task rows that carry a pre-task script
  Poison,     \* rows whose turn makes the container die (e.g. out of memory)
  Limit,      \* maxMessagesPerPrompt
  MaxTries,   \* MAX_TRIES of host-sweep.ts
  MaxFaults   \* bound on host crashes, runner crashes, hangs and failed calls

ASSUME ConstantsAssumption ==
  /\ Messages \subseteq Nat
  /\ \A S \in {Trigger, OnWake, System, Commands, Scripted, Poison} :
       S \subseteq Messages
  /\ BuiltIn \subseteq Commands
  /\ Limit \in Nat \ {0}
  /\ MaxTries \in Nat
  /\ MaxFaults \in Nat

VARIABLES
  status,     \* messages_in.status, "absent" before the insert
  tries,      \* messages_in.tries
  delayed,    \* rows whose process_after lies in the future
  ack,        \* processing_ack.status, "none" when there is no row
  up,         \* the host process is running
  tracked,    \* activeContainers has this session (isContainerRunning)
  sweep,      \* where sweepSession is: "idle", "sla", "wake", "woke" or "drop"
  phase,      \* where the runner is, "off" when there is no container
  dying,      \* the driver was asked to stop the container
  hung,       \* the runner makes no more steps and touches no heartbeat
  firstPoll,  \* isFirstPoll of runPollLoop
  batch,      \* processingIds of the query that is open or closing
  turns,      \* prompts of the query (open or closing) without an answer yet
  fup,        \* rows the follow-up poller has claimed and not pushed yet
  stale,      \* rows claimed by a poller whose query ended meanwhile
  faults,     \* faults so far
  \* history, read by the properties only
  claims,     \* how often a row was claimed, counted to MaxTries + 1
  accounted,  \* rows whose turn got its result or was given up without one
  handed,     \* rows given to the provider by this container
  twice,      \* rows given to it more than once
  disturbed,  \* rows whose claim the host dropped under this container
  torn        \* a retry was not followed by its claim deletion

inboundDb == <<status, tries, delayed>>
host      == <<up, tracked, sweep>>
poller    == <<fup, stale>>
runner    == <<phase, hung, firstPoll, batch, turns>>
history   == <<claims, accounted, handed, twice, disturbed, torn>>
vars == <<inboundDb, ack, host, dying, runner, poller, faults, history>>

\* no code of the repository writes "failed" (markFailed has no caller)
TerminalAck    == {"completed", "failed", "script-skip:error"}
TerminalStatus == {"completed", "failed"}
Claims         == {m \in Messages : ack[m] = "processing"}

Init ==
  /\ status = [m \in Messages |-> "absent"]
  /\ tries = [m \in Messages |-> 0]
  /\ delayed = {}
  /\ ack = [m \in Messages |-> "none"]
  /\ up = TRUE /\ tracked = FALSE /\ sweep = "idle"
  /\ phase = "off" /\ dying = FALSE /\ hung = FALSE /\ firstPoll = TRUE
  /\ batch = {} /\ turns = <<>> /\ fup = {} /\ stale = {}
  /\ faults = 0
  /\ claims = [m \in Messages |-> 0]
  /\ accounted = {}
  /\ handed = {} /\ twice = {} /\ disturbed = {} /\ torn = FALSE

-----------------------------------------------------------------------------
(* What the two sides read. *)

Oldest(S, n) == {m \in S : Cardinality({k \in S : k < m}) < n}
Newest(S, n) == {m \in S : Cardinality({k \in S : k > m}) < n}

\* mutant of Unclaimed: only finished rows are skipped, not claimed ones
UnclaimedOrClaimed(first) ==
  {m \in Messages : /\ status[m] = "pending" /\ m \notin delayed
                    /\ ack[m] \notin TerminalAck
                    /\ first \/ m \notin OnWake}

\* Rows a poll of the runner can see: due, not claimed, not reserved for the
\* first poll of a container.
Unclaimed(first) ==
  {m \in Messages : /\ status[m] = "pending" /\ m \notin delayed
                    /\ ack[m] = "none"
                    /\ first \/ m \notin OnWake}

\* The window of at most Limit rows: wake rows first (oldest), then the newest
\* context; kind 'system' is filtered out only after the window is cut.
Selected(first) ==
  LET wake == Oldest(Unclaimed(first) \cap Trigger, Limit)
      rest == Limit - Cardinality(wake)
  IN  (wake \cup Newest(Unclaimed(first) \ Trigger, rest)) \ System

\* countDueMessages: the host's wake gate looks at inbound.db alone.
Due(st) == {m \in Trigger : st[m] = "pending" /\ m \notin delayed}

\* mutants of Synced: any ack counts; a settled row is relabelled
SyncedFromAnyAck == [m \in Messages |->
  IF ack[m] # "none" /\ status[m] \notin TerminalStatus THEN "completed" ELSE status[m]]
SyncedOverSettled == [m \in Messages |->
  IF ack[m] \in TerminalAck
  THEN IF ack[m] = "script-skip:error" THEN "failed" ELSE "completed"
  ELSE status[m]]

\* applyProcessingAcks: mirror terminal acks onto rows that are not terminal.
Synced == [m \in Messages |->
  IF ack[m] \in TerminalAck /\ status[m] \notin TerminalStatus
  THEN IF ack[m] = "script-skip:error" THEN "failed" ELSE "completed"
  ELSE status[m]]

\* mark(ids, s) of the runner
Marked(S, s) == [m \in Messages |-> IF m \in S THEN s ELSE ack[m]]

-----------------------------------------------------------------------------
(* Host: arrival, sweep, wake, exit. *)

\* The host's event loop is free: it awaits nothing between the two halves of
\* resetStuckProcessingRows (only the runner moves there, or the host dies).
Free == up /\ sweep # "drop"

\* A row is written; rows get their sequence number in order.
Arrive(m) ==
  /\ Free /\ status[m] = "absent"
  /\ \A k \in Messages : k < m => status[k] # "absent"
  /\ status' = [status EXCEPT ![m] = "pending"]
  /\ UNCHANGED <<tries, delayed, ack, host, dying, runner, poller, faults, history>>

BackoffElapses(m) ==
  /\ m \in delayed
  /\ delayed' = delayed \ {m}
  /\ UNCHANGED <<status, tries, ack, host, dying, runner, poller, faults, history>>

\* mutant of RetryClaimed: given up one try too early
RetryClaimedEarly(st) ==
  LET stuck == {m \in Claims : st[m] = "pending" /\ m \notin delayed}
      spent == {m \in stuck : tries[m] + 1 >= MaxTries}
  IN  /\ status' = [m \in Messages |-> IF m \in spent THEN "failed" ELSE st[m]]
      /\ tries' = [m \in Messages |-> IF m \in stuck \ spent THEN tries[m] + 1
                                                             ELSE tries[m]]
      /\ delayed' = delayed \cup (stuck \ spent)
      /\ sweep' = "drop"

\* resetStuckProcessingRows, first half: every claimed row that is pending and
\* not already waiting is charged a try and delayed, or failed at the limit.
RetryClaimed(st) ==
  LET stuck == {m \in Claims : st[m] = "pending" /\ m \notin delayed}
      spent == {m \in stuck : tries[m] >= MaxTries}
  IN  /\ status' = [m \in Messages |-> IF m \in spent THEN "failed" ELSE st[m]]
      /\ tries' = [m \in Messages |-> IF m \in stuck \ spent THEN tries[m] + 1
                                                             ELSE tries[m]]
      /\ delayed' = delayed \cup (stuck \ spent)
      /\ sweep' = "drop"

\* sweepSession up to its first await: sync the acks, then wake, check the
\* running container, or reset what a dead one left behind.
SweepSession ==
  /\ up /\ sweep = "idle"
  /\ IF Due(Synced) # {} /\ ~tracked
     THEN sweep' = "wake" /\ status' = Synced /\ UNCHANGED <<tries, delayed>>
     ELSE IF tracked
     THEN sweep' = "sla" /\ status' = Synced /\ UNCHANGED <<tries, delayed>>
     ELSE RetryClaimed(Synced)
  /\ UNCHANGED <<ack, up, tracked, dying, runner, poller, faults, history>>

\* mutant of Overdue: no absolute ceiling for an idle container
OverdueOnClaimsOnly == hung \/ (phase # "boot" /\ Claims # {})

\* When time can have run out for a container: it hangs, it holds a claim (a
\* turn may be silent past the tolerance), or it has had nothing to do.  One
\* that is booting or about to poll is seconds away from its next step, far
\* inside the 60 s tolerance and the 30 min ceiling.
Overdue ==
  \/ hung
  \/ phase # "boot" /\ (Claims # {} \/ Selected(firstPoll) \cap Trigger = {})

\* enforceRunningContainerSla: nothing to do ...
SlaOk ==
  /\ up /\ sweep = "sla"
  /\ sweep' = "idle"
  /\ UNCHANGED <<inboundDb, ack, up, tracked, dying, runner, poller, faults, history>>

\* ... or killContainer, which only requests the stop, and at once the reset.
SlaKill ==
  /\ up /\ sweep = "sla" /\ Overdue
  /\ dying' = (dying \/ (tracked /\ phase # "off"))
  /\ RetryClaimed(status)
  /\ UNCHANGED <<ack, up, tracked, runner, poller, faults, history>>

\* resetStuckProcessingRows, second half: deleteOrphanProcessingClaims.
DropClaims ==
  /\ up /\ sweep = "drop"
  /\ ack' = Marked(Claims, "none")
  /\ disturbed' = IF phase = "off" THEN disturbed ELSE disturbed \cup Claims
  /\ sweep' = "idle"
  /\ UNCHANGED <<inboundDb, up, tracked, dying, runner, poller, faults,
                 claims, accounted, handed, twice, torn>>

\* The deletion threw (outbound.db busy): logged, and the claims stay.
DropFails ==
  /\ up /\ sweep = "drop" /\ faults < MaxFaults
  /\ faults' = faults + 1 /\ sweep' = "idle" /\ torn' = TRUE
  /\ UNCHANGED <<inboundDb, ack, up, tracked, dying, runner, poller,
                 claims, accounted, handed, twice, disturbed>>

\* A successful spawn: a new container, or the one that is still there under
\* the session's deterministic name.
Spawned ==
  /\ tracked' = TRUE
  /\ phase' = IF phase = "off" THEN "boot" ELSE phase

\* wakeContainer from the sweep succeeds (at once if the session is running by
\* now) or fails (gateway, claim or driver) ...
SweepWakes ==
  /\ up /\ sweep = "wake"
  /\ IF tracked THEN UNCHANGED <<tracked, phase>> ELSE Spawned
  /\ sweep' = "woke"
  /\ UNCHANGED <<inboundDb, ack, up, dying, hung, firstPoll, batch, turns,
                 poller, faults, history>>

SweepWakeFails ==
  /\ up /\ sweep = "wake" /\ ~tracked
  /\ faults < MaxFaults
  /\ faults' = faults + 1 /\ sweep' = "woke"
  /\ UNCHANGED <<inboundDb, ack, up, tracked, dying, runner, poller, history>>

\* ... and maintenance follows: a container just woken is left alone, without
\* one the claimed rows are reset.
SweepAfterWake ==
  /\ up /\ sweep = "woke"
  /\ IF tracked THEN sweep' = "idle" /\ UNCHANGED inboundDb
                ELSE RetryClaimed(status)
  /\ UNCHANGED <<ack, up, tracked, dying, runner, poller, faults, history>>

\* wakeContainer from the router, an interactive answer or an exit callback.
HostWakes ==
  /\ Free /\ ~tracked /\ Due(status) # {}
  /\ Spawned
  /\ UNCHANGED <<inboundDb, ack, up, sweep, dying, hung, firstPoll, batch,
                 turns, poller, faults, history>>

\* finish(): the terminal event of a container removes it from the registry.
ExitObserved ==
  /\ Free /\ tracked /\ phase = "off"
  /\ tracked' = FALSE
  /\ UNCHANGED <<inboundDb, ack, up, sweep, dying, runner, poller, faults, history>>

\* handle.stop rejected: the registry entry goes, the container stays.
StopFails ==
  /\ Free /\ tracked /\ dying
  /\ faults < MaxFaults
  /\ faults' = faults + 1
  /\ tracked' = FALSE /\ dying' = FALSE
  /\ UNCHANGED <<inboundDb, ack, up, sweep, runner, poller, history>>

HostCrashes ==
  /\ up /\ faults < MaxFaults
  /\ faults' = faults + 1
  /\ up' = FALSE /\ tracked' = FALSE /\ sweep' = "idle"
  /\ torn' = (torn \/ sweep = "drop")
  /\ UNCHANGED <<inboundDb, ack, dying, runner, poller,
                 claims, accounted, handed, twice, disturbed>>

\* adoptRunningSessions: a surviving container is adopted, left untracked
\* (its claim is still held by the dead host's lease) or stopped.
HostRestarts ==
  /\ ~up
  /\ up' = TRUE
  /\ \/ tracked' = (phase # "off") /\ UNCHANGED dying
     \/ UNCHANGED <<tracked, dying>>
     \/ phase # "off" /\ dying' = TRUE /\ UNCHANGED tracked
  /\ UNCHANGED <<inboundDb, ack, sweep, runner, poller, faults, history>>

-----------------------------------------------------------------------------
(* Runner: runPollLoop and processQuery. *)

Running == phase # "off" /\ ~hung

\* A claim: markProcessing in the same synchronous block as the select.
Claim(S) ==
  /\ ack' = Marked(S, "processing")
  /\ claims' = [m \in Messages |->
       IF m \in S /\ claims[m] <= MaxTries THEN claims[m] + 1 ELSE claims[m]]

\* A prompt goes to the provider.
Hand(S) ==
  /\ twice' = twice \cup (S \cap handed)
  /\ handed' = handed \cup S

\* clearStaleProcessingAcks on startup
Boot ==
  /\ Running /\ phase = "boot"
  /\ ack' = Marked(Claims, "none")
  /\ phase' = "poll"
  /\ UNCHANGED <<inboundDb, host, dying, hung, firstPoll, batch, turns, poller,
                 faults, history>>

\* The outer loop claims a batch if it holds a wake row.
OuterPoll ==
  /\ Running /\ phase = "poll"
  /\ firstPoll' = FALSE
  /\ LET ids == Selected(firstPoll)
     IN  IF ids \cap Trigger = {}
         THEN UNCHANGED <<phase, batch, ack, claims>>
         ELSE phase' = "claimed" /\ batch' = ids /\ Claim(ids)
  /\ UNCHANGED <<inboundDb, host, dying, hung, turns, poller, faults,
                 accounted, handed, twice, disturbed, torn>>

\* mutant of AnswerCommands: the whole batch is acked with the commands
AnswerCommandsAcksAll ==
  /\ Running /\ phase = "claimed"
  /\ ack' = Marked(batch, "completed")
  /\ batch' = batch \ BuiltIn
  /\ phase' = IF batch \subseteq BuiltIn THEN "poll" ELSE "scripts"
  /\ UNCHANGED <<inboundDb, host, dying, hung, firstPoll, turns, poller, faults, history>>

\* The commands the runner handles are answered and acked first; the others
\* stay in the batch and go to the provider as its first input.
AnswerCommands ==
  /\ Running /\ phase = "claimed"
  /\ ack' = Marked(batch \cap BuiltIn, "completed")
  /\ batch' = batch \ BuiltIn
  /\ phase' = IF batch \subseteq BuiltIn THEN "poll" ELSE "scripts"
  /\ UNCHANGED <<inboundDb, host, dying, hung, firstPoll, turns, poller, faults, history>>

\* applyPreTaskScripts: every scripted row of S lets itself through, gates
\* itself or breaks; the skips are acked in one transaction.
Verdicts(S)  == [S \cap Scripted -> {"wake", "gated", "error"}]
Kept(S, v)   == {m \in S : m \in DOMAIN v => v[m] = "wake"}
Skipped(v) == [m \in Messages |->
  IF m \in DOMAIN v /\ v[m] = "error" THEN "script-skip:error"
  ELSE IF m \in DOMAIN v /\ v[m] = "gated" THEN "completed" ELSE ack[m]]

\* What the scripts keep opens a query, whose first turn it is.
OpenQuery ==
  /\ Running /\ phase = "scripts"
  /\ \E v \in Verdicts(batch) :
       /\ ack' = Skipped(v)
       /\ batch' = Kept(batch, v)
  /\ IF batch' = {}
     THEN phase' = "poll" /\ UNCHANGED <<turns, handed, twice>>
     ELSE phase' = "query" /\ turns' = <<batch'>> /\ Hand(batch')
  /\ UNCHANGED <<inboundDb, host, dying, hung, firstPoll, poller, faults,
                 claims, accounted, disturbed, torn>>

\* A result event closes the oldest turn and acks the initial batch.
TurnResult ==
  /\ Running /\ phase = "query" /\ turns # <<>>
  /\ Head(turns) \cap Poison = {}
  /\ turns' = Tail(turns)
  /\ ack' = Marked(batch, "completed")
  /\ accounted' = accounted \cup Head(turns)
  /\ UNCHANGED <<inboundDb, host, dying, phase, hung, firstPoll, batch, poller,
                 faults, claims, handed, twice, disturbed, torn>>

\* The stream ended, threw or was aborted: `done` is set; a follow-up still in
\* its scripts is left behind, and no prompt gets an answer any more.
EndQuery ==
  /\ phase' = "closing"
  /\ stale' = stale \cup fup /\ fup' = {}

StreamEnds ==
  /\ Running /\ phase = "query"
  /\ EndQuery
  /\ UNCHANGED <<inboundDb, ack, host, dying, hung, firstPoll, batch, turns, faults,
                 history>>

Unanswered == UNION {turns[i] : i \in DOMAIN turns}

\* The last step of a loop iteration acks the whole batch, also that of an
\* errored or broken query ("no redelivery"): its rows are given up.
CloseBatch ==
  /\ Running /\ phase = "closing"
  /\ ack' = Marked(batch, "completed")
  /\ phase' = "poll" /\ batch' = {} /\ turns' = <<>>
  /\ accounted' = accounted \cup Unanswered
  /\ UNCHANGED <<inboundDb, host, dying, hung, firstPoll, poller, faults,
                 claims, handed, twice, disturbed, torn>>

\* One tick of the follow-up poller: a command aborts the stream, else the due
\* rows are claimed if one of them is a wake row.
FollowUpPoll ==
  /\ Running /\ phase = "query" /\ fup = {}
  /\ LET new == Selected(FALSE)
     IN  IF new \cap Commands # {}
         THEN /\ EndQuery
              /\ UNCHANGED <<ack, claims>>
         ELSE /\ new \cap Trigger # {}
              /\ fup' = new /\ Claim(new)
              /\ UNCHANGED <<phase, stale>>
  /\ UNCHANGED <<inboundDb, host, dying, hung, firstPoll, batch, turns, faults,
                 accounted, handed, twice, disturbed, torn>>

\* The scripts of the follow-up are done: push the rest and ack it at once.
FollowUpPush ==
  /\ Running /\ phase = "query" /\ fup # {}
  /\ \E v \in Verdicts(fup) :
       LET keep == Kept(fup, v)
       IN  /\ ack' = [m \in Messages |-> IF m \in keep THEN "completed" ELSE Skipped(v)[m]]
           /\ turns' = IF keep = {} THEN turns ELSE Append(turns, keep)
           /\ Hand(keep)
  /\ fup' = {}
  /\ UNCHANGED <<inboundDb, host, dying, phase, hung, firstPoll, batch, stale,
                 faults, claims, accounted, disturbed, torn>>

\* The scripts of an abandoned follow-up finish: skips are acked, the rest of
\* the claim is left as it is.
StaleFollowUpEnds ==
  /\ Running /\ stale # {}
  /\ \E v \in Verdicts(stale) : ack' = Skipped(v)
  /\ stale' = {}
  /\ UNCHANGED <<inboundDb, host, dying, runner, fup, faults, history>>

\* ask_user_question finds the answer it is blocked on and acks it.
ToolTakesAnswer(m) ==
  /\ Running /\ phase = "query" /\ turns # <<>>
  /\ m \in System /\ status[m] = "pending" /\ ack[m] = "none"
  /\ ack' = [ack EXCEPT ![m] = "completed"]
  /\ UNCHANGED <<inboundDb, host, dying, runner, poller, faults, history>>

\* The container is gone, and with it everything the runner had in memory; the
\* follow-ups acked at their push are given up with it.
Gone ==
  /\ accounted' = accounted \cup {m \in Unanswered : m \notin batch \/ m \in disturbed}
  /\ phase' = "off" /\ dying' = FALSE /\ hung' = FALSE /\ firstPoll' = TRUE
  /\ batch' = {} /\ turns' = <<>> /\ fup' = {} /\ stale' = {}
  /\ handed' = {} /\ twice' = {} /\ disturbed' = {}
  /\ UNCHANGED <<inboundDb, ack, host, claims, torn>>

Stopped  == phase # "off" /\ dying /\ Gone /\ UNCHANGED faults
RunnerCrashes ==
  /\ phase # "off" /\ faults < MaxFaults
  /\ Gone /\ faults' = faults + 1
PoisonCrash ==
  /\ Running /\ phase = "query" /\ turns # <<>>
  /\ Head(turns) \cap Poison # {}
  /\ Gone /\ UNCHANGED faults

RunnerHangs ==
  /\ Running /\ faults < MaxFaults
  /\ faults' = faults + 1 /\ hung' = TRUE
  /\ UNCHANGED <<inboundDb, ack, host, dying, phase, firstPoll, batch, turns,
                 poller, history>>

-----------------------------------------------------------------------------
RunnerStep ==
  \/ Boot \/ OuterPoll \/ AnswerCommands \/ OpenQuery \/ TurnResult \/ StreamEnds \/ CloseBatch
  \/ FollowUpPoll \/ FollowUpPush \/ StaleFollowUpEnds
  \/ \E m \in Messages : ToolTakesAnswer(m)

HostStep ==
  \/ \E m \in Messages : Arrive(m) \/ BackoffElapses(m)
  \/ SweepSession \/ SlaOk \/ SlaKill \/ DropClaims \/ DropFails
  \/ SweepWakes \/ SweepWakeFails \/ SweepAfterWake \/ HostWakes
  \/ ExitObserved \/ StopFails \/ HostCrashes \/ HostRestarts

Next ==
  \/ RunnerStep \/ HostStep
  \/ Stopped \/ RunnerCrashes \/ PoisonCrash \/ RunnerHangs

Spec == Init /\ [][Next]_vars

\* Fairness: timers keep firing (sweep, poll, backoff), a requested stop and a
\* restart complete, a retried wake succeeds some time, and a turn ends or the
\* container holding it dies.  Slow turns, arrivals and faults are not fair.
Silent == hung \/ phase = "poll" \/ (phase = "query" /\ turns = <<>>)
Fairness ==
  /\ WF_vars(HostRestarts) /\ WF_vars(SweepSession) /\ WF_vars(DropClaims)
  /\ WF_vars(SweepAfterWake)
  /\ WF_vars(SlaOk \/ SlaKill) /\ SF_vars(SlaKill /\ Silent)
  /\ SF_vars(SweepWakes) /\ WF_vars(ExitObserved) /\ WF_vars(Stopped)
  /\ \A m \in Messages : WF_vars(BackoffElapses(m))
  /\ WF_vars(Boot) /\ WF_vars(OuterPoll)
  /\ WF_vars(AnswerCommands) /\ WF_vars(OpenQuery)
  /\ WF_vars(TurnResult) /\ WF_vars(CloseBatch) /\ WF_vars(PoisonCrash)
  /\ WF_vars(FollowUpPoll) /\ WF_vars(FollowUpPush) /\ WF_vars(StaleFollowUpEnds)

FairSpec == Spec /\ Fairness

-----------------------------------------------------------------------------
(* Properties *)

TypeOK ==
  /\ status \in [Messages -> {"absent", "pending"} \cup TerminalStatus]
  /\ tries \in [Messages -> 0..MaxTries]
  /\ ack \in [Messages -> {"none", "processing"} \cup TerminalAck]
  /\ up \in BOOLEAN /\ tracked \in BOOLEAN /\ dying \in BOOLEAN
  /\ sweep \in {"idle", "sla", "wake", "woke", "drop"}
  /\ phase \in {"off", "boot", "poll", "claimed", "scripts", "query", "closing"}
  /\ hung \in BOOLEAN /\ firstPoll \in BOOLEAN /\ torn \in BOOLEAN
  /\ turns \in Seq(SUBSET Messages)
  /\ \A S \in {delayed, batch, fup, stale, accounted, handed, twice, disturbed} :
       S \subseteq Messages
  /\ claims \in [Messages -> 0..(MaxTries + 1)]
  /\ faults \in 0..MaxFaults

\* A row the host calls completed was acked by a runner, and one it calls
\* failed was acked or has used up its tries (applyProcessingAcks and
\* resetStuckProcessingRows, over two databases with two writers).
SettledForAReason ==
  \A m \in Messages :
    /\ status[m] = "completed" => ack[m] \in TerminalAck
    /\ status[m] = "failed" => ack[m] \in TerminalAck \/ tries[m] = MaxTries

\* No container gives a row to the agent twice, as long as the host has not
\* dropped the row's claim while that container was alive (the ack filter of
\* sqliteGetPendingMessages against follow-up polls, restarts and wakes).
HandedOnce == twice \subseteq disturbed

\* A row acked as completed (other than those the runner answers itself, a
\* script gates or a tool takes) had its answer, waits for it in an open query,
\* or was given up where the code means to: by the end of its query while the
\* runner lived (markCompleted of the batch, errored or not), or as a follow-up
\* acked at its push.  In particular a batch whose container dies before its
\* first result is not acked, and is due again.
AckedIsAccountedFor ==
  \A m \in Messages \ (BuiltIn \cup Scripted \cup System) :
    ack[m] = "completed" => m \in accounted \cup Unanswered

\* Once a runner has finished with a row no later step un-finishes it, and no
\* step of the host revives or re-labels a settled row.
SettledStaysSettled ==
  [][\A m \in Messages :
       /\ ack[m] \in TerminalAck => ack'[m] \in TerminalAck
       /\ status[m] \in TerminalStatus => status'[m] = status[m]]_vars

\* Every wake row of the conversation is settled in the end, whatever finite
\* number of crashes, hangs and failed calls happen on the way.
WakeRowsSettle ==
  \A m \in Trigger \ (System \cup Poison) :
    status[m] = "pending" ~> status[m] \in TerminalStatus

\* The promise made for each row, see MessageContract.
Contract(m) == INSTANCE MessageContract WITH
  st <- status[m], taken <- ack[m] \in TerminalAck, spent <- tries[m]
EachRowKeepsItsContract ==
  /\ \A m \in Messages : Contract(m)!Init
  /\ [][\A m \in Messages : [Contract(m)!Next]_(Contract(m)!cvars)]_vars

-----------------------------------------------------------------------------
(* What the repository says and the code does not do. *)

\* session-db.ts: "Safe because the host only writes to outbound.db when no
\* container is running (we just killed it)."
HostWritesOutboundOnlyWithoutContainer ==
  [][sweep = "drop" /\ ack' # ack => phase = "off"]_vars

\* poll-loop.ts: "if something is truly stuck, the host will kill the
\* container and messages get reset to pending" - every message the agent has
\* not answered is still redeliverable when its container dies.
UnansweredIsRedelivered ==
  [][phase # "off" /\ phase' = "off" =>
       \A i \in DOMAIN turns : \A m \in turns[i] : ack[m] \notin TerminalAck]_vars

\* architecture.md: "When the host detects a stale `processing` message or the
\* container exits with an error, it increments `tries` [...] After max
\* retries: status set to `failed`" - a row that always kills its container
\* is given up in the end.
CrashLoopsEnd ==
  \A m \in Poison : status[m] = "pending" ~> status[m] \in TerminalStatus

\* messages-in.ts: "claim filtering runs BEFORE the cap windowing", or rows
\* of no use "fill the window" and "genuinely new rows beyond the window would
\* be invisible" - a poll sees some due wake row whenever there is one.
DueWorkIsVisible ==
  phase = "poll" /\ Unclaimed(firstPoll) \cap (Trigger \ System) # {}
    => Selected(firstPoll) \cap Trigger # {}

\* poll-loop.ts: "Accumulated context must not engage a warm query by itself",
\* "don't wake the agent" - every prompt holds a wake row.
ContextNeverEngagesAlone == \A i \in DOMAIN turns : turns[i] \cap Trigger # {}
=============================================================================
