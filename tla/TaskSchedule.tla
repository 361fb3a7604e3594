---------------------------- MODULE TaskSchedule ----------------------------
(***************************************************************************)
(* One scheduled task series in the session made for it: its occurrences   *)
(* in inbound.db (mailbox/sqlite/tasks.ts), the sweep that mirrors acks,   *)
(* wakes, retries, re-arms and closes (host-sweep.ts, modules/scheduling/  *)
(* recurrence.ts), the commands `ncl tasks` runs against it between any    *)
(* two awaits of the sweep (cli/resources/tasks.ts), and the container     *)
(* that runs due occurrences.                                              *)
(*                                                                         *)
(* Rows no query of the code can tell from absent ones are left out, so a  *)
(* series runs on for ever in finitely many states.  Cron times are a      *)
(* flag: an occurrence is due or not yet.                                  *)
(***************************************************************************)
EXTENDS Naturals, Sequences, FiniteSets

CONSTANTS
  PauseCap,   \* SCRIPT_FAIL_PAUSE_CAP, 8 in the code
  MaxTries,   \* MAX_TRIES of the stuck-claim retry
  MaxRows,    \* bound on the rows a `run` may add to
  MaxArms,    \* bound on rows `update --recurrence` arms beside the armed one
  MaxTaskFaults \* bound on host crashes and failed writes

ASSUME ScheduleAssumption ==
  /\ PauseCap \in Nat \ {0} /\ MaxTries \in Nat /\ MaxRows \in Nat \ {0}
  /\ MaxArms \in Nat /\ MaxTaskFaults \in Nat

VARIABLES
  sess,     \* the row of the task's session: "active", "closed", "deleted"
  mail,     \* its mailbox exists
  rows,     \* messages_in and processing_ack, in the order of seq
  running,  \* the session's container runs
  at,       \* the await the sweep is in
  cmd,      \* a command between two of its awaits: "run", "deleting" or "none"
  dropped,  \* history: a write failed in the re-arming pass under way or, of a
            \* closed session, in the pass that closed it
  arms, taskFaults

mailbox == <<mail, rows>>
bounds  == <<arms, taskFaults>>
taskVars == <<sess, mailbox, running, at, cmd, dropped, bounds>>

Row == [st : {"pending", "paused", "completed", "failed", "cancelled"},
        rec : BOOLEAN,      \* recurrence IS NOT NULL
        due : BOOLEAN,      \* process_after has passed
        tries : 0 .. MaxTries,
        todo : BOOLEAN,     \* on the list handleRecurrence works through
        ack : {"none", "processing", "completed", "script-skip:error"}]

Occurrence(st, rec, due) ==
  [st |-> st, rec |-> rec, due |-> due, tries |-> 0, todo |-> FALSE,
   ack |-> "none"]

Live(r)    == r.st \in {"pending", "paused"}
Settled(r) == r.st \in {"completed", "failed"}

\* Of a settled or cancelled row only status, recurrence and an ack still to
\* be mirrored are ever read again.
Faded(r) ==
  CASE Live(r) -> r
    [] Settled(r) -> [Occurrence(r.st, r.rec, TRUE) EXCEPT !.todo = r.todo]
    [] OTHER -> [Occurrence(r.st, r.rec, TRUE) EXCEPT !.ack = r.ack]

\* What no query can tell from absent: cancelled rows, settled rows whose
\* place in the order of seq no streak depends on, failures beyond the cap.
Forgettable(rs, i) ==
  LET Open(k) == \/ Live(rs[k]) \/ rs[k].todo
                 \/ (Settled(rs[k]) /\ rs[k].rec)
                 \/ (rs[k].st = "cancelled" /\ rs[k].ack # "none")
      Completed(k) == rs[k].st = "completed"
  IN  /\ ~Open(i)
      /\ \/ rs[i].st = "cancelled"
         \/ \E k \in i + 1 .. Len(rs) : Completed(k)
         \/ Completed(i) /\ \A k \in 1 .. i - 1 : ~Open(k)
         \/ Cardinality({k \in i + 1 .. Len(rs) : rs[k].st = "failed"})
              >= PauseCap

Kept(rs) == {i \in DOMAIN rs : ~Forgettable(rs, i)}

\* The k-th smallest of the numbers in S.
Nth(S, k) == CHOOSE i \in S : Cardinality({j \in S : j <= i}) = k

\* The rows that are kept move up to close the gaps.
Tidy(rs) ==
  LET kept == Kept(rs)
  IN  [k \in 1 .. Cardinality(kept) |-> Faded(rs[Nth(kept, k)])]

MapRows(rs, Op(_)) == [i \in DOMAIN rs |-> Op(rs[i])]

\* Faults and changes of the time are looked at while at most one occurrence
\* is live (a bound).
OneLive == \A i, j \in DOMAIN rows : Live(rows[i]) /\ Live(rows[j]) => i = j

TaskFault ==
  /\ taskFaults < MaxTaskFaults /\ taskFaults' = taskFaults + 1
  /\ OneLive

\* createScheduledTask: recurring or one-shot; templates create it paused.
TaskInit ==
  /\ sess = "active" /\ mail = TRUE
  /\ \E rec \in BOOLEAN, st \in {"pending", "paused"} :
       rows = <<Occurrence(st, rec, FALSE)>>
  /\ running = FALSE /\ at = "idle" /\ cmd = "none"
  /\ dropped = FALSE /\ arms = 0 /\ taskFaults = 0

-----------------------------------------------------------------------------
(* Time and the container                                                  *)

Due(i) ==
  /\ sess = "active" /\ Live(rows[i]) /\ ~rows[i].due
  /\ rows' = [rows EXCEPT ![i].due = TRUE]
  /\ UNCHANGED <<sess, mail, running, at, cmd, dropped, bounds>>

\* The runner claims a due row ...
Claims(i) ==
  /\ running /\ rows[i].st = "pending" /\ rows[i].due /\ rows[i].ack = "none"
  /\ rows' = [rows EXCEPT ![i].ack = "processing"]
  /\ UNCHANGED <<sess, mail, running, at, cmd, dropped, bounds>>

\* ... and answers it, or its script fails.
Answers(i, good) ==
  /\ running /\ rows[i].ack = "processing"
  /\ rows' = [rows EXCEPT
        ![i].ack = IF good THEN "completed" ELSE "script-skip:error"]
  /\ UNCHANGED <<sess, mail, running, at, cmd, dropped, bounds>>

\* It dies, is killed or has been idle for long enough.
ContainerEnds ==
  /\ running
  /\ running' = FALSE
  /\ UNCHANGED <<sess, mailbox, at, cmd, dropped, bounds>>

-----------------------------------------------------------------------------
(* The sweep                                                               *)

applyProcessingAcks ==
  LET Mirror(r) ==
        IF Settled(r) THEN r
        ELSE CASE r.ack = "completed" -> [r EXCEPT !.st = "completed"]
               [] r.ack = "script-skip:error" -> [r EXCEPT !.st = "failed"]
               [] OTHER -> r
  IN  Tidy(MapRows(rows, Mirror))

\* Claims left behind cost their rows a try.
resetStuckProcessingRows(rs) ==
  LET Reset(r) ==
        IF r.ack # "processing" THEN r
        ELSE IF r.st # "pending" \/ ~r.due THEN [r EXCEPT !.ack = "none"]
        ELSE IF r.tries >= MaxTries
             THEN [r EXCEPT !.ack = "none", !.st = "failed"]
        ELSE [r EXCEPT !.ack = "none", !.tries = @ + 1, !.due = FALSE]
  IN  Tidy(MapRows(rs, Reset))

\* countDueMessages, once the acks are mirrored.
DueWork == \E i \in DOMAIN rows :
  rows[i].st = "pending" /\ rows[i].due /\ rows[i].ack \in {"none", "processing"}

\* sweepSession: acks first, then a wake for due rows ...
SweepWakes ==
  /\ at = "idle" /\ sess = "active" /\ mail
  /\ at' = "waking"
  /\ DueWork /\ ~running
  /\ rows' = applyProcessingAcks
  /\ UNCHANGED <<sess, mail, running, cmd, dropped, bounds>>

\* ... or maintenance, where a container that runs may be found stuck and one
\* that does not has left its claims behind.
SweepMaintains ==
  /\ at = "idle" /\ sess = "active" /\ mail
  /\ at' = "listing"
  /\ DueWork => running
  /\ \/ running /\ rows' = applyProcessingAcks
     \/ rows' = resetStuckProcessingRows(applyProcessingAcks)
  /\ UNCHANGED <<sess, mail, running, cmd, dropped, bounds>>

\* wakeContainer; the new container clears the claims of its predecessor.
\* When there is none, maintenance finds them.
Wakes ==
  /\ at = "waking"
  /\ at' = "listing"
  /\ \/ /\ running' = TRUE
        /\ rows' = Tidy(MapRows(rows,
             LAMBDA r : IF r.ack = "processing"
                        THEN [r EXCEPT !.ack = "none"] ELSE r))
     \/ rows' = resetStuckProcessingRows(rows) /\ UNCHANGED running
  /\ UNCHANGED <<sess, mail, cmd, dropped, bounds>>

\* mutant: a series dies with its first failed occurrence
CompletedRecurringOnly(r) == r.st = "completed" /\ r.rec

getCompletedRecurring(r) == Settled(r) /\ r.rec

\* handleRecurrence reads its list, then awaits the group's timezone.
Lists ==
  /\ at = "listing"
  /\ at' = "arming"
  /\ rows' = MapRows(rows, LAMBDA r :
                 [r EXCEPT !.todo = getCompletedRecurring(r)])
  /\ UNCHANGED <<sess, mail, running, cmd, dropped, bounds>>

\* mutant: only whether there are failures is looked at
FailuresOfOne == IF \E i \in DOMAIN rows : rows[i].st = "failed" THEN 1 ELSE 0

\* Failed occurrences since the last completed one, in the order of seq.
trailingFailedRuns ==
  Cardinality({i \in DOMAIN rows :
     /\ rows[i].st = "failed"
     /\ \A j \in DOMAIN rows : j > i => rows[j].st # "completed"})

Todo == {i \in DOMAIN rows : rows[i].todo}
This == CHOOSE i \in Todo : \A j \in Todo : i <= j

\* The clone of a finished occurrence; the cron time, or a backoff, is ahead.
Inserts ==
  /\ at = "arming" /\ Todo # {}
  /\ at' = "clearing"
  /\ rows' = Append(rows, Occurrence(
        IF trailingFailedRuns >= PauseCap THEN "paused" ELSE "pending",
        TRUE, FALSE))
  /\ UNCHANGED <<sess, mail, running, cmd, dropped, bounds>>

\* The insert fails: logged, and the loop goes on with the next row.
InsertFails ==
  /\ at = "arming" /\ Todo # {} /\ TaskFault
  /\ rows' = Tidy([rows EXCEPT ![This].todo = FALSE])
  /\ dropped' = TRUE
  /\ UNCHANGED <<sess, mail, running, at, cmd, arms>>

\* The original gives its recurrence up, unless that write fails.
Clears ==
  /\ at = "clearing"
  /\ at' = "arming"
  /\ \/ /\ rows' = Tidy([rows EXCEPT ![This].todo = FALSE, ![This].rec = FALSE])
        /\ UNCHANGED <<dropped, taskFaults>>
     \/ /\ TaskFault /\ rows' = [rows EXCEPT ![This].todo = FALSE]
        /\ dropped' = TRUE
  /\ UNCHANGED <<sess, mail, running, cmd, arms>>

\* mutant: only pending occurrences keep a session open
NoPendingTasks == \A i \in DOMAIN rows : rows[i].st # "pending"

countLiveTasksIsZero == \A i \in DOMAIN rows : ~Live(rows[i])

TaskSessionIsSpent ==
  mail /\ sess = "active" /\ ~running /\ countLiveTasksIsZero

\* The end of maintainSessionMailbox: a spent task session is closed.
Closes ==
  /\ at = "arming" /\ Todo = {}
  /\ at' = "idle"
  /\ sess' = IF TaskSessionIsSpent THEN "closed" ELSE sess
  /\ dropped' = (dropped /\ sess' = "closed")
  /\ UNCHANGED <<mailbox, running, cmd, bounds>>

\* stopOrphanedSessions, at the end of every tick.
StopsOrphan ==
  /\ at = "idle" /\ running /\ sess = "deleted"
  /\ running' = FALSE
  /\ UNCHANGED <<sess, mailbox, at, cmd, dropped, bounds>>

-----------------------------------------------------------------------------
(* ncl tasks                                                               *)

\* A command edits the rows it matches in one statement.  That a sweep closes
\* the session between selectedSessions and the edit makes no difference:
\* only live rows match.
Edits(Match(_), New(_)) ==
  /\ sess = "active"
  /\ rows' = Tidy(MapRows(rows, LAMBDA r : IF Match(r) THEN New(r) ELSE r))
  /\ UNCHANGED <<sess, mail, running, at, cmd, dropped>>

\* mutant: the cancelled occurrence keeps its recurrence
CancelKeepsRecurrence ==
  /\ Edits(Live, LAMBDA r : [r EXCEPT !.st = "cancelled"])
  /\ UNCHANGED bounds

cancelTask ==
  /\ Edits(Live,
           LAMBDA r : [r EXCEPT !.st = "cancelled", !.rec = FALSE])
  /\ UNCHANGED bounds

pauseTask ==
  /\ Edits(LAMBDA r : r.st = "pending",
           LAMBDA r : [r EXCEPT !.st = "paused"])
  /\ UNCHANGED bounds

resumeTask ==
  /\ Edits(LAMBDA r : r.st = "paused",
           LAMBDA r : [r EXCEPT !.st = "pending"])
  /\ UNCHANGED bounds

\* updateTask leaves occurrences that are due alone.
Updatable(r) == r.st = "paused" \/ (r.st = "pending" /\ ~r.due)

\* Rows that fire again: live ones with a recurrence and finished ones the
\* sweep has yet to re-arm.
Armed == {i \in DOMAIN rows : rows[i].rec /\ rows[i].st # "cancelled"}

\* update --process-after: a time ahead.  One that has passed already is the
\* step Due, which any row that is live and not due may take.
updateTaskTime ==
  /\ OneLive
  /\ Edits(Updatable, LAMBDA r : [r EXCEPT !.due = FALSE])
  /\ UNCHANGED bounds

\* update --recurrence: null makes the series a one-shot.
updateTaskClears ==
  /\ Edits(Updatable, LAMBDA r : [r EXCEPT !.rec = FALSE])
  /\ UNCHANGED bounds

updateTaskArms ==
  /\ Edits(Updatable,
           LAMBDA r : [r EXCEPT !.rec = TRUE])
  /\ LET touched == Cardinality({i \in DOMAIN rows :
                                    Updatable(rows[i]) /\ ~rows[i].rec})
     IN  arms' = arms + (IF Armed = {} /\ touched > 0 THEN touched - 1
                         ELSE touched)
  /\ arms' <= MaxArms
  /\ UNCHANGED taskFaults

\* selectedSessions of a `run` whose insert comes after the sweep has closed
\* the session, so the choice waits for the close to be next; anywhere else
\* choice and insert are one step.
RunSelects ==
  /\ cmd = "none" /\ at = "arming" /\ Todo = {} /\ TaskSessionIsSpent
  /\ cmd' = "run"
  /\ UNCHANGED <<sess, mailbox, running, at, dropped, bounds>>

\* mutant: the extra run copies the recurrence of the row it was made from
RunCopiesRecurrence ==
  /\ cmd = "run" \/ (cmd = "none" /\ sess = "active")
  /\ mail
  /\ Len(rows) + taskFaults < MaxRows
  /\ cmd' = "none"
  /\ rows' = Append(rows, Occurrence("pending", TRUE, TRUE))
  /\ UNCHANGED <<sess, mail, running, at, dropped, bounds>>

\* runTaskCommand: an extra occurrence, due now, without a recurrence.
runTask ==
  /\ cmd = "run" \/ (cmd = "none" /\ sess = "active")
  /\ mail
  /\ Len(rows) + taskFaults < MaxRows
  /\ cmd' = "none"
  /\ rows' = Append(rows, Occurrence("pending", FALSE, TRUE))
  /\ UNCHANGED <<sess, mail, running, at, dropped, bounds>>

\* deleteTaskCommand: no container may run, but a wake in flight is not seen.
\* The mailbox goes first (a sweep that has it open goes on with files nobody
\* will read), then the session's row.
DestroysMailbox ==
  /\ cmd = "none" /\ sess # "deleted" /\ mail /\ ~running
  /\ cmd' = "deleting"
  /\ mail' = FALSE /\ rows' = <<>>
  /\ at' = IF at \in {"idle", "waking"} THEN at ELSE "arming"
  /\ UNCHANGED <<sess, running, dropped, bounds>>

DeletesSession ==
  /\ cmd = "deleting"
  /\ cmd' = "none" /\ sess' = "deleted"
  /\ UNCHANGED <<mailbox, running, at, dropped, bounds>>

\* The host dies and starts again; start-up adopts the containers of active
\* sessions and stops the others.
HostRestarts ==
  /\ TaskFault
  /\ at' = "idle" /\ cmd' = "none"
  /\ rows' = Tidy(MapRows(rows, LAMBDA r : [r EXCEPT !.todo = FALSE]))
  /\ running' = (running /\ sess = "active")
  /\ dropped' = (dropped /\ sess = "closed")
  /\ UNCHANGED <<sess, mail, arms>>

-----------------------------------------------------------------------------
Edit == cancelTask \/ pauseTask \/ resumeTask \/ updateTaskClears
        \/ updateTaskTime \/ updateTaskArms \/ runTask

TaskNext ==
  \/ \E i \in DOMAIN rows : \/ Due(i) \/ Claims(i)
                            \/ \E good \in BOOLEAN : Answers(i, good)
  \/ ContainerEnds
  \/ SweepWakes \/ SweepMaintains \/ Wakes \/ Lists \/ Inserts \/ InsertFails
  \/ Clears \/ Closes \/ StopsOrphan
  \/ RunSelects
  \/ Edit
  \/ DestroysMailbox \/ DeletesSession \/ HostRestarts

TaskSpec == TaskInit /\ [][TaskNext]_taskVars

\* The sweep's timer fires every minute and no step of it hangs.  Nothing is
\* promised of users, scripts, containers or the clock.
Sweep == SweepWakes \/ SweepMaintains \/ Wakes \/ Lists \/ Inserts \/ Clears
         \/ Closes \/ StopsOrphan

\* WF_vars(Sweep), its ENABLED written out: TLC would evaluate it on every step.
SweepCanStep ==
  IF at = "idle" THEN \/ sess = "active" /\ mail
                      \/ sess = "deleted" /\ running
  ELSE TRUE

TaskFairSpec == TaskSpec /\ ([]<>~SweepCanStep \/ []<><<Sweep>>_taskVars)

-----------------------------------------------------------------------------
(* Properties                                                              *)

TaskTypeOK ==
  /\ sess \in {"active", "closed", "deleted"} /\ mail \in BOOLEAN
  /\ rows \in Seq(Row) /\ running \in BOOLEAN
  /\ at \in {"idle", "waking", "listing", "arming", "clearing"}
  /\ cmd \in {"none", "run", "deleting"} /\ dropped \in BOOLEAN
  /\ arms \in 0 .. MaxArms /\ taskFaults \in 0 .. MaxTaskFaults

\* A series multiplies only by what a command armed and, once per fault, by
\* the gap between insert and clear (recurrence.ts:96): "so it isn't
\* re-cloned next tick".
SeriesStaysSingle ==
  Cardinality(IF at = "clearing" THEN Armed \ {This} ELSE Armed)
    <= 1 + arms + taskFaults

\* Once nothing of a series is armed, no late ack of an occurrence that was
\* cancelled while it ran, no retry and no sweep arms it again (tasks.ts:50).
CancelledStaysCancelled ==
  [][Armed = {} /\ Armed' # {} => updateTaskArms]_taskVars

\* A session is closed only when its series is over; a closed session is
\* never swept again (host-sweep.ts:175).  The one exception is the code's own:
\* it logs a failed insert or clear (recurrence.ts:113) and the same pass goes
\* on to close the session.  Crashes, and failures of earlier passes, excuse
\* nothing.
ClosedMeansSpent == sess = "closed" /\ ~dropped => Armed = {}

\* Rows and session agree in every state.
ScheduleInvariant == TaskTypeOK /\ ClosedMeansSpent

\* "Completed row with a recurrence: the sweep re-arms it"
\* (restamp.ts:351), unless the series was deleted, or closed by a pass in
\* which a write of the re-arming failed.
FinishedIsRearmed ==
  (\E i \in DOMAIN rows : Settled(rows[i]) /\ rows[i].rec)
    ~> ((\A i \in DOMAIN rows : ~(Settled(rows[i]) /\ rows[i].rec))
        \/ (sess = "closed" /\ dropped))

\* A script that keeps failing is not run for ever: when from some point on
\* no run succeeds, no container dies in the middle of one (InboundPlane has
\* that loop) and nobody touches the series, it stops being claimed (paused
\* at the cap, recurrence.ts:75).
Succeeds == \E i \in DOMAIN rows : Answers(i, TRUE)
Starts   == \E i \in DOMAIN rows : Claims(i)
Progress == \E i \in DOMAIN rows : Due(i) \/ Claims(i) \/ Answers(i, FALSE)
DiesBusy == /\ running /\ ~running'
            /\ \E i \in DOMAIN rows : rows[i].ack = "processing"
Touched  ==
  UNCHANGED <<running, at, mail, taskFaults>> /\ rows' # rows /\ ~Progress
BrokenScriptIsPaused ==
  <>[][~DiesBusy /\ ~Touched]_taskVars => <>[][~Starts]_taskVars

\* A container woken while its task was being deleted does not live on.
OrphanIsStopped == (running /\ sess = "deleted") ~> ~running

\* The sweep gets round to everything the commands and the runner left behind.
SweepCatchesUp == FinishedIsRearmed /\ BrokenScriptIsPaused /\ OrphanIsStopped
=============================================================================
