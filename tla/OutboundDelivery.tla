-------------------------- MODULE OutboundDelivery --------------------------
(***************************************************************************)
(* The outbound half of one session: rows the runner wrote to messages_out *)
(* are sent through the channel adapter (or handled as system actions) by  *)
(* two poll chains of the host, and recorded in the delivered table.       *)
(*                                                                         *)
(* A chain awaits between reading the queue, sending a row, recording it   *)
(* and its follow-through (fan-out, hooks), so each of these is a step and *)
(* the two chains interleave; deliveryAttempts lives in memory only.       *)
(***************************************************************************)
EXTENDS Naturals, FiniteSets

CONSTANTS
  Rows,         \* ids of messages_out
  Chains,       \* the poll chains, e.g. {"active", "sweep"}
  MaxAttempts,  \* MAX_DELIVERY_ATTEMPTS
  MaxFaults     \* bound on host crashes and failures other than a failed send

ASSUME DeliveryAssumption ==
  /\ MaxAttempts \in Nat \ {0}
  /\ MaxFaults \in Nat

VARIABLES
  written,   \* rows the runner has written and that are due
  record,    \* the delivered table: "none", "delivered" or "failed"
  attempts,  \* deliveryAttempts
  inflight,  \* the session is in inflightDeliveries
  pc,        \* where a chain is: "idle", "read", "next", "mark", "after", "fail"
  todo,      \* rows of a chain's snapshot it has not finished with
  cur,       \* the row a chain is at, a member of Rows if pc needs one
  known,     \* `delivered` of a chain: the ids it knows to be recorded
  faults,
  \* history
  oks,       \* how often the adapter reported a row sent
  tried,     \* how often deliverMessage ran for a row in this host life
  lost,      \* successes whose record was lost (mark threw, or a crash)
  first,     \* rows whose hooks are told firstDelivery
  crashed    \* the host has crashed before

chain == <<pc, todo, cur, known>>
vars == <<written, record, attempts, inflight, chain, faults,
          oks, tried, lost, first, crashed>>

Recorded == {m \in Rows : record[m] # "none"}

Init ==
  /\ written = {}
  /\ record = [m \in Rows |-> "none"]
  /\ attempts = [m \in Rows |-> 0]
  /\ inflight = FALSE
  /\ pc = [c \in Chains |-> "idle"]
  /\ todo = [c \in Chains |-> {}]
  /\ cur = [c \in Chains |-> "none"]
  /\ known = [c \in Chains |-> {}]
  /\ faults = 0
  /\ oks = [m \in Rows |-> 0]
  /\ tried = [m \in Rows |-> 0]
  /\ lost = [m \in Rows |-> 0]
  /\ first = {} /\ crashed = FALSE

\* The runner writes a row (or its deliver_after passes).
Write(m) ==
  /\ m \notin written
  /\ written' = written \cup {m}
  /\ UNCHANGED <<record, attempts, inflight, chain, faults, oks, tried, lost, first, crashed>>

\* mutant of Enter: no inflightDeliveries
EnterUnguarded(c) ==
  /\ pc[c] = "idle"
  /\ inflight' = TRUE
  /\ pc' = [pc EXCEPT ![c] = "read"]
  /\ UNCHANGED <<written, record, attempts, todo, cur, known, faults,
                 oks, tried, lost, first, crashed>>

\* A poll reaches this session; re-entry is rejected.
Enter(c) ==
  /\ pc[c] = "idle" /\ ~inflight
  /\ inflight' = TRUE
  /\ pc' = [pc EXCEPT ![c] = "read"]
  /\ UNCHANGED <<written, record, attempts, todo, cur, known, faults,
                 oks, tried, lost, first, crashed>>

\* mutant of ReadQueue: a row with a failed attempt is left to someone else
ReadUntriedOnly(c) ==
  /\ pc[c] = "read"
  /\ known' = [known EXCEPT ![c] = Recorded]
  /\ todo' = [todo EXCEPT ![c] = {m \in written \ Recorded : attempts[m] = 0}]
  /\ pc' = [pc EXCEPT ![c] = "next"]
  /\ UNCHANGED <<written, record, attempts, inflight, cur, faults,
                 oks, tried, lost, first, crashed>>

\* One short mailbox session reads the delivered ids and the due rows without one.
ReadQueue(c) ==
  /\ pc[c] = "read"
  /\ known' = [known EXCEPT ![c] = Recorded]
  /\ todo' = [todo EXCEPT ![c] = written \ Recorded]
  /\ pc' = [pc EXCEPT ![c] = "next"]
  /\ UNCHANGED <<written, record, attempts, inflight, cur, faults,
                 oks, tried, lost, first, crashed>>

\* ... or fails: logged, the drain returns.
ReadFails(c) ==
  /\ pc[c] = "read" /\ faults < MaxFaults
  /\ faults' = faults + 1
  /\ inflight' = FALSE
  /\ pc' = [pc EXCEPT ![c] = "idle"]
  /\ UNCHANGED <<written, record, attempts, todo, cur, known, oks, tried, lost, first, crashed>>

Leave(c) ==
  /\ pc[c] = "next" /\ todo[c] = {}
  /\ inflight' = FALSE
  /\ pc' = [pc EXCEPT ![c] = "idle"]
  /\ UNCHANGED <<written, record, attempts, todo, cur, known, faults,
                 oks, tried, lost, first, crashed>>

\* deliverMessage takes a row off the list and returns: the adapter or handler
\* took it, or it has no route and is dropped.  The rows are visited in timestamp
\* order; which one comes first is left open.
Send(c, m) ==
  /\ pc[c] = "next" /\ m \in todo[c]
  /\ todo' = [todo EXCEPT ![c] = @ \ {m}]
  /\ cur' = [cur EXCEPT ![c] = m]
  /\ tried' = [tried EXCEPT ![m] = @ + 1]
  /\ oks' = [oks EXCEPT ![m] = @ + 1]
  /\ pc' = [pc EXCEPT ![c] = "mark"]
  /\ UNCHANGED <<written, record, attempts, inflight, known, faults, lost, first, crashed>>

\* The catch block: one more attempt; at the limit the row is given up.
Failed(c, m) ==
  /\ attempts' = [attempts EXCEPT ![m] = @ + 1]
  /\ pc' = [pc EXCEPT ![c] = IF attempts[m] + 1 >= MaxAttempts THEN "fail" ELSE "next"]

\* mutant of SendFails: the refusal is not thrown, and the row is marked
SendFailsSilently(c, m) ==
  /\ pc[c] = "next" /\ m \in todo[c]
  /\ todo' = [todo EXCEPT ![c] = @ \ {m}]
  /\ cur' = [cur EXCEPT ![c] = m]
  /\ tried' = [tried EXCEPT ![m] = @ + 1]
  /\ pc' = [pc EXCEPT ![c] = "mark"]
  /\ UNCHANGED <<written, record, attempts, inflight, known, faults, oks, lost, first, crashed>>

\* deliverMessage throws (permission, detached chat, channel error).  Whether the
\* channel had shown the row all the same is not known to the host, nor here.
SendFails(c, m) ==
  /\ pc[c] = "next" /\ m \in todo[c]
  /\ todo' = [todo EXCEPT ![c] = @ \ {m}]
  /\ cur' = [cur EXCEPT ![c] = m]
  /\ tried' = [tried EXCEPT ![m] = @ + 1]
  /\ Failed(c, m)
  /\ UNCHANGED <<written, record, inflight, known, faults, oks, lost, first, crashed>>

\* INSERT OR IGNORE INTO delivered
Recording(m, how) == record' = IF record[m] = "none" THEN [record EXCEPT ![m] = how] ELSE record

\* mutant of Mark: the snapshot of the drain is not kept up
MarkForgetsKnown(c) ==
  /\ pc[c] = "mark"
  /\ LET m == cur[c]
     IN  /\ Recording(m, "delivered")
         /\ attempts' = [attempts EXCEPT ![m] = 0]
         /\ first' = IF known[c] = {} THEN first \cup {m} ELSE first
  /\ pc' = [pc EXCEPT ![c] = "after"]
  /\ UNCHANGED <<written, inflight, todo, cur, known, faults, oks, tried, lost, crashed>>

\* markDelivered, and the in-memory bookkeeping in the same turn.
Mark(c) ==
  /\ pc[c] = "mark"
  /\ LET m == cur[c]
     IN  /\ Recording(m, "delivered")
         /\ known' = [known EXCEPT ![c] = @ \cup {m}]
         /\ attempts' = [attempts EXCEPT ![m] = 0]
         /\ first' = IF known[c] = {} THEN first \cup {m} ELSE first
  /\ pc' = [pc EXCEPT ![c] = "after"]
  /\ UNCHANGED <<written, inflight, todo, cur, faults, oks, tried, lost, crashed>>

\* The mailbox could not be opened after the send: the catch block again.
MarkFails(c) ==
  /\ pc[c] = "mark" /\ faults < MaxFaults
  /\ faults' = faults + 1
  /\ lost' = [lost EXCEPT ![cur[c]] = @ + 1]
  /\ Failed(c, cur[c])
  /\ UNCHANGED <<written, record, inflight, todo, cur, known, oks, tried, first, crashed>>

\* Fan-out and post-delivery hooks.
After(c) ==
  /\ pc[c] = "after"
  /\ pc' = [pc EXCEPT ![c] = "next"]
  /\ UNCHANGED <<written, record, attempts, inflight, todo, cur, known, faults,
                 oks, tried, lost, first, crashed>>

\* fanOutboundMessage throws after the row was recorded: counted as an attempt.
AfterFails(c) ==
  /\ pc[c] = "after" /\ faults < MaxFaults
  /\ faults' = faults + 1
  /\ Failed(c, cur[c])
  /\ UNCHANGED <<written, record, inflight, todo, cur, known, oks, tried, lost, first, crashed>>

\* markDeliveryFailed
GiveUp(c) ==
  /\ pc[c] = "fail"
  /\ Recording(cur[c], "failed")
  /\ attempts' = [attempts EXCEPT ![cur[c]] = 0]
  /\ pc' = [pc EXCEPT ![c] = "next"]
  /\ UNCHANGED <<written, inflight, todo, cur, known, faults, oks, tried, lost, first, crashed>>

\* The failure could not be recorded: logged, the counter stays.
GiveUpFails(c) ==
  /\ pc[c] = "fail" /\ faults < MaxFaults
  /\ faults' = faults + 1
  /\ pc' = [pc EXCEPT ![c] = "next"]
  /\ UNCHANGED <<written, record, attempts, inflight, todo, cur, known,
                 oks, tried, lost, first, crashed>>

\* The host dies and restarts: everything in memory is gone.
Crash ==
  /\ faults < MaxFaults
  /\ faults' = faults + 1
  /\ lost' = [m \in Rows |-> lost[m] +
       Cardinality({c \in Chains : pc[c] = "mark" /\ cur[c] = m})]
  /\ attempts' = [m \in Rows |-> 0]
  /\ tried' = [m \in Rows |-> 0]
  /\ crashed' = TRUE
  /\ inflight' = FALSE
  /\ pc' = [c \in Chains |-> "idle"]
  /\ todo' = [c \in Chains |-> {}]
  /\ cur' = [c \in Chains |-> "none"]
  /\ known' = [c \in Chains |-> {}]
  /\ UNCHANGED <<written, record, oks, first>>

Step(c) ==
  \/ Enter(c) \/ ReadQueue(c) \/ ReadFails(c) \/ Leave(c)
  \/ \E m \in Rows : Send(c, m) \/ SendFails(c, m)
  \/ Mark(c) \/ MarkFails(c) \/ After(c) \/ AfterFails(c)
  \/ GiveUp(c) \/ GiveUpFails(c)

Next ==
  \/ \E m \in Rows : Write(m)
  \/ \E c \in Chains : Step(c)
  \/ Crash

Spec == Init /\ [][Next]_vars

\* A chain that is in the session goes on, and one of them comes back for ever.
Fairness ==
  /\ \A c \in Chains : WF_vars(pc[c] # "idle" /\ Step(c))
  /\ WF_vars(\E c \in Chains : Enter(c))
FairSpec == Spec /\ Fairness

-----------------------------------------------------------------------------
(* Properties *)

TypeOK ==
  /\ written \subseteq Rows
  /\ record \in [Rows -> {"none", "delivered", "failed"}]
  /\ attempts \in [Rows -> 0..(MaxAttempts + MaxFaults)]
  /\ inflight \in BOOLEAN /\ crashed \in BOOLEAN
  /\ pc \in [Chains -> {"idle", "read", "next", "mark", "after", "fail"}]
  /\ todo \in [Chains -> SUBSET Rows] /\ known \in [Chains -> SUBSET Rows]
  /\ cur \in [Chains -> Rows \cup {"none"}]
  /\ \A c \in Chains : pc[c] \in {"mark", "after", "fail"} => cur[c] \in Rows
  /\ faults \in 0..MaxFaults
  /\ {oks, tried, lost} \subseteq [Rows -> Nat]
  /\ first \subseteq Rows

\* The user sees a row again only when the record of an earlier success was
\* lost: the two polls of a running session never send it twice between them.
ResentOnlyAfterLoss == \A m \in Rows : oks[m] <= 1 + lost[m]

\* A row is recorded delivered only after deliverMessage took it, and recorded
\* failed without having been taken unless the record of that was lost.
RecordTellsTheTruth ==
  \A m \in Rows : /\ record[m] = "delivered" => oks[m] > 0
                  /\ record[m] = "failed" => oks[m] = lost[m]

\* One host life tries a row MAX_DELIVERY_ATTEMPTS times, and once more for
\* every give-up that could not be recorded.
TriesBounded == \A m \in Rows : tried[m] <= MaxAttempts + faults

\* What holds of every state of one session: a resend needs a lost record, a
\* life's tries are bounded, the chains' memory is well formed.
DeliveryInvariant == TypeOK /\ ResentOnlyAfterLoss /\ TriesBounded

\* firstDelivery goes to at most one row of the session.
FirstAtMostOnce == Cardinality(first) <= 1

\* A recorded row is never handed to the adapter again, although both chains
\* work from snapshots, and its record never changes.
RecordedForGood ==
  [][\A m \in Rows : record[m] # "none" =>
       record'[m] = record[m] /\ tried'[m] <= tried[m]]_vars

\* Nothing is forgotten: every written row is recorded in the end, even if
\* every send of it fails.
EveryRowIsRecorded == \A m \in Rows : m \in written ~> record[m] # "none"

\* A written row is recorded in the end, and what is recorded stays as it is and
\* is never sent again.
RowsAreRecordedForGood == RecordedForGood /\ EveryRowIsRecorded

-----------------------------------------------------------------------------
(* What the repository says and the code does not do. *)

\* delivery.test.ts: "If something post-send throws [...] the catch path must
\* not trigger a re-send" - without a crash a row is sent once.
SentOnceInOneLife == ~crashed => \A m \in Rows : oks[m] <= 1

\* delivery.ts: "True when this is the first message ever marked delivered in
\* this session - exactly one row per session carries it."
FirstDeliveryIsAnnounced == (\E m \in Rows : record[m] = "delivered") => first # {}
=============================================================================
