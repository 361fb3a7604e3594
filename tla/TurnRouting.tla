---------------------------- MODULE TurnRouting -----------------------------
(***************************************************************************)
(* The turns of one open query in the agent runner (poll-loop.ts,          *)
(* processQuery): a provider answers prompts strictly in the order they    *)
(* were pushed, while the runner, which sees only text and result events,  *)
(* keeps its own account of whose turn is speaking: the routing, the       *)
(* routings queued behind it and the once-per-turn retries.  Follow-ups    *)
(* are pushed by a poller that runs between any two awaits of the event    *)
(* handler.                                                                *)
(*                                                                         *)
(* A turn has at most one deliverable block; what the agent says without   *)
(* one is "prose".  Trigger-less context, crashes and stale claims are the *)
(* business of InboundPlane.                                               *)
(***************************************************************************)
EXTENDS Naturals, Sequences, FiniteSets, FiniteSetsExt

CONSTANTS
  Streams,   \* emitsMidTurnText: blocks are delivered from text events
  MaxMsgs,   \* bound on messages that arrive
  MaxAhead,  \* bound on events the provider is ahead of the runner
  MaxTexts   \* bound on text events of a turn

ASSUME TurnAssumption ==
  /\ Streams \subseteq BOOLEAN /\ Streams # {}
  /\ MaxMsgs \in Nat \ {0} /\ MaxAhead \in Nat \ {0} /\ MaxTexts \in Nat

VARIABLES
  streams,   \* which kind of provider this is
  msgs,      \* kinds of the messages that have arrived, oldest first
  ack,       \* processing_ack of each
  inQuery,   \* the loop is inside processQuery ...
  batch,     \* ... which was opened for these messages
  ended,     \* endedForCommand: the query was aborted
  fed,       \* provider: prompts not answered yet, oldest first
  texts,     \* provider: text events of the turn it is in
  stream,    \* events the runner has not handled
  settle,    \* "none", or what a result's handler will do after its awaits
  routing, answering, pendingTurns, unwrappedNudged, taskBlockNudged,
  said,      \* messages whose block was written since the turn boundary; 0
             \* stands for any other chat row
  poller,    \* follow-ups claimed whose scripts run
  got,       \* ghost: times the block of a message's turn was delivered
  logged,    \* ghost: run-log entries of a message's turn
  crossed    \* ghost: a retry was pushed behind a follow-up

mailbox  == <<msgs, ack>>
provider == <<fed, texts>>
turn     == <<routing, answering, pendingTurns, unwrappedNudged,
              taskBlockNudged>>
ghosts   == <<got, logged, crossed>>
vars == <<streams, mailbox, inQuery, batch, ended, provider, stream, settle,
          turn, said, poller, ghosts>>

Kind == {"chat", "notice", "task", "command"}
Ids  == DOMAIN msgs

\* What a result brings: "error" is an error with a text, "fault" one without
\* (a chat treats both alike, so only a task is looked at with a "fault").
Body == {"block", "prose", "error", "fault", "nothing"}

Routing == [to : 1 .. MaxMsgs, task : BOOLEAN, notice : BOOLEAN]

\* A prompt: the routing of its batch and which retry of the turn it is.
Turn == [r : Routing, nth : Nat]

\* Routing goes by the first message; a batch is a task run, or was woken by
\* failure notices, when all of it is.
extractRouting(S) ==
  [to |-> Min(S), task |-> \A m \in S : msgs[m] = "task",
   notice |-> \A m \in S : msgs[m] = "notice"]

\* Tasks have no channel to send a notice to.
sendsFailureNotice(r) == ~r.task /\ ~r.notice /\ msgs[r.to] # "task"

Marked(S, status) == [m \in Ids |-> IF m \in S THEN status ELSE ack[m]]
Waiting == {m \in Ids : ack[m] = "none"}
Tasks(S) == {m \in S : msgs[m] = "task"}

NoRouting == [to |-> 1, task |-> FALSE, notice |-> FALSE]

Closed ==
  /\ inQuery' = FALSE /\ batch' = {} /\ ended' = FALSE
  /\ fed' = <<>> /\ texts' = 0 /\ stream' = <<>> /\ settle' = "none"
  /\ routing' = NoRouting /\ answering' = FALSE /\ pendingTurns' = <<>>
  /\ unwrappedNudged' = FALSE /\ taskBlockNudged' = FALSE
  /\ said' = {} /\ poller' = {} /\ crossed' = FALSE

Init ==
  /\ streams \in Streams
  /\ msgs = <<>> /\ ack = <<>>
  /\ inQuery = FALSE /\ batch = {} /\ ended = FALSE
  /\ fed = <<>> /\ texts = 0 /\ stream = <<>> /\ settle = "none"
  /\ routing = NoRouting /\ answering = FALSE /\ pendingTurns = <<>>
  /\ unwrappedNudged = FALSE /\ taskBlockNudged = FALSE
  /\ said = {} /\ poller = {} /\ crossed = FALSE
  /\ got = <<>> /\ logged = <<>>

-----------------------------------------------------------------------------
(* Messages and the outer loop                                             *)

Arrives ==
  /\ Len(msgs) < MaxMsgs
  /\ \E k \in Kind : msgs' = Append(msgs, k)
  /\ ack' = Append(ack, "none")
  /\ got' = Append(got, 0) /\ logged' = Append(logged, 0)
  /\ UNCHANGED <<streams, inQuery, batch, ended, provider, stream, settle,
                 turn, said, poller, crossed>>

\* runPollLoop claims what waits, answers commands itself and runs the
\* scripts, which may skip their task; the rest opens a query.  The routing
\* is that of the whole batch, commands and skipped tasks included.
runPollLoop ==
  /\ ~inQuery /\ Waiting # {}
  /\ \E skipped \in SUBSET Tasks(Waiting) :
       LET commands == {m \in Waiting : msgs[m] = "command"}
           keep     == Waiting \ (commands \union skipped)
           first    == extractRouting(Waiting)
       IN  /\ ack' = [m \in Ids |->
                CASE m \in commands -> "completed" [] m \in skipped -> "skipped"
                  [] m \in keep -> "processing" [] OTHER -> ack[m]]
           /\ IF keep = {}
              THEN UNCHANGED <<inQuery, batch, fed, routing, answering>>
              ELSE /\ inQuery' = TRUE /\ batch' = keep
                   /\ fed' = <<[r |-> first, nth |-> 0]>>
                   /\ routing' = first /\ answering' = TRUE
  /\ UNCHANGED <<streams, msgs, ended, texts, stream, settle, pendingTurns,
                 unwrappedNudged, taskBlockNudged, said, poller, ghosts>>

\* The stream ends by itself once its events are handled, or soon after an
\* abort, or it throws: either way the initial batch is acked and what was
\* pushed but not answered is gone.
QueryEnds ==
  /\ inQuery /\ settle = "none"
  /\ ended \/ stream = <<>>
  /\ ack' = Marked(batch, "completed")
  /\ Closed
  /\ UNCHANGED <<streams, msgs, got, logged>>

-----------------------------------------------------------------------------
(* The follow-up poller                                                    *)

\* A runner command wants a query of its own.
Aborts ==
  /\ inQuery /\ ~ended /\ poller = {}
  /\ \E m \in Waiting : msgs[m] = "command"
  /\ ended' = TRUE
  /\ UNCHANGED <<streams, mailbox, inQuery, batch, provider, stream, settle,
                 turn, said, poller, ghosts>>

\* mutant: follow-ups are polled for between turns only
TakesWhenIdle ==
  /\ inQuery /\ ~ended /\ ~answering /\ poller = {} /\ Waiting # {}
  /\ \A m \in Waiting : msgs[m] # "command"
  /\ ack' = Marked(Waiting, "processing")
  /\ poller' = Waiting
  /\ UNCHANGED <<streams, msgs, inQuery, batch, ended, provider, stream,
                 settle, turn, said, ghosts>>

TakesFollowUps ==
  /\ inQuery /\ ~ended /\ poller = {} /\ Waiting # {}
  /\ \A m \in Waiting : msgs[m] # "command"
  /\ ack' = Marked(Waiting, "processing")
  /\ poller' = Waiting
  /\ UNCHANGED <<streams, msgs, inQuery, batch, ended, provider, stream,
                 settle, turn, said, ghosts>>

\* mutant: a follow-up always adopts its routing at once
PushesAndAdopts ==
  /\ poller # {}
  /\ poller' = {}
  /\ \E skipped \in SUBSET Tasks(poller) :
       LET keep == poller \ skipped IN
       /\ ack' = [m \in Ids |->
            CASE m \in skipped -> "skipped" [] m \in keep -> "completed"
              [] OTHER -> ack[m]]
       /\ IF keep = {} THEN UNCHANGED <<fed, turn>>
          ELSE /\ fed' = Append(fed, [r |-> extractRouting(keep), nth |-> 0])
               /\ routing' = extractRouting(keep) /\ answering' = TRUE
               /\ unwrappedNudged' = FALSE /\ taskBlockNudged' = FALSE
               /\ UNCHANGED pendingTurns
  /\ UNCHANGED <<streams, msgs, inQuery, batch, ended, texts, stream, settle,
                 said, ghosts>>

\* mutant: an idle query keeps the retry flags of its last turn
PushesKeepingFlags ==
  /\ poller # {}
  /\ poller' = {}
  /\ \E skipped \in SUBSET Tasks(poller) :
       LET keep == poller \ skipped
           r    == extractRouting(keep)
       IN  /\ ack' = [m \in Ids |->
                CASE m \in skipped -> "skipped" [] m \in keep -> "completed"
                  [] OTHER -> ack[m]]
           /\ IF keep = {} THEN UNCHANGED <<fed, turn>>
              ELSE /\ fed' = Append(fed, [r |-> r, nth |-> 0])
                   /\ answering' = TRUE
                   /\ IF answering
                      THEN /\ pendingTurns' = Append(pendingTurns, r)
                           /\ UNCHANGED routing
                      ELSE routing' = r /\ UNCHANGED pendingTurns
                   /\ UNCHANGED <<unwrappedNudged, taskBlockNudged>>
  /\ UNCHANGED <<streams, msgs, inQuery, batch, ended, texts, stream, settle,
                 said, ghosts>>

\* The scripts are through: what is left is pushed and acked; its routing is
\* adopted at once when nothing is being answered, else it waits its turn.
Pushes ==
  /\ poller # {}
  /\ poller' = {}
  /\ \E skipped \in SUBSET Tasks(poller) :
       LET keep == poller \ skipped
           r    == extractRouting(keep)
       IN  /\ ack' = [m \in Ids |->
                CASE m \in skipped -> "skipped" [] m \in keep -> "completed"
                  [] OTHER -> ack[m]]
           /\ IF keep = {} THEN UNCHANGED <<fed, turn>>
              ELSE /\ fed' = Append(fed, [r |-> r, nth |-> 0])
                   /\ answering' = TRUE
                   /\ IF answering
                      THEN /\ pendingTurns' = Append(pendingTurns, r)
                           /\ UNCHANGED <<routing, unwrappedNudged,
                                          taskBlockNudged>>
                      ELSE /\ routing' = r
                           /\ unwrappedNudged' = FALSE
                           /\ taskBlockNudged' = FALSE
                           /\ UNCHANGED pendingTurns
  /\ UNCHANGED <<streams, msgs, inQuery, batch, ended, texts, stream, settle,
                 said, ghosts>>

-----------------------------------------------------------------------------
(* The provider: a strict FIFO of prompts                                  *)

Event(kind, body) == [kind |-> kind, of |-> Head(fed), body |-> body]
CanSpeak == inQuery /\ ~ended /\ fed # <<>> /\ Len(stream) < MaxAhead

SpeaksMidTurn ==
  /\ CanSpeak /\ texts < MaxTexts
  /\ texts' = texts + 1
  /\ stream' = Append(stream, Event("text", "block"))
  /\ UNCHANGED <<streams, mailbox, inQuery, batch, ended, fed, settle, turn,
                 said, poller, ghosts>>

EndsTurn ==
  /\ CanSpeak
  /\ texts' = 0 /\ fed' = Tail(fed)
  /\ \E body \in Body :
       /\ body = "fault" => Head(fed).r.task
       /\ stream' = Append(stream, Event("result", body))
  /\ UNCHANGED <<streams, mailbox, inQuery, batch, ended, settle, turn, said,
                 poller, ghosts>>

\* The agent sends with the send_message tool.  A model call takes far longer
\* than the runner needs for a result: none of the next turn's tools run
\* before that (a timing abstraction).
SendsByTool ==
  /\ CanSpeak /\ stream = <<>>
  /\ said' = said \union {0}
  /\ UNCHANGED <<streams, mailbox, inQuery, batch, ended, provider, stream,
                 settle, turn, poller, ghosts>>

\* The results among the first n events of s.
Results(s, n) == Cardinality({i \in 1 .. n : s[i].kind = "result"})

\* How many turns have a result the runner has yet to handle to the end.
Unanswered == Results(stream, Len(stream)) + Len(fed)

-----------------------------------------------------------------------------
(* The runner's event handler                                              *)

Delivers(m) == got' = [got EXCEPT ![m] = @ + 1] /\ said' = said \union {m}

\* mutant: no echo guard
DeliversEveryBlock ==
  /\ inQuery /\ settle = "none" /\ stream # <<>> /\ Head(stream).kind = "text"
  /\ stream' = Tail(stream)
  /\ LET m == Head(stream).of.r.to IN
     IF streams /\ ~routing.task THEN Delivers(m) ELSE UNCHANGED <<got, said>>
  /\ UNCHANGED <<streams, mailbox, inQuery, batch, ended, provider, settle,
                 turn, poller, logged, crossed>>

\* Mid-turn delivery: chat only, and never a verbatim repeat of what this turn
\* has written.
deliverMidTurnBlocks ==
  /\ inQuery /\ settle = "none" /\ stream # <<>> /\ Head(stream).kind = "text"
  /\ stream' = Tail(stream)
  /\ LET m == Head(stream).of.r.to IN
     IF streams /\ ~routing.task /\ m \notin said
     THEN Delivers(m) ELSE UNCHANGED <<got, said>>
  /\ UNCHANGED <<streams, mailbox, inQuery, batch, ended, provider, settle,
                 turn, poller, logged, crossed>>

\* What the result's text makes of a chat turn: a block is delivered here only
\* when the provider does not stream, prose never.
HasUnwrapped(body) ==
  IF streams THEN body \in {"block", "prose"} /\ said = {} ELSE body = "prose"

HasText(body) == body \notin {"fault", "nothing"}

\* The result event up to the await of its writes.
dispatchResultText ==
  /\ inQuery /\ settle = "none" /\ stream # <<>> /\ Head(stream).kind = "result"
  /\ ack' = Marked(batch, "completed")
  /\ LET e == Head(stream)
         m == e.of.r.to
     IN  IF routing.task
         THEN /\ logged' = IF HasText(e.body) /\ ~taskBlockNudged
                           THEN [logged EXCEPT ![m] = @ + 1] ELSE logged
              /\ settle' = IF e.body = "block" /\ ~taskBlockNudged
                           THEN "block" ELSE "close"
              /\ UNCHANGED <<got, said>>
         ELSE /\ IF e.body = "block" /\ ~streams THEN Delivers(m)
                 ELSE /\ said' = IF /\ e.body \in {"error", "fault"}
                                    /\ sendsFailureNotice(routing)
                                 THEN said \union {0} ELSE said
                      /\ UNCHANGED got
              /\ settle' = IF HasUnwrapped(e.body) /\ ~unwrappedNudged
                           THEN "wrap" ELSE "close"
              /\ UNCHANGED logged
  /\ UNCHANGED <<streams, msgs, inQuery, batch, ended, provider, stream, turn,
                 poller, crossed>>

\* The rest of the handler: the same turn is asked once more ...
Retries ==
  /\ settle \in {"wrap", "block"}
  /\ settle' = "none" /\ stream' = Tail(stream) /\ said' = {}
  /\ unwrappedNudged' = (unwrappedNudged \/ settle = "wrap")
  /\ taskBlockNudged' = (taskBlockNudged \/ settle = "block")
  /\ fed' = Append(fed, [Head(stream).of EXCEPT !.nth = @ + 1])
  /\ crossed' = (crossed \/ Unanswered > 1)
  /\ UNCHANGED <<streams, mailbox, inQuery, batch, ended, texts, routing,
                 answering, pendingTurns, poller, got, logged>>

\* mutant: the turn boundary forgets that nothing is left to answer
StaysAnswering ==
  /\ settle = "close"
  /\ settle' = "none" /\ stream' = Tail(stream) /\ said' = {}
  /\ IF pendingTurns # <<>>
     THEN /\ routing' = Head(pendingTurns) /\ pendingTurns' = Tail(pendingTurns)
          /\ unwrappedNudged' = FALSE /\ taskBlockNudged' = FALSE
     ELSE UNCHANGED <<routing, pendingTurns, unwrappedNudged, taskBlockNudged>>
  /\ UNCHANGED <<streams, mailbox, inQuery, batch, ended, provider, answering,
                 poller, ghosts>>

\* ... or the next one queued takes over.  An idle query is in order again.
ClosesTurn ==
  /\ settle = "close"
  /\ settle' = "none" /\ stream' = Tail(stream) /\ said' = {}
  /\ IF pendingTurns # <<>>
     THEN /\ routing' = Head(pendingTurns) /\ pendingTurns' = Tail(pendingTurns)
          /\ unwrappedNudged' = FALSE /\ taskBlockNudged' = FALSE
          /\ UNCHANGED <<answering, crossed>>
     ELSE /\ answering' = FALSE /\ crossed' = FALSE
          /\ UNCHANGED <<routing, pendingTurns, unwrappedNudged,
                         taskBlockNudged>>
  /\ UNCHANGED <<streams, mailbox, inQuery, batch, ended, provider, poller,
                 got, logged>>

-----------------------------------------------------------------------------
Handle == deliverMidTurnBlocks \/ dispatchResultText \/ Retries \/ ClosesTurn

Next ==
  \/ Arrives \/ runPollLoop \/ QueryEnds
  \/ Aborts \/ TakesFollowUps \/ Pushes
  \/ SpeaksMidTurn \/ EndsTurn \/ SendsByTool
  \/ Handle

Spec == Init /\ [][Next]_vars

\* Timers fire, scripts have a timeout, the handler awaits local writes only
\* and an aborted stream ends.  That a provider ever answers is not assumed.
FairSpec ==
  /\ Spec
  /\ WF_vars(runPollLoop) /\ WF_vars(Aborts) /\ WF_vars(TakesFollowUps)
  /\ WF_vars(Pushes) /\ WF_vars(Handle) /\ WF_vars(ended /\ QueryEnds)

-----------------------------------------------------------------------------
(* Properties                                                              *)

TypeOK ==
  /\ streams \in BOOLEAN
  /\ msgs \in Seq(Kind) /\ Len(msgs) <= MaxMsgs
  /\ ack \in [Ids -> {"none", "processing", "completed", "skipped"}]
  /\ inQuery \in BOOLEAN /\ batch \subseteq Ids /\ ended \in BOOLEAN
  /\ fed \in Seq(Turn) /\ texts \in 0 .. MaxTexts
  /\ stream \in Seq([kind : {"text", "result"}, of : Turn, body : Body])
  /\ settle \in {"none", "wrap", "block", "close"}
  /\ routing \in Routing /\ answering \in BOOLEAN
  /\ pendingTurns \in Seq(Routing)
  /\ unwrappedNudged \in BOOLEAN /\ taskBlockNudged \in BOOLEAN
  /\ said \subseteq 0 .. MaxMsgs /\ poller \subseteq Ids
  /\ got \in [Ids -> Nat] /\ logged \in [Ids -> Nat] /\ crossed \in BOOLEAN
  /\ \A m \in poller : ack[m] = "processing"

\* The turns the runner takes these for.
Believed == IF answering THEN <<routing>> \o pendingTurns ELSE <<>>

\* The runner takes the query for idle exactly when nothing is left to answer:
\* a follow-up neither waits for a result that will not come nor jumps a turn
\* (poll-loop.ts:549).
IdleIsKnown == Len(Believed) = Unanswered

\* Events and prompts meet the routing of the turn they belong to.
UnderOwnRouting ==
  LET Meets(k, r) == k \in DOMAIN Believed /\ Believed[k] = r IN
  /\ \A i \in DOMAIN stream :
       Meets(Results(stream, i - 1) + 1, stream[i].of.r)
  /\ \A k \in DOMAIN fed : Meets(Results(stream, Len(stream)) + k, fed[k].r)

\* "that turn's own remaining text/result events keep seeing ITS routing"
\* (poll-loop.ts:441), as long as no retry went behind a follow-up.
AnsweredUnderOwnRouting == ~crossed => UnderOwnRouting

\* The same without the exception, as the comment has it.
AlwaysUnderOwnRouting == UnderOwnRouting

\* A turn is asked again at most once (poll-loop.ts:391).
RetriedOnce ==
  ~crossed => /\ \A i \in DOMAIN stream : stream[i].of.nth <= 1
              /\ \A k \in DOMAIN fed : fed[k].nth <= 1

\* The runner's count of open turns, its queues and its retry flags agree.
TurnInvariant == TypeOK /\ IdleIsKnown /\ RetriedOnce

\* A turn writes its block at most once, whichever door it goes through and
\* however often the model repeats it.
BlockDeliveredOnce == \A m \in Ids : got[m] <= 1

\* "task sessions send only via explicit tools", and a task run has one entry
\* in its log (poll-loop.ts:1137).
OneDoorForTasks ==
  [][~crossed => \A m \in Ids :
       /\ got'[m] # got[m] => ~Head(stream).of.r.task
       /\ logged'[m] # logged[m] => logged[m] = 0]_vars

\* The final close of a chat turn that had something to say finds it said, or
\* was asked again.
NothingSilentlyDropped ==
  [][settle = "none" /\ settle' = "close" /\ ~crossed =>
       LET e == Head(stream) IN
       (~e.of.r.task /\ e.body \in {"block", "prose"})
         => said' # {} \/ e.of.nth > 0]_vars

\* What a turn has to say goes through the door its session has, and gets
\* through it.
TurnIsHeardOnce == OneDoorForTasks /\ NothingSilentlyDropped

\* A message is claimed or answered whatever the provider does (poll-loop.ts:467).
MessagesAreTaken ==
  \A m \in 1 .. MaxMsgs : (m \in Waiting) ~> (m \notin Waiting)
=============================================================================
