# Isthmus in TLA+

This directory models the core of Isthmus (a NanoClaw host in TypeScript, a Go
"trust kernel" that starts containers, and an agent runner inside each
container). It holds TLA+ modules translated from the source, TLC
configurations that check them on small instances, and TLAPS proofs of what
holds for every instance. Paths below are relative to the repository; `src/…`
is the TypeScript host, `container/agent-runner/src/…` the runner and
`go-host/…` the kernel.

## The system

A *host* process owns a central database (agent groups, messaging groups,
sessions, pending approvals, leases) and one pair of SQLite files per session:
`inbound.db`, written by the host, and `outbound.db`, written by the runner.
A chat message is routed to sessions and written as a row of `messages_in`;
the host wakes a container for the session through the kernel; the runner
polls `messages_in`, claims rows in `processing_ack` (in `outbound.db`), hands
them to the agent and writes answers to `messages_out`; the host's delivery
polls send these through a channel adapter. Every minute a sweep mirrors acks
into `inbound.db`, wakes sessions with due work, retries what a dead container
left behind and stops containers that make no progress.

| component | state it keeps | operations | what is hard | what makes it correct |
|---|---|---|---|---|
| inbound mailbox (`host-sweep.ts`, `mailbox/sqlite/session-db.ts`, `poll-loop.ts`, runner `mailbox/sqlite/operations.ts`) | `messages_in` status/tries/process_after, `processing_ack`, the runner's batch and turn queue | insert, poll, claim, push a follow-up, complete, sync acks, retry, SLA kill | two writers on two databases, container death at any point, timers of both sides | a row settles once and for a reason; an unanswered row is offered again; every wake row settles |
| outbound delivery (`delivery.ts`) | `messages_out`, `delivered`, `deliveryAttempts`, `inflightDeliveries` | drain, send, record, retry, give up | two poll chains, a send that succeeded but was not recorded, crashes | no repeat without a lost record, records are final and truthful, every row is recorded |
| session claims and host lease (`db/coordination.ts`, `host-instance.ts`, `container-runner.ts`) | `host_instances`, `session_claims`, the active-session map | claim, renew, adopt, spawn, finish, kill, shut down | overlapping host lives, a stalled host, crashes between claim and start | incarnations fence; the newest runner is the one the row names |
| session supervision (`container-runner.ts`, `drivers/session-events.ts`, `drivers/docker-driver.ts`, kernel `handleKill`) | `activeContainers`, `wakePromises`, the hub's `KeyState`, handles, the event stream, gateway leases | wake, adopt, resync, kill, finish, terminal hints | lossy and duplicated hints, stale reads, a name shared by successive containers | a runtime ends on its own account, every end is noticed and told only if nobody asked for it |
| kernel supervisor (`modules/kernel-supervisor`, `go-host/internal/kernel/lock_unix.go`) | `child`, `consecutiveFailures`, the restart timer; lock and socket files | spawn, restart, give up, stop | a detached child that outlives the host, start and stop overlapping | one kernel answers on the socket; a restart succeeds; a shutdown ends |
| approvals (`modules/approvals`, `gateway-approval-coordinator.ts`) | `pending_approvals`, the `pending` and `awaitingReason` maps | request, click, reason reply, expiry, sweep | clicks racing timers, crashes between the decision and its effect | a card is decided once and its effect follows |
| turn routing (`poll-loop.ts` `processQuery`) | `routing`, `answering`, `pendingTurns` beside the provider's stream | push, text, result, retry, abort | retries queue behind follow-ups, events lag behind pushes | an answer goes where its question came from, through one door, once |
| scheduling (`modules/scheduling`, `mailbox/sqlite/tasks.ts`, `cli/resources/tasks.ts`) | recurring rows of `messages_in`, the task's session | re-arm, back off, pause, resume, update, cancel, run, delete, close | insert and clear are two statements, commands between any two awaits of the sweep | a series has one next occurrence, and its session closes only when it is spent |
| routing and registration (`router.ts`, `modules/permissions`) | wirings, members, `pending_channel_approvals`, `pending_sender_approvals`, messages kept in them | fan out, gate, ask, connect, reject, name, replay | a replay starts at the top and overtakes other handlers; late clicks | a stranger's words wake nobody before the yes, what the gate refused is stored nowhere before it, and reaches the session after it |
| kernel registry (`go-host/internal/kernel`) | sessions by key, Docker names | wake, kill, rollback | concurrent connections | one container per session, nothing left after a failed wake (not modelled yet) |
| session manager, agent-to-agent messages | central tables | find or create a session, return path | creation races, replies between several sessions | not modelled yet |
| the rest (channels, CLI, templates, setup, diagnostics, policy checks) | – | I/O, parsing, formatting | – | not modelled; `PROJECT.json` gives a reason for each |

How they interact: the router and the approvals write rows of `messages_in`; the sweep
and the router wake containers through the runner (`wakeContainer`); the runner's
container reads and writes the two mailbox databases; delivery sends what it wrote;
claims decide which host may run the session, supervision follows the one container it
started, and the kernel supervisor keeps the process alive that starts it. Each module
takes its neighbours as open choices: `InboundPlane` and `TaskSchedule` a container that may
end at any time, `SessionSupervision` a kernel call that may fail, `TurnRouting` any
arrival of messages.

`PROJECT.json` lists all components with their sources and the hazards, each at
the line where it bites and with the properties aimed at it.

## Modules

### `InboundPlane`, with `MessageContract` and `InboundPlaneProofs`

One session's inbound half: the host's sweep, the runner's poll loop, the two
databases between them, and every death of a container or a host.

* `status`, `tries`, `delayed` are the columns of `messages_in` (`delayed` is a
  `process_after` in the future), `ack` the rows of `processing_ack`.
* `up`, `tracked`, `sweep` are the host: alive, holding the container in
  `activeContainers`, and where the sweep of the session is (after its await on
  the wake, after the SLA kill asked for a stop, …). `dying` is a stop that was
  asked for and has not taken effect.
* `phase`, `batch`, `turns`, `firstPoll`, `hung`, `fup`, `stale` are the runner:
  the outer loop, the query that runs, its queued turns, and the follow-up poll,
  which is a timer callback of its own whose awaits let it outlive the query.
* Row kinds are sets of ids given as constants (`Trigger`, `OnWake`, `System`,
  `Commands` and those of them the runner answers itself, `BuiltIn`, `Scripted`, `Poison`); content
  is left out. `accounted` is history: rows whose turn is over, with a result or given up.

The actions follow the handlers: `SweepSession` is `sweepSession` up to its wake,
`SlaOk`/`SlaKill`/`DropClaims` the running-container checks, `OuterPoll`,
`AnswerCommands`, `OpenQuery`, `TurnResult`, `CloseBatch` the runner's loop,
`FollowUpPoll`/`FollowUpPush` the poll inside a query. `Selected` is the
two-part window of `getPendingMessages` (trigger rows first, then the newest
others). The stuck-turn timers (`decideStuckAction`) are one choice between
`SlaOk` and `SlaKill`, guarded by `Overdue`.

`MessageContract` is the abstract specification of one row: pending, charged a
try at most `MaxTries` times, settled as completed or failed, never reopened.
`EachRowKeepsItsContract` states that `InboundPlane` implements it for every row
(`INSTANCE … WITH` the row's own columns); it is checked by TLC and proved.

### `OutboundDelivery`, with `HostLoopsProofs`

One session's outbound half: two poll chains (`active` and `sweep`) drain the same
queue. A chain awaits between reading the queue, each send, the record and the
follow-through, so each is a step, guarded by `inflightDeliveries`; attempts live
in memory and are lost in a crash, records are not.

### `SessionClaims`, with `SessionClaimsProofs`

The fencing of a session between overlapping host lives (a host that stalls past
its lease and its successor; a crashed host and its restart). `leases` is
`host_instances`, `claim` the row of `session_claims` with its incarnation. A
host's `pc` separates every await of `claimSessionRun`: read the row, check the
holder's lease, compare and set. Adoption at start, a wake, the spawn with its
undo, the end of a container, shutdown and crash are actions; leases expire at any
time a host does not renew.

### `KernelSupervisor`, with `SupervisionProofs`

The host keeps one `nanogo serve` alive. `child`, `failures`, `timer` are the
module's variables; `main` and `shut` say how far `main()` and `shutdown()` of
`index.ts` are, which run side by side when a signal meets a host that is still
starting. `proc`, `lock`, `socket` are the kernel processes, the flock on
`<socket>.lock` and the process bound to the socket path. `spawnKernel` has no
await before its child is started and is one step; an exit is noticed in a later
step; a detached child outlives a host that does not stop it. `install` picks,
once, whether the binary exists and whether only the kernel finds the path too
long (exit code 78). Its specification is called `KernelSpec`, because its proofs are in one module
with those of `SessionSupervision`, the host's other supervisor; the two share no name.

### `GatewayApprovals`, with `GatewayApprovalsProofs`

A gateway provider's request waits on `decide()` while an admin answers a card. The
hold lives in three places no transaction ties together: the row (`row`, with
`located` for a known message id), the promise (`hold`, `answer`, the key in
`pending` with its timer) and the card (`card`, what the approver sees). `won` is a
history variable: the decisions ever committed to a row. A click goes through the
bridge's edit of the card, `handleApprovalsResponse`, the compare-and-set, the
`pending` lookup and the deletion, one step per await (`at`); `expireApproval` has its
steps in `expiry`, the start-up sweep in `sweep` and `sweepAt`. `DbFaults` names the
database calls that may throw, one for each await after the row is there. A `decide()`
that throws is a denial, as both providers treat it (`onecli.ts:282`,
`iron-proxy-approval.ts:332`). `jammed` is history too: requests whose decided row could
not be deleted, which is what `EveryHoldIsAnswered` excepts.

### `AgentApprovals`, with `ApprovalContract` and `AgentApprovalsProofs`

An agent's request for approval. `row` is the status, `request` where
`requestApproval` stands, `card` the cards with live buttons; `armed` is
`awaitingReason`'s entry for the approver's DM. `deliver()` may throw before or after the
card is out (`DeliverFails`), and the row is then deleted whatever was decided meanwhile:
`withdrawn` keeps such requests, `excuses` the notes about them. An `Actor` is a click, a typed message
or the sweep tick; all of them end in `finalizeReject` or in `Close`, so these are
actions over actors, and `at`, `on`, `seen` are an actor's place, approval and expected
status. `notes` and `ran` count what the agent gets: a note, or the execution of the
approved action, which re-enters `guard` first. `won` and `cut` are history: decisions
committed, and decisions that a crash or a failed note kept from the agent.

`ApprovalContract` is the abstract specification of one request: decided at most once
and for good, with at most one outcome, which runs the action only after an approval;
a withdrawn request is not decided afterwards. `EachRequestKeepsItsContract` states that
`AgentApprovals` implements it for every request; it is checked by TLC and proved.

### `SessionSupervision`, with `SupervisionProofs`

One host and the container of one session. `cur`, `waking`, `stage` are `activeContainers`,
`wakePromises` and a runtime's life; `hub` the hub's `KeyState` objects, of which the
session's key finds one (`key`); `handle` the `DockerHandle`s with their attach process;
`call` the `stop()` calls under way; `reg` the kernel's registry entry; `box` the container
that wears the session's name, whichever incarnation it is; `stream`, `event` the
`docker events` subscription and an event on its way.

Code between two awaits is a step: `wakeContainer`, `Prepare`, `MarkRunning` and their
failures; `adoptOneSession` and `resync` or `ResyncFails`; `killContainer` inside its callers (`StopAsked`
for restarts, rebuilds, lost leases and stuck claims, `CeilingKill` for the sweep), then the
kernel's `docker stop` (`KernelStops`), `docker rm --force` (`KernelRemoves`) or the host's own
(`StopsDirectly`), `StopReturns` and `finish`. A hint reaches the hub by the stream or by the
end of the attach process; the hub reads truth (`verify`, `VerifyEnds`) and fires once
(`deliver`). `status` reads at once and its answer is awaited.

### `TaskSchedule`, with `HostLoopsProofs`

One task series in its session. `rows` are `messages_in` and `processing_ack` in the order
of `seq`; what no query can tell from an absent row is dropped (`Tidy`: the rows `Kept` move up,
in their order), so a series runs on for ever in finitely many states. `at` is the await the sweep is in: `SweepWakes` or
`SweepMaintains`, `Wakes`, then `Lists`, `Inserts`, `Clears` per occurrence to re-arm, and
`Closes`. `dropped` is history: a write of the pass under way failed, or of the pass that closed the
session. Commands (`cancelTask`, `pauseTask`, `resumeTask`, `updateTaskTime`, `updateTaskClears`, `updateTaskArms`,
`RunSelects`/`runTask`, `DestroysMailbox`/`DeletesSession`) take effect between any two of
these. `HostRestarts` forgets where the sweep was. Its specification is called `TaskSpec`, because
its proofs are in one module with those of `OutboundDelivery`, the host's other loop over a
mailbox; the two share no name.

### `TurnRouting`, with `TurnRoutingProofs`

One open query of the runner. The provider is a strict FIFO: `fed` are the prompts it has
not answered, `stream` the text and result events the runner has not handled. The runner's
account of them is `routing`, `answering` and `pendingTurns` with the once-per-turn flags;
`Believed` is what the runner takes for the open turns, `Unanswered` how many there really are:
the results in `stream` (`Results`) and the prompts in `fed`. `runPollLoop` opens a
query, the poller claims follow-ups (`TakesFollowUps`), runs their scripts and pushes them
(`Pushes`), or aborts for a command; the handler of events is `deliverMidTurnBlocks`,
`dispatchResultText`, and after its awaits `Retries` or `ClosesTurn`.

### `ChannelRegistration`, with `MCRegistration` and `ChannelRegistrationProofs`

One chat, its wirings, and the messages kept for an approver. A handler is a task (`tasks`)
that other tasks overtake at every await that writes: `routeInbound`, the fan-out one agent
at a time (`FansOut`), `wireApprovedChannel` as `WiresApproved` or `GivesUpWiring`,
`AdmitsSender`, `DeletesRow`, `ReplaysChannel`, the sender's card as `ApprovesSender`, `ReplaysSender`, and the refusals.
Requests for cards are fire-and-forget (`requests`); `row` and `held` are the two pending
tables, which survive a restart. `approved` and `owed` are history: the decisions that
took effect, and the messages kept and not refused.

Engagement is decided for each wiring (`Engages`, `evaluateEngage`): by a pattern or a mention
(`engages`, one set of messages for each agent), and by an open session for a mention-sticky
wiring (`sticky`). Where a message engages the agent, the sender gate stores it with a wake or
refuses it; where it does not, the wiring's own policy keeps it as context or drops it (`keeps`,
`context`). So a stranger's mention that one agent's gate refuses is kept as context by another
whose wiring it does not engage: `StrangersAreNotStored` says of each agent that only its own
refusals stay out (`refused`). `Setups` gives the chats that a run begins with.

## Runs

| run | shows | bounds, and why they suffice |
|---|---|---|
| `inbound_safety` | settled for a reason, handed once per container, an acked row is answered, waited for or given up where the code gives up, settled stays settled | five rows, one of each kind that behaves differently (context, crashing chat, a command for the agent, tool answer, `/clear`), a window of two so that it overflows, `MaxTries` 0 so that a charge is final, two faults |
| `inbound_liveness` | every wake row settles, each row implements `MessageContract` | a scripted task row and an on_wake row, one retry, one fault of any kind |
| `delivery` | repeats only after a lost record, records truthful and final, tries bounded, first announced once, every row recorded | two rows and both chains, the code's three attempts, two faults |
| `claims` | fencing, hosts that renew in time never supervise together, a holder that renews keeps its claim, no dead claimant wedges a session | two overlapping hosts, two faults; a third host repeats the roles of the first two |
| `kernel` | the socket leads to the lock's holder, own socket never unlinked, no restart after the shutdown, restarts succeed, shutdown ends | three process slots (a child and two strays), two failures to give up, two faults, kernels started by hand |
| `gateway_approvals` | one decision per row and an approval only by it, no time-out shown for a request that was let through, every hold is answered, except when the DELETE behind a committed click throws | one request, two clicks, a timer, two restarts, a fault in every database call; clicks meet the timer and each other on one request, and the proofs cover more requests |
| `agent_approvals` | one decision and one outcome, the grant stays live, each request implements `ApprovalContract`, a decision reaches the agent | two requests (two holds meet in one DM), two clicks, one reply, any two of crashes, failing notes and deliveries that throw (with or without the card out) |
| `supervision` | a runtime ends on its own account and is told right, a crash is reported as a failure, no runtime outlives its container, wakes settle and callbacks run, leases follow | two runtimes and two containers (an incarnation and its successor under one name), one stop beside the sweep's, one fault of any kind; a second `stop()` at a time finds a handle that is stopping already |
| `task_schedule` | a series neither multiplies nor dies, stays cancelled, is paused when its script is broken, its session closes only when it is spent | two rows, a pause cap of two, no retry, one fault; `update --recurrence` never arms a second series (`MaxArms` 0), every other command at any time |
| `turns` | each turn is answered under its own routing, a block goes out once, through one door, nothing is dropped without a retry, messages are taken | three messages of every kind (the turn, one queued, one more), two events ahead, two texts to a turn, so a block can be repeated; streaming and other providers |
| `registration` | what the gate of an agent refused is not in its session, a stranger's words wake nobody, what is kept is answered, unheard only behind a duplicate | two strangers, up to two agents, two handlers at a time, one restart, failed card or unusable row; five chats: all mention the bot (both policies), a pattern beside a mention wiring (accumulating and dropping), a mention-sticky wiring; symmetric handlers |
| `registration_unheard` | expected violation, below | the chat in which all mention the bot, one handler, no fault |

An invariant of a run that joins several parts: `DeliveryInvariant` is `TypeOK`,
`ResentOnlyAfterLoss` and `TriesBounded`; `RowsAreRecordedForGood` is `RecordedForGood` and
`EveryRowIsRecorded`; `SupervisionNeverTraded` is `OneLiveSupervisor` and `LiveHolderKeepsClaim`;
`KernelProgress` is `KernelAnswers` and `ShutdownCompletes`; `DecidedOnceForGood` is `OneOutcome`
and `GrantStaysLive`; `SupervisionInvariant`, `EndsAreToldRight`, `WakesAndStopsSettle`,
`ScheduleInvariant`, `SweepCatchesUp`, `TurnInvariant`, `TurnIsHeardOnce` and `RestartsAreSafe`
(`OwnSocketStays` and `NoRestartAfterShutdown`) are defined beside
their parts in the same way.

`TypeOK` of `InboundPlane`, `SessionClaims`, `GatewayApprovals`, `AgentApprovals` and
`ChannelRegistration`, `KernelTypeOK` and the property `UnpressedCardStaysLive`
are proved and not repeated by a run.

### A statement the code does not keep

`registration_unheard` checks `ApprovedIsHeard`: once the approver has said yes and the replay
has run, the message is in the agent's session. It is violated without any fault: in a chat
with two agents a stranger needs a yes for each. After the first, the replay stores the
message in the first agent's session; after the second, the replay starts at the first
agent again, whose session has that id, and the insert throws out of `routeInbound` before
the second agent's turn. What remains true is `UnheardOnlyBehindADuplicate`.

### Others that do not hold

Each is in its module under "Properties" and is refuted when a configuration names it;
no run repeats them.

* `CrashLoopsEnd` (`InboundPlane`): a row whose turn always kills its container is redelivered
  for ever. The sweep wakes before it charges, and the woken runner deletes the claims that
  would be charged.
* `HostWritesOutboundOnlyWithoutContainer` (`InboundPlane`): the SLA kill deletes rows of
  `outbound.db` while the container it asked to stop still runs.
* `UnansweredIsRedelivered` (`InboundPlane`): the batch of a query that errored or broke is acked
  completed (`poll-loop.ts:310`, as its log line says), and a follow-up is acked when it is pushed; a
  container that dies before answering it loses the message. What remains true is
  `AckedIsAccountedFor`: there is no third way, apart from rows whose claim the host dropped.
* `DueWorkIsVisible`, `ContextNeverEngagesAlone` (`InboundPlane`): rows of kind system, filtered
  after the prompt window was cut, hide due rows; a batch left with context rows after
  commands and gated tasks were taken out.
* `SentOnceInOneLife` (`OutboundDelivery`): without any crash, a message that was sent and whose
  record failed is sent again. `FirstDeliveryIsAnnounced`: a failed row counts as the first
  delivery.
* `AdoptionYieldsOnlyToAPeer` (`SessionClaims`): a host restarted within 90 s of a crash leaves its
  own surviving container unadopted, because the dead life's lease still reads as live.
  `LiveHostsNeverShare`: a lease that lapses and is renewed between the holder check and the
  compare-and-set. `SessionEndedMeansEnded`: a wake refused because a peer runs the session
  releases the gateway identity that peer's container uses.
* `UnlinksOnlyDeadSockets` (`KernelSupervisor`): the kernel of a crashed host still listens; the new
  host unlinks its socket, while the survivor's lock refuses every child of the new host.
  `KernelStopsWithHost`: a SIGTERM during start-up runs the shutdown callback before the start
  callback, which then spawns a kernel the host leaves behind.
* `EveryHoldIsAnswered` (`GatewayApprovals`) without its exception `jammed`: the click takes the
  promise off `pending` and stops its timer, then deletes the row
  (`gateway-approval-coordinator.ts:99-105`); if the DELETE throws, nothing resolves the
  request any more, against lines 51-56, where no promise is to be left alive indefinitely.
* `HeldIsAlwaysTold` (`AgentApprovals`): a crash between the commit of `rejected` and the note leaves a
  row no sweep selects. `GrantStaysLive` without its exception `withdrawn`: `deliver()` that throws
  after the card was posted removes the row under a card that can be pressed
  (`primitive.ts:282-287`: "the single delivery target never saw the card"), so a request
  that was approved may be refused by the guard, and its agent is told that the request
  could not be delivered as well as its outcome.
* `AlwaysUnderOwnRouting` (`TurnRouting`): the comment at `poll-loop.ts:440` has a turn's events keep
  its routing; a retry is pushed behind a follow-up that was queued meanwhile, and each is
  answered under the other's routing. The run states the rest (`crossed` marks the case).

### Behaviour the models show and no text of the repository speaks of

* Approvals: a click that comes before `pending.set` or after the timer changes the card to the
  button's label while the request is denied; a card whose message id was never recorded
  keeps its buttons after the sweep dropped its row; holds that are open when the provider's
  subscription ends are denied, and their rows and cards stay until the next start.
* Supervision: a kill addresses a container by name, so a late one takes the next
  incarnation; a wake that fails after its runtime was registered drops the runtime, and a
  late stop of it finishes its successor (the exempted case of `FinishedForItsOwnEnd`); an
  adopted container has no attach process, and an end between the list after a reconnect
  and the new subscription (`docker-driver.ts:268`) is noticed only by the sweep's ceiling; a
  gateway lease lost between `ensure()` and `registerRuntime` kills nothing
  (`container-runner.ts:229`).
* Tasks: a pause of an occurrence that runs is lost at its re-arming, a pause or cancel between
  completion and re-arming finds no row; a crash or a failed `clearRecurrence` between
  insert and clear arms the series twice (`recurrence.ts:96`); after a failed insert, or a failed clear
  and a cancel, the same pass can close the session and the series is over, although
  `restamp.ts:351` says the sweep re-arms it (`ClosedMeansSpent` and `SweepCatchesUp` exempt
  this case and no other); a
  run, then a pause, then `update --recurrence` leaves a second series (`tasks.ts:382`); a run
  whose insert lands after the close never runs; a `deleteSession` that fails after the
  mailbox was destroyed cannot be retried.
* Turns: the routing of the first batch is taken before commands and skipped tasks leave
  it; an error of the stream is reported under the first batch's routing; follow-ups queued
  in the stream are lost on an abort.
* Registration: both rows are inserted before the card is delivered, so a failed delivery leaves a
  row nobody can click, behind which later mentions count as in flight (`sender-approval.ts:20`
  says no row is created when the adapter is missing); a row is deleted by its chat, so a late
  second click can delete the row of a later message; a slow request can insert a row for a
  chat that is wired by then, whose "connect" throws; a reject racing a connect leaves a chat
  that is both denied and wired; only the first mention is replayed, later ones are dropped
  while it is pending.

## Fairness

* `InboundPlane`: the sweep and both polls are timers that re-arm themselves, so
  their steps are weakly fair; a requested stop takes effect; a host is restarted by
  its service manager; `SweepWakes` is strongly fair, because a wake that fails is
  tried again each minute and some attempt succeeds. A slow turn is not assumed to
  end: the heartbeat and claim timers stop its container (`SlaKill`, strongly fair
  only for a runner that is silent). Arrivals and faults are not fair.
* `OutboundDelivery`: a chain inside a drain goes on and some chain comes back. The
  adapter's call is assumed to return; a hung adapter stalls delivery in the code.
* `SessionClaims`: awaits resolve, a live host's lease timer fires, a host that is
  shutting down finishes. Nothing is assumed about how long a host stalls.
* `GatewayApprovals`: steps of a live process complete and timers fire; an adapter's
  delivery returns or throws. Nobody has to press a button, and providers need not ask.
* `AgentApprovals`: what a live process began goes on, the sweep ticks, windows elapse,
  a crashed host is restarted. Nobody has to click or type.
* `KernelSupervisor`: timers and exit events fire, kernels get through start-up; a
  kernel need not heed SIGTERM.
* `SessionSupervision`: one weak fairness of everything that was begun (`Goes`): reads return,
  processes end, the stream reconnects, the kernel answers, the sweep's ceiling comes. It is
  bounded in each run, so a step cannot be starved for ever by the others. `CeilingKill` waits
  for `Quiet`: thirty minutes are longer than anything else here takes. Containers need not
  end and nobody has to wake or stop anything. `GoesOn` is the enabling condition written
  out, which TLC evaluates faster than `ENABLED`.
* `TaskSchedule`: the sweep's timer fires and no step of it hangs (`Sweep`); nothing is
  promised of users, scripts, containers or the clock.
* `TurnRouting`: the runner's loop, its poller and its event handler go on, an aborted query
  ends. The provider may stay silent for ever.
* `ChannelRegistration`: only safety is checked. Nobody has to press a button.

## Proofs

All are checked by `tlapm`; the assumptions are the named ones on the constants.

* `InboundPlaneProofs`. `IInv` joins the type invariant with the two facts that make
  a settled row explicable: an ack exists only for a row that arrived, and a row is
  completed or failed only with a final ack or with its tries used up. It is needed
  because `SettledForAReason` alone is not inductive: the sweep's mirroring copies
  acks, whose origin the types do not tell. From it: `TypeCorrect`,
  `RowsSettleForAReason`, `RowsStaySettled`, and `RowsKeepTheirContract`, the step
  simulation of `MessageContract` for each row. `RunnerInv` is about the two pollers of one
  container: the batch, the follow-ups under way and those left over by a closed query are
  apart, what they hold keeps its ack, and `Selected` offers only rows without one. It
  gives `RowsAreHandedOnce`, in which rows whose claims the host itself deleted under the
  container (`DropClaims`, `disturbed`) are left out, as in the runs. `AccountInv` follows the
  rows of a query: a row of the batch waits in the first turn until its result accounts for it
  (`BatchIsWaitedFor`), and until then it is claimed (`BatchClaimedUntilResult`), which is what a
  dying container needs; the end of a query accounts for all it held. It gives
  `AckedRowsAreAccountedFor`.
* `SessionClaimsProofs`. `FenceInv` is `TypeOK`, every host writes only under its own
  name, each incarnation has one host and the newest runner holds the claim; the four
  together are inductive because a compare-and-set either moves the incarnation past
  all others or changes nothing. `SupervisionNeverTraded` speaks of a host whose lease never
  lapsed and needs what its peers can still do: `LiveInv` says that a row read earlier is no
  newer than the row, that a task past the check read a claim nobody live held, and that a host
  that runs the session is the one the claim names, so a peer's compare-and-set comes too late.
  Theorems: `TypeCorrect`, `IncarnationsFence`, `NewestRunnerIsNamed`, `SupervisionStays`.
* `SupervisionProofs`, of `KernelSupervisor`. `LockInv` (a kernel is past its lock exactly when it holds
  it, and the socket path leads to a serving one) and `PendingInv` (another attempt is
  pending only while the count allows one, without a child, and not in a shutdown)
  make `KernelTypeOK` inductive: without `PendingInv` the failure count could pass its cap.
  Theorems: `SupervisorInvariant`, `KernelTypes`, `SocketNeverSwapped`,
  `RestartsStaySafe`.
* `GatewayApprovalsProofs`. `IInv` relates the three places of a hold (`HoldInv`), makes
  the row's status the one decision committed (`RowInv`), lets expiry and sweep work on
  refused requests only (`RefusedInv`) and keeps unpressed cards live (`UnpressedInv`);
  `ClickInv` ties a click past its compare-and-set to that decision. Theorems:
  `GatewayInvariant`, `TypeCorrect`, `OneDecision`, `TimedOutIsRefused`,
  `UnpressedStaysLive`, with any of the listed database calls failing.
* `AgentApprovalsProofs`. `IInv` says that a handler past a final transition works alone on
  its request until the outcome is out (`WorkInv`, `OneWorker`), that the row's final status
  is the decision (`RowInv`), that nothing without a card is decided, and that a withdrawn
  request has no row for anybody to decide (`RequestInv`). The decision, not the row, ties a
  handler to its request: a delivery that throws late may take the row. Theorems: `ApprovalInvariant`, `TypeCorrect`, `OneOutcomeEach`,
  `GrantIsLive`, and `RequestsKeepTheirContract`, the step simulation of
  `ApprovalContract`.
  `DecisionStands` is the conjunction the run checks.
* `HostLoopsProofs`, of `OutboundDelivery`. `OneChain` is what `inflightDeliveries` is for: a chain that is in the
  session is alone, so what it still has to do is unrecorded and it knows every delivered
  row, although it works from a snapshot (`ChainInv`). `SuccessInv` balances successes, lost
  records and the record of each row, counting a success whose record is being written;
  `TriesInv` relates tries to the counter, which reaches its limit only in a chain that is giving
  the row up. Theorems: `AlwaysIInv`, `DeliveryKept`, `RecordsAreTrue`, `FirstAnnouncedOnce`,
  `RecordsStand`, for any number of rows, chains, attempts and faults.
* `HostLoopsProofs`, of `TaskSchedule`. `SeriesInv` adds to the types and the count of armed rows what the
  list of a sweep is: only settled rows that recur are on it, and unless a write of the pass failed, all of
  them are once it has been read (`RowFacts`, `AllListed`); a cancelled row does not recur, and a
  session is closed between two sweeps only. The count alone is not inductive, because an insert
  and its clear are two steps: between them the original does not count, which is right only
  while it is on the list. `Thins` is what most steps do to the rows (arm nothing, leave the same
  rows to re-arm, raise no count); that forgetting rows thins them (`TidyThins`) rests on `NthIs`,
  that `Nth` lists a finite set of numbers in order. `Tidy` is restated with `Nth` because the
  recursion inside `SelectSeq` is closed to the provers. `updateTaskArms` is the one step that
  does not thin, and its count is paid for by `arms`. Theorems: `SeriesHolds`, `ScheduleHolds`,
  `SeriesSingle`, `CancelledStays`, for any caps, tries, rows, arms and faults.
* `ChannelRegistrationProofs`. Four groups of facts are inductive together: a fan-out works on
  the rest of the wirings it started with, and wirings are only ever appended; a task that
  carries a yes is at or ahead of the agent the yes was for; for each message and agent the
  approver is asked only by a routing that met the gate, so at most one row or request of it
  exists; and a message that was kept is in a row, in a request, in a task or in a session
  until it is refused. What was asked for or refused engages its agent and will do so again,
  because sessions only fill (`Wants`, `RefusedInv`); without that `StrangersAreNotStored` is not
  inductive, since a replay could find the message not engaging and keep it as context. Theorems: `RegistrationInvariant`, `TypeCorrect`,
  `StrangersStayOut`, `HeldIsKept`, `HeardOrDuplicate`, for any number of messages, senders,
  agents and handlers.
* `SupervisionProofs`, of `SessionSupervision`. `SupervisionInv` joins nine facts. The registered runtime, the hub's key
  and the container of the name are one, and the key only moves forward (`Registry`,
  `Containers`); an attach process tells the truth of its own container, and hub and handle know
  the same intents (`Attachments`); a registered runtime that is to stop has a `stop()` call
  under way (`StopsUnderWay`); a runtime is marked as ended only if its end was fired or asked
  for, or a dropped runtime precedes it (`Endings`); the answer of a read under way is true when
  it is given, and an end the attach process hinted is being read or will be asked again
  (`Reads`); what was told stays true (`Told`). `AttachedEndIsNoticed` alone says nothing of a
  read that is still out, and `CrashIsReportedAsFailure` nothing of an answer not yet given:
  `Reads` is what makes them hold. Theorems: `SupervisionHolds`, `SupervisionStaysInOrder`,
  `CrashesAreTold`, `EndsStayRight`, for any number of wakes, containers, calls and faults.

  Three wakes show two cases two wakes do not reach, and the properties of ends name them: a
  late stop of a finished runtime can remove a container that was created and never ran, to
  which a later wake attached, so an end may be that of a container that never ran (`Gone`); and
  once a dropped runtime's late stop finished its successor (`Orphaned`), a read of that
  successor may be answered by the next container's clean exit.

* `TurnRoutingProofs`. The turns that are open are a list no variable holds: `TurnInv` says that
  there is a sequence of turns which events and prompts name in their order, a result closing
  the turn at its head (`Lists`). What the runner keeps agrees with it: it is idle exactly when
  the list is empty, its queue is one shorter, and unless a retry went behind a follow-up
  (`crossed`) the routings are the list's (`Agrees`) and the once-per-turn flags know whether the
  head is a retry (`Flagged`); the turns are apart, and those behind the head have not spoken
  (`Apart`, `Delivered`, `Entered`). Each action is a fact about the list: a push appends, a close
  takes the head off, a retry takes it off and appends it. `TurnInvariant` alone is not inductive:
  it counts turns and does not say whose they are. The counts are cardinalities (`ResultsStep`,
  `ResultsShift`), and the routing of a batch names one of its rows (`RoutingOfBatch`). Theorems:
  `TurnsAddUp`, `RunnerKeepsCount`, `OwnRouting`, `BlocksGoOutOnce`, `HeardOnce`, for any number of
  messages, texts and any lead of the provider.

Only model-checked is what needs fairness: `WakeRowsSettle`, `EveryRowIsRecorded`, `NoClaimWedges`,
`KernelProgress`, `EveryHoldIsAnswered`, `DecisionReachesAgent`, `NoRuntimeOutlivesItsContainer`,
`WakesAndStopsSettle`, `SweepCatchesUp` and `MessagesAreTaken`. Liveness is out of the provers'
reach. Every other property of a passing run is the conclusion of a theorem.

## Abstractions worth knowing

* Every SQLite statement or transaction is atomic. `RetryClaimed` updates its rows in
  one step where the code writes row by row in one synchronous block.
* An approved action takes effect, is denied by the guard or throws before its effect; one
  that throws after a part of it, or whose own report fails, is
  left out. All cards of `AgentApprovals` go to one approver's DM.
* The abort of a query is atomic with its end; kill is stop and finish in one step.
* Time is a choice: a lease lapses, a backoff elapses, a timer fires whenever it is
  armed. A property that needed real durations is not stated.
* Faults (crashes, failed statements, failed calls) are counted up to `MaxFaults`;
  the channel's refusals and a host's shutdown are not faults and not counted.
* `SessionSupervision` follows one session; the kernel call of a wake is one step that succeeds or
  fails, and may leave a created container behind when it fails.
* `TaskSchedule`: cron times are a flag, due or not yet; faults and changes of the time are looked
  at while at most one occurrence is live.
* `TurnRouting`: a turn has at most one deliverable block, and whatever the parser makes of a
  text without one is "prose"; a result may also be an error without text, which a task does not
  log. The agent's `send_message` tool speaks in its own turn only.
  Context rows, crashes and stale claims are `InboundPlane`'s. `BlockDeliveredOnce` therefore
  says nothing of three cases: a block assembled over segments (`midTurnTail`) is the text event
  in which it is complete, and a fragment that never closes is no event at all; the lookup of
  earlier texts is taken to answer, where the code fails open and delivers a block that may be a
  repeat (`poll-loop.ts:1085-1090`); and two equal blocks in one text, which the code sends
  twice (`poll-loop.ts:946-950`), cannot occur.
* `SessionClaims`: a stop's stamp that fails is swallowed and the shutdown goes on
  (`host-instance.ts:80-85`), so the lease then ends by its lapse.
* `ChannelRegistration`: rows are known by message and agent instead of a random id, agents are
  visited in the order of their wiring, both policies that ask are modelled and `public` and
  `decline_notify` are not; an agent has one session for the chat, a mention-sticky wiring looks
  for it in the step that stores, and wirings are not edited or removed; the card that lists
  existing agents, `sender_scope` and the command gate are left out.

## Not modelled

`PROJECT.json` names every component. Left out of the models for good: parsing, formatting, Docker
and SDK adapters, policy checks of the kernel (stateless), diagnostics, set-up and release scripts,
templates, the CLI apart from its task commands, channels apart from a call that may fail. The
counted share of the repository is small because most of its lines are of these kinds.

## Plan

Done, with proofs of the safety properties: `InboundPlane`, `OutboundDelivery`, `SessionClaims`,
`SessionSupervision`, `KernelSupervisor`, `GatewayApprovals`, `AgentApprovals`, `ChannelRegistration`,
`TaskSchedule` and `TurnRouting`. Next, in this order:

1. `KernelRegistry`: concurrent wake and kill over the registry and Docker names, with the
   rollback of a failed wake.
2. The creation of a session under its lock and the return path of agent-to-agent messages.
3. The approvals' branches for deleted sessions; `decideStuckAction` as a pure operator checked
   against a reference definition.
