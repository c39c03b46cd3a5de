# Verification of kodelet-subagent

`kodelet-extension-subagent` runs named background agents for a Kodelet
conversation. An agent is durable: its rows live in a SQLite database that
several extension processes share. Its work is not: one goroutine of one process
drives one child session. Agents and their parent write each other mail through
the same database, and each is kept aware of its inbox by hooks the host calls.

What makes the program hard to get right is the seams. A process may stall,
crash or shut down while it holds a claim; a cancellation may come from another
process; mail must be published with the very transaction it reports, whoever
runs it; a widget is rendered by whichever call gets there first; a database is
imported by whichever process takes the lock, unless it dies first. This project
models both sides of each seam, checks them with TLC and proves the central
facts for all sizes with TLAPS.

Paths below are relative to `src/internal/`.

## Inventory

| Component | State | Operations | Interacts with |
|---|---|---|---|
| Agent store (`db/store*.go`, migrations 0001-0002) | `agents`, `runs`, `steering_messages` | `Create`, `Claim`, `Cancel`, `EnqueueSteering`, `Abort`, the two attachments, `MarkRunning`, `Terminal`, the two heartbeats, `CompleteCancel`, `NextSteering`, `AcknowledgeSteering`, `InterruptRuntime`, `ReconcileExpired`, `Get`, `List` | called by every process; each call is one `BEGIN IMMEDIATE` transaction that first settles expired leases |
| Agent runtime (`subagent/setup, worker, heartbeat, cleanup, retry, shutdown, liverun, runtime`) | `Runtime` (owned runs, setup and cleanup tasks, reservations, `shuttingDown`) and one `LiveRun` per claim | reserve, abandon, prepare, launch, run, heartbeat, clean up, cancel, shut down | store calls; child client and session; host leases |
| Steering pump (`subagent/steering.go`) | the message it holds | fetch, deliver, acknowledge | store; child session; stopped by the worker |
| Tools (`subagent/tools.go`, `wait.go`) | none of their own | spawn, wait, list, follow up, steer, cancel | store and runtime; wait acknowledges mail |
| Mailbox store (`db/store_mail*.go`, migrations 0003-0004) | rooms, events, mails | resolve, look up, list, read, send, acknowledge; publication inside store transactions | the store's own transactions; turn hooks |
| Mailbox notices and widget (`subagent/mailbox*.go`) | permissions, cached identity, last rendered state, widget locks | turn-end reminder, widget refresh and restore | mailbox store; host UI; host hooks |
| Database creation, migration, import (`db/database, migrate, import`, `subagent/legacy.go`) | the database file, a staging file and its journal, a lock file | import, bootstrap, migrate, verify | other processes on the same file |
| Connection (`subagent/serve.go`, `app.go`) | pending initialize requests, `closed`, the mailbox setting | receive, gate, close, initialize | host; SDK runtime; runtime shutdown |
| Widgets and progress, framing, inputs, schemas, paths, installation | none that decides anything | formatting and parsing | host |

What makes each correct:

* *Store.* Rows of three tables that separate statements write always tell one
  story; a finished run is final; limits hold; a child conversation belongs to
  one agent for good; guidance is neither lost nor delivered to the wrong run.
* *Runtime.* A claim that its process forgets has been given back; a failed or
  canceled run keeps its claim until its client has closed; shutdown waits only
  for what it stopped, leaves nothing running and finishes; nobody works on a
  claim unwatched, and a worker without its claim stops.
* *Pump.* Guidance is delivered in order, repeated only if a reply was lost, and
  deleted only after it was accepted.
* *Mailbox store.* A run that ends is reported once, in the transaction that ends
  it, with the outcome it keeps, to the team of that moment; a receipt
  acknowledges exactly the outcome that was delivered.
* *Inbox.* What the host shows catches up with the inbox, and no mail stays
  unread and unannounced, whichever calls race or fail.
* *Import and migration.* An imported database appears whole or not at all, no
  database is replaced, what an interrupted start leaves never fails the next,
  and every process opens the same migrated database.
* *Connection.* The tools an answer advertises match its own request.

`PROJECT.json` lists each hazard at its line, with the properties that cover it.

## Modules

| Module | Models | Extends |
|---|---|---|
| `FencedClaims` | what the store promises: claims with a holder and a deadline, one generation after the other, each decided once; a live claim is extended or released, never replaced, and one transaction does so for a single runtime | |
| `AgentStore` | the store's tables and transactions | |
| `AgentRuntime` | the processes around the store | `AgentStore` |
| `SteeringPump` | delivery of guidance | `AgentStore` |
| `MailStore` | rooms, lifecycle mail, receipts of `wait_agent` | `AgentStore` |
| `Inbox` | one participant's inbox, widget and reminders | |
| `Connection` | initialize requests and their answers | |
| `Application` | a process with its connection and an inbox, closed and restarted | `Inbox`, `Connection` |
| `Import` | how processes come by their database | |
| `AgentStoreProofs` -> `GuidanceProofs`, `FencedProofs` | proofs about `AgentStore`, those after the arrow on top of the one before | `AgentStore`, `TLAPS` |
| `RuntimeProofs`, `PumpProofs`, `MailProofs` | proofs about the modules that compose something with the store | their module; `FencedProofs`, and `GuidanceProofs` (runtime, pump) |
| `ApplicationProofs`, `ImportProofs` | proofs about the composed `Application` and about `Import` | `Application`; `Import` |
| `MC...` | the instances TLC checks | |

### AgentStore

One action per operation of `*Store` that changes a table; a call that returns
an error is rolled back and so is a stuttering step. `reconcileExpiredTx` runs
at the head of every transaction, so every guard and every write of an action is
over `SettledAgents` and `SettledRuns`: the rows as the rest of the transaction
sees them. The clock is a variable that `SetClock` moves forwards or back, as a
wall clock may be. A lease, once issued, stays in `leases` and may be presented
at any later time: slow, retrying, stale and crashed workers need no model of
their own here.

Random ids and tokens are abstracted to what they are unique to: an agent id is
never reused, a run id and a lease token are the pair of agent and generation.
Steering row ids are *not* abstracted: the table has no `AUTOINCREMENT`, so ids
come back after deletion (`IsNextRowId`), and acknowledgement is by id.

Left out: names and their uniqueness, tasks, working directories, and timestamps
other than the lease expiry. The publication of mail is `MailStore`'s.

### AgentRuntime

`live` is the `LiveRun` of each lease: the phase its owning goroutine has
reached, its client, its heartbeat, and the flags the code keeps
(`parentCanceled`, `terminalizing`, `heartbeatError`). `session` is the
`Runtime` of each process, with the program counter of its shutdown. Every step
on a table is an action of `AgentStore`.

* A reservation (`BeginReserve` .. `AbandonUnlaunchedClaim`) commits in one step
  and returns in another, so that a shutdown or the caller's end can fall
  between them.
* A cancel call is chosen under the lock and delivered later (`pending`,
  `CancelArrives`), because the code picks the owner under the lock and cancels
  it after; by then the owner may have handed the run over.
* A canceled context makes a store call fail before its transaction begins; the
  guards `~stopped` say so.
* `StoreFails` lets every store call fail for good; a busy database is a step
  that is not taken yet.
* `ClockGoesBack` says whether the wall clock may be set back (`Tick`). In
  `progress` it may; in `session`, `handback` and `early_initialize` it only goes
  forwards. `ForgottenClaimsAreReleased` needs that: a worker that saw its lease
  expire gives up, and a clock set back afterwards makes the claim live again,
  with nobody to release it before it expires once more. `session` leaves it out
  for its size; the theorems about its properties hold for either clock.
* The shutdown is a sequence of steps with the passes, and the snapshots of
  tasks and reservations, of the code.

Left out: widgets, progress, the host's background lease (acquired before and
closed after everything a store call can see), and steering, which
`SteeringPump` covers.

### SteeringPump

The pump of each lease and what its session has accepted. Of the worker only
the three points where it touches the pump are modelled: it starts it with
`MarkRunning`, stops it, and records an outcome after it returned. `ReplyLost`
lets `Steer` fail although the session took the message (`unheard` remembers
which); `Busy` lets the acknowledgement find the database busy until the pump
gives up.

### MailStore

Each operation of `AgentStore`, conjoined with what its transaction publishes:
`ReapedNotices` for the claims it reconciled, the run it ends (`End`,
`Interrupt`) or starts for the first time (`Start`). Events are keyed by agent
and generation, as `event_key` is; recipients are read from the agents table in
the same transaction. `WaitReturns` and `AckTerminalMail` are two steps, as in
`wait.go`: a follow-up or a cancellation may fall between them. `MailInit` has
databases with agents from before the mailbox was enabled, since publication must not
replay those. The clock only moves forwards here.

Every process is taken to have its mailbox enabled. It is a setting of each
process: one that has it disabled publishes nothing, and so settles the expired
claims it meets (`store_worker.go:15`) unreported, those of others included.

Left out: subjects, bodies and their size budgets, sender checks, and the paging
of listings. Mail that agents send each other is in `Inbox`, which takes a
mail's id as all there is to it.

### Inbox, Connection, Application

`Inbox` has one participant: `Hook`, the hook the host awaits at any time, and
`Others`, the tool calls and refreshes that run beside it. All go through
`syncMailboxWidget`, modelled step by step: `TryLock`, one snapshot (`List`), a
comparison with the cached state, the call to the host, the entry in the cache,
the deferred `Unlock`. A call without the lock still reads its snapshot, because
the reminder needs it, and renders nothing, even if the holder has nothing left
to do but to unlock: a session start that meets it restores no widget, and the
next refresh does.
The lookup of the participant, which precedes the hook's own use of the widget,
may fail: at a session start nothing is then forgotten and nothing rendered
(`RestoreFails`), at the end of a turn no mail is named (`LookupFails`).
`doubt` is a history variable with one purpose: it marks the three situations in
which the code itself cannot know what the host shows (see *Known weaknesses*).

`Connection` is `serve.go` with `Application.initialize`: a request is read and
accepted or refused in one step and answered in another, in any order; `idKey`
keeps the kind of a JSON-RPC id. `Requests` are the initialize requests a host may
send, a parameter of the instance; `Answer` is what a waiting request would be
answered with now. `Application` composes the two: hooks and tools
reach the inbox only over a connection that is open and has advertised them;
`Disconnect` aborts every call wherever it is, and `Restart` is a new process
that knows nothing of what was rendered while mail and the host's mark persist.

External, and modelled by what the code relies on: the host applies interface
calls in the order it receives them, keeps the newest revision of a reminder it
has appended (`mailbox_notices.go:55-58`), and does not reuse the id of a request
that has no answer yet, which JSON-RPC requires of it.

### Import

`importLocked` and `bootstrapLocked` as the steps between which a process can
die: each step is one file operation or one SQLite transaction. A file is a
record of what those steps tell apart (version table, revision, soundness,
foreign keys, live claims, synced or not, who staged it). `Break` makes the call
of any step fail, and takes the error path the code has there; `Crash` ends a
process, whose lock the kernel drops and whose open transaction leaves a
rollback journal beside the copy; `LosePower` ends all of them, may tear a file
that was not synced and undo a rename whose directory was not.

External: `flock` is released with its holder; a rename is atomic; SQLite rolls
back a journal it finds, commits durably once it has checkpointed, and
`VACUUM INTO` refuses a file that exists.

## Runs

| Run | Instance | Question |
|---|---|---|
| `claims` | 2 agents, 2 runtimes, 2 conversations, 2 generations, clock 0..3, leases of 2 | do rows, leases and outcomes agree; are they fenced claims |
| `guidance` | 2 agents of one owner, limits of 1, one runtime, 2 generations, 2 row ids, clock 0..1 | is held guidance still queued, does it follow its agent, is any lost; do the limits hold |
| `session` | 1 runtime, fresh agent, 2 generations, failing store | what shutdown, failure and cancellation leave behind; does a shutdown await only what it has stopped; is every worker watched |
| `handback` | a forked agent, a working store, leases that expire, a process that crashes | are forgotten claims given back |
| `progress` | fairness, fork, expiry, shutdown, a clock that may be set back | do cancellations, shutdowns and stale workers end |
| `pump` | 2 texts, 2 generations, at most 2 lost replies, busy database | order; repetition; deletion only after acceptance |
| `delivery` | the same with fairness and no lost reply | does guidance arrive; do stopped pumps return |
| `mail` | 2 agents, 2 owners, 2 generations, one agent from before, one wait | who is told what, when, and what a receipt marks |
| `import` | 2 processes, 2 revisions, every pair of databases found on disk, 1 failing call, 2 crashes or power failures | whole imports, no replacement, no leftover that hurts, everyone opens |
| `application` | a hook and a concurrent call, 2 mails, a widget of 1 header, 1 lost call, 3 kinds of initialize request, at most 2 sent, 1 restart | answers, widget, skipped renderings, reminders |
| `early_initialize` | a host that does not wait for a shutdown | expected violation |
| `unrecorded` | true replies, database never busy | expected violation |

The largest, `handback`, has about three million distinct states and takes two
minutes on two workers; `guidance`, `mail` and `session` have between 0.7 and 1
million, `pump` and `application` half a million, `delivery` and `import` about a
quarter.

*Bounds.* Two agents, two generations and two runtimes are the smallest instance
in which a lease can be stale in each of the ways the code distinguishes: expired,
superseded by a follow-up, taken by another process, canceled, or of another
agent. The clock needs `LeaseDuration + 1` readings to let a lease expire and a
renewed one stay; in `claims` it has one more and may go back. With limits of 1,
two agents contend for every claim. Two row ids let an id be freed, reused and
acknowledged late, by another agent's run too. In the runtime, one process with
two generations is enough for its goroutines to overlap with those of the next
run, and `CancelLiveRun` covers cancellations by this process while its absence
covers those of another. `LastRenewal` bounds the reading at which a lease is
issued or renewed, so that leases do expire within the bound on the clock. In
`mail`, two owners and two agents make a team with a peer, a team without, and a
stranger. In `import`, two processes are a waiter and a holder; two revisions are
a database to upgrade part of the way; two crashes let a start that recovers
from a crash be cut short itself. In `application`, two mails and one header
separate the count from the headers and the newest mail from the rest; one lost
call falls anywhere. Retries are unbounded; what is counted is how often something
goes wrong (`MaxFailures`, `MaxCrashes`, `MaxLost`, `MaxLostReplies`,
`MaxRestarts`).
Symmetry permutes agents, runtimes, conversations, owners, texts and reports,
none of which any definition names; runs of liveness properties use none.

*Deadlock* is checked except in `application`: a host may close the last
connection it opens, and the bound on restarts is then the end.

*Fairness.* `RuntimeFairness` asks that a goroutine with something to do is
scheduled, that calls to Kodelet and the host return or time out (`withTimeout`
bounds session creation and runs, `HostRequestTimeout` host calls), that closing
a client succeeds eventually (`closeAgentClient` retries for ever, so without
this nothing else ends), that a heartbeat notices a lease that is gone, and that
a cancel call is delivered. A *running* session need not answer (`Working`):
shutdown, cancellation and loss of the claim have to work without it.
Deliberately not assumed: that a lease is renewed in time, that a user cancels,
or that the host ends the session. `PumpFairness` asks that the pump's goroutine
is scheduled and `Steer` returns.

`Import` asks that operations keep asking for a database that failed to open
(every store operation does), that a start under way runs on unless its process
dies, and, strongly, that a process waiting in `flock` gets the lock if it keeps
being released, as the kernel's queue of waiters does. `Application` asks that,
while the connection is open, the host goes on with its hooks and that handlers
that have begun go on; not that mail is read, that a connection is made, nor
that tool calls arrive.

*Expected violations.* `early_initialize`: `Application.initialize` clears
`shuttingDown` while an earlier shutdown is under way. A host that stopped
waiting for `session.end` may initialize again; the old shutdown then meets runs
of the new session which its passes have not collected, and interrupts their
rows. Its comment says that it awaits every owned run first. `unrecorded`: a
pump that is stopped while `Steer` is returning drops the session's acceptance;
the message stays queued and a follow-up delivers it again, although the comment
in `acknowledgeSteeringMessage` says that a delivery is recorded even if the pump
stops.

*Known weaknesses.* Five behaviours that no document of the repository rules
out, and which the properties therefore step around explicitly:

* A rendering that reaches the host but whose reply is lost or late leaves the
  cache at the state before it (`mailbox.go:128`). If the inbox then returns to
  that state, `mailbox.go:113` skips the rendering, and the host shows the wrong
  one until the inbox changes to a third.
* A session start deletes the cached state (`mailbox.go:70`) while another call
  may be between its rendering and its entry at `mailbox.go:130`, which brings
  the forgotten entry back although the host may have dropped the widget.
* A session start whose lookup of the mailbox fails (a busy database, or the
  hook's time is up) returns before it deletes the cached state
  (`mailbox.go:62-67`). Main's inbox may be in the cache by then, since
  `runtime.go:253-257` renders it without that lookup; if the host has dropped
  its widgets, `mailbox.go:113` skips a rendering that nobody sees.
* A start that fails after its import was renamed into place leaves the next one
  a target, so the notice of `store.go:65-67` is never given.
* A shutdown drops the error of `InterruptRuntime` (`shutdown.go:91`), and its rows
  stay claimed until their leases run out.

The first three set `doubt`, under which `WidgetCatchesUp` and `SkippedIsShown`
claim nothing; everywhere else they do. `doubt` ends with the next rendering that
reaches the host, or the next session start that forgets the record. The fourth
concerns only a notice, which is not modelled; the fifth is in the model, as the
session's `pc` "failed", of which `ShutdownLeavesNothing` does not ask that no row
is claimed.

Two sentences are weaker than they may look. `CancellationFinishes` begins before
the run is `releasing`: by then the cancellation is over or its lease has run out,
and a clock set back revives the lease only to run out again. And `FencedClaims`
sees the runtime that holds a claim, not the worker or the caller that acts on it:
which of them a transaction serves is in the guards of `AgentStore`.

## Proofs

All theorems hold for every value of the constants that satisfies the modules'
named assumptions, which TLC evaluates for the values of the runs. The type
invariants of the runtime, the pump and the mailbox are theorems only.

| Module | Theorem | States |
|---|---|---|
| `AgentStoreProofs` | `TypeCorrect`, `RowsAlwaysAgree`, `OutcomesAreFinal`, `LimitsAlwaysHold`, `ConversationsStayDistinct`, `ConversationsNeverChange` | `TypeOK`, `RowsAgree`, `TerminalRunsAreFinal`, `LimitsHold`, `ConversationsAreDistinct`, `ConversationsStick` |
| `GuidanceProofs` | `GuidanceAlwaysFollows`, `HeldMessagesAreQueued`, `GuidanceIsNeverLost` | `GuidanceFollowsTheAgent`, `HeldMessageIsQueued`, `GuidanceIsNotLost` |
| `FencedProofs` | `ClaimsAreFenced` | `Spec => FencedSpec` |
| `PumpProofs` | `PumpsAreFenced` | `PumpSpec => Spec`, and with it `FencedSpec` and `TerminalRunsAreFinal` |
| | `PumpTypeCorrect`, `GuidanceIsDeliveredInOrder`, `GuidanceIsDeliveredOnce`, `OnlyAcceptedIsDeleted` | `PumpTypeOK`, `DeliveredInOrder`, `DeliveredOnce`, `DeletedOnlyIfAccepted` |
| `MailProofs` | `MailKeepsTheStore` | on any earlier database: the steps of `FencedSpec`, `TerminalRunsAreFinal`, `ConversationsAreDistinct`, `ConversationsStick` |
| | `MailStaysWithinLimits` | `[](LimitsHold => []LimitsHold)` |
| | `MailTypeCorrect`, `MailAlwaysTellsTheOutcome`, `AcknowledgedOutcomesStayRead`, `EndedRunsAreAlwaysReported`, `FirstStartsAreAlwaysAnnounced`, `RecipientsAreAlwaysTheTeam`, `ReceiptsAreAlwaysExact` | `MailTypeOK` and the six properties of `mail` |
| `RuntimeProofs` | `ProcessesRefineTheStore` | `RuntimeSpec => Spec` |
| | `ProcessesAreFenced` | of the processes: `FencedSpec`, `TerminalRunsAreFinal`, `LimitsHold`, `ConversationsAreDistinct` |
| | `RuntimeTypeCorrect`, `LaunchedAgentsAlwaysStay` | `RuntimeTypeOK`, `LaunchedAgentsStay` |
| | `WorkersAreAlwaysWatched`, `ShutdownAlwaysStopsWhatItAwaits` | `WorkersAreWatched`, `ShutdownStopsWhatItAwaits` |
| | `ShutdownAlwaysAwaitsEveryRun`, `ShutdownAlwaysLeavesNothing`, `ClaimsOutliveClients`, each assuming `~EarlyInitialize` | `ShutdownAwaitsEveryRun`, `ShutdownLeavesNothing`, `ClaimOutlivesClient` |
| | `ForgottenClaimsAreAlwaysReleased`, assuming `~EarlyInitialize`, `~StoreFails` and `~ClockGoesBack` | `ForgottenClaimsAreReleased` |
| `ImportProofs` | `ImportTypesHold`, `ImportsAlwaysArriveWhole`, `OpenStaysGood`, `NothingIsEverReplaced`, `StartsFailForACause` | the five safety properties of `import` |
| `ApplicationProofs` | `AnswersAlwaysMatch`, `SkippedRenderingsAreShown` | `AnswersMatchTheirRequests`, `SkippedIsShown`, of the composed `Application` |

*The store.* `TypeOK` is not inductive by itself: reconciliation indexes the runs
of a claimed agent by its generation, which is a generation only because a claimed
agent is not absent. `TablesAgree` is the strengthening: `Inv == TypeOK /\
TablesAgree` is inductive, and with `LeasesAreHandedOut` gives `RowsAgree`. Inv
leaves the set of leases out, apart from its type, because mail may be enabled on
a database whose claims were handed out by processes that are gone: `MailStore`
starts there, and its proof uses the same lemmas. The argument goes in two layers. First, settling
preserves everything (`RowAgrees` of a row implies `RowAgrees` of its settled
row), so that an operation can be treated as if it found settled rows. Then each
operation changes the row, and at most the current run, of one agent; one lemma
per operation shows that the new row agrees and that the others are untouched.
`InterruptRuntime` is the exception and is handled pointwise. For
`OutcomesAreFinal`, a run is written only by an operation whose lease is active,
hence whose run is active; by reconciliation and `InterruptRuntime`, which leave
a finished run as it is; or by `Create` and `Claim`, which write the run of a
generation that had none. `Abort` deletes only a run that is starting.

*Limits and conversations.* Only `Create` and `Claim` add a claim, under
`WithinLimits`; every other step's set of claims is a subset of the set before
it, whose cardinality bounds it. A conversation is attached only where it fits:
to an agent that has none, or has that one, and that no other agent has.

*Guidance.* `GuidanceInv` ties the queue to the agents (each message to its
agent's current generation), leases to the generations handed out, and what a
pump holds to the queue: while a delivery's claim is active, the queue has its
row. Row ids are reused, so that last part is what makes deleting by id safe:
an id can come back only after its row has gone, and a row that a live delivery
holds has not. Most steps are *quiet*: they leave the queue alone and give no
claim to an old lease; one lemma covers all of these.

*Refinement.* `FencedProofs` maps a row to a claim and a history of runs to
outcomes, agent by agent. Settling an expired row is a `Lapse`; the rest of the
transaction then acts on settled rows, and each operation is shown to be, for
each agent, a `Keep`, `Lapse`, `Extend`, `Release` or `Acquire`. A transaction that
settles an expired claim and claims the same agent anew is one `Acquire`. Every
step of the processes, and every step of the pumps, is one of the store's or
leaves its tables alone (`RuntimeIsStore`, `PumpIsStore`); so both systems
implement the store, and through it `FencedClaims`, end to end. `MailStore` starts
from a database with earlier agents, so it does not implement `Spec`; but its steps
are the store's (`MailIsStore`), and what they preserve is preserved there.

*Pump.* `sent` orders the texts, and the queue, the message a pump holds and what
its session accepted are each in that order. `Ready` and `Carries` join the three:
what was accepted was sent before what is held, and that before the rest of the
queue, the latter *as long as the lease is active*. When it is not, the pump may hold what a
follow-up's pump holds too, but then `AcknowledgeSteering` refuses it, which is
why `DeletedOnlyIfAccepted` needs `HeldMessageIsQueued` of `GuidanceProofs`. A
text is accepted twice only out of `unheard`, the replies that were lost.

*Mail.* The hinge is `Reported`: in each transaction of the store, the terminal
events it publishes, for the claims it reconciled and for the run it ends, are
exactly the runs that were not over before and are over after. One lemma per
operation shows it from `Inv`; what `Over` says of a canceling agent is what makes
`Cancel` publish nothing and `CompleteCancel` publish. `MailInv` adds that mail
tells the status of its run, which is final, and that a wait remembers the outcome
of a run that is over; that what a wait acknowledged stays read then holds because
its event is published only once, and before or with the receipt.

*Runtime.* With `RuntimeIsStore` the store's invariants hold of any number of
processes. `RuntimeInv` adds what a phase implies (`RunOK`) and that a deleted agent was
never launched (`DeletedOK`): `Abort` needs a live claim of the first generation
that only its own setup, not yet launched, presents.

`ShutdownOK` says what a shutdown has achieved at each of its steps: after the
first pass and the reservations nothing can be set up, so whatever was launched
meanwhile is among the tasks of the second; after that, no goroutine is left, and
after `InterruptRuntime` no active row names the process. It holds because, once
`shuttingDown` is set, runs only move towards their end (`RunsShrink`) and an
active row gets a process's name only from its own reservations (`NewNames`).
`EarlyInitialize` takes that away, as `early_initialize` shows, hence the
hypothesis; `session`, `handback` and `progress` run without it too.

`WorkersAreWatched` and `ShutdownStopsWhatItAwaits` are what the liveness
properties `StaleWorkersStop` and `ShutdownFinishes` need to be safe: a run that
loses its claim has somebody to notice, and a shutdown waits for nothing that
nobody has told to stop. `Course` says where each run may go in a step. A heartbeat
that ends by itself marks the run (`lost`) before it goes, and a worker looks at
that mark before it opens a client, so that nothing opens later without one
(`Watched`). A shutdown awaits snapshots of tasks, which go stale while it waits:
each task it has collected has been canceled, and stays so, because a run never
goes back to a phase without a context (`SignalsAreSignaled`), and one that is no
longer there was removed by the goroutine that ended. Neither argument needs that a
host waits for a shutdown or that the store recovers, so neither theorem has a
hypothesis.

`ClaimOutlivesClient` is a statement about every step of every process: only four
steps of a run end its own claim (`OneRunEffects`), another process's transaction
ends only one that has expired, and a shutdown interrupts its own only when no run
is left. `HandedBacksOK` gives `ForgottenClaimsAreReleased`: from the phase at
which a claim must have been given up on (`GivenBack`), on every path of the
cleanup, by an outcome, a finished cancellation, or a call refused for a claim
that is gone. A claim dropped before its setup (`LetGo`) is an active row, so the
shutdown that dropped it cannot be done. With a store that fails for good the
claim waits for its lease, as in the code; hence the second hypothesis. The third
is in `ClaimsStay`: a claim that has expired is not live again. `handback` shares
all three.

TLC confirmed each of these invariants before its proof: `PumpInv` on the
instance of `pump`, `MailInv` on that of `mail`, those of the runtime on those of
`session` and `handback`.

*Import.* Only the holder of the lock is between two steps, so what was true of
the files when it took its last step is still true unless it, or the machine, has
died; and then nobody is between two steps. `PhaseOK` says what that is for each
step: until the rename there is no target, and the staged copy has the source's
foreign keys and a revision that is the source's or at most the head; before a
target is migrated, it is sound and has its version table. With `FileOK` (what
was imported is verified and free of live claims, what is visible is synced) this
is `ImportInv`. That an unsynced file is never the target is why a power failure
tears only a staged copy, and that a lost rename puts back what was durable is
why what is open, which is durable, is never lost. TLC confirms `ImportInv` on
the instance of `import` as well.

*Connection.* Waiting requests have distinct ids, `Key` is injective because it
keeps the kind, and so each waiting request has exactly its own entry in
`pending`; the setting of the tools does not change once there is a runtime.

*Widget.* That a skipped rendering is shown needs to know of every call where it
is. `LockInv` says which calls hold the lock, so that at most one is between its
snapshot and its unlocking; `ShownInv` that, while nothing is in doubt and no
session start is about to forget the record, the record is what the host shows,
or, while a call is between its rendering and its record, its snapshot is. A
session start that forgets nothing (`RestoreFails`) keeps it: if the host shows
something else than the record, or than what is about to be recorded, it leaves
doubt. The
call that compares has the lock, so no call is there and the record is the
widget. `ClosedInv`, that nothing is recorded or under way between two
connections, is what lets the host drop its widgets at a restart.

*Only model-checked.* Liveness: the prover treats neither fairness nor `ENABLED`,
so `CancellationFinishes`, `StaleWorkersStop`, `ShutdownFinishes`,
`GuidanceArrives`, `StoppedPumpsReturn`, `EveryProcessOpens`, `WidgetCatchesUp` and
`MailIsNoticed` stay with TLC. Every other property of a passing run is a theorem.
The safety that two of them rest on is proved, as *Runtime* says.

## What is not modelled

* *Several stores in one process* (`initializationLock`, several data
  directories): `app.go` makes one store, and the file lock, which is modelled,
  excludes stores of one process just as well.
* *The pool of `readDatabase`*: reads see a committed state; so does an action's
  guard.
* *Widgets and progress of agents* (`ui.go`): a rendering of snapshots that
  decides nothing. *Framing, inputs, schemas*: sequential parsing and validation,
  covered by `sdk_test.go` and `tools_test.go`. *Paths, names, versions, the legacy location*: pure
  functions of strings. *Build and installation*: shell scripts.
* *Subjects, bodies and size budgets of mail, sender checks, paging*: formatting
  and validation of one call, with no state between calls.
* *The SQL of each migration*: a migration is a transaction that raises the
  revision; what it does to rows is covered by the upgrade and
  schema tests of `database_test.go`.
* *The cached identity of a participant*: it never changes once resolved. That the
  lookup before it may fail is modelled.

## Plan

The hazards of `PROJECT.json` without a property are of two kinds. The widget's
(`mailbox.go:62` and `:128`), `shutdown.go:91` and `store_worker.go:15` are
behaviours that the code does not exclude; properties for them can follow once
it does, and until then *Known weaknesses* and *MailStore* state them. For
`heartbeat.go:56` one can be stated of the model as it is: a run that records
its own answer is not stopped as lost by its heartbeat.
