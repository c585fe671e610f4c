# A TLA+ model of missive

missive is a command-line client for agents that speak the A2A protocol, with a
profile-local SQLite store and a long-running gateway daemon that works off
background jobs, follows remote tasks and accepts inbound messages. This
directory holds TLA+ modules that model its state machines, TLC configurations
that check them on small instances, and TLAPS proofs of the safety properties for
every instance.

Paths below are relative to the repository (`src/` here); `jobs.rs` alone means
`crates/missive-gateway/src/jobs.rs`.

## 1. Inventory

The system is a set of short-lived CLI processes and (usually) one gateway daemon
per profile. They share a SQLite database and a directory of lock files, and
nothing else: there is no IPC between the CLI and the daemon. Every write is made
under the *state-mutation process lock* of the profile; a second lock, the
*gateway lock*, keeps a second daemon from starting. A CLI command holds the state
lock from its first read to its exit (`agent.rs:394`), remote calls and sleeps
included; the gateway takes it for one critical section at a time.

| component | source | state | operations | interacts with |
|---|---|---|---|---|
| background jobs | `jobs.rs`, `missive-cli/src/job.rs` | `gateway_jobs` rows (state, retry count, next run, lock, result), events | `job start`, `job cancel`, scan and claim, attempt (send, stream, wait, reduce), finish | store, agents, registry, tasks |
| task subscriptions | `subscription.rs` | `gateway_jobs` rows of kind `task_subscription`, `tasks` rows | scan (cleanup and claim), subscribe, persist stream event, finish with backoff | store, SSE streams, cached Agent Cards |
| gateway daemon | `daemon.rs`, `missive-cli/src/gateway.rs` | gateway lock, component states, manager tasks, event bus | start, serve, shutdown, drop lock, join managers | both managers, HTTP adapter |
| HTTP inbound adapter | `daemon.rs`, `missive-adapters/src/http.rs` | rate-limit window, counters, bus | authenticate, admit, validate, journal, hand over | gateway daemon |
| webhook receiver | `webhook.rs`, `missive-cli/src/webhook.rs` | delivery counter | authenticate, validate, append an event, stop after `--max-events` | events, gateway lock |
| busy input policy | `busy.rs` | active operation, queue | queue, interrupt, steer with fallbacks; drain, complete | sessions, tasks |
| gateway sessions | `session.rs` | `gateway_sessions` rows | upsert, touch, evaluate, reset | busy input, adapters |
| SQLite repository | `missive-store/src/repository.rs`, `lib.rs` | all tables, foreign keys | upserts, deletes, transactions | everything |
| migrations | `missive-store/src/migrations.rs` | `schema_migrations`, `user_version` | verify checksums, apply in order | repository, doctor |
| state paths and locks | `missive-store/src/paths.rs` | operating-system file locks, gone with their process | resolve, acquire, try_acquire, drop | every process |
| task commands | `missive-cli/src/task.rs` | `tasks` rows | list, get, wait, cancel | agents, store |
| send and stream | `missive-cli/src/send.rs`, `stream.rs` | messages, tasks, artifacts, events | foreground send and stream | agents, store |
| collectives | `bcast.rs`, `gather.rs`, `reduce.rs`, `barrier.rs` in `missive-cli/src` | per-member outcomes | fan-out, gather, reduce, barrier | groups, agents, tasks |
| artifacts | `missive-cli/src/artifact.rs` | `artifacts` rows, exported files | list, show, save, export | task commands, gather |
| groups and contexts | `group.rs`, `context.rs` | membership, names, open or closed | create, add, remove, rename, delete, close | collectives, jobs |
| router | `missive-router/src/lib.rs`, `missive-core/src/routing.rs`, `capabilities.rs`, `route.rs` | round-robin cursor of the caller | summarise, validate, select, order | registry, cards |
| agent registry | `missive-cli/src/agent.rs` | agents, auth refs, cached cards | add, remove, rename, inspect, refresh, capabilities, sync of the configuration | everything remote |
| push configs | `missive-cli/src/push.rs` | local mirror of remote configs | create, get, list, delete | agents, webhook |
| file-drop, stdio, external chat adapters | `missive-adapters/src/*`, `missive-cli/src/adapter.rs` | inbox, processed, error and outbox directories; adapter registry | claim by rename, run, archive, publish; read and answer frames; register, start, stop | commands, gateway |
| A2A client | `missive-a2a/src/*` | stream reader | parse cards, negotiate, call, read server-sent events | agents |
| core and configuration | `missive-core/src/*` | none | discovery, validation, profiles, redaction, ids, timestamps | everything |
| observability, output, operator tools | `missive-cli/src/{doctor,completion,...}.rs`, `missive-observability` | none | inspect, print | store, configuration |

What is hard in it, and where:

* **Two gateways at work.** `run_gateway_daemon` drops the gateway lock before it
  joins the managers (`daemon.rs:880`). A restarted gateway scans while an attempt
  of the old one is still waiting for a remote answer. Jobs are protected from that
  only by a 60 s lock column, subscriptions by nothing.
* **Reads that are old when they are used.** Attempts read rows, cards and remote
  answers without the state lock and write under it later (`jobs.rs:757`, `1187`,
  `1710`, `subscription.rs:488`).
* **Several commits per operation.** A claim and its event, a finished row and its
  event, a cleanup event and its delete are separate commits, so a crash separates
  them (`jobs.rs:309`, `subscription.rs:597`).
* **Errors that end a manager.** A failed finish (`jobs.rs:197`) or one unusable
  card (`subscription.rs:219`) ends the manager task, which is looked at only at
  shutdown.
* **One step of several failing.** A collective talks to many agents: one that does
  not answer, one whose answer the store refuses (`bcast.rs:694`), or a deadline that
  passes between two members (`barrier.rs:700`) must not falsify what is said of the
  others.
* **Budgets and boundaries.** Retry counts, whole-second timestamps, the batch
  executed one after the other under a lock taken at the scan, the fixed windows of
  the rate limiter (`daemon.rs:699`), a queue at its depth (`busy.rs:438`), the idle
  and daily boundary of a session (`session.rs:129`), the size limit of a stream event.
* **Foreign keys that delete or refuse.** Removing or renaming an agent takes its
  memberships and push configs along, clears its contexts and is refused by its tasks.
* **Shared directories without a lock.** Two file-drop processes, or one that dies
  between claiming, archiving and publishing.
* **One database behind two locks.** Profiles that name the same database, and builds
  with different migrations.
* **Unreliable agents.** An answer that is lost after the request was handled, an id used
  twice, a card that changes under its cache, a stream that breaks in the middle of an
  event or is refused in a form the client does not look at.
* **Clients that take their time.** A body may arrive slowly or never; the servers wait
  for it without a limit, also during a shutdown.

Properties that make each component correct:

* jobs: one owner within the lock; the retry budget; a cancelled row stays cancelled; an
  outcome is final; the journal follows the row; a job ends.
* subscriptions: no invented outcome; a row is kept while its task is in flight and
  removed only with a journal entry; a finished task is noticed.
* servers: one at a time; what a handler answered is in the journal, counted and handed
  over; the intake keeps to its limits; a shutdown ends if no client stalls forever.
* sessions and busy input: no input is lost, repeated or reordered; a session is reset
  at its idle and daily boundary, not before.
* registry: rows stay sound whatever a deletion takes along; a cached card is of the URL
  its row has; every constraint of the schema is foreseen by a check.
* task commands: a row shows a state its task was in and moves forward with it; a
  command that says it is done is right about the task.
* collectives: what the summary says of a member is what the store and the agent say; a
  barrier's decision is true of the tasks at their agents, or of the rows commands
  guessed where `--state` asks for a guess; gathered answers are the members' own; files
  are never overwritten; bcast and barrier end.
* adapters: a request is run at most once and its input and answer are kept; all
  adapters agree, but for the schema marker, on what a valid frame is; every frame read
  is answered.
* client: the interface negotiated is offered, callable and the preferred one; a call is
  reported as what the agent did with it; the events delivered are those sent.
* state files: the schema is what its ledger says and what its users understand; every
  open ends.
* configuration and router: what loads is the one asked for and has what its readers
  rely on; what lies below a secret key is never shown; a plan agrees with a reference
  definition of its policy.

## 2. Modules

| module | role |
|---|---|
| `GatewayJobs` | background jobs, gateway life cycle, CLI, registry, clock |
| `GatewayJobsProofs` | its types; ownership, retry budget, journal order, finality |
| `TaskSubscriptions` | subscription manager, remote tasks, streams, other writers of `tasks` |
| `TaskSubscriptionsProofs` | types, mirror invariant, removal, finality of cleaned tasks |
| `Bcast`, `BcastProofs` | `missive bcast`: members, threads, store, deadline; its summary is true |
| `Barrier`, `BarrierProofs` | `missive barrier`: rounds of polls, quorum, lock, gateway; what it decides is true at the agents |
| `Store` | the tables and foreign keys of the profile database, as operators |
| `Registry` | `agent`, `group`, `context`, `push` commands on `Store` |
| `MirroredTask` | abstract specification of the local row of a remote task |
| `TaskCommands` | `send`, `stream`, `task ...`, artifact rows, gateway polls; implements `MirroredTask` |
| `Collect` | `gather`, `reduce`, artifact export |
| `CommandsProofs` | `TaskCommands` (store and agent, what commands report, the refinement of `MirroredTask`), `Registry` and `Collect` |
| `Servers` | gateway daemon with HTTP adapter and event bus, webhook receiver |
| `ServersProofs` | answers are kept, the intake is bounded |
| `Ids` | rules for identifiers and short texts |
| `FileDrop`, `StdioLoop`, `AdapterFrames` | the adapters: directories, the stdio loop, frames and the adapter registry |
| `AdapterPorts` | `StdioLoop` and `AdapterFrames` together: what a producer may expect of any adapter |
| `A2aClient` | Agent Cards, negotiation, calls over both bindings, server-sent events |
| `AdaptersProofs` | requests are run once and kept, the adapters agree, the client is faithful |
| `GatewaySessions` | busy input, sessions and their resets |
| `Config`, `Routing` | discovery, validation, profiles, redaction; route plans |
| `StateFiles` | state paths, process locks, migrations, doctor |
| `PoliciesProofs` | no input is lost, sessions reset in time, the schema is understood, plans are sound, a configuration is usable |
| `MCGatewayJobs`, `MCTaskSubscriptions`, `MCBcast`, `MCBarrier` | instances of one module each |
| `MCCommands` | `Registry`, `TaskCommands`, `Collect` together |
| `MCServers` | `Servers` |
| `MCAdapters` | `FileDrop`, `AdapterPorts`, `A2aClient` together |
| `MCPolicies` | `GatewaySessions`, `Routing` (with `Config`), `StateFiles` together |

The last four MC modules hold *families* of behaviours: a variable `family`, chosen in
the first state, says which component moves and which corner of its input space is
explored. A family restricts inputs, never what an action does with them.

### GatewayJobs

| variable | code |
|---|---|
| `row[j]` | the `gateway_jobs` row: state, `retry_count`, `next_run_at`, `locked_until`, `completed_at`, `task_id` |
| `event[j]`, `recorded` | last lifecycle event of a job in `events`; jobs whose remote answer is there |
| `registered`, `pinned` | rows of `agents` / `groups`; agents a `tasks` row refers to (ON DELETE RESTRICT) |
| `proc`, `mgr`, `batch`, `result` | daemon process, position of its job manager loop, claimed candidates, outcome of the attempt |
| `phase` | sub-second part of the clock, which `timestamp_after` drops |
| `starts`, `lost`, `overran`, `refused` | history for the properties; no guard reads them |

One critical section under the state-mutation lock is one action. `CrashInScan`,
`CrashInFinish` and the `logged` parameter of the CLI commands are the same critical
sections cut off between two commits. The manager is the loop of
`run_background_job_manager`: `NextScan`, `ScanBackgroundJobs` (the first
`job_concurrency` due rows in id order are locked at once), then for each candidate
`NextCandidate`, `StartAttempt`, the remote part by kind, `FinishJobAttempt`. The
shutdown signal is looked at only at the head of the loop and between two candidates
(`StopManager`). `ManagerDies` is the `?` on `finish_job_attempt`: the foreign key of
a removed agent or group makes the final upsert fail.

A stored timestamp is the number of ticks until it is due, which is all `<= now`
asks; `TimestampAfter` keeps the rounding to whole seconds with a minimum of one.

### TaskSubscriptions

| variable | code |
|---|---|
| `remote[t]`, `moves[t]` | the task at the agent (environment) and how often it changed |
| `task[t]` | the `tasks` row, in the three classes `is_monitorable_task_state` and `is_terminal_task_state` tell apart |
| `sub[t]`, `event[t]` | the `task_subscription` row and its last lifecycle event |
| `card[a]` | the cached Agent Card: streaming, plain, or without a usable interface |
| `cli`, `open`, `feed`, `followUps` | the task a foreground `stream --task` holds the lock for, whether the agent took it, its events on their way, how many there were |
| `polled[g]` | answers (GetTask, send) and stream events a job holds and has not written yet |
| `wire[g]`, `seen[g]` | stream events sent and not yet persisted; `terminal_seen` |
| `proc`, `mgr`, `batch` | as in `GatewayJobs` |

`Scan` and `ScanFails` are `scan_task_subscriptions_blocking` with
`cleanup_stale_or_terminal_jobs` first; a card that cannot be negotiated stops the
loop where it stands, with the earlier claims already committed. `PersistEvent`
depends on the foreign key `events.gateway_job_id`: once the row is gone, an event of
a stream that is still open is refused. `Connect`, `StreamEnds` and the `Finish*`
actions are one attempt. The other writers of `tasks` are `RefreshTask` (a CLI
command, which holds the state lock around the remote call), `FirstGuess` (a command that
names a task nobody knows yet), `FollowUp` with its events (`stream --task`, which sets
even a finished row back to submitted before the agent is asked, `stream.rs:354`), and
`JobReadsTask` / `JobPersistsTask` (a wait, send or stream job of a gateway, which reads
without the lock; a stream job may have several events to write).

### Bcast

| variable | code |
|---|---|
| `args` | `BcastExecution`, `BcastFailurePolicy`, whether `--timeout` is given |
| `stage[m]`, `outcome[m]` | where the loop or thread of a member stands; what `send_message` returned |
| `result[m]`, `event[m]` | `BcastMemberView.status`; the `missive.bcast.member.*` event |
| `stored`, `messages` | members whose exchange `persist_send` committed; response ids in `messages` |
| `expired`, `status`, `pc` | the deadline; the status of the summary; the command |
| `delivered` | history: members whose agent got the message |

Sequential and concurrent execution are one state machine: they differ in who may be
planned next (`Planning`), when sends start (`Sending`) and in whether a failure stops
the loop (`StopsHere`). Results are joined in rank order (`Joining`). A response is its
message id, the primary key of its row, so a repeated id is refused by the store
(`PersistRefused`), which ends the command.

### Barrier

| variable | code |
|---|---|
| `args` | `BarrierArgs`: `--local`, `--failure-policy`, `--required`, `--state` |
| `referenced`, `row[m]`, `remote[m]` | task ids of `--from-bcast`; the `tasks` row; the task at its agent |
| `pc`, `cur`, `answer` | the loop over rounds and members, the GetTask answer in hand |
| `status[m]`, `decision`, `expired` | `MemberBarrierStatus`, `BarrierDecision`, `--timeout` elapsed |
| `news` | an answer a gateway has read without the lock and not yet written |
| `reached`, `guessed` | history: members whose task has been in a satisfying state at its agent; members whose row a command set to a satisfying guess |

`refresh_remote_member` is `RefreshFromStore` (the row decides), or `AskAgent`,
`AgentAnswers` and `PersistBarrierRemoteTask`, or `PollFails`. The task may move
between any two of them. `Evaluation` is `evaluate_barrier`, in its order of tests.
The gateway can write only before the barrier has taken the lock, and so can the commands
that guess: `GuessTask` is the placeholder of a send, push or job (`submitted`, `unknown`)
and the reset of `stream --task`. A row in a satisfying state is taken without asking the
agent (`barrier.rs:664`), so with `--state submitted` or `unknown` a guess may stand for a
member; `QuorumIsReal` counts it only then.

### Store and Registry

| variable | code |
|---|---|
| `db` | the profile database: `auth_refs`, `agents`, `contexts`, `tasks`, `groups` with members and ranks, `push_configs`; one record, changed by `Store`'s upserts and deletes |
| `config`, `secrets` | auth refs and agents of the loaded configuration; auth refs whose secret is at hand |
| `served`, `remotePush` | the card each URL serves; the push configs the agents hold (environment) |
| `jobRow` | the agent row a gateway job read without the lock, with the card it fetched, not yet written |
| `cut` | history: removals that a kill, a lost answer or an unreadable one kept from the database |
| `exit` | how the last command ended |

A command holds the state lock from opening the store to its end, so it is one step; the
sync of the configuration that opens it (`OpenAgentRegistry`) is part of the step. Its
commits are separate, which the `killed` outcomes show; a push command may also end with
the error of a call the agent has acted on (`CutShort`). The one writer that does not
hold the lock from its read to its write is the background job that finds an agent
without a card: `JobFetchesCard` and `JobCachesCard` (`jobs.rs:1234`) write the whole
row as it was read. `GroupCapabilities` has both modes, with `--refresh` all cards are
fetched again. `Store` says what a foreign key does: CASCADE for memberships and push
configs, SET NULL for contexts, RESTRICT for tasks.

### MirroredTask and TaskCommands

| variable | code |
|---|---|
| `remote[t]`, `chunks[t]` | the states the agent's task has been in; the parts of its artifact |
| `rows[t]`, `parts[t]`, `told[t]`, `ids` | the `tasks` row, the `artifacts` row, the state in the last journalled event, the message ids stored |
| `polled[t]` | the answer or stream event a gateway holds and has not written |
| `command`, `wire`, `outcome` | the command that holds the lock, the stream events on their way, how it ended |

`TaskCommands` implements `MirroredTask` under the mapping `history <- remote`, `held <-
polled`, `at <- rows[t].seen`, `view <- rows[t].state`: a row shows a state the task was
in and moves forward. What the code does besides is in the abstract specification by
name: a first guess ("submitted", "unknown"), a follow-up stream that starts over from
"submitted" (`stream.rs:344`), and a gateway's old answer written after a newer one.
`GatewayPersists` has three forms: the answer of a job replaces the row, a status event
of a stream job or subscription is merged into it, and a task event of a subscription is
merged with its JSON; merging keeps `completed_at`, so a row may show an old state of a
task whose end it already knows. Message ids are the agent's: besides the ones the model
names by task and position, `IdCollides` is an answer that uses an id stored for another
message, on first contact too, and is rolled back.

### Collect

`answers` (task rows of the context, in the order of `updated_at`), `files` (the output
directory), `journal`, `stage` (position in the running gather, reduce or export),
`report`. The aggregation strategies are operators; `VoteIsPlurality` compares the vote
with a reference definition. A file name is its stem and the suffixes that made it unique.
The reducer may be any agent, a member too, and its reply is a row like the others.
`ReduceUnsaved` is a `--metadata` value that does not parse, which the code looks at only
when it stores the output (`reduce.rs:1200`).

### Servers

| variable | code |
|---|---|
| `role`, `lock`, `phase`, `reason` | gateway or webhook receiver, the gateway lock, the position of `run_gateway_daemon` / `run_webhook_receiver`, why it stops |
| `managers`, `senders`, `bus`, `comp` | the two manager tasks, who can still send on the bus, the bus, the component states shown |
| `req`, `counted`, `journal` | requests with the position of their handler, accepted and rejected counters, the `events` table |
| `window`, `grants`, `now` | the rate limiter, when it let a request through, the clock |

A request begins (`Begin`) while the listener is open, which it is until the signal of a
shutdown has been seen (`StopListening`); its handler runs once the whole body is there
(`Arrive`), and the body limit may answer 413 before that, with no journal and no counter
(`TooLarge`). A handler runs to its journal write, which a blocking thread makes; a client
that goes away ends the handler and not the thread (`orphan`). A callback is counted and
the counter read in two steps, between which other handlers may count.

### FileDrop, StdioLoop, AdapterFrames, AdapterPorts

`FileDrop` has the directories as maps from names to requests (`inbox`, `hidden`,
`archive`, `outbox`, `temps`), the processes (`dropper`) and history (`executed`,
`crowded`, `starts`). Each file operation is a step: claim, read, choose a free name,
rename, write, publish; a process may fail or die before any of them. A batch is the set
of names still to be handled, in filename order (`IsBatch`, `IsFirst`). File names are
numbers, and none of them is another one with a suffix. `StdioLoop` reads `stdin` line
by line and answers on `stdout`, which is taken to be writable; a line that is no UTF-8
ends a long run. `AdapterFrames` has the validation and mapping of frames for the three
adapters as operators over the text rules of `Ids`, and the registry (`factories`,
`features`, `definition`, `life`, `sink`, `received`). A frame carries its schema marker
or none, and each adapter accepts only its own. `AdapterPorts` has the loop and the
registry side by side and states what all adapters have in common.

### A2aClient

| variable | code |
|---|---|
| `stage` | card, negotiate, call, sent, handled, stream, end |
| `interfaces`, `options`, `interface` | `supportedInterfaces` of the parsed card, `InterfaceNegotiationOptions`, `NegotiatedInterface` |
| `call`, `heard`, `reply` | the call, what the agent made of it, the HTTP response |
| `lines`, `reader`, `delivered` | the lines of the stream, `event_type` with `data_lines` and `current_data_bytes`, the events given to the callback |
| `outcome` | what the client returned |

A delete may be acknowledged with null or no body at all (`Acknowledgements`), and a
stream refused by a status, by an error in an event, or by a JSON-RPC error body with
status 200 (`Refusals`), which `LineOf` makes a stream of lines that are no fields.

### GatewaySessions, Config, Routing, StateFiles

`GatewaySessions`: `policy`, `active`, `queue`, `arrived`, `started`, `steered`,
`refused`, `actions` are the busy-input evaluator and the worker it directs (the worker
is not in the repository and is modelled from what an outcome asks of it); `now`,
`sessions`, `touched` are `gateway_sessions` and their real last use. `Config` and
`Routing` are operators with one step each (`LoadConfig`, `ShowConfig`, `ExplainRoute`,
and the cursor of round robin). `StateFiles` has the processes' steps of opening a store
(`opener`), the lock file of each profile (`holder`), each database (`db`: ledger,
tables, version) and doctor's two unlocked reads (`doctor`). A process may let go of its
lock once the store is open (`ReleaseLock`, `events.rs:371`), and the gateway and an
attached `job start` open the store again without it (`OpenUnlocked`, `jobs.rs:1223`,
`missive-cli/src/job.rs:904`). `ExplainRoute` looks at the cards in the rows; what
`--refresh-capabilities` does before is the refresh `Registry` models for groups.

## 3. Runs

| run | instance | what it shows |
|---|---|---|
| `jobs_overlap` | 1 send job at 2 gateways with 2 stops, or a stream or reduce job at one with 1 stop; 2 attempts, half-second ticks | ownership, retry budget, journal order, finality and types while a stopping gateway and its successor overlap; partial streams, a group that disappears |
| `jobs_restart` | a send and a wait job of one agent, batch of 2, 1 stop, with fairness | a batch whose later candidate waits, with the agent removed at any time: outcomes reported as cancelled are real, succeeded sends are recorded, every job reaches a terminal state unless the manager died |
| `jobs_cancel_doc` | 1 send job | violation, finding 1 |
| `subs_overlap` | 1 task at 2 gateways with 2 remote changes and 2 stops, or 1 task at one with a stream job and a foreground follow-up, or 2 tasks of 2 agents at one; an agent that refuses finished tasks | no invented outcome, no finished task taken back but by a follow-up or what a job had read, no subscription dropped in flight or silently; a card that stops the scan half way, a crash at any of its statements |
| `subs_progress` | 1 task, 3 remote changes, 1 follow-up, 1 stop, with fairness | a finished task is noticed and its row goes away |
| `bcast` | 3 members, 3 response ids, all options, with fairness | the summary agrees with journal, store and agents; the stop policy stops; a broadcast ends |
| `barrier` | 2 members, `--state` omitted or `working`, `submitted` and `cancelled`, rows that commands guessed, all options, with fairness | quorum and giving up are true of the agents' tasks, a guess counts only where it was asked for; finished rows stay; a barrier ends |
| `barrier_cancel_doc` | 1 member, `--state completed` | violation, finding 2 |
| `commands` | families `card`, `job`, `group`, `context`, `push` (2 aliases, 2 URLs, 2 card versions, 3 configurations), `tasks` (2 tasks, 3 states, 2 chunks), `texts`, `files` (3 members, 3 rows) | the registry stays sound and its cards current, storage errors are foreseen, rows mirror tasks, commands report truly, gather and reduce take the members' own answers |
| `servers` | families `alone` (1 server, 2 requests), `pair` (2 servers of either kind), `clock` (3 requests, limit 1, window of 2 ticks, 4 ticks), with fairness | answers are journalled, counted and shown; the limiter lets through at most twice its limit in a window's length and turns nobody away early; `--max-events` is signalled whoever counts last; a shutdown closes the listener and, if no client stalls forever, completes |
| `adapters` | families `serial`, `parallel`, `limited` (3 request files, 2 processes, 2 starts), `stdio` (up to 3 lines), `frames` (every field at its edges), `registry` (2 adapters), `discover` (cards of up to 2 interfaces), `call` (every call, streams of up to 5 lines, event limit 2), with fairness | requests are run once and kept; the adapters agree; the client is faithful; a watching run claims what is ready |
| `policies` | families `busy` (4 inputs, depth 1 and 2, all modes), `session` (2 sessions, instants -4..5), `discovery`, `config`, `render` (configurations out of the ordinary in one or two places), `route` (3 candidates), `state` (2 processes, 3 builds, 2 profiles, 3 starts), with fairness | busy inputs are kept, sessions reset in time, a loaded configuration is usable, plans are sound, the schema is understood, every open ends |

Most properties of the last four runs are conjunctions of parts, each stated and
commented in the module it is about: `StoreFollowsAgent`, `CommandsReportTruly`,
`RegistryIsSound`, `CardsAreCurrent`, `CollectIsSound`, `AnswersAreKept`,
`IntakeIsBounded`, `RequestsAreKept`, `AdaptersAgree`, `ClientIsFaithful`,
`BusyInputsKept`, `ResetsInTime`, `ConfigIsUsable`, `PlansAreSound`,
`SchemaIsUnderstood`, and `SummaryIsTrue` of `bcast`. The type invariant of a module is
one of the parts.

Why the bounds are enough. Every hazard of the gateway needs at most two gateways (one
joining, one up), two jobs or tasks (one in progress, one waiting behind it, or one
blocking the other), one retry beyond the first attempt, and a lock that can expire
within the run. `MaxStops` bounds crashes and shutdowns; two let a gateway stop, its
successor start, and either of them die. A lock of two seconds in half-second ticks
has the rounding case (a lock almost a second short). Nothing bounds the clock, the
number of scans or the number of retries of a job except the code itself. The proofs
remove the bounds on jobs, gateways, tasks and stops for the safety properties. Three
members of a broadcast have one before, at and after a failure, and three response ids
let all answers differ or collide; two members of a barrier have every relation of
quorum, members out and members pending, and the proofs cover every group size.
`Reported` limits the states agents report; a task is `working` before. One follow-up
stream is enough to take a finished task back and to write an old event after a new one.

For the commands: two aliases are what a rename needs and two URLs what a moved agent
needs; two groups and two ranks make collisions possible; three states of a task
(working, waiting for input, ended) give an answer that is old, current and final. A
gateway holds answers of tasks with one move and one part behind them (`Short`), which
is what an old answer needs. Three requests are one more than the limiter, at limit 1,
may let through around the edge of a window. Three request files under two names give
one that is being handled, one that takes its name meanwhile and one behind it;
`UNIQUE_ATTEMPTS = 1` makes "too many collisions" reachable. Five lines of a stream hold
two events, or one that exceeds the size limit and what follows it. An hour of one
second and a day of two hours keep the arithmetic of daily resets with instants before
and after zero; `MAX_SECONDS` and `MAX_CURSOR` stand for `i64::MAX` and `u64::MAX`, so
that both are reached. Two processes, two profiles and three builds (an older one and
two that differ in a migration) have every pair of ledgers that can meet; one of the
processes lets go of its lock early.

`CHECK_DEADLOCK FALSE` in the runs whose commands and processes come to an end.
`jobs_overlap` and `subs_overlap` keep two instances apart with an `ACTION_CONSTRAINT`.
Symmetry is not used: job and task ids are ordered, and the state spaces are small
without it.

Mutants. `PROJECT.json` lists for every property a seeded fault of a mapped
definition (kept next to the definition, marked "Seeded fault") that violates it
under the same configuration.

### Fairness

`GatewayJobs`: weak fairness of the clock, of starting a gateway (`missive gateway
install` writes a supervised service), of dropping the lock and exiting during a
shutdown, and of the manager's steps. An attempt comes back because every remote call
has a request timeout and `wait` has a deadline. Crashes and shutdowns are never
required.

`TaskSubscriptions`: the same, and weak fairness of a backoff running out, of a job
writing or dropping what it read, and of the end of a foreground stream, which the
request timeout brings; `MaxFollowUps` says that somebody streams finitely many.
`GatewayExit` is strongly fair, because the wait for the job manager is bounded while
the model lets it read again. Strong fairness of `Connect` and `PersistEvent` is an
assumption about the *agent*: one that is asked again and again answers at some time.
`FinishedTaskIsNoticed` is checked with `ReplaysTerminal = TRUE`. With an agent that
refuses to stream a finished task it does not hold: the manager never asks with GetTask,
so the row stays in flight until a CLI command or a job refreshes it.

`Bcast`, `Barrier`: weak fairness of the command's own steps, which include the
failure of a remote call because every call has a timeout, and in `Barrier` of the
deadline passing (there is always one, 30 s by default). Agents need not answer.

`Servers` (`ServersFairness`): weak fairness of each request's handler and of the steps
of a shutdown, which the async runtime schedules; no client is required to send or to
stay. The servers read a body without a timeout, so `ShutdownCompletes` has two parts:
the listener closes whatever clients do, and the rest of the shutdown ends provided that
no client stalls in its body forever (`ClientsFinish`, stated in the property and not
assumed by the specification). `FileDrop` (`DropFairness`): weak fairness of each
process's own steps; `WatchedIsClaimed` lets the process end or fail. `StateFiles`
(`StateFairness`): weak fairness of each process's own steps; the operating system
releases a dead process's lock.

## 4. Proofs

All theorems hold for every set of jobs, gateways, targets, tasks, agents, processes,
requests and files and for every bound. They use only the named assumptions of the
modules: `JobsAssumption`, `TimeAssumption`, `BoundsAssumption`, `TasksAssumption`; for
`Barrier` `NAssumption`, `TargetsAssumption` and `ReportedAssumption`; for `Bcast`
`MembersAssumption` (ranks are numbers, and finitely many) and `MessageIdsAssumption`;
for `TaskCommands` `CommandBounds` and `NoneIsNoRow`; for `Registry` `NullAssumption`
and `ConfigsAssumption` (an agent of the configuration has a URL and, if any, an auth
ref of it); for `Collect` `CollectAssumption` (texts are ordered, names are sequences);
for `Servers` `ServerBounds` (the limits are the ones the arguments accept, the requests
of a run finitely many) and `ServerNames`; for `FileDrop` `DropConstants`; for the other
adapters `StdioConstants` and `FramesAssumption`; for `A2aClient` `ClientConstants`; for
`GatewaySessions` `SessionConstants` (units of time are positive, and the seconds of a
clock reading fit an i64, as `unix_timestamp` returns them); for `StateFiles`
`StateConstants`; for `Routing` and `Config` `RoutingConstants`, `ArgumentsAssumption`
and `ConfigAssumption` (the inputs are of the shapes the parsers give). The assumptions
on names only say that markers like `None`, `NoOne` and `NoDrop` are not the things they
stand in for.

`GatewayJobsProofs`. `TypeInv` strengthens `TypeOK` with `ManagerShape`: an attempt
that is about to finish has a result, and one at its remote call has a provisional
one. Without it `FinishedRow` is not defined on every result the types allow.

No step of `Next` treats two jobs differently except through the
batch, so the steps are first classified once, per job (`StepCases`): a step leaves a
job untouched, enqueues, cancels, ages, drops, claims or finishes it. The invariant
`SafetyInv` adds `IdleHoldsNothing` (a process that is down or whose manager is over
holds no candidate) and, proved over these seven cases:

* `OwnedOnce`: a job that never overran is in at most one batch, and its row is
  running under a live lock or cancelled;
* `Paid`: the claims of a job are at most its `retry_count`, plus the claims lost,
  plus one for the attempt in flight or the one that settled it, which bounds them by
  `MaxAttempts + lost`;
* `JournalBehind`: a terminal event agrees with the row.

`OwnedOnce` is what makes the other two inductive: a finish by a gateway that is no
longer the owner would break them. The action properties `CancelIsFinal` and
`TerminalIsFinal` follow from the same classification. `OutcomeInv` (what an attempt
carries between its steps is still true) gives `SucceededSendIsRecorded` and
`CancelledOutcomeIsReal`.

`TaskSubscriptionsProofs`. `OutcomeIsReal` is not inductive: a terminal state may be
on its way to the store. `MirrorInv` adds that everything on its way is real: a
terminal answer or event a job holds (`PollSound`), a terminal event on a stream
(`StreamSound`) or on that of a foreground command (`CliSound`), `terminal_seen`
(`SeenSound`). `KeptWhileInFlight` follows from `MirrorInv`,
`CleanedStaysFinished` and `RemovalIsJournalled` from the types and the foreign key.

`BarrierProofs`. A decision is about statuses latched in earlier rounds from rows and
answers that were old when they were read. `ReachedInv` says that a satisfying state
kept anywhere (row, answer, gateway, status) has been reached, or guessed where it is in
a row or a status; `FinalInv` that a terminal state kept anywhere is still the task's
state, so a member that is out without a failed poll is out for good; `ShapeInv` that a
member is asked only while its row is open and that nothing is decided before the end.
`QuorumIsReal` and `GivesUpOnlyWhenImpossible` follow from these with the cardinality of
subsets, `FinishedRowsStay` from `ShapeInv`.

`BcastProofs`. `BcastInv` follows each member through its stages (`MemberInv`: nothing
is said before it is judged, nothing journalled before it is done, and "succeeded" means
stored from then on), the command (`ProgressInv`) and, in a sequential run, the order of
the members (`OrderInv`: a member is touched when all before it are done, and under
`stop` have succeeded). The summary is made in one step from what these say.

`CommandsProofs`, task commands. What a stream does to a row depends on every event
before it. `StreamInv` says that the events on the wire lead from what is stored to what
the agent has, one change at a time; `TaskInv` that a row showing a position of the
task's history shows its state, that what a gateway polled is a position of it, and that
a row with a completion time belongs to a task that is over, whatever old event was
merged into it since. From `StoreInv` follow `StoreFollowsAgent`, the action properties
of `CommandsReportTruly` and, action by action, the refinement `RowsMirrorTasks`: what a
command writes is a `CatchesUp`, `Guesses` or `StartsOver` of the abstract row, what a
gateway writes a `GatewayWrites`.

`CommandsProofs`, registry. The foreign keys hold because of what a delete does
elsewhere, so `TablesOk` takes the tables together: their types, a card that is of its
row's URL and agrees with the etag (`CardsOk`), names taken once (`NamesOk`), and keys
that lead to rows (`KeysOk`). The operators of `Store`, deletes with all they reach
included, are shown to be `SoundStep`s: they keep `TablesOk`, the rows of read-only
agents and closed contexts, and make no push config live; the one that does is treated
with its call. `RegistryInv` adds that a live push is held by an agent or was cut off,
which the commands keep because the agent is asked before the row is written and told
before it is marked, and that the row a job is about to write back has a card of its own
URL and no older validator. `RegistryEffect` says once what a step may do, and the
properties are read off it.

`CommandsProofs`, collect. `CollectInv` says that what is reported comes from the rows as
they were when the operation began, and that a reduce between its events has its inputs
and its first event, with the answers as they were until it has its output (`StageOk`).
Names are distinct because `UniqueName` finds a name that is not used: of one suffix more
than there are names one is free (`SuffixFree`, by counting). Plans and bases are defined
from each position's predecessor; `StepsExist` and `StepsStay` show once that such a
function exists and stays in a set that its step keeps. The winner of a vote exists
because tallies are bounded by the group and texts are ordered (`WinnerExists`).

`ServersProofs`. A stop shows everything only because of what is still on the bus when
it begins, so `DaemonInv` says how far the shutdown has come and that the last word of
every component that ended is on the bus or shown (`LastWord`); `RequestInv` that a
request is read and handled only while its server serves or waits for its requests, that
what is past its write is journalled, and that what the adapter accepted is shown or on
the bus. `BurstBound` is not inductive either: `LimitInv` bounds the window that runs by
its budget, any minute that ends where the window starts by the budget, and so any
minute by twice the budget; when a new window opens the old one is the whole of the
minute before it. `DeniedOnlyWhenSpent` follows step by step. `EnoughIsSignalled` is an
invariant of its own: a counter at `--max-events` was put there by a handler that has
not looked at it yet, or that asked for the shutdown.

`AdaptersProofs`, file-drop. A claim takes a request out of the inbox for good (`Gone`),
and a request that is still there has left no trace (`Untouched`), so that its command
has not run. `HandInv` is what a process has in hand between the steps of one file: the
claim is hidden until it is archived, the command ran exactly if `ok` says so, and,
while no name is crowded, the suffixes found by `unique_path` are still free when the
renames take them, which `ApartInv` (no two processes have one request, or one name, in
hand) keeps true. `CountInv` keeps what a run counted answered, and its batch within
`--max-files`. The steps that only move a process (`Quiet`) are treated once.

`AdaptersProofs`, ports. `StdioInv` says that the answers on stdout belong to the lines
read so far, in their order (`InOrder`), that every line has one (`AnswersLine`), and
that the answers to one line are numbered and end at the first that failed (`Numbered`).
`AdapterInv` is about the registry: what was received came from the sink of the adapter
that runs. That verdicts do not depend on the transport is a comparison of the
validations of the three frame types, field by field, of frames that differ in their
marker.

`AdaptersProofs`, client. `ClientInv` says stage by stage what is known (`Staged`). Of a
stream it says that the reader holds what the lines since the last blank one say
(`ReaderOf`) and that the events delivered are the records of the lines before
(`Records`), both defined by positions and not by what the reader does; each of its
steps extends them by one line. Of a stream that is a refusal it says that nothing of it
was read or only its error, which decides how it may end. Negotiation is about first
positions: the code's loops stop at the smallest position that fits.

`PoliciesProofs`, busy input and sessions. `BusyInv` adds to the properties that an
input which waits has not started, so that starting it moves one input from the queue to
the started; an arrival comes to one of four cases (`ArriveCases`) whatever the mode and
its fallback. `SessionInv` says that a stored row has the last use of its session cut to
seconds and a policy that was valid. What is left is arithmetic, for an hour, a day and
a second of any length: `BoundaryIsLast` (the code's boundary is the last instant at or
before now that is a reset hour, before 1970 too), `CutToSeconds` (cutting a time does
not move it past a whole second), and, for the idle timeout, that a saturated deadline
is never passed.

`PoliciesProofs`, state files. `StateInv` says what each opener knows at its step
(`OpenerOk`) and that every database is what its ledger says (`DatabaseOk`); a migration
is not atomic with the check before it, so it rests on what others may do meanwhile:
databases only grow (`Grows`), and a process inside holds the lock of its profile or,
having let go of it, finds every migration of its build applied, so that the holder
alone changes a database that is not shared. That the databases of two profiles are
different follows from the components of their paths.

`PoliciesProofs`, routing. `Sorted` places an element by counting what comes before it;
that this is a permutation in order, for any finite set and strict order, is shown by
counting. A card's labels are folded on the way in: `Reads` says that a set of labels is
plain and names what its source names, and goes through summaries and candidates, so that
`MatchesAreExact` can speak of the stored rows. `RouteInv` says that the plan is the
`Explanation` of the options and candidates there are and that the turns are `Fair`: those
between the first candidate and the cursor, around the circle, had one turn more.

`PoliciesProofs`, configuration. `ConfigInv` says where a configuration in use came from
(`Precedes`), that it is valid with the profile asked for (`Usable`), and what is shown
(`ShownOk`). `SourceFollowsPrecedence` is about the order of roots and names, so the
search of `find_xdg_config` is shown to find the first; `Serves` is written from what
the readers rely on, and every section that passed its validation is shown to have it.
That showing twice changes nothing needs more than the text: `Settles` says that what
was redacted so far, read again, leaves the reader in the same state.

Induction. The provers cannot use the induction theorems of the library. Where a function
is defined from its predecessor, the proofs take the smallest number at which a claim
fails (`Smallest`, `Upwards`), which needs only that numbers are well founded.

Proving also showed where the model leaned on the order in which TLC evaluates a `CASE`:
two of them (`Walk` of `Config`, `Verdict` of `Servers`) had guards that overlap, which
leaves the value open; they are now nested conditions in the order of the code.

Only model-checked: the liveness properties `JobSettles`, `FinishedTaskIsNoticed`,
`BcastEnds`, `BarrierEnds`, `ShutdownCompletes`, `WatchedIsClaimed` and `OpensEnd`
(liveness under fairness is outside the prover), and the violations. Every other property
of a run is the statement of a theorem. The runs combine several components; the theorems
are about each component's own specification, whose steps are those of its families.

## 5. Findings

1. `docs/gateway.md:248` says that `missive job cancel` always marks the local job
   cancelled. With `--remote`, an error of the remote half is returned before the row
   is written (`missive-cli/src/job.rs:496`). Run `jobs_cancel_doc`.
2. `docs/cli.md:864` says exit code 81 is for cancellation. With an explicit `--state`
   a cancelled task is `terminal_unmatched`, a failure, and the exit code is 80: the
   arms of `classify_record_state` that would tell it apart are unreachable
   (`barrier.rs:827`). Run `barrier_cancel_doc`.

More is visible in the models, without a run of its own. Where the text and the code
disagree:

* The help of `--max-attempts` (`missive-cli/src/job.rs:95`) says maximum number of
  attempts; one whose gateway stopped before it finished is not counted (`jobs.rs:364`).
* `docs/gateway.md:200` says the `subscriptions` component scans periodically. One cached
  card without a usable interface, which `agent capabilities --refresh` can store
  (`agent.rs:767`), ends the manager for good (`subscription.rs:219`, `125`).
* `docs/cli.md:821` says a concurrent broadcast reports all completed member outcomes; a
  response the store refuses (`bcast.rs:694`) ends the command before the other answers
  are stored or reported. `docs/cli.md:812` promises one result per group member; a
  sequential broadcast that stops has none for the later ones (`bcast.rs:557`).
* `docs/collectives.md:102` calls barrier exits deterministic, 82 for a timeout; a poll
  cut off by the deadline (`barrier.rs:700`) disqualifies its member, and the exit is 80.
* `docs/collectives.md:84` recommends `--local` with gateway-updated state; the command
  holds the lock the gateway needs to update it (`LocalWaitIsFrozen`).
* `docs/protocol.md:278` and `docs/cli.md:487` say JSON-RPC stream errors become protocol
  errors. An error body answered with HTTP 200 to a streaming request is read as a
  stream of unknown fields, because the content type is not looked at, and ends as a
  success without events (`missive-a2a/src/lib.rs:3506`, `3625`); it is the one such case
  (`SilentRefusal`).
* `docs/adapters.md:93` says invalid frames produce error frames and the loop continues; a
  `task_get` or `task_list` frame whose state or source does not parse ends the loop
  (`missive-cli/src/adapter.rs:926`, `717`), and so does a line that is not UTF-8 (`240`).
* `docs/adapters.md:180` says malformed inputs are archived in the error directory; a
  claimed file that is not UTF-8 ends the run and stays under its hidden name
  (`missive-cli/src/adapter.rs:441`).
* `docs/agent-registry.md:94` says to edit the configuration to remove a seeded agent; one
  dropped from it stays as a read-only row that no command removes (`agent.rs:899`).
* `daemon.rs:144` calls the request budget one per rolling minute; the windows are fixed,
  so twice the budget fits in a minute around an edge. `BurstBound` states what the code
  does: the budget from the start of a window, twice the budget otherwise.
* `docs/cli.md:742` orders capability matches by score first; the score never decides,
  since every match has all that was asked for. Only streaming and push requirements
  appear as `*:unknown`. `docs/groups.md:21` says a weight is a positive integer; any
  positive float is accepted.

What a reader of the code may not expect:

* Registry: a rename takes an agent's memberships and push configs away and clears its
  contexts; an agent with tasks can be neither removed nor renamed. Push config, task
  and artifact ids are keys of the whole database, whichever agent chose them.
* Task rows: a reply that uses a stored message id rolls the record of the send back,
  that of a first contact too (`send.rs:1060`); an old stream event a gateway merges
  into a finished row leaves a state that is not terminal with a completion time; a
  follow-up `stream --task` sets the row back to "submitted"; the gateway's refresh may
  write an older answer over a newer one and stores no artifacts; gateway jobs send no
  auth headers (`jobs.rs:1183`). A job that caches a card writes the whole agent row as
  it read it: a row that was removed meanwhile is back, and one that was edited has its
  old values (`jobs.rs:1247`); the next command pins configured agents again.
* Collectives: gather picks the most recently refreshed task, not the most recent one; a
  failed export leaves a started event without an outcome, and may stop half way; a
  reduce with a `--metadata` value that does not parse has its reducer run and then ends
  without an outcome event (`reduce.rs:1200`, `334`); a barrier with `--state submitted`
  or `unknown` takes a row no agent has confirmed (`barrier.rs:664`); a reducer that is
  a member has its own reply picked as the next input; `vote` needs text even where an
  agent reduces.
* Client: a push config deleted at the agent and acknowledged with a null result or an
  empty body is reported as a failure, and its mirror row stays live (`push.rs:512`); an
  event still open at the end of the body is delivered; JSON-RPC response ids are not
  compared.
* Servers: a manager's failure shows only at the shutdown, which then ends before the
  jobs are joined and without a stopped event; the lock is released before the stopped
  event, so the journal may read started, started, stopped; a client that goes away
  leaves a request journalled and not counted; the 413 of the body limit leaves no
  event, as `docs/gateway.md:101` says; a client that stalls in its body holds the
  shutdown, because no body is read with a timeout (`daemon.rs:864`, `webhook.rs:491`);
  callbacks may still begin after `--max-events` were accepted, until the signal is seen
  (`webhook.rs:704`); the summary shows the `adapters` component as running
  (`daemon.rs:898`).
* File-drop: a crash after the claim strands the file; two processes that work on one
  name may overwrite each other's archive or result (`crowded`); the loser of a claim
  ends.
* Adapters: a frame's resume name is only checked for blanks; the source ids
  `channel/user` of external chats may collide.
* Busy input and sessions: an interrupt at a full queue is refused; an input starts at
  once when nothing is active although others are queued; an operation being interrupted
  can still be steered; `upsert_gateway_session` has no caller in the program; stored
  times are cut to whole seconds (`timestamp.rs:56`).
* State and configuration: two profiles with one absolute `database_path` share a
  database behind two lock files, so migrations race, and an older build may set
  `user_version` back; only `qos.max_request_bytes` and `qos.connect_timeout` are read;
  durations are accepted that overflow doctor's parser; the round-robin cursor sticks at
  its maximum; `Bearer` followed by two spaces is not redacted below a plain key; a
  `database_path` with `..` or another user's home loads and is refused by every command
  that opens the store (`paths.rs:435`).

## 6. What is abstracted

* I/O errors of SQLite and the file system other than the death of the process, and
  other than the constraints, which are modelled, and the errors of the adapters'
  directories, which are.
* The content of messages, cards, results and events, beyond what a guard asks. A text
  is its length and the kind of its characters (`Ids`), a place in an order (`Collect`),
  or a few tokens (redaction).
* A wait job is taken to name the agent its task belongs to.
* Message and artifact events of a subscription, which leave the task's state alone; the
  lock columns of subscription rows, which are written and never read; the exact backoff
  of a subscription (`BackoffOver` only says that it passes).
* In `GatewayJobs`, an agent with tasks can be neither removed nor renamed, which is the
  foreign key of `Store`; a daemon that returns the subscription manager's error without
  joining the job manager is covered by `GatewayCrash` there and modelled in `Servers`.
* In `Barrier`, the events of the command and a member with several tasks in the
  context; in the collectives, a group that changes while they run (they hold the state
  lock).
* A task has one artifact row, and two message parts are told apart by their number.
* What an agent drops on its own, a push config or a task, without a command asking for
  it.
* An output that cannot be written (a closed stdout of an adapter or command).
* The size limit of a stream event counts data lines of one unit each. HTTP headers,
  paths and payload types are data; TLS and connection reuse belong to a library.
* Whether a request is authenticated or well formed is an input of `Servers`, and
  whether it is too large a step of its own before the handler; which frames are well
  formed is the subject of `AdapterFrames`.

### Not modelled

* *SQLite repository* (partly): listing queries, filters and row decoding are reads
  that choose what is printed.
* *Core types and configuration* (partly): envelopes, metadata maps and error types are
  data without a rule the properties tell apart. The TOML parser is a library.
* *Observability, output and operator tools* (partly): formatting, logging, shell
  completion, generated service files and read-only reports keep no state; doctor's
  inspection of the database and the redaction of what `config show` prints are modelled.
* *Test support*: the mock agent of the tests is not part of the program.

## 7. Plan

The state machines of the program are modelled and their safety properties proved. When
the code changes, start with its lines in the `map` of `PROJECT.json`, run TLC on the run
of the module, then the proofs of the lemmas about the actions that changed. What could
still be added: the refinement of an abstract job queue by `GatewayJobs`, and ranking
functions that bring the liveness properties to step properties a prover can check.
