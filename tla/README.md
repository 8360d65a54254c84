# Opzava: TLA+ specifications, model checks and proofs

Opzava is a pnpm monorepo (`apps/*`, `packages/*`, TypeScript over Postgres) in
which people and agents plan and run software work. This directory holds TLA+
models of the parts where several transactions, processes or clocks meet, TLC
configurations that check them on small instances, and TLAPS proofs of the
safety properties for every instance.

    tlc -config MCTodoQueue.cfg MCTodoQueue     # a model-checking run
    tlapm TodoProofs.tla                        # the proofs of a module

`PROJECT.json` lists the runs, pairs every definition that models code with the
lines it models, and pairs every property with a mutant: a definition named
`D_Something` beside `D` is `D` with a plausible mistake, which no specification
uses and which the named property must notice when it replaces `D`.

## 1. Inventory

### 1.1 Modelled components

**Dev Board command spine** (`packages/dev-board`, adapters `postgres-command-receipt-repository`,
`postgres-dev-board-ledger-append-store`; `packages/adapters/.../tenant-context.ts`).
State: a receipt per idempotency key, versioned rows, two numbered ledgers per
workspace (planning decisions, activity events). Every command runs in one
transaction (`withTenant`): reserve or replay the receipt, lock the row, test the
expected version, write, append to the ledgers under advisory locks, finalize the
receipt. Hard: lost replies and retries, two submissions of one key in flight,
reservations whose process died, `max + 1` numbering. Correct when a key has one
effect, which is not the same for all commands (a draft leaves a decision and no
event, an acceptance a decision and two events, adding an edge that is already there
nothing), everyone is told the same, ledgers have no holes, every call ends.

**Todo queue** (`dev-board-planning-commands.ts`, `postgres-dev-board-planning-store.ts`).
State: a rank per queued ticket in a `bigint` column, one version of the whole
queue. Operations: append on approval, remove, reorder before or after a
neighbour with renumbering when a gap closes. Hard: the halving of gaps, both
ends of the column, its capacity, stale listings. Correct when the ranks are a
faithful representation of the order users asked for.

**DevTicket planning** (same files, `change-risk-policy.ts`, `classification.ts`,
migration `0021`). State: ticket rows (lane, ready state, archive overlay, owner,
classification, policy minimum, contract head, approval), the active dependency
edges, queue membership. Operations: classify, approve into Todo, reorder, add and
remove a dependency, archive, restore. Hard: an approval binds facts other
commands change later. Correct when whatever is in Todo is approved, by somebody
with authority, for what it is now.

**Proposals** (same files, `domain/proposal.ts`). State: proposal rows, the tickets
created from them, activity events. Operations: draft, submit, accept, merge,
reject, archive, restore. Hard: decisions that race, a ticket inserted before the
guarded update, a merge target archived meanwhile.

**Dependency graph and locking** (same files). The DevTicket commands as
sequences of statements: row locks, the advisory lock of the workspace's graph,
the queue header. Hard: two adds that share no row, archive against add, lock
order, reads outside the graph lock.

**Durable worker scheduler** (`apps/workers/src/scheduler`, `scheduled-job-repository.ts`,
migration `0019`). State: the job table with dispatch leases, and the loop of each
worker. Operations: register, claim a batch, dispatch, acknowledge, fail, stop.
Hard: handlers that outlive their lease, answers lost after a commit, crashes with
a batch in hand, clocks that disagree.

**Doctor scan** (`apps/workers/src/health-doctor-scan/orchestrator.ts`,
`doctor-scan-repository.ts`, the doctor exec of `docker-gateway-runtime.ts`,
migration `0018`). State: one scan lease, the latest run, a detached scan per
process, the doctors that run in the container. Operations: claim (scheduled or
forced), Docker preparation, bounded exec, termination of the doctor, fenced
publication. The scheduler calls it every five minutes; the Health page
(`apps/web/lib/health/health-view-model.ts`) judges how fresh the latest run is. Hard:
the time limits of a scan add up to more than its lease, and the doctor is no child of
the worker. Correct when an overtaken worker publishes nothing, a success is of a
doctor that has stopped, and only failures leave doctors behind.

**Tasks, quality review and Done** (`packages/project-management/.../tasks.ts`,
`task-done-close.ts`, migrations `0006` and `0016`). State: task statuses, one
review per task, its checks, single-use Done confirmations with five minutes to
live. Operations: ensure a review, add and toggle checks, approve, issue a
confirmation, Done from the board (`markTaskDone`) and from the card (with the
intent to close the linked issue), move, clean up. Hard: every gate is a read
without a lock, followed by a write; only the first command on a task, which inserts
the review row, makes others wait. Correct when Done means approved, a
confirmation pays once, and the intent and Done commit together.

**Issue close outbox** (`issues.ts`). State: a row per linked issue with attempts,
claim token and next attempt. Operations: enqueue, claim a batch, close at GitHub,
save, reclaim after 15 minutes. Hard: overlapping runs, a run that dies between
the call to GitHub and the save, a late save. Correct when a settled row stays
settled and no run saves over another's claim.

**Gateway broker** (`apps/gateway-broker`: `connection-manager.ts`,
`operator-client.ts`). State: the client of each route, its idle timer and circuit,
its socket, connect attempt, pending requests, streams. Operations: begin a call,
handshake, retry within the budget, request, response, timeout, stream events,
close events, idle eviction. Hard: one event loop in which everything arrives late,
twice or never, and events name a run or none. Correct when every call returns, no
stream outlives its connection, an event that names a run ends no other turn, and
nothing is kept for ever.

**Assistant turns** (`apps/web/app/api/tasks/ask-admin/turn/route.ts` with the
commands of `packages/runtime-control`). State: a user and an assistant turn per
idempotency key, a receipt per tool call. Operations: the two inserts, the stream
with deltas, tool calls and a terminal event, failure. Hard: the same POST again
while the first one runs, a process that dies between a tool's effect and its
record. Correct when a tool runs at most once per turn and everybody was told what
is stored.

### 1.2 How the parts interact

    clients ──command──▶ CommandSpine ──one transaction──▶ ProposalLifecycle
                           (receipt, ledgers)              DevTicketPlanning / DependencyLocks
                                                           TodoQueue
    workers: ScheduledJobs ──handler──▶ DoctorScan ──▶ Docker ; latest run ──▶ Health page
    web:     TaskDone ──close intent──▶ IssueCloseOutbox ──▶ GitHub
             AssistantTurns ──stream──▶ GatewayConnections ──socket──▶ OpenClaw gateway
                            ──tool call──▶ commands of Project Management

A Dev Board command is one call of the spine whose middle part is the change
modelled in the planning modules. The planning modules therefore leave receipts
and ledgers out, and the spine leaves out what a command does to its row beyond
its version; it keeps which ledger rows each kind of command writes (`Effects`). `acceptProposal` creates the rows `DevTicketPlanning` starts from;
`mergeProposal` meets ticket archiving at the target row. The scheduler and the
scan share no table: they meet only through the handler, which acknowledges the
job while the scan goes on (`DoctorCadence`). `TaskDone` extends `IssueCloseOutbox`:
the enqueue is a statement of the Done transaction. `AssistantTurns` and
`GatewayConnections` meet in the HTTP stream of the broker only; a turn sees a stream
that is accepted or refused, and events that end or do not, which is what
`GatewayConnections` gives it.

In this commit no application imports `packages/dev-board` yet; it is checked as
the library it is. `claim`, `start`, `submitForReview` and `admitDone` of the Dev
Board reject every call (`rejectUntilGate`) and change nothing but their receipt.
The standalone `reserveOrReplay` is called by tests only; it is public and is
modelled, since a reservation taken over by a later command is the hardest case of
the receipt table.

### 1.3 Components that are not modelled

| component | state and operations | why not, or when |
|---|---|---|
| Legacy import and historical reconciliation (Dev Board) | aliases of legacy tasks, quarantine, terminal dispositions | planned: `LegacyImport` |
| Identity, sessions, link tokens (`packages/identity-access`) | link tokens, first-owner setup, authorization versions | planned; cryptography is out of reach |
| Provisioning workers | calls to Docker and the OpenClaw gateway | mostly external behaviour; only the doctor exec is modelled |
| Ports, adapters, shared kernel, wire types, config | interfaces, secrets, object store | no protocol state beyond the repositories modelled above |
| Web app, MCP server | rendering and translation of calls | no shared state of their own; the assistant's turn route, which drives a protocol, is part of `AssistantTurns` |
| `mainframe/` (vendored OpenClaw), `prototypes`, `ux-redesign` | third-party or throw-away code | not this program's logic; the gateway's runs, as far as the broker sees them, are `RunBegins` and `RunEnds` of `GatewayConnections` |

Within a modelled component these parts are left out: the content of contracts,
findings and messages (parsing, hashing, redaction); `prune` of the doctor-scan
repository, which nothing calls; tenancy beyond one organization and one
workspace, since every key, lock and row is scoped by both. Of tasks: creation,
fields, ordering within a column, comments and provenance, which no gate reads; the
list of reviewers, which is written and never read. Of issues: the projection that
GitHub webhooks refresh. Of the broker: health reads, `disconnectAll` at process
exit, the HTTP server, text deltas, tool and approval events.

## 2. Modules

| module | models | state ↔ code |
|---|---|---|
| `CommandSpine` | one command handler, statement by statement | `receipt`, `version`, `planning`, `activity` are committed tables; `fresh`, `outcome`, `effect`, `planSeq`, `actSeq` a transaction's uncommitted writes; the `...Lock` variables the unique-index, row and advisory locks |
| `TodoOrder` | what the queue promises: a strict order that changes by entering, leaving, moving next to a neighbour | |
| `TodoQueue` | ranks, gaps, renumbering, queue version | `rank` ↔ `dev_board_lane_queue`, `queueVersion` ↔ `dev_board_lane_queue_version`, `view` what a client last read |
| `DependencyGraph` | what the dependency commands promise: an acyclic graph that changes one edge at a time | |
| `DevTicketPlanning` | the DevTicket commands, each atomic | `ticket`, `edge`, `queued` ↔ the three tables |
| `DependencyLocks` | the same commands as sequences of locks, reads and a commit | `lock` per row, graph and header; `tx` is what a session has read |
| `ProposalLifecycle` | the seven proposal commands as sequences of statements | `proposal`, `ticket`, `event` committed; `tx` uncommitted |
| `ScheduledJobs` | the job table and the wake loop | `row` ↔ `platform_scheduled_job`; `held`, `cur` a worker's batch and the job in hand |
| `DoctorScan` | scan lease, detached scan, termination, publication | `lease`, `latest` ↔ the two tables; `scan` ↔ `inFlight`; `doctors` the processes in the container |
| `DoctorCadence` | scheduler and scan of one healthy worker, composed by `INSTANCE` | the variables of both |
| `IssueCloseOutbox` | the outbox table and overlapping runs of its script | `entry` ↔ `issue_close_outbox`; `batch`, `answer` what a run has claimed and heard |
| `TaskDone` | review, confirmation and Done, each command as its reads and its writes; extends the outbox | `done`, `review`, `check`, `conf` ↔ the tables; `call` a command between read and commit; `bought`, `promised` are history |
| `GatewayConnections` | manager and operator clients of one route, an action per callback | `inMap`, `armed`, `circuit` ↔ the manager; `cur`, `attempt`, `created`, `active`, `early`, `pending` ↔ fields of the client; `sock`, `wire`, `run` the network and the gateway |
| `AssistantTurns` | the turn route with its database commands | `user`, `turn`, `outcome` ↔ the tables; `req` where a POST is, `told` what its browser heard; `ran` is history |
| `...Proofs` | the theorems of a module; `TodoProofs` those of `TodoQueue` and `DependencyLocks`, `AssistantProofs` those of `GatewayConnections` and `AssistantTurns`, `WorkerProofs` those of `TaskDone` and `DoctorCadence` | |
| `MC...` | constants and scopes for TLC | |

Two modules that share a module of proofs use different names for the usual parts:
`DependencyLocks` has `LocksInit`, `LocksNext`, `LocksSpec` and `LocksTypeOK`,
`AssistantTurns` `TurnInit`, `TurnNext`, `TurnSpec` and `TurnTypeOK`, `DoctorCadence`
`CadenceInit`, `CadenceNext` and `CadenceSpec`; elsewhere they are
`Init`, `Next`, `Spec` and `TypeOK`.

Conventions. A command that the code rejects leaves the planning state alone and is
a stuttering step wherever commands are atomic; the conjuncts of an action are the
negations of the code's early returns. Where commands are taken apart, what a
session writes becomes visible at its commit, which is what READ COMMITTED and the
savepoint give; an `Abort` or `Crash` may come between any two statements. Times
are ticks relative to the database's clock, and a worker's clock differs from it by
`Skew`.

Some points of faithfulness deserve a remark.

* `acceptProposal` inserts the ticket first, and when the guarded update then
  matches no row it *returns* a rejection, so the savepoint is released and the
  ticket would stay. `UpdateProposal` has that branch. The row lock taken before
  makes it unreachable, which is what `AcceptedMeansTicket` shows.
* The same holds of the other guarded writes of commands that are taken apart: the
  unique index that refuses a second ticket of a proposal (`InsertDevTicket`) and the
  writes that match no row (`WritesMatch` in `DependencyLocks`). TLC never takes these
  branches, because the locks are had before; the mutants that drop a lock do.
* `publish` of the doctor scan writes `lease_expires_at = now()` under a check
  constraint that it lies after `lease_acquired_at`, a value the worker's clock
  wrote. `Fenced` has the constraint (`lease.held >= 0`): a worker whose clock is
  further ahead than its scan takes never publishes.
* A command of `CommandSpine` does one of six kinds of `work`, which decides the ledger rows
  it is accepted with and whether the version of its row is tested: `removeDependency` (and
  `reconcileHistoricalCompletion`) moves its ticket whatever version the caller expected,
  and compares only the version of the edge, which is no row of this model. An event about
  a ticket that `acceptProposal` creates has version 1 and no expected one.
* The claim of a doctor scan is one statement, and so one step. Its `not exists` on the
  runs sees the snapshot the statement began with, while the lease row is re-read when
  the statement had to wait for it; a claim that waits for a publication may therefore
  miss the run just published and scan once more. The model's claims see the current
  state in both places; no property depends on the difference.
* A doctor lives in the container. A crash of the worker, a termination that could not
  be confirmed or a lost lease leave it in `doctors`, which it leaves when its termination
  is confirmed or by itself; there is no time limit in the container.
* `addQualityCheck` and `approveQualityReview` begin with `ensureQualityReview`: a plain
  select, and when there is no review the `insert ... on conflict do update`, which waits
  for another session's uncommitted row and holds its own until the commit. `AddSelect` and
  `ApproveSelect` are the select, `AddInsert` and `ApproveInsert` the insert; the commands
  that find the row go on without any lock.
* `handleSocketClosed` and `failConnection` do not ask which socket the event came
  from. `SocketClosed` and `FailConnection` act on the client's current socket, as the
  code does; a socket that is closing still delivers frames, and its close event may
  arrive when the client already has another one.
* `handleStreamEvent` compares runs only when the event has a `runId`. One without ends
  whichever turn of its session is registered, also one whose request is still on its way
  (`UnnamedEvent`); `FinalIsOwn` says nothing about it, since the code does not. The gateway
  under `src/mainframe` puts the run into every chat event it sends (`chat-broadcast.ts`),
  so the model's gateway is the more general one.
* The response to `sessions.send` may carry a session key, under which the client then
  registers the stream (`operator-client.ts` 881-884). The gateway under `src/mainframe`
  answers with run and status only (`ackPayload`, `server-methods/chat.ts` 1133-1137), so
  the key never differs and the branch is not in `Accepted`.
* The idle timer of 60 s counts streams and not calls in flight, and `IdleTimeout` is
  guarded by nothing else. A turn that a stale close event took from the map while its call
  goes on may be disconnected by it; the call is then rejected like any other. The timer
  removes the client of the route from the map by the route's key, so one that a late call
  set for an evicted client removes the client that came after it.
* `startAssistantTurn` compares a known key with the *initial* text of the turn. A retry
  of a turn that has any text, final, failed or partial, is therefore answered as an
  idempotency conflict and not with the stored turn; only a final answer that is empty
  is replayed. `StartTurn` has these cases, and the route's branch for a replayed failed
  turn is unreachable in it. A retry while the turn is queued opens a second stream;
  when the gateway refuses that as a busy session, the retry fails the first one's turn.

## 3. Runs

| run | module / cfg | what it shows |
|---|---|---|
| `command_spine` | `MCCommandSpine` | the effect its command calls for once per key, gap-free ledgers, effects on the expected version and told in order, consistent answers, and (liveness) every call ends |
| `todo_queue` | `MCTodoQueue` | distinct ranks, a queue version that names the order, refinement of `TodoOrder` |
| `dev_ticket_planning` | `MCDevTicketPlanning` | no cycle, Todo current, no ticket stuck before Todo, versions that cover row and blockers, refinement of `DependencyGraph` |
| `proposal_lifecycle` | `MCProposalLifecycle` | a ticket exactly for an accepted proposal, one event per version, final decisions, merges into active tickets, every command ends |
| `dependency_locks` | `MCDependencyLocks` | the statement-level commands refine `DependencyGraph`; Todo, queue and graph agree at every commit; every command ends |
| `scheduler` | `MCScheduledJobs` | leases are private and have an owner, an acknowledged delivery never fails, every registered job is delivered again and again |
| `doctor_scan` | `MCDoctorScan` | scans outlive their leases and overlap: late workers publish nothing, a success is of a doctor that has stopped, only failures leave doctors behind |
| `doctor_cadence` | `DoctorCadence`, `MCDoctorCadence.cfg` | *violation*: a healthy worker whose doctor takes its 20 s lets the latest run go stale |
| `task_done` | `MCTaskDone` | Done has an approval, a confirmation pays once, a Done from the card leaves its intent or nothing, a settled outbox row stays settled |
| `quality_race` | `MCQualityRace.cfg` | *violation*: on a review that exists, an approval over a check that has not passed |
| `broker` | `MCGatewayConnections` | streams do not outlive their connection, a final event that names a run ends only that run's turn, unused clients have their idle timer, and (liveness) every call returns |
| `assistant_turns` | `MCAssistantTurns` | a tool call is performed at most once, everybody was told what is stored and stays, a turn's text fits its status |

A run checks what is hardest to see. The type invariants of the modules and some
further properties (receipts only advance, no archived blocker, Todo authorized, fresh
approvals, outbox rows given up only when exhausted) are theorems and are left out of
the runs; all of them hold when they are added to the `INVARIANTS` or `PROPERTIES` of
the module's configuration, as does the `LocksTypeOK` of `DependencyLocks`.

### 3.1 Bounds and scopes

* `command_spine`: three calls, nine envelopes with every kind of work: a decision, its
  retry under a new command id and its reservation, a request under the same key that
  does not parse, an acceptance that is its rival for the version, a dependency added on
  the next version, one removed on whatever version, a draft that inserts a row and a
  submission of it. Three calls are needed for a reservation, the command
  that takes it over and its rival. `InOrder` fixes one order of the calls at the
  start; transactions are interchangeable, and a symmetry set would not be sound
  for the liveness property.
* `todo_queue`: four tickets, `Stride` 3 and `MaxRank` 14. Three tickets fit a
  renumbered band and a fourth does not, so every case happens: a gap without
  room, the head at zero, the tail past the maximum, a band that does not fit even
  when renumbered. One client is enough because clients only
  read and compare versions. `MaxVersion` 9 leaves eight queue commands.
* `dev_ticket_planning`: three tickets, an owner, an admin and an outsider, a
  feature whose declared risk has slack and a security bug that a dependency pushes
  past its floor, six versions per ticket. The histories are of two scopes: `OnPair`
  (everything, on two tickets) and `OnGraph` (one owner's work on the graph of all
  three, the smallest graph in which one-hop cycle detection fails). The properties
  are safety properties and no constant names a ticket, so tickets are a symmetry set.
* `proposal_lifecycle`: one proposal, since commands on two share only the target
  ticket, two sessions, five versions (draft, submit, decide, archive, restore). Only
  archive and restore look at the actor, so the agent sends only these (`Sends`, a
  condition on commands under way); the target is archived and restored once.
* `dependency_locks`: two sessions; `OnPair` has every command on two tickets,
  `OnRing` adds around a ring of four, the smallest in which two adds share no row.
  The scopes restrict what clients send and never the steps of a command in flight:
  the bound of two edges counts the adds under way.
* `scheduler`: two workers, one a tick ahead; a job with a handler and a row whose
  handler is gone; one fault per behaviour. Three tokens suffice because a job has
  at most one current and one outdated lease besides the fresh one.
* `doctor_scan`: two workers, one a tick ahead, five tokens (a doctor left behind keeps
  its own), two faults. A tick is 15 s and the limits are those of the code: a lease of
  30 s, two Docker calls of 15 s before the exec, a hard timeout of 20 s, a termination
  that outlasts the lease; only the cadence of five minutes is scaled down, to three
  ticks. 4,290,615 states. `doctor_cadence` uses the code's times in ticks of five seconds.
* `task_done`: one task, one check, one confirmation id that is used again once nobody
  knows it, two sessions of one user, two overlapping outbox runs, two attempts. Two
  sessions are what every race needs (two Dones on one confirmation, a toggle or a
  cleanup against an approval or a Done); a third adds no lock to wait for.
  946,587 states. `quality_race` is the same without outbox runs.
* `broker`: one client object, two sockets, two turns of one session and a query, two
  sockets per connect attempt. Two sockets are needed for a stale close event, two
  turns for an event of another run. The turns are alike, so the first one comes first,
  and only the first is ended while its call is under way or by a final event without
  `runId` (`InTurn`). The proofs are for any number of each and without `InTurn`.
  415,936 states.
* `assistant_turns`: three requests with one key, so that a turn can be failed by one
  and retried by another while a third still streams; two prompts for the conflict,
  two tools, two answers. Requests and answers are symmetry sets.
  142,378 states.

### 3.2 Fairness

* Statements (`CommandSpine`): weak fairness of each transaction's step. The
  process sends its next statement, and Postgres runs one whose locks are free.
  Calls are finite there, so a lock that is free stays free until somebody takes it
  and nobody can be overtaken for ever.
* Sessions (`ProposalLifecycle`, `DependencyLocks`): strong fairness of a session's
  step. Clients never stop sending in these models, and Postgres queues waiters of a
  lock in order of arrival, so one that waits while others come and go gets it.
* Workers (`ScheduledJobs`): weak fairness of each worker's steps and of time.
  `docker-compose` runs the workers with `restart: unless-stopped`, which is the
  `Start` of a worker that exited; a promise that can be settled is.
* Timers (`GatewayConnections`): weak fairness of the challenge timer, of the end of a
  retry sleep and, for each call, of the request timer of the request it waits for, which
  are `setTimeout` callbacks of a running Node process. Nothing is assumed of when, or
  whether, the gateway answers and sockets close; a stream without a timer is not claimed
  to end.

Deadlock is checked in every run but two. In `dev_ticket_planning` the versions run out,
and in `broker` the calls: a broker without calls, sockets and timers has nothing to do.

Nothing is assumed of clients, aborts, crashes or stops. For the outbox no liveness is
claimed: `processIssueCloseOutbox` is a one-shot script and nothing in the repository
schedules it. Nor for assistant turns: a turn whose process died, or whose final answer
could not be stored, stays queued or streaming and nothing settles it later.

## 4. Findings

**Approved reviews with failed checks** (`quality_race`). "Approved quality reviews
cannot be changed." (`tasks.ts` 3035, 3141), "All quality checks must pass before
approval." (`tasks.ts` 3455). On a review that exists, `addQualityCheck` and
`toggleQualityCheck` test on an unlocked read that it is not approved (3031, 3137) and
write the check afterwards; `approveQualityReview` reads the checks and updates only the
review. The transactions wait for no common row (the foreign key of a new check takes
a key share of the review, which the update leaves alone), so both commit, and the later
update of the review by a toggle skips it because it is approved by then. The first
commands on a task do not race: the insert of the review row makes the second wait, and it
is then refused. What Done relies on, that an approval is never taken back, holds
nevertheless (`DoneHasApproval`).

**Stale evidence of a healthy worker** (`doctor_cadence`, `NeverStale`). ADR-021 lines 182
and 228: every five minutes, "Freshness is 10 minutes: two missed five-minute windows."
The scheduler counts its 300 s from the acknowledgement, the claim from the completion;
with wakes every 45 s a scan of more than 15 s (the hard timeout is 20 s) makes every
other dispatch a refused claim, and the page calls the scan stale although no window was
missed and nothing failed.

Further disagreements between a document or comment and the code, which the modules
reproduce when the named property is checked with the named configuration:

* **Due checks** (`ScheduledJobs`, `DatabaseTimeOwnsDueChecks`, a worker with a `Skew`).
  ADR-022 line 188: "Database time owns due checks ...". `claimDue` compares
  `next_run_at` with the worker's clock and also writes the lease expiry, the next run
  and the retry from it; only the expiry checks and fences use `now()`. A worker that
  runs ahead claims early.
* **Docker limits against the lease** (`DoctorScan`, `OneExecAtATime` and
  `ExecEndsUnderLease`, `MCDoctorScan.cfg`). ADR-021
  lines 196 and 203: "it never starts a second exec", "The child-termination deadline
  must precede lease expiry by the cleanup margin". The 20 s timeout starts after two
  Docker requests of up to 15 s each; the lease is 30 s from the claim.
* **In progress** (`DoctorScan`, `InProgressEverywhere`, `MCDoctorScan.cfg`). ADR-021 lines 196 and 221
  define `in_progress` by the lease; `orchestrator.ts` answers from the set of scans of
  its own process.
* **Two sockets for one route** (`GatewayConnections`, `OneSocketPerRoute`, `MCGatewayConnections.cfg`). The comment
  at `operator-client.ts` 726-728 says "so we never open two sockets for one route". An
  attempt that timed out leaves its socket closing while the next call opens another;
  a late hello-ok makes the old one the client's current socket, and its close event
  then forgets the newer one without closing it.

An observation without a run: `acceptProposal`, `mergeProposal` and `rejectProposal`
never look at the actor, although `docs/plan/dev-board-foundation-decisions.md`
line 137 speaks of what the human may do; whether a caller checks it first cannot be
told from a library nobody calls yet. `ProposalLifecycle` is faithful: only archive
and restore test the role.

## 5. Proofs

Every theorem is of the form `Spec => []P` or `Spec => [][A]_vars` (or `Spec =>
Abstract!Spec`) for all values of the constants that satisfy the module's
assumption. For each component one inductive invariant is proved and the rest derived
from it.

| module | assumption | inductive invariant |
|---|---|---|
| `CommandSpineProofs` | `SpineAssumption` | `SpineInv` |
| `TodoProofs` | `QueueAssumption`; `LocksAssumption` | `QueueInv`; `LocksInv`, `WaitInv` |
| `DevTicketPlanningProofs` | `PlanningAssumption` | `PlanningInv` |
| `ProposalLifecycleProofs` | `ProposalAssumption` | `ProposalInv` |
| `ScheduledJobsProofs` | `ScheduleAssumption` | `SchedInv` |
| `DoctorScanProofs` | `ScanAssumption` | `ScanInv`, `DoctorInv` |
| `WorkerProofs` | `OutboxAssumption`, `TaskAssumption`; `CadenceConstants` and `ScanEndsInTime` | `IInv`; `CadenceInv` |
| `AssistantProofs` | `BrokerAssumption`; `TurnAssumption` | `BrokerInv`; `TurnInv` |

* **Spine.** `OneEffectPerKey` is not inductive by itself: it needs to know that
  whoever is about to commit still holds what it decided on. `OpenWorkIsLocked`
  says so: a transaction with a fresh receipt holds the key and no row is
  committed for it; one that will change its row holds it, at the version it expected
  where its command tests one;
  a pending ledger row has the next number of its ledger and its lock. Together with
  `TypeOK`, `OneEffectPerKey`, the numbering of both ledgers, `EffectsFollowVersions`
  and `AnswersAgree` it is inductive. The numbering needs a lemma about the maximum
  of a finite set of sequence numbers.
* **Queue.** `RanksDistinct` with the type invariant is inductive: a slot rank lies
  strictly between its neighbours when the gap is at least two, and the index of a
  ticket in a strict order is injective when the band is renumbered (a cardinality
  lemma). `ViewsCurrent` adds that no client has seen a version that does not exist
  yet, which makes `VersionNamesOrder` inductive. `RanksImplementOrder` maps each
  command to one abstract action.
* **Planning.** Acyclicity is stated over sets of tickets (no non-empty set in which
  each waits for another), so the cycle check, stated over closed sets, gives it in
  one step: the set of tickets reachable from the blocker is closed. The four Todo
  properties are inductive together with it. `PlanningImplementsGraph` is the
  refinement.
* **Locks.** The state between two statements is what has to be pinned down. `LocksHeldBy`:
  a session holds every lock of its plan that it has taken, and one that decided has
  taken them all. `RowsCurrentFor`: a row read under its lock is the committed row, but for
  the floor a classification has evaluated and not yet written. `EdgeNamedBy`: a removal's
  edge has its endpoints. `AdmissionStandsFor`: what a command decided stays true until it
  commits, because whoever could change it needs a lock the command holds: the graph lock
  for adds, removals and archives, the ticket row for the rest. The one decision taken from
  the graph without the graph lock is an approval; it stands because an add or a removal
  changes only the dependencies of a ticket whose row it holds (`FloorsOfOthers`). With
  acyclicity and `TodoMatchesGraph` this is inductive. In the refinement a commit whose
  writes match is `Add`, `Remove`, `Archive` or `Restore` of `DependencyGraph` and every
  other step a stutter. `LocksNeverDeadlock` adds two invariants, that a session holds
  nothing but what it took (`HoldsOnly`) and that no edge joins a ticket to itself, so that
  each plan is in one fixed order (`Before`); a finite set of waiting sessions then has one
  that waits for the last lock, and the holder of that lock does not wait. The order of the
  waits is the safety half of `EveryCommandEnds`, for any number of sessions.
* **Proposals.** A session that has read a row still holds its lock and the row has
  not changed (`ReadIsCurrent`); what it decided on that read still holds
  (`DecisionStands`); only an accept has inserted (`InsertedByAccept`).
  Then the guarded update never misses and `AcceptedMeansTicket` is inductive. So is
  `ActivityCoversVersions`: a commit that raises a version adds the one event of it
  (`CommitKeepsLedger`), and no other transaction can hold the row.
* **Scheduler.** Tokens are private (`PrivateTokens`): no two workers hold one token
  of a job. `RowShape` and `Phases` tie rows and program counters together, and
  `AckedLost` says that a delivery whose acknowledgement committed no longer holds the
  row's token, so the `fail` that follows a lost answer misses.
* **Scan.** `OwnTokens` and `PassedLost` give `LateWorkerNeverPublishes` for all clocks
  and all time limits. `DoctorInv` follows the doctors: finitely many,
  `SucceededMeansStopped` with the fact that nothing is a success before it was read
  (`NotYetRead`), and `LeftBehindByFaults`, which rests on a count: a step adds a doctor
  that nobody watches only as a fault, and then one (`CountLeftBehind`). Neither assumes
  anything of the lease, the limits or the clocks, so they hold for the shipped ones.
* **Done.** That an approval is never taken back makes `DoneHasApproval` inductive once
  the invariant says that a Done in progress has seen one (`DoneInProgress`). A
  confirmation pays once because whoever is about to commit holds the row, which is not
  yet consumed, and an id somebody still knows is not issued again (`Spending`).
  `ClaimsHeld` ties what a run has in its batch to the token and attempts of the row;
  with it the guarded save gives `SettledForGood`, and an entry is dead only when every
  attempt was answered and saved.
* **Cadence.** The composition is deterministic up to the length of a scan, so its
  invariant is a clock: after each acknowledgement the handler runs again in exactly
  `Period` ticks, the first multiple of the wake interval that is not below the cadence
  (`RunsIn`), and the scan, its lease and the evidence are what they are at that many
  ticks since the last run (`ScanAfter`). A run whose claim comes before the cadence is over
  is refused; the one after it is not. `EvidenceAgeBounded` is what follows: the latest run
  is never older than `2 * Period + ScanTime`, provided the scan ends under its lease and
  before the next run (`ScanEndsInTime`). With the code's times, in ticks of 5 s, `Period`
  is 63, the scan 4 and the lease 6, so the bound is 650 s; that it is above the 600 s of
  `StaleAfter`, and that the age gets there, is the finding of section 4. Scans whose Docker
  calls take longer than the lease are outside this theorem, not outside `DoctorScan`.
* **Broker.** `StreamHasSocket` is not inductive: that an accepted stream has a live
  socket comes from its request having been on the wire of one (`WireIsLive`), and that
  requests go to the right socket from `CurrentIsLive` and `SocketsOwned`. `FinalIsOwn`
  needs that the terminal events kept early are of runs that ended (`EarlyEnded`); it is
  about events that name a run, and the others may come at any time.
  `IdleTimerSet` rests on one lemma about every way in which calls return and streams
  leave (`ReturnedSetsTimer`).

* **Turns.** `ToolRunsOnce` needs that a tool call in hand is recorded as started, by this
  request and no other, and has run exactly when the request says so (`ToolsInHand`), and
  that a call without a receipt has not run (`ReceiptFirst`). `ToldWhatIsStored` needs that
  a browser which was given the answer belongs to a request that is over (`ToldAtEnd`) and
  that a final turn no longer changes, which is also stated as an action property
  (`SettledAlwaysStays`: no handler writes to a turn that is final or failed, nor to a
  finished receipt). `RequestsFit` gives a request in flight its key, prompt and tool.

Only model-checked, not proved: liveness (`EveryCallEnds`, `EveryCommandEnds`,
`DeliveredAgain`, `EveryCallReturns`), which is outside the prover's reach, and the two
violations. Every
invariant and every action property of a passing run is a theorem.

## 6. Plan

Modelled first was the part on which every Dev Board command rests, then the queue,
the planning rules, the two places where commands race, the workers' leases, then what
the web application does across transactions and connections: Done with its outbox,
the broker, the assistant's turns. Next, in this order:

1. `LegacyImport`: the alias race (`dev-board-planning-commands.ts` 425) and the
   membership row lock, as an extension of the locks
   (`0024_dev_board_classifications.sql` line 68).
2. Link tokens and first-owner setup of `packages/identity-access`.

The hazards of `PROJECT.json` without a property are the ones these modules are for,
and the turns that nothing settles, of which no document claims otherwise.
