# WorkPanelConnecter: TLA+ models and proofs

WorkPanelConnecter is a relay (Node.js, one SQLite database) between desktop
pets, Runners that execute agent tasks, the WorkPanel server, and other sites
reached through a Host. Everything that must survive a lost connection, a
restart or a repeated request is a row of the relay's database and a status
column that several actors move. These modules model those rows and the actors.

## The system

| component | state it keeps | operations | what makes it correct |
|---|---|---|---|
| Runner task queue (`relay/runners.js`, `relay/services/taskQueueService.js`) | `runner_tasks` (status, attempt, lease token and deadline), `runner_task_results` | queue, poll (reclaim, count, claim), acknowledge, renew, partial and final result, requeue, cancel, reclaim at start | a task has at most one holder, a claim at most one outcome, an old holder never overwrites a new one, a silent holder loses the task |
| Chat messages (`messaging.js`, `delivery.js`, `db.js`, `handlers.js`) | `messages` (status, retries), `runs`, `federation_run_terminals` | accept, deliver, retry, resume at start, take the answer | carried out once, but for what was lost; a settled message stays settled; every delivery ends |
| Dispatch and routing (`dispatchService.js`, `routeResolver.js`, `directory.js`, `policy.js`, `accessPolicy.js`) | subjects, endpoints, routes with their lives | resolve a target to a local Runner or a remote site, advertise, list, import | a route leads to an agent that was alive not long ago |
| Federation Site (`federationSite.js`, `federationClient.js`, `hostJoin.js`) | outbox and inbox rows, federated runs | enqueue, flush, pull, acknowledge, process, report, requeue | no message lost, none executed twice, statuses agree with the Host |
| Federation Host (`federationHost.js`, `contracts/federation.js`, `envelopeSignature.js`) | messages, deliveries (status, attempt, lease) | accept, pull, acknowledge, complete, reclaim, expire | each delivery has one final status; leases as for tasks |
| WorkPanel provider dispatch (`workpanelDispatchService.js`, `workpanelDispatchProjection.js`) | dispatch rows with an idempotency key | create, cancel, project run events | a dispatch is created once, and its first final status stays |
| Runner registry, Host peers (`runners.js`, `hostPeers.js`, `credentialStore.js`) | runners, peers, credentials | register, heartbeat, disable, rotate, revoke | a revoked identity stays out until somebody vouches for it |
| Enrollment and pet authentication (`enrollment.js`, `authPet.js`, `registry.js`, `sessionWpAuth.js`) | codes, credentials, sessions; remembered passwords in memory | request, approve, rotate; log in, serve a request | one good credential per code; a pet acts as itself |
| Quotas, retention, migrations (`quotas.js`, `retention.js`, `migrations.js`) | counts, ages, `schema_migrations` | check, delete, migrate | limits hold, nothing is stored twice, each migration is executed once |
| WorkPanel slots (`wpSlots.js`) | the slot of an environment | register, heartbeat, merge into the backend | a stale slot does not serve, a pet keeps its name |
| Executors (`scripts/codex-runner.js`, `scripts/wp-runner.js`, `src/runners/codexCliAdapter.js`) | a lease, a local deadline, a child | poll, acknowledge, renew, execute, report | stop before the lease is somebody else's; the reply is to the prompt |
| Connector CLI and coordinator (`cli.js`, `commands.js`, `coordinator.js`, `registry.js`, `logStore.js`, `workpanelClient.js`) | flags of servers and teams, the prompt asked for, `dispatch.jsonl` | refresh, chat, quit | the log tells the truth, the lists agree |
| WorkPet desktop application (`apps/workpet/ui/main.js`) | panel, login, server, group, timers | expand, collapse, log in, select, send, poll | one group on the screen, timers while there is something to poll for |
| HTTP server and handlers (`server.js`, `handlers.js`) | none of their own | authenticate, call the above, answer | the order of the calls around an `await` |
| Telemetry, audit log, mocks, packaging, tests | files and rows nobody reads back | | not candidates, see the end |

The parts interact through the database. `db.js` gives all of them one writer:
`writeTx` queues the transactions of the process and runs each as one unit
(`db.js:39-59`). A handler is therefore a sequence of atomic steps separated by
its `await`s, and the hard behaviours are what happens in between: a Runner
whose lease expires while its request is on its way, two polls of one Runner, a
result whose response is lost, an operator acting on a running task, a relay
that restarts, a Host that answers late.

PROJECT.json lists under "hazards" each place where this code can go wrong in a
way a test would hardly reach, and the properties that watch it; a note says what
a property leaves open.

## Modules

| module | what it is |
|---|---|
| `RunnerTasks` | the task queue: one action per transaction |
| `MCRunnerTasks` | its instances for TLC, one `.cfg` per question |
| `RunnerTasks_proofs` | its theorems |
| `FencedJobs` | what a queue of fenced jobs promises: no leases, tokens or clocks |
| `RunnerTasksRefinement` | the mapping under which `RunnerTasks` implements `FencedJobs` |
| `RunnerTasksRefinement_proofs` | its proof |
| `FederationDelivery` | a federated message between the origin Site, the Host and the target Site |
| `Carriage` | what carrying messages over a Host promises: no requests, tokens, leases or restarts |
| `FederationDeliveryRefinement` | the mapping under which `FederationDelivery` implements `Carriage` |
| `MCFederationDelivery`, `FederationDelivery_proofs` | its instances for TLC, and its theorems |
| `WorkpanelDispatch` | a provider dispatch with its requests, command, cancellation, task and run events |
| `MCWorkpanelDispatch`, `WorkpanelDispatch_proofs` | its instances for TLC, and its theorems |
| `ChatMessages` | a chat message from the request that stores it to its last answer |
| `Handover` | what carrying out a stored message promises: no workers, tries, Sites or Runners |
| `ChatMessagesRefinement` | the mapping under which `ChatMessages` implements `Handover` |
| `MCChatMessages`, `ChatMessages_proofs` | its instance for TLC, and its theorems |
| `RunnerRegistry`, `RunnerRegistry_proofs` | enrollment, credentials, registration and heartbeats of Runners, and its theorems |
| `SiteDirectory`, `SiteDirectory_proofs` | how Sites find each other's agents through the Host, and its theorems |
| `CodexExecutor` | the Runner process with its child, renewal timer and watchdog, against a lease |
| `WpRunner` | the Runner process that carries a task out in WorkPanel |
| `WpRunnerRefinement` | the mapping under which its task is a job of `FencedJobs` |
| `PetAccess` | login, tokens, remembered passwords, cached sessions, slots |
| `DatabaseUpgrade` | several processes opening and migrating one database |
| `SerialUpgrade`, `DatabaseUpgradeRefinement` | what that promises, and the mapping under which it does |
| `HostBacklog` | quotas and retention at the Host |
| `Connector` | the command line with its overlapping commands |
| `WorkPetConsole`, `MCWorkPetConsole` | the desktop console with its overlapping requests, and its instance for TLC |
| `Components` | the eight components from `RunnerRegistry` to `Connector` side by side, and their types |
| `MCComponents` | their instances, for TLC |
| `Components_proofs` | the theorems of `PetAccess`, `DatabaseUpgrade`, `Connector`, `HostBacklog`, `WpRunner`, `CodexExecutor` and `WorkPetConsole`, and the types of the eight |

`WorkpanelDispatch` uses the task queue as `FencedJobs` shows it and the transport as
`FederationDelivery` shows it; `ChatMessages` uses both the same way; `CodexExecutor`
and `WpRunner` are the two sides `RunnerTasks` leaves free, with one task and its lease
(`KeepsToFencedJobsHolds` below). The eight modules of `Components` share no state, so
it is their sum, not their product: `part` says which one a behaviour is about and the
others stay as they began. A property of one module holds there trivially while another
one moves.

### RunnerTasks: state and actions

| variable | column |
|---|---|
| `status`, `attempt` | the same columns of `runner_tasks`; "absent" is a row not inserted yet |
| `token` | `lease_token_hash`, named by the attempt that minted it (a poll mints a random token and increments `attempt` in one update); 0 is NULL |
| `lease` | `lease_until` minus now, in ticks, 0 once it has passed, -1 for NULL |
| `created` | the order of `created_at`, which decides who is polled first; equal values are ties, which SQLite breaks as it likes |
| `results` | the rows of `runner_task_results`, by result id; `generation` is a history field, the claim whose lease was current |
| `up`, `down` | the status of the chat message that made the task, and the answers inserted for the pet |

`Enqueue` is `enqueueRunnerTask`; `ReclaimExpired` the reclaim at start-up
(`server.js:94`); `PollRunnerTasks` the whole of `pollRunnerTasks`, including the
reclaim it begins with; `AcknowledgeRunnerTask`, `RenewRunnerTask` and
`SubmitRunnerTaskResult` the three requests a holder makes, guarded by
`LeaseVerified` (`verifyTaskLease`); `RequeueTask` and `CancelTask` the
operator's; `Tick` the clock. `RunnerRequest` lets a Runner send any request
with any token that was ever minted, at any time and as often as it likes. That
covers lost responses, retries, delays, reordering, restarts, and two processes
with one identity, and is why no network is modelled.

Abstractions: the content of a result is its report; a result id already stored
answers without a change of state, whether as a duplicate or as a conflict, so
it is a guard; "accepted" acts as "running"; an unknown report as "completed";
`available_at` never lies in the future and is left out; the status `dispatched`
is read by the code and never written; the run row repeats the last answer; the
limits on concurrency are constants. A disabled Runner is refused before it
gets here; that belongs to the registry's module.

### FencedJobs: what the queue promises

An observer of the queue sees jobs that are unborn, pending, held (under the
number of a claim), closed, dead or done, and the outcomes that are on record for
a job. `Claim` hands a pending job out under a new number, `Finish` records an
outcome of the claim that holds the job, `Release` and `GiveUp` take it back,
`Cancel` and `Reopen` are the operator's. Several jobs may be released in the
step in which others are claimed, as one poll does. `RunnerTasksRefinement` maps
a task to a phase by its status and attempts, and its stored results to
outcomes; leases, deadlines, tokens, result ids and the clock disappear.

### Carriage, Handover, SerialUpgrade: three more promises

`Carriage` knows per message where it stands at its target (unsent, under way,
carried out, given up), whether it had its effect, what the Host has on record,
whether a receipt was written and what the origin is told. A target is done with a
message once; the Host's verdict and the origin's are the target's; the
Host may forget, and be told again; an old answer may take back what the origin is
told, never invent it. The mapping of `FederationDeliveryRefinement` reads the row of
the inbox first: it, and not the Host, decides whether a message is done. A delivery
that was swept out as expired is as open as a queued one, because the target can
still complete it (`expired_executed`).

`Handover` knows per message what its sender is told, how often it was handed
over, how many excuses there are for doing so again (an answer that was lost, a
stop of the relay) and whose answer is still due. Each handover is answered
at most once, and a settled message is handed over no more. In
`ChatMessagesRefinement` the ways are the remote commands by number, the task of the
local Runner and the request to WorkPanel; the rows of `federation_run_terminals`
and `runner_tasks` are what makes an answer due no longer. A late, repeated or
conflicting answer is then a step of `Handover` only if it changes nothing.

`SerialUpgrade` takes the file from one release to a later one as a whole, and lets a
process open it only while it is of exactly its own release. Plans, locks, failed
starts and crashes of `DatabaseUpgrade` disappear.

### FederationDelivery: state and actions

| variable | where it lives |
|---|---|
| `outbox` | `federation_outbox` of the origin: status and attempt |
| `flight` | the local variables of `flushFederationOutboxOnce`: the rows a flush has read and the answer it holds |
| `delivery` | `federation_deliveries` of the Host: status, attempt, `lease_token_hash` |
| `minted`, `verdicts` | history: how many lease tokens were minted (a token is named by its number), how many receipts were written |
| `inbox` | `federation_inbox` of the target: status, attempt, `host_lease_token` |
| `batch`, `work` | the local variables of `pullFederationInboxOnce`: pulled messages not stored yet, and the request or row the loop is at |
| `executed` | the effect of `processInboxEnvelope`, which is idempotent: the same message again finds its task, run or dispatch |
| `expired`, `losses` | the clock as far as `expiresAt` is concerned, and how often the Host lost its database |

An action is the code between two `await`s. A flush is `FlushRead`, then per row
`FlushExpired`, or a request (`HostAccepts`, `HostRefuses`) and `FlushUpdate`. It
is called from the tick of `hostJoin.js` and from the handlers of results,
dispatches and cancellations, so several run at once and each writes its row by
id, whatever has become of it. The target's tick never runs twice (`ticking`):
`PullFederationMessages` reclaims, sweeps and leases in one transaction; each
message is stored (`StoreInbox`), acknowledged (`HostAcknowledges` or
`AcknowledgementFails`, then `RecordAcknowledgement`), claimed, executed and
recorded (`ClaimInboxRow`, `ProcessInboxEnvelope`, `RecordProcessing`) and
reported (`HostCompletes` or `ReportFails`, then `RecordReport`). `answered` tells
whether the answer of the Host arrives. `OriginRestarts` and `TargetRestarts`
drop what is in memory.

Abstractions. A request takes effect before its sender gives up on it, or never:
both ends are written for a delay, but the sender sees the same error.
Validation, policy, quota and signature checks are one refusal. Leases, backoffs
(`available_at`) and the processing lease may run out at any time. An attempt
counter is only compared with its maximum and is counted up to it. The phases of
the target's tick run in any order, which is more than the code does; batches
stay below the limits of 50 and 20. The Host's clock and the Sites' are one.

### WorkpanelDispatch: state and actions

A WorkPanel provider asks its relay, a Site or the Host, to dispatch a prompt to
an agent of the same relay or of another Site, reads the status, and may cancel.

| variable | where it lives |
|---|---|
| `role`, `target` | `hostRole(config)`, and whether the route ends in this relay; both are chosen once |
| `row` | `workpanel_dispatches`: status, `federation_message_id` (that of the command or of the cancellation), whether `task_id` is set, the status in `result_json` |
| `request` | the local variables of `createWorkpanelDispatch` and `cancelWorkpanelDispatch` between two `await`s |
| `command`, `cancel` | the envelope of `chat.command` and `run.cancel` in outbox, Host and inbox: still to be carried out, or over |
| `task` | `runner_tasks.status` at the executing relay; "open" is queued, accepted or running |
| `cancelling` | the local variables of `processRunCancel` |
| `event` | run events: what each reports; committed but not in the outbox yet ("pending"), on its way, processed, or lost |
| `requeued` | history: an operator has requeued the task |

A creation is `ReserveDispatch`, then `EnqueueLocally` or `EnqueueCommand`, or
`EnqueueThrows`, then `UpdateCreated` or `UpdateFailed`, which write by id whatever
the row says by then. A cancellation is `ReadForCancel`, `CancelLocally` or
`EnqueueCancel` (`EnqueueCancelThrows`), `UpdateCancelled`. Any number of requests
for one dispatch may be at any of these points, and `ProviderRestarts` forgets
all of them. At the executing Site, `ProcessChatCommand` and `ProcessRunCancel`,
`SendCancelled` or `SendCancelledThrows`, and `RecordCancelled` are what the inbox
does with the two messages, again and again until `MessageIsOver`. `TaskEnds`,
`TaskDies`, `OperatorCancels` and `RequeueTask` are the task queue's;
`EnqueueRunEvent` is the second half of `agentTaskResult`, which `SiteRestarts` can
cut off. `ProcessRunEvent` is the projection on the way back (`Projected`), on the
Host only for an event that answers `federation_message_id` (`Matches`);
`EventIsLost` covers policy, expiry and attempts.

Abstractions. The task is the job of `FencedJobs` as its operators see it; the
transport is what `FederationDelivery` shows of it, perhaps repeated and perhaps
given up. The two reads before the reservation (`prior`, and the row after the
insert) are one, because a status never returns to "preparing". The route of a
dispatch is fixed, because the subject it names belongs to one site. A Site that
enqueues a message it has keeps the old one; the Host refuses a second envelope
unless it was made in the same millisecond, which is `EnqueueThrows` or
`EnqueueCommand` without effect. A cancellation does not wait for its command: it
is tried again while there is no task. Scopes, conflicting payloads and
validation answer before any state changes.

### ChatMessages: state and actions

| variable | where it lives |
|---|---|
| `status`, `retries` | the columns of `messages` |
| `worker`, `attempt` | the continuation that delivers the message: the step of `deliverWithRetry` (or of the chat request) it stands before, and the round of its loop |
| `task` | the message's row in `runner_tasks`, whose id is the message's |
| `sent`, `run`, `terminal`, `thread` | the remote commands: how many were put in the outbox, and per correlation id the row of `runs`, of `federation_run_terminals`, and the write-back to the WorkPanel group |
| `server`, `pending` | the relay before it listens, and the rows `resumePending` has read |
| `posts`, `lost`, `restarts` | history: how often WorkPanel carried the message out, lost its answer, and how often the relay stopped |

`Chat` is the request, which may be repeated; `ToLocalRunner`, `ToRemoteSite` with
`UpsertRun`, `RunnerOffline`, `NotBound` are the outcomes of the dispatch;
`PostFails`, `PostExecuted`, `MarkDelivered`, `MarkFailed`, `TryAgain`, `DeadLetter`
and `StillNotBound` the rounds of `deliverWithRetry`; `RunnerTaskResult`,
`ProcessRunEvent` and `WriteBack` the answers; `Restart`, `Resume` and `Listen` the
stop and the start, which delivers what was left over before it listens. Which way
a message goes is looked up anew each time and chosen freely. The text of a message
and the shape of its thread are data.

### RunnerRegistry: state and actions

`enrollment` and `device` are the columns of `enrollment_requests`, `credential` the
status of a row of `device_credentials` (`<<c, n>>` is the n-th of code c, and its
token), `hash`, `rstatus` and `seen` the row of `runners`, `binding` that of
`runner_bindings`. `inflight` are heartbeats that are authenticated and whose body
is still awaited, the only pause in this part of the relay. `RelayStarts` is
`syncConfigRunners`; `CreateEnrollment`, `ApproveEnrollment`, `RejectEnrollment`,
`RotateCredential`, `RevokeCredential` and `CredentialExpires` are the life of a
credential; `RegisterRunner`, `RequestArrives`, `HeartbeatRunner` and
`HeartbeatGoesStale` that of a Runner. A revocation takes every row that is "active",
whether its time has run out or not. Capabilities, sites and scopes are one refusal.

### SiteDirectory: state and actions

`peer`, `peerToken` are the Host's row of a Site, `siteToken` its own configuration,
`join` the step of `joinHostOnce`, `advert` and `answer` the two requests that take
time, `hostLeft`, `owned` the Host's `federation_routes`, `knows`, `routeLeft` the
Site's imported subjects and endpoints, `alive` its own agents, `policies` the
operator's rows. `RegisterHostPeer`, `SendAdvertisement`,
`AdvertiseFederationRoutes`, `ListFederationRoutes` and `ImportFederationRoutes` are the
loop; `JoinFails` starts it again; `RevokeHostPeer`, `RotateHostPeerToken` and the
policies are the operator's. A rotation compares its token with nothing
(`hostPeers.js:96-110`), so it may be to the token in force or to an earlier one, and a
revoked Site comes back with it; `granted` is history, the token a Site was last given
and none since it was revoked. A tick is longer than a request's timeout. `Route` is
`resolveRoute` as far as the Site is concerned. One group stands for all.

### CodexExecutor and WpRunner: state and actions

`CodexExecutor` has one task with `holder`, `lease` and `settled` at the relay, and
executors with the same token, each with the `step` of `executeTask`, the `request`
under way, its `age`, the local `deadline` and the `renewal` timer. Polls,
acknowledgements, renewals and results are sent, served by the relay at some
moment within `Delay`, or never, and answered or failed. `RenewTimer`, `Renewed` and
`Watchdog` are the two intervals, `ChildEnds` the end of the child. Both clocks run
at one speed.

`WpRunner` has the same task with its claims and `main` of `wp-runner.js` as a
sequence of requests (`at`, `spent`, `held`), the prompts posted per claim and the
replies in the group. `Dispatch` may be carried out with or without its answer,
`WaitEnds` takes a fitting reply or none, `Dies` is any request that throws.

### PetAccess: state and actions

`session` is the table of sessions, `overlay` the remembered passwords of
`sessionWpAuth.js`, `cache` the `tokenCache` of `workpanelClient.js`, `slot` the row of
`wp_slots`. An account signs in as the pet of its entry in `config.pets`, or as the one
whose id `loginPetId` makes of its name (`registry.js:185`): `PetOf` need not be
injective, because the id has only some characters of the name and 24 at most. Two such
accounts share sessions and the remembered password. `Login` always asks WorkPanel
(`force: true`), whatever is cached; `LoginRecorded` mints a token (`IssueLoginPet`) and
remembers account and password in the place of those of an earlier login; `Request`
serves a token as the account `serverForPet` yields (`ServedAs`). Passwords change in
WorkPanel, cached sessions end, slots go stale, the relay restarts and forgets.

### DatabaseUpgrade: state and actions

`schema` counts how often each migration was executed, `recorded` is
`schema_migrations`, `opening`, `plan`, `copy` are the local variables of each process
in `applyMigrations`. Its reads (`ReadTables`, `ReadApplied`, `BackUp`) come one by
one before `Begin`; `Commit` and `Opens` end it, `Stops` may do so anywhere.

### HostBacklog: state and actions

`row` is a row of `federation_deliveries` with the time it became final, `expires` the
envelope's, `window` the counter of requests per minute. `AcceptFederationMessage` is
the quota, then the look for a duplicate, then the insertion; `PullOnce`,
`AckFederationMessage`, `CompleteFederationMessage` move a delivery on; `HostStarts` is
`enforceRetention`. Sites and Host share one clock here: an envelope says itself when it
was made and when it ends, and the Host checks only that these are at most 24 hours
apart and that the end is ahead of its own time (`contracts/federation.js:30-36`). An
origin whose clock is far enough ahead could have a message stored again after retention
has deleted it. `FederationDelivery` has the other half: who holds what when.

### Connector: state and actions

`teamOnline` and `serverOnline` are the flags of the registry, `pendingChat` the
variable of `cli.js`, `command` the handlers of lines that still await an answer,
`dispatchLog` the file. `RefreshProbed` and `ChatProbed` are one answer of a team;
`DispatchWorkPanel` and `Dispatched` the dispatch; `CoordinatorTakes` and
`CoordinatorRefuses` are the other end. `QuitAndStart` is `process.exit` and a new
start. `torn` is history: the flags written over a newer probe.

### WorkPetConsole: state and actions

`panelOpen`, `paused`, `loggedIn`, `env`, `group`, `saved`, `options` are the variables
of `main.js`, `screen` the groups whose messages or members are shown, `timers` the
intervals that run. A click that starts a chain of requests is a `flow`; its
answers (`WindowSized`, `LoginAnswered`, `HealthAnswered`, `EnvsAnswered`,
`ConfigStored`, `GroupsAnswered`, `ContentLoaded`, `SelectedAnswered`,
`MembersAnswered`) come in any order with other clicks, timers and `fetches`, or fail, or
are a 429. Messages and the member strip are guarded by `isStaleGroupFetch`; two things
are not. `send` notes the outcome of a chat among whatever messages are shown when it
comes (`main.js:763`, `:780-786`): `strayNote` says that it is another group's. And
`loadMembers` puts its answer into `membersCache`, which the @ menu reads, whichever
group is selected by then (`main.js:99-107`): `mentions` says whose members it holds.
`win.setSize` is assumed to succeed; run cards and the announcements of runs are left out.

### The runs

| run | cfg | shows |
|---|---|---|
| `tasks` | `MCRunnerTasks.cfg` | the safety properties, two chat tasks competing for one slot |
| `task_liveness` | `MCRunnerTasksLive.cfg` | a silent Runner loses its task, a queued task is served, the queue implements `FencedJobs` |
| `v1_reopen` | `MCRunnerTasksReopen.cfg` | a violation: see Findings |
| `delivery` | `MCFederationDelivery.cfg` | the safety of a delivery under two flushes, losses, restarts, expiry and one loss of the Host's database, and that it implements `Carriage` |
| `delivery_liveness` | `MCFederationDeliveryLive.cfg` | the outbox and the inbox get to an end |
| `expired_executed` | `MCFederationDeliveryExpired.cfg` | a violation: see Findings |
| `inbox_backlog` | `MCFederationDeliveryDrain.cfg` | a violation: see Findings |
| `provider_dispatch` | `MCWorkpanelDispatch.cfg` | safety of a dispatch, and that a completion is told unless its event is lost |
| `terminal_overwritten` | `MCWorkpanelDispatchTerminal.cfg` | a violation: see Findings |
| `chat` | `MCChatMessages.cfg` | how often a message is carried out is bounded by what was lost, the delivery implements `Handover`, every delivery ends |
| `components` | `MCComponents.cfg` | the safety of eight components, each on its own instance (below) |
| `console` | `MCWorkPetConsole.cfg` | `OneGroupOnScreen`: the messages and the member strip shown are those of the selected group (not the note of a chat's outcome, nor the names of the @ menu). `PollsWhileOpen`: timers run exactly while there is something to poll for |

What `components` shows, part by part:

| part | properties |
|---|---|
| `registry` | `CredentialsAreFenced`: one good credential per code, a rotated token is nobody's. `ComebackNeedsProof`: a disabled Runner comes back only if somebody vouches for it, or by a heartbeat under way |
| `directory` | `RouteIsRecent`: a route leads to an agent that was alive within two lives of a route. `RevokedStaysOut`: a Site gets in only with the token it was last granted, so never between a revocation and the next rotation; what it advertises was sent while it could |
| `executor` | `ChildKeepsToItsLease`: two children overlap only for as long as answers take (a lease more if an operator requeued), and one failed renewal does not cost the task |
| `workpanel` | `OnePromptOneReply`: one post per claim, the reply is to this claim's prompt, a reply in time is reported under a lease in force |
| `access` | `PetIsItself`: only accepted passwords are used; a token is served as an account of its pet that has logged in since the start, and as the very account it was handed to unless another shares the pet |
| `upgrade` | `ImplementsSerialUpgrade`: processes that start on one file at once upgrade it one after the other. `BackupIsOfTheOld`: the backup is of exactly the schema that is changed |
| `connector` | `LogTellsTruth`: what the log says of a prompt is true and stays so. `FlagsAgree`: the list of servers agrees with the list of teams |
| `backlog` | `BacklogIsBounded`: nothing is stored twice, the limit on messages under way holds |

`ChildKeepsToItsLease`, `OnePromptOneReply`, `PetIsItself`, `CredentialsAreFenced`,
`BoundedHandovers` and `BacklogIsBounded` are conjunctions of two or three promises
about one hazard. The types of the variables of `RunnerTasks`,
`FederationDelivery`, `WorkpanelDispatch` and `ChatMessages` are left to their
proofs, and so are those of `WorkPetConsole` (`ConsoleTypeCorrect`); `TypesOK` checks
those of the eight components.

Bounds. Two attempts are enough for an old and a new holder of one task, and for a claim
that succeeds after one that did not; two ticks separate a lease that is renewed early,
renewed late and expired; two result ids separate a repeated result from a second one;
two tasks and one slot make claims compete (the theorem has any number of both). The
model bounds `attempt` by `max_attempts` as the code does, and results by the result
ids, so no other counter grows. Deadlock is not checked: a queue whose tasks are all
completed has nothing to do.

In `FederationDelivery` two flushes are enough for an old answer to overwrite a
newer one, two leases for an old token to meet a new one, two tries at either end
for a failure that is repaired and one that is not, and one loss of the database
for a message that is accepted a second time. Messages share no state but the
order in which a loop takes them, so the runs have one; the theorems have any
number. Deadlock is checked: a Site can always pull again.

In `WorkpanelDispatch` two requests are enough for a creation to meet a retry or a
cancellation; two run events for the result of a task and the result, or the
cancellation, of the same task requeued; one requeue for both. Dispatches share
no state but the requests, so the run has one; the theorems have any number of
dispatches, requests and events. Deadlock is not checked: a dispatch may be
finished.

In `ChatMessages` three tries (the limit of the code), two stops of the relay and
one message, as messages share nothing but the order in which a start takes them;
the theorems have any number of all three. A message that is settled is left
alone, so deadlock is not checked.

In `MCComponents` every component has two of each actor that can meet itself (two
Runners, Sites, executors, processes, commands) and three accounts: one with an entry
and two that share a pet. One of the two changes its password once; the constraint
`OneSignsIn` allows one login under way and two cached sessions. `MaxCredentials`
2 is one rotation, `PeerTokens` lets the Site that is routed to be rotated to another
token and back, `Ttl` 2 separates a route about to end from a fresh one. `Lease` 8, `RenewEvery` 2 and
`Delay` 1 are the smallest numbers for which `OneFailureIsBorne` is not void, 8, 1,
1 and 2 those for `ReplyInTimeCounts`. Both are conditional. With the defaults of
`codex-runner.js` (a lease of 60 s, renewed every 20 s, requests of up to 10 s) the
condition of the first just fails; the requests of `wp-runner.js` to the relay have no
timeout at all, so that of the second is one on how fast the relay answers.
`Last` 3 lets two releases differ while an old file is behind both. One server has
two teams and one has one, of either kind. `LastTick` 3 leaves a tick after
retention, and `MessageTtl` equal to `TerminalAge` is the worst the code's limits
allow (a day each). Deadlock is not checked: the parts stop at their bounds.

In `MCWorkPetConsole` there are two servers, one with two groups and one without any,
and two chains of requests at once, which are interchangeable (`SYMMETRY`). The console
starts at the server with groups. The constraint `OneThingMore` keeps a chat request, or
the note of one in another group, from meeting two chains at once. Deadlock is not
checked, as for the parts above; the theorems have any number of all of these.

Fairness. `FairSpec` of `RunnerTasks` assumes that time passes and that each Runner identity
keeps polling, as the loop of `codex-runner.js:247-270` does, also after a
restart. It assumes nothing else of a Runner or an operator. Both liveness
properties have the premise that renewals stop at some time: the executor bounds
each run by a timeout, and a Runner that renewed for ever would keep its task
for ever. A task is taken back by its own Runner's poll or by a restart of the
relay; if that identity never polls again, nothing takes it back.

`FairSpec` of `FederationDelivery` assumes that the Sites stop only finitely
often, that each loop goes on and comes to every row it selects again and again
(`setInterval` in `hostJoin.js:104`, and the loops take every due row), that the
Host now and then accepts a request and answers it, that time passes, and that a
lease whose token the target does not have runs out, since only that token could
extend it. It assumes nothing of a lease the target can use. The premises about
stopping and answering are about the environment; without them a Site that is
killed whenever it has an answer would never record one.

`FairSpec` of `WorkpanelDispatch` assumes that a handler that goes on after a
result is committed comes to its end, and that the loops of outbox and inbox get
to every event that is neither refused nor given up, which is the outcome
`delivery_liveness` shows. A crash, a refusal or the last failed attempt makes the
event "lost", and `CompletionIsTold` says that nothing else does. It is stated for
the dispatches of a Site: the Host refuses the events of a dispatch once a
cancellation has replaced its `federation_message_id`.

`FairChatSpec` of `ChatMessages` assumes that what a worker awaits comes to an end
(requests have a timeout, the pauses are timers), that a due write-back is tried
and that the start goes on. It assumes nothing of pets, Runners, other Sites or
of WorkPanel, and nothing about stops, which the bound makes finite.

### The proofs

`RunnerTasks_proofs` proves, for every finite set of tasks, every set of Runners
and result ids, and every bound, from `RunnerTasksAssumption` alone:

- `TypeCorrect`: `Spec => []TypeOK`;
- `Invariance`: the inductive invariant `IInv`, and from it
  `LeaseMatchesStatusHolds`, `OneOutcomePerClaimHolds`,
  `CompletionIsAnsweredHolds`, `CompletedIsTheLastWordHolds`, and the action
  properties `ExpiredLeaseIsNeverRevivedHolds` and
  `TerminalLeavesByRequeueOnlyHolds`;
- `ConcurrencyBoundedHolds`;
- `LastClaimIsLastHolds`: a task of a v2 Runner that has used its last claim and is
  out of its Runner's hands is never claimed, reported on or answered again. An
  operator can queue it, and that is all.

None of the properties is inductive alone. `IInv` ties them together per task:
the token is NULL or the current attempt, a stored terminal result of the
current attempt exists only when the token has been given up, no stored result
is of a later generation than the attempt, and a completed answer in the pet's
thread means the task is completed. That a second outcome of a claim is refused
then follows from the fencing token alone, not from the guard on the status.
Every step is reduced to what it does to a single task (`NextCases`,
`UntouchedTask`, `TaskStep`). The bound on concurrency needs cardinalities: a
poll adds at most `Slots` tasks to the live ones, and every other step adds none
(`NoNewLive`, `PollKeepsBound`).

`RunnerTasksRefinement_proofs` proves `Implementation`: `Spec =>
ImplementsFencedJobs`. It rests on `IInv` and on what each action does to the
phases and outcomes: the fencing token makes a recorded outcome an outcome of the
holding claim, and the generations in `IInv` keep late results from counting.

An abstract specification is worth as much as follows from it, so each has a
theorem that says what does, from the refinement alone: `FencedJobsSuffice` (one
outcome per claim, no completion taken back), `CarriageSuffices` (`DoneOnce`),
`HandoverSuffices` (`CarriedOutOnce` and `AnswerStands`, given the types) and
`SerialUpgradeSuffices` (`RecordedOnce`). Each needs an invariant of the abstract
specification only; that of `Handover` (`Promised`) says that the only handover
of a message is either still due or answered.

`FederationDelivery_proofs` proves, for every set of messages and flushes and every
bound, from `FederationDeliveryAssumption` alone, the inductive invariant `IInv`
(`Invariance`) and from it `TypeCorrect`, `VerdictIsTheTargetsHolds`, `OneReceiptHolds`,
`FinalRowsAgreeHolds`, and the action properties `HostVerdictStandsHolds` and
`DoneOnceHolds` (a message the target is done with is not carried out again, which
`Carriage` implies). `MessageInv` follows a verdict on its way: the row of the inbox
that is reported cannot change while the report is under way, the delivery takes its
verdict from it, the answer a flush holds was a status of the delivery, and what the
outbox shows was such an answer. Even `TypeOK` is not inductive alone: a queued delivery
has an attempt left only because the reclaim makes it dead otherwise. `TypeStep`,
`MessageStep`, `VerdictStep` and `DoneStep` have one case per action.

`ImplementsCarriageHolds` is the refinement. It needs one more invariant,
`CarriedInv`: a row of the inbox came out of the outbox, and a receipt is written
whenever the Host has a verdict. Each action then moves at most one field of the
mapped message, but for a pull, which may give several messages up, and the loss of
the database, which is why a step of `Carriage` moves every message it likes.
`GivenUpIsNeverReportedHolds`: while a delivery is dead or expired without a token,
its row in the inbox never becomes final, until the Host loses its database. This is
`inbox_backlog` for every instance; `GivenUpInv` adds that no report is under way
then.

`WorkpanelDispatch_proofs` proves, for all dispatches, requests and events, with no
assumption at all, the inductive invariant `IInv` (`Invariance`) and from it
`TypeCorrect`, `UnderWayIsStoredHolds`, `CompletedIsCompletedHolds`,
`ResultIsTheTasksHolds` and `SettledStaysHolds`. `DispatchInv` is per dispatch: every
event reports what the task was at some time (`Vouched`: completed for good, or its
last outcome unless requeued), every request holds only what it has stored
(`RequestInv`), and the row shows only what one of the two said. The properties
speak of the row; a step of one request leaves the others' claims true because
`command`, `cancel` and `task` never go back to absent. `DispatchStep` and
`TypeStep` have one case per action.

`ChatMessages_proofs` proves, for every finite set of messages and every number of tries
and stops, `ChatTypeCorrect`, `BoundedHandoversHolds` and `AnswerStandsHolds` (what is
settled is overwritten only by the answer of another handover, which `Handover`
implies). The invariant has three parts: `RowInv` (which rows have a worker, and with
what retries), `AccountInv` (what was handed over is paid for by a try that is counted,
an answer that was lost or a stop) and `AnswerInv` (which answers may still come, and
that a single one cannot contradict the row). `ImplementsHandoverHolds` rests on all
three: `HolderMay` draws from `AccountInv` that whoever is about to hand the message
over has an excuse for it, and each answer is of a way that was due before it and is not
after it.

`RunnerRegistry_proofs` proves `RegistryTypeCorrect`, `CredentialsAreFencedHolds` and
`ComebackNeedsProofHolds`, for all agents, codes and rotations: `CodeInv` orders the
credentials of a code by their numbers, `HashInv` says whose token the row of a
Runner can hold.

`SiteDirectory_proofs` proves `DirectoryTypeCorrect`, `RouteIsRecentHolds` and
`RevokedStaysOutHolds`, for all Sites, subjects, policies and lives. Freshness is
followed from hop to hop: `AliveInv` (a live agent), `AdvertInv` (an advertisement on
its way), `HostInv` (the Host's row), `AnswerInv` (a listing on its way) and `RouteInv`
(the imported route) each bound how long ago the agent was alive by the life that is
left. `RevokedStaysOutHolds` rests on `GrantInv`: a Site that is not revoked has been
granted the token of its row.

`Components_proofs` proves seven components. `PetIsItselfHolds`: `AccessInv` adds that a
login under way has had its password accepted (`LoggingInv`), that a token is handed out
only to an account of its pet, which then remembers someone (`SignedInInv`), and that
whom it remembers has been handed a token since the start (`OverlayInv`).
`RecordedOnceHolds`, `BackupIsOfTheOldHolds` and the refinement
`ImplementsSerialUpgradeHolds`: `UpgradeInv` and `OldInv` say what the plan of a process
is worth at each step although others commit meanwhile; a plan that is out of date fails
on the primary key of `schema_migrations`. The refinement adds that a process that has
committed finds its migrations recorded (`CommittedInv`), so that `Opens`, which refuses
a newer file, finds exactly them, and that the file then is of that release
(`AtItsRelease`). `TypesOKHolds` proves the types of the eight components from those of
each. `LogTellsTruthHolds`: `ConnectorInv` adds that at most one command is at work on a
prompt and that it finds the log empty. `FlagsAgreeHolds`: `FlagInv` adds that a command
between two teams of a server knows whether one of those it has probed is online, unless
another command has crossed it; that the teams of a server are next to each other
(`ConnectorAssumption`) makes this be all of them at the last. `BacklogIsBoundedHolds`:
`RowOK` adds that an envelope ends at most `MessageTtl` after its message is final, so
that retention, which is no shorter (`HostBacklogAssumption`), never deletes what could
be asked for again; the limit needs cardinalities (`NoneJoins`).

`KeepsToFencedJobsHolds`: the relay's side of `WpRunner` moves its task only as
`FencedJobs` does, so what it assumes of the queue agrees with what `Implementation`
shows of it (from the submission on; `RowAgrees` ties the stored result to the status).
No run checks it beside the proof. `OnePromptOneReplyHolds`: `WpInv` adds that no two
processes hold the same claim, that the prompt of a claim is not posted before its
dispatch, and (`InTime`) that what is left of a lease and the time the steps since have
had make up the whole lease. `ChildKeepsToItsLeaseHolds`: in `ExecutorInv`, `Timely`
bounds the local deadline of an executor by what is left of its lease; `Lapsing` says
which of two overlapping children ends the overlap, and when; `Paced` and `Borne` bound
what one failed renewal takes from a lease. Nothing is assumed of the durations but that
they are positive (the watchdog's delay may be 0) and that an executor renews every
third of its lease; a statement that needs them in proportion has that as its premise.
`ConsoleTypeCorrect`, `OneGroupOnScreenHolds` and `PollsWhileOpenHolds` follow from
`ConsoleInv`: the types of the chains (`FlowTyped`) and of what is shown (`ViewTyped`),
that only a click on the login awaits one (`LoginFirst`), and who will start the timers
(`WillStart`): a click that opened the panel or logged in, whose chain of requests is
under way.

Only model-checked: the liveness properties (temporal reasoning under fairness is
out of this prover's reach) and the violations. Every safety property of a passing
run, invariant, action property or refinement, has a theorem. No data is
defined by recursion in these modules, so nothing is lost to the prover there.

## Findings

- `v1_reopen`. A result for a terminal task should be refused
  (`docs/protocol/runners.md:128`), but the guard at `runners.js:531` looks at
  terminal reports only. The token stops a v2 Runner; a v1-compatible one has
  none, and its late partial result sets a completed task back to running,
  without a lease that could expire.
- `expired_executed`. `docs/protocol/federation-v1.md:25`: "Expired messages are
  never dispatched." A pull sweeps an expired message out also when it is leased,
  but leaves its token (`federationHost.js:279-285`), and the target does not look
  at `expiresAt`: a message it had pulled before is carried out after the Host
  declared it expired and told the origin so.
- `inbox_backlog`. `scripts/federation-e2e.js:278` waits until "all federation
  backlogs drain". A delivery that the Host gave up as dead has no token any more,
  so the target's result or acknowledgement is answered with 409 for ever
  (`federationHost.js:341`), while the row counts as backlog
  (`federationSite.js:372-383`) and is reported again at every tick
  (`GivenUpIsNeverReportedHolds`).
- `terminal_overwritten`. `docs/architecture.md:45`: idempotency keys and
  first-terminal-wins prevent the overwriting of a terminal state. `updateDispatch`
  writes by id, after an `await` that includes a flush of the outbox
  (`workpanelDispatchService.js:274`, `:325`). A run event projected meanwhile is
  overwritten with "federating" or "cancel_requested", and no further event comes.

The model also shows, without a document that says otherwise: `requeueTask`
(`taskQueueService.js:77`) queues a dead task without resetting `attempt`, and a poll
claims only tasks with `attempt < max_attempts` (`runners.js:353`), so that a task that
died of its last attempt is queued for ever (`LastClaimIsLastHolds`); a rotation to the
token in force brings a revoked Site back with the token it was revoked with; two
accounts whose names make one pet id share it, and a token of the first is served as the
second once that has logged in; the @ menu of the console may hold another group's
members, and the outcome of a chat is noted in whichever group is shown; a retry of a
dispatch on the Host can be refused as a conflict and shows "failed" while the
task runs; the Host refuses the result of a dispatch after its cancellation came
too late, so that it stays "cancel_requested"; a task that dies, or that an
operator of the executing Site cancels, tells the provider nothing; a chat
message that is resumed is a second command for another Site; a heartbeat under
way undoes a revocation; a device that is enrolled again under an existing Runner
cannot authenticate, because registration does not replace the token's hash; after
a restart a pet is served as the shared account until it logs in; an outbox entry
whose question the quota refuses dies although its message is delivered; a prompt
recorded as failed may be worked on; the flag of a server that a refresh wrote over
a newer probe stays wrong until the next one.

## Plan

Done: the task queue, federated deliveries, chat messages and the upgrade of a
database, each with its abstract specification and the refinement; provider
dispatches; registry, directory, executors,
pet access, upgrades, the Host's backlog, the command line and the console, with
the theorems above.

Left, in this order:

1. `ChatMessages` composed with `RunnerTasks`, where today the task is its phases.
2. Messages whose target is the Host itself (`acceptHostTargetMessage`).
3. The console's run cards and its announcements of runs (`main.js:794-851`).

## Not modelled

Telemetry, audit log and structured logging are written and never read by the
control flow. The mock servers, packaging and acceptance scripts are fixtures; they
were read as statements about the program (`mock/coordinator-server.js` as the other end
of `Connector`). The native shell of WorkPet, the appearance of its console, and the
relay's read-only endpoints render what they read. Validation of requests,
contracts and configuration answers before any state changes. Cryptography
(hashes, signatures, TLS) enters as the comparison it decides.
