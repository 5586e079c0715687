# PolyFleet in TLA+

PolyFleet is a control plane for a fleet of proxy nodes. A **server** (Go, one
SQLite database) holds users, nodes and what every node should run. An
**agent** on every node polls the server, brings the node's proxy core to the
desired state, reports traffic and executes operations. A **root helper**
(`agentops`) does for the agent what needs root: it replaces configurations and
restarts cores.

This directory holds TLA+ modules of the protocols between these three
programs, the TLC runs that check them on small instances, and TLAPS proofs of
the most important results for every size. Definitions keep the names of the
functions they model; `PROJECT.json` maps each of them to its lines.

## 1. Inventory

### Parts, state and operations

| Part | State | Operations | Module |
|---|---|---|---|
| Desired-state synchronisation | `nodes`, `node_user_assignments`, `user_credentials`, `node_snapshots`; the agent's state file and authentication cache | assign, unassign, enable, rotate, archive, retry; poll, apply, persist, acknowledge; enroll again | `DesiredSync` |
| Traffic accounting | counters of the core, `usage_baselines`, `traffic_outbox`; `traffic_batches`, totals | sample, partition, post, ingest, classify | `TrafficAccounting`, `BatchLedger` |
| User access | `users`, assignments and totals on all nodes, `node_kick_targets`, newest snapshots | create, update, archive, assign, limit, kick; ingest traffic; list and enforce expiries | `UserAccess` |
| Kick delivery | `kick_outbox`, `kick_state`, authentication cache; sessions of the core | poll, queue, replace the cache, execute, mark | `KickDelivery` |
| Reality apply | configuration, identity and applied record on disk; the running core | check, ensure identity, replace, restart, record, roll back | `RealityHelper` |
| Node operations | `node_operations`, `operation_failed` alert; `operation_results`, `operation_runtime`; the helper's ledger | create, retry, expire, list, execute, record, report | `NodeOperations` |
| Traffic budget | cycle start, cycle bytes and calibration of a node | ingest, calibrate, edit | `TrafficBudget` |
| Enrollment | tokens, capsules, credential; the agent's state file | issue, enroll, replay, save, heartbeat | `Enrollment` |
| Alerts and notifications | `alerts`, `notification_deliveries`, notifiers | raise, resolve, acknowledge, edit, reconcile, list, send, record | `Notifications` |
| Reminders, Telegram commands | rules and their next run, `telegram_bot_access`, the updates Telegram keeps | save, delete, run by hand; list due, run, record; poll, answer, record the offset; switch on and off | `Reminders` |
| S-UI adapter | clients of the panel, ownership rows in `agent.db`, assignments | assign, import, adopt, rotate, unassign; create, recover, edit, verify, delete | `SuiClients` |
| Configuration of a host | the core's configuration, backups, the helper's ledger, the running core | migrate, roll back; back up, restart, restore; edits by hand | `HostConfig` |
| Subscriptions, exit proxies, operations layer, sessions, telemetry, configuration, web console | rows edited in single transactions, or text | | not modelled, see section 7 |

### How they interact

Every operation of an administrator is one immediate SQLite transaction that
also publishes a new immutable snapshot with the next `desired_version`. The
agent never receives commands: it polls a snapshot, lists operations, posts
batches and acknowledgements over HTTPS, and every exchange can be lost before
or after it took effect, or arrive after the agent gave up on it. What must
survive a restart of the agent is in its state file and in `agent.db`; the two
are separate files and are not written together. The helper is a process per
request, serialised by a file lock, that systemd may kill.

### What is hard to get right

* an acknowledgement must mean that the data path has changed, although cache,
  state file, acknowledgement and rows are written one after another;
* a credential in a subscription must be one the node accepts, while rotations
  and enrollments are under way;
* bytes must be counted once, although counters restart, posts repeat and
  assignments come and go;
* a user who loses the right to a node, by a request, by traffic on another node
  or by the clock, must be withdrawn and kicked on every node it concerns,
  although times and rows are read before the transaction that uses them;
* a denied user must be disconnected, although kicks, cache and snapshot travel
  through three stores;
* an operation must take effect once, or its effect be known;
* a rolled-back configuration must be the previous one, running;
* an enrollment must neither strand the agent nor leave two live credentials;
* an alert, a reminder or an answer must not be lost and hardly be repeated,
  although sending and recording are two steps under one deadline;
* a client of a foreign panel must be changed only by its owner, although
  ownership is recorded after the client is made;
* two programs and an administrator change one configuration without a common
  lock, and none of them may lose what another wrote.

The list of hazards in `PROJECT.json` places each of them at its line.

## 2. Modules

Every module but UserAccess describes one node and its agent. Faults are actions
guarded by a budget (`MaxFaults`), so that a behaviour has finitely many of them
and liveness can be asked of what comes after the last one.

**DesiredSync** models `store/user.go`, `store/node.go`, `store/agent.go`,
`agent/agent.go` and `agent/auth_cache.go` for a `native_hysteria2` node. Rows
are records (`asg`, `credState`, `node`); `BumpNodeSnapshot` writes the next
entry of `snap`. The agent's loop is the program counter `pc`: poll, replace the
cache, persist the version with a pending acknowledgement, acknowledge. A poll
that fails sends a failed acknowledgement. `LoseState` deletes the state file
and enrolls a new installation, with or without the old cache. A snapshot is
identified by its version, since the hash that travels with it belongs to an
immutable row. `Rendered(u)` is the `WHERE` clause of `ResolveSubscription`.

**TrafficAccounting** models `recordTrafficSample` (baselines, counter epochs,
resets, batches of bounded size, sequence numbers), `flushTrafficOutbox`, and
`IngestTrafficBatch` with classification and totals; what a limit does is in
UserAccess. The core of
a Reality node names its counter epoch and the one of Hysteria does not; which
one it is, is chosen in the initial state (`core.named`). The histories `carried`
and `missed` and the field `core` of a batch are not in the code: they name the
bytes so that properties can talk about them. **BatchLedger** is what
accounting promises: a recorded batch is pending, then credited once, and stays
credited. TrafficAccounting implements it with `pending <- outbox \ Ledger` and
`credited <- Ledger`.

**UserAccess** models who may use which node: the transactions of `store/user.go`
on users and assignments, `UpdateNode` and `ArchiveNodeWithForce`, the limits of
`IngestTrafficBatch` over all nodes of a user, `RequestUserKick`, and
`EnforceExpiredUsers`. All end in `Commit`, which raises kick generations and
publishes snapshots and fails on an archived node. Three things are read before
a transaction and may be stale in it: the time (`Captured`), the fields a
request leaves out (`BeginUpdateUser`, `BeginUpdateAssignment`) and the list of
the expired (`sweep`). `late`, `asked` and `fresh` are histories.
`SetAssignmentEnabled` has no caller and is left out.

**KickDelivery** extends UserAccess with the agent of one native node: the outbox
of kicks in `agent.db` and the two loops that execute them, the poll, after it
replaced the cache, and the usage cycle. Each takes at most `KickLimit` of them
(256 in the code) and leaves the others to the next. Clients connect whenever
the cache admits them. A Reality node kicks through the API of its own core
(`agent/reality_stats.go:196`), which is not modelled.

**RealityHelper** models `applyReality` step by step, with every error path,
rollback and restore, the lock, and an agent that may stop waiting while its
request is still queued. `lapses` are faults that leave a step done and
unreported (a rename whose directory sync fails), undone (an expired deadline),
or half done (a kill between replacing the file and restarting the core); which
of them a host shows is chosen in the initial state.

**NodeOperations** models creation and retry with the bounded queue, hand-out
(`ListPendingNodeOperations` marks queued operations running), the agent's
operation cycle (flush results, list, execute, record, advance, report), the
helper with its ledger, expiry and the `operation_failed` alert. The effect of
an operation is one step, which may be interrupted before or after. A result may
carry a time more than five minutes ahead of the server's clock; its handler then
refuses it until the clock has caught up (`ahead`).

**TrafficBudget** models `traffic_budget.go` over a calendar of month lengths,
including how `time.Date` and `AddDate` carry a day beyond the end of its month,
and the four places that move the cached cycle.

**Enrollment** models tokens, the capsule that replays an answer, the request
ID that is saved before it is used, and the state file. The node may be archived
at any time, and the agent may be configured for another adapter (`fits`).

**Notifications** models one alert type, raised and resolved by a request
handler and by the maintenance loop, and the delivery queue. The clock is
reduced to the order of `next_attempt_at`, the sequence `due`. A handler, the
maintenance cycle and the listing read it before they have the database, and what
they queue takes the place of that reading, however long they wait.

**Reminders** extends Notifications with the rest of the maintenance cycle: due
rules are listed and run one by one, then the commands of a Telegram chat are
fetched from the stored offset, answered, and the offset recorded. Beside the
loop operators save, delete and run rules and switch the bot on and off, in the
two steps the code takes; a deleted notifier takes its rules and its bot along.
Whether assets or traffic give cause for a reminder is a free choice. There is
one bot and one sequence of updates; the code serves several in turn under one
deadline.

**SuiClients** models `applySUIDesired` against a panel whose own operator edits
clients in between. A step is one call to the panel with the agent's own work
before it, the fetch of a credential from the server included; the search for a
client whose ID changed is one step. A credential is named by the version that
introduced it, and is given out only while the node is enabled. Inbound
membership, expiry and traffic of a client are left out.

**HostConfig** models `hy2migration` (`Apply`, `Rollback`) and the helper's
`restart_core` and `backup_config` on one configuration, file or directory. A
configuration is a pair of what the administrator wrote and of the sections a
migration rewrites. A broken configuration may keep the core up for a moment,
which is what the two-second window of `restartAndWait` is for and the single
`is-active` of the helper does not see. That it shows within the window is an
assumption (`Stable`): a core that goes down later is not called broken. A
restart that fails leaves the core down, restarted, or as it was; a directory
whose replacement failed is put back, or, when that fails too, is gone. A helper
killed under a waiting agent is a failure the agent records; only an agent that
stopped, or a reboot, makes an operation come again. A backup file torn by a
kill is not modelled.

The `MC*` modules give constants their values. The proofs are in
`DesiredSyncProofs`, `TrafficProofs`, `AccessProofs` (UserAccess) and
`KickProofs` on top of it, `RealityProofs`, `NodeOperationsProofs`,
`EnrollmentProofs` and `HostConfigProofs`.

## 3. Runs

One passing run per component or composition checks its safety and, where it
states fairness, its liveness under section 5. Type invariants document the
shape of the state and are in no run; those of DesiredSync, TrafficAccounting,
UserAccess, KickDelivery, NodeOperations, Enrollment and HostConfig are proved,
alone or as part of an invariant. Two runs show where the program departs from
what its documentation says.

| Run | Bounds | Distinct states |
|---|---|---|
| `desired_sync` | 1 user, 2 credentials, 4 versions, 2 installations, 2 faults | 1.30 M |
| `traffic` | 2 users, batches of 1, 2 bytes, 2 cores, 2 changes, 2 faults | 399 k |
| `kicks` | 2 users, a native and a Reality node, limits 0 and 1, 1 user enforced per cycle, 1 kick per call, 2 times; 4 scenarios of up to 2 requests, 1 byte and 2 faults | 296 k |
| `reality` | 3 settings, 3 versions, 2 generations, 3 faults, with and without lapses | 979 k |
| `operations` | 2 types, 3 operations, queue of 2, 1 fault | 395 k |
| `budget` | 26 February to 3 March and 28 March to 2 April, reset days 1 and 31, 2 batches | 16 k |
| `enrollment` | 3 tokens, 4 faults | 463 k |
| `notifications` | 2 notifiers, 1 alert, 2 rules, 2 commands, 1 backoff delay, 2 deliveries or rules per cycle; 7 scenarios of up to 2 edits and 1 fault | 408 k |
| `sui_clients` | 2 users, 5 clients, 3 versions, 1 edit, 1 fault | 1.82 M |
| `host_config` | 2 bases, 2 operations, 2 commands, 1 edit, 1 fault | 8.98 M |

**desired_sync.** `RenderedCredentialIsAccepted`: what a subscription renders
is accepted by the node. `AcknowledgedMeansInstalled`: when `applied_version`
equals `desired_version` the cache holds exactly the current rows.
`RetiredCredentialIsRefused`: a retired credential is refused once the present
installation acknowledged anything. `Converges`: the newest version is installed
and acknowledged. Four versions are a publication,
its supersession and two changes while an acknowledgement is late; one user is
enough since rows of different users meet only in the snapshot (the proofs are
for any number).

**traffic.** `EveryByteOnce`: with counter epochs every byte is in one place.
`NeverOvercounts`: without them, none in two. `TotalsMatchLedger`: totals are
those of the ledger. `BoundOutboxDrains`: batches of the bound installation
leave the outbox. `ImplementsLedger`: the refinement. Two bytes and two cores
suffice for a counter that falls below, meets or passes its old baseline.

**kicks.** `LossIsKicked`: no transaction takes a user's right to a node without
requesting a kick there. `RenderedIsAdmitted`: what `ResolveSubscription` may
list, the newest snapshot of the node admits. `EnforcedIsWithdrawn`: a user
marked as expired is off the Reality nodes. `LastRequestHolds`: rows say, field by
field, what was asked for last. `DeniedIsDisconnected`: once the agent has applied
the newest snapshot nobody without a right is connected, unless the last call was
full and left the kick in the queue. `ExpiryIsEnforced` and
`KicksAreExecuted`: expiries are enforced, also when more users expire than a
cycle takes or a node among theirs was archived, and kicks are executed, however
many wait: the poll leaves what it did not list to the usage cycle. The
scenarios are two racing requests with traffic and no agent, one request with an
agent under one and under two faults, and two users who expire together. Two
times are enough for an expiry to pass between a read and its transaction; limit
1 is reached by one byte on either node; with one kick per call two users are
enough for a call that is full.

**reality.** `AckedIsServed` and `RolledBackIsPrevious` on hosts without lapses:
an acknowledged snapshot is the one the core runs, and `rolled_back` means that
the previous configuration, identity and record are back and in use.
`KeyIsPinned` on all hosts: a generation never changes its key silently.
`Converges`.

**operations.** `OutboxIsAccepted`: no recorded result is refused, which would
block the outbox. `ExecutedOnce`: an operation takes effect once, unless the
helper ended between the effect and the ledger. `StatusIsTrue`: succeeded means
executed, expired means not executed. `AlertTracksFailures`: the alert
is active while a failure has no later success.
`OperationsSettle`: every queued operation ends. Three operations are two in
the queue and the retry of one of them.

**budget.** `CacheMatchesLedger`: the cached bytes are those of the ledger.
`ShortMonthsClamp`: a cycle starts on the latest reset day, the last day of a
short month standing in. `EstimateFollowsUse`: the figure shown is the
provider's plus what was counted since. The two windows hold a reset in a short
month and the days after it that the short month does not have.

**enrollment.** `CredentialIsLive`: a running agent holds the node's
credential. `EnrollmentCompletes`: losses, delays and crashes never strand an
agent whose node is not archived and that is configured for its adapter.

**notifications.** `RepeatedOnlyWhenUnsure`: a delivery, a reminder within its
interval or an answer to a command is heard twice only if its answer or its
record was lost. `CreatedComesFirst`: a resolution is not heard before its
creation was tried, if the time of the creation is the older one.
`OwedIsSettled`: no delivery and no due reminder of an enabled notifier is
starved. The scenarios are alerts with one and with two channels, alerts whose
transactions wait after the clock was read, two rules on two channels, one rule
that is edited and run by hand, a rule about an alert that comes and goes, and
two commands; rules of different scenarios meet alerts only through the loop and
the channels, which all share.

**sui_clients.** `AppliedIsServed`: with the newest version acknowledged, every
client the agent recorded serves an assigned user with the current credential.
`ForeignUntouched`: clients that are not the agent's are left alone.
`Converges`: the newest version is applied, or one of the named conflicts holds
it up, a node that is disabled when a credential has to be set among them.

**host_config.** `LatestIsKept`: what was last written by hand is on disk or in a
backup, wherever a program was interrupted. `LeftRunnable`: no migration or
rollback leaves a configuration the core does not survive with. `ReportIsTrue`:
"changed" and "restored" mean that the core runs that configuration.
`RestartKeepsConfig`: an operation leaves the configuration as it found it, or
none, when a directory could not be put back; then it has failed and its backup
holds the configuration. `rolled_back` means that the core runs what was found, or
was never touched and runs what it ran before: the error of the second restart is
ignored (`nodeops/helper.go:413`), so that a core no restart reached counts as
rolled back.

### Departures from the documentation

* `desired_sync_late_ack`: a failed acknowledgement is processed whatever
  version was acknowledged since, so one that arrives late marks an up-to-date
  node degraded (`store/agent.go:637`).
* `sui_takeover`: a user imported read-only, unassigned and assigned as managed
  before the next poll makes the agent rewrite a client nobody adopted
  (`agent/sui_adapter.go:284`).

* `docs/15-phase-6-operations.md:80` says that a failed restart restores the latest
  backup made *before* the operation. The code restores the one the operation made
  itself, just before the restart (`nodeops/helper.go:407`), and
  `TestHelperRestartFailureRestoresExactPreRestartBackupAndIsIdempotent`
  (`nodeops/helper_test.go:489`) asks for that. `RestartKeepsConfig` states what
  code and test agree on; restoring the earlier backup, as the document says,
  is the mutant that violates it.

### Exceptions the properties need

The comment of each property says what it does not cover. These are behaviours
of the program, not of the model; several contradict its documentation.

* After the state file was deleted and the node bound again, batches of the old
  installation are rejected and block the outbox (`BoundOutboxDrains`,
  `store/traffic.go:35`).
* A Reality helper killed between rename and restart leaves a file that its
  successor takes for the running configuration (`AckedIsServed`,
  `nodeops/reality.go:215`).
* A lost listing leaves an operation running: it does not expire and is executed
  much later (no property excludes it, `store/operation.go:472`;
  `docs/15-phase-6-operations.md:37` says otherwise).
* On 29 and 30 March of a common year the cycle of reset day 31 starts in the
  future (`ShortMonthsClamp`, `store/traffic_budget.go:29`).
* A kick queued by a poll that ended before `authCache.Apply` is consumed while
  the old cache still admits the user (`DeniedIsDisconnected`,
  `agent/agent.go:506`).
* A poll that listed as many kicks as it may acknowledges its version although the
  users it did not list are still connected, until the usage cycle comes to them
  (`DeniedIsDisconnected`, `agent/agent.go:671`).
* A recovery whose handler read the clock, and then waited for the database while
  the maintenance loop raised the alert with a later time, is announced before the
  failure (`CreatedComesFirst`, `server/operation_handlers.go:274`,
  `store/notification.go:197`).
* A transaction that waited for the write lock while an expiry passed and was
  enforced publishes a Reality node with its older time and enables the expired
  user again until the next publication (`EnforcedIsWithdrawn`,
  `store/node.go:620`).
* Of two concurrent requests for one assignment, or for one user without a limit,
  the later writes back what it read for the fields it left out
  (`LastRequestHolds`, `server/user_handlers.go:174`, `:253`).
* Disabling a node publishes its users as disabled and kicks none: their sessions
  go on (`LossIsKicked`, `DeniedIsDisconnected`, `store/node.go:398`).
* A rule run by hand while the loop has it in its list is sent twice
  (`RepeatedOnlyWhenUnsure`, `server/reminder_handlers.go:153`).
* Commands are recorded after all answers of a poll, under one deadline: if
  answers take longer than that, the same commands are answered again and again
  (`OwedIsSettled` does not speak of commands, `server/reminder_handlers.go:502`).
* An operation whose helper ended before `saveResult` may be executed again
  (`ExecutedOnce`, `nodeops/helper.go:232`).
* A failed `SaveState` after the answer to an enrollment makes the agent ask with
  a new request ID for a consumed token (`EnrollmentCompletes`,
  `agent/agent.go:372`).
* An edit of the node before the first batch of a cycle keeps the calibration of
  the last cycle (`EstimateFollowsUse`, `store/node.go:421`).
* Without counter epochs a restarted core that passes its old baseline before
  the next sample is not noticed: bytes are missed, never counted twice
  (`NeverOvercounts`).
* S-UI: a client created whose answer was lost is a name conflict for ever; a
  client still mapped to a user who lost it cannot be mapped to another; a client
  the panel gave a new ID is forgotten, not deleted, on unassignment; a managed
  mapping overwritten by an import leaves its client behind; on a disabled node no
  client is created and no credential changed, and the removals that come after it
  in the same snapshot wait too (`Converges`, `AppliedIsServed`,
  `store/sui.go:426`).
* Host: a migration cut short after the rename leaves the core on the old
  configuration, and repeating the command finds nothing to change and does not
  restart it; beside a `restart_core` it may see its restored file replaced by
  the helper's copy of the migrated one (`LeftRunnable`). A `restart_core` that
  comes again goes on with its first backup and may restore a file older than
  the last edit (`RestartKeepsConfig`, `LatestIsKept`, `nodeops/helper.go:442`).

## 4. Bounds

Every bound is a constant that only appears in guards (`Max...`, `Last`,
`Capacity`, `Batch`, `Limit`, `KickLimit` and `PollLimit` are the code's own
limits). Scenarios are bounds that go together, chosen in the initial state,
because all of them at their largest are beyond TLC. Deadlock is not checked
where all bounds may be used up and the system has nothing left to do; the agent
of NodeOperations always has a cycle to start, and deadlock is checked there.

## 5. Fairness

Weak fairness is assumed of the steps that the programs' own timers repeat: the
agent's poll, usage and operation loops (`agent.Run`), the helper's process once
it started, `Restart=` of systemd, the backoff loop of enrollment, and the
server's maintenance loop. HostConfig asks for safety only and assumes none. The
poll of KickDelivery has strong fairness, because the usage cycle shares `pc`
with it although the two loops have timers of their own; the usage cycle has
weak fairness and empties the queue, a bounded number of kicks at a time. The
server's clock passes the times of results in NodeOperations (`ClockCatchesUp`).
In UserAccess requests in flight are answered and the maintenance loop lists and
enforces; in Reminders the loop goes on and the backoff of a delivery ends,
which it does a bounded number of times. Administrators, clients, crashes and
losses have no fairness: nothing is assumed to happen because an operator or a
fault makes it happen. A late message is delivered in the end in DesiredSync,
where its arrival has to be survived, and may never arrive elsewhere.

## 6. Proofs

`DesiredSyncProofs` proves, for any users, credentials and bounds, that `Spec`
implies all safety properties of the run `desired_sync`, and three more: types,
that a node archived without force admits nobody (`ArchiveWithdraws`), and that
the acknowledged version never falls within an installation
(`AppliedMonotone`). None of them is
inductive: that the cache agrees with the rows when the newest version is
acknowledged depends on what acknowledgements can be on their way. `IInv` adds

* `RowsOK`: an assignment names a credential of its user, and is applied only
  while its desired version is acknowledged;
* `SnapshotsOK`: since an assignment's desired version all snapshots agree with
  the rows on that user;
* `RetiredOK`, `ArchivedOK`: no snapshot from the acknowledged one on names a
  retired credential; an archived node has no user left;
* `CacheOK`, `AgentOK`, `LateOK`: the cache is a snapshot not older than the
  acknowledged one, and whatever the agent or the network may still acknowledge
  is in the cache.

There is a lemma per operation of the server, one for a publication
(`BumpStep`) that all of them share, one for acknowledgements (`AckRows`,
`AckCache`), and one for the agent's own steps.

`TrafficProofs` proves all safety properties of the run `traffic` for any users,
batch size and bounds. First the ledger: `Spec` implements `BatchLedger`
(`CreditsOnce`) and a batch of the bound installation is never refused
(`NeverRefused`). The invariant `LedgerInv` says that batches are numbered below
the identifiers drawn and that identifiers and the pairs of source epoch and
sequence number are unique over outbox, requests under way and ledger.

Then the bytes: `BytesAreRecordedOnce`, `BytesNeverOvercounted` and
`TotalsAreTheLedgers`. They are about sums over sets of any size, and the
library states nothing about `SumFunction`, which is a `CHOOSE` of a recursive
function on subsets. The section on sums proves what is needed of it: that this
function exists (`FoldExists`), that the order in which elements are taken out
does not matter (`FoldAny`), and that sums can be split, added and taken apart
(`SumRemove`, `SumOne`, `SumZero`, `SumPlus`, `SumSplit`). Its inductions are
over the size of a subset and are stated with the *set* of subsets for which the
claim holds (`SubsetInduct`, from the library's theorem that a set of numbers has
a least element), so that no operator has to be instantiated. The invariant
`AccountInv` adds to `LedgerInv`

* `BaselinesOK`: no baseline is ahead of its counter or of the core's
  incarnation, and with named incarnations a baseline of an older one is used
  only if it is zero. Without it nothing bounds the difference a sample takes;
* `BalancedOK`: for each user and direction, what is missed, recorded and not
  yet sampled add up to at most what was carried, and to exactly that while the
  core names its incarnation;
* `FiniteOK`: outbox, rows and ledger are finite, so that sums over them add up;
* `TotalsMatchLedger` itself, which is inductive with these.

The steps that matter are `Sample` (`NewBatchesSum`: the batches a sample is cut
into hold the difference of each user once, since batches are numbered without
gaps) and `Account` (`BatchSplits`: an item is accounted, unattributed or zero).

`AccessProofs` and `KickProofs` prove, for any users, nodes, adapters, limits,
clock and number of requests and faults, the safety properties of the run
`kicks`. `AccessInv` is the invariant of the server:

* `RowsOK`: quota states follow from limits and totals, and an expiry that is
  marked as enforced has passed;
* `Published`, `KicksPublished`: the newest snapshot of a node says what the rows
  say, up to the time it carries, and has the newest kicks;
* `FlightOK`: the times that requests and the sweep carry are not in the future;
* `EnforcedIsWithdrawn` itself.

A transaction preserves it if its rows are consistent, the nodes it does not
publish need no new snapshot, and it kicks wherever it takes a right. This
obligation, `Sound`, is a lemma per transaction; that it
suffices is one lemma about `Commit` (`CommitStep`). `LossIsKicked` follows from
the same obligation. `LastRequestHolds` (`LastRequestIsKept`) needs `FreshOK`: a
request under way whose row nobody touched since its read carries the row's
values in the fields it leaves out. `DeniedIsDisconnected` needs `AgentInv` as well:

* `Told`: a snapshot in the cache, or being applied, that carries the newest kick
  of a user who lost the node refuses that user;
* `Requested`, `CacheLeads`: generations known to the agent were requested, and
  the cache has seen each before it is executed;
* `SessionsOK`: whoever is connected after the newest kick has a right to the node;
* `PollOK`, `AppliedOK`: at each step of the poll the kicks of its snapshot are
  queued, listed or executed, and those of an applied version are executed, or
  still queued behind a call that was full;
* `ListingOK`: a call lists kicks that are queued, and leaves one out only when it
  is full.

`NodeOperationsProofs` proves all safety properties of the run `operations`, for
any types, capacities and numbers of operations and faults. `OpsInv` adds

* `Numbered`, `InOrder`: sequence numbers have no gaps, and operations are settled
  in their order, also by results that come late;
* `HandedOutOnly`: of an operation that is queued or expired neither agent nor
  helper knows anything. With this `StatusIsTrue` holds for expired operations;
* `RecordsAgree`: what the server has recorded is what the agent recorded, as long
  as the agent still has it, which is why no repeated result is refused;
* `CycleOK`, `HelperOK`: the agent's list is above its cursor and without gaps,
  the ledger has every effect that was not lost, and at most one request is
  waited for.

`EnrollmentProofs` proves `CredentialIsLive` (`EnrolledIsCurrent`). `EnrollInv`
says that only the newest token can be used and is the configured one
(`TokensOK`), that requests under way are complete and of issued tokens
(`RequestsOK`), and that a credential in memory or on disk is the current one
and no request that is under way, or will be sent, replaces it (`HoldsCurrent`).

`RealityProofs` proves `RolledBackIsPrevious`, `AckedIsServed` and `KeyIsPinned`.
`PinInv` holds on every host: the applied record, and the one a request found,
pin the key of the last acknowledgement. `WorkOK` and `RestOK` hold while the
host has had no lapse: until the record is written files and core are those of
one snapshot, the one found or the one requested, and the configuration differs
from the record only if a newer snapshot was asked for, which the agent then
repeats (`RequestsOK`).

`HostConfigProofs` proves the four properties of the run `host_config`. `HostInv`
says that a migration saves what it read before it replaces it (`BackupsOK`),
that after a sound edit there are only sound configurations to go back to
(`SoundOK`), and what file and core are at each step of a command or operation
that nobody disturbs (`CommandAlone`, `OperationAlone`), restarts that did nothing
and directories that were not put back included.

Every inductive invariant was checked with TLC as an invariant of its component
before it was proved.

The assumptions are those on the constants (`BoundsAssumption`,
`NoCredAssumption`, `TrafficAssumption`, `AccessAssumption`, `HostAssumption`,
`OperationsAssumption`, `EnrollmentAssumption`, `RealityAssumption`,
`HostBounds`): bounds are natural numbers, and positive where a first message or
version exists; sets are finite where sums are taken over them; special values
are not values.

What stays with TLC: all liveness, which is under fairness; `ShortMonthsClamp`,
which is about what the recursive `DaysBefore` computes for every calendar and
needs induction over data; `CacheMatchesLedger` and `EstimateFollowsUse` of
TrafficBudget and the invariants of Notifications, Reminders and SuiClients,
which have not been proved yet; and `QuiescentAgreement` and
`UnmanagedUntouched`, which are false.

## 7. Not modelled

* Text: subscription formats, guides, messages, logging, the web console.
* Parsing and validation of requests, configuration and transport.
* Rows that are edited in one transaction and shared with nobody: exit proxies,
  tags, reports, sessions, rate limits, telemetry and its retention.
* Issue and revocation of subscription tokens, each a transaction on one row.
* Several bots, the replacement of a bot by another (the old offset stays,
  `store/reminder.go:405`), and the thresholds of reminders.
* SQLite itself. Immediate transactions are the atomicity of server actions.
* A restore of the server's database from a backup, which is done by hand: versions
  and kick generations fall below what agents have applied, who ignore them until
  they have caught up (`agent/agent.go:475`, `:492`).

## 8. Plan

1. Operations and Reality apply on one helper, with the listener check of a
   Reality restart.
2. The other sources of alerts; at-least-once delivery as the abstract
   specification of Notifications.
3. S-UI inbound membership, expiry and traffic baselines.
4. A restore of the server's database, with versions that go back below what
   agents have applied.
5. Proofs: `RepeatedOnlyWhenUnsure` and `CreatedComesFirst`, `ForeignUntouched`
   and `AppliedIsServed`, `CacheMatchesLedger`.
