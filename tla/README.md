# TLA+ models of autogateway

autogateway is a Go proxy in front of LLM providers. A client calls a *group*;
an ordinary group owns API keys and upstream addresses, an *aggregate* group
owns weighted sub-groups. The gateway picks a sub-group and a key, forwards the
request, retries and fails over, blacklists keys that fail, runs long video jobs
in the background, and several instances may share a database and a Redis, or
synchronise their configuration as a mesh of nodes.

This directory holds TLA+ modules of that system, TLC configurations that check
small instances, and proofs that TLAPS checks. Paths below are relative to
`src/internal/`. `PROJECT.json` maps every definition to the lines it models.

    tlc -workers 2 -config KeyPoolTxn.cfg MCKeyPool.tla     # one run
    tlapm KeyPoolProofs.tla                                 # one proof module

| Part of the system | Module | Proofs | Runs |
|---|---|---|---|
| Keys of a group: table, store, rotation | `KeyPool` (`MCKeyPool`) | `KeyPoolProofs` | KeyPoolTxn, KeyPoolFaults, KeyPoolLive |
| Video task queue | `VideoTasks`; `VideoLife` is what a user is promised | `VideoTasksProofs` | VideoTasks, VideoTasksResubmit |
| Sub-group selector with breaker | `SubGroupSelector` | (with the next) | (with the next) |
| Requests: attempts, retries, failover | `ProxyRouting`, which extends the selector (`MCProxyRouting`) | `ProxyRoutingProofs` | ProxyRouting, ProxyRoutingRace, ProxyRoutingBody |
| Merge of versioned fields | `FieldMerge` | (with the next) | (with the next) |
| Mesh of nodes: push, pull, merge, mirror | `MeshSync`, which extends the merge (`MCMeshSync`) | `MeshSyncProofs` | Mesh, MeshRole |
| Request log buffer | `RequestLog` | `ServicesProofs` | Services |
| Invitations and joins | `MeshJoin` | `ServicesProofs` | Services |
| Global task slot | `TaskSlot` | `ServicesProofs` | Services |
| Caches of settings and groups | `CacheSync` | `ServicesProofs` | Services |
| Rate-limit ledger | `RateLedger` | `ServicesProofs` | Services |
| Validation back-off | `CronCheck` | `ServicesProofs` | Services |
| Groups, aggregates, sub-groups | `GroupAdmin` | `AdministrationProofs` | Services |
| Model aliases | `AliasAdmin` | `AdministrationProofs` | Services |
| Backup and restore | `Backup` | `AdministrationProofs` | Services |
| Migration of the key encryption | `KeyMigration` | `AdministrationProofs` | Services |
| Router engine | `RouterEngine` | `RelayProofs` | Services |
| Stream translation and relay | `StreamRelay` | `RelayProofs` | Services, StreamArguments |

`Services` (`MCServices`) puts the last twelve together: they share no variable and
one of them moves in each behaviour, so that one run checks them all. `DataLemmas` holds
facts about sums, folds and numbers that several proofs use.

## 1. Inventory

**Key pool** (`keypool/provider.go`, `services/key_service.go`). State: rows of
`api_keys` (status, failure count, credential, soft delete); per key a hash
`key:<id>` and per group a list `active_keys` in the store; cooldown marks with
a TTL. Operations: SelectKey rotates the list and evicts what it cannot lend;
UpdateStatus reports success or failure in a transaction; add, restore, remove,
enable, disable, edit; load at start; realign after a mesh merge. Hard: each
operation writes table and store one call after the other, the store does not
roll back, decisions rest on a hash read before the transaction, SQLite
answers "database is locked", the process may crash. Correct means: the
rotation holds exactly the active keys, once each; nothing unusable is lent; no
key is blacklisted too early; what an administrator says stays.

**Video tasks** (`services/video_task_*.go`, `handler/video_task_handler.go`).
State: rows with a status, an owner, a lease and an upstream job id; per
instance a scan batch and a bounded number of goroutines. Operations: create,
cancel, retry, delete by users; scan, claim, create upstream, poll, renew, mark
by workers. Hard: several instances on one table coordinated only by
conditional UPDATEs, leases that expire, shutdown and crash, lost statements.
Correct means: one goroutine per task, results and cancellations are final,
every task ends, no upstream job is paid for twice.

**Selector and breaker** (`services/subgroup_manager.go`,
`failover/cooldown.go`). State under one mutex: current weights, failure
counters, cooldowns and average latencies of the sub-groups. Operations:
SelectSubGroup*, recordResult, RecordLatency, RebuildSelectors. Hard: smooth
weighted round robin, tiers, latency adjustment and cooldown fallback in one
loop, which reads the key lists of the store while others change them.
Correct means: the best open tier is used, all cooling down degrades
gracefully, the loop ends.

**Request path** (`proxy/server.go`, `services/model_resolver.go`,
`proxy/stream_integrity.go`). State: per request the attempt context, that is
sub-group, retry count, tried sub-groups, cursor in the pool of resolved
candidates, rewritten body, what was written to the client. Operations:
HandleProxy, executeRequest, handleAttemptFailure. Hard: retries within a
group, then candidates, then the selector; streams that fail after their 200;
clients that leave. Correct means: bounded calls, one answer, one final log
record, honest reports to the breaker, the right model for each sub-group.

**Node synchronisation** (`services/sync_*.go`, `services/field_merge.go`,
`handler/sync_handler.go`). State: rows with versions per field, tombstones, a
role in the database and one in the environment, per peer watermarks, websocket
connections. Operations: debounced push, periodic pull, snapshot replacement on
followers, last-writer-wins merge on masters, role switch. Hard: lost, late
and reordered messages, clocks that tie, watermarks against concurrent changes,
nodes that switch roles, pulls that overtake one another. Correct means: merging is
symmetric and independent of grouping and repetition, followers mirror their
master, deletions are not undone.

**Invitations** (`services/sync_invite.go`, `services/sync_peer_manager.go`). State:
tokens, peers on both sides. Hard: a token used twice at once, an answer that is lost
after the parent has changed. Correct means: one child per token, and both sides
agree on the key after an undisturbed join.

**Services in the background**, each a few state variables.
- Rate ledger (`ratelimit/ledger.go`): counters with TTLs, checked and
  incremented in two steps. The limit is overshot by no more than the callers
  that decide at once and the faults of the store.
- Request log buffer (`services/request_log_service.go`): pending set and
  bodies in the store, flushed in batches by several instances. No log is
  doubled; none is lost but those that a flush lets go or that wait too long.
- Task slot (`services/task_service.go`): one status in the store, read, changed
  and written back by three kinds of tasks. The slot never stays taken.
- Cache synchroniser (`syncer/cache_syncer.go`, `services/group_manager.go`,
  `config/system_settings.go`): caches, hooks, subscriptions. Instances that
  are subscribed settle on the last committed data.
- Validation back-off (`keypool/cron_checker.go`): failures and last attempt per
  key. A key that works again is back within the longest wait.

**Administration.** Groups and aggregates (`services/group_service.go`,
`services/aggregate_group_service.go`) and aliases (`services/alias_service.go`):
rows and links, read before the transaction that writes them, by several
administrators at once. Correct means: aggregates never nest, links join
groups that fit, a pool of candidates is renamed as a whole. Backup (`backup/`):
what was exported is what an import restores, whatever collides with it. Key
migration (`commands/migrate.go`): reads every key, stops anywhere, runs again;
no key may be encrypted twice.

**Router engine** (`router_engine/`): session memory, filters and a weighted round
robin whose state is read and written in two steps. Rounds cancel out, sessions
stick. **Stream translation** (`apicompat/`, `proxy/stream_*.go`): a state machine per
stream that must emit well-formed frames wherever the upstream stops.

**Other parts.** Channels, error classification, handlers, parameter overrides,
pricing, freemodels, i18n: sequential validation, conversion and persistence
around the parts above; `PROJECT.json` gives the reason for each. The Vue frontend
(`web/`), docs and scripts are outside of this project.

How the parts interact:

    client -> proxy -> model resolver -> selector -> key pool -> upstream
                 |                          ^            ^
                 |  recordResult            |            |  UpdateStatus,
                 +--------------------------+            |  CoolDownKey
                 +---------------------------------------+
    administrator, cron checker, mesh merge, start -> key pool
    group reload (cache synchroniser) -> RebuildSelectors
    user -> video_tasks table <- workers of every instance -> upstream
    client -> router engine -> proxy;  proxy -> stream translation -> client
    proxy -> request log buffer -> database
    administrator -> groups, aliases, backup -> Invalidate -> caches of all instances
    node <- push, pull -> node;  merge -> key pool (realignment), caches

Key pool and routing meet in one bit per sub-group, "has active keys"
(`hasActiveKeys` reads the length of the list). `ProxyRouting` lets that bit
change at any time, which covers everything that `KeyPool` can do to it.

## 2. Plan

Order: what every request depends on first.

1. `KeyPool`, with proofs. Done.
2. `VideoTasks` refining `VideoLife`, with proofs. Done.
3. `SubGroupSelector` and `ProxyRouting` that composes it with the requests,
   with proofs. Done.
4. `FieldMerge` with proofs, `MeshSync` that extends it, with a proof that merging is
   symmetric. Done.
5. The background services: `RequestLog`, `MeshJoin`, `TaskSlot`, `CacheSync`,
   `RateLedger`, `CronCheck`, with proofs. Done.
6. Administration: `GroupAdmin`, `AliasAdmin`, `Backup`, `KeyMigration`, with proofs. Done.
7. `RouterEngine` and `StreamRelay`, with proofs. Done.
8. Second round of proofs: hashes, failure counts and loads of the key pool
   (`StoreFollows`, `CountNeverAhead`, `NoPrematureBlacklist`, `LoadServesActive`),
   `CurrentsCancel` and `ChoiceIsBest` of the selector, type invariant of the requests.
   Done.
9. The tables of the mesh: its type invariant and `NoStaleRevival`. Done.
10. The type invariant of `Services` as a whole; that mirroring makes a follower show what
   its master showed (`AnswersMirrored`), proved along the folds. Done.
11. Open. Models: settings, sub-group links and the excluded categories of the policy in the
   mesh, classification of prompts, parameter overrides.

## 3. The modules

### KeyPool

One step per database statement and per store call; goroutines interleave
between any two of them.

| Variable | Code |
|---|---|
| `row` | committed rows of `api_keys` |
| `hash`, `listed` | the hash of each key and its number of entries in `active_keys` |
| `cooled` | keys under a cooldown mark |
| `op` | for each goroutine in a transaction: kind, hash read beforehand, struct it works on, store calls still to make, tries |
| `sel` | for each SelectKey call: its place in the loop, the hash it read, the fallback, what it returned |
| `scan` | a realignment or load: snapshot of the table, keys still to do |
| `fails`, `up` | history of counted failures; whether the server takes work |

A transaction is `SuccessRead`, `FailureRead`, `AdminBegin`, `AddBegin` or
`EditRow`, then `First` (the SELECT), `Update`, one `StoreStep` per store call of
`Plan`, `Commit`; `DatabaseLocked` retries it or gives it up, `StoreFails` is a
store call that fails. SelectKey is `SelectRotate`, `SelectRead`, `SelectDrop`,
`SelectForget`. `SyncFind`, `SyncKey`, `SyncStep`, `SyncDone` are
SyncGroupKeysFromDB after `PeerMerge`; `LoadFind`, `LoadKey`, `LoadClear`,
`LoadPush` are LoadKeysFromDB. `Crash` loses what is in flight and, for the
memory store, the store.

Abstractions: the order of the list (any listed key may come next); the verdict
of the rate ledger (open); batches are per key; the length that bounds the
attempts of SelectKey is the constant `MaxSkip`. Left out: RemoveKeysFromStore.

`RowLock` says whether the SELECT locks the row. SQLite serialises writers. On
MySQL and PostgreSQL the code asks for `FOR UPDATE` through
`Set("gorm:query_option", ...)` (provider.go:292), an option of the first gorm
version that the second ignores, so there the first lock is the UPDATE's:
`RowLock = FALSE`.

### VideoTasks and VideoLife

`row` is the table, `batch` the ids of a scan, `exec` the goroutines (place, task,
time until their next step must be over, time until the deadline), `state`
whether an instance has been told to stop, `faults` the faults so far. Actions:
`Create`, `Retry`, `Cancel`, `Delete` of users; `Scan`, `ScanGivesUp`, `Claim`;
`CreateReturns`, `GetFails`, `PollCheck`, `PollStops`, `PollRenew`, `PollAsk` of a
goroutine, each with its UPDATE, which may be lost (`Effect`); `Stop`, `Restart`,
`Tick`. Time is discrete, leases and deadlines are kept as ticks left, so it
needs no bound.

`VideoLife` is the view of a user: a task is pending, runs, ends once, with a
video only if it completed; nothing that is canceled or deleted comes back.
`VideoTasks` implements it under the mapping `Seen` (status and whether a URL is
shown).

### SubGroupSelector and ProxyRouting

The selector keeps `config` (weights, priorities), `current` weights, `breaker`
(failures, ticks of cooldown left), `latency`, `keys` (sub-groups with active
keys) and `sel`, the selection in progress: the mutex is taken exactly while `sel`
is not `Nobody`. One turn of the loop is one `SelectStep`, because each turn reads a
key list from the store and others may change it in between; the tier is
computed when the selection starts. `Failed` and `Succeeded` are recordResult
with the durations of `Cooldown` (Classify, then Decide), `Rebuild` is
RebuildSelectors, which starts with fresh counters.

A request is a record in `req` with the phases new, choosing, keying, sent,
streaming, done. `ArriveDirect` and `ArriveAggregate` are HandleProxy; `Choose` and
`Chosen` surround a selection; `SendUpstream`, `NoKey`, `Unsendable`,
`UpstreamAnswers`, `StreamFlows`, `Abandon` are executeRequestWithRetry; `Retry`, `GiveUp`,
`Failover` are handleAttemptFailure; `ClientLeaves` is the client. `Leave` makes room
for the next request.

Abstractions: six classes of failure; an answer decides whether it is a stream;
the moving average moves anywhere between its old value and the sample, among
`Latencies`; `failures` saturates at `MaxHits`; store errors while counting keys,
failing group or channel lookups on a failover are left out; a selection that
overlaps a rebuild counts as before it.

### FieldMerge and MeshSync

`FieldMerge` is the merge of a versioned JSON column (field_merge.go) as operators: a
column maps fields to cells of a value and a version, `MergeCell` picks the cell that
survives, `MergeColumn` adds the fallback for columns without versions. `Render` is the
order in which `fmt` prints values, which decides ties.

| Variable | Code |
|---|---|
| `env`, `slave`, `parent` | role in the environment, setting `node_is_slave`, peers marked `is_master` |
| `groups`, `keys`, `aliases` | the rows of each node, with local ids, times and tombstones |
| `synced` | `last_synced_at` per peer |
| `edit` | an UpdateGroup between its read and its Save |
| `net`, `pull` | frames under way; answers that the loop and a manual pull wait for |

`Push` is pushToPeers with the payload of `Since`, over connections that either side dialled
(the two ends judge the role differently, `Accepts`); `Receive` is ProcessPayload as one
transaction (`Merge`); `PullServed` and `PullApplied` are a pull, which merges or, on a
follower, replaces (`Replace` is ApplySnapshot); `SetRole` and `SetPeerMaster` change
roles; `FrameLost`, `PullLost` are faults and overtaking is free choice. Abstractions: one
credential per group, one candidate per alias; a local edit is later than what the node
holds, so that ties occur between nodes only; a key takes a tick to travel; the mark of a
push is taken together with its payload. Left out: sub-group links and settings as rows (a merge of settings
may carry the sender's `node_is_slave`; `SetRole` changes a role by itself at any time),
the categories of the policy, ciphers and signatures.

### Services

Twelve modules, each with its own Init, Next, variables and type invariant. They share
nothing that their properties speak of, so `Services` lets one of them (`focus`) move in
each behaviour; the sum of their state spaces is checked and not the product.

- `RequestLog`: Record writes body and pending mark in two calls (`RecordBody`, `RecordPending`) or
  goes to the database (`RecordDirect`); flush is `FlushStarts`, `FlushPops`, `FlushLoads`,
  `FlushWrites`, `FlushReadds`, `FlushDeletes` on each instance. `BodyExpires` counts failed
  flushes instead of time; `dropped` are the logs that a flush let go.
- `MeshJoin`: JoinParent and JoinEndpoint statement by statement: the conditional UPDATE of the token
  (`TokenConsumed`), look-up and write of the peer (`PeerLookedUp`, `PeerStored`), the child's
  transaction (`JoinApplied`), answers that get lost (`JoinFails`).
- `TaskSlot`: StartTask, UpdateProgress and EndTask are each a read and a write of one status
  (`StartReads`/`StartWrites`, ...), chunks may fail, the status expires
  (`SlotExpires`), and MemoryStore deletes an expired item in a second step (`PollDeletes`).
- `CacheSync`: a program of steps per handler and listener (`GroupInvalidate`,
  `SettingsInvalidate`): load, store, hook, rebuild of the selectors, publish; subscriptions
  with a buffer, lost ones, failing loads and publications; a master and, in some deployments, a slave.
- `RateLedger`: Allow and Record counter by counter inside SelectKey's scan; minutes and
  days pass between any two calls, calls fail, keys cool down.
- `CronCheck`: the tick of the checker with `Backoff` and `Skipped` (shouldSkipByBackoff),
  restarts, failing queries, keys that break, are repaired or restored by hand.
- `GroupAdmin`: groups and links with their tombstones; create, copy, change, delete, link, unlink,
  automatic join and the joins at a start, each with the reads that precede its
  transaction. Left out: order, weights, names, model refresh.
- `AliasAdmin`: candidates of aliases, edited, replaced, renamed and exposed by several
  administrators, lists that UpdateGroup saves as it read them (`UpdateReads`, `ListsEdited`,
  `ListsKept`), and the seeding of reserved names at a start (`Boots` to `Seeded`).
  Left out: weights, priorities, the enabled flag, suggestions.
- `RouterEngine`: a request walks through session memory, alias, exact name or tier, the filters
  (one query each), then reads (`SwrrGet`) and writes (`SwrrSet`) the round robin's state, is
  routed and answered. The classification of a prompt into a tier is a choice;
  session memory expires, and reads and writes of it fail (`StickyUnread`, `StickyUnset`).
  Where no candidate is left the engine is done with a request: whether the lists of the group
  it asked for then refuse it (405) changes no state and is left out.
- `Backup`: the database as a set of rows by name; export, preview token, import with three
  strategies, tombstones it collides with, the automatic join afterwards. File
  format, compression and cipher are left out.
- `StreamRelay`: one stream per behaviour, of five ways: both translators with their blocks,
  the relay that repairs tool calls, other streams, audio. The upstream sends any parts in
  any order its protocol allows and ends anywhere. The cap of 64 KB on held
  headers is left out.
- `KeyMigration`: the tool statement by statement (`PreCheck`, `createTempTable`, `processBatchToTempTable`,
  `CopyEnds`, `verifyTempColumns`, `switchColumns`, `clearCache`, `dropTempTable`), stopped
  anywhere, run again with any secrets, beside a service. A value is the list of secrets it is
  encrypted with. Left out: tombstones, two tools at once.

## 4. Runs

| Run | Instance | Shows |
|---|---|---|
| KeyPoolTxn | 1 key, 2 transactions of any of seven kinds, 1 caller, threshold 2, 2 tries, rows locked, lock refused at the UPDATE | `OnlyActiveListed` and `ListedOnce`: whatever order stale reads, evictions and commits take, only active keys are listed, once. `StoreFollows`: at rest the hash says what is committed. `CountNeverAhead`, `NoPrematureBlacklist`: failures are never over-counted. |
| KeyPoolFaults | no row lock, store calls fail anywhere, merges, loads and crashes with a surviving Redis | `LendsUsable`: SelectKey never lends a partial hash or one it did not read as active. |
| KeyPoolLive | fairness, memory and Redis crashes, database locked at every point, 2 credentials | `OperationsEnd`; `LoadServesActive`: after a master's start each active row is served once with its own credential. |
| VideoTasks | 2 tasks, 2 instances with 1 slot, lease 3, Create 1, poll 1, deadline 2, 1 fault | `SingleExecutor`, `OwnerFinishes`, `ImplementsLife`, `EveryTaskEnds`. |
| VideoTasksResubmit | the same | A task taken over is submitted again although its job id is known. |
| ProxyRouting | 2 sub-groups, equal and distinct priorities, 1 request at a time, one retry on sub-group 1, latencies 1 and 4 | `CallsBounded`, `BlameAfterAllTries`, `EndsOnce`, `ChoiceIsBest`, `EveryRequestEnds`. |
| ProxyRoutingRace | 2 concurrent requests, distinct priorities | `ChoiceIsBest` when reports and key losses of one request meet the selection of the other. |
| ProxyRoutingBody | violation | After a candidate failed, the selector's sub-group gets the body with the candidate's model. |
| Mesh | 2 nodes, both masters or master and follower, 2 group names, 1 field with 2 values, time to 3, 2 edits or reconnections, 1 frame under way | `NoStaleRevival`, `MergeSymmetric`; `AnswersMirrored`: whatever happens while an answer is under way, applying it makes the follower show what its master showed; `FollowerMirrors`: in the end it shows what the master shows. |
| MeshRole | violation, two masters by environment | A node made a follower while it runs merges its master's snapshots and keeps what the master deleted. |
| Services | see below | `LogsCountedOnce`, `LogsAreWritten`, `JoinsSound`, `SlotFreeWhenDone`, `SlotFreed`, `CachesSettle`, `OvershootBounded`, `WorkingKeyReturns`, `AdminSound`, `RouterSound`, `BackupSound`, `StreamsSound`, `MigrationSound` |
| StreamArguments | violation | Arguments in the first part of a tool call are sent to block 0 of the answer. |

Why the bounds are enough. Keys do not interact except through the list, and the
list is a count per key: one key with two transactions and a caller has every
interleaving of the code that is racy. Threshold 2 is the least for which a
report can be below, at and beyond it; `MaxFails` = 2 reaches it. Two instances
with one slot each contain takeover, and one fault suffices for it; the lease of
3 is the least that satisfies the condition of `VideoAssumption`. (The code
has minutes for seconds; the assumption states what is needed.) Two sub-groups
give tiers, a pool candidate plus a fallback and both outcomes of every loop.
The bound `MaxHits` = 0 leaves the ladder of server failures at its first step; the
longer cooldowns of 2 come from the other classes, and a run with `MaxHits` = 1
and `ServerMax` = 2 (682,584 states) has the same results. `MaxListed` and
`MaxFails` are guards and cut no behaviour that the properties could
tell apart: a list count of 3 already violates `ListedOnce`. The strengthened
`RotationInv` is proved and can be checked by adding it to `KeyPoolTxn.cfg`.

Mesh: two nodes have both roles, both ends of a connection and both directions of a
merge; two edits and one frame suffice for a delete that overtakes an update and for
an old copy that arrives after it. A deployment with two masters is where field merges
happen, one with a master and a follower where rows are replaced. In `Services` each part
has the least instance in which its steps can overlap and fail: two logs and two flushing
instances with a batch of one, a fault at each of two moments and a crash; two
children with two tokens; three tasks with a fault and a crash; two instances, two
handlers and a buffer of one message; two callers for two keys with a limit of one
per minute and two per day; two administrators with three groups and three
requests; two calls over pools of one and two candidates with two weights; one backup
with every kind of row and one import after two edits; streams of four parts with two
tools; two secrets, two rows, a batch and a sample of one, two runs of the tool.
The run has 740,114 states.

Fairness. `KeyPool`: a goroutine that runs goes on (WF), and the database grants a
row lock that is free again and again (SF on `First` and `Update`). `VideoTasks`: the
loops of a living process go on, a stopped process is restarted by its
supervisor, time passes; users owe nothing. `ProxyRouting`: goroutines go on; upstream calls
end by their request timeout and streams by the header-hold timeout. Of the
steps of a request fairness is strong: several take the selector's mutex, and a Go mutex is handed
to whoever has waited a millisecond for it, so that nobody who asks again and again is
passed over for ever. (With weak fairness and two callers the property fails.)
No fairness is assumed of upstream successes, other requests or key changes.
`Mesh`: time passes, a handler that has started ends, the loop keeps pulling, not every one of
its pulls is lost and a pull ends by its timeout; users and pushes owe nothing.
`Services`: an instance flushes at every tick of its interval and goes on with a flush it
has begun; some task of those that have a process goes on; the time to live of a
status passes. Deadlock is checked in the runs of the key pool, the video tasks and the
requests; in the others the bounded number of users' requests, faults or parts of a
stream comes to an end, and they say `CHECK_DEADLOCK FALSE`.

## 5. Proofs

All for every value of the constants that the named assumptions admit. A proof module
has an inductive invariant per part, one lemma per action that preserves it, and ends in
the theorems. Induction over data is out of the prover's reach; where a fact about every
number or every finite set is needed, the least number for which it fails is taken (the
naturals are well ordered, which Z3 and `FiniteSetTheorems` know) and led to a
contradiction.

`DataLemmas`: what a sum over a finite set is when one value changes, that a fold is a sum
and does not depend on the order in which it takes its elements, that a fold over values of
any kind exists and stays in a set that its steps do not leave, that a finite set of numbers
has a least and a greatest one.

### Key pool (`KeyPoolProofs`)

For any number of keys, goroutines, crashes and store faults, with or without row locks:
**TypeCorrect**, per action from parts of the type (`TypeParts`), and **LendsUsableCorrect**.
`LendsUsable` needs `LendsInv`, which adds that the *fallback* a caller remembers is usable
too, for it may be returned many steps later, after its hash has changed.

Under `Serialised` (row locks, no store fault or failing commit within a transaction, no
realignment, crash or edit):

- **RotationCorrect**, **OnlyActiveListedCorrect**, **ListedOnceCorrect**. `OnlyActiveListed`
  speaks of quiet moments and is not inductive. `RotationInv` says what holds in the
  middle: a goroutine that holds a row works on its current contents and nobody else holds
  it (`RowHeld`); while the LRem is to come the list may be anything, afterwards it is
  empty or the row will be active, and an LPush comes last and finds it empty
  (`ListMidway`). SelectKey only takes entries away, so callers may do what they like.
- **StoreCorrect**, **CountNeverAheadCorrect**, **StoreFollowsCorrect**,
  **NoPrematureBlacklistCorrect**. The count in the hash alone is not inductive: several
  failures are counted before the first of them reaches the store. `StoreInv` therefore
  adds those on their way: the hash's count plus the number of `Claims` (failures that
  are reported and not yet added) is never more than the reports. Of the rest of the hash it says
  that it follows the struct a goroutine works on, but for what its remaining store calls
  will rewrite (`HashMidway`); at rest this is the committed row (`HashAtRest`). The
  theorem on blacklisting follows because a failure decides on a hash that it read
  earlier, whose count was covered by reports already (`CountMidway`), and reports
  are never taken back.

Under the one assumption that no store call of a load fails, with crashes and everything else:
**LoadServesActiveCorrect**. `DownInv` says that until the server takes work only one
scan moves, on a snapshot that is the table, and that each key it is done with has its
hash.

### Video tasks (`VideoTasksProofs`)

**TypeCorrect**, **ImplementsLifeCorrect**: refinement of `VideoLife`, without any assumption on
time. **SingleExecutorCorrect** and **OwnerFinishesCorrect** under `Punctual`. The
invariant `LeaseInv` says that the lease of a running task outlives the next step of its
goroutine by as many poll gaps as faults may still cost renewals (`Covered`);
`CreateMax + (MaxFaults + 1) * PollGap <= Lease` makes the first lease long enough.

### Selector and requests (`ProxyRoutingProofs`)

**CurrentsCancelCorrect**, for any sub-groups, weights, latencies and interleaved requests:
each turn adds the effective weights and takes their total from the chosen one, and the total
that the code adds up in a loop is the sum of those weights over the same sub-groups
(`DataLemmas`). **CallsBoundedCorrect**, **BlameAfterAllTriesCorrect**, **EndsOnceCorrect**, for
any number of requests, sub-groups, pools and retries. `RoutingInv` says of each request
that it has called nothing it has not tried, the sub-group it is at exactly once per try so
far, and those it blamed as often as it may (`Spent`), and of the selector that it works
for a request that waits, on sub-groups that this request may still use (`SelSound`). That
last part carries the bound over a selection during which everything else may change.

**TypeCorrect** and **ChoiceIsBestCorrect**: the loop visits the children in an order that
nobody chooses and keeps the best so far. `SelectorInv` says of every place in the loop that
the tier is the best one of the children that may be used, and that what it holds is the best of
those it has visited (`ChoiceSound`): the greatest current weight among them, and of two with
the same one the one visited first. The types come with it, for the current weights and
the ladder of cooldowns decide what the comparison means.

### Mesh (`MeshSyncProofs`)

**MergeFieldsCommutes**, **MergeFieldsAssociates**, **MergeFieldsIdempotent**,
**MergeColumnCommutes**, for any fields, values and versions. Each follows cell by cell: the
merge picks the greater of two cells in a total order of version, presence and rendering.
Commutativity needs `RenderInjective`, that no two values print alike; the grouping and
the repetition of merges do not.

**TypeCorrect**, **NoStaleRevivalCorrect** and, if no two values print alike,
**MergeSymmetricCorrect**, for any nodes, deployments, names and bounds on time. `MeshInv` is
inductive; beyond the types it says:

- the tables of every node are sound: finite, no id used twice, none above the number of
  rows (so that the next id is free), living rows unique by name or by group. A write is
  harmless when its row *fits*: it has the id of a row, or the next one, and repeats no
  living value;
- on a node that merges no living key is older than a deletion of its credential (`Fresh`).
  `MergeKey` compares a key with the latest deletion; that this is the one with the
  greatest effective time needs that no key, of any node or frame, was written after now or
  after its own deletion (`KeyRow`);
- frames and answers hold parts of tables as they once were, which only grow older
  (`Sent`); an update that has read its group will find the row again, deleted or not,
  because neither a merge nor a mirroring gives up an id (`EditsSound`).

A merge is a fold over the rows of a payload. What has been built up after some of them
lies in `Accumulator`: sound tables, fresh where they were, with all ids of before, and a
map of the sender's ids. Each of `MergeGroup`, `MergeAlias`, `MergeKey`, `SnapGroup`,
`SnapKey`, `SnapAlias` stays in it for any row, so the whole transaction does (`FoldStays`).

**AnswersMirroredCorrect**: on a node that was started as a follower, an answer that is applied
leaves exactly what lived at the master when it answered. Nothing is assumed of what lies
between: both tables may have been edited, merged or mirrored meanwhile, and the two sides
use other ids for the same rows. The argument follows the stages of the mirroring (`Stages`):

- an answer has nothing twice and nothing deleted, from the soundness of the master's
  tables when it answered (`AnswersWhole`, inductive beside `MeshInv`);
- after the rows *s* of the answer are written, each of them has its copy: same name, fields,
  time and author, under the id that the map gives it (`GroupsCopied`, `ChildrenCopied`). The
  statement is indexed by *s* and proved row by row (`SnapGroupsCover` and its like): the write
  of the next row must overwrite no copy that is there, which is why it matters that ids are
  not used twice and that living rows are unique;
- two groups of the answer are never mapped to one row here (`CopiesOneToOne`), or keys of one
  would replace those of the other;
- what is then deleted is what has no counterpart in the answer, and no copy is among it
  (`GroupsLeft`, `KilledLeft`), so that both sides show the same (`ChildrenShown`).

### Background services (`ServicesProofs`)

A step of `Services` is for each part a step of that part or a stutter (lemmas `LogPart`,
`JoinPart`, ...), so each invariant is proved for the part's own actions and lifted to the
whole.

- **SlotFreeCorrect**: undisturbed, a slot that is taken is taken by a task that still has to
  end (`TaskInv`), also while starts overwrite one another.
- **JoinsSoundCorrect**: a token admits one child because the conditional UPDATE takes it
  (`TokenTaken`). Agreement on the key needs more (`JoinInv`): a request that runs alone
  finds what it was answered in the parent's row, and a second request of the same child
  makes both disturbed.
- **LogsCountedCorrect**: a name waits in one place, pending or with one instance, and what
  waits has no row yet (`LogInv`).
- **OvershootBoundedCorrect**: the counter of a window and what was lent differ by the failed
  calls; requests that passed the check and are not counted yet are part of the bound
  (`Within`), and there are never more of them than callers.
- **WorkingKeyReturnsCorrect**: `CronInv` bounds the time since the key works again by the time
  since the last probe and the last tick. The proof showed that the property could be
  stated one tick tighter; it is.
- **CachesSettleCorrect**: `CacheInv` says of every cache that it follows the database, or
  which message, listener or handler will see to it (`SettingsDue`, `GroupsDue`,
  `ConfigDue`), for every place in the eleven programs that handlers and listeners run.

- **ServicesTypeCorrect** is in `RelayProofs`, which extends the other two modules: the parts'
  invariants imply most of the types. What they lack is shown beside them: sync keys in
  use were made and a child follows at most one master; the key that a caller falls back to
  is one it has seen; a run of the migration puts at most one secret more around a value.

### Administration (`AdministrationProofs`)

- **AdminSoundCorrect**. Groups (`GroupInv`): what a request read before its transaction still
  holds of groups that no other request has touched (`LinkOK`, `GroupEditOK`), and only a
  group in `raced` is touched by two (`TouchedApart`); `NoNesting` holds even then, for
  kinds never change. Aliases (`AliasInv`): a row without a target is a placeholder, pools
  of two names are apart unless two pool edits overlapped, an exposed model stays so.
- **BackupSoundCorrect** (`BackupInv`): what is in a file was sound when it was exported, and
  each strategy keeps the rows that others need, for any set of rows. `RestoreSound` speaks of the
  file and of the content before.
- **MigrationSoundCorrect**. `MigrationInv` adds to `MigrationSound` what each step has found
  out (`Progress`): after the check the rows are those of the secret the tool comes from;
  what is copied is encrypted with the one it goes to; no row up to the last copied id, and
  none at all after the copy, is missing in the copy. It holds as long as no running
  service stores keys against the rules (`misused`).

### Router and streams (`RelayProofs`)

- **RouterSoundCorrect**: the vectors of the weighted rotation are `Balanced`, those that
  requests have read and not yet written too, of whatever length; a turn of a session that counts
  is on its way to the candidate of the turns before (`Follows`).
- **StreamsSoundCorrect** (`StreamInv`): at most the last block is open, what was told to the
  client matches the blocks and the reason of the upstream, for any number of tools and
  parts in any order, in all five ways.

### Assumptions on constants

Written for the proofs, each checked by TLC on every run and true of the code: callers of the
rate ledger are finitely many; candidates of the router are finitely many positive ids;
the master is an instance, handlers are no listeners (`CacheSyncAssumption`); rows of a
backup name groups that may exist (`ContentAssumption`); alias targets are finitely many
and a reserved name is not one that users choose (`AliasAssumption`); a mesh has a name for its
first group, and time passes in it (`MeshAssumption`). Bounds on faults
and acts are natural numbers. `MaxHits` is at most 4: the code caps the shift of a
cooldown there, and the ladder is then a list of five values.

### Only model-checked

Every invariant and every action property of the passing runs is stated by a theorem. With
TLC alone stays liveness: `OperationsEnd`, `EveryTaskEnds`, `EveryRequestEnds`,
`FollowerMirrors`, `LogsAreWritten`, `SlotFreed`; fairness and ENABLED are out of the
prover's reach. `FollowerMirrors` rests on `AnswersMirrored`, which is proved, and on pulls
that keep being served and applied, which is what TLC adds.

One invariant has a theorem and no run: `CurrentsCancel`. What depends on it, that the
loop of a selection meets every sub-group, is checked by `EveryRequestEnds` and `ChoiceIsBest`.

## 6. Where the code does not do what its texts say

With a run: the four violation runs above and `findings` in `PROJECT.json`. Paths in this
section leave `services/` out where the file is clear.

Three more have a definition in the model and a run of one line each:

- *A disabled key comes back.* A success that read its hash before the disable writes the
  row active. `KeyPoolTxn.cfg` with `Callers = {}` and the one `PROPERTY DisabledStaysDisabled`.
- *An enabled key is missing.* SelectKey's late eviction takes a key out of the list that was
  enabled meanwhile. `KeyPoolTxn.cfg` with `Txns = {t1}`, `Kinds = {"enable", "disable"}` and the
  one `INVARIANT EnabledIsListed`.
- *No graceful degrade.* With distinct priorities a selection returns nothing although a
  cooled sub-group is left. `ProxyRouting.cfg` with `SPECIFICATION Spec` and the one `PROPERTY
  DegradesGracefully`.

Met while modelling, reproducible with other constants or by reading:

Key pool, video tasks, requests:

- *Commit refused.* With `LockedAt = {"commit"}` and threshold 3,
  `NoPrematureBlacklist` fails: `HIncrBy` sits inside the retried closure
  (provider.go:366), so one failure counts twice in the store.
- *Lost updates.* Two overlapping failure reports both write "the count that I read,
  plus one", so a key may survive its threshold.
- *Without row locks* (`RowLock = FALSE`) a removed key can come back into the list, and
  rotation properties fail.
- *Realignment.* SyncGroupKeysFromDB does not rewrite a hash whose credential is
  stale but present, works on a snapshot, and two of them at once list a key twice
  although provider.go:510 guards against that.
- *Restart.* LoadKeysFromDB leaves the list of a group alone that has no active key
  left, so what Redis kept stays in the rotation until SelectKey evicts it.
- *Suspended processes.* With `Punctual = FALSE` a process that sleeps longer than its
  lease shares its task with another one (video_task_service.go:105 rules that out).
- *Breaker.* A success is recorded when the headers arrive (server.go:493); a stream that then
  ends before its first frame counts as one failure after a reset, so the
  ladder never rises for it. A 5xx after a payment failure shortens the 24 h
  cooldown. A late success clears a newer cooldown.
- *Streams.* A client that leaves before the first frame is blamed on key and
  sub-group (server.go:517-535, unlike the branch for calls). Such a failure carries
  status 0, and `c.JSON(0, ...)` answers 200 with an error body (server.go:737).
- *Selection.* A tier is computed before the loop; if its last key goes meanwhile, the
  selection returns nothing although a lower tier is up. The branch that answers 404 for a
  model that nobody serves (server.go:200-211) is not reached, the selector
  returns an error before. A sub-group without a key at SelectKey ends
  the request without failover (server.go:325-337).

Mesh:

- *Roles.* pullOnePeer (sync_peer_manager.go:575), pushToPeers (353) and the client end of a
  connection (288) ask the environment's role; everything else asks the database first.
- *References.* A payload that carries a key or an alias but not its group leaves it with the
  sender's raw group id (remapGroupID); keys merged into a group that was deleted here
  become orphans, also when the deletion is part of the same payload: part 2 deletes the
  group's keys so that none lives in it (sync_service.go:466), part 5 may create one again; the
  look-up of an alias may hit a tombstone.
- *Watermarks.* Handshake and push stamp `last_synced_at` with the present time; older rows
  that arrived by a merge are then never passed on.
- *Versions.* CreateGroup stamps no ConfigVersions although the comment in field_merge.go
  says that local writes do. At equal record times both sides keep their own.
- *Nodes that follow each other* and are followers by environment never converge. The three
  statements of SetPeerMaster are no transaction (types.go:364); UpdatePeer saves a stale
  row; a lost answer to a join leaves the child with a key that is out of date until it
  joins again.

Administration:

- *Removed sub-groups.* `idx_group_sub` (types.go:65-66) also counts soft-deleted rows, so a
  sub-group that was removed from an aggregate can never be added again, the automatic join fails
  silently, and an import with such a link fails as a whole. For aliases the same was
  repaired (types.go:208-211).
- *Groups.* AddSubGroups compares endpoints with the first existing sub-group, which may
  speak another protocol (aggregate_group_service.go:92-95). CopyGroup copies the mark of a system
  group, so the copy cannot be deleted. UpdateGroup saves the whole row that it read
  before its transaction: changes of others are lost, a row deleted meanwhile is alive again.
  DeleteGroup leaves aliases behind; no name finds them, so `Backup` takes them
  with the group.
- *Router engine.* filterByActiveKeys, filterByExposed and PickByExactName query by table name
  and count soft-deleted rows: a group whose keys were all removed still gets requests.
- *Aliases.* Update may give a reserved placeholder a group, after which it can be deleted
  and is not seeded again (against alias_service.go:18-22). RenameAlias and
  ReplaceCandidates read outside their transactions: pools merge, or an alias is renamed in
  half. A duplicate target makes the seeding at a start fail, which is only logged.
- *Backup.* Priorities of sub-groups, available models and versions do not survive a round
  trip; overwriting resets them; replacing loses keys that cannot be read.
- *Key migration.* A service that runs meanwhile can leave two encodings; detection looks
  at 20 rows; tombstones keep the old encoding; two tools at once share one table.

Background and streams:

- *Request log.* A crash between SPopN and the write loses logs, and so does a body that the
  store fails to read (request_log_service.go:152-159) or a put-back that fails; interval 0 leaves those that
  are pending unwritten.
- *Rate ledger.* A cooled key that is lent as the fallback is not asked for its limits;
  MemoryStore never purges old counters.
- *Back-off.* It stops at 16 h; its comment says 24 h (cron_checker.go:60). Its entry
  survives a manual restore.
- *Task slot.* Two starts at once overwrite each other's status, and the deletion of an
  expired item may hit a fresh one.
- *Caches.* At a slave a group's effective settings may stay stale after a change of
  the system settings (system_settings.go:280 promises otherwise); a subscription that was
  lost reloads nothing when it is back (cache_syncer.go:160). A publication that fails is not
  repeated: the other instances keep what they have until the next one.
- *Stream translation.* An empty Anthropic upstream still makes the chat translator send
  `[DONE]`, which rules out a failover. Arguments of interleaved calls arrive after the stop of their
  block. A finish frame that two reads split is added a second time.
  `stream_idle_timeout` does not apply to a translated stream after its first event.

## 7. Not modelled

- HTTP handlers, middleware and routes of the administration API: parsing and layout
  around services that are modelled.
- Catalogue of models, free models, pricing, usage, deduplication: tables and conversions.
- Parameter overrides: edits of a JSON body, one after the other.
- Within modelled parts: what section 3 names under "left out"; the contents of requests and
  answers in one piece (conversions from one format to another); URL selection and headers of
  channels; the string matching that classifies errors (its classes are inputs); probes of
  models and modalities; schema migrations other than that of the keys; the order in
  which one breaker hears of two requests (subgroup_manager.go:471) and a change between the read and
  the mark of a push (sync_peer_manager.go:422) are known not to be safe and have no property.
