# yaad-index in TLA+

This directory is a formal specification of the parts of yaad-index where
several goroutines, several writes or several failures meet. Every definition
is translated from the Go source under `src/`; `PROJECT.json` names, for each,
the lines it stands for. TLC checks the modules on small instances and TLAPS
proves their safety properties for every value of the constants.

## 1. The system

yaad-index is a daemon that turns URLs into markdown files. A plugin fetches a
URL, the daemon writes an entity's file into a vault, derives rows of an SQLite
store from it, and publishes what changed on an in-process bus. Workflows that
the operator keeps as markdown files react to those events: they write notes,
gaps, edges and tasks, and their writes publish events again. An operator or an
agent fills gaps, edits, archives and deletes entities over HTTP, MCP or the
command line.

| component | state it keeps | operations | module |
| --- | --- | --- | --- |
| write locks (`internal/writelocks`) | artifact to holder | Acquire, AcquireWithTimeout, release | `WriteLocks` |
| event bus (`internal/eventbus`) | topic to subscriptions | Subscribe, Publish, Unsubscribe | `EventBus` |
| workflow engine (`internal/workflow/engine`) | queue, registry, dedup keys, decision ring | bus handler, worker, Dispatch, Reconcile, Shutdown | `WorkflowEngine` |
| workflow actions (`internal/workflow/actions`) | none | vault, edge, task, note and plugin actions | `EntityEdits`, `TaskFiles`, `EdgeWrites`, `VaultIndex` |
| workflow loader (`internal/workflow/loader`) | files, names, mtimes, collisions | Load, poll | `WorkflowLoader` |
| ingest tracker (`internal/api/ingest_tracker.go`) | records, runner per key | begin, stream, persist, settle, wait | `IngestTracker` |
| command fan-out, plugins (`ingest_command_fanout.go`, `internal/plugins`) | subprocess per call | one run per instance, its output and its end | `PluginCommands` |
| gmail plugin (`internal/gmail`) | label in the mailbox | poll, emit, label | `PluginCommands` |
| synchronous ingester (`internal/api/ingest_sync.go`) | none | ingest by URL or by name, wait | `WorkflowEngine`, `EdgeWrites` |
| vault (`internal/vault`) | files, archive subtree | write, archive, restore, move, rename, delete | `VaultIndex`, `EntityEdits` |
| auto-commit (`internal/vault/autocommit.go`) | batch and timer, git index and HEAD | OnWrite, flush, Close | `AutoCommit` |
| store (`internal/store`) | entities, edges, provenance, notations, aliases | one transaction per call | by every writer's module |
| reindex (`internal/reindex`) | file bookkeeping | full and incremental pass | `VaultIndex` |
| edge writes (`internal/edgewrite`) | none | create edge, resolve a name, auto-fetch | `EdgeWrites` |
| fill and gaps (`internal/api/operator_fill.go`) | gap state in the file | fill, clear, defer, undefer | `EntityEdits` |
| user content, notes (`internal/api/user_content_*.go`, `notes*.go`) | sections and notes in the file | create, add, replace, rename, move, delete | `EntityEdits`, `VaultIndex` |
| tasks (`internal/workflow/tasks`) | task files | create, append, resolve, archive | `TaskFiles` |
| the rest | | configuration, authentication, MCP bridge, reads, attachments, CLI, other plugins | none |

How they interact:

- Every writer of an entity takes the entity's **write lock** first. HTTP
  handlers and the tracker fail at once on a conflict; workflow actions poll
  until a deadline. There is no expiry: a lost release locks for good.
- A writer changes **the vault file first and the rows after it**, because the
  store can be rebuilt from the vault. It queues its events while it holds the
  lock and **publishes them after the release**, since the bus calls its
  handlers on the publisher's goroutine.
- The **bus** calls the engine's handler, which puts the event on a bounded
  **queue**; one **worker** takes it off. The worker's actions write, publish
  (into the same queue) and wait for ingests, which publish as well.
- **Dispatch** evaluates one workflow on its caller's goroutine, next to the
  worker and over the same dedup keys and decision ring.
- The **tracker** serves the HTTP handler and the engine's actions: requests
  for one URL share one runner, which goes on after the first answer.

What is hard here: the places where a goroutine looks at something, lets others
in and acts on what it saw (a bus snapshot, a row probe, a decision looked up
after the fact); the engine being publisher and consumer of one bounded queue;
a terminal state that many ends of a stream compete to set; a sequence of
writes any of which can fail; ends that must come (a wait, a cascade, a
shutdown); files that three packages write under three mutexes; an operator's
editor beside all of them; a memory of what was done that sits in somebody
else's mailbox. `PROJECT.json` lists each such place at its line under
`hazards`, with the properties that watch it or the reason why none does.

What makes each component correct:

- *write locks*: one writer per artifact; a release never frees another
  writer's lock; nothing stays locked without a closure that can free it.
- *bus*: each active subscription gets each event once, in order, and none
  published after its flag was set.
- *engine*: passes keep their order and a claim ends the event; cascades end;
  skip dispatches once; waits and Shutdown end.
- *tracker*: a key leads only to a pending record; a record settles exactly
  once; a file exists for every full row; no provenance and no event is lost.
- *loader*: a name has one file, a slot one catch-all, and registry and engine
  come to agree with the directory.
- *vault, store, reindex*: after an undisturbed pass, full or incremental, the
  rows and edges are those of the files.
- *edits*: what a caller was told is stored stays until somebody edits the same
  thing; the mirror row and the edges follow the file.
- *auto-commit*: what is written is committed unless git refuses it.
- *tasks*: what a workflow or the operator was told is true; of two picks that
  saw the same edge one is told that it is stale.
- *edge writes*: a fetch ends and leaves a connection or a task; only plugins
  introduce labels of a kind with a resolver unless the caller allows it.
- *commands*: labelled mail is accounted for, answers are those of the instances
  that were asked.

## 2. The modules

| module | models | its relatives |
| --- | --- | --- |
| `WriteLease` | what a write lock promises | abstract specification |
| `WriteLocks` | `writelocks.go` | implements `WriteLease` |
| `EventBus` | `memory.go` | |
| `WorkflowEngine` | `engine.go`, the control of `actions.go`, the wait of `ingest_sync.go` | |
| `WorkflowEngine_proof` | | proofs about `WorkflowEngine` |
| `IngestTracker` | `ingest_tracker.go`, the rows it writes | |
| `IngestTracker_proof` | | proofs about `IngestTracker` |
| `VaultIndex` | files and rows: writers, reindex, editor, crashes | |
| `VaultIndex_proof` | | proofs about `VaultIndex` |
| `WorkflowLoader` | `loader.go`, `Reconcile`, the workflow endpoints | feeds `WorkflowEngine`'s `Reloads` |
| `WorkflowLoader_proof` | | proofs about `WorkflowLoader` |
| `EntityEdits` | every in-place edit of an entity's file | one action where `VaultIndex` has "edit" |
| `EntityEdits_proof` | | proofs about `EntityEdits` |
| `AutoCommit` | `autocommit.go` | extended by `TaskFiles` |
| `TaskFiles` | the three writers of task files | composes with `AutoCommit` |
| `EdgeWrites` | `edgewrite`, edge endpoints, the gate of a fill | one envelope where `IngestTracker` has a stream |
| `PluginCommands` | fan-out, subprocess, the gmail poll | one write where `IngestTracker` has steps |
| `PluginCommands_proof` | | proofs about `PluginCommands` |
| `LocksAndEdges_proof` | | proofs about `WriteLocks` and `EdgeWrites` |
| `BusAndTasks_proof` | | proofs about `EventBus` and `TaskFiles` with `AutoCommit` |
| `MC...` | small instances for TLC | |

A component that another module details is one step in the modules that only
use it, as the last column says; the steps that are folded are those between
which the module's own actors do not meet. Two proof modules are about a pair of
modules, so in `WriteLocks` and `EventBus` the names that every module has carry
a prefix (`LocksSpec`, `LocksTypeOK`, `BusSpec`, `BusTypeOK`).

Each MC module EXTENDS its component and defines only constants. Definitions
named `X_Something`, commented "Mutated", are plausible bugs in the definition
`X`: each property is known to fail when `X` is replaced by one of them. They
are not part of any specification.

**WriteLocks.** `locks` is `Manager.locks`; `closure` has one entry per
`lockEntry` with its `released` flag; `call` is a caller inside
`AcquireWithTimeout` (`polls` counts the poll intervals left before the
deadline; a plain Acquire has none). `AcquireFree` and `AcquireHeld` are the two
outcomes of `Acquire` under the mutex, `Wake` and `Cancel` the branches of its
`select`, `Release` the closure with its identity check, `Discard` the end of an
entry's life, after which its address may come back. `WriteLease` knows tickets
only; the refinement maps a live closure to a ticket and never looks at the
map, so it says that what callers believe is what the lock guarantees.

**EventBus.** One action per critical section of `memory.go`: `Subscribe`,
`Snapshot` (under the read lock), then per subscription `CheckClosed` (the
atomic flag) and `CallHandler` without any lock; `UnsubscribeCAS` and
`UnsubscribeRemove`. History variables keep the calls made, the registration
order, whom a Publish owes a call, and what was published when a flag was set.

**WorkflowEngine.** A runner is the worker or a dispatcher; `pc` says where in
the pipeline it is, `ev` what event it evaluates, `todo` and `rest` the
workflows of this pass and the next. One action per branch of
`evaluateAndRecord` (no fire, cycle, dedup skip, fire, blank key; a subject that
fails to render is recorded as fired, as in the code), one per kind of
action step (quiet, claim, publish, ingest), `Send` and `SendStopped` for the
two cases of `enqueueEvent`'s select, `Dequeue` and `WorkerExit` for the worker's.
`Dequeue` probes the target kind for each workflow on its own.
`ingests` are tracker runners that actions started and wait for. CEL and
templates are choices among the `outcomes` a file declares; a dedup key is the
entity. `cause` and `fires` are history. `Def` gives the files, so a run is
about a concrete set of workflows.

**IngestTracker.** `request` are the handlers, `record` and `closed` the record
and its channel, `byInvocationKey` the map, `run` the runner goroutines with the
step of `persistEnvelope` each is in: acquire, read and write the file, probe,
upsert, index (provenance, notations, aliases), materialise label rows, edges,
release, settle. A step is one point where another writer can come in or the
code can fail. `vault` holds, per entity, which envelopes' provenance the file
has; `row` is absent, thin (an edge's target) or full. `told` is what the bus
was told, `unprobed` the rows whose event was given up because the probe failed.
`EmitNothing` covers disambiguation, all-empty and unusable envelopes;
`PersistFails` every error return of `persistEnvelope`.

**VaultIndex.** `file` is the vault by place (flat, one folder down, archive) and
entity, `row`, `edge` and `book` the entities, edges and `reindex_files` tables.
A handler is one step on the file and one on the rows (`op` is what it owes),
so that a crash, an error or a pass can come between. A pass is `BeginPass`
(which wipes, when full), a read and an apply per file, a sweep per vanished
path and a rederive per entity that lost an edge. Each of them can fail half-way
where the code goes on: some edges of a file applied and the file booked or
not, a path swept but still booked, an entity rederived in part. `HandWrite` and `HandDelete`
are the operator's editor, the write of a moved file keeps its stamp. `races`
counts what disturbed a pass; `sound` says that an incremental pass started
from a store which it is meant to repair. What it cannot see is excused by name in
`Repairable`: a file that went and came back under another path, and an archived
row whose file is in the walk, which is what a restore that was cut off leaves,
or an edit of an archived entity.
Part of it is `Truthful`: a file that the bookkeeping calls indexed has the row
and exactly the edges it says, because a pass that skips the file would leave
an edge too many as it leaves one too few.

**WorkflowLoader.** `workflows`, `perFile` and `mtimes` are the loader's maps.
`load` holds the two loads that race at boot: the polling goroutine's and the
synchronous one of `main.go`. A load drops what vanished, then per path reads
the mtime, parses without the lock and commits under it, as the code does; an
edit can come at each point. `engine` is what `Reconcile` was last given.

**EntityEdits.** `calls` are all requests made so far with the step each is at:
lock, load, write, mirror, edge, append, paragraph. A call keeps the file it
read (`base`) and its changed copy; what it answers depends on which write
failed. `commits` is the history of who replaced which file. A value is the
number of the call that wrote it, so that a lost update can be seen. Labels
have their missing file materialized where the code does that; pages are
created by `page_create` and owned by their creator. `Effect` says what an edit
leaves in the file, `Supersedes` which later edits may undo it, and `Own` tells
a call's commit of its own edit from the paragraph that an edge action appends
to its target, which may be the same entity. `MirrorFollowsFile` is two
statements: of the gap column (null where the latest edit hands over none) and
of the edges (those of the latest answered fill or frontmatter edit of a field,
and what actions added).

**AutoCommit, TaskFiles.** `disk`, `index` and `head` are the working tree,
git's index and its HEAD; `OnWrite` appends to the batch or commits at once,
`fireFlush` and `Close` drain it. A `git add` and `git commit` is one step under
the committer's mutex. A task file is a set of open and done lines; the three
writers each do a read, a write of the shared `<path>.tmp`, a rename and a
notification under a mutex of their own; a resolve's move into the archive is
a step that can fail and leaves the stamped file behind. `missed` remembers the
paths git refused, `raced` the calls that edited a task while another writer
resolved it. `AnswersStand` has a part per kind of call: appended lines stay, a
spawned task is an active file until it is moved, a resolved one is stamped and
an archived one archived, a picked edge is there. `ArchivedIsMoved` is about the step
that answers "archived": the active file is gone with it.

**EdgeWrites.** Clients and the tracker's runners are actors with one `job`
each and share the steps of `CreateEdge`: ensure and upsert the thin row, write
the edge, probe, begin or join a fetch, wait, write the task when the fetch
found nothing. A runner holds its entity's lock
while it persists, a fill while its gate fetches. `tried` is the labels whose
dispatch ended; one that is deleted, or cut off from the last entity of a plugin
that pointed at it (`CutOff`), leaves it; one whose task could not be written is not
entered, since the code logs that and goes on. `lost` marks the jobs that a delete
overtook: it took the entity they write, the label they fetch or the one their
fetch answered. A wait times out when
the runner it waits for is itself in a ring of waits (`Stuck`), and `MaxSlow`
times otherwise.

**PluginCommands.** A record and its runner are named by request and instance;
the key is what the request said and the instance. A process polls a folder
after the other: search, then per message emit and label. Its output is looked
at when it is over, whichever way it ended, line by line, and its error last.
The label is the only memory of a poll. `lost` is labelled mail that an aborted
stream or a stop of the daemon dropped unwritten; `partial` marks a poll that
something went wrong with. `Abandon` is a caller whose context ends: its request
is "cancelled" and has no answer, while the runners it began go on.

## 3. The runs

| run | question | bound | states |
| --- | --- | --- | --- |
| `writelocks` | exclusion, no orphan, bounded wait, refinement | 2 callers, 2 artifacts, 2 nested locks, 4 entries, 2 polls | 298 k |
| `eventbus` | delivery, order, no late delivery | 2 publishers, 2 subscriptions, 2 events each | 966 k |
| `engine_events` | passes, claims, hot reload, a ring of workflows | 8 workflows, 4 reloads, 2 outside events, queue of 8 | 26 k |
| `engine_fullqueue` | does a bus handler return at once (it does not) | 1 workflow, queue of 2 | |
| `engine_concurrent` | worker and dispatch, full queue, shutdown | 2 workflows under skip, queue of 1 | 55 k |
| `ingest` | two requests, two URLs, a label both touch | 2 envelopes each, a failure at every step | 1.15 M |
| `vaultindex` | does a pass leave the store a function of the vault | 2 pages, one citing the other, 1 handler, 2 stamps, 1 disturbance of a pass | 1.55 M |
| `loader` | two loads and an editor | 2 paths, 2 names, 4 contents, 4 edits | 674 k |
| `edits` | concurrent edits of one file | 2 labels and a page, 26 requests, 3 calls, 2 at a time, 1 failing write | 2.12 M |
| `tasks` | three writers of a task, and the committer; what an answer is worth | 1 task of any kind, 3 calls, 2 at a time, 1 failing command or move | 5.29 M |
| `edge_writes` | writers that start fetches that write edges | 2 labels, 2 calls, 3 fetches, 1 slow wait or failing task write | 0.8 M |
| `plugin_commands` | requests, processes and a mailbox | 2 requests, 4 instances, 4 messages, 1 trouble | 644 k |

Why the bounds are enough. Two callers, publishers, loads or runners are what a
race in these components needs: each holds its interleaving in the state of one
other. Beyond that:

- *writelocks*: two artifacts allow the nested locks that the code takes (an
  entity and its dataview target), four entries let an old closure meet a
  reused address, two polls distinguish a wait that renews its deadline.
- *eventbus*: two events per publisher separate "after the flag" from "before".
- *engine*: the eight workflows cover a claim, a pause, a kind slot wanted by
  two files, a wildcard, a catch-all of two kinds, and a ring of three, the
  smallest cascade in which a chain that keeps only the last name goes wrong;
  the queue of 8 never fills, so that only the cycle check can end it. Capacity
  1 makes the queue full as soon as it holds an event.
- *ingest*: two envelopes separate the first, which settles, from the later
  ones, which do not; the label that one URL cites and the other ingests brings
  two runners to one row.
- *vaultindex*: one entity cites the other, so a vanished target and its
  surviving referrer exist; two stamps are a write before and one during the
  pass; one disturbance excuses the pass, and its later half (the row of a write)
  comes after it. Two disturbances (7.4 M states) hold as well, near the limit of
  the time a run may take. Both entities may be flat,
  one folder down or archived, so a file may be at two places.
- *loader*: a third content takes the slot, another the name of the first; four
  edits let a file break, move, come back and take a freed name. Five edits
  (5.2 M states) hold as well, near the limit of the time a run may take.
- *edits*: the third call comes after a pair that raced, and sees what they left;
  one failing write is enough, because a second would fail another call.
- *tasks*: as for edits; a task archived before is an initial state.
- *edge_writes*: the labels' answers point at each other, so a ring of waits
  forms with two fetches, and a third joins or meets it.
- *plugin_commands*: one mailbox with a malformed message between two others,
  one with an empty and a full folder, an instance without an environment, one
  that is off. Two troubles (8.3 M states) hold as well for the invariants.

`CHECK_DEADLOCK FALSE` stands where the bounded system stops: all events
published, all streams ended, all calls made. `writelocks` and `loader` never
stop and check deadlock.

### Where the code and its documents disagree

One run checks what a comment says and finds it violated; it is the finding in
`PROJECT.json`. `engine_fullqueue`: an action publishes into the full queue from
the worker's own goroutine, and nothing but Shutdown frees it, against "Handlers
MUST return quickly" (`eventbus.go:424`).

The others were met while modelling. Each module follows the code, and where a
property must excuse one, the excuse is an operator or a history variable with
a name.

*The chain.* The comment of `applyCycleCheck` has an event's chain name "every
workflow whose firing produced the event" (`engine.go:1335`). A fetch that an
action starts runs on `context.Background()` (`ingest_tracker.go:624`), so its
events carry no chain: with one workflow that on every creation fetches a person
(`ActIngest`), TLC finds it acting on the creation it caused, twelve states into
the behaviour. The attempt to prove `NoSelfCascade` led there; section 4 has the
theorem that is left.

*Bus and engine.* A handler may start after its Unsubscribe has returned
(`ClosedMissesLaterEvents` is the guarantee that holds). The events of an ingest
that an action starts carry no chain, so two workflows can feed each other
through a resolver plugin. Dispatch may return the worker's decision for the
same pair. A catch-all of several kinds takes only its first slot. A renamed but
unedited workflow file keeps its old filename and order in the engine
(`engine.go:633` against `379`). A dispatch without a target does not extend the
chain of what its actions publish.

*Tracker.* A label's row is probed and upserted thin without its lock, and a row
filled in between is wiped (`EdgeWrites` marks it `wiped`). A `force_refetch`
that joins a pending ordinary runner is answered without the forced semantics.
The concurrency note of `writeIngestVaultFile` warns of a lost update that the
write lock around it now prevents; `persistEnvelope` says "Block-on-conflict"
and fails at once.

*Vault and reindex.* A restore moves the file back and then fails, or is cut off,
before it clears `archived_at`. The file comes back with the stamp that is booked
for its path, so `reindex.go:249` skips it, and an upsert would not touch
`archived_at` either: the row stays archived. `entities_archive.go:53` and the
answer at `:199` say that "reindex's incremental walk will reconcile"; only a
full pass does. Without the conjunct of `Repairable` that is about archived
rows, TLC refutes `IncrementalPassRepairs` in twelve states. An incremental pass after an archive takes the moved file
for vanished and deletes the archived row, so that restore and delete answer
404; a full pass wipes the rows of the archive, which `index-flow.md` lists among
the wiped tables; `reindex.go:213` says that "the archived state is authoritative
on the DB side". An archive that is cut off after its move leaves the row
active: the next incremental pass deletes it if the file was booked and keeps it
without a file otherwise. A page moved to a subfolder loses its row in the same way. A reindex
wipes the gap column. The edges of a file whose edges block became empty stay.
The pass after `cache purge` has no registry to guard the edges it rederives, so
a file that cited a purged one loses its edge; `cache.go` calls the nil guard
safe, since the pass "only ever exercises the disappear-pass".
An edit of an archived entity writes a second, active file.

*Loader.* Two files that swap their names collide for ever and keep stale
registrations (`Collides`). A file moved away and back with its mtime during a
load is not seen again. `Loader.Run` exits for good when its first Load fails.

*Edits.* `post_note` takes no lock and can lose an edit or a note made
meanwhile; `writelock_helper.go` says that "those don't conflict at the storage
layer" (`Clobbered`). A failing dataview append fails the fill after file, row
and edges are written, although the call fails "so the caller surfaces a
consistent state". Section, frontmatter and some action edits null the gap
column, which "must carry through every vault→store mirror". A page creation
that fails after its file was written leaves a file without a row, and every
retry is a 409 until a reindex. Deferring drops the shape of a gap that a
workflow injected, and undeferring then removes the gap from needs-fill.

*Tasks and commits.* `Resolve` returns success as soon as the archive has a file
of the task's id (`writer.go:107`). A task that was archived once and spawned again
is answered as archived while its active file stays, unstamped. `writer.go:144`
takes care that no caller sees `auto_archived: true` "while both files coexist",
and `err_task.go:232` has an error task archived "on resolve and a fresh one"
spawned "on the next failure". `ArchivedIsMoved` excuses the answer by name
(`AlreadyArchived`); without the excuse TLC refutes it in seven states. An append that races a resolve through the other mutex is lost,
overwritten or brings the active file back (`writer.go`: "Concurrent-safe";
`raced`). A batch that names a file created and archived within one window makes
`git add` fail for the whole batch, against "one batched commit per debounce
window" (`missed`). Two picks without a prior edge both create one.

*Edges.* `UpdateEdgeTarget` starts no auto-fetch, although `auto_fetch.go` says
any edge creation does. Identity resolvers whose labels point at each other wait
in a ring until the timeout. A fill holds its entity's lock during the gate's
fetch, so a runner for that entity fails with a conflict.

*Commands.* The gmail plugin labels each message as its line is written, but the
daemon buffers its output until it exits: a crash of the daemon, a write
conflict or an invalid envelope drops labelled mail for good, against
`cmd/yaad-gmail/main.go:345` ("A crash mid-cycle leaves already-emitted messages
on-disk via the daemon") and `poll.go:78` ("restart-safety"). The daemon passes
no `--command` although `docs/plugins/gmail.md:74` shows it. `gmail: !fetch` and
`gmail/work: !fetch` have different keys for one instance, so two processes can
poll one mailbox. An answer of a quiet mailbox has no branch in the fan-out and
is reported as failed.

### Fairness

- *WriteLocks*: a caller that can take a step does (Go schedules it, timers
  fire), and every closure is called, since each call site defers it. Nothing is
  assumed of how long a holder keeps the lock; `CallReturns` holds anyway.
- *WorkflowEngine*: runners go on; an awaited ingest answers or its timeout
  fires; the worker's `select` picks at random, so a closed `shutdownCh` that
  is always ready between events is picked some time (strong fairness of
  `WorkerExit`). Publishers outside, reloads and Shutdown are never forced.
- *IngestTracker*: a runner waits for no lock and the plugin's subprocess has a
  timeout, so it goes on. Requests are never forced.
- *WorkflowLoader*: the tickers of `main.go` and `Loader.Run` keep firing and a
  load that has started goes on. The operator is never forced to edit or to
  resolve a collision; `CatchesUp` speaks of a directory that comes to rest,
  which the bound on edits makes every behaviour do.
- *EntityEdits*: each call has a goroutine of its own and goes on; a lock it
  waits for is polled until a deadline. Clients are never forced to call.
- *EdgeWrites*: handlers, actions and runners go on, a plugin answers or its
  timeout kills it. No wait is assumed to time out unless nothing else can end it.
- *PluginCommands*: a handler, a process and the dispatch of its output go on; no
  failure or timeout is counted on.

`EventBus`, `VaultIndex` and `TaskFiles` are checked for safety only, under `BusSpec` and `Spec`.

## 4. What is proved

Every theorem is about the specification of its module (`Spec`, `LocksSpec`,
`BusSpec`), without fairness, for every value of the constants:
any number of callers, publishers, workflows, entities, envelopes, messages,
calls and failures. What they assume of the constants is what the modules
assume by name (`NoneAssumption`, `DefAssumption`, `RequestAssumption`,
`IdAssumption`, `BoundAssumption`, `AbsenceAssumption`, ...):
the special values are none of the others, labels and pages are entities, a
workflow's file is a record of the shape the parser returns, a bound is a
number. TLC evaluates each assumption on the instances of section 3.

| module | theorem | states |
| --- | --- | --- |
| `LocksAndEdges_proof` | `LocksTyped`, `WritersExclude`, `MapMatchesClosures`, `LocksInvariance` | the parts of `Inv`, and `Inv` |
| | `ImplementsLease` | `LeaseSpec` |
| | `EdgesTyped`, `EdgesDispatchLeavesTrace`, `EdgesGateHolds` | `TypeOK`, `DispatchLeavesTrace`, `GateHolds` of `EdgeWrites` |
| | `EdgesInvariant` | `EdgesInv` |
| `BusAndTasks_proof` | `BusTyped`, `DeliveriesCorrect`, `NothingMissed` | `BusTypeOK`, `Deliveries`, `NoMissedDelivery` |
| | `TasksTyped`, `TaskAnswersStand` | `TypeOK`, `AnswersStand` of `TaskFiles` |
| | `TaskArchivedIsMoved`, `TaskQuietIsCommitted` | `ArchivedIsMoved`, `QuietIsCommitted` of `TaskFiles` |
| | `BusInvariance`, `TasksInvariant` | `Inv` of that proof, `TaskInv` |
| `WorkflowEngine_proof` | `TypeCorrect`, `HandledInOrder`, `SkipOnce`, `NoLoop` | `TypeOK`, `HandlingOrder`, `SkipDispatchesOnce`, `NoSelfCascade` |
| `IngestTracker_proof` | `TypeCorrect`, `SettlesRecords`, `VaultFirst` | `TypeOK`, `SettlesOnce`, `FullRowHasFile` |
| | `KeepsProvenance`, `TellsEverything` | `NoLostProvenance`, `EveryRowIsTold` |
| `VaultIndex_proof` | `TypeCorrect`, `FullPass`, `IncrementalPass` | `TypeOK`, `FullPassRebuilds`, `IncrementalPassRepairs` |
| `WorkflowLoader_proof` | `TypeCorrect`, `RegistryConsistent` | `TypeOK`, `RegistryIsConsistent` |
| `EntityEdits_proof` | `TypeCorrect`, `AnsweredStand`, `MirrorFollows` | `TypeOK`, `AnsweredEditsStand`, `MirrorFollowsFile` |
| `PluginCommands_proof` | `TypeCorrect`, `MailKept`, `AnswersOwn` | `TypeOK`, `MailIsKept`, `AnswersAreOwn` |

Each proof has the same plan: the checked property is strengthened to an
inductive invariant, a conjunction of named parts; `Next` is split into its
actions; and under an action each part it can disturb has a step. The parts
which an action leaves alone go through frame lemmas. The argument is in the
parts:

**WriteLocks.** Exclusion alone is not inductive: an acquire needs to know that
an artifact missing from the map has no live closure (`LiveIsLocked`), and a
release needs that the map's entry is its own (`NoOrphanLock`).
`ImplementsLease` shows each step to be a grant, a hand-back or a stutter.

**EventBus.** `OrderInv`: the registration order has no repeats. `SubsInv`: a
topic's slice is in that order and holds exactly the subscriptions that are
open or being closed. `LoopInv`: the snapshot of a publisher holds all it still
owes a call, and whoever is behind its position and still open has had the
event. `LogInv` places each call that was made in the past of its publisher, and
`LastInv` says that a subscription without a flag misses nothing yet. A Publish
works on a copy that others make stale; these parts say in which way alone it
can be stale.

**WorkflowEngine.** `RunnerInv` ties the workflows a runner has run on its
event to those still ahead: what ran precedes what is to come in file order and
no claim is among it, so a claim comes last. `SkipInv`: a key whose skip
workflow has fired is stamped, which is what makes the check of one runner hold
against the stamp of another. `CascadeInv`: the chain an event carries names
every workflow behind it, but those only a manual dispatch starts. `NoLoop` has
a hypothesis, `NoResolver`: no workflow has an action that ingests. It is
needed: without it the property fails, as section 3 says under *The chain*.

**IngestTracker.** `PendingInv`: a record is pending exactly as long as its
runner is not done with its first envelope, which makes the many calls that
close the channel exclusive. `PersistInv`: a runner between acquire and release
is the one its entity's lock names, the file it read is still the file when it
writes, and the file exists from the write on; `OwnEntity` (two lock holders,
two entities) carries the argument. `ToldInv`: each row and each edge was told
to the bus, was given up because a probe failed, or is owed by a runner between
its upsert and its release. A label's row is written under no lock of
the label, so the probes of two runners may cross; one of them owes it.

**VaultIndex.** `PassInv` is about a pass under way and undisturbed: each file is
as it was when the pass began, or is indexed; a row no file has is still to be
swept; an edge is missing only where the pass remembers to derive it again.
The sweep takes a vanished entity's edges with it, those from files that the
walk skipped as unchanged included, so after the walk nothing is correct again
before the last rederive. The full pass starts from wiped tables, which gives
the part at once; for the incremental one it is what `Repairable` is for, and
the proof uses each conjunct of it. The one about archived rows is needed because
neither a skip nor an upsert clears `archived_at`.

**WorkflowLoader.** `TypeOK` and `RegistryIsConsistent` are inductive as they
stand: a load parses outside of the lock, but what it commits it checks against
the maps under the lock, and drops its own path's old entry in the same section.

**EntityEdits.** The first half of the proof has one lemma per handler: the copy
it made has its `Effect` and keeps the rest (`KeepsRest`). `StageInv` says which
locks a call holds at which step, `DraftInv` that its copy is based on the
current file (on one that may be old, for the lockless notes endpoint) and drops
the rest of it only where no answered edit is in it. `CommitInv` then follows each commit
through all later ones: its edit stands, or a superseding edit came, or the
notes endpoint replaced a file that had changed. For `MirrorFollowsFile`,
`OrderInv` says that a lock holder past its write made the latest edit,
`ColumnInv` and `EdgesInv` what a commit whose row is not written yet still owes.

**TaskFiles.** `TaskInv` has a half about the files and a half about the
committer. In the first, `MutexInv` says that a critical section's call holds
its mutex, but the three mutexes do not exclude each other on a task, so what
another writer may do meanwhile is part of the invariant: `TmpInv` (a temporary
file has a writer that will rename it), `ResolveInv` (where the two files are at
each step of a resolve) and `RaceInv` (an append that runs while its task is
resolved is marked `raced`). `AppendInv` then follows a line that has reached the
active file: it is archived, or it is in the active file, in the temporary file
and in the copy of everyone who is about to write one, or a `task_resolve`
removed it, or a resolve whose last unlink failed took it away with the archived
copy. `PickInv`
follows a picked option until a later pick moves it away. `ToldInv` is what the
other answers rest on: past its move a resolve has left no active file unless
the task was raced (`GoneInv`), no move of what was answered archived can be rolled
back (`ArchivedInv`), a spawned file is there until somebody moves it
(`MadeInv`), and the stamp of a resolve survives every edit that no resolve
overlapped (`StampInv`). In the second half,
`CoverInv`: each path is in HEAD as it is on disk, or git refused it, or it is in a
batch, or a call still owes its notification (`Owes`). `UntoldInv`: an archived
file that no notification has named is unknown to git, so the rollback of a
resolve, which deletes it and tells nobody, leaves nothing to commit.

**EdgeWrites.** The shape of a job at each step (`JobsInv`), who holds which lock
(`LockInv`), that a label has one runner (`KeyInv`) and that edges end in rows
(`EndsInv`) are kept by every turn of an actor in the same way; one lemma
(`TurnKeeps`) does them, and the actions owe it only what they do to rows, edges
and locks. `ResultInv`: the row a runner stored is there with its data until the
runner releases the lock, and afterwards unless a delete took it (`lost`); an
upsert of a thin row can wipe it but not remove it. From it follows `TraceInv`,
that what enters `tried` has a row with data, an edge or a task, and stays so
until a delete or a cut-off takes the label out. `GateInv`: past the gate a
fill has a row for its label or is marked `lost`. The row the gate found can only
go by a delete, because a rewrite moves edges and leaves rows alone.

**PluginCommands.** `KeyInv`: a key names a pending record of its instance.
`WalkInv` and `ResultsInv`: a request's results rest on records that change no
more, and with the targets left they make up the targets asked for. `PollInv`:
the message a process is about to label is in its output, and all of its output
is from its mailbox. `CoverInv`: what a poll that passed nothing over has behind
it is malformed, filed, labelled or in its output. `LabelInv` and `VaultInv`:
labelled mail is filed, waiting or counted as lost, and filed under the instance
whose mailbox it is from.

TLC checks the same parts where the instance lets it: `EditInv` and `MirrorInv`
on the 2.12 M states of `edits`, `TaskInv` on the 5.29 M of `tasks` (but for the types of its records' fields), `EdgesInv` on
the 0.8 M of `edge_writes`, `PassInv` on the 1.55 M of `vaultindex`.

What is only model-checked:

- *Liveness* (`CallReturns`, `CascadeEnds`, `BlockedCallsEnd`,
  `RecordSettles`, `CatchesUp`, `EveryCallEnds`, `CallsEnd`, `RequestsEnd`): the
  prover has neither ENABLED nor rules for fairness.
- What a fold or a recursive function computes for all inputs: there is no
  induction over data.

## 5. What is not modelled

- *In modelled components.* Engine: `archive_when` after the actions, the
  `WaitForIdle` barrier, CEL and template values. Tracker: the fixture path
  (test-only), the `entity.updated` event of a row that is full
  already (`EveryRowIsTold` is about rows and edges that are new), a daemon
  without a vault (the vault step is then a no-op),
  attachments, day references, the gap-call flag, the `records` map (written,
  never read), the provenance of thin rows; terminal states are three (found,
  nothing, failed). Bus: the events' payloads. Vault and reindex: one pass at a
  time (the code has no mutex around passes), one edge type, the wording of a
  file. Edits: entities of plugin kinds, anonymous callers, several fields in
  one fill, moving a section, nested permission marks, notes on tasks. Tasks:
  the `via` list, the store rows of tasks and their `triggered_by` edge. Edges:
  several targets in a fill, failing reads of the store. Commands: the shape of a command that an
  action starts (key without instance, environment of the plugin), search,
  `--init` and control packets, mail that arrives during a poll.
- *Pure functions of their input.* Markdown, frontmatter and section parsing, the
  merge of plugin markers, CEL, templates, slugs, URL globs, cache lifetimes,
  rendering of answers. They keep no state and have tables of tests; modelling
  them would repeat them in another notation.
- *Pure I/O and external services.* The other bundled plugins, attachments, HTTP
  and MCP transport, authentication, configuration at boot, the command line's
  wiring.
- *Reads.* Search, batch, context and structure endpoints change nothing.
- *Daemon start and stop.* Only what the engine and the loader see of it. When
  `srv.Shutdown` runs into its timeout the engine's Shutdown is skipped.

These are also the greater part of the source's lines. What the map does not
reach is parsing, rendering, wiring, HTTP plumbing, SQL text and comments: code
without a step at which another actor can come in.

## 6. Plan

Done: locks, bus, engine, tracker; then the vault with reindex, the loader, the
edits of entities and pages, tasks with auto-commit, edge writes, commands.

What is left to model, by how much it would show:

1. The list of gaps (`needs_fill.go`) under pagination while fills, defers and
   re-ingests go on: is a gap that stays open always shown.
2. The daemon's start and stop as an order of components (engine, loader,
   committer, HTTP server), with the timeout of `srv.Shutdown`.
3. Moving a section in `EntityEdits`, a note on a task in `TaskFiles`, failing
   reads in `EdgeWrites`.
4. The merge of plugin markers with an operator's edits over several ingests.

Every safety property that a passing run checks is stated by a theorem,
`NoSelfCascade` for workflows that do not ingest. Theorems still worth having, in
order:

1. A weaker form of `NoSelfCascade` without `NoResolver`: a loop needs a fetch.
2. `EdgeWrites` against `WriteLease`: that its `lock` is a lease of the entity,
   which would tie the two modules of `LocksAndEdges_proof` to one promise.
3. `EntityEdits` and `IngestTracker` in one module: `NoLostProvenance` while
   operators edit the same file.

Modules that are proved about use no RECURSIVE operators; their parameters are
constants with named assumptions, and their invariants conjunctions of named
parts.
