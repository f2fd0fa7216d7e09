# TLA+ models of the AionisCore Lite runtime

AionisCore Lite is one Node.js process: HTTP routes (Fastify) over a handful of SQLite
files. It stores execution evidence as nodes and edges, recalls and ranks it, runs sandbox
commands, replays playbooks and walks automation graphs. This directory holds TLA+ models
of the parts that keep state and where the order of events matters, the TLC configurations
that check them, and TLAPS proofs of the invariants that carry them. Paths below are
relative to the repository's `src/`.

How to run: `tlc -config X.cfg M` checks a model; the table of runs names the pairs.
`tlapm M.tla` checks the proofs of the eight `*Proofs` modules. `PROJECT.json` ties every
definition to the lines it models, every
property to the mutation of the code that breaks it, and every hazard to its properties.

## 1. Inventory

One JavaScript thread runs everything. A step of a model is what runs between two points
where real I/O or a timer is awaited; microtask awaits on the in-process SQLite stores do
not end a step. Concurrency therefore comes from requests, timers and child processes that
interleave at such awaits, and from crashes, which can fall between any two commits.

| Component | State | Operations | Interacts with | Hard to get right | What makes it correct |
| --- | --- | --- | --- | --- | --- |
| Sandbox executor (`memory/sandbox-executor.ts`, `routes/memory-sandbox.ts`, run rows in `store/lite-host-store.ts`) | run and telemetry rows; in memory the queue, the active map, the recovery timer | execute (sync, async), cancel, get, logs, recovery of stale rows, shutdown | budget, replay shadow validation, automation rows in the same file | cancel racing claim and start, recovery racing a live worker, heartbeats, shutdown with children alive, restart | a command starts once; a row ends once, and telemetry says how; no run waits beside a free slot |
| Sandbox budget (`app/sandbox-budget.ts`) | none (queries run rows) | check before a run is created | sandbox | check, then insert | caps are respected |
| In-flight gate (`util/inflight_gate.ts`) | counter, waiting queue with timers | acquire, time out, release | every route | timeout racing hand-over, double release | slots neither lost nor duplicated; first come, first served |
| Rate limits (`util/ratelimit.ts`, `app/request-guards.ts`) | token buckets, sweeps | check, wait once, check again | every route | sweeping a bucket that is still short, the retry hint | no window above the budget; the hint suffices |
| Recall embedding (`app/recall-text-embed.ts`, `util/embed_query_batcher.ts`, `util/lru_ttl_cache.ts`) | cache, single-flight map, batch queue, flush timer | ask, flush, batch ends, age | recall routes, embedding provider | a flush that never comes, answers going to the wrong item, failures shared by a flight | every request answered, each with the vector of its text |
| Automation definitions and runs (`memory/automation-lite.ts`, `store/lite-automation*-store.ts`) | version rows, run rows, node-run rows | create, validate, run, approve, repair, reject, cancel, resume | replay playbooks | cancel while a replay is awaited, crash between row updates, a cancel's own among them, resuming an older version | nothing starts before what it depends on, without its approval, or after a cancel |
| Memory write path (`routes/memory-write.ts`, `memory/write.ts`, `memory/lite-projected-write-commit.ts`, `store/lite-write-store.ts`) | commits, nodes, edges, rule definitions, outbox rows; `txDepth` | prepare, apply in a transaction, embed, record embedding | everything that stores memory | requests sharing one transaction, retries, partial failures | what is answered is stored; what is refused is not; the graph is closed |
| Workflow projection (`memory/workflow-write-projection.ts`) | none (derives nodes) | read observations, await a review, derive candidate and stable workflow | write path, governance provider, whatever transaction is open | reads before the transaction, rows read that a rollback takes back, private rows, row windows | a promotion rests on two observations its writer may see, one stable workflow per signature |
| Replay (`memory/replay*.ts`, mirror in `store/lite-replay-store.ts`) | run, step and playbook nodes in store and mirror | start, step, end, compile, promote, repair, review, run, dispatch | write path, sandbox, governance, embeddings | two databases, transactions held across awaits, reviews that outlive the transaction they joined, version numbers read early | a version has one author and one content |
| Execution state (`execution/state-store.ts`, `transitions.ts`) | in-memory states with revisions | put, transition with expected revision | write path, handoff | applied after the commit; lost by a restart; `put` keeps the revision | a transition applies to the state it was made for |
| Rules (`memory/rules*.ts`, `feedback.ts`) | rule definitions and counters | state change, feedback, evaluate | tool selection | read-modify-write of counters | only active rules are enforced |
| Tool selection, feedback, pattern anchors (`memory/tools-*.ts`, `pattern-*.ts`) | decisions, feedback rows and counters, anchors with trust states | select, decide, give feedback, review, override | rules, policy memory, whatever transaction is open | first feedbacks racing, reviews that answer late, crashes between statements, feedback undone with a replay review | trust is earned and lost by the feedback given; counters follow rows |
| Policy memory (`memory/policy-memory.ts`) | policy nodes with a state | materialise, feed back, govern | tools feedback | governance that applies what it read before an await | a policy in force is rooted in trust |
| Node life cycle and forgetting (`memory/lifecycle-lite.ts`, `semantic-forgetting.ts`, `archive-relocation.ts`, `importance-dynamics.ts`) | tier, feedback and importance of nodes | activate, rehydrate, decide forgetting | write path, recall | read-modify-write; content changes make a retried write conflict | tiers move only as documented |
| Sessions, handoff, delegation records | nodes through the write path | create, append, store, recover, find | write path, execution state | creating the session with its first event | the latest match is recovered |
| Governance and authority (`memory/governance*.ts`, `authority-*.ts`, `contract-trust.ts`) | none | review, admit, grade | replay, projection | a provider that fails or stalls | nothing inadmissible takes effect |
| Recall, context, planning, inspection (`memory/recall*.ts`, `context*.ts`, `app/planning-summary*.ts`, `find.ts`, ...) | none (read-only) | rank, assemble, format | all stores | - | - |
| Associative linking and topic clusters (`jobs/`) | candidate rows of the server edition | score, promote | outbox | the Lite edition writes outbox rows and consumes none | - |
| Distillation, packs, providers, host, identity, schemas, SDKs, apps | none, or wiring | - | - | - | - |

`PROJECT.json` lists each of these with its sources and status, and every hazard at its line.

## 2. Modules

```
SandboxRunLifecycle  <-- implemented by --  SandboxExecutor  <-- SandboxExecutorProofs
WorkflowLifecycle    <-- implemented by --  WorkflowProjection  <-- WorkflowProjectionProofs
InflightGate + RateLimit  <-- Admission  <-- AdmissionProofs
EmbedQueryBatcher  <-- RecallTextEmbed  <-- RecallTextEmbedProofs
AutomationGraph + AutomationRun + AutomationDefinitions  <-- Automation  <-- AutomationProofs
LiteWriteStore  <-- MemoryWrite, ReplayReview  <-- LiteMemory  <-- LiteMemoryProofs
LiteMemory  <-- ExecutionContinuity  <-- ExecutionContinuityProofs
PatternAnchor + PolicyMemory  <-- LearningLoop  <-- LearningLoopProofs
```

Every `MC*` module gives one of these its constants. Definitions that a comment calls a
"Mutant" or "a mutation of" another are the plausible bugs the properties are tested against; no specification uses them.

**SandboxExecutor.** `status`, `telemetry` and friends are the row fields; `queue`,
`running`, `pumping` are the executor's memory. A run goes insert, enqueue, claim, prepare,
start, end, finalize, each an action because an await separates them; `Pump` is `setImmediate`,
`RecoveryPoll`/`RecoverRow` the recovery interval, `CancelTx`/`RequestCancel` the two halves
of the cancel route, `Shutdown` the `onClose` hook, `Restart` a crash followed by a new process
(also what an unhandled rejection amounts to). `finalize` is two commits, `FinalizeRow` and
`RecordTelemetry`, since `withClient` opens no transaction; no callback comes between them, but the
process may die there (`DiesFinalizing`), and then nothing ever writes that telemetry.
`SandboxRunLifecycle` says what a client may rely on: a row is queued, then maybe running, then
terminal and final, its telemetry with its end or never.

**InflightGate.** `inflight` and `queue` are the gate's fields; `Timeout` is the waiter's timer,
`ReleaseSlot` hands the slot to the head of the queue in the same step. Holding a token is
the environment's: a handler may release at any time, or not at all.

**RateLimit.** Buckets are integers of (rate x ms); `FirstCheck` refills, sweeps on every
n-th check, and takes or sleeps once; `SecondCheck` is the check after that sleep.

**EmbedQueryBatcher, RecallTextEmbed.** Items enter a bounded queue; `Flush` groups them by text
while batch slots are free, the provider call settles with all, some or no vectors, and the
`finally` block flushes again. RecallTextEmbed adds the LRU cache with expiry, the single-flight
map and the paths without a batcher or a cache. A vector is represented by its text.

**Admission.** What a request passes before its handler: each limit of its route in order
(`Enforce`), then the gate (`Enter`, `WaitEnds`), then the handler, whose `finally` is `Finish`.
`ThrowBeforeTry` is the stretch of planning_context and context_assemble between `acquire` and
the `try`. The rate limits and the gate keep their own modules, which `Admission` instantiates.

**AutomationGraph.** `validateAutomationGraph` as operators over a graph, with Kahn's loop as a
recursive function; `WellFormed` is what the schema lets through. `IsSound` is the reference: it
speaks of sets closed under successors and knows neither queue nor in-degree.

**AutomationRun, AutomationDefinitions, Automation.** Every row update commits on its own, so
each is an action; the walker visits the nodes in topological order and leaves the thread only
at an awaited replay. A cancel is an update for each open node (`CancelNode`, in any order) and one
for the run (`CancelRun`), definition creation is two inserts, and a crash may fall between any of
them: a cancel of a paused run that is cut short leaves it resumable, and the walk passes the nodes
that were rejected. `Automation` composes these with `AutomationGraph`: a draft is
validated (`Validate`, `Respond`), a stored version is validated again whenever a run walks it,
in the order computed there (`Walked`), and a run pins a version and resumes it.

**LiteWriteStore.** The one SQLite connection: `db` is what it reads, `disk` what is committed.
`ShortTx` is `withTx` around work that stays within the step, `OpenTx`/`CommitTx`/`RollbackTx`
around work that awaits. If a transaction is open, whoever opened it, `withTx` runs its callback
inside: such a short transaction changes `db` and not `disk`, and an exception in it undoes
nothing. `opener` names the request whose COMMIT or ROLLBACK is still to come; `txDepth > 0` is
`opener # NoOne`. A batch has one node and edges from it.

**MemoryWrite.** A request is checked, stored and, if it plans an embedding, kept `embedding`
until the provider answers and a second transaction records it. A rule node without its target
throws after its node is in.

**ReplayReview.** A repair review decides its version from the mirror when it begins, then
awaits inside its transaction: before the write, between the write and the promotion, and before
it ends; at each await it may throw. The mirror is a database of its own and is not rolled back.
A review that joined and outlived its opener has no transaction any more: its statements commit one
by one before the mirror hears of the version, and the process may die behind each (`DiesStoring`).

**LiteMemory.** Requests and reviews over the one store, with crashes: `db` returns to `disk`,
what was under way is never answered, the mirror stays.

**ExecutionContinuity.** `LiteMemory` with the in-memory execution states. What a node's slots
carry is a constant, `Carries`: the state that is put, the state that is moved on, and the revision
the transition was made for. `WriteRoute` is the step of a write or a handoff; the one that
answers it runs `SideEffects`, after the rows are committed and the embedding is settled: `Put`
replaces the state and keeps its revision, `Moved` applies the transition, and one that is not
accepted makes the answer an error and changes nothing more. A crash empties the store.

**PatternAnchor, PolicyMemory.** What one feedback makes of an anchor's evidence, and what
feedback, materialization and governance make of a policy, as operators on records. `Learned` is
`buildPatternAnchor`: a blame opens counter evidence and raises the number of runs required, and
enough runs, fresh ones among them, close it. `pattern_state` is stable exactly when credibility
is trusted, so one field stands for both. `Normalized` is the authority gate every writer of a
policy passes. `FedBack` starts from counters at nothing because `computeFeedbackUpdatedNodeState`
(`src/memory/node-feedback-state.ts:87`) does not pass the node's slots on.

**LearningLoop.** One tool choice, its anchor and its policy under concurrent feedback requests.
The handler opens no transaction: each of its statements commits on its own (`Statements`), and the
process may die between two of them (`DiesWriting`). But it shares a connection with the replay
reviews: while one of those holds a transaction (`ReviewOpens`, `ReviewCommits`), the statements fall
into that, are read by everyone at once, and go with its ROLLBACK or a crash (`TakenBack`);
`disk` is what is committed. The handler leaves the thread at the embedding of a first anchor
(`Create`), at a governance review (`Review`), at the embedding of an anchor made after a review
because a rollback has taken the one before (`Recreate`), and at the embedding of a first policy
(`Materialize`); `Feedback` is what lies before the first of them, and `TouchPolicy` the end of the
handler, reached from each. Governance reads the live contract, awaits a tool selection and then
applies it (`AskGovernance`, `ApplyGovernance`). `Activate` leaves a node without the slots that
made it an anchor or a policy (`Erased`). The last two lines of variables are history: who praised,
how often the choice was blamed since the anchor began, and which runs were new since then. This
history is kept with the anchor, so a rollback takes back both; what was answered and whether
the anchor was ever trusted stay.

**WorkflowProjection, WorkflowLifecycle.** `rows` are the stored nodes, each with the source it
was written for or derived from. `Write` is `commitLitePreparedWriteWithProjection` as far as the
provider's review; without a provider that is all of it. `ProviderAnswers` commits with what was
read before. As in LearningLoop, a replay review may hold a transaction on the connection: `Commit`
then changes `rows`, which all read, and not `disk`, and `TakenBack` returns to `disk`; `lost`
remembers whose candidates went that way. `Visible` and `Newest` are the two limits of `findNodes`:
the lanes an agent may see and the number of rows. `Inserted` is `INSERT OR IGNORE` on ids derived from `SameNode`'s fields.
WorkflowLifecycle knows only who was seen and what is stable: an observation adds itself, and the
one that promotes has had another before it. What is committed (`keptSeen`, `keptStable`) is for good,
what is not may be taken back, all of it together.

## 3. Runs

| Run | Model | Distinct states | Shows |
| --- | --- | --- | --- |
| `sandbox_reliable` | 2 runs, 1 slot, all modes, 1 cancel, 1 restart, heartbeats that keep up, fairness | 312 366 | telemetry is that of a terminal row and says what it says, and only a crash leaves such a row without; a killed run ends canceled; SandboxExecutor implements SandboxRunLifecycle; a running row ends; an accepted run ends while the process stays up |
| `sandbox_pool` | 3 runs, 2 slots, 1 restart, heartbeats that fail | 2 788 696 | the pool's accounting; no run waits beside a free slot without a pump on its way; a command starts at most once |
| `sandbox_lost_cancel` | violation | | finding 1 |
| `admission` | 3 loopback requests of one client on the embedding quota, a context assembly of another on two limits; 1 slot, queue of 2, 3 ms | 624 125 | no window above its budget; waiting as told is enough; slots accounted for; no overtaking; a waiter is settled |
| `admission_leak` | violation | | finding 4 |
| `recall_text_embed` | 4 requests, 3 texts, batches and queue of 2, 1 batch slot, 1 cache entry, fairness | 85 865 | own vector; one flight per text; only vectors cached; everyone answered |
| `automation` | 3 versions of a chain with two approvals, a diamond and a cycle, 2 cancels, 2 crashes, also within a cancel, throwing replays; drafts over 3 ids | 425 459 | validation is right and its order fits; approvals, dependencies and cancels are respected; a resumed graph is the one started; a run settles |
| `automation_lost_cancel` | violation | | finding 2 |
| `lite_memory` | 4 writes (a retry, an edge, a broken rule), 2 reviews, a crash; one execution state that three of them put and three move on | 559 988 | the nine properties below |
| `lite_memory_lost_write` | violation | | finding 3 |
| `learning_loop` | 3 runs, 2 rules, 2 requests at a time; at most 4 feedbacks, crashes (1) and review transactions (1) in all; governance, activation | 1 334 841 | trust is earned; earned trust falls to evidence or with its transaction only; counters follow rows; a policy in force is rooted in trust |
| `workflow_projection` | 7 sources of 2 agents and 2 signatures, 2 writes at a time, 7 rows, a review's transaction, a crash | 1 164 547 | ids are unique; promotions are backed; a recurrence is counted; WorkflowProjection implements WorkflowLifecycle |

Deadlock is not checked in any of them: a process that nobody asks anything may stop, and all
runs bound what is asked.

What `admission` and `learning_loop` check is the hardest to see in the code. `WithinBudget` says of
every window of time and every client that it was granted at most a burst and the refill of the
window, sweeps and sleepers included, and it says so with the gate in between that may refuse a
request its token was taken for. `TrustIsEarned` counts, independently of the anchor's own fields,
the runs that praised a choice and those that were new after the last blame; an anchor may
be trusted only on enough of both, or by a review. The runs meant are those whose feedback the store
has: a blame that a replay review's rollback undoes is gone together with its effect, and the
property holds of what is read and of what is on disk. `EarnedTrustFallsToEvidence` is an action
property: neither a review answered late nor the loser of two first feedbacks may take trust away.
Trust that was earned in a review's open transaction goes with that; trust on disk falls to no
rollback and to no crash. `PolicyRootsInTrust` excludes that a policy supports itself: governance and
materialization derive contracts from stored policies too.

`workflow_projection`'s `RecurrenceIsCounted` says that two concurrent writers never both take
their observation for the first: without a provider a write is one step, and a provider is asked
only by a writer that has already seen an observation. `PromotionIsBacked` compares what a writer
counted with what it may see *now*, or could see before a rollback took it back: nothing counted
belonged to another agent, and nothing counted has vanished unless a review's transaction was undone.
It can vanish then: a candidate joined to that transaction may be rolled back while another
write awaits its provider, whose promotion then rests on one stored observation (finding 3). The
property is asked of `rows` and of `disk`, so a crash at any time leaves a store for which it holds.

Of a sandbox run `TelemetryAgrees` says that two writers of its end, the unconditional UPDATE of the
row and the INSERT the first wins, never part; a finished row without telemetry is allowed to a
crash, one per crash. In `automation` a cancel that a crash cut short is the one way in which a node may
start behind one that did not succeed: the walk that a later resume begins passes rejected nodes
(`StartsAfterDependencies`). `NothingStartsAfterCancel` speaks of cancels at work or answered.

What `lite_memory` checks: edges always have both ends, on disk too (`EdgesHaveEndpoints`);
a write or review answered from transactions of its own is there for good, its embedding
settled (`OwnTransactionsLast`); a write refused in its own transaction leaves no
node (`RefusedLeavesNothing`); a retry never conflicts with itself, whatever became of the
embedding (`ConflictsAreReal`); two answered reviews share no version unless both ran inside
others' transactions (`OneReviewPerVersion`); a version on disk is in the mirror with the same
content, but for one per crash, of a joined review that the crash cut short
(`CommittedVersionsAreMirrored`); of two transitions made for one revision of an execution
state one is refused, also when states are put in between (`OneTransitionPerRevision`); a state
that is there was put by a write whose rows are there for good (`StatesAreStored`). The run's
specification implements that of `LiteMemory` (`ContinuityImplementsMemory`, below), so it checks the
store alone as well; `lite_memory_lost_write` runs the store alone.

### Findings

1. A sandbox run canceled between claim and start succeeds. The cancel route answers, but
   `requestCancel` (`src/memory/sandbox-executor.ts:143`) finds no active entry; the capability
   matrix promises "Cancel a queued or active run."
2. An automation run canceled while its walker awaits a replay ends as the walker left it
   (`src/memory/automation-lite.ts:843`).
3. `withTx` (`src/store/lite-write-store.ts:993`) joins whatever transaction is open. A memory
   write that arrives while a review holds one is answered 200 and vanishes if the review
   rolls back. So do a praise or a blame answered meanwhile, after which the anchor is what it was,
   and a projected candidate, on which another write's promotion may rest by then: `learning_loop`
   and `workflow_projection` model this and state what remains true.
4. `planning_context` and `context_assemble` acquire their recall slot before they optimise,
   augment and re-parse the request and plan its verification, and enter the `try` that releases it
   only afterwards (`src/routes/memory-context-runtime.ts:1720` to `1757`). An execution packet whose
   pending validation is longer than the 4096 characters a verification request may have throws in
   between, and its slot is in use for good.

Four more places where the code and its documents differ have no run: nothing in the models
is stated against them, and they need no interleaving to be seen.

- A retired policy is made active by one positive feedback, or by a materialization, because each
  feedback starts from counters at nothing; for the same reason no number of negative
  feedbacks retires one (`src/memory/policy-memory.ts:717`). `apps/docs/docs/evidence/proof-by-evidence.md:55`
  says policies are "retired and reactivated through explicit runtime governance instead of
  drifting silently".
- Activating a node replaces its slots by its feedback counters (`src/memory/lifecycle-lite.ts:353`,
  same cause), so an activated anchor or policy is one no more; the capability matrix
  (`docs/LOCAL_RUNTIME_API_CAPABILITY_MATRIX.md:298`) speaks of recording feedback.
- An operator's suppression of a pattern lives in slots that the next feedback builds anew
  (`src/memory/tools-pattern-anchor.ts:527`; `apps/docs/docs/reference/memory.md:361`).
- A signature with 200 candidates refuses every further write of it that reaches the review, since the
  list of candidates no longer parses (`src/memory/schemas.ts:634`, modelled by `ReviewFits`).

What the models also made visible, stated nowhere as a promise and therefore not a finding: a
definition whose creation crashed between its two inserts can never be created again; a crash or
a throwing replay leaves an automation run `running` until it is canceled; queued sandbox rows
stay queued after a restart; a run whose `finalize` a crash cut in two has no telemetry; a cancel that
a crash cut short can be resumed and starts what stood behind the nodes it had rejected; a review that
outlived the transaction it joined and dies while it stores leaves a version the mirror lacks; after
a review's rollback the replay mirror lists a version the store does not have, and the next review numbers after it; a joined write that throws midway
leaves its node for the opener to commit; a retry, or a write whose embedding is late, puts its
execution state over one that transitions have moved on, and the revision does not tell; a
transition that is refused answers an error for a write that is stored; a late failing embedding turns a ready node to failed.

### Bounds, and why they are enough

The races involve two actors and one more that disturbs them. Two sandbox runs on one slot give
every order of worker, canceler and recovery; three on two slots exercise the pump's counting,
a batch of one its repetition. In `admission` four requests over one slot and a queue of two reach
the full queue and a hand-over that races the timer; three milliseconds span a bucket's drain,
refill and eviction with rate 3, burst 5 and cost 4, so that rounding matters. Three texts in batches of two with a queue of two and one slot fill each of them. A chain and a
diamond over four nodes have a node with two predecessors and an approval on either side of a
replay; two crashes let a second one hit the recovery from the first. Two reviews are opener
and joiner (a third, tried separately with two writes, adds nothing new); `MaxVersion` 4 leaves
room for both to write and promote. One crash suffices for `lite_memory` since nothing but
retries resumes work after it. The drafts of `automation` are every set of edges over three ids, with
every binding, a missing and a duplicate node, one repeated edge, or an on_failure edge: the
smallest graphs with a cycle of each length and a diamond's join. `learning_loop` has
`MinRuns` 1 and `FreshRuns` 1 for the code's 3 and 2, and remembers 2 runs for its 16, so that four
feedbacks can praise, blame, revalidate and fill the list, and three with a rollback or a crash
among them; the theorems cover the real values.
`workflow_projection` searches 2 rows for stable workflows (64 in the code), so that one can fall out
of the window and be derived a second time, 12 for candidates (232), and names at most 3 candidates
(200); a write begins while fewer than seven rows are stored, which lets a count reach three, a review
be refused, and a promotion rest on the one observation a rollback has left. Bounds are constants (`Max...`) in guards; nothing else is cut.

### Fairness

Weak fairness is given to what the runtime itself schedules: microtasks, timers, the pump, the
finalization of a run, recovery ticks, the walker between awaits, a cancel once begun. Of what is awaited, an
embedding call is fair because `embeddings/http.ts` aborts it, a sandbox command only once its
timeout or a kill has fired, a replay because the liveness of a run is stated for replays that
return. Clients, handlers that hold a gate token, crashes, cancels and shutdown are never fair.
`WaitersAreSettled` needs only the waiters' timers. `lite_memory`, `learning_loop` and
`workflow_projection` make no liveness claim: what they await, a reviewer or an embedding
provider, may fail, and nobody takes up a request that died with its process.

## 4. Proofs

Every invariant and every action property that a run checks, and both refinements, are proved as
well, for every value of the constants that satisfies the modules' assumptions; only liveness is not.
Most of the properties are not inductive. What each needs besides is the interesting part.

- `SandboxExecutorProofs`. `TypeCorrect` first, with the Boolean flags as a part of their own.
  `WakeupNeverLost`, for every pool size: every step either schedules a pump, or leaves queue and
  counter alone, or is the pump, which takes a prefix of the queue as long as the free slots and so
  stops only for want of runs or slots. `CommandsStartOnce` says where a run is (`PlaceInv`): with
  its route, in the queue, or in one call, and in each of these how often its command has started;
  `PoolAlwaysConsistent` counts the calls and the queue from there. The other three hold as long as
  heartbeats keep up, and say so: `ReliableHeartbeat` is their hypothesis. `RowInv` is what it gives:
  a call that lives in a process that is not shutting down has a fresh row, so recovery finds none
  to finalize, and its row is running. From it follow `TelemetryAlwaysAgrees`, with rows that
  have no telemetry counted against the crashes; `ExecutorImplementsLifecycle`, step by step, a step of
  the executor, one that dies between two commits included, being one of `SandboxRunLifecycle` or a
  stutter; and `KilledCommandsEndCanceled`, which follows a killed call to the row it writes or to the store that was closed before.
- `AdmissionProofs`. Of the gate on its own, `GateAccountsForSlots` and `WaitersAreServedInOrder`.
  The strengthening: the queue holds exactly the waiting requests, each once, so a hand-over gives
  the slot to one request that did not have one. `AdmissionAccountsForSlots` and
  `AdmissionServesInOrder` carry both over to the composition: each of its steps is a step of the
  gate or leaves it alone. `BudgetHolds` proves `WithinBudget` for every rate, burst, cost, sweep
  interval and number of callers. A grant depends on what the bucket holds, so the invariant adds
  that what was granted since any grant, plus the tokens in the bucket, is at most the burst
  and the refill since then, and of a swept bucket that what was granted since has been refilled
  in full, which is what `TtlCoversBurst` is needed for. `HintsAreLongEnough` proves
  `RetryAfterIsEnough`: until somebody else is granted a token, no check of a sleeper's bucket leaves
  less in it than the sleeper will find enough when it wakes (`SleepInv`), which rounding the hint
  up, and a sweep that brings a bucket back full, both keep.
- `RecallTextEmbedProofs`. `RecallTypesHold`, `VectorsAreOwn` and `FlightsAreShared`, for any batch
  size, limits, texts and requests. `BatcherInv` places every item: queued once, or in exactly one
  batch that has not settled, and those batches share nothing. Forming batches folds over
  the queue, so its lemmas show first that a fold over places takes each entry once.
  `FlightsInv`: a pending item is the published flight of its text; that nobody asks the provider
  past it is what makes flights shared.
- `AutomationProofs`. `ValidationDecidesSoundness`: for every graph a request may hold, of whatever
  size and with however often repeated edges, `validateAutomationGraph` accepts it exactly when it is
  sound, and the order it then computes fits it. Its search is shown to reach what the reference's
  closed sets contain, since a round that adds nothing ends it and there are no more rounds that add
  something than nodes; its loop keeps, of every node not taken, the count of edges into it from
  nodes not taken, so that in an acyclic graph some node is always free. `ValidationIsAlwaysRight` is the
  same of what is answered to a draft. Of the run: whatever the walker is behind is terminal, and
  behind a node that did not succeed everything is terminal or the walk is over for good (`OrderInv`),
  across pauses, cancels and crashes, but for the nodes that a cancel cut short had rejected
  (`Rejected`); and once a cancel was answered, a walk that is still under way meets terminal nodes only. With it `NodesStartAfterDependencies`, `ApprovalsAreAlwaysGiven`
  and `NothingEverStartsAfterCancel`; `ResumedGraphIsAlwaysTheSame` rests on versions being written once.
- `LiteMemoryProofs`, for any number of requests, reviews and nodes. `MemoryTypeCorrect`,
  `EdgesAlwaysHaveEndpoints` and `VersionsAlwaysMirrored` come from `MemoryInv`. Lemmas about a
  batch (it keeps the rows there are, `BatchKeeps`, and closes its own edges, `BatchCloses`) lead to
  one about each way a transaction can end (`ShortTxKeepsStore`, `LongTxKeepsStore`). The mirror
  needs that rows on disk are rows of `db` with the same content (`Kept`), and that `db` as well as
  `disk` is mirrored. Without the first, a COMMIT by another review could bring a content to disk
  that the mirror has replaced; without the second nothing is known of what a COMMIT puts on disk.
  What the mirror lacks of `db` it lacks of `disk` (`MirrorInv`): only a crash into a joined review whose
  opener has ended makes such a version, one at a time, and that review never writes again.
  `LastingInv` is what answers promise, and gives `AnsweredTransactionsLast`,
  `RefusedWritesLeaveNothing`, `ConflictsAreAlwaysReal` and `VersionsAreNotShared`. All that is on
  disk is in `db` (`Within`), so no COMMIT of another takes anything back. Every row has a request it
  was written for that got past its checks or ran joined (`AuthoredInv`). A review that opened its
  transaction holds it, and another that has its version would have left a row in `db` that its
  insert meets (`Alone`), which needs that no content is the mirror's absent one
  (`MirrorAssumption`).
- `ExecutionContinuityProofs`. `TransitionsAreSerial` (`OneTransitionPerRevision`): every transition
  applied so far lies below its state's revision, which `put` never lowers; only a crash starts
  over, and forgets the states with their history. `ContinuityImplementsMemory`: every step of the
  composition is one of `LiteMemory` or a stutter, so the theorems of `LiteMemoryProofs` hold of it.
  `RecoveredStatesAreStored` uses them: what a state in memory was put by has been answered, and
  what was answered lasts.
- `LearningLoopProofs`. For any runs, rules, requests and thresholds: types, `EarnedTrust`,
  `TrustFallsToEvidence`, `AnsweredObserved` (a run whose praise was answered is in the anchor unless
  that is full), `CountersFollow`, `ActiveIsAuthoritative` and `PolicyRooted`. The strengthening ties
  the anchor's fields to the history (`EvidenceInv`): `observed` holds only who praised, and all of
  them while they fit; `counter` is no less than the blames (a review counts one again); `fresh`
  holds only runs that are new since the last blame; and counter evidence that is closed was
  closed by enough of these or by a review. It is proved of what is read and of what is on disk, each
  with the history kept beside it, because a rollback or a crash makes the second the first. An answer
  that ran in another's transaction confirms nothing, so `confirmed` runs are on disk.
- `WorkflowProjectionProofs`. `RowsAreUnique`, `PromotionBacked` and `ProjectionImplementsLifecycle`,
  which is a refinement proved step by step: a write or an answer maps to an observation or a
  promotion or, if its rows are there already, to a stutter or a commit; a rollback and a crash to a
  taking back. A promotion by an answered review needs the other observation to have been there, so the
  invariant says of every waiting write that what it has counted is stored or was taken back
  (`WaitersAreBacked`): what was ever seen only grows. And what is committed is backed by itself,
  since a rollback makes it what is read. `RecurrencesAreCounted`
  proves `RecurrenceIsCounted` as long as the rows a writer may see fit its window
  (`CandidatesFit`), which the run's bounds ensure and a large store does not: beyond the window an
  older candidate is not found, in the code as in the model.

Assumptions on constants are stated with the constants and hold of the code: `MirrorAssumption`
(absence is not a content), `GraphsAreWellFormed` (`AutomationGraph` in `memory/schemas.ts`),
`Cost <= Burst` (a request costs one token; `config.ts` makes bursts positive integers),
`NoFlight \notin Items`, and `TtlCoversBurst` (section 5).

Induction over the naturals is taken from the least element of a non-empty set (`LeastNatural`,
`AllNaturals`), since the library's induction theorems need an operator as an argument; folds and
recursive functions are first shown to satisfy their equations, and sets are counted by surjections.
For the same reason the models write loops as recursive functions or with `FoldLeft`, sort a set
by CHOOSE, and take a text from the cache with `RemoveFirst`.

Only model-checked: the liveness properties (`RunningEventuallyFinishes`,
`AcceptedEventuallyFinishes`, `WaitersAreSettled`, `RequestsAreAnswered`, `RunSettles`), since ENABLED
and fairness are outside the prover, and of course the violations, which are counterexamples.
`AnsweredRunsAreObserved` and `ActivePolicyIsAuthoritative` are proved and not listed in a run:
`TrustIsEarned` and `PolicyRootsInTrust` are what the run asks.

## 5. Assumptions and what is left out

- A SQLite statement that passed the code's checks succeeds, and finds the file unlocked. In
  the code, write store, sandbox rows and automation rows are one file on several connections: a
  review that holds the write lock makes the others wait, synchronously, on the only thread.
- A crash is the death of the process. A power failure, which `synchronous = NORMAL` in WAL mode
  lets undo the last commits, is not modelled.
- Two fast writes never interleave inside their transactions: their awaits are microtasks of
  one turn. For the same reason a review does not end in the middle of a write that joined it.
- `ReliableHeartbeat` = TRUE: the heartbeat (5 s) is written well within the stale limit
  (120 s). With FALSE, recovery may finalize a run that is alive, and rows and telemetry may part.
- `TtlCoversBurst`: a bucket is not evicted before it could have refilled. `config.ts` does not
  enforce it; the defaults satisfy it. Floating-point drift is not modelled.
- Duplicate texts never share a batch in `recall_text_embed`, since single flight removes them:
  the batcher's grouping of duplicates is modelled and not exercised.
- Rows that write requests create are never edited in `LiteMemory`: life cycle, feedback and policy
  operations, which do edit them, are not modelled yet. In the code such an edit makes a retried
  write conflict, so `ConflictsAreReal` speaks of writes and embeddings only.
- `LearningLoop`: a decision is abstracted to the run it belongs to. The rules that match the context
  stay the same; with two or more the anchor is put to a review, and a review result sent by the
  client when there are fewer ends in an error, which is left out. Neutral feedback, the
  feedback route of rules, the selection of a tool and operator suppression are left out too.
- `ExecutionContinuity`: a write carries at most one state and one transition (the route puts all
  states of a batch, then applies its transitions; a handoff applies the transitions of one node), and
  what a transition changes of a state is data. Reading is left out: recovery takes the state from
  memory and falls back to the slots of the node.
- `WorkflowProjection`: a write has one source (a batch projects one source per signature), with a
  client id. Rows of one millisecond are ordered by insertion here and by id in the code. Team
  lanes, the explain route and edits of rows by other operations are left out.
- Left out: ranking, text, scores, formatting, HTTP codes, tenants and scopes (one scope
  is modelled), the server edition, the clients and user interfaces.

### Not modelled

Most of the repository's lines hold no state that steps of several actors share: request schemas
(`memory/schemas.ts`), SDKs and generated contracts (`packages/`), benchmarks and probes
(`scripts/`), applications and documentation (`apps/`), and the read-only surfaces that rank,
assemble and summarise (`memory/recall*.ts`, `memory/context*.ts`, `app/planning-summary*.ts`). Their
correctness is about values and text, which TLC would enumerate to no end and tests reach well. They
are why the models map only a small share of all lines. What keeps state and is not modelled
yet: rules and their counters outside tool feedback, sessions, the recovery of handoffs,
archive relocation and rehydration, the sandbox budget, and the recording, compilation and running
of playbooks.

## 6. Plan

Modelled so far: execution (sandbox, automation), admission, recall embedding, the store with its
transactions and execution states, and learning (anchors, policies, workflows). Next, in this order:

1. `NodeLifecycle` over `LiteWriteStore`: rehydration and forgetting as read-modify-write of a row,
   composed with write retries. Properties: tier moves, conflicts after an edit.
2. `Rules`: state changes and the feedback route, beside `LearningLoop`'s counters.
3. `ReplayPlaybook`: promote, repair, compile and dispatch beside `ReplayReview`, with the mirror's
   ghosts after a rollback; abstract specification: versions as an append-only log.
4. `SandboxBudget` over the run rows.
5. `SQLite` locks between connections, for the reviews that hold one while a sandbox run is
   wanted.

Left to prove: nothing that the runs check but liveness. Worth stating next: that what
`ThrowBeforeTry` leaks is all that is leaked (`SlotsAreInFlight` while nobody throws), and, with
`ReplayPlaybook`, that it implements the append-only log of versions.
