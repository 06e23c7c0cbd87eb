# Verification project for awesomeposter

TLA+ models of the run engine of awesomeposter, checked with TLC on small
instances and, where it matters most, proved with TLAPS for all of them.
All paths below are under `src/`.

## 1. The system

The repository is a monorepo for planning and producing social-media posts.
Its core is `packages/flex-agents-server`: a *flex run* takes a task envelope,
asks an LLM planner for a graph of nodes, executes the nodes one after the
other, pauses for people, and replans when policies or goals ask for it.

| Component | State | Operations | Hard parts |
|---|---|---|---|
| **Plan scheduler** (`PlanScheduler` in `flex-execution-engine.ts`) | completed ids, conditional locks, ready queue | `next`, `markCompleted`, `markConditionalRelease`, `resetFromNode`, `requeueNodes`, `refreshAll`, rebuild from a snapshot | the queue is maintained incrementally by five operations |
| **Execution engine** (`flex-execution-engine.ts`) | node outputs, statuses, policy attempts, pending policy actions | `execute`: run a node by kind, apply policies, goto, pause, ask for a replan, produce the output | goto loops, pauses in any of these places, resume from what was stored |
| **Run coordinator** (`flex-run-coordinator.ts`) | per call: active plan, goal replan counter; in the database: the run | `run`: find or create the run, resume, submit or decline a task, loop over `execute`, replan, finish | many awaits, two branches with different error handling, callers that overlap |
| **Persistence** (`orchestrator-persistence.ts`) | `flex_runs`, `flex_plan_snapshots`, `flex_run_outputs`, node rows | `createOrUpdateRun`, `updateStatus`, `savePlanSnapshot`, `recordResult`, `recordGoalConditionCheckpoint` | rows that must agree; which are written together |
| **Flex routes** (`routes/api/v1/flex`) | none | `run.stream`, `run.resume`, `tasks/decline` | a check before an await, a use after it |
| **SSE admission** (`utils/concurrency.ts`) | semaphore count, waiting queue | acquire, release, backlog check | a slot is free between release and the waiter's turn |
| **HITL service** (`hitl-service.ts`, `hitl-repository.ts`) | requests, answers, a snapshot per run | raise, deny, answer, load, save | read-modify-write of the snapshot from several calls |
| **HITL routes** (`server/api/hitl`) | none; they act on `orchestrator_runs` | resume, remove, list what is pending | check, await, write; a second server |
| **Planner** (`flex-planner.ts`, `planner-service.ts`, `planner-validation-service.ts`) | none | draft, repair, validate, build the graph | the drafts come from an LLM |
| **Policy normalizer** (`policy-normalizer.ts`), **run context**, **goal conditions** | none or per run | which policy acts when; compile and evaluate a condition; merge data | precedence |
| **Condition DSL** (`packages/shared/src/condition-dsl`) | none | parse, validate, render, compile to JSON-Logic, evaluate | texts that must survive being rendered and read again; names bound by quantifiers |
| **Capability registry** (`flex-capability-registry.ts`) | capabilities, heartbeats, a cached snapshot | register, list, expire; narrow the active capabilities to those a planning call can use | stale caches; two walks over a graph with joins and cycles that only count |
| **Legacy agents server** (`packages/agents-server`) | run snapshots, HITL state | an earlier engine | superseded |
| **Discovery ingestion** (`server/jobs/discovery`, `discovery-repository.ts`) | `discovery_sources` with claim, schedule and failure count | list due, claim, fetch with retries, store, complete, fall back, mark stale | jobs of several servers, a restart while a source is claimed, a completion that fails |
| **Discovery items** (`scoring.ts`, `discovery-bulk-actions.ts`, `packages/db/src/discovery`) | items with status, score, brief and history | insert, score inline, reset, promote, archive, in bulk; lose a brief or the source | transactions that read first and write by id later |
| **Keyword cache** (`discovery-keyword-cache.ts`) | keywords by client | load, invalidate on an event | a load that ends after an invalidation |
| **Web application** (`src/`) | Vue stores; the sandbox's rows of conditions | list, filter, stream events; edit an envelope's conditions and submit it | events that overtake answers; rows derived from an envelope and written back to it |

How they interact: a route checks the run's row and calls `run()`; `run()` reads
the rows, builds an in-memory plan and calls `execute()`; the engine writes
snapshots and statuses of its own and *throws* to end a call (pause, replan,
failure), and the coordinator catches and writes again. Two calls on one run
share nothing but the database rows. A capability raises requests through the HITL
service while it runs; operators answer them in the web server, which writes the
same tables, and the run call that a client sends afterwards reads the answers.
The status of a run is thus kept twice: in `flex_runs`, which `run()` and the flex
routes go by, and in `orchestrator_runs`, which the HITL routes go by.

What a policy or a decision starts may take several calls: the engine keeps the HITL
actions that wait for an answer, the attempts of policies and the retries of
post-conditions in memory, every pause and replan hands them over in a snapshot's
`pendingState`, and the next call gets them back from there.

Discovery is separate: each server runs the ingestion every five minutes and the
stale-marking task every hour; servers, fetches and reviewers meet in the tables
only. Conditions travel from the sandbox through `run.stream` and the policy
normalizer to the engine, each of which compiles them anew.

`PROJECT.json` lists every component, and
under `hazards` every place where we saw something that a test would hardly
reach, with the property that watches it or the reason there is none.

## 2. Modules

| Module | Models | 
|---|---|
| `PlanScheduler` | the class of that name, as operators on a plan and the scheduler's state |
| `PlanExecution` | one run: `execute()` on that scheduler, with goto, pauses, resume and replan |
| `RunLifecycle` | abstract: how the status of a run may change |
| `FlexRun` | `run()` and the routes: several requests over the shared rows; implements `RunLifecycle` |
| `RequestLifecycle` | abstract: what the tables of requests and responses promise the coordinator |
| `HitlRequests` | the requests of one run: raised by its agents, answered or cancelled by operators; implements `RequestLifecycle` |
| `PolicyActions` | one run: what policies, their nested actions and failed post-conditions do, and what pauses keep of it |
| `CrcsSelection` | which capabilities of the registry the planner is shown, and whether it is called |
| `SourceClaims` | abstract: a source is had by one owner at a time |
| `DiscoverySources` | the ingestion jobs of several servers and the marking task over the rows of the sources; implements `SourceClaims` |
| `DiscoveryItems` | the items of one client: stored and scored by fetches, promoted and archived by requests |
| `ConditionLogic` | the evaluator of JSON-Logic conditions, as operators |
| `ConditionDsl` | the language: tokens, trees, JSON-Logic and the ways between them, as operators |
| `ConditionDrafts` | an author's conditions from the sandbox to the run, on these operators |
| `MC...` | instances for TLC |
| `..._proofs` | theorems and their proofs, for `PlanScheduler`, `PlanExecution`, `FlexRun`, `HitlRequests`, `PolicyActions`, `CrcsSelection`, `DiscoverySources` and `DiscoveryItems` |

The first two state machines meet at the outcome of `execute()`: `PlanExecution` shows
which outcomes there are and what scheduler state each leaves; `FlexRun` takes
any of them and shows what happens to the rows. They share no variable, because
one `execute()` call touches no row another call writes between its pauses
except those `FlexRun` has. `PolicyActions` looks at the same calls from another side: its plan
is a mere chain, so that it can follow what is carried from call to call. The "storing" step of
`DiscoverySources` is the fetch of `DiscoveryItems`: nothing of an item decides what
becomes of its source. `CrcsSelection` comes before a plan exists: what the planner makes of the table
is any plan, to `PlanExecution`.

### PlanScheduler and PlanExecution

`done`, `locks` and `ready` are `completedNodeIds`, `conditionalLocks` and
`readyQueue`. The queue is re-sorted by plan position after every push, so a set
with the rank of each node says as much. Remaining-dependency counts are not
kept: at each use the code's count is that of incoming edges from nodes not
completed. A stored routing result is `selected`, a node's entry in
`nodeOutputs` being irrelevant otherwise.

The actions are the stretches of `execute()` between decisions: `Dispatch`
(`next`), one action per node kind (`RunVirtual`, `RunCapability`, `RouteTo`,
`RouteNowhere`, `PauseForHuman`), `FailNode`, the policy point after a node
(`NoEffect`, `Goto`, `FailByPolicy`, `RequestReplan`, `PauseByPolicy`) and the
end (`Complete`, `MissGoal`, `RejectOutput`, `PauseForApproval`). `Resume`,
`Submit`, `Decline`, `Replan` and `ReplanFails` belong to the coordinator.
`Load` is the start of a call: it prunes the completed ids, rebuilds the locks
from stored routing results and refills the queue.

`Rehydrate` is what a plan becomes on its way through a snapshot. A stored node
has neither its kind nor its routing configuration: the kind is guessed from the
planner stage, and a node without a capability gets the id `unknown`. So a
routing node comes back as one that holds locks but cannot route (`routeless`,
when its stage is literally "routing") or as one that fails when it runs
(`broken`). Nodes that were completed before the pause are not run again, but a
`broken` routing node no longer holds back what it did not select.

### FlexRun and RunLifecycle

`status`, `version`, `snapshot` and `output` are the rows: `flex_runs.status` and
`.plan_version`, what kind of state `flex_plan_snapshots` holds under each
version (the plan as generated, as paused, or as finished), and
`flex_run_outputs.status`. Everything else is local to a request: `pc` says at
which await it is, `asked` which run the route accepted it for, `run` and
`planned` are `runId` and `activePlan.version`, `resumed` says which branch it
took, `tries` is `goalConditionReplanAttempts`.

Each action ends at a database write, or at the check that decides the next one:
`Check` is the route (status, payload, snapshot), `LoadRun` and `CreateRun` the
start of `run()`, which looks at the rows again, by run id and by thread id.
A pause is three writes: the engine's snapshot (`StorePause`), the engine's status
(`WritePause`) and the coordinator's status (`EndPause`). `Record` is
`recordResult`, one transaction over status, output and snapshot. `Throw` is an
error of no known class: the initial branch has a catch for it, the resume branch
has none. `Crash` ends every request and leaves the rows.

Abstractions, besides those the modules name:

- a database call succeeds; a failing one is an error like those of `Throw`;
- `GoalLimit` is positive (the code reads 0 as "no limit");
- `run.stream` envelopes that carry a run id themselves are not modelled, nor is
  the optional `expectedPlanVersion` of a resume: a client may leave it out;
- the audit record a resume writes is metadata nobody reads for control;
- `decline` through its own route takes no slot; since slots only delay, both ways
  of declining are one;
- a client that disconnects does not stop its run: `sse.send` returns quietly.
  That is why clients that "overlap" are realistic: after a reload of the page
  the run shows as awaiting while the first response may still have steps to take.

### HitlRequests and RequestLifecycle

`row` and `answer` are the tables `hitl_requests` and `hitl_responses`; `json`, `top`,
`column`, `status` and `audit` are the run's row in `orchestrator_runs`: the
requests as last saved, the one waited for (twice: in the JSON and in a column), the
status and the audit log. `phase` to `knownTop` are what the run call has in memory,
above all the HITL context: the accepted count (`accepted`) and the snapshot a
raise extends (`known`). `pc`, `view`, `viewTop` and `next` are the locals of a raise
or of a route between two awaits.

A step is the code between two calls to the database, since nothing of this is in a
transaction. A raise is `BeginRaise` (reads the limit), `InsertRow`, `NoteRow`
(extends the context's snapshot), `LoadStatus`, `EndRaise` (saves the snapshot). A
route is `CheckResume` or `CheckRemove` on the run's snapshot, `InsertAnswer`,
`CloseRow`, `ReadRows`, `LoadStatus`, `SaveDecision`, `RereadRows`, `ReadLog` and
`Finish`. The actions under `Call` are what the coordinator does around that:
`RecordResume` saves the audit log that `RequestCall` has read, `StartCall` loads the
rows, `RejectRun` ends a run that an operator rejected, and the others set the
status; `RecordResult` also replaces the metadata.

`RequestLifecycle` has the two tables alone, as the coordinator sees them when a run is called again: only absent requests are
raised, only requests that exist are answered, only answered ones are resolved. It does allow a second decision to
replace the first, because the code does: `DecidedOnce` needs operators that wait. The variables have the same
names, so the refinement mapping is the identity.

- One run call at a time: that two calls may run at once is `FlexRun`'s subject.
- Requests are numbered in the order they are raised, and the oldest open one is
  the pending one; the code orders by creation time.
- Which entry a resume adds to the audit log is left out: `audit` has the
  operators' calls.
- A restart forgets what a server had in memory. After one, the run can be called
  again only if `flex_runs` was not yet `running`.
- `Parallel` says that the tool calls of one model turn overlap: the agents SDK
  runs them so unless told otherwise. `Overlapping` says that operators and clients
  do not wait for each other.

### PolicyActions

`entries`, `attempts` and `retries` are `policyActions`, `policyAttempts` and
`postConditionAttempts`; `saved` is the `pendingState` of the last snapshot; `done` counts the
completed nodes of a plan that is a chain. `next` and `kept` are the locals of
`processPendingPolicyActions`: the entry it is at and `remaining`. `requests` are the HITL
requests of the run with what raised them, `known` those whose answer the call loaded.
`jumps`, `carried` and `cut` are history.

`HandleRuntimePolicyAction` is that method: one disjunct per type of action. It is used by the
walk over follow-ups (`KeepEntry`, `DropEntry`, `CarryOut`, then `EnterLoop`), by `StartPolicy`
and by `ApplyPolicy`. `Retry` and `GiveUp` are `handlePostConditionFailure`; `Save` is the
state each of the five pauses and the replan stores. A pause throws, so `CarryOut` of a
follow-up that pauses leaves the walk before `EnterLoop` has shortened the list.

- A nested `replan` is an unhandled type and does nothing, as in the code.
- `Decide` has four answers: "reject" is a rejection whose response asks to go on, "refuse" one
  after which `checkResolvedHitlOutcome` fails the run. An answer that is neither approval nor
  rejection is, to the engine, no decision: "open".
- The order of the answers and of resumes is free; who may resume is `FlexRun`'s subject.
- `Replan` may put other nodes before those it keeps, which is what the planner may do.
- `resumePending` is left out because no resume reaches it: `run()` accepts a resume only of a run
  that awaits an answer (`isAwaitingPause`) and sets `executionMode` to 'execute' for every such
  run (`flex-run-coordinator.ts:1192-1197`).

### CrcsSelection

`computeCrcsSnapshot`, and the check `buildPlan` makes of its result. `catalog` and `request` are its arguments: the active
capabilities, each its place in the registry's list with its input and output facets, and what the call brings: the facets
on hand (`start`), those the output contract owes, those of the goal conditions and of the conditions that failed, and the
capabilities policies name. `queue`, `visited` and `remaining` are the locals of the walks, `reached` and `needed` their results.

The function is synchronous; its steps are the iterations of its two loops, so that the order in which a walk takes facets can be
left open: the queues are sets. `StartForward` and `StartBackward` fill the queues, `WalkForward` and
`WalkBackward` are one iteration each, with its inner loop over the consumers or producers of the facet, `Select` intersects,
cuts the table to its cap and collects the missing pins, and `ReturnEmpty` is the early return.

- `rows` is which capabilities are listed; their texts, reason codes and counts, which are telemetry, are left out.
- `missing` keeps capabilities and goal facets apart, which the code tells by a prefix.
- `pinnedCapabilities` and `availableFacetHints`, which `buildPlan` does not pass, are left out.
- How the snapshot was loaded is left out: it is an input.

### DiscoverySources and SourceClaims

`status`, `due`, `old` and `failures` are `lastFetchStatus`, `nextFetchAt`,
`lastFetchCompletedAt` and `consecutiveFailureCount`. Time is in the two flags: `TimePasses`
makes a source due, or old. `queue` is what a server's job has listed and not launched; `pc`,
`attempt`, `success` and `seen` are the locals of `processSource` for a source.

`StartJob` lists the due sources once the last job has ended, `Launch` is `refill`. `Claim` is one
conditional UPDATE and therefore one step; completion is a read and a write
(`ReadCount`, `Complete`), and so is its fallback (`ReadCount`, `Release`). `FindStale` and `MarkStale` are the
SELECT and the UPDATE of the marking task. `Crash` ends a server's job; `lost` remembers
the sources it had. `ClaimFails`, `CompleteFails`, `Crash` share the budget `MaxFaults`;
`ReleaseFails` is free, as it follows a failed completion, often for the same reason.

`SourceClaims` has one variable, `holder`. The refinement reads it off: the server whose task is
between claim and release, `Lost` for a lost source, else nobody.

- The health columns other than the failure count are derived from it and left out.
- Which retry delay is slept is left out, as is the daily schedule `computeNextFetchAt` computes.
- A deleted source stays deleted; creating one is being in `Source`.
- The due list is ordered by due time and cut to a batch; `Listed` is the whole list. A source that waits is by and by
  among the oldest, so the cut only delays what `DueIsFetched` promises.

### DiscoveryItems

`status`, `score`, `source`, `brief`, `briefs` and `reviews` are the columns and tables of these names, `reviews` being
`discovery_item_status_history`; `fetch` and `batch` belong to the fetch of a source, `call` to `result` to a reviewer's
request. `wanted` is its list of ids, a sequence, because `itemIds` may name an item twice and the loop goes over
every place of it; a place is a `Job`, and the brief that is made there has its name. Transactions run at the default
isolation and lock nothing they read; so one that reads and then writes is two steps, and a promotion is `stale` when the
brief of its item changes in between. `raced` remembers the items that were written on such a read.

`Fetch`, `Insert` are `persistDiscoveryItems`; `Score`, `Persist`, `PersistFails`, `Reset` are
`runInlineScoring`; `Read`, `Write`, `Detail` and their failures are one place of the list of `executeDiscoveryBulkAction`,
or the single promotion route. `DeleteBrief` is the route that deletes a brief, whose foreign key takes the reference off the item: the
item stays `promoted` without a brief, and may be promoted again. `DeleteSource` takes the items of a source with their scores
and reviews (ON DELETE CASCADE); a request still at such an item finds no row, and a fetch still at work has nothing to write to.

- `reviews` is in the order of commits. `created_at` is taken before a transaction writes (`promotedAt`, `occurredAt`), so when two
  requests overlap on an item, a list sorted by it may show them the other way round. The properties speak of commits.
- `Score` may answer in any way about any part of the batch, since what items look like while scores are computed decides nothing.
- Deleting a client, which deletes everything here, is left out, as is deleting a brief by deleting its client.

### ConditionLogic, ConditionDsl, ConditionDrafts

An expression in JSON-Logic is a tuple that begins with its operator, a text is the sequence of
its tokens, a string the sequence of its characters as far as escaping tells
them apart. A number stands for others in their order: the constant `Exponential` has those that `String(value)` writes with an
exponent, and `Foreign` the names of fields and aliases that are no identifiers (`foo-bar`), which validation accepts below an alias and
the tokenizer does not read. What `Render` writes for these, and for negative numbers, is the token `Other`, which no text may have. `ParseDsl` is tokens, tree, canonical names, validation, JSON-Logic; `ToDsl` the way back. The
operators have the source's names (`NeedsParens`, `FlattenLogical`, `FromLogic`, ...).

`ConditionDrafts` has the envelope, the rows of the editor and a submission. `Input` is
`handleRuntimePolicyDslInput`, which recomputes one row and writes all; `Sync` derives the rows
anew; `Submit` is what `run.stream` and then `normalizeRuntimeCondition` make of
the conditions; `Load` takes an accepted envelope back into the editor. `meant` is history: what each
condition's author gave last. `Means` is the reference definition: lexical scoping, on the tree. Its
exceptions are named operators, `Ambiguous` (names that do not tell an item's field from the payload's) and
`Nested` (JSON-Logic that was wrapped twice).

## 3. Runs

| Run | Result | Question |
|---|---|---|
| `plan_execution` | passes | Are queue, locks and completed set right through any mix of routing, goto, pause, resume, replan, and does every `execute()` call end? |
| `branch_deadlocks` | violated | Does a run on an acyclic plan with a route end otherwise than in a deadlock? |
| `flex_run_serial` | passes | Do the rows stay consistent when clients wait for each response, with a restart, and is a running run driven? |
| `double_resume_forks` | violated | Does an accepted resume stay on its run? |
| `hitl_serial` | passes | When each waits for the other, is every open request offered, decided once, counted and logged? |
| `hitl_overlap` | passes | When all overlap and servers restart, is the snapshot that the routes go by behind the rows, and do the tables keep what `RequestLifecycle` promises? |
| `policy_actions` | passes | Are attempts, retries and waiting HITL actions what they should be after any mix of pauses, answers, resumes and replans? |
| `retries_forgotten` | violated | Are retry counts kept over every pause? |
| `discovery_sources` | passes | Is a claim exclusive and released, and is every due source fetched, on two servers with faults? |
| `discovery_items` | passes | When fetches and reviewers meet, do status, score, brief, history and report agree? |
| `crcs_selection` | passes | Do the walks over the registry find exactly what can be supplied and what helps, whatever the order? |
| `condition_drafts` | passes | Does a run evaluate what the author of each condition meant? |

**Bounds.** `plan_execution` uses four nodes and six plan shapes: a chain without
edges, a diamond, a route guarding one node, a route with two targets that
depend on each other or not, and a route that leads back. They cover every kind
of node, a join, a fork and a cycle. Two gotos, two resumes and one replan let
each follow any other. `FlexRun` has three requests: one to start a run and two that
compete for it or follow each other; as many runs as requests where each may
create one. A goal limit of 1 allows one replan and one excess; versions
up to 3 allow two replans; one restart suffices as nothing accumulates over
restarts. Requests and runs are symmetric. The two constants `HasThread` and
`Overlapping` select what clients do: `flex_run_serial` has a shared thread id, so that
a request may find any run by its thread, and clients that wait; in `double_resume_forks` they do not.

`hitl_serial` has three requests against a limit of two, so that one is denied after
any mix of answers, and three operators' calls, so that each request may be decided
or one be decided twice. `hitl_overlap` has two of each, which is what a lost update
needs, a limit of one and one restart.

`policy_actions` has two nodes and seven policies, so that a HITL action has a follow-up that asks again
and one that jumps back, and a replan, a pause, a post-condition of either
kind and a startup policy all occur. Three requests let a repeated follow-up use up
the limit; three resumes let one answer overtake another; one retry and one jump are the least
that can be exceeded.

`discovery_sources` has two servers, two sources and one worker: jobs meet on a source, and a source waits behind another.
Two attempts allow one retry; one fault, because faults do not add up; one source ages, since only one needs to be marked;
failure counts above 1 differ in nothing the code looks at. `discovery_items` has two of everything, a threshold that
one fetch can reach and two can pass. One request is a list of up to two places, so that it may name both items, or one of them
twice; the other promotes one item, so that two promotions meet on an item with and without a deletion in between. There are no bounds otherwise,
since a feed is fetched again and again and two requests are finitely many (2,118,479 states up to symmetry). `condition_drafts` has 45 envelopes
that between them have every operator, precedence, quantifier form and kind of literal, and each kind of number or name that
cannot be written, one condition beside the edited one,
and four payloads: with all fields, with missing ones, with items that lack the field, and with
items that shadow the payload.

`crcs_selection` has every registry of two or three capabilities with five choices of inputs and three of outputs over four facets:
one on hand, one owed, two in between. Three capabilities make a join of two producers, a cycle, two alternatives, a dead end; two rows
cut a table of three. The four calls have no pin, a pin that may be on the path, one that no active capability
has, and a goal condition that failed. The empty registry is there for the early return.

**Deadlock** is not checked where the system may stop: runs end, requests are finitely many, every source may be
deleted. It is checked in `discovery_items` and `condition_drafts`.

**Fairness.** `FairSpec` says that an `execute()` call keeps taking steps: it is
one async function without a wait on another request. Nothing is assumed about
people answering, about clients, or about which outcome a node has. There is no
liveness of runs in `FlexRun`: replans asked for by policies are not bounded in
the code.

In `DiscoverySources`, `Fairness` says that every server starts its job when it may (`nitro.config.ts` schedules it every five
minutes), launches what it has listed while a worker is free, and that a task goes on: each of its awaits is a database call, a
call of an adapter, which has a time limit, or a timer. Nothing is assumed about which outcome a call has, nor that time passes, nor
about the marking task.

### What holds

- The incremental ready queue is exact at every point (`FrontierExact`), locks are what
  a rebuild would give (`LocksMatchSelections`), and so a node runs only if the
  routes leading to it selected it (`UnselectedNeverRuns`), a goto leaves no output
  computed from something that is to be run again (`DoneIsClosed`), and a resume
  loses no work (`ResumeKeepsFrontier`).
- A deadlock has one of two causes (`DeadlockExplained`), and goto policies cannot keep
  a call running (`ExecuteSettles`).
- With clients that wait, the three tables agree (`AwaitingIsResumable`,
  `OutputDecides`), versions grow (`VersionGrows`) and the status implements the
  abstract life cycle (`KeepsLifecycle`), although two components write it.
- A run left `running` without a request is one whose
  resume ended with an unclassified error (`RunningIsDriven`). The run shows it for clients that wait,
  the proof however requests overlap.
- Four places save a copy of a run's requests over whatever is there, and an older
  copy may replace a newer one; yet the snapshot never shows a request that
  does not exist, one closed that is open, or one resolved without a response (`SnapshotBehind`), so it errs towards
  asking an operator again. The tables themselves implement `RequestLifecycle` (`KeepsRequests`): no request
  disappears or is opened again, and none is resolved before its response is stored, so the coordinator never
  takes a missing one for consent.
- With operators and clients that wait, an open request is always listed with the run
  (`OpenIsListed`), decided once (`DecidedOnce`), counted (`LimitKept`) and, until
  the run ends, logged (`AuditKeptUntilEnd`).
- A policy jumps back at most `maxAttempts` times in a run, however its attempts travel (`GotoBounded`). No HITL
  action is forgotten between its question and its follow-up (`NoDirectiveForgotten`); a follow-up that
  pauses the run again is repeated by the next resume, and nothing else repeats (`RepeatsAreInterruptions`).
- The planner is shown neither a capability that cannot be supplied nor one that does not help
  (`SelectionIsExact`): the forward walk ends with the least set that is closed under "all inputs are on hand or
  produced", the backward walk with the least that is closed under "produces a target or an input of a member", in every
  order of the queue. What is on both suffices (`PathSuffices`, which follows), and a call that goes on
  has all its pins (`PlannedIsReachable`); both are theorems.
- No two servers fetch one source (`ClaimExclusive`), whatever fails; a `running` row has a task
  that will release it, or lost it to a restart or a failed fallback (`RunningIsHeld`); every other due
  source is fetched (`DueIsFetched`); together, the ingestion implements `SourceClaims`.
- An item's status never claims a score it has not got (`ScoreBacksStatus`). Its brief is that of the latest review to commit, if
  that is a promotion whose brief has not been deleted, even where scoring overwrote the status (`BriefIsLatest`). A second brief
  of an item needs an archival, the deletion of the first, or a stale read (`BriefIsUnique`): a list that names an item twice
  makes one. Each place of a list is reported as what was done there, up to an item that could not be read again;
  a promotion reported as failed that took place was followed by another review, or its brief deleted (`ResultTellsWrites`).
- A condition that was rendered, edited beside, submitted, loaded and submitted again does what its author
  meant (`RunsWhatWasMeant`), where names are unambiguous and no record was wrapped twice. A submission fails after the editor
  accepted it only where each refused condition has itself something the language cannot write (`RefusedOnlyIfUnwritable`): a number without a
  text of its own, or a name that is no identifier, is a keyword, or belongs in the catalog to something else. Without these, a canonical text is its own
  (`CanonicalSettles`).

### Where documentation and code differ

Three are runs with `expect: violation`; the quotations are in `PROJECT.json`:

1. *Branches deadlock.* The targets a routing node does not select stay locked and
   count as remaining work (`flex-execution-engine.ts:1028`).
2. *A double resume forks.* The route checks, the call waits for a slot, and
   `run()` falls back to a new run id when the run is no longer awaiting
   (`flex-run-coordinator.ts:403`).
3. *The pause for a human forgets retries.* It alone stores no `postConditionAttempts`
   (`flex-execution-engine.ts:3070`). `RetriesKept` shows that it is the only one.

The rest we met while modelling; the models have these behaviours, and where a property would
exclude them it names them as its exception.

- *A resume forgets routing.* Snapshots keep neither node kind nor routing
  (`orchestrator-persistence.ts:703`), so after a resume the branch that was not selected may run;
  `docs/architecture/flex-agents-server/8-hitl-and-rehydration-strategy.md:4` has rehydration "restore execution
  deterministically". See `Rehydrate`.
- *Two decisions on one request.* The HITL routes check a snapshot that they save some awaits later
  (`resume.post.ts:59`); `docs/architecture/hitl/12-risks-mitigations.md:5` asks for transactions and status checks.
- *The audit log ends with the run.* `recordResult` saves new metadata in place of the one with the log
  (`orchestrator-persistence.ts:913`; `docs/architecture/hitl/10-security-compliance.md:3`).
- *A restart hides a request* whose row is stored and whose run's snapshot is not
  (`hitl-service.ts:99`; `docs/architecture/hitl/5-key-data-flows.md:25`).
- *A cancelled run can be resumed.* The remove route cancels the run in one table and `run.resume` checks the other
  (`remove.post.ts:86`; `5-key-data-flows.md:20`).
- *Limits.* With `Parallel = TRUE`, `LimitKept` fails: the limit is read before and raised after the row is stored
  (`hitl-service.ts:52`). The goal replan counter is a local of `run()` (`flex-run-coordinator.ts:421`).
- *The coordinator repeats the awaiting status* (`flex-run-coordinator.ts:1851`) after a client may have resumed on the
  engine's; with `Overlapping = TRUE`, `KeepsLifecycle` is violated that way.
- *A repeated directive.* `docs/stories/8.23.flex-policy-action-execution.md` asks for a single HITL pause per directive; a
  follow-up that pauses is repeated (`flex-execution-engine.ts:2737`). A rejection's own action is reached
  only when the response asks to resume (`:2723`), and `requiresHitlApproval` asks again whenever a resumed call gets to the
  end (`:1415`).
- *An empty registry has no missing pins.* With no active capability `computeCrcsSnapshot` returns before it looks at pins
  (`flex-capability-registry.ts:122`), and the planner is called; `docs/architecture/flex-agents-server/5-core-concepts.md:301` has
  pins that are not on a path reported. `PlannedIsReachable` names the exception.
- *More than paths.* A capability is listed when it can be supplied and helps, which is weaker than lying on one path: its output may
  feed only a capability that lacks another input, and one without inputs starts from no facet. `5-core-concepts.md:300` says
  that only capabilities on a valid path from an available facet to a required one survive. `SelectionIsExact` says what the code keeps.
- *The row cap cuts pins.* Rows are cut in registry order (`flex-capability-registry.ts:679`), pinned ones included;
  `11-capability-registry-agent-contracts.md:11` has tables kept concise "without hiding policy-critical entries".
- *Marking overwrites a success.* The marking task updates by id what it selected before (`discovery-repository.ts:1258`), so a
  source that has just been fetched gets a warning and a failure count; its description says "when no fetch has succeeded in
  the threshold window".
- *Two promotions of an item.* Both read it before either writes and both make a brief (`:1042`;
  `docs/stories/5.3.dashboard-bulk-actions.md:72`). Scoring that is under way writes its status over a review's.
- *An item promoted without a brief.* Deleting a brief leaves its item `promoted` (`briefs/[id]/index.delete.ts:26`), though it has
  no brief and can be promoted again.
- *Batches left pending.* A batch that was deferred, interrupted or only half scored stays pending and counts towards the threshold;
  nothing scores it later (`listPendingDiscoveryItems` has no caller;
  `docs/discovery-scoring-implementation-notes.md:17`). One item that another fetch has stored meanwhile fails the INSERT of the whole batch.
- *JSON-only policies that are records* are wrapped again by `run.stream` (`run.stream.post.ts:60`) and then never
  fire; `docs/architecture/flex-agents-server.md` has legacy JSON-only policies work unchanged.
- *What is rendered and cannot be read back* (`docs/stories/9.2.dsl-parser-foundation.md:14` asks for a round trip): negative
  numbers, and those written with an exponent (`String(value)`, `engine.ts:1620`), so that the accepted text `n > 0.0000001` has the
  canonical text `n > 1e-7`, which is refused; digits with several points, which are read as no number; paths below an alias with
  characters the tokenizer does not know (`engine.ts:986`), or called `true`, `false`, `null` or `exists`, which validation accepts
  (`engine.ts:1228`); an alias called like a catalog name, which is rewritten to it (`engine.ts:128`). `Unwritable` has these.
- *Goal condition drafts* with an error are dropped from the envelope when any other is edited (`FlexSandboxView.vue:926`).

## 4. Proofs

From the assumptions on constants alone (any set of plans whose node positions are
distinct; any requests and runs; positive goal limit; any policies whose nested actions belong to them and whose gotos are within their
largest `maxAttempts`; any sources, servers, workers, attempts; any feeds, requests and length of a list, and finitely many items; any registries of finitely many capabilities over finitely many facets, any planning calls and a positive row cap), for every
instance. The last column is what a theorem assumes of the instance besides:

| Theorem | Says | For |
|---|---|---|
| `TypeCorrect` | `PlanExecution!TypeOK` is invariant | all |
| `FrontierIsExact`, `LocksAreRebuildable`, `OnlySelectedRuns` | the three scheduler invariants | all |
| `CompletedIsClosed` | `DoneIsClosed` | all |
| `ResumeLosesNoWork` | `ResumeKeepsFrontier`, an action property | all |
| `DeadlockIsExplained` | `DeadlockExplained` | all |
| `RunsTyped` | `FlexRun!TypeOK` is invariant | all |
| `RunningRunsAreDriven` | `RunningIsDriven` | all, requests overlap as they like |
| `AwaitingRunsHavePlans` | an awaiting run has a stored plan: what remains of `AwaitingIsResumable` | all, requests overlap as they like |
| `AwaitingRunsAreResumable`, `OutputsDecide` | `AwaitingIsResumable`, `OutputDecides` | `~Overlapping` |
| `VersionsGrow` | `VersionGrows`, an action property | `~Overlapping` |
| `ImplementsRunLifecycle` | `KeepsLifecycle`: the refinement of `RunLifecycle` | `~Overlapping` |
| `HitlRequests_proofs!TypeCorrect` | `HitlRequests!TypeOK` is invariant | all |
| `SnapshotNeverAhead` | `SnapshotBehind` | all |
| `ImplementsRequestLifecycle` | `KeepsRequests`: the refinement of `RequestLifecycle` | all |
| `RequestsAreDecidedOnce`, `AuditIsKept` | `DecidedOnce`, `AuditKeptUntilEnd` | `~Overlapping` |
| `OpenRequestsAreListed` | `OpenIsListed` | `~Overlapping`, no restart |
| `LimitIsKept` | `LimitKept` | `~Overlapping`, `~Parallel`, no restart |
| `PolicyActions_proofs!TypeCorrect` | `PolicyActions!TypeOK` is invariant | all |
| `GotosAreBounded` | `GotoBounded` | all |
| `RetriesAreKept` | `RetriesKept`, an action property | all |
| `NoDirectiveIsForgotten`, `RepeatsAreOnlyInterruptions` | `NoDirectiveForgotten`, `RepeatsAreInterruptions` | all |
| `CrcsSelection_proofs!TypeCorrect` | `CrcsSelection!TypeOK` is invariant | all |
| `SelectionExact` | `SelectionIsExact` | all |
| `PathEnough` | `PathSuffices` | all |
| `PlannedReachable` | every pin can be supplied and helps when planning goes on | all |
| `WalksTakeNew` | every step of a walk takes a facet that is new to it, an action property | all |
| `DiscoverySources_proofs!TypeCorrect` | `DiscoverySources!TypeOK` is invariant | all |
| `ClaimsAreExclusive`, `RunningSourcesAreHeld` | `ClaimExclusive` and `RunningIsHeld` | all |
| `ImplementsSourceClaims` | `ImplementsClaims`: the refinement | all |
| `DiscoveryItems_proofs!TypeCorrect` | `DiscoveryItems!TypeOK` is invariant | all |
| `ScoresBackStatuses` | `ScoreBacksStatus` | all |
| `BriefsAreLatest`, `BriefsAreUnique` | `BriefIsLatest`, `BriefIsUnique` | all |
| `ResultsTellWrites` | `ResultTellsWrites` | all |

`~Overlapping` says that clients wait: a request concerns a run only when no other does (`FlexRun`); an operator decides
between two calls of the run, one route at a time, and the run is called again when no request of it is open (`HitlRequests`). The
server does not enforce it. None of these hypotheses is there for the proof's sake: TLC
finds every property in a row with `~Overlapping` violated when requests overlap, on
the instances of `flex_run_serial` and `hitl_serial` or smaller ones. `OpenIsListed` fails when a server restarts
between a row and the snapshot that is to show it, and `LimitKept` when the tool calls of one turn raise requests at
once, or after two restarts. That makes `AuditIsKept` and `RequestsAreDecidedOnce` the stronger results: they hold for parallel tool calls and
any number of restarts.

*The scheduler.* `PlanScheduler_proofs` has one lemma per method: if the queue was
exact before, it is exact after. `Inv` joins the type invariant, exactness and the
locks with `CurrentFits` (the node in hand is a node of the plan, of a kind its
phase allows): exactness is not inductive without the locks, because a release or
a reset moves both. One lemma per action gives `NextInv`. `ClosedInv` adds that
the node in hand has its predecessors completed; a goto keeps closure because the
reset set is closed under successors. `DeadlockIsExplained` needs a least node
that is not completed: ranks are natural numbers, and on a forward plan that node's
predecessors are done, so it is in the queue unless a lock holds it.

*The runs.* `TypeInv` needs `WithinLimit`: `tries` stays in its range because a call
that exceeds the limit ends. `DrivenInv` adds where a request stands for its run
(`LocatedAt`). Steps are split into what a step does for the request that takes it
(`StepSelf`) and what it leaves of the others (`StepFrame`). `PlanInv` is what is left of `AwaitingIsResumable` when
requests overlap: no plan stored is ever removed (`PlansStay`), and whoever writes the awaiting status has stored one before.
Whether it is the plan under the run's version, nobody keeps: two calls may have counted different versions.
For clients that wait, `SerialInv` adds that one request at a time concerns a run (`Apart`). A request works on what it
loaded when it began, and a status it writes is right only if that is still the status; `Follows` says that it is, at each place the request
can be, and it is inductive because the requests `Apart` from it leave its run alone. `Agree` relates the
columns of a run: a paused snapshot under the row's version while it awaits an answer, and the status of its recorded output. The refinement then checks each write against the status `Follows` gives it.

*The requests.* A writer may save what it read long ago, so `SnapshotBehind` is not
inductive, and a comparison of the copies with each other would not be either.
`CopyInv` compares each copy, in the database, in the call's context or in a
writer's hands, with the rows only: all are `Behind` them. The rows move `Forward`
alone (`RowsMoveOn`: no request disappears or opens again, no answer is lost), so a
copy once behind stays behind whoever saves it and when (`BehindStays`), and new
copies are made from the rows. `RaiseFollows` and `RouteFollows` say how far each
writer has got with its row, which a fresh copy needs. The refinement of `RequestLifecycle` uses the same two: a route
that closes a row has stored its response before (`RouteFollows`), and a raise that inserts one finds none (`RaiseFollows`).
When operators and clients wait, the writers take turns (`Turns`): raises while the engine executes, one route at a time between two
calls. Each step then is one of four kinds, and every conjunct is shown for each. `Noted` (the context has every row but the one just inserted) and `Settled` say
that a decision, once saved, is closed in the rows, in the snapshot and in every copy somebody may still save, so that
the next operator's check refuses it; a restart drops copies and adds none, so `DecidedOnce` needs nothing more. `Logged`: whoever
writes the audit log has read the latest. `Within`: the context's count is that of the rows, if raises come one by one. `Fresh`: without restarts
no copy shows as open what is closed. `Offers` follows what a call has raised from its start
to its last save: names a request that is open, in the context (`Names`), in the writer's hands and in the run's column.

*The policies.* `GotoBounded` counts jumps over a whole run, and no variable but history does: `IInv` adds `Bounded` (every jump
has been counted in `attempts`) and `Stored` (while the run is paused, the snapshot has what is in memory, the retries of a pause for a human
excepted), so that a resume changes nothing. `Fresh` says that the startup policy comes before anything else.
One lemma per action type shows that a handled action keeps these (`ActionHandled`), whoever triggers it. `RetriesAreKept`
needs `Stored` for the resume and the walk's place for the rest.
For the follow-ups, `Directives` adds a `Ledger` of entries: at every place of the walk, each request of an action is still to be walked
over (`Ahead`), kept for the next pause, or has an answer and its follow-up was carried out (`Settled`). A pause in the middle
of a walk stores the entries it began with, so what the walk had carried out comes again: `Counted` bounds how often by the number of such cuts.

*The selection.* The walks build least closed sets step by step. `IInv` says that a count is the number of a
capability's inputs not yet taken (taken: visited and no longer queued), that a capability is reached exactly when that number is 0, that
visited facets are those on hand and those the reached ones produce, and that whatever is reached lies in every closed set. When the
queue is empty, taken and visited are one, so `reached` is itself closed: it is `Suppliable`. The backward walk is the same
without counts. `PathSuffices` is a fact about these sets (`ExactSuffices`): a set of path capabilities closed on the path,
with the reached ones that do not help added, is closed forward (`PathIsClosed`), because what does not help produces nothing that a member of the path takes.
That a count reaches 0 exactly once needs the cardinality of a set less one element, and finite facets for that.

*The sources.* `ClaimExclusive` is not inductive: it needs that a source in somebody's hands is `running` or deleted and not lost
(`HeldAlone`), that a lost one is `running` or deleted (`LostIsClaimed`), so that no claim succeeds on it, and
`QueueWaits`, a server launches no source it is still at. `ClaimInv` joins them with `RunningIsHeld`. For the refinement, `HolderIs` turns
`Holder` into one server, which exclusiveness makes unique, and each step is a claim, a release, a loss or a stutter.

*The items.* The properties of reviews speak of an item's whole history. `Named` ties it to the requests: the `by` of every review is a place
that its request is past, and that place names the item. So no place writes twice, and the brief a `Write` makes has a new name; with this
`BriefIsLatest` is inductive (`HistoryInv`), over deletions too, because what a deletion of a brief takes off an item is what the latest review made.
For `BriefIsUnique`, a promotion about to write whose read is not stale `Knows` that its item has no brief; then by `BriefIsLatest`
the latest review is an archival, or a promotion whose brief has been deleted, and so each promotion before it is followed by one or has lost its brief (`BriefInv`).
For `ResultTellsWrites`, `AtDetail` says that a promotion about to read its item again is in the history once, and `Listed` that results are those of places
of the list (`ResultInv`); what was written at a place that is past stays as it is, and so does whatever undid it.

*Only model-checked:* liveness (`ExecuteSettles`, `DueIsFetched`), which the prover cannot do, and the properties of `ConditionDrafts` (`RunsWhatWasMeant`,
 `RefusedOnlyIfUnwritable`, `CanonicalSettles`): they are about what recursive operators compute on formulas and
texts, which takes induction over data. `condition_drafts` checks them on its inputs.

## 5. What is not modelled

LLM calls and what they return (an input: any plan, any output), prompts, facets and
contracts (their verdict is an input), telemetry and event formats, CRUD routes, storage, mail parsing, scripts, the
source adapters, the score of an item, and the rendering part of the web
application. SSE admission, the capability registry's cache and the keyword cache are small concurrent components that are planned;
the hazards in `PROJECT.json` say what to look for in each. The legacy agents server is the predecessor of the modelled one.

## 6. Plan

In order of importance:

1. *Done:* `PlanScheduler`, `PlanExecution`, `FlexRun`, `RunLifecycle` and their
   theorems.
2. *Done:* `HitlRequests`, its refinement of `RequestLifecycle` and its theorems. Left: two run calls at once.
3. *Done:* `PolicyActions` and the theorems on attempts and retries.
4. *Done:* `DiscoverySources` with its refinement of `SourceClaims` and their theorems; `DiscoveryItems`.
5. *Done:* `ConditionLogic`, `ConditionDsl`, `ConditionDrafts`. Left: goal conditions, which the sandbox edits alike.
6. *Done:* proofs of every safety property that a run checks, those of the condition modules excepted, and what remains
   of `AwaitingIsResumable` when requests overlap. Left: what remains of `OpenIsListed` after a restart, as an invariant of its own.
7. *Done:* `CrcsSelection` and its theorems.
8. `SseAdmission`: the semaphore at the grain of microtasks, and the backlog check.
   Properties: how many runs go on at once, no waiter is forgotten.
9. The keyword cache and the capability registry's cache: one module on a load that is shared and an invalidation that comes in between.
10. The task store of the web application; planner drafts: validation and graph construction as operators against a
   reference definition of an acceptable plan.
