# ChainLess: a verification project in TLA+

This directory holds TLA+ models of ChainLess, the TLC configurations that
check them on small instances, and theorems about them that TLAPS proves for
every value of the constants. Paths below are relative to the repository.

- [1. The system](#1-the-system)
- [2. Plan](#2-plan)
- [3. The modules and the code](#3-the-modules-and-the-code)
- [4. What the runs check](#4-what-the-runs-check)
- [5. Fairness](#5-fairness)
- [6. What is proved](#6-what-is-proved)
- [7. Where the code and its documents disagree](#7-where-the-code-and-its-documents-disagree)
- [8. What is not modelled](#8-what-is-not-modelled)

To repeat a check: `tlc -config SubAgentRuntimePair.cfg MCSubAgentRuntime.tla`
(each configuration belongs to the `MC` module of its component), and
`tlapm SubAgentRuntimeProofs.tla`.

## 1. The system

ChainLess is a chat platform for agents: a FastAPI backend (`backend/app`)
with PostgreSQL and Redis, a proxy that owns Docker containers
(`sandbox-proxy`), and a Next.js page (`frontend/src`). A user sends a message;
the backend runs a ReAct loop with a language model and streams its events to
the page. A tool of the loop is *Code-as-Action*: the model writes a script,
the script runs in a disposable container, and from there it may spawn
temporary *sub-agents*, which are ReAct loops of their own in the backend.

```
 page (stores) --SSE--> conversation streams --> agent engine --> tools
                             |    |                  |
                  confirmations   |            Code-as-Action
                   (PostgreSQL)   |         /        |          \
                                  |   sub-agent   control     disposable parent
                                  |   runtime     authority    (sandbox proxy)
                                  |        \        ^  socket     |
                                  |      child loops |____________|
                                  +--------> sandbox pool (sandbox proxy)
```

Everything in the backend and in the proxy is asyncio: one thread, and a task
may be overtaken, cancelled or timed out at each `await`. The proxy calls Docker in
worker threads. That is where the hard behaviour is.

| Component | State | Operations | What is hard, and what makes it correct |
|---|---|---|---|
| **Sub-agent runtime** `core/agent/subagents.py` | per parent: budget, consumed, reserved, pending results, active children, the quiescent event, a tombstone; per child: budget, validity, terminal status; the process-wide slots; result files | register, spawn, consume, cancel, wait for quiescence, finalize artifacts | A child is two tasks that share three ledgers with a deadline, a cancellation of the parent and one of the caller. Tokens are neither lost nor given back twice; the first terminal status wins; quiescence is exact; a cancelled parent stops spending |
| **Control authority** `core/agent/subagent_control.py` | capabilities, connections and their counts, client and handler tasks, reapers | activate, issue, serve a run, handle a connection, close | Handlers may ignore cancellation; a run's cleanup, `aclose` and the clients' timeouts all end the same tasks. No orphan, exact limits, nothing after revocation |
| **Code-as-Action** `core/agent/code_executor.py` | one runtime, authority and container per action | run a script; tear down | The order of the teardown, and what remains of it when a step fails or is cancelled |
| **Disposable parents** `sandbox-proxy/main.py` | slots, run records, lifecycle tasks, containers | execute, cancel, status, prune | Requests are lost and overtake each other; the caller may believe in a deletion only with proof of it |
| **Sandbox pool** `sandbox-proxy/main.py` | container objects, idle queue and set, expiry | allocate, execute, recycle, health | Handlers inside and outside a lock change four variables between Docker calls. One owner per container, clean grants, the limit |
| **Sandbox manager client** `core/sandbox/manager.py` | none but a cached size | the proxy's endpoints, authoritative cancel | Timeouts and cancellations of the caller |
| **Conversation streams and confirmations** `services/conversation_stream_service.py`, `api/v1/conversations.py` | messages, confirmation rows, one agent task per stream | chat, confirm, archive | Answers race each other and the timeout, connections break. At most one execution, only if approved in time |
| **Chat store** `stores/chat-store.ts`, `lib/api.ts` | messages, tool events, one card per conversation, one streaming flag | send, answer, select, archive | Callbacks of overlapping streams write the same state |
| **Agent engine** `core/agent/engine.py` | iterations, tokens of the turn, consecutive errors | the ReAct loop | Budget, circuit breaker and confirmations in one loop |
| **Proactive scheduler** `core/proactive/scheduler.py` | a task table in memory and its copy in Redis | schedule, cancel, list, execute, cron check | Read-modify-write of the whole table across processes |
| **Artifact store** `core/artifacts/service.py` | files and rows | upload, capture, expire, orphan cleanup, purge | Files and rows change in different transactions |
| **Providers, MCP registry, rate limiter** | rows, clients, a window in Redis | create and delete, register, admit | One default per tenant, failed replacement, check then act |
| Memory, channels, authentication, audit, skills, configuration, scripts, pages | rows | request/response | No interleaving beyond single rows |

`PROJECT.json` lists every component with its files, and under `hazards` each
place in the code where something can go wrong that a test would hardly reach.

## 2. Plan

Modules, the most important behaviour first. A module is written so that it
can be proved about: constants with named assumptions, one action per stretch
of code between two suspension points, invariants as named conjuncts, no
recursive operators.

| Component | Model | Abstract specification or composition | Proofs |
|---|---|---|---|
| Sub-agent runtime | `SubAgentRuntime` | implements `BudgetLedger` | `SubAgentRuntimeProofs` |
| Control authority | `CapabilityAuthority` | | `CapabilityAuthorityProofs` |
| Disposable parents and the backend's client | `DisposableParent` | | `DisposableParentProofs` |
| Sandbox pool | `SandboxPool` | | `SandboxPoolProofs` |
| Streams, confirmations and the page's card | `ToolConfirmation` | | `ToolConfirmationProofs` |
| Code-as-Action | `CodeAsAction` | over `BudgetLedger`, in place of the runtime | with the engine's |
| Agent engine | `AgentTurn` | the loop around `CodeAsAction` | `AgentTurnProofs` |
| Proactive scheduler | `ProactiveScheduler` | | `ProactiveSchedulerProofs` |
| Artifact store | `ArtifactStore` | | `ArtifactStoreProofs` |

What is left, in this order:

1. What does hold where section 7 says "not kept", stated with its exceptions
   and proved, as `SavesItsOwnTask`, `LiveFilesKept`, `GrantedClean` and
   `LimitPassedTogether` are: what of a child's reservation a cancellation leaves
   behind, and when.
2. The budget of `BudgetLedger` proved over that module alone, so that
   `SubAgentRuntimeProofs` and `AgentTurnProofs` both cite it.
3. `ChatStore` with several conversations: late fetches, selection, archiving.
4. The rate limiter, the provider defaults and the MCP registry only if a
   property of more than one step is found for them.

## 3. The modules and the code

In every module an action is what one task does between two suspension points,
so that everything another task can see in between is a state. Where the code
holds a lock only over straight-line code, taking it does not suspend, and the
locked region is part of the action around it. Names are the code's where
TLA+ allows it. `PROJECT.json` maps each definition to its lines.

**`SubAgentRuntime`** (`subagents.py`). `status`, `limit`, `consumed`,
`reserved`, `pendingResults`, `activeChildren`, `quiescent` are a
`_ParentState`; `budget`, `spent`, `valid`, `terminal` a `_ChildState`. `spawn`
and `runner` say where the two tasks of a child are suspended: waiting, being
cancelled, charging the turn, draining, persisting, settling, waiting for
quiescence. `turn` is the ledger outside the runtime, `spawnOwes` and
`runnerOwes` the charges on their way to it. A runner may report its tokens
wrongly, raise, swallow its cancellation or outlive its deadline. Awaits that go
through `_await_authoritative_completion` swallow cancellations and have no
cancellation action; the others have one. Bounds: `MaxBudget`; children are run
ids, drawn once.

**`BudgetLedger`** is what the runtime promises about tokens, without tasks or
counters: a grant while the account is open, spends within it, and what is left
is forfeited or returned. `SubAgentRuntime!LedgerSpec` maps the runtime to it.

**`CapabilityAuthority`** (`subagent_control.py`). A connection is a `client`
task and a `handler` task; `clients` and `handlers` are the authority's own sets
of them, `reaper` the parents with a reaper, `server` and `closer` where
`serve_run` and `aclose` are suspended. Requests carry any capability, valid,
expired, foreign or none. A parent run is activated, issued and served once,
since `code_executor.py` draws a fresh id for each.

**`DisposableParent`** (`sandbox-proxy/main.py` and the backend's
`sandbox/manager.py`). The proxy: `slots`, `records`, `completed`,
`lifecycle`, `container`. The network: `request` and `control`, which may be
lost, or overtake one another. The backend: `caller`, with its cancellation, its
authoritative cancel request and the polling of the status.

**`SandboxPool`** (`sandbox-proxy/main.py`). `objects`, `pool`, `pooled` are
the proxy's own; `pc` and `at` say where a handler is and which container it is
about; `creating` are the threads past the limit check. Docker may fail to
create, answer, clean or *remove* a container at any time. A removal that is
refused raises, and the container stays in the books with nobody to ask for it:
`stuck` is the history of those. An execution is not one step. Its script
is written and started in threads, and goes on (`script`) when the client has
stopped waiting for it; the container is marked unhealthy only later, so that a
recycle may clean it and return it to the pool with the script still at work.
`overtaken` is the history of the containers that were cleaned so. A client
holds one container at a time and has one execution at work, which is how the
backend uses the proxy. The rebuilding of the queue after a
reconciliation is stated by its result: the entries that stay (`Kept`), each
once, in the order of their first occurrence (`Compacted`). The first state is
that after the start (`WarmStart`): what an earlier process left is removed, and
as many containers are idle as Docker created of the `PoolMin` asked for.

**`ToolConfirmation`** (`conversation_stream_service.py`,
`conversations.py`, `chat-store.ts`, `chat-panel.tsx`, `api.ts`). A turn and an
answer are streams with a `stage` on the server and a queue of `events` to the
page. `status` is the committed row; an uncommitted `UPDATE` is the stage
`claimed`, and it locks the row. A second transaction notes the decision in the
conversation's messages (`notes`), between the stages `committed` and `ready`;
the stream can end between the two. `late` are the calls whose time is over. The
page is `card`, `busy` and `attached`. Clients other than the page answer too,
connections break without the server knowing, and the server may stop
anywhere. `open` and `sentLate` are history variables that only properties
read. One conversation; its archiving by another client is modelled.

**`CodeAsAction`** (`code_executor.py`, `stream_code_as_action`). The three
parts of a script's call and their teardown. The runtime's accounts are those of
`BudgetLedger`, taken in by `INSTANCE`, which `SubAgentRuntime` implements; the
authority is reduced to its open socket (`listening`) and its close (`closed`),
the disposable parent to what its caller learns of the container
(`parentTask`). `at` is the wait the call is suspended in, `raised` what is
propagating, `quiesced`, `finalized` and `parentError` are the code's own
flags. `child` and `box` follow `child_runner`: a sub-agent allocates a sandbox of
its own, runs, and recycles it. When the answer to the allocation is lost, the
container may be there and nobody knows it (`unknown`); it is `unreturned` when
the recycling failed. `spawner` is the `spawn_sub_agent` call of a child: it
waits, has settled its result and is about to write it, is done, or was `torn`
down in between, and then its result is pending for ever; the wait for
quiescence is over when no runner is listed *and* no result is pending. A
cancellation of the parent takes what the children still active hold; one whose
runner has ended keeps it, as section 7 says of the code. Every charge, the
loop's and the children's, is checked by `_TurnBudget` (`Refuses`), and one it
refused would be in `refused`. The runtime books a charge under its lock and
forwards it after the unlock; here that is one step, and `SubAgentRuntime` takes
it apart. `doomed` are the children ended by their deadline or a cancellation.
The calls of a turn come one after the other and are numbered.
Which waits swallow a cancellation is in `Struck`: those for the runtime, its
files and the deleted parent do, and so does `asyncio.wait_for` when an event of
a child is there already (Python 3.10, the version of `backend/Dockerfile`).

**`AgentTurn`** (`engine.py`, `run_agent`) is the loop around it: `pc` is the
start of an iteration or of the next call (`batch`), the model's stream, a
tool, a script, or the end. A batch holds calls that are rejected, destructive,
scripts or others; arguments and texts do not matter. The task is cancelled when
the client's connection breaks, and only while it waits: between two calls of a
batch the loop does not suspend. Tokens are those of `_TurnBudget`, which the loop
and all children share. Bounds: `MaxCalls`, `MaxCancels`.

**`ProactiveScheduler`** (`scheduler.py` and the handlers in
`api/v1/proactive.py`). `store` is the JSON value in Redis, `table` the module variable
`_tasks` of the API's process and of the worker's. A request, the minute's check
and a job each clear the table, wait for a GET and merge the answer into
whatever the table holds by then; a request then writes all of it back. A failed
GET counts as empty and a failed SET as done, as in the code. A GET is served in
one step and received in another, so that answers overtake each other. ARQ is
external: it refuses an id that is queued, in progress or has left a result, and
runs again what a crash interrupted. The run log, the heartbeat and the audit
rows are left out, for nothing reads them; the minute's checks come one at a
time. `recent` and `tainted` are history variables. Bounds: `Minutes`,
`MaxDue`, `MaxFaults`.

**`ArtifactStore`** (`artifacts/service.py`, `uploads.py`, the capture in
`file_ops.py`, the endpoints in `artifacts.py` and `conversations.py`). Rows are in PostgreSQL
and change when a transaction commits; directories are on disk and change at
once. Each coroutine has one transaction, and a step is what it does from one
await of the database to the next. PostgreSQL is external: READ COMMITTED, a
DELETE that waits for another of the same row, a foreign key that holds the
conversation, the tenant's advisory lock. An upload is refused for its name, size or content
before it touches anything (`Refuse`). One tenant. Sizes are numbers up to
`MaxFile`; 0 is a capture whose content is too large and not stored. Commands
fail and requests are cancelled up to `MaxFaults` times. When a commit fails the
files are deleted, whether or not it took effect; when the refresh after it fails
they stay, since the instance has expired and the deletion raises before it
begins. Three history variables name the exceptions of the
properties, as narrowly as they can be named: `raced` are the creations that had
written and not committed while a cleanup had listed and not yet removed
(a capture's own cleanup comes before its write and is never counted), `late`
those that committed while a purge of their conversation was under way, `hurt` those
struck by a fault between insertion and commit, and what a failed purge had selected.

## 4. What the runs check

A mutant for each property (definitions marked `\* mutant` beside the one they
replace) shows that a plausible mistake in the code would break it.

| Run | Instance | Shows |
|---|---|---|
| `subagent_pair` | one parent, two children, budgets of 2 tokens out of 3, 2 slots | `BudgetConserved`, `ReservationExact`, `TurnLedgerExact`, `QuiescenceExact`, `FinalizedStaysEmpty`, `ResultExact`; the actions `CancelStopsSpending` and `TerminalIsFinal`; the refinement `LedgerSpec` |
| `subagent_live` | two children compete for one slot | `SlotsHeld`, `CancelQuiesces`, `SpawnReturns` |
| `authority` | one parent, two clients, limits of 1 | `ConnectionsExact`, `HandlersOwned`, `ClosedIsQuiet`, `RevokedGetsNothing`, `HandlersEnd` |
| `disposable_parent` | two runs, one slot, one retained record | `DeletedIsGone`, `ParentsBounded`, `LiveIsRecorded`, `CancelledIsOver`, `SlotsReturn` |
| `sandbox_pool` | two clients, a health check, three ids, a pool of 1 to 2 | `QueueIsIdle`, `OwnedOnce`, `GrantedClean`, `LockHeldAtWork` |
| `tool_confirmation` | two calls, two turns, two answers | `RunsOnce`, `LateNeverRuns`, `CardHasRow`, `AnswerIsFinal` |
| `agent_turn` | two iterations of one call each, up to two scripts, two children of the first with budgets of 2 out of 4, two cancellations of the turn and any of its spawn calls, a breaker of 1 | `NothingOutlivesAction`, `ChargesAccepted`, `SuccessIsClean`, `ScriptEnds` |
| `scheduler` | two requests, two tasks, two minutes, one task due in a minute, one fault | `WorkerActsOnRecent`, `SavesItsOwnTask`, `OneRunPerMinute` |
| `artifact_store` | an upload and a capture of one byte, a listing, two conversations and their purges, a quota of 1, two faults | `QuotaKept`, `LiveFilesKept`, `PurgedIsGone` |
| `subagent_cancel_hangs`, `confirmation_card_lost`, `artifact_lost` | as above, with the smallest bounds that show it | the disagreements of section 7 |

Some of these say less than their names, and each says so where it is
stated:

- `NothingOutlivesAction`: no child runs, no result is pending, the socket is
  closed, the parent's task is done, and no child has ended with a container it
  knew of without trying to return it. It does not say that no container is left (one whose
  allocation was never answered, or whose recycling failed, is the proxy's to find),
  nor that no child has tokens reserved (section 7).
- `OwnedOnce`: a container has one owner, the idle queue or a request, unless
  Docker refused to remove it; that one has none, and counts against the limit.
- `GrantedClean`: what is granted holds nothing of the client before and no
  script of it is at work there, unless the container was recycled under its script.
- `LiveFilesKept`: uploads and captures alike, but for creations whose stretch from
  write to commit overlaps that of another coroutine's cleanup from listing to removals,
  and for a commit whose answer was lost or a purge that failed.
- `PurgedIsGone` excepts what is committed while the purge runs.

The type invariants are proved and are not checked again by a run. `NotesAgree`
of `ToolConfirmation` and `LimitPassedTogether` of `SandboxPool` are proved too,
and not listed: added to their configurations they hold on the 1.9 and 1.2
million states of those instances. The slowest run is `agent_turn`
(0.97 million states, over two minutes), for its liveness. The
strengthenings (`IInv`, `BooksInv`) held in TLC on the instances of the table
before they were proved.

Why these bounds are enough to be of use:

- Two children of one parent are the smallest instance in which a sibling is
  admitted, charged or cancelled between two steps of the other. Budgets of 2
  out of 3 make the second grant smaller than the first, a partial spend
  possible, and the parent's budget the binding limit. Children of different
  parents share only the slots; one slot in `subagent_live` makes them contend.
- Limits of 1 are reached by one connection and refused to the next. The cleanup
  of a run, its reaper, `aclose` and a client's timeout meet over one handler,
  two of them make the sets non-trivial. That a capability of
  another parent does not work on a socket is part of the type invariant, which
  is proved for any number of parents.
- One slot and one record make the second run wait for the first, and the
  first one's record be pruned while the second lives.
- Three ids let the pool create, lose and replace containers while old ids are
  still referred to; an id that nothing refers to is taken again, so that three
  are not a limit of the run's length. They are one more than `PoolMax`, which is
  reached and, as section 7 says, passed. Ids and clients are interchangeable and
  taken for a symmetry, which is sound since the run has no liveness property.
- Two answers are the race for one row, or an answer followed by that to the
  call its resumed agent stops at; the second turn is the message a user sends
  instead of answering. `Backlog` bounds the tool results under way to 1.
- Two scripts let what the first leaves behind meet the second; two children of
  the first compete for a budget of 4 that the loop spends from, too. Two
  cancellations are the one that strikes the call and another one that strikes
  its cleanup. A batch is of one call: what a second one of the same batch finds
  is what one of the next iteration does.
- Two requests overlap in every way, and a third would only repeat one of them;
  two minutes let a job of the first be still there when the second is checked.
  One fault is a failed read, a failed write or a crash anywhere.
- A quota of one byte is exceeded by the second artifact. The listing and the
  capture are two cleanups at once; two conversations let one be purged while
  the other is used.

The larger instances were given up for their size, not for their result.

## 5. Fairness

Safety properties are checked without fairness. `FairSpec` assumes weak fairness
of single steps only, and only where the event loop or a timer forces them:

- `SubAgentRuntime`: a suspended spawn call and a finished runner are resumed,
  and the deadline fires. A runner need not end by itself. One that was
  cancelled does, for the repository's runners are cooperative. Nobody is
  obliged to spawn, cancel or finalize.
- `CapabilityAuthority`: clients are resumed, their timeouts fire, reapers and
  cleanups go on; a handler that was asked to end does so at some time, however
  often it ignores it first. Nobody is obliged to connect or to close.
- `DisposableParent`: Docker calls return, scripts end (they run under
  `timeout(1)`, `main.py:927`, which sends SIGTERM once: a script that ignores it
  is outside this assumption, and keeps its slot), handlers and the lifecycle
  task are resumed. Nothing is assumed of the network or the backend's caller.
- `AgentTurn`: the waits of a script's call end, those for the socket and the
  parent by their timeouts. A child's deadline fires, and a child that was ended by it or by a
  cancellation comes to its end, with the recycling of its container, whose
  request has a timeout; a spawn call goes on when its runner has ended. Nothing
  is assumed of the model's stream or of the tools, which have no timeout (`gateway.py:68`,
  `mcp/client.py:124`): a child that waits for one is ended by its deadline, and
  the loop may wait for one for ever, so that `ScriptEnds` is about the scripts
  only. Nobody is obliged to cancel the turn.

`CancelQuiesces` and `SpawnReturns` have an exception, spelled out in them: a
spawn call that is torn down in its `finally` clause. It is the first finding of
section 7. `ScriptEnds` has the same exception, since the wait for quiescence is
modelled with the pending results it depends on. The other modules state no liveness:
`SandboxPool`, because that of its lock was too expensive, with `LockHeldAtWork`
in its place; `ToolConfirmation`, because the page's streaming flag may really
stay up for ever (`lib/api.ts` forgets the name of an event that arrives in two
pieces; the model does the same); `ProactiveScheduler` and `ArtifactStore`, because
the code promises nothing after a failed command: a task that was due in a minute
whose check failed is not run later.

## 6. What is proved

`SubAgentRuntimeProofs` proves, for any parents, any finite set of children, any
number of slots and any budgets:

| Theorem | States |
|---|---|
| `Inductive` | the invariant `IInv` below |
| `Typed` | the types; no counter becomes negative, which is to say that no reservation and no pending result is given back twice |
| `BudgetIsConserved` | consumed + reserved never exceeds a parent's budget |
| `ReservationIsExact` | the reserved counter is the sum of what the valid children still hold |
| `SlotsAreHeld` | slots are exactly the live runners, at most `MaxActive`, also those that timed out |
| `QuiescenceIsExact` | the event is set exactly when no runner lives and no result is owed |
| `FinalizedIsEmpty` | after the finalization no result file comes back |
| `CancellationStopsSpending` | after a cancellation no runner spends and no grant is made |
| `FirstTerminalWins` | a timeout or a cancellation, whichever is first, is final |
| `BooksInductive` | the invariant `BooksInv` below, which extends `IInv` |
| `TurnLedgerIsExact` | the ledger of the turn has what the parents consumed, but for the charges on their way to it |
| `ResultIsExact` | a result reports what its child was charged for good; a timeout pays the whole grant, and only a truthful runner succeeds |
| `RuntimeImplementsLedger` | `Spec => LedgerSpec`: the runtime implements `BudgetLedger` |

Assumptions: `ParentOfAssumption`, `ChildrenAssumption` (finitely many
children), `LimitAssumption` (the limits are natural numbers, a child's budget
positive). TLC evaluates them in every run.

The argument. None of the invariants is inductive alone. That the budget is
conserved needs `reserved` to be the sum it stands for, since a
release subtracts what a child holds; `ReservationExact` needs to know which
children are valid at which point of their two tasks (`Coherent`: a spawn call
that waits has a valid child or a verdict, never neither); that of the
finalization needs quiescence to stay, which needs `QuiescenceExact` and that a
cancelled parent admits no child; that spending stops needs
`CancelledIsInvalid`, that a cancellation has reached every live runner. `IInv`
is their conjunction. A sum over children is stated as the cardinality of a
set of tokens, so that its lemmas are about finite sets (`TokensSplit`,
`TokensMoveByShare`) and need no induction. Each conjunct has its own step
lemma (`TypesStep`, `AccountsStep`, `SlotsStep`, `QuiescenceStep`,
`CoherentStep`, `FinalizedStep`, `CancelledStep`), one case per action;
`IInvStep` puts them together, and the temporal step is the same for all
theorems.

The books need more. That the turn's ledger is exact is a statement about two
tasks of each child, each of which may be inside the consumer: a charge is owed
only while its task is there (`OwedWhileCharging`), and a sum over parents of
sums over children needs that a parent's consumption is what its children were
charged (`ConsumptionExact`). A result copies the child's charge while the
child's other task may still run; that it stays true rests on
`DecidedIsSettled`: once a result is decided no live runner has a valid child,
and an invalid one charges nothing. `BooksInv` adds these to `IInv` and is
inductive.

The refinement maps an account to the status and the tombstone of a parent,
the funds to its limit, a child's charge to `spent` and what it holds to what
is left of the budget of a *valid* child. Under that mapping an admission is a
`Grant`, a charge a `Spend`, a timeout a `Spend` of all that is left, a
release a `Return`, a cancellation a `Close`, and every other step of the tasks
a stutter (`LedgerStep`, one case per action). The grant needs the invariant: the
code computes what is available from its counters, the ledger from the
children's charges and holdings, and `ReservationExact` and `ConsumptionExact`
make the two equal. The `Close` of the ledger takes from some of the children, since
the code cancels the active ones only (section 7).

`ToolConfirmationProofs` proves, for any calls, turns and answers (from
`StreamAssumption`: the identifiers of turns, answers and calls are distinct):

| Theorem | States |
|---|---|
| `Inductive`, `Typed` | the invariant `IInv` below, and the types |
| `RunsAtMostOnce` | a call's tool is started at most once, and only by an answer whose approval is the row's |
| `LateAnswersDoNotRun` | an answer sent after the deadline never runs it |
| `RowsAreFinal` | the first answer committed stands |
| `MessagesAgree` | `NotesAgree`: every row has the message that asks, no message contradicts its row, and no tool runs before its approval is noted |
| `CardsHaveRows` | a card has a row, whatever events are still under way |

The argument. `RunsOnce` says nothing of the answers that have not run yet, so
`IInv` follows an answer through the stages of its claim: one that is between
its `UPDATE` and its commit holds the row (`Exclusive`), and from the commit on
the row carries its decision (`Consistent`, `Winners`), so that a second claim
finds no pending row. An answer sent late is either not read yet, when its call
is still late, or no approval any more. `PageInv` is about the page: whatever
is under way to it names a call that has a row, and rows are never deleted
(`MessagesGrow`). `NotesInv` is about the second transaction: the message of
an answer that got past it is there, and no message says anything else than its
row. `ServerInv` does not look at the page; most actions are
instances of two lemmas, `StageMoves` for the server and `PageKept` for the
page.

The other five follow one plan. An invariant `Inv` is the conjunction of the types
and of the parts named below; a lemma per action (`...Keeps`) shows that the action
keeps it, one case per conjunct; `InvStep` puts them together, `InvHolds` is
the temporal step, and each theorem follows from it.

`CapabilityAuthorityProofs`, for any parents, any finite set of clients and any
limits (`ParentOfAssumption`, `ClientsAssumption`, `LimitAssumption`):

| Theorem | States |
|---|---|
| `Typed` | the types |
| `CountsAreExact` | the counts per run and in all are the connections there are, within both limits |
| `HandlersAreOwned` | every running handler is tracked, and its client, a reaper or the run's cleanup is after it |
| `ClosedStaysQuiet` | after `aclose` no client, handler or reaper runs |
| `RevokedIsRefused` | once a run is revoked no handler starts for it and no result is delivered |

Ownership must know that a client has no handler before its request is read
(`Unserved`), quiet that a closed authority tracks no handler that could start a
reaper again (`Quiet`), and the refusal that a cleanup has taken the permission
before anything else (`Revoked`). The counts change by one where a set of
clients does (`CountsMore`, `CountsLess`).

`DisposableParentProofs`, for any runs, slots and records (`LimitAssumption`):

| Theorem | States |
|---|---|
| `Typed` | the types |
| `ReportedIsGone` | the backend reports as deleted only a container that is gone and does not come back |
| `SlotsBoundParents` | no more containers live than there are slots |
| `LiveRunsAreRecorded` | a live run has its record, so that it can be cancelled |
| `AnsweredIsOver` | nothing of a run happens after its cancellation was answered |

`SlotsInv` says that every live run holds a slot; `RecordsInv` that pruning sees
only runs that are over; `ProofInv` that the proof of a deletion comes with the end
of the only lifecycle a run has; `ToldInv` that what is under way to the caller
rests on that proof.

`SandboxPoolProofs`, for any clients, checks, containers and limits
(`LimitAssumption`, `NoneAssumption`, `TasksAssumption`):

| Theorem | States |
|---|---|
| `Typed` | the types |
| `QueueHoldsIdle` | the queue and the set beside it agree on the idle containers |
| `ContainersAreOwned` | a container is idle or at one task, never both or two, unless Docker refused to remove it: then it is nobody's, for ever |
| `GrantsAreClean` | what is granted holds nothing of the client before, unless it was recycled under its script |
| `LockIsAtWork` | the lock's holder is at work on the pool |
| `LimitIsPassedTogether` | containers and creations under way are fewer than the limit and the tasks together: what the code does keep of the limit that section 7 shows it to pass |

`TasksInv` places each task: what it is about and what it may hold at each
`pc`. `OwnersInv` says of two tasks, and of a task and the queue, that they are
about different containers, and that one Docker refused to remove is nobody's
(`Ownerless`: it and the idle ones); `CleanInv` that remains (`Clean`) and scripts
at work (`Quiet`) are found in what is idle, handed out or being returned only if a
cleanup overtook a script there, which is decided when the cleanup begins and
has to be carried through it;
`QueueInv` that the queue may hold stale entries, but each idle container exactly
once. An allocation skips stale entries: `DrainedQueue` says what is left of
a queue whose prefix was dropped, `TakeIdleKeeps` that the books survive it.
That a compacted queue exists (`CompactedExists`) needs an order on the first
occurrences, and is shown by a least counterexample (`LeastElement`).

`ProactiveSchedulerProofs`, for any requests, tasks, minutes and faults
(`SchedulerAssumption`):

| Theorem | States |
|---|---|
| `Typed` | the types |
| `RunsOncePerMinute` | a task runs at most once a minute, and once more per crash that interrupted it |
| `ActsOnRecent` | what the worker enqueues or runs was in Redis since its overlapping reads began |
| `ChangesItsOwnTask` | a request alone, whose read did not fail, changes its own task only |

`RecentInv` follows the tasks through Redis, the shared table and the answers on
their way; `AloneInv` does the same for a request that met no other one, up to
what it is about to write; `RunsInv` counts a job's starts against its
interruptions.

`ArtifactStoreProofs`, for any finite set of artifacts, any listings and
conversations, sizes, quota and number of faults (`CoroutineAssumption`,
`SizeAssumption`):

| Theorem | States |
|---|---|
| `Typed` | the types |
| `QuotaIsKept` | the committed content fits the quota |
| `LiveFilesAreKept` | a live row, an upload's or a capture's, keeps its files, but for the overlap of write and commit with listing and removals, and the faults its statement names |
| `PurgedIsRemoved` | nothing of a purged conversation stays on disk, but what was committed while the purge ran or a fault left |

The quota rests on `LockExclusive`: one creation at a time is between the
tenant's lock and its commit; `QuotaInv` adds what it is about to commit to what
is committed, and lemmas about finite sets say that fewer rows need no more
room. `ScanInv` says that a cleanup about to remove has every live row in its list,
or the row's creation overlapped it, as whatever is written and not
committed does; `FilesInv` and `PurgeInv` what a written
directory and a purge's selection still know; `Places` and `Books` where a
coroutine can be and what it can have selected.

`AgentTurnProofs`, for any set of actions, any finite set of children, any
budgets, batches and numbers of iterations, errors and cancellations
(`ActionAssumption`, `LoopAssumption`):

| Theorem | States |
|---|---|
| `Inductive`, `Typed` | the invariant `IInv` of `AgentTurn`, and the types |
| `NothingOutlives` | when a script's call is over, whatever way it ended, no child, pending result, socket, account or parent's task of it is left, and no child has ended with a container it knew of |
| `NoChargeRefused` | the turn accepts every charge of every child of every action, although it checks each of them |
| `SuccessLeavesNothing` | a script that succeeds went through every step of its teardown |

`Located` ties what may be alive to the wait the call is suspended in: an open
account, a living child and a pending result exist only up to the end of the
runtime's cancellation, an open socket up to the authority's close, the parent's
task up to its await. The call ends behind all of them, on every path through the
`finally` clause. That no charge is refused is more than that the turn stays within
its budget, which `_TurnBudget` enforces by refusing: a refused charge leaves the spawn
call before its result is written, and the turn would wait for that result for ever.
`BudgetCovered` says that what the turn has left covers what the
children may still be charged with *and* what the open account may still grant: an account
is opened with at most what is left, and while it is open the loop waits and
spends nothing itself. What a child may be charged with (`Chargeable`) is what it
holds while its spawn call waits; what a child keeps that no cancellation reached is
never charged. `ChildrenInTurn` says that only children of the present action live,
and that one that can be charged has a spawn call that waits. Holdings are counted as
sets of pairs of a child and a level, as in `SubAgentRuntimeProofs`. `SucceedingIsClean` follows the flags
along the one path on which nothing is raised. The accounts are those of
`BudgetLedger`; `RuntimeImplementsLedger` is why the runtime may stand in for them.

Every safety property that a passing run checks is thus proved for all values of
the constants, as is the refinement. Only model-checked are the liveness properties
`CancelQuiesces`, `SpawnReturns`, `HandlersEnd`, `SlotsReturn` and `ScriptEnds`, for
liveness under fairness and `ENABLED` are out of the prover's reach (as are
induction over data and `RECURSIVE` operators, of which there are none here).
The disagreements of section 7 are counterexamples of TLC.

## 7. Where the code and its documents disagree

Three are runs that TLC must find violated; `PROJECT.json` quotes both sides.

- **A cancellation that hits a spawn call in its `finally` clause**
  (`subagents.py:334`, `subagent_cancel_hangs`). The pending result is never
  settled, the parent never becomes quiescent, and `cancel_parent`, whose
  awaits swallow every cancellation, hangs, and the turn with it.
- **The second confirmation card** (`chat-store.ts:759`,
  `confirmation_card_lost`). A resumed agent stops at another destructive call;
  the end of the same stream clears the card just shown. The row stays pending and
  nothing on the page can answer it.
- **An artifact that was uploaded and is missing** (`artifacts/service.py:216`,
  `artifact_lost`). The orphan cleanup lists the committed rows and then removes
  every other directory, that of an upload between its write and its commit among
  them. The plan says "retention cleanup removes only expired artifacts"
  (`docs/aegis/plans/2026-06-05-chainless-v1-complete-spec-execution-plan.md:864-865`).

Six more are stated as definitions marked "Not kept by the code", which no
configuration lists. Each is violated when it is added to the instance named here.

- **The pool's limit** (`sandbox-proxy/main.py:228`, `LimitKept`, the constants
  of `SandboxPool.cfg`). It is checked in a thread before a creation and
  counted after it: several creations pass the check for the same place.
  `backend/scripts/production_boundary_probe.py:168` asserts
  `total_containers <= settings.sandbox_pool_max`.
- **A container recycled under its script** (`sandbox-proxy/main.py:649`,
  `GrantedAlwaysClean`, the constants of `SandboxPool.cfg`). A script is started
  without waiting for it, and its container is marked unhealthy only when the
  request has timed out (`:664`). A client that stops waiting and recycles at once, as
  the backend does when a turn is cancelled (`core/tools/builtin/sandbox.py:61-72`
  and the close of a child, `code_executor.py:457-467`), has the container cleaned while
  the script is at work in it, and returned to the pool; the next client is
  given it. "Clean /workspace and return the container to the idle pool."
  (`sandbox-proxy/main.py:1027`).
- **Cancelling a run whose container was already cleaned up**
  (`sandbox-proxy/main.py:729`, `CleanupDecides`, one run, slot and record,
  `Spec`). The interruption reads the container through the record after the
  record was compacted, outside the "Best-effort interruption; lifecycle
  cleanup remains authoritative." of `:878`, and the request fails.
- **A child whose runner has ended keeps its reservation** (`subagents.py:417`,
  `CancelledHoldsNothing`, the constants of `SubAgentRuntimePair.cfg`). The
  cancellation of a parent visits the active children only. A caller cancelled
  after its child's runner was taken off that list, and before its spawn call
  resumed, leaves the child valid: the parent is cancelled and quiescent and
  still has tokens reserved. `backend/tests/test_subagents.py:1015` asserts that
  nothing is.
- **A cancelled turn that goes on** (`code_executor.py:385`,
  `CancelledTurnStops`, `AgentTurn.cfg` with one action, a child budget of 1,
  two errors, one call and one cancellation). The cancellation
  of a disconnected client is swallowed by the waits of the teardown, and once
  they are through the loop calls the model again. "Apply cancellation when the
  parent run is cancelled or disconnected."
  (`docs/aegis/plans/2026-06-05-chainless-v1-complete-spec-execution-plan.md:667`)
  and `backend/tests/test_sse_contract.py:339` say that it stops.
- **A deleted task that comes back** (`scheduler.py:285`,
  `DeletedStaysDeleted`, three requests, one minute, no fault). A schedule that
  read the table before the deletion writes the task back after it; the
  deletion was answered with success. The docstring of `:206` calls Redis "the source of
  truth", and `docs/aegis/plans/2026-06-03-spec-gap-closure-checklist.md:367`
  claims "deletion behavior verified".

## 8. What is not modelled

In the modelled components: texts, arguments, artifacts' contents, paths and
symbolic links, logging and metrics; authentication; the wire formats. In
`SubAgentRuntime` a result file is there or not. In `CapabilityAuthority` a
capability is valid for a parent or not, its signature and expiry are not
computed. In `SandboxPool`, the shutdown, the delete endpoint, which the
backend never calls, the streaming of an execution's output, and a client that
recycles twice. In `ToolConfirmation`,
the texts of messages, heartbeats, tool activity, the renaming and purging of conversations.

In `CodeAsAction` and `AgentTurn`, the message history, prompts, the table of
tool risks and the events that are shown. In `ProactiveScheduler`, the run log, the heartbeat, the
refusal of tables with retired secrets, and a check that outlasts its minute. In
`ArtifactStore`, several tenants, previews, and the checks of paths and
contents, which are pure. A component is "partly" modelled in `PROJECT.json`
when any such part is missing, and the note names it.

Memory, channels, authentication, audit, skills, evaluation and configuration
are request/response handlers over single rows, vector search, or pure functions
of their input: what could go wrong in them is in PostgreSQL, in a model or in a
format, and not in an order of steps. The language models, Docker, PostgreSQL,
Redis and ARQ are modelled only by how the code uses them.

Some hazards of the rest are visible in the text and need no model; they are
listed here and not in `PROJECT.json`:

- `frontend/src/lib/api.ts:307`: the name of a server-sent event is kept per
  read, so that an event cut between its two lines is dropped.
- `frontend/src/stores/chat-store.ts:252`: a conversation that was fetched
  overwrites what its stream has appended meanwhile.
- `backend/app/middleware/rate_limit.py:115`: an exception of the handler is
  taken for one of the limiter, and the request is handled a second time.
- `backend/app/api/v1/llm_providers.py:98`: two requests at once leave a
  tenant with two default providers, or with none.
- `backend/app/core/tools/mcp/manager.py:54`: a client that was disconnected
  stays registered when its replacement cannot connect.
- `backend/app/api/v1/uploads.py:116`: after a failed refresh the deletion of the
  files raises, since the instance has expired and cannot be loaded there; the
  client is told of an error and the artifact is kept.
- `sandbox-proxy/main.py:566`: a health check removes the container that an
  allocation has just pinged; the allocation fails (`PingSucceeds` has this
  case, but nothing promised is lost by it).
