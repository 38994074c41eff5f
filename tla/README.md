# Henji: a TLA+ verification project

Henji is a coding-agent harness. A *Core* process owns Sessions of a workspace and answers its
clients. A Session's turns run in an *Agent Worker*; the tool processes a turn starts belong to the
Host; everything that is remembered is owned by a *Data Worker* and kept in SQLite. This directory
models what happens when these parts do not run one after the other: a turn that is cancelled while
it commits, a Worker that dies, a write that fails or a process that crashes, a child or a tool
process that outlives its turn, a client that falls behind, a command that is sent twice.

- [Inventory](#inventory): the system's parts and the module for each
- The modules: [data](#datasession), [turn on the Host's side](#executioncoordinator),
  [turn on the Worker's side](#agentturn-contextprojection-turncontract),
  [children](#childruns), [tool processes](#processowner), [bash](#bashcall-and-bashoutput),
  [tasks of a Session](#taskservice), [commands and Sessions of the Core](#corecommands-lazysession-coreservice),
  [streams to clients](#sessionstream), [credentials](#chatgptauth)
- [How the modules fit together](#how-the-modules-fit-together)
- [Runs](#runs), [Bounds](#bounds), [Fairness](#fairness), [Proofs](#proofs)
- [Disagreements](#disagreements-found), [What is left out](#what-is-left-out), [Plan](#plan)

## Inventory

Sources are under `src/v0/agent/` unless another path is given.

| Component | State | Operations | Interacts with | Hard behaviour | What makes it correct | Module |
|---|---|---|---|---|---|---|
| Data Worker: Session owner (`data/session_data_owner.ts`, `session_authority.ts`, `data_service.ts`) | projection (revision, next turn, checkpoint), executions in memory with authorization, terminal result, prepared proposals | open, admit, prepareProposal, authorizeCommit, settleFailure, sealGeneration, title, model, checkpoints, close | called by the Core over a port; fed by the Agent over another; writes the store | requests of two senders in any order; a write that fails before or after its transaction | decided once; projection never ahead of the rows; the answer given is the row stored | `DataSession` |
| Execution journal (`data/execution_data_journal.ts`, `agent_data_endpoint.ts`) | received, buffered and durable sequence, sealed, sticky failure | receive, timer flush, barrier flush, seal | Agent port, store | buffer limit, failing flush, data after the seal | an adopted turn has all its evidence saved | `DataSession` |
| History store (`history/sqlite_history_store.ts`, `sqlite_history_core.ts`, `data/conversation_writer.ts`) | `sessions`, `executions`, `session_turns`, `semantic_records` | begin, append, adopt, settle, reconcile, metadata | owner, restart | several transactions per admission, crash between them | gap-free turn log, monotone revision, nothing active after a restart | `DataSession`, `SessionHistory` |
| Worker Host coordinator (`worker/worker_host_coordinator.ts`) | the reservation, the active execution, `terminalPromise`, watchdog | admit, runReservation, settleProposal, seal, cancel, steer, close | Data, supervisor, children, processes | four coroutines of one thread interleaving at every await | a cancelled turn is never adopted; every turn ends and is settled once | `ExecutionCoordinator` |
| Worker supervisor, queue, capsule (`worker/worker_host_supervisor.ts`, `worker_host_queue.ts`, `worker_capsule.ts`) | generation, `unavailable`, `needsReplacement`, message queue and waiters | start, send, wait, mark unavailable, replace, close | Agent Worker, coordinator | waiters registered after the generation was lost | nobody waits for a terminated Worker | `ExecutionCoordinator` |
| Agent Worker (`worker/worker_bootstrap.ts`, `worker_runtime.ts`, `core/loop.ts`, `core/steering.ts`, `core/cancellation.ts`) | the running turn, its transcript, steering queue, cancellation | turn, model request, tool batch, steer, cancel, hooks, proposal, acknowledgement | Host, Data, provider, tools | commands that arrive at every await; trimming of requests; uncaught errors | what is proposed is a conversation; a cancelled turn is not proposed; steering is heard | `AgentTurn`, `ContextProjection`, `TurnContract` |
| Asynchronous children (`worker/worker_host_children.ts`) | runs per parent, their capsules, terminals and control facts | spawn, route, settle, seal, collect, cancel, cleanup of the parent | coordinator, Data, child Workers, process owner | spawn against cleanup; the child's own terminal against a forced one | no child outlives its parent's settlement; the terminal told is the one stored | `ChildRuns` |
| Tool processes (`worker/worker_process_owner.ts`, `worker_process_executor.ts`, `runtime/process_executor.ts`, `process_runner.ts`) | operations per execution, runner, process group, cancellations | start, stop, release, cancel, close | Agent Worker, supervisor, the operating system | start against cancellation; two coroutines that share a runner | a stop that succeeds leaves nothing; no process outlives its execution | `ProcessOwner` |
| Bash tool (`tools/bash_tool.ts`) | the race of status, timeout, cancel and limit; drains; teardown | execute | process owner, output spool | a second event during the cleanup of the first | the right answer, and nothing behind it | `BashCall` |
| Bash output spool (`tools/bash_output.ts`) | one file, extents, quotas | begin, append, finish, abandon, read, close | bash calls, `bash_output` | compaction under readers and writers; failed writes | what was saved reads back, in whole characters | `BashOutput` |
| Task service (`host/task_service.ts`) | active, steering and queued lanes, follow-up receipts | begin, settle, steer, queue, cancel, close | coordinator, Data | lanes that belong to the execution before or after an await | no follow-up forgotten; none behind a cancel | `TaskService` |
| Core service (`host/core_service.ts`, `worker/worker_tui_session.ts`) | commands and receipts, the slot, lazily started Sessions | open, submit, rename, select, recall, cancel, credential, shutdown, close | API, Data, Workers | repeated commands; changes that hold the slot; a start that is cancelled | one effect per command; one owner of the slot; close ends | `CoreCommands`, `LazySession`, `CoreService` |
| Session streams (`data/data_service.ts`, `data/client.ts`, `host/core_service.ts`, `http/`, `src/v0/api/reducer.ts`) | watch, subscribers, revisions, client state | watch, publish, subscribe, resync, acknowledge | Data, Core, API, clients | overflow, failed delivery, a snapshot that crosses updates | the client's state equals the Core's | `SessionStream` |
| Conversation model (`src/v0/conversation/`) | a display document | apply fact | Data, TUI | replay against live updates | both give the same document | - |
| ChatGPT credentials (`provider/chatgpt_auth.ts`) | accounts, registrations, host id, selection: files with locks; pending sign-ins in memory | resolve, begin, complete, cancel, select | Core, Agent Workers, OAuth provider, files | processes that refresh one account at once; a death between the provider's answer and the write | a refresh token is spent once; no record goes back | `ChatGptAuth` |
| Providers, other tools, TUI, CLI, evaluation | | | | per-call I/O, rendering | not a subject here | - |

`PROJECT.json` lists every component with its status, and the hazards with the line where each
bites and the property that covers it.

## DataSession

One Session of the Data Worker: `DataSessionOwner`, `SessionAuthority`, the journals of its
executions and the rows they write.

The Data Worker is single-threaded and an owner method touches SQLite synchronously, so **a method
is one action**. What interleaves is the order of requests from the Core and messages from the
Agent, the flush timers, and faults. A write has three outcomes: `ok`; `before`, it throws and its
transaction is rolled back; `after`, the transaction is committed and `ConversationWriter` throws
while it refreshes and publishes the derived view (`conversation_writer.ts` 325-349), so the caller
sees an exception. What an owner method reads back after its write may throw too, with the memory
already moved: a commit whose terminal result cannot be read is `unread` (the projection has
advanced, `session_data_owner.ts` 1399-1412), an admission whose row cannot be read is
`AdmitUnanswered` (835-841).

| Variables | Code |
|---|---|
| `persistent` | whether the Session has durable history; fixed when it is opened (`--no-session`) |
| `phase`, `crashes`, `open` | the Data Worker process, its store (`currentStore`), the open owner |
| `stateRevision`, `nextTurn`, `checkpoint`, `pendingModelChange` | `SessionAuthority.projection`, `#pendingModelChanges` |
| `unanswered`, `rollbackFailed` | history: held executions whose admission threw; whether taking a checkpoint back threw |
| `held`, `authorization`, `sealed`, `prepared`, `terminal` | `DataSessionOwner.#executions` and their `DataExecutionState` |
| `received`, `durable`, `journalSealed`, `journalFailed` | `ExecutionDataJournal` |
| `finalKind`, `finalSequence` | the proposal or failure the Agent port delivered |
| `rowRevision`, `rowNextTurn`, `rowCheckpoint`, `row`, `base`, `turn`, `saved`, `turns` | `sessions`, `executions`, `semantic_records`, `session_turns` |

| Actions | Code |
|---|---|
| `Crash`, `Boot`, `ReconcileExecution`, `FinishInitialize` | process death; `SqliteHistoryStore.#initialize` and `reconcileExecution` |
| `OpenOwner`, `CloseOwner` | `open`, `close` |
| `UpdateMetadata` | `updateTitle`, `updateModelSelection` |
| `Admit`, `AdmitFailsAfterSession`, `AdmitFailsAfterExecution`, `AdmitUnanswered` | `admit`, the places where `beginExecution`'s transactions can stop, and the read that follows them |
| `ReceiveData`, `ReceiveOutOfSequence`, `FlushTimer` | the journal |
| `PrepareProposal`, `AuthorizeAccepted`, `AuthorizeRejected`, `SettleFailure`, `SealGeneration` | the settlement methods |
| `InstallCheckpoint`, `InstallAfterTurnContext` | checkpoints during and after a turn |

A call that returns early or throws without changing anything is no step of the model.

Properties: `SessionInvariant` (types, gap-free turn log, memory follows the store, terminal results
match the rows, a closed owner is empty); `CheckpointCoversHistory` (a checkpoint leaves the last turn
out, and row and memory hold the same one unless taking one back failed); `SettledIsSavedAndReleased` (an
adopted turn has all its evidence saved, one terminal result is retained); `DecisionIsFinal` and
`ProjectionAdvancesWithTurn` (steps); `ImplementsHistory` (refinement); `RestartSettles` (liveness).
`ProjectionAdvancesWithTurn` bites for a detached Session: there no row fences the commit, and only
the busy check of the metadata methods keeps a title written during a turn from being overwritten by
the turn's `base + 1`. It speaks of the row and of the authorization, not of the terminal result,
which may be missing behind an `unread` commit. An execution that was never answered is held until the
owner closes: it keeps titles and models from being written, while further turns are admitted, and a
restart settles its row. `CheckpointCoversHistory` and the turn log are about persistent Sessions: a
detached one has no rows to compare with.

### SessionHistory

The promise of the Data Worker about its rows, without any memory: an execution is begun once and
settled at most once; adoption appends to the log and moves the revision by one; nothing else
touches the log. `DataSession` implements it with `status <- row`, `log <- turns`,
`revision <- rowRevision`.

## ExecutionCoordinator

The Host's side of a turn. Four coroutines of one JavaScript thread interleave at their awaits, and
**an action is the code between two awaits**: the reservation `runReservation` (`pc` says where it
awaits), the settlement promise of `settleProposal` (`commit`), the one of `seal` (`seal`), and the
watchdog with `escalateCancellation`. `terminalPromise` is the variable they share.

| Variables | Code |
|---|---|
| `pc`, `commit`, `seal`, `terminalPromise` | the coroutines, `execution.terminalPromise` |
| `cancelled`, `forced`, `watchdog`, `staleWatchdog`, `escalation` | the reservation's and execution's flags and timers |
| `unavailable`, `needsReplacement`, `worker`, `steering`, `queue` | `WorkerSupervisor`, `HostMessageQueue`, the capsule |
| `data` | what Data has done with the execution, see below |
| `reported` | the `turn_end` events delivered, with their `committed` flag |
| `closing`, `submitted` | `close()`; a bound |
| `disturbed` | history: something untimely has happened, see below |

A registered waiter that nothing has resolved is a state predicate (`ReadyPending`, `AnswerPending`,
`FailurePending`, `CommitPending`); `RejectWaiters` is `messages.fail`, which rejects the waiters
registered at that moment and no later one. Data is modelled by its answers: `active`, `prepared`,
`canonical`, `non_canonical`, or `stuck` (it threw after taking its decision; only a restart settles
the row). A method that does not wait takes effect when it is sent, because Data serves requests in
order; `settleFailure` and `prepareProposal` may first wait for the Agent's data and take effect
when they answer. Every Data call, cleanup, registration and send may throw.

A seal that its own reservation did not join is not followed beyond the next `Submit`: all it still
does is deliver its event and its descriptor. After a send failed in `registration` the model still
allows a steering request, which the code would refuse; that adds a timer and nothing else.

`CoordinatorInvariant` (types, settled before idle, the report agrees with the row, one `turn_end`)
and `CancelFencesCommit` hold with every fault on. `NoWaitOnTerminatedWorker`,
`RunningTurnKeepsWorker` and `CoordinatorConverges` (a cancelled or lost turn ends, `TurnConverges`;
so does close, `CloseConverges`) except a Session that was
`disturbed`: a deadline expired while the Host was not waiting for the Worker, a cancel arrived in
the `finally` block, or `postMessage` threw. What the code does then is under
[Disagreements](#disagreements-found).

## AgentTurn, ContextProjection, TurnContract

One turn inside the Agent Worker: `handleTurn` of the bootstrap, `runTurn` of the generation and the
agent loop. `pc` is the await the turn stands at; the Host's commands (`Cancel`, `Steer`) and an
uncaught exception come in between. Model, tools, hooks and the Host are external and may answer
whatever their contracts allow, including an abort that is honoured late or not at all.

| Variables | Code |
|---|---|
| `pc`, `steps`, `batch` | where `handleTurn`, `runTurn` and the loop await; requests made; the calls of the current batch |
| `transcript`, `request`, `omitted`, `limit` | the messages of the turn; the projected request; `omittedCurrentMessageIndices`; the input limit |
| `cancelState`, `aborted`, `granted` | `TurnCancellationOwner`; whether a cancel was answered "requested" |
| `lane`, `accepted` | `SteeringOwner` |
| `data`, `outcome`, `posted` | the Data port; the result of the loop; the messages posted to the Host |

`ContextProjection` says which messages a request may leave out when it does not fit: units of an
assistant message with its results, the protected ones, and the oldest first. It is made of sets of
positions of the whole transcript; the code keeps two index spaces, of the projected and of the
whole transcript, and translates between them.

The history is what Data returns: turns as a Worker proposed them and Data stored them, so each is
`Paired` (every call is answered by the next message, every answer has its call before it), which
`TurnInvariant` says of the proposals; `HistoryAssumption` assumes no more.

Properties: `TurnInvariant` (what is proposed pairs every call with one result), `RequestKeepsExchanges`
(a trimmed request never parts a call from its result and keeps every user message),
`SteeringIsHeard`, `CancelEndsTurn` (liveness) and `ImplementsContract`: the turn implements
`TurnContract`, the promise of a Worker to its Host - one proposal or failure, an acknowledgement,
one settlement, or an error at its end; no proposal behind an accepted cancel. An uncaught error is
reported at once (`worker_bootstrap.ts` 1162-1175) and the turn goes on without its Data port: it may
still report a second error and that it has settled, but never a proposal or a failure, which needs
the port.

## ChildRuns

The Host's registry of child runs of one parent execution. `run[r]` is a record per child with the
place where each of its procedures awaits: `spawn`, `settle` (the Worker's own terminal), `seal` and
`force` (the two other settlements), `final`, `physical` (cleanup of its processes), `clean` (its
part of the parent's cleanup), with its Worker, its Data Session and its control facts.

A Worker's uncaught error closes its Data port, but the Worker lives on and answers `close`; a
message to a terminated Worker is dropped. The grace timers may fire at any time. The process
cleanup fact that is held back while an admission is under way is not awaited, as in the code.

Properties: `RegistryInvariant` (a terminal called durable is the one Data stored; control facts
are written in order), `CleanupHolds` (when the parent's cleanup has ended no run is alive, every
terminal is collected or known and every Session is closed, except behind a refused execution,
`CleanupIsComplete`; a cancel reaches the turn, `CancelReachesTurn`), `ChildrenConverge` (every cleanup
ends and every finished run is settled, except where a start was abandoned, see
[Disagreements](#disagreements-found)).

## ProcessOwner

The tool processes of one Worker generation. Two coroutines per operation in the Host,
`manageLifetime` (`life`) and `stop`, interleave with the cancellation of an execution
(`cancellations`), with `closing`, and with the Worker's calls over two FIFO ports (`toOwner`,
`toWorker`). The physical side of an operation is its runner, which anchors the process group, the
command and its background descendants; runners may be killed by others and signals may fail. A
descendant may also leave the group (`setsid`) with the output pipes it inherited (`escaped`). No
signal reaches it there, and `pipesClosed`, which `stop`, `manageLifetime` and so the close await
(`process_executor.ts` 264, 303), waits until it lets go.

Properties: `OwnerKeepsPromises` (a stop that fulfilled left no process of the group; a signal only
ever goes to the own group; a close that ended left nothing; every start of a cancelled execution is
stopped); `FinishedCancelLeavesNothing` (when a cancelled execution finishes, each of its processes is
gone or its stop has failed; or, since `cancelExecution` is a `Promise.all` that the first failing stop
rejects, its stop has begun and another has failed); `StopConverges` (every stop and the close end, unless
all that is left is an escaped descendant that never closes its pipes, `HeldOpen`). The stop of an
operation counts as kept when it is done and its lifetime is closed. With faults an operation whose
stop failed is forgotten before the close (`process_executor.ts` 345-348): the failure was reported to
its caller. A scan of the process group is one step.

## BashCall and BashOutput

`BashCall` is one call of the tool: `at` and `td` say where `execute` and `teardown` await, and the
status, the timeout, the cancellation and the output limit arrive in between. The process and the
capture appear by what `ProcessOwner` and `BashOutput` promise. `CallInvariant` (no output of a
cancelled call is kept; an answer is given only when the process is stopped or released and both
drains have ended), `CallEnds`, except after a stop that failed and while a stop waits for pipes that
a process outside the group holds (`HeldPipes`; the timeout of the call does not bound that wait).
A command that has ended by itself is answered for whoever holds its pipes. No reader has to fail:
faults are not fair.

`BashOutput` is the spool of the truncated output: an unlinked file whose extents belong to streams
of commands. Its operations run under one mutex and are one action each. A write may fail half way.
A byte carries whether it is the first of a scalar, so quotas and windows that end inside a
character can be told apart. `StoredIsReadable`, `PagingProgresses`, `SpoolInvariant` (extents never
overlap, quotas and file space are accounted for); `failure` names the worst write that has failed,
and the properties say what remains true after it.

## TaskService

`ApplicationTaskService`: the active execution, its steering and one queued follow-up. `task[e]` is
where the asynchronous `begin` and `settle` of an execution await; `writes` is the promise chain
`followUpWrites`. The coordinator is what the service sees of it: it admits an execution, runs it,
decides to commit an answer that is not cancelled (`HostCommits`), and ends it. Service and
coordinator share the port to the Data Worker, which serves a Session in order (`data_bootstrap.ts`
464-467, `data_service.ts` 1414-1450), so a turn's answer is not committed before a save that was sent
ahead of it is answered.

`TaskInvariant` (lanes belong to the current execution; no accepted follow-up is forgotten),
`CancelHolds` (no follow-up is begun behind an execution whose cancel was taken), `BusyEnds`. The end
of a rejected `begin` resets `cancellationRequested` (277) whichever execution owns it by then, so
`queueFollowUp` may accept a follow-up behind a cancelled task. `CancelHolds` says that it does not
start all the same: the cancelled task was not committing yet, because the save was not answered, so
it does not end with an answer and the follow-up is discarded.

## CoreCommands, LazySession, CoreService

`CoreCommands` is `registerCommand`: a command is run once for its id, copies join it, its answer is
kept in a small cache and in a durable receipt, receipts are read one after the other. `LazySession`
is a Session whose Worker starts when first needed; the start may be cancelled, may fail, and is
closed again. `CoreService` composes them: works of commands act on the services under the slot.

Every composed step is one step of one component with the rest of the Core's state; a work is in
`work[c]` where it awaits. `CommandInvariant` (a work runs at most once; the answers to one id and
signature agree, except that a retry that cannot read the receipt is told `failed`),
`ServiceInvariant` (the slot has one holder, no service is closed while it admits or runs, a
cancelled admission stays cancelled, a closed Core has no work under way and no Worker running), `CoreConverges` (an
accepted cancel ends the start; close ends), except when a Worker's start, whose wait for `ready`
has no deadline, is silent and nobody has cancelled it (`Stuck`).

## SessionStream

How a client follows a Session: the Data Worker's watch and its delivery loop, the Core's watch with
its revision, the subscribers with their buffers and resynchronisation, the one frame in flight to
the client and the client's reducer. The conversation is its cut, the control state its revision;
buffers count frames instead of bytes. `StreamInvariant` is the types, `NoGap` (no client that was not told to reconnect meets a
frame that does not follow its state), `NothingSkipped` (a client at a revision has every delta
published by then); `CatchesUp` is its liveness (a client that stays gets the latest state). Two conditions are
part of them: `behind`, a stream that began behind its watch (with a snapshot older than the one the
watch began with, or older than a delta the watch dropped; the second takes four deltas, one more
than the run has), and `GaveUp`, the delivery that gave
up after a failure and waits for the next delta.

## ChatGptAuth

The ChatGPT credentials of one directory. The Core and every Agent Worker are processes that resolve
an account from the same files, and the Core's service signs accounts in. **An action is the code
between two awaits that touch a file, a lock or the provider.** A file is replaced by `rename`, so a
reader sees the old record or the new one; a lock is of an open descriptor, so it excludes calls of
one process and of several alike, and a process that dies frees it.

| Variables | Code |
|---|---|
| `account`, `accountLock`, `registered`, `selection`, `hostId`, `hostLock` | the files under `chatgpt/` and their locks |
| `caller` | a call of `resolveStoredAccount`: where it awaits and the record it read |
| `attempt` | a sign-in from `begin` to the end of `complete` (`attempts`, `completingAttempts` and the locals) |
| `issued` | the provider: the refresh token it accepts of each grant |
| `lost`, `replaced`, `cancelled` | history: grants whose newest token nobody saved or that were withdrawn, grants a sign-in replaced, sign-ins cancelled |

| Actions | Code |
|---|---|
| `Resolve`, `Locked`, `ProviderAnswers`, `Refreshed`, `Marked` | `resolveStoredAccount`: the first read, the second under the lock, the token request, the two writes |
| `Begin`, `HostRead`, `HostWritten` | `begin` with `findUnboundRegistration` and `readHostId` |
| `Complete`, `Registered`, `LoginLocked`, `LoginWritten`, `Looks`, `Selects` | `complete` |
| `Cancel`, `Select`, `Expire` | `cancel`, `select`, the comparison with `Date.now()` |
| `ResolveFails`, `LoginFails`, `CoreDies`, `Revoke` | an await that throws, a process that dies, a grant the provider withdraws |

Properties: `CredentialInvariant` (types; `TokensAreSpentOnce`: the token saved is the one the
provider accepts, unless it was lost; `SignInsAgree`: all sign-ins present one host id, the selected
account exists); `RecordsMoveForward` (a registration keeps its account and client, a refresh puts
back no older token and none a sign-in has replaced, and a sign-in binds nothing once a cancel of it
was accepted); `AuthConverges` (liveness). `cancel` accepts every attempt that is not being completed,
also one that has bound its account: that stays bound. The provider
is external: it takes the newest refresh token of a grant and answers any other with `invalid_grant`.

## How the modules fit together

| A module assumes | of | which is shown by |
|---|---|---|
| Data answers a settlement with what the row says, once | `ExecutionCoordinator`, `ChildRuns` | `DecisionIsFinal`, `TerminalMatchesRow` in `DataSession` |
| a Worker posts a proposal or a failure, then `turn_settled`, or an error | `ExecutionCoordinator`, `ChildRuns` | `ImplementsContract` in `AgentTurn` |
| cleanup of children ends and leaves none | `ExecutionCoordinator` | `ChildrenConverge`, `CleanupHolds` |
| cleanup of processes ends and leaves none, or fails | `ExecutionCoordinator`, `ChildRuns` | `StopConverges`, `FinishedCancelLeavesNothing` |
| a stop or a release of a process is true when it fulfils | `BashCall` | `OwnerKeepsPromises` |
| a finished capture reads back, an abandoned one is gone | `BashCall` | `StoredIsReadable`, `SpoolInvariant` |
| a turn begun ends and reports once | `TaskService`, `LazySession` | `CoordinatorConverges`, `CoordinatorInvariant` |
| the Core submits nothing to a service it is closing | `TaskService` | `ServiceInvariant` |
| an idle Session stays idle while its model is selected | `ExecutionCoordinator` | `ServiceInvariant` |

`SessionHistory` and `TurnContract` are refined (INSTANCE with a mapping), `CoreService` extends and
composes its two components; the other lines of the table are matched by hand: the assumption is an
action or a guard of the module that makes it, with the promise in its comment.

## Runs

Every run is a question about one part; a state count is TLC's number of distinct states.

| Run | States | What it shows |
|---|---|---|
| `data_session` | 339,028 | a Session of either kind with its journals, failing writes and a crash at any point: invariants, finality, refinement of `SessionHistory`, restart |
| `data_checkpoint` | 349,314 | three executions of one Session: checkpoints of one turn and of two, installed during and after a turn, failing and taken back |
| `coordinator` | 8,115 | two turns with every fault: settled and reported truly, a cancelled one never adopted; undisturbed turns, losses and close converge |
| `agent_turn` | 132,071 | a turn of four requests of two calls, four input limits, two uncaught errors: complete proposals, whole exchanges, heard steering, the contract, cancel ends it |
| `child_runs` | 73,707 | one child from spawn to cleanup with nine kinds of fault: one stored terminal, nothing alive, everything ends |
| `process_owner` | 197,795 | two processes over two executions with kills, failing signals and held pipes: stops are true, cancels leave what they say, stops end |
| `bash_call` | 2,444 | one call with every race and fault: the right answer, nothing behind it, it ends |
| `bash_output` | 277,771 | two commands of two streams in a spool that is too small, torn writes: what was saved reads back |
| `task_service` | 684,391 | four executions and two follow-ups: lanes never mix, nothing is forgotten, nothing starts behind a cancel, the Session does not stay busy |
| `core_service` | 296,135 | two commands of five, one repeated, over two services: works run once, the slot has one owner, close ends |
| `session_stream` | 423,000 | two clients, buffers of one: no gap, nothing skipped, everyone catches up |
| `chatgpt_auth` | 825,540 | two resolves and two sign-ins with cancels and one fault: no token spent twice, no record goes back, everything ends |

### Bounds

- `data_session`: two executions, three messages each with a buffer of two, metadata writes up to
  revision 2, one crash. Executions of a Session are serial, and one meets at most its predecessor
  (through the projection, the retained result and the log). One crash reaches every
  state a crash can leave. Three messages fill a buffer of two and leave one.
- `data_checkpoint`: three executions, one message each, no metadata writes, one crash. A checkpoint
  leaves one turn out, so `InstallCheckpoint` needs two turns in the log and a third that is open;
  with three turns there are checkpoints of one and of two turns, so that taking one back can restore
  the wrong one.
- `coordinator`: two turns. All state but the generation's and the stale timer is renewed by a turn,
  so the second shows what the first leaves behind.
- `agent_turn`: four requests of at most two calls; two earlier turns, the later with two exchanges;
  limits of 6 (nothing fits), 11 and 14 (parts of the history and of the turn are dropped) and 40;
  two uncaught errors, the second behind a closed port.
- `child_runs`: one child. Runs of a parent share only the parent's flags and the order of the wait
  in its cleanup; `Promise.all` over them is discussed below.
- `process_owner`: two operations, two executions. The run (`MCProcessOwner`) begins in one of two
  states: before the first call, beside an operation that is over, so that a start can belong to the
  execution after a cancel; or in the cancellation of two running operations, one of which may be
  killed, fail to be signalled, and leave a process outside its group. Operations share nothing but
  the sets that cancel and close take, so the second state is the one that needs two.
- `bash_output`: two commands of two streams, three bytes per stream, three per command, four in the
  registry, three retained streams; texts of one character of one or of two bytes. Each quota is
  reached, by itself and together with another.
- `task_service`: four executions, two follow-ups, one steering message, one fault. The fourth is
  needed for a follow-up behind the task that was admitted while a rejected one was being saved;
  `MCTaskService` leaves steering and the failed write to the first three.
- `core_service`: ids c1 (called twice, the second time as `submitA`) and c2, five signatures, two
  services, a cache of one entry, one fault.
- `session_stream`: two streams, every buffer of one frame, three deltas, one control change, one
  failure. A buffer of one is the smallest that can overflow and be refilled.
- `chatgpt_auth`: two resolves, two sign-ins, two registrations, two users, one refresh of each grant,
  one fault. Two registrations let two first sign-ins race for the host id; a record is shared by
  two resolves and both sign-ins. A refresh that finds a token spent follows one that has ended, so
  one refresh shows it; a resolve runs again as often as it likes. `MCChatGptAuth` cancels one of the two
  sign-ins, which are alike.

Deadlock is checked in `data_session` and `data_checkpoint`. In the other runs a system may stop
rightly: a turn is over,
a Core is closed, a call has answered, and the bounds of the environment are used up; that
none of them stops early is what their liveness properties say, and `bash_output`, which has none,
is a store that only answers.

### Fairness

- `DataSession`: a host restarts its Data Worker, and store initialization, a loop over the active
  rows, runs to its end.
- `ExecutionCoordinator`: Data answers, cleanups end (each has its own deadline) and timers fire.
  Nothing is assumed of the Agent Worker or of the user: a Worker may stay silent for ever.
- `AgentTurn`: what the turn awaits is answered in the end (`WF_vars(Awaited)`: hooks, tools and
  model honour the abort or end; the Host acknowledges or kills the Worker). The second conjunct,
  `[]<>(pc # "project")`, says that the projection of a request, a loop over a finite history, ends.
- `ChildRuns`: the event loop runs, Data answers, timers fire; a Worker answers only while it lives.
- `ProcessOwner`: the Host's coroutines and the Worker's calls go on, a runner told to go exits, a
  killed command dies. Commands and their descendants may run for ever, and one that has left the group
  need never exit.
- `BashCall`: awaits of the call return; the command need not end, no fault has to happen.
- `TaskService`: `WF_vars(System)`: as long as Data has an answer, the coordinator a turn to end or the
  service a continuation to run, one of them happens. Each of them happens a bounded number of times, so
  it need not be said of each.
- `CoreService`: `CoreSpec /\ []<>~Owed`. `Owed` is that a step of the Core, of a cancelled start or
  of a turn that ends is enabled, and no such step leads to another for ever; so the formula says
  what weak fairness of those steps says, and TLC need not evaluate ENABLED for each.
- `ChatGptAuth`: requests to the provider are answered or fail, files are written, and a free lock goes
  to somebody who waits (`WF_vars(System)`). The token request has no deadline: with a provider that
  never answers, everyone who needs the account's lock waits with it. A user need not come back.
- `SessionStream`: ports deliver, the Core's steps go on, a connected client reads.

## Proofs

Ten components have proofs, in a module beside the model (`X_proofs` EXTENDS `X`); those of `BashCall`
stand with those of the process owner it awaits, in `ProcessOwner_proofs`, and those of
`ExecutionCoordinator` with those of the Data Worker that decides its turns, in `DataSession_proofs`
(the two models share no name). Their theorems
hold for every value of the constants: any number of executions, operations, follow-ups, commands,
clients, services, streams, sign-ins and turns, and any bound on faults and crashes, where a run has one or
two of each. `tlapm` checks 21,882 obligations. Nothing is assumed but the named assumptions of the
models on their constants, which TLC evaluates in the runs, and no fairness: the theorems are about
`Spec`, of which the runs' fair specifications are a part.

| Theorem | Statement |
|---|---|
| **`DataSession_proofs`** (2,342 obligations; `BoundsAssumption`, `MaxTurnsAssumption`) | |
| `TypeCorrect`, `InvariantHolds` | `Spec => []TypeOK`, `Spec => []SessionInvariant` |
| `TurnLogTheorem`, `MemoryTheorem`, `TerminalTheorem` | `Spec => []` of `TurnLogConsistent`, `MemoryFollowsStore`, `TerminalMatchesRow` |
| `DecisionTheorem` | `Spec => DecisionIsFinal` |
| `HistoryTheorem` | `Spec => ImplementsHistory`: the refinement of `SessionHistory` |
| `SettlementHolds` | `Spec => []SettlementInduct` |
| `SettlementIsSaved`, `CheckpointHolds` | `Spec => []` of `SettledIsSavedAndReleased`, `CheckpointCoversHistory` |
| `ProjectionAdvances` | `Spec => ProjectionAdvancesWithTurn` |
| `GenerationHolds` | `CoordinatorSpec => []GenerationInvariant` |
| `CoordinatorCorrect`, `WaitsCanEnd` | `CoordinatorSpec => []` of `CoordinatorInvariant`, `NoWaitOnTerminatedWorker` |
| `CommitIsFenced`, `RunningTurnIsKept` | `CoordinatorSpec =>` `CancelFencesCommit`, `RunningTurnKeepsWorker` |
| **`AgentTurn_proofs`** (2,332; `BoundAssumption`, `HistoryAssumption`) | |
| `InvariantHolds` | `Spec => []TurnInduct` |
| `TurnCorrect`, `RequestsKeepExchanges`, `SteeringHeard` | `Spec => []` of `TurnInvariant`, `RequestKeepsExchanges`, `SteeringIsHeard` |
| `ContractImplemented` | `Spec => ImplementsContract`: the refinement of `TurnContract` |
| **`ChildRuns_proofs`** (2,162; `ChildRunsAssumption`) | |
| `InvariantHolds` | `Spec => []RegistryInduct` |
| `RegistryCorrect`, `CleanupCorrect` | `Spec => []` of `RegistryInvariant`, `CleanupHolds` |
| **`ProcessOwner_proofs`** (2,635; `OpsAssumption`, `BoundAssumption`, `CallAssumption`) | |
| `InvariantHolds`, `OwnerCorrect` | `Spec => []OwnerInduct`, `Spec => []OwnerKeepsPromises` |
| `FinishedCancelIsClean` | `Spec => FinishedCancelLeavesNothing` |
| `CallHolds`, `CallCorrect` | `CallSpec => []` of `CallInduct`, `CallInvariant` |
| **`TaskService_proofs`** (1,710; `BoundsAssumption`) | |
| `InvariantHolds` | `Spec => []TaskInduct` |
| `TasksCorrect`, `CancelIsHeard` | `Spec => []` of `TaskInvariant`, `CancelHolds` |
| **`CoreService_proofs`** (2,214; `BoundsAssumption`, `ServicesAssumption`) | |
| `InvariantHolds` | `CoreSpec => []CoreInduct` |
| `CommandsCorrect`, `ServicesCorrect` | `CoreSpec => []` of `CommandInvariant`, `ServiceInvariant` |
| **`ChatGptAuth_proofs`** (1,213; `BoundsAssumption`) | |
| `InvariantHolds` | `Spec => []CredentialsInduct` |
| `CredentialsCorrect`, `RecordsNeverGoBack` | `Spec => []CredentialInvariant`, `Spec => RecordsMoveForward` |
| **`SessionStream_proofs`** (7,274; `StreamAssumption`) | |
| `StreamHolds`, `StreamCorrect` | `StreamSpec => []StreamInduct`, `StreamSpec => []StreamInvariant` |

The assumptions are that bounds are natural numbers (a buffer or a cache has room for one entry, a
turn may make one request), that there is a service and an operation, that operations are finitely
many, that `None` is no name, that no stream is called like a request of the watch, and that a `resolve` and a sign-in are told apart as owners of a lock.

### Why the invariants need strengthening

None of the properties is inductive alone, and what has to be added says what the code relies on.
Each strengthening was checked by TLC, as an invariant of the component's instance under Bounds,
before it was proved, and again where a model was made more exact (of `ProcessOwner` with one
operation from its start; with two, 2.4 million states without an error, not all).

- **`DataSession`.** That an adoption appends at the right place needs the projection to be the
  row's (`MemoryFollowsStore`) where an execution was admitted, and that no canonical execution's
  base is reached again (`RevisionsBehindRow`); that the projection stays right after a commit needs
  the log; that an undecided execution has an active row needs the terminal results to agree with
  the rows; and all of them need a closed or fresh owner to be empty (`OwnerFresh`).
  `SessionInvariant` is their conjunction. `SettlementInduct` adds what a settlement rests on:
  nothing is received behind the turn's last message (`FinalIsLast`), a prepared proposal is flushed
  and its journal sealed (`PreparedIsFlushed`), one execution runs, on the base and the turn of the
  projection (`CurrentIsProjected`), and only a detached Session accepts a turn it does not store.
- **`ExecutionCoordinator`.** `GenerationInvariant` ties the four coroutines together: where the
  reservation stands says how far the two settlement promises are (`PlaceOfSettlement`), what they
  were told is what Data decided (`PromisesFollowData`), each path reports once (`ReportsAreCounted`),
  a generation lost where somebody still needs it was lost by a disturbance (`LossIsNoticed`), and
  a watchdog belongs to a cancelled turn, but for the one a cancel in the `finally` block leaves
  behind (`TimersAreOwned`).
- **`AgentTurn`.** That a proposal is a whole conversation needs to hold at every await before it:
  between requests the transcript is `Whole`; while calls are executed it `Asks` exactly for the
  calls of its last message (`TranscriptGrows`). That steering is heard needs the lane to say what
  became of it (`SteeringFollowed`), and the contract needs every accepted cancellation to be seen
  by the turn unless it had been settled (`CancelIsSeen`).
  That a trimmed request keeps whole exchanges needs what is omitted of the current turn to be whole
  exchanges between requests, while the transcript grows (`OmitsExchanges`, with which it is
  `RequestInduct`).
- **`ChildRuns`.** Seven procedures of a run interleave, so `Fits` says of each place what the others
  can have done. A run has a Worker and a Session only where its spawn has got that far, and a spawn
  that is over has left an admission, a terminal or the error of the open (`SpawnFollows`); a boot
  answers once and first, and a Worker ends by itself only when its boot has failed or its run is
  settled (`WorkerFollows`); that the terminal reported is the one stored needs whoever
  awaits an answer of Data to have been admitted, and to have one (`SettlementFollows`); that nothing
  is left when the cleanup ends needs its place to say what is settled, and the Worker to be over
  before the Session is closed (`CleanupFollows`). The facts are numbered through the two queues,
  held back and waiting, into the store (`Counted`), and the one of the process cleanup is stored when
  the cleanup has ended (`Reached`). That a turn hears its cancel is a property of the port: behind
  every `turn` in it comes a `cancel` if one was asked for (`CancelFollows`, `Overtaken`). Between the
  runs there is only the parent: its cleanup awaits every run that has a Worker (`ParentFollows`).
- **`BashCall`.** An answer needs the process and both drains, so every way to it has joined them: a
  teardown without a failure has stopped the process and waited for the drains, a result has passed
  the wait for the capture and the release (`CallJoins`). A failure that is remembered is one of a
  cancelled call, and the signal of a call that has ended does not change (`CallAnswers`).
- **`ProcessOwner`.** For one operation, where its lifetime and its stop stand says what is left of
  the runner, the command and its group (`Processes`, `Lifetime`, `Stopping`). Between operations: a
  cancellation has stopped every operation of its execution and waits for it, or for the answer to
  its start (`CancellationReaches`), and a close for all that had not ended (`CloseReaches`). That a
  cancelled execution which the coordinator finishes is clean also needs the conversation of Worker
  and Host (`Matching`): each call has one outstanding request, the answer to it is due or on its
  way, and the settlement is posted behind the last answer, so no start is still in the port.
- **`TaskService`.** The lanes follow one execution through every await (`LanesFollowTask`); a queued
  follow-up waits behind the execution that has the Session (`WaitsBehindActive`), one that was begun
  for has a good execution behind it (`BegunBehindGood`); where an answer may be committed no rejected `begin` is left
  to reset a cancel, and none is queued behind a cancelled one (`CancelStands`); and the last copy of a
  record in the queue of writes, or else the durable   receipt, says what the record says (`CopiesAgree`).
- **`CoreService`.** `CommandInduct` is about `CoreCommands`: a command that was run has a receipt or
  still has its id (`RanOnce`), and what was answered or cached is what the receipt says
  (`AnswersVouched`). `ServiceInduct` is about the composition: the slot has one holder through all
  its awaits (`SlotHasOneHolder`), which has the service in its hands (`WorksHoldServices`), and a
  service out of the slot is closed or its close is awaited (`ServicesClose`).
- **`ChatGptAuth`.** That a refresh token is spent once needs a caller past its wait to own the
  account's lock with the record unchanged since it was read (`CallersOwnLocks`, `SignInsOwnLocks`),
  the provider to be ahead of what is saved by that refresh only (`TokensFollowProvider`), and a
  grant to be saved by its own sign-in (`GrantsAreOwned`). That a
  cancelled sign-in binds nothing more needs it to be over, with nothing left to write (`CancelledAreOver`).
- **`SessionStream`.** That a client meets no gap is about one frame; what it rests on spans three
  queues. The pending updates of the entry are the last deltas of the conversation, and an update on
  the port goes on from what was acknowledged (`Pipeline`). The watch stands where the Core last
  published, and what it holds back goes on from there (`WatchFollows`). The queue of a subscriber is
  the end of what was published (`FramesFollow`), so it can be told by its length. A snapshot under
  way has whatever the queue of its subscriber will not give it (`AnswersFit`), and the client, with the
  frame on its wire, is where its queue starts (`ClientsFit`). `WatchProtocol`, `StreamPlaces`, `Tokens`
  and `Shapes` say which requests, answers and messages exist: an update is posted before the answer to
  `unwatch`, a subscriber waits for one snapshot at a time.

### How the proofs are laid out

First come the inductive invariant, conjunct by conjunct, and lemmas about the operators the actions
share; then one lemma per action (`CancelKeeps`, `RefreshedKeeps`, `WatchedKeepsServices`), with a
step per conjunct it can disturb; then the step for `Next`, and the theorems.

Four proofs do not go action by action. `DataSession`'s `StepKinds` shows that every step is, seen
from the rows and the projection, of one of six kinds (it observes, forgets, initializes the Session,
begins, rejects or accepts an execution), and `TurnLogStep`, `MemoryStep`, `OwnerStep`, `TerminalStep`
and the refinement are about those kinds. `ExecutionCoordinator`'s invariants are proved conjunct by
conjunct, since most actions disturb few of them. `ProcessOwner`'s actions change one record of
`proc`: lemmas about records alone (`SpawnFits`, `StopEndsFits`, `KilledFits`) and lemmas about the
two ports alone (`RequestTaken`, `ReplyPosted`, `SettlementTaken`) come first, and an action is then
a step of one operation's processes (`ProcessStepKeeps`), a step of the Worker (`WorkerStepKeeps`) or
one that also has to be looked at for what it cancels or closes. `ChildRuns` is similar: the helpers
its actions are built from (`Record`, `Send`, `Terminate`, `Complete`, `RequestCancel`) are functions of a
run's record, so most lemmas are about a record that fits and stays so (`RecordFits`, `SealSetFits`,
`CleanEndsFits`); each action then `Advances` its run, and only the two steps of the parent look at all
of them. A step that ends a spawn may also pass on a cancel: the request and the seal do not look at
the spawn, so they may be taken before or after the rest of the step (`RequestCommutes`,
`SealCommutes`).

`AgentTurn_proofs` has a part about data. The projection of a request and the joined history are
recursive functions of the positions of a transcript; that such a function exists is an induction,
over the set of the positions it exists up to (`EveryNatural`, from the least element a set of
naturals has), since the library's induction theorems take an operator the provers cannot
instantiate. What is kept is then followed position by position (`KeptStepByStep`,
`KeptIsPaired`), as are the units of a paired transcript (`UnitIsExchange`, `WithoutKeepsPairs`).

`SessionStream_proofs` has its operators first: what `Shifted`, `Later` and `Control` do to a queue, that
publishing (`Publish`, `Apply`, `Resync`) keeps `CoreFits` and only `Advances` the Core, that a `Flushed`
watch is a sequence of such steps, by induction over its updates (`AppliedExists`,
`FlushedIsApplied`), and what `Begin` makes of a subscriber. Then each part of the invariant has lemmas
for the steps that leave it alone (`AnswerAdvanced`, `ClientAdvanced`, `TokenTaken`), and every action
has one (`ReceiveUpdateKept`, `PumpKept`).

`CoreService_proofs` composes: an action of the Core is a step of `CoreCommands` joined with one of
the services, so each has a lemma for what it does to either (`...KeepsCommands`,
`...KeepsServices`), and `InductKept` puts them together.

### What is only model-checked

- Every liveness property: fairness and ENABLED are out of the prover's reach.
- `StoredIsReadable`, `PagingProgresses` and `SpoolInvariant` of `BashOutput`: flushing and
  compaction are folds over streams and extents, and the quotas are sums over sets.

## Disagreements found

No run is expected to fail. Where the code does something a document or a careful reader would not
expect, the model does it too and the property that meets it says when it holds:

1. An exception of the view refresh after the commit transaction (`conversation_writer.ts` 325) is
   reported as a commit failure, while the row says canonical;
   `tests/v0/increment_170_s3_commit_failure_test.ts` 7 has a reported failure not adopt the turn.
   The projection stays behind until the owner is reopened, and later turns are refused by the row's
   fence rather than misfiled. A commit whose terminal result cannot be read is reported as a failure
   too, with the projection advanced. An execution whose admission cannot be read back stays held and
   undecided, and titles, models and recall are refused until the Session is closed.
2. When the five seconds after a cancel end while the Host awaits Data or a cleanup after the
   Worker's answer, the wait for `turn_settled` is registered on a terminated Worker and never ends
   (`worker_host_coordinator.ts` 1135; `docs/history/increments/increment-91.md` 42). The same holds
   for a replacement start whose generation is marked before its waiter exists.
3. A cancel in the `finally` block arms a watchdog nobody clears (`worker_host_coordinator.ts` 1280;
   `increment-91.md` 37); it may terminate the Worker of the next turn.
4. The failure path settles without `terminalPromise` (1322): an escalation during its wait reports
   the turn a second time (`docs/plans/provider-neutral-cancellation.md` 235).
5. `worker_host_children.ts` 482: a spawn is answered ok though its tool filter failed and nothing was
   admitted (`docs/architecture/henji-host-agent-worker.md` 391). And a child whose execution Data
   refused is not terminated by its cleanup (890-907): if the cleanup of its processes fails, its
   Session stays open behind the parent. `CleanupIsComplete` excepts it.
6. `worker_host_children.ts` 869: the cleanup of a child never ends when its grace ends while its start
   resolves the model's capacity (`docs/increments/increment-110.md` 37): the waiter for `ready` is
   registered on a queue that has already failed everyone. `ChildrenConverge` excepts it.
7. `worker_host_children.ts` 241: cleanup awaits all runs with `Promise.all`, so one that fails ends
   the wait before the others have ended, which `henji-host-agent-worker.md` 398 asks for. With
   one child this cannot be seen; no property covers it. `cancelExecution` waits in the same way
   (`worker_process_owner.ts` 112-116): the coordinator goes on behind the first stop that fails, while
   the others are under way and their failures are reported to nobody. `FinishedCancelLeavesNothing`
   says so.
8. `bash_output.ts` 558: a compaction whose write is torn leaves outputs of other commands with bytes
   moved over their own beginning; and 447: the capture that failed keeps its quota
   (`docs/history/increments/increment-5-results.md` 16). `failure` excepts both.
9. `bash_tool.ts` 519: an error while a cancel is handled leaves the saved output. And a
   process that leaves its group and keeps the output pipes holds `stop`, the close of the Worker's
   processes and a cancelled or timed-out bash call for as long as it lives (`process_executor.ts` 264,
   303; `bash_tool.ts` 380 has no deadline). `StopConverges` and `CallEnds` except it.
10. `task_service.ts` 319: after a failed follow-up write the Session stays busy for ever; after a
    failed `persistCompletion` as well. `BusyEnds` excepts a failed write.
11. A subscriber's snapshot that was formed before an update and delivered after it
    (`docs/increments/increment-199.md` 34-35) starts its client behind the watch: `behind`. So does one
    of two snapshots read for a watch that overflowed while they were read (`core_service.ts` 2299):
    only the stream that gets there first is told to resynchronise.
12. A retry of an accepted command whose receipt cannot be read is told `failed`; `session.open` says
    `failed` though the slot has changed when the close of the previous service or the refresh of the
    control state fails; a failed start that was not aborted is kept and fails every later task; a
    service whose first watch fails is closed by nobody; and a Worker that is silent at its start,
    without a cancel, holds the shutdown.
13. A failed observation loses the turn's transcript in the catch of `runTurn`; a failing `before_turn`
    hook leaves the steering lane open during the acknowledgement.
14. `chatgpt_auth.ts` 1001: once the provider has rotated a refresh token, a lost answer, a failed report
    of it or a failed write loses the new token, and the next refresh asks for a new sign-in
    (`TokensAreSpentOnce` excepts `lost`). 1192: the selection is looked up and written without a lock,
    so a `select` between the two is overwritten by the first sign-in. 1195: a sign-in whose last report
    fails is told to have failed although the account is saved and selected.

## What is left out

Wording, diagnostics, stage probes, message content, attribution and the derived conversation view
are data no property here tells apart. In the modelled parts:

- `DataSession`: recall, deletion, inheritance of a child, other Cores on the same database (the
  Session lock keeps their writers off this Session, and reconciliation skips rows whose lock is
  taken).
- `AgentTurn`: the close command, the request budget (which does not end before `maxSteps`),
  duplicate call ids, checkpoint and recall prefixes, progress and thinking, the refusal of a turn
  without durable data.
- `ChildRuns`: `openParent`, `releaseParent`, progress, model choice.
- `ProcessOwner`: output bytes, the orderly close of the Worker's executor.
- `BashCall`: arguments, a process that cannot be started.
- `TaskService`: publication of the lanes, which is `SessionStream`'s matter.
- `CoreService`: queries, the registration of the cancel, steer and follow-up commands, listing and
  deletion of Sessions, and the wait of `close` for ChatGPT operations under way (`core_service.ts`
  2318), which end as `AuthConverges` says: with a provider that never answers, they hold the close.
- `ChatGptAuth`: `close`, which forgets the pending sign-ins as `CoreDies` does, the queries, and the
  checks of callbacks, tokens and identity, whose failure is `LoginFails`.
- `SessionStream`: the awaits between taking a delta and posting it (`data_service.ts` 784-798: the
  update is formed behind the Session's own mutations, in order, so the pump takes and posts in one
  step); deletion, shutdown, eviction of inactive snapshots, the change of the slot, the
  descriptor watch; the client's acknowledgement is one step with its receipt, and a client reconnects
  on a revision gap only.

Not modelled: the conversation normalizer, a pure reduction whose input is a file of
recorded facts; the semantic content of checkpoints; provider adapters, most tools, rendering, input
editing and command-line parsing, which are I/O or formatting without shared state; the evaluation
and corpus programs; archived code. These are about two thirds of the implementation, and the reason
the share of mapped lines stays low: what is mapped is the concurrent core.

## Plan

Done: all modules above; the proofs of ten of them: every safety property of a run is a theorem but
those of `BashOutput`.

Left: lemmas about the folds of `BashOutput`, where a fold is replaced by what it has to promise; the parts listed under [What is left out](#what-is-left-out).
