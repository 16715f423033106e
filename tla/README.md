# A verification project for EmiOS

EmiOS is a household assistant. Its autonomous core is **Dayflow**: a brain decides that something should be done,
an architect turns it into a graph of tasks (a *work object*), a gate dispatches tasks one at a time to tools and to
teams of agents, sessions record what came back, and a finalizer judges every result. All of it meets in one SQLite
store, written by an orchestrator pass, by session threads, by worker agents, by the owner's web page and by
supervision that must survive a crash of the process. Around the store, a scheduler decides when a pass runs, tickets
carry a task's questions to the user, and outboxes carry what became of the work back to the brain and to the beliefs it
came from. This project models that core in TLA+, checks it with TLC and proves its safety properties with TLAPS. Paths
below are relative to the repository root (`src/` in `PROJECT.json`).

## 1. Inventory

### 1.1 Modelled

| component | state it keeps | operations | hard behaviour |
|---|---|---|---|
| Work object, store (`work_objects/store.py`, `model.py`) | goal, tasks and worker items with status, wake gate, dispatch epoch, result, judgment, dependencies | `apply(op)`: handler, rollup, `validate()`, commit; batches fenced by a version | writers with and without fences; a long sequence of legal calls reaching an illegal state |
| Execution receipts (`work_objects/execution_store.py`, `manager_runtime/execution.py`) | attempt rows, revocation, call rows, the live spans of the process | claim, start, admit and finish a call, revoke, finish, reconcile after a crash | a call of unknown outcome; a cancelled thread that goes on |
| Architect (`control_nodes/work_architect_node.py`, `dayflow_orchestrator/work_architect_apply.py`) | none of its own | decompose, re-plan under a licence, prune, link, gate, merge duplicates, end | plans made from an older view; rewriting dependencies of tasks that run |
| State mover (`control_nodes/state_mover_persist_node.py`) | a snapshot of ready tasks | promote, hold (two transactions), wake on an event | writes without a fence |
| Dispatch gate (`control_nodes/work_node_dispatch_node.py`) | the claim under way | claim with reservation, reject, launch, fail the task | refusals that are only logged |
| Session (`dayflow_orchestrator/work_session.py`, `control_nodes/dayflow_tool_caller.py`, `work_objects/result_recorder.py`) | registered threads | run the call, record, judge, leave; re-arm questions after a restart | late, duplicate and crashed results |
| Finalizer (`control_nodes/work_finalizer_node.py`) | the unmet-attempt counter | five verdicts, escalation, denial override | the room and the tick judging the same result |
| Sweeper and recovery (`dispatch_sweeper.py`, `dayflow_tick.py`) | none | fail stuck tasks, judge what was left unjudged | a sweep racing a late answer |
| Workers (`agent_classes/WorkPlanner.py`, `manager_interface.py`) | their checklist below a task | add, start, set aside, finish items | items that outlive their task |
| Tickets (`lib/tools/create_dayflow_ticket/`, `ticket_manager/`, re-arming in `work_session.py`) | a ticket's row in one database, its binding and its call in another, a waiting thread | supersede, create, bind, propose, wait, answer, close, expire, re-arm | an answer racing the timeout, a newer question or a restart; a dropped event |
| Outboxes (`work_objects/concern_outbox.py`, `belief_outbox.py`, `subconscious/concern_feedback.py`, `belief_engine/work_feedback.py`) | receipts committed with the change they tell of | queue, read in order, deliver into three databases, acknowledge | a failure or crash between any two of them; two deliverers at once |
| Brain's inbox and wake (`subconscious/brain_inbox.py`, `gate.py`, `brain_step.py`, `brain_wake.py`) | events and their state, the poke flag | add, route, decide, apply, record | a poke that falls into a pass; a pass that breaks off |
| Dayflow scheduler (`dayflow_orchestrator/dayflow_scheduler.py`) | one tick job, one wake job per held task, follow-up flags, the run gate | start, stop, poke, progress, tick, node wake, arming | check-then-act between threads; a signal in the last moment of a tick |
| Brain intake, work UI, clock | none | create, revise, abandon; owner's edits; time and watch ends | acting on anything at any moment |

The components talk through the store and, for a launch, by starting a thread. A *pass* of the scheduler (one at a time
behind `_run_gate`) runs sweep, recovery, architect, state mover and gate in this order; session threads, the owner and
the clock interleave with it freely. A change of a work object leaves receipts in its own transaction; the tick and the
sessions deliver them, and the brain's wake thread reads what arrives. A task's question is a ticket whose answer reaches
the waiting thread over the event hub, which may drop it.

What makes them correct: an ended work object holds nothing startable; a dispatch is judged once and a close was
judged; a task starts with its gates clear; at most one attempt and one open external call per work object; a
cancelled attempt stops at its next check; every result is judged and no task stays in flight for ever; a merge of
duplicates loses no dependency; what the user answered is what the task gets; every outcome reaches the concern, the
brain and the beliefs behind it, in order, also across a crash; what the brain has recorded stands; a signal is answered
promptly and a stopped scheduler stays quiet.

### 1.2 Not modelled

Pending questions and approvals, mailboxes and the manager pool, background tasks, the user's scheduler, routines, rooms
and signal routing (lifecycles and bounded queues of their own). A second engine, the task runtime with its DAG executor.
The older item lane of Dayflow. The knowledge graph and the extraction side of the belief engines (LLM pipelines over
databases). Tools, agents, pages, setup and migrations (I/O and text). `PROJECT.json` lists each with its reason, and
lists the hazards with the line where each bites.

## 2. Plan

| step | modules | status |
|---|---|---|
| 1 | `WorkStore`: the store's handlers as operators on one work object | done |
| 2 | `WorkGraph`: every writer of a work object, interleaved, merging of duplicates included | done |
| 3 | `WorkExecution`: attempts, calls, sessions, crash and recovery; refines `WorkGraph` | done |
| 4 | `WorkGraphProofs`: types, inert ended work, one judgment per dispatch | done |
| 5 | `WorkPromise`: the abstract life cycle of a work object, which `WorkGraph` implements | done |
| 6 | `BrainWake`, `OutcomeDelivery`: outboxes, inbox, beliefs | done |
| 7 | `DayflowScheduler`: when a pass runs | done |
| 8 | `AskTicket`: a question, its wait and its restart | done |
| 9 | `WorkOrderProofs`, `WorkSafetyProofs`, `WorkPromiseProofs`: the other safety properties of `WorkGraph`, and that it implements `WorkPromise` | done |
| 10 | `WorkExecutionProofs`: the receipts, and that `WorkExecution` implements `WorkGraph` | done |
| 11 | `OutcomeProofs`, `AskTicketProofs`, `SchedulerProofs` | done |
| 12 | item lane, pending questions, DAG executor, mailboxes | later |

## 3. Modules

**`WorkStore`** has no variables. A work object is a record (`WorkObjects`), a handler is a guard of its refusals
(`MaySetStatus`, `MayRecord`, `MayFinalize`, `MayMerge`, ...) and a function from work object to work object
(`SetStatus`, `Record`, `Finalize`, `Redirect`, ...). `Rollup` and `Valid` are what `WorkStore.apply` runs after every
handler. Tasks are the direct subtask children of the goal (`is_work_unit`); helpers are worker items below them, placed
by the constant `Parent`. Of a timestamp the model keeps whether it lies ahead (`held`, `watch`); of the finalizer's note
whether it still asks the architect for something (`pending`). Titles, pods, evidence and findings are abstracted.

**`WorkGraph`** has one action per operation and caller, each one transaction: `Architect...`, `Mover...`, `Claim`,
`GateReject`, `GateFail`, `BindTicket`, `RecordResult`, `SweepStuck`, `Judge`, `WatchEnds`, `AddHelper`, `MoveHelper`,
`BrainReplan`, `Abandon`, `Owner...`, `TimePasses`, `WatchExpires`. `Commit` is rollup, then validation, then commit: an
operation that would leave an invalid work object does not happen. Steps of the orchestrator's pass use `InPass`, which
keeps them out of the gap between the mover's snapshot (`seen`, `parking`) and its writes; everything else may fall in
it. The architect's batches carry `expected_updated_at`, so a batch takes effect on exactly the state it was prepared
from, and a stale one changes nothing: one atomic step. A modelled revision prunes and adds, or gates, or links, or
merges duplicates (prune, then `redirect_dependencies`, in one batch), or ends; a revision that does several is a
sequence of them under repeated directives of the brain. Sessions and judges carry the epoch they belong to, any epoch,
also an overtaken one.

**`WorkPromise`** says what a work object is for, in a page and without epochs, gates or attempts: tasks are planned,
done, reported on and judged, one judgment per report; a task starts when what it needs was met; what was met or dropped
stays so; the goal is achieved by the last met task of the plan; after the end nothing starts, reports or is judged.
`WorkGraph` instantiates it (`Promise == INSTANCE WorkPromise WITH ...`) with `PhaseOf`, which reads a task's phase from
status, judged epoch and the finalizer's pending note, and `KeepsPromise` is its `Spec` as a property. It holds for an
owner who by hand only removes tasks: one who closes or restarts tasks in the page acts outside what the engine promises.

**`WorkExecution`** extends `WorkGraph` with `ex`: per attempt its row, revocation, call, session and number of accepted
results, and per task whether the sweeper wrote its last result (`result_actor`). A session goes `claimed`, `stamping`
(the gate), `begin`, `ready`, `calling`, `returned` or `crashed`, `judging`, `leaving`, `gone` (its thread), or, after a
restart, `resumed`, `settling`, `rejudging`. Each graph write of `WorkGraph` appears here under its caller's real
conditions, and every mutation applies `_execution_after_mutation` (`Receipts`) in the same step. There is no check
between the return of a call and the recording of its result, so a revoked thread may still record; the cancellation of
an attempt from inside its call (`CancelAttempt`) exercises exactly that. `Restart` loses threads and the pass,
interrupts unfinished attempts, makes calls in flight uncertain, and resumes questions still out.

**`BrainWake`** is the table `brain_events` and the thread that reads it: the gate takes a page, asks an agent and routes
it; the step decides what was passed on, applies it to the register and records it, in two transactions. Any stage may
raise, and so may the write of its own record (`record_route`, `record_failure`, `_record`, none of which is inside a
`try` of the run): `RunBreaks` ends the run at any of its stages, and what it had not recorded is pending again, applied or
not. **`OutcomeDelivery`** extends it with the work objects (reduced to the concerns they cite and how they ended), both
outboxes, the register, the catalog and the delivering threads. A change takes its time before it waits for the lock
(`stamped`, then its commit); delivery reads, writes and acknowledges in separate steps, each of which may fail, and a
crash loses every thread and the poke flag. A reference that names no single concern of the register is one whose
attachment fails whenever it is tried: fairness asks the writes of the work objects in `Served` to succeed now and then,
and nothing of the others. `Answers` is what the belief agent may answer.

**`DayflowScheduler`** keeps the jobs as the time left to them. A caller of `_schedule_tick` first computes its date and
checks for a sooner run, then adds the job, and other threads interleave between the two (`dated`, `adds`). `JobFires`,
the wait for `_run_gate`, the tick's look at the timer that may block it (`begun`), the ingestion that reads what was
written (`TickReads`), the pass, its `finally` with the follow-up flags; the same for node wakes; `Stop`, `Start` and the
end of setup at any time. A tick that is blocked, or fails before it has read, ends from `begun` and leaves to the
heartbeat what it did not keep (`Unread`). `Kinds` are the methods the callers use, poke and progress, which they may call
again while a signal is out. One unit of time stands for the debounce.

**`AskTicket`** follows one question through the tool (`Composing`: read the older ones, supersede them, create, bind,
propose, save links, show), the wait, the decision after a timeout, the recording and settlement, and through a restart
(`boot`: the list is read once, then each ticket is settled inline or waited for by a resumed thread). The user's answer
is two steps, since `record_response` takes its time before it waits for the lock. The session around it is
`WorkExecution`'s, shortened; in return this module has what that one abstracts: the row of the ticket, the gap between
creation and binding, and the event that may not arrive.

**`MC...`** give the spines of parents and the symmetry used by the configurations. **`...Proofs`** hold the theorems
(section 5): `WorkGraphProofs`, `WorkOrderProofs`, `WorkSafetyProofs` and `WorkPromiseProofs` form a chain of extensions
about `WorkGraph`, which `WorkExecutionProofs` continues; `OutcomeProofs`, `AskTicketProofs` and `SchedulerProofs` each
extend the module they are about. Definitions marked as mutants in a comment are wrong on purpose: each is a plausible
mistake in the code that the property named for it in `PROJECT.json` finds.

## 4. Runs

Deadlock is not an error, except in `Scheduler`: a settled work object really rests until somebody creates more work,
and the bounds stop the rest.

| run | instance | distinct states | shows |
|---|---|---|---|
| `GraphCore` | 2 tasks, 2 dispatches each, failure limit 2, all gates, symmetric | 258,274 | `TypeOK`, `TerminalInert`, `ClosedWasJudged`, `CompletionEarned`, `DeniedNeverRetried`, `DoneHasResult`, `JudgedOnce`, `StartsClean`, and the refinement `KeepsPromise` |
| `GraphGates` | 1 task that is timed, watched and asks; 3 dispatches; owner sets abandoned, superseded, waiting, failed | 69,549 | the gate properties again where holds, watches and questions exist, and `AskEndsByAnswer` |
| `GraphMerge` | 3 tasks, symmetric, no gates, no dispatch by the gate (`MaxEpoch` 0) | 40,266 | `Acyclic`, `OrderSurvives` under linking, pruning and merging |
| `ExecAsk` | 1 task that asks, 1 worker item, 2 dispatches, 1 restart | 213,361 | receipts and threads (`XTypeOK`, `OneUnfinishedAttempt`, `ThreadHoldsItsRow`, `OneOpenCall`, `CallStopsWithItsTask`, `FinishedTaskQuiet`) and the refinement `ImplementsGraph` |
| `ExecJudged` | 1 task, 2 dispatches, 1 restart, `FairSpec` | 26,896 | `JudgmentComes`, `InFlightEnds` |
| `Outcomes` | 2 work objects, the deliveries of one of which may always fail; 1 concern, 1 belief (the agent answers *revise*), 2 changes, 1 crash, `FairSpec` | 458,472 | `DTypeOK`, `NothingLost`, `OneTransactionInOrder`, `NoLostPoke`, `BeliefsWereTold`, `DecidedOnce`, `EveryOutcomeArrives` |
| `Scheduler` | 1 held task, 1 thread that pokes and reports progress, debounce and gap 1, throttle 2, heartbeat 3 | 3,419,290 | `STypeOK`, `HeartbeatGoesOn`, `SignalIsPrompt`, `WokenNodeIsDue`, `HeldNodeHasWake`, `StoppedIsStopped` |
| `Tickets` | 2 tasks with a question each, one of them with links, 1 dispatch each, 1 crash, `FairSpec` | 407,156 | `ATypeOK`, `AnswerDecides`, `OneQuestionOut`, `AnswerLands` |
| `ExecReservation`, `ExecLateResult`, `OutcomeBelief`, `TicketLinks` | 1 task or work object each; in `OutcomeBelief` the agent answers anything | | one finding each (section 6) |

`ImplementsGraph` is `WorkGraph`'s own `Init /\ [][Next]_vars`, over the same variables, as a property of `XSpec`: gate,
sessions, supervision and restart write nothing to the work object that is not an operation of `WorkGraph`, whose safety
properties therefore carry over to them. (The reverse, that `WorkGraph` allows more than the sessions do, is deliberate.)
`KeepsPromise` continues the chain: `WorkExecution` implements `WorkGraph`, which implements `WorkPromise`. Both links
are also theorems.

Larger instances that are too slow for a regular run were checked by hand and hold as well: the exclusion properties of
`WorkExecution` with two tasks and no restart (488,591 states), `KeepsPromise` on `GraphGates` with an owner who only
removes (24,978), `Tickets` with one linked task and two dispatches (about 40,000), `EveryOutcomeArrives` with a dispatch
room that delivers beside the tick and may hang in the middle (111,272), `SignalIsPrompt` with two callers and no held
task (814,564).

### Bounds

* `MaxEpoch` dispatches per task: two is a retry beside a late thread of the first attempt; three adds a result of an
  attempt two dispatches old. Guards in `Claim`, `RecordResult`, `OwnerSetStatus` and `Dispatch` hold it. `GraphMerge` has
  none: a merge looks at statuses, and the owner and the gate's rejection still end tasks there.
* `FailureLimit` 2 is the program's own `_REPEAT_FAILURE_LIMIT`; the unmet counter saturates there, as the code only
  compares it. The `Exec` runs use 1, since escalation is not their subject.
* `MaxRestarts`, `MaxCrashes` 1: a crash at any step, and everything that recovery meets; a second crash meets the same
  states.
* `recorded` saturates at 2, enough to tell one accepted result from more.
* Two tasks give dependencies, sibling work and two questions competing for one user; three give a cycle over a merge and
  a dependency inherited through one.
* `MaxChanges` 2 in `Outcomes`: two transactions, each of which may leave several receipts, so order inside one and
  interference between two, of the same or of different work, are both at stake.
* `MaxApplied` bounds how often the brain writes the register for one event: 2, so that a second write after a lost record
  occurs.
* `Answers` is *revise* alone in `Outcomes`: what the agent answers changes the catalog and nothing that decides what is
  delivered. `OutcomeBelief` has all three answers.
* `Outcomes` has no room: a second deliverer was checked by hand for liveness (above), and the theorems of section 5 hold
  for any number of rooms.
* The delays in `Scheduler` keep the order of the program's (debounce and gap, throttle, heartbeat) and differ by one
  unit, so every comparison between them occurs with both outcomes.
* `OwnerTargets` is what the owner sets by hand. The page lets the owner set any status, also close a task, which
  nobody judged: `ClosedWasJudged` is about the engine and is checked without that edit, `AskEndsByAnswer` with the
  targets listed. Each theorem names the edits it excludes (section 5). `WorkExecution` and `KeepsPromise` assume that
  owner's edits are removals.

### Fairness

`WorkExecution`: `FairSpec` assumes what the program provides and no more. A started thread, and the gate's launch, make
progress (`WF`). The state mover's pass ends (`WF`). Every pass of the scheduler goes through the sweep and the recovery
of judgments, and `_execute_tick` re-arms itself in a `finally`; both are off while the gate or the mover is at work, so
they are taken when enabled again and again (`SF`). In the model a stuck task may be swept at any time: the timeout is
over at some time, as nothing updates an idle task. That a **tool call returns is not assumed**, nor that the user
answers, that an operator resolves an uncertain call, or that the architect ever replans. A judgment's agent call is
assumed to succeed at some attempt: a pass whose call fails tries again at the next.

`OutcomeDelivery`: the tick goes on, and every tick begins with delivery (`WF`). What the tick writes for a work object in
`Served`, and its acknowledgement, may fail any number of times, but not always: they are taken if enabled again and again
(`SF`, one per work object). The writes of other work may fail for ever, as they do when a reference names no concern;
that they hold back no work in `Served` is the point of `EveryOutcomeArrives`. **Nothing is assumed of the rooms**, each
of which may stop between any two steps of a delivery, nor of the belief agent or the brain's agents.

`AskTicket`: a thread runs and its wait times out (`WF`), the start of the process goes through its list (`WF`), every
pass goes through the sweep (`WF`). That the user answers, or that the hub delivers, is not assumed.

`DayflowScheduler` has safety properties only, phrased so that a promise about the future is a promise about what is
scheduled now (`HeartbeatGoesOn`, `SignalIsPrompt`, `HeldNodeHasWake`), and its run checks deadlock: time can always
pass, so no thread is stuck in the gate or in a method for ever. Its assumptions: time passes only while no thread is
inside a method of the scheduler (milliseconds against minutes), and the scan that arms wakes is atomic.

## 5. Proofs

Every safety invariant, every action property and both refinements that a passing run checks are proved, for every value
of the constants: any set of tasks, worker items, concerns, beliefs, rooms, nodes or calling threads, any spine, delays,
number of dispatches, changes and crashes. What the theorems assume are the named `ASSUME`s of the modules and, where it
is written below, what the owner does *not* set by hand. The sets of tasks and worker items are finite (`FiniteNodes`),
since the program walks their graphs; the constants that stand for threads differ (`ThreadsDiffer`), and a missing date is
no date (`NoneType`). TLC checked the strengthened invariants on small instances before they were proved.

| theorem | property | hypothesis on `OwnerTargets` |
|---|---|---|
| `WorkGraphProofs!TypeCorrect`, `EndedWorkIsInert`, `OneJudgmentPerDispatch` | `TypeOK`, `TerminalInert`, `JudgedOnce` | |
| `WorkSafetyProofs!NoCircularWait`, `RevisionsKeepOrder` | `Acyclic`, `OrderSurvives` | |
| `OnlyReadyTasksStart` | `StartsClean` | not `dispatched` |
| `QuestionsAreFenced` | `AskEndsByAnswer` | |
| `DoneIsBacked` | `DoneHasResult` | not `done` |
| `ClosingIsJudged` | `ClosedWasJudged` | not `closed` |
| `DenialIsFinal` | `DeniedNeverRetried` | not `closed`, `superseded`, `proposed`, `dispatched` |
| `CompletionIsEarned` | `CompletionEarned` | |
| `FinishedWorkIsQuiet` | `FinishedTaskQuiet` | no status in `Startable` |
| `WorkPromiseProofs!PromiseKept` | `KeepsPromise` | only `abandoned` |
| `WorkExecutionProofs!ExecutionImplementsGraph`, `ReceiptsTypeCorrect`, `OneAttemptAtATime`, `ThreadsAreCounted`, `OneEffectInDoubt`, `CallsStopWithTheirTasks` | `ImplementsGraph`, `XTypeOK`, `OneUnfinishedAttempt`, `ThreadHoldsItsRow`, `OneOpenCall`, `CallStopsWithItsTask` | only `abandoned` (`OwnerRemoves`) |
| `OutcomeProofs!OutcomesTypeCorrect`, `NothingIsLost`, `ReportsKeepTheirOrder`, `NoPokeIsLost`, `DecisionsStand`, `BeliefsAreTold` | `DTypeOK`, `NothingLost`, `OneTransactionInOrder`, `NoLostPoke`, `DecidedOnce`, `BeliefsWereTold` | |
| `AskTicketProofs!TicketsTypeCorrect`, `OneQuestionAtATime`, `AnswersDecide` | `ATypeOK`, `OneQuestionOut`, `AnswerDecides` | |
| `SchedulerProofs!SchedulerTypeCorrect`, `ARunIsComing`, `SignalsArePrompt`, `WakesAreDue`, `HeldNodesWake`, `StopHolds` | `STypeOK`, `HeartbeatGoesOn`, `SignalIsPrompt`, `WokenNodeIsDue`, `HeldNodeHasWake`, `StoppedIsStopped` | |

The hypotheses on the owner are the price of a page that lets a status be set by hand: each names exactly the edits that
would do what the property denies the engine.

### The work graph

* `TypeOK` has two parts. `WorkTyped`, the types alone, is inductive: one lemma per operator of `WorkStore`, one step per
  action. `JudgedInOrder` (`judged[t] <= epoch[t]`: no dispatch is judged before it was made) is inductive on top of it
  (`JudgmentsInOrder`): the count of dispatches never goes back, and a judgment stamps the dispatch it judges. `JudgedOnce`
  rests on it. `TerminalInert` follows from what `Commit` validates and from a look at the steps that bypass it.
* **Order.** `Descendants` and `Reaches` iterate a step as often as there are nodes. `WorkOrderProofs` shows that this
  many iterations yield the *least closed set* (`ClimbIsLeastClosed`, `DescendantsAreLeast`, `ReachesIsLeast`): as long as
  the climb is not closed it gains a member in each iteration, and there are only so many. From there on the proofs reason
  about closed sets alone: a link that `validate()` accepted closes no cycle (`LinkClosesNoCycle`), and a merge keeps
  every ordering (`RedirectKeepsOrder`). `StepRewires` says that a step leaves the dependencies, links, or redirects.
* **Moves.** `StepMoves` reduces `Next`, with its two dozen operations and their cascades, rollups and validations, to
  what can happen to the main tasks: nothing, a revision of the plan, the end of the work, or *one* task moving in one of
  eight ways (`Queued`, `Started`, `GateFailed`, `Reported`, `WasJudged`, `WatchOver`, `OwnerMoved`, `Appears`).
  `StartsClean`, `AskEndsByAnswer`, `DoneHasResult`, `ClosedWasJudged`, `DeniedNeverRetried` and `CompletionEarned` are
  each a short argument over these ways. `FinishedTaskQuiet` is about worker items, for which `QuietStep` plays that part.
* **Promise.** The mapping `Phase` turns each way into one step of `WorkPromise` or none (`OneKeepsPromise`,
  `ChangeIsRevise`, `EndIsEnd`, `IdleKeepsPromise`). It needs of a reachable state that a judged dispatch is not in flight
  (`FlightUnjudged`) and that what the mover still has to handle is not either (`SnapshotAtRest`): the unfenced writes of
  the state mover would otherwise take a running task back into the plan.

### Execution

`StepImplementsGraph` shows of each action of `XNext` which operation of `WorkGraph` it is; it needs `DispatchesCounted`
(no epoch beyond `MaxEpoch`, the range from which `WorkGraph` draws the epochs of its sessions). So the theorems above hold
of the executing system. `XTypeOK` says besides the types that a session or a call exists only for an attempt with a row.
Its proof needs that only a claim starts a task (`OnlyClaimsStart`) and that a claim leaves a row for the dispatch it
makes (`ClaimReserves`): with them the attempt of a task in flight always has its row (`FlightKeepsRow`), and a session
begins nowhere else.

For the receipts, `StepMovesOneAttempt` says that a step moves at most one attempt, in one of nine ways (`AttemptMoves`),
and at most releases reservations of the others, or restarts the process. `Held` is then inductive: besides
`OneUnfinishedAttempt` and `OneOpenCall` it relates, per attempt, where its session is to its row and call
(`ThreadsHold`). `CallsStopWithTheirTasks` follows in
two parts: a step that takes a task from an attempt in a call revokes it in the same transaction (`StepRevokes`,
`SweepRevokes`), or does not take it at all (`OutcomesAreCalm`); revocation is for ever (`GoingKeepsRevoked`).

### Outcomes

`OutcomeInv` adds to the properties: every change has a time and a number of its own, which its receipts carry
(`Stamps`); each deliverer's list is a part of what was committed, what it has done of the receipt at hand is done, and
whatever *precedes* a receipt on the list is on the list too or already in the inbox (`Delivering`); the inbox holds no
report before one that precedes it (`InboxFollows`). `Delivering` is what makes `OneTransactionInOrder` inductive with
several deliverers, since each of them may be overtaken between any two of its steps. Most steps only add (`Grows`),
which keeps everybody else's list truthful. `DecisionsStand` rests on two facts about the inbox, that an event appears
once (`OneEach`, which makes a second delivery of its report a step that changes nothing) and that a run holds in its
page no event that was recorded (`RecordedStay` and the page's part of the type). It says nothing of events whose
record was lost (section 6).

### Tickets

`AskInv` rests on three facts. A work object has one call thread (`OneCaller`, from the claim). A thread about to ask
has every other open question on its list and none is left when it asks (`Superseded`): questions that stand from
before a restart are found too, and no resumed thread opens a new one. And a thread that holds a result holds what its
ticket is, and a ticket that was answered or has run out is never undone (`Waits`, `Kept`), so that the recorded result
stays true (`Decided`).

### Scheduler

`SchedulerInv` says where a promise is kept at every moment. *Coming*: while started, a job exists, or a tick is on, or
some thread's list holds a call. *Prompt*: the job is within the throttle, or the tick has not begun its pass or has a
follow-up flag (`PassKeeps`), or a list holds a prompt call, whose date is within the throttle too (`Scheduled`),
or the signal was deferred with the tick that was skipped, blocked or failed before it read.
*HeldArmed*: every held node is armed unless a scan is still to come; a node's thread without a scan on its list has just
armed its own wake (`Lanes`). *Stopped*: a stopped scheduler has nothing scheduled, since each writer looks under the lock.

Two attempts failed for a reason. `STypeOK` used to bound a job's date by the heartbeat, which the run accepted because
its only watch ends sooner; the end of a watch may lie beyond it, so the type is now the naturals. And two constants
for threads had an assumption about their number where the proof, and the program, need that they differ.

### What stays with TLC

The liveness properties (`JudgmentComes`, `InFlightEnds`, `EveryOutcomeArrives`, `AnswerLands`): liveness under
fairness and `ENABLED` are beyond this prover. The counterexamples of section 6, naturally. Induction over data by the
library's theorems is out of reach too, since they take an operator as a parameter that no backend instantiates; where
a proof needed it (`SetInduction`, `LeastNatural`), induction over a *set* of numbers was derived from the
well-foundedness of strict inclusion on finite sets. It suffices for the two iterated walks; no theorem says what a
general recursive function computes. `WorkPromise` and `BrainWake` have no theorems of their own: the first is the
abstract end of a refinement, the second is part of `OutcomeDelivery`.

## 6. Where code and documentation disagree

Each has a run whose counterexample is the story below; `PROJECT.json` quotes the lines.

1. **A failed launch may keep its reservation** (`ExecReservation`). A task removed between claim and launch makes
   `open_session` return silently; the reserved row stays and blocks every claim in its work object until the process ends.
2. **An attempt may have two results** (`ExecLateResult`). After sweep and a *retry* judgment the task is back in the
   inbox with its epoch unchanged, and the overtaken thread's result is accepted.
3. **A belief's decision may be lost** (`OutcomeBelief`). The evidence row is written before the belief is retired or
   revised, and is what redelivery takes for done: a crash between the two acknowledges the receipt and forgets the rest.
4. **A question with links cannot be answered** (`TicketLinks`). Saving the links merges the stale ticket object, whose
   state is still *pending*, over the row that was just proposed; an answer needs a proposed ticket.

Seen while reading and not given a run:

* Work graph: the late result of finding 2, arriving while the task is held, leaves it done at an epoch that counts as
  judged; a replan may gate a task already promoted, which the gate then does not claim and the event does not wake; an
  item may be added below a finished item, which no cascade stops until the main task's own outcome (`FinishedTaskQuiet`);
  a gate rejection after a retry leaves the task failed at an epoch that counts as judged; work ended as *done* revokes no
  attempt (admission alone stops its calls); the planner's abandonment of an item states no reason and is always refused.
* Restart: a crash between a resumed question's result and its settlement leaves its call uncertain until an operator
  resolves it.
* Brain: `docs/EMIOS_2.0.md:114` says that each raw input is turned into decisions "exactly once". The register is written
  first and the matter recorded after it, outside the `try` around the matter (`brain_step.py:561-577`): when the record
  fails, or the process dies before it, the run is only logged, the events are still undecided, and the next run applies
  them again, in the same process life too. `RunBreaks` in `recording` is that step. `DecidedOnce` is what holds: after
  the record nothing is decided again.
* Outcomes: receipts are stamped before the lock is taken, so those of two transactions may be read out of order; two
  deliverers may both ask the belief agent and apply different decisions; a work object that goes from *done* to
  *abandoned* has its second outcome dropped as already applied; a reference that names no concern blocks the later
  receipts of its work object for good (of its own only: `EveryOutcomeArrives`).
* Scheduler: a poke is dropped in favour of a sooner run because that run "does full ingestion"
  (`dayflow_scheduler.py:150-152`); a tick that is blocked by the master room's timer (`dayflow_tick.py:47-58`), or fails
  first, ingests nothing, and only the heartbeat is armed after it. `SignalIsPrompt` promises nothing of such a tick.
* Scheduler: `_schedule_tick` checks for a sooner run and adds its own in two steps, so it may push a sooner run that
  appeared between them; a poke that passed its `_running` check while the tick job fired can leave a job that comes due
  while the tick is still in its `finally`, where the limit of one instance drops it, and nothing is scheduled until the
  next signal. `lost` records both, and `HeartbeatGoesOn` and `SignalIsPrompt` say what holds without them.
* Tickets: a crash between creation and proposal leaves a pending ticket that nobody can answer and re-arming waits for;
  re-arming reads its list once, so an answer that came in time may be recorded as "window passed"; an answer takes its
  time before the lock and may be accepted after the wait ended unreached; one exception in the boot thread leaves the
  rest of the list un-armed; closing a question is recorded as an answer that did not come; giving up the task leaves the
  question on screen.

## 7. What the models leave out

* Work graph: objective and criteria edits, `edit_node`, the `blocked` status of the task runtime's work objects, evidence
  and artifact rows, wake gates on worker items, the suppression of repeated stranded reviews (the model reviews more
  often than the code), graph tools granted to no manager. A gate rejection is modelled from `actionable`, the only status
  the gate is offered. Reading the store and the text shown to agents change nothing and are not modelled; what agents
  answer is nondeterministic.
* Execution: nested spans and several calls of one attempt (one call stands for them), cancellation of an attempt outside
  a call. `WorkExecution` resumes only bound questions; `AskTicket` has the unbound ones.
* Outcomes and brain: ingestion of chat, mail, calendar and presence, grouping into several matters (all that is passed on
  is one matter), edits of the register beyond the attachment of work, matching and decay of beliefs. A belief that a
  receipt names and the catalog no longer has is skipped with a log line and the receipt acknowledged; the beliefs of the
  model stay in the catalog.
* Scheduler: the cap of 200 armed wakes, misfired jobs, several calendars of time (a unit is the debounce), changes of a
  node's time from outside the passes (the work page, a session), which the next arming sees.
* Tickets: snoozing, plain (non-contextual) responses, action tickets with their handlers, plan sessions, a follow-up
  after an answer (it changes no state). An attempt asks at most once. The hub delivers an event when the answer commits,
  or never. The sweep may come sooner than its limit.
