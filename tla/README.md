# vteam: specifications of the server's coordination core

vteam runs teams of coding agents. A *server* (NestJS, MySQL through Prisma) keeps
teams, tasks, plans and messages; *workers* on other machines drive the agents'
sessions. A *main agent* splits work and dispatches it to *sub agents* through MCP
tools; sub agents answer through the same tools. What a chat program would not need
and vteam does is patience and memory: receipts for every dispatch, triggers that
fire later, a drain that wakes the main agent when everything it sent out has come
back, watchdogs over tasks and over silent sessions. That part is concurrent, is spread
over tickers, callbacks, database rows and two machines, and is what these modules specify.

All paths below are relative to `src/server/src` unless they begin with `src/`.

## Inventory

| Component | State | Operations | Interacts with | What is hard | Correct when |
|---|---|---|---|---|---|
| Generic trigger service `timers/trigger.service.ts` | table `triggers`; a ticker; the batch and clock of every `fireDue()` in flight | `schedule`, `cancel`, `fireDue`/`fireOne` | handlers and guards registered by kind; consumers that re-arm keys | ticks overlap, handlers last, rows are cancelled or deleted while they run, restarts | a row is run by one tick at a time, never after it is over, within its limits; a due row is served |
| Receipt ledger `chat/message-receipts.service.ts`, `chat/receipt-nudge.handler.ts` | table `message_receipts`; flag of the sweep | create, `ack`, `settleByReference`, `settleSupersededDispatch`, question settlement, `expireDue`, nudge | trigger service (nudge), drain (settled hook), dispatcher | settlements race with each other, with the nudge and with the sweep | nudged at most once, nudged before it is expired, never pending for ever |
| Reply-join drain `platform-mcp/platform-mcp.service.ts` | `drainTimers`, `drainClaims`, `drainRecheckTimers`, all in memory | `checkAndDrainFanOut`, `executeDrainWake`, `armDrainRecheck`, `wakeMainAgent` | receipts (hook, count), sessions (veto), dispatcher (wake) | debounce, claim and recheck timers of one team interleave; restarts | a converged fan-out is served, and no signal wakes the main agent twice |
| Patrol, hooks, memory maintenance `tasks/task-progression.scheduler.ts`, `triggers/hook.service.ts`, `triggers/trigger-reconciler.direction-a.ts`, `memories/memory-maintenance.service.ts` | rows of the trigger service under a key of their own | `persistPatrolTrigger`, `ensureGlobalPoll`, `repairHookSide`, `ensureGlobalTrigger` | trigger service | delete and schedule are two statements, under running ticks | a key has one row; re-arming does not disturb a claim |
| Review rounds `issues/review-round-ledger.ts`, `issues/review-round.service.ts`, `issues/review-round-gate.service.ts`, `issues/review-verdict.listener.ts`, `chat/review-round-timeout.handler.ts`, `openReviewRound` | ledger in the issue's description; a time-out trigger per round | `recordVerdict`, `checkTimeout`, dispatch of kind review | plans, trigger service | what is read before an await is used after it: by verdicts, dispatches, the time-out, revisions | no verdict is lost, a complete round has them all, a round ends |
| Plan life cycle `tasks/plan-lifecycle.service.ts` | status and frozen version of a plan | `confirmPlan` (finalize, confirm, reject, revise), `completePlan`, `transition` | review rounds, both ways | guards on a status that was read, updates by task id | a final plan has a frozen version |
| Task life cycle `tasks/tasks.service.ts`, `common/constants/task.constants.ts` | tasks with status and version, the slots of a team | transitions, `reserveStartSlotInTx`, preflights, `systemBlock`, `remove` | patrol, plans and issues (gates) | what is read before the transaction; compare-and-set inside it | starts stay within the limit; an accept judges what was submitted; the table is followed |
| Patrol `tasks/task-progression.scheduler.ts` | a patrol row per running task, its streak of quiet wakes | `register`, `unregister`, `handleProgressionFire`, stall, `onModuleInit` | tasks, trigger service | cancels and blocks nobody waits for, handlers that save over them, restarts | a running task is patrolled; it is given up after enough quiet wakes, and not before |
| Turns `chat/worker-dispatcher.ts`, `workers/session-lifecycle.service.ts`, `workers/worker-event.ingress.ts`, `src/worker/src/client/event-client.ts` | session status in the database; registrations, marks, watchdogs and wakes in memory; a durable deadline | dispatch, reports, turn end, wake, give up | workers, receipts, trigger service | reports come late, in two orders or never; the memory is keyed by session | a message the worker took is answered or its failure is told |
| Questions, message channels, realtime, notifications, memories, execution policies | tables of their own | CRUD, sends | clients | retries of sends | see PROJECT.json |
| A worker's run `src/worker/src/exec/exec-server.ts`, `src/worker/src/driver/prompt-await.ts`, `v2-event-map.ts`, `serve-event-stream.ts`, `v2-driver.ts` | a run per request, its terminal gate and event scope, its subscription | `runExecution`, `sendAndAwait`, poll, abort | engine (external), server | event bus and poll tell of one end; sessions are shared, moved and lost | completed only by its own execution; a failure that was told is reported; every run is reported |
| Worker role pool, updater, reloader | engine processes, files | start, reload, update | engine | drains while prompts run | no reload under a running prompt |
| Web UI, Python SDK, chart, docs | - | - | REST | - | - |

How the core interacts: a dispatch (`notify_agent`) writes a receipt and schedules a
`receipt_nudge` trigger. An answer, a quotation, a superseding dispatch, the end of
the sub's turn, the nudge handler or the sweep settles the receipt and calls the
*settled hook*; the hook (and every answer) asks the drain for a check; the check,
after a debounce, counts what is pending and wakes the main agent. A dispatch of kind
*review* also opens a round in the ledger and schedules its time-out; the reviewers'
messages are read for verdicts, and the last verdict of a round moves the plan. The dispatch
itself is a *turn* of the sub's session: the dispatcher hands the message to the worker, whose
run ends in two reports, and a silence watchdog looks after the session in between. A task in
execution has a patrol, a trigger row again, which wakes the main agent when nothing moves and
blocks the task when that does not help.

## Modules

| Module | Models | Role |
|---|---|---|
| `TriggerLedger` | what a trigger row goes through, without table, tick or clock | abstract specification |
| `Triggers` | the trigger service, statement by statement, and its consumers' ways to re-arm a key | implements `TriggerLedger` |
| `Triggers_proofs` | | theorems about `Triggers` |
| `FanOutDrain` | the reply-join drain of one team | component |
| `FanOutDrain_proofs` | | theorems about `FanOutDrain` |
| `Receipts` | the receipt ledger, the nudge handler and the sweep | component |
| `Receipts_proofs` | | theorems about `Receipts` |
| `ReviewRounds` | review rounds, their time-out and the life cycle of the plan | component |
| `ReviewRounds_proofs` | | theorems about `ReviewRounds` |
| `TaskLifecycle` | tasks, their transitions and the start slots of a team | abstract specification for `TaskPatrol`, and a component |
| `TaskLifecycle_proofs` | | theorems about `TaskLifecycle` |
| `TaskPatrol` | the life cycle composed with its watchdog and the watchdog's trigger rows | implements `TaskLifecycle` |
| `TaskPatrol_proofs` | | theorems about `TaskPatrol`, the refinement first |
| `PromptRun` | a run of a prompt on a worker, between engine, event bus and poll | component |
| `PromptRun_proofs` | | theorems about `PromptRun` |
| `Turns` | the dispatcher's turns of one session, the worker's reports, the silence watchdog | component |
| `Turns_proofs` | | theorems about `Turns` |
| `MC...` | | instances for TLC |

The grain is the same everywhere: what Node runs between two `await`s, or one database
statement, is one action; what a request or a tick remembers between two of them is a
variable of its own, lost in a crash. Statements of one request may therefore
interleave with those of any other, as they do in the server.

### Triggers

A row has `status`, `dedup`, `due` and `fires` (`fire_count`), with `"unused"` and
`"gone"` for ids that are not in the table. A tick is a `fireDue()` call: `select`
(the `SELECT ... LIMIT` over due rows, with its snapshot of `fire_count`), then for every
row of its `queue` the limits (`CloseExhausted`), the conditional update that claims
(`Claim`, `ClaimLost`), the guard (`GuardPasses`, `GuardSkips`), the handler and its
outcome (`HandlerDone`, `HandlerExpires`, `HandlerReschedules`, `RunFails`). An update of a
row that was deleted throws in the code and does nothing to the table here. `StatementFails` is any
other error of a statement: `fireDue` logs it and goes on with the next row, so a claim whose answer is
lost, or an outcome that cannot be written (also the outcome `failed`), leaves the row `firing` for
good, as a restart does. `dropped` remembers those rows; it is history. `Find` and
`Create` are the two statements of `schedule()`; the unique index on the dedup key is in
`Create`. `Rearm`, `DeleteOwner`, `Repair` and `PurgeOwner` are the consumers' helpers, with an error
after each of their statements (`CallFails`; after a failed delete the patrol goes on to
`schedule()`, memory maintenance does not). That memory maintenance changes the interval of a pending
row in place, and cancels its row when the interval is set to 0, is left out: `Opt` is constant.
The constant `Opt` says for every key what its rows are scheduled with, so one module
serves every kind; the instances use the three shapes that exist (patrol: interval,
limit and guard; hook: one-shot that reschedules; nudge: plain one-shot).

The refinement maps `pending` to *armed*, `firing` in a tick's hands to *running*,
everything that will not run again to *over*. A row that is cancelled while it is run
stays *running* until its tick lets go of it.

### FanOutDrain

A receipt is `none`, `pending`, `overdue` (past its date, not yet swept: it no longer
counts) or `settled`; `unheard` holds the settlements whose hook has not been called.
`SettleAgain` is the second settlement of a receipt, which `ack()` and both ways to expire one can
make (see `AckWrites` and `Expire` of `Receipts`): it changes no count but calls the hook again, so
one receipt may ask for two checks and wake the main agent twice.
`timer` is the team's debounce timer with the member it will count for; `claim`,
`phase` and `axis` are the executions of `executeDrainWake`; `recheck` the veto timer.
Every member may be busy at any time. Both the sub that asked (axis of a question's
receipt) and the main agent can be the member counted for, as in the code.
`owed`, `lost`, `signals` and `wakes` are history.

### Receipts

Time is relative: the age of a receipt is the time since its date. A ticker fires when
it is due, and what it starts may take any time. The trigger service appears as the
state of the receipt's own trigger, with the claim that `Triggers` proves exclusive.
`ack()` is two actions because it reads and then writes by id; `settlePending` is one
because its update is conditional. The handler is one action per `await`. `setInterval` waits for nobody:
a tick of the nudge ticker is a `fireDue()` of its own beside those still at work, with all that is
due in its batch (the limit of 100 rows of a batch is left out). What is overdue is judged by the
time at which a sweep began (`SweepTick` puts it into `todo`), whether it is still pending by the later
select; an error in any of its statements ends the sweep. The handler's two checks for an earlier
nudge pass when their query fails (`HandlerChecks`). `prompt` is history: what was armed, or
answered, before its date.

### ReviewRounds

`ledger` is the ledger that `parseLedger` finds, with the message that each reviewer's
verdict came in; `archive` is `superseded`. `applyRoundUpdate` works under a row lock, so
each of its calls is one action, with `mergeLedger` and `resolveVerdict` as operators. The
callers are not atomic: a verdict (`recordVerdict`, `VerdictWritten`, `RoundClosed`,
`PlanFlipped`), a dispatch (`DispatchReads`, `openReviewRound`,
`scheduleReviewRoundTimeout`), the time-out (`TimerFires`, `checkTimeout`, `TurnsStale`)
and a request of a user (`loadWritablePlan`, `findLedgerHost`, `transition`, then
`bumpLedgerVersion` or `openNextRound`) remember what they have read. Versions are numbers
that stand for `v0.n`, ordered as the code orders the strings. The trigger of a round is the
row that `schedule()` keeps under its key: there is one, for ever, even when it is over.
`counted`, `kept` and `overtaken` are history.

### TaskLifecycle

A request holds what `transition()` has read (task, action, version) from its first query to
its transaction; in between runs the preflight, which passes or refuses. The transaction is
one action: a start locks the team row before it counts, and the update compares status and
version. `systemBlock` is a transition of a caller of its own, which nobody waits for.
`remove()` judges the status it read and deletes later. `submitted` and `readmitted` are
history.

### TaskPatrol

The variables of `TaskLifecycle` are used through `INSTANCE`, and `ImplementsLifecycle` says
that the watchdog adds nothing to them. A patrol row has a status, a streak of quiet wakes
and a count of fires; select, claim and save are a step each, as `Triggers` proves that a row is run
once at a time. `reg` is where a `register()` is, `cancels` counts the cancels on their way,
`fire` is a tick and its handler, with the streak and the count of fires of its SELECT, which it
counts on from, and whether the row it claimed is still there:
a re-registration deletes the row and makes another under the same key. `HandlerFails` and
`TickFails` are the errors of the handler and of the tick around it; `writeQuietStreak` swallows its
own, so each write of the streak may come to nothing. `boot` is
`onModuleInit`: stale rows are cancelled, then running tasks register one after the other.
Requests wait for it; rows that fall due do not. `quiet`, `missed`, `overtaken` and `faulty` are
history. `quiet` counts the quiet wakes of the row that is there since its handler last saw progress;
a task is in `missed` when that progress is unknown to the row or to a tick: its write failed, or
another tick had read the row before. Such a task is given up too early, in the code as in the
model, and this is the exception in `GivenUpAfterQuietWakes`. A handler whose row was replaced may still be at work; its wakes count for
nothing (`Counts`), nor does the progress it sees, since its write misses the new row. An earlier
form of `GivenUpAfterQuietWakes` did count that progress, and the attempt to prove it gave a
counterexample with two handlers of one task, which the one handler of the run cannot show.

### PromptRun

A run is where `runExecution` stands between two awaits, with what its poll could read since
its baseline. The engine executes the prompts of a session one after the other; a move is an
execution of its own (this is what the event scope exists for), and a prompt sent into a running
execution is consumed by it. A request asks whether its session has been moved, and marks it when its
move has returned (`ApplyDirectory`, `MoveReturns`), so two first prompts may both move it; the engine
executes the second move when it can, and its success may come after the own prompt of either was
queued: those runs are `mixed`. A prompt may arrive and its response be lost (`PromptUnanswered`):
the run is reported by the catch while its prompt is executed. A frame is handled by every subscription that is up as it is
emitted. `gate` and `scope` are `RunTerminalGate` and `V2RunEventScope`, with their methods as
operators. `answered`, `heard`, `deaf` and `mixed` are history.

### Turns

`registered`, `completed`, `failed`, `watch`, `attempts` are the dispatcher's maps for the
session (`activeExecutions`, `completedSessions`, `failedSessions`, `pendingWatchdogs`,
`silentWakeAttempts`); `rows` are the durable deadlines, of the watchdog that is there and of
one that has gone. A message or a wake goes through `dispatch` (guard, session check, call,
202, watchdog), its reports through `worker`, its storing through `handler`. `reaping` are the
calls of `reapSilenceDeadline` that wait for their query. `heard` and `excused` are history.
A query, a write or a broadcast may fail wherever one is made: the handlers of a turn's end are
waited for by nobody, so an error in them is a line in the log, after they have cleared the watchdog
(`HandlerFails`); a status that cannot be saved stays what it was (`SavesStatus`); a session that
cannot be looked up counts as running when a message is dispatched (`CheckSession`) and its durable
deadline is spent for nothing (`RowIsDropped`); a worker that cannot be looked up is woken
(`Wake`); a 202 or the broadcast after it may be lost (`SendUnanswered`, `WatchFails`). `excused`
are the messages that nothing looks after any more because of one of these.
Three things about time are assumed: a terminal report comes after the 202 of its own
call was processed, ten minutes of silence are longer than a handler takes, and a registration
lives longer than a dispatch takes. Injection is decided by the server but never taken by the
worker (see `PromptRun!Accept`), so every turn there ends in reports of its own.

## Runs

| Run | Instance | Shows |
|---|---|---|
| `triggers` | 2 ids, 2 ticks, 1 caller, patrol and nudge keys, 1 restart, 1 failed statement, clock to 1 | `OneRunPerRow`, `ClaimHeld`, `FiringIsHeld`, `BoundedOvershoot`, `ImplementsLedger` |
| `triggers_live` | the hook key, 1 restart, 1 failed statement, fairness | `DueIsServed`, `OneShotSettles` |
| `drain` | 2 dispatches, 1 question, 2 executions, veto limit 2, one answer without receipt or second settlement, one error, one restart | `OneExecutor`, `WakesArePaidFor`, `ConvergenceServed` |
| `receipts` | one question, 2 ticks, one error, one restart of up to 4 periods | `NudgedOnce`, `AnsweredInTimeIsNotExpired`, `PendingEnds` |
| `receipts_pair` | two dispatches to one sub, answers in flight | `NudgeGoesFirst` |
| `rounds` | 1 reviewer with a verdict, 2 rounds, version v0.8, 1 dispatch and 1 user at a time, fairness | `NoVerdictLost`, `CompleteIsConverged`, `FrozenWhenFinal`, `RoundAdvances`, `RoundEnds` |
| `rounds_timeout` | 1 round, 1 of 2 verdicts, no errors, no restarts, fairness | violated: past its date a round turns stale |
| `tasks` | 2 tasks, 2 users, 1 watchdog, a limit of 1, 4 transitions of a task | `AdmittedWithinLimit`, `AcceptJudgesThisSubmission`, `FollowsTheTable` |
| `patrol` | 1 task, 1 user, 1 handler, stall after 2 quiet wakes, rows of 3 rounds, 1 error, veto or round with progress, 1 restart, fairness | `RunningIsWatched`, `GivenUpAfterQuietWakes`, `ImplementsLifecycle`, `StallIsCaught` |
| `exec` | 2 prompts for one session, 1 upset of any kind, fairness | `CompletedByItsOwnExecution`, `ToldFailureIsReported`, `RunIsReported` |
| `turns` | 1 message and 1 wake, any 2 upsets, fairness | `OpenIsLookedAfter`, `AnsweredOrFailed` |
| `turns_overlap` | 2 messages, nothing goes wrong | violated: the reply of every turn is taken |

**Bounds.** Two ticks suffice for every overlap of two statements, and a batch of two
rows for what one row's handler does to the next. Two ids per table make a key change
hands once; the clock has two values because a date is due or is not, and an interval
that ends after `MaxTime` is still entered in the row. Jitter is 0 there (another date of
the same kind). `RetryBound` stops a handler that reschedules for ever. The drain's veto
limit is 2 in the place of 10: what matters is that it is reached, and that a counter left
over from an earlier veto is met again. In `Receipts` a unit is a period of the nudge
ticker (30 s): the sweep's period and the grace are 2, the receipt's time-out 1, and the
follow-up 5 in the place of 60, which is already later than grace and sweep together.
The cooldown is 1. `Downtime` 4 lets a restart outlast the grace. The fail-open checks of two receipts
at a time are in no run (`receipts_pair` has no errors); the proofs have them. Two `fireDue()` may be at work at
a time. In `ReviewRounds` a date
is reached or not (`Timeout` 1); the second round is there so that a late write can meet a
later round than it read; errors and restarts have no bound. With one reviewer a round converges with the first verdict;
the safety properties are proved for any number of reviewers and verdicts, and an instance with two
reviewers and a verdict each (1.4 million states) finds no error either. One dispatch is under way at a time, and so is one
request of a user. The rounds may come to rest, when all verdicts are in and nothing more
is asked for, so their runs do not check for deadlock; nor do `patrol`, `exec` and `turns`, where everything
may be done. Symmetry is used in runs without liveness properties, over ids, ticks and like
dispatches.

`tasks` has two users and a watchdog, so any two transitions of a task, and of two tasks of a
full team, overlap, with a block besides; four transitions are start, submit, reject and the
second submission, the earliest at which an accept may judge the wrong one. `patrol` has a
restart or a stall after every transition of one task; its rows end after three rounds and its
stall comes after two quiet wakes, so both limits are met, in either order. One tick works on the
row at a time: for two, one must wait for the patrol's interval of minutes between reading the row
and claiming it. So no run closes a row that was used up when it was read (`PassesOver` with
`UsedUp`), which takes two. The safety properties are proved for any number of ticks, and with two
ticks and rows of two rounds TLC finds no error in 11.5 million states, which takes more time than
the runs here have. `exec` has two prompts for one
session, together and one after the other, and one upset, which is enough for every witness to be
missing once. `turns` has one message, the wake for it and two upsets, so that a restart may meet a
failed query and a dead worker a failed handler; two messages at a time are
in `turns_overlap`, and `OpenIsLookedAfter` is proved for any number of messages, wakes and upsets.

**Fairness.** `Triggers`: every tick goes on (`setInterval` and awaited statements, each of
which returns or throws; the handlers await queries and dispatches, and nothing else) and
time passes; nobody owes a call of `schedule`, `cancel` or a restart. `OneShotSettles` makes
an exception for a row that a restart caught running, or whose outcome could not be written: nothing in
the code takes it up again. `FanOutDrain`: hooks, timers and started drains go on; turns, answers and
dispatches owe nothing, so a main agent may stay busy for ever. `ConvergenceServed`
therefore names what may come between: the drain gives up (veto limit, error, restart) or
the signal was lost. `Receipts`: time, tickers, the sweep and the claiming ticks go on;
handlers and requests owe nothing, which is why `PendingEnds` rests on the sweep alone.
`ReviewRounds`: time passes, a dispatch that has begun goes on (or fails), due triggers fire
and their handler goes on (or fails); reviewers and users owe nothing. `RoundEnds` speaks of
a round whose trigger was set for the date it has, and excepts a failed or interrupted
handler: nothing schedules the time-out again. `TaskPatrol`: the server goes on with what it has
begun, including its start, and the ticker serves a due row; no user has to ask, no query has to
fail. `PromptRun`: the engine executes what it was given and ends, a subscription connects again,
the event loop goes on with a run. The deadlines of a prompt are off unless an operator sets
them, so `RunIsReported` does not rest on them, and excepts runs that missed a frame. `Turns`:
dispatches and handlers go on, a worker that has sent the first of the two reports of an end sends
the second, timers and durable deadlines fire; a worker need not end a turn, nor come back, which
is why `AnsweredOrFailed` rests on the watchdog.

**What the violated runs say.** Each quotes a sentence of the code that the code does not
keep; PROJECT.json has the sentence and the interleaving under `findings`. The second dispatch of
a review round leaves it without a time-out (`rounds_timeout`). Two messages in quick succession
become two turns of one session that share the mark "its reply is stored", and the second reply is
dropped as a duplicate (`turns_overlap`).

**Observed while modelling**, in the modules but in no run of their own: the guard's skip of a trigger
overwrites a cancel that came after the claim; `maxFires` is judged on a stale snapshot
(`BoundedOvershoot` is what remains true); the settled hook of a question makes the drain look at
the wrong member, and a fan-out can wake the main agent twice (`WakesArePaidFor` is what remains
true); `remove()` deletes a task that was started after it looked; the worker's `activeExecutions` is
never filled, so a message sent into a running execution becomes an execution of its own; two first
prompts of a session may both move it, and the success of the second move may be taken for the end of
a run; a trigger row whose outcome cannot be written stays `firing` until its consumer builds it
anew; a reply whose handler fails after it cleared the watchdog is lost without a word to the user; an
abort for one run stops whatever the shared session executes. PROJECT.json has the lines under
`hazards`.

## Theorems

All proofs are in the `_proofs` modules, for every number of rows, keys, ticks, callers,
members, executions, receipts, reviewers, messages, requests, rounds, tasks, handlers, wakes and upsets,
under the named assumptions of the modules (types of the constants, that sets of tasks and of ticks
are finite, that `None` is no value of another kind, that users and watchdogs are different callers;
of the periods of `Receipts`, that the grace is no shorter than a nudge period, as its comment demands,
and that the nudge ticker is the faster one; TLC evaluates them).

*Trigger service.* `OneRunPerRow` is not inductive. The invariant adds that a working tick
has a row in its queue, and `ClaimHeld`: a row in a tick's hands is `firing`, or was
cancelled or deleted behind its back. A second claim needs `pending`; no statement outside
a tick turns another status into `pending` or brings a deleted id back, so the only tick
that makes a row claimable again is the one that gives it up in the same step.
`NoRunIsForgotten` is the converse of `ClaimHeld`: whoever is `firing` has a tick, since every
disjunct that lets go of a row writes another status, is recorded in `dropped`, or finds the row
cancelled or gone. The same
invariant carries `ImplementsTriggerLedger`: every step is mapped to a step of
`TriggerLedger` or to a stutter, with one lemma for the ticks that let go of a row and one
for everything outside the ticks. `OvershootIsBounded` counts. The limit is judged on the snapshot
of `fire_count` a tick took, so a row may run once for every tick whose snapshot is old. Each tick
with a snapshot of a row below its limit holds a permit (`Permits`); the runs of the row and
the permits out together stay within the limit plus the other ticks (`Bounded`), which is
inductive where the bound on the runs alone is not: a run spends the permit of its tick
(`RunsPermitted`, `Distinct`), and no tick takes a new one when the limit is reached.

*Drain.* `DrainExclusion` needs that an active execution holds the claim and that the claim
is free when none is active. `EveryWakeIsPaidFor` is an account: wakes, the debounce timer,
the execution before its wake and the armed recheck together never exceed the settlements
and answers that asked for a check. Every action is shown to move a unit from one place to
another, to drop it, or to pay for it; without exclusion two executions could spend
the same unit, so the account is proved on top of it.

*Receipts.* `NudgedOnce` compares what was sent with a constant; the invariant (`NudgeBook`) compares
it with the recorded count: the two agree as long as the trigger may still fire, they differ by one
between the dispatch and its record, and a handler cut off there leaves a trigger that is over for
good. It also needs that what the handler has read is still the count, hence one handler per row
(`OneHandler`). `AnsweredInTimeIsNotExpired` rests on two books. `DueBook`: whoever works on a
receipt or may expire it found it due, and being due lasts, so an answer in time comes before all of
them. `AnswerBook`: each way to an expiry passes a look for answers, behind which the question is no
longer pending. `NudgeHasItsTurn` rests on `TurnBook`: a nudge scheduled in time that no tick has
selected is younger than the time since the last tick, so the next tick selects it less than a
period after its date, and within the grace; or it fell due while the server was down, and then
the sweep is idle and its next round comes later than the next tick. The second case is why the
comment's invariant (grace no shorter than a nudge period) is not enough: both tickers start anew after
a restart, and with equal periods TLC finds the sweep expiring a receipt whose nudge waits. The
defaults, 30 s and 60 s, are safe; an operator who shortens `RECEIPT_EXPIRY_SWEEP_INTERVAL_MS` to
the nudge's period is not. The exception in `NudgeGoesFirst` is real too: a nudge in the batch of a
tick that serves another handler may be expired before its turn comes.

*Review.* `NoVerdictLost` does not say where a verdict is, so it is not inductive:
`CountedKept` adds the round, received while it is the current one, archived when it is an
older one. Every write of the ledger but that of a verdict is shown to be a move
(`LedgerMoves`): within a round nothing received is touched, and a new round archives it all.
Moves carry `CountedKept` and `ClosingConverged` (who is about to close a round has seen
all its verdicts) through a step, whichever handler takes it, and `LedgerOnlyAdvances` too.
`CompleteIsConverged` rests on `ClosingConverged`. `FrozenWhenFinal` needs `FrozenKept`:
a request on its way to a final state freezes a version itself or has found a plan that
had one, and none is ever taken back; so requests that overlap do no harm.
`Hosted` keeps the ledger there for those that read it before.

*Tasks.* Every step writes a row of the table by one of three statements (`FourKinds`), which the
three proofs then go through. `AdmittedWithinLimit` is inductive, since a start counts all that
occupies a slot, rejected tasks included (`AdmittedGrows`). An accept judges the latest submission
because a submission is never younger than its row (`SubmittedBefore`): who matches the row's
version has read it after that. `PatrolImplementsLifecycle` maps every step of the watchdog to one
of `TaskLifecycle` or a stutter; all it needs to know is which task a handler is about
(`HandlersTyped`). With it, what is proved of `TaskLifecycle` holds beside the watchdog.

*Patrol.* `GivenUpForQuietWakes` needs two books: of the handlers of a task, one at most holds the
row that is there (`OneAlive`), and the streak of that row, in the table and in the handler's hand, is
covered by the quiet wakes since, unless progress was missed (`QuietBook`); that a tick's reading may be
older than its claim is what `missed` has to account for. `RunningTasksAreWatched` is the long one: `CareInv`
says of every running task who cares for it. Either its row is due, handled or used up, or about to be
made (`Registering`), and no cancel of an earlier transition is still to come; or a register() that has
not looked for a row yet (`Coming`), a restart (`Booting`) or a block that will get through
(`Blocking`) is on its way; or an exception was recorded. `CallBook` says that a request stays until its
register() is done and that a watchdog asks for nothing but a block. Each step of the server is shown
to pass the care on, one lemma for each kind of step, cancels included: a cancel still under way
when a task registers is the exception `overtaken`.

*Runs of a worker.* `CompletedIsItsOwn` asks what a run may conclude from what it saw, so the
invariant relates the evidence to the engine, in five books. `EngineBook`: an execution of the move of
a session consumes no prompt. `RunBook`: what is remembered of a run begins and ends with it, and its
prompt is not in the session before it is sent. `OwnBook`: a run that is not mixed has the
session to itself from its baseline on, so that a frame after its prompt is about its own prompt, and
the terminal event it took is the last; a move of another request that is still to come makes it
mixed. `AnsweredBook`: each sign of success, at the gate, among the
messages or in the place the run has come to, has an execution of the run's prompt behind it.
`HeardBook`: a run that missed no frame knows whether its prompt waits or has started, and its gate holds
the end it was told of. The last two carry the two theorems.

*Turns.* `OpenIsLookedAfter` is not inductive: a report, a settled handler or a deadline takes the
watchdog and the session's status away, and it must be known that nothing waits then. `Alone` says
that an unexcused message has the session to itself: no other message is there, no wake is under
way before its own dispatch is done, and the marks of earlier turns are gone once the worker has
taken it, so that its completion is not dropped. `EndIsHeard` says that between the two reports of
an end whose handler is through, nothing waits that is not excused. Each failure either leaves the
watchdog, a row or a report to come, or excuses what waits.

*Only model-checked.* All liveness properties: fairness and `ENABLED` are outside what tlapm can do
(`DueIsServed`, `OneShotSettles`, `ConvergenceServed`, `PendingEnds`, `RoundEnds`, `StallIsCaught`,
`RunIsReported`, `AnsweredOrFailed`). Every invariant and every action property of a passing run is
stated by a theorem. No module declares a `RECURSIVE` operator, so all of them can be proved about.

## Not modelled

In the modelled components: payloads, message texts and logs; diagnostic columns of
triggers; the test seam `fireDueAt`; receipts that are born settled (join audits and forced
audits) and `settled_reason`; early returns of `wakeMainAgent` for teams without a main agent
or a channel; broadcasts, which follow a settlement and change nothing. Database errors that are
caught, logged or swallowed are modelled in the trigger service and its consumers (`StatementFails`,
`CallFails`), the drain (`DrainFails`), the sweep and the nudge handler (`SweepFails`,
`HandlerThrows`), reviews (`DispatchFails`, `VerdictFails`, `TimeoutFails`), the patrol
(`HandlerFails`, `TickFails`, `RegisterFails`, `CancelFails`, `CallFails`), a worker's run and the
turns, with a bound on their number in every run but those of the reviews and the tasks; the proofs hold
for any number. In reviews: verdicts without a
version, which write nothing; the branch for a ledger without a hash, because a dispatch is
refused without one; the search for the host issue (there is one) and changes of the
expected reviewers; `confirmDegradedRelease`, which nothing calls; the plan states
`reviewing` and `rejected`, which nothing sets; notices and messages. In tasks: what the preflight
asks of plans and issues (a choice), titles, sessions, events, the focus pointer of the team; how the
patrol finds out that somebody is active. In turns: how a prompt is built, channels, artifacts,
permissions and questions, the idle scan (off by default), sessions without an instance. On the
worker: deltas, usage, questions, uploads, the HTTP interface, the older driver without an event
bus, the role pool, the updater and the reloader. A second server process is not: the deployment has one, and the drain's claim is
in its memory.

Questions to the user, message channels, notifications, the realtime fan-out, memories and
execution policies keep tables of their own, mostly by single statements; of these the retries of
message delivery and the answer that races a question's cancellation would be worth a module, and
are the first that is missing. The Web UI, the SDK, the chart and the documents hold no state of
the server.

## Plan

1. Done: `TriggerLedger`, `Triggers`, `FanOutDrain`, `Receipts`, `ReviewRounds`, `TaskLifecycle`,
   `TaskPatrol`, `PromptRun`, `Turns`; proofs of the types and of every safety property that a
   passing run checks, in all components, and of both refinements.
2. Proofs to add: that what the violated runs deny holds where it does (a round whose trigger was set
   for its first dispatch, a session with one message); refinements of the abstract specifications of
   3; types of the history variables of `Receipts` across a composition with `Turns`.
3. To model: a question answered while it is cancelled, the retries of message delivery; an abstract
   specification of a round (collects, then closes once) with the exceptions the present runs name;
   `Turns` composed with `Receipts` for the end of a duty that acks a fresh dispatch.
