# durabletask-rs: models, checks and proofs

The repository is an SDK for durable orchestrations: an *orchestrator* is an
async Rust function that calls timers, activities, sub-orchestrations and
signals, and that survives restarts because the worker re-runs it from its
history.  These modules model that mechanism from the code in `crates/sdk/src`
and `crates/client/src`.  Paths below are relative to the repository's root.

## The system

| component | state | operations | interacts with |
|---|---|---|---|
| executor, `executor.rs` | `OrchestrationExecutorContext`: `pending_actions`, `pending_tasks`, `pending_events`, `received_events`, `sequence_number`, the future | `process_events`, one arm of `process_event` per event type, `poll`, `get_actions` | polls the orchestrator; drains three channels after every event |
| orchestrator context, `types.rs` | its own `sequence_number`, the sending halves of the channels, the shared `received_events` | `create_timer`, `call_activity`, `call_sub_orchestrator`, `await_signal_event`, `continue_as_new` | sends actions, task senders and signal waiters to the executor |
| completable task, `task.rs` | `completed`, a oneshot receiver | `new`, `complete`, `poll` | completed by the context or by the executor |
| worker, `worker.rs` | none between work items; one spawned tokio task per item | `start`, `execute_orchestrator`, `execute_activity` | streams work items from the sidecar, answers them |
| activity executor, `executor.rs` | none | `execute` | registry, environment |
| registry, environment | maps filled before `start` | `add_*`, `get_*` | read by the executors |
| client, `client/src/lib.rs` | a channel | schedule, raise, terminate, suspend, resume, purge, query | messages to the sidecar |
| event/action constructors and summaries, `internal.rs` | none | pure functions | - |
| API builders, `api.rs` | none | builders | - |
| replay filter, `filter.rs` | a flag per tracing span | `on_new_span`, `on_record`, `event_enabled` | the executor records `replaying` |
| sidecar (external; protobufs in an absent submodule) | log and inbox of an instance, open tasks | hands out work items, applies answers | worker, client |

What is hard here:

* **Order.** A signal may be raised before, between or after the calls that wait
  for it, in any case of letters.  It passes through one of two maps of queues,
  or meets a waiter that is still in a channel.
* **Ids.** Calls and completions are numbered by two counters, one in the
  context and one in the executor, synchronised only when the channels are
  drained.
* **Replay.** Nothing is kept between two work items.  Every crash, lost answer
  or simply the next event leads to a re-run that must make the same calls with
  the same ids, although the log lists the acknowledgements in the order of a
  HashMap.
* **Wakers.** The executor polls the orchestrator only from some arms; a value
  that comes without a poll is a lost wake-up.
* **Dropped futures.** A race drops its losers while their senders stay
  registered.
* **Silence.** The worker answers an activity that succeeds and one it does not
  know; of one that fails it writes a line to its log.  An orchestrator that is not
  registered, one that returns in its first poll and one that calls
  `continue_as_new` are answered with nothing.
* **Missing values.** A result may come without a value, as that of an activity the
  worker does not know does.  Its task loses its sender and counts as pending, with a
  receiver that has already returned its error: what the next poll does is up to tokio.
* **Budget.** One work item is one poll of a tokio task, in which tokio lets it
  receive 128 times.

Correctness, by component: a sender that can complete a task is in exactly one
place (context, executor); no signal is lost, duplicated or reordered, and none
lies beside a call that waits for it (executor); an orchestrator with a value to
take has been polled (executor, task); the result of an orchestrator is reported
(executor); a replay rebuilds the state (worker, executor); an instance keeps
consuming the results of what it scheduled, and ends (worker, sidecar, client); if
it hangs there is a cause that can be named, and no failure passes for success
(activity worker); each line an orchestrator logs is displayed, and not again once
it was answered (replay filter); a summary says what the list holds, and a trace
context keeps the trace (`internal.rs`).

## The modules

* `Task`: `CompletableTask` as a record and its operations as operators.  A task
  has a receiving half (`rx`: waiting, failed, taken, dropped) and a sending half (`tx`:
  held, sent, dropped).  `task.rs:54` turns the news that the sender was dropped into
  `Pending` and keeps the receiver, which a join polls again at the next event.  Tokio 1.43
  then repeats the error, and from 1.44 on it panics ("called after complete").
  `Cargo.toml` asks for `1.43.0`, which admits both, and there is no lock file: the CONSTANT
  `ErrorRepeats` says which one is built.
* `Executor` (extends `Task`): one run of `OrchestrationExecutorFuture` over a
  history.  Variables have the code's names.  `pc` says where the sequential code
  is.  Each arm of `process_event` is an action; each call of the context is an
  action; the drain loops are `DrainTask` and `DrainWaiter`, one call at a time,
  and `NextEvent` goes to the next event.  Draining call by call rather than
  channel by channel gives the same maps, because the channels feed different
  maps and each is emptied before the next event.  The orchestrator is a program
  from the CONSTANT `Registry`: steps that join (`"all"`), race (`"any"`) or start
  (`"none"`) calls.  A polled step goes over its calls again from the first, as
  `join!` does.  A task that it comes to is ready, pending, forsaken (`TaskForsaken`: its
  sender was dropped) or polled again after that (`PolledAgain`).  `create_timer` is not
  async and takes its id where it is written, the other calls where they are first polled;
  both happen in one poll, and the model lists the calls of a step in the order of their
  ids.  A panic (`unwrap`, `expect`) ends the run in `"panicked"`.
  `"never"` is `continue_as_new`.  Payloads are opaque; whether one can be decoded
  is the CONSTANT `Decodable`.  `budget` is tokio's cooperative budget: each receive
  spends one of `Budget`, and without any left a full channel looks empty.
* `Orchestration`: what an instance promises, as an abstract specification: it
  runs in turns; a turn schedules the next numbers and consumes results of tasks
  scheduled in *earlier* turns (`Turn`); an end with a result has consumed everything
  (`Settled`, which an orchestrator that leaves a race behind does not keep).  `Ledger`
  is the part that every orchestrator keeps, `Spec` all of it.
* `Instance` (extends `Executor`): one instance over its life.  The worker's
  `start` and `execute_orchestrator` are `GetWorkItem` .. `complete_orchestrator_task`,
  `Crash` (worker dead or answer lost) and `Abandon` (panicked task).  The sidecar
  is external and modelled from its use: `log` and `inbox`, redelivery of what was
  not answered, answers acknowledged in any order of the HashMap's values
  (`Orders`).  `TaskEnds` and `ClientSends` are the tasks and the client.
  `Promise == INSTANCE Orchestration WITH ...` is the refinement mapping.
* `Activities` (extends `Instance`): activities run by the worker instead of being
  ended by the sidecar.  `ActivityRequest` spawns a task (`runs`) for a request the
  sidecar streams (`out`); `complete_activity_task` answers it; `ActivitySilent` is
  every way to end with nothing but a line in the log; `StreamEnds` lets `start`
  return while the spawned tasks live on, after which the same requests are streamed
  to a later worker, so that an activity runs twice at a time; `WorkerCrash` takes
  the tasks with it.  Whether the activity is registered is chosen in the initial
  state (`known`).
* `ReplayFilter` (extends `Instance`): the two records of `Future::poll` around the past
  and the new events (`phase`), the flag that the filter keeps with the span
  (`replaying`), and the lines of an orchestrator that get through (`display`,
  `shown`).  The orchestrator logs a line when it starts and when it goes on to its
  next step.
* `Internals`: the loop of `history_list_summary` and `action_list_summary`, entry by
  entry, with the names and numbers it writes; and spans that hop between processes
  as trace contexts.  The module stands alone, as the code does: nothing calls it.
* `Replay` (extends `Executor`): two variables beside an execution, the history without its
  acknowledgements (`unacked`) and the actions as if none had been acknowledged
  (`asked`).  `Bare == INSTANCE Executor WITH ...` is the execution that a replay would be
  if the log held no acknowledgements.
* `Programs`: the words programs are written with, and the orchestrators of
  `examples/src`.
* `MCExecutor`, `MCInstance`, `MCActivities`, `MCReplayFilter`, `MCReplay`, `MCInternals`:
  programs,
  events and answers for TLC.
* Theorems about `Executor`: `ExecutorProofs` (types, queues), `SenderProofs` (senders, and the
  values and actions of calls), `DeliveryProofs` (signals in order, lost wakeups, refused
  results), each over the one before.
* Theorems about `Instance`, `Activities` and `ReplayFilter`: `InstanceProofs` (the ledger,
  and what fits in the log), `RerunProofs` (replay, and what the filter shows of it),
  `JoinProofs` (orchestrators that await all they call), each over the one before.
* `ReplayProofs` about `Replay`, `InternalsProofs` about `Internals`.

Operators whose name starts with `Mutant_` are wrong variants of the definition
that follows them (a forgotten poll, a queue filled from the wrong end); no
specification uses them.  They document which mistake each property notices.

## The runs

| run | shows | bounds |
|---|---|---|
| `exec_any_history` | `TypeOK`, `SenderOwned`, `AnsweredByOwn`, `ActionKept`, and the causes of panics and lost wakeups (`PollPanicHasCause`, `RefusalHasCause`, `LostWakeupHasCause`) over arbitrary histories: unknown ids, duplicates, events out of any sense | 8 programs and an unknown name, 16 events besides the start, length 4 |
| `exec_answers` | `NoEmptyQueue`, `EventOrWaiter`, `SignalsInOrder`, `NoLostWakeup`; `AcknowledgedIsBare` (refinement), with an acknowledgement early, late or twice | a program of two joins, three waits and three tasks, length 7 |
| `inst_joins` | `Deterministic`, `NeverPanics`, `Ends`, and `KeepsPromise` (refinement) for orchestrators that await all they call; `NothingHidden`, `NothingRepeated` of what they log | 4 programs, 2 signals, 1 lost item |
| `inst_races` | `ReplayRestores`, `Deterministic`, `KeepsLedger` (refinement) with races, terminations, results without a value and panics | 4 programs, 2 messages, 1 lost item |
| `worker_activities` | `HangsForCause` (liveness), `NothingAbsorbed`, `PanicsForCause`, `Deterministic`, `KeepsPromise` when anything may fail | 7 programs and an unknown name, activity registered or not, 1 signal with or without input, 1 lost item or worker, 1 end of the stream |
| `internals` | `Abridged`, `TraceKept`, `UnreadableForCause` | lists up to 12 long, all 256 flags |
| `exec_race_loser`, `exec_result_at_once`, `exec_result_overwritten`, `exec_task_failed`, `exec_long_replay`, `inst_terminated` | disagreements, below | small |

Bounds.  Length 4 lets every event follow a start, a call and its result, and
includes every pair of events after a start; length 7 lets two signals be
buffered, two be waited for, and tasks be answered in between.  Two signals of
one name are what it takes to reorder them.  One lost item suffices because
nothing survives a work item: a second loss starts from the same log.  One end of the stream is enough for an
activity to run twice at a time.  Lists of twelve are two longer than what a summary
shows; the hops need no bound, since flags above nine grow until they are refused.
`MaxEvents`, `MaxClientEvents`, `MaxCrashes` and `MaxBreaks` are the only bounds in guards.
`Budget` is 128, as in tokio, which none of the histories reaches, but 2 in
`exec_any_history` and `exec_long_replay`, so that it runs out.  `ErrorRepeats` is `TRUE` (tokio
1.43) in `inst_races`, where a forsaken task stays pending and must do so again on replay,
and `FALSE` (1.44 and later) everywhere else, where polling it again panics.  The stream ends in
`Activities` only between two executions: an execution whose answer comes after the
stream's end is a `Crash`.
`CHECK_DEADLOCK FALSE`: an executor stops when it has returned or panicked, and
an instance when it has ended.

Fairness (`Instance!Fairness`): weak fairness of the worker (a tokio task that is
ready is run), of the sidecar's redelivery and of the tasks it was asked for, and
of the client's remaining messages (`Ends` is about orchestrators whose signals
do come).  Crashes are not fair.
`FilterFairness` is the same over the filter's steps.  `ActivitiesFairness` adds that the sidecar streams an
activity nobody has answered and that an activity that runs ends somehow; ends of the
stream are not fair.  That the sidecar hands a work item out again, and that somebody
starts a worker after the stream's end, are such assumptions: the runs show what then
happens, not that it does.  `exec_answers` leaves failures out, since
`TaskFailed` alone breaks `NoLostWakeup` (next section).

## Where the code disagrees with what it says

1. `exec_race_loser`: the late result of a race's loser meets a closed channel:
   `expect("failed to unblock timer")` (`executor.rs:306`) panics, on every replay.
2. `exec_result_at_once`: `Poll::Ready(_)` of the first poll (`executor.rs:170`)
   drops the result and the actions in the channels.
3. `exec_result_overwritten`: the completion action takes an id (`executor.rs:107`)
   that a call of the same poll already has; the drained action replaces it.
4. `exec_task_failed`: the arm at `executor.rs:239` does not poll.
5. `inst_terminated`: a termination that shares a batch with a result has the id
   of the next call and is replaced; `is_complete` is never set.
6. `exec_long_replay`: the 129th result of a work item is sent and not taken, because
   tokio's budget of one poll is spent (`task.rs:46`) and the executor never yields;
   every later work item ends there too.

Three more things the models state as they are.  `internal.rs:652` keeps a branch for
older peers, but reads a fourth part of what does not have four, so that it panics
whenever the id is good (`FromOlder`); and a trace context without a trace state is
ignored (`internal.rs:640`), so that the receiver starts a trace of its own (`NewRoot`).  And a
result without a value, such as the answer for an activity the worker does not know, leaves
the orchestrator with a task that never gets a value: it waits for ever, or panics, with a
tokio from 1.44 on, at the next result that polls the task again.  `parallel` with its
activities not registered does so at the second answer (`worker_activities`, whose
`PanicsForCause` and `HangsForCause` name the cause).

## What is proved

With TLAPS, for every registry of programs, every set of events, every length of
history, every bound and either tokio.  The assumptions are named in the modules:
`NoneAssumption` and `ErrorRepeatsAssumption` of `Task`; those of `Executor` (well-formed
registry and events, `None` no payload, no signal's and no orchestrator's name, `MaxEvents`
and `Budget` numbers); `InstanceAssumption` (an answer has the type of a result and a value
or none, and is of a kind of task that has this type of result; a client sends neither
results nor acknowledgements nor a second start); `InputsAssumption` of `Internals`.  TLC
evaluates each of them in every run.

| theorem | property | invariant |
|---|---|---|
| `ExecutorProofs!Typed`, `NothingToUnwrap`, `NoMissedSignal` | `TypeOK`, `NoEmptyQueue`, `EventOrWaiter` | `IInv` |
| `SenderProofs!EverySenderOwned` | `SenderOwned` | `SInv` |
| `SenderProofs!NoForeignAnswer`, `NoCallForgotten` | `AnsweredByOwn`, `ActionKept` | `AInv` |
| `DeliveryProofs!SignalsOnceAndInOrder` | `SignalsInOrder` | `MInv` |
| `DeliveryProofs!NoCauselessPanic` | `PollPanicHasCause` | `AInv`, `FInv` |
| `DeliveryProofs!LostForCause`, `RefusedForCause` | `LostWakeupHasCause`, `RefusalHasCause` | `WInv`, `RInv` |
| `DeliveryProofs!NoWakeupLost` (if `Gentle` and `MaxEvents < Budget`) | `NoLostWakeup` | `GInv` |
| `ReplayProofs!AcknowledgementsAside` | `AcknowledgedIsBare` | `BInv` |
| `InstanceProofs!LedgerKept`, `ActivitiesKeepLedger`, `FilteredInstance` | `KeepsLedger`, of an instance and in the composed systems | `InstInv`, `ActInv` |
| `InstanceProofs!ExecutorInInstance`, `InstanceCauses`, `ActivitiesCauses` | the properties of the executor, in every execution of an instance | `InstInv`, `CausesInv` |
| `RerunProofs!ReplayIsDeterministic`, `PastRestored`, `ActivitiesDeterministic`, `FilteredDeterministic` | `Deterministic`, `ReplayRestores` | `WholeInv` |
| `RerunProofs!EveryLineShown`, `NoLineTwice` | `NothingHidden`, `NothingRepeated` | `WholeInv`, `FilterInv` |
| `JoinProofs!OnlyValuesPanic` (if `OnlyJoins`, `SignalsDecode`) | `PanicsForCause` | `TakesInv` |
| `JoinProofs!JoinsNeverPanic`, `FilteredNeverPanics` (if `OnlyJoins`, `InputsDecode`) | `NeverPanics` | `TakesInv`, `ResultsGiven` |
| `JoinProofs!PromiseKept`, `ActivitiesKeepPromise`, `FilteredKeepsPromise` (if `OnlyJoins`) | `KeepsPromise` | `TakesInv` |
| `JoinProofs!NoFailureAbsorbed` (if `OnlyJoins`) | `NothingAbsorbed` | `TakesInv`, `EndedWhole` |
| `InternalsProofs!SummariesAbridged`, `ChainKept`, `OnlyByItsFlags` | `Abridged`, `TraceKept`, `UnreadableForCause` | `IntInv` |

Some theorems have a condition on the constants; without it the property is false, as the
findings show.  The runs that check the property meet it (the
`ASSUME`s of `MCReplayFilter`, `MCActivities` and `MCReplay`).  `OnlyJoins`: the orchestrators the instance may be
of join all that they call (or end in `continue_as_new`), findings 1 and 3.  `InputsDecode`: every
result and every signal has a value, and one that can be decoded.  `SignalsDecode`: a
signal's input can be decoded if there is one, while results may be anything.
`Gentle`: no history holds a failed activity or a result without a value, finding 4; with
`MaxEvents < Budget` a history is shorter than tokio's budget, finding 6.

Along which argument:

* `IInv` adds to `TypeOK`, `NoEmptyQueue` and `EventOrWaiter`: whoever is polled is
  registered (`Running`), and the channels are empty between two events (`Quiescent`).
  That is the point: `EventRaised` looks for a waiter only in `pending_events`, and
  buffers the event if there is none.  That is right only if no waiter is in the
  channel, which is why `process_events` drains after *every* event.  In the other
  direction, `await_signal_event` sends a waiter only when nothing is buffered.
* `SInv`: ids are given from 1 on, to each call of a task one, in the order of the calls
  (`NumberedInOrder`), so that a sender filed under an id is that of one call; only a
  signal is completed on the spot; nobody waits before the orchestrator has a future.
* `AInv`: an action that is in `pending_actions` under the id of a drained call is the
  call's own.  The executor's counter is the id of the last call drained, or beyond it,
  so that a completing or terminating action takes no number of a drained call.  (Of one
  still in the channel it may: findings 3 and 5.)
* `MInv`: among the calls of a name those that have a value come before those that
  wait (`AnsweredFirst`), and they and the buffer after them are, by number and by
  rank, the events raised for the name.  "The nth" is written as a cardinality of the
  earlier ones, because a filter over a sequence is recursive.
* `FInv`: only a result without a value takes the sender from a task that somebody waits
  for, so that without one nobody is forsaken (`NoneForsaken`), and nobody is polled again
  after its error.  The other dropped senders are those of calls the orchestrator has left
  behind, which it does not poll (`AtOwnCalls`).
* `WInv` (`FInv`, and `PassedHeld`) and `RInv`: a poll goes over the calls of its step (`AtOwnCalls`) and passes over
  nobody who waits without a sender, unless a race is decided.  What can spoil it is
  `Blameless`'s list, and nothing else.  A future is dropped only when a race
  or a start of calls that nobody awaits is behind it (`DroppedByRace`).  Of an arbitrary
  history `NoLostWakeup` itself is false (findings 4 and 6).
* `GInv`: where a history has nothing to blame, the budget is not either.  Each event sends
  one value at most, so that at most `Len(history)` were sent; the budget is spent on values
  that were sent, each received once; so with fewer events than `Budget` some of it is left.
  That each is received once needs `NoneForsaken`: a poll of a task whose sender was dropped
  spends as well.
* `BInv`: the log of a replay holds the acknowledgements of the calls, which the first
  execution did not meet, in an order a HashMap chose.  Each of them is a stutter of
  the execution over the history without: it takes an action off the map, which that
  execution keeps (`AskedFor`), and, since its arm polls nobody and the channels are empty
  (`IInv`), the orchestrator does nothing until the next event.  Every other step
  is the same step of both.
* `InstInv`: the work item is the log, a marker and the first messages of the inbox; what
  is in the inbox is a result of a task of the log; the scheduled numbers are 1 to n
  (`Promise!Consecutive`).  The calls of an execution are numbered by the executor, so
  that what an answer schedules follows: that is where `AInv` is used.  A `Crash`, an
  `Abandon` and each answer make the executor's state the initial one again.
* `Activities` and `ReplayFilter` have, for the instance below them, only moves that it
  already has (`AnyMove`): a step of the worker, a loss, or the arrival of a message that
  is permitted.  An answer of an activity is permitted because what the sidecar streams
  (`out`) was scheduled.
* `FitInv` (part of `WholeInv`): the log and the inbox have one acknowledgement and one result
  of an id at most, a result of the inbox is of a call of the log of its kind, and what an
  execution has asked for is acknowledged once and waits for its result until that comes.
* `RerunInv` (the other part): a replay does what was done before.  This is an induction over
  an execution, which the invariant carries along in place of a recursive definition.
  `StepOf` and `EventOf` write the executor as functions, of its state alone and of its state
  and the next event; `StepIsFunction` and `EventIsFunction` prove that the actions do what
  the functions say.  `Walk(S, L, end)` says that the set of states `S` holds the start and, with
  every state but `end`, the one that the functions give after it over the events `L`.  The
  invariant: the last answered execution walked through some set over the log, to the state
  `saved` was taken of (`LastRun`), and the execution at hand is in that set, or among the
  acknowledgements that this answer got, or beyond the log (`Replays`).  A step from within
  the set stays in it, since the functions leave no choice; each acknowledgement takes away
  an action of that answer, in whatever order; at the end of the log none is left over
  (`ReplayRestores`), and every event on the way, being one that fitted when the walk was
  made, fits again (`Deterministic`).  Beyond the log `FitInv` takes over.  A lost
  answer drops the walk at hand and starts another; an accepted one makes it the last.
* `FilterInv`: while the flag is up the execution is within the log; when it goes down the
  orchestrator is where the last answer left it, which is `ReplayRestores`, and never
  again before that.
* `TakesInv` (`WholeInv`, the causes of panics, and `JoinInv`): where an orchestrator only joins,
  each call at hand is the one its step names (`CallsOfStep`), so that a result of a task is
  decoded as what it is; whatever was taken came and could be decoded (`TakenDecoded`); and
  only an orchestrator that is through its program leaves a result (`ReadyAtEnd`), having
  taken the value of all it called.  A result for one that has returned does not come: it
  would be of a call that was answered already, and `OneOfEach` excludes it.  From
  there: `OnlyValuesPanic`, since of the panics only those over a value are left;
  `JoinsNeverPanic`, since all values come from `Answers` (`ResultsGiven`), which has none
  without a value, so that nobody is polled again either; `Settled`,
  since an answer that ends the instance consumed what had been scheduled and schedules
  nothing; `EndedWhole`, since the end is kept.
* `IntInv`: how many entries the loop has written, and that it breaks after the tenth;
  for the hops, that the flags stay below ten or grow until they are refused.

Only model-checked: liveness (`Ends`, `HangsForCause`), which needs fairness and so
`ENABLED`, out of reach of these provers.  The findings are counterexamples, which TLC finds.
Every invariant and every action property or refinement of the passing runs is stated by a
theorem.

## Not modelled

* Input and output encoding, beyond what can and cannot be decoded; names and
  inputs of calls; timestamps and `is_replaying`, which nothing reads.
* Suspension: the executor ignores the events, and is modelled as doing so; what a
  suspended orchestrator should do is said nowhere.  Sub-orchestrations as instances
  of their own.
* What `ContinuedAsNew` leads to: the next generation of an instance is made by the
  sidecar, and the code shows nothing of it but the action.
* `select!` that picks among ready branches at random, and any orchestrator that is
  not a function of its history: the SDK cannot replay it.
* The connection of the worker's stream before its first item; `EntityRequest` and
  `HealthPing`, which are ignored.  The filter with other spans than the worker's.
* The attributes of spans, `change_span_id` and `cancel_span`, which change a copy.
* `api.rs` (builders that nothing else uses), the type map of `environment.rs` (filled
  before the worker starts), the empty crates, `errors.rs`.

## Plan

Done: the executor, the instance, the activities, the filter and `internal.rs` are modelled,
checked and proved about.  What would come next:

1. An instance and its sub-orchestration, each with a log, where the end of one is a
   message to the other.
2. The next generation of an instance that continues as new, once the code carries the
   input and the buffered signals over.
