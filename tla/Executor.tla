------------------------------ MODULE Executor ------------------------------
(***************************************************************************)
(* One run of the orchestration executor (crates/sdk/src/executor.rs) over *)
(* a history: OrchestrationExecutorFuture::poll feeds the events to        *)
(* process_event one by one; some of them poll the orchestrator, an async  *)
(* function of the user that calls timers, activities, sub-orchestrations  *)
(* and signals through its OrchestratorContext (crates/sdk/src/types.rs);  *)
(* after every event the channels the context wrote to are drained into    *)
(* the pending maps.  What is left in pending_actions is the answer.       *)
(*                                                                         *)
(* The code is sequential, so pc says where it is:                         *)
(*   "event"    between two events                                         *)
(*   "first"    polling the orchestrator for the first time                *)
(*   "resume"   polling it again because an event arrived                  *)
(*   "discard"  polling it for ExecutionCompleted, which ignores its result*)
(*   "drain"    emptying the channels after an event                       *)
(*   "done"     the actions are returned                                   *)
(*   "panicked" one of the unwrap/expect calls failed, panic says which    *)
(*                                                                         *)
(* An orchestrator is a program: a sequence of steps, each a set of calls  *)
(* that are awaited together ("all", a join), raced ("any", a select whose *)
(* losers are dropped) or not awaited ("none": only create_timer, which is *)
(* not async, does anything then).  "never" is continue_as_new, a future   *)
(* that does nothing and never completes.  A call gets a handle, its       *)
(* position in calls; tasks[h] is its CompletableTask, and wherever the    *)
(* code stores the sender of that task, the model stores h.                *)
(***************************************************************************)
EXTENDS Task, Naturals, Sequences, FiniteSets

CONSTANTS
    Registry,   \* registered orchestrators: a function from names to programs
    Lowercase,  \* the signal names in use, each with its to_lowercase()
    Decodable,  \* the payloads from_json_payload accepts as a result
    Events,     \* the events a history is made of
    MaxEvents,  \* bound: the longest history
    Budget      \* how often one poll of a tokio task may receive (128)

TaskKinds == {"activity", "timer", "sub"}
Results   == {"Completed", "ContinuedAsNew", "Failed"}
\* An action is reduced to what it asks for.
Actions   == TaskKinds \cup Results \cup {"Terminated"}
Keys      == {Lowercase[s] : s \in DOMAIN Lowercase}

\* str::to_lowercase.
Mutant_NameAsWritten(s) == s
to_lowercase(s) == Lowercase[s]

Op      == [kind : TaskKinds, name : {None}]
             \cup [kind : {"signal"}, name : DOMAIN Lowercase]
Step    == [mode : {"all", "any", "none", "never"}, ops : Seq(Op)]
Program == [body : Seq(Step), result : Results]
Callable(s) ==
    /\ s.mode = "none" => \A i \in DOMAIN s.ops : s.ops[i].kind = "timer"
    /\ s.mode = "never" => s.ops = <<>>

Created  == {"TaskScheduled", "TimerCreated", "SubOrchestrationInstanceCreated"}
Resolved == {"TaskCompleted", "TaskFailed", "TimerFired",
             "SubOrchestrationInstanceCompleted", "SubOrchestrationInstanceFailed"}
Ignored  == {"OrchestratorStarted", "OrchestratorCompleted", "EventSent", "GenericEvent",
             "HistoryState", "ContinueAsNew", "ExecutionSuspended", "ExecutionResumed"}
EventTypes == {"ExecutionStarted", "ExecutionCompleted", "ExecutionTerminated",
               "EventRaised"} \cup Created \cup Resolved \cup Ignored

\* id is event_id for the Created types and task_scheduled_id / timer_id for
\* the Resolved ones; value is the result, the input or the error message
\* (TimerFired: fire_at, whose value is never looked at).
IsEvent(e) ==
    /\ DOMAIN e = {"type", "id", "name", "value"}
    /\ e.type \in EventTypes
    /\ e.id \in Nat
    /\ e.value \in Option
    /\ e.type = "EventRaised" => e.name \in DOMAIN Lowercase

ASSUME KeysAssumption     == None \notin Keys
ASSUME RegistryAssumption == \A n \in DOMAIN Registry :
    /\ Registry[n] \in Program
    /\ \A s \in DOMAIN Registry[n].body : Callable(Registry[n].body[s])
ASSUME NamesAssumption    == None \notin DOMAIN Registry
ASSUME EventsAssumption   == \A e \in Events : IsEvent(e)
ASSUME BoundAssumption    == MaxEvents \in Nat
ASSUME BudgetAssumption   == Budget \in Nat

VARIABLES
    history,                \* the events processed so far
    pc, panic,
    fn,                     \* orchestrator_fn: "none", "pending" or "ready"
    name, step, op, base,   \* where the orchestrator is in its program
    calls, tasks,           \* what it called, and the tasks it got for it
    drained,                \* calls that have left the three channels
    budget,                 \* what is left of tokio's cooperative budget
    octx_sequence_number,   \* the counter of OrchestratorContext
    sequence_number,        \* and the one of OrchestrationExecutorContext
    pending_actions, pending_tasks, pending_events, received_events

future   == <<fn, name, step, op, base>>
called   == <<calls, tasks, octx_sequence_number>>
queues   == <<pending_events, received_events>>
ctx      == <<sequence_number, pending_actions, pending_tasks, pending_events,
              received_events>>
vars     == <<history, pc, panic, future, called, drained, budget, ctx>>

-----------------------------------------------------------------------------
(* The HashMaps of the code: functions with a finite domain.               *)
EmptyMap       == [k \in {} |-> None]
Put(f, k, v)   == [x \in DOMAIN f \cup {k} |-> IF x = k THEN v ELSE f[x]]
Remove(f, k)   == [x \in DOMAIN f \ {k} |-> f[x]]

\* A map of queues: push_back makes the queue when there is none, pop_front
\* removes the queue with its last element.
Mutant_PushFront(f, k, v) == Put(f, k, IF k \in DOMAIN f THEN <<v>> \o f[k] ELSE <<v>>)
PushBack(f, k, v) == Put(f, k, IF k \in DOMAIN f THEN Append(f[k], v) ELSE <<v>>)
Mutant_QueueKept(f, k) == Put(f, k, Tail(f[k]))
PopFront(f, k)    == IF Len(f[k]) > 1 THEN Put(f, k, Tail(f[k])) ELSE Remove(f, k)

Init ==
    /\ history = <<>>
    /\ pc = "event"
    /\ panic = "none"
    /\ fn = "none"
    /\ name = None
    /\ step = 1
    /\ op = 1
    /\ base = 0
    /\ calls = <<>>
    /\ tasks = <<>>
    /\ drained = 0
    /\ budget = Budget
    /\ octx_sequence_number = 0
    /\ sequence_number = 0
    /\ pending_actions = EmptyMap
    /\ pending_tasks = EmptyMap
    /\ pending_events = EmptyMap
    /\ received_events = EmptyMap

Goto(label) == pc' = label /\ UNCHANGED panic
Panic(why)  == pc' = "panicked" /\ panic' = why

-----------------------------------------------------------------------------
(* The orchestrator, polled (types.rs and task.rs).                        *)
Body     == Registry[name].body
Polling  == pc \in {"first", "resume", "discard"}
InStep   == Polling /\ step <= Len(Body) /\ op <= Len(Body[step].ops)
ThisOp   == Body[step].ops[op]
ThisCall == base + op
Uncalled == InStep /\ ThisCall > Len(calls)
AtTask   == InStep /\ ThisCall <= Len(calls)

\* create_timer, schedule_activity and schedule_sub_orchestrator: take the
\* next id, send the action and the sender of a new task to the executor.
\* create_timer, which is not async, does so where it is written and the other
\* two where they are first polled, which is in the same poll; the ops of a step
\* stand in the order of their ids.
Schedule(kind) ==
    /\ Uncalled
    /\ ThisOp.kind = kind
    /\ octx_sequence_number' = octx_sequence_number + 1
    /\ calls' = Append(calls, [kind |-> kind, id |-> octx_sequence_number + 1,
                               name |-> None])
    /\ tasks' = Append(tasks, NewTask)
    /\ UNCHANGED <<history, pc, panic, future, drained, budget, ctx>>

create_timer          == Schedule("timer")
call_activity         == Schedule("activity")
call_sub_orchestrator == Schedule("sub")

\* await_signal_event: complete the task with a buffered event, or send its
\* sender to the executor to wait for one.
await_signal_event ==
    /\ Uncalled
    /\ ThisOp.kind = "signal"
    /\ LET key  == to_lowercase(ThisOp.name)
           call == [kind |-> "signal", id |-> 0, name |-> key]
       IN \/ /\ key \in DOMAIN received_events
             /\ received_events' = PopFront(received_events, key)
             /\ LET value == Head(received_events[key])
                IN IF value = None
                   THEN Panic("no value") /\ UNCHANGED <<calls, tasks>>
                   ELSE /\ Goto(pc)
                        /\ calls' = Append(calls, call)
                        /\ tasks' = Append(tasks, CompletedTask(value))
          \/ /\ key \notin DOMAIN received_events
             /\ Goto(pc)
             /\ calls' = Append(calls, call)
             /\ tasks' = Append(tasks, NewTask)
             /\ UNCHANGED received_events
    /\ UNCHANGED <<history, future, octx_sequence_number, drained, budget, sequence_number,
                   pending_actions, pending_tasks, pending_events>>

\* tokio lets one poll of a task receive Budget times; after that its channels
\* say Pending, full or not.  A task completed on the spot uses no channel.
Allowed(h) == tasks[h].completed \/ budget > 0
Spend(h)   == budget' = IF Receives(tasks[h]) /\ budget > 0 THEN budget - 1 ELSE budget
Awaited    == AtTask /\ Body[step].mode # "none"

\* An awaited task that has its value: the value is decoded, unless it is a
\* timer's.  A race ends with its first value, a join goes on to the next.
TaskReady ==
    /\ Awaited
    /\ IsReady(tasks[ThisCall])
    /\ Allowed(ThisCall)
    /\ Spend(ThisCall)
    /\ tasks' = [tasks EXCEPT ![ThisCall] = Take(@)]
    /\ \/ /\ \/ ThisOp.kind = "timer"
             \/ tasks[ThisCall].value \in Decodable
          /\ op' = IF Body[step].mode = "any" THEN Len(Body[step].ops) + 1 ELSE op + 1
          /\ Goto(pc)
       \/ /\ ThisOp.kind # "timer"
          /\ tasks[ThisCall].value \notin Decodable
          /\ Panic("decode")
          /\ UNCHANGED op
    /\ UNCHANGED <<history, fn, name, step, base, calls, octx_sequence_number, drained, ctx>>

\* A task with nothing to give yet, or not in this poll any more, and one that
\* a join already has the value of.
TaskPending ==
    /\ Awaited
    /\ tasks[ThisCall].rx # "failed"
    /\ \/ tasks[ThisCall].rx # "waiting"
       \/ ~HasMessage(tasks[ThisCall]) /\ ~Forsaken(tasks[ThisCall])
       \/ ~Allowed(ThisCall)
    /\ op' = op + 1
    /\ UNCHANGED <<history, pc, panic, fn, name, step, base, called, drained, budget, ctx>>

\* A task whose sender was dropped: the news counts as pending.
TaskForsaken ==
    /\ Awaited
    /\ Forsaken(tasks[ThisCall])
    /\ Allowed(ThisCall)
    /\ Spend(ThisCall)
    /\ tasks' = [tasks EXCEPT ![ThisCall] = Fail(@)]
    /\ op' = op + 1
    /\ UNCHANGED <<history, pc, panic, fn, name, step, base, calls, octx_sequence_number,
                   drained, ctx>>

\* A task that nobody awaits.
TaskIgnored ==
    /\ AtTask
    /\ Body[step].mode = "none"
    /\ op' = op + 1
    /\ UNCHANGED <<history, pc, panic, fn, name, step, base, called, drained, budget, ctx>>

TaskPanics ==
    /\ Awaited
    /\ PollPanics(tasks[ThisCall])
    /\ Allowed(ThisCall)
    /\ Spend(ThisCall)
    /\ Panic("no value")
    /\ UNCHANGED <<history, future, called, drained, ctx>>

\* The task is polled once more: "called after complete", budget or not.
PolledAgain ==
    /\ Awaited
    /\ tasks[ThisCall].rx = "failed"
    /\ Panic("polled again")
    /\ UNCHANGED <<history, future, called, drained, budget, ctx>>

StepHandles == base + 1 .. base + Len(Body[step].ops)
IsTaken(h)  == h \in DOMAIN tasks /\ tasks[h].rx = "taken"
Mutant_JoinIsRace == Body[step].mode = "none" \/ \E h \in StepHandles : IsTaken(h)
StepDone ==
    CASE Body[step].mode = "all"  -> \A h \in StepHandles : IsTaken(h)
      [] Body[step].mode = "any"  -> \E h \in StepHandles : IsTaken(h)
      [] Body[step].mode = "none" -> TRUE
      [] Body[step].mode = "never" -> FALSE
AtStepEnd == Polling /\ step <= Len(Body) /\ op > Len(Body[step].ops)

\* The await returns: the futures of the step go out of scope.
FinishStep ==
    /\ AtStepEnd
    /\ StepDone
    /\ tasks' = [h \in DOMAIN tasks |-> IF h > base THEN DropFuture(tasks[h]) ELSE tasks[h]]
    /\ step' = step + 1
    /\ op' = 1
    /\ base' = Len(calls)
    /\ UNCHANGED <<history, pc, panic, fn, name, calls, octx_sequence_number, drained, budget, ctx>>

\* Poll::Pending goes up to the executor, which keeps the future.
Mutant_FutureNotKept ==
    /\ AtStepEnd
    /\ ~StepDone
    /\ op' = 1
    /\ Goto("drain")
    /\ UNCHANGED <<history, fn, name, step, base, called, drained, budget, ctx>>

Block ==
    /\ AtStepEnd
    /\ ~StepDone
    /\ op' = 1
    /\ fn' = "pending"
    /\ Goto("drain")
    /\ UNCHANGED <<history, name, step, base, called, drained, budget, ctx>>

AtReturn == Polling /\ step > Len(Body)

\* Poll::Ready in self.poll: the result becomes a complete-orchestration
\* action under the executor's own next number.
Mutant_LastNumber ==
    /\ AtReturn
    /\ pc = "resume"
    /\ fn' = "ready"
    /\ pending_actions' = Put(pending_actions, sequence_number, Registry[name].result)
    /\ Goto("drain")
    /\ UNCHANGED <<history, name, step, op, base, called, drained, budget, sequence_number,
                   pending_tasks, queues>>

Complete ==
    /\ AtReturn
    /\ pc = "resume"
    /\ fn' = "ready"
    /\ sequence_number' = sequence_number + 1
    /\ pending_actions' =
         Put(pending_actions, sequence_number + 1, Registry[name].result)
    /\ Goto("drain")
    /\ UNCHANGED <<history, name, step, op, base, called, drained, budget, pending_tasks, queues>>

\* Poll::Ready in the first poll: the future and the receivers are dropped,
\* with the senders that are still in the channels.
ReturnAtOnce ==
    /\ AtReturn
    /\ pc = "first"
    /\ tasks' = [h \in DOMAIN tasks |-> DropSender(tasks[h])]
    /\ drained' = Len(calls)
    /\ Goto("drain")
    /\ UNCHANGED <<history, future, calls, octx_sequence_number, budget, ctx>>

\* Poll::Ready while processing ExecutionCompleted: the output is ignored.
ReturnIgnored ==
    /\ AtReturn
    /\ pc = "discard"
    /\ fn' = "ready"
    /\ Goto("drain")
    /\ UNCHANGED <<history, name, step, op, base, called, drained, budget, ctx>>

Poll ==
    \/ create_timer \/ call_activity \/ call_sub_orchestrator \/ await_signal_event
    \/ TaskReady \/ TaskPending \/ TaskForsaken \/ TaskIgnored \/ TaskPanics \/ PolledAgain
    \/ FinishStep \/ Block
    \/ Complete \/ ReturnAtOnce \/ ReturnIgnored

-----------------------------------------------------------------------------
(* process_event: one operator per arm of its match.                       *)
Process(e) == pc = "event" /\ history' = Append(history, e)

\* The end of an arm that calls self.poll(ctx, cx).unwrap().
Mutant_NoPoll == Goto("drain")
ThenPoll ==
    \/ fn = "pending" /\ Goto("resume")
    \/ fn = "none"    /\ Panic("no future")
    \/ fn = "ready"   /\ Panic("finished")

ExecutionStarted(e) ==
    /\ e.type = "ExecutionStarted"
    /\ Process(e)
    /\ \/ /\ e.name \in DOMAIN Registry
          /\ name' = e.name
          /\ Goto("first")
       \/ /\ e.name \notin DOMAIN Registry
          /\ Goto("drain")
          /\ UNCHANGED name
    /\ UNCHANGED <<fn, step, op, base, called, drained, budget, ctx>>

ExecutionCompleted(e) ==
    /\ e.type = "ExecutionCompleted"
    /\ Process(e)
    /\ \/ fn = "pending" /\ Goto("discard")
       \/ fn = "none"    /\ Goto("drain")
       \/ fn = "ready"   /\ Panic("finished")
    /\ UNCHANGED <<future, called, drained, budget, ctx>>

\* set_complete leaves is_complete FALSE, so that nothing else changes.
ExecutionTerminated(e) ==
    /\ e.type = "ExecutionTerminated"
    /\ Process(e)
    /\ sequence_number' = sequence_number + 1
    /\ pending_actions' = Put(pending_actions, sequence_number + 1, "Terminated")
    /\ Goto("drain")
    /\ UNCHANGED <<future, called, drained, budget, pending_tasks, queues>>

Mutant_TaskAcknowledged(e) ==   \* pending_tasks in place of pending_actions
    /\ Process(e)
    /\ pending_tasks' = Remove(pending_tasks, e.id)
    /\ Goto("drain")
    /\ UNCHANGED <<future, called, drained, budget, sequence_number, pending_actions, queues>>

\* The arms that only take the action with the event's id off pending_actions.
Acknowledge(e) ==
    /\ Process(e)
    /\ pending_actions' = Remove(pending_actions, e.id)
    /\ Goto("drain")
    /\ UNCHANGED <<future, called, drained, budget, sequence_number, pending_tasks, queues>>

TaskScheduled(e) == e.type = "TaskScheduled" /\ Acknowledge(e)
TimerCreated(e)  == e.type = "TimerCreated" /\ Acknowledge(e)
SubOrchestrationInstanceCreated(e) ==
    e.type = "SubOrchestrationInstanceCreated" /\ Acknowledge(e)

\* The arms that take a sender off pending_tasks and send it the value of the
\* event; a sender with no value to send is dropped.  expect panics when the
\* future is gone.
Refused(e) ==
    /\ e.id \in DOMAIN pending_tasks
    /\ e.value # None
    /\ ~Accepts(tasks[pending_tasks[e.id]])

Unblock(e) ==
    /\ Process(e)
    /\ pending_tasks' = Remove(pending_tasks, e.id)
    /\ \/ /\ e.id \notin DOMAIN pending_tasks
          /\ UNCHANGED tasks
       \/ /\ e.id \in DOMAIN pending_tasks
          /\ e.value = None
          /\ tasks' = [tasks EXCEPT ![pending_tasks[e.id]] = DropSender(@)]
       \/ /\ e.id \in DOMAIN pending_tasks
          /\ e.value # None
          /\ tasks' = [tasks EXCEPT ![pending_tasks[e.id]] = Send(@, e.value)]
    /\ UNCHANGED <<future, calls, octx_sequence_number, drained, budget, sequence_number,
                   pending_actions, queues>>

UnblockAndPoll(e) == Unblock(e) /\ IF Refused(e) THEN Panic("unblock") ELSE ThenPoll

TaskCompleted(e) == e.type = "TaskCompleted" /\ UnblockAndPoll(e)
TimerFired(e)    == e.type = "TimerFired" /\ UnblockAndPoll(e)
SubOrchestrationInstanceCompleted(e) ==
    e.type = "SubOrchestrationInstanceCompleted" /\ UnblockAndPoll(e)
SubOrchestrationInstanceFailed(e) ==
    e.type = "SubOrchestrationInstanceFailed" /\ UnblockAndPoll(e)

\* This arm alone does not poll.
TaskFailed(e) ==
    /\ e.type = "TaskFailed"
    /\ Unblock(e)
    /\ IF Refused(e) THEN Panic("unblock") ELSE Goto("drain")

\* Hand the event to the first waiter of its name, or buffer it.
EventRaised(e) ==
    /\ e.type = "EventRaised"
    /\ Process(e)
    /\ LET key == to_lowercase(e.name)
       IN \/ /\ key \in DOMAIN pending_events
             /\ LET h == Head(pending_events[key])
                IN /\ pending_events' = PopFront(pending_events, key)
                   /\ tasks' = [tasks EXCEPT ![h] = Send(@, e.value)]
                   /\ IF Accepts(tasks[h]) THEN ThenPoll ELSE Panic("unblock")
             /\ UNCHANGED received_events
          \/ /\ key \notin DOMAIN pending_events
             /\ received_events' = PushBack(received_events, key, e.value)
             /\ Goto("drain")
             /\ UNCHANGED <<tasks, pending_events>>
    /\ UNCHANGED <<future, calls, octx_sequence_number, drained, budget, sequence_number,
                   pending_actions, pending_tasks>>

IgnoredEvent(e) ==
    /\ e.type \in Ignored
    /\ Process(e)
    /\ Goto("drain")
    /\ UNCHANGED <<future, called, drained, budget, ctx>>

process_event(e) ==
    \/ ExecutionStarted(e) \/ ExecutionCompleted(e) \/ ExecutionTerminated(e)
    \/ TaskScheduled(e) \/ TimerCreated(e) \/ SubOrchestrationInstanceCreated(e)
    \/ TaskCompleted(e) \/ TaskFailed(e) \/ TimerFired(e)
    \/ SubOrchestrationInstanceCompleted(e) \/ SubOrchestrationInstanceFailed(e)
    \/ EventRaised(e) \/ IgnoredEvent(e)

-----------------------------------------------------------------------------
(* process_events, after each event: the three channels, one call at a     *)
(* time.  A call put (id, action) and (id, sender) or (name, sender) in    *)
(* them; a signal that was completed on the spot put nothing.              *)
InChannel(h) == h \in DOMAIN calls /\ h > drained

DrainTask ==
    /\ pc = "drain"
    /\ drained < Len(calls)
    /\ LET h == drained + 1
       IN /\ calls[h].kind \in TaskKinds
          /\ pending_actions' = Put(pending_actions, calls[h].id, calls[h].kind)
          /\ sequence_number' = calls[h].id
          /\ pending_tasks' = Put(pending_tasks, calls[h].id, h)
    /\ drained' = drained + 1
    /\ UNCHANGED <<history, pc, panic, future, called, budget, queues>>

DrainWaiter ==
    /\ pc = "drain"
    /\ drained < Len(calls)
    /\ LET h == drained + 1
       IN /\ calls[h].kind = "signal"
          /\ pending_events' = IF tasks[h].completed THEN pending_events
                               ELSE PushBack(pending_events, calls[h].name, h)
    /\ drained' = drained + 1
    /\ UNCHANGED <<history, pc, panic, future, called, budget, sequence_number,
                   pending_actions, pending_tasks, received_events>>

Mutant_DrainsOnce ==   \* "if let" in place of "while let"
    /\ pc = "drain"
    /\ Goto("event")
    /\ UNCHANGED <<history, future, called, drained, budget, ctx>>

NextEvent ==
    /\ pc = "drain"
    /\ drained = Len(calls)
    /\ Goto("event")
    /\ UNCHANGED <<history, future, called, drained, budget, ctx>>

\* get_actions, and the end of Future::poll.
get_actions ==
    /\ pc = "event"
    /\ Goto("done")
    /\ UNCHANGED <<history, future, called, drained, budget, ctx>>

Execute == Poll \/ DrainTask \/ DrainWaiter \/ NextEvent

\* Bound, and the one thing asked of a history: an instance starts once.
Deliverable(e) ==
    /\ Len(history) < MaxEvents
    /\ e.type = "ExecutionStarted" =>
         \A i \in DOMAIN history : history[i].type # "ExecutionStarted"

Next ==
    \/ \E e \in Events : Deliverable(e) /\ process_event(e)
    \/ Execute
    \/ get_actions

Spec == Init /\ [][Next]_vars

-----------------------------------------------------------------------------
(* Properties.                                                             *)
IsMap(f, K, V) ==
    /\ DOMAIN f \subseteq K
    /\ f = [k \in DOMAIN f |-> f[k]]
    /\ \A k \in DOMAIN f : f[k] \in V

Call    == [kind : TaskKinds, id : Nat, name : {None}]
             \cup [kind : {"signal"}, id : {0}, name : Keys]
Handles == 1 .. Len(calls)

\* The types of the state: every map is over the ids or names it should be,
\* and every stored sender is that of a call that was made.
ControlOK ==
    /\ pc \in {"event", "first", "resume", "discard", "drain", "done", "panicked"}
    /\ panic \in {"none", "unblock", "no value", "decode", "polled again", "no future", "finished"}
    /\ fn \in {"none", "pending", "ready"}
    /\ name \in DOMAIN Registry \cup {None}

PositionOK ==
    /\ step \in Nat \ {0}
    /\ op \in Nat \ {0}
    /\ base \in Nat

HistoryOK ==
    /\ history \in Seq({history[i] : i \in DOMAIN history})
    /\ \A i \in DOMAIN history : IsEvent(history[i])

CallsOK ==
    /\ calls \in Seq(Call)
    /\ tasks \in Seq(Task)
    /\ Len(tasks) = Len(calls)
    /\ drained \in 0 .. Len(calls)
    /\ octx_sequence_number \in Nat
    /\ sequence_number \in Nat

MapsOK ==
    /\ IsMap(pending_actions, Nat, Actions)
    /\ IsMap(pending_tasks, Nat, Handles)
    /\ IsMap(pending_events, Keys, Seq(Handles))
    /\ IsMap(received_events, Keys, Seq(Option))

BudgetOK == budget \in 0 .. Budget

TypeOK == ControlOK /\ PositionOK /\ HistoryOK /\ CallsOK /\ MapsOK /\ BudgetOK

NonEmpty(f) == \A key \in DOMAIN f : f[key] # <<>>

\* A queue is removed with its last element, so that finding a name in a map
\* means finding an element: pop_front().unwrap() does not panic.
NoEmptyQueue == NonEmpty(pending_events) /\ NonEmpty(received_events)

\* A sender that is in a channel: a signal completed on the spot sent none.
InFlight(h) == InChannel(h) /\ ~tasks[h].completed

\* Nobody waits for a signal that is there: an event is buffered only while no
\* orchestrator call waits for its name, in pending_events or on its way there
\* through the channel.
EventOrWaiter ==
    \A key \in DOMAIN received_events :
        /\ key \notin DOMAIN pending_events
        /\ \A h \in DOMAIN calls : InFlight(h) => calls[h].name # key

\* What makes NoEmptyQueue and EventOrWaiter inductive: whoever is polled is
\* registered, and the channels are empty between two events.
Running   == Polling \/ fn # "none" => name \in DOMAIN Registry
Quiescent == pc \in {"event", "done"} => drained = Len(calls)

IInv == TypeOK /\ Running /\ Quiescent /\ NoEmptyQueue /\ EventOrWaiter

\* A task that can still be completed has its sender in exactly one place:
\* in the channel until it is drained, then in pending_tasks under the id of
\* its call or in the queue of its name, where the waiters stand in the order
\* of their calls.  A sender that has been used or dropped is in no map.
AwaitsResult(h) == \E id \in DOMAIN pending_tasks : pending_tasks[id] = h
AwaitsSignal(h) ==
    \E key \in DOMAIN pending_events :
        \E i \in DOMAIN pending_events[key] : pending_events[key][i] = h

HeldIsOwned ==
    \A h \in DOMAIN tasks :
        tasks[h].tx = "held" <=> InFlight(h) \/ AwaitsResult(h) \/ AwaitsSignal(h)

TasksOfCalls ==
    \A id \in DOMAIN pending_tasks :
        LET h == pending_tasks[id]
        IN calls[h].kind \in TaskKinds /\ calls[h].id = id /\ ~InChannel(h)

WaitersInOrder ==
    \A key \in DOMAIN pending_events : \A i \in DOMAIN pending_events[key] :
        LET h == pending_events[key][i]
        IN /\ calls[h].kind = "signal" /\ calls[h].name = key /\ ~InChannel(h)
           /\ \A j \in 1 .. i - 1 : pending_events[key][j] < h

SenderOwned == HeldIsOwned /\ TasksOfCalls /\ WaitersInOrder

\* The calls that take an id and ask for something.
TaskCalls == {h \in DOMAIN calls : calls[h].kind \in TaskKinds}
HasStarted   == \E i \in DOMAIN history : history[i].type = "ExecutionStarted"

\* What makes SenderOwned inductive.  Ids are given to the calls from 1 on, in
\* their order, and each to one.
NumberedInOrder ==
    /\ \A h \in TaskCalls : calls[h].id \in 1 .. octx_sequence_number
    /\ \A g, h \in TaskCalls : g < h => calls[g].id < calls[h].id
    /\ \A n \in 1 .. octx_sequence_number : \E h \in TaskCalls : calls[h].id = n

\* Only signals are completed on the spot.
NoneOnTheSpot == \A h \in TaskCalls : ~tasks[h].completed

\* Nothing is called before the instance starts; as long as there is no future
\* nobody waits, and nothing is left in the channels.
OnceStarted ==
    /\ ~HasStarted => calls = <<>> /\ fn = "none" /\ ~Polling
    /\ pc = "first" => fn = "none" /\ drained = 0
    /\ pc \in {"resume", "discard"} => fn = "pending"
    /\ fn = "none" => /\ DOMAIN pending_tasks = {} /\ DOMAIN pending_events = {}
                      /\ pc = "drain" => drained = Len(calls)

SInv == IInv /\ SenderOwned /\ NumberedInOrder /\ NoneOnTheSpot /\ OnceStarted

\* The value a call gets is that of an event about this very call: a result of
\* its id, a signal of its name.  Nothing else is ever in a buffer either.
RaisedFor(e, key) == e.type = "EventRaised" /\ to_lowercase(e.name) = key
About(e, call) ==
    IF call.kind = "signal" THEN RaisedFor(e, call.name)
                            ELSE e.type \in Resolved /\ e.id = call.id /\ e.value # None

AnsweredByOwn ==
    /\ \A h \in DOMAIN tasks : HasMessage(tasks[h]) =>
          \E i \in DOMAIN history :
              About(history[i], calls[h]) /\ history[i].value = tasks[h].value
    /\ \A key \in DOMAIN received_events : \A k \in DOMAIN received_events[key] :
          \E i \in DOMAIN history :
              RaisedFor(history[i], key) /\ history[i].value = received_events[key][k]

\* A panic in the orchestrator's poll has its cause in the history: a signal
\* without input, a value that cannot be decoded, or, when a task is polled that
\* had lost its sender, a result without a value.
Valued == \A i \in DOMAIN history : history[i].type \in Resolved => history[i].value # None
BadValueHasCause ==
    /\ panic = "no value" =>
          \E i \in DOMAIN history : history[i].type = "EventRaised" /\ history[i].value = None
    /\ panic = "decode" =>
          \E i \in DOMAIN history : /\ history[i].type \in Resolved \cup {"EventRaised"}
                                    /\ history[i].value \notin Decodable
PollPanicHasCause == BadValueHasCause /\ (panic = "polled again" => ~Valued)

\* No call is forgotten: once drained its action stays in pending_actions, to be
\* answered, until an event acknowledges it; completing or terminating the
\* orchestrator takes a number that no such action has.
Acknowledged(id) ==
    \E i \in DOMAIN history : history[i].type \in Created /\ history[i].id = id
Asked(id)  == id \in DOMAIN pending_actions /\ pending_actions[id] \in TaskKinds
ActionKept ==
    fn # "none" => \A h \in TaskCalls :
        ~InChannel(h) => \/ Acknowledged(calls[h].id)
                         \/ Asked(calls[h].id) /\ pending_actions[calls[h].id] = calls[h].kind

\* And what makes it inductive: the actions are those of calls, and the
\* executor's counter is not behind the calls it drained.
Made(id, kind) ==
    \E h \in TaskCalls : ~InChannel(h) /\ calls[h].id = id /\ calls[h].kind = kind
ActionOfCall ==
    /\ \A id \in DOMAIN pending_actions : pending_actions[id] \in TaskKinds =>
          fn # "none" /\ Made(id, pending_actions[id])
    /\ \A h \in TaskCalls : fn # "none" /\ ~InChannel(h) => calls[h].id <= sequence_number

AInv == SInv /\ ActionKept /\ ActionOfCall /\ AnsweredByOwn /\ BadValueHasCause

\* Every signal reaches the orchestrator once, and signals of one name reach
\* its calls in the order they were raised, whatever the interleaving of
\* calls and events and whatever the case the names are written in: the answered
\* calls of a name, and after them its buffer, are as many as the events raised
\* for it, and the nth of them has the value of the nth event.
Raised(key)   == {i \in DOMAIN history : RaisedFor(history[i], key)}
Answered(key) == {h \in DOMAIN calls : calls[h].name = key /\ HasMessage(tasks[h])}
Buffered(key) == IF key \in DOMAIN received_events THEN received_events[key] ELSE <<>>
Earlier(S, x) == Cardinality({y \in S : y < x})

AllMatched(key) ==
    Cardinality(Answered(key)) + Len(Buffered(key)) = Cardinality(Raised(key))
GivenInOrder(key) ==
    \A h \in Answered(key), i \in Raised(key) :
        Earlier(Answered(key), h) = Earlier(Raised(key), i) =>
            tasks[h].value = history[i].value
KeptInOrder(key) ==
    \A k \in DOMAIN Buffered(key), i \in Raised(key) :
        Cardinality(Answered(key)) + k = Earlier(Raised(key), i) + 1 =>
            Buffered(key)[k] = history[i].value

SignalsInOrder ==
    pc # "panicked" =>
        \A key \in Keys : AllMatched(key) /\ GivenInOrder(key) /\ KeptInOrder(key)

\* And what makes it inductive: who still waits for a signal called after those
\* that got one of its name.
AnsweredFirst ==
    \A key \in Keys : \A g \in Answered(key), h \in DOMAIN calls :
        calls[h].name = key /\ tasks[h].tx = "held" => g < h

OInv == SInv /\ AnsweredFirst /\ SignalsInOrder

\* An orchestrator that is parked between two events waits for something that
\* is still to come: no task it awaits has got its value, or lost its sender,
\* without the orchestrator having been polled for it.
NoLostWakeup ==
    pc \in {"event", "done"} /\ fn = "pending" =>
        \A h \in DOMAIN tasks : Unfinished(tasks[h]) => tasks[h].tx = "held"

\* And what it may miss it for: a failed task, whose arm does not poll, a result
\* without a value, whose sender is dropped, or tokio's budget.
AllGiven == Valued /\ \A i \in DOMAIN history : history[i].type # "TaskFailed"
Blameless == budget > 0 /\ AllGiven
LostWakeupHasCause == Blameless => NoLostWakeup

\* What makes it inductive.  An orchestrator is at the step's own calls, and has
\* what earlier steps awaited behind it; in a poll it passes over what it calls
\* and finds waiting, in the order of the step, unless a race is decided or
\* nothing is awaited.
Known   == name \in DOMAIN Registry
Decided == \/ Body[step].mode = "none"
           \/ Body[step].mode = "any" /\ \E h \in StepHandles : IsTaken(h)
AtOwnCalls ==
    /\ base <= Len(calls)
    /\ \A h \in DOMAIN tasks : h <= base => ~Unfinished(tasks[h])
    /\ ~HasStarted => step = 1 /\ op = 1 /\ base = 0
    /\ Known /\ step <= Len(Body) => Len(calls) <= base + Len(Body[step].ops)
    /\ Known /\ step > Len(Body) => Len(calls) = base /\ op = 1
    /\ ~Polling /\ pc # "panicked" => op = 1
    /\ Polling /\ step <= Len(Body) =>
          op <= Len(Body[step].ops) + 1 /\ (Decided \/ base + op <= Len(calls) + 1)

\* Nobody waits for a sender that was dropped, or was told so.
NoneForsaken ==
    /\ fn = "pending" \/ pc = "first" => \A h \in DOMAIN tasks : ~Forsaken(tasks[h])
    /\ \A h \in DOMAIN tasks : tasks[h].rx # "failed"

\* Who was passed over in this poll, or waits between two polls, has a sender.
PassedHeld ==
    /\ Polling /\ step <= Len(Body) /\ ~Decided =>
          \A h \in DOMAIN tasks :
              h < base + op /\ tasks[h].rx = "waiting" => tasks[h].tx = "held"
    /\ pc \in {"event", "drain", "done"} /\ fn = "pending" =>
          \A h \in DOMAIN tasks : tasks[h].rx = "waiting" => tasks[h].tx = "held"

\* Only a result without a value takes a sender from one who waits.
FInv == SInv /\ AtOwnCalls /\ (Valued => NoneForsaken /\ panic # "polled again")
WInv == FInv /\ (Blameless => PassedHeld)

\* Tokio's budget is not to blame as long as it allows for every event: each sent
\* one value at most, and only what was sent is received.
SentTasks     == {h \in DOMAIN tasks : tasks[h].tx = "sent"}
ReceivedTasks == {h \in SentTasks : tasks[h].rx # "waiting"}
SpendInv ==
    /\ Cardinality(SentTasks) <= Len(history)
    /\ pc # "panicked" => budget + Cardinality(ReceivedTasks) >= Budget
\* No event is one to blame.
Gentle ==
    \A e \in Events :
        /\ e.type # "TaskFailed"
        /\ e.type \in Resolved => e.value # None
GInv == WInv /\ Len(history) <= MaxEvents /\ AllGiven /\ (MaxEvents < Budget => SpendInv)

\* "failed to unblock ..." (executor.rs:306 and its siblings) never happens.
UnblockNeverFails == panic # "unblock"

\* It happens only to an orchestrator that has left a race or a timer it does
\* not await behind it: one that joins what it calls drops no future of a task
\* that is still to be completed.
Raced == \E k \in DOMAIN Body : k < step /\ Body[k].mode \in {"any", "none"}
RefusalHasCause == panic = "unblock" => Known /\ Raced

\* What makes it inductive.
DroppedByRace == \A h \in DOMAIN tasks : tasks[h].rx = "dropped" => Known /\ Raced
Stopped == panic # "none" => pc = "panicked"
RInv == SInv /\ AtOwnCalls /\ DroppedByRace /\ Stopped /\ RefusalHasCause

\* An orchestrator that has returned leaves its result among the actions that
\* are returned to the sidecar.
Returned == name # None /\ step > Len(Body)
ResultReported ==
    pc = "done" /\ Returned =>
        \E id \in DOMAIN pending_actions : pending_actions[id] = Registry[name].result
=============================================================================
