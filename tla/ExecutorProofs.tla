--------------------------- MODULE ExecutorProofs ---------------------------
(***************************************************************************)
(* Proofs about Executor, for every registry of programs, every set of     *)
(* events and every length of history.                                     *)
(***************************************************************************)
EXTENDS Executor, SequenceTheorems, TLAPS

-----------------------------------------------------------------------------
(* The maps.                                                               *)

\* HashMap::insert keeps a map a map.
LEMMA PutMap ==
    ASSUME NEW K, NEW V, NEW f, IsMap(f, K, V), NEW k \in K, NEW v \in V
    PROVE  IsMap(Put(f, k, v), K, V)
BY DEF IsMap, Put

\* HashMap::remove keeps a map a map.
LEMMA RemoveMap ==
    ASSUME NEW K, NEW V, NEW f, IsMap(f, K, V), NEW k
    PROVE  IsMap(Remove(f, k), K, V)
BY DEF IsMap, Remove

\* A map into a set is a map into every larger one.
LEMMA MapGrows ==
    ASSUME NEW K, NEW V, NEW W, NEW f, IsMap(f, K, V), V \subseteq W
    PROVE  IsMap(f, K, W)
BY DEF IsMap

\* The empty map is a map into anything.
LEMMA EmptyMapIsMap == ASSUME NEW K, NEW V PROVE IsMap(EmptyMap, K, V) /\ DOMAIN EmptyMap = {}
BY DEF IsMap, EmptyMap

\* push_back on a map of queues makes the queue if there is none, and leaves
\* no queue empty.
LEMMA PushBackMap ==
    ASSUME NEW K, NEW V, NEW f, IsMap(f, K, Seq(V)), NEW k \in K, NEW v \in V,
           NonEmpty(f)
    PROVE  /\ IsMap(PushBack(f, k, v), K, Seq(V))
           /\ DOMAIN PushBack(f, k, v) = DOMAIN f \cup {k}
           /\ NonEmpty(PushBack(f, k, v))
<1> DEFINE q == IF k \in DOMAIN f THEN Append(f[k], v) ELSE <<v>>
<1>1. q \in Seq(V) /\ q # <<>>
  <2>1. CASE k \in DOMAIN f
    <3>1. f[k] \in Seq(V)
      BY <2>1 DEF IsMap
    <3>2. Append(f[k], v) \in Seq(V) /\ Append(f[k], v) # <<>>
      BY <3>1, AppendProperties
    <3> QED BY <2>1, <3>2
  <2>2. CASE k \notin DOMAIN f
    BY <2>2
  <2> QED BY <2>1, <2>2
<1>2. PushBack(f, k, v) = Put(f, k, q)
  BY DEF PushBack
<1> HIDE DEF q
<1>3. IsMap(Put(f, k, q), K, Seq(V))
  BY <1>1, PutMap
<1>4. NonEmpty(Put(f, k, q))
  BY <1>1 DEF Put, NonEmpty
<1>5. DOMAIN Put(f, k, q) = DOMAIN f \cup {k}
  BY DEF Put
<1> QED BY <1>2, <1>3, <1>4, <1>5

\* pop_front on a map of queues removes a queue with its last element: no
\* queue is left empty, and no queue is added.
LEMMA PopFrontMap ==
    ASSUME NEW K, NEW V, NEW f, IsMap(f, K, Seq(V)), NEW k \in DOMAIN f,
           NonEmpty(f)
    PROVE  /\ IsMap(PopFront(f, k), K, Seq(V))
           /\ DOMAIN PopFront(f, k) \subseteq DOMAIN f
           /\ NonEmpty(PopFront(f, k))
           /\ Head(f[k]) \in V
<1>1. k \in K /\ f[k] \in Seq(V) /\ f[k] # <<>>
  BY DEF IsMap, NonEmpty
<1>2. /\ Head(f[k]) \in V
      /\ Tail(f[k]) \in Seq(V)
      /\ Len(Tail(f[k])) = Len(f[k]) - 1
  BY <1>1, HeadTailProperties
<1>3. CASE Len(f[k]) > 1
  <2>1. PopFront(f, k) = Put(f, k, Tail(f[k]))
    BY <1>3 DEF PopFront
  <2>2. Tail(f[k]) # <<>>
    <3>1. Len(f[k]) \in Nat
      BY <1>1, LenProperties
    <3>2. Len(Tail(f[k])) # 0
      BY <3>1, <1>2, <1>3
    <3>3. Len(<<>>) = 0
      OBVIOUS
    <3> QED BY <3>2, <3>3, Zenon
  <2>3. IsMap(Put(f, k, Tail(f[k])), K, Seq(V))
    BY <1>1, <1>2, PutMap
  <2>4. /\ DOMAIN Put(f, k, Tail(f[k])) = DOMAIN f
        /\ NonEmpty(Put(f, k, Tail(f[k])))
    BY <2>2 DEF Put, NonEmpty
  <2> QED BY <1>2, <2>1, <2>3, <2>4
<1>4. CASE ~(Len(f[k]) > 1)
  <2>1. PopFront(f, k) = Remove(f, k)
    BY <1>4 DEF PopFront
  <2>2. IsMap(Remove(f, k), K, Seq(V))
    BY RemoveMap
  <2>3. /\ DOMAIN Remove(f, k) \subseteq DOMAIN f
        /\ NonEmpty(Remove(f, k))
    BY DEF Remove, NonEmpty
  <2> QED BY <1>2, <2>1, <2>2, <2>3
<1> QED BY <1>3, <1>4

-----------------------------------------------------------------------------
(* The tasks.                                                              *)

\* Every operation of Task gives a task back, and none but CompletedTask
\* makes one that is completed on the spot.
LEMMA TaskOperations ==
    ASSUME NEW t \in Task, NEW v \in Option
    PROVE  /\ NewTask \in Task /\ ~NewTask.completed
           /\ CompletedTask(v) \in Task /\ CompletedTask(v).completed
           /\ Send(t, v) \in Task /\ Send(t, v).completed = t.completed
           /\ DropSender(t) \in Task /\ DropSender(t).completed = t.completed
           /\ DropFuture(t) \in Task /\ DropFuture(t).completed = t.completed
           /\ Take(t) \in Task /\ Take(t).completed = t.completed
           /\ Fail(t) \in Task /\ Fail(t).completed = t.completed
BY DEF Task, Option, NewTask, CompletedTask, Send, Accepts, DropSender, DropFuture,
       Unfinished, Take, Fail

-----------------------------------------------------------------------------
(* The invariant, one part at a time.                                      *)

\* A context just made by OrchestrationExecutorContext::new satisfies the
\* invariant.
THEOREM InitIInv == Init => IInv
<1> SUFFICES ASSUME Init PROVE IInv
  OBVIOUS
<1>1. ControlOK
  BY DEF Init, ControlOK
<1>6. PositionOK
  BY DEF Init, PositionOK
<1>7. BudgetOK
  BY BudgetAssumption DEF Init, BudgetOK
<1>8. HistoryOK
  BY DEF Init, HistoryOK
<1>2. CallsOK
  BY DEF Init, CallsOK
<1>3. MapsOK
  BY EmptyMapIsMap DEF Init, MapsOK
<1>4. NoEmptyQueue /\ EventOrWaiter
  BY EmptyMapIsMap DEF Init, NoEmptyQueue, NonEmpty, EventOrWaiter
<1>5. Running /\ Quiescent
  BY DEF Init, Running, Quiescent, Polling
<1> QED BY <1>1, <1>2, <1>3, <1>4, <1>5, <1>6, <1>7, <1>8 DEF IInv, TypeOK

\* An orchestrator that is polled has a program, and so has each of its steps.
LEMMA StepOK ==
    ASSUME IInv, Polling
    PROVE  /\ Registry[name] \in Program /\ Body \in Seq(Step) /\ Len(Body) \in Nat
           /\ step \in 1 .. Len(Body) =>
                 /\ Body[step] \in Step
                 /\ Body[step].ops \in Seq(Op)
                 /\ Len(Body[step].ops) \in Nat
                 /\ op \in 1 .. Len(Body[step].ops) => ThisOp \in Op
<1>1. Registry[name] \in Program
  BY RegistryAssumption DEF IInv, Running
<1>2. Body \in Seq(Step) /\ Len(Body) \in Nat
  BY <1>1, LenProperties DEF Program, Body
<1>3. ASSUME step \in 1 .. Len(Body)
      PROVE  Body[step] \in Step /\ Body[step].ops \in Seq(Op)
  <2>1. Body[step] \in Step
    BY <1>2, <1>3, ElementOfSeq
  <2> QED BY <2>1 DEF Step
<1>4. ASSUME step \in 1 .. Len(Body)
      PROVE  /\ Len(Body[step].ops) \in Nat
             /\ op \in 1 .. Len(Body[step].ops) => ThisOp \in Op
  BY <1>3, <1>4, LenProperties, ElementOfSeq DEF ThisOp
<1> QED BY <1>1, <1>2, <1>3, <1>4

\* A step of the executor, on whatever event it is given next: those of Events,
\* or those of a work item.
StartsOnce(e) == e.type = "ExecutionStarted" => ~HasStarted
AnyStep ==
    \/ Execute
    \/ get_actions
    \/ \E e : IsEvent(e) /\ StartsOnce(e) /\ process_event(e)

\* What an arm of process_event does with pc, panic and the future.
LEMMA EventControl ==
    ASSUME NEW e, process_event(e)
    PROVE  /\ UNCHANGED <<fn, step, op, base>>
           /\ \/ name' = e.name /\ e.name \in DOMAIN Registry /\ pc' = "first" /\ panic' = panic
              \/ name' = name /\ fn = "pending" /\ pc' \in {"discard", "resume"}
                   /\ panic' = panic
              \/ name' = name /\ pc' = "drain" /\ panic' = panic
              \/ name' = name /\ pc' = "panicked"
                   /\ panic' \in {"unblock", "no future", "finished"}
<1>1. CASE ExecutionStarted(e)
  BY <1>1 DEF ExecutionStarted, Goto
<1>2. CASE ExecutionCompleted(e)
  BY <1>2 DEF ExecutionCompleted, Goto, Panic, future
<1>3. CASE ExecutionTerminated(e) \/ IgnoredEvent(e)
  BY <1>3 DEF ExecutionTerminated, IgnoredEvent, Goto, future
<1>4. CASE TaskScheduled(e) \/ TimerCreated(e) \/ SubOrchestrationInstanceCreated(e)
  BY <1>4 DEF TaskScheduled, TimerCreated, SubOrchestrationInstanceCreated, Acknowledge,
              Goto, future
<1>5. CASE TaskCompleted(e) \/ TimerFired(e) \/ TaskFailed(e)
  BY <1>5 DEF TaskCompleted, TimerFired, TaskFailed, UnblockAndPoll, Unblock, ThenPoll, Goto,
     Panic, future
<1>6. CASE SubOrchestrationInstanceCompleted(e) \/ SubOrchestrationInstanceFailed(e)
  BY <1>6 DEF SubOrchestrationInstanceCompleted, SubOrchestrationInstanceFailed,
              UnblockAndPoll, Unblock, ThenPoll, Goto, Panic, future
<1>7. CASE EventRaised(e)
  BY <1>7 DEF EventRaised, ThenPoll, Goto, Panic, future
<1> QED BY <1>1, <1>2, <1>3, <1>4, <1>5, <1>6, <1>7 DEF process_event

\* A step that takes no event records none.
LEMMA EventOrNone ==
    ASSUME Execute \/ get_actions
    PROVE  history' = history
BY DEF Execute, Poll, create_timer, call_activity, call_sub_orchestrator, Schedule,
       await_signal_event, TaskReady, TaskPending, TaskForsaken, TaskIgnored, TaskPanics,
       PolledAgain, FinishStep, Block, Complete, ReturnAtOnce, ReturnIgnored, DrainTask,
       DrainWaiter, NextEvent, get_actions

\* An arm of process_event is entered between two events, with one more in the
\* history.
LEMMA EventTaken ==
    ASSUME NEW e, process_event(e)
    PROVE  pc = "event" /\ history' = Append(history, e)
BY DEF process_event, ExecutionStarted, ExecutionCompleted, ExecutionTerminated,
       IgnoredEvent, TaskScheduled, TimerCreated, SubOrchestrationInstanceCreated,
       Acknowledge, TaskCompleted, TimerFired, TaskFailed,
       SubOrchestrationInstanceCompleted, SubOrchestrationInstanceFailed,
       UnblockAndPoll, Unblock, EventRaised, Process

\* What has been recorded stays in the history, and what is new in it is the
\* event just taken.
LEMMA Recorded ==
    ASSUME HistoryOK, NEW e, IsEvent(e), NEW h, h = Append(history, e)
    PROVE  /\ h \in Seq({h[i] : i \in DOMAIN h})
           /\ \A i \in DOMAIN history : i \in DOMAIN h /\ h[i] = history[i]
           /\ \A i \in DOMAIN h : i \in DOMAIN history \/ h[i] = e
           /\ \E i \in DOMAIN h : h[i] = e
<1> DEFINE S == {history[i] : i \in DOMAIN history} \cup {e}
<1>1. history \in Seq({history[i] : i \in DOMAIN history})
  BY DEF HistoryOK
<1>2. history \in Seq(S) /\ e \in S
  <2>1. {history[i] : i \in DOMAIN history} \subseteq S
    OBVIOUS
  <2> QED BY <1>1, <2>1
<1> HIDE DEF S
<1>3. /\ h \in Seq(S) /\ Len(h) = Len(history) + 1 /\ h[Len(history) + 1] = e
      /\ \A i \in 1 .. Len(history) : h[i] = history[i]
  BY <1>2, AppendProperties
<1>4. /\ Len(history) \in Nat /\ DOMAIN history = 1 .. Len(history)
      /\ DOMAIN h = 1 .. Len(history) + 1
  BY <1>2, <1>3, LenProperties
<1>5. h \in Seq({h[i] : i \in DOMAIN h})
  <2> PICK T : T = {h[i] : i \in DOMAIN h}
    OBVIOUS
  <2>1. Seq(S) = UNION {[1 .. k -> S] : k \in Nat} /\ Seq(T) = UNION {[1 .. k -> T] : k \in Nat}
    BY SeqDef
  <2>2. PICK k \in Nat : h \in [1 .. k -> S]
    BY <1>3, <2>1
  <2>3. h \in [1 .. k -> T]
    BY <2>2
  <2>4. h \in Seq(T)
    BY <2>1, <2>3, Zenon
  <2> QED BY <2>4
<1> QED BY <1>3, <1>4, <1>5

\* The history stays one of events.
LEMMA HistoryStep ==
    ASSUME HistoryOK, AnyStep
    PROVE  HistoryOK'
<1>1. CASE Execute \/ get_actions
  BY <1>1, EventOrNone DEF HistoryOK
<1>2. ASSUME NEW e, IsEvent(e), process_event(e) PROVE HistoryOK'
  <2>1. history' = Append(history, e)
    BY <1>2, EventTaken
  <2> QED BY <1>2, <2>1, Recorded DEF HistoryOK
<1> QED BY <1>1, <1>2 DEF AnyStep

\* Where the executor is: polled and kept is only an orchestrator that is
\* registered.
LEMMA ControlStep ==
    ASSUME ControlOK, Running, AnyStep
    PROVE  ControlOK' /\ Running'
<1>1. CASE create_timer \/ call_activity \/ call_sub_orchestrator
  <2>1. UNCHANGED <<pc, panic, fn, name>>
    BY <1>1 DEF create_timer, call_activity, call_sub_orchestrator, Schedule, future
  <2> QED BY <2>1 DEF ControlOK, Running, Polling
<1>2. CASE await_signal_event \/ TaskReady \/ TaskPending \/ TaskForsaken \/ TaskIgnored
           \/ TaskPanics \/ PolledAgain
  <2>1. /\ UNCHANGED <<fn, name>>
        /\ \/ pc' = pc /\ panic' = panic
           \/ pc' = "panicked" /\ panic' \in {"no value", "decode", "polled again"}
    BY <1>2 DEF await_signal_event, TaskReady, TaskPending, TaskForsaken, TaskIgnored,
       TaskPanics, PolledAgain, future, Goto, Panic
  <2> QED BY <2>1 DEF ControlOK, Running, Polling
<1>3. CASE FinishStep \/ Block \/ Complete \/ ReturnAtOnce \/ ReturnIgnored
  <2>1. /\ UNCHANGED <<panic, name>>
        /\ Polling
        /\ pc' \in {pc, "drain"}
        /\ fn' \in {fn, "pending", "ready"}
    BY <1>3 DEF FinishStep, Block, Complete, ReturnAtOnce, ReturnIgnored, AtStepEnd, AtReturn,
                Goto, future
  <2> QED BY <2>1 DEF ControlOK, Running, Polling
<1>4. CASE DrainTask \/ DrainWaiter \/ NextEvent \/ get_actions
  <2>1. /\ pc' \in {"drain", "event", "done"}
        /\ UNCHANGED <<panic, fn, name>>
    BY <1>4 DEF DrainTask, DrainWaiter, NextEvent, get_actions, Goto, future
  <2> QED BY <2>1 DEF ControlOK, Running, Polling
<1>5. ASSUME NEW e, IsEvent(e), process_event(e) PROVE ControlOK' /\ Running'
  BY <1>5, EventControl DEF ControlOK, Running, Polling
<1> QED BY <1>1, <1>2, <1>3, <1>4, <1>5 DEF AnyStep, Execute, Poll

\* Where the orchestrator is.
LEMMA PositionStep ==
    ASSUME IInv, AnyStep
    PROVE  PositionOK'
<1>0. PositionOK /\ Len(calls) \in Nat
  BY LenProperties DEF IInv, TypeOK, CallsOK
<1>1. CASE TaskReady
  <2>1. /\ op' \in {op, op + 1, Len(Body[step].ops) + 1}
        /\ UNCHANGED <<step, base>>
    BY <1>1 DEF TaskReady
  <2>2. Polling /\ step <= Len(Body)
    BY <1>1 DEF TaskReady, Awaited, AtTask, InStep
  <2>3. Len(Body) \in Nat /\ (step \in 1 .. Len(Body) => Len(Body[step].ops) \in Nat)
    BY <2>2, StepOK
  <2>4. Len(Body[step].ops) \in Nat
    BY <1>0, <2>2, <2>3 DEF PositionOK
  <2> QED BY <1>0, <2>1, <2>4 DEF PositionOK
<1>2. CASE TaskPending \/ TaskForsaken \/ TaskIgnored
  <2>1. op' = op + 1 /\ UNCHANGED <<step, base>>
    BY <1>2 DEF TaskPending, TaskForsaken, TaskIgnored
  <2> QED BY <1>0, <2>1 DEF PositionOK
<1>3. CASE FinishStep
  <2>1. op' = 1 /\ step' = step + 1 /\ base' = Len(calls)
    BY <1>3 DEF FinishStep
  <2> QED BY <1>0, <2>1 DEF PositionOK
<1>4. CASE Block
  <2>1. op' = 1 /\ UNCHANGED <<step, base>>
    BY <1>4 DEF Block
  <2> QED BY <1>0, <2>1 DEF PositionOK
<1>5. CASE \/ create_timer \/ call_activity \/ call_sub_orchestrator \/ await_signal_event
           \/ TaskPanics \/ PolledAgain \/ Complete \/ ReturnAtOnce \/ ReturnIgnored
           \/ DrainTask \/ DrainWaiter \/ NextEvent \/ get_actions
  <2>1. UNCHANGED <<step, op, base>>
    BY <1>5 DEF create_timer, call_activity, call_sub_orchestrator, Schedule,
                await_signal_event, TaskPanics, PolledAgain, Complete, ReturnAtOnce, ReturnIgnored,
                DrainTask, DrainWaiter, NextEvent, get_actions, future
  <2> QED BY <1>0, <2>1 DEF PositionOK
<1>6. ASSUME NEW e, IsEvent(e), process_event(e) PROVE PositionOK'
  BY <1>0, <1>6, EventControl DEF PositionOK
<1> QED BY <1>1, <1>2, <1>3, <1>4, <1>5, <1>6 DEF AnyStep, Execute, Poll

\* A poll spends the budget one unit at a time and never below zero.
LEMMA BudgetStep ==
    ASSUME BudgetOK, AnyStep
    PROVE  BudgetOK'
<1>1. CASE TaskReady \/ TaskForsaken \/ TaskPanics
  <2>1. budget' = budget \/ (budget > 0 /\ budget' = budget - 1)
    BY <1>1 DEF TaskReady, TaskForsaken, TaskPanics, Spend
  <2> QED BY <2>1, BudgetAssumption DEF BudgetOK
<1>2. CASE \/ create_timer \/ call_activity \/ call_sub_orchestrator \/ await_signal_event
           \/ TaskPending \/ TaskIgnored \/ PolledAgain \/ FinishStep \/ Block \/ Complete
           \/ ReturnAtOnce
           \/ ReturnIgnored \/ DrainTask \/ DrainWaiter \/ NextEvent \/ get_actions
  <2>1. budget' = budget
    BY <1>2 DEF create_timer, call_activity, call_sub_orchestrator, Schedule,
                await_signal_event, TaskPending, TaskIgnored, PolledAgain, FinishStep, Block,
                Complete, ReturnAtOnce, ReturnIgnored, DrainTask, DrainWaiter, NextEvent,
                get_actions
  <2> QED BY <2>1 DEF BudgetOK
<1>3. ASSUME NEW e, IsEvent(e), process_event(e) PROVE BudgetOK'
  <2>1. budget' = budget
    BY <1>3 DEF process_event, ExecutionStarted, ExecutionCompleted, ExecutionTerminated,
                IgnoredEvent, TaskScheduled, TimerCreated, SubOrchestrationInstanceCreated,
                Acknowledge, TaskCompleted, TimerFired, TaskFailed,
                SubOrchestrationInstanceCompleted, SubOrchestrationInstanceFailed,
                UnblockAndPoll, Unblock, EventRaised
  <2> QED BY <2>1 DEF BudgetOK
<1> QED BY <1>1, <1>2, <1>3 DEF AnyStep, Execute, Poll

\* The tasks after a step that makes no call: still one for every call, and
\* completed on the spot or not as they were.
SameTasks ==
    /\ tasks' \in Seq(Task)
    /\ Len(tasks') = Len(tasks)
    /\ \A h \in Handles : tasks'[h].completed = tasks[h].completed

\* A step that updates one task in place, as poll and send do, keeps the tasks
\* typed and their number.
LEMMA OneTask ==
    ASSUME CallsOK, NEW h \in Handles, NEW t \in Task, t.completed = tasks[h].completed,
           tasks' = [tasks EXCEPT ![h] = t]
    PROVE  SameTasks
<1>1. h \in 1 .. Len(tasks) /\ tasks \in Seq(Task)
  BY DEF CallsOK, Handles
<1>2. /\ tasks' \in Seq(Task)
      /\ Len(tasks') = Len(tasks)
      /\ \A j \in 1 .. Len(tasks) : tasks'[j] = IF j = h THEN t ELSE tasks[j]
  BY <1>1, ExceptSeq
<1> QED BY <1>2 DEF SameTasks, CallsOK, Handles

\* A step that drops futures or senders of any of them does too.
LEMMA AllTasks ==
    ASSUME CallsOK, tasks' = [h \in DOMAIN tasks |-> tasks'[h]],
           \A h \in Handles : tasks'[h] \in Task /\ tasks'[h].completed = tasks[h].completed
    PROVE  SameTasks
<1>1. tasks \in Seq(Task) /\ Len(tasks) = Len(calls)
  BY DEF CallsOK
<1>2. DOMAIN tasks = 1 .. Len(tasks) /\ Len(tasks) \in Nat
  BY <1>1, LenProperties
<1>3. tasks' \in [1 .. Len(tasks) -> Task]
  BY <1>1, <1>2 DEF Handles
<1>4. tasks' \in Seq(Task)
  BY <1>2, <1>3, SeqDef
<1>5. Len(tasks') = Len(tasks)
  BY <1>2, <1>3
<1> QED BY <1>4, <1>5 DEF SameTasks

\* So does one that leaves them alone.
LEMMA NoTask == ASSUME CallsOK, tasks' = tasks PROVE SameTasks
BY DEF SameTasks, CallsOK

\* The handle of a call is the handle of a task.
LEMMA HandleTask == ASSUME CallsOK, NEW h \in Handles PROVE tasks[h] \in Task
BY ElementOfSeq DEF CallsOK, Handles

\* A result that is sent to a pending task completes no task on the spot, and
\* makes none.
LEMMA UnblockTasks ==
    ASSUME CallsOK, MapsOK, NEW e, e.value \in Option, Unblock(e)
    PROVE  SameTasks
<1>1. CASE e.id \notin DOMAIN pending_tasks
  BY <1>1, NoTask DEF Unblock
<1>2. CASE e.id \in DOMAIN pending_tasks
  <2> DEFINE h == pending_tasks[e.id]
  <2>1. h \in Handles
    BY <1>2 DEF MapsOK, IsMap
  <2>2. tasks[h] \in Task
    BY <2>1, HandleTask
  <2>3. \/ tasks' = [tasks EXCEPT ![h] = DropSender(tasks[h])]
        \/ tasks' = [tasks EXCEPT ![h] = Send(tasks[h], e.value)]
    BY <1>2 DEF Unblock
  <2>4. /\ DropSender(tasks[h]) \in Task
        /\ DropSender(tasks[h]).completed = tasks[h].completed
        /\ Send(tasks[h], e.value) \in Task
        /\ Send(tasks[h], e.value).completed = tasks[h].completed
    BY <2>2, TaskOperations
  <2> HIDE DEF h
  <2> QED BY <2>1, <2>3, <2>4, OneTask
<1> QED BY <1>1, <1>2

\* No arm of process_event makes a call or a task.
LEMMA EventTasks ==
    ASSUME IInv, NEW e, IsEvent(e), process_event(e)
    PROVE  SameTasks /\ UNCHANGED <<calls, drained, octx_sequence_number>>
<1>0. CallsOK /\ MapsOK /\ NoEmptyQueue
  BY DEF IInv, TypeOK
<1>1. IsEvent(e) /\ e.value \in Option
  BY DEF IsEvent
<1>2. CASE \/ ExecutionStarted(e) \/ ExecutionCompleted(e) \/ ExecutionTerminated(e)
           \/ IgnoredEvent(e)
           \/ TaskScheduled(e) \/ TimerCreated(e) \/ SubOrchestrationInstanceCreated(e)
  <2>1. UNCHANGED <<calls, tasks, drained, octx_sequence_number>>
    BY <1>2 DEF ExecutionStarted, ExecutionCompleted, ExecutionTerminated, IgnoredEvent,
                TaskScheduled, TimerCreated, SubOrchestrationInstanceCreated, Acknowledge, called
  <2> QED BY <1>0, <2>1, NoTask
<1>3. CASE \/ TaskCompleted(e) \/ TimerFired(e) \/ TaskFailed(e)
           \/ SubOrchestrationInstanceCompleted(e) \/ SubOrchestrationInstanceFailed(e)
  <2>1. Unblock(e)
    BY <1>3 DEF TaskCompleted, TimerFired, TaskFailed, SubOrchestrationInstanceCompleted,
                SubOrchestrationInstanceFailed, UnblockAndPoll
  <2>2. SameTasks
    BY <1>0, <1>1, <2>1, UnblockTasks
  <2> QED BY <2>1, <2>2 DEF Unblock
<1>4. CASE EventRaised(e)
  <2> DEFINE key == to_lowercase(e.name)
             h   == Head(pending_events[key])
  <2>1. UNCHANGED <<calls, drained, octx_sequence_number>>
    BY <1>4 DEF EventRaised
  <2>2. CASE key \notin DOMAIN pending_events
    <3>1. tasks' = tasks
      BY <1>4, <2>2 DEF EventRaised
    <3> QED BY <1>0, <2>1, <3>1, NoTask
  <2>3. CASE key \in DOMAIN pending_events
    <3>1. tasks' = [tasks EXCEPT ![h] = Send(tasks[h], e.value)]
      BY <1>4, <2>3 DEF EventRaised
    <3>2. h \in Handles
      BY <1>0, <2>3, PopFrontMap DEF MapsOK, NoEmptyQueue
    <3>3. tasks[h] \in Task
      BY <1>0, <3>2, HandleTask
    <3>4. /\ Send(tasks[h], e.value) \in Task
          /\ Send(tasks[h], e.value).completed = tasks[h].completed
      BY <1>1, <3>3, TaskOperations
    <3> HIDE DEF h
    <3> QED BY <1>0, <2>1, <3>1, <3>2, <3>4, OneTask
  <2> QED BY <2>2, <2>3
<1> QED BY <1>2, <1>3, <1>4 DEF process_event

\* A call adds one task to the tasks, and takes its id.
NewCall(call, task) ==
    /\ call \in Call
    /\ task \in Task
    /\ calls' = Append(calls, call)
    /\ tasks' = Append(tasks, task)
    /\ drained' = drained
    /\ sequence_number' = sequence_number

\* A call just made keeps the calls and tasks typed and numbered alike.
LEMMA NewCallOK ==
    ASSUME CallsOK, NEW call, NEW task, NewCall(call, task)
    PROVE  /\ calls' \in Seq(Call) /\ tasks' \in Seq(Task)
           /\ Len(calls') = Len(calls) + 1 /\ Len(tasks') = Len(calls')
           /\ drained' \in 0 .. Len(calls')
           /\ \A h \in Handles : calls'[h] = calls[h] /\ tasks'[h] = tasks[h]
           /\ calls'[Len(calls) + 1] = call /\ tasks'[Len(calls) + 1] = task
<1>1. calls \in Seq(Call) /\ tasks \in Seq(Task) /\ Len(tasks) = Len(calls)
  BY DEF CallsOK
<1>2. /\ calls' \in Seq(Call)
      /\ Len(calls') = Len(calls) + 1
      /\ \A j \in 1 .. Len(calls) : calls'[j] = calls[j]
      /\ calls'[Len(calls) + 1] = call
  BY <1>1, AppendProperties DEF NewCall
<1>3. /\ tasks' \in Seq(Task)
      /\ Len(tasks') = Len(tasks) + 1
      /\ \A j \in 1 .. Len(tasks) : tasks'[j] = tasks[j]
      /\ tasks'[Len(tasks) + 1] = task
  BY <1>1, AppendProperties DEF NewCall
<1>4. drained \in 0 .. Len(calls) /\ Len(calls) \in Nat
  BY <1>1, LenProperties DEF CallsOK
<1>5. drained' \in 0 .. Len(calls')
  BY <1>2, <1>4 DEF NewCall
<1> QED BY <1>1, <1>2, <1>3, <1>5 DEF Handles

\* The calls: what each polling action that makes one adds.
LEMMA ScheduleCalls ==
    ASSUME IInv, NEW kind \in TaskKinds, Schedule(kind)
    PROVE  \E call \in Call : /\ NewCall(call, NewTask)
                              /\ call.name = None /\ call.kind = kind
                              /\ call.id = octx_sequence_number + 1
                              /\ octx_sequence_number' = octx_sequence_number + 1
                              /\ octx_sequence_number' \in Nat
<1> DEFINE call == [kind |-> kind, id |-> octx_sequence_number + 1, name |-> None]
<1>1. octx_sequence_number + 1 \in Nat
  BY DEF IInv, TypeOK, CallsOK
<1>2. call \in Call
  BY <1>1 DEF Call
<1>3. NewTask \in Task
  BY DEF NewTask, Task, Option
<1>4. /\ calls' = Append(calls, call) /\ tasks' = Append(tasks, NewTask)
      /\ drained' = drained /\ sequence_number' = sequence_number
      /\ octx_sequence_number' = octx_sequence_number + 1
  BY DEF Schedule, ctx
<1>5. call.name = None /\ call.kind = kind /\ call.id = octx_sequence_number + 1
  OBVIOUS
<1> HIDE DEF call
<1> QED BY <1>1, <1>2, <1>3, <1>4, <1>5 DEF NewCall

\* The name a signal is awaited under is one of the names in use.
LEMMA SignalKey ==
    ASSUME IInv, await_signal_event
    PROVE  to_lowercase(ThisOp.name) \in Keys
<1>0. /\ Polling /\ step \in 1 .. Len(Body) /\ op \in 1 .. Len(Body[step].ops)
      /\ ThisOp.kind = "signal"
  <2>1. /\ Polling /\ step <= Len(Body) /\ op <= Len(Body[step].ops)
        /\ ThisOp.kind = "signal"
    BY DEF await_signal_event, Uncalled, InStep
  <2>2. Len(Body) \in Nat /\ (step \in 1 .. Len(Body) => Len(Body[step].ops) \in Nat)
    BY <2>1, StepOK
  <2>3. step \in 1 .. Len(Body)
    BY <2>1, <2>2 DEF IInv, TypeOK, PositionOK
  <2> QED BY <2>1, <2>2, <2>3 DEF IInv, TypeOK, PositionOK
<1>1. ThisOp \in Op
  BY <1>0, StepOK
<1>2. ThisOp.name \in DOMAIN Lowercase
  BY <1>0, <1>1 DEF Op, TaskKinds
<1> QED BY <1>2 DEF Keys, to_lowercase

\* await_signal_event, unless it panics, makes a call of the signal's name: one
\* completed on the spot, or one whose sender goes into the channel.
LEMMA SignalCalls ==
    ASSUME IInv, await_signal_event
    PROVE  \/ /\ \E call \in Call, task \in Task :
                   /\ NewCall(call, task)
                   /\ call.kind = "signal"
                   /\ call.name \in DOMAIN received_events => task.completed
                   /\ task.tx = "held" <=> ~task.completed
                   /\ task.tx # "sent"
                   /\ task.completed =>
                         /\ call.name \in DOMAIN received_events
                         /\ task.value = Head(received_events[call.name])
              /\ octx_sequence_number' = octx_sequence_number
           \/ UNCHANGED <<calls, tasks, drained, octx_sequence_number, sequence_number>>
<1> DEFINE key  == to_lowercase(ThisOp.name)
           call == [kind |-> "signal", id |-> 0, name |-> key]
           value == Head(received_events[key])
<1>1. key \in Keys
  BY SignalKey
<1>2. call \in Call /\ call.name = key /\ call.kind = "signal"
  BY <1>1 DEF Call
<1>3. UNCHANGED <<octx_sequence_number, drained, sequence_number>>
  BY DEF await_signal_event
<1>4. CASE key \in DOMAIN received_events
  <2>1. value \in Option
    BY <1>4, PopFrontMap DEF IInv, TypeOK, MapsOK, NoEmptyQueue
  <2>2. /\ CompletedTask(value) \in Task /\ CompletedTask(value).completed
        /\ CompletedTask(value).tx = "dropped" /\ CompletedTask(value).value = value
    BY <2>1 DEF CompletedTask, Task
  <2>3. \/ UNCHANGED <<calls, tasks>>
        \/ calls' = Append(calls, call) /\ tasks' = Append(tasks, CompletedTask(value))
    BY <1>4 DEF await_signal_event
  <2>4. call.name \in DOMAIN received_events /\ value = Head(received_events[call.name])
    BY <1>4
  <2> HIDE DEF call, value
  <2> QED BY <1>2, <1>3, <2>2, <2>3, <2>4 DEF NewCall
<1>5. CASE key \notin DOMAIN received_events
  <2>1. calls' = Append(calls, call) /\ tasks' = Append(tasks, NewTask)
    BY <1>5 DEF await_signal_event
  <2>2. NewTask \in Task /\ NewTask.tx = "held" /\ ~NewTask.completed
    BY DEF NewTask, Task, Option
  <2> HIDE DEF call, key
  <2> QED BY <1>2, <1>3, <1>5, <2>1, <2>2 DEF NewCall
<1> QED BY <1>4, <1>5

\* The polling actions that make no call.
LEMMA PollTasks ==
    ASSUME IInv, TaskReady \/ TaskPending \/ TaskForsaken \/ TaskIgnored \/ TaskPanics
                 \/ PolledAgain \/ FinishStep \/ Block \/ Complete \/ ReturnAtOnce \/ ReturnIgnored
    PROVE  /\ SameTasks
           /\ UNCHANGED <<calls, octx_sequence_number>>
           /\ sequence_number' \in Nat
           /\ drained' \in {drained, Len(calls)}
<1>0. CallsOK /\ PositionOK
  BY DEF IInv, TypeOK
<1>1. CASE TaskReady \/ TaskForsaken
  <2>1. PICK t \in {Take(tasks[ThisCall]), Fail(tasks[ThisCall])} :
            tasks' = [tasks EXCEPT ![ThisCall] = t]
    BY <1>1 DEF TaskReady, TaskForsaken
  <2>0. /\ UNCHANGED <<calls, octx_sequence_number, drained, sequence_number>>
        /\ ThisCall <= Len(calls)
    BY <1>1 DEF TaskReady, TaskForsaken, Awaited, AtTask, ctx
  <2>2. ThisCall \in Handles
    BY <1>0, <2>0, LenProperties DEF PositionOK, ThisCall, CallsOK, Handles
  <2>3. tasks[ThisCall] \in Task
    BY <1>0, <2>2, HandleTask
  <2>4. t \in Task /\ t.completed = tasks[ThisCall].completed
    BY <2>1, <2>3 DEF Take, Fail, Task
  <2>5. SameTasks
    BY <1>0, <2>1, <2>2, <2>4, OneTask
  <2> QED BY <1>0, <2>0, <2>5 DEF CallsOK
<1>2. CASE TaskPending \/ TaskIgnored \/ TaskPanics \/ PolledAgain \/ Block \/ Complete
           \/ ReturnIgnored
  <2>1. /\ UNCHANGED <<calls, tasks, octx_sequence_number, drained>>
        /\ sequence_number' \in {sequence_number, sequence_number + 1}
    BY <1>2 DEF TaskPending, TaskIgnored, TaskPanics, PolledAgain, Block, Complete,
                ReturnIgnored, called, ctx
  <2> QED BY <1>0, <2>1, NoTask DEF CallsOK
<1>3. CASE FinishStep
  <2>1. /\ tasks' = [h \in DOMAIN tasks |->
                        IF h > base THEN DropFuture(tasks[h]) ELSE tasks[h]]
        /\ UNCHANGED <<calls, octx_sequence_number, drained, sequence_number>>
    BY <1>3 DEF FinishStep, ctx
  <2>2. DOMAIN tasks = Handles
    BY <1>0, LenProperties DEF CallsOK, Handles
  <2>3. ASSUME NEW h \in Handles
        PROVE  tasks'[h] \in Task /\ tasks'[h].completed = tasks[h].completed
    <3>1. tasks[h] \in Task
      BY <1>0, HandleTask
    <3>2. tasks'[h] \in {tasks[h], DropFuture(tasks[h])}
      BY <2>1, <2>2
    <3> QED BY <3>1, <3>2 DEF DropFuture, Unfinished, Task
  <2>4. SameTasks
    BY <1>0, <2>1, <2>3, AllTasks
  <2> QED BY <1>0, <2>1, <2>4 DEF CallsOK
<1>4. CASE ReturnAtOnce
  <2>1. /\ tasks' = [h \in DOMAIN tasks |-> DropSender(tasks[h])]
        /\ UNCHANGED <<calls, octx_sequence_number, sequence_number>>
        /\ drained' = Len(calls)
    BY <1>4 DEF ReturnAtOnce, ctx
  <2>2. DOMAIN tasks = Handles
    BY <1>0, LenProperties DEF CallsOK, Handles
  <2>3. ASSUME NEW h \in Handles
        PROVE  tasks'[h] \in Task /\ tasks'[h].completed = tasks[h].completed
    <3>1. tasks[h] \in Task
      BY <1>0, HandleTask
    <3> QED BY <2>1, <2>2, <3>1 DEF DropSender, Task
  <2>4. SameTasks
    BY <1>0, <2>1, <2>3, AllTasks
  <2> QED BY <1>0, <2>1, <2>4 DEF CallsOK
<1> QED BY <1>1, <1>2, <1>3, <1>4

\* The types of the calls and the tasks, and that every channel is empty
\* before the next event.
LEMMA CallsStep ==
    ASSUME IInv, AnyStep
    PROVE  CallsOK' /\ Quiescent' /\ Handles \subseteq Handles'
<1>0. /\ CallsOK /\ Quiescent /\ Len(calls) \in Nat /\ Len(tasks) = Len(calls)
      /\ drained \in 0 .. Len(calls)
  BY LenProperties DEF IInv, TypeOK, CallsOK
<1>1. ASSUME NEW call, NEW task, NewCall(call, task), octx_sequence_number' \in Nat,
             pc' \in {pc, "panicked"}, Polling
      PROVE  CallsOK' /\ Quiescent' /\ Handles \subseteq Handles'
  <2>1. /\ calls' \in Seq(Call) /\ tasks' \in Seq(Task)
        /\ Len(calls') = Len(calls) + 1 /\ Len(tasks') = Len(calls')
        /\ drained' \in 0 .. Len(calls')
    BY <1>0, <1>1, NewCallOK
  <2>2. Handles \subseteq Handles'
    BY <1>0, <2>1 DEF Handles
  <2>3. sequence_number' \in Nat
    BY <1>0, <1>1 DEF NewCall, CallsOK
  <2> QED BY <1>1, <2>1, <2>2, <2>3 DEF CallsOK, Quiescent, Polling
<1>2. ASSUME SameTasks, calls' = calls, drained' \in drained .. Len(calls),
             octx_sequence_number' \in Nat, sequence_number' \in Nat, Quiescent'
      PROVE  CallsOK' /\ Quiescent' /\ Handles \subseteq Handles'
  BY <1>0, <1>2 DEF CallsOK, SameTasks, Handles
<1>3. CASE create_timer \/ call_activity \/ call_sub_orchestrator
  <2>1. \E kind \in TaskKinds : Schedule(kind)
    BY <1>3 DEF create_timer, call_activity, call_sub_orchestrator, TaskKinds
  <2>2. pc' = pc /\ Polling
    BY <1>3 DEF create_timer, call_activity, call_sub_orchestrator, Schedule, Uncalled, InStep
  <2> QED BY <1>1, <2>1, <2>2, ScheduleCalls
<1>4. CASE await_signal_event
  <2>1. pc' \in {pc, "panicked"} /\ Polling
    BY <1>4 DEF await_signal_event, Uncalled, InStep, Goto, Panic
  <2>2. CASE UNCHANGED <<calls, tasks, drained, octx_sequence_number, sequence_number>>
    <3>1. Quiescent'
      BY <2>1 DEF Quiescent, Polling
    <3>2. SameTasks /\ drained' \in drained .. Len(calls)
      BY <1>0, <2>2, NoTask
    <3> QED BY <1>0, <1>2, <2>2, <3>1, <3>2 DEF CallsOK
  <2>3. CASE \E call \in Call, task \in Task :
                NewCall(call, task) /\ octx_sequence_number' = octx_sequence_number
    BY <1>0, <1>1, <2>1, <2>3 DEF CallsOK
  <2> QED BY <1>4, <2>2, <2>3, SignalCalls
<1>5. CASE TaskReady \/ TaskPending \/ TaskForsaken \/ TaskIgnored \/ TaskPanics
           \/ PolledAgain \/ FinishStep \/ Block
           \/ Complete \/ ReturnAtOnce \/ ReturnIgnored
  <2>1. /\ SameTasks
        /\ UNCHANGED <<calls, octx_sequence_number>>
        /\ sequence_number' \in Nat
        /\ drained' \in {drained, Len(calls)}
    BY <1>5, PollTasks
  <2>2. pc' \notin {"event", "done"}
    BY <1>5 DEF TaskReady, TaskPending, TaskForsaken, TaskIgnored, TaskPanics, PolledAgain,
                FinishStep, Block, Complete, ReturnAtOnce, ReturnIgnored, Awaited, AtTask,
                InStep, AtStepEnd, AtReturn, Polling, Goto, Panic
  <2>3. Quiescent' /\ drained' \in drained .. Len(calls)
    BY <1>0, <2>1, <2>2 DEF Quiescent
  <2> QED BY <1>0, <1>2, <2>1, <2>3 DEF CallsOK
<1>6. CASE DrainTask \/ DrainWaiter
  <2>1. /\ UNCHANGED <<pc, calls, tasks, octx_sequence_number>>
        /\ pc = "drain" /\ drained < Len(calls) /\ drained' = drained + 1
        /\ sequence_number' \in {sequence_number, calls[drained + 1].id}
    BY <1>6 DEF DrainTask, DrainWaiter, called
  <2>2. drained + 1 \in 1 .. Len(calls) /\ drained' \in drained .. Len(calls)
    BY <1>0, <2>1
  <2>3. calls[drained + 1] \in Call
    BY <1>0, <2>2, ElementOfSeq DEF CallsOK
  <2>4. calls[drained + 1].id \in Nat
    BY <2>3 DEF Call
  <2>5. SameTasks /\ Quiescent'
    BY <1>0, <2>1, NoTask DEF Quiescent
  <2> QED BY <1>0, <1>2, <2>1, <2>2, <2>4, <2>5 DEF CallsOK
<1>7. CASE NextEvent \/ get_actions
  <2>1. /\ UNCHANGED <<calls, tasks, drained, octx_sequence_number, sequence_number>>
        /\ (pc = "drain" /\ drained = Len(calls)) \/ pc = "event"
    BY <1>7 DEF NextEvent, get_actions, called, ctx
  <2>2. SameTasks /\ Quiescent' /\ drained' \in drained .. Len(calls)
    BY <1>0, <2>1, NoTask DEF Quiescent
  <2> QED BY <1>0, <1>2, <2>1, <2>2 DEF CallsOK
<1>8. ASSUME NEW e, IsEvent(e), process_event(e)
      PROVE  CallsOK' /\ Quiescent' /\ Handles \subseteq Handles'
  <2>1. SameTasks /\ UNCHANGED <<calls, drained, octx_sequence_number>>
    BY <1>8, EventTasks
  <2>2. pc' \notin {"event", "done"}
    BY <1>8, EventControl
  <2>3. sequence_number' \in {sequence_number, sequence_number + 1}
    BY <1>8 DEF process_event, ExecutionStarted, ExecutionCompleted, ExecutionTerminated,
                IgnoredEvent, TaskScheduled, TimerCreated, SubOrchestrationInstanceCreated,
                Acknowledge, TaskCompleted, TimerFired, TaskFailed,
                SubOrchestrationInstanceCompleted, SubOrchestrationInstanceFailed,
                UnblockAndPoll, Unblock, EventRaised, ctx
  <2>4. sequence_number' \in Nat /\ Quiescent' /\ drained' \in drained .. Len(calls)
    BY <1>0, <2>1, <2>2, <2>3 DEF CallsOK, Quiescent
  <2> QED BY <1>0, <1>2, <2>1, <2>4 DEF CallsOK
<1> QED BY <1>3, <1>4, <1>5, <1>6, <1>7, <1>8 DEF AnyStep, Execute, Poll

\* pending_actions.
LEMMA ActionsStep ==
    ASSUME IInv, AnyStep
    PROVE  IsMap(pending_actions, Nat, Actions)'
<1>0. /\ IsMap(pending_actions, Nat, Actions)
      /\ sequence_number + 1 \in Nat
      /\ "Terminated" \in Actions
  BY DEF IInv, TypeOK, MapsOK, CallsOK, Actions
<1>1. ASSUME NEW id \in Nat, NEW kind \in Actions,
             pending_actions' = Put(pending_actions, id, kind)
      PROVE  IsMap(pending_actions', Nat, Actions)
  BY <1>0, <1>1, PutMap
<1>2. CASE Complete
  <2>1. /\ pending_actions' =
             Put(pending_actions, sequence_number + 1, Registry[name].result)
        /\ Polling
    BY <1>2 DEF Complete, AtReturn
  <2>2. Registry[name].result \in Actions
    BY <2>1, StepOK DEF Program, Actions
  <2> QED BY <1>0, <1>1, <2>1, <2>2
<1>3. CASE DrainTask
  <2> DEFINE h == drained + 1
  <2>1. /\ pending_actions' = Put(pending_actions, calls[h].id, calls[h].kind)
        /\ calls[h].kind \in TaskKinds /\ drained < Len(calls)
    BY <1>3 DEF DrainTask
  <2>2. h \in 1 .. Len(calls)
    BY <2>1, LenProperties DEF IInv, TypeOK, CallsOK
  <2>3. calls[h] \in Call
    BY <2>2, ElementOfSeq DEF IInv, TypeOK, CallsOK
  <2>4. calls[h].id \in Nat
    BY <2>3 DEF Call
  <2>5. calls[h].kind \in Actions
    BY <2>1 DEF Actions
  <2> QED BY <1>1, <2>1, <2>4, <2>5
<1>4. ASSUME NEW e, IsEvent(e), process_event(e) PROVE IsMap(pending_actions', Nat, Actions)
  <2>1. CASE ExecutionTerminated(e)
    <3>1. pending_actions' = Put(pending_actions, sequence_number + 1, "Terminated")
      BY <2>1 DEF ExecutionTerminated
    <3> QED BY <1>0, <1>1, <3>1
  <2>2. CASE TaskScheduled(e) \/ TimerCreated(e) \/ SubOrchestrationInstanceCreated(e)
    <3>1. pending_actions' = Remove(pending_actions, e.id)
      BY <2>2 DEF TaskScheduled, TimerCreated, SubOrchestrationInstanceCreated, Acknowledge
    <3> QED BY <1>0, <3>1, RemoveMap
  <2>3. CASE \/ ExecutionStarted(e) \/ ExecutionCompleted(e) \/ IgnoredEvent(e)
             \/ TaskCompleted(e) \/ TimerFired(e) \/ TaskFailed(e)
             \/ SubOrchestrationInstanceCompleted(e) \/ SubOrchestrationInstanceFailed(e)
             \/ EventRaised(e)
    <3>1. pending_actions' = pending_actions
      BY <2>3 DEF ExecutionStarted, ExecutionCompleted, IgnoredEvent, TaskCompleted, TimerFired,
                  TaskFailed, SubOrchestrationInstanceCompleted, SubOrchestrationInstanceFailed,
                  UnblockAndPoll, Unblock, EventRaised, ctx
    <3> QED BY <1>0, <3>1
  <2> QED BY <1>4, <2>1, <2>2, <2>3 DEF process_event
<1>5. CASE \/ create_timer \/ call_activity \/ call_sub_orchestrator \/ await_signal_event
           \/ TaskReady \/ TaskPending \/ TaskForsaken \/ TaskIgnored \/ TaskPanics
           \/ PolledAgain \/ FinishStep \/ Block
           \/ ReturnAtOnce \/ ReturnIgnored \/ DrainWaiter \/ NextEvent \/ get_actions
  <2>1. pending_actions' = pending_actions
    BY <1>5 DEF create_timer, call_activity, call_sub_orchestrator, Schedule,
                await_signal_event, TaskReady, TaskPending, TaskForsaken, TaskIgnored,
                TaskPanics, PolledAgain, FinishStep, Block, ReturnAtOnce, ReturnIgnored,
                DrainWaiter, NextEvent, get_actions, ctx
  <2> QED BY <1>0, <2>1
<1> QED BY <1>2, <1>3, <1>4, <1>5 DEF AnyStep, Execute, Poll

\* pending_tasks.
LEMMA PendingTasksStep ==
    ASSUME IInv, AnyStep
    PROVE  IsMap(pending_tasks, Nat, Handles)'
<1>0. IsMap(pending_tasks, Nat, Handles) /\ Handles \subseteq Handles'
  BY CallsStep DEF IInv, TypeOK, MapsOK
<1>1. ASSUME IsMap(pending_tasks', Nat, Handles) PROVE IsMap(pending_tasks', Nat, Handles')
  BY <1>0, <1>1, MapGrows
<1>2. CASE DrainTask
  <2> DEFINE h == drained + 1
  <2>1. pending_tasks' = Put(pending_tasks, calls[h].id, h) /\ drained < Len(calls)
    BY <1>2 DEF DrainTask
  <2>2. h \in Handles
    BY <2>1, LenProperties DEF IInv, TypeOK, CallsOK, Handles
  <2>3. calls[h] \in Call
    BY <2>2, ElementOfSeq DEF IInv, TypeOK, CallsOK, Handles
  <2>4. calls[h].id \in Nat
    BY <2>3 DEF Call
  <2> QED BY <1>0, <1>1, <2>1, <2>2, <2>4, PutMap
<1>3. ASSUME NEW e, IsEvent(e), process_event(e) PROVE IsMap(pending_tasks', Nat, Handles')
  <2>1. \/ pending_tasks' = pending_tasks
        \/ pending_tasks' = Remove(pending_tasks, e.id)
    BY <1>3 DEF process_event, ExecutionStarted, ExecutionCompleted, ExecutionTerminated,
                IgnoredEvent, TaskScheduled, TimerCreated, SubOrchestrationInstanceCreated,
                Acknowledge, TaskCompleted, TimerFired, TaskFailed,
                SubOrchestrationInstanceCompleted, SubOrchestrationInstanceFailed,
                UnblockAndPoll, Unblock, EventRaised, ctx
  <2> QED BY <1>0, <1>1, <2>1, RemoveMap
<1>4. CASE \/ create_timer \/ call_activity \/ call_sub_orchestrator \/ await_signal_event
           \/ TaskReady \/ TaskPending \/ TaskForsaken \/ TaskIgnored \/ TaskPanics
           \/ PolledAgain \/ FinishStep \/ Block
           \/ Complete \/ ReturnAtOnce \/ ReturnIgnored \/ DrainWaiter \/ NextEvent
           \/ get_actions
  <2>1. pending_tasks' = pending_tasks
    BY <1>4 DEF create_timer, call_activity, call_sub_orchestrator, Schedule,
                await_signal_event, TaskReady, TaskPending, TaskForsaken, TaskIgnored,
                TaskPanics, PolledAgain, FinishStep, Block, Complete, ReturnAtOnce,
                ReturnIgnored, DrainWaiter, NextEvent, get_actions, ctx
  <2> QED BY <1>0, <1>1, <2>1
<1> QED BY <1>2, <1>3, <1>4 DEF AnyStep, Execute, Poll

\* What a step can do to the names in the queues.
LEMMA AwaitQueues ==
    ASSUME IInv, await_signal_event
    PROVE  /\ pending_events' = pending_events
           /\ IsMap(received_events', Keys, Seq(Option))
           /\ DOMAIN received_events' \subseteq DOMAIN received_events
           /\ NonEmpty(received_events')
<1> DEFINE key == to_lowercase(ThisOp.name)
<1>0. /\ IsMap(received_events, Keys, Seq(Option))
      /\ NonEmpty(received_events)
  BY DEF IInv, TypeOK, MapsOK, NoEmptyQueue
<1>1. /\ pending_events' = pending_events
      /\ \/ key \in DOMAIN received_events /\ received_events' = PopFront(received_events, key)
         \/ received_events' = received_events
  BY DEF await_signal_event
<1> HIDE DEF key
<1> QED BY <1>0, <1>1, PopFrontMap

\* Draining a waiter leaves the buffer alone and moves the waiter's name from
\* the channel to pending_events.
LEMMA DrainWaiterQueues ==
    ASSUME IInv, DrainWaiter
    PROVE  /\ received_events' = received_events
           /\ IsMap(pending_events', Keys, Seq(Handles))
           /\ NonEmpty(pending_events')
           /\ \A k \in DOMAIN pending_events' \ DOMAIN pending_events :
                 \E h \in Handles : InFlight(h) /\ calls[h].name = k
<1> DEFINE h == drained + 1
           k == calls[h].name
<1>0. /\ IsMap(pending_events, Keys, Seq(Handles))
      /\ NonEmpty(pending_events)
  BY DEF IInv, TypeOK, MapsOK, NoEmptyQueue
<1>1. /\ received_events' = received_events
      /\ drained < Len(calls)
      /\ calls[h].kind = "signal"
      /\ pending_events' = IF tasks[h].completed THEN pending_events
                           ELSE PushBack(pending_events, k, h)
  BY DEF DrainWaiter
<1>2. h \in Handles /\ InChannel(h)
  BY <1>1, LenProperties DEF IInv, TypeOK, CallsOK, Handles, InChannel
<1>3. k \in Keys
  <2>1. calls[h] \in Call
    BY <1>2, ElementOfSeq DEF IInv, TypeOK, CallsOK, Handles
  <2> QED BY <1>1, <2>1 DEF Call, TaskKinds
<1> HIDE DEF h
<1>4. CASE tasks[h].completed
  BY <1>0, <1>1, <1>4
<1>5. CASE ~tasks[h].completed
  <2>1. pending_events' = PushBack(pending_events, k, h)
    BY <1>1, <1>5
  <2>2. /\ IsMap(PushBack(pending_events, k, h), Keys, Seq(Handles))
        /\ NonEmpty(PushBack(pending_events, k, h))
    BY <1>0, <1>2, <1>3, PushBackMap
  <2>3. DOMAIN PushBack(pending_events, k, h) = DOMAIN pending_events \cup {k}
    BY DEF PushBack, Put
  <2> QED BY <1>1, <1>2, <1>5, <2>1, <2>2, <2>3 DEF InFlight
<1> QED BY <1>4, <1>5

\* EventRaised takes a waiter of the name or buffers the event, whichever there
\* is: it adds a name to the buffer only when nobody in pending_events waits for it.
LEMMA EventRaisedQueues ==
    ASSUME IInv, NEW e, IsEvent(e), EventRaised(e)
    PROVE  /\ IsMap(pending_events', Keys, Seq(Handles))
           /\ IsMap(received_events', Keys, Seq(Option))
           /\ NonEmpty(pending_events')
           /\ NonEmpty(received_events')
           /\ DOMAIN pending_events' \subseteq DOMAIN pending_events
           /\ \/ received_events' = received_events
              \/ DOMAIN received_events' \cap DOMAIN pending_events =
                    DOMAIN received_events \cap DOMAIN pending_events
<1> DEFINE key == to_lowercase(e.name)
<1>0. /\ IsMap(pending_events, Keys, Seq(Handles))
      /\ IsMap(received_events, Keys, Seq(Option))
      /\ NonEmpty(pending_events)
      /\ NonEmpty(received_events)
  BY DEF IInv, TypeOK, MapsOK, NoEmptyQueue
<1>1. e.value \in Option /\ key \in Keys
  BY DEF IsEvent, EventRaised, Keys, to_lowercase
<1>2. \/ /\ key \in DOMAIN pending_events
         /\ pending_events' = PopFront(pending_events, key)
         /\ received_events' = received_events
      \/ /\ key \notin DOMAIN pending_events
         /\ received_events' = PushBack(received_events, key, e.value)
         /\ pending_events' = pending_events
  BY DEF EventRaised
<1> HIDE DEF key
<1>3. CASE key \in DOMAIN pending_events
  BY <1>0, <1>2, <1>3, PopFrontMap
<1>4. CASE key \notin DOMAIN pending_events
  <2>1. received_events' = PushBack(received_events, key, e.value)
        /\ pending_events' = pending_events
    BY <1>2, <1>4
  <2>2. /\ IsMap(PushBack(received_events, key, e.value), Keys, Seq(Option))
        /\ NonEmpty(PushBack(received_events, key, e.value))
    BY <1>0, <1>1, PushBackMap
  <2>3. DOMAIN PushBack(received_events, key, e.value) = DOMAIN received_events \cup {key}
    BY DEF PushBack, Put
  <2> QED BY <1>0, <1>4, <2>1, <2>2, <2>3
<1> QED BY <1>3, <1>4

\* The steps that leave both queue maps alone.
LEMMA OtherQueues ==
    ASSUME AnyStep, ~await_signal_event, ~DrainWaiter,
           \A e : IsEvent(e) /\ process_event(e) => ~EventRaised(e)
    PROVE  UNCHANGED <<pending_events, received_events>>
<1>1. CASE \/ create_timer \/ call_activity \/ call_sub_orchestrator
           \/ TaskReady \/ TaskPending \/ TaskForsaken \/ TaskIgnored \/ TaskPanics
           \/ PolledAgain \/ FinishStep \/ Block
           \/ Complete \/ ReturnAtOnce \/ ReturnIgnored \/ DrainTask \/ NextEvent
           \/ get_actions
  BY <1>1 DEF create_timer, call_activity, call_sub_orchestrator, Schedule,
              TaskReady, TaskPending, TaskForsaken, TaskIgnored, TaskPanics, PolledAgain,
              FinishStep, Block, Complete, ReturnAtOnce, ReturnIgnored, DrainTask, NextEvent,
              get_actions, ctx, queues
<1>2. ASSUME NEW e, IsEvent(e), process_event(e)
      PROVE  UNCHANGED <<pending_events, received_events>>
  BY <1>2 DEF process_event, ExecutionStarted, ExecutionCompleted, ExecutionTerminated,
              IgnoredEvent, TaskScheduled, TimerCreated, SubOrchestrationInstanceCreated,
              Acknowledge, TaskCompleted, TimerFired, TaskFailed,
              SubOrchestrationInstanceCompleted, SubOrchestrationInstanceFailed,
              UnblockAndPoll, Unblock, ctx, queues
<1> QED BY <1>1, <1>2 DEF AnyStep, Execute, Poll

\* Both maps of queues keep their types, and no queue is left empty.
LEMMA QueuesStep ==
    ASSUME IInv, AnyStep
    PROVE  /\ IsMap(pending_events, Keys, Seq(Handles))'
           /\ IsMap(received_events, Keys, Seq(Option))'
           /\ NoEmptyQueue'
<1>0. /\ IsMap(pending_events, Keys, Seq(Handles))
      /\ IsMap(received_events, Keys, Seq(Option))
      /\ NonEmpty(pending_events) /\ NonEmpty(received_events)
  BY DEF IInv, TypeOK, MapsOK, NoEmptyQueue
<1>1. /\ IsMap(pending_events', Keys, Seq(Handles))
      /\ IsMap(received_events', Keys, Seq(Option))
      /\ NonEmpty(pending_events') /\ NonEmpty(received_events')
  <2>1. CASE await_signal_event
    BY <1>0, <2>1, AwaitQueues
  <2>2. CASE DrainWaiter
    BY <1>0, <2>2, DrainWaiterQueues
  <2>3. CASE \E e : IsEvent(e) /\ process_event(e) /\ EventRaised(e)
    BY <2>3, EventRaisedQueues
  <2>4. CASE UNCHANGED <<pending_events, received_events>>
    BY <1>0, <2>4
  <2> QED BY <2>1, <2>2, <2>3, <2>4, OtherQueues
<1>2. Seq(Handles) \subseteq Seq(Handles')
  BY CallsStep, SeqMonotonic
<1>3. IsMap(pending_events', Keys, Seq(Handles'))
  BY <1>1, <1>2, MapGrows
<1> QED BY <1>1, <1>3 DEF NoEmptyQueue

\* A step that makes no call brings nothing into the channels.
LEMMA FlightShrinks ==
    ASSUME CallsOK, SameTasks, calls' = calls, drained' \in drained .. Len(calls),
           NEW h \in Handles, InFlight(h)'
    PROVE  InFlight(h)
BY DEF CallsOK, SameTasks, InFlight, InChannel, Handles

\* A name is never in both maps of queues.
LEMMA EventOrWaiterStep ==
    ASSUME IInv, AnyStep
    PROVE  EventOrWaiter'
<1>0. /\ CallsOK /\ EventOrWaiter /\ DOMAIN calls = Handles /\ Len(calls) \in Nat
      /\ drained \in 0 .. Len(calls)
      /\ DOMAIN received_events \subseteq Keys
  BY LenProperties DEF IInv, TypeOK, CallsOK, MapsOK, IsMap, Handles
<1>1. ASSUME NEW call \in Call, NEW task \in Task, NewCall(call, task),
             call.name \in DOMAIN received_events => task.completed,
             DOMAIN received_events' \subseteq DOMAIN received_events,
             pending_events' = pending_events
      PROVE  EventOrWaiter'
  <2>1. /\ calls' \in Seq(Call) /\ Len(calls') = Len(calls) + 1
        /\ \A h \in Handles : calls'[h] = calls[h] /\ tasks'[h] = tasks[h]
        /\ calls'[Len(calls) + 1] = call /\ tasks'[Len(calls) + 1] = task
    BY <1>0, <1>1, NewCallOK
  <2>2. DOMAIN calls' = 1 .. Len(calls) + 1 /\ drained' = drained
    BY <1>1, <2>1, LenProperties DEF NewCall
  <2>3. ASSUME NEW key \in DOMAIN received_events', NEW h \in DOMAIN calls', InFlight(h)'
        PROVE  calls'[h].name # key
    <3>1. key \in DOMAIN received_events
      BY <1>1, <2>3
    <3>2. CASE h \in Handles
      <4>1. InFlight(h)
        BY <1>0, <2>1, <2>2, <2>3, <3>2 DEF InFlight, InChannel
      <4> QED BY <1>0, <2>1, <3>1, <3>2, <4>1 DEF EventOrWaiter
    <3>3. CASE h = Len(calls) + 1
      <4>1. ~task.completed
        BY <2>1, <2>3, <3>3 DEF InFlight
      <4> QED BY <1>1, <2>1, <3>1, <3>3, <4>1
    <3> QED BY <1>0, <2>2, <3>2, <3>3 DEF Handles
  <2> QED BY <1>0, <1>1, <2>3 DEF EventOrWaiter
<1>2. ASSUME SameTasks, calls' = calls, drained' \in drained .. Len(calls),
             DOMAIN received_events' \subseteq DOMAIN received_events,
             \A k \in DOMAIN pending_events' \ DOMAIN pending_events :
                 \E h \in Handles : InFlight(h) /\ calls[h].name = k
      PROVE  EventOrWaiter'
  <2>1. ASSUME NEW key \in DOMAIN received_events'
        PROVE  /\ key \notin DOMAIN pending_events'
               /\ \A h \in DOMAIN calls' : InFlight(h)' => calls'[h].name # key
    <3>1. key \in DOMAIN received_events
      BY <1>2, <2>1
    <3>2. \A h \in Handles : InFlight(h) => calls[h].name # key
      BY <1>0, <3>1 DEF EventOrWaiter
    <3>3. \A h \in Handles : InFlight(h)' => InFlight(h)
      BY <1>0, <1>2, FlightShrinks
    <3>4. key \notin DOMAIN pending_events
      BY <1>0, <3>1 DEF EventOrWaiter
    <3> QED BY <1>0, <1>2, <3>2, <3>3, <3>4
  <2> QED BY <2>1 DEF EventOrWaiter
<1>3. CASE create_timer \/ call_activity \/ call_sub_orchestrator
  <2>1. \E kind \in TaskKinds : Schedule(kind)
    BY <1>3 DEF create_timer, call_activity, call_sub_orchestrator, TaskKinds
  <2>2. UNCHANGED <<pending_events, received_events>>
    BY <2>1 DEF Schedule, ctx
  <2>3. PICK call \in Call : NewCall(call, NewTask) /\ call.name = None
    BY <2>1, ScheduleCalls
  <2>4. call.name \notin DOMAIN received_events
    BY <1>0, <2>3, KeysAssumption
  <2>5. NewTask \in Task
    BY DEF NewTask, Task, Option
  <2> QED BY <1>1, <2>2, <2>3, <2>4, <2>5
<1>4. CASE await_signal_event
  <2>1. /\ pending_events' = pending_events
        /\ DOMAIN received_events' \subseteq DOMAIN received_events
    BY <1>4, AwaitQueues
  <2>2. CASE UNCHANGED <<calls, tasks, drained>>
    <3>1. SameTasks /\ drained' \in drained .. Len(calls)
      BY <1>0, <2>2, NoTask
    <3> QED BY <1>2, <2>1, <2>2, <3>1
  <2>3. CASE \E call \in Call, task \in Task :
                /\ NewCall(call, task)
                /\ call.name \in DOMAIN received_events => task.completed
    BY <1>1, <2>1, <2>3
  <2> QED BY <1>4, <2>2, <2>3, SignalCalls
<1>5. CASE TaskReady \/ TaskPending \/ TaskForsaken \/ TaskIgnored \/ TaskPanics
           \/ PolledAgain \/ FinishStep \/ Block
           \/ Complete \/ ReturnAtOnce \/ ReturnIgnored
  <2>1. /\ SameTasks /\ calls' = calls /\ drained' \in {drained, Len(calls)}
    BY <1>5, PollTasks
  <2>2. UNCHANGED <<pending_events, received_events>>
    BY <1>5 DEF TaskReady, TaskPending, TaskForsaken, TaskIgnored, TaskPanics, PolledAgain,
                FinishStep, Block, Complete, ReturnAtOnce, ReturnIgnored, ctx, queues
  <2>3. drained' \in drained .. Len(calls)
    BY <1>0, <2>1
  <2> QED BY <1>2, <2>1, <2>2, <2>3
<1>6. CASE DrainTask \/ NextEvent \/ get_actions
  <2>1. /\ UNCHANGED <<calls, tasks, pending_events, received_events>>
        /\ \/ drained' = drained
           \/ drained' = drained + 1 /\ drained < Len(calls)
    BY <1>6 DEF DrainTask, NextEvent, get_actions, called, ctx, queues
  <2>2. SameTasks /\ drained' \in drained .. Len(calls)
    BY <1>0, <2>1, NoTask
  <2> QED BY <1>2, <2>1, <2>2
<1>7. CASE DrainWaiter
  <2>1. UNCHANGED <<calls, tasks>> /\ drained' = drained + 1 /\ drained < Len(calls)
    BY <1>7 DEF DrainWaiter, called
  <2>2. SameTasks /\ drained' \in drained .. Len(calls)
    BY <1>0, <2>1, NoTask
  <2>3. /\ received_events' = received_events
        /\ \A k \in DOMAIN pending_events' \ DOMAIN pending_events :
              \E h \in Handles : InFlight(h) /\ calls[h].name = k
    BY <1>7, DrainWaiterQueues
  <2> QED BY <1>2, <2>1, <2>2, <2>3
<1>8. ASSUME NEW e, IsEvent(e), process_event(e) PROVE EventOrWaiter'
  <2>1. SameTasks /\ UNCHANGED <<calls, drained>>
    BY <1>8, EventTasks
  <2>2. drained' \in drained .. Len(calls)
    BY <1>0, <2>1
  <2>3. drained = Len(calls)
    <3>1. pc = "event"
      BY <1>8, EventTaken
    <3> QED BY <3>1 DEF IInv, Quiescent
  <2>4. \A h \in Handles : ~InFlight(h)'
    BY <1>0, <2>1, <2>3 DEF InFlight, InChannel, Handles
  <2>5. CASE EventRaised(e)
    <3>1. /\ DOMAIN pending_events' \subseteq DOMAIN pending_events
          /\ \/ received_events' = received_events
             \/ DOMAIN received_events' \cap DOMAIN pending_events =
                   DOMAIN received_events \cap DOMAIN pending_events
      BY <1>8, <2>5, EventRaisedQueues
    <3>2. DOMAIN received_events \cap DOMAIN pending_events = {}
      BY <1>0 DEF EventOrWaiter
    <3>3. \A key \in DOMAIN received_events' : key \notin DOMAIN pending_events'
      BY <3>1, <3>2
    <3> QED BY <1>0, <2>1, <2>4, <3>3 DEF EventOrWaiter
  <2>6. CASE ~EventRaised(e)
    <3>1. UNCHANGED <<pending_events, received_events>>
      BY <1>8, <2>6 DEF process_event, ExecutionStarted, ExecutionCompleted,
                  ExecutionTerminated, IgnoredEvent, TaskScheduled, TimerCreated,
                  SubOrchestrationInstanceCreated, Acknowledge, TaskCompleted, TimerFired,
                  TaskFailed, SubOrchestrationInstanceCompleted,
                  SubOrchestrationInstanceFailed, UnblockAndPoll, Unblock, ctx, queues
    <3> QED BY <1>2, <2>1, <2>2, <3>1
  <2> QED BY <2>5, <2>6
<1> QED BY <1>3, <1>4, <1>5, <1>6, <1>7, <1>8 DEF AnyStep, Execute, Poll

-----------------------------------------------------------------------------
(* The theorems.                                                           *)

\* What Next may do is a step on some event.
LEMMA NextIsAnyStep == Next => AnyStep
<1>1. ASSUME NEW e \in Events, Deliverable(e), process_event(e)
      PROVE  IsEvent(e) /\ StartsOnce(e)
  BY <1>1, EventsAssumption DEF Deliverable, StartsOnce, HasStarted
<1> QED BY <1>1 DEF Next, AnyStep

\* Every step of the executor, and every arm of process_event in any order,
\* keeps the invariant.
THEOREM StepIInv == IInv /\ (AnyStep \/ UNCHANGED vars) => IInv'
<1>1. ASSUME IInv, AnyStep PROVE IInv'
  <2>1. ControlOK' /\ Running'
    BY <1>1, ControlStep DEF IInv, TypeOK
  <2>2. PositionOK'
    BY <1>1, PositionStep
  <2>7. HistoryOK'
    BY <1>1, HistoryStep DEF IInv, TypeOK
  <2>3. CallsOK' /\ Quiescent'
    BY <1>1, CallsStep
  <2>4. MapsOK' /\ NoEmptyQueue'
    BY <1>1, ActionsStep, PendingTasksStep, QueuesStep DEF MapsOK
  <2>5. EventOrWaiter'
    BY <1>1, EventOrWaiterStep
  <2>6. BudgetOK'
    BY <1>1, BudgetStep DEF IInv, TypeOK
  <2> QED BY <2>1, <2>2, <2>3, <2>4, <2>5, <2>6, <2>7 DEF IInv, TypeOK
<1>2. ASSUME IInv, UNCHANGED vars PROVE IInv'
  <2>1. UNCHANGED <<history, pc, panic, fn, name, step, op, base, calls, tasks, drained,
                    budget, octx_sequence_number, sequence_number, pending_actions,
                    pending_tasks, pending_events, received_events>>
    BY <1>2 DEF vars, future, called, ctx
  <2> QED BY <1>2, <2>1 DEF IInv, TypeOK, BudgetOK, ControlOK, PositionOK, HistoryOK, CallsOK,
            MapsOK, Handles, Running, Polling, Quiescent, NoEmptyQueue, EventOrWaiter, InFlight,
            InChannel
<1> QED BY <1>1, <1>2

\* The invariant holds in every run of the executor: whatever history it is
\* given, of whatever orchestrator.
THEOREM Invariance == Spec => []IInv
<1>1. IInv /\ [Next]_vars => IInv'
  BY StepIInv, NextIsAnyStep
<1> QED BY InitIInv, <1>1, PTL DEF Spec

\* The executor's state keeps its types, whatever the programs and histories.
THEOREM Typed == Spec => []TypeOK
<1>1. IInv => TypeOK
  BY DEF IInv
<1> QED BY Invariance, <1>1, PTL

\* Looking up a name never finds an empty queue, so that pop_front().unwrap()
\* does not panic.
THEOREM NothingToUnwrap == Spec => []NoEmptyQueue
<1>1. IInv => NoEmptyQueue
  BY DEF IInv
<1> QED BY Invariance, <1>1, PTL

\* No signal lies in the buffer while a call of its name waits.
THEOREM NoMissedSignal == Spec => []EventOrWaiter
<1>1. IInv => EventOrWaiter
  BY DEF IInv
<1> QED BY Invariance, <1>1, PTL
=============================================================================
