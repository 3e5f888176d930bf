----------------------------- MODULE JoinProofs -----------------------------
(***************************************************************************)
(* Proofs about the instances whose orchestrators join what they call:     *)
(* what alone makes the executor panic, that it does not if every input    *)
(* can be decoded, and that an instance that ends with a result has        *)
(* consumed the result of every task it scheduled.                         *)
(***************************************************************************)
EXTENDS RerunProofs

-----------------------------------------------------------------------------
(* One step of the executor.                                               *)

\* The part of JoinInv about the executor.
JoinExec ==
    /\ name \in Orchestrators \cup {None}
    /\ CallsOfStep /\ ResultsOfCalls /\ TakenDecoded /\ ReadyAtEnd /\ PanicsOnValue

\* The events an instance feeds it.
Expected(e) ==
    /\ Fitted(e)
    /\ e.type # "ExecutionCompleted"
    /\ e.type = "ExecutionStarted" => e.name \in Orchestrators \cup {None}
OnlyExpected == \A e : IsEvent(e) /\ process_event(e) => Expected(e)

LEMMA BodyJoins ==
    ASSUME OnlyJoins, Known, name \in Orchestrators \cup {None}
    PROVE  /\ \A k \in DOMAIN Body : Body[k].mode \in {"all", "never"}
           /\ ~Raced
           /\ step \in DOMAIN Body => ~Decided
<1>1. name \in DOMAIN Registry \cap Orchestrators
  BY NamesAssumption DEF Known
<1>2. \A k \in DOMAIN Body : Body[k].mode \in {"all", "never"}
  BY <1>1 DEF OnlyJoins, Body
<1> QED BY <1>2 DEF Raced, Decided

\* Who is given a sender waits for it, unless nobody waits any more.
LEMMA ReadyHoldsNothing ==
    ASSUME SInv, JoinExec, fn # "pending", pc # "panicked"
    PROVE  DOMAIN pending_tasks = {} /\ DOMAIN pending_events = {}
<1>0. IInv /\ HeldIsOwned /\ OnceStarted /\ TypeOK
  BY DEF SInv, IInv, SenderOwned
<1>1. CASE fn = "none"
  BY <1>0, <1>1 DEF OnceStarted
<1>2. CASE fn = "ready"
  <2>1. \A h \in Handles : tasks[h].rx = "taken" /\ tasks[h].tx # "held"
    <3>1. \A h \in DOMAIN tasks : tasks[h].rx = "taken"
      BY <1>2 DEF JoinExec, ReadyAtEnd
    <3> QED BY <1>0, <3>1, HandleTypes DEF JoinExec, TakenDecoded
  <2>2. ASSUME NEW id \in DOMAIN pending_tasks PROVE FALSE
    <3>1. pending_tasks[id] \in Handles
      BY <1>0, HandleTypes
    <3> QED BY <1>0, <2>1, <3>1, HandleTypes DEF HeldIsOwned, AwaitsResult
  <2>3. ASSUME NEW key \in DOMAIN pending_events PROVE FALSE
    <3>1. /\ pending_events[key] \in Seq(Handles) /\ pending_events[key] # <<>>
          /\ Len(pending_events[key]) \in Nat
          /\ DOMAIN pending_events[key] = 1 .. Len(pending_events[key])
          /\ \A i \in DOMAIN pending_events[key] : pending_events[key][i] \in Handles
      BY <1>0, HandleTypes
    <3>2. 1 \in DOMAIN pending_events[key]
      BY <3>1, EmptySeq
    <3>3. pending_events[key][1] \in Handles
      BY <3>1, <3>2
    <3> QED BY <1>0, <2>1, <3>2, <3>3, HandleTypes DEF HeldIsOwned, AwaitsSignal
  <2> QED BY <2>2, <2>3
<1>3. fn \in {"none", "pending", "ready"}
  BY <1>0 DEF TypeOK, ControlOK
<1> QED BY <1>1, <1>2, <1>3

LEMMA NameStays ==
    ASSUME AnyStep, name \in Orchestrators \cup {None}, OnlyExpected
    PROVE  name' \in Orchestrators \cup {None}
<1>1. ASSUME NEW e, IsEvent(e), process_event(e) PROVE name' \in Orchestrators \cup {None}
  <2>1. name' = name \/ (name' = e.name /\ e.type = "ExecutionStarted")
    BY <1>1 DEF process_event, ExecutionStarted, ExecutionCompleted, ExecutionTerminated,
       IgnoredEvent, TaskScheduled, TimerCreated, SubOrchestrationInstanceCreated,
       Acknowledge, TaskCompleted, TimerFired, TaskFailed,
       SubOrchestrationInstanceCompleted, SubOrchestrationInstanceFailed,
       UnblockAndPoll, Unblock, EventRaised, future
  <2> QED BY <1>1, <2>1 DEF OnlyExpected, Expected
<1>2. CASE Execute \/ get_actions
  <2>1. name' = name
    BY <1>2 DEF Execute, Poll, create_timer, call_activity, call_sub_orchestrator, Schedule,
         await_signal_event, TaskReady, TaskPending, TaskForsaken, TaskIgnored, TaskPanics,
         PolledAgain, FinishStep, Block, Complete, ReturnAtOnce, ReturnIgnored, DrainTask,
         DrainWaiter, NextEvent, get_actions, future
  <2> QED BY <2>1
<1> QED BY <1>1, <1>2 DEF AnyStep

\* An event the instance feeds does not panic the executor, if its sender's
\* future is there.
LEMMA EventPanics ==
    ASSUME SInv, JoinExec, NEW e, IsEvent(e), Expected(e), process_event(e),
           panic' # "unblock"
    PROVE  pc' # "panicked" /\ panic' = panic
<1>0. pc = "event" /\ IInv /\ ControlOK
  BY EventTaken DEF SInv, IInv, TypeOK
<1>1. CASE e.type \in Resolved
  <2>1. fn = "pending"
    BY <1>0, <1>1, ReadyHoldsNothing DEF Expected, Fitted
  <2> QED BY <1>0, <1>1, <2>1 DEF process_event, ExecutionStarted, ExecutionCompleted,
       ExecutionTerminated, IgnoredEvent, TaskScheduled, TimerCreated,
       SubOrchestrationInstanceCreated, Acknowledge, TaskCompleted, TimerFired, TaskFailed,
       SubOrchestrationInstanceCompleted, SubOrchestrationInstanceFailed,
       UnblockAndPoll, Unblock, EventRaised, ThenPoll, Goto, Panic
<1>2. CASE e.type = "EventRaised"
  <2>1. fn = "pending" \/ to_lowercase(e.name) \notin DOMAIN pending_events
    BY <1>0, ReadyHoldsNothing
  <2>2. EventRaised(e)
    BY <1>2 DEF process_event, ExecutionStarted, ExecutionCompleted, ExecutionTerminated,
       IgnoredEvent, TaskScheduled, TimerCreated, SubOrchestrationInstanceCreated,
       TaskCompleted, TimerFired, TaskFailed,
       SubOrchestrationInstanceCompleted, SubOrchestrationInstanceFailed, Ignored
  <2> QED BY <2>1, <2>2 DEF EventRaised, ThenPoll, Goto, Panic
<1>3. CASE e.type \notin Resolved \cup {"EventRaised"}
  BY <1>3 DEF process_event, ExecutionStarted, ExecutionCompleted, ExecutionTerminated,
       IgnoredEvent, TaskScheduled, TimerCreated, SubOrchestrationInstanceCreated,
       Acknowledge, TaskCompleted, TimerFired, TaskFailed,
       SubOrchestrationInstanceCompleted, SubOrchestrationInstanceFailed,
       EventRaised, Goto, Panic, Expected, Resolved
<1> QED BY <1>1, <1>2, <1>3

\* Where the call at hand is.
LEMMA CallOfOp ==
    ASSUME SInv, AtOwnCalls, CallsOfStep, AtTask
    PROVE  /\ ThisCall \in Handles /\ calls[ThisCall].kind = ThisOp.kind
           /\ tasks[ThisCall] \in Task
<1>0. /\ IInv /\ Len(calls) \in Nat /\ Handles = 1 .. Len(calls) /\ DOMAIN tasks = Handles
      /\ \A h \in Handles : tasks[h] \in Task
      /\ op \in Nat /\ op >= 1 /\ base \in 0 .. Len(calls)
      /\ Polling => Known
  BY PositionTypes
<1>1. Known /\ step <= Len(Body) /\ base + op <= Len(calls)
  BY <1>0 DEF AtTask, InStep, ThisCall
<1> PICK h : h = base + op
  OBVIOUS
<1>2. h \in base + 1 .. Len(calls) /\ h - base = op /\ h \in Handles
  BY <1>0, <1>1
<1>3. \A g \in base + 1 .. Len(calls) : calls[g].kind = Body[step].ops[g - base].kind
  BY <1>1 DEF CallsOfStep
<1>4. calls[h].kind = Body[step].ops[op].kind
  BY <1>2, <1>3
<1> QED BY <1>0, <1>2, <1>4 DEF ThisCall, ThisOp

LEMMA DecodePanic ==
    ASSUME AInv, AtOwnCalls, JoinExec, TaskReady, panic' = "decode", panic = "none"
    PROVE  \E i \in DOMAIN history' :
              /\ history'[i].type \in (Resolved \ {"TimerFired"}) \cup {"EventRaised"}
              /\ history'[i].value \notin Decodable \cup {None}
<1>0. SInv /\ AnsweredByOwn /\ NumberedInOrder /\ CallsOfStep /\ ResultsOfCalls /\ IInv
  BY DEF AInv, SInv, JoinExec
<1>1. AtTask
  BY DEF TaskReady, Awaited
<1> PICK h : h = ThisCall
  OBVIOUS
<1>2. h \in Handles /\ calls[h].kind = ThisOp.kind /\ tasks[h] \in Task
  BY <1>0, <1>1, CallOfOp
<1>3. /\ history' = history /\ IsReady(tasks[h]) /\ ThisOp.kind # "timer"
      /\ tasks[h].value \notin Decodable
  BY DEF TaskReady, Goto, Panic
<1>4. HasMessage(tasks[h]) /\ tasks[h].value # None /\ h \in DOMAIN tasks /\ h \in DOMAIN calls
  BY <1>0, <1>2, <1>3, HandleTypes DEF IsReady
<1>5. PICK i \in DOMAIN history : About(history[i], calls[h]) /\ history[i].value = tasks[h].value
  BY <1>0, <1>4 DEF AnsweredByOwn
<1>6. CASE calls[h].kind = "signal"
  BY <1>3, <1>4, <1>5, <1>6 DEF About, RaisedFor
<1>7. CASE calls[h].kind # "signal"
  <2>1. history[i].type \in Resolved /\ history[i].id = calls[h].id
    BY <1>5, <1>7 DEF About
  <2>2. ASSUME history[i].type = "TimerFired" PROVE FALSE
    <3>1. PICK g \in TaskCalls : /\ calls[g].id = history[i].id
                                 /\ calls[g].kind \in KindResolved(history[i].type)
      BY <1>0, <2>1 DEF ResultsOfCalls
    <3>2. calls[g].kind = "timer"
      BY <2>2, <3>1 DEF KindResolved
    <3>3. h \in TaskCalls
      <4>1. calls[h] \in Call
        BY <1>0, <1>2, HandleTypes
      <4> QED BY <1>4, <1>7, <4>1 DEF TaskCalls, Call
    <3>4. g \in Int /\ h \in Int
      BY <1>0, <1>2, HandleTypes DEF TaskCalls, Handles
    <3>5. calls[g].id \in Nat /\ calls[h].id \in Nat
      BY <1>0, <3>3, HandleTypes DEF NumberedInOrder
    <3>6. g = h
      BY <1>0, <2>1, <3>1, <3>3, <3>4, <3>5 DEF NumberedInOrder
    <3> QED BY <1>2, <1>3, <3>2, <3>6
  <2> QED BY <1>3, <1>4, <1>5, <2>1, <2>2
<1> QED BY <1>6, <1>7

LEMMA PanicsStep ==
    ASSUME AInv, RInv, RInv', JoinExec, OnlyJoins, OnlyExpected, AnyStep
    PROVE  PanicsOnValue'
<1>0. /\ SInv /\ AtOwnCalls /\ IInv /\ pc # "panicked" /\ panic = "none"
      /\ name' \in Orchestrators \cup {None}
  BY NotPanicked, NameStays DEF AInv, RInv, SInv, JoinExec, Stopped
<1>1. ASSUME NEW e, IsEvent(e), process_event(e) PROVE PanicsOnValue'
  <2>1. panic' # "unblock"
    <3>1. ASSUME Known' PROVE ~Raced'
      <4>1. name' \in DOMAIN Registry \cap Orchestrators
        BY <1>0, <3>1, NamesAssumption DEF Known
      <4>2. \A k \in DOMAIN Registry[name'].body : Registry[name'].body[k].mode \in {"all", "never"}
        BY <4>1 DEF OnlyJoins
      <4> QED BY <4>2 DEF Raced, Body
    <3> QED BY <3>1 DEF RInv, RefusalHasCause
  <2> QED BY <1>0, <1>1, <2>1, EventPanics DEF OnlyExpected, PanicsOnValue
<1>2. CASE Calls
  <2>1. \/ pc' = pc /\ panic' = panic
        \/ pc' = "panicked" /\ panic' = "no value"
    BY <1>0, <1>2, CallMade
  <2> QED BY <1>0, <2>1 DEF PanicsOnValue
<1>3. CASE TaskReady
  <2>1. \/ pc' = pc /\ panic' = panic
        \/ pc' = "panicked" /\ panic' = "decode"
    BY <1>3 DEF TaskReady, Goto, Panic
  <2> QED BY <1>0, <1>3, <2>1, DecodePanic DEF PanicsOnValue
<1>4. CASE FinishStep \/ Rests \/ ReturnAtOnce \/ Drains
  <2>1. \/ pc' # "panicked" /\ panic' = panic
        \/ pc' = "panicked" /\ panic' \in {"no value", "polled again"}
    BY <1>0, <1>4 DEF FinishStep, Rests, Drains, TaskPending, TaskForsaken, TaskIgnored,
       TaskPanics, PolledAgain, Block, Complete, ReturnIgnored, ReturnAtOnce, DrainTask,
       DrainWaiter, NextEvent, get_actions, Goto, Panic
  <2> QED BY <1>0, <2>1 DEF PanicsOnValue
<1> QED BY <1>1, <1>2, <1>3, <1>4, StepKinds

LEMMA StartsAfresh ==
    ASSUME SInv, AtOwnCalls, NEW e, StartsOnce(e), process_event(e), name' # name
    PROVE  ~HasStarted /\ calls = <<>> /\ base = 0 /\ fn = "none"
<1>1. e.type = "ExecutionStarted"
  BY DEF process_event, ExecutionStarted, ExecutionCompleted, ExecutionTerminated,
         IgnoredEvent, TaskScheduled, TimerCreated, SubOrchestrationInstanceCreated,
         Acknowledge, TaskCompleted, TimerFired, TaskFailed,
         SubOrchestrationInstanceCompleted, SubOrchestrationInstanceFailed,
         UnblockAndPoll, Unblock, EventRaised, future
<1>2. ~HasStarted
  BY <1>1 DEF StartsOnce
<1> QED BY <1>2 DEF AtOwnCalls, SInv, OnceStarted

\* Where the program stays, so do the calls of its step.
LEMMA SameCalls ==
    ASSUME CallsOfStep, UNCHANGED <<name, step, base, calls>>
    PROVE  CallsOfStep'
BY DEF CallsOfStep, Known, Body

\* A new call is the next of its step.
LEMMA NextOfStep ==
    ASSUME SInv, AtOwnCalls, CallsOfStep, Calls, Polling => ~Decided,
           NEW call, NEW task, NewCall(call, task), call.kind = ThisOp.kind
    PROVE  CallsOfStep'
<1>0. /\ IInv /\ CallsOK /\ Len(calls) \in Nat /\ Handles = 1 .. Len(calls)
      /\ op \in Nat /\ op >= 1 /\ base \in 0 .. Len(calls) /\ step \in Nat
      /\ Uncalled /\ UNCHANGED <<name, step, op, base>>
  BY PositionTypes, CallMade DEF IInv, TypeOK
<1>1. Polling /\ Known /\ step <= Len(Body) /\ base + op > Len(calls)
  BY <1>0, PositionTypes DEF Uncalled, InStep, ThisCall
<1>2. base + op <= Len(calls) + 1
  BY <1>1 DEF AtOwnCalls
<1>3. /\ Len(calls') = Len(calls) + 1 /\ calls'[Len(calls) + 1] = call
      /\ \A h \in Handles : calls'[h] = calls[h]
  BY <1>0, NewCallOK
<1>4. ASSUME NEW h \in base + 1 .. Len(calls') PROVE calls'[h].kind = Body[step].ops[h - base].kind
  <2>1. CASE h <= Len(calls)
    <3>1. h \in base + 1 .. Len(calls) /\ h \in Handles
      BY <1>0, <1>3, <2>1
    <3> QED BY <1>1, <1>3, <3>1 DEF CallsOfStep
  <2>2. CASE ~(h <= Len(calls))
    <3> PICK n : n = Len(calls)
      OBVIOUS
    <3>1. n \in Nat /\ h \in base + 1 .. n + 1 /\ h > n /\ base + op > n /\ base + op <= n + 1
      BY <1>0, <1>1, <1>2, <1>3, <2>2
    <3>2. h = n + 1 /\ h - base = op
      BY ONLY <1>0, <3>1
    <3> QED BY <1>3, <3>2 DEF ThisOp
  <2> QED BY <2>1, <2>2
<1> QED BY <1>0, <1>4 DEF CallsOfStep, Known, Body

LEMMA CallsOfStepStep ==
    ASSUME SInv, AtOwnCalls, CallsOfStep, AnyStep, OnlyJoins, name \in Orchestrators \cup {None}
    PROVE  CallsOfStep'
<1>0. IInv
  BY DEF SInv
<1>1. ASSUME NEW e, IsEvent(e), StartsOnce(e), process_event(e) PROVE CallsOfStep'
  <2>1. UNCHANGED <<step, base, calls>>
    BY <1>0, <1>1, EventControl, EventTasks
  <2>2. CASE name' = name
    BY <2>1, <2>2, SameCalls
  <2>3. CASE name' # name
    <3>1. calls = <<>> /\ base = 0
      BY <1>1, <2>3, StartsAfresh
    <3>2. Len(calls') = 0 /\ base' = 0
      BY <2>1, <3>1
    <3>3. base' + 1 .. Len(calls') = {}
      BY <3>2
    <3> QED BY <3>3 DEF CallsOfStep
  <2> QED BY <2>2, <2>3
<1>2. CASE Calls
  <2>1. UNCHANGED <<name, step, base>> /\ Uncalled
    BY <1>0, <1>2, CallMade
  <2>2. ~Decided
    <3>1. Polling /\ step <= Len(Body)
      BY <2>1 DEF Uncalled, InStep
    <3>2. Known /\ step \in Nat /\ step >= 1
      BY <3>1, PositionTypes
    <3>3. step \in DOMAIN Body
      BY <3>1, <3>2, KnownBody
    <3> QED BY <3>2, <3>3, BodyJoins
  <2>3. ASSUME NEW kind \in TaskKinds, Schedule(kind) PROVE CallsOfStep'
    <3>1. ThisOp.kind = kind
      BY <2>3 DEF Schedule
    <3> QED BY <1>0, <1>2, <2>2, <2>3, <3>1, ScheduleCalls, NextOfStep
  <2>4. CASE await_signal_event
    <3>1. ThisOp.kind = "signal"
      BY <2>4 DEF await_signal_event
    <3> QED BY <1>0, <1>2, <2>1, <2>2, <2>4, <3>1, SignalCalls, NextOfStep, SameCalls
  <2> QED BY <1>2, <2>3, <2>4 DEF Calls, create_timer, call_activity, call_sub_orchestrator,
                                  TaskKinds
<1>3. CASE FinishStep
  <2>1. base' = Len(calls) /\ calls' = calls
    BY <1>3 DEF FinishStep
  <2>2. Len(calls) \in Nat
    BY PositionTypes
  <2>3. base' + 1 .. Len(calls') = {}
    BY <2>1, <2>2
  <2> QED BY <2>3 DEF CallsOfStep
<1>4. CASE TaskReady \/ Rests \/ ReturnAtOnce \/ Drains
  BY <1>4, SameCalls DEF TaskReady, Rests, Drains, TaskPending, TaskForsaken, TaskIgnored,
     TaskPanics, PolledAgain, Block, Complete, ReturnIgnored, ReturnAtOnce, DrainTask,
     DrainWaiter, NextEvent, get_actions, future, called
<1> QED BY <1>1, <1>2, <1>3, <1>4, StepKinds

LEMMA CallsStay ==
    ASSUME IInv, AnyStep
    PROVE  \A h \in DOMAIN calls : h \in DOMAIN calls' /\ calls'[h] = calls[h]
<1>1. CASE ReturnAtOnce
  BY <1>1 DEF ReturnAtOnce
<1>2. CASE ~ReturnAtOnce
  BY <1>2, CallsGrow
<1> QED BY <1>1, <1>2

LEMMA ResultsOfCallsStep ==
    ASSUME SInv, ResultsOfCalls, AnyStep, OnlyExpected
    PROVE  ResultsOfCalls'
<1>0. IInv /\ HistoryOK /\ TasksOfCalls
  BY DEF SInv, IInv, TypeOK, SenderOwned
<1>1. \A h \in TaskCalls : h \in TaskCalls' /\ calls'[h] = calls[h]
  BY <1>0, CallsStay DEF TaskCalls
<1>2. CASE history' = history
  BY <1>1, <1>2 DEF ResultsOfCalls
<1>3. ASSUME NEW e, IsEvent(e), process_event(e) PROVE ResultsOfCalls'
  <2>1. history' = Append(history, e) /\ Expected(e)
    BY <1>3, EventTaken DEF OnlyExpected
  <2>2. \A i \in DOMAIN history' : \/ i \in DOMAIN history /\ history'[i] = history[i]
                                   \/ history'[i] = e
    BY <1>0, <1>3, <2>1, Recorded
  <2>3. ASSUME e.type \in Resolved
        PROVE  \E h \in TaskCalls : calls[h].id = e.id /\ calls[h].kind \in KindResolved(e.type)
    <3>1. e.id \in DOMAIN pending_tasks /\ calls[pending_tasks[e.id]].kind \in KindResolved(e.type)
      BY <2>1, <2>3 DEF Expected, Fitted
    <3>2. pending_tasks[e.id] \in DOMAIN calls
      BY <1>0, <3>1, HandleTypes
    <3> QED BY <1>0, <3>1, <3>2 DEF TasksOfCalls, TaskCalls
  <2> QED BY <1>1, <2>2, <2>3 DEF ResultsOfCalls
<1> QED BY <1>2, <1>3, EventOrNone DEF AnyStep

\* Values are taken by TaskReady alone.
LEMMA TakenBefore ==
    ASSUME SInv, AtOwnCalls, AnyStep, ~TaskReady, NEW h \in DOMAIN tasks'
    PROVE  /\ tasks'[h].rx = "taken" => h \in Handles /\ tasks[h].rx = "taken"
           /\ h \in Handles => tasks'[h].completed = tasks[h].completed
           /\ h \notin Handles => (tasks'[h].completed => tasks'[h].tx # "held")
<1>0. /\ IInv /\ CallsOK /\ Len(calls) \in Nat /\ Handles = 1 .. Len(calls) /\ DOMAIN tasks = Handles
      /\ \A g \in Handles : tasks[g] \in Task
  BY PositionTypes DEF IInv, TypeOK
<1>1. ASSUME NEW e, IsEvent(e), process_event(e)
      PROVE  h \in Handles /\ tasks'[h].rx = tasks[h].rx /\ tasks'[h].completed = tasks[h].completed
  <2>1. SameTasks
    BY <1>0, <1>1, EventTasks
  <2>2. DOMAIN tasks' = Handles
    <3>1. Len(tasks') = Len(tasks) /\ tasks' \in Seq(Task) /\ Len(tasks) = Len(calls)
      BY <1>0, <2>1 DEF SameTasks, CallsOK
    <3> QED BY <1>0, <3>1, LenProperties
  <2> QED BY <1>0, <1>1, <2>1, <2>2, EventFutures DEF SameTasks
<1>2. CASE Calls
  <2>1. ASSUME UNCHANGED <<calls, tasks>> PROVE h \in Handles /\ tasks'[h] = tasks[h]
    BY <1>0, <2>1
  <2>2. ASSUME NEW call, NEW task, NewCall(call, task), task.rx = "waiting",
               task.completed => task.tx # "held"
        PROVE  \/ h \in Handles /\ tasks'[h] = tasks[h]
               \/ /\ h \notin Handles /\ tasks'[h].rx = "waiting"
                  /\ tasks'[h].completed => tasks'[h].tx # "held"
    <3>1. /\ tasks' \in Seq(Task) /\ Len(tasks') = Len(calls) + 1
          /\ \A g \in Handles : tasks'[g] = tasks[g]
          /\ tasks'[Len(calls) + 1] = task
      BY <1>0, <2>2, NewCallOK
    <3>2. h \in Handles \/ (h = Len(calls) + 1 /\ h \notin Handles)
      BY <1>0, <3>1, LenProperties
    <3> QED BY <2>2, <3>1, <3>2
  <2>3. NewTask.rx = "waiting" /\ ~NewTask.completed
    BY DEF NewTask
  <2>4. ASSUME NEW kind \in TaskKinds, Schedule(kind)
        PROVE  \E call \in Call : NewCall(call, NewTask)
    BY <1>0, <2>4, ScheduleCalls
  <2>5. ASSUME await_signal_event
        PROVE  \/ UNCHANGED <<calls, tasks>>
               \/ \E call \in Call, task \in Task :
                     /\ NewCall(call, task) /\ task.rx = "waiting"
                     /\ task.completed => task.tx # "held"
    <3>1. \/ UNCHANGED <<calls, tasks>>
          \/ \E call \in Call, task \in Task :
                NewCall(call, task) /\ (task.tx = "held" <=> ~task.completed)
      BY <1>0, <2>5, SignalCalls
    <3>2. \/ UNCHANGED <<calls, tasks>>
          \/ tasks'[Len(calls) + 1].rx = "waiting"
      BY <1>0, <1>2, CallMade
    <3>3. ASSUME NEW call \in Call, NEW task \in Task, NewCall(call, task)
          PROVE  tasks'[Len(calls) + 1] = task
      BY <1>0, <3>3, NewCallOK
    <3> QED BY <3>1, <3>2, <3>3
  <2>6. \/ h \in Handles /\ tasks'[h] = tasks[h]
        \/ /\ h \notin Handles /\ tasks'[h].rx = "waiting"
           /\ tasks'[h].completed => tasks'[h].tx # "held"
    BY <1>2, <2>1, <2>2, <2>3, <2>4, <2>5
       DEF Calls, create_timer, call_activity, call_sub_orchestrator, TaskKinds
  <2> QED BY <2>6
<1>3. CASE FinishStep \/ Rests \/ ReturnAtOnce \/ Drains
  <2>1. DOMAIN tasks' = Handles /\ tasks'[h].completed = tasks[h].completed
    BY <1>0, <1>3, PollFutures
  <2>2. tasks'[h].rx = "taken" => tasks[h].rx = "taken"
    <3>1. CASE FinishStep
      <4>1. tasks'[h] \in {tasks[h], DropFuture(tasks[h])}
        BY <1>0, <2>1, <3>1 DEF FinishStep
      <4> QED BY <1>0, <2>1, <4>1 DEF DropFuture, Unfinished, Task
    <3>2. CASE ReturnAtOnce
      <4>1. tasks'[h] = DropSender(tasks[h])
        BY <1>0, <2>1, <3>2 DEF ReturnAtOnce
      <4> QED BY <1>0, <2>1, <4>1 DEF DropSender, Task
    <3>4. CASE TaskForsaken
      <4> PICK g : g = ThisCall
        OBVIOUS
      <4>1. tasks' = [tasks EXCEPT ![g] = Fail(tasks[g])]
        BY <3>4 DEF TaskForsaken
      <4>2. tasks'[h] \in {tasks[h], Fail(tasks[h])}
        BY <1>0, <2>1, <4>1
      <4> QED BY <1>0, <2>1, <4>2 DEF Fail, Task
    <3>3. CASE (Rests /\ ~TaskForsaken) \/ Drains
      <4>1. tasks' = tasks
        BY <3>3 DEF Rests, Drains, TaskPending, TaskIgnored, TaskPanics, PolledAgain, Block,
           Complete, ReturnIgnored, DrainTask, DrainWaiter, NextEvent, get_actions, called
      <4> QED BY <4>1
    <3> QED BY <1>3, <3>1, <3>2, <3>3, <3>4
  <2> QED BY <2>1, <2>2
<1> QED BY <1>1, <1>2, <1>3, StepKinds

LEMMA TakenDecodedStep ==
    ASSUME SInv, AtOwnCalls, CallsOfStep, TakenDecoded, AnyStep
    PROVE  TakenDecoded'
<1>0. /\ IInv /\ DOMAIN tasks = Handles /\ DOMAIN calls = Handles /\ pc # "panicked"
      /\ \A h \in Handles : tasks[h] \in Task
  BY PositionTypes, NotPanicked, HandleTypes DEF SInv
<1>1. CASE ~TaskReady
  <2>1. ASSUME NEW h \in DOMAIN tasks', tasks'[h].completed PROVE tasks'[h].tx # "held"
    <3>1. CASE h \in Handles
      <4>1. tasks[h].completed /\ tasks[h].tx # "held"
        BY <1>0, <1>1, <2>1, <3>1, TakenBefore DEF TakenDecoded
      <4> QED BY <1>0, <3>1, <4>1, SenderStep DEF TaskStays
    <3> QED BY <1>1, <2>1, <3>1, TakenBefore
  <2>2. ASSUME NEW h \in DOMAIN tasks', tasks'[h].rx = "taken"
        PROVE  /\ tasks'[h].tx # "held" /\ HasMessage(tasks'[h]) /\ tasks'[h].value # None
               /\ calls'[h].kind # "timer" => tasks'[h].value \in Decodable
    <3>1. h \in Handles /\ tasks[h].rx = "taken" /\ tasks'[h].completed = tasks[h].completed
      BY <1>1, <2>2, TakenBefore
    <3>2. /\ tasks[h].tx # "held" /\ HasMessage(tasks[h]) /\ tasks[h].value # None
          /\ calls[h].kind # "timer" => tasks[h].value \in Decodable
      BY <1>0, <3>1 DEF TakenDecoded
    <3>3. tasks'[h].tx = tasks[h].tx /\ tasks'[h].value = tasks[h].value
      BY <1>0, <3>1, <3>2, SenderStep DEF TaskStays
    <3>4. calls'[h] = calls[h]
      BY <1>0, <3>1, CallsStay
    <3> QED BY <3>1, <3>2, <3>3, <3>4 DEF HasMessage
  <2> QED BY <2>1, <2>2 DEF TakenDecoded
<1>2. CASE TaskReady
  <2> PICK g : g = ThisCall
    OBVIOUS
  <2>1. g \in Handles /\ calls[g].kind = ThisOp.kind /\ tasks[g] \in Task
    BY <1>2, CallOfOp DEF TaskReady, Awaited
  <2>2. /\ tasks' = [tasks EXCEPT ![g] = Take(tasks[g])] /\ IsReady(tasks[g]) /\ calls' = calls
        /\ pc' # "panicked" => ThisOp.kind = "timer" \/ tasks[g].value \in Decodable
    BY <1>2 DEF TaskReady, Panic
  <2>3. tasks[g].tx # "held"
    BY <1>0, <2>1, <2>2 DEF TakenDecoded, IsReady, HasMessage
  <2>4. /\ Take(tasks[g]).tx = tasks[g].tx /\ Take(tasks[g]).value = tasks[g].value
        /\ Take(tasks[g]).completed = tasks[g].completed
    BY <2>1 DEF Take, Task
  <2>5. \A h \in DOMAIN tasks' : h \in Handles /\ (tasks'[h] = tasks[h] \/ (h = g /\ tasks'[h] = Take(tasks[g])))
    BY <1>0, <2>1, <2>2
  <2>6. ASSUME NEW h \in DOMAIN tasks', tasks'[h].completed PROVE tasks'[h].tx # "held"
    BY <1>0, <2>3, <2>4, <2>5, <2>6 DEF TakenDecoded
  <2>7. ASSUME NEW h \in DOMAIN tasks', tasks'[h].rx = "taken", pc' # "panicked"
        PROVE  /\ tasks'[h].tx # "held" /\ HasMessage(tasks'[h]) /\ tasks'[h].value # None
               /\ calls'[h].kind # "timer" => tasks'[h].value \in Decodable
    <3>1. CASE tasks'[h] = tasks[h]
      BY <1>0, <2>2, <2>5, <2>7, <3>1 DEF TakenDecoded
    <3>2. CASE h = g /\ tasks'[h] = Take(tasks[g])
      BY <2>1, <2>2, <2>3, <2>4, <2>7, <3>2 DEF IsReady, HasMessage
    <3> QED BY <2>5, <3>1, <3>2
  <2> QED BY <2>6, <2>7 DEF TakenDecoded
<1> QED BY <1>1, <1>2

\* What has returned awaited all that was called.
LEMMA ReturnedTookAll ==
    ASSUME SInv, AtOwnCalls, DroppedByRace, OnlyJoins, name \in Orchestrators \cup {None},
           AtReturn
    PROVE  Known /\ \A h \in DOMAIN tasks : tasks[h].rx = "taken"
<1>1. /\ Known /\ Len(calls) \in Nat /\ Handles = 1 .. Len(calls) /\ DOMAIN tasks = Handles
      /\ \A h \in Handles : tasks[h] \in Task
  BY PositionTypes DEF AtReturn
<1>2. Len(calls) = base
  BY <1>1 DEF AtReturn, AtOwnCalls
<1>3. ASSUME NEW h \in DOMAIN tasks PROVE tasks[h].rx = "taken"
  <2>1. h <= base
    BY <1>1, <1>2
  <2>2. tasks[h].rx # "waiting" /\ tasks[h].rx # "failed"
    BY <2>1 DEF AtOwnCalls, Unfinished
  <2>3. tasks[h].rx # "dropped"
    BY <1>1, BodyJoins DEF DroppedByRace
  <2> QED BY <1>1, <2>2, <2>3 DEF Task
<1> QED BY <1>1, <1>3

LEMMA ReadyAtEndStep ==
    ASSUME SInv, AtOwnCalls, DroppedByRace, ReadyAtEnd, AnyStep, OnlyJoins,
           name \in Orchestrators \cup {None}
    PROVE  ReadyAtEnd'
<1>0. /\ IInv /\ ControlOK /\ OnceStarted /\ MapsOK /\ DOMAIN tasks = Handles
      /\ sequence_number \in Nat /\ IsMap(pending_actions, Nat, Actions)
  BY PositionTypes DEF SInv, IInv, TypeOK, CallsOK, MapsOK
<1>1. \A id \in DOMAIN pending_actions' :
          pending_actions'[id] \in Results =>
             \/ Complete
             \/ id \in DOMAIN pending_actions /\ pending_actions'[id] = pending_actions[id]
  <2>1. CASE DrainTask
    <3>1. /\ calls[drained + 1].kind \in TaskKinds
          /\ pending_actions' = Put(pending_actions, calls[drained + 1].id, calls[drained + 1].kind)
      BY <2>1 DEF DrainTask
    <3> QED BY <3>1 DEF Put, TaskKinds, Results
  <2>2. CASE (Execute \/ get_actions) /\ ~DrainTask
    BY <2>2, PollActions
  <2>3. ASSUME NEW e, IsEvent(e), process_event(e)
        PROVE  \/ \A id \in DOMAIN pending_actions' :
                     id \in DOMAIN pending_actions /\ pending_actions'[id] = pending_actions[id]
               \/ pending_actions' = Put(pending_actions, sequence_number + 1, "Terminated")
    BY <2>3 DEF process_event, ExecutionStarted, ExecutionCompleted, ExecutionTerminated,
       IgnoredEvent, TaskScheduled, TimerCreated, SubOrchestrationInstanceCreated,
       Acknowledge, TaskCompleted, TimerFired, TaskFailed,
       SubOrchestrationInstanceCompleted, SubOrchestrationInstanceFailed,
       UnblockAndPoll, Unblock, EventRaised, ctx, Remove
  <2>4. ASSUME NEW e, IsEvent(e), process_event(e), NEW id \in DOMAIN pending_actions',
               pending_actions'[id] \in Results
        PROVE  id \in DOMAIN pending_actions /\ pending_actions'[id] = pending_actions[id]
    BY <2>3, <2>4 DEF Put, Results
  <2> QED BY <2>1, <2>2, <2>4 DEF AnyStep
<1>2. CASE Complete \/ ReturnIgnored
  <2>1. /\ AtReturn /\ fn' = "ready" /\ UNCHANGED <<name, step, tasks>>
        /\ step > Len(Body)
    BY <1>2 DEF Complete, ReturnIgnored, AtReturn, called
  <2>2. Known /\ \A h \in DOMAIN tasks : tasks[h].rx = "taken"
    BY <2>1, ReturnedTookAll
  <2> QED BY <2>1, <2>2 DEF ReadyAtEnd, Known, Body
<1>3. CASE ~Complete /\ ~ReturnIgnored
  <2>1. fn = "ready" => fn' = "ready"
    <3>1. ASSUME fn = "ready" PROVE ~Polling
      BY <3>1, <1>0 DEF OnceStarted, Polling
    <3>2. ASSUME NEW e, IsEvent(e), process_event(e) PROVE fn' = fn
      BY <3>2, EventControl
    <3> QED BY <3>1, <3>2 DEF AnyStep, Execute, Poll, create_timer, call_activity,
         call_sub_orchestrator, Schedule, await_signal_event, TaskReady, TaskPending,
         TaskForsaken, TaskIgnored, TaskPanics, PolledAgain, FinishStep, Block, Complete,
         ReturnAtOnce, ReturnIgnored, DrainTask, DrainWaiter, NextEvent, get_actions, future,
         Awaited, AtTask, Uncalled, InStep, AtStepEnd, AtReturn, Polling
  <2>2. ASSUME fn' = "ready"
        PROVE  /\ fn = "ready" /\ UNCHANGED <<name, step>> /\ DOMAIN tasks' = Handles
               /\ \A h \in Handles : tasks'[h].rx = tasks[h].rx
    <3>1. fn = "ready"
      <4>1. ASSUME NEW e, IsEvent(e), process_event(e) PROVE fn' = fn
        BY <4>1, EventControl
      <4> QED BY <1>3, <2>2, <4>1 DEF AnyStep, Execute, Poll, create_timer, call_activity,
         call_sub_orchestrator, Schedule, await_signal_event, TaskReady, TaskPending,
         TaskForsaken, TaskIgnored, TaskPanics, PolledAgain, FinishStep, Block, ReturnAtOnce,
         DrainTask, DrainWaiter, NextEvent, get_actions, future
    <3>2. ~Polling /\ HasStarted
      BY <3>1, <1>0 DEF OnceStarted, Polling
    <3>3. ASSUME NEW e, IsEvent(e), StartsOnce(e), process_event(e)
          PROVE  /\ UNCHANGED <<name, step>> /\ DOMAIN tasks' = Handles
                 /\ \A h \in Handles : tasks'[h].rx = tasks[h].rx
      <4>1. step' = step /\ name' = name
        BY <3>2, <3>3, EventControl, StartsAfresh
      <4>2. DOMAIN tasks' = Handles
        <5>1. Len(tasks') = Len(tasks) /\ tasks' \in Seq(Task) /\ Len(tasks) = Len(calls)
          BY <1>0, <3>3, EventTasks DEF SameTasks, IInv, TypeOK, CallsOK
        <5> QED BY <1>0, <5>1, LenProperties DEF Handles
      <4> QED BY <1>0, <3>3, <4>1, <4>2, EventFutures
    <3>4. CASE Drains
      <4>1. UNCHANGED <<name, step, tasks>>
        BY <3>4 DEF Drains, DrainTask, DrainWaiter, NextEvent, get_actions, future, called
      <4> QED BY <1>0, <3>1, <4>1
    <3>5. Drains \/ \E e : IsEvent(e) /\ StartsOnce(e) /\ process_event(e)
      BY <3>2, StepKinds DEF Calls, Rests, create_timer, call_activity,
         call_sub_orchestrator, Schedule, await_signal_event, TaskReady, TaskPending,
         TaskForsaken, TaskIgnored, TaskPanics, PolledAgain, FinishStep, Block, Complete,
         ReturnAtOnce, ReturnIgnored, Awaited, AtTask, Uncalled, InStep, AtStepEnd, AtReturn
    <3> QED BY <3>1, <3>3, <3>4, <3>5
  <2>3. fn' = "ready" => Known' /\ step' > Len(Body') /\ \A h \in DOMAIN tasks' : tasks'[h].rx = "taken"
    BY <1>0, <2>2 DEF ReadyAtEnd, Known, Body
  <2>4. \A id \in DOMAIN pending_actions' : pending_actions'[id] \in Results => fn' = "ready"
    BY <1>1, <1>3, <2>1 DEF ReadyAtEnd
  <2> QED BY <2>3, <2>4 DEF ReadyAtEnd
<1> QED BY <1>2, <1>3

LEMMA StepJoinExec ==
    ASSUME AInv, RInv, RInv', JoinExec, OnlyJoins, OnlyExpected, AnyStep
    PROVE  JoinExec'
<1>1. SInv /\ AtOwnCalls /\ DroppedByRace
  BY DEF RInv
<1>2. name' \in Orchestrators \cup {None} /\ PanicsOnValue'
  BY NameStays, PanicsStep DEF JoinExec
<1>3. CallsOfStep' /\ ResultsOfCalls' /\ TakenDecoded' /\ ReadyAtEnd'
  BY <1>1, CallsOfStepStep, ResultsOfCallsStep, TakenDecodedStep, ReadyAtEndStep DEF JoinExec
<1> QED BY <1>2, <1>3 DEF JoinExec

LEMMA InitJoinExec == Init => JoinExec
<1> SUFFICES ASSUME Init PROVE JoinExec
  OBVIOUS
<1>1. /\ history = <<>> /\ pc = "event" /\ panic = "none" /\ fn = "none" /\ name = None
      /\ calls = <<>> /\ tasks = <<>> /\ base = 0 /\ DOMAIN pending_actions = {}
  BY EmptyMapIsMap DEF Init
<1>2. DOMAIN tasks = {} /\ DOMAIN history = {} /\ base + 1 .. Len(calls) = {}
  BY <1>1
<1> QED BY <1>1, <1>2 DEF JoinExec, CallsOfStep, ResultsOfCalls, TakenDecoded, ReadyAtEnd,
                          PanicsOnValue

-----------------------------------------------------------------------------
(* The instance.                                                           *)

\* What a work item is made of, and what becomes of it.
LEMMA ItemElements ==
    ASSUME LedgerInv, ~Idle, NEW i \in DOMAIN item
    PROVE  item[i] = Marker \/ item[i] \in Range(log) \cup Range(inbox)
<1>0. /\ MessagesOK /\ ItemOK /\ log \in Seq(Message) /\ inbox \in Seq(Message)
  BY DEF LedgerInv, MessagesOK
<1> PICK n, b, l : n = Len(log) /\ b = batch /\ l = Len(inbox)
  OBVIOUS
<1>1. /\ n \in Nat /\ b \in 1 .. l /\ l \in Nat /\ Len(item) = n + 1 + b
      /\ i \in 1 .. n + 1 + b /\ DOMAIN log = 1 .. n /\ DOMAIN inbox = 1 .. l
      /\ \A k \in 1 .. n : item[k] = log[k]
      /\ item[n + 1] = Marker
      /\ \A k \in 1 .. b : item[n + 1 + k] = inbox[k]
  BY <1>0, ItemParts, LenProperties
<1>2. CASE i <= n
  <2>1. i \in DOMAIN log /\ item[i] = log[i]
    BY <1>1, <1>2
  <2> QED BY <2>1 DEF Range
<1>3. CASE i = n + 1
  BY <1>1, <1>3
<1>4. CASE i > n + 1
  <2> PICK k : k = i - n - 1
    OBVIOUS
  <2>1. k \in 1 .. b /\ k \in 1 .. l /\ i = n + 1 + k
    <3>1. n \in Nat /\ b \in 1 .. l /\ l \in Nat /\ i \in 1 .. n + 1 + b /\ i > n + 1
      BY <1>1, <1>4
    <3> QED BY ONLY <3>1, k = i - n - 1
  <2>2. item[i] = inbox[k] /\ k \in DOMAIN inbox
    BY <1>1, <2>1
  <2> QED BY <2>2 DEF Range
<1> QED BY <1>1, <1>2, <1>3, <1>4

LEMMA RestElements ==
    ASSUME LedgerInv, ~Idle, NEW rest, rest = SubSeq(inbox, batch + 1, Len(inbox)),
           NEW i \in DOMAIN rest
    PROVE  rest[i] \in Range(inbox)
<1>1. PICK taken, r \in Seq(Message) : inbox = taken \o r /\ r = rest
  BY InParts
<1> PICK m, n : m = Len(taken) /\ n = Len(rest)
  OBVIOUS
<1>2. /\ m \in Nat /\ n \in Nat /\ DOMAIN rest = 1 .. n /\ DOMAIN inbox = 1 .. m + n
      /\ \A k \in 1 .. m + n : inbox[k] = IF k <= m THEN taken[k] ELSE rest[k - m]
  <2> PICK both : both = taken \o rest
    OBVIOUS
  <2>1. taken \in Seq(Message) /\ rest \in Seq(Message) /\ inbox = both
    BY <1>1
  <2>2. /\ both \in Seq(Message) /\ Len(both) = m + n
        /\ \A k \in 1 .. m + n : both[k] = IF k <= m THEN taken[k] ELSE rest[k - m]
    BY <2>1, ConcatProperties
  <2> QED BY <2>1, <2>2, LenProperties
<1> PICK k : k = m + i
  OBVIOUS
<1>3. k \in 1 .. m + n /\ ~(k <= m) /\ k - m = i
  BY ONLY <1>2, k = m + i, i \in DOMAIN rest
<1>4. inbox[k] = rest[i] /\ k \in DOMAIN inbox
  BY <1>2, <1>3
<1> QED BY <1>4 DEF Range

LEMMA AnswerElements ==
    ASSUME AInv, LedgerInv, complete_orchestrator_task
    PROVE  /\ \A i \in DOMAIN log' :
                 \/ log'[i] = Marker
                 \/ log'[i] \in Range(log) \cup Range(inbox)
                 \/ \E id \in DOMAIN pending_actions :
                       /\ log'[i] = Acknowledgement(id)
                       /\ status' = "running" => ~IsEnding(id)
           /\ \A i \in DOMAIN inbox' : inbox'[i] \in Range(inbox)
<1>0. ~Idle /\ MapsOK /\ IsFiniteSet(DOMAIN pending_actions)
  BY AllSeen DEF AInv, SInv, IInv, TypeOK, LedgerInv, ItemOK, complete_orchestrator_task
<1>1. PICK order \in Orders(DOMAIN pending_actions), acks \in Seq(Message) :
          /\ acks = Acks(order) /\ EndsBy(order) /\ log' = item \o acks
          /\ DOMAIN acks = DOMAIN order
          /\ Len(item) \in Nat /\ Len(acks) \in Nat
          /\ Len(log') = Len(item) + Len(acks) /\ DOMAIN log' = 1 .. Len(log')
          /\ DOMAIN acks = 1 .. Len(acks) /\ DOMAIN item = 1 .. Len(item)
          /\ \A i \in DOMAIN item : log'[i] = item[i]
          /\ \A k \in DOMAIN acks : log'[Len(item) + k] = acks[k]
  BY AnswerLog
<1>2. \A k \in DOMAIN order : order[k] \in DOMAIN pending_actions
  BY <1>0, FS_CardinalityType DEF Orders
<1>3. \A id \in DOMAIN pending_actions : IsEnding(id) => pending_actions[id] # "running"
  BY <1>0 DEF MapsOK, IsMap, Actions, TaskKinds, Results
<1>4. ASSUME status' = "running", NEW k \in DOMAIN order PROVE ~IsEnding(order[k])
  BY <1>1, <1>2, <1>3, <1>4 DEF EndsBy
<1>5. ASSUME NEW i \in DOMAIN log', i \notin DOMAIN item
      PROVE  \E id \in DOMAIN pending_actions :
                 log'[i] = Acknowledgement(id) /\ (status' = "running" => ~IsEnding(id))
  <2> PICK n, m, k : n = Len(item) /\ m = Len(acks) /\ k = i - n
    OBVIOUS
  <2>1. n \in Nat /\ m \in Nat /\ i \in 1 .. n + m /\ i \notin 1 .. n
    BY <1>1, <1>5
  <2>2. k \in 1 .. m /\ i = n + k
    BY ONLY <2>1, k = i - n
  <2>3. k \in DOMAIN order /\ log'[i] = Acknowledgement(order[k])
    BY <1>1, <2>2 DEF Acks
  <2> QED BY <1>2, <1>4, <2>3
<1>6. \A i \in DOMAIN log' : i \in DOMAIN item =>
          log'[i] = Marker \/ log'[i] \in Range(log) \cup Range(inbox)
  BY <1>0, <1>1, ItemElements
<1>7. \A i \in DOMAIN inbox' : inbox'[i] \in Range(inbox)
  BY <1>0, RestElements DEF complete_orchestrator_task
<1> QED BY <1>5, <1>6, <1>7

LEMMA ItemIsExpected ==
    ASSUME LedgerInv, HistoryOK, Deterministic, NotEnded,
           ExecuteEvent \/ ExecuteStep \/ ExecuteEnd
    PROVE  OnlyExpected
<1> SUFFICES ASSUME NEW e, IsEvent(e), process_event(e) PROVE Expected(e)
  BY DEF OnlyExpected
<1>0. MessagesOK /\ ItemOK /\ StartsFirst /\ InboxOutstanding /\ ConsumedIds \subseteq ScheduledIds
      /\ ~Idle /\ status = "running"
  BY WorkIsAnyStep DEF LedgerInv, ItemOK
<1> PICK i : i = Len(history) + 1
  OBVIOUS
<1>1. Fitted(e) /\ e = item[i] /\ i \in DOMAIN item
  <2>1. Fitted(e) /\ Len(history) < Len(item) /\ e = item[i]
    BY TakenIsItem, TakenIsFitted
  <2>2. DOMAIN item = 1 .. Len(item) /\ Len(item) \in Nat /\ Len(history) \in Nat
    BY <1>0, LenProperties DEF MessagesOK, HistoryOK
  <2>3. i \in DOMAIN item
    BY <2>1, <2>2
  <2> QED BY <2>1, <2>3
<1>2. e \in Message
  BY <1>0, <1>1, ItemEvents
<1>3. e.type = "ExecutionStarted" => e.name \in Orchestrators \cup {None}
  BY <1>2, InstanceAssumption DEF Message
<1>4. e.type # "ExecutionCompleted"
  BY <1>0, <1>1, ItemElements, MarkerIsMessage DEF NotEnded, Range
<1> QED BY <1>1, <1>3, <1>4 DEF Expected

\* What ends an instance is the last thing in its log.
LEMMA NotEndedStep ==
    ASSUME AInv, LedgerInv, NotEnded, FitMove \/ UNCHANGED all_vars
    PROVE  NotEnded'
<1>1. CASE UNCHANGED <<log, inbox, status>>
  BY <1>1 DEF NotEnded
<1>2. CASE complete_orchestrator_task
  <2>0. status = "running" /\ MapsOK
    BY <1>2, AllSeen DEF LedgerInv, ItemOK, complete_orchestrator_task, AInv, SInv, IInv, TypeOK
  <2>1. ASSUME NEW id \in DOMAIN pending_actions, ~IsEnding(id)
        PROVE  Acknowledgement(id).type # "ExecutionCompleted"
    BY <2>0, <2>1, AckOf DEF IsEnding, Created
  <2> QED BY <1>2, <2>0, <2>1, AnswerElements, MarkerIsMessage DEF NotEnded, Range
<1>3. ASSUME NEW m, Fitting(m), Arrives(m) PROVE NotEnded'
  <2>1. m.type # "ExecutionCompleted"
    BY <1>3, InstanceAssumption DEF Fitting, Resolved
  <2>2. inbox \in Seq(Message) /\ m \in Message /\ inbox' = Append(inbox, m) /\ UNCHANGED <<log, status>>
    BY <1>3 DEF LedgerInv, MessagesOK, Fitting, Permitted, Arrives
  <2>3. \A i \in DOMAIN inbox' : inbox'[i] = m \/ (i \in DOMAIN inbox /\ inbox'[i] = inbox[i])
    BY <2>2, AppendProperties, LenProperties
  <2> QED BY <2>1, <2>2, <2>3 DEF NotEnded
<1> QED BY <1>1, <1>2, <1>3 DEF FitMove, Work, GetWorkItem, ExecuteEvent, ExecuteStep, ExecuteEnd,
        Loses, all_vars, sidecar

\* All of it: what an instance keeps to whose orchestrators join what they call.
TakesInv == WholeInv /\ CausesInv /\ JoinInv

LEMMA StepTakesInv ==
    ASSUME TakesInv, OnlyJoins, FitMove \/ UNCHANGED all_vars
    PROVE  TakesInv'
<1>0. /\ WholeInv /\ CausesInv /\ InstInv /\ LedgerInv /\ AInv /\ HistoryOK /\ RInv
      /\ NotEnded /\ JoinExec /\ Deterministic
  BY WholeIsDeterministic
     DEF TakesInv, WholeInv, CausesInv, InstInv, AInv, SInv, IInv, TypeOK, JoinInv, JoinExec
<1>1. WholeInv' /\ CausesInv'
  BY <1>0, StepWholeInv, StepCausesInv, FitIsAnyMove
<1>2. NotEnded'
  BY <1>0, NotEndedStep
<1>3. JoinExec'
  <2>1. CASE ExecuteEvent \/ ExecuteStep \/ ExecuteEnd
    <3>1. AnyStep /\ OnlyExpected
      BY <1>0, <2>1, WorkIsAnyStep, ItemIsExpected
    <3> QED BY <1>0, <1>1, <3>1, StepJoinExec DEF CausesInv
  <2>2. CASE FreshExecutor
    <3>1. Init'
      BY <2>2 DEF FreshExecutor, Init
    <3>2. Init' => JoinExec'
      BY InitJoinExec, PTL
    <3> QED BY <3>1, <3>2
  <2>3. CASE UNCHANGED vars
    <3>1. UNCHANGED <<history, pc, panic, fn, name, step, base, calls, tasks, pending_actions>>
      BY <2>3 DEF vars, future, called, ctx
    <3> QED BY <1>0, <3>1 DEF JoinExec, CallsOfStep, ResultsOfCalls, TakenDecoded, ReadyAtEnd,
                              PanicsOnValue, TaskCalls, Known, Body
  <2> QED BY <2>1, <2>2, <2>3 DEF FitMove, Work, GetWorkItem, complete_orchestrator_task, Loses,
             Arrives, all_vars
<1> QED BY <1>1, <1>2, <1>3 DEF TakesInv, JoinInv, JoinExec

LEMMA InitTakesInv == InstanceInit => TakesInv
<1> SUFFICES ASSUME InstanceInit PROVE TakesInv
  OBVIOUS
<1>1. Init
  BY DEF InstanceInit
<1>2. JoinExec /\ WInv /\ RInv /\ WholeInv
  BY <1>1, InitJoinExec, InitWInv, InitRInv, InitWholeInv
<1>3. NotEnded
  <2>1. PICK n \in Orchestrators : inbox = <<Msg("ExecutionStarted", 0, n, None)>>
    BY DEF InstanceInit
  <2>2. DOMAIN inbox = {1} /\ inbox[1].type = "ExecutionStarted" /\ DOMAIN log = {}
    BY <2>1 DEF InstanceInit, Msg
  <2> QED BY <2>2 DEF NotEnded
<1> QED BY <1>2, <1>3 DEF TakesInv, CausesInv, JoinInv, JoinExec

\* Instances of orchestrators that join what they call keep to TakesInv,
THEOREM JoinsInvariance == ASSUME OnlyJoins PROVE InstanceSpec => []TakesInv
<1>1. InstanceInit => TakesInv
  BY InitTakesInv
<1>2. TakesInv /\ [InstanceNext]_all_vars => TakesInv'
  BY InstanceFits, StepTakesInv DEF TakesInv, WholeInv, InstInv
<1> QED BY <1>1, <1>2, PTL DEF InstanceSpec

\* with the worker's activities,
THEOREM ActivitiesJoinsInvariance ==
    ASSUME OnlyJoins
    PROVE  ActivitiesSpec => [](TakesInv /\ OutFits)
<1>1. ActivitiesInit => TakesInv /\ OutFits
  BY InitTakesInv DEF ActivitiesInit, OutFits
<1>2. TakesInv /\ OutFits /\ [ActivitiesNext]_state_vars => (TakesInv /\ OutFits)'
  <2> SUFFICES ASSUME TakesInv, OutFits, [ActivitiesNext]_state_vars
               PROVE  TakesInv' /\ OutFits'
    OBVIOUS
  <2>1. CASE ActivitiesNext
    BY <2>1, ActivityFits, StepTakesInv DEF TakesInv
  <2>2. CASE UNCHANGED state_vars
    <3>1. UNCHANGED <<all_vars, out, log, inbox>>
      BY <2>2 DEF state_vars, act_vars, all_vars, sidecar
    <3> QED BY <3>1, StepTakesInv DEF OutFits, AnsweredIds, EventsOf
  <2> QED BY <2>1, <2>2
<1> QED BY <1>1, <1>2, PTL DEF ActivitiesSpec

\* and under the filter.
THEOREM FilteredJoinsInvariance == ASSUME OnlyJoins PROVE FilterSpec => []TakesInv
<1>1. FilterInit => TakesInv
  BY InitTakesInv DEF FilterInit
<1>2. TakesInv /\ [FilterNext]_filter_vars => TakesInv'
  BY FilterFits, StepTakesInv DEF TakesInv, WholeInv, InstInv, filter_vars
<1> QED BY <1>1, <1>2, PTL DEF FilterSpec

-----------------------------------------------------------------------------
(* What makes the executor panic.                                          *)

\* What an execution has seen, it has from its work item.
LEMMA SeenIsItem ==
    ASSUME LedgerInv, HistoryOK, NEW i \in DOMAIN history
    PROVE  ~Idle /\ i \in DOMAIN item /\ history[i] = item[i] /\ history[i] \in Message
<1>0. MessagesOK /\ ItemOK
  BY DEF LedgerInv
<1>1. ~Idle
  <2>1. DOMAIN history # {}
    OBVIOUS
  <2>2. history # <<>>
    BY <2>1
  <2> QED BY <1>0, <2>2 DEF ItemOK
<1>2. /\ DOMAIN history = 1 .. Len(history) /\ Len(history) \in Nat
      /\ DOMAIN item = 1 .. Len(item) /\ Len(item) \in Nat /\ Len(history) <= Len(item)
  BY <1>0, LenProperties DEF HistoryOK, MessagesOK, ItemOK
<1>3. i \in DOMAIN item /\ history[i] = item[i]
  <2>1. i \in DOMAIN item
    BY ONLY <1>2, i \in DOMAIN history
  <2> QED BY <1>0, <2>1 DEF ItemOK
<1> QED BY <1>1, <1>3, ItemEvents DEF LedgerInv

LEMMA PanicsAreCaused ==
    ASSUME TakesInv, SignalsDecode
    PROVE  PanicsForCause
<1>0. LedgerInv /\ HistoryOK /\ PanicsOnValue /\ Causes
  BY CausesAreKept DEF TakesInv, WholeInv, InstInv, AInv, SInv, IInv, TypeOK, JoinInv
<1>1. ASSUME panic = "decode" PROVE Undecodable
  <2>1. PICK i \in DOMAIN history :
            /\ history[i].type \in (Resolved \ {"TimerFired"}) \cup {"EventRaised"}
            /\ history[i].value \notin Decodable \cup {None}
    BY <1>0, <1>1 DEF PanicsOnValue
  <2>2. history[i].type # "OrchestratorStarted"
    BY <2>1 DEF Resolved
  <2>3. history[i] \in Range(log \o inbox)
    BY <1>0, <2>2, SeenIsKept
  <2>4. history[i].type # "EventRaised"
    <3>1. history[i] \in Message
      BY <1>0, SeenIsItem
    <3> QED BY <2>1, <3>1 DEF Message, SignalsDecode
  <2> QED BY <2>1, <2>3, <2>4 DEF Undecodable, EventsOf
<1> QED BY <1>0, <1>1 DEF PanicsForCause, Causes, PanicsOnValue

\* The executor of an instance whose orchestrators join what they call panics
\* over nothing but an error message in place of a result, a signal without input
\* (the unwraps and expects of executor.rs and task.rs) and a result without a
\* value, whose task is polled again after its receiver failed (task.rs:54).
THEOREM OnlyValuesPanic ==
    ASSUME OnlyJoins, SignalsDecode
    PROVE  ActivitiesSpec => []PanicsForCause
<1>1. TakesInv => PanicsForCause
  BY PanicsAreCaused
<1> QED BY <1>1, ActivitiesJoinsInvariance, PTL

-----------------------------------------------------------------------------
(* Whose inputs can be decoded never panics.                               *)

\* The moves of an instance whose tasks all end as Answers say.
GivenMove ==
    \/ Work \/ Loses
    \/ \E m : Fitting(m) /\ Arrives(m) /\ (m.type \in Resolved => Given(m))

LEMMA GivenIsFit == GivenMove => FitMove
BY DEF GivenMove, FitMove

LEMMA InstanceGives == ASSUME LedgerInv, InstanceNext PROVE GivenMove
BY EndedTaskFits, ClientSentFits, LostIsMove DEF InstanceNext, GivenMove

LEMMA FilterGives ==
    ASSUME LedgerInv, FilterNext
    PROVE  GivenMove \/ UNCHANGED all_vars
<1>1. CASE FilterWork
  BY <1>1 DEF FilterWork, on_new_span, RecordOld, RecordNew, on_record, FilteredEvent,
              FilteredStep, FilteredEnd, SpanEnds, GivenMove, Work
<1>2. CASE SpanLost
  BY <1>2, LostIsMove DEF SpanLost, GivenMove
<1>3. ASSUME NEW e \in Issued, TaskOutside(e) PROVE GivenMove
  BY <1>3, EndedTaskFits DEF TaskOutside, GivenMove
<1>4. ASSUME NEW e \in ClientEvents, ClientOutside(e) PROVE GivenMove
  BY <1>4, ClientSentFits DEF ClientOutside, GivenMove
<1> QED BY <1>1, <1>2, <1>3, <1>4 DEF FilterNext

LEMMA StepResultsGiven ==
    ASSUME AInv, LedgerInv, ResultsGiven, GivenMove \/ UNCHANGED all_vars
    PROVE  ResultsGiven'
<1>1. CASE UNCHANGED <<log, inbox>>
  BY <1>1 DEF ResultsGiven, Given
<1>2. CASE complete_orchestrator_task
  <2>1. \A id \in DOMAIN pending_actions : Acknowledgement(id).type \notin Resolved
    BY AckOf DEF AInv, SInv, IInv, TypeOK
  <2>2. Marker.type \notin Resolved
    BY MarkerIsMessage DEF Resolved
  <2> QED BY <1>2, <2>1, <2>2, AnswerElements DEF ResultsGiven, Given, Range
<1>3. ASSUME NEW m, Fitting(m), Arrives(m), m.type \in Resolved => Given(m)
      PROVE  ResultsGiven'
  <2>1. inbox \in Seq(Message) /\ m \in Message /\ inbox' = Append(inbox, m) /\ UNCHANGED log
    BY <1>3 DEF LedgerInv, MessagesOK, Fitting, Permitted, Arrives
  <2>2. \A i \in DOMAIN inbox' : inbox'[i] = m \/ (i \in DOMAIN inbox /\ inbox'[i] = inbox[i])
    BY <2>1, AppendProperties, LenProperties
  <2> QED BY <1>3, <2>1, <2>2 DEF ResultsGiven, Given
<1> QED BY <1>1, <1>2, <1>3 DEF GivenMove, Work, GetWorkItem, ExecuteEvent, ExecuteStep,
        ExecuteEnd, Loses, all_vars, sidecar

LEMMA NothingToPanicOver ==
    ASSUME TakesInv, ResultsGiven, InputsDecode
    PROVE  NeverPanics
<1> SUFFICES ASSUME pc = "panicked" PROVE FALSE
  BY DEF NeverPanics
<1>0. /\ LedgerInv /\ HistoryOK /\ PanicsOnValue /\ BadValueHasCause
      /\ panic = "polled again" => ~Valued
  BY DEF TakesInv, WholeInv, InstInv, AInv, SInv, IInv, TypeOK, JoinInv, CausesInv, WInv, FInv
<1>1. ASSUME NEW i \in DOMAIN history, history[i].type = "EventRaised"
      PROVE  history[i].value \in Decodable \ {None}
  <2>1. history[i] \in Message
    BY <1>0, SeenIsItem
  <2> QED BY <1>1, <2>1 DEF Message, InputsDecode
<1>2. ASSUME NEW i \in DOMAIN history, history[i].type \in Resolved
      PROVE  /\ history[i].value # None
             /\ history[i].type # "TimerFired" => history[i].value \in Decodable
  <2>1. ~Idle /\ i \in DOMAIN item /\ history[i] = item[i]
    BY <1>0, SeenIsItem
  <2>2. history[i] # Marker
    BY <1>2, MarkerIsMessage DEF Resolved
  <2>3. history[i] \in Range(log) \cup Range(inbox)
    BY <1>0, <2>1, <2>2, ItemElements
  <2>4. Given(history[i])
    BY <1>2, <2>3 DEF ResultsGiven, Range
  <2> QED BY <1>2, <2>4 DEF Given, InputsDecode
<1>3. panic # "no value"
  BY <1>0, <1>1 DEF BadValueHasCause
<1>4. panic # "decode"
  BY <1>0, <1>1, <1>2 DEF PanicsOnValue
<1>5. panic # "polled again"
  BY <1>0, <1>2 DEF Valued
<1> QED BY <1>0, <1>3, <1>4, <1>5 DEF PanicsOnValue

LEMMA InitResultsGiven == ASSUME InstanceInit PROVE ResultsGiven
<1>1. PICK n \in Orchestrators : inbox = <<Msg("ExecutionStarted", 0, n, None)>>
  BY DEF InstanceInit
<1>2. DOMAIN inbox = {1} /\ inbox[1].type = "ExecutionStarted" /\ DOMAIN log = {}
  BY <1>1 DEF InstanceInit, Msg
<1> QED BY <1>2 DEF ResultsGiven, Resolved

\* Orchestrators that join what they call, whose every result has a value and
\* whose inputs can be decoded, are never caught in an unwrap or an expect of the
\* executor or of a task, whatever the order of the messages and however often a work
\* item is lost.
THEOREM JoinsNeverPanic ==
    ASSUME OnlyJoins, InputsDecode
    PROVE  InstanceSpec => []NeverPanics
<1>1. InstanceInit => TakesInv /\ ResultsGiven
  BY InitTakesInv, InitResultsGiven
<1>2. TakesInv /\ ResultsGiven /\ [InstanceNext]_all_vars => (TakesInv /\ ResultsGiven)'
  BY InstanceGives, GivenIsFit, StepTakesInv, StepResultsGiven DEF TakesInv, WholeInv, InstInv
<1>3. TakesInv /\ ResultsGiven => NeverPanics
  BY NothingToPanicOver
<1> QED BY <1>1, <1>2, <1>3, PTL DEF InstanceSpec

\* The same under the filter.
THEOREM FilteredNeverPanics ==
    ASSUME OnlyJoins, InputsDecode
    PROVE  FilterSpec => []NeverPanics
<1>1. FilterInit => TakesInv /\ ResultsGiven
  BY InitTakesInv, InitResultsGiven DEF FilterInit
<1>2. TakesInv /\ ResultsGiven /\ [FilterNext]_filter_vars => (TakesInv /\ ResultsGiven)'
  BY FilterGives, GivenIsFit, StepTakesInv, StepResultsGiven
     DEF TakesInv, WholeInv, InstInv, filter_vars
<1>3. TakesInv /\ ResultsGiven => NeverPanics
  BY NothingToPanicOver
<1> QED BY <1>1, <1>2, <1>3, PTL DEF FilterSpec

-----------------------------------------------------------------------------
(* Who ends with a result has got all it asked for.                        *)

\* At the end of an execution, each acknowledged call is one of the calls.
LEMMA ScheduledWasMade ==
    ASSUME LedgerInv, HistoryOK, AckedWasMade, pc = "done", NEW id \in ScheduledIds
    PROVE  \E h \in TaskCalls : calls[h].id = id
<1>1. PICK j \in DOMAIN log : log[j].type \in Created /\ log[j].id = id
  BY DEF ScheduledIds, IdsIn
<1>2. ~Idle /\ DOMAIN history = DOMAIN item /\ \A i \in DOMAIN item : history[i] = item[i]
  BY AllSeen
<1>3. j \in DOMAIN history /\ history[j] = log[j]
  BY <1>1, <1>2, LogInItem
<1> QED BY <1>1, <1>3 DEF AckedWasMade, Made

\* An orchestrator that has returned has the result of every call, and could
\* decode it.
LEMMA CallWasAnswered ==
    ASSUME AInv, LedgerInv, JoinExec, pc = "done", fn = "ready", NEW h \in TaskCalls
    PROVE  \E i \in DOMAIN item :
              /\ item[i].type \in Resolved /\ item[i].id = calls[h].id
              /\ item[i].value # None
              /\ item[i].type # "TimerFired" => item[i].value \in Decodable
<1>0. /\ IInv /\ HistoryOK /\ AnsweredByOwn /\ NumberedInOrder /\ ResultsOfCalls /\ TakenDecoded
      /\ h \in DOMAIN calls /\ h \in DOMAIN tasks /\ h \in Handles /\ calls[h].kind \in TaskKinds
  BY HandleTypes DEF AInv, SInv, IInv, TypeOK, JoinExec, TaskCalls
<1>1. /\ HasMessage(tasks[h]) /\ tasks[h].value # None
      /\ calls[h].kind # "timer" => tasks[h].value \in Decodable
  BY <1>0 DEF TakenDecoded, JoinExec, ReadyAtEnd
<1>2. calls[h].kind # "signal"
  BY <1>0 DEF TaskKinds
<1>3. PICK i \in DOMAIN history :
          /\ history[i].type \in Resolved /\ history[i].id = calls[h].id
          /\ history[i].value = tasks[h].value
  BY <1>0, <1>1, <1>2 DEF AnsweredByOwn, About
<1>4. i \in DOMAIN item /\ history[i] = item[i]
  BY <1>0, AllSeen
<1>5. ASSUME history[i].type # "TimerFired" PROVE calls[h].kind # "timer"
  <2>1. PICK g \in TaskCalls : /\ calls[g].id = history[i].id
                               /\ calls[g].kind \in KindResolved(history[i].type)
    BY <1>0, <1>3 DEF ResultsOfCalls
  <2>2. calls[g].kind # "timer"
    BY <1>3, <1>5, <2>1 DEF KindResolved, Resolved
  <2>3. g \in Int /\ h \in Int
    BY <1>0, HandleTypes DEF TaskCalls, Handles
  <2>4. calls[g].id \in Nat /\ calls[h].id \in Nat
    BY <1>0, HandleTypes DEF NumberedInOrder
  <2>5. g = h
    BY <1>0, <1>3, <2>1, <2>3, <2>4 DEF NumberedInOrder
  <2> QED BY <2>2, <2>5
<1> QED BY <1>1, <1>3, <1>4, <1>5

LEMMA ItemInLog ==
    ASSUME AInv, LedgerInv, complete_orchestrator_task
    PROVE  \A i \in DOMAIN item : i \in DOMAIN log' /\ log'[i] = item[i]
<1>1. PICK order \in Orders(DOMAIN pending_actions), acks \in Seq(Message) :
          /\ Len(item) \in Nat /\ Len(acks) \in Nat
          /\ Len(log') = Len(item) + Len(acks) /\ DOMAIN log' = 1 .. Len(log')
          /\ DOMAIN item = 1 .. Len(item)
          /\ \A i \in DOMAIN item : log'[i] = item[i]
  BY AnswerLog
<1>2. \A i \in 1 .. Len(item) : i \in 1 .. Len(item) + Len(acks)
  BY <1>1
<1> QED BY <1>1, <1>2

LEMMA RangeOfConcat ==
    ASSUME NEW S, NEW s \in Seq(S), NEW t \in Seq(S), NEW x \in Range(s \o t)
    PROVE  x \in Range(s) \cup Range(t)
<1> PICK both, m, n : both = s \o t /\ m = Len(s) /\ n = Len(t)
  OBVIOUS
<1>1. /\ m \in Nat /\ n \in Nat /\ DOMAIN s = 1 .. m /\ DOMAIN t = 1 .. n
      /\ DOMAIN both = 1 .. m + n
      /\ \A k \in 1 .. m + n : both[k] = IF k <= m THEN s[k] ELSE t[k - m]
  BY ConcatProperties, LenProperties
<1>2. PICK i \in DOMAIN both : x = both[i]
  BY DEF Range
<1>3. CASE i <= m
  <2>1. i \in DOMAIN s /\ x = s[i]
    BY <1>1, <1>2, <1>3
  <2> QED BY <2>1 DEF Range
<1>4. CASE ~(i <= m)
  <2>1. i - m \in DOMAIN t /\ x = t[i - m]
    BY <1>1, <1>2, <1>4
  <2> QED BY <2>1 DEF Range
<1> QED BY <1>3, <1>4

\* The answer that ends an instance with a result.
Concludes == complete_orchestrator_task /\ status' \in Results

LEMMA ConcludesReady ==
    ASSUME AInv, LedgerInv, JoinExec, Concludes
    PROVE  fn = "ready" /\ pc = "done" /\ ~Idle /\ status = "running"
<1>0. ~Idle /\ MapsOK /\ IsFiniteSet(DOMAIN pending_actions) /\ pc = "done" /\ status = "running"
  BY AllSeen DEF AInv, SInv, IInv, TypeOK, LedgerInv, ItemOK, complete_orchestrator_task, Concludes
<1>1. PICK order \in Orders(DOMAIN pending_actions) : EndsBy(order)
  BY DEF Concludes, complete_orchestrator_task
<1>2. \A k \in DOMAIN order : order[k] \in DOMAIN pending_actions
  BY <1>0, FS_CardinalityType DEF Orders
<1>3. \E id \in DOMAIN pending_actions : pending_actions[id] \in Results
  BY <1>0, <1>1, <1>2 DEF EndsBy, Concludes, Results
<1> QED BY <1>0, <1>3 DEF JoinExec, ReadyAtEnd

LEMMA ConcludesSettled ==
    ASSUME AInv, LedgerInv, AckedWasMade, JoinExec, Concludes
    PROVE  Promise!Settled
<1>0. /\ fn = "ready" /\ pc = "done" /\ ~Idle /\ complete_orchestrator_task
      /\ HistoryOK /\ MapsOK /\ ActionOfCall /\ InboxOutstanding
  BY ConcludesReady DEF Concludes, AInv, SInv, IInv, TypeOK, LedgerInv
<1>1. \A i \in DOMAIN item : i \in DOMAIN log' /\ log'[i] = item[i]
  BY <1>0, ItemInLog
<1>2. ASSUME NEW h \in TaskCalls
      PROVE  calls[h].id \in ConsumedIds' /\ calls[h].id \in ScheduledIds
  <2>1. PICK i \in DOMAIN item : item[i].type \in Resolved /\ item[i].id = calls[h].id
    BY <1>0, CallWasAnswered
  <2>2. item[i].id \in ScheduledIds
    BY <1>0, <2>1, ItemEvents DEF LedgerInv
  <2>3. item[i].id \in IdsIn(log', Resolved)
    BY <1>1, <2>1 DEF IdsIn
  <2> QED BY <2>1, <2>2, <2>3 DEF ConsumedIds
<1>3. ScheduledIds \subseteq ConsumedIds'
  BY <1>0, <1>2, ScheduledWasMade
<1>4. ASSUME NEW id \in ScheduledIds' PROVE id \in ScheduledIds
  <2>1. PICK i \in DOMAIN log' : log'[i].type \in Created /\ log'[i].id = id
    BY DEF ScheduledIds, IdsIn
  <2>2. log'[i] # Marker /\ log'[i] \notin Range(inbox)
    BY <1>0, <2>1, MarkerIsMessage DEF Created, InboxOutstanding, Range
  <2>3. CASE log'[i] \in Range(log)
    BY <2>1, <2>3 DEF Range, ScheduledIds, IdsIn
  <2>4. CASE \E n \in DOMAIN pending_actions : log'[i] = Acknowledgement(n)
    <3>1. PICK n \in DOMAIN pending_actions : log'[i] = Acknowledgement(n)
      BY <2>4
    <3>2. n = id /\ pending_actions[n] \in TaskKinds
      BY <1>0, <2>1, <3>1, AckOf
    <3>3. \E h \in TaskCalls : calls[h].id = id
      BY <1>0, <3>1, <3>2 DEF ActionOfCall, Made
    <3> QED BY <1>2, <3>3
  <2> QED BY <1>0, <2>2, <2>3, <2>4, AnswerElements
<1>5. Promise!Turn
  BY <1>0, AnswerSent
<1> QED BY <1>3, <1>4, <1>5 DEF Promise!Turn, Promise!Settled

LEMMA TurnsSettle ==
    ASSUME TakesInv, FitMove \/ UNCHANGED all_vars
    PROVE  [Promise!Turn /\ Promise!Settled]_<<ScheduledIds, ConsumedIds, status>>
<1>0. /\ InstInv /\ AInv /\ LedgerInv /\ AckedWasMade /\ JoinExec
      /\ status \in {"running", "Terminated"} \cup Results
  BY DEF TakesInv, WholeInv, InstInv, FitInv, JoinInv, JoinExec, LedgerInv, MessagesOK
<1>1. CASE complete_orchestrator_task
  <2>1. Promise!Turn
    BY <1>0, <1>1, AnswerSent
  <2>2. CASE status' \in Results
    BY <1>0, <1>1, <2>1, <2>2, ConcludesSettled DEF Concludes
  <2>3. CASE status' \notin Results
    BY <2>1, <2>3 DEF Promise!Settled, Results
  <2> QED BY <2>1, <2>2, <2>3
<1>2. CASE UNCHANGED <<log, status>>
  BY <1>2 DEF ScheduledIds, ConsumedIds, IdsIn
<1> QED BY <1>1, <1>2 DEF FitMove, Work, GetWorkItem, ExecuteEvent, ExecuteStep, ExecuteEnd,
        Loses, Arrives, all_vars, sidecar

-----------------------------------------------------------------------------
(* The promise of Orchestration.                                           *)

\* An instance whose orchestrators join what they call implements Orchestration:
\* it ends with a result only when it has consumed the result of all that it
\* scheduled, and schedules nothing in that last turn.
THEOREM PromiseKept == ASSUME OnlyJoins PROVE InstanceSpec => KeepsPromise
<1>1. InstanceInit => Promise!Init
  BY InitInstInv
<1>2. TakesInv /\ [InstanceNext]_all_vars
        => [Promise!Turn /\ Promise!Settled]_<<ScheduledIds, ConsumedIds, status>>
  BY TurnsSettle, InstanceFits DEF TakesInv, WholeInv, InstInv
<1> QED BY <1>1, <1>2, JoinsInvariance, PTL DEF InstanceSpec, KeepsPromise, Promise!Spec

\* It does when the worker runs the activities, which may be silent, run twice, or
\* not be registered,
THEOREM ActivitiesKeepPromise == ASSUME OnlyJoins PROVE ActivitiesSpec => KeepsPromise
<1>1. ActivitiesInit => Promise!Init
  BY InitInstInv DEF ActivitiesInit
<1>2. TakesInv /\ OutFits /\ [ActivitiesNext]_state_vars
        => [Promise!Turn /\ Promise!Settled]_<<ScheduledIds, ConsumedIds, status>>
  <2> SUFFICES ASSUME TakesInv, OutFits, [ActivitiesNext]_state_vars
               PROVE  [Promise!Turn /\ Promise!Settled]_<<ScheduledIds, ConsumedIds, status>>
    OBVIOUS
  <2>1. FitMove \/ UNCHANGED all_vars
    BY ActivityFits DEF TakesInv, state_vars
  <2> QED BY <2>1, TurnsSettle
<1> QED BY <1>1, <1>2, ActivitiesJoinsInvariance, PTL
        DEF ActivitiesSpec, KeepsPromise, Promise!Spec

\* and under the filter.
THEOREM FilteredKeepsPromise == ASSUME OnlyJoins PROVE FilterSpec => KeepsPromise
<1>1. FilterInit => Promise!Init
  BY InitInstInv DEF FilterInit
<1>2. TakesInv /\ [FilterNext]_filter_vars
        => [Promise!Turn /\ Promise!Settled]_<<ScheduledIds, ConsumedIds, status>>
  BY TurnsSettle, FilterFits DEF TakesInv, WholeInv, InstInv, filter_vars
<1> QED BY <1>1, <1>2, FilteredJoinsInvariance, PTL DEF FilterSpec, KeepsPromise, Promise!Spec

-----------------------------------------------------------------------------
(* No failure of a task is absorbed.                                       *)

LEMMA ConcludesWhole ==
    ASSUME TakesInv, Concludes
    PROVE  EndedWhole'
<1>0. /\ InstInv /\ AInv /\ LedgerInv /\ HistoryOK /\ FitInv /\ AckedWasMade /\ JoinExec
      /\ PositionOK /\ complete_orchestrator_task
  BY DEF TakesInv, WholeInv, InstInv, FitInv, JoinInv, JoinExec, AInv, SInv, IInv, TypeOK,
         Concludes
<1>1. fn = "ready" /\ pc = "done" /\ ~Idle
  BY <1>0, ConcludesReady
<1>2. LedgerInv' /\ OneOfEach' /\ Promise!Turn /\ Promise!Settled
  BY <1>0, AnswerSent, FitAnswer, ConcludesSettled DEF FitInv, TakesInv
<1>3. ScheduledIds' = ConsumedIds' /\ ScheduledIds' = ScheduledIds
  BY <1>2 DEF Promise!Settled, Concludes, Results
<1>4. /\ saved'.fn = "ready"
      /\ saved'.name \in DOMAIN Registry /\ saved'.step \in Nat
      /\ saved'.step > Len(Registry[saved'.name].body)
  BY <1>0, <1>1 DEF complete_orchestrator_task, Snapshot, JoinExec, ReadyAtEnd, Known, Body,
                    PositionOK
<1>5. ASSUME NEW i \in DOMAIN inbox' PROVE inbox'[i].type \notin Resolved
  <2> SUFFICES ASSUME inbox'[i].type \in Resolved PROVE FALSE
    OBVIOUS
  <2>1. inbox'[i].id \in ScheduledIds'
    BY <1>2 DEF LedgerInv, InboxOutstanding
  <2>2. inbox'[i].id \in IdsIn(inbox', Resolved)
    BY DEF IdsIn
  <2> QED BY <1>2, <1>3, <2>1, <2>2 DEF OneOfEach, ConsumedIds
<1>6. ASSUME NEW i \in DOMAIN log', log'[i].type \in Resolved
      PROVE  /\ log'[i].value # None
             /\ log'[i].type # "TimerFired" => log'[i].value \in Decodable
  <2>1. log'[i].id \in ScheduledIds
    BY <1>3, <1>6 DEF ConsumedIds, IdsIn
  <2>2. PICK h \in TaskCalls : calls[h].id = log'[i].id
    BY <1>0, <1>1, <2>1, ScheduledWasMade
  <2>3. PICK k \in DOMAIN item :
            /\ item[k].type \in Resolved /\ item[k].id = calls[h].id
            /\ item[k].value # None
            /\ item[k].type # "TimerFired" => item[k].value \in Decodable
    BY <1>0, <1>1, CallWasAnswered
  <2>4. k \in DOMAIN log' /\ log'[k] = item[k]
    BY <1>0, ItemInLog
  <2>5. i = k
    BY <1>2, <1>6, <2>2, <2>3, <2>4 DEF OneOfEach, Once
  <2> QED BY <2>3, <2>4, <2>5
<1> QED BY <1>3, <1>4, <1>5, <1>6 DEF EndedWhole

LEMMA StepEndedWhole ==
    ASSUME TakesInv, EndedWhole, FitMove \/ UNCHANGED all_vars
    PROVE  EndedWhole'
<1>0. /\ LedgerInv /\ HistoryOK /\ ItemOK /\ MessagesOK
  BY DEF TakesInv, WholeInv, InstInv, LedgerInv, AInv, SInv, IInv, TypeOK
<1>1. CASE UNCHANGED <<log, inbox, status, saved>>
  <2>1. ScheduledIds' = ScheduledIds /\ ConsumedIds' = ConsumedIds
    BY <1>1 DEF ScheduledIds, ConsumedIds, IdsIn
  <2> QED BY <1>1, <2>1 DEF EndedWhole
<1>2. CASE complete_orchestrator_task
  BY <1>2, ConcludesWhole DEF Concludes, EndedWhole
<1>3. ASSUME NEW m, Fitting(m), Arrives(m), status \in Results PROVE EndedWhole'
  <2>1. m.type \notin Resolved
    <3>1. ConsumedIds \subseteq AnsweredIds
      BY <1>0, AnsweredAre DEF ConsumedIds
    <3> QED BY <1>3, <3>1 DEF Fitting, Permitted, EndedWhole
  <2>2. inbox \in Seq(Message) /\ m \in Message /\ inbox' = Append(inbox, m)
        /\ UNCHANGED <<log, status, saved>>
    BY <1>0, <1>3 DEF MessagesOK, Fitting, Permitted, Arrives
  <2>3. \A i \in DOMAIN inbox' : inbox'[i] = m \/ (i \in DOMAIN inbox /\ inbox'[i] = inbox[i])
    BY <2>2, AppendProperties, LenProperties
  <2>4. ScheduledIds' = ScheduledIds /\ ConsumedIds' = ConsumedIds
    BY <2>2 DEF ScheduledIds, ConsumedIds, IdsIn
  <2> QED BY <2>1, <2>2, <2>3, <2>4 DEF EndedWhole
<1>4. ASSUME NEW m, Arrives(m), status \notin Results PROVE EndedWhole'
  BY <1>4 DEF Arrives, EndedWhole
<1> QED BY <1>1, <1>2, <1>3, <1>4 DEF FitMove, Work, GetWorkItem, ExecuteEvent, ExecuteStep,
        ExecuteEnd, Loses, all_vars, sidecar

LEMMA WholeAbsorbsNothing ==
    ASSUME LedgerInv, OutFits, EndedWhole
    PROVE  NothingAbsorbed
<1> SUFFICES ASSUME status \in Results PROVE ~TaskFailure
  BY DEF NothingAbsorbed
<1>0. MessagesOK
  BY DEF LedgerInv
<1>1. ~NoFuture
  BY DEF EndedWhole, NoFuture
<1>2. ~Parked
  <2>1. Len(Registry[saved.name].body) \in Nat
    BY RegistryAssumption, LenProperties DEF EndedWhole, Program
  <2> QED BY <2>1 DEF EndedWhole, Parked
<1>3. ~Silent
  <2>1. ASSUME NEW id \in out PROVE FALSE
    <3>1. id \notin AnsweredIds /\ id \in ScheduledIds
      BY DEF OutFits, ScheduledIds, IdsIn, Created
    <3> QED BY <1>0, <3>1, AnsweredAre DEF EndedWhole, ConsumedIds
  <2> QED BY <2>1 DEF Silent
<1>4. ASSUME NEW e \in EventsOf(Resolved)
      PROVE  e.value # None /\ (e.type # "TimerFired" => e.value \in Decodable)
  <2>1. e \in Range(log) \cup Range(inbox) /\ e.type \in Resolved
    BY <1>0, RangeOfConcat DEF EventsOf, MessagesOK
  <2> QED BY <2>1 DEF EndedWhole, Range
<1>5. ~Hollow /\ ~Undecodable
  BY <1>4 DEF Hollow, Undecodable, EventsOf
<1> QED BY <1>1, <1>2, <1>3, <1>5 DEF TaskFailure

\* No failure is absorbed: an instance that ended with a result had every task
\* answered, with a value it could decode; a silent activity, one that is not
\* registered or one that failed keeps it from ending so.
THEOREM NoFailureAbsorbed == ASSUME OnlyJoins PROVE ActivitiesSpec => []NothingAbsorbed
<1>1. ActivitiesInit => EndedWhole
  BY DEF ActivitiesInit, InstanceInit, EndedWhole, Results
<1>2. TakesInv /\ OutFits /\ EndedWhole /\ [ActivitiesNext]_state_vars => EndedWhole'
  <2> SUFFICES ASSUME TakesInv, OutFits, EndedWhole, [ActivitiesNext]_state_vars
               PROVE  EndedWhole'
    OBVIOUS
  <2>1. FitMove \/ UNCHANGED all_vars
    BY ActivityFits DEF TakesInv, state_vars
  <2> QED BY <2>1, StepEndedWhole
<1>3. TakesInv /\ OutFits /\ EndedWhole => NothingAbsorbed
  BY WholeAbsorbsNothing DEF TakesInv, WholeInv, InstInv
<1> QED BY <1>1, <1>2, <1>3, ActivitiesJoinsInvariance, PTL DEF ActivitiesSpec
=============================================================================
