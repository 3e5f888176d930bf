---------------------------- MODULE ReplayProofs ----------------------------
(***************************************************************************)
(* Proofs about Replay: that acknowledgements make no difference.  The two *)
(* executions are followed step by step, the second standing still where   *)
(* the first takes an acknowledgement.                                     *)
(***************************************************************************)
EXTENDS ExecutorProofs, Replay

-----------------------------------------------------------------------------
(* Maps and events.                                                        *)

\* A map laid over one that holds it changes nothing; so does one from which
\* something was taken; and what is put into it is put into both.
Laid(f, g) == [id \in DOMAIN f \cup DOMAIN g |-> IF id \in DOMAIN g THEN g[id] ELSE f[id]]

LEMMA LaidOver ==
    ASSUME AskedFor
    PROVE  /\ Laid(asked, pending_actions) = asked
           /\ \A k : Laid(asked, Remove(pending_actions, k)) = asked
           /\ \A k, v : Laid(asked, Put(pending_actions, k, v)) = Put(asked, k, v)
BY DEF AskedFor, Laid, Remove, Put

\* The actions of the second execution follow those of the first.
LEMMA StaysAskedFor ==
    ASSUME AskedFor, asked' = Laid(asked, pending_actions')
    PROVE  AskedFor'
BY DEF AskedFor, Laid

\* The events that both see.
LEMMA SeenByBoth ==
    ASSUME HistoryOK, UnackedOK, NEW e \in Events, Deliverable(e), process_event(e), LooksOn
    PROVE  /\ unacked' = IF e.type \in Created THEN unacked ELSE Append(unacked, e)
           /\ UnackedOK'
           /\ Len(unacked) < MaxEvents
           /\ e.type = "ExecutionStarted" =>
                 \A i \in DOMAIN unacked : unacked[i].type # "ExecutionStarted"
           /\ AtAck' <=> e.type \in Created
<1> PICK S : S = {history[i] : i \in DOMAIN history} \cup Events
  OBVIOUS
<1>1. history \in Seq(S) /\ e \in S /\ Events \subseteq S
  <2>1. {history[i] : i \in DOMAIN history} \subseteq S
    OBVIOUS
  <2> QED BY <2>1, SeqMonotonic DEF HistoryOK
<1>2. history' = Append(history, e)
  BY EventTaken
<1>3. /\ history' \in Seq(S) /\ Len(history) \in Nat /\ Len(history') = Len(history) + 1
      /\ DOMAIN history = 1 .. Len(history) /\ DOMAIN history' = 1 .. Len(history) + 1
      /\ history'[Len(history) + 1] = e
      /\ \A i \in 1 .. Len(history) : history'[i] = history[i]
  BY <1>1, <1>2, AppendProperties, LenProperties
<1>4. unacked' = IF e.type \in Created THEN unacked ELSE Append(unacked, e)
  <2>1. history' # history
    BY <1>3
  <2>2. history'[Len(history')] = e
    BY <1>3, LenProperties
  <2> QED BY <2>1, <2>2 DEF LooksOn
<1>5. /\ unacked \in Seq(Events) /\ Len(unacked) \in Nat /\ DOMAIN unacked = 1 .. Len(unacked)
      /\ Len(unacked) <= Len(history)
  BY LenProperties DEF UnackedOK
<1>6. UnackedOK'
  <2>1. CASE e.type \in Created
    BY <1>3, <1>4, <1>5, <2>1 DEF UnackedOK
  <2>2. CASE e.type \notin Created
    <3>1. /\ unacked' \in Seq(Events) /\ Len(unacked') = Len(unacked) + 1
          /\ DOMAIN unacked' = 1 .. Len(unacked) + 1
          /\ unacked'[Len(unacked) + 1] = e
          /\ \A i \in 1 .. Len(unacked) : unacked'[i] = unacked[i]
      BY <1>4, <1>5, <2>2, AppendProperties, LenProperties
    <3>2. ASSUME NEW i \in DOMAIN unacked'
          PROVE  \E j \in DOMAIN history' : history'[j] = unacked'[i]
      <4>1. CASE i = Len(unacked) + 1
        BY <1>3, <3>1, <4>1
      <4>2. CASE i \in 1 .. Len(unacked)
        <5>1. PICK j \in DOMAIN history : history[j] = unacked[i]
          BY <1>5, <4>2 DEF UnackedOK
        <5> QED BY <1>3, <3>1, <4>2, <5>1
      <4> QED BY <1>5, <3>1, <4>1, <4>2
    <3> QED BY <1>3, <1>5, <3>1, <3>2 DEF UnackedOK
  <2> QED BY <2>1, <2>2
<1>7. Len(unacked) < MaxEvents
  BY <1>3, <1>5, BoundAssumption DEF Deliverable
<1>8. e.type = "ExecutionStarted" =>
         \A i \in DOMAIN unacked : unacked[i].type # "ExecutionStarted"
  BY DEF Deliverable, UnackedOK
<1>9. AtAck' <=> e.type \in Created
  <2>1. history' # <<>>
    BY <1>3
  <2> QED BY <1>3, <2>1 DEF AtAck
<1> QED BY <1>4, <1>6, <1>7, <1>8, <1>9

-----------------------------------------------------------------------------
(* The steps of both.                                                      *)

\* What the two share: the operators of Task and of the maps.
LEMMA SameOperators ==
    /\ \A t, v : Bare!Send(t, v) = Send(t, v)
    /\ \A t : Bare!DropSender(t) = DropSender(t) /\ (Bare!Accepts(t) <=> Accepts(t))
    /\ \A f, k : Bare!Remove(f, k) = Remove(f, k)
    /\ \A f, k, v : Bare!Put(f, k, v) = Put(f, k, v)
BY DEF Send, DropSender, Accepts, Remove, Put,
       Bare!Send, Bare!DropSender, Bare!Accepts, Bare!Remove, Bare!Put

\* An event that is no acknowledgement is taken by both.
LEMMA BothTake ==
    ASSUME IInv, BareInv, NEW e \in Events, Deliverable(e), process_event(e),
           LooksOn, e.type \notin Created
    PROVE  Bare!Next
<1>0. /\ HistoryOK /\ AskedFor /\ UnackedOK
      /\ pc = "event" /\ ~Acknowledging /\ ~Acknowledging'
      /\ unacked' = Append(unacked, e)
  <2>1. HistoryOK /\ AskedFor /\ UnackedOK
    BY DEF IInv, TypeOK, BareInv
  <2>2. pc = "event" /\ ~Acknowledging
    BY EventTaken DEF Acknowledging
  <2>3. unacked' = Append(unacked, e) /\ ~AtAck'
    BY <2>1, SeenByBoth
  <2> QED BY <2>1, <2>2, <2>3 DEF Acknowledging
<1>1. Bare!Deliverable(e)
  BY <1>0, SeenByBoth DEF Bare!Deliverable
<1>2. asked' = Laid(asked, pending_actions')
  BY DEF LooksOn, Laid
<1>3. pending_actions' = pending_actions => asked' = asked
  BY <1>0, <1>2, LaidOver
<1>4. CASE ExecutionTerminated(e)
  <2>1. asked' = Put(asked, sequence_number + 1, "Terminated")
    BY <1>0, <1>2, <1>4, LaidOver DEF ExecutionTerminated
  <2> QED BY <1>0, <1>1, <1>4, <2>1
       DEF ExecutionTerminated, Process, Goto, future, called, queues, Put,
           Bare!Next, Bare!process_event, Bare!ExecutionTerminated, Bare!Process, Bare!Goto,
           Bare!future, Bare!called, Bare!queues, Bare!Put
<1>5. CASE ExecutionStarted(e)
  <2>1. asked' = asked
    BY <1>3, <1>5 DEF ExecutionStarted, ctx
  <2> QED BY <1>0, <1>1, <1>5, <2>1
       DEF ExecutionStarted, Process, Goto, called, ctx,
           Bare!Next, Bare!process_event, Bare!ExecutionStarted, Bare!Process, Bare!Goto,
           Bare!called, Bare!ctx
<1>6. CASE ExecutionCompleted(e)
  <2>1. asked' = asked
    BY <1>3, <1>6 DEF ExecutionCompleted, ctx
  <2> QED BY <1>0, <1>1, <1>6, <2>1
       DEF ExecutionCompleted, Process, Goto, Panic, future, called, ctx,
           Bare!Next, Bare!process_event, Bare!ExecutionCompleted, Bare!Process, Bare!Goto,
           Bare!Panic, Bare!future, Bare!called, Bare!ctx
<1>7. CASE IgnoredEvent(e)
  <2>1. asked' = asked
    BY <1>3, <1>7 DEF IgnoredEvent, ctx
  <2> QED BY <1>0, <1>1, <1>7, <2>1
       DEF IgnoredEvent, Process, Goto, future, called, ctx, Ignored,
           Bare!Next, Bare!process_event, Bare!IgnoredEvent, Bare!Process, Bare!Goto,
           Bare!future, Bare!called, Bare!ctx, Bare!Ignored
<1>8. CASE EventRaised(e)
  <2>1. asked' = asked
    BY <1>3, <1>8 DEF EventRaised
  <2> QED BY <1>0, <1>1, <1>8, <2>1
       DEF EventRaised, Process, Goto, Panic, ThenPoll, future, called, to_lowercase,
           PopFront, PushBack, Put, Remove, Accepts, Send,
           Bare!Next, Bare!process_event, Bare!EventRaised, Bare!Process, Bare!Goto,
           Bare!Panic, Bare!ThenPoll, Bare!future, Bare!called, Bare!to_lowercase,
           Bare!PopFront, Bare!PushBack, Bare!Put, Bare!Remove, Bare!Accepts, Bare!Send
<1>9. CASE \/ TaskFailed(e) \/ TaskCompleted(e) \/ TimerFired(e)
           \/ SubOrchestrationInstanceCompleted(e) \/ SubOrchestrationInstanceFailed(e)
  <2>1. asked' = asked
    BY <1>3, <1>9 DEF TaskFailed, TaskCompleted, TimerFired, UnblockAndPoll, Unblock,
           SubOrchestrationInstanceCompleted, SubOrchestrationInstanceFailed
  <2>2. Unblock(e) => Bare!Unblock(e)
    BY <1>0, <2>1, SameOperators DEF Unblock, Process, future, queues,
           Bare!Unblock, Bare!Process, Bare!future, Bare!queues
  <2>3. Refused(e) <=> Bare!Refused(e)
    BY DEF Refused, Accepts, Bare!Refused, Bare!Accepts
  <2>4. TaskFailed(e) => Bare!TaskFailed(e)
    BY <1>0, <2>2, <2>3 DEF TaskFailed, Goto, Panic, Bare!TaskFailed, Bare!Goto, Bare!Panic
  <2>5. UnblockAndPoll(e) => Bare!UnblockAndPoll(e)
    BY <1>0, <2>2, <2>3 DEF UnblockAndPoll, ThenPoll, Goto, Panic,
           Bare!UnblockAndPoll, Bare!ThenPoll, Bare!Goto, Bare!Panic
  <2> QED BY <1>1, <1>9, <2>4, <2>5
       DEF TaskCompleted, TimerFired, SubOrchestrationInstanceCompleted,
           SubOrchestrationInstanceFailed,
           Bare!Next, Bare!process_event, Bare!TaskCompleted, Bare!TimerFired,
           Bare!SubOrchestrationInstanceCompleted, Bare!SubOrchestrationInstanceFailed
<1> QED BY <1>4, <1>5, <1>6, <1>7, <1>8, <1>9
     DEF process_event, TaskScheduled, TimerCreated, SubOrchestrationInstanceCreated, Created,
         TaskCompleted, TimerFired, SubOrchestrationInstanceCompleted,
         SubOrchestrationInstanceFailed

\* In a poll both do the same.
LEMMA BothPoll ==
    ASSUME AskedFor, Poll, UNCHANGED <<history, unacked>>, ~Acknowledging, ~Acknowledging',
           asked' = Laid(asked, pending_actions')
    PROVE  Bare!Poll
<1>0. pending_actions' = pending_actions => asked' = asked
  BY LaidOver
<1>1. /\ Bare!Polling <=> Polling
      /\ Bare!InStep <=> InStep
      /\ Bare!ThisOp = ThisOp /\ Bare!ThisCall = ThisCall /\ Bare!Body = Body
  BY DEF Polling, InStep, ThisOp, ThisCall, Body,
         Bare!Polling, Bare!InStep, Bare!ThisOp, Bare!ThisCall, Bare!Body
<1>2. /\ Bare!Uncalled <=> Uncalled
      /\ Bare!AtTask <=> AtTask
      /\ Bare!Awaited <=> Awaited
      /\ Bare!AtStepEnd <=> AtStepEnd
      /\ Bare!AtReturn <=> AtReturn
  BY <1>1 DEF Uncalled, AtTask, Awaited, AtStepEnd, AtReturn,
         Bare!Uncalled, Bare!AtTask, Bare!Awaited, Bare!AtStepEnd, Bare!AtReturn
<1>3. \A t : /\ Bare!IsReady(t) <=> IsReady(t)
             /\ Bare!PollPanics(t) <=> PollPanics(t)
             /\ Bare!Receives(t) <=> Receives(t)
             /\ Bare!Take(t) = Take(t)
             /\ Bare!DropFuture(t) = DropFuture(t)
             /\ Bare!HasMessage(t) <=> HasMessage(t)
             /\ Bare!Forsaken(t) <=> Forsaken(t)
             /\ Bare!Fail(t) = Fail(t)
  BY DEF IsReady, PollPanics, Receives, Take, DropFuture, HasMessage, Forsaken, Fail, Unfinished,
         Bare!IsReady, Bare!PollPanics, Bare!Receives, Bare!Take, Bare!DropFuture,
         Bare!HasMessage, Bare!Forsaken, Bare!Fail, Bare!Unfinished
<1>4. \A h : /\ Bare!Allowed(h) <=> Allowed(h)
             /\ Bare!Spend(h) <=> Spend(h)
             /\ Bare!IsTaken(h) <=> IsTaken(h)
  BY <1>3 DEF Allowed, Spend, IsTaken, Bare!Allowed, Bare!Spend, Bare!IsTaken
<1>5. Bare!StepHandles = StepHandles /\ (Bare!StepDone <=> StepDone)
  <2>1. Bare!StepHandles = StepHandles
    BY <1>1 DEF StepHandles, Bare!StepHandles
  <2> QED BY <1>1, <1>4, <2>1 DEF StepDone, Bare!StepDone
<1>6. CASE create_timer \/ call_activity \/ call_sub_orchestrator
  <2>1. asked' = asked
    BY <1>0, <1>6 DEF create_timer, call_activity, call_sub_orchestrator, Schedule, ctx
  <2>2. ASSUME NEW kind, Schedule(kind) PROVE Bare!Schedule(kind)
    BY <1>1, <1>2, <2>1, <2>2 DEF Schedule, NewTask, future, ctx,
       Bare!Schedule, Bare!NewTask, Bare!future, Bare!ctx
  <2> QED BY <1>6, <2>2 DEF create_timer, call_activity, call_sub_orchestrator,
       Bare!Poll, Bare!create_timer, Bare!call_activity, Bare!call_sub_orchestrator
<1>7. CASE await_signal_event
  <2>1. asked' = asked
    BY <1>0, <1>7 DEF await_signal_event
  <2>2. /\ \A v : Bare!CompletedTask(v) = CompletedTask(v)
        /\ Bare!NewTask = NewTask
        /\ \A f, k : Bare!PopFront(f, k) = PopFront(f, k)
        /\ \A s : Bare!to_lowercase(s) = to_lowercase(s)
    BY SameOperators DEF CompletedTask, NewTask, PopFront, to_lowercase,
       Bare!CompletedTask, Bare!NewTask, Bare!PopFront, Bare!to_lowercase
  <2>3. Bare!await_signal_event
    BY <1>1, <1>2, <1>7, <2>1, <2>2 DEF await_signal_event, Goto, Panic, future,
       Bare!await_signal_event, Bare!Goto, Bare!Panic, Bare!future
  <2> QED BY <2>3 DEF Bare!Poll
<1>8. CASE TaskReady \/ TaskPending \/ TaskForsaken \/ TaskIgnored \/ TaskPanics \/ PolledAgain
  <2>1. asked' = asked
    BY <1>0, <1>8 DEF TaskReady, TaskPending, TaskForsaken, TaskIgnored, TaskPanics, PolledAgain,
       ctx
  <2>2. TaskReady => Bare!TaskReady
    BY <1>1, <1>2, <1>3, <1>4, <2>1 DEF TaskReady, Goto, Panic, ctx,
       Bare!TaskReady, Bare!Goto, Bare!Panic, Bare!ctx
  <2>3. TaskPending => Bare!TaskPending
    BY <1>1, <1>2, <1>3, <1>4, <2>1 DEF TaskPending, called, ctx,
       Bare!TaskPending, Bare!called, Bare!ctx
  <2>4. TaskIgnored => Bare!TaskIgnored
    BY <1>1, <1>2, <2>1 DEF TaskIgnored, called, ctx,
       Bare!TaskIgnored, Bare!called, Bare!ctx
  <2>5. TaskPanics => Bare!TaskPanics
    BY <1>1, <1>2, <1>3, <1>4, <2>1 DEF TaskPanics, Panic, future, called, ctx,
       Bare!TaskPanics, Bare!Panic, Bare!future, Bare!called, Bare!ctx
  <2>6. TaskForsaken => Bare!TaskForsaken
    BY <1>1, <1>2, <1>3, <1>4, <2>1 DEF TaskForsaken, ctx, Bare!TaskForsaken, Bare!ctx
  <2>7. PolledAgain => Bare!PolledAgain
    BY <1>1, <1>2, <2>1 DEF PolledAgain, Panic, future, called, ctx,
       Bare!PolledAgain, Bare!Panic, Bare!future, Bare!called, Bare!ctx
  <2> QED BY <1>8, <2>2, <2>3, <2>4, <2>5, <2>6, <2>7 DEF Bare!Poll
<1>9. CASE FinishStep \/ Block \/ ReturnAtOnce \/ ReturnIgnored
  <2>1. asked' = asked
    BY <1>0, <1>9 DEF FinishStep, Block, ReturnAtOnce, ReturnIgnored, ctx
  <2>2. FinishStep => Bare!FinishStep
    BY <1>1, <1>2, <1>3, <1>5, <2>1 DEF FinishStep, ctx, Bare!FinishStep, Bare!ctx
  <2>3. Block => Bare!Block
    BY <1>1, <1>2, <1>5, <2>1 DEF Block, Goto, called, ctx,
       Bare!Block, Bare!Goto, Bare!called, Bare!ctx
  <2>4. ReturnAtOnce => Bare!ReturnAtOnce
    BY <1>2, <2>1, SameOperators DEF ReturnAtOnce, Goto, future, ctx,
       Bare!ReturnAtOnce, Bare!Goto, Bare!future, Bare!ctx
  <2>5. ReturnIgnored => Bare!ReturnIgnored
    BY <1>2, <2>1 DEF ReturnIgnored, Goto, called, ctx,
       Bare!ReturnIgnored, Bare!Goto, Bare!called, Bare!ctx
  <2> QED BY <1>9, <2>2, <2>3, <2>4, <2>5 DEF Bare!Poll
<1>10. CASE Complete
  <2>1. asked' = Put(asked, sequence_number + 1, Registry[name].result)
    BY <1>10, LaidOver DEF Complete
  <2>2. Bare!Complete
    BY <1>2, <1>10, <2>1, SameOperators DEF Complete, Goto, called, queues,
       Bare!Complete, Bare!Goto, Bare!called, Bare!queues
  <2> QED BY <2>2 DEF Bare!Poll
<1> QED BY <1>6, <1>7, <1>8, <1>9, <1>10 DEF Poll

\* What is not an event is done by both, unless the first goes on from an
\* acknowledgement.
LEMMA BothGoOn ==
    ASSUME IInv, BareInv, Execute \/ get_actions, LooksOn
    PROVE  /\ Bare!Next \/ UNCHANGED Bare!vars
           /\ UNCHANGED <<history, unacked>>
           /\ Acknowledging' => Acknowledging /\ drained' = drained /\ calls' = calls
           /\ Polling' => Polling
<1>0. /\ AskedFor /\ (Acknowledging => drained = Len(calls)) /\ (Polling => ~AtAck)
      /\ HistoryOK
  BY DEF IInv, TypeOK, BareInv
<1>1. history' = history
  BY DEF Execute, Poll, create_timer, call_activity, call_sub_orchestrator, Schedule,
         await_signal_event, TaskReady, TaskPending, TaskForsaken, TaskIgnored, TaskPanics,
         PolledAgain, FinishStep, Block, Complete, ReturnAtOnce, ReturnIgnored, DrainTask,
         DrainWaiter, NextEvent, get_actions
<1>2. unacked' = unacked /\ (AtAck' <=> AtAck)
  BY <1>1 DEF LooksOn, AtAck
<1>3. asked' = Laid(asked, pending_actions')
  BY DEF LooksOn, Laid
<1>4. pending_actions' = pending_actions => asked' = asked
  BY <1>0, <1>3, LaidOver
<1>5. CASE NextEvent
  <2>1. asked' = asked
    BY <1>4, <1>5 DEF NextEvent, ctx
  <2>2. /\ pc = "drain" /\ pc' = "event" /\ panic' = panic /\ ~Acknowledging' /\ ~Polling'
        /\ UNCHANGED <<future, called, drained, budget, sequence_number, pending_tasks, queues>>
    BY <1>5 DEF NextEvent, Goto, Acknowledging, Polling, ctx, queues
  <2>3. CASE Acknowledging
    <3>1. UNCHANGED Bare!vars
      BY <1>1, <1>2, <2>1, <2>2, <2>3 DEF future, called, queues,
         Bare!vars, Bare!future, Bare!called, Bare!ctx
    <3> QED BY <1>1, <1>2, <2>2, <3>1
  <2>4. CASE ~Acknowledging
    <3>1. Bare!NextEvent
      BY <1>1, <1>2, <1>5, <2>1, <2>2, <2>4 DEF NextEvent, future, called, queues,
         Bare!NextEvent, Bare!Goto, Bare!future, Bare!called, Bare!ctx
    <3> QED BY <1>1, <1>2, <2>2, <3>1 DEF Bare!Next, Bare!Execute
  <2> QED BY <2>3, <2>4
<1>6. CASE get_actions
  <2>1. asked' = asked
    BY <1>4, <1>6 DEF get_actions, ctx
  <2>2. /\ pc = "event" /\ pc' = "done" /\ ~Acknowledging /\ ~Acknowledging' /\ ~Polling'
    BY <1>6 DEF get_actions, Goto, Acknowledging, Polling
  <2>3. Bare!get_actions
    BY <1>1, <1>2, <1>6, <2>1, <2>2 DEF get_actions, Goto, future, called, ctx,
       Bare!get_actions, Bare!Goto, Bare!future, Bare!called, Bare!ctx
  <2> QED BY <1>1, <1>2, <2>2, <2>3 DEF Bare!Next
<1>7. CASE DrainTask \/ DrainWaiter
  <2>1. /\ pc = "drain" /\ pc' = "drain" /\ drained < Len(calls) /\ ~Polling'
    BY <1>7 DEF DrainTask, DrainWaiter, Polling
  <2>2. ~Acknowledging /\ ~Acknowledging'
    <3>1. drained \in Nat /\ Len(calls) \in Nat
      BY LenProperties DEF IInv, TypeOK, CallsOK
    <3>2. ~Acknowledging
      BY <1>0, <2>1, <3>1
    <3> QED BY <1>2, <2>1, <3>2 DEF Acknowledging
  <2>3. CASE DrainTask
    <3>1. asked' = Put(asked, calls[drained + 1].id, calls[drained + 1].kind)
      BY <1>0, <1>3, <2>3, LaidOver DEF DrainTask
    <3>2. Bare!DrainTask
      BY <1>1, <1>2, <2>2, <2>3, <3>1, SameOperators DEF DrainTask, future, called, queues,
         TaskKinds, Bare!DrainTask, Bare!future, Bare!called, Bare!queues, Bare!TaskKinds
    <3> QED BY <1>1, <1>2, <2>1, <2>2, <3>2 DEF Bare!Next, Bare!Execute
  <2>4. CASE DrainWaiter
    <3>1. asked' = asked
      BY <1>4, <2>4 DEF DrainWaiter
    <3>2. Bare!DrainWaiter
      BY <1>1, <1>2, <2>2, <2>4, <3>1 DEF DrainWaiter, future, called, PushBack, Put,
         Bare!DrainWaiter, Bare!future, Bare!called, Bare!PushBack, Bare!Put
    <3> QED BY <1>1, <1>2, <2>1, <2>2, <3>2 DEF Bare!Next, Bare!Execute
  <2> QED BY <1>7, <2>3, <2>4
<1>8. CASE Poll
  <2>1. Polling
    BY <1>8 DEF Poll, create_timer, call_activity, call_sub_orchestrator, Schedule,
         await_signal_event, TaskReady, TaskPending, TaskForsaken, TaskIgnored, TaskPanics,
         PolledAgain, FinishStep, Block, Complete, ReturnAtOnce, ReturnIgnored, Awaited, AtTask,
         Uncalled, InStep, AtStepEnd, AtReturn
  <2>2. ~Acknowledging /\ ~Acknowledging'
    BY <1>0, <1>2, <2>1 DEF Acknowledging
  <2>3. Bare!Poll
    BY <1>0, <1>1, <1>2, <1>3, <1>8, <2>2, BothPoll
  <2> QED BY <1>1, <1>2, <2>1, <2>2, <2>3 DEF Bare!Next, Bare!Execute
<1> QED BY <1>5, <1>6, <1>7, <1>8 DEF Execute

-----------------------------------------------------------------------------
(* The steps of the first alone.                                           *)

\* An acknowledgement takes an action off the map, and leaves the second
\* execution where it is.
LEMMA OneTakes ==
    ASSUME IInv, BareInv, NEW e \in Events, Deliverable(e), process_event(e),
           LooksOn, e.type \in Created
    PROVE  UNCHANGED Bare!vars /\ drained' = Len(calls')
<1>0. HistoryOK /\ AskedFor /\ UnackedOK
  BY DEF IInv, TypeOK, BareInv
<1>1. /\ pc = "event" /\ pc' = "drain" /\ panic' = panic
      /\ pending_actions' = Remove(pending_actions, e.id)
      /\ UNCHANGED <<future, called, drained, budget, sequence_number, pending_tasks, queues>>
  BY DEF process_event, ExecutionStarted, ExecutionCompleted, ExecutionTerminated,
         IgnoredEvent, TaskScheduled, TimerCreated, SubOrchestrationInstanceCreated,
         Acknowledge, Process, Goto, TaskCompleted, TimerFired, TaskFailed,
         SubOrchestrationInstanceCompleted, SubOrchestrationInstanceFailed, EventRaised,
         Created, Ignored
<1>2. unacked' = unacked /\ ~Acknowledging /\ Acknowledging'
  BY <1>0, <1>1, SeenByBoth DEF Acknowledging
<1>3. asked' = asked
  <2>1. asked' = Laid(asked, pending_actions')
    BY DEF LooksOn, Laid
  <2> QED BY <1>0, <1>1, <2>1, LaidOver
<1>4. drained = Len(calls)
  BY <1>1 DEF IInv, Quiescent
<1> QED BY <1>1, <1>2, <1>3, <1>4 DEF future, called, queues,
        Bare!vars, Bare!future, Bare!called, Bare!ctx

BInv == IInv /\ BareInv

LEMMA StepBInv ==
    ASSUME BInv, [ReplayNext]_replay_vars
    PROVE  BInv' /\ [Bare!Next]_(Bare!vars)
<1>0. IInv /\ BareInv /\ HistoryOK /\ AskedFor /\ UnackedOK
  BY DEF BInv, IInv, TypeOK, BareInv
<1>1. ASSUME ReplayNext PROVE AskedFor'
  <2>1. asked' = Laid(asked, pending_actions')
    BY <1>1 DEF ReplayNext, LooksOn, Laid
  <2> QED BY <1>0, <2>1, StaysAskedFor
<1>2. ASSUME ReplayNext PROVE IInv'
  BY <1>0, <1>2, StepIInv, NextIsAnyStep DEF ReplayNext
<1>3. ASSUME NEW e \in Events, Deliverable(e), process_event(e), LooksOn, ReplayNext
      PROVE  BInv' /\ [Bare!Next]_(Bare!vars)
  <2>1. UnackedOK' /\ (AtAck' <=> e.type \in Created)
    BY <1>0, <1>3, SeenByBoth
  <2>2. CASE e.type \in Created
    <3>1. UNCHANGED Bare!vars /\ drained' = Len(calls')
      BY <1>0, <1>3, <2>2, OneTakes
    <3>2. ~Polling'
      BY <1>3, <2>2 DEF process_event, ExecutionStarted, ExecutionCompleted,
         ExecutionTerminated, IgnoredEvent, TaskScheduled, TimerCreated,
         SubOrchestrationInstanceCreated, Acknowledge, Goto, TaskCompleted, TimerFired,
         TaskFailed, SubOrchestrationInstanceCompleted, SubOrchestrationInstanceFailed,
         EventRaised, Created, Ignored, Polling
    <3> QED BY <1>1, <1>2, <1>3, <2>1, <3>1, <3>2 DEF BInv, BareInv
  <2>3. CASE e.type \notin Created
    <3>1. Bare!Next
      BY <1>0, <1>3, <2>3, BothTake
    <3> QED BY <1>1, <1>2, <1>3, <2>1, <2>3, <3>1 DEF BInv, BareInv, Acknowledging
  <2> QED BY <2>2, <2>3
<1>4. ASSUME Execute \/ get_actions, LooksOn, ReplayNext
      PROVE  BInv' /\ [Bare!Next]_(Bare!vars)
  <2>1. /\ Bare!Next \/ UNCHANGED Bare!vars
        /\ UNCHANGED <<history, unacked>>
        /\ Acknowledging' => Acknowledging /\ drained' = drained /\ calls' = calls
        /\ Polling' => Polling
    BY <1>0, <1>4, BothGoOn
  <2>2. UnackedOK' /\ (AtAck' <=> AtAck)
    BY <1>0, <2>1 DEF UnackedOK, AtAck
  <2>3. (Acknowledging' => drained' = Len(calls')) /\ (Polling' => ~AtAck')
    BY <1>0, <2>1, <2>2 DEF BareInv
  <2> QED BY <1>1, <1>2, <1>4, <2>1, <2>2, <2>3 DEF BInv, BareInv
<1>5. CASE UNCHANGED replay_vars
  <2>1. IInv'
    BY <1>0, <1>5, StepIInv DEF replay_vars
  <2>2. UNCHANGED <<history, pc, panic, future, called, drained, budget, ctx, unacked, asked>>
    BY <1>5 DEF replay_vars, vars
  <2>3. BareInv' /\ UNCHANGED Bare!vars
    BY <1>0, <2>2 DEF BareInv, AskedFor, UnackedOK, Acknowledging, AtAck, Polling, future,
       called, ctx, Bare!vars, Bare!future, Bare!called, Bare!ctx
  <2> QED BY <2>1, <2>3 DEF BInv
<1> QED BY <1>3, <1>4, <1>5 DEF ReplayNext, Next

LEMMA InitBInv == ReplayInit => BInv /\ Bare!Init
<1> SUFFICES ASSUME ReplayInit PROVE BInv /\ Bare!Init
  OBVIOUS
<1>1. /\ Init /\ unacked = <<>> /\ asked = EmptyMap /\ history = <<>> /\ pc = "event"
      /\ pending_actions = EmptyMap
  BY DEF ReplayInit, Init
<1>2. ~Acknowledging /\ ~Polling
  BY <1>1 DEF Acknowledging, Polling
<1>3. AskedFor
  BY <1>1, EmptyMapIsMap DEF AskedFor, IsMap
<1>4. UnackedOK
  BY <1>1 DEF UnackedOK
<1>5. BInv
  BY <1>1, <1>2, <1>3, <1>4, InitIInv DEF BInv, BareInv
<1>6. Bare!Init
  BY <1>1, <1>2 DEF Init, EmptyMap, Bare!Init, Bare!EmptyMap
<1> QED BY <1>5, <1>6

\* Acknowledgements make no difference: whatever they are for and wherever the
\* sidecar has put them in the log, its execution is one over the log without.
THEOREM AcknowledgementsAside == ReplaySpec => AcknowledgedIsBare
<1>1. BInv /\ [ReplayNext]_replay_vars => BInv' /\ [Bare!Next]_(Bare!vars)
  BY StepBInv
<1> QED BY InitBInv, <1>1, PTL DEF ReplaySpec, AcknowledgedIsBare, Bare!Spec
=============================================================================
