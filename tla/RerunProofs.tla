---------------------------- MODULE RerunProofs ----------------------------
(***************************************************************************)
(* Proofs about what happens when a work item is executed over a log that  *)
(* an earlier execution wrote: the executor does on it what was done then. *)
(* The argument is that one execution step is a function of the state of   *)
(* the executor and the event it takes.  The function is written down and  *)
(* proved to be what the actions do; that replays agree follows from it,   *)
(* and that the filter shows each line once.                               *)
(***************************************************************************)
EXTENDS InstanceProofs

-----------------------------------------------------------------------------
(* The executor as a function.                                             *)

\* All that an execution depends on, but for the events behind it: of those it
\* counts how many there were.  That it is done is no state of its own.
State ==
    [ at |-> Len(history), pc |-> IF pc = "done" THEN "event" ELSE pc, panic |-> panic,
      fn |-> fn, name |-> name, step |-> step, op |-> op, base |-> base,
      calls |-> calls, tasks |-> tasks, drained |-> drained, budget |-> budget,
      octx |-> octx_sequence_number, seq |-> sequence_number,
      actions |-> pending_actions, senders |-> pending_tasks,
      waiters |-> pending_events, buffer |-> received_events ]

Start ==
    [ at |-> 0, pc |-> "event", panic |-> "none",
      fn |-> "none", name |-> None, step |-> 1, op |-> 1, base |-> 0,
      calls |-> <<>>, tasks |-> <<>>, drained |-> 0, budget |-> Budget,
      octx |-> 0, seq |-> 0,
      actions |-> EmptyMap, senders |-> EmptyMap,
      waiters |-> EmptyMap, buffer |-> EmptyMap ]

\* Goto and Panic.
To(s, label)     == [s EXCEPT !.pc = label]
Panicked(s, why) == [s EXCEPT !.pc = "panicked", !.panic = why]

\* The channels: DrainTask, DrainWaiter and NextEvent.
DrainOf(s) ==
    LET h == s.drained + 1
        c == s.calls[h]
    IN IF s.drained = Len(s.calls) THEN To(s, "event")
       ELSE IF c.kind = "signal"
       THEN [s EXCEPT !.drained = h,
                      !.waiters = IF s.tasks[h].completed THEN s.waiters
                                  ELSE PushBack(s.waiters, c.name, h)]
       ELSE [s EXCEPT !.drained = h, !.seq = c.id,
                      !.actions = Put(s.actions, c.id, c.kind),
                      !.senders = Put(s.senders, c.id, h)]

\* A call: Schedule and await_signal_event.
Called(s, call, task) ==
    [s EXCEPT !.calls = Append(s.calls, call), !.tasks = Append(s.tasks, task)]
CallOf(s, o) ==
    LET key  == to_lowercase(o.name)
        call == [kind |-> "signal", id |-> 0, name |-> key]
        rest == [s EXCEPT !.buffer = PopFront(s.buffer, key)]
        head == Head(s.buffer[key])
    IN IF o.kind # "signal"
       THEN Called([s EXCEPT !.octx = s.octx + 1],
                   [kind |-> o.kind, id |-> s.octx + 1, name |-> None], NewTask)
       ELSE IF key \notin DOMAIN s.buffer THEN Called(s, call, NewTask)
       ELSE IF head = None THEN Panicked(rest, "no value")
       ELSE Called(rest, call, CompletedTask(head))

\* An await: TaskReady, TaskPending, TaskForsaken, TaskIgnored, TaskPanics and
\* PolledAgain.
AwaitOf(s, st, h) ==
    LET task    == s.tasks[h]
        allowed == task.completed \/ s.budget > 0
        spent   == [s EXCEPT !.budget = IF Receives(task) /\ s.budget > 0
                                        THEN s.budget - 1 ELSE s.budget]
        taken   == [spent EXCEPT !.tasks = [s.tasks EXCEPT ![h] = Take(@)]]
        failed  == [spent EXCEPT !.tasks = [s.tasks EXCEPT ![h] = Fail(@)]]
    IN IF st.mode = "none" THEN [s EXCEPT !.op = s.op + 1]
       ELSE IF task.rx = "failed" THEN Panicked(s, "polled again")
       ELSE IF IsReady(task) /\ allowed
       THEN IF st.ops[s.op].kind = "timer" \/ task.value \in Decodable
            THEN [taken EXCEPT !.op = IF st.mode = "any" THEN Len(st.ops) + 1 ELSE s.op + 1]
            ELSE Panicked(taken, "decode")
       ELSE IF PollPanics(task) /\ allowed
       THEN Panicked(spent, "no value")
       ELSE IF Forsaken(task) /\ allowed THEN [failed EXCEPT !.op = s.op + 1]
       ELSE [s EXCEPT !.op = s.op + 1]

\* The end of a step: FinishStep and Block.
DoneIn(s, st) ==
    LET taken == {h \in s.base + 1 .. s.base + Len(st.ops) :
                     h \in DOMAIN s.tasks /\ s.tasks[h].rx = "taken"}
    IN \/ st.mode = "none"
       \/ st.mode = "all" /\ taken = s.base + 1 .. s.base + Len(st.ops)
       \/ st.mode = "any" /\ taken # {}
EndOf(s, st) ==
    IF DoneIn(s, st)
    THEN [s EXCEPT !.tasks = [h \in DOMAIN s.tasks |->
                                 IF h > s.base THEN DropFuture(s.tasks[h]) ELSE s.tasks[h]],
                   !.step = s.step + 1, !.op = 1, !.base = Len(s.calls)]
    ELSE [s EXCEPT !.op = 1, !.fn = "pending", !.pc = "drain"]

\* The return: Complete, ReturnAtOnce and ReturnIgnored.
ReturnOf(s) ==
    IF s.pc = "resume"
    THEN [s EXCEPT !.fn = "ready", !.seq = s.seq + 1, !.pc = "drain",
                   !.actions = Put(s.actions, s.seq + 1, Registry[s.name].result)]
    ELSE IF s.pc = "first"
    THEN [s EXCEPT !.tasks = [h \in DOMAIN s.tasks |-> DropSender(s.tasks[h])],
                   !.drained = Len(s.calls), !.pc = "drain"]
    ELSE [s EXCEPT !.fn = "ready", !.pc = "drain"]

StepOf(s) ==
    LET body == Registry[s.name].body
        st   == body[s.step]
    IN IF s.pc = "drain" THEN DrainOf(s)
       ELSE IF s.step > Len(body) THEN ReturnOf(s)
       ELSE IF s.op > Len(st.ops) THEN EndOf(s, st)
       ELSE IF s.base + s.op > Len(s.calls) THEN CallOf(s, st.ops[s.op])
       ELSE AwaitOf(s, st, s.base + s.op)

\* process_event: ThenPoll, and the arms.
PollOf(s, label) ==
    IF s.fn = "pending" THEN To(s, label)
    ELSE IF s.fn = "ready" THEN Panicked(s, "finished")
    ELSE IF label = "discard" THEN To(s, "drain")
    ELSE Panicked(s, "no future")

UnblockOf(s, e) ==
    LET h    == s.senders[e.id]
        rest == [s EXCEPT !.senders = Remove(s.senders, e.id)]
        next == IF e.id \notin DOMAIN s.senders THEN rest
                ELSE [rest EXCEPT !.tasks = [s.tasks EXCEPT ![h] =
                         IF e.value = None THEN DropSender(@) ELSE Send(@, e.value)]]
    IN IF /\ e.id \in DOMAIN s.senders
          /\ e.value # None
          /\ ~Accepts(s.tasks[h])
       THEN Panicked(next, "unblock")
       ELSE IF e.type = "TaskFailed" THEN To(next, "drain")
       ELSE PollOf(next, "resume")

RaisedOf(s, e) ==
    LET key == to_lowercase(e.name)
        h   == Head(s.waiters[key])
        sent == [s EXCEPT !.waiters = PopFront(s.waiters, key),
                          !.tasks = [s.tasks EXCEPT ![h] = Send(@, e.value)]]
    IN IF key \notin DOMAIN s.waiters
       THEN [s EXCEPT !.buffer = PushBack(s.buffer, key, e.value), !.pc = "drain"]
       ELSE IF Accepts(s.tasks[h]) THEN PollOf(sent, "resume")
       ELSE Panicked(sent, "unblock")

EventOf(s, e) ==
    LET on == [s EXCEPT !.at = s.at + 1]
    IN IF e.type = "ExecutionStarted" /\ e.name \in DOMAIN Registry
       THEN [on EXCEPT !.name = e.name, !.pc = "first"]
       ELSE IF e.type = "ExecutionCompleted" THEN PollOf(on, "discard")
       ELSE IF e.type = "ExecutionTerminated"
       THEN [on EXCEPT !.seq = on.seq + 1, !.pc = "drain",
                       !.actions = Put(on.actions, on.seq + 1, "Terminated")]
       ELSE IF e.type \in Created
       THEN [on EXCEPT !.actions = Remove(on.actions, e.id), !.pc = "drain"]
       ELSE IF e.type \in Resolved THEN UnblockOf(on, e)
       ELSE IF e.type = "EventRaised" THEN RaisedOf(on, e)
       ELSE To(on, "drain")

-----------------------------------------------------------------------------
(* It is what the actions do.                                              *)

Fields == {"at", "pc", "panic", "fn", "name", "step", "op", "base", "calls", "tasks",
           "drained", "budget", "octx", "seq", "actions", "senders", "waiters", "buffer"}
IsState(s) == s = [f \in Fields |-> s[f]]

Same(s, t) ==
    /\ s.at = t.at /\ s.pc = t.pc /\ s.panic = t.panic
    /\ s.fn = t.fn /\ s.name = t.name /\ s.step = t.step /\ s.op = t.op /\ s.base = t.base
    /\ s.calls = t.calls /\ s.tasks = t.tasks /\ s.drained = t.drained /\ s.budget = t.budget
    /\ s.octx = t.octx /\ s.seq = t.seq
    /\ s.actions = t.actions /\ s.senders = t.senders
    /\ s.waiters = t.waiters /\ s.buffer = t.buffer

LEMMA Extensional ==
    ASSUME NEW s, NEW t, IsState(s), IsState(t), Same(s, t)
    PROVE  s = t
BY DEF IsState, Same, Fields

LEMMA StateIsState == IsState(State)
BY DEF State, IsState, Fields

LEMMA NextStateIsState == IsState(State')
BY DEF State, IsState, Fields

\* The functions map states to states.
LEMMA GoneTo == ASSUME NEW s, IsState(s), NEW label PROVE IsState(To(s, label))
BY DEF To, IsState, Fields

LEMMA Panics == ASSUME NEW s, IsState(s), NEW why PROVE IsState(Panicked(s, why))
BY DEF Panicked, IsState, Fields

LEMMA Calling == ASSUME NEW s, IsState(s), NEW c, NEW t PROVE IsState(Called(s, c, t))
BY DEF Called, IsState, Fields

LEMMA StateFunctions ==
    ASSUME NEW s, IsState(s)
    PROVE  /\ IsState(DrainOf(s)) /\ IsState(ReturnOf(s))
           /\ \A st : IsState(EndOf(s, st))
           /\ \A st, h : IsState(AwaitOf(s, st, h))
           /\ \A o : IsState(CallOf(s, o))
<1>0. IsState(ReturnOf(s))
  BY GoneTo DEF ReturnOf, IsState, Fields
<1>1. IsState(DrainOf(s))
  BY ZenonT(40) DEF DrainOf, To, IsState, Fields
<1>2. \A st : IsState(EndOf(s, st))
  BY ZenonT(40) DEF EndOf, IsState, Fields
<1>3. ASSUME NEW st, NEW h PROVE IsState(AwaitOf(s, st, h))
  <2> PICK spent : spent = [s EXCEPT !.budget = IF Receives(s.tasks[h]) /\ s.budget > 0
                                                 THEN s.budget - 1 ELSE s.budget]
    OBVIOUS
  <2> PICK taken : taken = [spent EXCEPT !.tasks = [s.tasks EXCEPT ![h] = Take(@)]]
    OBVIOUS
  <2> PICK failed : failed = [spent EXCEPT !.tasks = [s.tasks EXCEPT ![h] = Fail(@)]]
    OBVIOUS
  <2>1. IsState(spent)
    BY DEF IsState, Fields
  <2>2. IsState(taken) /\ IsState(failed)
    BY <2>1 DEF IsState, Fields
  <2>3. IsState([s EXCEPT !.op = s.op + 1]) /\ IsState([failed EXCEPT !.op = s.op + 1])
    BY <2>2, ZenonT(40) DEF IsState, Fields
  <2>4. IsState([taken EXCEPT !.op = IF st.mode = "any" THEN Len(st.ops) + 1 ELSE s.op + 1])
    BY <2>2 DEF IsState, Fields
  <2>5. /\ IsState(Panicked(taken, "decode")) /\ IsState(Panicked(spent, "no value"))
        /\ IsState(Panicked(s, "polled again"))
    BY <2>1, <2>2, Panics
  <2> QED BY <2>3, <2>4, <2>5 DEF AwaitOf
<1>4. ASSUME NEW o PROVE IsState(CallOf(s, o))
  <2> PICK key : key = to_lowercase(o.name)
    OBVIOUS
  <2> PICK call : call = [kind |-> "signal", id |-> 0, name |-> key]
    OBVIOUS
  <2> PICK rest : rest = [s EXCEPT !.buffer = PopFront(s.buffer, key)]
    OBVIOUS
  <2> PICK more : more = [s EXCEPT !.octx = s.octx + 1]
    OBVIOUS
  <2>1. IsState(rest) /\ IsState(more)
    BY DEF IsState, Fields
  <2>2. /\ IsState(Called(more, [kind |-> o.kind, id |-> s.octx + 1, name |-> None], NewTask))
        /\ IsState(Called(s, call, NewTask))
        /\ IsState(Called(rest, call, CompletedTask(Head(s.buffer[key]))))
        /\ IsState(Panicked(rest, "no value"))
    BY <2>1, Calling, Panics
  <2> QED BY <2>2 DEF CallOf
<1> QED BY <1>0, <1>1, <1>2, <1>3, <1>4

LEMMA PollIsState == ASSUME NEW s, IsState(s), NEW label PROVE IsState(PollOf(s, label))
BY GoneTo, Panics DEF PollOf

LEMMA UnblockIsState == ASSUME NEW s, IsState(s), NEW e PROVE IsState(UnblockOf(s, e))
<1> PICK h : h = s.senders[e.id]
  OBVIOUS
<1> PICK rest : rest = [s EXCEPT !.senders = Remove(s.senders, e.id)]
  OBVIOUS
<1> PICK next : next = IF e.id \notin DOMAIN s.senders THEN rest
                ELSE [rest EXCEPT !.tasks = [s.tasks EXCEPT ![h] =
                         IF e.value = None THEN DropSender(@) ELSE Send(@, e.value)]]
  OBVIOUS
<1>1. IsState(next)
  BY DEF IsState, Fields
<1>2. /\ IsState(Panicked(next, "unblock")) /\ IsState(To(next, "drain"))
      /\ IsState(PollOf(next, "resume"))
  BY <1>1, PollIsState, GoneTo, Panics
<1> QED BY <1>2 DEF UnblockOf

LEMMA RaisedIsState == ASSUME NEW s, IsState(s), NEW e PROVE IsState(RaisedOf(s, e))
<1> PICK key : key = to_lowercase(e.name)
  OBVIOUS
<1> PICK sent : sent = [s EXCEPT !.waiters = PopFront(s.waiters, key),
                    !.tasks = [s.tasks EXCEPT ![Head(s.waiters[key])] = Send(@, e.value)]]
  OBVIOUS
<1>1. IsState(sent)
  BY DEF IsState, Fields
<1>2. IsState([s EXCEPT !.buffer = PushBack(s.buffer, key, e.value), !.pc = "drain"])
  BY DEF IsState, Fields
<1>3. IsState(Panicked(sent, "unblock")) /\ IsState(PollOf(sent, "resume"))
  BY <1>1, PollIsState, Panics
<1> QED BY <1>2, <1>3 DEF RaisedOf

LEMMA EventIsState == ASSUME NEW s, IsState(s), NEW e PROVE IsState(EventOf(s, e))
<1> PICK on : on = [s EXCEPT !.at = s.at + 1]
  OBVIOUS
<1>1. IsState(on)
  BY DEF IsState, Fields
<1>2. /\ IsState([on EXCEPT !.name = e.name, !.pc = "first"])
      /\ IsState([on EXCEPT !.seq = on.seq + 1, !.pc = "drain",
                            !.actions = Put(on.actions, on.seq + 1, "Terminated")])
      /\ IsState([on EXCEPT !.actions = Remove(on.actions, e.id), !.pc = "drain"])
  BY <1>1, ZenonT(40) DEF IsState, Fields
<1>3. /\ IsState(To(on, "drain")) /\ IsState(PollOf(on, "discard"))
      /\ IsState(UnblockOf(on, e)) /\ IsState(RaisedOf(on, e))
  BY <1>1, GoneTo, PollIsState, UnblockIsState, RaisedIsState
<1> QED BY <1>2, <1>3 DEF EventOf

LEMMA DrainIsFunction ==
    ASSUME TypeOK, DrainTask \/ DrainWaiter \/ NextEvent
    PROVE  pc = "drain" /\ State' = DrainOf(State)
<1>0. drained \in 0 .. Len(calls) /\ Len(calls) \in Nat
  BY LenProperties DEF TypeOK, CallsOK
<1>1. CASE DrainTask
  <2> PICK h : h = drained + 1
    OBVIOUS
  <2> PICK next : next = [State EXCEPT !.drained = h, !.seq = calls[h].id,
                              !.actions = Put(pending_actions, calls[h].id, calls[h].kind),
                              !.senders = Put(pending_tasks, calls[h].id, h)]
    OBVIOUS
  <2>1. pc = "drain" /\ drained # Len(calls) /\ calls[h].kind # "signal"
    BY <1>0, <1>1 DEF DrainTask, TaskKinds
  <2>2. DrainOf(State) = next
    BY <2>1 DEF DrainOf, State
  <2>3. Same(State', next)
    BY <1>1, <2>1 DEF DrainTask, State, Same, future, called, queues
  <2> QED BY <2>1, <2>2, <2>3, StateIsState, NextStateIsState, StateFunctions, Extensional
<1>2. CASE DrainWaiter
  <2> PICK h : h = drained + 1
    OBVIOUS
  <2> PICK next : next = [State EXCEPT !.drained = h,
                              !.waiters = IF tasks[h].completed THEN pending_events
                                          ELSE PushBack(pending_events, calls[h].name, h)]
    OBVIOUS
  <2>1. pc = "drain" /\ drained # Len(calls) /\ calls[h].kind = "signal"
    BY <1>0, <1>2 DEF DrainWaiter
  <2>2. DrainOf(State) = next
    BY <2>1 DEF DrainOf, State
  <2>3. Same(State', next)
    BY <1>2, <2>1 DEF DrainWaiter, State, Same, future, called
  <2> QED BY <2>1, <2>2, <2>3, StateIsState, NextStateIsState, StateFunctions, Extensional
<1>3. CASE NextEvent
  <2>1. pc = "drain" /\ Same(State', DrainOf(State))
    BY <1>3, ZenonT(40) DEF NextEvent, Goto, To, State, DrainOf, Same, future, called, ctx
  <2> QED BY <2>1, StateIsState, NextStateIsState, StateFunctions, Extensional
<1>4. QED BY <1>1, <1>2, <1>3

LEMMA CallIsFunction ==
    ASSUME Uncalled, \/ create_timer \/ call_activity \/ call_sub_orchestrator
                     \/ await_signal_event
    PROVE  State' = CallOf(State, ThisOp)
<1>1. ASSUME NEW kind \in TaskKinds, Schedule(kind)
      PROVE  State' = CallOf(State, ThisOp)
  <2> PICK more : more = [State EXCEPT !.octx = octx_sequence_number + 1]
    OBVIOUS
  <2> PICK call : call = [kind |-> kind, id |-> octx_sequence_number + 1, name |-> None]
    OBVIOUS
  <2>1. ThisOp.kind = kind /\ kind # "signal"
    BY <1>1 DEF Schedule, TaskKinds
  <2>2. CallOf(State, ThisOp) = Called(more, call, NewTask)
    BY <2>1 DEF CallOf, State
  <2>3. Same(State', Called(more, call, NewTask))
    BY <1>1 DEF Schedule, State, Called, Same, future, ctx
  <2> QED BY <2>2, <2>3, StateIsState, NextStateIsState, StateFunctions, Extensional
<1>2. CASE await_signal_event
  <2> PICK key : key = to_lowercase(ThisOp.name)
    OBVIOUS
  <2> PICK call : call = [kind |-> "signal", id |-> 0, name |-> key]
    OBVIOUS
  <2> PICK rest : rest = [State EXCEPT !.buffer = PopFront(received_events, key)]
    OBVIOUS
  <2> PICK value : value = Head(received_events[key])
    OBVIOUS
  <2>1. ThisOp.kind = "signal" /\ pc # "done"
    BY <1>2 DEF await_signal_event, Uncalled, InStep, Polling
  <2>2. CallOf(State, ThisOp) =
            IF key \notin DOMAIN received_events THEN Called(State, call, NewTask)
            ELSE IF value = None THEN Panicked(rest, "no value")
            ELSE Called(rest, call, CompletedTask(value))
    BY <2>1 DEF CallOf, State
  <2>3. CASE key \notin DOMAIN received_events
    <3>1. Same(State', Called(State, call, NewTask))
      BY <1>2, <2>1, <2>3, ZenonT(40) DEF await_signal_event, Goto, State, Called, Same, future
    <3> QED BY <2>2, <2>3, <3>1, StateIsState, NextStateIsState, StateFunctions, Extensional
  <2>4. CASE key \in DOMAIN received_events /\ value = None
    <3>1. Same(State', Panicked(rest, "no value"))
      BY <1>2, <2>1, <2>4, ZenonT(40) DEF await_signal_event, Panic, State, Panicked, Same, future
    <3> QED BY <2>2, <2>4, <3>1, StateIsState, NextStateIsState, StateFunctions, Extensional
  <2>5. CASE key \in DOMAIN received_events /\ value # None
    <3>1. Same(State', Called(rest, call, CompletedTask(value)))
      BY <1>2, <2>1, <2>5 DEF await_signal_event, Goto, State, Called, Same, future
    <3> QED BY <2>2, <2>5, <3>1, StateIsState, NextStateIsState, StateFunctions, Extensional
  <2> QED BY <2>3, <2>4, <2>5
<1>3. "timer" \in TaskKinds /\ "activity" \in TaskKinds /\ "sub" \in TaskKinds
  BY DEF TaskKinds
<1>4. CASE create_timer \/ call_activity \/ call_sub_orchestrator
  BY <1>1, <1>3, <1>4 DEF create_timer, call_activity, call_sub_orchestrator
<1> QED BY <1>2, <1>4

LEMMA AwaitIsFunction ==
    ASSUME AtTask, TaskReady \/ TaskPending \/ TaskForsaken \/ TaskIgnored \/ TaskPanics
                   \/ PolledAgain
    PROVE  State' = AwaitOf(State, Body[step], ThisCall)
<1> PICK h : h = ThisCall
  OBVIOUS
<1> PICK st : st = Body[step]
  OBVIOUS
<1> PICK task : task = tasks[h]
  OBVIOUS
<1> PICK spent : spent = [State EXCEPT !.budget = IF Receives(task) /\ budget > 0
                                                   THEN budget - 1 ELSE budget]
  OBVIOUS
<1> PICK taken : taken = [spent EXCEPT !.tasks = [tasks EXCEPT ![h] = Take(@)]]
  OBVIOUS
<1> PICK failed : failed = [spent EXCEPT !.tasks = [tasks EXCEPT ![h] = Fail(@)]]
  OBVIOUS
<1>0. pc # "done" /\ ThisOp = st.ops[op] /\ AtTask
  BY DEF AtTask, InStep, Polling, ThisOp
<1>1. AwaitOf(State, st, h) =
          IF st.mode = "none" THEN [State EXCEPT !.op = op + 1]
          ELSE IF task.rx = "failed" THEN Panicked(State, "polled again")
          ELSE IF IsReady(task) /\ Allowed(h)
          THEN IF ThisOp.kind = "timer" \/ task.value \in Decodable
               THEN [taken EXCEPT !.op = IF st.mode = "any" THEN Len(st.ops) + 1 ELSE op + 1]
               ELSE Panicked(taken, "decode")
          ELSE IF PollPanics(task) /\ Allowed(h) THEN Panicked(spent, "no value")
          ELSE IF Forsaken(task) /\ Allowed(h) THEN [failed EXCEPT !.op = op + 1]
          ELSE [State EXCEPT !.op = op + 1]
  BY <1>0 DEF AwaitOf, State, Allowed
<1>2. CASE TaskReady
  <2>1. /\ st.mode # "none" /\ task.rx # "failed" /\ IsReady(task) /\ Allowed(h)
        /\ tasks' = [tasks EXCEPT ![h] = Take(@)]
        /\ budget' = IF Receives(task) /\ budget > 0 THEN budget - 1 ELSE budget
    BY <1>2 DEF TaskReady, Awaited, Spend, IsReady
  <2>2. CASE ThisOp.kind = "timer" \/ task.value \in Decodable
    <3> PICK next :
          next = [taken EXCEPT !.op = IF st.mode = "any" THEN Len(st.ops) + 1 ELSE op + 1]
      OBVIOUS
    <3>1. Same(State', next)
      BY <1>0, <1>2, <2>1, <2>2 DEF TaskReady, Goto, State, Same, ctx
    <3>2. AwaitOf(State, st, h) = next
      BY <1>1, <2>1, <2>2
    <3>3. IsState(AwaitOf(State, st, h))
      BY StateIsState, StateFunctions
    <3> QED BY <3>1, <3>2, <3>3, NextStateIsState, Extensional
  <2>3. CASE ~(ThisOp.kind = "timer" \/ task.value \in Decodable)
    <3>1. Same(State', Panicked(taken, "decode"))
      BY <1>0, <1>2, <2>1, <2>3 DEF TaskReady, Panic, Panicked, State, Same, ctx
    <3> QED BY <1>1, <2>1, <2>3, <3>1, StateIsState, NextStateIsState, StateFunctions,
               Extensional, ZenonT(40)
  <2> QED BY <2>2, <2>3
<1>3. CASE TaskPending
  <2>1. /\ st.mode # "none" /\ task.rx # "failed"
        /\ ~(IsReady(task) /\ Allowed(h)) /\ ~(PollPanics(task) /\ Allowed(h))
        /\ ~(Forsaken(task) /\ Allowed(h))
    BY <1>3 DEF TaskPending, Awaited, IsReady, PollPanics, Forsaken
  <2>2. Same(State', [State EXCEPT !.op = op + 1])
    BY <1>3 DEF TaskPending, State, Same, called, ctx
  <2>3. AwaitOf(State, st, h) = [State EXCEPT !.op = op + 1]
    BY <1>1, <2>1
  <2>4. IsState(AwaitOf(State, st, h))
    BY StateIsState, StateFunctions
  <2> QED BY <2>2, <2>3, <2>4, NextStateIsState, Extensional
<1>4. CASE TaskIgnored
  <2>1. Same(State', [State EXCEPT !.op = op + 1])
    BY <1>4 DEF TaskIgnored, State, Same, called, ctx
  <2>2. st.mode = "none"
    BY <1>4 DEF TaskIgnored
  <2> QED BY <1>1, <2>1, <2>2, StateIsState, NextStateIsState, StateFunctions, Extensional
<1>5. CASE TaskPanics
  <2>1. /\ st.mode # "none" /\ task.rx # "failed"
        /\ ~IsReady(task) /\ PollPanics(task) /\ Allowed(h)
        /\ budget' = IF Receives(task) /\ budget > 0 THEN budget - 1 ELSE budget
    BY <1>5 DEF TaskPanics, Awaited, Spend, IsReady, PollPanics
  <2>2. Same(State', Panicked(spent, "no value"))
    BY <1>0, <1>5, <2>1, ZenonT(40) DEF TaskPanics, Panic, Panicked, State, Same, called, ctx,
       future
  <2> QED BY <1>1, <2>1, <2>2, StateIsState, NextStateIsState, StateFunctions, Extensional
<1>6. CASE TaskForsaken
  <2> PICK next : next = [failed EXCEPT !.op = op + 1]
    OBVIOUS
  <2>1. /\ st.mode # "none" /\ task.rx # "failed" /\ ~IsReady(task) /\ ~PollPanics(task)
        /\ Forsaken(task) /\ Allowed(h)
        /\ tasks' = [tasks EXCEPT ![h] = Fail(@)]
        /\ budget' = IF Receives(task) /\ budget > 0 THEN budget - 1 ELSE budget
    BY <1>6 DEF TaskForsaken, Awaited, Spend, IsReady, PollPanics, Forsaken, HasMessage
  <2>2. Same(State', next)
    BY <1>6, <2>1 DEF TaskForsaken, State, Same, ctx
  <2>3. AwaitOf(State, st, h) = next
    BY <1>1, <2>1
  <2>4. IsState(AwaitOf(State, st, h))
    BY StateIsState, StateFunctions
  <2> QED BY <2>2, <2>3, <2>4, NextStateIsState, Extensional
<1>7. CASE PolledAgain
  <2>1. st.mode # "none" /\ task.rx = "failed"
    BY <1>7 DEF PolledAgain, Awaited
  <2>2. Same(State', Panicked(State, "polled again"))
    BY <1>0, <1>7, ZenonT(40) DEF PolledAgain, Panic, Panicked, State, Same, called, ctx, future
  <2> QED BY <1>1, <2>1, <2>2, StateIsState, NextStateIsState, StateFunctions, Extensional
<1> QED BY <1>2, <1>3, <1>4, <1>5, <1>6, <1>7

LEMMA EndIsFunction ==
    ASSUME Body[step].mode \in {"all", "any", "none", "never"}, AtStepEnd, FinishStep \/ Block
    PROVE  State' = EndOf(State, Body[step])
<1> PICK st : st = Body[step]
  OBVIOUS
<1> PICK next : next =
       [State EXCEPT !.tasks = [h \in DOMAIN tasks |->
                                   IF h > base THEN DropFuture(tasks[h]) ELSE tasks[h]],
                     !.step = step + 1, !.op = 1, !.base = Len(calls)]
  OBVIOUS
<1> PICK block : block = [State EXCEPT !.op = 1, !.fn = "pending", !.pc = "drain"]
  OBVIOUS
<1>0. pc # "done"
  BY DEF AtStepEnd, Polling
<1>1. EndOf(State, st) = IF DoneIn(State, st) THEN next ELSE block
  BY DEF EndOf, State
<1>2. DoneIn(State, st) <=> StepDone
  BY DEF DoneIn, State, StepDone, StepHandles, IsTaken
<1>3. CASE FinishStep
  <2>1. StepDone /\ Same(State', next)
    BY <1>0, <1>3 DEF FinishStep, State, Same, ctx
  <2> QED BY <1>1, <1>2, <2>1, StateIsState, NextStateIsState, StateFunctions, Extensional
<1>4. CASE Block
  <2>1. ~StepDone /\ Same(State', block)
    BY <1>0, <1>4 DEF Block, Goto, State, Same, called, ctx
  <2> QED BY <1>1, <1>2, <2>1, StateIsState, NextStateIsState, StateFunctions, Extensional
<1> QED BY <1>3, <1>4

LEMMA ReturnIsFunction ==
    ASSUME Complete \/ ReturnAtOnce \/ ReturnIgnored
    PROVE  State' = ReturnOf(State)
<1>1. CASE Complete
  <2> PICK next : next =
         [State EXCEPT !.fn = "ready", !.seq = sequence_number + 1, !.pc = "drain",
                       !.actions = Put(pending_actions, sequence_number + 1,
                                       Registry[name].result)]
    OBVIOUS
  <2>1. ReturnOf(State) = next
    BY <1>1 DEF Complete, ReturnOf, State
  <2>2. Same(State', next)
    BY <1>1 DEF Complete, Goto, State, Same, called, queues
  <2> QED BY <2>1, <2>2, StateIsState, NextStateIsState, StateFunctions, Extensional
<1>2. CASE ReturnAtOnce
  <2> PICK next : next =
         [State EXCEPT !.tasks = [h \in DOMAIN tasks |-> DropSender(tasks[h])],
                       !.drained = Len(calls), !.pc = "drain"]
    OBVIOUS
  <2>1. ReturnOf(State) = next
    BY <1>2 DEF ReturnAtOnce, ReturnOf, State
  <2>2. Same(State', next)
    BY <1>2 DEF ReturnAtOnce, Goto, State, Same, ctx, future
  <2> QED BY <2>1, <2>2, StateIsState, NextStateIsState, StateFunctions, Extensional
<1>3. CASE ReturnIgnored
  <2> PICK next : next = [State EXCEPT !.fn = "ready", !.pc = "drain"]
    OBVIOUS
  <2>1. ReturnOf(State) = next
    BY <1>3 DEF ReturnIgnored, ReturnOf, State
  <2>2. Same(State', next)
    BY <1>3 DEF ReturnIgnored, Goto, State, Same, called, ctx
  <2> QED BY <2>1, <2>2, StateIsState, NextStateIsState, StateFunctions, Extensional
<1> QED BY <1>1, <1>2, <1>3

\* A poll, or a step of the drain, is a function of the state.
LEMMA PollIsFunction ==
    ASSUME IInv, Polling, Poll
    PROVE  State' = StepOf(State)
<1> PICK st : st = Body[step]
  OBVIOUS
<1>1. TypeOK /\ Known /\ PositionOK
  BY DEF IInv, Running, Known, TypeOK
<1>2. /\ Len(Body) \in Nat /\ step \in Nat /\ step >= 1 /\ op \in Nat /\ base \in Nat
      /\ Len(calls) \in Nat
  BY <1>1, KnownBody, HandleTypes DEF PositionOK
<1>3. ASSUME step <= Len(Body)
      PROVE  Len(st.ops) \in Nat /\ st.mode \in {"all", "any", "none", "never"}
  <2>1. step \in 1 .. Len(Body)
    BY <1>2, <1>3
  <2>2. Body[step] \in Step
    BY <1>1, <2>1, KnownBody, ElementOfSeq
  <2> QED BY <1>1, <2>1, <2>2, KnownBody DEF Step
<1>4. StepOf(State) =
         IF step > Len(Body) THEN ReturnOf(State)
         ELSE IF op > Len(st.ops) THEN EndOf(State, st)
         ELSE IF ThisCall > Len(calls) THEN CallOf(State, st.ops[op])
         ELSE AwaitOf(State, st, ThisCall)
  BY DEF StepOf, State, Polling, Body, ThisCall
<1>5. CASE Complete \/ ReturnAtOnce \/ ReturnIgnored
  <2>1. step > Len(Body)
    BY <1>5 DEF Complete, ReturnAtOnce, ReturnIgnored, AtReturn
  <2> QED BY <1>4, <1>5, <2>1, ReturnIsFunction
<1>6. CASE FinishStep \/ Block
  <2>1. AtStepEnd
    BY <1>6 DEF FinishStep, Block
  <2>2. step <= Len(Body) /\ op > Len(st.ops)
    BY <2>1 DEF AtStepEnd
  <2>3. ~(step > Len(Body))
    BY <1>2, <2>2
  <2>4. State' = EndOf(State, st)
    BY <1>3, <1>6, <2>1, <2>2, EndIsFunction
  <2> QED BY <1>4, <2>2, <2>3, <2>4
<1>7. CASE create_timer \/ call_activity \/ call_sub_orchestrator \/ await_signal_event
  <2>1. Uncalled /\ ThisOp = st.ops[op]
    BY <1>7 DEF create_timer, call_activity, call_sub_orchestrator, await_signal_event, Schedule,
                ThisOp
  <2>2. step <= Len(Body) /\ op <= Len(st.ops) /\ ThisCall > Len(calls)
    BY <2>1 DEF Uncalled, InStep
  <2>3. ~(step > Len(Body)) /\ ~(op > Len(st.ops))
    BY <1>2, <1>3, <2>2
  <2>4. State' = CallOf(State, ThisOp)
    BY <1>7, <2>1, CallIsFunction
  <2> QED BY <1>4, <2>1, <2>2, <2>3, <2>4
<1>8. CASE TaskReady \/ TaskPending \/ TaskForsaken \/ TaskIgnored \/ TaskPanics \/ PolledAgain
  <2>1. AtTask
    BY <1>8 DEF TaskReady, TaskPending, TaskForsaken, TaskIgnored, TaskPanics, PolledAgain, Awaited
  <2>2. step <= Len(Body) /\ op <= Len(st.ops) /\ ThisCall <= Len(calls)
    BY <2>1 DEF AtTask, InStep
  <2>3. ~(step > Len(Body)) /\ ~(op > Len(st.ops)) /\ ~(ThisCall > Len(calls))
    BY <1>2, <1>3, <2>2 DEF ThisCall
  <2>4. State' = AwaitOf(State, st, ThisCall)
    BY <1>8, <2>1, AwaitIsFunction
  <2> QED BY <1>4, <2>3, <2>4
<1> QED BY <1>5, <1>6, <1>7, <1>8 DEF Poll

LEMMA StepIsFunction ==
    ASSUME IInv, Execute
    PROVE  pc \notin {"event", "done", "panicked"} /\ State' = StepOf(State)
<1>1. CASE DrainTask \/ DrainWaiter \/ NextEvent
  <2>1. pc = "drain" /\ State' = DrainOf(State)
    BY <1>1, DrainIsFunction DEF IInv
  <2> QED BY <2>1 DEF StepOf, State
<1>2. CASE Poll
  <2>1. Polling
    BY <1>2 DEF Poll, create_timer, call_activity, call_sub_orchestrator, Schedule,
       await_signal_event, TaskReady, TaskPending, TaskForsaken, TaskIgnored, TaskPanics,
       PolledAgain, FinishStep, Block, Complete, ReturnAtOnce, ReturnIgnored, Awaited, AtTask,
       Uncalled, InStep, AtStepEnd, AtReturn
  <2> QED BY <1>2, <2>1, PollIsFunction DEF Polling
<1> QED BY <1>1, <1>2 DEF Execute

\* To be told apart by pc and panic alone.
Alike(s, t) ==
    /\ s.at = t.at /\ s.fn = t.fn /\ s.name = t.name /\ s.step = t.step /\ s.op = t.op
    /\ s.base = t.base /\ s.calls = t.calls /\ s.tasks = t.tasks /\ s.drained = t.drained
    /\ s.budget = t.budget /\ s.octx = t.octx /\ s.seq = t.seq
    /\ s.actions = t.actions /\ s.senders = t.senders
    /\ s.waiters = t.waiters /\ s.buffer = t.buffer

LEMMA AfterGoto ==
    ASSUME NEW s, IsState(s), Alike(State', s), NEW label, label # "done", Goto(label),
           s.panic = panic
    PROVE  State' = To(s, label)
<1>1. State'.pc = label /\ State'.panic = s.panic
  BY DEF State, Goto
<1>2. Same(State', To(s, label))
  BY <1>1 DEF To, Same, Alike, IsState, Fields
<1> QED BY <1>2, GoneTo, NextStateIsState, Extensional

LEMMA AfterPanic ==
    ASSUME NEW s, IsState(s), Alike(State', s), NEW why, Panic(why)
    PROVE  State' = Panicked(s, why)
<1>1. State'.pc = "panicked" /\ State'.panic = why
  BY DEF State, Panic
<1>2. Same(State', Panicked(s, why))
  BY <1>1 DEF Panicked, Same, Alike, IsState, Fields
<1> QED BY <1>2, Panics, NextStateIsState, Extensional

LEMMA AfterThenPoll ==
    ASSUME NEW s, IsState(s), Alike(State', s), ThenPoll, s.panic = panic, s.fn = fn
    PROVE  State' = PollOf(s, "resume")
BY AfterGoto, AfterPanic DEF ThenPoll, PollOf
\* So is the next event's arm.
LEMMA OneMore ==
    ASSUME HistoryOK, NEW e, IsEvent(e), history' = Append(history, e)
    PROVE  Len(history') = Len(history) + 1 /\ Len(history) \in Nat
<1> PICK S : S = {history[i] : i \in DOMAIN history} \cup {e}
  OBVIOUS
<1>1. {history[i] : i \in DOMAIN history} \subseteq S /\ e \in S
  OBVIOUS
<1>2. history \in Seq(S)
  BY <1>1, SeqMonotonic DEF HistoryOK
<1> QED BY <1>1, <1>2, AppendProperties, LenProperties

LEMMA ThenEnds ==
    ASSUME NEW e, NEW next, IsState(next), next.fn = fn, next.panic = panic,
           Alike(State', next),
           IF Refused(e) THEN Panic("unblock")
           ELSE IF e.type = "TaskFailed" THEN Goto("drain") ELSE ThenPoll
    PROVE  State' = IF Refused(e) THEN Panicked(next, "unblock")
                    ELSE IF e.type = "TaskFailed" THEN To(next, "drain")
                    ELSE PollOf(next, "resume")
<1>1. CASE Refused(e)
  BY <1>1, AfterPanic
<1>2. CASE ~Refused(e) /\ e.type = "TaskFailed"
  <2>1. Goto("drain") /\ "drain" # "done"
    BY <1>2
  <2>2. State' = To(next, "drain")
    BY <2>1, AfterGoto
  <2> QED BY <1>2, <2>2
<1>3. CASE ~Refused(e) /\ e.type # "TaskFailed"
  <2>1. ThenPoll
    BY <1>3
  <2>2. State' = PollOf(next, "resume")
    BY <2>1, AfterThenPoll
  <2> QED BY <1>3, <2>2
<1> QED BY <1>1, <1>2, <1>3

LEMMA UnblockIsFunction ==
    ASSUME NEW e, Unblock(e), pc = "event", Len(history') = Len(history) + 1,
           IF Refused(e) THEN Panic("unblock")
           ELSE IF e.type = "TaskFailed" THEN Goto("drain") ELSE ThenPoll
    PROVE  State' = UnblockOf([State EXCEPT !.at = State.at + 1], e)
<1> PICK on : on = [State EXCEPT !.at = State.at + 1]
  OBVIOUS
<1> PICK h : h = on.senders[e.id]
  OBVIOUS
<1> PICK rest : rest = [on EXCEPT !.senders = Remove(on.senders, e.id)]
  OBVIOUS
<1> PICK next : next = IF e.id \notin DOMAIN on.senders THEN rest
                ELSE [rest EXCEPT !.tasks = [on.tasks EXCEPT ![h] =
                         IF e.value = None THEN DropSender(@) ELSE Send(@, e.value)]]
  OBVIOUS
<1>1. /\ on.senders = pending_tasks /\ on.tasks = tasks /\ h = pending_tasks[e.id]
      /\ on.at = Len(history') /\ on.fn = fn /\ on.panic = panic
      /\ IsState(on) /\ on.name = name /\ on.step = step /\ on.op = op /\ on.base = base
      /\ on.calls = calls /\ on.drained = drained /\ on.budget = budget
      /\ on.octx = octx_sequence_number /\ on.seq = sequence_number
      /\ on.actions = pending_actions /\ on.waiters = pending_events
      /\ on.buffer = received_events
  BY DEF State, IsState, Fields
<1>2. IsState(rest) /\ rest.fn = fn /\ rest.panic = panic
  BY <1>1, ZenonT(40) DEF IsState, Fields
<1> PICK more : more = [rest EXCEPT !.tasks = [on.tasks EXCEPT ![h] =
                            IF e.value = None THEN DropSender(@) ELSE Send(@, e.value)]]
  OBVIOUS
<1>6. IsState(more) /\ more.fn = fn /\ more.panic = panic
  BY <1>2, ZenonT(40) DEF IsState, Fields
<1>7. next = IF e.id \notin DOMAIN on.senders THEN rest ELSE more
  OBVIOUS
<1>3. IsState(next) /\ next.fn = fn /\ next.panic = panic
  BY <1>2, <1>6, <1>7
<1>4. Alike(State', next)
  BY <1>1, <1>2 DEF Unblock, Alike, State, IsState, Fields, future, queues
<1>5. UnblockOf(on, e) = IF Refused(e) THEN Panicked(next, "unblock")
                         ELSE IF e.type = "TaskFailed" THEN To(next, "drain")
                         ELSE PollOf(next, "resume")
  BY <1>1 DEF UnblockOf, Refused
<1>8. State' = IF Refused(e) THEN Panicked(next, "unblock")
               ELSE IF e.type = "TaskFailed" THEN To(next, "drain")
               ELSE PollOf(next, "resume")
  <2>1. IF Refused(e) THEN Panic("unblock")
        ELSE IF e.type = "TaskFailed" THEN Goto("drain") ELSE ThenPoll
    OBVIOUS
  <2> HIDE DEF State
  <2> QED BY ONLY <1>3, <1>4, <2>1, ThenEnds
<1>9. State' = UnblockOf(on, e)
  BY <1>5, <1>8
<1> QED BY <1>9

LEMMA RaisedIsFunction ==
    ASSUME NEW e, EventRaised(e), Len(history') = Len(history) + 1
    PROVE  State' = RaisedOf([State EXCEPT !.at = State.at + 1], e)
<1> PICK on : on = [State EXCEPT !.at = State.at + 1]
  OBVIOUS
<1> PICK key : key = to_lowercase(e.name)
  OBVIOUS
<1> PICK h : h = Head(on.waiters[key])
  OBVIOUS
<1> PICK sent : sent = [on EXCEPT !.waiters = PopFront(on.waiters, key),
                                  !.tasks = [on.tasks EXCEPT ![h] = Send(@, e.value)]]
  OBVIOUS
<1> PICK kept : kept = [on EXCEPT !.buffer = PushBack(on.buffer, key, e.value), !.pc = "drain"]
  OBVIOUS
<1>1. /\ on.senders = pending_tasks /\ on.tasks = tasks /\ h = Head(pending_events[key])
      /\ on.at = Len(history') /\ on.fn = fn /\ on.panic = panic
      /\ IsState(on) /\ on.name = name /\ on.step = step /\ on.op = op /\ on.base = base
      /\ on.calls = calls /\ on.drained = drained /\ on.budget = budget
      /\ on.octx = octx_sequence_number /\ on.seq = sequence_number
      /\ on.actions = pending_actions /\ on.waiters = pending_events
      /\ on.buffer = received_events
  BY DEF State, IsState, Fields
<1>2. CASE key \in DOMAIN pending_events
  <2>1. IsState(sent) /\ sent.fn = fn /\ sent.panic = panic
    BY <1>1, ZenonT(40) DEF IsState, Fields
  <2>2. Alike(State', sent)
    BY <1>1, <1>2 DEF EventRaised, Alike, State, IsState, Fields, future
  <2>3. RaisedOf(on, e) = IF Accepts(tasks[h]) THEN PollOf(sent, "resume")
                          ELSE Panicked(sent, "unblock")
    BY <1>1, <1>2 DEF RaisedOf
  <2>4. IF Accepts(tasks[h]) THEN ThenPoll ELSE Panic("unblock")
    BY <1>1, <1>2 DEF EventRaised
  <2> QED BY <2>1, <2>2, <2>3, <2>4, AfterPanic, AfterThenPoll
<1>3. CASE key \notin DOMAIN pending_events
  <2>1. IsState(kept)
    BY <1>1 DEF IsState, Fields
  <2>2. Same(State', kept)
    BY <1>1, <1>3 DEF EventRaised, Goto, Same, State, IsState, Fields, future
  <2>3. RaisedOf(on, e) = kept
    BY <1>1, <1>3 DEF RaisedOf
  <2> QED BY <2>1, <2>2, <2>3, NextStateIsState, Extensional
<1> QED BY <1>2, <1>3
LEMMA EventIsFunction ==
    ASSUME ControlOK, HistoryOK, NEW e, IsEvent(e), process_event(e)
    PROVE  State' = EventOf(State, e) /\ pc = "event"
<1>0. pc = "event" /\ Len(history') = Len(history) + 1 /\ Len(history) \in Nat
  BY EventTaken, OneMore
<1> PICK on : on = [State EXCEPT !.at = State.at + 1]
  OBVIOUS
<1>1. /\ on.senders = pending_tasks /\ on.tasks = tasks
      /\ on.at = Len(history') /\ on.fn = fn /\ on.panic = panic
      /\ IsState(on) /\ on.name = name /\ on.step = step /\ on.op = op /\ on.base = base
      /\ on.calls = calls /\ on.drained = drained /\ on.budget = budget
      /\ on.octx = octx_sequence_number /\ on.seq = sequence_number
      /\ on.actions = pending_actions /\ on.waiters = pending_events
      /\ on.buffer = received_events
  BY <1>0 DEF State, IsState, Fields
<1> PICK first : first = [on EXCEPT !.name = e.name, !.pc = "first"]
  OBVIOUS
<1> PICK ended : ended = [on EXCEPT !.seq = on.seq + 1, !.pc = "drain",
                                    !.actions = Put(on.actions, on.seq + 1, "Terminated")]
  OBVIOUS
<1> PICK acked : acked = [on EXCEPT !.actions = Remove(on.actions, e.id), !.pc = "drain"]
  OBVIOUS
<1>2. EventOf(State, e) =
         IF e.type = "ExecutionStarted" /\ e.name \in DOMAIN Registry THEN first
         ELSE IF e.type = "ExecutionCompleted" THEN PollOf(on, "discard")
         ELSE IF e.type = "ExecutionTerminated" THEN ended
         ELSE IF e.type \in Created THEN acked
         ELSE IF e.type \in Resolved THEN UnblockOf(on, e)
         ELSE IF e.type = "EventRaised" THEN RaisedOf(on, e)
         ELSE To(on, "drain")
  BY DEF EventOf
<1>3. IsState(first) /\ IsState(ended) /\ IsState(acked)
  <2>1. IsState(first)
    BY <1>1 DEF IsState, Fields
  <2>2. IsState(ended)
    BY <1>1, ZenonT(40) DEF IsState, Fields
  <2>3. IsState(acked)
    BY <1>1 DEF IsState, Fields
  <2> QED BY <2>1, <2>2, <2>3
<1>4. CASE ExecutionStarted(e)
  <2>1. CASE e.name \in DOMAIN Registry
    <3>1. Same(State', first)
      BY <1>1, <1>4, <2>1 DEF ExecutionStarted, Goto, Same, State, IsState, Fields, called, ctx
    <3>2. EventOf(State, e) = first
      BY <1>2, <1>4, <2>1 DEF ExecutionStarted
    <3> QED BY <1>0, <1>3, <3>1, <3>2, NextStateIsState, Extensional
  <2>2. CASE e.name \notin DOMAIN Registry
    <3>1. Goto("drain") /\ "drain" # "done" /\ Alike(State', on)
      BY <1>1, <1>4, <2>2 DEF ExecutionStarted, Alike, State, called, ctx
    <3>2. EventOf(State, e) = To(on, "drain")
      BY <1>2, <1>4, <2>2 DEF ExecutionStarted, Created, Resolved
    <3> QED BY <1>0, <1>1, <3>1, <3>2, AfterGoto
  <2> QED BY <2>1, <2>2
<1>5. CASE ExecutionCompleted(e)
  <2>1. Alike(State', on)
    BY <1>1, <1>5 DEF ExecutionCompleted, Alike, State, called, ctx, future
  <2>2. EventOf(State, e) = PollOf(on, "discard")
    BY <1>2, <1>5 DEF ExecutionCompleted
  <2>3. CASE fn = "pending"
    <3>1. Goto("discard") /\ "discard" # "done" /\ PollOf(on, "discard") = To(on, "discard")
      BY <1>1, <1>5, <2>3 DEF ExecutionCompleted, PollOf
    <3> QED BY <1>0, <1>1, <2>1, <2>2, <3>1, AfterGoto
  <2>4. CASE fn = "none"
    <3>1. Goto("drain") /\ "drain" # "done" /\ PollOf(on, "discard") = To(on, "drain")
      BY <1>1, <1>5, <2>4 DEF ExecutionCompleted, PollOf
    <3> QED BY <1>0, <1>1, <2>1, <2>2, <3>1, AfterGoto
  <2>5. CASE fn = "ready"
    <3>1. Panic("finished") /\ PollOf(on, "discard") = Panicked(on, "finished")
      BY <1>1, <1>5, <2>5 DEF ExecutionCompleted, PollOf
    <3> QED BY <1>0, <1>1, <2>1, <2>2, <3>1, AfterPanic
  <2> QED BY <2>3, <2>4, <2>5 DEF ControlOK
<1>6. CASE ExecutionTerminated(e)
  <2>1. Same(State', ended)
    BY <1>1, <1>6 DEF ExecutionTerminated, Goto, Same, State, IsState, Fields, called, queues,
                      future
  <2>2. EventOf(State, e) = ended
    BY <1>2, <1>6 DEF ExecutionTerminated
  <2> QED BY <1>0, <1>3, <2>1, <2>2, NextStateIsState, Extensional
<1>7. CASE TaskScheduled(e) \/ TimerCreated(e) \/ SubOrchestrationInstanceCreated(e)
  <2>1. Acknowledge(e) /\ e.type \in Created
    BY <1>7 DEF TaskScheduled, TimerCreated, SubOrchestrationInstanceCreated, Created
  <2>2. Same(State', acked)
    BY <1>1, <2>1 DEF Acknowledge, Goto, Same, State, IsState, Fields, called, queues, future
  <2>3. EventOf(State, e) = acked
    BY <1>2, <2>1 DEF Created
  <2> QED BY <1>0, <1>3, <2>2, <2>3, NextStateIsState, Extensional
<1>8. CASE \/ TaskCompleted(e) \/ TaskFailed(e) \/ TimerFired(e)
           \/ SubOrchestrationInstanceCompleted(e) \/ SubOrchestrationInstanceFailed(e)
  <2>1. Unblock(e) /\ e.type \in Resolved
    BY <1>8 DEF TaskCompleted, TaskFailed, TimerFired, SubOrchestrationInstanceCompleted,
                SubOrchestrationInstanceFailed, UnblockAndPoll, Resolved
  <2>2. IF Refused(e) THEN Panic("unblock")
        ELSE IF e.type = "TaskFailed" THEN Goto("drain") ELSE ThenPoll
    BY <1>8 DEF TaskCompleted, TaskFailed, TimerFired, SubOrchestrationInstanceCompleted,
                SubOrchestrationInstanceFailed, UnblockAndPoll
  <2>3. EventOf(State, e) = UnblockOf(on, e)
    BY <1>2, <2>1 DEF Created, Resolved
  <2> QED BY <1>0, <2>1, <2>2, <2>3, UnblockIsFunction
<1>9. CASE EventRaised(e)
  <2>1. EventOf(State, e) = RaisedOf(on, e)
    BY <1>2, <1>9 DEF EventRaised, Created, Resolved
  <2> QED BY <1>0, <1>9, <2>1, RaisedIsFunction
<1>10. CASE IgnoredEvent(e)
  <2>1. Goto("drain") /\ "drain" # "done" /\ Alike(State', on)
    BY <1>1, <1>10 DEF IgnoredEvent, Alike, State, called, ctx, future
  <2>2. EventOf(State, e) = To(on, "drain")
    BY <1>2, <1>10 DEF IgnoredEvent, Ignored, Created, Resolved
  <2> QED BY <1>0, <1>1, <2>1, <2>2, AfterGoto
<1> QED BY <1>0, <1>4, <1>5, <1>6, <1>7, <1>8, <1>9, <1>10 DEF process_event

\* The end of an execution changes nothing of it.
LEMMA EndIsRest == ASSUME get_actions PROVE State' = State
<1>1. Same(State', State)
  BY DEF get_actions, Goto, Same, State, future, called, ctx
<1> QED BY <1>1, StateIsState, NextStateIsState, Extensional

-----------------------------------------------------------------------------
(* An execution goes through a set of states, each given by the one before *)
(* it.                                                                     *)

\* The event is of a call that was made: see Deterministic.
Fits(s, e) ==
    /\ e.type \in Created =>
          e.id \in DOMAIN s.actions /\ s.actions[e.id] = KindOf(e.type)
    /\ e.type \in Resolved =>
          e.id \in DOMAIN s.senders /\ s.calls[s.senders[e.id]].kind \in KindResolved(e.type)

\* What an execution of the log L went through, up to the state it is in.
Goes(S, s, L, end) ==
    IF s.pc = "event"
    THEN s.at < end.at /\ Fits(s, L[s.at + 1]) /\ EventOf(s, L[s.at + 1]) \in S
    ELSE StepOf(s) \in S
Walk(S, L, end) ==
    /\ Start \in S /\ end \in S
    /\ \A s \in S : s.at \in Nat /\ s.at <= end.at
    /\ \A s \in S \ {end} : Goes(S, s, L, end)

SnapshotOf(s) ==
    [ name |-> s.name, fn |-> s.fn, step |-> s.step, op |-> s.op, base |-> s.base,
      calls |-> s.calls, tasks |-> s.tasks, drained |-> s.drained, budget |-> s.budget,
      octx_sequence_number |-> s.octx, sequence_number |-> s.seq,
      pending_tasks |-> s.senders, pending_events |-> s.waiters,
      received_events |-> s.buffer ]

\* The actions of the last answer, and nothing else, have been acknowledged.
AllAcknowledged(last) ==
    /\ \A i \in last.at + 1 .. Len(log) :
          /\ log[i].type \in Created /\ log[i].id \in DOMAIN last.actions
          /\ last.actions[log[i].id] = KindOf(log[i].type)
    /\ \A id \in DOMAIN last.actions : \E i \in last.at + 1 .. Len(log) : log[i].id = id

\* The execution that gave the last answer went through past, to last.
LastRun(past, last) ==
    /\ Walk(past, log, last)
    /\ last.pc = "event" /\ last.at <= Len(log)
    /\ saved = SnapshotOf(last)
    /\ status = "running" => AllAcknowledged(last)

\* The executor has done what was done then, and is among the acknowledgements.
Acking(last) ==
    /\ Len(history) >= last.at
    /\ pc \in {"event", "drain"} /\ drained = Len(calls)
    /\ Snapshot = saved
    /\ \A id : id \in DOMAIN pending_actions <=>
          /\ id \in DOMAIN last.actions
          /\ \A i \in last.at + 1 .. Len(history) : log[i].id # id
    /\ \A id \in DOMAIN pending_actions : pending_actions[id] = last.actions[id]

\* It does again what was done then, or acknowledges that, or is beyond it.
Replays(past, last) ==
    \/ State \in past \ {last}
    \/ Acking(last)
    \/ Len(history) > Len(log)

RerunInv ==
    /\ \E past, last, mine :
          LastRun(past, last) /\ Walk(mine, item, State) /\ Replays(past, last)
    /\ Idle => State = Start

LEMMA StateFields ==
    /\ State.at = Len(history) /\ State.actions = pending_actions
    /\ State.senders = pending_tasks /\ State.calls = calls
    /\ pc # "done" => State.pc = pc
    /\ pc = "done" => State.pc = "event"
    /\ SnapshotOf(State) = Snapshot
BY DEF State, SnapshotOf, Snapshot

LEMMA StartFields ==
    /\ Start.at = 0 /\ Start.pc = "event" /\ Start.actions = EmptyMap
    /\ Start.calls = <<>> /\ Start.drained = 0
BY DEF Start

LEMMA InitIsStart == Init => State = Start
BY DEF Init, State, Start

LEMMA FreshIsStart == ASSUME FreshExecutor PROVE State' = Start
BY DEF FreshExecutor, State, Start

LEMMA WalkStarts == ASSUME NEW L PROVE Walk({Start}, L, Start)
BY StartFields DEF Walk

LEMMA ExecuteRuns == ASSUME Execute PROVE pc \in {"first", "resume", "discard", "drain"}
BY DEF Execute, Poll, create_timer, call_activity, call_sub_orchestrator, Schedule,
         await_signal_event, TaskReady, TaskPending, TaskForsaken, TaskIgnored, TaskPanics,
         PolledAgain, FinishStep, Block, Complete, ReturnAtOnce, ReturnIgnored, DrainTask,
         DrainWaiter, NextEvent, Uncalled, AtTask, Awaited, InStep, AtStepEnd, AtReturn, Polling

\* The walk goes on with what the execution does.
LEMMA WalkOn ==
    ASSUME InstInv, Deterministic, ExecuteEvent \/ ExecuteStep \/ ExecuteEnd,
           NEW S, Walk(S, item, State)
    PROVE  Walk(S \cup {State'}, item, State')
<1>0. /\ IInv /\ ControlOK /\ HistoryOK /\ LedgerInv /\ Len(history) \in Nat
  BY LenProperties DEF InstInv, AInv, SInv, IInv, TypeOK, HistoryOK
<1> PICK s : s = State
  OBVIOUS
<1> PICK t : t = State'
  OBVIOUS
<1> PICK T : T = S \cup {t}
  OBVIOUS
<1>1. s.at = Len(history) /\ t.at = Len(history')
  BY DEF State
<1>2. ASSUME t.at \in Nat, s.at <= t.at, t # s => Goes(T, s, item, t)
      PROVE  Walk(T, item, t)
  <2>1. Start \in T /\ t \in T
    BY DEF Walk
  <2>2. ASSUME NEW u \in T PROVE u.at \in Nat /\ u.at <= t.at
    BY <1>0, <1>1, <1>2 DEF Walk
  <2>3. ASSUME NEW u \in T \ {t} PROVE Goes(T, u, item, t)
    <3>1. CASE u = s
      BY <1>2, <2>3, <3>1
    <3>2. CASE u # s
      <4>1. Goes(S, u, item, s) /\ u.at \in Nat /\ u.at <= s.at
        BY <2>3, <3>2 DEF Walk
      <4>2. S \subseteq T /\ s.at \in Nat /\ t.at \in Nat /\ s.at <= t.at
        BY <1>0, <1>1, <1>2
      <4>3. u.at < s.at => u.at < t.at
        BY <4>1, <4>2
      <4> QED BY <4>1, <4>2, <4>3 DEF Goes
    <3> QED BY <3>1, <3>2
  <2> QED BY <2>1, <2>2, <2>3 DEF Walk
<1>3. CASE ExecuteStep
  <2>1. t = StepOf(s) /\ s.pc # "event" /\ history' = history
    BY <1>0, <1>3, StepIsFunction, ExecuteRuns, EventOrNone, StateFields DEF ExecuteStep
  <2>2. t.at \in Nat /\ s.at <= t.at
    BY <1>0, <1>1, <2>1
  <2> QED BY <1>2, <2>1, <2>2 DEF Goes
<1>4. CASE ExecuteEnd
  <2>1. t = s
    BY <1>4, EndIsRest DEF ExecuteEnd
  <2> QED BY <1>0, <1>1, <1>2, <2>1
<1>5. CASE ExecuteEvent
  <2> PICK e : e = item[Len(history) + 1]
    OBVIOUS
  <2>1. process_event(e) /\ Len(history) < Len(item)
    BY <1>5 DEF ExecuteEvent
  <2>2. IsEvent(e)
    <3>1. MessagesOK /\ ItemOK /\ StartsFirst /\ InboxOutstanding /\ ~Idle
          /\ ConsumedIds \subseteq ScheduledIds
      BY <1>0, <1>5, WorkIsAnyStep DEF LedgerInv
    <3>2. Len(history) + 1 \in DOMAIN item
      BY <1>0, <2>1, <3>1, ItemParts
    <3> QED BY <3>1, <3>2, ItemEvents
  <2>3. t = EventOf(s, e) /\ pc = "event"
    BY <1>0, <2>1, <2>2, EventIsFunction
  <2>4. Len(history') = Len(history) + 1
    BY <1>0, <2>1, EventTaken, OneMore
  <2>5. Fits(s, e)
    BY <2>1, <2>3, StateFields DEF Deterministic, Fits
  <2>6. s.pc = "event" /\ s.at < t.at /\ t.at \in Nat /\ s.at <= t.at
    BY <1>0, <1>1, <2>3, <2>4, StateFields
  <2>7. Goes(T, s, item, t)
    BY <1>1, <2>3, <2>5, <2>6 DEF Goes
  <2> QED BY <1>2, <2>6, <2>7
<1> QED BY <1>3, <1>4, <1>5

-----------------------------------------------------------------------------
(* So every event it meets is known.                                       *)

\* What it meets beyond the log are results of what it did before.
LEMMA BeyondTheLog ==
    ASSUME InstInv, FitInv, ~Idle, pc = "event",
           Len(history) >= Len(log), Len(history) < Len(item),
           NEW e, e = item[Len(history) + 1]
    PROVE  Fitted(e)
<1>0. /\ SInv /\ IInv /\ HistoryOK /\ CallsOK /\ MapsOK /\ SenderOwned /\ NumberedInOrder
      /\ LedgerInv /\ MessagesOK /\ ItemOK /\ InboxOutstanding
      /\ Len(history) \in Nat /\ DOMAIN history = 1 .. Len(history)
      /\ DOMAIN log = 1 .. Len(log) /\ DOMAIN inbox = 1 .. Len(inbox) /\ Len(inbox) \in Nat
  BY LenProperties
     DEF InstInv, AInv, SInv, IInv, TypeOK, HistoryOK, LedgerInv, MessagesOK
<1>1. /\ Len(log) \in Nat /\ batch \in 1 .. Len(inbox)
      /\ Len(item) = Len(log) + 1 + batch /\ DOMAIN item = 1 .. Len(item)
      /\ \A i \in 1 .. Len(log) : item[i] = log[i]
      /\ item[Len(log) + 1] = Marker
      /\ \A i \in 1 .. batch : item[Len(log) + 1 + i] = inbox[i]
  BY <1>0, ItemParts
<1>2. CASE Len(history) = Len(log)
  <2>1. e.type = "OrchestratorStarted"
    BY <1>1, <1>2, MarkerIsMessage
  <2> QED BY <2>1 DEF Fitted, Created, Resolved
<1>3. CASE Len(history) # Len(log)
  <2> PICK k : k = Len(history) - Len(log)
    OBVIOUS
  <2> PICK at : at = Len(history) + 1
    OBVIOUS
  <2>1. k \in 1 .. batch /\ k \in DOMAIN inbox /\ Len(log) + 1 + k = at
    <3> PICK n : n = Len(history)
      OBVIOUS
    <3> PICK l : l = Len(log)
      OBVIOUS
    <3>0. /\ n \in Nat /\ l \in Nat /\ batch \in Nat
          /\ n >= l /\ n < l + 1 + batch /\ n # l /\ k = n - l /\ at = n + 1
      BY <1>0, <1>1, <1>3
    <3>1. k \in Int /\ k >= 1 /\ k <= batch /\ l + 1 + k = at
      BY ONLY <3>0
    <3>2. batch \in Nat /\ batch <= Len(inbox)
      BY <1>0, <1>1
    <3> QED BY <1>0, <3>1, <3>2
  <2>2. e = inbox[k] /\ e = item[at] /\ at \in DOMAIN item
    <3>1. item[Len(log) + 1 + k] = inbox[k]
      BY <1>1, <2>1
    <3> QED BY <1>0, <1>1, <2>1, <3>1
  <2>3. e.type \notin Created
    BY <1>0, <2>1, <2>2 DEF InboxOutstanding
  <2>4. ASSUME e.type \in Resolved
        PROVE  /\ e.id \in DOMAIN pending_tasks
               /\ calls[pending_tasks[e.id]].kind \in KindResolved(e.type)
    <3>1. PICK j \in DOMAIN log : ResultOf(e, log[j])
      BY <2>1, <2>2, <2>4 DEF FitInv, InboxFits
    <3>2. j \in DOMAIN history /\ history[j] = log[j]
      <4>1. j \in DOMAIN history
        BY <1>0, <1>1
      <4>2. history[j] = item[j] /\ item[j] = log[j]
        BY <1>0, <1>1, <4>1 DEF ItemOK
      <4> QED BY <4>1, <4>2
    <3> PICK kind : kind = KindOf(log[j].type)
      OBVIOUS
    <3>3. fn # "none" /\ Made(e.id, kind) /\ kind \in KindResolved(e.type)
      BY <3>1, <3>2 DEF FitInv, AckedWasMade, ResultOf
    <3>4. PICK h \in TaskCalls : ~InChannel(h) /\ calls[h].id = e.id /\ calls[h].kind = kind
      BY <3>3 DEF Made
    <3>5. ASSUME NEW i \in DOMAIN history, history[i].type \in Resolved, history[i].id = e.id
          PROVE  FALSE
      <4>1. i \in DOMAIN item /\ item[i] = history[i] /\ i < at
        BY <1>0, <1>1 DEF ItemOK
      <4>2. Once(item, Resolved)
        BY <1>0, ItemIds DEF FitInv
      <4>3. i = at
        BY <2>2, <2>4, <3>5, <4>1, <4>2 DEF Once
      <4> QED BY <1>0, <4>1, <4>3
    <3>6. e.id \in DOMAIN pending_tasks
      BY <3>3, <3>4, <3>5 DEF FitInv, MadeAwaits
    <3> PICK g : g = pending_tasks[e.id]
      OBVIOUS
    <3>7. calls[g].kind \in TaskKinds /\ calls[g].id = e.id /\ g \in Handles
      BY <1>0, <3>6, HandleTypes DEF SenderOwned, TasksOfCalls
    <3>8. g \in TaskCalls /\ g \in Nat /\ h \in Nat /\ calls[h].id \in Nat
      BY <1>0, <3>7, HandleTypes, SMTT(30) DEF TaskCalls, Handles, NumberedInOrder
    <3>9. g = h
      <4>1. CASE g < h
        BY <1>0, <3>4, <3>7, <3>8, <4>1 DEF NumberedInOrder
      <4>2. CASE h < g
        BY <1>0, <3>4, <3>7, <3>8, <4>2 DEF NumberedInOrder
      <4> QED BY <3>8, <4>1, <4>2
    <3> QED BY <3>3, <3>4, <3>6, <3>9
  <2> QED BY <2>3, <2>4 DEF Fitted
<1> QED BY <1>2, <1>3

\* What was acknowledged last is what the last answer asked for, each once.
LEMMA NextAck ==
    ASSUME InstInv, FitInv, ~Idle, pc = "event", NEW past, NEW last, LastRun(past, last),
           Acking(last), Len(history) < Len(log),
           NEW e, e = log[Len(history) + 1]
    PROVE  /\ e.type \in Created /\ Fitted(e)
           /\ Len(history) + 1 \in last.at + 1 .. Len(log)
<1>0. /\ LedgerInv /\ ItemOK /\ HistoryOK /\ MessagesOK /\ last.at \in Nat
      /\ Len(history) \in Nat /\ DOMAIN log = 1 .. Len(log) /\ Len(log) \in Nat
  BY LenProperties
     DEF InstInv, AInv, SInv, IInv, TypeOK, HistoryOK, LedgerInv, MessagesOK, LastRun, Walk
<1> PICK at : at = Len(history) + 1
  OBVIOUS
<1>1. at \in last.at + 1 .. Len(log) /\ at \in DOMAIN log
  BY <1>0 DEF Acking
<1>2. /\ e.type \in Created /\ e.id \in DOMAIN last.actions
      /\ last.actions[e.id] = KindOf(e.type)
  BY <1>0, <1>1 DEF ItemOK, LastRun, AllAcknowledged
<1>3. ASSUME NEW i \in last.at + 1 .. Len(history) PROVE log[i].id # e.id
  <2>1. i \in last.at + 1 .. Len(log) /\ i \in DOMAIN log /\ i # at
    BY <1>0
  <2>2. log[i].type \in Created
    BY <1>0, <2>1 DEF ItemOK, LastRun, AllAcknowledged
  <2> QED BY <1>1, <1>2, <2>1, <2>2 DEF FitInv, OneOfEach, Once
<1>4. e.id \in DOMAIN pending_actions /\ pending_actions[e.id] = KindOf(e.type)
  BY <1>2, <1>3 DEF Acking
<1>5. e.type \notin Resolved
  BY <1>2 DEF Created, Resolved
<1> QED BY <1>1, <1>2, <1>4, <1>5 DEF Fitted

LEMMA RerunIsDeterministic ==
    ASSUME InstInv, FitInv, RerunInv
    PROVE  Deterministic
<1> SUFFICES ASSUME pc = "event", Len(history) < Len(item)
             PROVE  Fitted(item[Len(history) + 1])
  BY DEF Deterministic, Fitted
<1> PICK e : e = item[Len(history) + 1]
  OBVIOUS
<1>0. /\ LedgerInv /\ ItemOK /\ HistoryOK /\ MessagesOK
      /\ Len(history) \in Nat /\ Len(log) \in Nat /\ DOMAIN log = 1 .. Len(log)
  BY LenProperties
     DEF InstInv, AInv, SInv, IInv, TypeOK, HistoryOK, LedgerInv, MessagesOK
<1>1. ~Idle
  BY <1>0, IdleRests
<1>2. PICK past, last, mine :
          LastRun(past, last) /\ Walk(mine, item, State) /\ Replays(past, last)
  BY DEF RerunInv
<1>3. CASE Len(history) >= Len(log)
  BY <1>1, <1>3, BeyondTheLog
<1>4. CASE Len(history) < Len(log)
  <2>1. e = log[Len(history) + 1]
    BY <1>0, <1>1, <1>4, ItemParts
  <2>2. CASE Acking(last)
    BY <1>1, <1>2, <1>4, <2>1, <2>2, NextAck
  <2>3. CASE State \in past \ {last}
    <3> PICK s : s = State
      OBVIOUS
    <3>1. Goes(past, s, log, last) /\ s.pc = "event" /\ s.at = Len(history)
      BY <1>2, <2>3, StateFields DEF LastRun, Walk
    <3>2. Fits(s, e)
      BY <2>1, <3>1 DEF Goes
    <3> QED BY <3>2, StateFields DEF Fits, Fitted
  <2> QED BY <1>0, <1>2, <1>4, <2>2, <2>3 DEF Replays
<1> QED BY <1>0, <1>3, <1>4

\* And what the log restores is what the last execution ended with.
LEMMA RerunRestores ==
    ASSUME InstInv, RerunInv
    PROVE  ReplayRestores
<1> SUFFICES ASSUME ~Idle, pc = "event", history = log
             PROVE  Snapshot = saved /\ pending_actions = EmptyMap
  BY DEF ReplayRestores
<1>0. /\ LedgerInv /\ ItemOK /\ MapsOK /\ Len(log) \in Nat
  BY LenProperties
     DEF InstInv, AInv, SInv, IInv, TypeOK, LedgerInv, MessagesOK
<1>1. PICK past, last, mine :
          LastRun(past, last) /\ Walk(mine, item, State) /\ Replays(past, last)
  BY DEF RerunInv
<1>2. CASE Acking(last)
  <2>1. ASSUME NEW id \in DOMAIN pending_actions PROVE FALSE
    <3>1. id \in DOMAIN last.actions /\ \A i \in last.at + 1 .. Len(log) : log[i].id # id
      BY <1>2 DEF Acking
    <3> QED BY <1>0, <1>1, <3>1 DEF ItemOK, LastRun, AllAcknowledged
  <2>2. pending_actions = EmptyMap
    BY <1>0, <2>1 DEF MapsOK, IsMap, EmptyMap
  <2> QED BY <1>2, <2>2 DEF Acking
<1>3. CASE State \in past \ {last}
  <2> PICK s : s = State
    OBVIOUS
  <2>1. Goes(past, s, log, last) /\ s.pc = "event" /\ s.at = Len(log) /\ last.at <= Len(log)
        /\ last.at \in Nat
    BY <1>1, <1>3, StateFields DEF LastRun, Walk
  <2> QED BY <1>0, <2>1 DEF Goes
<1> QED BY <1>0, <1>1, <1>2, <1>3 DEF Replays

-----------------------------------------------------------------------------
(* And it stays so.                                                        *)

\* The events come in the order of the log.
LEMMA EventOfLog ==
    ASSUME InstInv, ExecuteEvent
    PROVE  \E e : /\ e = item[Len(history) + 1] /\ IsEvent(e) /\ process_event(e)
                  /\ pc = "event" /\ Len(history) < Len(item) /\ ~Idle
                  /\ Len(history') = Len(history) + 1
                  /\ Len(history) < Len(log) => e = log[Len(history) + 1]
<1>0. /\ LedgerInv /\ HistoryOK /\ MessagesOK /\ ItemOK /\ StartsFirst /\ InboxOutstanding
      /\ ConsumedIds \subseteq ScheduledIds
      /\ Len(history) \in Nat /\ Len(log) \in Nat
  BY LenProperties
     DEF InstInv, AInv, SInv, IInv, TypeOK, HistoryOK, LedgerInv, MessagesOK
<1> PICK e : e = item[Len(history) + 1]
  OBVIOUS
<1>1. process_event(e) /\ Len(history) < Len(item) /\ ~Idle
  BY <1>0, WorkIsAnyStep DEF ExecuteEvent
<1>2. IsEvent(e) /\ (Len(history) < Len(log) => e = log[Len(history) + 1])
  <2>1. Len(history) + 1 \in DOMAIN item
    <3>1. DOMAIN item = 1 .. Len(item) /\ Len(item) \in Nat
      BY <1>0, LenProperties DEF MessagesOK
    <3> QED BY <1>0, <1>1, <3>1
  <2>2. ASSUME Len(history) < Len(log)
        PROVE  item[Len(history) + 1] = log[Len(history) + 1]
    <3>1. Len(history) + 1 \in 1 .. Len(log)
      BY <1>0, <2>2
    <3>2. \A i \in 1 .. Len(log) : item[i] = log[i]
      BY <1>0, <1>1, ItemParts
    <3> QED BY <3>1, <3>2
  <2> QED BY <1>0, <1>1, <2>1, <2>2, ItemEvents
<1>3. pc = "event" /\ Len(history') = Len(history) + 1
  BY <1>0, <1>1, <1>2, EventTaken, OneMore
<1> QED BY <1>1, <1>2, <1>3

\* What is done again leads to where the last execution ended.
LEMMA ReplayEnds ==
    ASSUME InstInv', NEW past, NEW last, LastRun(past, last), pc' # "done", State' = last,
           UNCHANGED <<log, saved>>
    PROVE  Acking(last)'
<1>0. /\ CallsOK' /\ Quiescent' /\ Len(history') \in Nat
  BY LenProperties DEF InstInv, AInv, SInv, IInv, TypeOK, HistoryOK
<1>1. /\ last.at = Len(history') /\ last.actions = pending_actions' /\ last.pc = pc'
      /\ SnapshotOf(last) = Snapshot'
  BY StateFields DEF State, SnapshotOf, Snapshot
<1>2. pc' = "event" /\ drained' = Len(calls')
  BY <1>0, <1>1 DEF LastRun, Quiescent
<1>3. Snapshot' = saved'
  BY <1>1 DEF LastRun
<1>4. \A i \in last.at + 1 .. Len(history') : FALSE
  BY <1>0, <1>1
<1> QED BY <1>0, <1>1, <1>2, <1>3, <1>4 DEF Acking

LEMMA ReplayGoesOn ==
    ASSUME InstInv, InstInv', FitInv, Deterministic, ExecuteEvent \/ ExecuteStep \/ ExecuteEnd,
           NEW past, NEW last, LastRun(past, last), Replays(past, last)
    PROVE  Replays(past, last)'
<1>0. /\ IInv /\ ControlOK /\ HistoryOK /\ LedgerInv /\ ItemOK /\ MessagesOK
      /\ Len(history) \in Nat /\ Len(log) \in Nat /\ CallsOK
      /\ UNCHANGED <<log, item, saved>>
  BY LenProperties
     DEF InstInv, AInv, SInv, IInv, TypeOK, HistoryOK, LedgerInv, MessagesOK,
         ExecuteEvent, ExecuteStep, ExecuteEnd, sidecar
<1>1. CASE Len(history) > Len(log)
  <2>1. history' = history \/ Len(history') = Len(history) + 1
    BY <1>1, EventOfLog, EventOrNone DEF ExecuteStep, ExecuteEnd
  <2>2. Len(history') > Len(log')
    BY <1>0, <1>1, <2>1
  <2> QED BY <2>2 DEF Replays
<1>2. CASE ExecuteEnd
  <2>1. ~Idle /\ Len(history) = Len(item)
    BY <1>2 DEF ExecuteEnd
  <2>2. Len(history) > Len(log)
    <3>1. Len(item) = Len(log) + 1 + batch /\ batch \in 1 .. Len(inbox)
      BY <1>0, <2>1, ItemParts
    <3>2. Len(inbox) \in Nat
      BY <1>0, LenProperties DEF MessagesOK
    <3> QED BY <1>0, <2>1, <3>1, <3>2
  <2> QED BY <1>1, <2>2
<1>3. CASE State \in past \ {last} /\ ~ExecuteEnd
  <2> PICK s : s = State
    OBVIOUS
  <2> PICK t : t = State'
    OBVIOUS
  <2>1. Goes(past, s, log, last) /\ s.at = Len(history) /\ last.at <= Len(log) /\ last.at \in Nat
    BY <1>3, StateFields DEF LastRun, Walk
  <2>2. t \in past
    <3>1. CASE ExecuteStep
      <4>1. s.pc # "event" /\ t = StepOf(s)
        BY <1>0, <3>1, ExecuteRuns, StateFields, StepIsFunction DEF ExecuteStep
      <4> QED BY <2>1, <4>1 DEF Goes
    <3>2. CASE ExecuteEvent
      <4>1. PICK e : /\ IsEvent(e) /\ process_event(e) /\ pc = "event"
                     /\ Len(history) < Len(log) => e = log[Len(history) + 1]
        BY <3>2, EventOfLog
      <4>2. s.pc = "event" /\ t = EventOf(s, e)
        BY <1>0, <4>1, EventIsFunction, StateFields
      <4>3. EventOf(s, log[s.at + 1]) \in past /\ s.at < last.at
        BY <2>1, <4>2 DEF Goes
      <4>4. e = log[s.at + 1]
        BY <1>0, <2>1, <4>1, <4>3
      <4> QED BY <4>2, <4>3, <4>4
    <3> QED BY <1>3, <3>1, <3>2
  <2>3. pc' # "done"
    BY <1>3, NotDoneYet DEF ExecuteStep, ExecuteEvent
  <2>4. CASE t = last
    BY <1>0, <2>3, <2>4, ReplayEnds DEF Replays
  <2> QED BY <2>2, <2>4 DEF Replays
<1>4. CASE Acking(last) /\ ~ExecuteEnd
  <2>1. CASE ExecuteStep
    <3>1. NextEvent
      <4>1. pc = "drain" /\ drained = Len(calls) /\ Len(calls) \in Nat
        BY <1>0, <1>4, <2>1, ExecuteRuns, LenProperties DEF Acking, ExecuteStep, CallsOK
      <4>2. ~DrainTask /\ ~DrainWaiter
        BY <4>1 DEF DrainTask, DrainWaiter
      <4>3. ~Poll
        BY <4>1
           DEF Poll, create_timer, call_activity, call_sub_orchestrator, Schedule,
               await_signal_event, TaskReady, TaskPending, TaskForsaken, TaskIgnored, TaskPanics,
               PolledAgain, FinishStep, Block, Complete, ReturnAtOnce, ReturnIgnored, Uncalled,
               AtTask, Awaited, InStep, AtStepEnd, AtReturn, Polling
      <4> QED BY <2>1, <4>2, <4>3 DEF ExecuteStep, Execute
    <3>2. pc' = "event" /\ UNCHANGED <<history, future, called, drained, budget, ctx>>
      BY <3>1 DEF NextEvent, Goto
    <3>3. Snapshot' = Snapshot
      BY <3>2 DEF Snapshot, future, called, ctx
    <3>4. UNCHANGED <<history, calls, drained, pending_actions>>
      BY <3>2 DEF called, ctx
    <3>5. Acking(last)'
      BY <1>0, <1>4, <3>2, <3>3, <3>4 DEF Acking
    <3> QED BY <3>5 DEF Replays
  <2>2. CASE ExecuteEvent
    <3>1. PICK e : /\ IsEvent(e) /\ process_event(e) /\ pc = "event" /\ ~Idle
                   /\ Len(history') = Len(history) + 1
                   /\ Len(history) < Len(log) => e = log[Len(history) + 1]
      BY <2>2, EventOfLog
    <3>2. CASE Len(history) >= Len(log)
      <4>1. Len(history') > Len(log')
        BY <1>0, <3>1, <3>2
      <4> QED BY <4>1 DEF Replays
    <3>3. CASE Len(history) < Len(log)
      <4> PICK at : at = Len(history) + 1
        OBVIOUS
      <4>1. e.type \in Created /\ e = log[at] /\ last.at \in Nat /\ at \in last.at + 1 .. Len(log)
        BY <1>4, <3>1, <3>3, NextAck DEF LastRun, Walk
      <4>2. /\ pending_actions' = Remove(pending_actions, e.id) /\ pc' = "drain"
            /\ UNCHANGED <<future, called, drained, budget, sequence_number, pending_tasks, queues>>
        BY <3>1, <4>1
           DEF process_event, ExecutionStarted, ExecutionCompleted,
               ExecutionTerminated, IgnoredEvent, TaskScheduled, TimerCreated,
               SubOrchestrationInstanceCreated, Acknowledge, TaskCompleted, TimerFired,
               TaskFailed, SubOrchestrationInstanceCompleted, Goto,
               SubOrchestrationInstanceFailed, EventRaised, Created, Ignored
      <4>3. Snapshot' = Snapshot /\ calls' = calls
        BY <4>2 DEF Snapshot, future, called, queues
      <4>4. \A id : id \in DOMAIN pending_actions' <=>
                /\ id \in DOMAIN last.actions
                /\ \A i \in last.at + 1 .. at : log[i].id # id
        <5>1. last.at + 1 .. at = (last.at + 1 .. Len(history)) \cup {at}
          BY <1>0, <1>4, <4>1 DEF Acking
        <5> QED BY <1>4, <4>1, <4>2, <5>1 DEF Acking, Remove
      <4>5. \A id \in DOMAIN pending_actions' : pending_actions'[id] = last.actions[id]
        BY <1>4, <4>2 DEF Acking, Remove
      <4>6. Len(history') = at /\ Len(history') >= last.at
        BY <1>0, <1>4, <3>1, <4>1 DEF Acking
      <4>7. Acking(last)'
        BY <1>0, <1>4, <4>2, <4>3, <4>4, <4>5, <4>6 DEF Acking
      <4> QED BY <4>7 DEF Replays
    <3> QED BY <1>0, <3>2, <3>3
  <2> QED BY <1>4, <2>1, <2>2
<1> QED BY <1>1, <1>2, <1>3, <1>4 DEF Replays

\* An answer ends the execution, and what acknowledges its actions, each of them
\* once, is all that the log gets besides the work item.
LEMMA AnswerIsLastRun ==
    ASSUME InstInv, complete_orchestrator_task, NEW S, Walk(S, item, State),
           NEW t, t = State
    PROVE  LastRun(S, t)'
<1>0. /\ AInv /\ LedgerInv /\ MapsOK /\ MessagesOK /\ HistoryOK /\ IsFiniteSet(DOMAIN pending_actions)
      /\ Len(history) \in Nat /\ pc = "done" /\ ItemOK
      /\ saved' = Snapshot
  BY LenProperties
     DEF InstInv, AInv, SInv, IInv, TypeOK, HistoryOK, LedgerInv, ItemOK,
         complete_orchestrator_task
<1>1. PICK order \in Orders(DOMAIN pending_actions), acks \in Seq(Message) :
               /\ acks = Acks(order) /\ EndsBy(order) /\ log' = item \o acks
               /\ DOMAIN acks = DOMAIN order
               /\ Len(item) \in Nat /\ Len(acks) \in Nat
               /\ Len(log') = Len(item) + Len(acks) /\ DOMAIN log' = 1 .. Len(log')
               /\ DOMAIN acks = 1 .. Len(acks) /\ DOMAIN item = 1 .. Len(item)
               /\ \A i \in DOMAIN item : log'[i] = item[i]
               /\ \A k \in DOMAIN acks : log'[Len(item) + k] = acks[k]
  BY <1>0, AnswerLog
<1>2. t.at = Len(item) /\ t.actions = pending_actions /\ t.pc = "event" /\ SnapshotOf(t) = Snapshot
  BY <1>0, StateFields DEF ItemOK
<1> PICK new : new = log'
  OBVIOUS
<1>3. Walk(S, new, t)
  <2>1. ASSUME NEW s \in S \ {t} PROVE Goes(S, s, new, t)
    <3>1. Goes(S, s, item, t) /\ s.at \in Nat /\ s.at <= t.at
      BY <2>1 DEF Walk
    <3>2. s.at < t.at => new[s.at + 1] = item[s.at + 1]
      <4>1. s.at < t.at => s.at + 1 \in DOMAIN item
        BY <1>1, <1>2, <3>1
      <4> QED BY <1>1, <4>1
    <3> QED BY <3>1, <3>2 DEF Goes
  <2> QED BY <2>1 DEF Walk
<1>4. ASSUME status' = "running"
      PROVE  /\ \A i \in t.at + 1 .. Len(new) :
                   /\ new[i].type \in Created /\ new[i].id \in DOMAIN t.actions
                   /\ t.actions[new[i].id] = KindOf(new[i].type)
             /\ \A id \in DOMAIN t.actions : \E i \in t.at + 1 .. Len(new) : new[i].id = id
  <2>1. /\ order \in [1 .. Cardinality(DOMAIN pending_actions) -> DOMAIN pending_actions]
        /\ \A id \in DOMAIN pending_actions : \E k \in DOMAIN order : order[k] = id
    BY DEF Orders
  <2>2. \A k \in DOMAIN order : order[k] \in DOMAIN pending_actions
    BY <2>1
  <2>3. ASSUME NEW k \in DOMAIN order PROVE Asked(order[k])
    <3>1. CASE \A j \in DOMAIN order : ~IsEnding(order[j])
      BY <2>2, <3>1 DEF IsEnding, Asked
    <3>2. ASSUME NEW j \in DOMAIN order, IsEnding(order[j]),
                 status' = pending_actions[order[j]]
          PROVE  FALSE
      <4>1. pending_actions[order[j]] \in Actions
        BY <1>0, <2>2 DEF MapsOK, IsMap
      <4> QED BY <1>4, <3>2, <4>1 DEF IsEnding, Actions, TaskKinds, Results
    <3> QED BY <1>1, <3>1, <3>2 DEF EndsBy
  <2>4. ASSUME NEW k \in DOMAIN order
        PROVE  /\ acks[k].type \in Created /\ acks[k].id = order[k]
               /\ pending_actions[order[k]] = KindOf(acks[k].type)
    <3>1. acks[k] = Acknowledgement(order[k])
      BY <1>1 DEF Acks
    <3> QED BY <1>0, <2>2, <2>3, <3>1, AckOf, AckKind DEF Asked
  <2>5. ASSUME NEW i \in t.at + 1 .. Len(new)
        PROVE  /\ new[i].type \in Created /\ new[i].id \in DOMAIN t.actions
               /\ t.actions[new[i].id] = KindOf(new[i].type)
    <3> PICK k : k = i - Len(item)
      OBVIOUS
    <3>0. /\ Len(item) \in Nat /\ Len(acks) \in Nat /\ t.at = Len(item)
          /\ Len(new) = Len(item) + Len(acks)
      BY <1>1, <1>2
    <3>1. k \in 1 .. Len(acks) /\ Len(item) + k = i
      BY ONLY <3>0, i \in t.at + 1 .. Len(new), k = i - Len(item)
    <3>2. new[i] = acks[k] /\ k \in DOMAIN order
      BY <1>1, <3>1
    <3> QED BY <1>2, <2>2, <2>4, <3>2
  <2>6. ASSUME NEW id \in DOMAIN t.actions
        PROVE  \E i \in t.at + 1 .. Len(new) : new[i].id = id
    <3>1. PICK k \in DOMAIN order : order[k] = id
      BY <1>2, <2>1
    <3> PICK i : i = Len(item) + k
      OBVIOUS
    <3>2. i \in t.at + 1 .. Len(new) /\ new[i] = acks[k]
      <4>1. k \in 1 .. Len(acks) /\ t.at = Len(item) /\ Len(new) = Len(item) + Len(acks)
        BY <1>1, <1>2
      <4>2. i \in t.at + 1 .. Len(new)
        BY <1>1, <4>1
      <4> QED BY <1>1, <4>1, <4>2
    <3> QED BY <2>4, <3>1, <3>2
  <2> QED BY <2>5, <2>6
<1>5. t.at <= Len(new)
  BY <1>1, <1>2
<1> QED BY <1>0, <1>2, <1>3, <1>4, <1>5 DEF LastRun, AllAcknowledged

\* An execution that starts does again what was done, as there is nothing that
\* it has not done.
LEMMA StartReplays ==
    ASSUME HistoryOK', State' = Start, history' = <<>>, pc' = "event", drained' = 0, calls' = <<>>,
           NEW past, NEW last, LastRun(past, last)'
    PROVE  Replays(past, last)'
<1>0. Start \in past /\ saved' = SnapshotOf(last)
  BY DEF LastRun, Walk
<1>1. CASE last # Start
  BY <1>0, <1>1 DEF Replays
<1>2. CASE last = Start
  <2>1. last.at = 0 /\ last.actions = pending_actions' /\ SnapshotOf(last) = Snapshot'
    BY <1>2, StartFields DEF State, SnapshotOf, Snapshot
  <2>2. \A i \in last.at + 1 .. Len(history') : FALSE
    BY <2>1
  <2> QED BY <1>0, <2>1, <2>2 DEF Acking, Replays
<1> QED BY <1>1, <1>2

LEMMA FreshReplays ==
    ASSUME InstInv', FreshExecutor, item' = <<>>, NEW past, NEW last, LastRun(past, last)'
    PROVE  RerunInv'
<1>1. /\ State' = Start /\ history' = <<>> /\ pc' = "event" /\ drained' = 0 /\ calls' = <<>>
      /\ HistoryOK'
  BY FreshIsStart DEF FreshExecutor, InstInv, AInv, SInv, IInv, TypeOK
<1>2. Replays(past, last)'
  BY <1>1, StartReplays
<1>3. Walk({Start}, item', State')
  BY <1>1, WalkStarts
<1> QED BY <1>1, <1>2, <1>3 DEF RerunInv

LEMMA InitRerunInv == ASSUME InstanceInit PROVE RerunInv
<1>1. Init /\ State = Start /\ log = <<>> /\ saved = Snapshot /\ history = <<>>
      /\ pc = "event" /\ drained = 0 /\ calls = <<>> /\ pending_actions = EmptyMap
  BY InitIsStart DEF InstanceInit, Init
<1>2. LastRun({Start}, Start)
  <2>0. Walk({Start}, log, Start)
    BY WalkStarts
  <2>1. Start.pc = "event" /\ Start.at <= Len(log)
    BY <1>1, StartFields
  <2>2. saved = SnapshotOf(Start)
    BY <1>1, StateFields
  <2>3. AllAcknowledged(Start)
    BY <1>1, StartFields, EmptyMapIsMap DEF AllAcknowledged
  <2> QED BY <2>0, <2>1, <2>2, <2>3 DEF LastRun
<1>3. Acking(Start)
  <2>1. \A i \in Start.at + 1 .. Len(history) : FALSE
    BY <1>1, StartFields
  <2> QED BY <1>1, <2>1, StartFields DEF Acking
<1> QED BY <1>1, <1>2, <1>3, WalkStarts DEF RerunInv, Replays

LEMMA StepRerunInv ==
    ASSUME InstInv, InstInv', FitInv, RerunInv, FitMove \/ UNCHANGED all_vars
    PROVE  RerunInv'
<1>0. Deterministic /\ LedgerInv
  BY RerunIsDeterministic DEF InstInv
<1>1. PICK past, last, mine :
          LastRun(past, last) /\ Walk(mine, item, State) /\ Replays(past, last)
  BY DEF RerunInv
<1>2. ASSUME UNCHANGED <<log, status, saved>> PROVE LastRun(past, last)'
  BY <1>1, <1>2 DEF LastRun, AllAcknowledged
<1>3. CASE ExecuteEvent \/ ExecuteStep \/ ExecuteEnd
  <2>1. UNCHANGED <<log, status, saved, item>> /\ ~Idle
    BY <1>0, <1>3, WorkIsAnyStep
       DEF ExecuteEvent, ExecuteStep, ExecuteEnd, sidecar, InstInv, AInv, SInv, IInv, TypeOK
  <2>2. Walk(mine \cup {State'}, item, State')
    BY <1>0, <1>1, <1>3, WalkOn
  <2>3. Replays(past, last)'
    BY <1>0, <1>1, <1>3, ReplayGoesOn
  <2>4. LastRun(past, last)'
    BY <1>2, <2>1
  <2>5. Walk(mine \cup {State'}, item', State')
    BY <2>1, <2>2
  <2>6. ~Idle'
    BY <2>1 DEF Idle
  <2> QED BY <2>3, <2>4, <2>5, <2>6 DEF RerunInv
\* The executor rests, and the log as it is.
<1>4. ASSUME UNCHANGED <<vars, log, status, saved>>, Idle => State = Start,
             ~Idle' => \/ item' = item
                       \/ State = Start,
             Idle' => Idle
      PROVE  RerunInv'
  <2>1. State' = State /\ Replays(past, last)'
    <3>1. UNCHANGED <<history, pc, panic, fn, name, step, op, base, calls, tasks, drained, budget,
                      octx_sequence_number, sequence_number, pending_actions, pending_tasks,
                      pending_events, received_events, log, saved>>
      BY <1>4 DEF vars, future, called, ctx
    <3>2. State' = State /\ Snapshot' = Snapshot
      BY <3>1 DEF State, Snapshot
    <3> QED BY <1>1, <3>1, <3>2 DEF Replays, Acking
  <2>2. LastRun(past, last)'
    BY <1>2, <1>4
  <2>3. \E S : Walk(S, item', State')
    <3>1. CASE State = Start
      BY <2>1, <3>1, WalkStarts
    <3>2. CASE item' = item
      BY <1>1, <2>1, <3>2
    <3> QED BY <1>4, <3>1, <3>2
  <2>4. Idle' => State' = Start
    BY <1>4, <2>1
  <2> QED BY <2>1, <2>2, <2>3, <2>4 DEF RerunInv
<1>5. CASE GetWorkItem
  BY <1>4, <1>5 DEF GetWorkItem, RerunInv, Idle
<1>6. CASE complete_orchestrator_task
  <2> PICK t : t = State
    OBVIOUS
  <2>1. LastRun(mine, t)'
    BY <1>1, <1>6, AnswerIsLastRun
  <2> QED BY <1>6, <2>1, FreshReplays DEF complete_orchestrator_task
<1>7. CASE Loses
  <2>1. LastRun(past, last)'
    BY <1>2, <1>7 DEF Loses
  <2> QED BY <1>7, <2>1, FreshReplays DEF Loses
<1>8. ASSUME NEW m, Arrives(m) PROVE RerunInv'
  BY <1>4, <1>8 DEF Arrives, RerunInv, Idle
<1>9. CASE UNCHANGED all_vars
  BY <1>4, <1>9 DEF all_vars, sidecar, RerunInv, Idle
<1> QED BY <1>3, <1>5, <1>6, <1>7, <1>8, <1>9 DEF FitMove, Work

-----------------------------------------------------------------------------
(* The instance, alone and among its neighbours.                           *)

WholeInv == InstInv /\ FitInv /\ RerunInv

LEMMA StepWholeInv ==
    ASSUME WholeInv, FitMove \/ UNCHANGED all_vars
    PROVE  WholeInv'
<1>1. InstInv /\ FitInv /\ RerunInv /\ Deterministic
  BY RerunIsDeterministic DEF WholeInv
<1>2. InstInv'
  BY <1>1, FitIsAnyMove, StepInstInv
<1>3. FitInv' /\ RerunInv'
  BY <1>1, <1>2, StepFitInv, StepRerunInv
<1> QED BY <1>2, <1>3 DEF WholeInv

LEMMA InitWholeInv == InstanceInit => WholeInv
BY InitInstInv, InitFitInv, InitRerunInv DEF WholeInv

LEMMA WholeIsDeterministic == WholeInv => Deterministic /\ ReplayRestores
BY RerunIsDeterministic, RerunRestores DEF WholeInv

\* What was issued is in the log.
LEMMA IssuedInLog ==
    ASSUME LedgerInv, NEW e \in Issued
    PROVE  e.type \in Created /\ \E j \in DOMAIN log : e = log[j]
<1>1. /\ log \in Seq(Message) /\ inbox \in Seq(Message) /\ InboxOutstanding
      /\ Len(log) \in Nat /\ Len(inbox) \in Nat
      /\ DOMAIN log = 1 .. Len(log) /\ DOMAIN inbox = 1 .. Len(inbox)
  BY LenProperties DEF LedgerInv, MessagesOK
<1> PICK both : both = log \o inbox
  OBVIOUS
<1>2. /\ both \in Seq(Message) /\ DOMAIN both = 1 .. Len(log) + Len(inbox)
      /\ \A i \in 1 .. Len(log) + Len(inbox) :
            both[i] = IF i <= Len(log) THEN log[i] ELSE inbox[i - Len(log)]
  BY <1>1, ConcatProperties, LenProperties
<1>3. PICK i \in DOMAIN both : e = both[i] /\ e.type \in Created
  BY DEF Issued, EventsOf, Range
<1>4. CASE i <= Len(log)
  BY <1>1, <1>2, <1>3, <1>4
<1>5. CASE ~(i <= Len(log))
  <2>1. i - Len(log) \in DOMAIN inbox /\ e = inbox[i - Len(log)]
    BY <1>1, <1>2, <1>3, <1>5
  <2> QED BY <1>1, <1>3, <2>1 DEF InboxOutstanding
<1> QED BY <1>4, <1>5

\* A result of it fits, if there is none yet.
LEMMA ResultFits ==
    ASSUME LedgerInv, NEW e \in Issued, e.id \notin AnsweredIds,
           NEW type \in Resolved, KindOf(e.type) \in KindResolved(type), NEW value \in Option
    PROVE  Fitting(Msg(type, e.id, None, value))
<1> PICK m : m = Msg(type, e.id, None, value)
  OBVIOUS
<1>1. m.type = type /\ m.id = e.id
  BY DEF Msg
<1>2. Permitted(m)
  BY IssuedIsScheduled, ResultPermitted
<1>3. \E j \in DOMAIN log : ResultOf(m, log[j])
  BY <1>1, IssuedInLog DEF ResultOf
<1> QED BY <1>1, <1>2, <1>3 DEF Fitting

LEMMA EndedTaskFits ==
    ASSUME LedgerInv, NEW e \in Issued, TaskEnds(e)
    PROVE  \E m : Fitting(m) /\ Arrives(m) /\ m.id = e.id /\ Given(m)
<1>1. PICK a \in Answers :
          a.kind = KindOf(e.type) /\ Arrives(Msg(a.type, e.id, None, a.value))
  BY DEF TaskEnds
<1>2. a.type \in Resolved /\ a.value \in Option /\ a.kind \in KindResolved(a.type)
  BY InstanceAssumption
<1>3. Fitting(Msg(a.type, e.id, None, a.value))
  BY <1>1, <1>2, ResultFits DEF TaskEnds
<1>4. /\ Msg(a.type, e.id, None, a.value).id = e.id
      /\ Given(Msg(a.type, e.id, None, a.value))
  BY DEF Msg, Given
<1> QED BY <1>1, <1>3, <1>4

LEMMA ClientSentFits ==
    ASSUME NEW e \in ClientEvents, ClientSends(e)
    PROVE  Fitting(e) /\ Arrives(e) /\ e.type \notin Resolved
<1>1. e.type \notin Created \cup Resolved \cup {"ExecutionStarted"} /\ e \in Message
  BY InstanceAssumption DEF Created, Resolved, Message
<1> QED BY <1>1 DEF Fitting, Permitted, ClientSends

LEMMA InstanceFits == ASSUME LedgerInv, InstanceNext PROVE FitMove
BY EndedTaskFits, ClientSentFits, LostIsMove DEF InstanceNext, FitMove

LEMMA FilterFits ==
    ASSUME LedgerInv, FilterNext
    PROVE  FitMove \/ UNCHANGED all_vars
<1>1. CASE FilterWork
  BY <1>1 DEF FilterWork, on_new_span, RecordOld, RecordNew, on_record, FilteredEvent,
              FilteredStep, FilteredEnd, SpanEnds, FitMove, Work
<1>2. CASE SpanLost
  BY <1>2, LostIsMove DEF SpanLost, FitMove
<1>3. ASSUME NEW e \in Issued, TaskOutside(e) PROVE FitMove
  BY <1>3, EndedTaskFits DEF TaskOutside, FitMove
<1>4. ASSUME NEW e \in ClientEvents, ClientOutside(e) PROVE FitMove
  BY <1>4, ClientSentFits DEF ClientOutside, FitMove
<1> QED BY <1>1, <1>2, <1>3, <1>4 DEF FilterNext

LEMMA AnsweredNext ==
    ASSUME MessagesOK'
    PROVE  AnsweredIds' = IdsIn(log', Resolved) \cup IdsIn(inbox', Resolved)
<1>1. IdsIn(log' \o inbox', Resolved) = IdsIn(log', Resolved) \cup IdsIn(inbox', Resolved)
  <2>1. log' \in Seq(Message) /\ inbox' \in Seq(Message)
    BY DEF MessagesOK, Message
  <2> QED BY <2>1, IdsOfConcat
<1>2. AnsweredIds' = IdsIn(log' \o inbox', Resolved)
  BY DEF AnsweredIds, EventsOf, IdsIn, Range
<1> QED BY <1>1, <1>2

\* What is answered grows by what arrives, and by nothing else; what is logged
\* stays.
LEMMA AnsweredByArrival ==
    ASSUME LedgerInv, NEW m, Permitted(m), Arrives(m)
    PROVE  /\ log' = log
           /\ \A id \in AnsweredIds' :
                 id \in AnsweredIds \/ (m.type \in Resolved /\ id = m.id)
<1> PICK new : new = inbox'
  OBVIOUS
<1>0. /\ MessagesOK /\ MessagesOK' /\ log' = log /\ new = Append(inbox, m)
      /\ inbox \in Seq(Message) /\ m \in Message
  BY Arrived DEF LedgerInv, Arrives, Permitted, MessagesOK
<1>1. /\ DOMAIN inbox = 1 .. Len(inbox) /\ DOMAIN new = 1 .. Len(inbox) + 1
      /\ Len(inbox) \in Nat
      /\ \A i \in 1 .. Len(inbox) : new[i] = inbox[i]
      /\ new[Len(inbox) + 1] = m
  BY <1>0, AppendProperties, LenProperties
<1>2. \A i \in DOMAIN new : (i \in DOMAIN inbox /\ new[i] = inbox[i]) \/ new[i] = m
  BY <1>1
<1>3. ASSUME NEW id \in IdsIn(new, Resolved)
      PROVE  id \in IdsIn(inbox, Resolved) \/ (m.type \in Resolved /\ id = m.id)
  <2>1. PICK i \in DOMAIN new : new[i].type \in Resolved /\ id = new[i].id
    BY <1>3 DEF IdsIn
  <2>2. CASE i \in DOMAIN inbox /\ new[i] = inbox[i]
    <3>1. i \in DOMAIN inbox /\ inbox[i].type \in Resolved /\ id = inbox[i].id
      BY <2>1, <2>2
    <3>2. id \in IdsIn(inbox, Resolved)
      BY ONLY <3>1 DEF IdsIn
    <3> QED BY <3>2
  <2>3. CASE new[i] = m
    BY <2>1, <2>3
  <2> QED BY <1>2, <2>1, <2>2, <2>3
<1>4. AnsweredIds = IdsIn(log, Resolved) \cup IdsIn(inbox, Resolved)
  BY <1>0, AnsweredAre
<1>5. AnsweredIds' = IdsIn(log, Resolved) \cup IdsIn(new, Resolved)
  BY <1>0, AnsweredNext
<1> PICK answered : answered = AnsweredIds'
  OBVIOUS
<1>6. ASSUME NEW id \in answered
      PROVE  id \in AnsweredIds \/ (m.type \in Resolved /\ id = m.id)
  <2>1. id \in IdsIn(log, Resolved) \/ id \in IdsIn(new, Resolved)
    BY <1>5, <1>6
  <2> QED BY <1>3, <1>4, <2>1
<1> QED BY <1>0, <1>6

\* An answer loses nothing of the log, and answers no task.
LEMMA LogByAnswer ==
    ASSUME InstInv, FitInv, complete_orchestrator_task
    PROVE  /\ \A j \in DOMAIN log : j \in DOMAIN log' /\ log'[j] = log[j]
           /\ \A id \in AnsweredIds' : id \in AnsweredIds
<1>0. /\ AInv /\ LedgerInv /\ HistoryOK /\ MapsOK /\ IsFiniteSet(DOMAIN pending_actions)
      /\ MessagesOK /\ MessagesOK' /\ item \in Seq(Message) /\ pc = "done"
      /\ inbox' = SubSeq(inbox, batch + 1, Len(inbox))
  BY AnswerSent
     DEF InstInv, AInv, SInv, IInv, TypeOK, LedgerInv, ItemOK, MessagesOK,
         complete_orchestrator_task
<1>1. ~Idle
  BY <1>0, AllSeen
<1>2. PICK order \in Orders(DOMAIN pending_actions), acks \in Seq(Message) :
               /\ acks = Acks(order) /\ log' = item \o acks
               /\ \A i \in DOMAIN item : log'[i] = item[i]
               /\ DOMAIN log' = 1 .. Len(log') /\ Len(log') = Len(item) + Len(acks)
               /\ Len(item) \in Nat /\ Len(acks) \in Nat /\ DOMAIN item = 1 .. Len(item)
  BY <1>0, AnswerLog
<1>3. ASSUME NEW j \in DOMAIN log PROVE j \in DOMAIN log' /\ log'[j] = log[j]
  BY <1>0, <1>1, <1>2, LogInItem
<1>4. PICK mark, taken, rest \in Seq(Message) :
               /\ mark = <<Marker>> /\ item = (log \o mark) \o taken
               /\ log \o mark \in Seq(Message)
               /\ inbox = taken \o rest
               /\ rest = SubSeq(inbox, batch + 1, Len(inbox))
  BY <1>0, <1>1, InParts
<1> PICK new : new = log'
  OBVIOUS
<1> PICK left : left = inbox'
  OBVIOUS
<1> PICK past : past = log \o mark
  OBVIOUS
<1>5. /\ new = item \o acks /\ left = rest /\ item = past \o taken /\ past \in Seq(Message)
      /\ log \in Seq(Message)
  BY <1>0, <1>2, <1>4 DEF MessagesOK
<1>6. IdsIn(new, Resolved) = IdsIn(item, Resolved) \cup IdsIn(acks, Resolved)
  <2>1. item \in Seq(Message) /\ acks \in Seq(Message)
    BY <1>0, <1>2, <1>4, ConcatProperties
  <2>2. IdsIn(item \o acks, Resolved) = IdsIn(item, Resolved) \cup IdsIn(acks, Resolved)
    BY ONLY <2>1, IdsOfConcat
  <2> QED BY <1>5, <2>2
<1>7. IdsIn(acks, Resolved) = {}
  BY <1>0, <1>2, AcksOf
<1>8. IdsIn(item, Resolved) = IdsIn(past, Resolved) \cup IdsIn(taken, Resolved)
  <2>1. past \in Seq(Message) /\ taken \in Seq(Message)
    BY <1>5
  <2>2. IdsIn(past \o taken, Resolved) = IdsIn(past, Resolved) \cup IdsIn(taken, Resolved)
    BY ONLY <2>1, IdsOfConcat
  <2> QED BY <1>5, <2>2
<1>9. IdsIn(past, Resolved) = IdsIn(log, Resolved)
  <2>1. IdsIn(log \o mark, Resolved) = IdsIn(log, Resolved) \cup IdsIn(mark, Resolved)
    BY <1>5, IdsOfConcat
  <2>2. DOMAIN mark = {1} /\ mark[1] = Marker /\ Marker.type \notin Resolved
    BY <1>4, MarkerIsMessage DEF Resolved
  <2>3. IdsIn(mark, Resolved) = {}
    BY <2>2 DEF IdsIn
  <2> QED BY <2>1, <2>3
<1>10. IdsIn(inbox, Resolved) = IdsIn(taken, Resolved) \cup IdsIn(rest, Resolved)
  <2>1. IdsIn(taken \o rest, Resolved) = IdsIn(taken, Resolved) \cup IdsIn(rest, Resolved)
    BY IdsOfConcat
  <2> QED BY <1>4, <2>1
<1>11. AnsweredIds = IdsIn(log, Resolved) \cup IdsIn(inbox, Resolved)
  BY <1>0, AnsweredAre
<1>12. AnsweredIds' = IdsIn(new, Resolved) \cup IdsIn(left, Resolved)
  BY <1>0, AnsweredNext
<1>13. AnsweredIds' = AnsweredIds
  BY <1>5, <1>6, <1>7, <1>8, <1>9, <1>10, <1>11, <1>12
<1> QED BY <1>3, <1>13

LEMMA LogStays ==
    ASSUME InstInv, FitInv, Work \/ Loses \/ UNCHANGED all_vars
    PROVE  /\ \A j \in DOMAIN log : j \in DOMAIN log' /\ log'[j] = log[j]
           /\ \A id \in AnsweredIds' : id \in AnsweredIds
<1>1. CASE UNCHANGED <<log, inbox>>
  BY <1>1 DEF AnsweredIds, EventsOf
<1> QED BY <1>1, LogByAnswer
        DEF Work, Loses, GetWorkItem, ExecuteEvent, ExecuteStep, ExecuteEnd, all_vars, sidecar

\* A request that is out is of a scheduled activity that has no answer: the
\* sidecar streams no other, and takes one answer.
OutFits ==
    \A id \in out :
        /\ id \notin AnsweredIds
        /\ \E j \in DOMAIN log : log[j].type = "TaskScheduled" /\ log[j].id = id

LEMMA ActivityFits ==
    ASSUME WholeInv, OutFits, ActivitiesNext
    PROVE  (FitMove \/ UNCHANGED all_vars) /\ OutFits'
<1>0. InstInv /\ FitInv /\ LedgerInv
  BY DEF WholeInv, InstInv
<1>1. ASSUME out' \subseteq out, Work \/ Loses \/ UNCHANGED all_vars
      PROVE  OutFits'
  BY <1>0, <1>1, LogStays DEF OutFits
<1>2. ASSUME NEW m, Permitted(m), Arrives(m), out' \subseteq out,
             m.type \in Resolved => m.id \notin out'
      PROVE  OutFits'
  BY <1>0, <1>2, AnsweredByArrival DEF OutFits
<1>3. CASE Run
  BY <1>1, <1>3, LostIsMove DEF Run, FitMove, act_vars
<1>4. CASE WorkerCrash
  BY <1>1, <1>4, LostIsMove DEF WorkerCrash, FitMove
<1>5. CASE StreamEnds
  BY <1>1, <1>5 DEF StreamEnds, OutFits
<1>6. ASSUME NEW e \in Issued, ActivityRequest(e)
      PROVE  UNCHANGED all_vars /\ OutFits'
  <2>1. /\ UNCHANGED <<log, inbox>> /\ out' = out \cup {e.id} /\ UNCHANGED all_vars
        /\ e.type = "TaskScheduled" /\ e.id \notin AnsweredIds
    BY <1>6 DEF ActivityRequest, Requested, all_vars, sidecar
  <2>2. \E j \in DOMAIN log : e = log[j]
    BY <1>0, IssuedInLog
  <2>3. AnsweredIds' = AnsweredIds
    BY <2>1 DEF AnsweredIds, EventsOf
  <2> QED BY <2>1, <2>2, <2>3 DEF OutFits
<1>7. ASSUME NEW e \in Issued, OtherEnds(e) PROVE FitMove /\ OutFits'
  <2>1. PICK m : Fitting(m) /\ Arrives(m) /\ m.id = e.id
    BY <1>0, <1>7, EndedTaskFits DEF OtherEnds
  <2>2. e.type # "TaskScheduled" /\ out' = out
    BY <1>7 DEF OtherEnds, act_vars
  <2>3. e.id \notin out
    <3>1. e.type \in Created /\ \E j \in DOMAIN log : e = log[j]
      BY <1>0, IssuedInLog
    <3>2. ASSUME NEW j \in DOMAIN log, log[j].type = "TaskScheduled", log[j].id = e.id
          PROVE  FALSE
      BY <1>0, <2>2, <3>1, <3>2 DEF FitInv, OneOfEach, Once, Created
    <3> QED BY <3>2 DEF OutFits
  <2> QED BY <1>2, <2>1, <2>2, <2>3 DEF FitMove, Fitting
<1>8. ASSUME NEW run \in runs, complete_activity_task(run) PROVE FitMove /\ OutFits'
  <2>1. PICK v \in Outputs : Arrives(Msg("TaskCompleted", run.id, None, v))
    BY <1>8 DEF complete_activity_task
  <2> PICK m : m = Msg("TaskCompleted", run.id, None, v)
    OBVIOUS
  <2>2. v \in Option
    BY InstanceAssumption DEF Outputs, Option
  <2>3. run.id \in out /\ out' = out \ {run.id}
    BY <1>8 DEF complete_activity_task
  <2>4. PICK j \in DOMAIN log : log[j].type = "TaskScheduled" /\ log[j].id = run.id
    BY <2>3 DEF OutFits
  <2> PICK e : e = log[j]
    OBVIOUS
  <2>5. e \in Issued /\ e.id = run.id /\ e.id \notin AnsweredIds
    <3>1. /\ MessagesOK /\ log \in Seq(Message) /\ inbox \in Seq(Message)
          /\ Len(log) \in Nat /\ DOMAIN log = 1 .. Len(log) /\ Len(inbox) \in Nat
      BY <1>0, LenProperties DEF LedgerInv, MessagesOK
    <3> PICK both : both = log \o inbox
      OBVIOUS
    <3>2. /\ both \in Seq(Message) /\ DOMAIN both = 1 .. Len(log) + Len(inbox)
          /\ \A i \in 1 .. Len(log) + Len(inbox) :
                both[i] = IF i <= Len(log) THEN log[i] ELSE inbox[i - Len(log)]
      BY <3>1, ConcatProperties, LenProperties
    <3>3. j \in DOMAIN both /\ both[j] = e
      BY <3>1, <3>2
    <3>4. e \in {both[x] : x \in DOMAIN both} /\ e.type \in Created
      BY <2>4, <3>3 DEF Created
    <3> QED BY <2>3, <2>4, <3>4 DEF Issued, EventsOf, Range, OutFits
  <2>6. "TaskCompleted" \in Resolved /\ KindOf(e.type) \in KindResolved("TaskCompleted")
    BY <2>4 DEF Resolved, KindOf, KindResolved
  <2>7. Fitting(m)
    <3>1. Fitting(Msg("TaskCompleted", e.id, None, v))
      BY <1>0, <2>2, <2>5, <2>6, ResultFits
    <3> QED BY <2>5, <3>1
  <2>8. m.id = run.id /\ m.type = "TaskCompleted"
    BY DEF Msg
  <2> QED BY <1>2, <2>1, <2>3, <2>7, <2>8 DEF FitMove, Fitting
<1>9. ASSUME NEW run \in runs, ActivitySilent(run) PROVE UNCHANGED all_vars /\ OutFits'
  BY <1>1, <1>9 DEF ActivitySilent
<1>10. ASSUME NEW e \in ClientEvents, Signal(e) PROVE FitMove /\ OutFits'
  <2>1. Fitting(e) /\ Arrives(e) /\ e.type \notin Resolved /\ out' = out
    BY <1>10, ClientSentFits DEF Signal, act_vars
  <2> QED BY <1>2, <2>1 DEF FitMove, Fitting
<1>11. CASE Run \/ WorkerCrash \/ StreamEnds
  BY <1>3, <1>4, <1>5, <1>11, LostIsMove
     DEF Run, WorkerCrash, StreamEnds, FitMove
<1> QED BY <1>3, <1>4, <1>5, <1>6, <1>7, <1>8, <1>9, <1>10, <1>11
        DEF ActivitiesNext, ActivityEnds

-----------------------------------------------------------------------------
(* The theorems.                                                           *)

\* Whatever orchestrator an instance executes, and through whatever work items,
\* crashes, lost answers and panics: no execution meets an event of a call it has
\* not made ("Non determinism" in executor.rs), and replaying the log restores
\* all that the last execution ended with, and nothing else.
THEOREM ReplayIsDeterministic == InstanceSpec => [](Deterministic /\ ReplayRestores)
<1>1. InstanceInit => WholeInv
  BY InitWholeInv
<1>2. WholeInv /\ [InstanceNext]_all_vars => WholeInv'
  BY StepWholeInv, InstanceFits DEF WholeInv, InstInv
<1> QED BY <1>1, <1>2, WholeIsDeterministic, PTL DEF InstanceSpec

\* So the executor may forget all between two work items (executor.rs:395).
THEOREM PastRestored == InstanceSpec => []ReplayRestores
BY ReplayIsDeterministic, PTL

\* The same when the worker runs the activities, a request of which may be
\* streamed and run twice: the second answer is not taken.
THEOREM ActivitiesDeterministic == ActivitiesSpec => [](Deterministic /\ ReplayRestores)
<1>1. ActivitiesInit => WholeInv /\ OutFits
  BY InitWholeInv DEF ActivitiesInit, OutFits
<1>2. WholeInv /\ OutFits /\ [ActivitiesNext]_state_vars => (WholeInv /\ OutFits)'
  <2>1. ASSUME WholeInv, OutFits, ActivitiesNext PROVE WholeInv' /\ OutFits'
    BY <2>1, ActivityFits, StepWholeInv
  <2>2. ASSUME WholeInv, OutFits, UNCHANGED state_vars PROVE WholeInv' /\ OutFits'
    <3>1. UNCHANGED all_vars /\ UNCHANGED <<out, log, inbox>>
      BY <2>2 DEF state_vars, act_vars, all_vars, sidecar
    <3>2. OutFits'
      BY <2>2, <3>1 DEF OutFits, AnsweredIds, EventsOf
    <3> QED BY <2>2, <3>1, <3>2, StepWholeInv
  <2> QED BY <2>1, <2>2
<1> QED BY <1>1, <1>2, WholeIsDeterministic, PTL DEF ActivitiesSpec

\* And under the filter.
THEOREM FilteredDeterministic == FilterSpec => [](Deterministic /\ ReplayRestores)
<1>1. FilterInit => WholeInv
  BY InitWholeInv DEF FilterInit
<1>2. WholeInv /\ [FilterNext]_filter_vars => WholeInv'
  BY StepWholeInv, FilterFits DEF WholeInv, InstInv, filter_vars
<1> QED BY <1>1, <1>2, WholeIsDeterministic, PTL DEF FilterSpec

-----------------------------------------------------------------------------
(* What the filter shows.                                                  *)

\* A poll moves the orchestrator on by a step where a step is done, and nowhere
\* else.
LEMMA PollMoves ==
    ASSUME IInv, Execute
    PROVE  /\ history' = history /\ name' = name /\ pc # "event"
           /\ pc' # "done"
           /\ AtStepEnd /\ StepDone => step' = step + 1
           /\ ~(AtStepEnd /\ StepDone) => step' = step
<1>1. pc # "event" /\ pc' # "done"
  BY ExecuteRuns, NotDoneYet
<1>2. history' = history /\ name' = name
  BY DEF Execute, Poll, create_timer, call_activity, call_sub_orchestrator, Schedule,
         await_signal_event, TaskReady, TaskPending, TaskForsaken, TaskIgnored, TaskPanics,
         PolledAgain, FinishStep, Block, Complete, ReturnAtOnce, ReturnIgnored, DrainTask,
         DrainWaiter, NextEvent, future
<1>3. CASE FinishStep
  BY <1>1, <1>2, <1>3 DEF FinishStep
<1>4. CASE Execute /\ ~FinishStep
  <2>1. step' = step
    BY <1>4 DEF Execute, Poll, create_timer, call_activity, call_sub_orchestrator, Schedule,
         await_signal_event, TaskReady, TaskPending, TaskForsaken, TaskIgnored, TaskPanics,
         PolledAgain, Block, Complete, ReturnAtOnce, ReturnIgnored, DrainTask, DrainWaiter,
         NextEvent, future
  <2>2. AtStepEnd => ~(op <= Len(Body[step].ops)) /\ ~AtReturn
    <3>1. ASSUME AtStepEnd PROVE Len(Body[step].ops) \in Nat /\ Len(Body) \in Nat
      BY <3>1, StepOK DEF AtStepEnd, IInv, TypeOK, PositionOK
    <3> QED BY <3>1 DEF AtStepEnd, AtReturn, IInv, TypeOK, PositionOK
  <2>3. ~(AtStepEnd /\ StepDone)
    BY <1>4, <2>2 DEF Execute, Poll, create_timer, call_activity, call_sub_orchestrator, Schedule,
         await_signal_event, TaskReady, TaskPending, TaskForsaken, TaskIgnored, TaskPanics,
         PolledAgain, Block, Complete, ReturnAtOnce, ReturnIgnored, DrainTask, DrainWaiter,
         NextEvent, Awaited, AtTask, Uncalled, InStep, AtStepEnd, Polling
  <2> QED BY <1>1, <1>2, <2>1, <2>3
<1> QED BY <1>3, <1>4

\* What a signal or an acknowledgement starts: nothing.
LEMMA EventMoves ==
    ASSUME InstInv, CausesInv, ExecuteEvent
    PROVE  /\ Len(history') = Len(history) + 1 /\ step' = step /\ ~Idle
           /\ pc = "event" /\ pc' # "done"
           /\ pc' # "first" => name' = name
           /\ pc' = "first" /\ Len(history) >= Len(log) => log = <<>> /\ step = 1
<1>0. /\ HistoryOK /\ LedgerInv /\ MessagesOK /\ ItemOK /\ StartsFirst /\ InboxOutstanding
      /\ ConsumedIds \subseteq ScheduledIds /\ AtOwnCalls
      /\ ~Idle /\ Len(history) \in Nat
  BY WorkIsAnyStep, LenProperties
     DEF InstInv, AInv, SInv, IInv, TypeOK, LedgerInv, CausesInv, RInv, HistoryOK
<1> PICK i : i = Len(history) + 1
  OBVIOUS
<1> PICK e : e = item[i]
  OBVIOUS
<1>1. process_event(e) /\ Len(history) < Len(item)
  BY DEF ExecuteEvent
<1>2. /\ DOMAIN item = 1 .. Len(item) /\ Len(item) \in Nat /\ i \in DOMAIN item
      /\ Len(log) \in Nat /\ Len(item) = Len(log) + 1 + batch
      /\ batch \in 1 .. Len(inbox) /\ Len(inbox) \in Nat
  BY <1>0, <1>1, ItemParts, LenProperties DEF MessagesOK
<1>3. IsEvent(e) /\ (e.type = "ExecutionStarted" => i = 2)
  BY <1>0, <1>2, ItemEvents
<1>4. pc = "event" /\ history' = Append(history, e) /\ Len(history') = Len(history) + 1
  BY <1>0, <1>1, <1>3, EventTaken, OneMore
<1>5. step' = step
  BY <1>1, EventControl
<1>6. pc' # "done"
  BY <1>1, NotDoneYet
<1>7. /\ pc' # "first" => name' = name
      /\ pc' = "first" => e.type = "ExecutionStarted"
  BY <1>1, <1>4 DEF process_event, ExecutionStarted, ExecutionCompleted, ExecutionTerminated,
       IgnoredEvent, TaskScheduled, TimerCreated, SubOrchestrationInstanceCreated,
       Acknowledge, TaskCompleted, TimerFired, TaskFailed,
       SubOrchestrationInstanceCompleted, SubOrchestrationInstanceFailed,
       UnblockAndPoll, Unblock, EventRaised, ThenPoll, Goto, Panic, future
<1>8. ASSUME pc' = "first", Len(history) >= Len(log) PROVE log = <<>> /\ step = 1
  <2>0. e.type = "ExecutionStarted" /\ i = 2
    BY <1>3, <1>7, <1>8
  <2>1. i = 2 /\ Len(history) = 1 /\ e.type = "ExecutionStarted"
    <3> PICK n : n = Len(history)
      OBVIOUS
    <3>1. n \in Nat /\ n + 1 = 2
      BY <1>0, <2>0
    <3>2. n = 1
      BY ONLY <3>1
    <3> QED BY <2>0, <3>2
  <2>2. i # Len(log) + 1
    <3>1. Marker.type # "ExecutionStarted"
      BY MarkerIsMessage
    <3> QED BY <1>0, <2>1, <3>1, ItemParts
  <2>3. Len(log) = 0
    BY <1>0, <1>2, <1>8, <2>1, <2>2
  <2>4. log = <<>>
    BY <1>0, <2>3, EmptySeq DEF MessagesOK
  <2>5. ~HasStarted
    <3>1. DOMAIN history = {1} /\ history[1] = item[1]
      BY <1>0, <2>1, LenProperties DEF HistoryOK, ItemOK
    <3>2. 1 \in DOMAIN item
      BY <1>2, <2>1
    <3>3. item[1].type # "ExecutionStarted"
      BY <1>0, <3>2, ItemEvents
    <3> QED BY <3>1, <3>3 DEF HasStarted
  <2> QED BY <1>0, <2>4, <2>5 DEF AtOwnCalls
<1> QED BY <1>0, <1>4, <1>5, <1>6, <1>7, <1>8

\* The log and the last answer stay; so does what is on display.
LEMMA FilterRests ==
    ASSUME FilterInv, UNCHANGED <<history, pc, name, step, item, log, saved, phase, replaying>>,
           NoLine \/ UNCHANGED <<display, shown>>
    PROVE  FilterInv'
<1>1. shown' = shown /\ (display' = 0 \/ display' = display) /\ LinesAnswered' = LinesAnswered
      /\ Idle' = Idle
  BY DEF NoLine, LinesAnswered, Idle
<1>2. 0 \notin LinesAnswered
  BY DEF LinesAnswered, FilterInv
<1> QED BY <1>1, <1>2 DEF FilterInv, NothingRepeated

LEMMA FilterClosed ==
    ASSUME FilterInv, Closes, Idle', pc' = "event", name' = None, saved'.step \in Nat,
           log' = <<>> => saved'.name = None, LinesAnswered' \subseteq shown
    PROVE  FilterInv'
<1>1. shown' = shown /\ display' = 0 /\ phase' = "closed" /\ ~replaying'
  BY DEF Closes, NoLine
<1>2. 0 \notin LinesAnswered'
  BY DEF LinesAnswered
<1> QED BY <1>1, <1>2 DEF FilterInv, NothingRepeated

LEMMA StepFilterInv ==
    ASSUME WholeInv, CausesInv, FilterInv, FilterNext \/ UNCHANGED filter_vars
    PROVE  FilterInv'
<1>0. /\ InstInv /\ LedgerInv /\ MessagesOK /\ ItemOK /\ IInv /\ HistoryOK
      /\ Len(history) \in Nat /\ Len(log) \in Nat /\ step \in Nat /\ step >= 1
      /\ ReplayRestores
  BY WholeIsDeterministic, LenProperties
     DEF WholeInv, InstInv, AInv, SInv, IInv, TypeOK, LedgerInv, MessagesOK, HistoryOK, PositionOK
<1>1. CASE on_new_span
  <2>1. /\ UNCHANGED <<history, pc, name, step, log, saved>> /\ Idle
        /\ phase' = "opened" /\ NoLine /\ ~replaying'
        /\ item' = log \o <<Marker>> \o inbox
    BY <1>1 DEF on_new_span, GetWorkItem, vars, future, Visit, Marker
  <2>2. ~Idle'
    <3>1. log \in Seq(Message) /\ inbox \in Seq(Message) /\ <<Marker>> \in Seq(Message)
      BY <1>0, MarkerIsMessage DEF MessagesOK
    <3>2. /\ log \o <<Marker>> \in Seq(Message) /\ Len(log \o <<Marker>>) = Len(log) + 1
          /\ Len(inbox) \in Nat
      BY <3>1, ConcatProperties, LenProperties
    <3>3. Len(item') = Len(log \o <<Marker>>) + Len(inbox)
      BY <2>1, <3>1, <3>2, ConcatProperties
    <3>4. Len(item') # 0
      BY <1>0, <3>2, <3>3
    <3> QED BY <3>4 DEF Idle
  <2>3. history = <<>> /\ pc = "event"
    BY <1>0, <2>1 DEF ItemOK
  <2>4. shown' = shown /\ display' = 0 /\ LinesAnswered' = LinesAnswered /\ 0 \notin LinesAnswered
    BY <2>1 DEF NoLine, LinesAnswered
  <2> QED BY <2>1, <2>2, <2>3, <2>4 DEF FilterInv, NothingRepeated
<1>2. ASSUME UNCHANGED all_vars, NoLine
      PROVE  /\ UNCHANGED <<history, pc, name, step, item, log, saved, shown>>
             /\ Idle' = Idle /\ LinesAnswered' = LinesAnswered /\ NothingRepeated'
  BY <1>2 DEF all_vars, vars, future, sidecar, NoLine, LinesAnswered, Idle, NothingRepeated
<1>3. CASE RecordOld
  <2>1. /\ phase = "opened" /\ phase' = "old" /\ replaying' = TRUE
        /\ UNCHANGED all_vars /\ NoLine
    BY <1>3 DEF RecordOld, on_record, Visit
  <2>2. Len(history) <= Len(log)
    BY <1>0, <2>1 DEF FilterInv
  <2> QED BY <1>2, <2>1, <2>2 DEF FilterInv
<1>4. CASE RecordNew
  <2>1. /\ phase = "old" /\ phase' = "new" /\ replaying' = FALSE
        /\ UNCHANGED all_vars /\ NoLine
        /\ pc = "event" /\ Len(history) = Len(log) /\ ~Idle
    BY <1>4 DEF RecordNew, PastProcessed, on_record, Visit, FilterInv
  <2>2. history = log
    <3>1. DOMAIN history = DOMAIN log
      BY <1>0, <2>1, LenProperties DEF HistoryOK, MessagesOK
    <3>2. \A j \in DOMAIN history : history[j] = log[j]
      BY <1>0, <2>1, <3>1, ItemParts, LenProperties DEF ItemOK, MessagesOK, HistoryOK
    <3> PICK S : S = {history[j] : j \in DOMAIN history} \cup Message
      OBVIOUS
    <3>3. history \in Seq(S) /\ log \in Seq(S)
      BY <1>0, SeqMonotonic DEF HistoryOK, MessagesOK
    <3>4. \A j \in 1 .. Len(history) : history[j] = log[j]
      BY <3>2, <3>3, LenProperties
    <3> QED BY <2>1, <3>3, <3>4, SeqEqual
  <2>3. CASE log = <<>>
    <3>1. saved.name = None /\ name = None
      BY <2>2, <2>3 DEF FilterInv
    <3> QED BY <1>2, <2>1, <2>2, <3>1 DEF FilterInv
  <2>4. CASE log # <<>>
    <3>1. saved.name = name /\ saved.step = step
      BY <1>0, <2>1, <2>2, <2>4 DEF ReplayRestores, Snapshot
    <3>2. name # None => 1 .. step \subseteq shown
      BY <3>1 DEF FilterInv, LinesAnswered
    <3> QED BY <1>0, <1>2, <2>1, <2>2, <3>1, <3>2 DEF FilterInv
  <2> QED BY <2>3, <2>4
<1>5. CASE FilteredEvent
  <2>1. /\ phase \in {"old", "new"} /\ UNCHANGED <<phase, replaying, item, log, saved>>
        /\ ExecuteEvent /\ ~PastProcessed
        /\ IF pc' = "first" THEN event_enabled(1) ELSE NoLine
    BY <1>5 DEF FilteredEvent, filter, ExecuteEvent, sidecar
  <2>2. /\ Len(history') = Len(history) + 1 /\ step' = step /\ ~Idle
        /\ pc = "event" /\ pc' # "done"
        /\ pc' # "first" => name' = name
        /\ pc' = "first" /\ Len(history) >= Len(log) => log = <<>> /\ step = 1
    BY <1>0, <2>1, EventMoves
  <2>3. history' # <<>> /\ Idle' = Idle /\ LinesAnswered' = LinesAnswered
    BY <1>0, <2>1, <2>2 DEF Idle, LinesAnswered
  <2>4. CASE phase = "old"
    <3>1. replaying /\ shown' = shown /\ display' = 0
      BY <2>1, <2>4 DEF event_enabled, NoLine, FilterInv
    <3>2. Len(history') <= Len(log)
      BY <1>0, <2>1, <2>2, <2>4 DEF PastProcessed, FilterInv
    <3>3. 0 \notin LinesAnswered
      BY DEF LinesAnswered
    <3> QED BY <2>1, <2>2, <2>3, <2>4, <3>1, <3>2, <3>3 DEF FilterInv, NothingRepeated
  <2>5. CASE phase = "new"
    <3>1. ~replaying /\ Len(history) >= Len(log) /\ Len(history') >= Len(log)
      BY <1>0, <2>2, <2>5 DEF FilterInv
    <3>2. CASE pc' = "first"
      <4>1. saved.name = None /\ step = 1 /\ display' = 1 /\ shown' = shown \cup {1}
        BY <2>1, <2>2, <3>1, <3>2 DEF event_enabled, FilterInv
      <4>2. LinesAnswered = {} /\ 1 .. step' \subseteq shown'
        BY <2>2, <4>1 DEF LinesAnswered
      <4> QED BY <2>1, <2>2, <2>3, <2>5, <3>1, <4>1, <4>2 DEF FilterInv, NothingRepeated
    <3>3. CASE pc' # "first"
      <4>1. shown' = shown /\ display' = 0 /\ 0 \notin LinesAnswered /\ name' = name
        BY <2>1, <2>2, <3>3 DEF NoLine, LinesAnswered
      <4> QED BY <2>1, <2>2, <2>3, <2>5, <3>1, <4>1 DEF FilterInv, NothingRepeated
    <3> QED BY <3>2, <3>3
  <2> QED BY <2>1, <2>4, <2>5
<1>6. CASE FilteredStep
  <2>1. /\ UNCHANGED <<phase, replaying, item, log, saved>> /\ ExecuteStep /\ Execute
        /\ IF AtStepEnd /\ StepDone THEN event_enabled(step') ELSE NoLine
    BY <1>6 DEF FilteredStep, filter, ExecuteStep, sidecar
  <2>2. /\ history' = history /\ name' = name /\ pc # "event"
        /\ pc' # "done"
        /\ AtStepEnd /\ StepDone => step' = step + 1
        /\ ~(AtStepEnd /\ StepDone) => step' = step
    BY <1>0, <2>1, PollMoves
  <2>3. Idle' = Idle /\ LinesAnswered' = LinesAnswered /\ ~Idle /\ phase \in {"old", "new"}
    BY <1>0, <2>1, <2>2, WorkIsAnyStep DEF Idle, LinesAnswered, FilterInv
  <2>4. 0 \notin LinesAnswered
    BY DEF LinesAnswered
  <2>5. CASE NoLine /\ step' = step
    <3>1. shown' = shown /\ display' = 0
      BY <2>5 DEF NoLine
    <3> QED BY <2>1, <2>2, <2>3, <2>4, <2>5, <3>1 DEF FilterInv, NothingRepeated
  <2>6. CASE event_enabled(step') /\ step' = step + 1
    <3>1. CASE phase = "old"
      <4>1. shown' = shown /\ display' = 0
        BY <2>6, <3>1 DEF event_enabled, NoLine, FilterInv
      <4> QED BY <2>1, <2>2, <2>3, <2>4, <3>1, <4>1 DEF FilterInv, NothingRepeated
    <3>2. CASE phase = "new"
      <4>1. display' = step' /\ shown' = shown \cup {step'}
        BY <2>6, <3>2 DEF event_enabled, FilterInv
      <4>2. saved.name # None => step' >= saved.step /\ step' \notin 1 .. saved.step
        BY <1>0, <2>6, <3>2 DEF FilterInv
      <4>3. name # None => 1 .. step' \subseteq shown'
        BY <1>0, <2>6, <3>2, <4>1 DEF FilterInv
      <4>4. step' \notin LinesAnswered
        BY <4>2 DEF LinesAnswered
      <4> QED BY <2>1, <2>2, <2>3, <3>2, <4>1, <4>2, <4>3, <4>4 DEF FilterInv, NothingRepeated
    <3> QED BY <2>3, <3>1, <3>2
  <2> QED BY <2>1, <2>2, <2>5, <2>6
<1>7. CASE FilteredEnd
  <2>1. /\ phase = "new" /\ UNCHANGED <<phase, replaying, item, log, saved, history, name, step>>
        /\ shown' = shown /\ display' = 0 /\ Idle' = Idle /\ LinesAnswered' = LinesAnswered
    BY <1>7 DEF FilteredEnd, filter, ExecuteEnd, sidecar, get_actions, future, NoLine, Idle,
                LinesAnswered
  <2>2. 0 \notin LinesAnswered
    BY DEF LinesAnswered
  <2> QED BY <2>1, <2>2 DEF FilterInv, NothingRepeated
<1>8. CASE SpanEnds
  <2>1. /\ Closes /\ Idle' /\ pc' = "event" /\ name' = None /\ saved' = Snapshot /\ pc = "done"
        /\ \E acks : log' = item \o acks
    BY <1>8 DEF SpanEnds, complete_orchestrator_task, FreshExecutor, Idle
  <2>2. saved'.step = step /\ saved'.name = name
    BY <2>1 DEF Snapshot
  <2>3. LinesAnswered' \subseteq shown
    BY <2>1, <2>2 DEF LinesAnswered, FilterInv
  <2>4. log' # <<>>
    <3>1. PICK acks : /\ Len(log') = Len(item) + Len(acks)
                      /\ Len(item) \in Nat /\ Len(acks) \in Nat
      BY <1>0, <1>8, AnswerLog DEF SpanEnds, InstInv
    <3>2. ~Idle
      BY <1>0, <2>1, AllSeen
    <3>3. Len(item) >= 1
      BY <1>0, <3>2, ItemParts
    <3>4. Len(log') # 0
      BY <3>1, <3>3
    <3> QED BY <3>4
  <2> QED BY <1>0, <2>1, <2>2, <2>3, <2>4, FilterClosed
<1>9. CASE SpanLost
  <2>1. /\ Closes /\ Idle' /\ pc' = "event" /\ name' = None /\ saved' = saved /\ log' = log
    BY <1>9 DEF SpanLost, Crash, Abandon, FreshExecutor, Idle
  <2>2. LinesAnswered' \subseteq shown
    BY <2>1 DEF LinesAnswered, FilterInv
  <2> QED BY <2>1, <2>2, FilterClosed DEF FilterInv
<1>10. CASE \/ \E e \in Issued : TaskOutside(e)
            \/ \E e \in ClientEvents : ClientOutside(e)
            \/ UNCHANGED filter_vars
  <2>1. /\ UNCHANGED <<history, pc, name, step, item, log, saved, phase, replaying>>
        /\ NoLine \/ UNCHANGED <<display, shown>>
    BY <1>10 DEF TaskOutside, ClientOutside, TaskEnds, ClientSends, Arrives, filter,
                 filter_vars, lines, all_vars, vars, future, sidecar
  <2> QED BY <2>1, FilterRests
<1> QED BY <1>1, <1>3, <1>4, <1>5, <1>6, <1>7, <1>8, <1>9, <1>10 DEF FilterNext, FilterWork

LEMMA InitFilterInv ==
    ASSUME FilterInit
    PROVE  FilterInv
<1>1. /\ InstanceInit /\ history = <<>> /\ pc = "event" /\ name = None /\ log = <<>>
      /\ item = <<>> /\ saved.name = None /\ saved.step = 1
      /\ phase = "closed" /\ replaying = FALSE /\ display = 0
  BY DEF FilterInit, InstanceInit, Init, Snapshot
<1> QED BY <1>1 DEF FilterInv, Idle, LinesAnswered, NothingRepeated

\* The flag is down exactly while the orchestrator is beyond what was answered.
THEOREM FilterInvariance == FilterSpec => []FilterInv
<1> DEFINE Inv == WholeInv /\ CausesInv /\ FilterInv
<1>1. FilterInit => Inv
  BY InitWholeInv, InitWInv, InitRInv, InitFilterInv
     DEF FilterInit, InstanceInit, CausesInv
<1>2. Inv /\ [FilterNext]_filter_vars => Inv'
  <2> SUFFICES ASSUME WholeInv, CausesInv, FilterInv, FilterNext \/ UNCHANGED filter_vars
               PROVE  WholeInv' /\ CausesInv' /\ FilterInv'
    OBVIOUS
  <2>1. FitMove \/ UNCHANGED all_vars
    BY FilterFits DEF WholeInv, InstInv, filter_vars
  <2>2. WholeInv'
    BY <2>1, StepWholeInv
  <2>3. CausesInv'
    BY <2>1, FitIsAnyMove, StepCausesInv DEF WholeInv
  <2> QED BY <2>2, <2>3, StepFilterInv
<1>3. Inv => FilterInv
  OBVIOUS
<1> QED BY <1>1, <1>2, <1>3, PTL DEF FilterSpec

\* No line that an answered execution logged is hidden for ever: the flag comes
\* down in time (executor.rs:401).
THEOREM EveryLineShown == FilterSpec => []NothingHidden
<1>1. FilterInv => NothingHidden
  BY DEF FilterInv, NothingHidden
<1> QED BY <1>1, FilterInvariance, PTL

\* And no replay shows it again, although each logs it again (filter.rs:47).
THEOREM NoLineTwice == FilterSpec => []NothingRepeated
<1>1. FilterInv => NothingRepeated
  BY DEF FilterInv
<1> QED BY <1>1, FilterInvariance, PTL
=============================================================================
