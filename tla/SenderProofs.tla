---------------------------- MODULE SenderProofs ----------------------------
(***************************************************************************)
(* Proofs about the senders of Executor, each of which is in one place;    *)
(* and about what the executor gives and asks: the values the calls get    *)
(* are those of events about them, and no call of a task is forgotten.     *)
(***************************************************************************)
EXTENDS ExecutorProofs

-----------------------------------------------------------------------------
(* What the types say about handles.                                       *)
LEMMA HandleTypes ==
    ASSUME IInv
    PROVE  /\ DOMAIN calls = Handles /\ DOMAIN tasks = Handles
           /\ Len(calls) \in Nat /\ drained \in 0 .. Len(calls)
           /\ octx_sequence_number \in Nat
           /\ \A h \in Handles : calls[h] \in Call /\ tasks[h] \in Task
           /\ \A id \in DOMAIN pending_tasks : pending_tasks[id] \in Handles
           /\ \A key \in DOMAIN pending_events :
                /\ pending_events[key] \in Seq(Handles)
                /\ pending_events[key] # <<>>
                /\ Len(pending_events[key]) \in Nat
                /\ DOMAIN pending_events[key] = 1 .. Len(pending_events[key])
                /\ \A i \in DOMAIN pending_events[key] : pending_events[key][i] \in Handles
<1>1. CallsOK /\ MapsOK /\ NonEmpty(pending_events)
  BY DEF IInv, TypeOK, NoEmptyQueue
<1>2. /\ calls \in Seq(Call) /\ tasks \in Seq(Task) /\ Len(tasks) = Len(calls)
      /\ drained \in 0 .. Len(calls) /\ octx_sequence_number \in Nat
  BY <1>1 DEF CallsOK
<1>3. DOMAIN calls = Handles /\ DOMAIN tasks = Handles /\ Len(calls) \in Nat
  BY <1>2, LenProperties DEF Handles
<1>4. \A h \in Handles : calls[h] \in Call /\ tasks[h] \in Task
  BY <1>2, ElementOfSeq DEF Handles
<1>5. \A id \in DOMAIN pending_tasks : pending_tasks[id] \in Handles
  BY <1>1 DEF MapsOK, IsMap
<1>6. ASSUME NEW key \in DOMAIN pending_events
      PROVE  /\ pending_events[key] \in Seq(Handles)
             /\ pending_events[key] # <<>>
             /\ Len(pending_events[key]) \in Nat
             /\ DOMAIN pending_events[key] = 1 .. Len(pending_events[key])
             /\ \A i \in DOMAIN pending_events[key] : pending_events[key][i] \in Handles
  <2>1. pending_events[key] \in Seq(Handles) /\ pending_events[key] # <<>>
    BY <1>1 DEF MapsOK, IsMap, NonEmpty
  <2>2. /\ Len(pending_events[key]) \in Nat
        /\ DOMAIN pending_events[key] = 1 .. Len(pending_events[key])
    BY <2>1, LenProperties
  <2>3. \A i \in 1 .. Len(pending_events[key]) : pending_events[key][i] \in Handles
    BY <2>1, ElementOfSeq
  <2> QED BY <2>1, <2>2, <2>3
<1> QED BY <1>2, <1>3, <1>4, <1>5, <1>6

-----------------------------------------------------------------------------
(* Senders.                                                                *)

\* A step that moves no sender.
KeepsSenders ==
    /\ SameTasks
    /\ UNCHANGED <<calls, drained, pending_tasks, pending_events>>
    /\ \A h \in Handles : tasks'[h].tx = tasks[h].tx

\* Where no sender moves, each is still where it was.
LEMMA SendersKept ==
    ASSUME IInv, SenderOwned, KeepsSenders
    PROVE  SenderOwned'
<1>1. DOMAIN tasks = Handles /\ DOMAIN tasks' = Handles
  BY HandleTypes, LenProperties DEF KeepsSenders, SameTasks, IInv, TypeOK, CallsOK, Handles
<1>2. HeldIsOwned'
  <2> SUFFICES ASSUME NEW h \in Handles
               PROVE  tasks'[h].tx = "held" <=>
                          InFlight(h)' \/ AwaitsResult(h)' \/ AwaitsSignal(h)'
    BY <1>1 DEF HeldIsOwned
  <2>1. AwaitsResult(h)' <=> AwaitsResult(h)
    BY DEF KeepsSenders, AwaitsResult
  <2>2. AwaitsSignal(h)' <=> AwaitsSignal(h)
    BY DEF KeepsSenders, AwaitsSignal
  <2>3. InFlight(h)' <=> InFlight(h)
    BY DEF KeepsSenders, SameTasks, InFlight, InChannel
  <2> QED BY <1>1, <2>1, <2>2, <2>3 DEF SenderOwned, HeldIsOwned, KeepsSenders
<1>3. TasksOfCalls' /\ WaitersInOrder'
  BY DEF KeepsSenders, SenderOwned, TasksOfCalls, WaitersInOrder, InChannel
<1> QED BY <1>2, <1>3 DEF SenderOwned

\* A call just made has its sender in the channel, unless it was completed on
\* the spot.
LEMMA NewSender ==
    ASSUME IInv, SenderOwned, NEW call, NEW task, NewCall(call, task),
           task.tx = "held" <=> ~task.completed,
           UNCHANGED <<pending_tasks, pending_events>>
    PROVE  SenderOwned'
<1> PICK new : new = Len(calls) + 1
  OBVIOUS
<1>0. /\ DOMAIN calls = Handles /\ DOMAIN tasks = Handles /\ Len(calls) \in Nat
      /\ drained \in 0 .. Len(calls) /\ Handles = 1 .. Len(calls)
      /\ \A id \in DOMAIN pending_tasks : pending_tasks[id] \in Handles
      /\ \A key \in DOMAIN pending_events :
            \A i \in DOMAIN pending_events[key] : pending_events[key][i] \in Handles
  BY HandleTypes DEF Handles
<1>1. /\ \A h \in Handles : calls'[h] = calls[h] /\ tasks'[h] = tasks[h]
      /\ tasks'[new] = task
      /\ DOMAIN calls' = 1 .. new /\ DOMAIN tasks' = 1 .. new
      /\ drained' = drained
  <2>1. /\ calls' \in Seq(Call) /\ tasks' \in Seq(Task)
        /\ Len(calls') = new /\ Len(tasks') = new
        /\ \A h \in Handles : calls'[h] = calls[h] /\ tasks'[h] = tasks[h]
        /\ tasks'[new] = task
    BY NewCallOK DEF IInv, TypeOK
  <2>2. DOMAIN calls' = 1 .. new /\ DOMAIN tasks' = 1 .. new
    BY <2>1, LenProperties
  <2> QED BY <2>1, <2>2 DEF NewCall
<1>2. \A h : (AwaitsResult(h)' <=> AwaitsResult(h)) /\ (AwaitsSignal(h)' <=> AwaitsSignal(h))
  BY DEF AwaitsResult, AwaitsSignal
<1>3. \A h \in Handles : (InChannel(h)' <=> InChannel(h)) /\ (InFlight(h)' <=> InFlight(h))
  BY <1>0, <1>1 DEF InChannel, InFlight
<1>4. HeldIsOwned'
  <2>1. ASSUME NEW h \in Handles
        PROVE  tasks'[h].tx = "held" <=>
                   InFlight(h)' \/ AwaitsResult(h)' \/ AwaitsSignal(h)'
    BY <1>0, <1>1, <1>2, <1>3 DEF SenderOwned, HeldIsOwned
  <2>2. ~AwaitsResult(new) /\ ~AwaitsSignal(new)
    BY <1>0 DEF AwaitsResult, AwaitsSignal
  <2>3. InFlight(new)' <=> ~task.completed
    BY <1>0, <1>1 DEF InFlight, InChannel
  <2>4. tasks'[new].tx = "held" <=> InFlight(new)' \/ AwaitsResult(new)' \/ AwaitsSignal(new)'
    BY <1>1, <1>2, <2>2, <2>3
  <2>5. 1 .. new = Handles \cup {new}
    BY <1>0
  <2> QED BY <1>1, <2>1, <2>4, <2>5 DEF HeldIsOwned
<1>5. TasksOfCalls'
  BY <1>0, <1>1, <1>3 DEF SenderOwned, TasksOfCalls
<1>6. WaitersInOrder'
  BY <1>0, <1>1, <1>3 DEF SenderOwned, WaitersInOrder
<1> QED BY <1>4, <1>5, <1>6 DEF SenderOwned

\* Draining a call of a task moves its sender from the channel to pending_tasks,
\* under an id that nobody has there: no other sender is overwritten.
LEMMA DrainedTask ==
    ASSUME IInv, SenderOwned, NumberedInOrder, NoneOnTheSpot, DrainTask
    PROVE  SenderOwned'
<1> PICK new : new = drained + 1
  OBVIOUS
<1>0. /\ DOMAIN calls = Handles /\ DOMAIN tasks = Handles /\ Handles = 1 .. Len(calls)
      /\ Len(calls) \in Nat /\ drained \in 0 .. Len(calls)
      /\ \A id \in DOMAIN pending_tasks : pending_tasks[id] \in Handles
      /\ \A key \in DOMAIN pending_events :
            \A i \in DOMAIN pending_events[key] : pending_events[key][i] \in Handles
  BY HandleTypes DEF Handles
<1>1. /\ UNCHANGED <<calls, tasks, pending_events>>
      /\ drained' = drained + 1 /\ drained < Len(calls)
      /\ calls[new].kind \in TaskKinds
      /\ pending_tasks' = Put(pending_tasks, calls[new].id, new)
  BY DEF DrainTask, called, queues
<1>2. new \in Handles /\ new \in TaskCalls /\ InChannel(new)
  BY <1>0, <1>1 DEF TaskCalls, InChannel
<1>3. \A h \in Handles : InChannel(h)' <=> InChannel(h) /\ h # new
  BY <1>0, <1>1 DEF InChannel
<1>4. calls[new].id \notin DOMAIN pending_tasks
  <2> SUFFICES ASSUME calls[new].id \in DOMAIN pending_tasks PROVE FALSE
    OBVIOUS
  <2> PICK h : h = pending_tasks[calls[new].id]
    OBVIOUS
  <2>1. /\ h \in TaskCalls /\ calls[h].id = calls[new].id /\ ~InChannel(h)
    BY <1>0 DEF SenderOwned, TasksOfCalls, TaskCalls
  <2>2. h < new
    BY <1>0, <1>1, <2>1 DEF InChannel, TaskCalls
  <2>3. calls[h].id < calls[new].id
    BY <1>2, <2>1, <2>2 DEF NumberedInOrder
  <2>4. calls[h].id \in Nat
    BY <1>0, <2>1 DEF NumberedInOrder, IInv, TypeOK, CallsOK
  <2> QED BY <2>1, <2>3, <2>4
<1>5. \A h \in Handles : AwaitsResult(h)' <=> AwaitsResult(h) \/ h = new
  BY <1>1, <1>4 DEF AwaitsResult, Put
<1>6. \A h : AwaitsSignal(h)' <=> AwaitsSignal(h)
  BY <1>1 DEF AwaitsSignal
<1>7. \A h \in Handles : InFlight(h)' <=> InFlight(h) /\ h # new
  BY <1>1, <1>3 DEF InFlight
<1>8. InFlight(new)
  BY <1>2 DEF InFlight, NoneOnTheSpot
<1>9. HeldIsOwned'
  <2> SUFFICES ASSUME NEW h \in Handles
               PROVE  tasks'[h].tx = "held" <=>
                          InFlight(h)' \/ AwaitsResult(h)' \/ AwaitsSignal(h)'
    BY <1>0, <1>1 DEF HeldIsOwned
  <2>1. tasks[h].tx = "held" <=> InFlight(h) \/ AwaitsResult(h) \/ AwaitsSignal(h)
    BY <1>0 DEF SenderOwned, HeldIsOwned
  <2>2. tasks'[h].tx = tasks[h].tx
    BY <1>1
  <2> QED BY <1>5, <1>6, <1>7, <1>8, <2>1, <2>2
<1>10. TasksOfCalls'
  <2> SUFFICES ASSUME NEW id \in DOMAIN pending_tasks', NEW h, h = pending_tasks'[id]
               PROVE  calls[h].kind \in TaskKinds /\ calls[h].id = id /\ ~InChannel(h)'
    BY <1>1 DEF TasksOfCalls
  <2>1. CASE id = calls[new].id
    <3>1. h = new
      BY <1>1, <2>1 DEF Put
    <3> QED BY <1>1, <1>2, <1>3, <2>1, <3>1
  <2>2. CASE id # calls[new].id
    <3>1. id \in DOMAIN pending_tasks /\ h = pending_tasks[id]
      BY <1>1, <2>2 DEF Put
    <3> QED BY <1>0, <1>3, <3>1 DEF SenderOwned, TasksOfCalls
  <2> QED BY <2>1, <2>2
<1>11. WaitersInOrder'
  BY <1>0, <1>1, <1>3 DEF SenderOwned, WaitersInOrder
<1> QED BY <1>9, <1>10, <1>11 DEF SenderOwned

\* What push_back does to the queues of a map: one element more, at the end of
\* one of them.
LEMMA PushBackElements ==
    ASSUME NEW V, NEW f, NEW k, NEW v \in V, NEW g, g = PushBack(f, k, v),
           NEW n, k \in DOMAIN f => n = Len(f[k]), k \notin DOMAIN f => n = 0,
           \A x \in DOMAIN f : f[x] \in Seq(V)
    PROVE  /\ \A x : x \in DOMAIN g <=> x \in DOMAIN f \/ x = k
           /\ \A x \in DOMAIN f : x # k => g[x] = f[x]
           /\ n \in Nat /\ DOMAIN g[k] = 1 .. n + 1 /\ g[k][n + 1] = v
           /\ k \in DOMAIN f => \A i \in 1 .. n : g[k][i] = f[k][i]
<1>1. CASE k \in DOMAIN f
  <2>1. f[k] \in Seq(V)
    BY <1>1
  <2>2. /\ Len(f[k]) \in Nat
        /\ Append(f[k], v) \in Seq(V) /\ Len(Append(f[k], v)) = Len(f[k]) + 1
        /\ \A i \in 1 .. Len(f[k]) : Append(f[k], v)[i] = f[k][i]
        /\ Append(f[k], v)[Len(f[k]) + 1] = v
    BY <2>1, AppendProperties, LenProperties
  <2>3. DOMAIN Append(f[k], v) = 1 .. Len(f[k]) + 1
    BY <2>2, LenProperties
  <2>4. g = Put(f, k, Append(f[k], v))
    BY <1>1 DEF PushBack
  <2> QED BY <1>1, <2>2, <2>3, <2>4 DEF Put
<1>2. CASE k \notin DOMAIN f
  <2>1. g = Put(f, k, <<v>>) /\ n = 0
    BY <1>2 DEF PushBack
  <2>2. /\ \A x : x \in DOMAIN g <=> x \in DOMAIN f \/ x = k
        /\ g[k] = <<v>> /\ \A x \in DOMAIN f : x # k => g[x] = f[x]
    BY <2>1 DEF Put
  <2> QED BY <1>2, <2>1, <2>2
<1> QED BY <1>1, <1>2

\* Draining a waiter appends its sender to the queue of its signal, behind all
\* that called before it; draining a signal that has its value moves nothing.
LEMMA DrainedWaiter ==
    ASSUME IInv, SenderOwned, DrainWaiter
    PROVE  SenderOwned'
<1> PICK new : new = drained + 1
  OBVIOUS
<1> PICK k : k = calls[new].name
  OBVIOUS
<1>0. /\ DOMAIN calls = Handles /\ DOMAIN tasks = Handles /\ Handles = 1 .. Len(calls)
      /\ Len(calls) \in Nat /\ drained \in 0 .. Len(calls)
      /\ \A id \in DOMAIN pending_tasks : pending_tasks[id] \in Handles
      /\ \A key \in DOMAIN pending_events :
            /\ pending_events[key] \in Seq(Handles)
            /\ Len(pending_events[key]) \in Nat
            /\ DOMAIN pending_events[key] = 1 .. Len(pending_events[key])
            /\ \A i \in DOMAIN pending_events[key] : pending_events[key][i] \in Handles
  BY HandleTypes DEF Handles
<1>1. /\ UNCHANGED <<calls, tasks, pending_tasks>>
      /\ drained' = drained + 1 /\ drained < Len(calls)
      /\ calls[new].kind = "signal"
      /\ pending_events' = IF tasks[new].completed THEN pending_events
                           ELSE PushBack(pending_events, k, new)
  BY DEF DrainWaiter, called
<1>2. new \in Handles /\ InChannel(new)
  BY <1>0, <1>1 DEF InChannel
<1> PICK g : g = PushBack(pending_events, k, new)
  OBVIOUS
<1> PICK n : n = IF k \in DOMAIN pending_events THEN Len(pending_events[k]) ELSE 0
  OBVIOUS
<1>g. /\ \A x : x \in DOMAIN g <=> x \in DOMAIN pending_events \/ x = k
      /\ \A x \in DOMAIN pending_events : x # k => g[x] = pending_events[x]
      /\ n \in Nat /\ DOMAIN g[k] = 1 .. n + 1 /\ g[k][n + 1] = new
      /\ k \in DOMAIN pending_events =>
            n = Len(pending_events[k]) /\ \A i \in 1 .. n : g[k][i] = pending_events[k][i]
      /\ k \notin DOMAIN pending_events => n = 0
  <2>1. \A x \in DOMAIN pending_events : pending_events[x] \in Seq(Handles)
    BY <1>0
  <2>2. /\ k \in DOMAIN pending_events => n = Len(pending_events[k])
        /\ k \notin DOMAIN pending_events => n = 0
    OBVIOUS
  <2>3. \A x : x \in DOMAIN g <=> x \in DOMAIN pending_events \/ x = k
    BY DEF PushBack, Put
  <2>4. \A x \in DOMAIN pending_events : x # k => g[x] = pending_events[x]
    BY DEF PushBack, Put
  <2>5. n \in Nat /\ DOMAIN g[k] = 1 .. n + 1 /\ g[k][n + 1] = new
    BY <1>2, <2>1, <2>2, PushBackElements, SMTT(30)
  <2>6. k \in DOMAIN pending_events => \A i \in 1 .. n : g[k][i] = pending_events[k][i]
    BY <1>2, <2>1, <2>2, PushBackElements
  <2> QED BY <2>2, <2>3, <2>4, <2>5, <2>6
<1>3. \A h \in Handles : InChannel(h)' <=> InChannel(h) /\ h # new
  BY <1>0, <1>1 DEF InChannel
<1>4. \A h : AwaitsResult(h)' <=> AwaitsResult(h)
  BY <1>1 DEF AwaitsResult
<1>5. \A h \in Handles : InFlight(h)' <=> InFlight(h) /\ h # new
  BY <1>1, <1>3 DEF InFlight
<1>6. \A h \in Handles :
         AwaitsSignal(h)' <=> AwaitsSignal(h) \/ (h = new /\ ~tasks[new].completed)
  <2>1. CASE tasks[new].completed
    BY <1>1, <2>1 DEF AwaitsSignal
  <2>2. CASE ~tasks[new].completed
    <3>1. pending_events' = g
      BY <1>1, <2>2
    <3>2. ASSUME NEW h \in Handles, NEW key \in DOMAIN g, NEW i \in DOMAIN g[key],
                 g[key][i] = h
          PROVE  AwaitsSignal(h) \/ h = new
      <4>1. CASE key # k
        BY <1>g, <3>2, <4>1 DEF AwaitsSignal
      <4>2. CASE key = k /\ i # n + 1
        <5>1. k \in DOMAIN pending_events /\ i \in 1 .. n
          BY <1>g, <3>2, <4>2
        <5> QED BY <1>g, <1>0, <3>2, <4>2, <5>1 DEF AwaitsSignal
      <4> QED BY <1>g, <3>2, <4>1, <4>2
    <3>3. ASSUME NEW h \in Handles, NEW key \in DOMAIN pending_events,
                 NEW i \in DOMAIN pending_events[key], pending_events[key][i] = h
          PROVE  key \in DOMAIN g /\ i \in DOMAIN g[key] /\ g[key][i] = h
      <4>1. CASE key # k
        BY <1>g, <3>3, <4>1
      <4>2. CASE key = k
        <5>1. i \in 1 .. n
          BY <1>g, <1>0, <3>3, <4>2
        <5> QED BY <1>g, <3>3, <4>2, <5>1
      <4> QED BY <4>1, <4>2
    <3>4. k \in DOMAIN g /\ \E i \in DOMAIN g[k] : g[k][i] = new
      BY <1>g
    <3> QED BY <2>2, <3>1, <3>2, <3>3, <3>4 DEF AwaitsSignal
  <2> QED BY <2>1, <2>2
<1>7. HeldIsOwned'
  <2> SUFFICES ASSUME NEW h \in Handles
               PROVE  tasks'[h].tx = "held" <=>
                          InFlight(h)' \/ AwaitsResult(h)' \/ AwaitsSignal(h)'
    BY <1>0, <1>1 DEF HeldIsOwned
  <2>1. tasks[h].tx = "held" <=> InFlight(h) \/ AwaitsResult(h) \/ AwaitsSignal(h)
    BY <1>0 DEF SenderOwned, HeldIsOwned
  <2>2. tasks'[h].tx = tasks[h].tx
    BY <1>1
  <2>3. InFlight(new) <=> ~tasks[new].completed
    BY <1>2 DEF InFlight
  <2> QED BY <1>4, <1>5, <1>6, <2>1, <2>2, <2>3
<1>8. TasksOfCalls'
  BY <1>0, <1>1, <1>3 DEF SenderOwned, TasksOfCalls
<1>9. WaitersInOrder'
  <2>1. CASE tasks[new].completed
    BY <1>0, <1>1, <1>3, <2>1 DEF SenderOwned, WaitersInOrder
  <2>2. CASE ~tasks[new].completed
    <3>2. pending_events' = g
      BY <1>1, <2>2
    <3> SUFFICES ASSUME NEW key \in DOMAIN g, NEW i \in DOMAIN g[key], NEW h, h = g[key][i]
                 PROVE  /\ calls[h].kind = "signal" /\ calls[h].name = key
                        /\ ~InChannel(h)'
                        /\ \A j \in 1 .. i - 1 : g[key][j] < h
      BY <1>1, <3>2 DEF WaitersInOrder
    <3>3. CASE key # k
      BY <1>0, <1>3, <1>g, <3>3, SMTT(30) DEF SenderOwned, WaitersInOrder
    <3>4. CASE key = k /\ i \in 1 .. n
      <4>1. k \in DOMAIN pending_events /\ i \in DOMAIN pending_events[k]
        BY <1>0, <3>4
      <4>2. h = pending_events[k][i] /\ h \in Handles
        BY <1>0, <1>g, <3>4, <4>1
      <4>3. /\ calls[h].kind = "signal" /\ calls[h].name = k /\ ~InChannel(h)
            /\ \A j \in 1 .. i - 1 : pending_events[k][j] < h
        BY <4>1, <4>2 DEF SenderOwned, WaitersInOrder
      <4>4. ~InChannel(h)'
        BY <1>3, <4>2, <4>3
      <4>5. \A j \in 1 .. i - 1 : j \in 1 .. n /\ g[key][j] = pending_events[k][j]
        BY <1>g, <3>4, <4>1
      <4> QED BY <3>4, <4>3, <4>4, <4>5
    <3>5. CASE key = k /\ i = n + 1
      <4>1. h = new /\ ~InChannel(h)'
        BY <1>2, <1>3, <1>g, <3>5
      <4>2. ASSUME NEW j \in 1 .. i - 1 PROVE g[key][j] < new
        <5>1. k \in DOMAIN pending_events /\ j \in 1 .. n
          BY <1>g, <3>5
        <5>2. g[key][j] = pending_events[k][j] /\ j \in DOMAIN pending_events[k]
          BY <1>0, <1>g, <3>5, <5>1
        <5>3. pending_events[k][j] \in Handles /\ ~InChannel(pending_events[k][j])
          BY <1>0, <5>1, <5>2 DEF SenderOwned, WaitersInOrder
        <5> QED BY <1>0, <1>1, <5>2, <5>3 DEF InChannel
      <4> QED BY <1>1, <3>5, <4>1, <4>2
    <3> QED BY <1>g, <3>3, <3>4, <3>5
  <2> QED BY <2>1, <2>2
<1> QED BY <1>7, <1>8, <1>9 DEF SenderOwned

\* A task whose sender is used or dropped has none any more.
LEMMA SenderGone ==
    ASSUME NEW t \in Task, t.tx = "held", NEW v \in Option
    PROVE  Send(t, v).tx # "held" /\ DropSender(t).tx # "held"
BY DEF Task, Send, Accepts, DropSender

\* A result takes the sender of its task, and no other, off pending_tasks.
LEMMA UnblockedSender ==
    ASSUME IInv, SenderOwned, NEW e, e.value \in Option, Unblock(e), SameTasks
    PROVE  /\ SenderOwned'
           /\ \A h \in Handles : tasks[h].tx # "held" => tasks'[h] = tasks[h]
<1>0. /\ DOMAIN calls = Handles /\ DOMAIN tasks = Handles
      /\ \A h \in Handles : tasks[h] \in Task
      /\ \A id \in DOMAIN pending_tasks : pending_tasks[id] \in Handles
      /\ \A key \in DOMAIN pending_events :
            \A i \in DOMAIN pending_events[key] : pending_events[key][i] \in Handles
  BY HandleTypes
<1>1. /\ UNCHANGED <<calls, drained, pending_events>>
      /\ pending_tasks' = Remove(pending_tasks, e.id)
  BY DEF Unblock, queues
<1>2. CASE e.id \notin DOMAIN pending_tasks
  <2>1. tasks' = tasks
    BY <1>2 DEF Unblock
  <2>2. pending_tasks' = pending_tasks
    <3>1. pending_tasks = [id \in DOMAIN pending_tasks |-> pending_tasks[id]]
      BY DEF IInv, TypeOK, MapsOK, IsMap
    <3>2. DOMAIN pending_tasks \ {e.id} = DOMAIN pending_tasks
      BY <1>2
    <3> QED BY <1>1, <3>1, <3>2 DEF Remove
  <2>3. KeepsSenders
    BY <1>1, <2>1, <2>2 DEF KeepsSenders
  <2> QED BY <2>1, <2>3, SendersKept
<1>3. CASE e.id \in DOMAIN pending_tasks
  <2> PICK h : h = pending_tasks[e.id]
    OBVIOUS
  <2>1. /\ h \in Handles /\ calls[h].kind \in TaskKinds /\ calls[h].id = e.id
        /\ AwaitsResult(h)
    BY <1>0, <1>3 DEF SenderOwned, TasksOfCalls, AwaitsResult
  <2>2. tasks[h].tx = "held"
    BY <1>0, <2>1 DEF SenderOwned, HeldIsOwned
  <2>3. \/ tasks' = [tasks EXCEPT ![h] = DropSender(tasks[h])]
        \/ tasks' = [tasks EXCEPT ![h] = Send(tasks[h], e.value)]
    BY <1>3 DEF Unblock
  <2>4. /\ DOMAIN tasks' = Handles
        /\ \A g \in Handles : g # h => tasks'[g] = tasks[g]
        /\ tasks'[h].tx # "held"
    BY <1>0, <2>1, <2>2, <2>3, SenderGone
  <2>5. \A g \in Handles : AwaitsResult(g)' <=> AwaitsResult(g) /\ g # h
    <3>1. ASSUME NEW g \in Handles, NEW id \in DOMAIN pending_tasks, pending_tasks[id] = g, g # h
          PROVE  id \in DOMAIN pending_tasks' /\ pending_tasks'[id] = g
      BY <1>1, <3>1 DEF Remove
    <3>2. ASSUME NEW id \in DOMAIN pending_tasks'
          PROVE  id \in DOMAIN pending_tasks /\ pending_tasks'[id] = pending_tasks[id]
                 /\ pending_tasks[id] # h
      <4>1. id \in DOMAIN pending_tasks /\ pending_tasks'[id] = pending_tasks[id] /\ id # e.id
        BY <1>1, <3>2 DEF Remove
      <4>2. calls[pending_tasks[id]].id = id
        BY <4>1 DEF SenderOwned, TasksOfCalls
      <4> QED BY <2>1, <4>1, <4>2
    <3> QED BY <3>1, <3>2 DEF AwaitsResult
  <2>6. \A g : AwaitsSignal(g)' <=> AwaitsSignal(g)
    BY <1>1 DEF AwaitsSignal
  <2>7. ~AwaitsSignal(h)
    BY <2>1 DEF AwaitsSignal, SenderOwned, WaitersInOrder, TaskKinds
  <2>8. \A g \in Handles : (InChannel(g)' <=> InChannel(g)) /\ (InFlight(g)' <=> InFlight(g))
    BY <1>1 DEF InChannel, InFlight, SameTasks
  <2>9. ~InFlight(h)
    BY <1>0, <1>3 DEF InFlight, SenderOwned, TasksOfCalls
  <2>10. HeldIsOwned'
    <3> SUFFICES ASSUME NEW g \in Handles
                 PROVE  tasks'[g].tx = "held" <=>
                            InFlight(g)' \/ AwaitsResult(g)' \/ AwaitsSignal(g)'
      BY <2>4 DEF HeldIsOwned
    <3>1. CASE g = h
      BY <2>1, <2>4, <2>5, <2>6, <2>7, <2>8, <2>9, <3>1
    <3>2. CASE g # h
      <4>1. tasks[g].tx = "held" <=> InFlight(g) \/ AwaitsResult(g) \/ AwaitsSignal(g)
        BY <1>0 DEF SenderOwned, HeldIsOwned
      <4> QED BY <2>4, <2>5, <2>6, <2>8, <3>2, <4>1
    <3> QED BY <3>1, <3>2
  <2>11. TasksOfCalls'
    BY <1>0, <1>1, <2>8 DEF SenderOwned, TasksOfCalls, Remove
  <2>12. WaitersInOrder'
    BY <1>0, <1>1, <2>8 DEF SenderOwned, WaitersInOrder
  <2> QED BY <2>2, <2>4, <2>10, <2>11, <2>12 DEF SenderOwned
<1> QED BY <1>2, <1>3

\* What pop_front does to the queues of a map: the others stay, and of this one
\* all but the head.
LEMMA PopFrontElements ==
    ASSUME NEW V, NEW f, NEW k \in DOMAIN f, f[k] \in Seq(V), f[k] # <<>>,
           NEW g, g = PopFront(f, k)
    PROVE  /\ \A x : x \in DOMAIN g => x \in DOMAIN f
           /\ \A x \in DOMAIN f : x # k => x \in DOMAIN g /\ g[x] = f[x]
           /\ k \in DOMAIN g => /\ DOMAIN g[k] = 1 .. Len(f[k]) - 1
                                /\ \A i \in 1 .. Len(f[k]) - 1 : g[k][i] = f[k][i + 1]
           /\ k \notin DOMAIN g => Len(f[k]) = 1
<1>1. /\ Len(f[k]) \in Nat \ {0}
      /\ Tail(f[k]) \in Seq(V) /\ Len(Tail(f[k])) = Len(f[k]) - 1
      /\ \A i \in 1 .. Len(f[k]) - 1 : Tail(f[k])[i] = f[k][i + 1]
  BY HeadTailProperties, LenProperties, EmptySeq
<1>2. DOMAIN Tail(f[k]) = 1 .. Len(f[k]) - 1
  BY <1>1, LenProperties
<1>3. CASE Len(f[k]) > 1
  <2>1. g = Put(f, k, Tail(f[k]))
    BY <1>3 DEF PopFront
  <2> QED BY <1>1, <1>2, <2>1 DEF Put
<1>4. CASE ~(Len(f[k]) > 1)
  <2>1. g = Remove(f, k)
    BY <1>4 DEF PopFront
  <2> QED BY <1>1, <1>4, <2>1 DEF Remove
<1> QED BY <1>3, <1>4

\* Two facts of arithmetic.
LEMMA Below == ASSUME NEW m \in Nat, NEW n \in 0 .. m, n < m PROVE n # m
OBVIOUS

LEMMA Larger ==
    ASSUME NEW n \in Nat, NEW i \in 1 .. n, i # 1
    PROVE  i \in 2 .. n /\ n # 1
OBVIOUS

\* A signal takes the sender of the first waiter of its name, and no other.
LEMMA RaisedSender ==
    ASSUME IInv, SenderOwned, NEW e, IsEvent(e), EventRaised(e), SameTasks
    PROVE  /\ SenderOwned'
           /\ \A h \in Handles : tasks[h].tx # "held" => tasks'[h] = tasks[h]
<1> PICK k : k = to_lowercase(e.name)
  OBVIOUS
<1>0. /\ DOMAIN calls = Handles /\ DOMAIN tasks = Handles
      /\ Handles = 1 .. Len(calls) /\ Len(calls) \in Nat
      /\ \A h \in Handles : tasks[h] \in Task
      /\ \A id \in DOMAIN pending_tasks : pending_tasks[id] \in Handles
      /\ \A key \in DOMAIN pending_events :
            /\ pending_events[key] \in Seq(Handles) /\ pending_events[key] # <<>>
            /\ Len(pending_events[key]) \in Nat
            /\ DOMAIN pending_events[key] = 1 .. Len(pending_events[key])
            /\ \A i \in DOMAIN pending_events[key] : pending_events[key][i] \in Handles
  BY HandleTypes DEF Handles
<1>1. UNCHANGED <<calls, drained, pending_tasks>>
  BY DEF EventRaised
<1>2. CASE k \notin DOMAIN pending_events
  <2>1. UNCHANGED <<tasks, pending_events>>
    BY <1>2 DEF EventRaised
  <2>2. KeepsSenders
    BY <1>1, <2>1 DEF KeepsSenders
  <2> QED BY <2>1, <2>2, SendersKept
<1>3. CASE k \in DOMAIN pending_events
  <2> PICK h : h = pending_events[k][1]
    OBVIOUS
  <2> PICK g : g = PopFront(pending_events, k)
    OBVIOUS
  <2>0. Len(pending_events[k]) > 0 /\ 1 \in DOMAIN pending_events[k]
    <3>1. pending_events[k] \in Seq(Handles) /\ pending_events[k] # <<>>
      BY <1>0, <1>3
    <3>2. Len(pending_events[k]) # 0
      BY <3>1, EmptySeq
    <3> QED BY <1>0, <1>3, <3>2
  <2> PICK len : len = Len(pending_events[k])
    OBVIOUS
  <2>len. len \in Nat /\ len > 0 /\ DOMAIN pending_events[k] = 1 .. len
    BY <1>0, <1>3, <2>0
  <2>1. /\ h \in Handles /\ calls[h].kind = "signal" /\ calls[h].name = k
        /\ ~InChannel(h) /\ AwaitsSignal(h)
    BY <1>0, <1>3, <2>0 DEF SenderOwned, WaitersInOrder, AwaitsSignal
  <2>2. tasks[h].tx = "held"
    BY <1>0, <2>1 DEF SenderOwned, HeldIsOwned
  <2>3. /\ pending_events' = g
        /\ tasks' = [tasks EXCEPT ![h] = Send(tasks[h], e.value)]
    <3>1. Head(pending_events[k]) = h
      OBVIOUS
    <3> QED BY <1>3, <3>1 DEF EventRaised
  <2>4. /\ DOMAIN tasks' = Handles
        /\ \A j \in Handles : j # h => tasks'[j] = tasks[j]
        /\ tasks'[h].tx # "held"
    BY <1>0, <2>1, <2>2, <2>3, SenderGone DEF IsEvent
  <2>5. \A x : x \in DOMAIN g => x \in DOMAIN pending_events
    BY <1>0, <1>3, PopFrontElements
  <2>6. \A x \in DOMAIN pending_events : x # k => x \in DOMAIN g /\ g[x] = pending_events[x]
    BY <1>0, <1>3, PopFrontElements
  <2>7. k \in DOMAIN g =>
           /\ DOMAIN g[k] = 1 .. Len(pending_events[k]) - 1
           /\ \A i \in 1 .. Len(pending_events[k]) - 1 : g[k][i] = pending_events[k][i + 1]
    BY <1>0, <1>3, PopFrontElements
  <2>8. k \notin DOMAIN g => Len(pending_events[k]) = 1
    BY <1>0, <1>3, PopFrontElements
  <2>9. ASSUME NEW i \in 2 .. Len(pending_events[k])
        PROVE  h < pending_events[k][i]
    BY <1>0, <1>3, <2>9 DEF SenderOwned, WaitersInOrder
  <2>10. \A j \in Handles : AwaitsSignal(j)' <=> AwaitsSignal(j) /\ j # h
    <3>1. ASSUME NEW x \in DOMAIN g, NEW i \in DOMAIN g[x]
          PROVE  /\ g[x][i] # h
                 /\ x \in DOMAIN pending_events
                 /\ \E n \in DOMAIN pending_events[x] : pending_events[x][n] = g[x][i]
      <4>1. CASE x = k
        <5>1. i \in 1 .. Len(pending_events[k]) - 1 /\ g[x][i] = pending_events[k][i + 1]
          BY <2>7, <3>1, <4>1
        <5>2. i + 1 \in 2 .. Len(pending_events[k]) /\ i + 1 \in DOMAIN pending_events[k]
          BY <1>0, <1>3, <5>1
        <5>3. pending_events[k][i + 1] \in Handles /\ h < pending_events[k][i + 1]
          BY <1>0, <1>3, <2>9, <5>2
        <5> QED BY <1>0, <1>3, <2>1, <4>1, <5>1, <5>2, <5>3, SMTT(30)
      <4>2. CASE x # k
        <5>1. x \in DOMAIN pending_events /\ g[x] = pending_events[x]
          BY <2>5, <2>6, <3>1, <4>2
        <5>2. calls[g[x][i]].name = x
          BY <3>1, <5>1 DEF SenderOwned, WaitersInOrder
        <5> QED BY <2>1, <3>1, <4>2, <5>1, <5>2
      <4> QED BY <4>1, <4>2
    <3>2. ASSUME NEW x \in DOMAIN pending_events, NEW i \in DOMAIN pending_events[x],
                 pending_events[x][i] # h
          PROVE  x \in DOMAIN g /\ \E n \in DOMAIN g[x] : g[x][n] = pending_events[x][i]
      <4>1. CASE x = k
        <5>1. i \in 1 .. len /\ i # 1
          BY <2>len, <3>2, <4>1
        <5>2. i \in 2 .. len /\ len # 1
          BY <2>len, <5>1, Larger
        <5>3. k \in DOMAIN g
          BY <2>8, <5>2
        <5>4. i - 1 \in 1 .. len - 1
          BY <2>len, <5>2
        <5>5. g[k][i - 1] = pending_events[k][(i - 1) + 1] /\ i - 1 \in DOMAIN g[k]
          BY <2>7, <5>3, <5>4
        <5>6. (i - 1) + 1 = i
          BY <2>len, <5>2
        <5> QED BY <4>1, <5>3, <5>5, <5>6
      <4>2. CASE x # k
        BY <2>6, <3>2, <4>2
      <4> QED BY <4>1, <4>2
    <3> QED BY <2>3, <3>1, <3>2 DEF AwaitsSignal
  <2>11. \A j : AwaitsResult(j)' <=> AwaitsResult(j)
    BY <1>1 DEF AwaitsResult
  <2>12. ~AwaitsResult(h)
    BY <2>1 DEF AwaitsResult, SenderOwned, TasksOfCalls, TaskKinds
  <2>13. \A j \in Handles : (InChannel(j)' <=> InChannel(j)) /\ (InFlight(j)' <=> InFlight(j))
    BY <1>1 DEF InChannel, InFlight, SameTasks
  <2>14. HeldIsOwned'
    <3> SUFFICES ASSUME NEW j \in Handles
                 PROVE  tasks'[j].tx = "held" <=>
                            InFlight(j)' \/ AwaitsResult(j)' \/ AwaitsSignal(j)'
      BY <2>4 DEF HeldIsOwned
    <3>1. CASE j = h
      BY <2>1, <2>4, <2>10, <2>11, <2>12, <2>13, <3>1 DEF InFlight
    <3>2. CASE j # h
      <4>1. tasks[j].tx = "held" <=> InFlight(j) \/ AwaitsResult(j) \/ AwaitsSignal(j)
        BY <1>0 DEF SenderOwned, HeldIsOwned
      <4> QED BY <2>4, <2>10, <2>11, <2>13, <3>2, <4>1
    <3> QED BY <3>1, <3>2
  <2>15. TasksOfCalls'
    BY <1>0, <1>1, <2>13 DEF SenderOwned, TasksOfCalls
  <2>16. WaitersInOrder'
    <3> SUFFICES ASSUME NEW x \in DOMAIN g, NEW i \in DOMAIN g[x], NEW j, j = g[x][i]
                 PROVE  /\ calls[j].kind = "signal" /\ calls[j].name = x /\ ~InChannel(j)'
                        /\ \A n \in 1 .. i - 1 : g[x][n] < j
      BY <1>1, <2>3 DEF WaitersInOrder
    <3>1. CASE x # k
      <4>1. x \in DOMAIN pending_events /\ g[x] = pending_events[x]
        BY <2>5, <2>6, <3>1
      <4>2. i \in DOMAIN pending_events[x] /\ j = pending_events[x][i] /\ j \in Handles
        BY <1>0, <4>1
      <4>3. /\ calls[j].kind = "signal" /\ calls[j].name = x /\ ~InChannel(j)
            /\ \A n \in 1 .. i - 1 : pending_events[x][n] < j
        BY <1>0, <4>1, <4>2 DEF SenderOwned, WaitersInOrder
      <4> QED BY <2>13, <4>1, <4>2, <4>3
    <3>2. CASE x = k
      <4>1. i \in 1 .. Len(pending_events[k]) - 1 /\ j = pending_events[k][i + 1]
        BY <2>7, <3>2
      <4>2. i + 1 \in DOMAIN pending_events[k] /\ j \in Handles
        BY <1>0, <1>3, <4>1
      <4>3. /\ calls[j].kind = "signal" /\ calls[j].name = k /\ ~InChannel(j)
            /\ \A n \in 1 .. (i + 1) - 1 : pending_events[k][n] < j
        BY <1>3, <4>1, <4>2 DEF SenderOwned, WaitersInOrder
      <4>4. ASSUME NEW n \in 1 .. i - 1 PROVE g[x][n] < j
        <5>1. i \in 1 .. len - 1
          BY <4>1
        <5>2. n \in 1 .. len - 1 /\ n + 1 \in 1 .. (i + 1) - 1
          BY <2>len, <5>1
        <5> QED BY <2>7, <3>2, <4>3, <5>2
      <4> QED BY <2>13, <3>2, <4>2, <4>3, <4>4
    <3> QED BY <3>1, <3>2
  <2> QED BY <2>2, <2>4, <2>14, <2>15, <2>16 DEF SenderOwned
<1> QED BY <1>2, <1>3

\* Returning at the first poll drops every sender that there is: nothing was
\* drained yet.
LEMMA ReturnedSenders ==
    ASSUME IInv, SenderOwned, OnceStarted, ReturnAtOnce, SameTasks
    PROVE  /\ SenderOwned'
           /\ \A h \in Handles : tasks[h].tx # "held" => tasks'[h] = tasks[h]
<1>1. /\ fn = "none" /\ UNCHANGED <<calls, pending_tasks, pending_events>>
      /\ drained' = Len(calls)
      /\ tasks' = [h \in DOMAIN tasks |-> DropSender(tasks[h])]
  BY DEF ReturnAtOnce, ctx, OnceStarted
<1>2. DOMAIN pending_tasks = {} /\ DOMAIN pending_events = {}
  BY <1>1 DEF OnceStarted
<1>3. /\ DOMAIN tasks = Handles /\ DOMAIN calls = Handles /\ Handles = 1 .. Len(calls)
      /\ Len(calls) \in Nat /\ \A h \in Handles : tasks[h] \in Task
  BY HandleTypes DEF Handles
<1>4. \A h \in Handles : tasks'[h].tx # "held"
  BY <1>1, <1>3 DEF DropSender, Task
<1>5. \A h \in Handles : ~InFlight(h)'
  BY <1>1, <1>3 DEF InFlight, InChannel
<1>6. HeldIsOwned'
  BY <1>1, <1>2, <1>3, <1>4, <1>5 DEF HeldIsOwned, AwaitsResult, AwaitsSignal
<1>7. TasksOfCalls' /\ WaitersInOrder'
  BY <1>1, <1>2 DEF TasksOfCalls, WaitersInOrder
<1>8. \A h \in Handles : tasks[h].tx # "held" => tasks'[h] = tasks[h]
  BY <1>1, <1>3 DEF DropSender
<1> QED BY <1>6, <1>7, <1>8 DEF SenderOwned

\* Polling a task, and dropping its future, leaves its sender alone.
LEMMA PolledSenders ==
    ASSUME IInv, TaskReady \/ TaskPending \/ TaskForsaken \/ TaskIgnored \/ TaskPanics
                 \/ PolledAgain \/ FinishStep \/ Block
                 \/ Complete \/ ReturnIgnored
    PROVE  /\ KeepsSenders
           /\ \A h \in Handles : tasks'[h].value = tasks[h].value
<1>0. CallsOK /\ PositionOK /\ DOMAIN tasks = Handles /\ \A h \in Handles : tasks[h] \in Task
  BY HandleTypes DEF IInv, TypeOK
<1>1. SameTasks /\ calls' = calls
  BY PollTasks
<1>2. UNCHANGED <<drained, pending_tasks, pending_events>>
  BY DEF TaskReady, TaskPending, TaskForsaken, TaskIgnored, TaskPanics, PolledAgain, FinishStep,
         Block, Complete, ReturnIgnored, ctx, queues
<1>3. ASSUME NEW h \in Handles
      PROVE  tasks'[h].tx = tasks[h].tx /\ tasks'[h].value = tasks[h].value
  <2>1. CASE TaskReady \/ TaskForsaken
    <3> PICK call : call = ThisCall
      OBVIOUS
    <3>1. \/ tasks' = [tasks EXCEPT ![call] = Take(tasks[call])]
          \/ tasks' = [tasks EXCEPT ![call] = Fail(tasks[call])]
      BY <2>1 DEF TaskReady, TaskForsaken
    <3> QED BY <1>0, <1>3, <3>1 DEF Take, Fail, Task
  <2>2. CASE FinishStep
    <3>1. tasks' = [i \in DOMAIN tasks |-> IF i > base THEN DropFuture(tasks[i]) ELSE tasks[i]]
      BY <2>2 DEF FinishStep
    <3>2. tasks'[h] \in {tasks[h], DropFuture(tasks[h])}
      BY <1>0, <1>3, <3>1
    <3> QED BY <1>0, <1>3, <3>2 DEF DropFuture, Unfinished, Task
  <2>3. CASE TaskPending \/ TaskIgnored \/ TaskPanics \/ PolledAgain \/ Block \/ Complete
             \/ ReturnIgnored
    <3>1. tasks' = tasks
      BY <2>3 DEF TaskPending, TaskIgnored, TaskPanics, PolledAgain, Block, Complete,
                  ReturnIgnored, called
    <3> QED BY <3>1
  <2> QED BY <2>1, <2>2, <2>3
<1> QED BY <1>1, <1>2, <1>3 DEF KeepsSenders

\* A task without a sender keeps what it has.
TaskStays(h) ==
    /\ h \in DOMAIN tasks'
    /\ tasks[h].tx # "held" => tasks'[h].tx = tasks[h].tx /\ tasks'[h].value = tasks[h].value

\* Every step leaves each sender in one place, and the others alone.
LEMMA SenderStep ==
    ASSUME SInv, AnyStep
    PROVE  SenderOwned' /\ \A h \in DOMAIN tasks : TaskStays(h)
<1>0. IInv /\ SenderOwned /\ OnceStarted /\ NumberedInOrder /\ NoneOnTheSpot
  BY DEF SInv
<1>1. /\ DOMAIN tasks = Handles /\ Handles = 1 .. Len(calls) /\ Len(calls) \in Nat
      /\ Len(tasks) = Len(calls)
  BY <1>0, HandleTypes DEF Handles, IInv, TypeOK, CallsOK
<1>2. ASSUME SameTasks
      PROVE  DOMAIN tasks' = Handles
  BY <1>1, <1>2, LenProperties DEF SameTasks
<1>3. ASSUME KeepsSenders, \A h \in Handles : tasks'[h].value = tasks[h].value
      PROVE  SenderOwned' /\ \A h \in DOMAIN tasks : TaskStays(h)
  <2>1. SenderOwned'
    BY <1>0, <1>3, SendersKept
  <2>2. DOMAIN tasks' = Handles
    BY <1>2, <1>3 DEF KeepsSenders
  <2> QED BY <1>1, <1>3, <2>1, <2>2 DEF KeepsSenders, TaskStays
<1>4. ASSUME UNCHANGED <<calls, tasks, drained, pending_tasks, pending_events>>
      PROVE  SenderOwned' /\ \A h \in DOMAIN tasks : TaskStays(h)
  <2>1. SameTasks
    BY <1>0, <1>4, NoTask DEF IInv, TypeOK
  <2> QED BY <1>3, <1>4, <2>1 DEF KeepsSenders
<1>5. ASSUME NEW call, NEW task, NewCall(call, task), task.tx = "held" <=> ~task.completed,
             UNCHANGED <<pending_tasks, pending_events>>
      PROVE  SenderOwned' /\ \A h \in DOMAIN tasks : TaskStays(h)
  <2>1. SenderOwned'
    BY <1>0, <1>5, NewSender
  <2>2. /\ tasks' \in Seq(Task) /\ Len(tasks') = Len(calls) + 1
        /\ \A h \in Handles : tasks'[h] = tasks[h]
    BY <1>0, <1>5, NewCallOK DEF IInv, TypeOK
  <2>3. \A h \in Handles : h \in DOMAIN tasks'
    BY <1>1, <2>2, LenProperties
  <2> QED BY <1>1, <2>1, <2>2, <2>3 DEF TaskStays
<1>6. CASE create_timer \/ call_activity \/ call_sub_orchestrator
  <2>1. \E kind \in TaskKinds : Schedule(kind)
    BY <1>6 DEF create_timer, call_activity, call_sub_orchestrator, TaskKinds
  <2>2. \E call \in Call : NewCall(call, NewTask)
    BY <1>0, <2>1, ScheduleCalls
  <2>3. UNCHANGED <<pending_tasks, pending_events>>
    BY <2>1 DEF Schedule, ctx
  <2>4. NewTask.tx = "held" <=> ~NewTask.completed
    BY DEF NewTask
  <2> QED BY <1>5, <2>2, <2>3, <2>4
<1>7. CASE await_signal_event
  <2>1. UNCHANGED <<drained, pending_tasks, pending_events>>
    BY <1>7 DEF await_signal_event
  <2>2. CASE UNCHANGED <<calls, tasks>>
    BY <1>4, <2>1, <2>2
  <2>3. CASE \E call, task : /\ NewCall(call, task)
                             /\ task.tx = "held" <=> ~task.completed
    BY <1>5, <2>1, <2>3
  <2> QED BY <1>0, <1>7, <2>2, <2>3, SignalCalls
<1>8. CASE TaskReady \/ TaskPending \/ TaskForsaken \/ TaskIgnored \/ TaskPanics
           \/ PolledAgain \/ FinishStep \/ Block
           \/ Complete \/ ReturnIgnored
  BY <1>0, <1>3, <1>8, PolledSenders
<1>9. CASE ReturnAtOnce
  <2>1. SameTasks
    BY <1>0, <1>9, PollTasks
  <2> QED BY <1>0, <1>1, <1>2, <1>9, <2>1, ReturnedSenders DEF TaskStays
<1>10. CASE DrainTask \/ DrainWaiter
  <2>1. tasks' = tasks
    BY <1>10 DEF DrainTask, DrainWaiter, called
  <2> QED BY <1>0, <1>10, <2>1, DrainedTask, DrainedWaiter DEF TaskStays
<1>11. CASE NextEvent \/ get_actions
  <2>1. UNCHANGED <<calls, tasks, drained, pending_tasks, pending_events>>
    BY <1>11 DEF NextEvent, get_actions, called, ctx
  <2> QED BY <1>4, <2>1
<1>12. ASSUME NEW e, IsEvent(e), process_event(e)
       PROVE  SenderOwned' /\ \A h \in DOMAIN tasks : TaskStays(h)
  <2>1. SameTasks /\ UNCHANGED <<calls, drained>>
    BY <1>0, <1>12, EventTasks
  <2>2. ASSUME SenderOwned', \A h \in Handles : tasks[h].tx # "held" => tasks'[h] = tasks[h]
        PROVE  SenderOwned' /\ \A h \in DOMAIN tasks : TaskStays(h)
    BY <1>1, <1>2, <2>1, <2>2 DEF TaskStays
  <2>3. CASE EventRaised(e)
    BY <1>0, <1>12, <2>1, <2>2, <2>3, RaisedSender
  <2>4. CASE Unblock(e)
    BY <1>0, <1>12, <2>1, <2>2, <2>4, UnblockedSender DEF IsEvent
  <2>5. CASE ~EventRaised(e) /\ ~Unblock(e)
    <3>1. UNCHANGED <<tasks, pending_tasks, pending_events>>
      BY <1>12, <2>5 DEF process_event, ExecutionStarted, ExecutionCompleted,
                  ExecutionTerminated, IgnoredEvent, TaskScheduled, TimerCreated,
                  SubOrchestrationInstanceCreated, Acknowledge, TaskCompleted, TimerFired,
                  TaskFailed, SubOrchestrationInstanceCompleted,
                  SubOrchestrationInstanceFailed, UnblockAndPoll, called, ctx, queues
    <3> QED BY <1>4, <2>1, <3>1
  <2> QED BY <2>3, <2>4, <2>5
<1> QED BY <1>6, <1>7, <1>8, <1>9, <1>10, <1>11, <1>12 DEF AnyStep, Execute, Poll

-----------------------------------------------------------------------------
(* The ids.                                                                *)

\* What a step does to the calls: none, a call of a signal, or one that takes
\* the next id.
LEMMA CallCases ==
    ASSUME IInv, AnyStep
    PROVE  \/ SameTasks /\ UNCHANGED <<calls, octx_sequence_number>>
           \/ \E call \in Call, task \in Task :
                 /\ NewCall(call, task) /\ Polling /\ task.tx # "sent"
                 /\ task.completed =>
                       /\ call.name \in DOMAIN received_events
                       /\ task.value = Head(received_events[call.name])
                 /\ \/ /\ call.kind = "signal"
                       /\ octx_sequence_number' = octx_sequence_number
                    \/ /\ call.kind \in TaskKinds /\ ~task.completed
                       /\ call.id = octx_sequence_number + 1
                       /\ octx_sequence_number' = octx_sequence_number + 1
<1>0. CallsOK
  BY DEF IInv, TypeOK
<1>1. CASE create_timer \/ call_activity \/ call_sub_orchestrator
  <2>1. PICK kind \in TaskKinds : Schedule(kind)
    BY <1>1 DEF create_timer, call_activity, call_sub_orchestrator, TaskKinds
  <2>2. NewTask \in Task /\ ~NewTask.completed /\ NewTask.tx = "held"
    BY DEF NewTask, Task, Option
  <2>3. Polling
    BY <2>1 DEF Schedule, Uncalled, InStep
  <2> QED BY <2>1, <2>2, <2>3, ScheduleCalls
<1>2. CASE await_signal_event
  <2>1. CASE UNCHANGED <<calls, tasks, drained, octx_sequence_number, sequence_number>>
    BY <1>0, <2>1, NoTask
  <2>2. Polling
    BY <1>2 DEF await_signal_event, Uncalled, InStep
  <2> QED BY <1>2, <2>1, <2>2, SignalCalls
<1>3. CASE TaskReady \/ TaskPending \/ TaskForsaken \/ TaskIgnored \/ TaskPanics
           \/ PolledAgain \/ FinishStep \/ Block
           \/ Complete \/ ReturnAtOnce \/ ReturnIgnored
  BY <1>3, PollTasks
<1>4. CASE DrainTask \/ DrainWaiter \/ NextEvent \/ get_actions
  <2>1. UNCHANGED <<calls, tasks, octx_sequence_number>>
    BY <1>4 DEF DrainTask, DrainWaiter, NextEvent, get_actions, called
  <2> QED BY <1>0, <2>1, NoTask
<1>5. ASSUME NEW e, IsEvent(e), process_event(e)
      PROVE  SameTasks /\ UNCHANGED <<calls, octx_sequence_number>>
  BY <1>5, EventTasks
<1> QED BY <1>1, <1>2, <1>3, <1>4, <1>5 DEF AnyStep, Execute, Poll

\* Ids go up by one from call to call, and only signals are completed on the
\* spot.
LEMMA NumbersStep ==
    ASSUME SInv, AnyStep
    PROVE  NumberedInOrder' /\ NoneOnTheSpot'
<1>0. IInv /\ NumberedInOrder /\ NoneOnTheSpot
  BY DEF SInv
<1>1. /\ DOMAIN calls = Handles /\ Handles = 1 .. Len(calls) /\ Len(calls) \in Nat
      /\ octx_sequence_number \in Nat
  BY <1>0, HandleTypes DEF Handles
<1>2. CASE SameTasks /\ UNCHANGED <<calls, octx_sequence_number>>
  BY <1>0, <1>1, <1>2 DEF SameTasks, NumberedInOrder, NoneOnTheSpot, TaskCalls
<1>3. ASSUME NEW call \in Call, NEW task \in Task, NewCall(call, task),
             \/ call.kind = "signal" /\ octx_sequence_number' = octx_sequence_number
             \/ /\ call.kind \in TaskKinds /\ ~task.completed
                /\ call.id = octx_sequence_number + 1
                /\ octx_sequence_number' = octx_sequence_number + 1
      PROVE  NumberedInOrder' /\ NoneOnTheSpot'
  <2> PICK new : new = Len(calls) + 1
    OBVIOUS
  <2>1. /\ DOMAIN calls' = Handles \cup {new} /\ new \notin Handles
        /\ \A h \in Handles : calls'[h] = calls[h] /\ tasks'[h] = tasks[h] /\ h < new
        /\ calls'[new] = call /\ tasks'[new] = task
    <3>1. /\ calls' \in Seq(Call) /\ Len(calls') = new
          /\ \A h \in Handles : calls'[h] = calls[h] /\ tasks'[h] = tasks[h]
          /\ calls'[new] = call /\ tasks'[new] = task
      BY <1>0, <1>3, NewCallOK DEF IInv, TypeOK
    <3>2. DOMAIN calls' = 1 .. new
      BY <3>1, LenProperties
    <3> QED BY <1>1, <3>1, <3>2
  <2>2. CASE call.kind = "signal" /\ octx_sequence_number' = octx_sequence_number
    <3>1. TaskCalls' = TaskCalls
      BY <1>1, <2>1, <2>2 DEF TaskCalls, TaskKinds
    <3>2. \A h \in TaskCalls : h \in Handles
      BY <1>1 DEF TaskCalls
    <3>3. NumberedInOrder'
      BY <1>0, <2>1, <2>2, <3>1, <3>2 DEF NumberedInOrder
    <3>4. NoneOnTheSpot'
      BY <1>0, <2>1, <3>1, <3>2 DEF NoneOnTheSpot
    <3> QED BY <3>3, <3>4
  <2>3. CASE /\ call.kind \in TaskKinds /\ ~task.completed
             /\ call.id = octx_sequence_number + 1
             /\ octx_sequence_number' = octx_sequence_number + 1
    <3>1. TaskCalls' = TaskCalls \cup {new}
      BY <1>1, <2>1, <2>3 DEF TaskCalls
    <3>2. \A h \in TaskCalls : h \in Handles
      BY <1>1 DEF TaskCalls
    <3>3. NoneOnTheSpot'
      BY <1>0, <2>1, <2>3, <3>1, <3>2 DEF NoneOnTheSpot
    <3>4. ASSUME NEW h \in TaskCalls'
          PROVE  calls'[h].id \in 1 .. octx_sequence_number'
      BY <1>0, <1>1, <2>1, <2>3, <3>1, <3>2 DEF NumberedInOrder
    <3>5. ASSUME NEW g \in TaskCalls', NEW h \in TaskCalls', g < h
          PROVE  calls'[g].id < calls'[h].id
      <4>1. g \in Handles \cup {new} /\ h \in Handles \cup {new}
        BY <3>1, <3>2
      <4>2. g \in TaskCalls /\ g \in Handles
        BY <1>1, <2>1, <3>1, <3>2, <3>5, <4>1
      <4>3. CASE h = new
        <5>1. calls'[g].id \in 1 .. octx_sequence_number
          BY <1>0, <2>1, <4>2 DEF NumberedInOrder
        <5> QED BY <1>1, <2>1, <2>3, <4>3, <5>1
      <4>4. CASE h # new
        <5>1. h \in TaskCalls /\ h \in Handles
          BY <3>1, <3>2, <4>4
        <5> QED BY <1>0, <2>1, <3>5, <4>2, <5>1 DEF NumberedInOrder
      <4> QED BY <4>3, <4>4
    <3>6. ASSUME NEW n \in 1 .. octx_sequence_number'
          PROVE  \E h \in TaskCalls' : calls'[h].id = n
      <4>1. CASE n = octx_sequence_number + 1
        BY <2>1, <2>3, <3>1, <4>1
      <4>2. CASE n # octx_sequence_number + 1
        <5>1. n \in 1 .. octx_sequence_number
          BY <1>1, <2>3, <4>2
        <5>2. PICK h \in TaskCalls : calls[h].id = n
          BY <1>0, <5>1 DEF NumberedInOrder
        <5> QED BY <2>1, <3>1, <3>2, <5>2
      <4> QED BY <4>1, <4>2
    <3> QED BY <3>3, <3>4, <3>5, <3>6 DEF NumberedInOrder
  <2> QED BY <1>3, <2>2, <2>3
<1> QED BY <1>0, <1>2, <1>3, CallCases

\* An instance that has started stays started.
LEMMA StartedStep ==
    ASSUME IInv, AnyStep
    PROVE  HasStarted => HasStarted'
<1>0. HistoryOK
  BY DEF IInv, TypeOK
<1>1. CASE history' = history
  BY <1>1 DEF HasStarted
<1>2. ASSUME NEW e, IsEvent(e), history' = Append(history, e)
      PROVE  HasStarted => HasStarted'
  <2>1. \A i \in DOMAIN history : i \in DOMAIN history' /\ history'[i] = history[i]
    BY <1>0, <1>2, Recorded
  <2> QED BY <2>1 DEF HasStarted
<1> QED BY <1>1, <1>2, EventOrNone, EventTaken DEF AnyStep

\* Nothing happens before the start, and nobody waits without a future.
LEMMA OnceStartedStep ==
    ASSUME SInv, AnyStep
    PROVE  OnceStarted'
<1>0. /\ IInv /\ OnceStarted /\ Quiescent /\ DOMAIN calls = 1 .. Len(calls)
      /\ drained \in 0 .. Len(calls) /\ Len(calls) \in Nat
  BY HandleTypes DEF SInv, IInv, Handles
<1>1. HasStarted => HasStarted'
  BY <1>0, StartedStep
<1>2. ASSUME Polling, fn' = fn, pc' \in {pc, "panicked"},
             UNCHANGED <<drained, pending_tasks, pending_events>>
      PROVE  OnceStarted'
  BY <1>0, <1>1, <1>2 DEF OnceStarted, Polling
<1>3. CASE create_timer \/ call_activity \/ call_sub_orchestrator \/ await_signal_event
           \/ TaskReady \/ TaskPending \/ TaskForsaken \/ TaskIgnored \/ TaskPanics
           \/ PolledAgain \/ FinishStep
  <2>1. Polling /\ fn' = fn /\ pc' \in {pc, "panicked"}
    BY <1>3 DEF create_timer, call_activity, call_sub_orchestrator, Schedule, await_signal_event,
                TaskReady, TaskPending, TaskForsaken, TaskIgnored, TaskPanics, PolledAgain,
                FinishStep, future, Goto, Panic, Awaited, AtTask, Uncalled, InStep, AtStepEnd
  <2>2. UNCHANGED <<drained, pending_tasks, pending_events>>
    BY <1>3 DEF create_timer, call_activity, call_sub_orchestrator, Schedule, await_signal_event,
                TaskReady, TaskPending, TaskForsaken, TaskIgnored, TaskPanics, PolledAgain,
                FinishStep, ctx
  <2> QED BY <1>2, <2>1, <2>2
<1>4. CASE Block \/ Complete \/ ReturnIgnored
  <2>1. Polling /\ fn' # "none" /\ pc' = "drain"
    BY <1>4 DEF Block, Complete, ReturnIgnored, AtStepEnd, AtReturn, Goto
  <2> QED BY <1>0, <1>1, <2>1 DEF OnceStarted
<1>5. CASE ReturnAtOnce
  <2>1. /\ Polling /\ fn' = fn /\ pc = "first" /\ pc' = "drain" /\ drained' = Len(calls) /\ calls' = calls
        /\ UNCHANGED <<pending_tasks, pending_events>>
    BY <1>5 DEF ReturnAtOnce, AtReturn, Goto, future, ctx
  <2> QED BY <1>0, <1>1, <2>1 DEF OnceStarted
<1>6. CASE DrainTask \/ DrainWaiter
  <2>1. fn # "none" /\ fn' = fn /\ pc' = "drain" /\ calls # <<>>
    <3>1. fn' = fn /\ pc = "drain" /\ pc' = pc /\ drained < Len(calls)
      BY <1>6 DEF DrainTask, DrainWaiter, future
    <3>2. calls # <<>>
      BY <1>0, <3>1
    <3>4. drained # Len(calls)
      BY <1>0, <3>1, Below
    <3>3. fn # "none"
      BY <1>0, <3>1, <3>4 DEF OnceStarted
    <3> QED BY <3>1, <3>2, <3>3
  <2> QED BY <1>0, <1>1, <2>1 DEF OnceStarted
<1>7. CASE NextEvent \/ get_actions
  <2>1. /\ pc' \in {"event", "done"}
        /\ UNCHANGED <<fn, calls, pending_tasks, pending_events>>
    BY <1>7 DEF NextEvent, get_actions, Goto, future, called, ctx
  <2> QED BY <1>0, <1>1, <2>1 DEF OnceStarted, Polling
<1>8. ASSUME NEW e, IsEvent(e), StartsOnce(e), process_event(e) PROVE OnceStarted'
  <2>1. SameTasks /\ UNCHANGED <<calls, drained, fn>>
    BY <1>0, <1>8, EventTasks, EventControl
  <2>2. pc = "event" /\ drained = Len(calls)
    BY <1>0, <1>8, EventTaken DEF Quiescent
  <2>3. \E i \in DOMAIN history' : history'[i] = e
    BY <1>0, <1>8, EventTaken, Recorded DEF IInv, TypeOK
  <2>4. CASE e.type = "ExecutionStarted"
    <3>1. HasStarted'
      BY <2>3, <2>4 DEF HasStarted
    <3>2. fn = "none" /\ calls = <<>>
      BY <1>0, <1>8, <2>4 DEF StartsOnce, OnceStarted
    <3>4. drained' = 0
      BY <2>1, <2>2, <3>2
    <3>5. pc' \in {"first", "drain"}
      BY <1>8, <2>4 DEF process_event, ExecutionStarted, ExecutionCompleted,
                  ExecutionTerminated, IgnoredEvent, Ignored, TaskScheduled, TimerCreated,
                  SubOrchestrationInstanceCreated, TaskCompleted, TimerFired,
                  TaskFailed, SubOrchestrationInstanceCompleted,
                  SubOrchestrationInstanceFailed, EventRaised, UnblockAndPoll, Unblock, Goto
    <3>3. UNCHANGED <<pending_tasks, pending_events>>
      BY <1>8, <2>4 DEF process_event, ExecutionStarted, ExecutionCompleted,
                  ExecutionTerminated, IgnoredEvent, Ignored, TaskScheduled, TimerCreated,
                  SubOrchestrationInstanceCreated, TaskCompleted, TimerFired,
                  TaskFailed, SubOrchestrationInstanceCompleted,
                  SubOrchestrationInstanceFailed, EventRaised, ctx
    <3> QED BY <1>0, <2>1, <2>2, <3>1, <3>2, <3>3, <3>4, <3>5 DEF OnceStarted
  <2>5. CASE e.type # "ExecutionStarted"
    <3>1. pc' # "first"
      BY <1>8, <2>5, <2>2 DEF process_event, ExecutionStarted, ExecutionCompleted,
                  ExecutionTerminated, IgnoredEvent, TaskScheduled, TimerCreated,
                  SubOrchestrationInstanceCreated, Acknowledge, TaskCompleted, TimerFired,
                  TaskFailed, SubOrchestrationInstanceCompleted,
                  SubOrchestrationInstanceFailed, UnblockAndPoll, EventRaised, ThenPoll, Goto, Panic
    <3>2. pc' \in {"discard", "resume"} => fn = "pending"
      BY <1>8, <2>5, EventControl
    <3>3. CASE fn # "none"
      BY <1>0, <1>1, <2>1, <3>1, <3>2, <3>3 DEF OnceStarted, Polling
    <3>4. CASE fn = "none"
      <4>1. DOMAIN pending_tasks = {} /\ DOMAIN pending_events = {}
        BY <1>0, <3>4 DEF OnceStarted
      <4>2. \A x : x \in DOMAIN pending_tasks' => x \in DOMAIN pending_tasks
        <5>1. pending_tasks' = pending_tasks \/ pending_tasks' = Remove(pending_tasks, e.id)
          BY <1>8 DEF process_event, ExecutionStarted, ExecutionCompleted,
                  ExecutionTerminated, IgnoredEvent, TaskScheduled, TimerCreated,
                  SubOrchestrationInstanceCreated, Acknowledge, TaskCompleted, TimerFired,
                  TaskFailed, SubOrchestrationInstanceCompleted,
                  SubOrchestrationInstanceFailed, UnblockAndPoll, Unblock, EventRaised, ctx
        <5> QED BY <5>1 DEF Remove
      <4>3. pending_events' = pending_events
        BY <1>8, <4>1 DEF process_event, ExecutionStarted, ExecutionCompleted,
                  ExecutionTerminated, IgnoredEvent, TaskScheduled, TimerCreated,
                  SubOrchestrationInstanceCreated, Acknowledge, TaskCompleted, TimerFired,
                  TaskFailed, SubOrchestrationInstanceCompleted,
                  SubOrchestrationInstanceFailed, UnblockAndPoll, Unblock, EventRaised, ctx, queues
      <4> QED BY <1>0, <1>1, <2>1, <2>2, <3>1, <3>2, <3>4, <4>1, <4>2, <4>3
              DEF OnceStarted, Polling
    <3> QED BY <3>3, <3>4
  <2> QED BY <2>4, <2>5
<1> QED BY <1>3, <1>4, <1>5, <1>6, <1>7, <1>8 DEF AnyStep, Execute, Poll

-----------------------------------------------------------------------------
(* The theorems.                                                           *)

\* A context just made has no senders.
THEOREM InitSInv == Init => SInv
<1> SUFFICES ASSUME Init PROVE SInv
  OBVIOUS
<1>1. /\ calls = <<>> /\ tasks = <<>> /\ drained = 0 /\ history = <<>>
      /\ pc = "event" /\ fn = "none" /\ octx_sequence_number = 0
      /\ DOMAIN pending_tasks = {} /\ DOMAIN pending_events = {}
  BY EmptyMapIsMap DEF Init
<1>2. SenderOwned
  BY <1>1 DEF SenderOwned, HeldIsOwned, TasksOfCalls, WaitersInOrder
<1>3. NumberedInOrder /\ NoneOnTheSpot
  BY <1>1 DEF NumberedInOrder, NoneOnTheSpot, TaskCalls
<1>4. OnceStarted
  BY <1>1 DEF OnceStarted, HasStarted, Polling
<1> QED BY <1>2, <1>3, <1>4, InitIInv DEF SInv

\* Every step keeps it.
THEOREM StepSInv == SInv /\ (AnyStep \/ UNCHANGED vars) => SInv'
<1>1. ASSUME SInv, AnyStep PROVE SInv'
  BY <1>1, StepIInv, SenderStep, NumbersStep, OnceStartedStep DEF SInv
<1>2. ASSUME SInv, UNCHANGED vars PROVE SInv'
  <2>1. UNCHANGED <<history, pc, fn, calls, tasks, drained, octx_sequence_number,
                    pending_tasks, pending_events>>
    BY <1>2 DEF vars, future, called, ctx
  <2>2. IInv'
    BY <1>2, StepIInv DEF SInv
  <2> QED BY <1>2, <2>1, <2>2 DEF SInv, SenderOwned, HeldIsOwned, TasksOfCalls, WaitersInOrder,
            InFlight, InChannel, AwaitsResult, AwaitsSignal, NumberedInOrder, NoneOnTheSpot,
            TaskCalls, OnceStarted, HasStarted, Polling
<1> QED BY <1>1, <1>2

\* So every run of the executor has it.
THEOREM SendersInvariance == Spec => []SInv
<1>1. SInv /\ [Next]_vars => SInv'
  BY StepSInv, NextIsAnyStep
<1> QED BY InitSInv, <1>1, PTL DEF Spec

\* A task that can still be completed has its sender in exactly one place, and
\* the waiters of a name stand in the order of their calls.
THEOREM EverySenderOwned == Spec => []SenderOwned
<1>1. SInv => SenderOwned
  BY DEF SInv
<1> QED BY SendersInvariance, <1>1, PTL

-----------------------------------------------------------------------------
(* Values and actions.                                                     *)

\* What has happened stays in the history.
LEMMA HistoryGrows ==
    ASSUME IInv, AnyStep
    PROVE  \A i \in DOMAIN history : i \in DOMAIN history' /\ history'[i] = history[i]
<1>0. HistoryOK
  BY DEF IInv, TypeOK
<1>1. CASE history' = history
  BY <1>1
<1>2. ASSUME NEW e, IsEvent(e), history' = Append(history, e)
      PROVE  \A i \in DOMAIN history : i \in DOMAIN history' /\ history'[i] = history[i]
  BY <1>0, <1>2, Recorded
<1> QED BY <1>1, <1>2, EventOrNone, EventTaken DEF AnyStep

\* A call made stays the call it was; a new one is still in the channel.
LEMMA CallsGrow ==
    ASSUME IInv, AnyStep, ~ReturnAtOnce
    PROVE  /\ \A h \in DOMAIN calls : h \in DOMAIN calls' /\ calls'[h] = calls[h]
           /\ \A h \in DOMAIN calls' : h \in DOMAIN calls \/ InChannel(h)'
<1>0. /\ DOMAIN calls = Handles /\ Handles = 1 .. Len(calls) /\ Len(calls) \in Nat
      /\ drained \in 0 .. Len(calls) /\ CallsOK
  BY HandleTypes DEF Handles, IInv, TypeOK
<1>1. CASE calls' = calls
  BY <1>1
<1>2. ASSUME NEW call, NEW task, NewCall(call, task)
      PROVE  /\ \A h \in DOMAIN calls : h \in DOMAIN calls' /\ calls'[h] = calls[h]
             /\ \A h \in DOMAIN calls' : h \in DOMAIN calls \/ InChannel(h)'
  <2>1. /\ calls' \in Seq(Call) /\ Len(calls') = Len(calls) + 1
        /\ \A h \in Handles : calls'[h] = calls[h]
    BY <1>0, <1>2, NewCallOK
  <2>2. DOMAIN calls' = 1 .. Len(calls) + 1
    BY <2>1, LenProperties
  <2>3. drained' = drained
    BY <1>2 DEF NewCall
  <2> QED BY <1>0, <2>1, <2>2, <2>3 DEF InChannel
<1> QED BY <1>1, <1>2, CallCases

-----------------------------------------------------------------------------
(* The values.                                                             *)

\* Send gives the task the value, or drops the sender; dropping it gives none.
LEMMA SentOrDropped ==
    ASSUME NEW t \in Task, NEW v \in Option
    PROVE  /\ \/ Send(t, v).tx = "sent" /\ Send(t, v).value = v
              \/ Send(t, v).tx = "dropped" /\ Send(t, v).value = t.value
           /\ DropSender(t).tx \in {t.tx, "dropped"} /\ DropSender(t).value = t.value
BY DEF Task, Send, Accepts, DropSender

\* A task gets a value from an event about its call, and from nothing else.
LEMMA TaskCases ==
    ASSUME SInv, AnyStep, SameTasks, NEW h \in Handles
    PROVE  \/ tasks'[h].tx \in {tasks[h].tx, "dropped"} /\ tasks'[h].value = tasks[h].value
           \/ \E e : /\ IsEvent(e) /\ history' = Append(history, e)
                     /\ About(e, calls[h]) /\ e.value = tasks'[h].value
<1> DEFINE Kept  == tasks'[h].tx \in {tasks[h].tx, "dropped"} /\ tasks'[h].value = tasks[h].value
           Given(e) == /\ IsEvent(e) /\ history' = Append(history, e)
                       /\ About(e, calls[h]) /\ e.value = tasks'[h].value
<1>0. /\ IInv /\ SenderOwned /\ CallsOK /\ DOMAIN tasks = Handles /\ \A g \in Handles : tasks[g] \in Task
      /\ DOMAIN calls = Handles /\ Len(calls) \in Nat
      /\ \A id \in DOMAIN pending_tasks : pending_tasks[id] \in Handles
      /\ \A key \in DOMAIN pending_events :
            /\ pending_events[key] \in Seq(Handles) /\ pending_events[key] # <<>>
            /\ DOMAIN pending_events[key] = 1 .. Len(pending_events[key])
            /\ Len(pending_events[key]) \in Nat
            /\ \A i \in DOMAIN pending_events[key] : pending_events[key][i] \in Handles
  BY HandleTypes DEF SInv, IInv, TypeOK
<1>1. CASE tasks' = tasks
  BY <1>1
<1>2. CASE create_timer \/ call_activity \/ call_sub_orchestrator \/ await_signal_event
  <2>1. ASSUME NEW task, tasks' = Append(tasks, task) PROVE FALSE
    <3>1. tasks \in Seq(Task) /\ tasks' \in Seq(Task) /\ Len(tasks') = Len(tasks) /\ Len(tasks) \in Nat
      BY <1>0 DEF SameTasks, CallsOK
    <3>2. DOMAIN tasks' = 1 .. Len(tasks)
      BY <3>1, LenProperties
    <3>3. Len(tasks) + 1 \in DOMAIN Append(tasks, task)
      BY <3>1
    <3> QED BY <2>1, <3>1, <3>2, <3>3
  <2>2. \E task : tasks' = Append(tasks, task) \/ tasks' = tasks
    BY <1>2 DEF create_timer, call_activity, call_sub_orchestrator, Schedule, await_signal_event
  <2> QED BY <1>1, <2>1, <2>2
<1>3. CASE TaskReady \/ TaskPending \/ TaskForsaken \/ TaskIgnored \/ TaskPanics
           \/ PolledAgain \/ FinishStep \/ Block
           \/ Complete \/ ReturnIgnored
  BY <1>0, <1>3, PolledSenders DEF KeepsSenders
<1>4. CASE ReturnAtOnce
  <2>1. tasks' = [g \in DOMAIN tasks |-> DropSender(tasks[g])]
    BY <1>4 DEF ReturnAtOnce
  <2> QED BY <1>0, <2>1 DEF DropSender, Task
<1>5. CASE DrainTask \/ DrainWaiter \/ NextEvent \/ get_actions
  BY <1>1, <1>5 DEF DrainTask, DrainWaiter, NextEvent, get_actions, called
<1>6. ASSUME NEW e, IsEvent(e), process_event(e)
      PROVE  Kept \/ Given(e)
  <2>0. history' = Append(history, e) /\ e.value \in Option
    BY <1>6, EventTaken DEF IsEvent
  <2>1. CASE EventRaised(e) /\ to_lowercase(e.name) \in DOMAIN pending_events
    <3> PICK k : k = to_lowercase(e.name)
      OBVIOUS
    <3> PICK w : w = pending_events[k][1]
      OBVIOUS
    <3>1. 1 \in DOMAIN pending_events[k]
      <4>1. pending_events[k] \in Seq(Handles) /\ pending_events[k] # <<>>
        BY <1>0, <2>1
      <4>2. Len(pending_events[k]) # 0
        BY <4>1, EmptySeq
      <4> QED BY <1>0, <2>1, <4>2
    <3>2. w \in Handles /\ calls[w].kind = "signal" /\ calls[w].name = k
      BY <1>0, <2>1, <3>1 DEF SenderOwned, WaitersInOrder
    <3>3. tasks' = [tasks EXCEPT ![w] = Send(tasks[w], e.value)]
      <4>1. Head(pending_events[k]) = w
        OBVIOUS
      <4> QED BY <2>1, <4>1 DEF EventRaised
    <3>4. About(e, calls[w])
      BY <2>1, <3>2 DEF About, RaisedFor, EventRaised
    <3> QED BY <1>0, <1>6, <2>0, <3>2, <3>3, <3>4, SentOrDropped
  <2>2. CASE Unblock(e) /\ e.id \in DOMAIN pending_tasks
    <3> PICK w : w = pending_tasks[e.id]
      OBVIOUS
    <3>1. w \in Handles /\ calls[w].kind \in TaskKinds /\ calls[w].id = e.id
      BY <1>0, <2>2 DEF SenderOwned, TasksOfCalls
    <3>2. e.type \in Resolved
      BY <1>6, <2>2, <1>0 DEF process_event, ExecutionStarted, ExecutionCompleted,
                  ExecutionTerminated, IgnoredEvent, TaskScheduled, TimerCreated,
                  SubOrchestrationInstanceCreated, Acknowledge, TaskCompleted, TimerFired,
                  TaskFailed, SubOrchestrationInstanceCompleted, Unblock, Remove,
                  SubOrchestrationInstanceFailed, EventRaised, Resolved, called, ctx
    <3>3. CASE e.value = None
      <4>1. tasks' = [tasks EXCEPT ![w] = DropSender(tasks[w])]
        BY <2>2, <3>3 DEF Unblock
      <4> QED BY <1>0, <2>0, <3>1, <4>1, SentOrDropped
    <3>4. CASE e.value # None
      <4>1. tasks' = [tasks EXCEPT ![w] = Send(tasks[w], e.value)]
        BY <2>2, <3>4 DEF Unblock
      <4>2. About(e, calls[w])
        BY <3>1, <3>2, <3>4 DEF About, TaskKinds
      <4> QED BY <1>0, <1>6, <2>0, <3>1, <4>1, <4>2, SentOrDropped
    <3> QED BY <3>3, <3>4
  <2>3. CASE /\ ~(EventRaised(e) /\ to_lowercase(e.name) \in DOMAIN pending_events)
             /\ ~(Unblock(e) /\ e.id \in DOMAIN pending_tasks)
    <3>1. tasks' = tasks
      BY <1>6, <2>3 DEF process_event, ExecutionStarted, ExecutionCompleted,
                  ExecutionTerminated, IgnoredEvent, TaskScheduled, TimerCreated,
                  SubOrchestrationInstanceCreated, Acknowledge, TaskCompleted, TimerFired,
                  TaskFailed, SubOrchestrationInstanceCompleted, Unblock, UnblockAndPoll,
                  SubOrchestrationInstanceFailed, EventRaised, called
    <3> QED BY <1>1, <3>1
  <2> QED BY <2>1, <2>2, <2>3
<1> QED BY <1>2, <1>3, <1>4, <1>5, <1>6 DEF AnyStep, Execute, Poll

\* push_back adds one element to one buffer; pop_front adds none to any.
LEMMA BufferedValues ==
    ASSUME NEW V, NEW f, \A x \in DOMAIN f : f[x] \in Seq(V) /\ f[x] # <<>>,
           NEW k, NEW v \in V, NEW g,
           (k \in DOMAIN f /\ g = PopFront(f, k)) \/ g = PushBack(f, k, v)
    PROVE  \A x \in DOMAIN g : \A i \in DOMAIN g[x] :
              \/ x \in DOMAIN f /\ \E n \in DOMAIN f[x] : f[x][n] = g[x][i]
              \/ g = PushBack(f, k, v) /\ x = k /\ g[x][i] = v
<1> SUFFICES ASSUME NEW x \in DOMAIN g, NEW i \in DOMAIN g[x]
             PROVE  \/ x \in DOMAIN f /\ \E n \in DOMAIN f[x] : f[x][n] = g[x][i]
                    \/ g = PushBack(f, k, v) /\ x = k /\ g[x][i] = v
  OBVIOUS
<1>1. CASE k \in DOMAIN f /\ g = PopFront(f, k)
  <2>1. f[k] \in Seq(V) /\ f[k] # <<>>
    BY <1>1
  <2>2. \A y \in DOMAIN g : y \in DOMAIN f
    BY <1>1, <2>1, PopFrontElements
  <2>3. \A y \in DOMAIN f : y # k => g[y] = f[y]
    BY <1>1, <2>1, PopFrontElements
  <2>4. k \in DOMAIN g => /\ DOMAIN g[k] = 1 .. Len(f[k]) - 1
                          /\ \A j \in 1 .. Len(f[k]) - 1 : g[k][j] = f[k][j + 1]
    BY <1>1, <2>1, PopFrontElements
  <2>5. CASE x = k
    <3> PICK len : len = Len(f[k])
      OBVIOUS
    <3>1. len \in Nat /\ DOMAIN f[k] = 1 .. len
      BY <2>1, LenProperties
    <3>2. i \in 1 .. len - 1 /\ g[k][i] = f[k][i + 1]
      BY <2>4, <2>5
    <3>3. i + 1 \in DOMAIN f[k]
      BY <3>1, <3>2
    <3> QED BY <1>1, <2>5, <3>2, <3>3
  <2>6. CASE x # k
    BY <2>2, <2>3, <2>6
  <2> QED BY <2>5, <2>6
<1>2. CASE g = PushBack(f, k, v)
  <2> PICK n : n = IF k \in DOMAIN f THEN Len(f[k]) ELSE 0
    OBVIOUS
  <2>0. \A y \in DOMAIN f : f[y] \in Seq(V)
    OBVIOUS
  <2>1. (k \in DOMAIN f => n = Len(f[k])) /\ (k \notin DOMAIN f => n = 0)
    OBVIOUS
  <2>2. \A y : y \in DOMAIN g <=> y \in DOMAIN f \/ y = k
    BY <1>2, <2>0, <2>1, PushBackElements
  <2>3. \A y \in DOMAIN f : y # k => g[y] = f[y]
    BY <1>2, <2>0, <2>1, PushBackElements
  <2>4. n \in Nat /\ DOMAIN g[k] = 1 .. n + 1 /\ g[k][n + 1] = v
    BY <1>2, <2>0, <2>1, PushBackElements
  <2>5. k \in DOMAIN f => \A j \in 1 .. n : g[k][j] = f[k][j]
    BY <1>2, <2>0, <2>1, PushBackElements
  <2>6. CASE x # k
    BY <2>2, <2>3, <2>6
  <2>7. CASE x = k
    <3>1. CASE i = n + 1
      BY <1>2, <2>4, <2>7, <3>1
    <3>2. CASE i # n + 1
      <4>1. i \in 1 .. n + 1
        BY <2>4, <2>7
      <4>2. i \in 1 .. n
        BY <2>4, <3>2, <4>1
      <4>3. k \in DOMAIN f /\ DOMAIN f[k] = 1 .. n
        <5>1. k \in DOMAIN f
          BY <2>1, <4>2
        <5> QED BY <2>0, <2>1, <5>1, LenProperties
      <4> QED BY <2>5, <2>7, <4>2, <4>3
    <3> QED BY <3>1, <3>2
  <2> QED BY <2>6, <2>7
<1> QED BY <1>1, <1>2

\* A buffer gets a value from an event of its name, and from nothing else.
LEMMA BufferCases ==
    ASSUME SInv, AnyStep
    PROVE  \A x \in DOMAIN received_events' : \A i \in DOMAIN received_events'[x] :
              \/ /\ x \in DOMAIN received_events
                 /\ \E n \in DOMAIN received_events[x] :
                       received_events[x][n] = received_events'[x][i]
              \/ \E e : /\ IsEvent(e) /\ history' = Append(history, e)
                        /\ RaisedFor(e, x) /\ e.value = received_events'[x][i]
<1>0. \A x \in DOMAIN received_events :
         received_events[x] \in Seq(Option) /\ received_events[x] # <<>>
  BY DEF SInv, IInv, TypeOK, MapsOK, IsMap, NoEmptyQueue, NonEmpty
<1>1. CASE received_events' = received_events
  BY <1>1
<1>2. CASE await_signal_event
  <2>1. CASE \E k \in DOMAIN received_events : received_events' = PopFront(received_events, k)
    <3> PICK k \in DOMAIN received_events : received_events' = PopFront(received_events, k)
      BY <2>1
    <3> PICK g : g = received_events'
      OBVIOUS
    <3> PICK v : v = None
      OBVIOUS
    <3>1. v \in Option /\ g = PopFront(received_events, k)
      BY DEF Option
    <3>2. ASSUME NEW x \in DOMAIN g, NEW i \in DOMAIN g[x],
                 g = PushBack(received_events, k, v), x = k, g[x][i] = v
          PROVE  x \in DOMAIN received_events
                 /\ \E n \in DOMAIN received_events[x] : received_events[x][n] = g[x][i]
      <4> PICK len : len = Len(received_events[k])
        OBVIOUS
      <4>1. len \in Nat /\ DOMAIN received_events[k] = 1 .. len
        BY <1>0, LenProperties
      <4>2. DOMAIN g[k] = 1 .. len - 1
        <5>1. received_events[k] \in Seq(Option) /\ received_events[k] # <<>> /\ k \in DOMAIN g
          BY <1>0, <3>2
        <5> QED BY <3>1, <5>1, PopFrontElements
      <4>3. DOMAIN g[k] = 1 .. len + 1
        BY <1>0, <3>1, <3>2, PushBackElements
      <4>4. len + 1 \in 1 .. len + 1 /\ ~(len + 1 \in 1 .. len - 1)
        BY <4>1
      <4> QED BY <4>2, <4>3, <4>4
    <3>3. \A x \in DOMAIN g : \A i \in DOMAIN g[x] :
             x \in DOMAIN received_events
             /\ \E n \in DOMAIN received_events[x] : received_events[x][n] = g[x][i]
      BY <1>0, <3>1, <3>2, BufferedValues
    <3> QED BY <3>3
  <2> QED BY <1>1, <1>2, <2>1 DEF await_signal_event
<1>3. CASE (Execute /\ ~await_signal_event) \/ get_actions
  <2>1. received_events' = received_events
    BY <1>3 DEF Execute, Poll, create_timer, call_activity, call_sub_orchestrator, Schedule,
                TaskReady, TaskPending, TaskForsaken, TaskIgnored, TaskPanics, PolledAgain,
                FinishStep, Block, Complete, ReturnAtOnce, ReturnIgnored, DrainTask, DrainWaiter,
                NextEvent, get_actions, ctx, queues
  <2> QED BY <1>1, <2>1
<1>4. ASSUME NEW e, IsEvent(e), process_event(e)
      PROVE  \A x \in DOMAIN received_events' : \A i \in DOMAIN received_events'[x] :
              \/ /\ x \in DOMAIN received_events
                 /\ \E n \in DOMAIN received_events[x] :
                       received_events[x][n] = received_events'[x][i]
              \/ /\ history' = Append(history, e)
                 /\ RaisedFor(e, x) /\ e.value = received_events'[x][i]
  <2>1. CASE EventRaised(e) /\ received_events' # received_events
    <3> PICK k : k = to_lowercase(e.name)
      OBVIOUS
    <3> PICK v : v = e.value
      OBVIOUS
    <3> PICK g : g = received_events'
      OBVIOUS
    <3>1. g = PushBack(received_events, k, v) /\ v \in Option
      BY <1>4, <2>1 DEF EventRaised, IsEvent
    <3>2. \A x \in DOMAIN g : \A i \in DOMAIN g[x] :
             \/ x \in DOMAIN received_events
                /\ \E n \in DOMAIN received_events[x] : received_events[x][n] = g[x][i]
             \/ x = k /\ g[x][i] = v
      BY <1>0, <3>1, BufferedValues
    <3>3. RaisedFor(e, k) /\ history' = Append(history, e)
      BY <1>4, <2>1, EventTaken DEF RaisedFor, EventRaised
    <3> QED BY <3>2, <3>3
  <2>2. CASE ~EventRaised(e)
    <3>1. received_events' = received_events
      BY <1>4, <2>2 DEF process_event, ExecutionStarted, ExecutionCompleted,
                  ExecutionTerminated, IgnoredEvent, TaskScheduled, TimerCreated,
                  SubOrchestrationInstanceCreated, Acknowledge, TaskCompleted, TimerFired,
                  TaskFailed, SubOrchestrationInstanceCompleted, Unblock, UnblockAndPoll,
                  SubOrchestrationInstanceFailed, ctx, queues
    <3> QED BY <3>1
  <2> QED BY <2>1, <2>2
<1> QED BY <1>2, <1>3, <1>4 DEF AnyStep

\* Whatever a step hands out is the value of an event about it.
LEMMA AnsweredStep ==
    ASSUME SInv, AnsweredByOwn, AnyStep
    PROVE  AnsweredByOwn'
<1>0. /\ IInv /\ CallsOK /\ HistoryOK /\ DOMAIN tasks = Handles /\ DOMAIN calls = Handles
      /\ Handles = 1 .. Len(calls) /\ Len(tasks) = Len(calls) /\ Len(calls) \in Nat
      /\ \A h \in Handles : tasks[h] \in Task
  BY HandleTypes DEF SInv, IInv, TypeOK, CallsOK, Handles
<1>1. \A i \in DOMAIN history : i \in DOMAIN history' /\ history'[i] = history[i]
  BY <1>0, HistoryGrows
<1>2. ASSUME NEW e, IsEvent(e), history' = Append(history, e)
      PROVE  \E i \in DOMAIN history' : history'[i] = e
  BY <1>0, <1>2, Recorded
<1>3. ASSUME NEW x \in DOMAIN received_events', NEW n \in DOMAIN received_events'[x]
      PROVE  \E i \in DOMAIN history' :
                 RaisedFor(history'[i], x) /\ history'[i].value = received_events'[x][n]
  <2>1. CASE /\ x \in DOMAIN received_events
             /\ \E m \in DOMAIN received_events[x] :
                   received_events[x][m] = received_events'[x][n]
    BY <1>1, <2>1 DEF AnsweredByOwn
  <2>2. CASE \E e : /\ IsEvent(e) /\ history' = Append(history, e)
                    /\ RaisedFor(e, x) /\ e.value = received_events'[x][n]
    BY <1>2, <2>2
  <2> QED BY <1>3, <2>1, <2>2, BufferCases
<1>4. CASE SameTasks /\ calls' = calls
  <2> SUFFICES ASSUME NEW h \in Handles, HasMessage(tasks'[h])
               PROVE  \E i \in DOMAIN history' :
                          About(history'[i], calls[h]) /\ history'[i].value = tasks'[h].value
    <3>1. DOMAIN tasks' = Handles
      BY <1>0, <1>4, LenProperties DEF SameTasks
    <3> QED BY <1>3, <1>4, <3>1 DEF AnsweredByOwn
  <2>1. CASE tasks'[h].tx \in {tasks[h].tx, "dropped"} /\ tasks'[h].value = tasks[h].value
    <3>1. HasMessage(tasks[h])
      BY <1>4, <2>1 DEF HasMessage, SameTasks
    <3>2. PICK i \in DOMAIN history :
             About(history[i], calls[h]) /\ history[i].value = tasks[h].value
      BY <1>0, <3>1 DEF AnsweredByOwn
    <3> QED BY <1>1, <2>1, <3>2
  <2>2. CASE \E e : /\ IsEvent(e) /\ history' = Append(history, e)
                    /\ About(e, calls[h]) /\ e.value = tasks'[h].value
    BY <1>2, <2>2
  <2> QED BY <1>4, <2>1, <2>2, TaskCases
<1>5. ASSUME NEW call, NEW task, NewCall(call, task), task.tx # "sent",
             task.completed => /\ call.kind = "signal"
                               /\ call.name \in DOMAIN received_events
                               /\ task.value = Head(received_events[call.name])
      PROVE  AnsweredByOwn'
  <2> PICK new : new = Len(calls) + 1
    OBVIOUS
  <2>1. /\ DOMAIN tasks' = Handles \cup {new}
        /\ \A h \in Handles : calls'[h] = calls[h] /\ tasks'[h] = tasks[h]
        /\ calls'[new] = call /\ tasks'[new] = task
    <3>1. /\ tasks' \in Seq(Task) /\ Len(tasks') = new
          /\ \A h \in Handles : calls'[h] = calls[h] /\ tasks'[h] = tasks[h]
          /\ calls'[new] = call /\ tasks'[new] = task
      BY <1>0, <1>5, NewCallOK
    <3>2. DOMAIN tasks' = 1 .. new
      BY <3>1, LenProperties
    <3> QED BY <1>0, <3>1, <3>2
  <2>2. ASSUME NEW h \in Handles, HasMessage(tasks'[h])
        PROVE  \E i \in DOMAIN history' :
                   About(history'[i], calls'[h]) /\ history'[i].value = tasks'[h].value
    <3>1. PICK i \in DOMAIN history :
             About(history[i], calls[h]) /\ history[i].value = tasks[h].value
      BY <1>0, <2>1, <2>2 DEF AnsweredByOwn
    <3> QED BY <1>1, <2>1, <3>1
  <2>3. ASSUME HasMessage(task)
        PROVE  \E i \in DOMAIN history' :
                   About(history'[i], call) /\ history'[i].value = task.value
    <3> PICK k : k = call.name
      OBVIOUS
    <3>1. call.kind = "signal" /\ k \in DOMAIN received_events
          /\ task.value = Head(received_events[k])
      BY <1>5, <2>3 DEF HasMessage
    <3>2. received_events[k] \in Seq(Option) /\ received_events[k] # <<>>
      BY <1>0, <3>1 DEF IInv, TypeOK, MapsOK, IsMap, NoEmptyQueue, NonEmpty
    <3>3. 1 \in DOMAIN received_events[k] /\ task.value = received_events[k][1]
      <4>1. Len(received_events[k]) \in Nat /\ Len(received_events[k]) # 0
            /\ DOMAIN received_events[k] = 1 .. Len(received_events[k])
        BY <3>2, LenProperties, EmptySeq
      <4>2. Head(received_events[k]) = received_events[k][1]
        OBVIOUS
      <4> QED BY <3>1, <4>1, <4>2
    <3>4. PICK i \in DOMAIN history :
             RaisedFor(history[i], k) /\ history[i].value = task.value
      BY <3>1, <3>3 DEF AnsweredByOwn
    <3> QED BY <1>1, <3>1, <3>4 DEF About
  <2> QED BY <1>3, <2>1, <2>2, <2>3 DEF AnsweredByOwn
<1>6. CASE \E call \in Call, task \in Task :
              /\ NewCall(call, task) /\ task.tx # "sent"
              /\ task.completed => /\ call.kind = "signal"
                                   /\ call.name \in DOMAIN received_events
                                   /\ task.value = Head(received_events[call.name])
  BY <1>5, <1>6
<1> QED BY <1>0, <1>4, <1>6, CallCases

\* A panic of the orchestrator's poll is about a value it was handed.
LEMMA PanicStep ==
    ASSUME SInv, AnsweredByOwn, BadValueHasCause, AnyStep
    PROVE  BadValueHasCause'
<1>0. /\ IInv /\ PositionOK /\ DOMAIN tasks = Handles /\ Handles = 1 .. Len(calls)
      /\ Len(calls) \in Nat
  BY HandleTypes DEF SInv, IInv, TypeOK, Handles
<1>1. \A i \in DOMAIN history : i \in DOMAIN history' /\ history'[i] = history[i]
  BY <1>0, HistoryGrows
<1>2. ASSUME panic' \notin {"no value", "decode"} \/ panic' = panic
      PROVE  BadValueHasCause'
  BY <1>1, <1>2 DEF BadValueHasCause
<1>3. CASE await_signal_event /\ panic' # panic
  <2> PICK k : k = to_lowercase(ThisOp.name)
    OBVIOUS
  <2> PICK v : v = Head(received_events[k])
    OBVIOUS
  <2>1. /\ panic' = "no value" /\ history' = history
        /\ k \in DOMAIN received_events /\ v = None
    BY <1>3 DEF await_signal_event, Panic, Goto
  <2>2. received_events[k] \in Seq(Option) /\ received_events[k] # <<>>
    BY <1>0, <2>1 DEF IInv, TypeOK, MapsOK, IsMap, NoEmptyQueue, NonEmpty
  <2>3. 1 \in DOMAIN received_events[k] /\ received_events[k][1] = v
    <3>1. /\ Len(received_events[k]) \in Nat /\ Len(received_events[k]) # 0
          /\ DOMAIN received_events[k] = 1 .. Len(received_events[k])
      BY <2>2, LenProperties, EmptySeq
    <3>2. Head(received_events[k]) = received_events[k][1]
      OBVIOUS
    <3> QED BY <3>1, <3>2
  <2>4. PICK i \in DOMAIN history :
           RaisedFor(history[i], k) /\ history[i].value = received_events[k][1]
    <3>1. \A n \in DOMAIN received_events[k] :
             \E i \in DOMAIN history :
                 RaisedFor(history[i], k) /\ history[i].value = received_events[k][n]
      BY <2>1 DEF AnsweredByOwn
    <3> QED BY <2>3, <3>1
  <2> QED BY <2>1, <2>3, <2>4 DEF BadValueHasCause, RaisedFor
<1>4. CASE (TaskReady \/ TaskPanics) /\ panic' # panic
  <2> PICK h : h = ThisCall
    OBVIOUS
  <2>1. h \in Handles
    <3>1. h <= Len(calls) /\ h = base + op
      BY <1>4 DEF TaskReady, TaskPanics, Awaited, AtTask, ThisCall
    <3>2. base \in Nat /\ op \in Nat \ {0}
      BY <1>0 DEF PositionOK
    <3> QED BY <1>0, <3>1, <3>2
  <2>2. /\ HasMessage(tasks[h]) /\ history' = history
        /\ \/ panic' = "decode" /\ tasks[h].value \notin Decodable
           \/ panic' = "no value" /\ tasks[h].value = None
    BY <1>4 DEF TaskReady, TaskPanics, Panic, Goto, IsReady, PollPanics
  <2>3. PICK i \in DOMAIN history :
           About(history[i], calls[h]) /\ history[i].value = tasks[h].value
    BY <1>0, <2>1, <2>2 DEF AnsweredByOwn
  <2> QED BY <2>2, <2>3 DEF BadValueHasCause, About, RaisedFor
<1>5. CASE /\ Execute \/ get_actions
           /\ ~await_signal_event /\ ~TaskReady /\ ~TaskPanics /\ ~PolledAgain
  <2>1. panic' = panic
    BY <1>5 DEF Execute, Poll, create_timer, call_activity, call_sub_orchestrator, Schedule,
                TaskPending, TaskForsaken, TaskIgnored, FinishStep, Block, Complete,
                ReturnAtOnce, ReturnIgnored, DrainTask, DrainWaiter, NextEvent, get_actions, Goto
  <2> QED BY <1>2, <2>1
<1>7. CASE PolledAgain
  BY <1>2, <1>7 DEF PolledAgain, Panic
<1>6. ASSUME NEW e, process_event(e) PROVE BadValueHasCause'
  BY <1>2, <1>6, EventControl
<1> QED BY <1>2, <1>3, <1>4, <1>5, <1>6, <1>7 DEF AnyStep

-----------------------------------------------------------------------------
(* The actions.                                                            *)

\* What a step that takes no event does with pending_actions, apart from
\* draining: nothing, or add the result of the orchestrator under a number of
\* its own.
LEMMA PollActions ==
    ASSUME Execute \/ get_actions, ~DrainTask
    PROVE  \/ UNCHANGED <<pending_actions, sequence_number>>
           \/ /\ Complete /\ sequence_number' = sequence_number + 1
              /\ pending_actions' =
                    Put(pending_actions, sequence_number + 1, Registry[name].result)
BY DEF Execute, Poll, create_timer, call_activity, call_sub_orchestrator, Schedule,
       await_signal_event, TaskReady, TaskPending, TaskForsaken, TaskIgnored, TaskPanics,
       PolledAgain, FinishStep, Block, Complete, ReturnAtOnce, ReturnIgnored, DrainWaiter,
       NextEvent, get_actions, ctx

\* An id that was acknowledged stays so.
LEMMA AcknowledgedStays ==
    ASSUME IInv, AnyStep, NEW id, Acknowledged(id)
    PROVE  Acknowledged(id)'
BY HistoryGrows DEF Acknowledged

\* A call that has its action in pending_actions keeps it there, unless the
\* action is acknowledged; and nothing else puts the action of a task there.
LEMMA ActionsKept ==
    ASSUME SInv, AnyStep, ActionKept, ActionOfCall
    PROVE  ActionKept' /\ ActionOfCall'
<1>0. /\ IInv /\ OnceStarted /\ NumberedInOrder /\ DOMAIN calls = Handles
      /\ Handles = 1 .. Len(calls) /\ Len(calls) \in Nat /\ drained \in 0 .. Len(calls)
      /\ octx_sequence_number \in Nat /\ sequence_number \in Nat
      /\ \A h \in TaskCalls : h \in Handles /\ calls[h].id \in Nat
  BY HandleTypes DEF SInv, IInv, TypeOK, CallsOK, Handles, TaskCalls, NumberedInOrder
<1>1. \A id : Acknowledged(id) => Acknowledged(id)'
  BY <1>0, AcknowledgedStays
<1>2. ASSUME ~ReturnAtOnce
      PROVE  /\ \A h \in TaskCalls : h \in TaskCalls' /\ calls'[h] = calls[h]
             /\ \A h \in TaskCalls' : h \in TaskCalls \/ InChannel(h)'
  BY <1>0, <1>2, CallsGrow DEF TaskCalls
<1>3. CASE fn' = "none" /\ UNCHANGED <<fn, pending_actions>>
  BY <1>3 DEF ActionKept, ActionOfCall
\* Nothing is drained, and no action is put that a call asked for.
<1>4. ASSUME ~ReturnAtOnce, drained' = drained, fn # "none", fn' # "none",
             sequence_number' \in Nat, sequence_number' >= sequence_number,
             \A id \in DOMAIN pending_actions' :
                 pending_actions'[id] \in TaskKinds =>
                     id \in DOMAIN pending_actions /\ pending_actions'[id] = pending_actions[id],
             \A id \in DOMAIN pending_actions :
                 \/ id \in DOMAIN pending_actions' /\ pending_actions'[id] = pending_actions[id]
                 \/ id > sequence_number
                 \/ Acknowledged(id)'
      PROVE  ActionKept' /\ ActionOfCall'
  <2>1. \A h \in TaskCalls' : ~InChannel(h)' =>
            h \in TaskCalls /\ calls'[h] = calls[h] /\ ~InChannel(h)
    BY <1>0, <1>2, <1>4 DEF InChannel, TaskCalls
  <2>2. \A h \in TaskCalls : ~InChannel(h) => h \in TaskCalls' /\ ~InChannel(h)'
    BY <1>0, <1>2, <1>4 DEF InChannel, TaskCalls
  <2>3. ASSUME NEW h \in TaskCalls', ~InChannel(h)'
        PROVE  \/ Acknowledged(calls[h].id)'
               \/ Asked(calls[h].id)' /\ pending_actions'[calls'[h].id] = calls'[h].kind
    <3> PICK id : id = calls[h].id
      OBVIOUS
    <3>1. h \in TaskCalls /\ calls'[h] = calls[h] /\ ~InChannel(h) /\ id \in Nat
      BY <1>0, <2>1, <2>3
    <3>2. \/ Acknowledged(id)
          \/ Asked(id) /\ pending_actions[id] = calls[h].kind
      BY <1>4, <3>1 DEF ActionKept
    <3>3. id <= sequence_number
      BY <1>4, <3>1 DEF ActionOfCall
    <3>4. Acknowledged(id)' \/ (Asked(id)' /\ pending_actions'[id] = calls[h].kind)
      BY <1>0, <1>1, <1>4, <3>1, <3>2, <3>3 DEF Asked
    <3> QED BY <3>1, <3>4 DEF Acknowledged, Asked
  <2>4. ActionKept'
    BY <2>3 DEF ActionKept
  <2>5. ASSUME NEW id \in DOMAIN pending_actions', pending_actions'[id] \in TaskKinds
        PROVE  Made(id, pending_actions[id])'
    <3> PICK kind : kind = pending_actions'[id]
      OBVIOUS
    <3>1. id \in DOMAIN pending_actions /\ kind \in TaskKinds /\ pending_actions[id] = kind
      BY <1>4, <2>5
    <3>2. PICK h \in TaskCalls : ~InChannel(h) /\ calls[h].id = id /\ calls[h].kind = kind
      BY <3>1 DEF ActionOfCall, Made
    <3>3. Made(id, kind)'
      BY <1>2, <1>4, <2>2, <3>2 DEF Made
    <3> QED BY <3>3
  <2>6. ASSUME NEW h \in TaskCalls', ~InChannel(h)'
        PROVE  calls'[h].id <= sequence_number'
    <3>1. h \in TaskCalls /\ calls'[h] = calls[h] /\ ~InChannel(h)
      BY <2>1, <2>6
    <3>2. calls[h].id <= sequence_number
      BY <1>4, <3>1 DEF ActionOfCall
    <3> QED BY <1>0, <1>4, <3>1, <3>2
  <2>7. ActionOfCall'
    BY <1>4, <2>5, <2>6 DEF ActionOfCall
  <2> QED BY <2>4, <2>7
<1>5. CASE ReturnAtOnce
  <2>1. fn = "none" /\ UNCHANGED <<fn, pending_actions>>
    BY <1>0, <1>5 DEF ReturnAtOnce, OnceStarted, future, ctx
  <2> QED BY <1>3, <2>1
<1>6. CASE DrainTask
  <2> PICK new : new = drained + 1
    OBVIOUS
  <2> PICK k : k = calls[new].id
    OBVIOUS
  <2>1. /\ UNCHANGED <<calls, fn, history>> /\ pc = "drain"
        /\ drained' = drained + 1 /\ drained < Len(calls)
        /\ calls[new].kind \in TaskKinds
        /\ pending_actions' = Put(pending_actions, k, calls[new].kind)
        /\ sequence_number' = k
    BY <1>6 DEF DrainTask, future, called
  <2>2. fn # "none"
    <3>1. drained # Len(calls)
      BY <1>0, <2>1, Below
    <3> QED BY <1>0, <2>1, <3>1 DEF OnceStarted
  <2>3. new \in TaskCalls /\ TaskCalls' = TaskCalls /\ k \in Nat
    BY <1>0, <2>1 DEF TaskCalls
  <2>4. \A h \in TaskCalls : ~InChannel(h)' <=> ~InChannel(h) \/ h = new
    BY <1>0, <2>1 DEF InChannel, TaskCalls
  <2>5. ASSUME NEW h \in TaskCalls, ~InChannel(h), h # new
        PROVE  calls[h].id < k /\ calls[h].id # k
    <3>1. h < new
      BY <1>0, <2>1, <2>5 DEF InChannel
    <3>2. calls[h].id < k
      BY <1>0, <2>3, <3>1 DEF NumberedInOrder
    <3> QED BY <1>0, <2>3, <3>2
  <2>6. ASSUME NEW h \in TaskCalls, ~InChannel(h)'
        PROVE  \/ Acknowledged(calls[h].id)'
               \/ Asked(calls[h].id)' /\ pending_actions'[calls[h].id] = calls[h].kind
    <3>1. CASE h = new
      BY <2>1, <3>1 DEF Asked, Put
    <3>2. CASE h # new
      <4> PICK id : id = calls[h].id
        OBVIOUS
      <4>1. ~InChannel(h) /\ id # k
        BY <2>4, <2>5, <2>6, <3>2
      <4>2. \/ Acknowledged(id)
            \/ Asked(id) /\ pending_actions[id] = calls[h].kind
        BY <2>2, <4>1 DEF ActionKept
      <4>3. id \in DOMAIN pending_actions => /\ id \in DOMAIN pending_actions'
                                             /\ pending_actions'[id] = pending_actions[id]
        BY <2>1, <4>1 DEF Put
      <4>4. Acknowledged(id)' \/ (Asked(id)' /\ pending_actions'[id] = calls[h].kind)
        BY <1>1, <4>2, <4>3 DEF Asked
      <4> QED BY <2>1, <4>4 DEF Acknowledged, Asked
    <3> QED BY <3>1, <3>2
  <2>7. ActionKept'
    BY <2>1, <2>3, <2>6 DEF ActionKept
  <2>8. ASSUME NEW id \in DOMAIN pending_actions', pending_actions'[id] \in TaskKinds
        PROVE  Made(id, pending_actions[id])'
    <3> PICK kind : kind = pending_actions'[id]
      OBVIOUS
    <3>1. CASE id = k
      <4>1. calls[new].kind = kind /\ calls[new].id = id
        BY <2>1, <3>1 DEF Put
      <4>2. Made(id, kind)'
        BY <2>1, <2>3, <2>4, <4>1 DEF Made
      <4> QED BY <4>2
    <3>2. CASE id # k
      <4>1. id \in DOMAIN pending_actions /\ pending_actions[id] = kind /\ kind \in TaskKinds
        BY <2>1, <2>8, <3>2 DEF Put
      <4>2. PICK h \in TaskCalls : ~InChannel(h) /\ calls[h].id = id /\ calls[h].kind = kind
        BY <4>1 DEF ActionOfCall, Made
      <4>3. Made(id, kind)'
        BY <2>1, <2>3, <2>4, <4>2 DEF Made
      <4> QED BY <4>3
    <3> QED BY <3>1, <3>2
  <2>9. \A h \in TaskCalls : ~InChannel(h)' => calls[h].id <= sequence_number'
    <3> SUFFICES ASSUME NEW h \in TaskCalls, ~InChannel(h)'
                 PROVE  calls[h].id <= k
      BY <2>1
    <3>1. CASE h = new
      BY <2>3, <3>1
    <3>2. CASE h # new
      BY <1>0, <2>3, <2>4, <2>5, <3>2
    <3> QED BY <3>1, <3>2
  <2> QED BY <2>1, <2>2, <2>3, <2>7, <2>8, <2>9 DEF ActionOfCall
<1>7. CASE DrainWaiter
  <2>1. /\ UNCHANGED <<calls, fn, history, pending_actions, sequence_number>>
        /\ drained' = drained + 1 /\ drained < Len(calls) /\ calls[drained + 1].kind = "signal"
    BY <1>7 DEF DrainWaiter, future, called
  <2>2. TaskCalls' = TaskCalls /\ drained + 1 \notin TaskCalls
    BY <2>1 DEF TaskCalls, TaskKinds
  <2>3. \A h \in TaskCalls : ~InChannel(h)' <=> ~InChannel(h)
    BY <1>0, <2>1, <2>2 DEF InChannel, TaskCalls
  <2>4. ActionKept'
    BY <1>1, <2>1, <2>2, <2>3 DEF ActionKept, Asked
  <2>5. ActionOfCall'
    BY <2>1, <2>2, <2>3 DEF ActionOfCall, Made
  <2> QED BY <2>4, <2>5
<1>8. CASE /\ Execute \/ get_actions
           /\ ~DrainTask /\ ~DrainWaiter /\ ~ReturnAtOnce
  <2>1. drained' = drained /\ (fn' = fn \/ fn' # "none")
    BY <1>8 DEF Execute, Poll, create_timer, call_activity, call_sub_orchestrator, Schedule,
                await_signal_event, TaskReady, TaskPending, TaskForsaken, TaskIgnored,
                TaskPanics, PolledAgain, FinishStep, Block, Complete, ReturnIgnored, NextEvent,
                get_actions, future
  <2>2. CASE Complete
    <3>1. /\ fn = "pending" /\ fn' = "ready"
          /\ sequence_number' = sequence_number + 1
          /\ pending_actions' = Put(pending_actions, sequence_number + 1, Registry[name].result)
      BY <1>0, <2>2 DEF Complete, OnceStarted
    <3>2. Registry[name].result \notin TaskKinds
      <4>1. Registry[name] \in Program
        BY <1>0, <2>2, StepOK DEF Complete, AtReturn
      <4> QED BY <4>1 DEF Program, Results, TaskKinds
    <3>3. \A id \in DOMAIN pending_actions' :
              pending_actions'[id] \in TaskKinds =>
                  id \in DOMAIN pending_actions /\ pending_actions'[id] = pending_actions[id]
      BY <3>1, <3>2 DEF Put
    <3>4. \A id \in DOMAIN pending_actions :
              \/ id \in DOMAIN pending_actions' /\ pending_actions'[id] = pending_actions[id]
              \/ id > sequence_number
      BY <1>0, <3>1 DEF Put
    <3> QED BY <1>0, <1>4, <1>8, <2>1, <3>1, <3>3, <3>4
  <2>3. CASE ~Complete
    <3>1. UNCHANGED <<pending_actions, sequence_number>>
      BY <1>8, <2>3, PollActions
    <3>2. CASE fn # "none"
      BY <1>0, <1>4, <1>8, <2>1, <3>1, <3>2
    <3>3. CASE fn = "none" /\ fn' = "none"
      BY <1>3, <3>1, <3>3
    <3>4. CASE fn = "none" /\ fn' # "none"
      <4>1. pc = "first" /\ calls' = calls
        BY <1>0, <1>8, <2>3, <3>4 DEF Execute, Poll, create_timer, call_activity,
              call_sub_orchestrator, Schedule,
              await_signal_event, TaskReady, TaskPending, TaskForsaken, TaskIgnored, TaskPanics,
              PolledAgain, FinishStep, Block, ReturnIgnored, NextEvent, get_actions, future,
              AtStepEnd, AtReturn, Polling, OnceStarted, called
      <4>2. drained' = 0
        BY <1>0, <2>1, <4>1 DEF OnceStarted
      <4>3. \A h \in TaskCalls' : InChannel(h)'
        BY <1>0, <4>1, <4>2 DEF InChannel, TaskCalls
      <4>4. \A id \in DOMAIN pending_actions' : pending_actions'[id] \notin TaskKinds
        BY <3>1, <3>4 DEF ActionOfCall
      <4> QED BY <4>3, <4>4 DEF ActionKept, ActionOfCall
    <3> QED BY <3>2, <3>3, <3>4
  <2> QED BY <2>2, <2>3
<1>9. ASSUME NEW e, IsEvent(e), process_event(e) PROVE ActionKept' /\ ActionOfCall'
  <2>1. UNCHANGED <<fn, drained, calls>>
    BY <1>0, <1>9, EventControl, EventTasks
  <2>2. \/ UNCHANGED <<pending_actions, sequence_number>>
        \/ /\ e.type \in Created /\ sequence_number' = sequence_number
           /\ pending_actions' = Remove(pending_actions, e.id)
        \/ /\ sequence_number' = sequence_number + 1
           /\ pending_actions' = Put(pending_actions, sequence_number + 1, "Terminated")
    BY <1>9 DEF process_event, ExecutionStarted, ExecutionCompleted,
                ExecutionTerminated, IgnoredEvent, TaskScheduled, TimerCreated,
                SubOrchestrationInstanceCreated, Acknowledge, TaskCompleted, TimerFired,
                TaskFailed, SubOrchestrationInstanceCompleted, Unblock, UnblockAndPoll,
                SubOrchestrationInstanceFailed, EventRaised, Created, ctx
  <2>3. ~ReturnAtOnce
    <3>1. pc = "event"
      BY <1>9, EventTaken
    <3> QED BY <3>1 DEF ReturnAtOnce
  <2>4. \E i \in DOMAIN history' : history'[i] = e
    BY <1>0, <1>9, EventTaken, Recorded DEF IInv, TypeOK
  <2>5. \A id \in DOMAIN pending_actions' :
            pending_actions'[id] \in TaskKinds =>
                id \in DOMAIN pending_actions /\ pending_actions'[id] = pending_actions[id]
    BY <2>2 DEF Put, Remove, TaskKinds
  <2>6. \A id \in DOMAIN pending_actions :
            \/ id \in DOMAIN pending_actions' /\ pending_actions'[id] = pending_actions[id]
            \/ id > sequence_number
            \/ Acknowledged(id)'
    BY <1>0, <2>2, <2>4 DEF Put, Remove, Acknowledged
  <2>7. sequence_number' \in Nat /\ sequence_number' >= sequence_number
    BY <1>0, <2>2
  <2>8. CASE fn # "none"
    BY <1>4, <2>1, <2>3, <2>5, <2>6, <2>7, <2>8
  <2>9. CASE fn = "none"
    <3>1. \A id \in DOMAIN pending_actions' : pending_actions'[id] \notin TaskKinds
      BY <2>5, <2>9 DEF ActionOfCall
    <3> QED BY <2>1, <2>9, <3>1 DEF ActionKept, ActionOfCall
  <2> QED BY <2>8, <2>9
<1> QED BY <1>5, <1>6, <1>7, <1>8, <1>9 DEF AnyStep

-----------------------------------------------------------------------------
(* The theorems.                                                           *)

\* A context just made owes nothing and has given nothing.
THEOREM InitAInv == Init => AInv
<1> SUFFICES ASSUME Init PROVE AInv
  OBVIOUS
<1>1. /\ calls = <<>> /\ tasks = <<>> /\ panic = "none"
      /\ DOMAIN pending_actions = {} /\ DOMAIN received_events = {}
  BY EmptyMapIsMap DEF Init
<1>2. ActionKept /\ ActionOfCall
  BY <1>1 DEF ActionKept, ActionOfCall, TaskCalls
<1>3. AnsweredByOwn /\ BadValueHasCause
  BY <1>1 DEF AnsweredByOwn, BadValueHasCause
<1> QED BY <1>2, <1>3, InitSInv DEF AInv

\* Every step keeps it.
THEOREM StepAInv == AInv /\ (AnyStep \/ UNCHANGED vars) => AInv'
<1>1. ASSUME AInv, AnyStep PROVE AInv'
  BY <1>1, StepSInv, AnsweredStep, PanicStep, ActionsKept DEF AInv
<1>2. ASSUME AInv, UNCHANGED vars PROVE AInv'
  <2>1. UNCHANGED <<history, panic, fn, calls, tasks, drained, sequence_number,
                    pending_actions, received_events>>
    BY <1>2 DEF vars, future, called, ctx
  <2>2. SInv'
    BY <1>2, StepSInv DEF AInv
  <2>3. ActionKept' /\ ActionOfCall'
    BY <1>2, <2>1 DEF AInv, ActionKept, ActionOfCall, Made, TaskCalls, InChannel, Asked,
       Acknowledged
  <2>4. AnsweredByOwn' /\ BadValueHasCause'
    BY <1>2, <2>1, ZenonT(60) DEF AInv, AnsweredByOwn, BadValueHasCause
  <2> QED BY <2>2, <2>3, <2>4 DEF AInv
<1> QED BY <1>1, <1>2

\* So every run of the executor has it.
THEOREM AnswersInvariance == Spec => []AInv
<1>1. AInv /\ [Next]_vars => AInv'
  BY StepAInv, NextIsAnyStep
<1> QED BY InitAInv, <1>1, PTL DEF Spec

\* No call gets the result of another, or a signal of another name.
THEOREM NoForeignAnswer == Spec => []AnsweredByOwn
<1>1. AInv => AnsweredByOwn
  BY DEF AInv
<1> QED BY AnswersInvariance, <1>1, PTL

\* Once drained, the action of a call stays until it is acknowledged.
THEOREM NoCallForgotten == Spec => []ActionKept
<1>1. AInv => ActionKept
  BY DEF AInv
<1> QED BY AnswersInvariance, <1>1, PTL
=============================================================================
