--------------------------- MODULE InstanceProofs ---------------------------
(***************************************************************************)
(* Proofs about Instance, alone and among its neighbours: through crashes, *)
(* lost answers and panics the executor keeps its invariants, and the      *)
(* instance the ledger that it promises; when the worker runs its          *)
(* activities, and when the filter looks at what it logs, they still do.   *)
(* At the end, what fits: every event of the log and the inbox is about    *)
(* the call that asked for it, and comes once.                             *)
(***************************************************************************)
EXTENDS Activities, ReplayFilter, DeliveryProofs

-----------------------------------------------------------------------------
(* Messages.                                                               *)

\* What the sidecar keeps of an instance is a sequence of events.
LEMMA MessageIsEvent == ASSUME NEW m \in Message PROVE IsEvent(m)
<1>1. CASE m \in ClientEvents
  BY <1>1, InstanceAssumption
<1>2. CASE m \in [type : EventTypes \ {"EventRaised"}, id : Nat,
                  name : Orchestrators \cup {None}, value : Option]
  BY <1>2 DEF IsEvent
<1> QED BY <1>1, <1>2 DEF Message

LEMMA MsgIsMessage ==
    ASSUME NEW type \in EventTypes \ {"EventRaised"}, NEW id \in Nat,
           NEW n \in Orchestrators \cup {None}, NEW value \in Option
    PROVE  /\ Msg(type, id, n, value) \in Message
           /\ Msg(type, id, n, value).type = type
           /\ Msg(type, id, n, value).id = id
BY DEF Msg, Message

LEMMA MarkerIsMessage == Marker \in Message /\ Marker.type = "OrchestratorStarted"
<1>1. "OrchestratorStarted" \in EventTypes \ {"EventRaised"} /\ None \in Option
  BY DEF EventTypes, Ignored, Option
<1> QED BY <1>1, MsgIsMessage DEF Marker

\* The elements of a work item.
LEMMA ItemParts ==
    ASSUME MessagesOK, ItemOK, ~Idle
    PROVE  /\ Len(log) \in Nat /\ batch \in 1 .. Len(inbox)
           /\ Len(item) = Len(log) + 1 + batch /\ DOMAIN item = 1 .. Len(item)
           /\ \A i \in 1 .. Len(log) : item[i] = log[i]
           /\ item[Len(log) + 1] = Marker
           /\ \A i \in 1 .. batch : item[Len(log) + 1 + i] = inbox[i]
<1>1. /\ log \in Seq(Message) /\ inbox \in Seq(Message) /\ item \in Seq(Message)
      /\ Len(log) \in Nat /\ Len(inbox) \in Nat /\ batch \in 1 .. Len(inbox)
      /\ DOMAIN item = 1 .. Len(item)
  BY LenProperties DEF MessagesOK, ItemOK
<1> PICK taken : taken = SubSeq(inbox, 1, batch)
  OBVIOUS
<1>2. /\ taken \in Seq(Message) /\ Len(taken) = batch
      /\ \A i \in 1 .. batch : taken[i] = inbox[i]
  <2>1. \A i \in 1 .. batch : inbox[i] \in Message
    BY <1>1, ElementOfSeq
  <2> QED BY <1>1, <2>1, SubSeqProperties
<1> PICK mark : mark = <<Marker>>
  OBVIOUS
<1>3. mark \in Seq(Message) /\ Len(mark) = 1 /\ mark[1] = Marker
  BY MarkerIsMessage
<1> PICK past : past = log \o mark
  OBVIOUS
<1>4. /\ past \in Seq(Message) /\ Len(past) = Len(log) + 1
      /\ \A i \in 1 .. Len(log) : past[i] = log[i]
      /\ past[Len(log) + 1] = Marker
  <2>1. /\ past \in Seq(Message) /\ Len(past) = Len(log) + 1
        /\ \A i \in 1 .. Len(log) + 1 : past[i] =
               IF i <= Len(log) THEN log[i] ELSE mark[i - Len(log)]
    BY <1>1, <1>3, ConcatProperties
  <2>2. \A i \in 1 .. Len(log) : past[i] = log[i]
    BY <1>1, <2>1
  <2>3. past[Len(log) + 1] = mark[1]
    BY <1>1, <2>1
  <2> QED BY <1>3, <2>1, <2>2, <2>3
<1>5. item = past \o taken
  BY DEF ItemOK
<1>6. /\ Len(item) = Len(past) + batch
      /\ \A i \in 1 .. Len(past) + batch : item[i] =
             IF i <= Len(past) THEN past[i] ELSE taken[i - Len(past)]
  BY <1>1, <1>2, <1>4, <1>5, ConcatProperties
<1>7. \A i \in 1 .. Len(log) : item[i] = log[i]
  BY <1>1, <1>4, <1>6
<1>8. item[Len(log) + 1] = Marker
  BY <1>1, <1>4, <1>6
<1>9. ASSUME NEW i \in 1 .. batch PROVE item[Len(log) + 1 + i] = inbox[i]
  <2> PICK j : j = Len(log) + 1 + i
    OBVIOUS
  <2>1. j \in 1 .. Len(past) + batch /\ ~(j <= Len(past)) /\ j - Len(past) = i
    BY <1>1, <1>4
  <2>2. item[j] = taken[i]
    BY <1>6, <2>1
  <2> QED BY <1>2, <2>2
<1> QED BY <1>1, <1>4, <1>6, <1>7, <1>8, <1>9

\* What is in a work item comes from the log, or is a message taken.
LEMMA ItemEvents ==
    ASSUME MessagesOK, ItemOK, StartsFirst, InboxOutstanding, ~Idle,
           ConsumedIds \subseteq ScheduledIds,
           NEW i \in DOMAIN item
    PROVE  /\ item[i] \in Message /\ IsEvent(item[i])
           /\ item[i].type = "ExecutionStarted" => i = 2
           /\ item[i].type \in Created \cup Resolved => item[i].id \in ScheduledIds
<1>0. item \in Seq(Message) /\ log \in Seq(Message) /\ inbox \in Seq(Message)
  BY DEF MessagesOK
<1>1. /\ Len(log) \in Nat /\ batch \in 1 .. Len(inbox) /\ Len(inbox) \in Nat
      /\ Len(item) = Len(log) + 1 + batch /\ i \in 1 .. Len(item)
      /\ DOMAIN log = 1 .. Len(log) /\ DOMAIN inbox = 1 .. Len(inbox)
  BY <1>0, ItemParts, LenProperties
<1>2. item[i] \in Message /\ IsEvent(item[i])
  BY <1>0, <1>1, ElementOfSeq, MessageIsEvent
<1>3. CASE i \in 1 .. Len(log)
  <2>1. item[i] = log[i] /\ i \in DOMAIN log
    BY <1>1, <1>3, ItemParts
  <2> QED BY <1>2, <2>1 DEF StartsFirst, ScheduledIds, ConsumedIds, IdsIn
<1>4. CASE i = Len(log) + 1
  <2>1. item[i].type = "OrchestratorStarted"
    BY <1>4, ItemParts, MarkerIsMessage
  <2> QED BY <1>2, <2>1 DEF Created, Resolved
<1>5. CASE i \in Len(log) + 2 .. Len(item)
  <2> PICK k : k = i - Len(log) - 1
    OBVIOUS
  <2>1. k \in 1 .. batch /\ i = Len(log) + 1 + k /\ k \in DOMAIN inbox
    BY <1>1, <1>5
  <2>2. item[i] = inbox[k]
    BY <2>1, ItemParts
  <2>3. item[i].type = "ExecutionStarted" => i = 2
    <3>1. item[i].type = "ExecutionStarted" => log = <<>> /\ k = 1
      BY <2>1, <2>2 DEF StartsFirst
    <3>2. log = <<>> => Len(log) = 0
      OBVIOUS
    <3> QED BY <1>1, <2>1, <3>1, <3>2
  <2> QED BY <1>2, <2>1, <2>2, <2>3 DEF InboxOutstanding
<1> QED BY <1>1, <1>3, <1>4, <1>5

-----------------------------------------------------------------------------
(* The executor, run on work items.                                        *)

\* An execution that is not there does nothing.
LEMMA IdleRests ==
    ASSUME ItemOK, Idle
    PROVE  ~Execute /\ ~(Len(history) < Len(item)) /\ pc = "event"
<1>1. history = <<>> /\ item = <<>> /\ pc = "event"
  BY DEF ItemOK, Idle
<1>2. ~Execute
  BY <1>1 DEF Execute, Poll, create_timer, call_activity, call_sub_orchestrator, Schedule,
       await_signal_event, TaskReady, TaskPending, TaskForsaken, TaskIgnored, TaskPanics,
       PolledAgain, FinishStep, Block, Complete, ReturnAtOnce, ReturnIgnored, DrainTask,
       DrainWaiter, NextEvent, Awaited, AtTask, Uncalled, InStep, AtStepEnd, AtReturn, Polling
<1> QED BY <1>1, <1>2

\* What the worker does with the executor is a step of it, on the next event of
\* the work item.
LEMMA WorkIsAnyStep ==
    ASSUME LedgerInv, HistoryOK, ExecuteEvent \/ ExecuteStep \/ ExecuteEnd
    PROVE  AnyStep /\ ~Idle
<1>0. /\ MessagesOK /\ ItemOK /\ StartsFirst /\ InboxOutstanding
      /\ ConsumedIds \subseteq ScheduledIds
  BY DEF LedgerInv
<1>1. CASE ExecuteStep \/ ExecuteEnd
  BY <1>0, <1>1, IdleRests DEF ExecuteStep, ExecuteEnd, AnyStep
<1>2. CASE ExecuteEvent
  <2> PICK i : i = Len(history) + 1
    OBVIOUS
  <2> PICK e : e = item[i]
    OBVIOUS
  <2>1. process_event(e) /\ Len(history) < Len(item) /\ ~Idle
    BY <1>0, <1>2, IdleRests DEF ExecuteEvent
  <2>2. /\ Len(item) \in Nat /\ DOMAIN item = 1 .. Len(item)
        /\ Len(history) \in Nat /\ DOMAIN history = 1 .. Len(history)
    BY <1>0, LenProperties DEF MessagesOK, HistoryOK
  <2>3. i \in DOMAIN item
    BY <2>1, <2>2
  <2>4. IsEvent(e) /\ (e.type = "ExecutionStarted" => i = 2)
    BY <1>0, <2>1, <2>3, ItemEvents
  <2>5. ASSUME e.type = "ExecutionStarted", HasStarted PROVE FALSE
    <3>1. PICK j \in DOMAIN history : history[j].type = "ExecutionStarted"
      BY <2>5 DEF HasStarted
    <3>2. j = 1 /\ history[j] = item[j] /\ j \in DOMAIN item
      BY <1>0, <2>1, <2>2, <2>4, <2>5, <3>1 DEF ItemOK
    <3>3. j = 2
      BY <1>0, <2>1, <3>1, <3>2, ItemEvents
    <3> QED BY <3>2, <3>3
  <2> QED BY <2>1, <2>4, <2>5 DEF AnyStep, StartsOnce
<1> QED BY <1>1, <1>2

\* The actions stay finitely many.
LEMMA FiniteActions ==
    ASSUME AnyStep, IsFiniteSet(DOMAIN pending_actions)
    PROVE  IsFiniteSet(DOMAIN pending_actions')
<1>1. ASSUME NEW id, NEW kind, pending_actions' = Put(pending_actions, id, kind)
      PROVE  IsFiniteSet(DOMAIN pending_actions')
  <2>1. DOMAIN pending_actions' = DOMAIN pending_actions \cup {id}
    BY <1>1 DEF Put
  <2> QED BY <2>1, FS_AddElement
<1>2. ASSUME NEW id, pending_actions' = Remove(pending_actions, id)
      PROVE  IsFiniteSet(DOMAIN pending_actions')
  <2>1. DOMAIN pending_actions' \in SUBSET DOMAIN pending_actions
    BY <1>2 DEF Remove
  <2> QED BY <2>1, FS_Subset
<1>3. CASE DrainTask
  BY <1>1, <1>3 DEF DrainTask
<1>4. CASE (Execute \/ get_actions) /\ ~DrainTask
  BY <1>1, <1>4, PollActions
<1>5. ASSUME NEW e, process_event(e) PROVE IsFiniteSet(DOMAIN pending_actions')
  <2>1. \/ UNCHANGED pending_actions
        \/ \E id, kind : pending_actions' = Put(pending_actions, id, kind)
        \/ \E id : pending_actions' = Remove(pending_actions, id)
    BY <1>5 DEF process_event, ExecutionStarted, ExecutionCompleted, ExecutionTerminated,
                IgnoredEvent, TaskScheduled, TimerCreated, SubOrchestrationInstanceCreated,
                Acknowledge, TaskCompleted, TimerFired, TaskFailed,
                SubOrchestrationInstanceCompleted, SubOrchestrationInstanceFailed,
                UnblockAndPoll, Unblock, EventRaised, ctx
  <2> QED BY <1>1, <1>2, <2>1
<1> QED BY <1>3, <1>4, <1>5 DEF AnyStep

\* An execution ends in get_actions and nowhere else.
LEMMA NotDoneYet ==
    ASSUME Execute \/ (\E e : process_event(e))
    PROVE  pc' # "done"
<1>1. CASE Execute
  BY <1>1 DEF Execute, Poll, create_timer, call_activity, call_sub_orchestrator, Schedule,
       await_signal_event, TaskReady, TaskPending, TaskForsaken, TaskIgnored, TaskPanics,
       PolledAgain, FinishStep, Block, Complete, ReturnAtOnce, ReturnIgnored, DrainTask,
       DrainWaiter, NextEvent, Awaited, AtTask, Uncalled, InStep, AtStepEnd, AtReturn, Polling,
       Goto, Panic
<1>2. ASSUME NEW e, process_event(e) PROVE pc' # "done"
  BY <1>2, EventControl
<1> QED BY <1>1, <1>2

\* The executor goes through the work item event by event.
LEMMA ExecutedItem ==
    ASSUME LedgerInv, HistoryOK, ExecuteEvent \/ ExecuteStep \/ ExecuteEnd
    PROVE  ItemOK'
<1>0. /\ MessagesOK /\ ItemOK /\ AnyStep /\ ~Idle
      /\ UNCHANGED <<log, inbox, item, batch, status>>
  BY WorkIsAnyStep DEF LedgerInv, ExecuteEvent, ExecuteStep, ExecuteEnd, sidecar
<1>1. IsFiniteSet(DOMAIN pending_actions')
  BY <1>0, FiniteActions DEF ItemOK
<1>2. ~Idle' /\ Len(item') = Len(item)
  BY <1>0 DEF Idle
<1>3. /\ Len(item) \in Nat /\ Len(history) \in Nat /\ DOMAIN history = 1 .. Len(history)
  BY <1>0, LenProperties DEF MessagesOK, HistoryOK
<1>4. /\ status' = "running" /\ batch' > 0
      /\ item' = log' \o <<Marker>> \o SubSeq(inbox', 1, batch')
  BY <1>0 DEF ItemOK
<1>5. CASE ExecuteStep \/ ExecuteEnd
  <2>1. history' = history /\ (pc' = "done" => Len(history) = Len(item))
    BY <1>5, EventOrNone, NotDoneYet DEF ExecuteStep, ExecuteEnd
  <2> QED BY <1>0, <1>1, <1>2, <1>3, <1>4, <2>1 DEF ItemOK
<1>6. CASE ExecuteEvent
  <2> PICK e : e = item[Len(history) + 1]
    OBVIOUS
  <2>1. process_event(e) /\ Len(history) < Len(item)
    BY <1>6 DEF ExecuteEvent
  <2>2. history' = Append(history, e) /\ pc' # "done"
    BY <2>1, EventTaken, NotDoneYet
  <2>3. /\ Len(history') = Len(history) + 1 /\ DOMAIN history' = 1 .. Len(history) + 1
        /\ \A i \in 1 .. Len(history) : history'[i] = history[i]
        /\ history'[Len(history) + 1] = e
    <3> PICK S : S = {history[i] : i \in DOMAIN history} \cup {e}
      OBVIOUS
    <3>1. history \in Seq(S) /\ e \in S
      <4>1. {history[i] : i \in DOMAIN history} \subseteq S
        OBVIOUS
      <4> QED BY <4>1, SeqMonotonic DEF HistoryOK
    <3> QED BY <2>2, <3>1, AppendProperties, LenProperties
  <2>4. Len(history') <= Len(item) /\ \A i \in DOMAIN history' : history'[i] = item[i]
    BY <1>0, <1>3, <2>1, <2>3 DEF ItemOK
  <2> QED BY <1>0, <1>1, <1>2, <1>4, <2>2, <2>4 DEF ItemOK
<1> QED BY <1>5, <1>6

-----------------------------------------------------------------------------
(* The worker and the messages.                                            *)

\* What the executor does leaves the sidecar alone.
LEMMA SidecarKept ==
    ASSUME LedgerInv, ItemOK', UNCHANGED sidecar
    PROVE  LedgerInv'
<1>1. UNCHANGED <<log, inbox, item, batch, status>>
  BY DEF sidecar
<1>2. MessagesOK' /\ StartsFirst'
  BY <1>1 DEF LedgerInv, MessagesOK, StartsFirst
<1>3. ScheduledIds' = ScheduledIds /\ ConsumedIds' = ConsumedIds
  BY <1>1 DEF ScheduledIds, ConsumedIds, IdsIn
<1>4. InboxOutstanding'
  BY <1>1, <1>3 DEF LedgerInv, InboxOutstanding
<1> QED BY <1>2, <1>3, <1>4 DEF LedgerInv, Promise!Consecutive

\* A work item that was handed out is the log and all of the inbox.
LEMMA HandedOut ==
    ASSUME LedgerInv, GetWorkItem
    PROVE  LedgerInv'
<1>0. /\ MessagesOK /\ ItemOK /\ StartsFirst /\ InboxOutstanding /\ Idle
      /\ UNCHANGED <<log, inbox, status, history, pc, pending_actions>>
      /\ log \in Seq(Message) /\ inbox \in Seq(Message) /\ inbox # <<>>
      /\ batch' = Len(inbox) /\ item' = log \o <<Marker>> \o inbox
  BY DEF LedgerInv, GetWorkItem, MessagesOK, vars, ctx, Marker
<1>1. item' \in Seq(Message) /\ Len(item') = Len(log) + 1 + Len(inbox)
  <2> PICK mark : mark = <<Marker>>
    OBVIOUS
  <2>1. mark \in Seq(Message) /\ Len(mark) = 1
    BY MarkerIsMessage
  <2>2. log \o mark \in Seq(Message) /\ Len(log \o mark) = Len(log) + 1
    BY <1>0, <2>1, ConcatProperties
  <2>3. /\ (log \o mark) \o inbox \in Seq(Message)
        /\ Len((log \o mark) \o inbox) = Len(log \o mark) + Len(inbox)
    BY <1>0, <2>2, ConcatProperties
  <2> QED BY <1>0, <2>2, <2>3
<1>2. Len(log) \in Nat /\ Len(inbox) \in Nat /\ Len(inbox) > 0
  BY <1>0, EmptySeq, LenProperties
<1>3. ~Idle'
  <2>1. Len(item') # 0
    BY <1>1, <1>2
  <2> QED BY <2>1 DEF Idle
<1>4. SubSeq(inbox, 1, Len(inbox)) = inbox
  BY <1>0, SubSeqFull
<1>5. MessagesOK'
  BY <1>0, <1>1, <1>2 DEF MessagesOK
<1>6. ItemOK'
  <2>1. history' = <<>> /\ pc' = "event" /\ IsFiniteSet(DOMAIN pending_actions')
    BY <1>0 DEF ItemOK
  <2>2. Len(history') = 0 /\ DOMAIN history' = {}
    BY <2>1
  <2>3. status' = "running" /\ batch' > 0
    BY <1>0, <1>2 DEF GetWorkItem
  <2>4. item' = log' \o <<Marker>> \o SubSeq(inbox', 1, batch')
    BY <1>0, <1>4
  <2> QED BY <1>1, <1>2, <1>3, <2>1, <2>2, <2>3, <2>4 DEF ItemOK
<1>7. ScheduledIds' = ScheduledIds /\ ConsumedIds' = ConsumedIds
  BY <1>0 DEF ScheduledIds, ConsumedIds, IdsIn
<1>8. StartsFirst' /\ InboxOutstanding'
  BY <1>0, <1>7 DEF StartsFirst, InboxOutstanding
<1> QED BY <1>5, <1>6, <1>7, <1>8 DEF LedgerInv, Promise!Consecutive

\* An execution that was lost leaves the log and the inbox as they were.
LEMMA Dropped ==
    ASSUME LedgerInv, item' = <<>>, batch' = 0, FreshExecutor, UNCHANGED <<log, inbox, status>>
    PROVE  LedgerInv'
<1>1. /\ history' = <<>> /\ pc' = "event" /\ DOMAIN pending_actions' = {}
      /\ Len(history') = 0 /\ DOMAIN history' = {} /\ Len(item') = 0
  BY EmptyMapIsMap DEF FreshExecutor
<1>2. ItemOK'
  BY <1>1, FS_EmptySet DEF ItemOK, Idle
<1>3. MessagesOK' /\ StartsFirst'
  BY LenProperties, EmptySeq DEF LedgerInv, MessagesOK, StartsFirst
<1>4. ScheduledIds' = ScheduledIds /\ ConsumedIds' = ConsumedIds
  BY DEF ScheduledIds, ConsumedIds, IdsIn
<1>5. InboxOutstanding'
  BY <1>4 DEF LedgerInv, InboxOutstanding
<1> QED BY <1>2, <1>3, <1>4, <1>5 DEF LedgerInv, Promise!Consecutive

\* A message that arrives neither starts the instance nor acknowledges a call; a
\* result is one of a task that was scheduled.
Permitted(m) ==
    /\ m \in Message
    /\ m.type \notin Created \cup {"ExecutionStarted"}
    /\ m.type \in Resolved => m.id \in ScheduledIds

LEMMA Arrived ==
    ASSUME LedgerInv, NEW m, Permitted(m), Arrives(m)
    PROVE  LedgerInv'
<1>0. /\ MessagesOK /\ ItemOK /\ StartsFirst /\ InboxOutstanding
      /\ UNCHANGED <<log, item, batch, status, history, pc, pending_actions>>
      /\ inbox \in Seq(Message) /\ Len(inbox) \in Nat /\ DOMAIN inbox = 1 .. Len(inbox)
      /\ inbox' = Append(inbox, m) /\ m \in Message /\ batch \in 0 .. Len(inbox)
  BY LenProperties DEF LedgerInv, Arrives, MessagesOK, vars, ctx, Permitted
<1>1. /\ inbox' \in Seq(Message) /\ Len(inbox') = Len(inbox) + 1
      /\ \A i \in 1 .. Len(inbox) : inbox'[i] = inbox[i]
      /\ inbox'[Len(inbox) + 1] = m
      /\ DOMAIN inbox' = 1 .. Len(inbox) + 1
  BY <1>0, AppendProperties, LenProperties
<1>2. SubSeq(inbox', 1, batch) = SubSeq(inbox, 1, batch)
  <2> PICK s : s = SubSeq(inbox, 1, batch)
    OBVIOUS
  <2> PICK t : t = SubSeq(inbox', 1, batch)
    OBVIOUS
  <2>1. \A i \in 1 .. batch : inbox[i] \in Message /\ inbox'[i] = inbox[i]
    BY <1>0, <1>1, ElementOfSeq
  <2>2. 1 \in Int /\ batch \in Int /\ batch - 1 + 1 = batch /\ \A i \in 1 .. batch : 1 + i - 1 = i
    BY <1>0
  <2>3. s \in Seq(Message) /\ Len(s) = batch /\ \A i \in 1 .. batch : s[i] = inbox[i]
    BY <1>0, <2>1, <2>2, SubSeqProperties
  <2>4. t \in Seq(Message) /\ Len(t) = batch /\ \A i \in 1 .. batch : t[i] = inbox'[i]
    BY <1>0, <2>1, <2>2, SubSeqProperties
  <2>5. s = t
    BY <2>1, <2>3, <2>4, SeqEqual
  <2> QED BY <2>5
<1>3. MessagesOK'
  BY <1>0, <1>1 DEF MessagesOK
<1>4. ItemOK'
  BY <1>0, <1>2 DEF ItemOK, Idle
<1>5. ScheduledIds' = ScheduledIds /\ ConsumedIds' = ConsumedIds
  BY <1>0 DEF ScheduledIds, ConsumedIds, IdsIn
<1>6. StartsFirst' /\ InboxOutstanding'
  BY <1>0, <1>1, <1>5 DEF StartsFirst, InboxOutstanding, Permitted
<1> QED BY <1>3, <1>4, <1>5, <1>6 DEF LedgerInv, Promise!Consecutive

-----------------------------------------------------------------------------
(* The answer.                                                             *)

\* What two logs in a row have.
LEMMA IdsOfConcat ==
    ASSUME NEW S, NEW s \in Seq(S), NEW t \in Seq(S), NEW types
    PROVE  IdsIn(s \o t, types) = IdsIn(s, types) \cup IdsIn(t, types)
<1> PICK st : st = s \o t
  OBVIOUS
<1>1. /\ Len(s) \in Nat /\ Len(t) \in Nat
      /\ DOMAIN s = 1 .. Len(s) /\ DOMAIN t = 1 .. Len(t)
  BY LenProperties
<1>2. /\ st \in Seq(S) /\ Len(st) = Len(s) + Len(t)
      /\ \A i \in 1 .. Len(s) + Len(t) : st[i] = IF i <= Len(s) THEN s[i] ELSE t[i - Len(s)]
  BY ConcatProperties
<1>3. DOMAIN st = 1 .. Len(s) + Len(t)
  BY <1>2, LenProperties
<1>4. ASSUME NEW id \in IdsIn(st, types)
      PROVE  id \in IdsIn(s, types) \cup IdsIn(t, types)
  <2>1. PICK i \in DOMAIN st : st[i].type \in types /\ id = st[i].id
    BY <1>4 DEF IdsIn
  <2>2. CASE i <= Len(s)
    <3>1. i \in DOMAIN s /\ st[i] = s[i]
      BY <1>1, <1>2, <1>3, <2>1, <2>2
    <3> QED BY <2>1, <3>1 DEF IdsIn
  <2>3. CASE ~(i <= Len(s))
    <3> PICK j : j = i - Len(s)
      OBVIOUS
    <3>1. j \in DOMAIN t /\ st[i] = t[j]
      BY <1>1, <1>2, <1>3, <2>1, <2>3
    <3> QED BY <2>1, <3>1 DEF IdsIn
  <2> QED BY <2>2, <2>3
<1>5. ASSUME NEW id \in IdsIn(s, types)
      PROVE  id \in IdsIn(st, types)
  <2>1. PICK i \in DOMAIN s : s[i].type \in types /\ id = s[i].id
    BY <1>5 DEF IdsIn
  <2>2. i \in DOMAIN st /\ st[i] = s[i]
    BY <1>1, <1>2, <1>3, <2>1
  <2> QED BY <2>1, <2>2 DEF IdsIn
<1>6. ASSUME NEW id \in IdsIn(t, types)
      PROVE  id \in IdsIn(st, types)
  <2>1. PICK j \in DOMAIN t : t[j].type \in types /\ id = t[j].id
    BY <1>6 DEF IdsIn
  <2> PICK i : i = Len(s) + j
    OBVIOUS
  <2>2. i \in DOMAIN st /\ i - Len(s) = j /\ ~(i <= Len(s))
    BY <1>1, <1>3, <2>1
  <2>3. st[i] = t[j]
    BY <1>2, <1>3, <2>2
  <2> QED BY <2>1, <2>2, <2>3 DEF IdsIn
<1> QED BY <1>4, <1>5, <1>6

\* An action is acknowledged by an event with its id, of a type that is a task's
\* for the action of a task.
LEMMA AckOf ==
    ASSUME MapsOK, NEW id \in DOMAIN pending_actions
    PROVE  /\ Acknowledgement(id) \in Message
           /\ Acknowledgement(id).id = id
           /\ Acknowledgement(id).type \notin Resolved \cup {"ExecutionStarted"}
           /\ Acknowledgement(id).type \in Created <=> pending_actions[id] \in TaskKinds
<1>1. id \in Nat /\ pending_actions[id] \in Actions
  BY DEF MapsOK, IsMap
<1>2. None \in Option /\ None \in Orchestrators \cup {None}
  BY DEF Option
<1>3. {"TaskScheduled", "TimerCreated", "SubOrchestrationInstanceCreated",
       "ExecutionCompleted"} \subseteq EventTypes \ {"EventRaised"}
  BY DEF EventTypes, Created
<1>4. CASE pending_actions[id] = "activity"
  <2>1. Acknowledgement(id) = Msg("TaskScheduled", id, None, None)
    BY <1>4 DEF Acknowledgement
  <2> QED BY <1>1, <1>2, <1>3, <1>4, <2>1, MsgIsMessage DEF Created, Resolved, TaskKinds
<1>5. CASE pending_actions[id] = "timer"
  <2>1. Acknowledgement(id) = Msg("TimerCreated", id, None, None)
    BY <1>5 DEF Acknowledgement
  <2> QED BY <1>1, <1>2, <1>3, <1>5, <2>1, MsgIsMessage DEF Created, Resolved, TaskKinds
<1>6. CASE pending_actions[id] = "sub"
  <2>1. Acknowledgement(id) = Msg("SubOrchestrationInstanceCreated", id, None, None)
    BY <1>6 DEF Acknowledgement
  <2> QED BY <1>1, <1>2, <1>3, <1>6, <2>1, MsgIsMessage DEF Created, Resolved, TaskKinds
<1>7. CASE pending_actions[id] \notin TaskKinds
  <2>1. Acknowledgement(id) = Msg("ExecutionCompleted", id, None, None)
    BY <1>7 DEF Acknowledgement, TaskKinds
  <2>2. "ExecutionCompleted" \notin Created \cup Resolved \cup {"ExecutionStarted"}
    BY DEF Created, Resolved
  <2>3. /\ Acknowledgement(id) \in Message /\ Acknowledgement(id).id = id
        /\ Acknowledgement(id).type = "ExecutionCompleted"
    BY <1>1, <1>2, <1>3, <2>1, MsgIsMessage
  <2> QED BY <1>7, <2>2, <2>3
<1> QED BY <1>4, <1>5, <1>6, <1>7 DEF TaskKinds

\* The acknowledgements, in the order of the answer.
Acks(order) == [i \in DOMAIN order |-> Acknowledgement(order[i])]

LEMMA AcksOf ==
    ASSUME MapsOK, IsFiniteSet(DOMAIN pending_actions),
           NEW order \in Orders(DOMAIN pending_actions)
    PROVE  /\ Acks(order) \in Seq(Message)
           /\ \A i \in DOMAIN Acks(order) :
                 Acks(order)[i].type \notin Resolved \cup {"ExecutionStarted"}
           /\ IdsIn(Acks(order), Created) = {id \in DOMAIN pending_actions : Asked(id)}
           /\ IdsIn(Acks(order), Resolved) = {}
<1> PICK n : n = Cardinality(DOMAIN pending_actions)
  OBVIOUS
<1>1. n \in Nat /\ DOMAIN order = 1 .. n /\ \A i \in 1 .. n : order[i] \in DOMAIN pending_actions
  BY FS_CardinalityType DEF Orders
<1>2. \A id \in DOMAIN pending_actions : \E i \in 1 .. n : order[i] = id
  BY <1>1 DEF Orders
<1> PICK acks : acks = Acks(order)
  OBVIOUS
<1>3. DOMAIN acks = 1 .. n /\ \A i \in 1 .. n : acks[i] = Acknowledgement(order[i])
  BY <1>1 DEF Acks
<1>4. ASSUME NEW i \in 1 .. n
      PROVE  /\ acks[i] \in Message
             /\ acks[i].id = order[i]
             /\ acks[i].type \notin Resolved \cup {"ExecutionStarted"}
             /\ acks[i].type \in Created <=> Asked(order[i])
  BY <1>1, <1>3, AckOf DEF Asked
<1>5. acks \in Seq(Message)
  <2>1. acks = [i \in 1 .. n |-> acks[i]]
    BY <1>1 DEF Acks
  <2>2. acks \in [1 .. n -> Message]
    BY <1>4, <2>1
  <2> QED BY <1>1, <2>2, SeqDef
<1>6. IdsIn(acks, Created) = {id \in DOMAIN pending_actions : Asked(id)}
  <2>1. ASSUME NEW id \in IdsIn(acks, Created)
        PROVE  id \in DOMAIN pending_actions /\ Asked(id)
    BY <1>1, <1>3, <1>4 DEF IdsIn
  <2>2. ASSUME NEW id \in DOMAIN pending_actions, Asked(id)
        PROVE  id \in IdsIn(acks, Created)
    BY <1>2, <1>3, <1>4, <2>2 DEF IdsIn
  <2> QED BY <2>1, <2>2
<1>7. IdsIn(acks, Resolved) = {}
  BY <1>3, <1>4 DEF IdsIn
<1> QED BY <1>3, <1>4, <1>5, <1>6, <1>7

\* The executor is done with a work item when it has seen all of it.
LEMMA AllSeen ==
    ASSUME LedgerInv, HistoryOK, pc = "done"
    PROVE  /\ ~Idle /\ DOMAIN history = DOMAIN item
           /\ \A i \in DOMAIN item : history[i] = item[i]
<1>1. MessagesOK /\ ItemOK /\ ~Idle
  BY IdleRests DEF LedgerInv
<1>2. Len(history) = Len(item) /\ DOMAIN history = 1 .. Len(history) /\ DOMAIN item = 1 .. Len(item)
  BY <1>1, LenProperties DEF ItemOK, MessagesOK, HistoryOK
<1> QED BY <1>1, <1>2 DEF ItemOK

\* What was asked for follows, in its numbers, what the log has.
LEMMA AskedFollows ==
    ASSUME AInv, LedgerInv, pc = "done", NEW id \in DOMAIN pending_actions, Asked(id),
           id # 1
    PROVE  id - 1 \in ScheduledIds \/ (id - 1 \in DOMAIN pending_actions /\ Asked(id - 1))
<1>1. /\ SInv /\ IInv /\ ActionKept /\ ActionOfCall /\ NumberedInOrder
      /\ HistoryOK /\ CallsOK /\ Quiescent
  BY DEF AInv, SInv, IInv, TypeOK
<1>2. /\ MessagesOK /\ ItemOK /\ StartsFirst /\ InboxOutstanding
      /\ ConsumedIds \subseteq ScheduledIds
  BY DEF LedgerInv
<1>3. \A h \in TaskCalls : ~InChannel(h)
  BY <1>1 DEF Quiescent, CallsOK, InChannel, TaskCalls
<1>4. fn # "none" /\ \E h \in TaskCalls : calls[h].id = id
  BY <1>1 DEF ActionOfCall, Made, Asked
<1>5. octx_sequence_number \in Nat
  BY <1>1 DEF CallsOK
<1>6. id \in 1 .. octx_sequence_number
  BY <1>1, <1>4 DEF NumberedInOrder
<1>7. id - 1 \in 1 .. octx_sequence_number
  BY <1>5, <1>6
<1>8. PICK g \in TaskCalls : calls[g].id = id - 1
  BY <1>1, <1>7 DEF NumberedInOrder
<1>9. Acknowledged(id - 1) \/ Asked(id - 1)
  BY <1>1, <1>3, <1>4, <1>8 DEF ActionKept
<1>10. CASE Acknowledged(id - 1)
  <2>1. PICK i \in DOMAIN history : history[i].type \in Created /\ history[i].id = id - 1
    BY <1>10 DEF Acknowledged
  <2>2. i \in DOMAIN item /\ item[i] = history[i] /\ ~Idle
    BY <1>1, AllSeen
  <2> QED BY <1>2, <2>1, <2>2, ItemEvents
<1>11. CASE Asked(id - 1)
  BY <1>11 DEF Asked
<1> QED BY <1>9, <1>10, <1>11

\* An answer is a turn of the instance.
LEMMA AnswerSent ==
    ASSUME AInv, LedgerInv, complete_orchestrator_task
    PROVE  LedgerInv' /\ Promise!Turn
<1>0. /\ MessagesOK /\ ItemOK /\ StartsFirst /\ InboxOutstanding
      /\ ConsumedIds \subseteq ScheduledIds /\ Promise!Consecutive(ScheduledIds)
      /\ HistoryOK /\ MapsOK /\ IsFiniteSet(DOMAIN pending_actions)
      /\ pc = "done" /\ FreshExecutor /\ item' = <<>> /\ batch' = 0
      /\ inbox' = SubSeq(inbox, batch + 1, Len(inbox))
  BY DEF LedgerInv, AInv, SInv, IInv, TypeOK, ItemOK, complete_orchestrator_task
<1>1. /\ ~Idle /\ status = "running" /\ item \in Seq(Message) /\ inbox \in Seq(Message)
      /\ log \in Seq(Message) /\ batch \in 1 .. Len(inbox) /\ Len(inbox) \in Nat
      /\ DOMAIN inbox = 1 .. Len(inbox)
  BY <1>0, AllSeen, LenProperties DEF ItemOK, MessagesOK
<1>2. PICK order \in Orders(DOMAIN pending_actions) :
          log' = item \o Acks(order) /\ EndsBy(order)
  BY DEF complete_orchestrator_task, Acks
<1> PICK acks : acks = Acks(order)
  OBVIOUS
<1>3. /\ acks \in Seq(Message)
      /\ \A i \in DOMAIN acks : acks[i].type \notin Resolved \cup {"ExecutionStarted"}
      /\ IdsIn(acks, Created) = {id \in DOMAIN pending_actions : Asked(id)}
      /\ IdsIn(acks, Resolved) = {}
  BY <1>0, AcksOf
<1>4. log' = item \o acks /\ log' \in Seq(Message)
  BY <1>1, <1>2, <1>3, ConcatProperties
<1>5. \A i \in DOMAIN item :
          /\ item[i].type = "ExecutionStarted" => i = 2
          /\ item[i].type \in Created \cup Resolved => item[i].id \in ScheduledIds
  BY <1>0, <1>1, ItemEvents
<1>6. \A i \in DOMAIN log : i \in DOMAIN item /\ item[i] = log[i]
  <2>1. /\ Len(log) \in Nat /\ Len(item) = Len(log) + 1 + batch
        /\ DOMAIN item = 1 .. Len(item)
        /\ \A i \in 1 .. Len(log) : item[i] = log[i]
    BY <1>0, <1>1, ItemParts
  <2>2. DOMAIN log = 1 .. Len(log)
    BY <1>1, LenProperties
  <2>3. \A i \in 1 .. Len(log) : i \in 1 .. Len(item)
    BY <1>1, <2>1
  <2> QED BY <2>1, <2>2, <2>3
<1>7. IdsIn(item, Created) = ScheduledIds
  <2>1. IdsIn(item, Created) \subseteq ScheduledIds
    BY <1>5 DEF IdsIn
  <2>2. ScheduledIds \subseteq IdsIn(item, Created)
    BY <1>6 DEF IdsIn, ScheduledIds
  <2> QED BY <2>1, <2>2
<1>8. ConsumedIds \subseteq IdsIn(item, Resolved) /\ IdsIn(item, Resolved) \subseteq ScheduledIds
  <2>1. IdsIn(item, Resolved) \subseteq ScheduledIds
    BY <1>5 DEF IdsIn
  <2>2. ConsumedIds \subseteq IdsIn(item, Resolved)
    BY <1>6 DEF IdsIn, ConsumedIds
  <2> QED BY <2>1, <2>2
<1>9. ScheduledIds' = ScheduledIds \cup {id \in DOMAIN pending_actions : Asked(id)}
  <2>0. item \in Seq(Message) /\ acks \in Seq(Message)
    BY <1>1, <1>3
  <2>1. IdsIn(item \o acks, Created) = IdsIn(item, Created) \cup IdsIn(acks, Created)
    BY <2>0, IdsOfConcat
  <2>2. ScheduledIds' = IdsIn(item \o acks, Created)
    BY <1>4 DEF ScheduledIds, IdsIn
  <2> QED BY <1>3, <1>7, <2>1, <2>2
<1>10. ConsumedIds' = IdsIn(item, Resolved)
  <2>1. item \in Seq(Message) /\ acks \in Seq(Message)
    BY <1>1, <1>3
  <2>2. IdsIn(item \o acks, Resolved) = IdsIn(item, Resolved) \cup IdsIn(acks, Resolved)
    BY <2>1, IdsOfConcat
  <2>3. ConsumedIds' = IdsIn(item \o acks, Resolved)
    BY <1>4 DEF ConsumedIds, IdsIn
  <2> QED BY <1>3, <2>2, <2>3
<1>11. Promise!Consecutive(ScheduledIds)'
  <2>1. ASSUME NEW id \in ScheduledIds' PROVE id = 1 \/ id - 1 \in ScheduledIds'
    <3>1. CASE id \in ScheduledIds
      BY <1>0, <1>9, <3>1 DEF Promise!Consecutive
    <3>2. CASE id \in DOMAIN pending_actions /\ Asked(id)
      BY <1>0, <1>9, <3>2, AskedFollows
    <3> QED BY <1>9, <2>1, <3>1, <3>2
  <2> QED BY <2>1 DEF Promise!Consecutive
<1>12. status' \in {"running", "Terminated"} \cup Results
  <2>1. \A i \in DOMAIN order : order[i] \in DOMAIN pending_actions
    <3>1. Cardinality(DOMAIN pending_actions) \in Nat
      BY <1>0, FS_CardinalityType
    <3> QED BY <3>1 DEF Orders
  <2>2. \A i \in DOMAIN order : pending_actions[order[i]] \in Actions
    BY <1>0, <2>1 DEF MapsOK, IsMap
  <2> QED BY <1>1, <1>2, <2>2 DEF EndsBy, IsEnding, Actions
<1>13. /\ inbox' \in Seq(Message)
       /\ \A i \in DOMAIN inbox' : batch + i \in DOMAIN inbox /\ inbox'[i] = inbox[batch + i]
       /\ Len(inbox') \in Nat
  <2> PICK m : m = batch + 1
    OBVIOUS
  <2> PICK s : s = SubSeq(inbox, m, Len(inbox))
    OBVIOUS
  <2>1. CASE batch = Len(inbox)
    <3>1. s = <<>>
      <4>1. m > Len(inbox) /\ m \in Int
        BY <1>1, <2>1
      <4> QED BY <1>1, <4>1
    <3> QED BY <1>0, <3>1
  <2>2. CASE batch # Len(inbox)
    <3>1. m \in 1 .. Len(inbox) /\ m \in Int /\ Len(inbox) \in Int /\ m <= Len(inbox) + 1
      <4> PICK n : n = Len(inbox)
        OBVIOUS
      <4>1. n \in Nat /\ batch \in 1 .. n /\ batch # n
        BY <1>1, <2>2
      <4>2. m \in 1 .. n /\ m \in Int /\ n \in Int /\ m <= n + 1
        BY <4>1
      <4> QED BY <4>2
    <3>2. \A i \in m .. Len(inbox) : inbox[i] \in Message
      BY <1>1, <3>1, ElementOfSeq
    <3>3. /\ s \in Seq(Message) /\ Len(s) = Len(inbox) - m + 1
          /\ \A i \in 1 .. Len(inbox) - m + 1 : s[i] = inbox[m + i - 1]
      BY <3>1, <3>2, SubSeqProperties
    <3>4. DOMAIN s = 1 .. Len(inbox) - m + 1 /\ Len(s) \in Nat
      BY <3>3, LenProperties
    <3>5. ASSUME NEW i \in DOMAIN s PROVE batch + i \in DOMAIN inbox /\ s[i] = inbox[batch + i]
      <4>1. m + i - 1 = batch + i /\ batch + i \in 1 .. Len(inbox)
        BY <1>1, <3>4
      <4> QED BY <1>1, <3>3, <3>4, <4>1
    <3> QED BY <1>0, <3>3, <3>4, <3>5
  <2> QED BY <2>1, <2>2
<1>14. MessagesOK'
  <2>1. item' \in Seq(Message) /\ batch' \in 0 .. Len(inbox')
    BY <1>0, <1>13
  <2> QED BY <1>4, <1>12, <1>13, <2>1 DEF MessagesOK
<1>15. ItemOK'
  <2>1. /\ history' = <<>> /\ pc' = "event" /\ DOMAIN pending_actions' = {}
        /\ Len(history') = 0 /\ DOMAIN history' = {} /\ Len(item') = 0
    BY <1>0, EmptyMapIsMap DEF FreshExecutor
  <2> QED BY <1>0, <2>1, FS_EmptySet DEF ItemOK, Idle
<1>16. StartsFirst'
  <2>1. ASSUME NEW i \in DOMAIN log', log'[i].type = "ExecutionStarted" PROVE i = 2
    <3>0. Len(item) \in Nat /\ Len(acks) \in Nat /\ DOMAIN acks = 1 .. Len(acks)
          /\ DOMAIN item = 1 .. Len(item)
      BY <1>1, <1>3, LenProperties
    <3>1. /\ Len(log') = Len(item) + Len(acks)
          /\ \A j \in 1 .. Len(item) + Len(acks) :
                log'[j] = IF j <= Len(item) THEN item[j] ELSE acks[j - Len(item)]
      BY <1>1, <1>3, <1>4, ConcatProperties
    <3>2. i \in 1 .. Len(item) + Len(acks)
      BY <1>4, <3>1, LenProperties
    <3>3. CASE i <= Len(item)
      BY <1>5, <2>1, <3>0, <3>1, <3>2, <3>3
    <3>4. CASE ~(i <= Len(item))
      <4>1. i - Len(item) \in DOMAIN acks /\ log'[i] = acks[i - Len(item)]
        BY <3>0, <3>1, <3>2, <3>4
      <4> QED BY <1>3, <2>1, <4>1
    <3> QED BY <3>3, <3>4
  <2>2. ASSUME NEW i \in DOMAIN inbox' PROVE inbox'[i].type # "ExecutionStarted"
    <3>1. batch + i \in DOMAIN inbox /\ inbox'[i] = inbox[batch + i] /\ i \in Nat /\ i >= 1
      BY <1>13, LenProperties
    <3>2. batch + i # 1
      BY <1>1, <3>1
    <3> QED BY <1>0, <3>1, <3>2 DEF StartsFirst
  <2> QED BY <2>1, <2>2 DEF StartsFirst
<1>17. InboxOutstanding'
  BY <1>0, <1>9, <1>13 DEF InboxOutstanding
<1>18. LedgerInv'
  BY <1>8, <1>9, <1>10, <1>11, <1>14, <1>15, <1>16, <1>17 DEF LedgerInv
<1>19. Promise!Turn
  BY <1>1, <1>8, <1>9, <1>10, <1>11, <1>12 DEF Promise!Turn, Promise!Consecutive, Results
<1> QED BY <1>18, <1>19

-----------------------------------------------------------------------------
(* The instance.                                                           *)

InstInv == AInv /\ MInv /\ LedgerInv

\* The context that is made for each work item is as the first one.
LEMMA FreshContext ==
    ASSUME FreshExecutor
    PROVE  AInv' /\ MInv'
<1>1. Init'
  BY DEF FreshExecutor, Init
<1>2. Init' => AInv'
  BY InitAInv, PTL
<1>3. Init' => MInv'
  BY InitMInv, PTL
<1> QED BY <1>1, <1>2, <1>3

\* What may happen to an instance, whoever runs its tasks and whatever is put
\* on display of it.
Loses   == item' = <<>> /\ batch' = 0 /\ FreshExecutor /\ UNCHANGED <<log, inbox, status, saved>>
AnyMove == Work \/ Loses \/ \E m : Permitted(m) /\ Arrives(m)

LEMMA StepInstInv ==
    ASSUME InstInv, AnyMove \/ UNCHANGED all_vars
    PROVE  InstInv'
<1>0. AInv /\ MInv /\ LedgerInv /\ HistoryOK
  BY DEF InstInv, AInv, SInv, IInv, TypeOK
<1>1. CASE ExecuteEvent \/ ExecuteStep \/ ExecuteEnd
  <2>1. AnyStep
    BY <1>0, <1>1, WorkIsAnyStep
  <2>2. AInv' /\ MInv'
    BY <1>0, <2>1, StepAInv, StepMInv
  <2>3. UNCHANGED sidecar
    BY <1>1 DEF ExecuteEvent, ExecuteStep, ExecuteEnd
  <2>4. LedgerInv'
    BY <1>0, <1>1, <2>3, ExecutedItem, SidecarKept
  <2> QED BY <2>2, <2>4 DEF InstInv
<1>2. CASE GetWorkItem
  <2>1. UNCHANGED vars
    BY <1>2 DEF GetWorkItem
  <2>2. AInv' /\ MInv'
    BY <1>0, <2>1, StepAInv, StepMInv
  <2> QED BY <1>0, <1>2, <2>2, HandedOut DEF InstInv
<1>3. CASE complete_orchestrator_task
  <2>1. FreshExecutor
    BY <1>3 DEF complete_orchestrator_task
  <2> QED BY <1>0, <1>3, <2>1, FreshContext, AnswerSent DEF InstInv
<1>4. CASE Loses
  BY <1>0, <1>4, FreshContext, Dropped DEF InstInv, Loses
<1>5. ASSUME NEW m, Permitted(m), Arrives(m) PROVE InstInv'
  <2>1. UNCHANGED vars
    BY <1>5 DEF Arrives
  <2>2. AInv' /\ MInv'
    BY <1>0, <2>1, StepAInv, StepMInv
  <2> QED BY <1>0, <1>5, <2>2, Arrived DEF InstInv
<1>6. CASE UNCHANGED all_vars
  <2>1. UNCHANGED vars /\ UNCHANGED sidecar
    BY <1>6 DEF all_vars
  <2>2. AInv' /\ MInv'
    BY <1>0, <2>1, StepAInv, StepMInv
  <2>3. ItemOK'
    BY <1>0, <2>1 DEF LedgerInv, ItemOK, Idle, vars, sidecar, ctx
  <2> QED BY <1>0, <2>1, <2>2, <2>3, SidecarKept DEF InstInv
<1> QED BY <1>1, <1>2, <1>3, <1>4, <1>5, <1>6 DEF AnyMove, Work

\* A turn is an answer; nothing else changes what the instance has promised.
LEMMA TurnsOnly ==
    ASSUME InstInv, AnyMove \/ UNCHANGED all_vars
    PROVE  [Promise!Turn]_<<ScheduledIds, ConsumedIds, status>>
<1>0. AInv /\ LedgerInv
  BY DEF InstInv
<1>1. CASE complete_orchestrator_task
  BY <1>0, <1>1, AnswerSent
<1>2. CASE UNCHANGED <<log, status>>
  BY <1>2 DEF ScheduledIds, ConsumedIds, IdsIn
<1> QED BY <1>1, <1>2 DEF AnyMove, Work, GetWorkItem, ExecuteEvent, ExecuteStep, ExecuteEnd,
        Loses, Arrives, all_vars, sidecar

LEMMA InitInstInv == InstanceInit => InstInv /\ Promise!Init
<1> SUFFICES ASSUME InstanceInit PROVE InstInv /\ Promise!Init
  OBVIOUS
<1>1. PICK n \in Orchestrators : inbox = <<Msg("ExecutionStarted", 0, n, None)>>
  BY DEF InstanceInit
<1>2. /\ Msg("ExecutionStarted", 0, n, None) \in Message
      /\ Msg("ExecutionStarted", 0, n, None).type = "ExecutionStarted"
  <2>1. "ExecutionStarted" \in EventTypes \ {"EventRaised"} /\ None \in Option
    BY DEF EventTypes, Option
  <2> QED BY <2>1, MsgIsMessage
<1>3. /\ log = <<>> /\ item = <<>> /\ batch = 0 /\ status = "running"
      /\ history = <<>> /\ pc = "event" /\ DOMAIN pending_actions = {}
  BY EmptyMapIsMap DEF InstanceInit, Init
<1>4. inbox \in Seq(Message) /\ Len(inbox) = 1 /\ DOMAIN inbox = {1}
      /\ inbox[1].type = "ExecutionStarted"
  BY <1>1, <1>2
<1>5. MessagesOK /\ StartsFirst
  BY <1>3, <1>4 DEF MessagesOK, StartsFirst
<1>6. ItemOK
  BY <1>3, FS_EmptySet DEF ItemOK, Idle
<1>7. ScheduledIds = {} /\ ConsumedIds = {}
  BY <1>3 DEF ScheduledIds, ConsumedIds, IdsIn
<1>8. InboxOutstanding
  BY <1>4 DEF InboxOutstanding, Created, Resolved
<1>9. LedgerInv
  BY <1>5, <1>6, <1>7, <1>8 DEF LedgerInv, Promise!Consecutive
<1> QED BY <1>3, <1>7, <1>9, InitAInv, InitMInv DEF InstInv, InstanceInit, Promise!Init

\* A task that was asked for is one of the log.
LEMMA IssuedIsScheduled ==
    ASSUME LedgerInv, NEW e \in Issued
    PROVE  e.id \in ScheduledIds /\ e.id \in Nat
<1>1. /\ log \in Seq(Message) /\ inbox \in Seq(Message) /\ InboxOutstanding
      /\ Len(log) \in Nat /\ Len(inbox) \in Nat
      /\ DOMAIN log = 1 .. Len(log) /\ DOMAIN inbox = 1 .. Len(inbox)
  BY LenProperties DEF LedgerInv, MessagesOK
<1> PICK both : both = log \o inbox
  OBVIOUS
<1>2. /\ both \in Seq(Message) /\ DOMAIN both = 1 .. Len(log) + Len(inbox)
      /\ \A i \in 1 .. Len(log) + Len(inbox) :
            both[i] = IF i <= Len(log) THEN log[i] ELSE inbox[i - Len(log)]
  BY <1>1, ConcatProperties, LenProperties
<1>3. PICK i \in DOMAIN both : e = both[i] /\ e.type \in Created
  BY DEF Issued, EventsOf, Range
<1>4. CASE i <= Len(log)
  <2>1. i \in DOMAIN log /\ e = log[i] /\ e \in Message
    BY <1>1, <1>2, <1>3, <1>4, ElementOfSeq
  <2> QED BY <1>3, <2>1, MessageIsEvent DEF ScheduledIds, IdsIn, IsEvent
<1>5. CASE ~(i <= Len(log))
  <2>1. i - Len(log) \in DOMAIN inbox /\ e = inbox[i - Len(log)]
    BY <1>1, <1>2, <1>3, <1>5
  <2> QED BY <1>1, <1>3, <2>1 DEF InboxOutstanding
<1> QED BY <1>4, <1>5

\* The result of such a task may arrive.
LEMMA ResultPermitted ==
    ASSUME NEW type \in Resolved, NEW id \in ScheduledIds, id \in Nat, NEW value \in Option
    PROVE  Permitted(Msg(type, id, None, value))
<1>1. type \in EventTypes \ {"EventRaised"} /\ type \notin Created \cup {"ExecutionStarted"}
  BY DEF EventTypes, Resolved, Created
<1> QED BY <1>1, MsgIsMessage DEF Permitted

LEMMA EndedTask ==
    ASSUME LedgerInv, NEW e \in Issued, TaskEnds(e)
    PROVE  \E m : Permitted(m) /\ Arrives(m)
<1>1. PICK a \in Answers : Arrives(Msg(a.type, e.id, None, a.value))
  BY DEF TaskEnds
<1>2. a.type \in Resolved /\ a.value \in Option
  BY InstanceAssumption
<1> QED BY <1>1, <1>2, IssuedIsScheduled, ResultPermitted

LEMMA ClientSent ==
    ASSUME NEW e \in ClientEvents, ClientSends(e)
    PROVE  \E m : Permitted(m) /\ Arrives(m)
<1>1. e.type \notin Created \cup Resolved \cup {"ExecutionStarted"} /\ e \in Message
  BY InstanceAssumption DEF Created, Resolved, Message
<1> QED BY <1>1 DEF Permitted, ClientSends

LEMMA LostIsMove == ASSUME Crash \/ Abandon PROVE Loses
BY DEF Crash, Abandon, Loses

LEMMA InstanceMoves == ASSUME LedgerInv, InstanceNext PROVE AnyMove
BY EndedTask, ClientSent, LostIsMove DEF InstanceNext, AnyMove

-----------------------------------------------------------------------------
(* The theorems.                                                           *)

\* Through crashes, lost answers and panics, in whatever order messages come,
\* the executor that is made anew for each work item, the work item and the log
\* fit each other.
THEOREM InstanceInvariance == InstanceSpec => []InstInv
<1>1. InstanceInit => InstInv
  BY InitInstInv
<1>2. InstInv /\ [InstanceNext]_all_vars => InstInv'
  BY StepInstInv, InstanceMoves DEF InstInv
<1> QED BY <1>1, <1>2, PTL DEF InstanceSpec

\* Whatever orchestrator it executes, the instance keeps to its ledger: a turn
\* consumes only results of tasks that earlier turns scheduled, and schedules
\* under the numbers that follow; what was lost with a worker or an answer is
\* neither consumed nor scheduled.
THEOREM LedgerKept == InstanceSpec => KeepsLedger
<1>1. InstanceInit => Promise!Init
  BY InitInstInv
<1>2. InstInv /\ [InstanceNext]_all_vars
        => [Promise!Turn]_<<ScheduledIds, ConsumedIds, status>>
  BY TurnsOnly, InstanceMoves DEF InstInv
<1>3. InstanceSpec => [][Promise!Turn]_<<ScheduledIds, ConsumedIds, status>>
  BY <1>2, InstanceInvariance, PTL DEF InstanceSpec
<1> QED BY <1>1, <1>3, PTL DEF InstanceSpec, KeepsLedger, Promise!Ledger

-----------------------------------------------------------------------------
(* The activities.                                                         *)

\* The requests that are out are tasks of the log.
ActInv == InstInv /\ out \subseteq ScheduledIds \cap Nat

LEMMA ActivityMoves ==
    ASSUME ActInv, ActivitiesNext
    PROVE  /\ AnyMove \/ UNCHANGED all_vars
           /\ out' \subseteq out \cup (ScheduledIds \cap Nat)
<1>0. LedgerInv /\ out \subseteq ScheduledIds \cap Nat
  BY DEF ActInv, InstInv
<1>1. CASE Run
  BY <1>1, LostIsMove DEF Run, AnyMove, act_vars
<1>2. CASE WorkerCrash
  BY <1>2, LostIsMove DEF WorkerCrash, AnyMove
<1>3. CASE StreamEnds
  BY <1>3 DEF StreamEnds
<1>4. ASSUME NEW e \in Issued, ActivityRequest(e)
      PROVE  UNCHANGED all_vars /\ out' \subseteq out \cup (ScheduledIds \cap Nat)
  BY <1>0, <1>4, IssuedIsScheduled DEF ActivityRequest
<1>5. ASSUME NEW e \in Issued, OtherEnds(e)
      PROVE  AnyMove /\ out' = out
  BY <1>0, <1>5, EndedTask DEF OtherEnds, AnyMove, act_vars
<1>6. ASSUME NEW run \in runs, complete_activity_task(run)
      PROVE  AnyMove /\ out' \subseteq out
  <2>1. PICK v \in Outputs : Arrives(Msg("TaskCompleted", run.id, None, v))
    BY <1>6 DEF complete_activity_task
  <2>2. v \in Option
    BY InstanceAssumption DEF Outputs, Option
  <2>3. run.id \in ScheduledIds /\ run.id \in Nat /\ out' \subseteq out
    BY <1>0, <1>6 DEF complete_activity_task
  <2>4. "TaskCompleted" \in Resolved
    BY DEF Resolved
  <2> QED BY <2>1, <2>2, <2>3, <2>4, ResultPermitted DEF AnyMove
<1>7. ASSUME NEW run \in runs, ActivitySilent(run)
      PROVE  UNCHANGED all_vars /\ out' = out
  BY <1>7 DEF ActivitySilent
<1>8. ASSUME NEW e \in ClientEvents, Signal(e)
      PROVE  AnyMove /\ out' = out
  BY <1>8, ClientSent DEF Signal, AnyMove, act_vars
<1>9. CASE Run \/ WorkerCrash \/ StreamEnds
  BY <1>1, <1>2, <1>3, <1>9 DEF Run, WorkerCrash, StreamEnds, act_vars
<1> QED BY <1>1, <1>2, <1>3, <1>4, <1>5, <1>6, <1>7, <1>8, <1>9 DEF ActivitiesNext, ActivityEnds

LEMMA StepActInv ==
    ASSUME ActInv, ActivitiesNext \/ UNCHANGED state_vars
    PROVE  ActInv' /\ [Promise!Turn]_<<ScheduledIds, ConsumedIds, status>>
<1>1. /\ AnyMove \/ UNCHANGED all_vars
      /\ out' \subseteq out \cup (ScheduledIds \cap Nat)
  BY ActivityMoves DEF state_vars, act_vars
<1>2. InstInv' /\ [Promise!Turn]_<<ScheduledIds, ConsumedIds, status>>
  BY <1>1, StepInstInv, TurnsOnly DEF ActInv
<1>3. ScheduledIds \subseteq ScheduledIds'
  BY <1>2 DEF Promise!Turn
<1> QED BY <1>1, <1>2, <1>3 DEF ActInv

-----------------------------------------------------------------------------
(* The filter.                                                             *)

LEMMA FilterMoves ==
    ASSUME LedgerInv, FilterNext
    PROVE  AnyMove \/ UNCHANGED all_vars
<1>1. CASE FilterWork
  BY <1>1 DEF FilterWork, on_new_span, RecordOld, RecordNew, on_record, FilteredEvent,
              FilteredStep, FilteredEnd, SpanEnds, AnyMove, Work
<1>2. CASE SpanLost
  BY <1>2, LostIsMove DEF SpanLost, AnyMove
<1>3. ASSUME NEW e \in Issued, TaskOutside(e) PROVE AnyMove
  BY <1>3, EndedTask DEF TaskOutside, AnyMove
<1>4. ASSUME NEW e \in ClientEvents, ClientOutside(e) PROVE AnyMove
  BY <1>4, ClientSent DEF ClientOutside, AnyMove
<1> QED BY <1>1, <1>2, <1>3, <1>4 DEF FilterNext

-----------------------------------------------------------------------------
(* The executor, in any of the three.                                      *)

\* Whatever moves, the executor steps, rests, or is made anew.
LEMMA ExecutorMoves ==
    ASSUME LedgerInv, HistoryOK, AnyMove \/ UNCHANGED all_vars
    PROVE  AnyStep \/ UNCHANGED vars \/ Init'
<1>1. CASE ExecuteEvent \/ ExecuteStep \/ ExecuteEnd
  BY <1>1, WorkIsAnyStep
<1>2. CASE FreshExecutor
  BY <1>2 DEF FreshExecutor, Init
<1>3. CASE UNCHANGED vars
  BY <1>3
<1> QED BY <1>1, <1>2, <1>3 DEF AnyMove, Work, GetWorkItem, complete_orchestrator_task, Loses,
        Arrives, all_vars

CausesInv == WInv /\ RInv

LEMMA StepCausesInv ==
    ASSUME InstInv, CausesInv, AnyMove \/ UNCHANGED all_vars
    PROVE  CausesInv'
<1>0. LedgerInv /\ HistoryOK
  BY DEF InstInv, AInv, SInv, IInv, TypeOK
<1>1. CASE AnyStep \/ UNCHANGED vars
  BY <1>1, StepWInv, StepRInv DEF CausesInv
<1>2. CASE Init'
  <2>1. Init' => WInv'
    BY InitWInv, PTL
  <2>2. Init' => RInv'
    BY InitRInv, PTL
  <2> QED BY <1>2, <2>1, <2>2 DEF CausesInv
<1> QED BY <1>0, <1>1, <1>2, ExecutorMoves

\* What an execution has seen, but for the event that marks it, is in the log or
\* in the inbox.
LEMMA SeenIsKept ==
    ASSUME LedgerInv, HistoryOK, NEW i \in DOMAIN history,
           history[i].type # "OrchestratorStarted"
    PROVE  history[i] \in Range(log \o inbox)
<1>0. /\ MessagesOK /\ ItemOK
      /\ log \in Seq(Message) /\ inbox \in Seq(Message) /\ item \in Seq(Message)
  BY DEF LedgerInv, MessagesOK
<1>1. ~Idle
  BY <1>0 DEF ItemOK
<1>2. /\ Len(log) \in Nat /\ batch \in 1 .. Len(inbox) /\ Len(inbox) \in Nat
      /\ Len(item) = Len(log) + 1 + batch
  BY <1>0, <1>1, ItemParts, LenProperties
<1>3. history[i] = item[i] /\ i \in 1 .. Len(item)
  <2>1. DOMAIN history = 1 .. Len(history) /\ Len(history) \in Nat
    BY LenProperties DEF HistoryOK
  <2>2. Len(history) <= Len(item) /\ history[i] = item[i]
    BY <1>0 DEF ItemOK
  <2> QED BY <1>2, <2>1, <2>2
<1> PICK both : both = log \o inbox
  OBVIOUS
<1>4. /\ DOMAIN both = 1 .. Len(log) + Len(inbox)
      /\ \A j \in 1 .. Len(log) + Len(inbox) :
            both[j] = IF j <= Len(log) THEN log[j] ELSE inbox[j - Len(log)]
  BY <1>0, <1>2, ConcatProperties, LenProperties
<1>5. CASE i <= Len(log)
  <2>1. item[i] = log[i]
    BY <1>0, <1>1, <1>2, <1>3, <1>5, ItemParts
  <2>2. i \in DOMAIN both /\ both[i] = log[i]
    BY <1>2, <1>3, <1>4, <1>5
  <2> QED BY <1>3, <2>1, <2>2 DEF Range
<1>6. CASE i = Len(log) + 1
  BY <1>0, <1>1, <1>3, <1>6, ItemParts, MarkerIsMessage
<1>7. CASE i \in Len(log) + 2 .. Len(item)
  <2> PICK k : k = i - Len(log) - 1
    OBVIOUS
  <2>0. i \in Int /\ batch \in Int /\ i <= Len(log) + 1 + batch
    BY <1>2, <1>3
  <2>1. k \in 1 .. batch /\ i = Len(log) + 1 + k
    <3>1. k \in Int
      BY <1>2, <2>0
    <3>2. i = Len(log) + 1 + k
      BY <1>2, <2>0
    <3>3. k >= 1
      BY <1>2, <1>7, <2>0
    <3>4. k <= batch
      BY <1>2, <1>7, <2>0
    <3> QED BY <1>2, <1>7, <2>0, <3>1, <3>2, <3>3, <3>4
  <2>2. item[i] = inbox[k]
    BY <1>0, <1>1, <2>1, ItemParts
  <2> PICK j : j = Len(log) + k
    OBVIOUS
  <2>3. j \in DOMAIN both /\ both[j] = inbox[k]
    <3> PICK n, b, l : n = Len(log) /\ b = batch /\ l = Len(inbox)
      OBVIOUS
    <3>0. n \in Nat /\ b \in 1 .. l /\ l \in Nat /\ k \in 1 .. b /\ j = n + k
      BY <1>2, <2>1
    <3>1. j \in 1 .. n + l /\ ~(j <= n) /\ j - n = k
      BY <3>0
    <3>2. j \in 1 .. Len(log) + Len(inbox) /\ ~(j <= Len(log)) /\ j - Len(log) = k
      BY <3>1
    <3>3. both[j] = IF j <= Len(log) THEN log[j] ELSE inbox[j - Len(log)]
      BY <1>4, <3>2
    <3> QED BY <1>4, <3>2, <3>3
  <2> QED BY <1>3, <2>2, <2>3 DEF Range
<1> QED BY <1>2, <1>3, <1>5, <1>6, <1>7

\* Why an execution of an instance panics: a signal without input, a value that
\* cannot be decoded or a result without one, each still there for the next
\* execution to meet, or a future that was dropped by a race.
Causes ==
    /\ panic = "no value" => EmptySignal
    /\ panic = "decode" =>
          \E e \in EventsOf(Resolved \cup {"EventRaised"}) : e.value \notin Decodable
    /\ panic = "polled again" => Hollow
    /\ RefusalHasCause

LEMMA CausesAreKept == ASSUME InstInv, CausesInv PROVE Causes
<1>0. LedgerInv /\ HistoryOK /\ BadValueHasCause /\ (panic = "polled again" => ~Valued)
  BY DEF InstInv, AInv, SInv, IInv, TypeOK, CausesInv, WInv, FInv
<1>1. ASSUME panic = "no value" PROVE EmptySignal
  <2>1. PICK i \in DOMAIN history : history[i].type = "EventRaised" /\ history[i].value = None
    BY <1>0, <1>1 DEF BadValueHasCause
  <2> QED BY <1>0, <2>1, SeenIsKept DEF EmptySignal, EventsOf
<1>2. ASSUME panic = "decode"
      PROVE  \E e \in EventsOf(Resolved \cup {"EventRaised"}) : e.value \notin Decodable
  <2>1. PICK i \in DOMAIN history : /\ history[i].type \in Resolved \cup {"EventRaised"}
                                    /\ history[i].value \notin Decodable
    BY <1>0, <1>2 DEF BadValueHasCause
  <2>2. history[i].type # "OrchestratorStarted"
    BY <2>1 DEF Resolved
  <2> QED BY <1>0, <2>1, <2>2, SeenIsKept DEF EventsOf
<1>3. ASSUME panic = "polled again" PROVE Hollow
  <2>1. PICK i \in DOMAIN history : history[i].type \in Resolved /\ history[i].value = None
    BY <1>0, <1>3 DEF Valued
  <2>2. history[i].type # "OrchestratorStarted"
    BY <2>1 DEF Resolved
  <2> QED BY <1>0, <2>1, <2>2, SeenIsKept DEF Hollow, EventsOf
<1> QED BY <1>1, <1>2, <1>3 DEF Causes, CausesInv, RInv

-----------------------------------------------------------------------------
(* The theorems.                                                           *)

\* With the worker's activities: whatever they return, and however often a
\* request is streamed, run and answered, the executor, the work item and the
\* log fit each other, and a request that is out is one of the log.
THEOREM ActivitiesInvariance == ActivitiesSpec => []ActInv
<1>1. ActivitiesInit => ActInv
  BY InitInstInv DEF ActivitiesInit, ActInv
<1>2. ActInv /\ [ActivitiesNext]_state_vars => ActInv'
  BY StepActInv
<1> QED BY <1>1, <1>2, PTL DEF ActivitiesSpec

\* And the instance keeps to its ledger.
THEOREM ActivitiesKeepLedger == ActivitiesSpec => KeepsLedger
<1>1. ActivitiesInit => Promise!Init
  BY InitInstInv DEF ActivitiesInit
<1>2. ActInv /\ [ActivitiesNext]_state_vars
        => [Promise!Turn]_<<ScheduledIds, ConsumedIds, status>>
  BY StepActInv
<1>3. ActivitiesSpec => [][Promise!Turn]_<<ScheduledIds, ConsumedIds, status>>
  BY <1>2, ActivitiesInvariance, PTL DEF ActivitiesSpec
<1> QED BY <1>1, <1>3, PTL DEF ActivitiesSpec, KeepsLedger, Promise!Ledger

\* The filter only looks on: under it the instance is the same, and keeps to its
\* ledger.
THEOREM FilteredInstance == FilterSpec => []InstInv /\ KeepsLedger
<1>1. FilterInit => InstInv /\ Promise!Init
  BY InitInstInv DEF FilterInit
<1>2. InstInv /\ [FilterNext]_filter_vars
        => InstInv' /\ [Promise!Turn]_<<ScheduledIds, ConsumedIds, status>>
  <2> SUFFICES ASSUME InstInv, [FilterNext]_filter_vars
               PROVE  InstInv' /\ [Promise!Turn]_<<ScheduledIds, ConsumedIds, status>>
    OBVIOUS
  <2>1. AnyMove \/ UNCHANGED all_vars
    BY FilterMoves DEF filter_vars, InstInv
  <2> QED BY <2>1, StepInstInv, TurnsOnly
<1>3. FilterSpec => []InstInv
  BY <1>1, <1>2, PTL DEF FilterSpec
<1>4. FilterSpec => [][Promise!Turn]_<<ScheduledIds, ConsumedIds, status>>
  BY <1>2, <1>3, PTL DEF FilterSpec
<1> QED BY <1>1, <1>3, <1>4, PTL DEF FilterSpec, KeepsLedger, Promise!Ledger

\* An instance panics only for one of the causes, and loses a wakeup only for
\* one of Blameless's.
THEOREM InstanceCauses == InstanceSpec => [](Causes /\ LostWakeupHasCause)
<1>1. InstanceInit => CausesInv
  BY InitWInv, InitRInv DEF InstanceInit, CausesInv
<1>2. InstInv /\ CausesInv /\ [InstanceNext]_all_vars => CausesInv'
  BY StepCausesInv, InstanceMoves DEF InstInv
<1>3. InstInv /\ CausesInv => Causes /\ LostWakeupHasCause
  BY CausesAreKept, ParkedHeld DEF CausesInv
<1> QED BY <1>1, <1>2, <1>3, InstanceInvariance, PTL DEF InstanceSpec

\* The same with the worker's activities, whether they are registered or not,
\* answer or keep silent: the executor has no panic of its own making.
THEOREM ActivitiesCauses == ActivitiesSpec => [](Causes /\ LostWakeupHasCause)
<1>1. ActivitiesInit => CausesInv
  BY InitWInv, InitRInv DEF ActivitiesInit, InstanceInit, CausesInv
<1>2. ActInv /\ CausesInv /\ [ActivitiesNext]_state_vars => CausesInv'
  <2> SUFFICES ASSUME ActInv, CausesInv, [ActivitiesNext]_state_vars PROVE CausesInv'
    OBVIOUS
  <2>1. AnyMove \/ UNCHANGED all_vars
    BY ActivityMoves DEF state_vars
  <2> QED BY <2>1, StepCausesInv DEF ActInv
<1>3. ActInv /\ CausesInv => Causes /\ LostWakeupHasCause
  BY CausesAreKept, ParkedHeld DEF ActInv, CausesInv
<1> QED BY <1>1, <1>2, <1>3, ActivitiesInvariance, PTL DEF ActivitiesSpec

\* And what is proved of the executor over arbitrary histories holds of every
\* execution of an instance.
THEOREM ExecutorInInstance ==
    InstanceSpec => [](SenderOwned /\ AnsweredByOwn /\ ActionKept /\ SignalsInOrder)
<1>1. InstInv => SenderOwned /\ AnsweredByOwn /\ ActionKept /\ SignalsInOrder
  BY SignalsOfMatched DEF InstInv, AInv, SInv, OInv
<1> QED BY <1>1, InstanceInvariance, PTL

-----------------------------------------------------------------------------
(* What comes once.                                                        *)

\* What two logs in a row have once.
LEMMA OnceConcat ==
    ASSUME NEW S, NEW s \in Seq(S), NEW t \in Seq(S), NEW types
    PROVE  Once(s \o t, types) <=>
               /\ Once(s, types) /\ Once(t, types)
               /\ IdsIn(s, types) \cap IdsIn(t, types) = {}
<1> PICK st : st = s \o t
  OBVIOUS
<1>1. /\ Len(s) \in Nat /\ Len(t) \in Nat
      /\ DOMAIN s = 1 .. Len(s) /\ DOMAIN t = 1 .. Len(t)
  BY LenProperties
<1>2. /\ DOMAIN st = 1 .. Len(s) + Len(t)
      /\ \A i \in 1 .. Len(s) + Len(t) : st[i] = IF i <= Len(s) THEN s[i] ELSE t[i - Len(s)]
  BY ConcatProperties, LenProperties
<1>3. \A i \in DOMAIN s : i \in DOMAIN st /\ st[i] = s[i]
  BY <1>1, <1>2
<1>4. ASSUME NEW i \in DOMAIN t
      PROVE  Len(s) + i \in DOMAIN st /\ st[Len(s) + i] = t[i]
  <2> PICK k : k = Len(s) + i
    OBVIOUS
  <2>1. k \in 1 .. Len(s) + Len(t) /\ ~(k <= Len(s)) /\ k - Len(s) = i
    BY <1>1
  <2> QED BY <1>2, <2>1
<1>5. ASSUME NEW i \in DOMAIN st
      PROVE  \/ i \in DOMAIN s /\ st[i] = s[i]
             \/ \E k \in DOMAIN t : i = Len(s) + k /\ st[i] = t[k]
  <2>1. CASE i <= Len(s)
    BY <1>1, <1>2, <2>1
  <2>2. CASE ~(i <= Len(s))
    <3>1. i - Len(s) \in DOMAIN t /\ i = Len(s) + (i - Len(s)) /\ st[i] = t[i - Len(s)]
      BY <1>1, <1>2, <2>2
    <3> QED BY <3>1
  <2> QED BY <2>1, <2>2
<1>6. ASSUME Once(st, types)
      PROVE  /\ Once(s, types) /\ Once(t, types)
             /\ IdsIn(s, types) \cap IdsIn(t, types) = {}
  <2>1. Once(s, types)
    BY <1>3, <1>6 DEF Once
  <2>2. Once(t, types)
    <3> SUFFICES ASSUME NEW i \in DOMAIN t, NEW j \in DOMAIN t,
                        t[i].type \in types, t[j].type \in types, t[i].id = t[j].id
                 PROVE  i = j
      BY DEF Once
    <3>1. Len(s) + i = Len(s) + j
      BY <1>4, <1>6 DEF Once
    <3> QED BY <1>1, <3>1
  <2>3. ASSUME NEW id \in IdsIn(s, types), id \in IdsIn(t, types) PROVE FALSE
    <3>1. PICK i \in DOMAIN s : s[i].type \in types /\ id = s[i].id
      BY <2>3 DEF IdsIn
    <3>2. PICK j \in DOMAIN t : t[j].type \in types /\ id = t[j].id
      BY <2>3 DEF IdsIn
    <3> PICK k : k = Len(s) + j
      OBVIOUS
    <3>4. i \in DOMAIN st /\ st[i] = s[i] /\ k \in DOMAIN st /\ st[k] = t[j]
      BY <1>3, <1>4
    <3>3. i = k
      BY <1>6, <3>1, <3>2, <3>4 DEF Once
    <3> QED BY <1>1, <3>3
  <2> QED BY <2>1, <2>2, <2>3
<1>7. ASSUME Once(s, types), Once(t, types), IdsIn(s, types) \cap IdsIn(t, types) = {}
      PROVE  Once(st, types)
  <2> SUFFICES ASSUME NEW i \in DOMAIN st, NEW j \in DOMAIN st,
                      st[i].type \in types, st[j].type \in types, st[i].id = st[j].id
               PROVE  i = j
    BY DEF Once
  <2>1. ASSUME NEW k \in DOMAIN s, NEW l \in DOMAIN t,
               s[k].type \in types, t[l].type \in types
        PROVE  s[k].id # t[l].id
    BY <1>7, <2>1 DEF IdsIn
  <2>2. CASE i \in DOMAIN s /\ st[i] = s[i] /\ j \in DOMAIN s /\ st[j] = s[j]
    BY <1>7, <2>2 DEF Once
  <2>3. ASSUME NEW k \in DOMAIN t, NEW l \in DOMAIN t, st[i] = t[k], st[j] = t[l],
               i = Len(s) + k, j = Len(s) + l
        PROVE  i = j
    <3>1. k = l
      BY <1>7, <2>3 DEF Once
    <3> QED BY <2>3, <3>1
  <2> QED BY <1>5, <2>1, <2>2, <2>3, SMTT(30)
<1> QED BY <1>6, <1>7

\* Who has an answer.
LEMMA AnsweredAre ==
    ASSUME MessagesOK
    PROVE  AnsweredIds = IdsIn(log, Resolved) \cup IdsIn(inbox, Resolved)
<1>1. IdsIn(log \o inbox, Resolved) = IdsIn(log, Resolved) \cup IdsIn(inbox, Resolved)
  BY IdsOfConcat DEF MessagesOK
<1>2. AnsweredIds = IdsIn(log \o inbox, Resolved)
  BY DEF AnsweredIds, EventsOf, IdsIn, Range
<1> QED BY <1>1, <1>2

\* The messages that arrive: a result is the first of a task of its kind.
Fitting(m) ==
    /\ Permitted(m)
    /\ m.type \in Resolved \/ m \in ClientEvents
    /\ m.type \in Resolved => /\ m.id \notin AnsweredIds
                              /\ \E j \in DOMAIN log : ResultOf(m, log[j])
FitMove == Work \/ Loses \/ \E m : Fitting(m) /\ Arrives(m)

LEMMA FitIsAnyMove == FitMove => AnyMove
BY DEF FitMove, AnyMove, Fitting

LEMMA FitArrival ==
    ASSUME LedgerInv, OneOfEach, InboxFits, NEW m, Fitting(m), Arrives(m)
    PROVE  OneOfEach' /\ InboxFits'
<1>0. /\ log' = log /\ inbox' = Append(inbox, m)
      /\ MessagesOK /\ inbox \in Seq(Message) /\ m \in Message
  BY DEF Arrives, Fitting, Permitted, LedgerInv, MessagesOK
<1>1. /\ DOMAIN inbox = 1 .. Len(inbox) /\ DOMAIN inbox' = 1 .. Len(inbox) + 1
      /\ Len(inbox) \in Nat
      /\ \A i \in 1 .. Len(inbox) : inbox'[i] = inbox[i]
      /\ inbox'[Len(inbox) + 1] = m
  BY <1>0, AppendProperties, LenProperties
<1>2. ASSUME NEW i \in DOMAIN inbox'
      PROVE  \/ i \in DOMAIN inbox /\ inbox'[i] = inbox[i]
             \/ i = Len(inbox) + 1 /\ inbox'[i] = m
  <2>1. i \in 1 .. Len(inbox) \/ i = Len(inbox) + 1
    BY <1>1
  <2> QED BY <1>1, <2>1
<1>3. m.type \in Resolved => m.id \notin IdsIn(log, Resolved) \cup IdsIn(inbox, Resolved)
  BY <1>0, AnsweredAre DEF Fitting
<1>4. Once(inbox, Resolved)' 
  BY <1>2, <1>3 DEF OneOfEach, Once, IdsIn
<1>5. IdsIn(inbox', Resolved) \subseteq IdsIn(inbox, Resolved) \cup
                                        (IF m.type \in Resolved THEN {m.id} ELSE {})
  BY <1>2 DEF IdsIn
<1>6. OneOfEach'
  BY <1>0, <1>3, <1>4, <1>5 DEF OneOfEach
<1>7. InboxFits'
  BY <1>0, <1>2 DEF InboxFits, Fitting
<1> QED BY <1>6, <1>7

\* A work item, and the inbox, in their parts.
LEMMA InParts ==
    ASSUME LedgerInv, ~Idle
    PROVE  \E mark, taken, rest \in Seq(Message) :
               /\ mark = <<Marker>> /\ item = (log \o mark) \o taken
               /\ log \o mark \in Seq(Message)
               /\ inbox = taken \o rest
               /\ taken = SubSeq(inbox, 1, batch)
               /\ rest = SubSeq(inbox, batch + 1, Len(inbox))
<1>0. /\ MessagesOK /\ ItemOK
      /\ log \in Seq(Message) /\ inbox \in Seq(Message) /\ Len(inbox) \in Nat
      /\ batch \in 1 .. Len(inbox)
  BY LenProperties DEF LedgerInv, MessagesOK, ItemOK
<1> PICK mark : mark = <<Marker>>
  OBVIOUS
<1> PICK taken : taken = SubSeq(inbox, 1, batch)
  OBVIOUS
<1> PICK m : m = batch + 1
  OBVIOUS
<1> PICK rest : rest = SubSeq(inbox, m, Len(inbox))
  OBVIOUS
<1>1. mark \in Seq(Message)
  BY MarkerIsMessage
<1>2. log \o mark \in Seq(Message)
  BY <1>0, <1>1, ConcatProperties
<1>3. /\ taken \in Seq(Message) /\ Len(taken) = batch
      /\ \A i \in 1 .. batch : taken[i] = inbox[i]
  <2>1. \A i \in 1 .. batch : inbox[i] \in Message
    BY <1>0, ElementOfSeq
  <2> QED BY <1>0, <2>1, SubSeqProperties
<1>4. /\ rest \in Seq(Message) /\ Len(rest) = Len(inbox) - batch
      /\ \A i \in 1 .. Len(rest) : rest[i] = inbox[batch + i]
  <2>0. m \in Int /\ Len(inbox) \in Int
    BY <1>0
  <2>1. CASE batch = Len(inbox)
    <3>1. m > Len(inbox)
      BY <1>0, <2>1
    <3>2. rest = <<>>
      BY <2>0, <3>1
    <3> QED BY <2>1, <3>2, EmptySeq
  <2>2. CASE batch # Len(inbox)
    <3> PICK n : n = Len(inbox)
      OBVIOUS
    <3>1. n \in Nat /\ batch \in 1 .. n /\ m \in 1 .. n /\ m <= n + 1 /\ n - m + 1 = n - batch
      BY <1>0, <2>2
    <3>2. \A i \in m .. n : inbox[i] \in Message
      BY <1>0, <3>1, ElementOfSeq
    <3>3. /\ rest \in Seq(Message) /\ Len(rest) = n - m + 1
          /\ \A i \in 1 .. n - m + 1 : rest[i] = inbox[m + i - 1]
      BY <2>0, <3>1, <3>2, SubSeqProperties
    <3>4. ASSUME NEW i \in 1 .. n - m + 1 PROVE rest[i] = inbox[batch + i]
      <4>1. m + i - 1 = batch + i
        BY <3>1
      <4> QED BY <3>3, <4>1
    <3> QED BY <3>1, <3>3, <3>4
  <2> QED BY <2>1, <2>2
<1>5. inbox = taken \o rest
  <2> PICK both : both = taken \o rest
    OBVIOUS
  <2> PICK n : n = Len(inbox)
    OBVIOUS
  <2>1. /\ both \in Seq(Message) /\ Len(both) = batch + Len(rest)
        /\ \A i \in 1 .. batch + Len(rest) :
              both[i] = IF i <= batch THEN taken[i] ELSE rest[i - batch]
    <3>1. taken \in Seq(Message) /\ rest \in Seq(Message)
      BY <1>3, <1>4
    <3>2. /\ both \in Seq(Message) /\ Len(both) = Len(taken) + Len(rest)
          /\ \A i \in 1 .. Len(taken) + Len(rest) :
                both[i] = IF i <= Len(taken) THEN taken[i] ELSE rest[i - Len(taken)]
      BY <3>1, ConcatProperties, SMTT(30)
    <3> QED BY <1>3, <3>2
  <2>2. n \in Nat /\ batch \in 1 .. n /\ Len(rest) = n - batch /\ batch + Len(rest) = n
    BY <1>0, <1>4
  <2>3. ASSUME NEW i \in 1 .. n PROVE both[i] = inbox[i]
    <3>1. CASE i <= batch
      BY <1>3, <2>1, <2>2, <3>1
    <3>2. CASE ~(i <= batch)
      <4>1. i - batch \in 1 .. Len(rest) /\ batch + (i - batch) = i
        BY <2>2, <3>2
      <4> QED BY <1>4, <2>1, <2>2, <3>2, <4>1
    <3> QED BY <3>1, <3>2
  <2>4. both = inbox
    BY <1>0, <2>1, <2>2, <2>3, SeqEqual
  <2> QED BY <2>4
<1>6. item = (log \o mark) \o taken
  BY <1>0 DEF ItemOK
<1> QED BY <1>1, <1>2, <1>3, <1>4, <1>5, <1>6

\* The events of a work item, kind by kind.
LEMMA ItemIds ==
    ASSUME LedgerInv, OneOfEach, ~Idle
    PROVE  /\ Once(item, Created) /\ Once(item, Resolved)
           /\ \E rest \in Seq(Message) :
                 /\ rest = SubSeq(inbox, batch + 1, Len(inbox))
                 /\ Once(rest, Resolved)
                 /\ IdsIn(item, Resolved) \cap IdsIn(rest, Resolved) = {}
<1>0. MessagesOK /\ InboxOutstanding /\ log \in Seq(Message) /\ inbox \in Seq(Message)
  BY DEF LedgerInv, MessagesOK
<1>1. PICK mark, taken, rest \in Seq(Message) :
               /\ mark = <<Marker>> /\ item = (log \o mark) \o taken
               /\ log \o mark \in Seq(Message)
               /\ inbox = taken \o rest
               /\ taken = SubSeq(inbox, 1, batch)
               /\ rest = SubSeq(inbox, batch + 1, Len(inbox))
  BY InParts
<1>2. ASSUME NEW types \in {Created, Resolved}
      PROVE  IdsIn(mark, types) = {} /\ Once(mark, types)
  <2>1. DOMAIN mark = {1} /\ mark[1] = Marker
    BY <1>1
  <2>2. Marker.type \notin types
    BY MarkerIsMessage DEF Created, Resolved
  <2> QED BY <2>1, <2>2 DEF IdsIn, Once
<1>3. IdsIn(taken, Created) = {} /\ Once(taken, Created)
  <2>1. IdsIn(inbox, Created) = {}
    BY <1>0 DEF InboxOutstanding, IdsIn
  <2>2. IdsIn(inbox, Created) = IdsIn(taken, Created) \cup IdsIn(rest, Created)
    <3>1. IdsIn(taken \o rest, Created) = IdsIn(taken, Created) \cup IdsIn(rest, Created)
      BY IdsOfConcat
    <3> QED BY <1>1, <3>1
  <2>3. IdsIn(taken, Created) = {}
    BY <2>1, <2>2
  <2> QED BY <2>3 DEF IdsIn, Once
<1>4. /\ Once(taken, Resolved) /\ Once(rest, Resolved)
      /\ IdsIn(taken, Resolved) \cap IdsIn(rest, Resolved) = {}
  BY <1>1, OnceConcat DEF OneOfEach
<1>5. IdsIn(inbox, Resolved) = IdsIn(taken, Resolved) \cup IdsIn(rest, Resolved)
  <2>1. IdsIn(taken \o rest, Resolved) = IdsIn(taken, Resolved) \cup IdsIn(rest, Resolved)
    BY IdsOfConcat
  <2> QED BY <1>1, <2>1
<1>6. ASSUME NEW types \in {Created, Resolved},
             Once(taken, types), IdsIn(log, types) \cap IdsIn(taken, types) = {}
      PROVE  /\ Once(item, types)
             /\ IdsIn(item, types) = IdsIn(log, types) \cup IdsIn(taken, types)
  <2>1. Once(log, types)
    BY DEF OneOfEach
  <2> PICK past : past = log \o mark
    OBVIOUS
  <2>2. IdsIn(past, types) = IdsIn(log, types) /\ past \in Seq(Message)
    <3>1. IdsIn(log \o mark, types) = IdsIn(log, types) \cup IdsIn(mark, types)
      BY <1>0, IdsOfConcat
    <3> QED BY <1>1, <1>2, <3>1
  <2>3. Once(past, types)
    <3>1. Once(log \o mark, types) <=>
              /\ Once(log, types) /\ Once(mark, types)
              /\ IdsIn(log, types) \cap IdsIn(mark, types) = {}
      BY <1>0, OnceConcat
    <3> QED BY <1>2, <2>1, <3>1
  <2>4. IdsIn(past \o taken, types) = IdsIn(past, types) \cup IdsIn(taken, types)
    <3>1. past \in Seq(Message) /\ taken \in Seq(Message)
      BY <2>2
    <3> QED BY ONLY <3>1, IdsOfConcat
  <2>5. Once(past \o taken, types) <=>
              /\ Once(past, types) /\ Once(taken, types)
              /\ IdsIn(past, types) \cap IdsIn(taken, types) = {}
    BY <2>2, OnceConcat
  <2> QED BY <1>1, <1>6, <2>2, <2>3, <2>4, <2>5
<1>7. Once(item, Created)
  BY <1>3, <1>6
<1>8. /\ Once(item, Resolved)
      /\ IdsIn(item, Resolved) = IdsIn(log, Resolved) \cup IdsIn(taken, Resolved)
  <2>1. IdsIn(log, Resolved) \cap IdsIn(taken, Resolved) = {}
    BY <1>5 DEF OneOfEach
  <2> QED BY <1>4, <1>6, <2>1
<1>9. IdsIn(item, Resolved) \cap IdsIn(rest, Resolved) = {}
  BY <1>4, <1>5, <1>8 DEF OneOfEach
<1> QED BY <1>1, <1>4, <1>7, <1>8, <1>9

\* An action is acknowledged once, in a type of its kind.
LEMMA AckKind ==
    ASSUME MapsOK, NEW id \in DOMAIN pending_actions, Asked(id)
    PROVE  KindOf(Acknowledgement(id).type) = pending_actions[id]
<1>1. CASE pending_actions[id] = "activity"
  BY <1>1 DEF Acknowledgement, KindOf, Msg
<1>2. CASE pending_actions[id] = "timer"
  BY <1>2 DEF Acknowledgement, KindOf, Msg
<1>3. CASE pending_actions[id] = "sub"
  BY <1>3 DEF Acknowledgement, KindOf, Msg
<1> QED BY <1>1, <1>2, <1>3 DEF Asked, TaskKinds

LEMMA AcksOnce ==
    ASSUME MapsOK, IsFiniteSet(DOMAIN pending_actions),
           NEW order \in Orders(DOMAIN pending_actions)
    PROVE  /\ \A i, j \in DOMAIN order : order[i] = order[j] => i = j
           /\ Once(Acks(order), Created) /\ Once(Acks(order), Resolved)
<1> PICK S : S = DOMAIN pending_actions
  OBVIOUS
<1> PICK n : n = Cardinality(S)
  OBVIOUS
<1>1. /\ n \in Nat /\ order \in [1 .. n -> S]
      /\ \A id \in S : \E i \in DOMAIN order : order[i] = id
  BY FS_CardinalityType DEF Orders
<1>2. order \in Surjection(1 .. n, S)
  BY <1>1 DEF Surjection, Range
<1>3. IsFiniteSet(1 .. n) /\ Cardinality(1 .. n) = Cardinality(S)
  BY <1>1, FS_Interval
<1>4. order \in Injection(1 .. n, S)
  BY <1>2, <1>3, FS_SurjSameCardinalityImpliesInj
<1>5. \A i, j \in DOMAIN order : order[i] = order[j] => i = j
  BY <1>1, <1>4 DEF Injection, IsInjective
<1>6. \A i \in DOMAIN order : /\ Acks(order)[i].id = order[i]
                              /\ Acks(order)[i].type \notin Resolved
  BY <1>1, AckOf DEF Acks
<1>7. DOMAIN Acks(order) = DOMAIN order
  BY DEF Acks
<1> QED BY <1>5, <1>6, <1>7 DEF Once

\* The log after an answer: the work item, and what acknowledges the actions.
LEMMA AnswerLog ==
    ASSUME AInv, LedgerInv, complete_orchestrator_task
    PROVE  \E order \in Orders(DOMAIN pending_actions), acks \in Seq(Message) :
               /\ acks = Acks(order) /\ EndsBy(order) /\ log' = item \o acks
               /\ DOMAIN acks = DOMAIN order
               /\ Len(item) \in Nat /\ Len(acks) \in Nat
               /\ Len(log') = Len(item) + Len(acks) /\ DOMAIN log' = 1 .. Len(log')
               /\ DOMAIN acks = 1 .. Len(acks) /\ DOMAIN item = 1 .. Len(item)
               /\ \A i \in DOMAIN item : log'[i] = item[i]
               /\ \A k \in DOMAIN acks : log'[Len(item) + k] = acks[k]
<1>0. MapsOK /\ IsFiniteSet(DOMAIN pending_actions) /\ item \in Seq(Message)
  BY DEF LedgerInv, AInv, SInv, IInv, TypeOK, ItemOK, MessagesOK
<1>1. PICK order \in Orders(DOMAIN pending_actions) :
          log' = item \o Acks(order) /\ EndsBy(order)
  BY DEF complete_orchestrator_task, Acks
<1> PICK acks : acks = Acks(order)
  OBVIOUS
<1>2. acks \in Seq(Message) /\ DOMAIN acks = DOMAIN order
  BY <1>0, AcksOf DEF Acks
<1>3. /\ Len(item) \in Nat /\ Len(acks) \in Nat
      /\ DOMAIN acks = 1 .. Len(acks) /\ DOMAIN item = 1 .. Len(item)
  BY <1>0, <1>2, LenProperties
<1> PICK new : new = item \o acks
  OBVIOUS
<1>4. /\ new \in Seq(Message) /\ Len(new) = Len(item) + Len(acks)
      /\ \A i \in 1 .. Len(item) + Len(acks) :
            new[i] = IF i <= Len(item) THEN item[i] ELSE acks[i - Len(item)]
  BY <1>0, <1>2, ConcatProperties
<1>5. DOMAIN new = 1 .. Len(new) /\ log' = new
  BY <1>1, <1>4, LenProperties
<1>6. \A i \in DOMAIN item : new[i] = item[i]
  BY <1>3, <1>4
<1>7. ASSUME NEW k \in DOMAIN acks PROVE new[Len(item) + k] = acks[k]
  <2> PICK i : i = Len(item) + k
    OBVIOUS
  <2>1. i \in 1 .. Len(item) + Len(acks) /\ ~(i <= Len(item)) /\ i - Len(item) = k
    BY <1>3
  <2> QED BY <1>4, <2>1
<1>8. log' = item \o acks /\ EndsBy(order)
  BY <1>1
<1>9. /\ Len(log') = Len(item) + Len(acks) /\ DOMAIN log' = 1 .. Len(log')
      /\ \A i \in DOMAIN item : log'[i] = item[i]
      /\ \A k \in DOMAIN acks : log'[Len(item) + k] = acks[k]
  BY <1>4, <1>5, <1>6, <1>7
<1> HIDE DEF Acks, EndsBy
<1> QED BY ONLY <1>2, <1>3, <1>8, <1>9, acks = Acks(order), order \in Orders(DOMAIN pending_actions)

\* A work item has what the log has, where the log has it.
LEMMA LogInItem ==
    ASSUME LedgerInv, ~Idle
    PROVE  \A i \in DOMAIN log : i \in DOMAIN item /\ item[i] = log[i]
<1>1. /\ MessagesOK /\ ItemOK /\ Len(log) \in Nat /\ DOMAIN log = 1 .. Len(log)
      /\ Len(inbox) \in Nat
  BY LenProperties DEF LedgerInv, MessagesOK
<1>2. /\ Len(item) = Len(log) + 1 + batch /\ batch \in 1 .. Len(inbox)
      /\ DOMAIN item = 1 .. Len(item)
      /\ \A i \in 1 .. Len(log) : item[i] = log[i]
  BY <1>1, ItemParts
<1>3. \A i \in 1 .. Len(log) : i \in 1 .. Len(item)
  BY <1>1, <1>2
<1> QED BY <1>1, <1>2, <1>3

LEMMA FitAnswer ==
    ASSUME AInv, LedgerInv, OneOfEach, InboxFits, AckedWasMade, complete_orchestrator_task
    PROVE  OneOfEach' /\ InboxFits'
<1>0. /\ HistoryOK /\ MapsOK /\ IsFiniteSet(DOMAIN pending_actions)
      /\ item \in Seq(Message) /\ inbox \in Seq(Message) /\ pc = "done"
      /\ inbox' = SubSeq(inbox, batch + 1, Len(inbox))
  BY DEF LedgerInv, AInv, SInv, IInv, TypeOK, ItemOK, MessagesOK, complete_orchestrator_task
<1>1. ~Idle /\ DOMAIN history = DOMAIN item /\ \A i \in DOMAIN item : history[i] = item[i]
  BY <1>0, AllSeen
<1>2. PICK order \in Orders(DOMAIN pending_actions), acks \in Seq(Message) :
               /\ acks = Acks(order) /\ EndsBy(order) /\ log' = item \o acks
               /\ DOMAIN acks = DOMAIN order
               /\ Len(item) \in Nat /\ Len(acks) \in Nat
               /\ Len(log') = Len(item) + Len(acks) /\ DOMAIN log' = 1 .. Len(log')
               /\ DOMAIN acks = 1 .. Len(acks) /\ DOMAIN item = 1 .. Len(item)
               /\ \A i \in DOMAIN item : log'[i] = item[i]
               /\ \A k \in DOMAIN acks : log'[Len(item) + k] = acks[k]
  BY AnswerLog
<1>3. PICK rest \in Seq(Message) :
                 /\ rest = SubSeq(inbox, batch + 1, Len(inbox))
                 /\ Once(rest, Resolved)
                 /\ IdsIn(item, Resolved) \cap IdsIn(rest, Resolved) = {}
  BY <1>1, ItemIds
<1>4. Once(item, Created) /\ Once(item, Resolved)
  BY <1>1, ItemIds
<1>5. /\ Once(acks, Created) /\ Once(acks, Resolved)
      /\ IdsIn(acks, Created) = {id \in DOMAIN pending_actions : Asked(id)}
      /\ IdsIn(acks, Resolved) = {}
  BY <1>0, <1>2, AcksOf, AcksOnce
<1>6. IdsIn(item, Created) \cap IdsIn(acks, Created) = {}
  <2>1. ASSUME NEW id \in IdsIn(item, Created) PROVE ~Asked(id)
    <3>1. PICK i \in DOMAIN item : item[i].type \in Created /\ id = item[i].id
      BY <2>1 DEF IdsIn
    <3> QED BY <1>1, <3>1 DEF AckedWasMade
  <2> QED BY <1>5, <2>1
<1>7. Once(item \o acks, Created)
  <2>1. Once(item \o acks, Created) <=>
              /\ Once(item, Created) /\ Once(acks, Created)
              /\ IdsIn(item, Created) \cap IdsIn(acks, Created) = {}
    BY <1>0, OnceConcat
  <2> QED BY <1>4, <1>5, <1>6, <2>1
<1>8. Once(item \o acks, Resolved)
  <2>1. Once(item \o acks, Resolved) <=>
              /\ Once(item, Resolved) /\ Once(acks, Resolved)
              /\ IdsIn(item, Resolved) \cap IdsIn(acks, Resolved) = {}
    BY <1>0, OnceConcat
  <2> QED BY <1>4, <1>5, <2>1
<1>9. IdsIn(item \o acks, Resolved) = IdsIn(item, Resolved)
  <2>1. IdsIn(item \o acks, Resolved) = IdsIn(item, Resolved) \cup IdsIn(acks, Resolved)
    BY <1>0, IdsOfConcat
  <2> QED BY <1>5, <2>1
<1>10. inbox' = rest
  BY <1>0, <1>3
<1>11. OneOfEach'
  <2> PICK new : new = log'
    OBVIOUS
  <2> PICK left : left = inbox'
    OBVIOUS
  <2>1. new = item \o acks /\ left = rest
    BY <1>2, <1>10
  <2>2. /\ Once(new, Created) /\ Once(new, Resolved) /\ Once(left, Resolved)
        /\ IdsIn(new, Resolved) \cap IdsIn(left, Resolved) = {}
    BY <1>3, <1>7, <1>8, <1>9, <2>1
  <2> QED BY <2>2, ZenonT(40) DEF OneOfEach, Once, IdsIn
<1>12. InboxFits'
  <2> SUFFICES ASSUME NEW i \in DOMAIN rest, rest[i].type \in Resolved
               PROVE  \E j \in DOMAIN log' : ResultOf(rest[i], log'[j])
    BY <1>10 DEF InboxFits
  <2>1. batch \in Nat /\ ItemOK /\ MessagesOK
    BY DEF LedgerInv, MessagesOK
  <2>2. \E k \in DOMAIN inbox : rest[i] = inbox[k]
    <3>1. PICK mark, taken, rest1 \in Seq(Message) :
               /\ inbox = taken \o rest1
               /\ rest1 = SubSeq(inbox, batch + 1, Len(inbox))
      BY <1>1, InParts
    <3>2. rest1 = rest
      BY <1>3, <3>1
    <3>3. /\ DOMAIN (taken \o rest1) = 1 .. Len(taken) + Len(rest1)
          /\ \A k \in 1 .. Len(taken) + Len(rest1) :
               (taken \o rest1)[k] = IF k <= Len(taken) THEN taken[k] ELSE rest1[k - Len(taken)]
          /\ Len(taken) \in Nat /\ Len(rest1) \in Nat /\ DOMAIN rest1 = 1 .. Len(rest1)
      BY ConcatProperties, LenProperties
    <3> PICK k : k = Len(taken) + i
      OBVIOUS
    <3>4. k \in 1 .. Len(taken) + Len(rest1) /\ ~(k <= Len(taken)) /\ k - Len(taken) = i
      BY <3>2, <3>3
    <3>5. k \in DOMAIN inbox /\ inbox[k] = rest1[i]
      BY <3>1, <3>3, <3>4
    <3> QED BY <3>2, <3>5
  <2>3. PICK j \in DOMAIN log : ResultOf(rest[i], log[j])
    BY <2>2 DEF InboxFits
  <2>4. j \in DOMAIN item /\ item[j] = log[j]
    BY <1>1, LogInItem
  <2>5. j \in DOMAIN log' /\ log'[j] = log[j]
    BY <1>2, <2>4
  <2> QED BY <2>3, <2>5
<1> QED BY <1>11, <1>12

-----------------------------------------------------------------------------
(* What was called, and what of it waits.                                  *)

\* A call that has left the channel has left it for good.
LEMMA MadeStays ==
    ASSUME AInv, AnyStep, NEW id, NEW kind, Made(id, kind)
    PROVE  Made(id, kind)'
<1>0. /\ IInv /\ DOMAIN calls = Handles /\ Handles = 1 .. Len(calls)
      /\ Len(calls) \in Nat /\ drained \in 0 .. Len(calls)
      /\ CallsOK' /\ drained' \in 0 .. Len(calls')
  BY HandleTypes, CallsStep DEF AInv, SInv, IInv, TypeOK, CallsOK, Handles
<1>1. PICK h \in TaskCalls : ~InChannel(h) /\ calls[h].id = id /\ calls[h].kind = kind
  BY DEF Made
<1>2. h \in Handles /\ h <= drained
  BY <1>0, <1>1 DEF TaskCalls, InChannel
<1>3. CASE ReturnAtOnce
  <2>1. calls' = calls /\ drained' = Len(calls)
    BY <1>3 DEF ReturnAtOnce
  <2>2. h \in TaskCalls' /\ ~InChannel(h)'
    BY <1>0, <1>1, <1>2, <2>1 DEF TaskCalls, InChannel
  <2> QED BY <1>1, <2>1, <2>2 DEF Made
<1>4. CASE ~ReturnAtOnce
  <2>1. h \in DOMAIN calls' /\ calls'[h] = calls[h]
    BY <1>0, <1>2, <1>4, CallsGrow
  <2>2. drained' \in {drained, drained + 1}
    <3>1. CASE DrainTask \/ DrainWaiter
      BY <3>1 DEF DrainTask, DrainWaiter
    <3>2. CASE (Execute \/ get_actions) /\ ~DrainTask /\ ~DrainWaiter
      BY <1>4, <3>2
         DEF Execute, Poll, create_timer, call_activity, call_sub_orchestrator, Schedule,
             await_signal_event, TaskReady, TaskPending, TaskForsaken, TaskIgnored, TaskPanics,
             PolledAgain, FinishStep, Block, Complete, ReturnIgnored, NextEvent, get_actions
    <3>3. ASSUME NEW e, IsEvent(e), process_event(e) PROVE drained' = drained
      BY <1>0, <3>3, EventTasks
    <3> QED BY <3>1, <3>2, <3>3 DEF AnyStep
  <2>3. ~InChannel(h)'
    BY <1>0, <1>2, <2>2 DEF InChannel
  <2>4. h \in TaskCalls'
    BY <1>1, <2>1 DEF TaskCalls
  <2> QED BY <1>1, <2>1, <2>3, <2>4 DEF Made
<1> QED BY <1>3, <1>4

\* A future that was kept is there, or has returned; the first poll alone makes
\* one, and keeps it before anything has left the channels.
LEMMA FutureStays ==
    ASSUME SInv, AnyStep
    PROVE  /\ fn # "none" => fn' # "none"
           /\ fn = "none" /\ fn' # "none" =>
                 /\ pc = "first" /\ UNCHANGED <<calls, drained, history, pending_actions>>
<1>0. OnceStarted
  BY DEF SInv
<1>1. CASE Execute \/ get_actions
  BY <1>0, <1>1
     DEF Execute, Poll, create_timer, call_activity, call_sub_orchestrator, Schedule,
         await_signal_event, TaskReady, TaskPending, TaskForsaken, TaskIgnored, TaskPanics,
         PolledAgain, FinishStep, Block, Complete, ReturnAtOnce, ReturnIgnored, DrainTask,
         DrainWaiter, NextEvent, get_actions, future, called, ctx, AtStepEnd, AtReturn, Polling,
         OnceStarted
<1>2. ASSUME NEW e, IsEvent(e), process_event(e) PROVE fn' = fn
  BY <1>2, EventControl
<1> QED BY <1>1, <1>2 DEF AnyStep

\* Only a call that leaves the channel is asked for.
LEMMA AskedOnce ==
    ASSUME AInv, AnyStep, NEW id, Made(id, "activity") \/ Made(id, "timer") \/ Made(id, "sub"),
           ~Asked(id)
    PROVE  ~Asked(id)'
<1>0. /\ IInv /\ NumberedInOrder /\ DOMAIN calls = Handles /\ Handles = 1 .. Len(calls)
      /\ Len(calls) \in Nat /\ drained \in 0 .. Len(calls)
      /\ \A h \in TaskCalls : calls[h].id \in Nat
  BY HandleTypes DEF AInv, SInv, TaskCalls, NumberedInOrder
<1>1. CASE DrainTask
  <2> PICK new : new = drained + 1
    OBVIOUS
  <2>1. /\ pending_actions' = Put(pending_actions, calls[new].id, calls[new].kind)
        /\ new \in TaskCalls
    BY <1>0, <1>1 DEF DrainTask, TaskCalls
  <2>2. PICK h \in TaskCalls : ~InChannel(h) /\ calls[h].id = id
    BY DEF Made
  <2>3. h < new
    BY <1>0, <2>2 DEF InChannel, TaskCalls
  <2>4. calls[h].id < calls[new].id
    BY <1>0, <2>1, <2>3 DEF NumberedInOrder
  <2>5. id # calls[new].id
    BY <1>0, <2>1, <2>2, <2>4
  <2> QED BY <2>1, <2>5 DEF Asked, Put
<1>2. CASE (Execute \/ get_actions) /\ ~DrainTask
  <2>1. CASE Complete
    <3>1. Registry[name].result \notin TaskKinds
      <4>1. Registry[name] \in Program
        BY <1>0, <2>1, StepOK DEF Complete, AtReturn
      <4> QED BY <4>1 DEF Program, Results, TaskKinds
    <3>2. pending_actions' = Put(pending_actions, sequence_number + 1, Registry[name].result)
      BY <2>1 DEF Complete
    <3> QED BY <3>1, <3>2 DEF Asked, Put
  <2>2. CASE pending_actions' = pending_actions
    BY <2>2 DEF Asked
  <2> QED BY <1>2, <2>1, <2>2, PollActions
<1>3. ASSUME NEW e, IsEvent(e), process_event(e) PROVE ~Asked(id)'
  <2>1. \/ pending_actions' = pending_actions
        \/ pending_actions' = Remove(pending_actions, e.id)
        \/ pending_actions' = Put(pending_actions, sequence_number + 1, "Terminated")
    BY <1>3 DEF process_event, ExecutionStarted, ExecutionCompleted,
                ExecutionTerminated, IgnoredEvent, TaskScheduled, TimerCreated,
                SubOrchestrationInstanceCreated, Acknowledge, TaskCompleted, TimerFired,
                TaskFailed, SubOrchestrationInstanceCompleted, Unblock, UnblockAndPoll,
                SubOrchestrationInstanceFailed, EventRaised, Created, ctx
  <2> QED BY <2>1 DEF Asked, Put, Remove, TaskKinds
<1> QED BY <1>1, <1>2, <1>3 DEF AnyStep

\* What waits for its result does so until one comes.
LEMMA AwaitsStill ==
    ASSUME AnyStep, NEW id \in DOMAIN pending_tasks
    PROVE  \/ id \in DOMAIN pending_tasks'
           \/ \E e : IsEvent(e) /\ history' = Append(history, e) /\ e.type \in Resolved /\ e.id = id
<1>1. CASE DrainTask
  BY <1>1 DEF DrainTask, Put
<1>2. CASE (Execute \/ get_actions) /\ ~DrainTask
  BY <1>2
     DEF Execute, Poll, create_timer, call_activity, call_sub_orchestrator, Schedule,
         await_signal_event, TaskReady, TaskPending, TaskForsaken, TaskIgnored, TaskPanics,
         PolledAgain, FinishStep, Block, Complete, ReturnAtOnce, ReturnIgnored, DrainWaiter,
         NextEvent, get_actions, ctx
<1>3. ASSUME NEW e, IsEvent(e), process_event(e)
      PROVE  \/ id \in DOMAIN pending_tasks'
             \/ history' = Append(history, e) /\ e.type \in Resolved /\ e.id = id
  <2>1. \/ pending_tasks' = pending_tasks
        \/ pending_tasks' = Remove(pending_tasks, e.id) /\ e.type \in Resolved
    BY <1>3 DEF process_event, ExecutionStarted, ExecutionCompleted,
                ExecutionTerminated, IgnoredEvent, TaskScheduled, TimerCreated,
                SubOrchestrationInstanceCreated, Acknowledge, TaskCompleted, TimerFired,
                TaskFailed, SubOrchestrationInstanceCompleted, Unblock, UnblockAndPoll,
                SubOrchestrationInstanceFailed, EventRaised, Resolved, ctx
  <2> QED BY <1>3, <2>1, EventTaken DEF Remove
<1> QED BY <1>1, <1>2, <1>3 DEF AnyStep

\* What is known of the event that is taken: see Deterministic.
Fitted(e) ==
    /\ e.type \in Created => e.id \in DOMAIN pending_actions /\ pending_actions[e.id] = KindOf(e.type)
    /\ e.type \in Resolved =>
          e.id \in DOMAIN pending_tasks /\ calls[pending_tasks[e.id]].kind \in KindResolved(e.type)

LEMMA KindOfTask == ASSUME NEW type PROVE KindOf(type) \in TaskKinds
BY DEF KindOf, TaskKinds

LEMMA AckedStep ==
    ASSUME AInv, AnyStep, AckedWasMade,
           \A e : IsEvent(e) /\ process_event(e) => Fitted(e)
    PROVE  AckedWasMade'
<1>0. SInv /\ IInv /\ HistoryOK /\ MapsOK /\ ActionOfCall
  BY DEF AInv, SInv, IInv, TypeOK
<1>1. ASSUME NEW id, NEW kind \in TaskKinds, fn # "none", ~Asked(id), Made(id, kind)
      PROVE  fn' # "none" /\ ~Asked(id)' /\ Made(id, kind)'
  <2>1. Made(id, "activity") \/ Made(id, "timer") \/ Made(id, "sub")
    BY <1>1 DEF TaskKinds
  <2> QED BY <1>0, <1>1, <2>1, MadeStays, FutureStays, AskedOnce
<1>2. ASSUME NEW i \in DOMAIN history, history[i].type \in Created
      PROVE  /\ fn' # "none" /\ ~Asked(history[i].id)'
             /\ Made(history[i].id, KindOf(history[i].type))'
  <2> PICK id : id = history[i].id
    OBVIOUS
  <2> PICK kind : kind = KindOf(history[i].type)
    OBVIOUS
  <2>1. fn # "none" /\ ~Asked(id) /\ Made(id, kind) /\ kind \in TaskKinds
    BY <1>2, KindOfTask DEF AckedWasMade
  <2>2. fn' # "none" /\ ~Asked(id)' /\ Made(id, kind)'
    BY <1>1, <2>1
  <2>3. history'[i] = history[i]
    BY <1>0, HistoryGrows
  <2> QED BY <2>2, <2>3 DEF Asked, Made
<1>3. CASE Execute \/ get_actions
  <2>1. history' = history
    BY <1>3, EventOrNone
  <2> QED BY <1>2, <2>1 DEF AckedWasMade, Asked, Made
<1>4. ASSUME NEW e, IsEvent(e), process_event(e), e.type \in Created
      PROVE  /\ fn' # "none" /\ ~Asked(e.id)' /\ Made(e.id, KindOf(e.type))'
  <2> PICK kind : kind = KindOf(e.type)
    OBVIOUS
  <2>1. e.id \in DOMAIN pending_actions /\ pending_actions[e.id] = kind /\ kind \in TaskKinds
    BY <1>4, KindOfTask DEF Fitted
  <2>2. fn # "none" /\ Made(e.id, kind)
    BY <1>0, <2>1 DEF ActionOfCall
  <2>3. pending_actions' = Remove(pending_actions, e.id) /\ fn' = fn
    BY <1>4 DEF process_event, ExecutionStarted, ExecutionCompleted,
                ExecutionTerminated, IgnoredEvent, TaskScheduled, TimerCreated,
                SubOrchestrationInstanceCreated, Acknowledge, TaskCompleted, TimerFired,
                TaskFailed, SubOrchestrationInstanceCompleted,
                SubOrchestrationInstanceFailed, EventRaised, Created, Ignored, future
  <2>4. Made(e.id, kind)'
    BY <2>2, MadeStays
  <2> QED BY <2>2, <2>3, <2>4 DEF Asked, Remove
<1>5. ASSUME NEW e, IsEvent(e), process_event(e) PROVE AckedWasMade'
  <2>1. \A i \in DOMAIN history' :
            (i \in DOMAIN history /\ history'[i] = history[i]) \/ history'[i] = e
    BY <1>0, <1>5, EventTaken, Recorded
  <2>2. ASSUME NEW i \in DOMAIN history', history'[i].type \in Created
        PROVE  /\ fn' # "none" /\ ~Asked(history[i].id)'
               /\ Made(history[i].id, KindOf(history[i].type))'
    <3>1. CASE i \in DOMAIN history /\ history'[i] = history[i]
      BY <1>2, <2>2, <3>1 DEF Asked, Made
    <3>2. CASE history'[i] = e
      BY <1>4, <1>5, <2>2, <3>2 DEF Asked, Made
    <3> QED BY <2>1, <3>1, <3>2
  <2> QED BY <2>2 DEF AckedWasMade
<1> QED BY <1>3, <1>5 DEF AnyStep

LEMMA AwaitedStep ==
    ASSUME SInv, AnyStep, MadeAwaits
    PROVE  MadeAwaits'
<1>0. /\ IInv /\ HistoryOK /\ OnceStarted /\ DOMAIN calls = Handles /\ Handles = 1 .. Len(calls)
      /\ Len(calls) \in Nat /\ drained \in 0 .. Len(calls)
  BY HandleTypes DEF SInv, IInv, TypeOK, Handles
<1> SUFFICES ASSUME fn' # "none", NEW h \in TaskCalls', ~InChannel(h)'
             PROVE  \/ calls'[h].id \in DOMAIN pending_tasks'
                    \/ \E i \in DOMAIN history' :
                          history'[i].type \in Resolved /\ history'[i].id = calls'[h].id
  BY DEF MadeAwaits
<1>1. fn # "none"
  <2>1. CASE fn = "none"
    <3>1. pc = "first" /\ UNCHANGED <<calls, drained>> /\ drained = 0
      BY <1>0, <2>1, FutureStays DEF OnceStarted
    <3>2. h \in Handles /\ h > drained'
      BY <1>0, <3>1 DEF TaskCalls
    <3> QED BY <1>0, <3>1, <3>2 DEF InChannel
  <2> QED BY <2>1
<1>2. ~ReturnAtOnce
  BY <1>0, <1>1 DEF ReturnAtOnce, OnceStarted
<1>3. h \in TaskCalls /\ calls'[h] = calls[h]
  BY <1>0, <1>2, CallsGrow DEF TaskCalls
<1> PICK id : id = calls[h].id
  OBVIOUS
<1>4. CASE ~InChannel(h)
  <2>1. CASE id \in DOMAIN pending_tasks
    <3>1. CASE id \in DOMAIN pending_tasks'
      BY <1>3, <3>1
    <3>2. ASSUME NEW e, IsEvent(e), history' = Append(history, e), e.type \in Resolved, e.id = id
          PROVE  \E i \in DOMAIN history' :
                          history'[i].type \in Resolved /\ history'[i].id = id
      <4>1. \E i \in DOMAIN history' : history'[i] = e
        BY <1>0, <3>2, Recorded
      <4> QED BY <3>2, <4>1
    <3> QED BY <1>3, <2>1, <3>1, <3>2, AwaitsStill
  <2>2. CASE \E i \in DOMAIN history : history[i].type \in Resolved /\ history[i].id = id
    BY <1>0, <1>3, <2>2, HistoryGrows
  <2> QED BY <1>1, <1>3, <1>4, <2>1, <2>2 DEF MadeAwaits
<1>5. CASE InChannel(h)
  <2>1. CASE DrainTask
    <3>1. drained' = drained + 1 /\ calls' = calls
          /\ pending_tasks' = Put(pending_tasks, calls[drained + 1].id, drained + 1)
      BY <2>1 DEF DrainTask, called
    <3>2. h = drained + 1
      BY <1>0, <1>3, <1>5, <3>1 DEF InChannel, TaskCalls
    <3> QED BY <3>1, <3>2 DEF Put
  <2>2. CASE DrainWaiter
    <3>1. drained' = drained + 1 /\ calls' = calls /\ calls[drained + 1].kind = "signal"
      BY <2>2 DEF DrainWaiter, called
    <3>2. h = drained + 1
      BY <1>0, <1>3, <1>5, <3>1 DEF InChannel, TaskCalls
    <3> QED BY <1>3, <3>1, <3>2 DEF TaskCalls, TaskKinds
  <2>3. CASE (Execute \/ get_actions) /\ ~DrainTask /\ ~DrainWaiter
    <3>1. drained' = drained
      BY <1>2, <2>3
         DEF Execute, Poll, create_timer, call_activity, call_sub_orchestrator, Schedule,
             await_signal_event, TaskReady, TaskPending, TaskForsaken, TaskIgnored, TaskPanics,
             PolledAgain, FinishStep, Block, Complete, ReturnIgnored, NextEvent, get_actions
    <3>2. h \in DOMAIN calls' /\ h > drained'
      BY <1>5, <3>1 DEF InChannel, TaskCalls
    <3> QED BY <3>2 DEF InChannel
  <2>4. ASSUME NEW e, IsEvent(e), process_event(e) PROVE FALSE
    <3>1. drained' = drained
      BY <1>0, <2>4, EventTasks
    <3>2. h \in DOMAIN calls' /\ h > drained'
      BY <1>5, <3>1 DEF InChannel, TaskCalls
    <3> QED BY <3>2 DEF InChannel
  <2> QED BY <2>1, <2>2, <2>3, <2>4 DEF AnyStep
<1> QED BY <1>4, <1>5

-----------------------------------------------------------------------------
(* What comes once is kept.                                                *)

\* What an execution processes is the next event of its work item.
LEMMA TakenIsItem ==
    ASSUME HistoryOK, ExecuteEvent \/ ExecuteStep \/ ExecuteEnd,
           NEW e, IsEvent(e), process_event(e)
    PROVE  pc = "event" /\ Len(history) < Len(item) /\ e = item[Len(history) + 1]
<1>0. pc = "event" /\ history' = Append(history, e) /\ pc' # "done"
  BY EventTaken, NotDoneYet
<1>1. CASE ExecuteStep
  BY <1>0, <1>1
     DEF ExecuteStep, Execute, Poll, create_timer, call_activity, call_sub_orchestrator, Schedule,
         await_signal_event, TaskReady, TaskPending, TaskForsaken, TaskIgnored, TaskPanics,
         PolledAgain, FinishStep, Block, Complete, ReturnAtOnce, ReturnIgnored, DrainTask,
         DrainWaiter, NextEvent, Uncalled, AtTask, Awaited, InStep, AtStepEnd, AtReturn, Polling
<1>2. CASE ExecuteEnd
  BY <1>0, <1>2 DEF ExecuteEnd, get_actions, Goto
<1>3. CASE ExecuteEvent
  <2> PICK d : d = item[Len(history) + 1]
    OBVIOUS
  <2>1. Len(history) < Len(item) /\ history' = Append(history, d)
    BY <1>3, EventTaken DEF ExecuteEvent
  <2>2. d = e
    <3>1. history \in Seq({history[i] : i \in DOMAIN history})
      BY DEF HistoryOK
    <3>2. /\ Append(history, d)[Len(history) + 1] = d
          /\ Append(history, e)[Len(history) + 1] = e
      BY <3>1, AppendProperties
    <3> QED BY <1>0, <2>1, <3>2
  <2> QED BY <1>0, <2>1, <2>2
<1> QED BY <1>1, <1>2, <1>3

LEMMA TakenIsFitted ==
    ASSUME HistoryOK, Deterministic, ExecuteEvent \/ ExecuteStep \/ ExecuteEnd,
           NEW e, IsEvent(e), process_event(e)
    PROVE  Fitted(e)
BY TakenIsItem DEF Deterministic, Fitted

LEMMA FreshIsFit == ASSUME FreshExecutor PROVE AckedWasMade' /\ MadeAwaits'
BY DEF FreshExecutor, AckedWasMade, MadeAwaits

LEMMA StepFitInv ==
    ASSUME InstInv, FitInv, Deterministic, FitMove \/ UNCHANGED all_vars
    PROVE  FitInv'
<1>0. AInv /\ SInv /\ LedgerInv /\ HistoryOK
  BY DEF InstInv, AInv, SInv, IInv, TypeOK
<1>1. ASSUME UNCHANGED <<log, inbox>> PROVE OneOfEach' /\ InboxFits'
  BY <1>1 DEF FitInv, OneOfEach, Once, IdsIn, InboxFits, ResultOf
<1>2. ASSUME UNCHANGED vars PROVE AckedWasMade' /\ MadeAwaits'
  <2>1. UNCHANGED <<history, fn, calls, drained, pending_actions, pending_tasks>>
    BY <1>2 DEF vars, future, called, ctx
  <2> QED BY <2>1 DEF FitInv, AckedWasMade, MadeAwaits, Asked, Made, TaskCalls, InChannel
<1>3. CASE ExecuteEvent \/ ExecuteStep \/ ExecuteEnd
  <2>1. AnyStep
    BY <1>0, <1>3, WorkIsAnyStep
  <2>2. \A e : IsEvent(e) /\ process_event(e) => Fitted(e)
    BY <1>0, <1>3, TakenIsFitted
  <2>3. AckedWasMade' /\ MadeAwaits'
    BY <1>0, <2>1, <2>2, AckedStep, AwaitedStep DEF FitInv
  <2>4. UNCHANGED <<log, inbox>>
    BY <1>3 DEF ExecuteEvent, ExecuteStep, ExecuteEnd, sidecar
  <2> QED BY <1>1, <2>3, <2>4 DEF FitInv
<1>4. CASE GetWorkItem
  <2>1. UNCHANGED vars /\ UNCHANGED <<log, inbox>>
    BY <1>4 DEF GetWorkItem
  <2> QED BY <1>1, <1>2, <2>1 DEF FitInv
<1>5. CASE complete_orchestrator_task
  <2>1. FreshExecutor
    BY <1>5 DEF complete_orchestrator_task
  <2> QED BY <1>0, <1>5, <2>1, FitAnswer, FreshIsFit DEF FitInv
<1>6. CASE Loses
  BY <1>1, <1>6, FreshIsFit DEF FitInv, Loses
<1>7. ASSUME NEW m, Fitting(m), Arrives(m) PROVE FitInv'
  <2>1. UNCHANGED vars
    BY <1>7 DEF Arrives
  <2> QED BY <1>0, <1>2, <1>7, <2>1, FitArrival DEF FitInv
<1>8. CASE UNCHANGED all_vars
  <2>1. UNCHANGED vars /\ UNCHANGED <<log, inbox>>
    BY <1>8 DEF all_vars, sidecar
  <2> QED BY <1>1, <1>2, <2>1 DEF FitInv
<1> QED BY <1>3, <1>4, <1>5, <1>6, <1>7, <1>8 DEF FitMove, Work

LEMMA InitFitInv == ASSUME InstanceInit PROVE FitInv
<1>1. PICK n \in Orchestrators : inbox = <<Msg("ExecutionStarted", 0, n, None)>>
  BY DEF InstanceInit
<1>2. log = <<>> /\ history = <<>> /\ fn = "none"
  BY DEF InstanceInit, Init
<1>3. DOMAIN inbox = {1} /\ inbox[1].type = "ExecutionStarted"
  BY <1>1 DEF Msg
<1>4. OneOfEach /\ InboxFits
  BY <1>2, <1>3 DEF OneOfEach, Once, IdsIn, InboxFits, Created, Resolved
<1> QED BY <1>2, <1>4 DEF FitInv, AckedWasMade, MadeAwaits
=============================================================================
