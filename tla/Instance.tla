------------------------------ MODULE Instance ------------------------------
(***************************************************************************)
(* One orchestration instance from its start to its end: the worker        *)
(* (crates/sdk/src/worker.rs) that runs the executor on the work items it  *)
(* is streamed, the task hub sidecar that keeps the instance's log and     *)
(* makes work items of it, the tasks the sidecar runs for the instance and *)
(* the client (crates/client/src/lib.rs) that sends it events.             *)
(*                                                                         *)
(* The sidecar is not part of the repository: its actions are modelled     *)
(* from how the code uses it.  A work item is the log (past_events) and    *)
(* the messages that arrived since (new_events).  The answer is a set of   *)
(* actions; the log then grows by the new events and, for each action in   *)
(* the order of the answer, by the event that acknowledges it.  A work     *)
(* item that is not answered is handed out again.                          *)
(***************************************************************************)
EXTENDS Executor, FiniteSets, Functions

CONSTANTS
    Orchestrators,   \* the names the instance may be started with
    Answers,         \* [kind, type, value]: how a task of a kind may end
    ClientEvents,    \* what the client may send to the instance
    MaxClientEvents, \* bound: how much it sends
    MaxCrashes       \* bound: work items lost with their worker or answer

\* What kind of task ends in an event of a type.
KindResolved(type) ==
    CASE type = "TimerFired"                        -> {"timer"}
      [] type \in {"TaskCompleted", "TaskFailed"}   -> {"activity"}
      [] OTHER                                      -> {"sub"}

ASSUME InstanceAssumption ==
    /\ \A a \in Answers : /\ a.type \in Resolved /\ a.value \in Option
                          /\ a.kind \in KindResolved(a.type)
    /\ \A e \in ClientEvents :
         IsEvent(e) /\ e.type \in {"EventRaised", "ExecutionTerminated", "ExecutionSuspended"}
    /\ MaxClientEvents \in Nat
    /\ MaxCrashes \in Nat

VARIABLES
    log,      \* the instance's history, as the sidecar keeps it
    inbox,    \* messages for the instance that no answered work item had
    item,     \* the work item being executed, <<>> when there is none
    batch,    \* how many messages of the inbox it took
    status,   \* "running", or how the instance ended
    crashes,
    saved     \* auxiliary: the executor's state when the last answer was sent

sidecar  == <<log, inbox, item, batch, status>>
all_vars == <<vars, sidecar, crashes, saved>>

Msg(type, id, name_, value) == [type |-> type, id |-> id, name |-> name_, value |-> value]

\* What an execution leaves to the next one through the log alone.
Snapshot ==
    [ name |-> name, fn |-> fn, step |-> step, op |-> op, base |-> base,
      calls |-> calls, tasks |-> tasks, drained |-> drained, budget |-> budget,
      octx_sequence_number |-> octx_sequence_number, sequence_number |-> sequence_number,
      pending_tasks |-> pending_tasks, pending_events |-> pending_events,
      received_events |-> received_events ]

\* schedule_new_orchestration, once.
InstanceInit ==
    /\ Init
    /\ log = <<>>
    /\ inbox \in {<<Msg("ExecutionStarted", 0, n, None)>> : n \in Orchestrators}
    /\ item = <<>>
    /\ batch = 0
    /\ status = "running"
    /\ crashes = 0
    /\ saved = Snapshot

\* The executor's context is made anew for each work item.
Mutant_CounterKept ==
    /\ history' = <<>> /\ pc' = "event" /\ panic' = "none"
    /\ fn' = "none" /\ name' = None /\ step' = 1 /\ op' = 1 /\ base' = 0
    /\ calls' = <<>> /\ tasks' = <<>> /\ drained' = 0 /\ budget' = Budget
    /\ sequence_number' = 0
    /\ pending_actions' = EmptyMap /\ pending_tasks' = EmptyMap
    /\ pending_events' = EmptyMap /\ received_events' = EmptyMap
    /\ UNCHANGED octx_sequence_number

Mutant_BufferShared ==
    /\ history' = <<>> /\ pc' = "event" /\ panic' = "none"
    /\ fn' = "none" /\ name' = None /\ step' = 1 /\ op' = 1 /\ base' = 0
    /\ calls' = <<>> /\ tasks' = <<>> /\ drained' = 0 /\ budget' = Budget
    /\ octx_sequence_number' = 0 /\ sequence_number' = 0
    /\ pending_actions' = EmptyMap /\ pending_tasks' = EmptyMap
    /\ pending_events' = EmptyMap
    /\ UNCHANGED received_events

FreshExecutor ==
    /\ history' = <<>> /\ pc' = "event" /\ panic' = "none"
    /\ fn' = "none" /\ name' = None /\ step' = 1 /\ op' = 1 /\ base' = 0
    /\ calls' = <<>> /\ tasks' = <<>> /\ drained' = 0 /\ budget' = Budget
    /\ octx_sequence_number' = 0 /\ sequence_number' = 0
    /\ pending_actions' = EmptyMap /\ pending_tasks' = EmptyMap
    /\ pending_events' = EmptyMap /\ received_events' = EmptyMap

-----------------------------------------------------------------------------
(* The worker.                                                             *)
Idle == item = <<>>

GetWorkItem ==
    /\ Idle
    /\ status = "running"
    /\ inbox # <<>>
    /\ item' = log \o <<Msg("OrchestratorStarted", 0, None, None)>> \o inbox
    /\ batch' = Len(inbox)
    /\ UNCHANGED <<vars, log, inbox, status, crashes, saved>>

\* execute_orchestrator: the past events, then the new ones.
ExecuteEvent ==
    /\ Len(history) < Len(item)
    /\ process_event(item[Len(history) + 1])
    /\ UNCHANGED <<sidecar, crashes, saved>>

ExecuteStep == Execute /\ UNCHANGED <<sidecar, crashes, saved>>

ExecuteEnd ==
    /\ ~Idle
    /\ Len(history) = Len(item)
    /\ get_actions
    /\ UNCHANGED <<sidecar, crashes, saved>>

\* complete_orchestrator_task.  get_actions lists the values of a HashMap, so
\* the order of the answer is any order of the actions.
Orders(S) == {s \in [1 .. Cardinality(S) -> S] :
                 \A id \in S : \E i \in DOMAIN s : s[i] = id}

Acknowledgement(id) ==
    CASE pending_actions[id] = "activity" -> Msg("TaskScheduled", id, None, None)
      [] pending_actions[id] = "timer"    -> Msg("TimerCreated", id, None, None)
      [] pending_actions[id] = "sub"      ->
             Msg("SubOrchestrationInstanceCreated", id, None, None)
      [] OTHER                            -> Msg("ExecutionCompleted", id, None, None)

\* The first action that ends the instance ends it.
IsEnding(id) == pending_actions[id] \notin TaskKinds
EndsBy(order) ==
    \/ /\ \A i \in DOMAIN order : ~IsEnding(order[i])
       /\ UNCHANGED status
    \/ \E i \in DOMAIN order :
         /\ IsEnding(order[i])
         /\ \A j \in 1 .. i - 1 : ~IsEnding(order[j])
         /\ status' = pending_actions[order[i]]

complete_orchestrator_task ==
    /\ pc = "done"
    /\ \E order \in Orders(DOMAIN pending_actions) :
         /\ log' = item \o [i \in DOMAIN order |-> Acknowledgement(order[i])]
         /\ EndsBy(order)
    /\ inbox' = SubSeq(inbox, batch + 1, Len(inbox))
    /\ item' = <<>>
    /\ batch' = 0
    /\ saved' = Snapshot
    /\ FreshExecutor
    /\ UNCHANGED crashes

\* The worker dies, or its answer does not arrive: start only logs the error.
Crash ==
    /\ ~Idle
    /\ pc # "panicked"
    /\ crashes < MaxCrashes
    /\ crashes' = crashes + 1
    /\ item' = <<>>
    /\ batch' = 0
    /\ FreshExecutor
    /\ UNCHANGED <<log, inbox, status, saved>>

\* A panic takes the spawned task with it, and nothing answers the work item.
Abandon ==
    /\ pc = "panicked"
    /\ item' = <<>>
    /\ batch' = 0
    /\ FreshExecutor
    /\ UNCHANGED <<log, inbox, status, crashes, saved>>

-----------------------------------------------------------------------------
(* The tasks and the client.  The executor reads nothing but its work item,*)
(* so that a message that arrives while it runs may as well arrive when it *)
(* is done: the actions below wait for that.                               *)
Quiet == (Idle \/ pc = "done") /\ status = "running"

EventsOf(types) == {e \in Range(log \o inbox) : e.type \in types}
Issued      == EventsOf(Created)
AnsweredIds == {e.id : e \in EventsOf(Resolved)}
KindOf(type) ==
    CASE type = "TaskScheduled" -> "activity"
      [] type = "TimerCreated"  -> "timer"
      [] OTHER                  -> "sub"

Arrives(message) ==
    /\ inbox' = Append(inbox, message)
    /\ UNCHANGED <<vars, log, item, batch, status, crashes, saved>>

\* A task the sidecar was asked for ends, once.
TaskEnds(e) ==
    /\ Quiet
    /\ e.id \notin AnsweredIds
    /\ \E a \in Answers :
         /\ a.kind = KindOf(e.type)
         /\ Arrives(Msg(a.type, e.id, None, a.value))

ClientSends(e) ==
    /\ Quiet
    /\ Len(SelectSeq(log \o inbox, LAMBDA x : x \in ClientEvents)) < MaxClientEvents
    /\ Arrives(e)

Work ==
    \/ GetWorkItem \/ ExecuteEvent \/ ExecuteStep \/ ExecuteEnd
    \/ complete_orchestrator_task

InstanceNext ==
    \/ Work
    \/ Crash
    \/ Abandon
    \/ \E e \in Issued : TaskEnds(e)
    \/ \E e \in ClientEvents : ClientSends(e)

\* The worker keeps taking work items and finishing them, the sidecar hands a
\* lost one out again and finishes the tasks it was asked for, the client
\* sends what it has to send.  Crashes are not fair, and bounded.
Fairness ==
    /\ WF_all_vars(Work)
    /\ WF_all_vars(Abandon)
    /\ WF_all_vars(\E e \in Issued : TaskEnds(e))
    /\ WF_all_vars(\E e \in ClientEvents : ClientSends(e))

InstanceSpec == InstanceInit /\ [][InstanceNext]_all_vars /\ Fairness

-----------------------------------------------------------------------------
(* Properties.                                                             *)

\* Replaying the log rebuilds what the last execution ended with: where the
\* orchestrator is, the tasks it holds, who waits for which signal and what is
\* buffered.  No action of the past is left over, to be returned once more.
\* This is what lets the executor keep nothing between two work items.
ReplayRestores ==
    ~Idle /\ pc = "event" /\ history = log /\ log # <<>> =>
        Snapshot = saved /\ pending_actions = EmptyMap

\* The executor never meets an event of a call it has not made ("Non
\* determinism" in executor.rs): an acknowledgement finds the action of its
\* kind, a result finds the task it is for.
Deterministic ==
    pc = "event" /\ Len(history) < Len(item) =>
        LET e == item[Len(history) + 1]
        IN /\ e.type \in Created =>
                /\ e.id \in DOMAIN pending_actions
                /\ pending_actions[e.id] = KindOf(e.type)
           /\ e.type \in Resolved =>
                /\ e.id \in DOMAIN pending_tasks
                /\ calls[pending_tasks[e.id]].kind \in KindResolved(e.type)

\* Orchestrators that only join what they call are never caught in an expect
\* or an unwrap of the executor.
NeverPanics == pc # "panicked"

\* An instance is not stuck: it ends when its tasks do and its signals come,
\* in spite of lost work items and answers.
Ends == <>(status # "running")

\* An instance that was terminated does not go on running.
TerminationHonoured ==
    status = "running" => \A i \in DOMAIN log : log[i].type # "ExecutionTerminated"

\* What the instance promises to the outside: see Orchestration.
IdsIn(s, types) == {s[i].id : i \in {j \in DOMAIN s : s[j].type \in types}}
ScheduledIds == IdsIn(log, Created)
ConsumedIds  == IdsIn(log, Resolved)
Promise == INSTANCE Orchestration WITH scheduled <- ScheduledIds, consumed <- ConsumedIds
KeepsPromise == Promise!Spec

\* The part of it that holds of every orchestrator, one that races included: a
\* turn consumes only results of what earlier turns scheduled, schedules under
\* the numbers that follow, and nothing once consumed or scheduled is undone.
KeepsLedger == Promise!Ledger

\* What makes it inductive, beside the invariant of the executor.  A work item
\* is the log, the event that marks an execution, and the messages it took; the
\* executor is somewhere in it.
Message == ClientEvents \cup [type : EventTypes \ {"EventRaised"}, id : Nat,
                              name : Orchestrators \cup {None}, value : Option]
Marker == Msg("OrchestratorStarted", 0, None, None)

MessagesOK ==
    /\ log \in Seq(Message) /\ inbox \in Seq(Message) /\ item \in Seq(Message)
    /\ batch \in 0 .. Len(inbox)
    /\ status \in {"running", "Terminated"} \cup Results

ItemOK ==
    /\ Idle => history = <<>> /\ pc = "event"
    /\ ~Idle => /\ status = "running" /\ batch > 0
                /\ item = log \o <<Marker>> \o SubSeq(inbox, 1, batch)
    /\ Len(history) <= Len(item) /\ \A i \in DOMAIN history : history[i] = item[i]
    /\ pc = "done" => Len(history) = Len(item)
    /\ IsFiniteSet(DOMAIN pending_actions)

\* The instance starts with its first message.
StartsFirst ==
    /\ \A i \in DOMAIN log : log[i].type = "ExecutionStarted" => i = 2
    /\ \A i \in DOMAIN inbox : inbox[i].type = "ExecutionStarted" => log = <<>> /\ i = 1

\* What waits in the inbox, or was taken, is a result of a task of the log.
InboxOutstanding ==
    \A i \in DOMAIN inbox :
        /\ inbox[i].type \notin Created
        /\ inbox[i].type \in Resolved => inbox[i].id \in ScheduledIds

LedgerInv ==
    /\ MessagesOK /\ ItemOK /\ StartsFirst /\ InboxOutstanding
    /\ ConsumedIds \subseteq ScheduledIds
    /\ Promise!Consecutive(ScheduledIds)

\* What makes Deterministic inductive, beside that.  Acknowledgements and results
\* come once, and a result is of a task of its kind.
Once(s, types) ==
    \A i, j \in DOMAIN s :
        s[i].type \in types /\ s[j].type \in types /\ s[i].id = s[j].id => i = j

OneOfEach ==
    /\ Once(log, Created) /\ Once(log, Resolved) /\ Once(inbox, Resolved)
    /\ IdsIn(log, Resolved) \cap IdsIn(inbox, Resolved) = {}

ResultOf(m, e) == e.type \in Created /\ e.id = m.id /\ KindOf(e.type) \in KindResolved(m.type)
InboxFits ==
    \A i \in DOMAIN inbox : inbox[i].type \in Resolved =>
        \E j \in DOMAIN log : ResultOf(inbox[i], log[j])

\* What an execution has seen acknowledged it has asked for, and will not ask
\* for again; what it asked for waits for its result until that has come.
AckedWasMade ==
    \A i \in DOMAIN history : history[i].type \in Created =>
        /\ fn # "none"
        /\ ~Asked(history[i].id)
        /\ Made(history[i].id, KindOf(history[i].type))

MadeAwaits ==
    fn # "none" => \A h \in TaskCalls : ~InChannel(h) =>
        \/ calls[h].id \in DOMAIN pending_tasks
        \/ \E i \in DOMAIN history : history[i].type \in Resolved /\ history[i].id = calls[h].id

FitInv == OneOfEach /\ InboxFits /\ AckedWasMade /\ MadeAwaits

\* Orchestrators that join what they call, and inputs of theirs that can be
\* decoded: for these NeverPanics and KeepsPromise hold.
OnlyJoins ==
    \A n \in DOMAIN Registry \cap Orchestrators : \A k \in DOMAIN Registry[n].body :
        Registry[n].body[k].mode \in {"all", "never"}
InputsDecode ==
    /\ \A a \in Answers : a.value # None /\ (a.type # "TimerFired" => a.value \in Decodable)
    /\ \A e \in ClientEvents : e.type = "EventRaised" => e.value \in Decodable \ {None}
SignalsDecode ==
    \A e \in ClientEvents : e.type = "EventRaised" => e.value \in Decodable \cup {None}

\* What makes them inductive.  The calls are those of the step; the results seen
\* are of calls of their kind.
CallsOfStep ==
    Known /\ step <= Len(Body) =>
        \A h \in base + 1 .. Len(calls) : calls[h].kind = Body[step].ops[h - base].kind

ResultsOfCalls ==
    \A i \in DOMAIN history : history[i].type \in Resolved =>
        \E h \in TaskCalls : /\ calls[h].id = history[i].id
                             /\ calls[h].kind \in KindResolved(history[i].type)

\* What was awaited has come and could be decoded.
TakenDecoded ==
    /\ \A h \in DOMAIN tasks : tasks[h].completed => tasks[h].tx # "held"
    /\ pc # "panicked" => \A h \in DOMAIN tasks : tasks[h].rx = "taken" =>
          /\ tasks[h].tx # "held" /\ HasMessage(tasks[h]) /\ tasks[h].value # None
          /\ calls[h].kind # "timer" => tasks[h].value \in Decodable

\* An orchestrator that has returned had awaited all it called, and nothing else
\* leads to a result.
ReadyAtEnd ==
    /\ fn = "ready" => /\ Known /\ step > Len(Body)
                       /\ \A h \in DOMAIN tasks : tasks[h].rx = "taken"
    /\ \A id \in DOMAIN pending_actions : pending_actions[id] \in Results => fn = "ready"

\* A panic is over a value that came.
PanicsOnValue ==
    /\ panic \in {"none", "decode", "no value", "polled again"}
    /\ pc = "panicked" => panic # "none"
    /\ panic = "decode" => \E i \in DOMAIN history :
          /\ history[i].type \in (Resolved \ {"TimerFired"}) \cup {"EventRaised"}
          /\ history[i].value \notin Decodable \cup {None}

NotEnded ==
    status = "running" =>
        /\ \A i \in DOMAIN log : log[i].type # "ExecutionCompleted"
        /\ \A i \in DOMAIN inbox : inbox[i].type # "ExecutionCompleted"

JoinInv ==
    /\ name \in Orchestrators \cup {None}
    /\ CallsOfStep /\ ResultsOfCalls /\ TakenDecoded /\ ReadyAtEnd /\ PanicsOnValue
    /\ NotEnded

\* Results are those of Answers.
Given(m) == \E a \in Answers : a.type = m.type /\ a.value = m.value
ResultsGiven ==
    /\ \A i \in DOMAIN log : log[i].type \in Resolved => Given(log[i])
    /\ \A i \in DOMAIN inbox : inbox[i].type \in Resolved => Given(inbox[i])

\* An instance that ended with a result had every task answered, with a value it
\* could decode.
EndedWhole ==
    status \in Results =>
        /\ saved.fn = "ready"
        /\ saved.name \in DOMAIN Registry /\ saved.step \in Nat
        /\ saved.step > Len(Registry[saved.name].body)
        /\ ScheduledIds \subseteq ConsumedIds
        /\ \A i \in DOMAIN inbox : inbox[i].type \notin Resolved
        /\ \A i \in DOMAIN log : log[i].type \in Resolved =>
              /\ log[i].value # None
              /\ log[i].type # "TimerFired" => log[i].value \in Decodable
=============================================================================
