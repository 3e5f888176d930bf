----------------------------- MODULE MCExecutor -----------------------------
(***************************************************************************)
(* Instances of Executor: the programs have the shapes of the examples     *)
(* (examples/src), of test2 in executor.rs and of a wait with a timeout,   *)
(* the histories are arbitrary sequences over small sets of events.        *)
(***************************************************************************)
EXTENDS Executor, Programs

MCLowercase == [s \in {"Go", "go"} |-> "go"]

Parallel  == Completes(<<Await(<<Act, Sub>>)>>)
Signals   == Completes(<<Await(<<Wait("Go"), Wait("go")>>), Await(<<Wait("go")>>)>>)
Timeout   == Completes(<<Race(<<Timer, Wait("Go")>>), Await(<<Act>>)>>)
LastRace  == Completes(<<Race(<<Timer, Wait("go")>>)>>)
FireAndGo == Completes(<<Forget(<<Timer>>), Await(<<Wait("go")>>)>>)
Immediate == Completes(<<>>)
Renewing  == [body |-> <<Await(<<Act>>)>>, result |-> "ContinuedAsNew"]
Failing   == [body |-> <<Await(<<Timer>>)>>, result |-> "Failed"]

AllPrograms ==
    [n \in {"Sequence", "Parallel", "Signals", "Timeout", "FireAndGo", "Immediate",
             "Renewing", "Failing"} |->
        CASE n = "Sequence"  -> activity_sequence [] n = "Parallel"  -> Parallel
          [] n = "Signals"   -> Signals   [] n = "Timeout"   -> Timeout
          [] n = "FireAndGo" -> FireAndGo [] n = "Immediate" -> Immediate
          [] n = "Renewing"  -> Renewing  [] n = "Failing"   -> Failing]

Ev(type, id, name_, value) == [type |-> type, id |-> id, name |-> name_, value |-> value]
Started(names) == {Ev("ExecutionStarted", 0, n, None) : n \in names}
Raise(s, v)    == Ev("EventRaised", 0, s, v)

\* Every arm of process_event, with ids that exist and ids that do not.
AllEvents ==
    Started(DOMAIN AllPrograms \cup {"unknown"}) \cup
    {Ev("ExecutionCompleted", 0, None, None), Ev("ExecutionTerminated", 0, None, None),
     Ev("OrchestratorStarted", 0, None, None),
     Ev("TaskScheduled", 1, None, None), Ev("SubOrchestrationInstanceCreated", 2, None, None),
     Ev("TimerCreated", 1, None, None),
     Ev("TaskCompleted", 1, None, "a"), Ev("TaskCompleted", 2, None, None),
     Ev("TaskFailed", 1, None, "error"), Ev("TaskFailed", 1, None, "a"),
     Ev("TimerFired", 1, None, "a"),
     Ev("SubOrchestrationInstanceCompleted", 2, None, "a"),
     Ev("SubOrchestrationInstanceFailed", 2, None, "error"),
     Raise("go", "a"), Raise("Go", "b"), Raise("go", None)}

\* Histories in which nothing fails and every result has a value: waits and
\* tasks of a join, answered in any order, with signals before and after.
Answering ==
    [n \in {"Mixed"} |-> Completes(<<Await(<<Act, Wait("Go"), Timer, Wait("go")>>),
                                     Await(<<Sub, Wait("go")>>)>>)]
AnswerEvents ==
    Started(DOMAIN Answering) \cup
    {Ev("TaskScheduled", 1, None, None), Ev("TaskCompleted", 1, None, "a"),
     Ev("TimerFired", 2, None, "a"), Ev("SubOrchestrationInstanceCompleted", 3, None, "b"),
     Raise("go", "a"), Raise("Go", "b")}

\* The runs that the code fails.
RaceOnly      == [n \in {"Race"} |-> LastRace]
RaceEvents    == Started({"Race"}) \cup {Ev("TimerFired", 1, None, "a"), Raise("go", "a")}
ImmediateOnly == [n \in {"Immediate"} |-> Immediate]
RetryOnly     == [n \in {"Retry"} |->
                     Completes(<<Race(<<Timer>>), Race(<<Timer, Wait("go")>>)>>)]
RetryEvents   == Started({"Retry"}) \cup {Ev("TimerFired", 1, None, "a"), Raise("go", "a")}
SequenceOnly  == [n \in {"Sequence"} |-> sub_sequence]
FailedEvents  == Started({"Sequence"}) \cup
                 {Ev("TaskScheduled", 1, None, None), Ev("TaskFailed", 1, None, "error")}
LongOnly      == [n \in {"Long"} |->
                     Completes(<<Await(<<Act>>), Await(<<Act>>), Await(<<Act>>)>>)]
LongEvents    == Started({"Long"}) \cup {Ev("TaskCompleted", i, None, "a") : i \in 1 .. 3}
StartImmediate == Started({"Immediate"})
=============================================================================
