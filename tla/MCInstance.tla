----------------------------- MODULE MCInstance -----------------------------
\* Instances of Instance: the orchestrators of examples/src, and races.
EXTENDS Instance, Programs, TLC

MCLowercase == [s \in {"Go", "go"} |-> "go"]

\* The examples, in which everything that is called is awaited, and signals in
\* two cases beside an activity.
Joins ==
    "activity_sequence" :> activity_sequence @@
    "parallel"          :> parallel @@
    "sub_orchestrator"  :> sub_orchestrator @@
    "signals" :> Completes(<<Await(<<Wait("Go"), Act>>), Await(<<Wait("go")>>)>>)

\* A wait with a timeout, and what is done after it.
Races ==
    "timeout" :> Completes(<<Race(<<Timer, Wait("go")>>), Await(<<Act>>)>>) @@
    "retry"   :> Completes(<<Race(<<Timer, Wait("go")>>), Race(<<Timer, Wait("go")>>)>>) @@
    "terminate_test" :> terminate_test
AllPrograms == Joins @@ Races

Succeed == {[kind |-> "activity", type |-> "TaskCompleted", value |-> "a"],
            [kind |-> "timer", type |-> "TimerFired", value |-> "a"],
            [kind |-> "sub", type |-> "SubOrchestrationInstanceCompleted", value |-> "b"]}
SucceedOrEmpty == Succeed \cup {[kind |-> "activity", type |-> "TaskCompleted", value |-> None]}

Raises == {Msg("EventRaised", 0, "go", "a"), Msg("EventRaised", 0, "Go", "b")}
RaisesAndTerminate == Raises \cup {Msg("ExecutionTerminated", 0, None, None)}
=============================================================================
