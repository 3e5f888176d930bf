---------------------------- MODULE MCActivities ----------------------------
\* Instances of Activities: the orchestrators of examples/src, and the ways in
\* which an orchestrator, its activities and its signals may fail it.
EXTENDS Activities, Programs, TLC

MCLowercase == [s \in {"go"} |-> "go"]

AllPrograms ==
    "activity_sequence" :> activity_sequence @@
    "parallel"          :> parallel @@
    "sub_orchestrator"  :> sub_orchestrator @@
    "external_events"   :> external_events @@
    "signals" :> Completes(<<Await(<<Wait("go"), Act>>)>>) @@
    "renewal" :> Completes(<<Await(<<Act>>), Never>>) @@
    "atonce"  :> Completes(<<>>)
AllNames == DOMAIN AllPrograms \cup {"unknown"}

TaskEndings ==
    {[kind |-> "activity", type |-> "TaskCompleted", value |-> "a"],
     [kind |-> "timer", type |-> "TimerFired", value |-> "a"],
     [kind |-> "sub", type |-> "SubOrchestrationInstanceCompleted", value |-> "b"],
     [kind |-> "sub", type |-> "SubOrchestrationInstanceFailed", value |-> "error"]}

Raises == {Msg("EventRaised", 0, "go", "a"), Msg("EventRaised", 0, "go", None)}

\* The conditions of JoinProofs!OnlyValuesPanic and NoFailureAbsorbed.
ASSUME JoinTheoremsApply == OnlyJoins /\ SignalsDecode
=============================================================================
