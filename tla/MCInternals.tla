---------------------------- MODULE MCInternals -----------------------------
\* Instances of Internals: histories and lists of actions up to the length at
\* which they are cut, and spans with all flags there are.
EXTENDS Internals

Event(type, id, task) == [type |-> type, event_id |-> id, task |-> task]

\* The types of events, each as the constructors make it, and as it may come over
\* the wire, where a number that is not set is 0.
Types == <<"ExecutionStarted", "OrchestratorStarted", "TimerCreated", "TaskScheduled",
           "SubOrchestrationInstanceCreated", "TimerFired", "TaskCompleted", "TaskFailed",
           "SubOrchestrationInstanceCompleted", "SubOrchestrationInstanceFailed",
           "EventRaised", "EventSent", "ExecutionSuspended", "ExecutionTerminated",
           "ExecutionCompleted", "HistoryState">>
Created == {"TimerCreated", "TaskScheduled", "SubOrchestrationInstanceCreated"}

Made == [k \in DOMAIN Types |->
            Event(Types[k], IF Types[k] \in Created THEN k ELSE -1, k + 1)]
Wired == [k \in DOMAIN Types |->
            Event(Types[k], IF Types[k] \in Created THEN k ELSE 0,
                  IF Types[k] = "ExecutionStarted" THEN None ELSE k + 1)]
Child == <<Event("ExecutionStarted", 0, 3), Event(None, 0, None)>>

\* Every part of a history of up to 12 events, wherever it starts.
Parts(s) == {SubSeq(s, i, j) : i \in 1 .. Len(s) + 1, j \in 0 .. Len(s)}
Histories == {h \in Parts(Made) \cup Parts(Wired \o Child) : Len(h) <= 12}

Kinds == <<"ScheduleTask", "CreateTimer", "CreateSubOrchestration", "SendEvent",
           "CompleteOrchestration", "TerminateOrchestration", None>>
AllActions == [k \in 1 .. 14 |-> [type |-> Kinds[((k - 1) % 7) + 1], id |-> k - 2]]

FirstSpan == [trace |-> "one", flags |-> 1, state |-> None]
AllSpans  == [trace : {"one"}, flags : 0 .. 255, state : {None, "vendor"}]

MCInputs == ({"events"} \X Histories \X {FirstSpan})
    \cup ({"actions"} \X {h \in Parts(AllActions) : Len(h) <= 12} \X {FirstSpan})
    \cup ({"events"} \X {<<>>} \X AllSpans)
=============================================================================
