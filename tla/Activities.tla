----------------------------- MODULE Activities -----------------------------
(***************************************************************************)
(* An instance whose activities are run by the worker (execute_activity in *)
(* crates/sdk/src/worker.rs, ActivityExecutor in executor.rs) rather than  *)
(* ended by the sidecar.  The worker spawns a task for every request it is *)
(* streamed.  It answers an activity that returned a value, and one it     *)
(* does not know, which counts as a success without a value.  Of anything  *)
(* else that may happen to an activity it writes a line to its log.        *)
(*                                                                         *)
(* When the stream ends, `start` returns and the spawned tasks live on: a  *)
(* worker that connects later is streamed the unanswered requests again,   *)
(* and an activity runs twice at a time.                                   *)
(***************************************************************************)
EXTENDS Instance

CONSTANT MaxBreaks   \* bound: how often the stream ends

ASSUME ActivitiesAssumption == MaxBreaks \in Nat

VARIABLES
    known,    \* the orchestrators' activity is registered with the worker
    out,      \* the ids of the requests streamed and not answered
    runs,     \* the tasks spawned for activities, [id, stream]
    breaks

act_vars   == <<known, out, runs, breaks>>
state_vars == <<all_vars, act_vars>>

ActivitiesInit ==
    /\ InstanceInit
    /\ known \in BOOLEAN
    /\ out = {}
    /\ runs = {}
    /\ breaks = 0

\* The sidecar streams an activity that was scheduled and is not answered, and
\* the worker spawns execute_activity for it.
Requested(e) == e.type = "TaskScheduled" /\ e.id \notin AnsweredIds \cup out
ActivityRequest(e) ==
    /\ Quiet
    /\ Requested(e)
    /\ out' = out \cup {e.id}
    /\ runs' = runs \cup {[id |-> e.id, stream |-> breaks]}
    /\ UNCHANGED <<all_vars, known, breaks>>

\* ActivityExecutor::execute: the value of the activity, or Ok(None) if there
\* is no such activity.
Outputs == IF known THEN {a.value : a \in {b \in Answers : b.kind = "activity"}} ELSE {None}

\* complete_activity_task: the sidecar takes an answer it waits for.
Mutant_DefaultResponse(run) ==   \* ActivityResponse::default(), for task 0
    /\ Quiet
    /\ run.id \in out
    /\ \E v \in Outputs : Arrives(Msg("TaskCompleted", 0, None, v))
    /\ out' = out \ {run.id}
    /\ runs' = runs \ {run}
    /\ UNCHANGED <<known, breaks>>

complete_activity_task(run) ==
    /\ Quiet
    /\ run.id \in out
    /\ \E v \in Outputs : Arrives(Msg("TaskCompleted", run.id, None, v))
    /\ out' = out \ {run.id}
    /\ runs' = runs \ {run}
    /\ UNCHANGED <<known, breaks>>

\* The activity returns an error or panics, cannot decode its input, or its
\* answer is lost or comes too late: nothing but a line in the log.  A request
\* that names no instance is answered for no instance (ActivityResponse::default()),
\* which is silence to this one.
ActivitySilent(run) ==
    /\ Quiet
    /\ runs' = runs \ {run}
    /\ UNCHANGED <<all_vars, known, out, breaks>>

ActivityEnds(run) == complete_activity_task(run) \/ ActivitySilent(run)

StreamEnds ==
    /\ Idle
    /\ out # {}
    /\ breaks < MaxBreaks
    /\ breaks' = breaks + 1
    /\ out' = {}
    /\ UNCHANGED <<all_vars, known, runs>>

\* The worker's process dies with all it runs, or the answer of an orchestrator
\* alone is lost.
WorkerCrash ==
    /\ Crash
    /\ \/ UNCHANGED <<out, runs>>
       \/ out' = {} /\ runs' = {}
    /\ UNCHANGED <<known, breaks>>

OtherEnds(e) == e.type # "TaskScheduled" /\ TaskEnds(e) /\ UNCHANGED act_vars
Signal(e)    == ClientSends(e) /\ UNCHANGED act_vars
Run          == (Work \/ Abandon) /\ UNCHANGED act_vars

ActivitiesNext ==
    \/ Run
    \/ WorkerCrash
    \/ StreamEnds
    \/ \E e \in Issued : ActivityRequest(e) \/ OtherEnds(e)
    \/ \E run \in runs : ActivityEnds(run)
    \/ \E e \in ClientEvents : Signal(e)

\* As in Instance, and an activity that runs comes to an end, good or bad.
ActivitiesFairness ==
    /\ WF_state_vars(Run)
    /\ WF_state_vars(\E e \in Issued : ActivityRequest(e))
    /\ WF_state_vars(\E e \in Issued : OtherEnds(e))
    /\ WF_state_vars(\E run \in runs : ActivityEnds(run))
    /\ WF_state_vars(\E e \in ClientEvents : Signal(e))

ActivitiesSpec == ActivitiesInit /\ [][ActivitiesNext]_state_vars /\ ActivitiesFairness

-----------------------------------------------------------------------------
(* What may go wrong with the tasks of an instance.                        *)

\* The last execution ended without a future: the orchestrator is not
\* registered ("Error not found"), or returned in its first poll.
NoFuture == log # <<>> /\ saved.fn = "none"

\* It called continue_as_new.
Parked ==
    /\ saved.name # None
    /\ saved.step <= Len(Registry[saved.name].body)
    /\ Registry[saved.name].body[saved.step].mode = "never"

\* A request that nobody answers any more.
Silent == \E id \in out : \A run \in runs : run.id # id

\* A task answered without a value: the activity is not registered.
Hollow == \E e \in EventsOf(Resolved) : e.value = None

\* A task answered with what cannot be decoded: an error message.
Undecodable == \E e \in EventsOf(Resolved \ {"TimerFired"}) :
                   e.value \notin Decodable \cup {None}

\* A signal raised without input.
EmptySignal == \E e \in EventsOf({"EventRaised"}) : e.value = None

TaskFailure == NoFuture \/ Parked \/ Silent \/ Hollow \/ Undecodable

-----------------------------------------------------------------------------
(* Properties.                                                             *)

\* An instance that joins what it calls hangs for one of the reasons above and
\* no other: whatever order answers, signals, streams and lost work items come
\* in, it ends, or the reason is there and stays.
HangsForCause == <>(status # "running") \/ <>[](TaskFailure \/ EmptySignal)

\* No such failure is ever absorbed: an instance that ended with a result had
\* every task answered, with a value it could decode.
NothingAbsorbed == status \in Results => ~TaskFailure

\* The executor panics only on an error message in place of a result, on a signal
\* without input, and, polling a task that will not get its value, on a result
\* without one.
PanicsForCause ==
    /\ panic \in {"none", "decode", "no value", "polled again"}
    /\ panic = "decode" => Undecodable
    /\ panic = "no value" => EmptySignal
    /\ panic = "polled again" => Hollow
=============================================================================
