---------------------------- MODULE ReplayFilter ----------------------------
(***************************************************************************)
(* What an orchestrator logs and the filter of crates/sdk/src/filter.rs    *)
(* lets through.  The worker runs a work item in a span of its own;        *)
(* Future::poll of executor.rs records "replaying" on it before the past   *)
(* events and again before the new ones; the filter keeps the flag with    *)
(* the span and hides what is logged under it while the flag is up.        *)
(*                                                                         *)
(* An orchestrator logs one line when it starts and one after each step,   *)
(* so that the line of being at step n has the number n.                   *)
(***************************************************************************)
EXTENDS Instance

VARIABLES
    phase,      \* of Future::poll: "closed", "opened", "old" or "new"
    replaying,  \* the ReplayField of the span
    display,    \* the line that the last step has put on display, or 0
    shown       \* all that have been

filter      == <<phase, replaying>>
lines       == <<display, shown>>
filter_vars == <<all_vars, filter, lines>>

\* The visitor starts with FALSE and looks for its own field among those that
\* are recorded.
Visit(values) == IF "replaying" \in DOMAIN values THEN values.replaying ELSE FALSE

NoLine == display' = 0 /\ UNCHANGED shown
event_enabled(line) ==
    \/ replaying /\ NoLine
    \/ ~replaying /\ display' = line /\ shown' = shown \cup {line}

FilterInit ==
    /\ InstanceInit
    /\ phase = "closed"
    /\ replaying = FALSE
    /\ display = 0
    /\ shown = {}

\* info_span!("execute", instance_id, replaying = field::Empty).
on_new_span ==
    /\ GetWorkItem
    /\ phase' = "opened"
    /\ replaying' = Visit([instance_id |-> "instance"])
    /\ NoLine

\* Span::record replaces the flag by what the visitor has found.
on_record(values) == replaying' = Visit(values) /\ NoLine /\ UNCHANGED all_vars

Mutant_NotReplaying == phase = "opened" /\ phase' = "old" /\ on_record([replaying |-> FALSE])
RecordOld == phase = "opened" /\ phase' = "old" /\ on_record([replaying |-> TRUE])

PastProcessed == phase = "old" /\ pc = "event" /\ Len(history) = Len(log)
Mutant_StillReplaying == PastProcessed /\ phase' = "new" /\ on_record([replaying |-> TRUE])
RecordNew == PastProcessed /\ phase' = "new" /\ on_record([replaying |-> FALSE])

\* The first poll of an orchestrator logs its first line.
FilteredEvent ==
    /\ phase \in {"old", "new"}
    /\ ~PastProcessed
    /\ ExecuteEvent
    /\ IF pc' = "first" THEN event_enabled(1) ELSE NoLine
    /\ UNCHANGED filter

\* An orchestrator that goes on to its next step logs a line.
FilteredStep ==
    /\ ExecuteStep
    /\ IF AtStepEnd /\ StepDone THEN event_enabled(step') ELSE NoLine
    /\ UNCHANGED filter

FilteredEnd == phase = "new" /\ ExecuteEnd /\ NoLine /\ UNCHANGED filter

\* The span goes with the execution.
Closes    == phase' = "closed" /\ replaying' = FALSE /\ NoLine
SpanEnds  == complete_orchestrator_task /\ Closes
SpanLost  == (Crash \/ Abandon) /\ Closes

TaskOutside(e)   == TaskEnds(e) /\ NoLine /\ UNCHANGED filter
ClientOutside(e) == ClientSends(e) /\ NoLine /\ UNCHANGED filter

FilterWork ==
    \/ on_new_span \/ RecordOld \/ RecordNew
    \/ FilteredEvent \/ FilteredStep \/ FilteredEnd
    \/ SpanEnds

FilterNext ==
    \/ FilterWork
    \/ SpanLost
    \/ \E e \in Issued : TaskOutside(e)
    \/ \E e \in ClientEvents : ClientOutside(e)

\* As in Instance.
FilterFairness ==
    /\ WF_filter_vars(FilterWork)
    /\ WF_filter_vars(Abandon /\ Closes)
    /\ WF_filter_vars(\E e \in Issued : TaskOutside(e))
    /\ WF_filter_vars(\E e \in ClientEvents : ClientOutside(e))

FilterSpec == FilterInit /\ [][FilterNext]_filter_vars /\ FilterFairness

-----------------------------------------------------------------------------
(* Properties.                                                             *)

\* What the orchestrator had logged when the last answer was sent.
LinesAnswered == IF saved.name = None THEN {} ELSE 1 .. saved.step

\* A line that an answered execution logged is on display by then, although the
\* same execution also went, hidden, through everything before it.
NothingHidden == Idle => LinesAnswered \subseteq shown

\* And it is not put on display a second time by any later execution, although
\* every one of them logs it again.
NothingRepeated == display \notin LinesAnswered

\* What makes both inductive.  What goes on while the flag is up is in the log;
\* when it goes down, the orchestrator is where the last answer left it, and is
\* never before that again.
FilterInv ==
    /\ phase \in {"closed", "opened", "old", "new"}
    /\ phase = "closed" <=> Idle
    /\ replaying <=> phase = "old"
    /\ phase = "opened" => history = <<>> /\ pc = "event"
    /\ phase = "old" => Len(history) <= Len(log)
    /\ phase = "new" => /\ Len(history) >= Len(log)
                        /\ saved.name # None => name = saved.name /\ step >= saved.step
                        /\ name # None => 1 .. step \subseteq shown
    /\ pc = "done" => phase = "new"
    /\ history = <<>> => name = None
    /\ log = <<>> => saved.name = None
    /\ saved.step \in Nat
    /\ LinesAnswered \subseteq shown
    /\ NothingRepeated
=============================================================================
