----------------------------- MODULE Internals ------------------------------
(***************************************************************************)
(* The helpers of crates/sdk/src/internal.rs that write a list of events   *)
(* or actions for the log, and those that take a span from one process to  *)
(* the next.  Nothing in the crate calls them yet.                         *)
(*                                                                         *)
(* A summary is built entry by entry, as the loop builds it; separators    *)
(* and brackets are left out.  A span hops from a sender, which writes its *)
(* trace context, to a receiver, which reads it and starts a span below.   *)
(***************************************************************************)
EXTENDS Integers, Sequences

CONSTANTS
    None,
    Inputs    \* <<"events" or "actions", list to summarise, span [trace, flags, state]>>

VARIABLES
    kind, list,   \* of the summary
    sb,           \* the entries written so far
    more,         \* "..." was written
    at,           \* "loop", "done" or "panic"
    start,        \* the first span of a chain of hops
    span,         \* the last one, or None
    tc,           \* the trace context on its way, or None
    outcome       \* of the last hop

summary == <<kind, list, sb, more, at>>
trace   == <<start, span, tc, outcome>>
vars    == <<summary, trace>>

-----------------------------------------------------------------------------
(* Names and numbers.                                                      *)

\* The name of an event is that of its type, but for two.
get_history_event_type_name(e) ==
    CASE e.type = None -> ""
      [] e.type = "SubOrchestrationInstanceCompleted" -> "SubOrchestrationInstanceFailed"
      [] e.type = "HistoryState" -> "HistoryEvent"
      [] OTHER -> e.type

get_action_type_name(a) == IF a.type = None THEN "" ELSE a.type

Answering == {"TaskCompleted", "TaskFailed", "TimerFired",
              "SubOrchestrationInstanceCompleted", "SubOrchestrationInstanceFailed"}

\* e.task is the call that an answer is for; of an ExecutionStarted, the call of
\* the parent, None if there is no parent: unwrap panics.
get_task_id(e) ==
    CASE e.event_id # 0 -> e.event_id
      [] e.event_id = 0 /\ e.type \in Answering \cup {"ExecutionStarted"} -> e.task
      [] OTHER -> -1

Entry(name, number) == [name |-> name, number |-> IF number >= 0 THEN number ELSE -1]

Written(how, e) ==
    IF how = "events" THEN Entry(get_history_event_type_name(e), get_task_id(e))
                       ELSE Entry(get_action_type_name(e), e.id)

Unwraps(how, e) == how = "events" /\ e.type = "ExecutionStarted" /\ e.event_id = 0 /\ e.task = None

\* The lists there are; flags are a u8.
IsHistory(l) == \A k \in DOMAIN l :
    /\ l[k].event_id \in Int
    /\ l[k].task = None \/ l[k].task \in Int

ASSUME InputsAssumption == \A i \in Inputs :
    /\ \/ i[1] = "events" /\ IsHistory(i[2])
       \/ i[1] = "actions"
    /\ i[2] \in Seq({i[2][k] : k \in DOMAIN i[2]})
    /\ i[3].flags \in 0 .. 255

\* One turn of the loop of history_list_summary and of action_list_summary.
Mutant_OffByOne(i) ==
    \/ i > 10 /\ more' = TRUE /\ at' = "done" /\ UNCHANGED sb
    \/ i <= 10 /\ ~Unwraps(kind, list[i + 1]) /\ sb' = Append(sb, Written(kind, list[i + 1]))
       /\ UNCHANGED <<more, at>>

Summarise(i) ==
    \/ i >= 10 /\ more' = TRUE /\ at' = "done" /\ UNCHANGED sb
    \/ i < 10 /\ Unwraps(kind, list[i + 1]) /\ at' = "panic" /\ UNCHANGED <<sb, more>>
    \/ /\ i < 10
       /\ ~Unwraps(kind, list[i + 1])
       /\ sb' = Append(sb, Written(kind, list[i + 1]))
       /\ UNCHANGED <<more, at>>

list_summary ==
    /\ at = "loop"
    /\ IF Len(sb) < Len(list) THEN Summarise(Len(sb))
                              ELSE at' = "done" /\ UNCHANGED <<sb, more>>
    /\ UNCHANGED <<kind, list, trace>>

-----------------------------------------------------------------------------
(* Trace contexts.                                                         *)

Sampled(flags) == flags % 2 = 1

\* The flags are written in decimal, TraceFlags::to_u8 ...
Digits(flags) ==
    CASE flags < 10  -> <<flags>>
      [] flags \in 10 .. 99 -> <<flags \div 10, flags % 10>>
      [] OTHER       -> <<flags \div 100, (flags \div 10) % 10, flags % 10>>

\* ... and read in hexadecimal, u8::from_str_radix, as up to three digits.
InBase(b, digits) ==
    CASE Len(digits) = 1 -> digits[1]
      [] Len(digits) = 2 -> b * digits[1] + digits[2]
      [] OTHER           -> b * b * digits[1] + b * digits[2] + digits[3]
FromHex(digits) == InBase(16, digits)

trace_context_from_span ==
    /\ outcome = "linked"
    /\ tc = None
    /\ Sampled(span.flags)
    /\ tc' = [parts |-> 4, trace |-> span.trace, flags |-> Digits(span.flags),
              state |-> span.state]
    /\ UNCHANGED <<summary, start, span, outcome>>

\* What an older peer sends: the bare id in trace_parent, good or not.
OlderPeer ==
    /\ outcome = "linked"
    /\ tc = None
    /\ \E id \in {span.trace, "not hex"} : \E state \in {None, span.state} :
           tc' = [parts |-> 1, trace |-> id, flags |-> <<>>, state |-> state]
    /\ UNCHANGED <<summary, start, span, outcome>>

\* The span that the receiver starts: below the remote one, with its flags and
\* its state, or the root of a trace of its own.
Follows(remote) == span' = remote /\ outcome' = "linked"
NewRoot == span' = [trace |-> "other", flags |-> 1, state |-> None] /\ outcome' = "unlinked"
Fails(how) == span' = None /\ outcome' = how

\* parts.get(3).unwrap() of what has no fourth part.
FromOlder == Fails(IF tc.trace = "not hex" THEN "bad id" ELSE "panic")

Mutant_DefaultFlags ==
    IF FromHex(tc.flags) > 255
      THEN Fails("error")
      ELSE Follows([trace |-> tc.trace, flags |-> 0, state |-> tc.state])
Mutant_OctalDigits ==
    IF \E k \in DOMAIN tc.flags : tc.flags[k] > 7
      THEN Fails("error")
      ELSE Follows([trace |-> tc.trace, flags |-> InBase(8, tc.flags),
                    state |-> tc.state])
FromParts ==
    IF FromHex(tc.flags) > 255
      THEN Fails("error")
      ELSE Follows([trace |-> tc.trace, flags |-> FromHex(tc.flags), state |-> tc.state])

\* A context without a trace state is taken for none at all.
context_from_trace_context ==
    /\ tc # None
    /\ tc' = None
    /\ \/ tc.state = None /\ NewRoot
       \/ tc.state # None /\ tc.parts # 4 /\ FromOlder
       \/ tc.state # None /\ tc.parts = 4 /\ FromParts
    /\ UNCHANGED <<summary, start>>

-----------------------------------------------------------------------------
Init ==
    /\ \E i \in Inputs : kind = i[1] /\ list = i[2] /\ start = i[3]
    /\ sb = <<>>
    /\ more = FALSE
    /\ at = "loop"
    /\ span = start
    /\ tc = None
    /\ outcome = "linked"

Hop  == trace_context_from_span \/ OlderPeer \/ context_from_trace_context
Next == list_summary \/ Hop

Spec == Init /\ [][Next]_vars

-----------------------------------------------------------------------------
(* Properties.                                                             *)

\* A finished summary has one entry for each of the first ten of the list, in
\* their order, and says so exactly if there are more; a list without an orphan
\* among them is always finished.
Abridged ==
    /\ at = "done" =>
        /\ sb = [k \in 1 .. (IF Len(list) > 10 THEN 10 ELSE Len(list)) |-> Written(kind, list[k])]
        /\ more <=> Len(list) > 10
    /\ at = "panic" => Len(sb) < 10 /\ Unwraps(kind, list[Len(sb) + 1])

\* As long as a chain of hops holds, its spans are of one trace and all of them
\* are sampled if the first is, although the flags are written in one base and
\* read in another; flags of one digit stay what they were.
TraceKept == outcome = "linked" =>
    /\ span.trace = start.trace
    /\ Sampled(span.flags) <=> Sampled(start.flags)
    /\ start.flags < 10 => span.flags = start.flags

\* No number of hops makes a context unreadable unless its first flags had more
\* than one digit: those grow from hop to hop until they do not fit.
UnreadableForCause == outcome = "error" => Sampled(start.flags) /\ start.flags > 10

\* What makes them inductive: a summary that is being written has the entries
\* of what it has read; as long as the chain holds, the flags are a u8 again,
\* sampled or not as the first were, and no digit is beyond 9.
SummaryInv ==
    /\ kind \in {"events", "actions"}
    /\ Len(list) \in Nat
    /\ Len(sb) \in 0 .. 10 /\ Len(sb) <= Len(list)
    /\ sb = [k \in 1 .. Len(sb) |-> Written(kind, list[k])]
    /\ at = "loop" => ~more
    /\ at = "done" => /\ Len(sb) = 10 \/ Len(sb) = Len(list)
                      /\ more <=> Len(list) > 10
    /\ at = "panic" => Len(sb) < 10 /\ Len(sb) < Len(list) /\ Unwraps(kind, list[Len(sb) + 1])

TraceInv ==
    /\ start.flags \in 0 .. 255
    /\ outcome = "linked" => span.flags \in 0 .. 255
    /\ tc # None => /\ outcome = "linked"
                    /\ tc.parts = 4 => /\ Sampled(span.flags) /\ tc.trace = span.trace
                                      /\ tc.flags = Digits(span.flags)
                    /\ tc.parts # 4 => tc.trace \in {span.trace, "not hex"}
    /\ TraceKept /\ UnreadableForCause

IntInv == SummaryInv /\ TraceInv
=============================================================================
