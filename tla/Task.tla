-------------------------------- MODULE Task --------------------------------
(***************************************************************************)
(* CompletableTask (crates/sdk/src/task.rs): a future that is completed    *)
(* either on the spot (`complete`) or through a tokio oneshot channel      *)
(* whose sending half was handed to somebody else.  The module has no      *)
(* variables: a task is a record, an operation maps a record to a record.  *)
(*                                                                         *)
(*   completed  the flag of the same name                                  *)
(*   tx         the sending half: "held" by somebody, "sent", "dropped"    *)
(*   rx         the future's own half: "waiting", "taken" once the future  *)
(*              has returned its value, "failed" once it has been told that *)
(*              the sender is gone, "dropped" with the future              *)
(*   value      the value completed with or sent; None is the Option::None *)
(*              that the channel's type Option<String> lets through        *)
(***************************************************************************)
CONSTANTS
    Payloads,   \* the strings that travel as inputs and results
    None,       \* Option::None
    ErrorRepeats    \* which tokio is built: a receiver that was told that its
                    \* sender is gone, polled again, says so again (1.43), or
                    \* panics (from 1.44 on); Cargo.toml admits both

ASSUME NoneAssumption         == None \notin Payloads
ASSUME ErrorRepeatsAssumption == ErrorRepeats \in BOOLEAN

Option == Payloads \cup {None}

Task == [ completed : BOOLEAN,
          tx        : {"held", "sent", "dropped"},
          rx        : {"waiting", "failed", "taken", "dropped"},
          value     : Option ]

\* CompletableTask::new: a future, and a sender somebody is going to hold.
NewTask == [completed |-> FALSE, tx |-> "held", rx |-> "waiting", value |-> None]

\* complete(value) of a task just made.  Its sender stays a local variable of
\* the caller, which never sends on it.
CompletedTask(value) ==
    [completed |-> TRUE, tx |-> "dropped", rx |-> "waiting", value |-> value]

\* oneshot::Sender::send: the value is refused when the future is gone.
Accepts(task) == task.rx # "dropped"
Send(task, value) ==
    IF Accepts(task) THEN [task EXCEPT !.tx = "sent", !.value = value]
                     ELSE [task EXCEPT !.tx = "dropped"]

\* A sender that goes out of scope unused, and a future that does.
Mutant_SendNothing(task) == IF task.tx = "held" THEN Send(task, None) ELSE task
DropSender(task) ==
    IF task.tx = "held" THEN [task EXCEPT !.tx = "dropped"] ELSE task
Unfinished(task) == task.rx \in {"waiting", "failed"}
DropFuture(task) ==
    IF Unfinished(task) THEN [task EXCEPT !.rx = "dropped"] ELSE task

\* CompletableTask::poll: a poll that learns something, a value or the news that
\* the sender was dropped; the value None panics in result.unwrap().
HasMessage(task) == task.completed \/ task.tx = "sent"
IsReady(task)    == task.rx = "waiting" /\ HasMessage(task) /\ task.value # None
PollPanics(task) == task.rx = "waiting" /\ HasMessage(task) /\ task.value = None
Forsaken(task)   == task.rx = "waiting" /\ task.tx = "dropped" /\ ~task.completed
Take(task)       == [task EXCEPT !.rx = "taken"]

\* The Err(_) arm: the task is pending all the same, and keeps the receiver that
\* has returned its error.
Fail(task) == IF ErrorRepeats THEN task ELSE [task EXCEPT !.rx = "failed"]

\* A poll that gets something out of the channel.
Receives(task) == task.rx = "waiting" /\ ~task.completed /\ task.tx # "held"
=============================================================================
