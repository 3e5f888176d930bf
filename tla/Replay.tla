------------------------------- MODULE Replay -------------------------------
(***************************************************************************)
(* What a replay meets that the execution before it did not.  The worker   *)
(* keeps nothing between two work items: it executes the log from its      *)
(* start.  The log holds the events that the first execution met, and      *)
(* among them the acknowledgements of its calls, in the order that a       *)
(* HashMap chose.  This module states that they make no difference: an     *)
(* execution over any history goes through the states of one over the same *)
(* history bare of acknowledgements.                                       *)
(***************************************************************************)
EXTENDS Executor

\* Two variables that only look on.
VARIABLES
    unacked,   \* the history, without the acknowledgements
    asked      \* the actions, had none of them been acknowledged

replay_vars == <<vars, unacked, asked>>

ReplayInit == Init /\ unacked = <<>> /\ asked = EmptyMap

LooksOn ==
    /\ LET e == history'[Len(history')]
       IN unacked' = IF history' = history \/ e.type \in Created
                     THEN unacked ELSE Append(unacked, e)
    /\ asked' = [id \in DOMAIN asked \cup DOMAIN pending_actions' |->
                    IF id \in DOMAIN pending_actions' THEN pending_actions'[id] ELSE asked[id]]

ReplayNext == Next /\ LooksOn
ReplaySpec == ReplayInit /\ [][ReplayNext]_replay_vars

\* While the first takes an acknowledgement, the second waits for an event.
AtAck == history # <<>> /\ history[Len(history)].type \in Created
Acknowledging == pc = "drain" /\ AtAck

Bare == INSTANCE Executor WITH
    history <- unacked,
    pc <- IF Acknowledging THEN "event" ELSE pc,
    pending_actions <- asked

-----------------------------------------------------------------------------
(* Properties.                                                             *)

\* An execution over a history with acknowledgements (executor.rs:217-224, 252-259,
\* 291-298), wherever they stand and whatever they are for, makes the calls of one
\* over the history without, under the same ids, at the same events and with the
\* same outcome.
AcknowledgedIsBare == Bare!Spec

\* What makes it inductive: what is left to ask for is among what was asked.
AskedFor ==
    /\ DOMAIN pending_actions \subseteq DOMAIN asked
    /\ \A id \in DOMAIN pending_actions : asked[id] = pending_actions[id]
    /\ asked = [id \in DOMAIN asked |-> asked[id]]
UnackedOK ==
    /\ unacked \in Seq(Events)
    /\ Len(unacked) <= Len(history)
    /\ \A i \in DOMAIN unacked : \E j \in DOMAIN history : history[j] = unacked[i]
BareInv ==
    /\ AskedFor
    /\ UnackedOK
    /\ Acknowledging => drained = Len(calls)
    /\ Polling => ~AtAck
=============================================================================
