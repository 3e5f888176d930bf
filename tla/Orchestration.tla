---------------------------- MODULE Orchestration ----------------------------
(***************************************************************************)
(* What an orchestration instance promises, whoever executes it: it runs   *)
(* in turns.  A turn is durable as a whole.  It consumes results of tasks  *)
(* that earlier turns scheduled, each result once, and schedules further   *)
(* tasks under the numbers that follow.  An instance that ends with a      *)
(* result of its own has consumed the result of every task it scheduled,   *)
(* and after its end nothing happens any more.                             *)
(***************************************************************************)
EXTENDS Naturals

VARIABLES scheduled, consumed, status

Init ==
    /\ scheduled = {}
    /\ consumed = {}
    /\ status = "running"

\* Ids are given in the order of the calls, from 1.
Consecutive(S) == \A id \in S : id = 1 \/ id - 1 \in S

Turn ==
    /\ status = "running"
    /\ scheduled \subseteq scheduled'
    /\ Consecutive(scheduled')
    /\ consumed \subseteq consumed'
    /\ consumed' \subseteq scheduled
    /\ status' \in {"running", "Terminated", "Completed", "ContinuedAsNew", "Failed"}

Settled ==
    status' \in {"Completed", "ContinuedAsNew", "Failed"} =>
        consumed' = scheduled /\ scheduled' = scheduled

\* What every orchestrator keeps to, and what one does that joins all it calls.
Ledger == Init /\ [][Turn]_<<scheduled, consumed, status>>
Spec   == Init /\ [][Turn /\ Settled]_<<scheduled, consumed, status>>
==============================================================================
