------------------------------ MODULE Programs ------------------------------
(***************************************************************************)
(* The words that orchestrators are written with in the instances for TLC, *)
(* and the orchestrators of examples/src, without what they log.           *)
(***************************************************************************)
EXTENDS Task, Sequences

Act     == [kind |-> "activity", name |-> None]
Timer   == [kind |-> "timer", name |-> None]
Sub     == [kind |-> "sub", name |-> None]
Wait(s) == [kind |-> "signal", name |-> s]

Await(ops)   == [mode |-> "all", ops |-> ops]
Race(ops)    == [mode |-> "any", ops |-> ops]
Forget(ops)  == [mode |-> "none", ops |-> ops]
Never        == [mode |-> "never", ops |-> <<>>]
Completes(b) == [body |-> b, result |-> "Completed"]

activity_sequence == Completes(<<Await(<<Timer>>), Await(<<Act>>)>>)
parallel          == Completes(<<Await(<<Act, Act>>)>>)
sub_orchestrator  == Completes(<<Await(<<Act>>), Await(<<Sub>>)>>)
sub_sequence      == Completes(<<Await(<<Act>>)>>)
external_events   == Completes(<<Await(<<Wait("go")>>)>>)
terminate_test    == Completes(<<Await(<<Timer>>)>>)
=============================================================================
