------------------------------ MODULE MCReplay ------------------------------
(***************************************************************************)
(* The programs and the events of MCExecutor, for Replay.                  *)
(***************************************************************************)
EXTENDS MCExecutor, Replay

\* The conditions of DeliveryProofs!NoWakeupLost.
ASSUME WakeupTheoremApplies == Gentle /\ MaxEvents < Budget
=============================================================================
