--------------------------- MODULE MCReplayFilter ---------------------------
\* Instances of ReplayFilter: the orchestrators of MCInstance.
EXTENDS ReplayFilter, MCInstance

\* The conditions of JoinProofs!FilteredNeverPanics and FilteredKeepsPromise.
ASSUME JoinTheoremsApply == OnlyJoins /\ InputsDecode
=============================================================================
