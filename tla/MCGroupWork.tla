---------------------------- MODULE MCGroupWork ----------------------------
(* The controller of ManagedClusterGroupWork with what an agent reports.   *)
EXTENDS GroupWork

\* A work that is applied and whose resources are not available.
AgentReportsIn == {[applied |-> "true", available |-> "false"]}

=============================================================================
