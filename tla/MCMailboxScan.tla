--------------------------- MODULE MCMailboxScan ----------------------------
(* The instance of ReadPath for TLC in which the scan runs; the runtime above it  *)
(* has no call and the sessions below no worker.                                *)
EXTENDS ReadPath

NoCall == [c \in {} |-> "read"]

ASSUME InstanceAssumption == Runtime!Setting /\ Scan!Setting

ScanInit == Scan!Init /\ Init /\ Runtime!Init
ScanNext == Scan!Next /\ UNCHANGED <<vars, runtimeVars>>

ScanSpec == ScanInit /\ [][ScanNext]_<<scanVars, vars, runtimeVars>> /\ Scan!Fairness
=============================================================================
