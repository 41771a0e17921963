------------------------------ MODULE MCTables -------------------------------
(* The instance of Tables for TLC.  The two tables share nothing: subject says   *)
(* which of them a behaviour is about, and the other rests in an initial state.  *)
EXTENDS Tables, TLC

VARIABLE subject

ASSUME InstanceAssumption == Audit!Bounds

TablesInit ==
  /\ Init /\ Audit!Init
  /\ subject \in {"observations", "audit"}
  /\ subject = "audit" => clock = 0 /\ lastId < MaxId  \* or nothing could be recorded
  /\ subject = "observations" => auditClock = 0 /\ auditMade = 0

TablesNext ==
  \/ subject = "observations" /\ Next /\ UNCHANGED <<subject, auditVars>>
  \/ subject = "audit" /\ Audit!Next /\ UNCHANGED <<subject, vars>>

TablesSpec == TablesInit /\ [][TablesNext]_<<subject, vars, auditVars>>

Symmetric == Permutations(Store)
=============================================================================
