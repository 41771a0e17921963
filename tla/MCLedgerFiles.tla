---------------------------- MODULE MCLedgerFiles ----------------------------
(* Instances for TLC of the two modules about the ledger's files, which share   *)
(* nothing but the reader's attention: subject says which of them a behaviour   *)
(* is about, and the other one rests in its initial state.                     *)
EXTENDS LedgerFiles, TLC

VARIABLE subject

ASSUME InstanceAssumption == Setting /\ Ledger!Setting

all == <<subject, vars, ledgerVars>>

FilesInit ==
  /\ Init /\ Ledger!Init
  /\ subject \in {"identity", "lock"}
  /\ subject = "lock" => db = None

\* Every process may be dead; only the identity's must not stop.
FilesNext ==
  \/ subject = "identity" /\ Ledger!Next /\ UNCHANGED <<subject, vars>>
  \/ subject = "lock" /\ Next /\ UNCHANGED <<subject, ledgerVars>>
  \/ subject = "lock" /\ UNCHANGED all

FilesSpec == FilesInit /\ [][FilesNext]_all /\ Fairness
=============================================================================
