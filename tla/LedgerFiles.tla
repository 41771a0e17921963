---------------------------- MODULE LedgerFiles -----------------------------
(***************************************************************************)
(* The two modules about the send ledger's files.  The lock file's lease       *)
(* (FileLease) and the identity of the database (LedgerIdentity) share no      *)
(* variable: a lease is taken after the transaction that checked the files,     *)
(* and checks the lock file anew.                                             *)
(***************************************************************************)
EXTENDS FileLease

CONSTANTS Opener, Attempt, Authorised, MaxInode, MaxUuid, MaxCrashes, MaxMoves

VARIABLES db, anchor, disp, guard, process, backup, inodes, crashes, moves, allowed

Ledger == INSTANCE LedgerIdentity WITH
  Proc <- Opener, MaxHands <- MaxMoves, proc <- process, hands <- moves

ledgerVars == <<db, anchor, disp, guard, process, backup, inodes, crashes, moves, allowed>>

\* LedgerIdentity's properties, under names of their own.  No attempt is permitted
\* twice by a ledger that came back with a worse memory.
IdentityInv == Ledger!IdentityInv

\* No step but the operator's takes a row or an outcome from the ledger's file.
EvidenceKept == Ledger!EvidenceKept

\* An anchor that is there is never made over.
AnchorStands == Ledger!AnchorStands
=============================================================================
