------------------------------- MODULE Tables --------------------------------
(***************************************************************************)
(* The two bounded tables that a runtime keeps beside its send ledger: the      *)
(* observations (ObservationLedger, extended here) and the audit log (AuditLog,  *)
(* an instance).  They are databases of their own and share no state.           *)
(***************************************************************************)
EXTENDS ObservationLedger

CONSTANTS MaxEvents, Limit, MaxId

VARIABLES auditClock, auditFile, auditMade, auditSchema, events, lastId, auditClosed,
          identity, auditPc, auditExpected, read, wrote

auditVars == <<auditClock, auditFile, auditMade, auditSchema, events, lastId, auditClosed,
               identity, auditPc, auditExpected, read, wrote>>

Audit == INSTANCE AuditLog WITH
  clock <- auditClock, file <- auditFile, made <- auditMade, schema <- auditSchema,
  closed <- auditClosed, pc <- auditPc, expected <- auditExpected

-----------------------------------------------------------------------------
(* AuditLog's properties, under names of their own. *)

\* What holds of every state of the audit log: its types, at most max_events rows once
\* it is ours, one (st_dev, st_ino) for each runtime, and answers within their limit
\* (audit.py).
AuditInv == Audit!AuditInv

\* Nothing but age and a full log takes an event from the log, the oldest first.
KeepsTheNewest == Audit!KeepsTheNewest
=============================================================================
