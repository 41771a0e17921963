------------------------------ MODULE ReadPath ------------------------------
(***************************************************************************)
(* The layers of a tool call that reads mail: the plugin's runtime (EmailRuntime, *)
(* an instance), the scan over folders (MailboxScan, an instance) and the IMAP   *)
(* sessions (ImapSession, extended here).  Each layer's module covers whatever   *)
(* the one below may answer and whenever close() strikes, so they share nothing  *)
(* but this reading.                                                            *)
(***************************************************************************)
EXTENDS ImapSession

CONSTANTS
  Call, Kind, MaxFails,                            \* of the runtime
  N, MaxUid, MaxValidity, Limits, Changes, None    \* of the scan

VARIABLES
  runtimeClosed, runtimeClosing, state, draftDiag, auditDiag, call, thread, fails, onLoop, midway,
  late, boxes, chain, scan, scanClosed, changes, scanFaults

runtimeVars == <<runtimeClosed, runtimeClosing, state, draftDiag, auditDiag, call, thread, fails,
                 onLoop, midway, late>>
scanVars == <<boxes, chain, scan, scanClosed, changes, scanFaults>>

Runtime == INSTANCE EmailRuntime WITH closed <- runtimeClosed, closing <- runtimeClosing
Scan == INSTANCE MailboxScan WITH call <- scan, closed <- scanClosed, faults <- scanFaults

-----------------------------------------------------------------------------
(* The instances' properties, under names of their own. *)

\* Mail a caller gets was recorded, a closed runtime is disabled and quiet, but for a
\* step that close() struck, and a draft call that ended knows its outcome
\* (plugin.py, EmailPlugin).
RuntimeInv == Runtime!RuntimeInv

\* A read that was awaiting when the runtime closed never hands out mail, but for
\* the last step of one that close() struck (_ensure_open_after_operation, _observe_messages).
NoMailAfterClose == Runtime!NoMailAfterClose

\* After a lost audit event no receipt is clean (docs/audit-reliability.md).
GapStaysVisible == Runtime!GapStaysVisible

\* Every call ends or waits for the provider's answer; close() ends
\* (_observe_messages, _run_draft_operation).
CallsEnd == Runtime!CallsEnd

\* A scan that claims to be complete showed what stayed, once, and its folders
\* took turns (multi_mailbox.py _scan).
ScanInv == Scan!ScanInv

\* Windows are read under the folder's first UIDVALIDITY, and a provider that was
\* closed returns no page (imap.py _cursor_upper_bound, multi_mailbox.py _scan).
WindowsStayCurrent == Scan!WindowsStayCurrent

\* A caller that goes on with its cursor comes to an end (multi_mailbox.py _scan).
ScanEnds == Scan!ScanEnds
=============================================================================
