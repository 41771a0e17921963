---------------------------- MODULE EmailRuntime ----------------------------
(***************************************************************************)
(* EmailPlugin: tool calls as coroutines of one event loop, the provider and  *)
(* store work they hand to threads, cancellation, and the unload callback    *)
(* that closes the runtime under them.  A call runs from one await to the     *)
(* next in one step; what it read before an await may be stale after it.      *)
(*                                                                         *)
(* Threads run on while close() waits for a store's lock.  What the loop does  *)
(* depends on the thread on which the host calls on_unload, which nothing in    *)
(* the repository says.  On the loop's own, the loop stands still until close()  *)
(* is through.  On another, the loop runs on, and close() may strike in the      *)
(* middle of a call's step, which checks _closed and acts on it without a lock.  *)
(***************************************************************************)
EXTENDS Naturals

CONSTANTS
  Call,     \* tool calls
  Kind,     \* what each does
  MaxFails  \* bound on provider, store and audit failures

\* What the model takes for granted of them.
Setting ==
  /\ Kind \in [Call -> {"read", "thread", "health", "draft"}]
  /\ MaxFails \in Nat

VARIABLES
  closed,     \* _closed; provider and stores are then None
  closing,    \* how far close() is
  state,      \* _runtime_state
  draftDiag,  \* _draft_diagnostic is set
  auditDiag,  \* _audit_diagnostic is set
  call,
  thread,     \* what a call handed to a store's thread
  fails,
  onLoop,     \* close() is under way, on the loop's own thread
  midway,     \* the call, if any, whose step close() struck and that still runs it
  late        \* history: such a step has ended

vars == <<closed, closing, state, draftDiag, auditDiag, call, thread, fails, onLoop, midway, late>>
status == <<state, draftDiag>>

State == {"configured", "ready", "provider-error", "storage-error", "disabled"}

\* stage: the reads of a thread call; result: what the tool's caller got;
\* receipt: the audit part of it; owed: mail received and not yet recorded.
CallState == [pc: {"idle", "provider", "observing", "draining", "drafting", "settling", "ended"},
              stage: {"seed", "page", "bodies"},
              result: {"none", "returned", "raised", "cancelled"},
              receipt: {"none", "clean", "gap", "failed"}, owed: BOOLEAN]
ThreadState == {"none", "queued", "running", "ok", "error"}

TypeOK ==
  /\ closed \in BOOLEAN
  /\ closing \in {"open", "drafts", "observations", "provider", "done"}
  /\ state \in State
  /\ draftDiag \in BOOLEAN /\ auditDiag \in BOOLEAN
  /\ call \in [Call -> CallState]
  /\ thread \in [Call -> ThreadState]
  /\ fails \in 0 .. MaxFails
  /\ closed <=> closing # "open"
  /\ onLoop \in BOOLEAN
  /\ midway \subseteq Call /\ late \in BOOLEAN

Init ==
  /\ closed = FALSE
  /\ closing = "open"
  /\ state = "configured"
  /\ draftDiag = FALSE /\ auditDiag = FALSE
  /\ call = [c \in Call |-> [pc |-> "idle", stage |-> IF Kind[c] = "thread" THEN "seed" ELSE "page",
                             result |-> "none", receipt |-> "none", owed |-> FALSE]]
  /\ thread = [c \in Call |-> "none"]
  /\ fails = 0
  /\ onLoop = FALSE
  /\ midway = {} /\ late = FALSE

-----------------------------------------------------------------------------
(* Helpers.  Definitions named Bug... are slips a maintainer could make in    *)
(* the definition that follows them.                                          *)

Fail == fails < MaxFails /\ fails' = fails + 1
Draft(c) == Kind[c] = "draft"
Closed(store) ==
  IF store = "drafts" THEN closing \in {"observations", "provider", "done"}
                      ELSE closing \in {"provider", "done"}
StoreOf(c) == IF Draft(c) THEN "drafts" ELSE "observations"
Done(c) == thread[c] \in {"ok", "error"}


\* A step checks _closed in three places: before it goes on, before it notes the
\* state, and, by way of audit_store, before the audit.  view says how many of them
\* find the runtime open; only a step that close() strikes can see it change.
Views(c) == IF c \in midway THEN 0 .. 3 ELSE {IF closed THEN 0 ELSE 3}
GoesOn(view) == view >= 1
Notes(view) == view >= 2
Audits(view) == view >= 3

\* What a field may hold once a step has noted value in it: a step that close()
\* strikes does so before close() assigns the field, or after it.
Noted(c, view, field, value) ==
  IF ~Notes(view) THEN {field} ELSE IF c \in midway THEN {field, value} ELSE {value}

RecordFailure(c, view) ==
  state' \in Noted(c, view, state, "provider-error") /\ UNCHANGED draftDiag
RecordSuccess(c, view) == state' \in Noted(c, view, state, "ready") /\ UNCHANGED draftDiag
RecordStorageFailure(c, view) ==
  state' \in Noted(c, view, state, "storage-error") /\ UNCHANGED draftDiag

\* The runtime forgets a gap once an event is written again.
BugAuditDiag(ok) == ~ok
AuditDiag(ok) == auditDiag \/ ~ok

\* _json_success and _json_error write an audit event; a cancelled call does not.
\* A store that close() has been through refuses it.
End(c, view, result, owed) ==
  LET ended(receipt) ==
        call' = [call EXCEPT ![c] = [pc |-> "ended", stage |-> call[c].stage, result |-> result,
                                     receipt |-> receipt, owed |-> owed]] IN
  IF ~Audits(view) \/ result = "cancelled"
  THEN ended("none") /\ UNCHANGED <<auditDiag, fails>>
  ELSE \/ /\ auditDiag' = AuditDiag(TRUE)
          /\ ended(IF auditDiag' THEN "gap" ELSE "clean")
          /\ UNCHANGED fails
       \/ /\ Fail \/ (c \in midway /\ UNCHANGED fails)
          /\ auditDiag' = AuditDiag(FALSE) /\ ended("failed")

Goto(c, pc) == call' = [call EXCEPT ![c].pc = pc] /\ UNCHANGED <<auditDiag, fails>>
Runtime == <<closed, closing, onLoop>>

-----------------------------------------------------------------------------
(* Reads *)

\* _read_provider and _local_draft_store.
Begin(c, view) ==
  /\ call[c].pc = "idle"
  /\ UNCHANGED <<Runtime, status>>
  /\ \/ ~GoesOn(view) /\ End(c, view, "raised", FALSE) /\ UNCHANGED thread
     \/ GoesOn(view) /\ ~Draft(c) /\ Goto(c, "provider") /\ UNCHANGED thread
     \/ /\ GoesOn(view) /\ Draft(c) /\ Goto(c, "drafting")
        /\ thread' = [thread EXCEPT ![c] = "queued"]

\* The provider's answer: _ensure_open_after_operation, then _observe_messages.
\* Bodies of a thread belong to messages that were recorded with their page.
PageArrives(c, view) ==
  /\ call[c].pc = "provider" /\ Kind[c] # "health"
  /\ UNCHANGED <<Runtime, status>>
  /\ \/ ~GoesOn(view) /\ End(c, view, "raised", FALSE) /\ UNCHANGED thread
     \/ /\ GoesOn(view) /\ call[c].stage # "bodies"
        /\ call' = [call EXCEPT ![c].pc = "observing", ![c].owed = TRUE]
        /\ thread' = [thread EXCEPT ![c] = "queued"]
        /\ UNCHANGED <<auditDiag, fails>>
     \/ /\ GoesOn(view) /\ call[c].stage = "bodies"
        /\ End(c, view, "returned", FALSE) /\ UNCHANGED thread

\* An EmailProviderError: a closed provider's, or one the bound allows.  A
\* missing folder only leaves bodies out.
ReadFails(c, view) ==
  /\ call[c].pc = "provider" /\ Kind[c] # "health"
  /\ UNCHANGED <<Runtime, thread>>
  /\ \/ RecordFailure(c, view) /\ End(c, view, "raised", FALSE)
     \/ /\ GoesOn(view) /\ call[c].stage = "bodies" /\ UNCHANGED status
        /\ End(c, view, "returned", FALSE)

\* What an observed page is for: the next read of a thread call, or the caller.
Proceed(c, view) ==
  \/ /\ call[c].stage = "seed"
     /\ call' = [call EXCEPT ![c].pc = "provider", ![c].stage = "page", ![c].owed = FALSE]
     /\ UNCHANGED <<auditDiag, fails>>
  \/ /\ call[c].stage = "page" /\ Kind[c] = "thread"
     /\ call' = [call EXCEPT ![c].pc = "provider", ![c].stage = "bodies", ![c].owed = FALSE]
     /\ UNCHANGED <<auditDiag, fails>>
  \/ call[c].stage = "page" /\ End(c, view, "returned", FALSE)

\* The runtime is not looked at again after the observation.
BugObserved(c, view) ==
  /\ call[c].pc = "observing" /\ thread[c] = "ok"
  /\ RecordSuccess(c, view) /\ Proceed(c, view)
  /\ thread' = [thread EXCEPT ![c] = "none"]
  /\ UNCHANGED Runtime

\* _ensure_open_after_operation and _record_provider_success, in which a provider
\* that close() takes away raises; so it does in the next read.
Observed(c, view) ==
  /\ call[c].pc = "observing" /\ thread[c] = "ok"
  /\ \/ ~GoesOn(view) /\ End(c, view, "raised", FALSE) /\ UNCHANGED status
     \/ GoesOn(view) /\ RecordSuccess(c, view) /\ Proceed(c, view)
     \/ GoesOn(view) /\ c \in midway /\ RecordSuccess(c, view) /\ End(c, view, "raised", FALSE)
  /\ thread' = [thread EXCEPT ![c] = "none"]
  /\ UNCHANGED Runtime

NotObserved(c, view) ==
  /\ call[c].pc = "observing" /\ thread[c] = "error"
  /\ RecordStorageFailure(c, view)
  /\ End(c, view, "raised", call[c].owed)
  /\ thread' = [thread EXCEPT ![c] = "none"]
  /\ UNCHANGED Runtime

\* Only a store that succeeds is waited for.
BugDrained(c, view) ==
  /\ call[c].pc = "draining" /\ thread[c] = "ok"
  /\ UNCHANGED status
  /\ End(c, view, "cancelled", call[c].owed)
  /\ UNCHANGED <<Runtime, thread>>

\* await task, after a cancellation.
Drained(c, view) ==
  /\ call[c].pc = "draining" /\ Done(c)
  /\ \/ thread[c] = "ok" /\ UNCHANGED status
     \/ thread[c] = "error" /\ RecordStorageFailure(c, view)
  /\ End(c, view, "cancelled", call[c].owed)
  /\ UNCHANGED <<Runtime, thread>>

ProbeAnswers(c, view) ==
  /\ call[c].pc = "provider" /\ Kind[c] = "health"
  /\ \/ state = "storage-error" /\ UNCHANGED status
     \/ state # "storage-error" /\ RecordSuccess(c, view)
     \/ RecordFailure(c, view)
  /\ End(c, view, "returned", FALSE)
  /\ UNCHANGED <<Runtime, thread>>

-----------------------------------------------------------------------------
(* Drafts *)

DraftDone(c, view) ==
  /\ call[c].pc = "drafting" /\ Done(c)
  /\ draftDiag' \in Noted(c, view, draftDiag, thread[c] = "error")
  /\ End(c, view, IF thread[c] = "ok" THEN "returned" ELSE "raised", FALSE)
  /\ UNCHANGED <<Runtime, thread, state>>

DraftSettled(c, view) ==
  /\ call[c].pc = "settling" /\ Done(c)
  /\ draftDiag' \in Noted(c, view, draftDiag, draftDiag \/ thread[c] = "error")
  /\ End(c, view, "cancelled", FALSE)
  /\ UNCHANGED <<Runtime, thread, state>>

\* A second cancellation ends the call with its thread still at work.
BugCancelDraft(c) ==
  \/ call[c].pc = "drafting" /\ Goto(c, "settling")
  \/ call[c].pc = "settling" /\ End(c, 0, "cancelled", FALSE)

\* However often it is cancelled, a draft call waits for its outcome.
CancelDraft(c) == call[c].pc = "drafting" /\ Goto(c, "settling")

\* A read waits once.  A thread that had not started then never does, but it may
\* be waiting for the store's lock.
Cancel(c) ==
  /\ UNCHANGED <<Runtime, status>>
  /\ \/ CancelDraft(c) /\ UNCHANGED thread
     \/ call[c].pc = "provider" /\ End(c, 0, "cancelled", FALSE) /\ UNCHANGED thread
     \/ call[c].pc = "observing" /\ Goto(c, "draining") /\ UNCHANGED thread
     \/ /\ call[c].pc = "draining" /\ End(c, 0, "cancelled", call[c].owed)
        /\ \/ UNCHANGED thread
           \/ thread[c] = "queued" /\ thread' = [thread EXCEPT ![c] = "none"]

-----------------------------------------------------------------------------
(* Threads of the stores, and close() *)

\* One operation of a store at a time; a closed store raises.
StartThread(c) ==
  /\ thread[c] = "queued"
  /\ \A d \in Call : StoreOf(d) = StoreOf(c) => thread[d] # "running"
  /\ thread' = [thread EXCEPT ![c] = IF Closed(StoreOf(c)) THEN "error" ELSE "running"]
  /\ UNCHANGED <<Runtime, status, auditDiag, call, fails, midway, late>>

\* Commit, or rollback.
FinishThread(c) ==
  /\ thread[c] = "running"
  /\ \/ thread' = [thread EXCEPT ![c] = "ok"] /\ UNCHANGED fails
     \/ thread' = [thread EXCEPT ![c] = "error"] /\ Fail
  /\ UNCHANGED <<Runtime, status, auditDiag, call, midway, late>>

\* The loop may be in the middle of a step of such a call.
Awake(c) == call[c].pc \in {"idle", "provider"} \/ (call[c].pc # "ended" /\ Done(c))

\* close() up to its first close() of a store: on the loop's thread, on another one
\* between two steps, or on another one in the middle of a step.
Close ==
  /\ ~closed
  /\ closed' = TRUE
  /\ closing' = "drafts"
  /\ state' = "disabled"
  /\ draftDiag' = FALSE
  /\ \/ onLoop' = TRUE /\ UNCHANGED midway
     \/ UNCHANGED <<onLoop, midway>>
     \/ \E c \in Call : Awake(c) /\ midway' = {c} /\ UNCHANGED onLoop
  /\ UNCHANGED <<auditDiag, call, thread, fails, late>>

Quiet(store) == \A c \in Call : StoreOf(c) = store => thread[c] # "running"

\* close() of the stores waits for their locks, the provider's for a time-out.
CloseStores ==
  /\ \/ closing = "drafts" /\ Quiet("drafts") /\ closing' = "observations"
     \/ closing = "observations" /\ Quiet("observations") /\ closing' = "provider"
     \/ closing = "provider" /\ closing' = "done"
  /\ onLoop' = (onLoop /\ closing' # "done")
  /\ UNCHANGED <<closed, status, auditDiag, call, thread, fails, midway, late>>

-----------------------------------------------------------------------------

Resume(c, view) ==
  \/ PageArrives(c, view) \/ ReadFails(c, view) \/ Observed(c, view) \/ NotObserved(c, view)
  \/ Drained(c, view) \/ ProbeAnswers(c, view) \/ DraftDone(c, view) \/ DraftSettled(c, view)
Work(c) == StartThread(c) \/ FinishThread(c)

\* The loop runs one step after another, of which close() may have struck one, and
\* none while its own thread is in close().
LoopRuns(c) ==
  /\ ~onLoop
  /\ midway \subseteq {c} /\ midway' = {} /\ late' = (late \/ midway # {})
Turn(c) == LoopRuns(c) /\ \E view \in Views(c) : Begin(c, view) \/ Resume(c, view)

Next ==
  \/ Close \/ CloseStores
  \/ \E c \in Call : Turn(c) \/ (LoopRuns(c) /\ midway = {} /\ Cancel(c)) \/ Work(c)

Spec == Init /\ [][Next]_vars

\* The loop runs what is ready, the pool's threads run, and a store's lock goes to
\* whoever waits.  Nobody has to begin a call and a provider need not answer, since
\* nothing bounds its name lookup; but a step that has begun goes on.
Fairness ==
  /\ \A c \in Call : /\ WF_vars((call[c].pc \notin {"idle", "provider"} \/ c \in midway) /\ Turn(c))
                     /\ SF_vars(StartThread(c)) /\ WF_vars(FinishThread(c))
  /\ SF_vars(CloseStores)

LiveSpec == Spec /\ Fairness

-----------------------------------------------------------------------------
(* Properties *)

\* Mail a caller gets was recorded in the observation store, also when the store
\* is closed, fails or is still at work in between: a storage failure fails the
\* read closed (tests/test_persistence_integration.py).
ReturnedIsRecorded == \A c \in Call : call[c].result = "returned" => ~call[c].owed

\* A read that was awaiting when the runtime closed never hands out mail.  Only a
\* step that close() struck on its way from the last check to the caller does.
NoMailAfterClose ==
  [][closed => \A c \in Call : Kind[c] \in {"read", "thread"} =>
       (call'[c].result = "returned" => call[c].result = "returned" \/ c \in midway)]_vars

\* "Runtime unload ... prevents late health completion from restoring readiness"
\* (CHANGELOG.md), and so no late failure, success or draft result either; but a
\* step that close() strikes from another thread than the loop's may.
ClosedIsDisabled == closed /\ midway = {} /\ ~late => state = "disabled" /\ ~draftDiag

\* Once close() is through, no store's thread is at work and none starts.
ClosedIsQuiet == closing = "done" => \A c \in Call : thread[c] # "running"

\* A draft call that has ended knows its outcome, however often it was cancelled:
\* nothing commits behind it.
DraftOutcomeKnown ==
  \A c \in Call : Draft(c) /\ call[c].pc = "ended" => thread[c] \notin {"queued", "running"}

\* Once an event was lost every later receipt shows a gap
\* (docs/audit-reliability.md).
GapStaysVisible ==
  [][\A c \in Call : call'[c].receipt = "clean" /\ call[c].receipt # "clean" =>
       \A d \in Call : call[d].receipt # "failed"]_vars

\* What holds of every state: recorded mail, closed runtimes and draft calls that
\* know their outcome.
RuntimeInv ==
  TypeOK /\ ReturnedIsRecorded /\ ClosedIsDisabled /\ ClosedIsQuiet /\ DraftOutcomeKnown

\* Every call that does not wait for the provider goes on, whatever fails or is
\* cancelled, so that again and again all that began have ended or are back at the
\* provider; and close() comes to its end.  Each waits for locks that threads of the
\* other hold.
CallsEnd ==
  /\ []<>(\A c \in Call : call[c].pc \in {"idle", "provider", "ended"})
  /\ closed ~> closing = "done"
=============================================================================
