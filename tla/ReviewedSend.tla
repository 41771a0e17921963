----------------------------- MODULE ReviewedSend -----------------------------
(***************************************************************************)
(* send_workflow.py and approval.py over draft_storage.hold_active_revision *)
(* and the send ledger: one draft, several terminal sessions that run the  *)
(* email-send command, an editor, and settings that may change meanwhile.  *)
(*                                                                         *)
(* The human prompt takes time and holds no lock: everything read before   *)
(* it (settings, draft, ledger) may be stale after it.  The workflow then  *)
(* pins the draft (the write reservation of the draft database), consumes  *)
(* the grant against a fresh snapshot, and re-checks scope, settings and   *)
(* expiry twice more, at the transport's entry and just before DATA.       *)
(*                                                                         *)
(* The ledger is taken at its promise, SendAttempts, which module          *)
(* SendLedger implements.  The operation identifier is a function of the   *)
(* draft revision, so Op is Rev; a fresh grant makes a fresh confirmation  *)
(* identifier, so a second intent for a revision is always a conflict.     *)
(***************************************************************************)
EXTENDS Naturals

CONSTANTS
  Session,   \* terminal sessions, each a process of its own
  Cfg,       \* settings that differ in something a reviewer is bound to
  None,
  MaxRev,    \* bound on draft revisions (the code's is 2^31 - 1)
  Ttl,       \* ApprovalAuthority.ttl
  MaxClock,  \* bound on the monotonic clock
  MaxFaults  \* bound on deaths and failed terminal transactions

ASSUME NoneFresh == None \notin Session \cup Cfg
ASSUME BoundsNat == MaxRev \in Nat \ {0} /\ Ttl \in Nat \ {0} /\ MaxClock \in Nat /\ MaxFaults \in Nat

Rev == 1 .. MaxRev
Clock == 0 .. MaxClock

VARIABLES
  draft,     \* the stored draft: its revision and whether it is active
  held,      \* the session that holds the draft database's write reservation
  config,    \* what config_provider returns now
  clock,
  run,       \* what each session is doing
  status, bound, attempts, accepted,   \* the ledger, see SendAttempts
  copy,      \* copy[r]: the .eml file of revision r's operation
  out,       \* out[s]: the last result of session s
  faults

ledger == <<status, bound, attempts, accepted>>
env == <<draft, config, clock>>
vars == <<env, held, run, ledger, copy, out, faults>>

Ledger == INSTANCE SendAttempts WITH
  Op <- Rev, Content <- Rev, KeyOf <- [r \in Rev |-> r]

PC == {"idle", "lookup", "prompt", "hold", "consume", "begin",
       "entry", "connect", "data", "reply", "finish", "copy"}
\* The session is inside send_once and owns the ledger's dispatch.
Live == {"entry", "connect", "data", "reply", "finish"}
Outcome == {"accepted", "definite-failure", "delivery-unknown", "dispatching",
            "outcome-unknown", "denied"}

\* cfg, rev: the settings and revision the run started from; start: when the
\* challenge was drawn; content: the revision whose bytes are to be sent;
\* checked: the clock and the
\* settings when check_approval last passed; result, raised: how submit_once
\* ended; sent: DATA went out (history).
Run == [pc: PC, cfg: Cfg \cup {None}, rev: Rev \cup {None}, start: Clock \cup {None},
        content: Rev \cup {None}, checked: [at: Clock, cfg: Cfg] \cup {None},
        result: Ledger!Terminal \cup {None}, raised: BOOLEAN, sent: BOOLEAN]
Idle == [pc |-> "idle", cfg |-> None, rev |-> None, start |-> None, content |-> None,
         checked |-> None, result |-> None, raised |-> FALSE, sent |-> FALSE]

TypeOK ==
  /\ draft \in [rev: Rev, active: BOOLEAN]
  /\ held \in Session \cup {None}
  /\ config \in Cfg
  /\ clock \in Clock
  /\ run \in [Session -> Run]
  /\ status \in [Rev -> {"absent", "dispatching"} \cup Ledger!Terminal]
  /\ bound \in [Rev -> Rev \cup {None}]
  /\ attempts \in [Rev -> Nat]
  /\ accepted \in [Rev -> BOOLEAN]
  /\ copy \in [Rev -> {"none", "partial", "saved"}]
  /\ out \in [Session -> [outcome: Outcome \cup {None}, rev: Rev \cup {None}]]
  /\ faults \in 0 .. MaxFaults

Init ==
  /\ draft = [rev |-> 1, active |-> TRUE]
  /\ held = None
  /\ config \in Cfg
  /\ clock = 0
  /\ run = [s \in Session |-> Idle]
  /\ Ledger!Init
  /\ copy = [r \in Rev |-> "none"]
  /\ out = [s \in Session |-> [outcome |-> None, rev |-> None]]
  /\ faults = 0

-----------------------------------------------------------------------------
(* Helpers.  Definitions named Bug... are slips a maintainer could make in  *)
(* the definition that follows them; PROJECT.json names what each breaks.   *)

At(s, pc) == run[s].pc = pc
Goto(s, pc) == run' = [run EXCEPT ![s].pc = pc]

OneFault ==
  /\ faults < MaxFaults
  /\ faults' = faults + 1

\* The reservation outlives the run that took it.
BugEnd(s, outcome) ==
  /\ out' = [out EXCEPT ![s] = [outcome |-> outcome, rev |-> run[s].rev]]
  /\ run' = [run EXCEPT ![s] = Idle]
  /\ UNCHANGED held

\* The run returns or raises: the with-block gives the reservation back, the
\* finally clause forgets the authority and its grants.
End(s, outcome) ==
  /\ out' = [out EXCEPT ![s] = [outcome |-> outcome, rev |-> run[s].rev]]
  /\ run' = [run EXCEPT ![s] = Idle]
  /\ held' = IF held = s THEN None ELSE held

InTime(s) == run[s].start <= clock /\ clock < run[s].start + Ttl

\* Settings and expiry, as consume and check_approval compare them.  A scope
\* that changed, or a provider that raises, is a check that fails.
StillApproved(s) ==
  /\ config = run[s].cfg
  /\ InTime(s)

-----------------------------------------------------------------------------
(* Before the reservation *)

\* The gates, the draft and the operation identifier.  What they refuse ends
\* the call before it has read or changed anything else.
Start(s) ==
  /\ At(s, "idle")
  /\ draft.active
  /\ run' = [run EXCEPT ![s] = [Idle EXCEPT !.pc = "lookup", !.cfg = config,
                                            !.rev = draft.rev]]
  /\ out' = [out EXCEPT ![s] = [outcome |-> None, rev |-> None]]
  /\ UNCHANGED <<env, held, ledger, copy, faults>>

\* The ledger after get's recovery, which needs the lease a live dispatch holds.
Recovered ==
  IF \E s \in Session : run[s].pc \in Live
  THEN status
  ELSE Ledger!Abandoned(Ledger!Undecided)

\* ledger.get: a recorded attempt is the answer and nobody is prompted.
LookupFinds(s) ==
  /\ At(s, "lookup")
  /\ Recovered[run[s].rev] # "absent"
  /\ status' = Recovered
  /\ End(s, Recovered[run[s].rev])
  /\ UNCHANGED <<env, bound, attempts, accepted, copy, faults>>

\* Only a decided operation counts as evidence.
BugLookupMisses(s) ==
  /\ At(s, "lookup")
  /\ status[run[s].rev] \in {"absent", "dispatching"}
  /\ status' = Recovered
  /\ run' = [run EXCEPT ![s].pc = "prompt", ![s].start = clock]
  /\ UNCHANGED <<env, held, bound, attempts, accepted, copy, out, faults>>

LookupMisses(s) ==
  /\ At(s, "lookup")
  /\ Recovered[run[s].rev] = "absent"
  /\ status' = Recovered
  /\ run' = [run EXCEPT ![s].pc = "prompt", ![s].start = clock]
  /\ UNCHANGED <<env, held, bound, attempts, accepted, copy, out, faults>>

\* The human types the challenge before the grant's time is over.
Approve(s) ==
  /\ At(s, "prompt")
  /\ InTime(s)
  /\ Goto(s, "hold")
  /\ UNCHANGED <<env, held, ledger, copy, out, faults>>

\* The reservation is taken for whatever is stored by now.
BugHold(s) ==
  /\ At(s, "hold")
  /\ held = None
  /\ draft.active
  /\ held' = s
  /\ run' = [run EXCEPT ![s].pc = "consume", ![s].content = draft.rev]
  /\ UNCHANGED <<env, ledger, copy, out, faults>>

\* hold_active_revision: the exact revision, active, or an exception.
Hold(s) ==
  /\ At(s, "hold")
  /\ held = None
  /\ draft.active
  /\ draft.rev = run[s].rev
  /\ held' = s
  /\ run' = [run EXCEPT ![s].pc = "consume", ![s].content = draft.rev]
  /\ UNCHANGED <<env, ledger, copy, out, faults>>

\* consume, and the candidate made from the pinned revision.
Consume(s) ==
  /\ At(s, "consume")
  /\ StillApproved(s)
  /\ Goto(s, "begin")
  /\ UNCHANGED <<env, held, ledger, copy, out, faults>>

\* A denial or a time-out at the prompt, a busy or changed draft, a grant that
\* no longer fits, a storage error: an exception before send_once.
Deny(s) ==
  /\ run[s].pc \in {"lookup", "prompt", "hold", "consume"}
  /\ \/ UNCHANGED status
     \/ At(s, "lookup") /\ status' = Recovered
  /\ End(s, "denied")
  /\ UNCHANGED <<env, bound, attempts, accepted, copy, faults>>

-----------------------------------------------------------------------------
(* send_once under the reservation *)

Begin(s) ==
  /\ At(s, "begin")
  /\ Ledger!Intend(run[s].rev, run[s].content)
  /\ Goto(s, "entry")
  /\ UNCHANGED <<env, held, copy, out, faults>>

\* begin or verify_dispatch raises: a conflict with the intent of another grant,
\* a busy ledger, a failed transaction whose intent may be durable.
BeginRaises(s) ==
  /\ At(s, "begin")
  /\ \/ UNCHANGED ledger
     \/ Ledger!Intend(run[s].rev, run[s].content)
  /\ End(s, "outcome-unknown")
  /\ UNCHANGED <<env, copy, faults>>

\* check_approval at the transport's entry, and again before DATA.
EntryPasses(s) ==
  /\ At(s, "entry")
  /\ StillApproved(s)
  /\ run' = [run EXCEPT ![s].pc = "connect", ![s].checked = [at |-> clock, cfg |-> config]]
  /\ UNCHANGED <<env, held, ledger, copy, out, faults>>

BeforeDataPasses(s) ==
  /\ At(s, "connect")
  /\ StillApproved(s)
  /\ run' = [run EXCEPT ![s].pc = "data", ![s].checked = [at |-> clock, cfg |-> config]]
  /\ UNCHANGED <<env, held, ledger, copy, out, faults>>

\* Every failure before DATA is an SmtpError.  At the entry a provider that
\* raises (a lost terminal) is not, so its attempt is recorded as unknown and
\* the exception goes on to the caller of send_once.
StopsBeforeData(s) ==
  /\ run[s].pc \in {"entry", "connect"}
  /\ \/ run' = [run EXCEPT ![s].pc = "finish", ![s].result = "definite-failure"]
     \/ /\ At(s, "entry")
        /\ run' = [run EXCEPT ![s].pc = "finish", ![s].result = "delivery-unknown",
                              ![s].raised = TRUE]
  /\ UNCHANGED <<env, held, ledger, copy, out, faults>>

Data(s) ==
  /\ At(s, "data")
  /\ Ledger!Submit(run[s].rev)
  /\ run' = [run EXCEPT ![s].pc = "reply", ![s].sent = TRUE]
  /\ UNCHANGED <<env, held, copy, out, faults>>

Reply(s) ==
  /\ At(s, "reply")
  /\ \E r \in {"delivery-unknown",
               IF accepted[run[s].rev] THEN "accepted" ELSE "definite-failure"} :
       run' = [run EXCEPT ![s].pc = "finish", ![s].result = r]
  /\ UNCHANGED <<env, held, ledger, copy, out, faults>>

\* finish; an accepted message may be copied before the receipt.
Finish(s) ==
  /\ At(s, "finish")
  /\ Ledger!Decide(run[s].rev, run[s].result)
  /\ \/ /\ run[s].result = "accepted"
        /\ Goto(s, "copy")
        /\ UNCHANGED <<held, out>>
     \/ End(s, IF run[s].raised THEN "outcome-unknown" ELSE run[s].result)
  /\ UNCHANGED <<env, copy, faults>>

\* The terminal transaction fails, durable or not.
FinishRaises(s) ==
  /\ At(s, "finish")
  /\ OneFault
  /\ UNCHANGED ledger \/ Ledger!Decide(run[s].rev, run[s].result)
  /\ End(s, "outcome-unknown")
  /\ UNCHANGED <<env, copy>>

\* save_sent_copy: any failure is a warning in a receipt that still says
\* accepted; a failed write may leave part of the file.
SaveCopy(s) ==
  /\ At(s, "copy")
  /\ \E c \in {"none", "partial", "saved"} :
       copy' = [copy EXCEPT ![run[s].rev] = IF @ = "none" THEN c ELSE @]
  /\ End(s, "accepted")
  /\ UNCHANGED <<env, ledger, faults>>

-----------------------------------------------------------------------------
(* Everybody else *)

\* update_draft, trash_draft and restore_draft wait for the reservation (or
\* give up); each makes a new revision.
Edit ==
  /\ held = None
  /\ draft.rev < MaxRev
  /\ \E a \in BOOLEAN :
       /\ draft.active \/ a
       /\ draft' = [rev |-> draft.rev + 1, active |-> a]
  /\ UNCHANGED <<held, config, clock, run, ledger, copy, out, faults>>

Reconfigure ==
  /\ config' \in Cfg \ {config}
  /\ UNCHANGED <<draft, held, clock, run, ledger, copy, out, faults>>

Tick ==
  /\ clock < MaxClock
  /\ clock' = clock + 1
  /\ UNCHANGED <<draft, held, config, run, ledger, copy, out, faults>>

\* The process dies: SQLite drops the reservation, grants are gone, the copy may
\* be half written, the ledger keeps what was committed.
Crash(s) ==
  /\ ~At(s, "idle")
  /\ OneFault
  /\ run' = [run EXCEPT ![s] = Idle]
  /\ held' = IF held = s THEN None ELSE held
  /\ \/ UNCHANGED copy
     \/ At(s, "copy") /\ copy' = [copy EXCEPT ![run[s].rev] = "partial"]
  /\ UNCHANGED <<env, ledger, out>>

-----------------------------------------------------------------------------

\* The steps a run takes by itself: the prompt ends by its own time-out, an
\* exchange with the server by the socket's, every database call by SQLite's.
Step(s) ==
  \/ LookupFinds(s) \/ LookupMisses(s) \/ Approve(s) \/ Hold(s) \/ Consume(s) \/ Deny(s)
  \/ Begin(s) \/ BeginRaises(s) \/ EntryPasses(s) \/ BeforeDataPasses(s)
  \/ StopsBeforeData(s) \/ Data(s) \/ Reply(s) \/ Finish(s) \/ FinishRaises(s) \/ SaveCopy(s)

Next ==
  \/ \E s \in Session : Start(s) \/ Step(s) \/ Crash(s)
  \/ Edit \/ Reconfigure \/ Tick

Spec == Init /\ [][Next]_vars
\* Nothing is assumed of a run that connects: it looks up the server's name
\* first, which no time-out bounds (smtp.py _open_authenticated).
LiveSpec == Spec /\ \A s \in Session : WF_vars(Step(s) /\ ~At(s, "connect"))

-----------------------------------------------------------------------------
(* Properties *)

\* What goes out in DATA is what the human approved: the reviewed revision,
\* still stored and active under this run's reservation whatever editors did
\* meanwhile, last checked inside the approval's time and under the settings it
\* was given for (run, hold_active_revision, consume, check_approval).
SentAsReviewed ==
  \A s \in Session :
    run[s].pc \in {"data", "reply"} =>
      /\ held = s
      /\ run[s].content = run[s].rev
      /\ draft = [rev |-> run[s].content, active |-> TRUE]
      /\ run[s].start <= run[s].checked.at
      /\ run[s].checked.at < run[s].start + Ttl
      /\ run[s].checked.cfg = run[s].cfg

\* A receipt stays true: accepted means the server took that revision's message,
\* definite-failure that it did not and never will.
ReceiptsTrue ==
  \A s \in Session :
    LET r == out[s].rev IN
    /\ out[s].outcome = "accepted" => accepted[r]
    /\ out[s].outcome = "definite-failure" => ~accepted[r] /\ status[r] \in Ledger!Terminal

\* Nobody is asked to approve a revision that was transmitted before, even if the
\* process that sent it died before it recorded the result.
NeverAskedAgain ==
  [][\A s \in Session :
       run[s].pc = "lookup" /\ run'[s].pc = "prompt" => attempts[run[s].rev] = 0]_vars

\* A local copy, whole or not, exists only for a message the ledger says was
\* accepted: copies are made after the terminal record, never instead of it.
CopyAfterRecord ==
  \A r \in Rev : copy[r] # "none" => status[r] = "accepted"

\* The draft database does not stay reserved: whoever holds it lets edits in
\* again, or is in its connection, where a name lookup may hang
\* (hold_active_revision, smtp.py _open_authenticated).
EditsResume ==
  \A s \in Session : held = s ~> held # s \/ At(s, "connect")

\* What holds of every state: only what was approved goes out, receipts are
\* true, and only accepted messages are copied.
ReviewedInv == TypeOK /\ SentAsReviewed /\ ReceiptsTrue /\ CopyAfterRecord
=============================================================================
