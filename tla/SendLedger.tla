------------------------------ MODULE SendLedger ------------------------------
(***************************************************************************)
(* send_orchestration.py: SqliteSendIntentStore and                        *)
(* IdempotentSendOrchestrator over one profile data directory.             *)
(*                                                                         *)
(* A worker is a thread that calls send_once, get or finish.  Workers      *)
(* share SqliteSendIntentStore objects (StoreOf); a store is one object of *)
(* one process, and dies with it.  All stores of the directory share the   *)
(* durable rows (intent) and the kernel lease on the .dispatch file        *)
(* (lease), an exclusive flock held by one store at a time.                *)
(*                                                                         *)
(* A short database transaction (SecureSendDatabase.transaction, under the *)
(* .guard file lock and BEGIN IMMEDIATE) is one atomic step.  What happens *)
(* between transactions interleaves: lease attempt, the transaction that   *)
(* inserts the intent, the check before the transport, DATA, the reply,    *)
(* the terminal transaction.  A transaction may fail before its commit, or *)
(* be durable and still raise (verify_path after commit), and a process    *)
(* may die anywhere; both count as faults and MaxFaults bounds them.       *)
(***************************************************************************)
EXTENDS Naturals, FiniteSets

CONSTANTS
  Op,          \* operation identifiers
  Content,     \* what a candidate's digest binds (draft, revision, bytes ...)
  KeyOf,       \* KeyOf[c]: the (draft_id, revision) of content c
  Worker,      \* threads
  Store,       \* SqliteSendIntentStore objects
  StoreOf,     \* StoreOf[w]: the store worker w uses
  None,        \* Python's None
  MaxIntents,  \* SecureSendDatabase.max_intents
  MaxFaults    \* bound on storage failures and process deaths

ASSUME NoneFresh == None \notin Op \cup Content \cup Worker \cup Store
ASSUME StoreOfType == StoreOf \in [Worker -> Store]
ASSUME FaultsNat == MaxFaults \in Nat

VARIABLES
  intent,    \* durable: intent[o] is the row of send_intents for o
  lease,     \* kernel: the store whose descriptor holds the dispatch flock
  store,     \* volatile fields of each SqliteSendIntentStore
  job,       \* what each worker is doing
  attempts,  \* attempts[o]: DATA transmissions for o (history)
  accepted,  \* accepted[o]: the server took o's message (the truth outside)
  told,      \* told[o]: terminal states reported to callers for o (history)
  faults

vars == <<intent, lease, store, job, attempts, accepted, told, faults>>

Terminal == {"accepted", "definite-failure", "delivery-unknown"}
State == {"absent", "dispatching"} \cup Terminal

\* Where a worker is.  From "verify" to "finish" it owns a dispatch.
PC == {"idle", "insert", "verify", "submit", "reply", "finish", "recover", "read"}
Dispatching == {"verify", "submit", "reply", "finish"}

Row == [state: State, content: Content \cup {None}, dispatcher: Worker \cup {None}]
NoRow == [state |-> "absent", content |-> None, dispatcher |-> None]

\* mutex: who is inside a multi-step section of self._mutex.  active and owner
\* are _active_operation and _owner_thread; _dispatcher is the fresh identity
\* the owner drew in begin, so the owner stands for it.
StoreState == [mutex: Worker \cup {None}, active: Op \cup {None},
               owner: Worker \cup {None}, closed: BOOLEAN]
FreshStore == [mutex |-> None, active |-> None, owner |-> None, closed |-> FALSE]

\* acquired: begin's local of that name.  result: the state finish will record.
Job == [pc: PC, op: Op \cup {None}, content: Content \cup {None},
        acquired: BOOLEAN, result: Terminal \cup {None}]
Idle == [pc |-> "idle", op |-> None, content |-> None,
         acquired |-> FALSE, result |-> None]

TypeOK ==
  /\ intent \in [Op -> Row]
  /\ lease \in Store \cup {None}
  /\ store \in [Store -> StoreState]
  /\ job \in [Worker -> Job]
  /\ attempts \in [Op -> Nat]
  /\ accepted \in [Op -> BOOLEAN]
  /\ told \in [Op -> SUBSET Terminal]
  /\ faults \in 0 .. MaxFaults

Init ==
  /\ intent = [o \in Op |-> NoRow]
  /\ lease = None
  /\ store = [s \in Store |-> FreshStore]
  /\ job = [w \in Worker |-> Idle]
  /\ attempts = [o \in Op |-> 0]
  /\ accepted = [o \in Op |-> FALSE]
  /\ told = [o \in Op |-> {}]
  /\ faults = 0

-----------------------------------------------------------------------------
(* Helpers *)

Mine(w) == store[StoreOf[w]]
MutexFree(w) == Mine(w).mutex = None

Goto(w, pc) == job' = [job EXCEPT ![w].pc = pc]
Return(w) == job' = [job EXCEPT ![w] = Idle]
Report(o, s) == told' = [told EXCEPT ![o] = @ \cup ({s} \cap Terminal)]

OneFault ==
  /\ faults < MaxFaults
  /\ faults' = faults + 1

(* Definitions named Bug... are slips a maintainer could make in the          *)
(* definition that follows them; PROJECT.json names the property each breaks. *)

\* _recover_unowned_dispatches: every open row becomes delivery-unknown.
Recovered ==
  [o \in Op |->
     IF intent[o].state = "dispatching"
     THEN [intent[o] EXCEPT !.state = "delivery-unknown", !.dispatcher = None]
     ELSE intent[o]]

\* The rows begin's transaction sees and commits: recovery comes first, and
\* only when this begin acquired the lease.
Seen(w) == IF job[w].acquired THEN Recovered ELSE intent

\* _require_owner and the dispatcher comparison.
OwnsDispatch(w, o) ==
  /\ lease = StoreOf[w]
  /\ Mine(w).active = o
  /\ Mine(w).owner = w
  /\ intent[o].dispatcher = w

\* The lease is closed whether or not this call acquired it.
BugDropLease(w) ==
  lease' = None

\* Leaving a section of the mutex in which w held the local lease, or not.
DropLease(w) ==
  lease' = IF job[w].acquired THEN None ELSE lease
LeaveMutex(w) ==
  store' = [store EXCEPT ![StoreOf[w]].mutex = None]

\* The fields are cleared but the descriptor stays open.
BugKeepLease(w) ==
  /\ lease' = lease
  /\ store' = [store EXCEPT ![StoreOf[w]].active = None,
                            ![StoreOf[w]].owner = None]

\* _release_dispatch, by the owning thread.
ReleaseDispatch(w) ==
  /\ lease' = None
  /\ store' = [store EXCEPT ![StoreOf[w]].active = None,
                            ![StoreOf[w]].owner = None]

-----------------------------------------------------------------------------
(* begin *)

\* send_once(o, candidate) up to begin's lease attempt: the mutex, then a
\* non-blocking try for the lease, which a store that owns a dispatch skips.
\* Waiting for the mutex, and raising before the attempt (an invalid candidate,
\* a closed database, a failed first transaction), change nothing.
BeginLease(w, o, c) ==
  /\ job[w].pc = "idle"
  /\ MutexFree(w)
  /\ ~Mine(w).closed
  /\ LET acquired == Mine(w).active = None /\ lease = None IN
       /\ job' = [job EXCEPT ![w] = [pc |-> "insert", op |-> o, content |-> c,
                                     acquired |-> acquired, result |-> None]]
       /\ lease' = IF acquired THEN StoreOf[w] ELSE lease
  /\ store' = [store EXCEPT ![StoreOf[w]].mutex = w]
  /\ UNCHANGED <<intent, attempts, accepted, told, faults>>

Replays(w) == Seen(w)[job[w].op].content = job[w].content

\* The operation has a row with the same digest: its record is the answer, and
\* leaving the with-block commits the recovery.
BeginReplays(w) ==
  LET o == job[w].op IN
  /\ job[w].pc = "insert"
  /\ Replays(w)
  /\ intent' = Seen(w)
  /\ Report(o, Seen(w)[o].state)
  /\ DropLease(w)
  /\ LeaveMutex(w)
  /\ Return(w)
  /\ UNCHANGED <<attempts, accepted, faults>>

Conflict(w) ==
  Seen(w)[job[w].op].content \notin {None, job[w].content}

\* A revision whose delivery is uncertain may be sent again.
BugDuplicateRevision(w) ==
  \E p \in Op : /\ intent[p].state \in {"dispatching", "accepted"}
                /\ KeyOf[intent[p].content] = KeyOf[job[w].content]

DuplicateRevision(w) ==
  \E p \in Op : /\ intent[p].content # None
                /\ KeyOf[intent[p].content] = KeyOf[job[w].content]
Full == Cardinality({p \in Op : intent[p].state # "absent"}) >= MaxIntents

\* No row for the operation and nothing in the way of a new one.
MayInsert(w) ==
  /\ intent[job[w].op].content = None
  /\ ~DuplicateRevision(w)
  /\ job[w].acquired
  /\ ~Full

\* SendOperationConflictError, DuplicateDraftSendError, SendBusyError or
\* SendStorageError: the transaction rolls back, the recovery with it.
BeginRefuses(w) ==
  /\ job[w].pc = "insert"
  /\ \/ Conflict(w)
     \/ intent[job[w].op].content = None /\ ~MayInsert(w)
  /\ DropLease(w)
  /\ LeaveMutex(w)
  /\ Return(w)
  /\ UNCHANGED <<intent, attempts, accepted, told, faults>>

Inserted(w) ==
  [Seen(w) EXCEPT ![job[w].op] =
     [state |-> "dispatching", content |-> job[w].content, dispatcher |-> w]]

\* The intent is durable; the store keeps the lease for the dispatch.
BeginInserts(w) ==
  /\ job[w].pc = "insert"
  /\ MayInsert(w)
  /\ intent' = Inserted(w)
  /\ store' = [store EXCEPT ![StoreOf[w]] =
                 [@ EXCEPT !.mutex = None, !.active = job[w].op, !.owner = w]]
  /\ job' = [job EXCEPT ![w].pc = "verify", ![w].acquired = FALSE]
  /\ UNCHANGED <<lease, attempts, accepted, told, faults>>

\* The transaction fails: rolled back, or durable and yet raising.  Either
\* way begin releases the lease and its caller sees an exception.
BeginFails(w) ==
  /\ job[w].pc = "insert"
  /\ OneFault
  /\ \/ UNCHANGED intent
     \/ MayInsert(w) /\ intent' = Inserted(w)
     \/ Replays(w) /\ intent' = Seen(w)
  /\ DropLease(w)
  /\ LeaveMutex(w)
  /\ Return(w)
  /\ UNCHANGED <<attempts, accepted, told>>

-----------------------------------------------------------------------------
(* The rest of send_once *)

VerifyDispatch(w) ==
  /\ job[w].pc = "verify"
  /\ MutexFree(w)
  /\ OwnsDispatch(w, job[w].op)
  /\ intent[job[w].op].state = "dispatching"
  /\ intent[job[w].op].content = job[w].content
  /\ Goto(w, "submit")
  /\ UNCHANGED <<intent, lease, store, attempts, accepted, told, faults>>

\* verify_dispatch raises: the finally clause releases, the row stays open.
VerifyFails(w) ==
  /\ job[w].pc = "verify"
  /\ MutexFree(w)
  /\ OneFault
  /\ ReleaseDispatch(w)
  /\ Return(w)
  /\ UNCHANGED <<intent, attempts, accepted, told>>

\* submit_once ends before DATA: SmtpError (the connection, login, MAIL, a
\* recipient, the approval check), or an interrupt recorded as unknown.
SubmitStops(w) ==
  /\ job[w].pc = "submit"
  /\ \E r \in {"definite-failure", "delivery-unknown"} :
       job' = [job EXCEPT ![w].pc = "finish", ![w].result = r]
  /\ UNCHANGED <<intent, lease, store, attempts, accepted, told, faults>>

\* A transmission that may be repeated by the transport.
BugSubmitData(w) ==
  /\ job[w].pc = "submit"
  /\ attempts' = [attempts EXCEPT ![job[w].op] = @ + 1]
  /\ \E taken \in BOOLEAN :
       accepted' = [accepted EXCEPT ![job[w].op] = @ \/ taken]
  /\ \E pc \in {"submit", "reply"} : Goto(w, pc)
  /\ UNCHANGED <<intent, lease, store, told, faults>>

\* DATA leaves the process; the server takes the message or not.
SubmitData(w) ==
  /\ job[w].pc = "submit"
  /\ attempts' = [attempts EXCEPT ![job[w].op] = @ + 1]
  /\ \E taken \in BOOLEAN :
       accepted' = [accepted EXCEPT ![job[w].op] = @ \/ taken]
  /\ Goto(w, "reply")
  /\ UNCHANGED <<intent, lease, store, told, faults>>

\* 250, a refusal code, or no reply that can be trusted.
SubmitReplies(w) ==
  /\ job[w].pc = "reply"
  /\ \E r \in {"delivery-unknown",
               IF accepted[job[w].op] THEN "accepted" ELSE "definite-failure"} :
       job' = [job EXCEPT ![w].pc = "finish", ![w].result = r]
  /\ UNCHANGED <<intent, lease, store, attempts, accepted, told, faults>>

\* The row after finish(o, r): only an open row changes.
Finished(o, r) ==
  IF intent[o].state = "dispatching"
  THEN [intent EXCEPT ![o].state = r, ![o].dispatcher = None]
  ELSE intent

\* finish by the dispatching worker, and the release in its finally clause.
Finish(w) ==
  LET o == job[w].op IN
  /\ job[w].pc = "finish"
  /\ MutexFree(w)
  /\ intent[o].state = "dispatching" => OwnsDispatch(w, o)
  /\ intent' = Finished(o, job[w].result)
  /\ Report(o, Finished(o, job[w].result)[o].state)
  /\ ReleaseDispatch(w)
  /\ Return(w)
  /\ UNCHANGED <<attempts, accepted, faults>>

\* finish raises, with or without a durable terminal state; it releases.
FinishFails(w) ==
  /\ job[w].pc = "finish"
  /\ MutexFree(w)
  /\ OneFault
  /\ \/ UNCHANGED intent
     \/ /\ OwnsDispatch(w, job[w].op)
        /\ intent' = Finished(job[w].op, job[w].result)
  /\ ReleaseDispatch(w)
  /\ Return(w)
  /\ UNCHANGED <<attempts, accepted, told>>

\* finish called by a thread that is not dispatching: SendOwnershipError for
\* an open row, a replay for a closed one.
FinishElsewhere(w, o, r) ==
  /\ job[w].pc = "idle"
  /\ MutexFree(w)
  /\ ~Mine(w).closed
  /\ intent[o].state # "absent"
  /\ intent[o].state = "dispatching" => OwnsDispatch(w, o)
  /\ intent' = Finished(o, r)
  /\ Report(o, Finished(o, r)[o].state)
  /\ UNCHANGED <<lease, store, job, attempts, accepted, faults>>

-----------------------------------------------------------------------------
(* get and recover_interrupted_dispatches *)

\* get(o) up to the lease attempt.  A live dispatch, here or elsewhere, means
\* no recovery, and get goes on to read.
GetLease(w, o) ==
  /\ job[w].pc = "idle"
  /\ MutexFree(w)
  /\ ~Mine(w).closed
  /\ LET acquired == Mine(w).active = None /\ lease = None IN
       /\ job' = [job EXCEPT ![w] = [pc |-> IF acquired THEN "recover" ELSE "read",
                                     op |-> o, content |-> None,
                                     acquired |-> acquired, result |-> None]]
       /\ lease' = IF acquired THEN StoreOf[w] ELSE lease
       /\ store' = IF acquired THEN [store EXCEPT ![StoreOf[w]].mutex = w] ELSE store
  /\ UNCHANGED <<intent, attempts, accepted, told, faults>>

RecoverCommits(w) ==
  /\ job[w].pc = "recover"
  /\ intent' = Recovered
  /\ DropLease(w)
  /\ LeaveMutex(w)
  /\ job' = [job EXCEPT ![w].pc = "read", ![w].acquired = FALSE]
  /\ UNCHANGED <<attempts, accepted, told, faults>>

RecoverFails(w) ==
  /\ job[w].pc = "recover"
  /\ OneFault
  /\ intent' \in {intent, Recovered}
  /\ DropLease(w)
  /\ LeaveMutex(w)
  /\ Return(w)
  /\ UNCHANGED <<attempts, accepted, told>>

\* get's own transaction, outside the mutex.  None for an absent row.
Read(w) ==
  LET o == job[w].op IN
  /\ job[w].pc = "read"
  /\ ~Mine(w).closed
  /\ Report(o, intent[o].state)
  /\ Return(w)
  /\ UNCHANGED <<intent, lease, store, attempts, accepted, faults>>

\* The read raises: the store was closed meanwhile, or the transaction fails.
ReadRaises(w) ==
  /\ job[w].pc = "read"
  /\ \/ Mine(w).closed /\ UNCHANGED faults
     \/ OneFault
  /\ Return(w)
  /\ UNCHANGED <<intent, lease, store, attempts, accepted, told>>

-----------------------------------------------------------------------------
(* Store and process lifetime *)

\* close refuses (SendBusyError) while the store owns a dispatch.
Close(s) ==
  /\ store[s].mutex = None
  /\ ~store[s].closed
  /\ store[s].active = None
  /\ store' = [store EXCEPT ![s].closed = TRUE]
  /\ UNCHANGED <<intent, lease, job, attempts, accepted, told, faults>>

\* A new SqliteSendIntentStore takes the place of a closed one whose callers
\* have all returned.
Open(s) ==
  /\ store[s].closed
  /\ \A w \in Worker : StoreOf[w] = s => job[w].pc = "idle"
  /\ store' = [store EXCEPT ![s] = FreshStore]
  /\ UNCHANGED <<intent, lease, job, attempts, accepted, told, faults>>

\* The process of store s dies and is started again: the kernel drops the
\* flock, SQLite rolls an open transaction back, the rows stay.
Crash(s) ==
  /\ OneFault
  /\ lease' = IF lease = s THEN None ELSE lease
  /\ store' = [store EXCEPT ![s] = FreshStore]
  /\ job' = [w \in Worker |-> IF StoreOf[w] = s THEN Idle ELSE job[w]]
  /\ UNCHANGED <<intent, attempts, accepted, told>>

-----------------------------------------------------------------------------

\* The steps a running thread takes once it is inside a call.
BeginStep(w) == BeginReplays(w) \/ BeginRefuses(w) \/ BeginInserts(w) \/ BeginFails(w)
SendStep(w) == VerifyDispatch(w) \/ VerifyFails(w) \/ SubmitStops(w)
               \/ SubmitData(w) \/ SubmitReplies(w) \/ Finish(w) \/ FinishFails(w)
GetStep(w) == RecoverCommits(w) \/ RecoverFails(w) \/ Read(w) \/ ReadRaises(w)

Next ==
  \/ \E w \in Worker :
       \/ \E o \in Op, c \in Content : BeginLease(w, o, c)
       \/ \E o \in Op, r \in Terminal : FinishElsewhere(w, o, r)
       \/ \E o \in Op : GetLease(w, o)
       \/ BeginStep(w)
       \/ SendStep(w)
       \/ GetStep(w)
  \/ \E s \in Store : Close(s) \/ Open(s) \/ Crash(s)

Spec == Init /\ [][Next]_vars

\* A thread that can go on does; a mutex that is free again and again is
\* eventually obtained.  Nothing is assumed of callers, of close or of faults.
Fairness ==
  \A w \in Worker : /\ SF_vars(BeginStep(w))
                    /\ SF_vars(SendStep(w))
                    /\ SF_vars(GetStep(w))

LiveSpec == Spec /\ Fairness

-----------------------------------------------------------------------------
(* Safety *)

\* At most one DATA transmission for an operation, and at most one for a draft
\* revision whatever operations, workers, retries, crashes and failed
\* transactions name it (send_once, begin).
AtMostOnce ==
  /\ \A o \in Op : attempts[o] <= 1
  /\ \A o, p \in Op :
       /\ o # p
       /\ attempts[o] > 0
       /\ attempts[p] > 0
       => KeyOf[intent[o].content] # KeyOf[intent[p].content]

\* Nobody but its owner touches the row of a live dispatch: while a worker is
\* between begin and finish its store holds the kernel lease and its row is
\* still open and its own, so no recovery, get, begin or foreign finish of any
\* process has taken it (the lease protocol of begin and recovery).
LiveDispatchOwned ==
  \A w \in Worker :
    job[w].pc \in Dispatching =>
      /\ OwnsDispatch(w, job[w].op)
      /\ intent[job[w].op].state = "dispatching"
      /\ intent[job[w].op].content = job[w].content

\* One dispatch at a time in the whole data directory, over all stores and
\* threads, and one open row at most even after orphaned dispatches.
OneDispatch ==
  /\ \A v, w \in Worker :
       job[v].pc \in Dispatching /\ job[w].pc \in Dispatching => v = w
  /\ \A o, p \in Op :
       intent[o].state = "dispatching" /\ intent[p].state = "dispatching" => o = p

\* The ledger never contradicts the server: a row says accepted only if the
\* server took the message and definite-failure only if it did not.
OutcomeHonest ==
  \A o \in Op : /\ intent[o].state = "accepted" => accepted[o]
                /\ intent[o].state = "definite-failure" => ~accepted[o]

\* No terminal receipt is ever contradicted: what begin, finish or get
\* reported as the end of an operation is what the row says from then on.
ReceiptsStand ==
  \A o \in Op : told[o] \subseteq {intent[o].state}

\* A row is never deleted or rebound, and a decided row never changes again:
\* no recovery, retry or late finish reopens or overwrites it.
RowsOnlyAdvance ==
  [][\A o \in Op :
       /\ intent[o].content # None => intent'[o].content = intent[o].content
       /\ intent[o].state \in Terminal => intent'[o] = intent[o]]_vars

\* The inductive invariant: the safety properties above rest on it.  A store
\* that names an active operation holds the lease for the one worker that
\* dispatches it; a lease acquired inside begin or recovery is dropped before
\* the mutex is; whatever the transport has not been told was not transmitted.
LeaseInv ==
  /\ \A s \in Store :
       store[s].active # None =>
         \E w \in Worker : StoreOf[w] = s /\ job[w].pc \in Dispatching
  /\ \A w \in Worker :
       job[w].acquired =>
         /\ job[w].pc \in {"insert", "recover"}
         /\ lease = StoreOf[w]
         /\ Mine(w).active = None
  /\ \A w \in Worker :
       job[w].pc \in {"insert", "recover"} => Mine(w).mutex = w
  /\ \A w \in Worker : job[w].pc = "recover" => job[w].acquired
  /\ \A w \in Worker : job[w].pc # "idle" => job[w].op \in Op
  /\ \A w \in Worker :
       job[w].pc \in {"insert"} \cup Dispatching => job[w].content \in Content
RowInv ==
  /\ \A o \in Op : intent[o].state = "absent" <=> intent[o].content = None
  /\ \A o, p \in Op :
       o # p /\ intent[o].content # None /\ intent[p].content # None
         => KeyOf[intent[o].content] # KeyOf[intent[p].content]
  /\ \A o, p \in Op :
       intent[o].state = "dispatching" /\ intent[p].state = "dispatching" => o = p
AttemptInv ==
  /\ \A o \in Op : attempts[o] <= 1
  /\ \A o \in Op : intent[o].state = "absent" => attempts[o] = 0
  /\ \A o \in Op : attempts[o] = 0 => ~accepted[o]
  /\ \A w \in Worker :
       job[w].pc \in {"verify", "submit"} => attempts[job[w].op] = 0
  /\ \A w \in Worker :
       job[w].pc = "finish" =>
         /\ job[w].result \in Terminal
         /\ job[w].result = "accepted" => accepted[job[w].op]
         /\ job[w].result = "definite-failure" => ~accepted[job[w].op]
LedgerInv ==
  /\ TypeOK
  /\ LeaseInv
  /\ LiveDispatchOwned
  /\ RowInv
  /\ AttemptInv
  /\ OutcomeHonest
  /\ ReceiptsStand

\* The ledger implements the promise of module SendAttempts.
Attempts == INSTANCE SendAttempts WITH
  status <- [o \in Op |-> intent[o].state],
  bound <- [o \in Op |-> intent[o].content]
AttemptsSpec == Attempts!Spec

(* Liveness *)

\* If callers stop starting sends and status queries keep being served, an open
\* row does not stay open: a live dispatch ends by itself, and an orphan is
\* taken for delivery-unknown by a later query, whichever crash or failed
\* transaction left it (get, recover_interrupted_dispatches, finish).  Without
\* the first hypothesis a stream of refused sends can starve recovery: each
\* holds the lease while it rolls its own recovery back.
Polled == []<>(\E w \in Worker : job[w].pc = "read")
NoNewSends == <>[](\A w \in Worker : job[w].pc # "insert")
OpenRowsClose ==
  Polled /\ NoNewSends =>
    \A o \in Op : intent[o].state = "dispatching" ~> intent[o].state \in Terminal
=============================================================================
