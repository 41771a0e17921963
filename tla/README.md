# Hermes Email in TLA+

Hermes Email is a mail plugin for the Hermes agent: it reads mail over IMAP,
keeps local drafts, and lets a human send a reviewed draft over SMTP at most
once.  This directory holds TLA+ modules of the parts of it that keep state
across threads, processes, crashes or calls, the TLC configurations that check
them on small instances, and TLAPS proofs for every size.

Every definition of a module is a translation of code under
`src/hermes_email/`; `PROJECT.json` ("map") names its lines.  Where this file
names a source file, it is relative to that directory.

Reading order: `SendAttempts` (what is promised), `SendLedger` (how it is kept),
`ReviewedSend` (who uses it), `SendLedgerProofs`, then the rest in any order.

## 1. The system

| Component | State it keeps | Operations | Module |
|---|---|---|---|
| Send ledger, `send_orchestration.py`, `send_files.py` | rows of `send_intents`; the kernel lease on `.dispatch`; per store a mutex, the active operation and its owner | begin, verify_dispatch, submit, finish, get with recovery, close | `SendAttempts`, `SendLedger` |
| File leases, `send_files.py` | open descriptions and their flocks, the handles of each process | open, lock, verify, fork and the at-fork hooks, unlock | `ExclusiveLease`, `FileLease` |
| Ledger identity, `send_storage.py` | database file, `.identity` anchor, `.guard` and `.dispatch` files | transaction: open, verify, create, adopt, commit | `LedgerIdentity` |
| Reviewed sending, `send_workflow.py`, `approval.py`, `sent_copy.py` | one run per terminal session, grants, the draft's reservation, local copies | run: look up, prompt, hold, consume, begin, submit, finish, copy | `ReviewedSend` |
| Draft store, `draft_storage.py` | drafts, recipients, operation receipts, revisions | create, update, trash, restore, get, list, close | `DraftStore` |
| SMTP transport, `smtp.py` | registered clients, worker count, closed flag | submit_once, check_health, close | `SmtpTransport` |
| Runtime, `plugin.py`, `tools.py`, `draft_tools.py` | runtime state, diagnostics, stores, audit gap | reads, thread lookups, probes, draft calls, close | `EmailRuntime` |
| IMAP connections, `providers/imap.py` | registered clients, worker count, closed flag | connect, login, fetch, logout, close | `ImapSession` |
| Multi-folder scans, `providers/multi_mailbox.py` | the cursor: folder states and rotation | fetch, search, close | `MailboxScan` |
| Threads, `threading.py` and get_thread_context | the selected messages | grow, cut, read bodies | `ThreadContext` |
| Replies, `addressing.py`, `replying.py`, `reply_headers.py`, `draft_tools.py` | none of their own: a message, own addresses, the draft that results | reply, reply to all, with repeated requests | `ReplyDraft`, with threads in `Conversations` |
| Observations, `storage.py` | observation table, readiness of each store | observe_messages, close | `ObservationLedger` |
| Audit, `audit.py` | event table, identity of the file used | record, recent, close | `AuditLog` |
| Registration, `profile_guard.py`, `plugin.py`, `config.py` | the guard's decision, what the host has registered, the runtime | decide, load, register, dispose, unload | `Registration` |

How they interact.  A tool call is a coroutine of `EmailPlugin`.  It awaits the
provider (`ImapSession`, under `MailboxScan` when there are several folders),
hands every page to the observation store in a thread, and writes an audit
event.  Draft calls go to the draft store in a thread; a reply first reads the
message it answers from the provider.  The host may cancel a
call at any await and may call `close()` at any time, which closes the stores
under their locks and then the provider.  The `email-send` terminal command is
independent of tool calls: it runs `ReviewedSendWorkflow`, which reads the draft,
asks the human, reserves the draft's database for the rest of the run, and calls
the orchestrator, which records the intent in the ledger, lets the transport
submit, and records the outcome.  All stores are SQLite files of one profile
directory that several processes may open.

What is hard here, with the lines, is the list "hazards" of `PROJECT.json`:

- processes that die between the intent, DATA and the terminal record, and
  recoveries that must not take a live dispatch from its owner;
- state read before a prompt of minutes, a lock, an await or a connection and
  used after it;
- `close()` against threads that are connecting, sending, waiting or writing;
- answers that are lost and requests that are repeated;
- bounded tables, quotas, budgets and windows at their limits, with a wall clock
  that is set back;
- files that are deleted, restored or left half made, and locks that a fork hands
  to a child;
- a registration of nearly twenty host calls any of which may fail, with a rollback that
  may fail too.

### What would make each component correct

- Send ledger: no operation and no draft revision is transmitted twice; a row
  never contradicts the server or an earlier receipt; open rows get closed.
- Identity: a ledger that has forgotten an attempt never permits it again.
- File leases: one process at a time works under a lease, whatever is forked or killed,
  and moved unless it is between the two checks of one process; the lease of a dead
  process is free again.
- Reviewed sending: what is transmitted is what was approved, still stored, and
  checked in time; the receipt is true; the draft becomes editable again.
- Draft store: every revision is made by one operation; a retry gets its own
  receipt; pages neither repeat nor skip an untouched draft; a read is one revision.
- SMTP: an outcome reported to the ledger is true whenever close strikes.
- Runtime: no unrecorded mail reaches a caller, a call that waits when the runtime is
  closed brings nothing out of it, every call ends or waits for its provider, a lost
  audit event stays visible.
- IMAP: no credential is sent after close, no connection is left, workers end unless a
  name lookup hangs.
- Scans: "complete" means that everything that stayed was shown, once.
- Threads: the answer is the conversation, or says that it is not.
- Replies: a reply goes to whom the message names for answers, a reply to all to
  everybody who had it and to no address of one's own; the reference headers keep the
  order of what could be read of the source's; a repeated request makes no second draft.
- Observations and audit: the tables stay within bounds and keep the newest.
- Registration: only the profile the configuration names gets mail, if guard and loader
  read the same configuration; the send command exists only where the loaded one arms
  it; after a failure nothing is left registered that could be disposed, and an open
  runtime can always be unloaded.

## 2. Modules and code

**SendAttempts** is the abstract promise: an operation is intended once with one
content, a draft revision belongs to one operation for ever, an undecided
operation is submitted once, and a decision is final and true.

**SendLedger** implements it.  `intent` is the table, `lease` the flock on
`.dispatch`, `store` the fields of each `SqliteSendIntentStore`, `job` the place
of each thread.  A database transaction is one step, because `.guard` and
`BEGIN IMMEDIATE` serialise them; what lies between transactions interleaves.
`begin` is `BeginLease` (mutex and lease) followed by one of `BeginReplays`,
`BeginRefuses`, `BeginInserts` and `BeginFails`; the rest of `send_once` is
`VerifyDispatch` to `Finish`, and `get` is `GetLease`, `RecoverCommits` and
`Read`.  A failed transaction is rolled back, or is durable and raises all the
same.  `Crash` ends a process anywhere.  `IdempotentSendOrchestrator._send_lock`
is left out: it only removes interleavings of threads of one orchestrator, so the
model allows more than the code.  A KeyboardInterrupt outside `submit_once` has
the effect of a crash followed by recovery.

**LedgerIdentity** is one transaction of `SecureSendDatabase` step by step (lock,
look at the files, create or fill the anchor, adopt an older schema, commit),
with kills between two file operations and an operator who removes the database
or puts a copy back.  Opening, verifying and connecting are one step.  The
operator leaves the anchor alone and acts once it exists; replacement of the
guard file, the ledger's capacity and reuse of inode numbers are left out (`AuditLog` and
`ObservationLedger` have the latter).

**ExclusiveLease** is what `SendLedger` and `LedgerIdentity` take for granted of a
lock file, and **FileLease** is `send_files.py` beneath it: `descr` are the kernel's
open file descriptions, which a fork shares, `flock` is who locks an inode, and
`proc` holds the fields of each process's `FileLease` and whether its handle is
listed for the at-fork hook.  A fork may come at any point that the handles lock
admits.  The hook runs before anything else in the child.  Two stores of one process
and two files are not modelled together: nothing connects them.  `begin` checks twice, at
two times: `Anchor` is `_check_anchor` of its transaction, which compares the path with the
inode the anchor names, and `Enter` is `lease.verify()`, which compares the path with the
file that was locked.  The operator may move the file before, between and after them;
`moved` remembers the processes that were between, and the properties excuse them (section
6).  Left out are the checks that come again (`verify` before the row is written,
`verify_dispatch`), which only stop a process, and the write lock that keeps a second
process from being between the two checks: the model allows more than the code.

**ReviewedSend** is `ReviewedSendWorkflow.run` with the authority's `request`,
`consume` and `check_approval`, and the ledger taken at its promise: it instantiates
`SendAttempts`.  The operation identifier is a function of the draft revision, so
`Op` is `Rev`.  An editor, changed settings, time and crashes interleave with every
step.  SQLite's release of the reservation is assumed not to fail, and the
terminal's identity is one of the checks that may fail.

**DraftStore** has one action for each mutation (a mutation is one transaction,
its receipt included), two actions for `get_draft`, which reads in several
statements, and one per page of a listing.  Left out: several namespaces, schema
migration, collisions of random identifiers, busy refusals, validation of content.
Recipients and references are one statement here.

**SmtpTransport** and **ImapSession** are the two connection pools.  A worker is
at a named point of its call; `close` is several steps, since it goes through the
clients one by one and then waits on a condition variable with a time-out.

**EmailRuntime** is the coroutines, the store threads they wait for, cancellation
and `close()`.  A call runs from one await to the next in one step.  The
configuration's gates and the argument checks are left out.  Nothing in the repository says
on which thread the host calls `on_unload`, so `Close` has three cases.  On the loop's own
thread (`onLoop`) the loop stands still until `close()` is through.  On another thread it may
strike between two steps of the loop, or in the middle of one: `midway` is then the call
whose step it struck.  Such a step looks at `_closed` in three places without a lock, so
`Views` lets it find the runtime open in any first few of them, and what it assigns to
`_runtime_state` or the diagnostics may come before or after `close()`'s own assignments
(`Noted`).  Cancelling a read may leave its thread queued for the store's lock.

**MailboxScan** is `_scan` of the multi-folder provider over folders whose mail
arrives, is expunged and is renumbered.  A visit to a folder is one step.  The
cursor is one chain: chains do not share anything.  Its HMAC is taken to be
unforgeable, so a cursor is a record.

**ReplyDraft** is the two reply tools from `get_message` to the stored draft.  The
address rules (`canonical_address`), the route, the recipients of a reply to all and
the reference chain are operators over a message's headers; an address is a mailbox
and a spelling, an identifier has a length, may be one that a reply must not repeat (`Odd`),
and may be one that `parse_message_ids` passes over (`Dropped`: over 500 characters or not
ASCII) while it keeps the others.  Callers share the operation identifier
and lose answers; a restart may bring other own addresses.  `_request_digest` covers
the derived content, so a repetition after such a restart is a conflict or the same
draft.  `MaxIds`, the provider's cut of a References header, is the parameter
behind the finding of section 6.  What a loop or a comprehension keeps of a list is the
list's content in a set of its places (`In`), in their order.

**Registration** is `register` of `profile_guard.py` with the helpers in `tools.py`,
`draft_tools.py` and `human_cli.py` that register each group of tools and commands.
`Decide` is the guard with all the sections it reads, `Load` the second reading by the
configuration loader, `plan` the sequence of host calls that follows from what was
loaded, and `Added` and `Refused` one of them each.  `held` and `group` follow the
nested except clauses: the handles of the helper that failed are disposed before those of
its caller.  The host may call the unload hook from the moment it has it.

**ThreadContext** is the loop of `build_thread_context`, the cut, and the body
reads.  A message is its place in the page and its header identifiers are sets.
A message's rank in time is chosen at the cut, the first step that looks at it.

**ObservationLedger** and **AuditLog** are the two bounded tables, shared by
several runtimes.  A page is how often it names each key, the empty page included.
`sqlite3.connect` may make a file again that was removed after the path was prepared, with
permissions that are refused later (`loose`).  A file is its `(st_dev, st_ino)`: the stores hold
no descriptor between calls, so a file made after one was removed may get the old number,
and is then continued as the same; only a file that a call of `ObservationLedger` has open
keeps its number (`Held`).  The audit log may begin as an earlier version or
configuration left it, with more rows than `max_events`.  In `AuditLog` the preparation of the
path is one step, and the check of the connection and the transaction are another: a file
that goes away between those two takes the transaction with it, as it would right after
the commit.

**LedgerFiles** (`FileLease`, `LedgerIdentity`), **ReadPath** (`ImapSession`, `EmailRuntime`,
`MailboxScan`), **ProfileDrafts** (`DraftStore`, `Registration`), **Conversations**
(`ThreadContext`, `ReplyDraft`) and **Tables** (`ObservationLedger`, `AuditLog`) put side by side what belongs together and shares no
variable.  The second module is an instance there, and what is checked or proved of it has a
definition of the same name.

`MC*.tla` give constants their values.  Where one run checks two modules, a variable
`subject`, chosen in the initial state, says which one moves, and the other rests.
Definitions named `Bug...` stand before
the definition they are a slip of; no specification uses them, and
`PROJECT.json` ("mutants") names the property each breaks.

## 3. Runs

| Run | Instance | Checks |
|---|---|---|
| `ledger` | 3 threads in 2 processes (two share a store), 2 operations, 2 revisions, 2 faults | `LedgerInv` (the inductive invariant), `AtMostOnce`, refinement of `SendAttempts` |
| `ledger_live` | 2 processes, capacity 1, 1 fault | `OpenRowsClose` |
| `files` | `LedgerIdentity` with 2 processes, 2 attempts, 1 kill, 2 acts of the operator, from every schema 2 and 3 ledger and from none; `FileLease` with 3 processes of which one is to be forked, 2 files, 3 descriptions, 3 acts of the operator | `NeverPermittedAgain`, `EvidenceKept`, `AnchorStands`; `OneInside`, refinement of `ExclusiveLease`, `FreedAfterDeath` |
| `reviewed` | 2 sessions, 2 revisions, 2 settings, 1 fault, an approval of one tick | `SentAsReviewed`, true receipts, `NeverAskedAgain`, `EditsResume` |
| `profile` | `DraftStore` with 3 identifiers for 2 drafts, 4 operations for 3 receipts, 3 revisions, pages of one; `Registration` with every configuration, 2 profiles, 2 edits, 3 draft and 2 reading tools | `OneMakerPerRevision`, `ScanExact`, quotas, `RetryAnswered`; `RollbackComplete`, `OpenIsReachable`, `BoundToProfile` |
| `draft_read_race` | 2 processes, 1 draft | `ReviewIsExact`, which fails (section 6) |
| `scan` | 3 folders, 2 UIDs, limits 1 and 2, 1 change, 1 fault | `CompleteMeansAll`, no repeats, fair rotation, current windows, `ScanEnds` |
| `smtp` | 3 threads | true outcomes, nothing sent after close, exact counts, `CloseReturns` |
| `runtime` | `EmailRuntime` with a thread lookup, a probe, a draft call, 2 failures; `ImapSession` with 2 workers, 2 failures | no unrecorded or late mail, `DraftOutcomeKnown`, `GapStaysVisible`, `CallsEnd`; `NoLateCredentials`, nothing left open, `WorkersEnd` |
| `conversation` | `ThreadContext` with 3 messages, 3 identifiers, bound 2; `ReplyDraft` with over 200 messages over 8 identifiers, of which lists drop 3, 2 callers, 2 calls, 1 operation, 2 recipients at most | conversation found, cut and budget kept, no silent loss; `AddressedRightly`, `ChainInOrder`, `StoreAccepts`, `OneDraftEach`, `AnswersFit` |
| `reply_chain` | the same replies, where a header keeps 4 identifiers | `RootAndNearest`, which fails (section 6) |
| `tables` | `ObservationLedger` with 2 stores, 3 keys, 2 rows, pages that name a key once, counts to 2; `AuditLog` with 2 runtimes, 2 events, up to 3 rows to begin with, answers of 1; clocks of 3 values, files removed or replaced, with a new number or the old one | bounds, `HistoryKept`, `GivesUpTheOldest`; bounds, one file per runtime, `KeepsTheNewest` |

Several invariants of one module are bundled under one name (`DraftInv`,
`SmtpInv`, `RuntimeInv` and so on); the named parts stand beside the bundle.

Why these bounds reach the interesting cases.  Two operations on two revisions,
of which either may be the same revision, are enough for every pair of rows that
a property compares, and the proofs cover the other sizes.  A third thread that
shares a store separates "same process" from "same lease".  Two faults let a
recovery itself be interrupted.  Tables of two rows with three keys, quotas one
below the number of identifiers, limits below the number of folders and a thread
bound below the number of messages put every limit in reach with one step to
spare on both sides.  Three moves of the lock file take it away and back and away again
around one process's two checks.  Clocks have a value before, at and after an expiry.  The messages of `ReplyDraft` are all
combinations of routes with lists and of lists with each other that the rules can tell
apart, and all short reference chains besides some that the header bound and the chain
bound cut, some with identifiers that lists drop in every place, and some messages with both
References and In-Reply-To.  `Registration` registers 3 draft and 2 reading tools where the code has 9 and 5:
tools of a kind are registered by one loop, and the first, a middle and the last of a
loop are what a failure can tell apart.  Its provider takes no white-space name: that is
refused where an unknown name is.

`CHECK_DEADLOCK FALSE` stands where the system really stops: the calls and workers of
`runtime` are finite and end, an answer about a thread or to a caller is final at the
bound on calls (`conversation`, `reply_chain`), a registration ends and the revisions of all
drafts are used up (`profile`, `draft_read_race`), and a scan's folders change a bounded
number of times.  In `files` only the processes of `FileLease` may all be dead, and a
step of its own says so.  Elsewhere a deadlock would be reported.

### Fairness

- `ledger_live`: a thread inside a call goes on, and gets a mutex that is free
  again and again (strong fairness of the steps of each thread).  Nothing is
  assumed of callers.  `OpenRowsClose` holds only if new sends stop and queries
  go on, because a refused `begin` rolls its own recovery back while it holds the
  lease.
- `reviewed`: each started run goes on (weak fairness): the prompt, the sockets and
  the database's busy wait all have time-outs.  Nothing is assumed of a run that connects,
  which looks up a name first: `EditsResume` says that whoever holds the draft database lets
  edits in again or is in its connection.
- `scan`: the caller goes on with its cursor.
- `smtp`: socket time-outs end every exchange; nothing is assumed of the name
  lookup, which no time-out bounds, nor of `close()` being called.
- `runtime`: the loop resumes what is ready and finishes a step that `close()` struck, pool
  threads run, and a store's lock goes to whoever waits for it (strong fairness of
  `StartThread` and `CloseStores`).  Nobody has to begin a call, and nothing is assumed of a
  provider's answer.  Threads of the IMAP provider run, and its `close()` goes on with its sockets
  and its timed wait.  `Dial` is under no fairness: the client factory looks up a name, which no
  socket time-out bounds, so `WorkersEnd` says that every worker ends or is in its dial.
- `files`: a forked child runs its at-fork hook, which the interpreter does before it
  returns to any code; nothing else is assumed of processes, which may stop anywhere.

## 4. Proofs

| Module | Theorems | Assumes |
|---|---|---|
| `SendLedgerProofs` | `LedgerInvariant`, `NeverTwice`, `DispatchStaysOwned`, `DispatchIsUnique`, `LedgerIsHonest`, `ReceiptsAreFinal`, `LedgerImplements` (every step is a step of `SendAttempts` or a stutter), `RowsAdvance`, for any workers, stores, operations and faults | `NoneFresh`, `StoreOfType`, `FaultsNat` |
| `LedgerFilesProofs` | `IdentityInvariant`, `EvidenceIsKept`, `AnchorsStand`, for any processes, attempts, kills and acts of the operator | `Ledger!Setting` |
| | `LeaseInvariant`, `LeaseImplemented` (refinement of `ExclusiveLease`), for any processes, files and descriptions | `Setting` |
| `ReviewedSendProofs` | `ReviewedInvariant`, `NeverAsked`, for any sessions, settings, revisions, times and faults | `NoneFresh`, `BoundsNat`, and that `None` is no outcome |
| `SmtpTransportProofs` | `TransportInvariant`, `NothingAfterClose`, for any finite set of threads | `WorkersFinite`, `NoneIsNoResult` |
| `ReadPathProofs` | `SessionInvariant`, `NoCredentialsAfterClose`, for any finite set of workers and any faults | `Bounds` |
| | `RuntimeInvariant`, `NothingAfterUnload`, `GapsAreReported`, for any calls of any kinds and any failures | `Runtime!Setting` |
| | `ScanInvariant`, `WindowsAreCurrent`, for any number of folders, limits and changes | `Scan!Setting` |
| `ProfileProofs` | `StoreInvariant`, `RetriesAnswered`, for any processes, drafts, operations, revisions and clock; `DraftInvariant`, which adds whole reads | the ASSUMEs of `DraftStore`; `DraftInvariant` that there is one process |
| | `RegistrationInvariant`, `MailNeedsProfile`, for any configurations and numbers of tools | `Reg!Setting` |
| `ConversationProofs` | `LoopFindsConversation`, `AnswerInvariant`, `LossIsNeverSilent`, for pages of any length | the ASSUMEs of `ThreadContext` |
| | `ReplyInvariant`, `RepliesFit`, for messages with any headers, any callers, operations and drafts | `Reply!Setting` |
| `TablesProofs` | `RowsInvariant`, `HistoryIsKept`, `OldestGoFirst`, for any stores, keys and sizes | the ASSUMEs of `ObservationLedger` |
| | `AuditInvariant`, `LogIsBounded`, `OneFilePerRuntime`, `RecentIsBounded`, `NewestStay`, for any runtimes and sizes | `Audit!Bounds` |

`Setting`s and ASSUMEs say that bounds are numbers, that a set is finite where the code counts
it, and that `None` is none of the values it stands beside.  TLC evaluates them on every run.

The ledger.  `AtMostOnce` is not inductive.  `LedgerInv` adds what carries it:
a store that names an active operation has exactly one thread dispatching it; a
lease taken inside `begin` or a recovery is dropped before the mutex is
(`LeaseInv`); the thread between `begin` and `finish` owns the lease and its row
is open and its own (`LiveDispatchOwned`), so a recovery can take only orphans;
an operation that has not been submitted has no attempt and an absent row none
(`AttemptInv`); rows have different revisions and at most one is open (`RowInv`).
There is one lemma per action.  The refinement uses the invariant: the abstract
`Submit` needs that nothing was transmitted before, `Decide` that the result the
thread holds is the truth.

Ledger identity.  `NeverPermittedAgain` says nothing of files, so it is far from inductive.
The invariant (`FilesOK`, `HolderOK`) says who remembers: the database an anchor names, or any
before there is an anchor, has a row for every attempt that was permitted; a transaction's
view has one from the moment the file is accepted, so what it adds is new; and nobody works
on a file an operator puts in place, which is a new inode that no anchor names.  A permission
comes after the commit, when the file remembers already.  Every action is shown `Sound`: it
keeps the invariant, the evidence and the anchor at once.

Threads.  The inductive invariant says that everything selected belongs to every
closed set, and that a pass which adds nothing has looked at each message with
all the identifiers known: then the selection is closed, and so is the smallest.  The bodies
stay within one page because the bytes spent and the shares still to come do.

Replies.  What the code keeps of a list are some of its places in their order.  `PlaceFacts`
shows, by least counterexample, that the n-th place exists and that places are in order, so
recipients and chains are known by which places are taken.  `Lists(t, s)` says that t
names what s begins with, in order, but for what a list drops (`Dropped`) and for repetitions.
Cutting a header, reading it and dropping the parent each keep to it, it is transitive, and
the shortening of a chain is an increasing map of indices that keeps the first and the last.  The
invariant (`ReplyIInv`) adds that drafts and receipts belong to each other one to one, and that a
call which is about to store holds what its request makes under the *present* own addresses:
they change only with the process, which ends its calls.  `RepliesFit` follows from the
latter, and for a repetition from the digest: an equal draft fits too.

File leases.  `OneInside` says of a process that is not `moved` that it holds the lock of the
anchored file.  It rests on the kernel's side of it: the lock of an inode belongs to
an open description of that inode, a description is open in just the processes whose handle
it is, and a child has given its copy up before it takes a step (`IInv`).  A process that is
between `begin`'s two checks found the path to be the anchored file, which it still is unless
the process is `moved` (`Places`); the file it then finds there and locked is that file, and the
lock is one description of one process.  The refinement maps the owner to the process that opened the
description which locks the anchored file, and `working` to who is inside and not `moved`.

Reviewed sending.  A session that is at or past `consume` holds the reservation, and its draft
is then still the one it started from, because editors wait for the reservation; the rest
of `RunOK` is what the last check established.  The ledger enters by four facts: terminal
rows stay, an accepted row's message was taken, a definite failure's was not and never
will be, and an absent row was never transmitted (`RowOK`, `LedgerAdvances`).  Each action is
shown to have an `Effect`: it moves its own session, advances the ledger and leaves the other
sessions' runs and receipts alone.

IMAP.  What `NothingMissed` needs is where an open socket is: with a client that `close()` saw
(then it is in the snapshot until it is shut), or with a worker that registers later and
finds the provider closed.  The count of workers is the cardinality of those at work.

SMTP.  `ReportOK` ties what a thread will report to what the server was given, point by point
of its call, and `ReachedOK` says that `close()` has still to come to every socket that may
transmit: a client that registers later finds the transport closed.

Runtime.  `Fits` says which places of a call, states of its thread and debts go together, and
`CallMoves` what every step of one call comes to: it leaves the other calls alone, hands out
no mail after close, never clears the audit's warning, and starts no thread on a closed
store.  The invariant and both action properties follow from it.  A step that `close()` struck
(`midway`, or `late` once it has ended) is excused from `NoMailAfterClose` and `ClosedIsDisabled`.

Scans.  `FolderOK` says that what a chain owes of a folder lies below the window it reads
next, so a folder that is complete owes nothing and windows are disjoint.  Fair rotation is
not inductive alone: unfinished folders stand in the order of their visits from the rotation
on (`FairOK`), and a call has still to visit the first of them (`LeftOK`), so the one whose
turn it is goes to the end of the line.

Drafts.  The receipts of a draft are its history: one for each revision, naming the one
before (`HistoryOK`); both tables hold the content of the last receipt that wrote any
(`ContentOK`).  A listing's cursor parts what was shown from what is to come (`ScanOK`): time
stamps only grow, so a draft that was shown never comes below the cursor again.
`ReaderOK` holds only if one process has the store; with two it fails, which section 6 reports.

Registration.  The planned sequence of host calls never repeats one and begins with the hook
(`PlanOK`); what is registered was called and, until a disposal breaks, its handle is
held or it never had one (`HandlesOK`), so the rollback reaches it.  `MailNeedsProfile` compares the guard's raw readings with the loader's
normalised ones for every configuration.

Tables.  `FirstBounded` shows of any finite strict order that the elements with fewer than n
above them are at most n, and exactly n if an element is left out, which then comes after
all of them: the number of elements above maps them injectively below n.  The rows an
observation page keeps and the events a log keeps are such sets.  `OneFilePerRuntime` rests on
`FileInv`: what a runtime wrote to is what it remembers, and a call that is about to insert
prepared just that file, where a file is its `(st_dev, st_ino)`.

Where a proof needs an induction over numbers it takes a least counterexample (`WFMin`), since
the library's induction theorems cannot be instantiated here.

Only model-checked: all liveness under fairness (`OpenRowsClose`, `FreedAfterDeath`,
`EditsResume`, `CloseReturns`, `WorkersEnd`, `CallsEnd`, `ScanEnds`), which is out of the
prover's reach.  Every invariant, action property and refinement that a passing run checks is
a theorem.  The two claims of section 6 that fail, `ReviewIsExact` and `RootAndNearest`, are
not: `DraftInvariant` has the first where one process has the store, and `ReplyInvariant` says
of a chain what does hold.

## 5. Not modelled

- `sending.py`: a pure rendering of one pinned draft; `ReviewedSend` models which
  revision it is given.
- `config.py`: how sections combine is in `Registration`; the checks of single values are
  pure, and their bounds are the modules' constants.
- `secrets.py`, `context.py`: one read each, whose failure is a choice in the modules that
  make it.
- `classification.py`, `attachment_safety.py`, `models.py`: labels on one message, without
  state.  Of `addressing.py` and the reply tools, display names and the subject.
- `plugin.py`'s older `register()`, which no entry point calls.
- Validation of content, schema migration of the draft store, file permissions, SQLite and
  the mail protocols themselves.
- `scripts/`, packaging, and the tests, which were read as claims about the program.

## 6. Where code and documents disagree

- `draft_read_race`: `get_draft` reads the draft's row and its recipients outside a
  transaction (`draft_storage.py:368`), while the README of the repository promises
  exact recipients and the current revision.  An update by a second process in
  between mixes two revisions.  The sending path is not affected: it reads under
  `hold_active_revision`.
- `reply_chain`: `docs/reply-headers.md:22` says that a long chain of references keeps its root
  and its nearest ancestors.  The provider cuts the header before that
  (`providers/imap.py:614`: the first 2000 characters, then the first 100 identifiers), so
  of a longer one the nearest ancestors are lost; the limit of 16384 characters in
  `reply_headers.py` cannot be reached with the IMAP provider.
- A copy of a backup *into* the database file keeps its inode, so the identity does
  not change, although `docs/send-ledger.md:46` says that restoring changes it.
- A refused `begin` that acquired the lease rolls its recovery back with its
  transaction, so remaining rows do not become `delivery-unknown` then, as
  `docs/send-ledger.md` says of every acquisition; the next query does it.
- A read that is cancelled a second time ends while its observation is still being
  written (`plugin.py:345`).
- A provider failure overwrites `storage-error`, after which a probe reports the
  runtime ready (`plugin.py:288`).
- `docs/send-ledger.md:89` says that replacement of the `.dispatch` inode is "a storage error".
  `begin` compares the path with the anchor in its transaction and with the locked file
  afterwards (`send_orchestration.py:136`), never these with each other: a process whose lease
  is of a file that was put in the place of the anchored one passes if the anchored file is in
  its place for the first check only.  `FileLease` excuses a process for just that (`moved`).
- `CHANGELOG.md:497` says that unloading "prevents late health completion from restoring
  readiness".  The methods that note a completion look at `_closed` and then assign
  (`plugin.py:287`, `304`, `321`) without a lock.  If the host unloads on another thread while
  one of them runs, a closed runtime may be left ready; `ClosedIsDisabled` holds where no
  step was struck so.

## 7. Plan

Done, in this order: the ledger with its abstract specification, its proofs and
refinement; the files behind it and the lease beneath it; the reviewed send above it;
drafts and replies; transport; runtime; IMAP; scans; threads; the two tables;
registration; then the proofs of section 4.

What would come next:

1. `LedgerFiles` with one process that crosses both modules, so that a lease that is not the
   anchored file's (section 6) meets the rows that two such processes write.
2. `ReviewedSend` with several revisions pinned in turn by one authority, if the terminal
   command ever keeps its authority between runs.
3. Schema migration of the draft store.
