------------------------------ MODULE DraftStore ------------------------------
(***************************************************************************)
(* SqliteDraftStore (draft_storage.py), one account namespace.  Several     *)
(* processes open the same database; each mutation is one BEGIN IMMEDIATE   *)
(* transaction, so it is one action here, and its operation receipt is part *)
(* of it.  A caller that lost the answer (cancelled, crashed, an audit that *)
(* failed afterwards) repeats the request under the same operation_id.      *)
(*                                                                         *)
(* get_draft is not one transaction: it reads the draft's row and then, in  *)
(* other statements, its recipients.  A scan of list_drafts is many calls,  *)
(* linked only by the cursor.                                              *)
(***************************************************************************)
EXTENDS Naturals, FiniteSets

CONSTANTS
  Process,        \* processes with a store object on this database
  Op,             \* operation identifiers callers use
  Id,             \* draft identifiers, numbers because listings compare them
  Content,        \* validated draft contents
  None,
  MaxDrafts,      \* settings.max_drafts
  MaxOperations,  \* settings.max_operations
  MaxRevision,    \* _MAX_REVISION
  MaxClock,       \* bound on what the wall clock may show
  Limit,          \* the page limit of the scan
  Reader,         \* processes that call get_draft
  Listing         \* the states whose listings are paged through

ASSUME IdNat == Id \subseteq Nat \ {0} /\ IsFiniteSet(Id)
ASSUME OpFinite == IsFiniteSet(Op)
ASSUME BoundsPositive ==
  /\ {MaxDrafts, MaxOperations, MaxRevision, Limit} \subseteq Nat \ {0}
  /\ MaxClock \in Nat
ASSUME CallersKnown == Reader \subseteq Process /\ Listing \subseteq {"active", "trashed"}

VARIABLES
  drafts,  \* drafts[d]: the row of d, its content in two tables, or None
  ops,     \* ops[o]: the receipt of o, or None
  reply,   \* the last answer, if it was to a request that had taken effect before
  open,    \* the processes whose store is not closed
  reader,  \* reader[p]: the get_draft call p is in, between its two reads
  scan     \* a caller that pages through list_drafts

vars == <<drafts, ops, reply, open, reader, scan>>

Clock == 0 .. MaxClock
Revision == 1 .. MaxRevision
State == {"active", "trashed"}
\* updated_at runs ahead of the clock by one per revision at most.
Stamp == 0 .. (MaxClock + MaxRevision)

\* What the request digest covers.
Request ==
  [kind: {"create"}, id: {None}, rev: {None}, content: Content]
    \cup [kind: {"update"}, id: Id, rev: Revision, content: Content]
    \cup [kind: {"trash", "restore"}, id: Id, rev: Revision, content: {None}]

\* head: the content whose subject and body the row of table drafts holds;
\* rcpt: the content whose rows the recipient and reference tables hold.
Draft == [rev: Revision, state: State, head: Content, rcpt: Content, updated: Stamp]
Receipt == [req: Request, id: Id, rev: Revision]
Answer == [op: Op, outcome: {"done", "replayed", "conflict", "state", "limit", "missing"},
           id: Id \cup {None}, rev: Revision \cup {None}]
Cursor == [updated: Stamp, id: Id]
\* seen: drafts shown so far; twice: one was shown again; intact: drafts that
\* were listed when the scan began and that nobody changed since.
Scan == [state: State, cursor: Cursor \cup {None}, ended: BOOLEAN,
         seen: SUBSET Id, twice: BOOLEAN, intact: SUBSET Id]

\* A draft being read: what get_draft's first statement returned.
Row == [id: Id, rev: Revision, head: Content]

ASSUME NoneApart ==
  /\ None \notin Content \cup Draft \cup Receipt
  /\ None \notin Cursor \cup Scan \cup Row

TypeOK ==
  /\ drafts \in [Id -> Draft \cup {None}]
  /\ ops \in [Op -> Receipt \cup {None}]
  /\ reply \in Answer \cup {None}
  /\ open \subseteq Process
  /\ reader \in [Process -> Row \cup {None}]
  /\ scan \in Scan \cup {None}

Init ==
  /\ drafts = [d \in Id |-> None]
  /\ ops = [o \in Op |-> None]
  /\ reply = None
  /\ open = Process
  /\ reader = [p \in Process |-> None]
  /\ scan = None

-----------------------------------------------------------------------------
(* Mutations.  Definitions named Bug... are slips a maintainer could make in *)
(* the definition that follows them; PROJECT.json names what each breaks.    *)

Stored == {d \in Id : drafts[d] # None}
Recorded == {o \in Op : ops[o] # None}

\* The store is open and its lock free.
Usable(p) == p \in open /\ reader[p] = None

SourceState(kind) == IF kind = "restore" THEN "trashed" ELSE "active"

\* What the checks of a transaction with a new operation_id decide, in their
\* order (_require_operation_capacity, the draft count, _mutation_row,
\* _require_active_revision).
Verdict(q) ==
  IF Cardinality(Recorded) >= MaxOperations THEN "limit"
  ELSE IF q.kind = "create"
  THEN IF Cardinality(Stored) >= MaxDrafts THEN "limit" ELSE "done"
  ELSE IF drafts[q.id] = None THEN "missing"
  ELSE IF drafts[q.id].state # SourceState(q.kind) THEN "state"
  ELSE IF drafts[q.id].rev # q.rev THEN "conflict"
  ELSE IF q.rev = MaxRevision THEN "limit"
  ELSE "done"

\* The receipt is looked up only while there is room for another.
BugReplay(o, q) ==
  IF Cardinality(Recorded) >= MaxOperations THEN "limit"
  ELSE IF ops[o] = None THEN "new"
  ELSE IF ops[o].req = q THEN "replayed" ELSE "conflict"

\* _operation_replay, the first check of every mutation.
Replay(o, q) ==
  IF ops[o] = None THEN "new"
  ELSE IF ops[o].req = q THEN "replayed" ELSE "conflict"

\* The answer to a call that changes nothing: a replay, or an exception and a
\* transaction rolled back.
Answered(o, q) ==
  LET seen == Replay(o, q)
      outcome == IF seen = "new" THEN Verdict(q) ELSE seen
      own == outcome = "replayed" IN
  /\ outcome # "done"
  /\ reply' = IF ops[o] = None \/ ops[o].req # q THEN None
              ELSE [op |-> o, outcome |-> outcome, id |-> IF own THEN ops[o].id ELSE None,
                    rev |-> IF own THEN ops[o].rev ELSE None]

Unchanged(p, o, q) ==
  /\ Usable(p)
  /\ Answered(o, q)
  /\ UNCHANGED <<drafts, ops, open, reader, scan>>

\* _insert_operation and the commit; the scan's history notes the change.
Record(o, q, d, row) ==
  /\ drafts' = [drafts EXCEPT ![d] = row]
  /\ ops' = [ops EXCEPT ![o] = [req |-> q, id |-> d, rev |-> row.rev]]
  /\ reply' = None
  /\ scan' = IF scan = None THEN None ELSE [scan EXCEPT !.intact = @ \ {d}]
  /\ UNCHANGED <<open, reader>>

Accepts(p, o, q) ==
  /\ Usable(p)
  /\ Replay(o, q) = "new"
  /\ Verdict(q) = "done"

\* The factory's identifier is one that no draft has.
CreateDraft(p, o, q, now) ==
  /\ q.kind = "create"
  /\ Accepts(p, o, q)
  /\ \E d \in Id \ Stored :
       Record(o, q, d, [rev |-> 1, state |-> "active", head |-> q.content,
                        rcpt |-> q.content, updated |-> now])

\* updated_at moves on even if the clock does not, or was set back.
Later(d, now) ==
  IF now > drafts[d].updated THEN now ELSE drafts[d].updated + 1

UpdateDraft(p, o, q, now) ==
  /\ q.kind = "update"
  /\ Accepts(p, o, q)
  /\ Record(o, q, q.id, [drafts[q.id] EXCEPT !.rev = q.rev + 1, !.head = q.content,
                                            !.rcpt = q.content, !.updated = Later(q.id, now)])

\* A change of state is not a revision.
BugChangeState(p, o, q, now) ==
  /\ q.kind \in {"trash", "restore"}
  /\ Accepts(p, o, q)
  /\ Record(o, q, q.id, [drafts[q.id] EXCEPT
                          !.state = IF q.kind = "trash" THEN "trashed" ELSE "active",
                          !.updated = Later(q.id, now)])

ChangeState(p, o, q, now) ==
  /\ q.kind \in {"trash", "restore"}
  /\ Accepts(p, o, q)
  /\ Record(o, q, q.id, [drafts[q.id] EXCEPT
                          !.rev = q.rev + 1,
                          !.state = IF q.kind = "trash" THEN "trashed" ELSE "active",
                          !.updated = Later(q.id, now)])

-----------------------------------------------------------------------------
(* Reads *)

\* get_draft's first statement: the row of an active draft.
GetRow(p, d) ==
  /\ p \in Reader /\ Usable(p)
  /\ drafts[d] # None
  /\ drafts[d].state = "active"
  /\ reader' = [reader EXCEPT ![p] = [id |-> d, rev |-> drafts[d].rev, head |-> drafts[d].head]]
  /\ UNCHANGED <<drafts, ops, reply, open, scan>>

\* _draft_from_row's statements read the recipients stored by now; this is what
\* get_draft then returns.
Fetched(p) ==
  [id |-> reader[p].id, rev |-> reader[p].rev, head |-> reader[p].head,
   rcpt |-> drafts[reader[p].id].rcpt]

GetRecipients(p) ==
  /\ reader[p] # None
  /\ reader' = [reader EXCEPT ![p] = None]
  /\ UNCHANGED <<drafts, ops, reply, open, scan>>

\* ORDER BY updated_at DESC, draft_id DESC
Above(d, e) ==
  \/ drafts[d].updated > drafts[e].updated
  \/ drafts[d].updated = drafts[e].updated /\ d > e

Below(d, c) ==
  c # None => \/ drafts[d].updated < c.updated
              \/ drafts[d].updated = c.updated /\ d < c.id

Rows(state, c) == {d \in Stored : drafts[d].state = state /\ Below(d, c)}

BeginScan(state) ==
  /\ scan # None => scan.ended
  /\ scan' = [state |-> state, cursor |-> None, ended |-> FALSE, seen |-> {}, twice |-> FALSE,
              intact |-> {d \in Stored : drafts[d].state = state}]
  /\ UNCHANGED <<drafts, ops, reply, open, reader>>

\* list_drafts: the first Limit rows below the cursor; the next cursor is the
\* last row shown, and there is one only if a further row was fetched.
ListPage(p) ==
  /\ Usable(p)
  /\ scan # None /\ ~scan.ended
  /\ LET rows == Rows(scan.state, scan.cursor)
         page == CHOOSE s \in SUBSET rows :
                   /\ Cardinality(s) = IF Cardinality(rows) > Limit THEN Limit ELSE Cardinality(rows)
                   /\ \A d \in s, e \in rows \ s : Above(d, e)
         last == CHOOSE d \in page : \A e \in page : e = d \/ Above(e, d)
     IN scan' = [scan EXCEPT
                  !.cursor = IF page = rows THEN @ ELSE [updated |-> drafts[last].updated, id |-> last],
                  !.ended = page = rows,
                  !.seen = @ \cup page,
                  !.twice = @ \/ page \cap scan.seen # {}]
  /\ UNCHANGED <<drafts, ops, reply, open, reader>>

\* close waits for the operation in progress.
Close(p) ==
  /\ Usable(p)
  /\ open' = open \ {p}
  /\ UNCHANGED <<drafts, ops, reply, reader, scan>>

-----------------------------------------------------------------------------

Mutation(p, o, q) ==
  \/ Unchanged(p, o, q)
  \/ \E now \in Clock :
       CreateDraft(p, o, q, now) \/ UpdateDraft(p, o, q, now) \/ ChangeState(p, o, q, now)

Next ==
  \/ \E p \in Process, o \in Op, q \in Request : Mutation(p, o, q)
  \/ \E p \in Process, d \in Id : GetRow(p, d)
  \/ \E p \in Process : GetRecipients(p) \/ ListPage(p) \/ Close(p)
  \/ \E state \in Listing : BeginScan(state)

Spec == Init /\ [][Next]_vars

-----------------------------------------------------------------------------
(* Properties *)

\* The history the receipts tell: who made a revision, and the content that
\* was current in it.
Makers(d, r) == {o \in Recorded : ops[o].id = d /\ ops[o].rev = r}
WroteBy(d, r) == {o \in Recorded : ops[o].id = d /\ ops[o].rev <= r /\ ops[o].req.content # None}
ContentAt(d, r) ==
  ops[CHOOSE o \in WroteBy(d, r) : \A w \in WroteBy(d, r) : ops[w].rev <= ops[o].rev].req.content

\* No update is lost and none is applied twice: every revision of a draft was
\* made by exactly one operation, whose author named the revision just before
\* it, and there are no receipts for revisions that were never stored.
OneMakerPerRevision ==
  /\ \A d \in Stored, r \in Revision :
       r <= drafts[d].rev => \E o \in Recorded :
         /\ Makers(d, r) = {o}
         /\ IF r = 1 THEN ops[o].req.kind = "create"
            ELSE ops[o].req.id = d /\ ops[o].req.rev = r - 1
  /\ \A o \in Recorded : ops[o].id \in Stored /\ ops[o].rev <= drafts[ops[o].id].rev

\* The two tables hold one content, the one written last.
StoredWhole ==
  \A d \in Stored : /\ drafts[d].head = ContentAt(d, drafts[d].rev)
                    /\ drafts[d].rcpt = ContentAt(d, drafts[d].rev)

\* The quotas bind in every order of creating, trashing and restoring.
WithinQuota == Cardinality(Stored) <= MaxDrafts /\ Cardinality(Recorded) <= MaxOperations

\* A request that took effect may be repeated for ever: it is answered with its
\* own receipt, whatever happened to the draft meanwhile and with the store at its
\* capacity.
RetryAnswered ==
  [][reply' # None =>
       /\ reply'.outcome = "replayed"
       /\ reply'.id = ops[reply'.op].id /\ reply'.rev = ops[reply'.op].rev]_reply

\* Paging while drafts change and the clock is set back: no draft is shown
\* twice in one scan, and a draft nobody touched is not skipped.
ScanExact ==
  scan # None => /\ ~scan.twice
                 /\ scan.ended => scan.intact \subseteq scan.seen

\* What get_draft returns is one revision, all of it.  The lock of a store makes
\* this true of one process.
ReadWhole ==
  \A p \in Process : reader[p] # None =>
    /\ Fetched(p).head = ContentAt(Fetched(p).id, Fetched(p).rev)
    /\ Fetched(p).rcpt = ContentAt(Fetched(p).id, Fetched(p).rev)

\* What holds of every state of the store: one maker per revision, quotas, one
\* content in all tables and reads, and listings that miss and repeat nothing.
DraftInv ==
  TypeOK /\ OneMakerPerRevision /\ StoredWhole /\ WithinQuota /\ ReadWhole /\ ScanExact

\* README.md:207 of email_review_draft_send: "It returns exact recipients
\* including Bcc, current revision, subject, body character count".
ReviewIsExact ==
  \A p \in Process : reader[p] # None =>
    Fetched(p).rcpt = ContentAt(Fetched(p).id, Fetched(p).rev)
=============================================================================
