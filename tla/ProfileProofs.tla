--------------------------- MODULE ProfileProofs ----------------------------
(***************************************************************************)
(* Proofs about what a profile has of its own.  The drafts, for any numbers of   *)
(* processes, operations and revisions: one maker per revision, quotas, whole    *)
(* reads, exact listings and repeated requests.  The registration, for any       *)
(* configuration and any number of tools: rollback and the guard's decision.     *)
(***************************************************************************)
EXTENDS ProfileDrafts, FiniteSetTheorems, SequenceTheorems, WellFoundedInduction, TLAPS

(* The drafts: the inductive invariant *)

\* updated_at runs ahead of the clock by one per revision at most.
StampOK == \A d \in Stored : drafts[d].updated <= MaxClock + drafts[d].rev

\* The receipts tell the history of every draft, one for each revision.
HistoryOK ==
  /\ \A o \in Recorded : ops[o].id \in Stored /\ ops[o].rev <= drafts[ops[o].id].rev
  /\ \A d \in Stored, r \in Revision :
       r <= drafts[d].rev => \E o \in Recorded : ops[o].id = d /\ ops[o].rev = r
  /\ \A o \in Recorded, w \in Recorded :
       ops[o].id = ops[w].id /\ ops[o].rev = ops[w].rev => o = w
  /\ \A o \in Recorded :
       IF ops[o].rev = 1 THEN ops[o].req.kind = "create"
       ELSE ops[o].req.id = ops[o].id /\ ops[o].req.rev = ops[o].rev - 1

\* o is the last to have written content into d.
LastWriter(o, d) ==
  /\ ops[o].id = d /\ ops[o].req.content # None
  /\ \A w \in Recorded :
       ops[w].id = d /\ ops[w].req.content # None => ops[w].rev <= ops[o].rev

ContentOK ==
  \A d \in Stored : \E o \in Recorded :
    /\ LastWriter(o, d)
    /\ drafts[d].head = ops[o].req.content /\ drafts[d].rcpt = ops[o].req.content

\* Between its two reads a lone process holds its store's lock.
Alone == \A p, q \in Process : p = q

ReaderOK ==
  Alone =>
    \A p \in Process : reader[p] # None =>
      /\ reader[p].id \in Stored
      /\ drafts[reader[p].id].rev = reader[p].rev
      /\ drafts[reader[p].id].head = reader[p].head

\* The cursor parts what a scan has shown from what it has still to show.
ScanOK ==
  scan # None =>
    /\ ~scan.twice
    /\ scan.seen \subseteq Stored
    /\ \A d \in scan.intact : d \in Stored /\ drafts[d].state = scan.state
    /\ scan.ended => scan.intact \subseteq scan.seen
    /\ ~scan.ended =>
         /\ \A d \in scan.seen : ~Below(d, scan.cursor)
         /\ \A d \in scan.intact : d \in scan.seen \/ Below(d, scan.cursor)

IInv ==
  TypeOK /\ StampOK /\ HistoryOK /\ ContentOK /\ WithinQuota /\ ReaderOK /\ ScanOK

-----------------------------------------------------------------------------
(* What a mutation does *)

Writes(p, o, q, d, row) ==
  /\ Usable(p) /\ ops[o] = None /\ Cardinality(Recorded) < MaxOperations
  /\ drafts' = [drafts EXCEPT ![d] = row]
  /\ ops' = [ops EXCEPT ![o] = [req |-> q, id |-> d, rev |-> row.rev]]
  /\ scan' = IF scan = None THEN None ELSE [scan EXCEPT !.intact = @ \ {d}]
  /\ reply' = None /\ UNCHANGED <<open, reader>>

\* A new draft.
Begins(q, d, row) ==
  /\ q.kind = "create" /\ q.content \in Content
  /\ d \notin Stored /\ Cardinality(Stored) < MaxDrafts
  /\ row.rev = 1 /\ row.updated <= MaxClock
  /\ row.head = q.content /\ row.rcpt = q.content

\* The next revision of a stored one.
Advances(q, d, row) ==
  /\ d = q.id /\ d \in Stored
  /\ q.rev = drafts[d].rev /\ row.rev = drafts[d].rev + 1
  /\ row.updated > drafts[d].updated /\ row.updated <= MaxClock + row.rev
  /\ \/ /\ q.content \in Content
        /\ row.head = q.content /\ row.rcpt = q.content
     \/ /\ q.content = None
        /\ row.head = drafts[d].head /\ row.rcpt = drafts[d].rcpt

LEMMA RowTypes ==
  ASSUME TypeOK
  PROVE  /\ \A d \in Stored :
              /\ drafts[d] \in Draft /\ drafts[d].rev \in Revision
              /\ drafts[d].updated \in Nat /\ drafts[d].head \in Content
              /\ drafts[d].rcpt \in Content /\ drafts[d].state \in State
         /\ \A o \in Recorded :
              /\ ops[o] \in Receipt /\ ops[o].req \in Request
              /\ ops[o].id \in Id /\ ops[o].rev \in Revision
         /\ \A d \in Id : d \in Nat
         /\ \A r \in Revision : r \in Nat /\ 1 <= r /\ r <= MaxRevision
         /\ MaxRevision \in Nat /\ MaxClock \in Nat /\ Limit \in Nat /\ 1 <= Limit
<1>1. \A d \in Stored : drafts[d] \in Draft BY DEF TypeOK, Stored
<1>2. \A o \in Recorded : ops[o] \in Receipt BY DEF TypeOK, Recorded
<1>3. MaxRevision \in Nat /\ MaxClock \in Nat /\ Limit \in Nat /\ 1 <= Limit
  BY BoundsPositive
<1>4. \A s \in Stamp : s \in Nat BY <1>3 DEF Stamp
<1>5. \A d \in Stored :
        /\ drafts[d].rev \in Revision /\ drafts[d].updated \in Stamp /\ drafts[d].head \in Content
        /\ drafts[d].rcpt \in Content /\ drafts[d].state \in State
  BY <1>1 DEF Draft
<1>6. \A o \in Recorded : ops[o].req \in Request /\ ops[o].id \in Id /\ ops[o].rev \in Revision
  BY <1>2 DEF Receipt
<1>7. \A d \in Id : d \in Nat BY IdNat
<1>8. \A r \in Revision : r \in Nat /\ 1 <= r /\ r <= MaxRevision BY <1>3 DEF Revision
<1> QED BY <1>1, <1>2, <1>3, <1>4, <1>5, <1>6, <1>7, <1>8

LEMMA RequestTypes ==
  ASSUME NEW q \in Request
  PROVE  /\ q.kind \in {"create", "update", "trash", "restore"}
         /\ q.kind \in {"create", "update"} => q.content \in Content
         /\ q.kind \in {"trash", "restore"} => q.content = None
         /\ q.kind # "create" => q.id \in Id /\ q.rev \in Revision
BY DEF Request

LEMMA Accepted ==
  ASSUME TypeOK, NEW p \in Process, NEW o \in Op, NEW q \in Request, Accepts(p, o, q)
  PROVE  /\ Usable(p) /\ ops[o] = None /\ Cardinality(Recorded) < MaxOperations
         /\ q.kind = "create" => Cardinality(Stored) < MaxDrafts
         /\ q.kind # "create" =>
              /\ q.id \in Stored /\ drafts[q.id].rev = q.rev /\ q.rev # MaxRevision
<1>1. Cardinality(Recorded) \in Nat /\ Cardinality(Stored) \in Nat
  <2>1. Recorded \in SUBSET Op /\ Stored \in SUBSET Id BY DEF Recorded, Stored
  <2>2. IsFiniteSet(Recorded) /\ IsFiniteSet(Stored) BY <2>1, FS_Subset, IdNat, OpFinite
  <2> QED BY <2>2, FS_CardinalityType
<1>2. Usable(p) /\ Replay(o, q) = "new" /\ Verdict(q) = "done" BY DEF Accepts
<1>3. ops[o] = None BY <1>2 DEF Replay
<1>4. ~(Cardinality(Recorded) >= MaxOperations) BY <1>2 DEF Verdict
<1>5. q.kind = "create" => ~(Cardinality(Stored) >= MaxDrafts) BY <1>2 DEF Verdict
<1>6. q.kind # "create" =>
        drafts[q.id] # None /\ drafts[q.id].rev = q.rev /\ q.rev # MaxRevision
  BY <1>2 DEF Verdict
<1>7. q.kind # "create" => q.id \in Stored BY <1>6, RequestTypes DEF Stored
<1>8. MaxOperations \in Nat /\ MaxDrafts \in Nat BY BoundsPositive
<1> QED BY <1>1, <1>2, <1>3, <1>4, <1>5, <1>6, <1>7, <1>8

\* A request either changes nothing but the answer, or writes one row and its receipt.
LEMMA Effect ==
  ASSUME TypeOK, StampOK, NEW p \in Process, NEW o \in Op, NEW q \in Request, Mutation(p, o, q)
  PROVE  \/ /\ UNCHANGED <<drafts, ops, open, reader, scan>>
            /\ reply' \in Answer \cup {None}
         \/ \E d \in Id, row \in Draft :
              Writes(p, o, q, d, row) /\ (Begins(q, d, row) \/ Advances(q, d, row))
<1>1. CASE Unchanged(p, o, q)
  <2>1. Answered(o, q) /\ UNCHANGED <<drafts, ops, open, reader, scan>> BY <1>1 DEF Unchanged
  <2>2. reply' \in Answer \cup {None}
    <3>1. CASE ops[o] = None \/ ops[o].req # q BY <2>1, <3>1 DEF Answered
    <3>2. CASE ops[o] # None /\ ops[o].req = q
      <4>1. Replay(o, q) = "replayed" BY <3>2 DEF Replay
      <4>2. reply' = [op |-> o, outcome |-> "replayed", id |-> ops[o].id, rev |-> ops[o].rev]
        BY <2>1, <3>2, <4>1 DEF Answered
      <4>3. ops[o].id \in Id /\ ops[o].rev \in Revision BY <3>2, RowTypes DEF Recorded
      <4> QED BY <4>2, <4>3 DEF Answer
    <3> QED BY <3>1, <3>2
  <2> QED BY <2>1, <2>2
<1>2. ASSUME NEW now \in Clock, CreateDraft(p, o, q, now)
      PROVE  \E d \in Id, row \in Draft : Writes(p, o, q, d, row) /\ Begins(q, d, row)
  <2>1. q.kind = "create" /\ Accepts(p, o, q) BY <1>2 DEF CreateDraft
  <2>2. PICK d \in Id \ Stored :
          Record(o, q, d, [rev |-> 1, state |-> "active", head |-> q.content,
                           rcpt |-> q.content, updated |-> now])
    BY <1>2 DEF CreateDraft
  <2> DEFINE row == [rev |-> 1, state |-> "active", head |-> q.content,
                     rcpt |-> q.content, updated |-> now]
  <2>3. q.content \in Content BY <2>1, RequestTypes
  <2>4. MaxClock \in Nat /\ MaxRevision \in Nat \ {0} BY BoundsPositive
  <2>5. 1 \in Revision /\ now \in Stamp /\ "active" \in State /\ now <= MaxClock
    BY <2>4 DEF Revision, Stamp, Clock, State
  <2>6. row \in Draft BY <2>3, <2>5 DEF Draft
  <2>7. /\ row.rev = 1 /\ row.updated = now /\ row.head = q.content /\ row.rcpt = q.content
    OBVIOUS
  <2>8. Record(o, q, d, row) BY <2>2
  <2> HIDE DEF row
  <2>9. Begins(q, d, row) BY <2>1, <2>3, <2>5, <2>7, Accepted DEF Begins
  <2>10. Writes(p, o, q, d, row) BY <2>1, <2>8, Accepted DEF Writes, Record
  <2> QED BY <2>6, <2>9, <2>10
<1>3. ASSUME NEW now \in Clock, UpdateDraft(p, o, q, now) \/ ChangeState(p, o, q, now)
      PROVE  \E d \in Id, row \in Draft : Writes(p, o, q, d, row) /\ Advances(q, d, row)
  <2>1. /\ Accepts(p, o, q) /\ q.kind \in {"update", "trash", "restore"}
        /\ UpdateDraft(p, o, q, now) => q.kind = "update"
        /\ ChangeState(p, o, q, now) => q.kind \in {"trash", "restore"}
    BY <1>3 DEF UpdateDraft, ChangeState
  <2>2. /\ Usable(p) /\ ops[o] = None /\ Cardinality(Recorded) < MaxOperations
        /\ q.id \in Stored /\ drafts[q.id].rev = q.rev /\ q.rev # MaxRevision
    BY <2>1, Accepted
  <2> DEFINE old == drafts[q.id]
             later == Later(q.id, now)
  <2>3. /\ old \in Draft /\ old.rev \in Revision /\ old.updated \in Nat /\ old.state \in State
        /\ old.head \in Content /\ old.rcpt \in Content
        /\ MaxClock \in Nat /\ MaxRevision \in Nat /\ q.id \in Id
    BY <2>2, RowTypes DEF Stored
  <2>4. old.updated <= MaxClock + old.rev BY <2>2 DEF StampOK
  <2>5. now \in Nat /\ now <= MaxClock BY <2>3 DEF Clock
  <2>6. later = IF now > old.updated THEN now ELSE old.updated + 1 BY DEF Later
  <2>7. old.rev \in Nat /\ old.rev + 1 \in Revision /\ q.rev = old.rev
    BY <2>2, <2>3 DEF Revision
  <2> HIDE DEF old, later
  <2>8. /\ later \in Nat /\ later > old.updated /\ later <= MaxClock + (old.rev + 1)
    BY <2>3, <2>4, <2>5, <2>6, <2>7
  <2>9. later \in Stamp BY <2>3, <2>7, <2>8 DEF Stamp, Revision
  <2>10. PICK row \in Draft :
           /\ Record(o, q, q.id, row)
           /\ row.rev = old.rev + 1 /\ row.updated = later
           /\ \/ q.content \in Content /\ row.head = q.content /\ row.rcpt = q.content
              \/ q.content = None /\ row.head = old.head /\ row.rcpt = old.rcpt
    <3>1. CASE UpdateDraft(p, o, q, now)
      <4> DEFINE row == [old EXCEPT !.rev = q.rev + 1, !.head = q.content, !.rcpt = q.content,
                                    !.updated = later]
      <4>1. q.content \in Content BY <2>1, <3>1, RequestTypes
      <4>2. Record(o, q, q.id, row) BY <3>1 DEF UpdateDraft, old, later
      <4>3. row \in Draft BY <2>3, <2>7, <2>9, <4>1 DEF Draft
      <4>4. /\ row.rev = old.rev + 1 /\ row.updated = later
            /\ row.head = q.content /\ row.rcpt = q.content
        BY <2>3, <2>7 DEF Draft
      <4> QED BY <4>1, <4>2, <4>3, <4>4
    <3>2. CASE ChangeState(p, o, q, now)
      <4> DEFINE state == IF q.kind = "trash" THEN "trashed" ELSE "active"
                 row == [old EXCEPT !.rev = q.rev + 1,
                                    !.state = IF q.kind = "trash" THEN "trashed" ELSE "active",
                                    !.updated = later]
      <4>1. q.content = None BY <2>1, <3>2, RequestTypes
      <4>2. Record(o, q, q.id, row) BY <3>2 DEF ChangeState, old, later
      <4>3. state \in State BY DEF State
      <4>4. row \in Draft BY <2>3, <2>7, <2>9, <4>3 DEF Draft
      <4>5. /\ row.rev = old.rev + 1 /\ row.updated = later
            /\ row.head = old.head /\ row.rcpt = old.rcpt
        BY <2>3, <2>7 DEF Draft
      <4> QED BY <4>1, <4>2, <4>4, <4>5
    <3> QED BY <1>3, <3>1, <3>2
  <2>11. Writes(p, o, q, q.id, row) BY <2>2, <2>10 DEF Writes, Record
  <2>12. Advances(q, q.id, row) BY <2>2, <2>7, <2>8, <2>10 DEF Advances, old
  <2> QED BY <2>3, <2>11, <2>12
<1> QED BY <1>1, <1>2, <1>3 DEF Mutation

\* The tables after it: one row and one receipt are new, and the receipts there were
\* tell of earlier revisions.
After(o, q, d, row) ==
  /\ o \in Op /\ q \in Request /\ d \in Id /\ row \in Draft
  /\ drafts' \in [Id -> Draft \cup {None}] /\ ops' \in [Op -> Receipt \cup {None}]
  /\ drafts'[d] = row /\ \A e \in Id \ {d} : drafts'[e] = drafts[e]
  /\ ops'[o].req = q /\ ops'[o].id = d /\ ops'[o].rev = row.rev
  /\ \A w \in Op \ {o} : ops'[w] = ops[w]
  /\ Stored' = Stored \cup {d}
  /\ Recorded' = Recorded \cup {o} /\ o \notin Recorded
  /\ \A w \in Recorded : ops[w].id = d => ops[w].rev < row.rev

LEMMA WriteAfter ==
  ASSUME TypeOK, HistoryOK, NEW p \in Process, NEW o \in Op, NEW q \in Request,
         NEW d \in Id, NEW row \in Draft,
         Writes(p, o, q, d, row), Begins(q, d, row) \/ Advances(q, d, row)
  PROVE  After(o, q, d, row)
<1>1. /\ drafts' = [drafts EXCEPT ![d] = row]
      /\ ops' = [ops EXCEPT ![o] = [req |-> q, id |-> d, rev |-> row.rev]]
      /\ ops[o] = None
  BY DEF Writes
<1>2. row.rev \in Revision BY DEF Draft
<1>3. [req |-> q, id |-> d, rev |-> row.rev] \in Receipt BY <1>2 DEF Receipt
<1>4. row # None /\ [req |-> q, id |-> d, rev |-> row.rev] # None BY <1>3, NoneApart
<1>5. /\ drafts' \in [Id -> Draft \cup {None}] /\ ops' \in [Op -> Receipt \cup {None}]
      /\ drafts'[d] = row /\ \A e \in Id \ {d} : drafts'[e] = drafts[e]
      /\ ops'[o] = [req |-> q, id |-> d, rev |-> row.rev]
      /\ \A w \in Op \ {o} : ops'[w] = ops[w]
  BY <1>1, <1>3 DEF TypeOK
<1>6. Stored' = Stored \cup {d} BY <1>4, <1>5 DEF Stored
<1>7. Recorded' = Recorded \cup {o} /\ o \notin Recorded BY <1>1, <1>4, <1>5 DEF Recorded
<1>8. ASSUME NEW w \in Recorded, ops[w].id = d PROVE ops[w].rev < row.rev
  <2>1. d \in Stored /\ ops[w].rev <= drafts[d].rev BY <1>8 DEF HistoryOK
  <2>2. row.rev = drafts[d].rev + 1 BY <2>1 DEF Begins, Advances
  <2>3. ops[w].rev \in Nat /\ drafts[d].rev \in Nat BY <2>1, RowTypes
  <2> QED BY <2>1, <2>2, <2>3
<1> QED BY <1>5, <1>6, <1>7, <1>8 DEF After

LEMMA HistoryStep ==
  ASSUME TypeOK, HistoryOK, NEW o, NEW q, NEW d, NEW row,
         After(o, q, d, row), Begins(q, d, row) \/ Advances(q, d, row)
  PROVE  HistoryOK'
<1> USE DEF After
<1>1. \A w \in Recorded : w # o /\ ops'[w] = ops[w] /\ w \in Op BY DEF Recorded
<1>2. /\ row.rev \in Nat /\ row.rev \in Revision
      /\ \A w \in Recorded : ops[w].rev \in Nat
      /\ \A e \in Stored : drafts[e].rev \in Nat /\ e \in Id
  <2>1. row.rev \in Revision BY DEF Draft
  <2> QED BY <2>1, RowTypes DEF Stored
<1>3. ASSUME NEW w \in Recorded'
      PROVE  ops'[w].id \in Stored' /\ ops'[w].rev <= drafts'[ops'[w].id].rev
  <2>1. CASE w = o BY <1>2, <2>1
  <2>2. CASE w \in Recorded
    <3>1. ops'[w] = ops[w] /\ ops[w].id \in Stored /\ ops[w].rev <= drafts[ops[w].id].rev
      BY <1>1, <2>2 DEF HistoryOK
    <3>2. CASE ops[w].id = d BY <1>2, <2>2, <3>1, <3>2
    <3>3. CASE ops[w].id # d BY <1>2, <3>1, <3>3
    <3> QED BY <3>2, <3>3
  <2> QED BY <1>3, <2>1, <2>2
<1>4. ASSUME NEW e \in Stored', NEW r \in Revision, r <= drafts'[e].rev
      PROVE  \E w \in Recorded' : ops'[w].id = e /\ ops'[w].rev = r
  <2>1. r \in Nat /\ 1 <= r BY RowTypes
  <2>2. CASE e = d /\ r = row.rev BY <2>2
  <2>3. CASE e # d \/ r # row.rev
    <3>1. e \in Stored /\ r <= drafts[e].rev
      <4>1. CASE e # d BY <1>2, <1>4, <4>1
      <4>2. CASE e = d
        <5>1. r < row.rev BY <1>2, <1>4, <2>1, <2>3, <4>2
        <5>2. Advances(q, d, row) BY <1>2, <2>1, <5>1 DEF Begins
        <5>3. d \in Stored /\ row.rev = drafts[d].rev + 1 BY <5>2 DEF Advances
        <5> QED BY <1>2, <2>1, <4>2, <5>1, <5>3
      <4> QED BY <4>1, <4>2
    <3>2. PICK w \in Recorded : ops[w].id = e /\ ops[w].rev = r BY <3>1 DEF HistoryOK
    <3> QED BY <1>1, <3>2
  <2> QED BY <2>2, <2>3
<1>5. ASSUME NEW v \in Recorded', NEW w \in Recorded',
             ops'[v].id = ops'[w].id, ops'[v].rev = ops'[w].rev
      PROVE  v = w
  <2>1. CASE v = o /\ w \in Recorded BY <1>1, <1>2, <1>5, <2>1
  <2>2. CASE w = o /\ v \in Recorded BY <1>1, <1>2, <1>5, <2>2
  <2>3. CASE v \in Recorded /\ w \in Recorded BY <1>1, <1>5, <2>3 DEF HistoryOK
  <2> QED BY <2>1, <2>2, <2>3
<1>6. ASSUME NEW w \in Recorded'
      PROVE  IF ops'[w].rev = 1 THEN ops'[w].req.kind = "create"
             ELSE ops'[w].req.id = ops'[w].id /\ ops'[w].req.rev = ops'[w].rev - 1
  <2>1. CASE w = o
    <3>1. CASE Begins(q, d, row) BY <2>1, <3>1 DEF Begins
    <3>2. CASE Advances(q, d, row)
      <4>1. drafts[d].rev \in Nat /\ 1 <= drafts[d].rev BY <3>2, RowTypes DEF Advances
      <4>2. d = q.id /\ q.rev = drafts[d].rev /\ row.rev = drafts[d].rev + 1
        BY <3>2 DEF Advances
      <4>3. row.rev # 1 /\ q.rev = row.rev - 1 BY <4>1, <4>2
      <4> QED BY <2>1, <4>2, <4>3
    <3> QED BY <3>1, <3>2
  <2>2. CASE w \in Recorded BY <1>1, <2>2 DEF HistoryOK
  <2> QED BY <2>1, <2>2
<1> QED BY <1>3, <1>4, <1>5, <1>6 DEF HistoryOK

LEMMA ContentStep ==
  ASSUME TypeOK, HistoryOK, ContentOK, NEW o, NEW q, NEW d, NEW row,
         After(o, q, d, row), Begins(q, d, row) \/ Advances(q, d, row)
  PROVE  ContentOK'
<1> USE DEF After
<1>1. \A w \in Recorded : w # o /\ ops'[w] = ops[w] /\ w \in Op BY DEF Recorded
<1>2. \A w \in Recorded : ops[w].rev \in Nat BY RowTypes
<1>3. row.rev \in Nat
  <2>1. row.rev \in Revision BY DEF Draft
  <2> QED BY <2>1, RowTypes
<1>4. ASSUME NEW e \in Stored'
      PROVE  \E w \in Recorded' :
               /\ LastWriter(w, e)'
               /\ drafts'[e].head = ops'[w].req.content /\ drafts'[e].rcpt = ops'[w].req.content
  <2>1. CASE e = d /\ q.content \in Content
    <3>1. q.content # None BY <2>1, NoneApart
    <3>2. row.head = q.content /\ row.rcpt = q.content BY <2>1, <3>1 DEF Begins, Advances
    <3>3. LastWriter(o, d)' BY <1>1, <1>2, <1>3, <3>1 DEF LastWriter
    <3> QED BY <2>1, <3>2, <3>3
  <2>2. CASE e # d \/ q.content = None
    <3>1. e \in Stored /\ drafts'[e].head = drafts[e].head /\ drafts'[e].rcpt = drafts[e].rcpt
      <4>1. CASE e # d BY <4>1 DEF Stored
      <4>2. CASE e = d /\ q.content = None
        <5>1. None \notin Content BY NoneApart
        <5> QED BY <4>2, <5>1 DEF Begins, Advances
      <4> QED BY <2>2, <4>1, <4>2
    <3>2. PICK w \in Recorded :
            /\ LastWriter(w, e)
            /\ drafts[e].head = ops[w].req.content /\ drafts[e].rcpt = ops[w].req.content
      BY <3>1 DEF ContentOK
    <3>3. LastWriter(w, e)'
      <4>1. ops'[w].id = e /\ ops'[w].req.content # None BY <1>1, <3>2 DEF LastWriter
      <4>2. ASSUME NEW v \in Recorded', ops'[v].id = e, ops'[v].req.content # None
            PROVE  ops'[v].rev <= ops'[w].rev
        <5>1. v # o BY <2>2, <4>2
        <5> QED BY <1>1, <3>2, <4>2, <5>1 DEF LastWriter
      <4> QED BY <4>1, <4>2 DEF LastWriter
    <3> QED BY <1>1, <3>1, <3>2, <3>3
  <2>3. q.content \in Content \/ q.content = None BY DEF Begins, Advances
  <2> QED BY <2>1, <2>2, <2>3
<1> QED BY <1>4 DEF ContentOK

LEMMA ScanStep ==
  ASSUME TypeOK, ScanOK, NEW o, NEW q, NEW d, NEW row,
         After(o, q, d, row), Begins(q, d, row) \/ Advances(q, d, row),
         scan' = IF scan = None THEN None ELSE [scan EXCEPT !.intact = @ \ {d}]
  PROVE  scan' \in Scan \cup {None} /\ ScanOK'
<1> USE DEF After
<1>1. CASE scan = None BY <1>1 DEF ScanOK
<1>2. CASE scan # None
  <2>1. scan \in Scan BY <1>2 DEF TypeOK
  <2>2. /\ scan' \in Scan /\ scan'.state = scan.state /\ scan'.cursor = scan.cursor
        /\ scan'.ended = scan.ended /\ scan'.seen = scan.seen /\ scan'.twice = scan.twice
        /\ scan'.intact = scan.intact \ {d}
    BY <1>2, <2>1 DEF Scan
  <2>3. /\ ~scan.twice /\ scan.seen \subseteq Stored
        /\ \A e \in scan.intact : e \in Stored /\ drafts[e].state = scan.state
        /\ scan.ended => scan.intact \subseteq scan.seen
        /\ ~scan.ended =>
             /\ \A e \in scan.seen : ~Below(e, scan.cursor)
             /\ \A e \in scan.intact : e \in scan.seen \/ Below(e, scan.cursor)
    BY <1>2 DEF ScanOK
  <2>4. \A e \in Stored : e \in Id BY DEF Stored
  <2>5. ASSUME NEW e \in Id \ {d} PROVE Below(e, scan.cursor)' <=> Below(e, scan.cursor)
    BY <2>2, <2>5 DEF Below
  <2>6. ASSUME ~scan.ended, NEW e \in scan.seen PROVE ~Below(e, scan.cursor)'
    <3>1. ~Below(e, scan.cursor) /\ e \in Stored /\ e \in Id BY <2>3, <2>4, <2>6
    <3>2. CASE e # d BY <2>5, <3>1, <3>2
    <3>3. CASE e = d
      <4>1. Advances(q, d, row) BY <3>1, <3>3 DEF Begins
      <4>2. row.updated > drafts[d].updated /\ drafts'[d].updated = row.updated
        BY <4>1 DEF Advances
      <4>3. drafts[d].updated \in Nat BY <3>1, <3>3, RowTypes
      <4>4. row.updated \in Nat
        <5>1. row.updated \in Stamp BY DEF Draft
        <5> QED BY <5>1 DEF Stamp
      <4>5. scan.cursor # None /\ scan.cursor \in Cursor BY <2>1, <3>1 DEF Below, Scan
      <4>6. scan.cursor.updated \in Nat
        <5>1. scan.cursor.updated \in Stamp BY <4>5 DEF Cursor
        <5> QED BY <5>1 DEF Stamp
      <4> QED BY <2>2, <3>1, <3>3, <4>2, <4>3, <4>4, <4>5, <4>6 DEF Below
    <3> QED BY <3>2, <3>3
  <2>7. ASSUME NEW e \in scan'.intact
        PROVE  /\ e \in scan.intact /\ e \in Id \ {d} /\ e \in Stored'
               /\ drafts'[e].state = scan'.state
    BY <2>2, <2>3, <2>4, <2>7
  <2>8. ASSUME ~scan.ended, NEW e \in scan'.intact
        PROVE  e \in scan.seen \/ Below(e, scan.cursor)'
    BY <2>3, <2>5, <2>7, <2>8
  <2>9. /\ ~scan'.twice /\ scan'.seen \subseteq Stored'
        /\ scan'.ended => scan'.intact \subseteq scan'.seen
    BY <2>2, <2>3
  <2> QED BY <2>2, <2>6, <2>7, <2>8, <2>9 DEF ScanOK
<1> QED BY <1>1, <1>2

LEMMA WriteInv ==
  ASSUME IInv, NEW p \in Process, NEW o \in Op, NEW q \in Request,
         NEW d \in Id, NEW row \in Draft,
         Writes(p, o, q, d, row), Begins(q, d, row) \/ Advances(q, d, row)
  PROVE  IInv'
<1>1. After(o, q, d, row) BY WriteAfter DEF IInv
<1>2. HistoryOK' /\ ContentOK' BY <1>1, HistoryStep, ContentStep DEF IInv
<1>3. scan' \in Scan \cup {None} /\ ScanOK' BY <1>1, ScanStep DEF IInv, Writes
<1>4. reply' = None /\ open' = open /\ reader' = reader /\ Usable(p) BY DEF Writes
<1>5. TypeOK' BY <1>1, <1>3, <1>4 DEF IInv, TypeOK, After
<1>6. StampOK'
  <2>1. row.updated <= MaxClock + row.rev
    <3>1. row.rev \in Revision /\ row.updated \in Stamp BY DEF Draft
    <3>2. row.rev \in Nat /\ row.updated \in Nat /\ MaxClock \in Nat
      BY <3>1, BoundsPositive DEF Revision, Stamp
    <3> QED BY <3>2 DEF Begins, Advances
  <2>2. \A e \in Stored : e \in Id BY DEF Stored
  <2> QED BY <1>1, <2>1, <2>2 DEF After, IInv, StampOK
<1>7. WithinQuota'
  <2>1. Recorded \in SUBSET Op /\ Stored \in SUBSET Id BY DEF Recorded, Stored
  <2>2. IsFiniteSet(Recorded) /\ IsFiniteSet(Stored) BY <2>1, FS_Subset, IdNat, OpFinite
  <2>3. Cardinality(Recorded) \in Nat /\ Cardinality(Stored) \in Nat
    BY <2>2, FS_CardinalityType
  <2>4. Cardinality(Recorded') = Cardinality(Recorded) + 1
    BY <1>1, <2>2, FS_AddElement DEF After
  <2>5. \/ Cardinality(Stored') = Cardinality(Stored) /\ Stored' = Stored
        \/ Cardinality(Stored') = Cardinality(Stored) + 1 /\ Cardinality(Stored) < MaxDrafts
    <3>1. CASE d \in Stored
      <4>1. Stored' = Stored BY <1>1, <3>1 DEF After
      <4> QED BY <4>1
    <3>2. CASE d \notin Stored
      <4>1. Cardinality(Stored) < MaxDrafts BY <3>2 DEF Begins, Advances
      <4> QED BY <1>1, <2>2, <3>2, <4>1, FS_AddElement DEF After
    <3> QED BY <3>1, <3>2
  <2>6. Cardinality(Recorded) < MaxOperations BY DEF Writes
  <2>7. MaxOperations \in Nat /\ MaxDrafts \in Nat BY BoundsPositive
  <2>8. (Cardinality(Recorded) <= MaxOperations)' BY <2>3, <2>4, <2>6, <2>7
  <2>9. (Cardinality(Stored) <= MaxDrafts)' BY <2>3, <2>5, <2>7 DEF IInv, WithinQuota
  <2> QED BY <2>8, <2>9 DEF WithinQuota
<1>8. ReaderOK' BY <1>4 DEF ReaderOK, Alone, Usable
<1> QED BY <1>2, <1>3, <1>5, <1>6, <1>7, <1>8 DEF IInv

-----------------------------------------------------------------------------
(* The page of a listing *)

\* A nonempty set measured by naturals has a least element: induction by the least
\* counterexample.
LEMMA Least ==
  ASSUME NEW S, S # {}, NEW f \in [S -> Nat]
  PROVE  \E m \in S : \A n \in S : f[m] <= f[n]
<1> DEFINE values == {f[m] : m \in S}
           less == OpToRel(<, Nat)
<1>1. IsWellFoundedOn(less, Nat) BY NatLessThanWellFounded
<1>2. values \subseteq Nat /\ values # {} OBVIOUS
<1>3. PICK x \in values : \A y \in values : ~(<<y, x>> \in less)
  <2> HIDE DEF values, less
  <2> QED BY <1>1, <1>2, WFMin
<1>4. \A y \in values : ~(y < x) BY <1>2, <1>3 DEF OpToRel
<1>5. PICK m \in S : x = f[m] OBVIOUS
<1>6. ASSUME NEW n \in S PROVE f[m] <= f[n]
  <2>1. f[n] \in Nat /\ f[m] \in Nat OBVIOUS
  <2>2. ~(f[n] < f[m]) BY <1>4, <1>5
  <2> QED BY <2>1, <2>2
<1> QED BY <1>6

\* before is a set of pairs that orders the finite set S strictly and totally.
Orders(before, S) ==
  /\ IsFiniteSet(S)
  /\ \A d, e \in S : d = e \/ <<d, e>> \in before \/ <<e, d>> \in before
  /\ \A d, e, f \in S : <<d, e>> \in before /\ <<e, f>> \in before => <<d, f>> \in before

IsFirst(before, S, m) == m \in S /\ \A e \in S : e = m \/ <<m, e>> \in before

LEMMA FirstExists ==
  ASSUME NEW before, NEW S, Orders(before, S), S # {}
  PROVE  \E m : IsFirst(before, S, m)
<1> DEFINE bad == {T \in SUBSET S : T # {} /\ ~\E m : IsFirst(before, T, m)}
           size == [T \in bad |-> Cardinality(T)]
<1>1. \A T \in SUBSET S : IsFiniteSet(T) /\ Cardinality(T) \in Nat
  <2>1. \A T \in SUBSET S : IsFiniteSet(T) BY FS_Subset DEF Orders
  <2> QED BY <2>1, FS_CardinalityType
<1> SUFFICES ASSUME bad # {} PROVE FALSE OBVIOUS
<1>2. size \in [bad -> Nat] BY <1>1
<1>3. PICK T \in bad : \A R \in bad : Cardinality(T) <= Cardinality(R)
  <2>1. PICK T \in bad : \A R \in bad : size[T] <= size[R]
    <3> HIDE DEF bad, size
    <3> QED BY <1>2, Least
  <2> QED BY <2>1
<1>4. PICK x \in T : TRUE OBVIOUS
<1>5. T \ {x} \in SUBSET S /\ Cardinality(T \ {x}) = Cardinality(T) - 1
  BY <1>1, FS_RemoveElement
<1>6. T \ {x} \notin bad
  <2> SUFFICES ASSUME T \ {x} \in bad PROVE FALSE OBVIOUS
  <2>1. Cardinality(T) <= Cardinality(T \ {x}) BY <1>3
  <2>2. Cardinality(T) \in Nat BY <1>1
  <2> QED BY <1>5, <2>1, <2>2
<1>7. CASE T = {x}
  <2>1. IsFirst(before, T, x) BY <1>7 DEF IsFirst
  <2> QED BY <2>1
<1>8. CASE T # {x}
  <2>1. PICK m : IsFirst(before, T \ {x}, m) BY <1>4, <1>5, <1>6, <1>8
  <2>2. m \in S /\ x \in S /\ m # x /\ T \subseteq S BY <2>1 DEF IsFirst
  <2>3. CASE <<m, x>> \in before
    <3>1. IsFirst(before, T, m) BY <2>1, <2>2, <2>3 DEF IsFirst
    <3> QED BY <3>1
  <2>4. CASE <<x, m>> \in before
    <3>1. IsFirst(before, T, x) BY <2>1, <2>2, <2>4 DEF IsFirst, Orders
    <3> QED BY <3>1
  <2> QED BY <2>2, <2>3, <2>4 DEF Orders
<1> QED BY <1>7, <1>8

\* The first n elements of S.
IsTop(before, S, n, s) ==
  s \in SUBSET S /\ Cardinality(s) = n /\ \A d \in s, e \in S \ s : <<d, e>> \in before

LEMMA TopExists ==
  ASSUME NEW before, NEW S, Orders(before, S), NEW n \in Nat, n <= Cardinality(S)
  PROVE  \E s : IsTop(before, S, n, s)
<1> DEFINE bad == {k \in 0 .. n : ~\E s : IsTop(before, S, k, s)}
           value == [k \in bad |-> k]
<1> SUFFICES ASSUME bad # {} PROVE FALSE OBVIOUS
<1>1. \A T \in SUBSET S : IsFiniteSet(T) /\ Cardinality(T) \in Nat
  <2>1. \A T \in SUBSET S : IsFiniteSet(T) BY FS_Subset DEF Orders
  <2> QED BY <2>1, FS_CardinalityType
<1>2. value \in [bad -> Nat] OBVIOUS
<1>3. PICK k \in bad : \A j \in bad : k <= j
  <2>1. PICK k \in bad : \A j \in bad : value[k] <= value[j]
    <3> HIDE DEF bad, value
    <3> QED BY <1>2, Least
  <2> QED BY <2>1
<1>4. k # 0
  <2>1. Cardinality({}) = 0 BY FS_EmptySet
  <2>2. IsTop(before, S, 0, {}) BY <2>1 DEF IsTop
  <2> QED BY <2>2
<1>5. k - 1 \in 0 .. n /\ k - 1 \notin bad
  <2>1. k \in Nat /\ k <= n OBVIOUS
  <2> QED BY <1>3, <1>4, <2>1
<1>6. PICK s : IsTop(before, S, k - 1, s) BY <1>5
<1>7. s \in SUBSET S /\ Cardinality(s) = k - 1 BY <1>6 DEF IsTop
<1>8. S \ s # {} BY <1>7
<1>9. Orders(before, S \ s)
  <2>1. IsFiniteSet(S \ s) BY <1>1
  <2> QED BY <2>1 DEF Orders
<1>10. PICK m : IsFirst(before, S \ s, m) BY <1>8, <1>9, FirstExists
<1>11. m \in S /\ m \notin s BY <1>10 DEF IsFirst
<1>12. Cardinality(s \cup {m}) = k BY <1>1, <1>5, <1>7, <1>11, FS_AddElement
<1>13. \A d \in s \cup {m}, e \in S \ (s \cup {m}) : <<d, e>> \in before
  BY <1>6, <1>10 DEF IsTop, IsFirst
<1>14. IsTop(before, S, k, s \cup {m}) BY <1>7, <1>11, <1>12, <1>13 DEF IsTop
<1> QED BY <1>14

\* The order of a listing, as a set of pairs, and its converse.
Listed == {x \in Id \X Id : Above(x[1], x[2])}
Reversed == {x \in Id \X Id : Above(x[2], x[1])}

LEMMA ListingOrdered ==
  ASSUME TypeOK, NEW S \in SUBSET Stored
  PROVE  Orders(Listed, S) /\ Orders(Reversed, S)
<1>1. \A d \in S : d \in Id /\ d \in Nat /\ drafts[d].updated \in Nat
  BY RowTypes DEF Stored
<1>2. IsFiniteSet(S)
  <2>1. S \in SUBSET Id BY DEF Stored
  <2> QED BY <2>1, FS_Subset, IdNat
<1>3. \A d, e \in S : d = e \/ Above(d, e) \/ Above(e, d) BY <1>1 DEF Above
<1>4. \A d, e, f \in S : Above(d, e) /\ Above(e, f) => Above(d, f) BY <1>1 DEF Above
<1>5. \A d, e \in S : /\ <<d, e>> \in Listed <=> Above(d, e)
                      /\ <<d, e>> \in Reversed <=> Above(e, d)
  BY <1>1 DEF Listed, Reversed
<1> QED BY <1>2, <1>3, <1>4, <1>5 DEF Orders

AtMost(n, m) == IF n > m THEN m ELSE n

IsPage(rows, s) ==
  /\ s \in SUBSET rows
  /\ Cardinality(s) = AtMost(Cardinality(rows), Limit)
  /\ \A d \in s, e \in rows \ s : Above(d, e)

IsLast(page, d) == d \in page /\ \A e \in page : e = d \/ Above(e, d)

\* A page exists, and unless it is all there is it has a last row.
LEMMA PageExists ==
  ASSUME TypeOK, NEW rows \in SUBSET Stored
  PROVE  /\ \E s : IsPage(rows, s)
         /\ \A s : IsPage(rows, s) /\ s # rows => \E d : IsLast(s, d)
<1>1. /\ Orders(Listed, rows) /\ Cardinality(rows) \in Nat /\ IsFiniteSet(rows)
      /\ \A d \in rows : d \in Id
  <2>1. Orders(Listed, rows) BY ListingOrdered
  <2>2. IsFiniteSet(rows) BY <2>1 DEF Orders
  <2> QED BY <2>1, <2>2, FS_CardinalityType DEF Stored
<1> DEFINE n == AtMost(Cardinality(rows), Limit)
<1>2. n \in Nat /\ n <= Cardinality(rows) /\ (n = Cardinality(rows) \/ n = Limit)
  BY <1>1, RowTypes DEF AtMost
<1>3. \E s : IsPage(rows, s)
  <2> HIDE DEF n
  <2>1. PICK s : IsTop(Listed, rows, n, s) BY <1>1, <1>2, TopExists
  <2>2. \A d \in s, e \in rows \ s : Above(d, e) BY <1>1, <2>1 DEF IsTop, Listed
  <2>3. IsPage(rows, s) BY <2>1, <2>2 DEF IsTop, IsPage, n
  <2> QED BY <2>3
<1>4. ASSUME NEW s, IsPage(rows, s), s # rows PROVE \E d : IsLast(s, d)
  <2>1. s \in SUBSET rows /\ Cardinality(s) = n BY <1>4 DEF IsPage
  <2>2. s # {}
    <3>1. ASSUME s = {} PROVE FALSE
      <4>1. n = 0 BY <2>1, <3>1, FS_EmptySet
      <4>2. Cardinality(rows) = 0 BY <1>2, <4>1, RowTypes
      <4>3. rows = {} BY <1>1, <4>2, FS_EmptySet
      <4> QED BY <1>4, <3>1, <4>3
    <3> QED BY <3>1
  <2>3. s \in SUBSET Stored BY <2>1
  <2>4. Orders(Reversed, s) BY <2>3, ListingOrdered
  <2>5. PICK d : IsFirst(Reversed, s, d) BY <2>2, <2>4, FirstExists
  <2>6. IsLast(s, d) BY <2>5 DEF IsFirst, IsLast, Reversed
  <2> QED BY <2>6
<1> QED BY <1>3, <1>4

LEMMA PageInv ==
  ASSUME IInv, NEW p \in Process, ListPage(p)
  PROVE  IInv'
<1> DEFINE rows == Rows(scan.state, scan.cursor)
           page == CHOOSE s \in SUBSET rows :
                     /\ Cardinality(s) = IF Cardinality(rows) > Limit THEN Limit
                                         ELSE Cardinality(rows)
                     /\ \A d \in s, e \in rows \ s : Above(d, e)
           last == CHOOSE d \in page : \A e \in page : e = d \/ Above(e, d)
           cursor == [updated |-> drafts[last].updated, id |-> last]
<1>1. /\ scan # None /\ ~scan.ended
      /\ scan' = [scan EXCEPT !.cursor = IF page = rows THEN @ ELSE cursor,
                              !.ended = page = rows,
                              !.seen = @ \cup page,
                              !.twice = @ \/ page \cap scan.seen # {}]
      /\ UNCHANGED <<drafts, ops, reply, open, reader>>
  BY DEF ListPage
<1>2. TypeOK /\ scan \in Scan BY <1>1 DEF IInv, TypeOK
<1>3. rows \in SUBSET Stored BY DEF Rows
<1>4. IsPage(rows, page)
  <2> HIDE DEF rows
  <2>1. \E s \in SUBSET rows :
          /\ Cardinality(s) = IF Cardinality(rows) > Limit THEN Limit ELSE Cardinality(rows)
          /\ \A d \in s, e \in rows \ s : Above(d, e)
    BY <1>2, <1>3, PageExists DEF IsPage, AtMost
  <2> QED BY <2>1 DEF IsPage, AtMost
<1>5. page # rows => IsLast(page, last)
  <2> HIDE DEF rows, page
  <2>1. SUFFICES ASSUME page # rows PROVE IsLast(page, last) OBVIOUS
  <2>2. \E d \in page : \A e \in page : e = d \/ Above(e, d)
    BY <1>2, <1>3, <1>4, <2>1, PageExists DEF IsLast
  <2> QED BY <2>2 DEF IsLast
<1>6. \A d \in Stored : (d \in rows <=> drafts[d].state = scan.state /\ Below(d, scan.cursor))
  BY DEF Rows
<1> HIDE DEF rows, page, last
<1>7. page \subseteq rows /\ \A d \in page, e \in rows \ page : Above(d, e)
  BY <1>4 DEF IsPage
<1>8. page # rows =>
        /\ last \in page /\ last \in Stored /\ last \in Id
        /\ cursor \in Cursor /\ cursor # None /\ cursor.updated = drafts[last].updated
        /\ cursor.id = last
  <2> SUFFICES ASSUME page # rows PROVE last \in page /\ last \in Stored /\ last \in Id
                                        /\ cursor \in Cursor
    BY NoneApart
  <2>1. last \in page /\ last \in Stored BY <1>3, <1>5, <1>7 DEF IsLast
  <2>2. last \in Id BY <2>1 DEF Stored
  <2>3. drafts[last] \in Draft BY <1>2, <2>1, RowTypes
  <2>4. drafts[last].updated \in Stamp BY <2>3 DEF Draft
  <2> QED BY <2>1, <2>2, <2>4 DEF Cursor
<1> HIDE DEF cursor
<1>9. /\ scan' \in Scan /\ scan'.state = scan.state /\ scan'.intact = scan.intact
      /\ scan'.cursor = IF page = rows THEN scan.cursor ELSE cursor
      /\ scan'.ended = (page = rows) /\ scan'.seen = scan.seen \cup page
      /\ scan'.twice = (scan.twice \/ page \cap scan.seen # {})
  <2>1. page \subseteq Id BY <1>3, <1>7 DEF Stored
  <2> QED BY <1>1, <1>2, <1>8, <2>1 DEF Scan
<1>10. /\ ~scan.twice /\ scan.seen \subseteq Stored
       /\ \A d \in scan.intact : d \in Stored /\ drafts[d].state = scan.state
       /\ \A d \in scan.seen : ~Below(d, scan.cursor)
       /\ \A d \in scan.intact : d \in scan.seen \/ Below(d, scan.cursor)
  BY <1>1 DEF IInv, ScanOK
<1>11. ~scan'.twice /\ scan'.seen \subseteq Stored
  <2>1. page \cap scan.seen = {} BY <1>3, <1>6, <1>7, <1>10
  <2> QED BY <1>3, <1>7, <1>9, <1>10, <2>1
<1>12. \A d \in scan.intact : d \in scan.seen \/ d \in rows BY <1>6, <1>10
<1>13. ASSUME page # rows
       PROVE  /\ \A d \in scan'.seen : ~Below(d, cursor)
              /\ \A d \in scan'.intact : d \in scan'.seen \/ Below(d, cursor)
  <2>1. \A d \in Stored : d \in Nat /\ drafts[d].updated \in Nat
    BY <1>2, RowTypes DEF Stored
  <2>2. last \in page /\ last \in Stored /\ Below(last, scan.cursor)
    BY <1>6, <1>7, <1>8, <1>13
  <2>3. ASSUME NEW d \in scan'.seen PROVE ~Below(d, cursor)
    <3>1. CASE d \in page
      <4>1. d \in Stored /\ (d = last \/ Above(d, last))
        BY <1>3, <1>5, <1>7, <1>13, <3>1 DEF IsLast
      <4> QED BY <1>8, <1>13, <2>1, <2>2, <4>1 DEF Above, Below
    <3>2. CASE d \in scan.seen
      <4>1. d \in Stored /\ ~Below(d, scan.cursor) BY <1>10, <3>2
      <4>2. scan.cursor \in Cursor /\ scan.cursor # None BY <1>2, <4>1 DEF Scan, Below
      <4>3. scan.cursor.updated \in Nat /\ scan.cursor.id \in Nat
        <5>1. scan.cursor.updated \in Stamp /\ scan.cursor.id \in Id BY <4>2 DEF Cursor
        <5> QED BY <1>2, <5>1, RowTypes DEF Stamp
      <4> QED BY <1>8, <1>13, <2>1, <2>2, <4>1, <4>2, <4>3 DEF Below
    <3> QED BY <1>9, <2>3, <3>1, <3>2
  <2>4. ASSUME NEW d \in scan'.intact, d \notin scan'.seen PROVE Below(d, cursor)
    <3>1. d \in rows \ page /\ d \in Stored BY <1>9, <1>10, <1>12, <2>4
    <3>2. Above(last, d) BY <1>7, <2>2, <3>1
    <3> QED BY <1>8, <1>13, <2>1, <2>2, <3>1, <3>2 DEF Above, Below
  <2> QED BY <2>3, <2>4
<1>14. ASSUME page = rows PROVE scan'.intact \subseteq scan'.seen
  BY <1>9, <1>12, <1>14
<1>15. Stored' = Stored /\ Recorded' = Recorded BY <1>1 DEF Stored, Recorded
<1>16. ScanOK'
  BY <1>1, <1>9, <1>10, <1>11, <1>13, <1>14, <1>15 DEF ScanOK, Below
<1>17. TypeOK' BY <1>1, <1>2, <1>9 DEF TypeOK
<1> QED
  BY <1>1, <1>15, <1>16, <1>17
  DEF IInv, StampOK, HistoryOK, ContentOK, LastWriter, WithinQuota, ReaderOK

\* The other calls leave the tables alone.
LEMMA OtherInv ==
  ASSUME IInv,
         \/ \E p \in Process, d \in Id : GetRow(p, d)
         \/ \E p \in Process : GetRecipients(p) \/ Close(p)
         \/ \E state \in Listing : BeginScan(state)
         \/ UNCHANGED vars
  PROVE  IInv'
<1>1. /\ UNCHANGED <<drafts, ops, reply>> /\ Stored' = Stored /\ Recorded' = Recorded
      /\ StampOK' /\ HistoryOK' /\ ContentOK' /\ WithinQuota'
  <2>1. UNCHANGED <<drafts, ops, reply>>
    BY DEF GetRow, GetRecipients, Close, BeginScan, vars
  <2>2. Stored' = Stored /\ Recorded' = Recorded BY <2>1 DEF Stored, Recorded
  <2> QED
    BY <2>1, <2>2 DEF IInv, StampOK, HistoryOK, ContentOK, LastWriter, WithinQuota
<1>2. ASSUME scan' = scan PROVE ScanOK'
  BY <1>1, <1>2 DEF IInv, ScanOK, Below
<1>3. ASSUME NEW p \in Process, NEW d \in Id, GetRow(p, d) PROVE IInv'
  <2>1. /\ d \in Stored /\ UNCHANGED <<open, scan>>
        /\ reader' = [reader EXCEPT ![p] = [id |-> d, rev |-> drafts[d].rev,
                                            head |-> drafts[d].head]]
    BY <1>3 DEF GetRow, Stored
  <2> DEFINE row == [id |-> d, rev |-> drafts[d].rev, head |-> drafts[d].head]
  <2>2. row \in Row BY <2>1, RowTypes DEF IInv, Row
  <2>3. row.id = d /\ row.rev = drafts[d].rev /\ row.head = drafts[d].head OBVIOUS
  <2>4. reader' = [reader EXCEPT ![p] = row] BY <2>1
  <2> HIDE DEF row
  <2>5. /\ reader' \in [Process -> Row \cup {None}] /\ reader'[p] = row
        /\ \A q \in Process \ {p} : reader'[q] = reader[q]
    BY <2>2, <2>4 DEF IInv, TypeOK
  <2>6. TypeOK' BY <1>1, <2>1, <2>5 DEF IInv, TypeOK
  <2>7. ReaderOK' BY <1>1, <2>1, <2>3, <2>5 DEF IInv, ReaderOK, Alone
  <2> QED BY <1>1, <1>2, <2>1, <2>6, <2>7 DEF IInv
<1>4. ASSUME NEW p \in Process, GetRecipients(p) PROVE IInv'
  <2>1. reader' = [reader EXCEPT ![p] = None] /\ UNCHANGED <<open, scan>>
    BY <1>4 DEF GetRecipients
  <2>2. /\ reader' \in [Process -> Row \cup {None}] /\ reader'[p] = None
        /\ \A q \in Process \ {p} : reader'[q] = reader[q]
    BY <2>1 DEF IInv, TypeOK
  <2>3. TypeOK' BY <1>1, <2>1, <2>2 DEF IInv, TypeOK
  <2>4. ReaderOK' BY <1>1, <2>2 DEF IInv, ReaderOK, Alone
  <2> QED BY <1>1, <1>2, <2>1, <2>3, <2>4 DEF IInv
<1>5. ASSUME NEW p \in Process, Close(p) PROVE IInv'
  <2>1. open' = open \ {p} /\ UNCHANGED <<reader, scan>> BY <1>5 DEF Close
  <2>2. TypeOK' BY <1>1, <2>1 DEF IInv, TypeOK
  <2>3. ReaderOK' BY <1>1, <2>1 DEF IInv, ReaderOK, Alone
  <2> QED BY <1>1, <1>2, <2>1, <2>2, <2>3 DEF IInv
<1>6. ASSUME NEW state \in Listing, BeginScan(state) PROVE IInv'
  <2>1. /\ scan' = [state |-> state, cursor |-> None, ended |-> FALSE, seen |-> {},
                    twice |-> FALSE, intact |-> {d \in Stored : drafts[d].state = state}]
        /\ UNCHANGED <<open, reader>>
    BY <1>6 DEF BeginScan
  <2>2. {d \in Stored : drafts[d].state = state} \subseteq Id BY DEF Stored
  <2>3. state \in State BY CallersKnown DEF State
  <2>4. scan' \in Scan BY <2>1, <2>2, <2>3 DEF Scan
  <2>5. TypeOK' BY <1>1, <2>1, <2>4 DEF IInv, TypeOK
  <2>6. ScanOK' BY <1>1, <2>1 DEF ScanOK, Below
  <2>7. ReaderOK' BY <1>1, <2>1 DEF IInv, ReaderOK, Alone
  <2> QED BY <1>1, <2>5, <2>6, <2>7 DEF IInv
<1>7. CASE UNCHANGED vars
  <2>1. UNCHANGED <<open, reader, scan>> BY <1>7 DEF vars
  <2>2. TypeOK' BY <1>1, <2>1 DEF IInv, TypeOK
  <2>3. ReaderOK' BY <1>1, <2>1 DEF IInv, ReaderOK, Alone
  <2> QED BY <1>1, <1>2, <2>1, <2>2, <2>3 DEF IInv
<1> QED BY <1>3, <1>4, <1>5, <1>6, <1>7

LEMMA InitInv == Init => IInv
<1> SUFFICES ASSUME Init PROVE IInv OBVIOUS
<1>1. Stored = {} /\ Recorded = {} BY DEF Init, Stored, Recorded
<1>2. TypeOK BY DEF Init, TypeOK
<1>3. WithinQuota
  <2>1. MaxDrafts \in Nat /\ MaxOperations \in Nat BY BoundsPositive
  <2> QED BY <1>1, <2>1, FS_EmptySet DEF WithinQuota
<1> QED
  BY <1>1, <1>2, <1>3 DEF Init, IInv, StampOK, HistoryOK, ContentOK, ReaderOK, ScanOK

LEMMA StepInv == IInv /\ [Next]_vars => IInv'
<1> SUFFICES ASSUME IInv, [Next]_vars PROVE IInv' OBVIOUS
<1>1. ASSUME NEW p \in Process, NEW o \in Op, NEW q \in Request, Mutation(p, o, q)
      PROVE  IInv'
  <2>1. CASE UNCHANGED <<drafts, ops, open, reader, scan>> /\ reply' \in Answer \cup {None}
    <3>1. Stored' = Stored /\ Recorded' = Recorded BY <2>1 DEF Stored, Recorded
    <3>2. TypeOK' BY <2>1 DEF IInv, TypeOK
    <3> QED
      BY <2>1, <3>1, <3>2
      DEF IInv, StampOK, HistoryOK, ContentOK, LastWriter, WithinQuota, ReaderOK, ScanOK, Below
  <2>2. CASE \E d \in Id, row \in Draft :
               Writes(p, o, q, d, row) /\ (Begins(q, d, row) \/ Advances(q, d, row))
    BY <2>2, WriteInv
  <2> QED BY <1>1, <2>1, <2>2, Effect DEF IInv
<1>2. ASSUME NEW p \in Process, ListPage(p) PROVE IInv' BY <1>2, PageInv
<1>3. CASE \/ \E p \in Process, d \in Id : GetRow(p, d)
           \/ \E p \in Process : GetRecipients(p) \/ Close(p)
           \/ \E state \in Listing : BeginScan(state)
           \/ UNCHANGED vars
  BY <1>3, OtherInv
<1> QED BY <1>1, <1>2, <1>3 DEF Next

LEMMA Safety == Spec => []IInv
BY InitInv, StepInv, PTL DEF Spec

-----------------------------------------------------------------------------
(* What it says *)

\* CHOOSE has one receipt to choose from: the last writer's.
LEMMA ContentKnown ==
  ASSUME IInv, NEW d \in Stored
  PROVE  /\ drafts[d].head = ContentAt(d, drafts[d].rev)
         /\ drafts[d].rcpt = ContentAt(d, drafts[d].rev)
<1> DEFINE writers == WroteBy(d, drafts[d].rev)
           newest == CHOOSE o \in writers : \A w \in writers : ops[w].rev <= ops[o].rev
<1>1. PICK o \in Recorded :
        /\ LastWriter(o, d)
        /\ drafts[d].head = ops[o].req.content /\ drafts[d].rcpt = ops[o].req.content
  BY DEF IInv, ContentOK
<1>2. \A w \in Recorded : ops[w].rev \in Nat BY RowTypes DEF IInv
<1>3. \A w : w \in writers <=>
        w \in Recorded /\ ops[w].id = d /\ ops[w].req.content # None
  BY DEF WroteBy, IInv, HistoryOK
<1>4. ContentAt(d, drafts[d].rev) = ops[newest].req.content BY DEF ContentAt
<1> HIDE DEF writers
<1>5. o \in writers /\ \A w \in writers : ops[w].rev <= ops[o].rev
  BY <1>1, <1>3 DEF LastWriter
<1>6. newest \in writers /\ \A w \in writers : ops[w].rev <= ops[newest].rev BY <1>5
<1> HIDE DEF newest
<1>7. ops[newest].rev = ops[o].rev /\ ops[newest].id = ops[o].id
  BY <1>1, <1>2, <1>3, <1>5, <1>6 DEF LastWriter
<1>8. newest = o BY <1>1, <1>3, <1>6, <1>7 DEF IInv, HistoryOK
<1> QED BY <1>1, <1>4, <1>8

LEMMA OneMaker == IInv => OneMakerPerRevision
<1> SUFFICES ASSUME IInv PROVE OneMakerPerRevision OBVIOUS
<1>1. ASSUME NEW d \in Stored, NEW r \in Revision, r <= drafts[d].rev
      PROVE  \E o \in Recorded :
               /\ Makers(d, r) = {o}
               /\ IF r = 1 THEN ops[o].req.kind = "create"
                  ELSE ops[o].req.id = d /\ ops[o].req.rev = r - 1
  <2>1. PICK o \in Recorded : ops[o].id = d /\ ops[o].rev = r BY <1>1 DEF IInv, HistoryOK
  <2>2. Makers(d, r) = {o} BY <2>1 DEF Makers, IInv, HistoryOK
  <2> QED BY <2>1, <2>2 DEF IInv, HistoryOK
<1> QED BY <1>1 DEF OneMakerPerRevision, IInv, HistoryOK

\* What holds of the store whoever uses it, from any number of processes.
StoreInv == TypeOK /\ OneMakerPerRevision /\ StoredWhole /\ WithinQuota /\ ScanExact

\* For any numbers of processes, drafts, operations and revisions and however the
\* clock is set: every revision was made by one operation that named the revision
\* before it, both tables hold the content written last, the quotas bind, and a
\* paged listing repeats nothing and misses no draft that rests.
THEOREM StoreInvariant == Spec => []StoreInv
<1>1. IInv => StoreInv
  <2> SUFFICES ASSUME IInv PROVE StoreInv OBVIOUS
  <2>1. StoredWhole BY ContentKnown DEF StoredWhole
  <2>2. ScanExact BY DEF IInv, ScanOK, ScanExact
  <2> QED BY <2>1, <2>2, OneMaker DEF IInv, StoreInv
<1> QED BY <1>1, Safety, PTL

\* All that, and what get_draft returns is one revision, all of it, if one process
\* has the store: with two the last part fails.
THEOREM DraftInvariant == ASSUME Alone PROVE Spec => []DraftInv
<1>1. IInv => DraftInv
  <2> SUFFICES ASSUME IInv PROVE DraftInv OBVIOUS
  <2>1. StoredWhole BY ContentKnown DEF StoredWhole
  <2>2. ScanExact BY DEF IInv, ScanOK, ScanExact
  <2>3. ReadWhole
    <3> SUFFICES ASSUME NEW p \in Process, reader[p] # None
                 PROVE  /\ Fetched(p).head = ContentAt(Fetched(p).id, Fetched(p).rev)
                        /\ Fetched(p).rcpt = ContentAt(Fetched(p).id, Fetched(p).rev)
      BY DEF ReadWhole
    <3>1. /\ reader[p].id \in Stored
          /\ drafts[reader[p].id].rev = reader[p].rev
          /\ drafts[reader[p].id].head = reader[p].head
      BY DEF IInv, ReaderOK
    <3>2. /\ Fetched(p).id = reader[p].id /\ Fetched(p).rev = reader[p].rev
          /\ Fetched(p).head = reader[p].head
          /\ Fetched(p).rcpt = drafts[reader[p].id].rcpt
      BY DEF Fetched
    <3> QED BY <3>1, <3>2, ContentKnown
  <2> QED BY <2>1, <2>2, <2>3, OneMaker DEF IInv, DraftInv
<1> QED BY <1>1, Safety, PTL

\* A repeated request that took effect is answered with its own receipt, at full
\* quota and whatever became of the draft.
THEOREM RetriesAnswered == Spec => RetryAnswered
<1> DEFINE Step == reply' # None =>
       /\ reply'.outcome = "replayed"
       /\ reply'.id = ops[reply'.op].id /\ reply'.rev = ops[reply'.op].rev
<1>1. IInv /\ [Next]_vars => [Step]_reply
  <2> SUFFICES ASSUME IInv, [Next]_vars, reply' # reply, reply' # None PROVE Step OBVIOUS
  <2>1. ASSUME NEW p \in Process, NEW o \in Op, NEW q \in Request, Mutation(p, o, q)
        PROVE  Step
    <3>1. CASE Unchanged(p, o, q)
      <4>1. Answered(o, q) BY <3>1 DEF Unchanged
      <4>2. ops[o] # None /\ ops[o].req = q BY <4>1 DEF Answered
      <4>3. Replay(o, q) = "replayed" BY <4>2 DEF Replay
      <4>4. reply' = [op |-> o, outcome |-> "replayed", id |-> ops[o].id, rev |-> ops[o].rev]
        BY <4>1, <4>2, <4>3 DEF Answered
      <4> QED BY <4>4
    <3>2. CASE ~Unchanged(p, o, q)
      BY <2>1, <3>2 DEF Mutation, CreateDraft, UpdateDraft, ChangeState, Record
    <3> QED BY <3>1, <3>2
  <2>2. CASE ~\E p \in Process, o \in Op, q \in Request : Mutation(p, o, q)
    BY <2>2 DEF Next, vars, GetRow, GetRecipients, ListPage, Close, BeginScan
  <2> QED BY <2>1, <2>2
<1> QED BY <1>1, Safety, PTL DEF Spec, RetryAnswered

-----------------------------------------------------------------------------
(* The registration: the sequence of host calls *)

Base == {"hook", "command", "draft", "read"}
Item == {"hook", "command", "draft", "read", "human", "skill"} \X Nat

\* The calls of a sequence.
Calls(s) == {s[i] : i \in 1 .. Len(s)}

\* Sequences of calls that are all different.
Distinct(s) == s \in Seq(Item) /\ \A i, j \in 1 .. Len(s) : s[i] = s[j] => i = j

LEMMA Joined ==
  ASSUME NEW s, NEW t, Distinct(s), Distinct(t), Calls(s) \cap Calls(t) = {}
  PROVE  /\ Distinct(s \o t) /\ Calls(s \o t) = Calls(s) \cup Calls(t)
         /\ Len(s \o t) = Len(s) + Len(t)
         /\ \A i \in 1 .. Len(s) : (s \o t)[i] = s[i]
<1>1. /\ Len(s) \in Nat /\ Len(t) \in Nat /\ s \o t \in Seq(Item)
      /\ Len(s \o t) = Len(s) + Len(t)
      /\ \A i \in 1 .. Len(s) + Len(t) :
           (s \o t)[i] = IF i <= Len(s) THEN s[i] ELSE t[i - Len(s)]
  BY ConcatProperties, LenProperties DEF Distinct
<1>2. \A i \in 1 .. Len(s) : (s \o t)[i] = s[i] /\ s[i] \in Calls(s) /\ i \in 1 .. Len(s \o t)
  BY <1>1 DEF Calls
<1>3. \A i \in 1 .. Len(t) :
        (s \o t)[Len(s) + i] = t[i] /\ t[i] \in Calls(t) /\ Len(s) + i \in 1 .. Len(s \o t)
  BY <1>1 DEF Calls
<1>4. \A i \in 1 .. Len(s \o t) :
        \/ i \in 1 .. Len(s)
        \/ i - Len(s) \in 1 .. Len(t) /\ (s \o t)[i] = t[i - Len(s)]
  BY <1>1
<1>5. ASSUME NEW i \in 1 .. Len(s \o t), NEW j \in 1 .. Len(s \o t), (s \o t)[i] = (s \o t)[j]
      PROVE  i = j
  <2>1. CASE i \in 1 .. Len(s) /\ j \in 1 .. Len(s) BY <1>2, <1>5, <2>1 DEF Distinct
  <2>2. CASE i \notin 1 .. Len(s) /\ j \notin 1 .. Len(s)
    <3>1. i - Len(s) = j - Len(s) BY <1>4, <1>5, <2>2 DEF Distinct
    <3> QED BY <1>1, <3>1
  <2>3. CASE i \in 1 .. Len(s) /\ j \notin 1 .. Len(s) BY <1>2, <1>4, <1>5, <2>3 DEF Calls
  <2>4. CASE i \notin 1 .. Len(s) /\ j \in 1 .. Len(s) BY <1>2, <1>4, <1>5, <2>4 DEF Calls
  <2> QED BY <2>1, <2>2, <2>3, <2>4
<1>6. Calls(s \o t) = Calls(s) \cup Calls(t)
  <2>1. ASSUME NEW x \in Calls(s \o t) PROVE x \in Calls(s) \cup Calls(t)
    BY <1>2, <1>4 DEF Calls
  <2>2. ASSUME NEW x \in Calls(s) PROVE x \in Calls(s \o t)
    <3>1. PICK i \in 1 .. Len(s) : x = s[i] BY DEF Calls
    <3> QED BY <1>2, <3>1 DEF Calls
  <2>3. ASSUME NEW x \in Calls(t) PROVE x \in Calls(s \o t)
    <3>1. PICK i \in 1 .. Len(t) : x = t[i] BY DEF Calls
    <3> QED BY <1>3, <3>1 DEF Calls
  <2> QED BY <2>1, <2>2, <2>3
<1> QED BY <1>1, <1>2, <1>5, <1>6 DEF Distinct

LEMMA ToolsDistinct ==
  ASSUME NEW n \in Nat, NEW kind \in {"draft", "read"}
  PROVE  Distinct(Reg!Tools(kind, n)) /\ \A x \in Calls(Reg!Tools(kind, n)) : Reg!Kind(x) = kind
<1> DEFINE s == [i \in 1 .. n |-> <<kind, i>>]
<1>1. \A i \in 1 .. n : <<kind, i>> \in Item BY DEF Item
<1>2. s \in Seq(Item) /\ Len(s) = n BY <1>1
<1>3. \A i \in 1 .. n : s[i] = <<kind, i>> OBVIOUS
<1>4. Reg!Tools(kind, n) = s BY DEF Reg!Tools
<1> HIDE DEF s
<1> QED BY <1>2, <1>3, <1>4 DEF Distinct, Calls, Reg!Kind

LEMMA Fixed ==
  /\ Distinct(<<>>) /\ Calls(<<>>) = {}
  /\ Distinct(<<Reg!Hook, Reg!Command>>)
  /\ Calls(<<Reg!Hook, Reg!Command>>) = {Reg!Hook, Reg!Command}
  /\ Distinct(<<Reg!Skill>>) /\ Calls(<<Reg!Skill>>) = {Reg!Skill}
  /\ Distinct(<<Reg!Approve>>) /\ Calls(<<Reg!Approve>>) = {Reg!Approve}
  /\ Distinct(<<Reg!Approve, Reg!Send>>)
  /\ Calls(<<Reg!Approve, Reg!Send>>) = {Reg!Approve, Reg!Send}
<1>1. {Reg!Hook, Reg!Command, Reg!Skill, Reg!Approve, Reg!Send} \subseteq Item
  BY DEF Reg!Hook, Reg!Command, Reg!Skill, Reg!Approve, Reg!Send, Item
<1>2. Reg!Hook # Reg!Command /\ Reg!Approve # Reg!Send
  BY DEF Reg!Hook, Reg!Command, Reg!Approve, Reg!Send
<1>3. ASSUME NEW x \in Item PROVE Distinct(<<x>>) /\ Calls(<<x>>) = {x}
  BY DEF Distinct, Calls
<1>4. ASSUME NEW x \in Item, NEW y \in Item, x # y
      PROVE Distinct(<<x, y>>) /\ Calls(<<x, y>>) = {x, y}
  <2>1. <<x, y>> \in Seq(Item) /\ Len(<<x, y>>) = 2 /\ 1 .. 2 = {1, 2} OBVIOUS
  <2>2. <<x, y>>[1] = x /\ <<x, y>>[2] = y OBVIOUS
  <2> QED BY <1>4, <2>1, <2>2 DEF Distinct, Calls
<1>5. Distinct(<<>>) /\ Calls(<<>>) = {} BY DEF Distinct, Calls
<1> QED BY <1>1, <1>2, <1>3, <1>4, <1>5

\* The calls planned first: all different, the hook before everything.
LEMMA Planned ==
  ASSUME Reg!Setting, NEW r
  PROVE  /\ Distinct(Reg!Plan(r)) /\ Reg!Plan(r) # <<>> /\ Reg!Plan(r)[1] = Reg!Hook
         /\ \A x \in Calls(Reg!Plan(r)) : Reg!Kind(x) \in Base
<1> DEFINE ends == <<Reg!Hook, Reg!Command>>
           tools == Reg!Tools("draft", Drafting)
           reads == Reg!Tools("read", Reading)
<1>1. /\ Distinct(ends) /\ Calls(ends) = {Reg!Hook, Reg!Command} /\ Len(ends) = 2
      /\ ends[1] = Reg!Hook
      /\ Reg!Kind(Reg!Hook) = "hook" /\ Reg!Kind(Reg!Command) = "command"
  BY Fixed DEF Reg!Kind, Reg!Hook, Reg!Command
<1>2. /\ Distinct(tools) /\ \A x \in Calls(tools) : Reg!Kind(x) = "draft"
      /\ Distinct(reads) /\ \A x \in Calls(reads) : Reg!Kind(x) = "read"
  BY ToolsDistinct DEF Reg!Setting
<1>3. Reg!Plan(r) = IF r.kind = "blocked" THEN ends ELSE (ends \o tools) \o reads
  <2>1. tools \in Seq(Item) /\ reads \in Seq(Item) /\ ends \in Seq(Item)
    BY <1>1, <1>2 DEF Distinct
  <2> QED BY <2>1 DEF Reg!Plan
<1> HIDE DEF ends, tools, reads
<1>4. /\ Distinct(ends \o tools) /\ Calls(ends \o tools) = Calls(ends) \cup Calls(tools)
      /\ Len(ends \o tools) = Len(ends) + Len(tools) /\ (ends \o tools)[1] = Reg!Hook
  <2>1. Calls(ends) \cap Calls(tools) = {} BY <1>1, <1>2 DEF Base
  <2>2. 1 \in 1 .. Len(ends) BY <1>1
  <2>3. \A i \in 1 .. Len(ends) : (ends \o tools)[i] = ends[i] BY <1>1, <1>2, <2>1, Joined
  <2> QED BY <1>1, <1>2, <2>1, <2>2, <2>3, Joined
<1>5. /\ Distinct((ends \o tools) \o reads)
      /\ Calls((ends \o tools) \o reads) = Calls(ends \o tools) \cup Calls(reads)
      /\ Len((ends \o tools) \o reads) = Len(ends \o tools) + Len(reads)
      /\ ((ends \o tools) \o reads)[1] = Reg!Hook
  <2>1. Calls(ends \o tools) \cap Calls(reads) = {} BY <1>1, <1>2, <1>4
  <2>2. Len(tools) \in Nat BY <1>2, LenProperties DEF Distinct
  <2>3. 1 \in 1 .. Len(ends \o tools) BY <1>1, <1>4, <2>2
  <2>4. \A i \in 1 .. Len(ends \o tools) : ((ends \o tools) \o reads)[i] = (ends \o tools)[i]
    BY <1>2, <1>4, <2>1, Joined
  <2> QED BY <1>2, <1>4, <2>1, <2>3, <2>4, Joined
<1>6. CASE r.kind = "blocked" BY <1>1, <1>3, <1>6 DEF Base
<1>7. CASE r.kind # "blocked"
  <2>1. Reg!Plan(r) = (ends \o tools) \o reads BY <1>3, <1>7
  <2>2. Len(tools) \in Nat /\ Len(reads) \in Nat BY <1>2, LenProperties DEF Distinct
  <2>3. Len(Reg!Plan(r)) = 2 + Len(tools) + Len(reads) BY <1>1, <1>4, <1>5, <2>1
  <2>4. Reg!Plan(r) # <<>> BY <2>2, <2>3
  <2>5. \A x \in Calls(Reg!Plan(r)) : Reg!Kind(x) \in Base BY <1>1, <1>2, <1>4, <1>5, <2>1 DEF Base
  <2> QED BY <1>5, <2>1, <2>4, <2>5
<1> QED BY <1>6, <1>7

\* The human commands and the skill come after, once.
LEMMA Extended ==
  ASSUME NEW s, Distinct(s), \A x \in Calls(s) : Reg!Kind(x) \in Base, NEW r
  PROVE  LET t == s \o Reg!Human(r) \o <<Reg!Skill>> IN
         /\ Distinct(t) /\ Reg!Skill \in Calls(t) /\ Len(t) > Len(s)
         /\ \A i \in 1 .. Len(s) : t[i] = s[i]
         /\ Reg!Send \in Calls(t) => r.profile # "auto" /\ r.workflow
<1> DEFINE h == Reg!Human(r)
<1>1. /\ Distinct(h) /\ Calls(h) \subseteq {Reg!Approve, Reg!Send}
      /\ Reg!Send \in Calls(h) => r.profile # "auto" /\ r.workflow
  <2>1. Reg!Approve # Reg!Send BY DEF Reg!Approve, Reg!Send
  <2> QED BY <2>1, Fixed DEF Reg!Human
<1>2. /\ Reg!Kind(Reg!Approve) = "human" /\ Reg!Kind(Reg!Send) = "human"
      /\ Reg!Kind(Reg!Skill) = "skill"
  BY DEF Reg!Kind, Reg!Approve, Reg!Send, Reg!Skill
<1> HIDE DEF h
<1>3. Calls(s) \cap Calls(h) = {} BY <1>1, <1>2 DEF Base
<1>4. /\ Distinct(s \o h) /\ Calls(s \o h) = Calls(s) \cup Calls(h)
      /\ Len(s \o h) = Len(s) + Len(h) /\ \A i \in 1 .. Len(s) : (s \o h)[i] = s[i]
  BY <1>1, <1>3, Joined
<1>5. Calls(s \o h) \cap Calls(<<Reg!Skill>>) = {} BY <1>1, <1>2, <1>4, Fixed DEF Base
<1>6. /\ Distinct((s \o h) \o <<Reg!Skill>>)
      /\ Calls((s \o h) \o <<Reg!Skill>>) = Calls(s \o h) \cup {Reg!Skill}
      /\ Len((s \o h) \o <<Reg!Skill>>) = Len(s \o h) + 1
      /\ \A i \in 1 .. Len(s \o h) : ((s \o h) \o <<Reg!Skill>>)[i] = (s \o h)[i]
  <2>1. Len(<<Reg!Skill>>) = 1 OBVIOUS
  <2> QED BY <1>4, <1>5, <2>1, Joined, Fixed
<1>7. Len(s) \in Nat /\ Len(h) \in Nat BY <1>1, LenProperties DEF Distinct
<1>8. \A i \in 1 .. Len(s) : i \in 1 .. Len(s \o h) BY <1>4, <1>7
<1>9. Reg!Send \in Calls((s \o h) \o <<Reg!Skill>>) => Reg!Send \in Calls(h)
  BY <1>2, <1>4, <1>6 DEF Base
<1>10. s \o Reg!Human(r) \o <<Reg!Skill>> = (s \o h) \o <<Reg!Skill>> BY DEF h
<1> DEFINE t == (s \o h) \o <<Reg!Skill>>
<1>11. \A i \in 1 .. Len(s) : t[i] = s[i] BY <1>4, <1>6, <1>8
<1>12. Len(t) > Len(s) BY <1>4, <1>6, <1>7
<1> HIDE DEF t
<1> QED BY <1>1, <1>6, <1>9, <1>10, <1>11, <1>12 DEF t

-----------------------------------------------------------------------------
(* The inductive invariant *)

\* The calls made so far.
Made == {plan[i] : i \in 1 .. at - 1}

PlanOK ==
  /\ Distinct(plan)
  /\ plan # <<>> => plan[1] = Reg!Hook
  /\ (\A x \in Calls(plan) : Reg!Kind(x) \in Base) \/ Reg!Skill \in Calls(plan)

\* Every registration that no handle was forgotten of is held, or never had one.
HandlesOK ==
  /\ regs \subseteq Made
  /\ held \cap silent = {}
  /\ broke = {} => regs \subseteq held \cup silent

\* The hook is the last to go.
PhaseOK ==
  /\ pc \in {"start", "load"} =>
       /\ plan = <<>> /\ at = 1 /\ regs = {} /\ broke = {} /\ runtime = Reg!NoRuntime
       /\ cfg \in Reg!Config
  /\ pc \in {"add", "registered"} => plan # <<>> /\ broke = {} /\ regs = Made
  /\ pc = "registered" => at = Len(plan) + 1
  /\ pc = "undo" /\ held # {} => Reg!Hook \in held \cup silent
  /\ pc = "failed" =>
       /\ held = {}
       /\ "outer" \notin broke => ~runtime.open
       /\ runtime.open => Reg!Hook \in regs

Mailing(r) == r.provider = "imap" \/ r.storage \/ r.drafts \/ r.audit \/ r.armed

\* What the guard let pass and what the loader made of it.
GrantOK ==
  /\ pc = "load" /\ same => Reg!Allowed(cfg)
  /\ runtime.kind = "plugin" /\ same /\ runtime.open /\ Mailing(runtime) =>
       runtime.profile \in Profile /\ runtime.profile = current
  /\ runtime.workflow => runtime.profile # "auto" /\ runtime.armed
  /\ Reg!Send \in Calls(plan) => runtime.workflow

RegIInv == Reg!TypeOK /\ PlanOK /\ HandlesOK /\ PhaseOK /\ GrantOK

-----------------------------------------------------------------------------
(* Deciding and loading *)

LEMMA RuntimeTypes ==
  ASSUME Reg!Setting
  PROVE  /\ Reg!NoRuntime \in Reg!Runtime /\ Reg!Blocked \in Reg!Runtime
         /\ Reg!Unconfigured \in Reg!Runtime
         /\ ~Reg!NoRuntime.open /\ Reg!NoRuntime.kind = "none" /\ ~Reg!NoRuntime.workflow
         /\ Reg!Blocked.kind = "blocked" /\ ~Reg!Blocked.workflow
         /\ ~Mailing(Reg!Unconfigured) /\ ~Reg!Unconfigured.workflow
<1>1. /\ Reg!NoRuntime \in Reg!Runtime /\ Reg!NoRuntime.kind = "none" /\ ~Reg!NoRuntime.open
      /\ ~Reg!NoRuntime.workflow /\ ~Reg!NoRuntime.armed /\ ~Reg!NoRuntime.storage
      /\ ~Reg!NoRuntime.drafts
      /\ ~Reg!NoRuntime.audit /\ Reg!NoRuntime.provider = None
  BY DEF Reg!NoRuntime, Reg!Runtime
<1>2. Reg!Blocked \in Reg!Runtime /\ Reg!Blocked.kind = "blocked" /\ ~Reg!Blocked.workflow
  BY <1>1 DEF Reg!Blocked, Reg!Runtime
<1>3. /\ Reg!Unconfigured \in Reg!Runtime /\ Reg!Unconfigured.workflow = Reg!NoRuntime.workflow
      /\ Reg!Unconfigured.armed = Reg!NoRuntime.armed
      /\ Reg!Unconfigured.storage = Reg!NoRuntime.storage
      /\ Reg!Unconfigured.drafts = Reg!NoRuntime.drafts
      /\ Reg!Unconfigured.audit = Reg!NoRuntime.audit
      /\ Reg!Unconfigured.provider = Reg!NoRuntime.provider
  BY <1>1 DEF Reg!Unconfigured, Reg!Runtime
<1> QED BY <1>1, <1>2, <1>3 DEF Mailing, Reg!Setting

LEMMA Granted ==
  ASSUME Reg!Setting, NEW c \in Reg!Config, Reg!Valid(c)
  PROVE  /\ Reg!Built(c) \in Reg!Runtime
         /\ Reg!Built(c).workflow => Reg!Built(c).profile # "auto" /\ Reg!Built(c).armed
         /\ Reg!Allowed(c) /\ Mailing(Reg!Built(c)) =>
              Reg!Built(c).profile \in Profile /\ Reg!Built(c).profile = current
<1>1. /\ c.profile \in Profile \cup {"auto", "malformed"}
      /\ c.workflow \in BOOLEAN
      /\ c.workflow => c.profile # "auto" /\ c.send = "on" /\ c.smtp = "on"
      /\ c.smtp = "on" => c.drafts = "on"
  BY DEF Reg!Config, Reg!Valid
<1>2. /\ Reg!Built(c).profile = c.profile /\ Reg!Built(c).workflow = c.workflow
      /\ Reg!Built(c).armed = (c.send = "on" /\ c.smtp = "on" /\ c.drafts = "on")
      /\ Reg!Built(c).drafts = (c.drafts = "on") /\ Reg!Built(c).audit = (c.audit = "on")
      /\ Reg!Built(c).storage => c.storage = "on"
      /\ Reg!Built(c).provider = "imap" => None = "imap" \/ Reg!Provider(c) = "imap"
  BY DEF Reg!Built
<1>3. Reg!Built(c) \in Reg!Runtime
  <2> DEFINE resolved == Reg!Provider(c) \in {"mock", "imap"}
  <2>1. (IF resolved THEN Reg!Provider(c) ELSE None) \in {None, "mock", "imap"} OBVIOUS
  <2> QED BY <1>1, <2>1 DEF Reg!Built, Reg!Runtime
<1>4. ASSUME c.profile = "auto", ~Reg!Production(c) PROVE ~Mailing(Reg!Built(c))
  <2>1. /\ c.provider \in {None, "empty", "mock"}
        /\ c.storage = "off" /\ c.drafts = "off" /\ c.audit = "off" /\ c.send = "off"
    BY <1>4 DEF Reg!Production
  <2>2. Reg!Provider(c) # "imap" BY <2>1 DEF Reg!Provider, Reg!Setting
  <2> QED BY <1>2, <2>1, <2>2 DEF Mailing, Reg!Setting
<1> QED BY <1>1, <1>2, <1>3, <1>4 DEF Reg!Allowed

LEMMA DecideInv ==
  ASSUME Reg!Setting, RegIInv, Reg!Decide \/ Reg!Edit
  PROVE  RegIInv'
<1> USE RuntimeTypes
<1>1. /\ cfg \in Reg!Config /\ plan = <<>> /\ at = 1 /\ regs = {} /\ broke = {}
      /\ runtime = Reg!NoRuntime /\ silent = {} /\ held = {}
  BY DEF Reg!Decide, Reg!Edit, RegIInv, PhaseOK, Reg!TypeOK
<1>2. CASE Reg!Decide /\ allowed'
  <2>1. /\ pc' = "load" /\ same' = same /\ current' = current /\ allowed' \in BOOLEAN
        /\ Reg!Allowed(cfg) /\ UNCHANGED <<cfg, runtime, plan, at, regs, silent, Reg!undone>>
    BY <1>2 DEF Reg!Decide, Reg!decided, Reg!Allowed
  <2>2. Reg!TypeOK' BY <1>1, <2>1 DEF RegIInv, Reg!TypeOK, Reg!undone
  <2> QED
    BY <1>1, <2>1, <2>2
    DEF Reg!undone, RegIInv, PlanOK, HandlesOK, Made, PhaseOK, GrantOK, Calls, Reg!Allowed,
        Reg!Production
<1>3. CASE Reg!Decide /\ ~allowed'
  <2>1. /\ pc' = "add" /\ same' = same /\ current' = current /\ cfg' = None
        /\ allowed' \in BOOLEAN /\ runtime' = Reg!Blocked /\ plan' = Reg!Plan(Reg!Blocked)
        /\ UNCHANGED <<at, regs, silent, held, group, broke>>
    BY <1>3 DEF Reg!Decide, Reg!decided, Reg!undone, Reg!Allowed
  <2>2. /\ Distinct(plan') /\ plan' # <<>> /\ plan'[1] = Reg!Hook
        /\ \A x \in Calls(plan') : Reg!Kind(x) \in Base
    BY <2>1, Planned
  <2>3. Len(plan') \in Nat BY <2>2, LenProperties DEF Distinct
  <2>4. Reg!TypeOK' BY <1>1, <2>1, <2>3 DEF RegIInv, Reg!TypeOK
  <2>5. Reg!Send \notin Calls(plan') BY <2>2 DEF Reg!Send, Reg!Kind, Base
  <2>6. Made' = {} BY <1>1, <2>1 DEF Made
  <2> QED
    BY <1>1, <2>1, <2>2, <2>4, <2>5, <2>6
    DEF RegIInv, PlanOK, HandlesOK, PhaseOK, GrantOK
<1>4. CASE Reg!Edit
  <2>1. /\ pc = "load" /\ cfg' \in Edits /\ same' = FALSE
        /\ UNCHANGED <<pc, current, allowed, runtime, plan, at, regs, silent, Reg!undone>>
    BY <1>4 DEF Reg!Edit
  <2>2. cfg' \in Reg!Config BY <2>1 DEF Reg!Setting
  <2>3. Reg!TypeOK' BY <1>1, <2>1, <2>2 DEF RegIInv, Reg!TypeOK, Reg!undone
  <2> QED
    BY <1>1, <2>1, <2>2, <2>3
    DEF Reg!undone, RegIInv, PlanOK, HandlesOK, Made, PhaseOK, GrantOK, Calls
<1> QED BY <1>2, <1>3, <1>4

LEMMA LoadInv ==
  ASSUME Reg!Setting, RegIInv, Reg!Load
  PROVE  RegIInv'
<1> USE RuntimeTypes
<1>1. /\ cfg \in Reg!Config /\ plan = <<>> /\ at = 1 /\ regs = {} /\ broke = {} /\ pc = "load"
      /\ runtime = Reg!NoRuntime /\ silent = {} /\ held = {} /\ cfg' = None
      /\ UNCHANGED <<Reg!decided, at, regs, silent, held, group, broke>>
      /\ same => Reg!Allowed(cfg)
  BY DEF Reg!Load, RegIInv, PhaseOK, Reg!TypeOK, Reg!undone, GrantOK
<1>2. ASSUME NEW r \in Reg!Runtime, Reg!Runs(r), r.kind = "plugin",
             r.workflow => r.profile # "auto" /\ r.armed,
             same /\ Mailing(r) => r.profile \in Profile /\ r.profile = current
      PROVE  RegIInv'
  <2>1. runtime' = r /\ plan' = Reg!Plan(r) /\ pc' = "add" BY <1>2 DEF Reg!Runs
  <2>2. /\ Distinct(plan') /\ plan' # <<>> /\ plan'[1] = Reg!Hook
        /\ \A x \in Calls(plan') : Reg!Kind(x) \in Base
    BY <2>1, Planned
  <2>3. Len(plan') \in Nat BY <2>2, LenProperties DEF Distinct
  <2>4. Reg!TypeOK' BY <1>1, <2>1, <2>3 DEF RegIInv, Reg!TypeOK, Reg!decided
  <2>5. Reg!Send \notin Calls(plan') BY <2>2 DEF Reg!Send, Reg!Kind, Base
  <2>6. Made' = {} BY <1>1, <2>1 DEF Made
  <2>7. GrantOK' BY <1>1, <1>2, <2>1, <2>5 DEF GrantOK, Reg!decided, Mailing
  <2> QED
    BY <1>1, <2>1, <2>2, <2>4, <2>6, <2>7
    DEF RegIInv, PlanOK, HandlesOK, PhaseOK
<1>3. CASE Reg!Valid(cfg) /\ Reg!Runs(Reg!Built(cfg))
  <2>1. Reg!Built(cfg).kind = "plugin" BY DEF Reg!Built
  <2> QED BY <1>1, <1>2, <1>3, <2>1, Granted
<1>4. CASE Reg!Runs(Reg!Unconfigured)
  <2>1. Reg!Unconfigured.kind = "plugin" BY DEF Reg!Unconfigured, Reg!NoRuntime
  <2> QED BY <1>2, <1>4, <2>1
<1>5. CASE pc' = "failed" /\ UNCHANGED <<runtime, plan>>
  <2>1. Reg!TypeOK' BY <1>1, <1>5 DEF RegIInv, Reg!TypeOK, Reg!decided
  <2> QED
    BY <1>1, <1>5, <2>1
    DEF Reg!decided, RegIInv, PlanOK, HandlesOK, Made, PhaseOK, GrantOK, Calls
<1> QED BY <1>3, <1>4, <1>5 DEF Reg!Load

-----------------------------------------------------------------------------
(* Registering *)

LEMMA AddedInv ==
  ASSUME RegIInv, NEW item, Reg!Added(item)
  PROVE  RegIInv'
<1>1. /\ pc = "add" /\ at <= Len(plan) /\ plan[at] = item
      /\ at' = at + 1 /\ regs' = regs \cup {item}
      /\ \/ held' = held \cup {item} /\ silent' = silent
         \/ silent' = silent \cup {item} /\ held' = held
      /\ UNCHANGED <<pc, current, allowed, same, cfg, runtime, plan, group, broke>>
  BY DEF Reg!Added, Reg!Next1, Reg!decided
<1>2. /\ at \in 1 .. Len(plan) + 1 /\ Distinct(plan) /\ plan # <<>> /\ regs = Made
      /\ silent \subseteq regs /\ held \subseteq regs
  BY <1>1 DEF RegIInv, Reg!TypeOK, PlanOK, PhaseOK
<1>3. Len(plan) \in Nat BY <1>2, LenProperties DEF Distinct
<1>4. item \notin Made
  <2> SUFFICES ASSUME NEW i \in 1 .. at - 1, plan[i] = item PROVE FALSE BY DEF Made
  <2>1. i \in 1 .. Len(plan) /\ at \in 1 .. Len(plan) BY <1>1, <1>2, <1>3
  <2> QED BY <1>1, <1>2, <1>3, <2>1 DEF Distinct
<1>5. Made' = Made \cup {item}
  <2>1. \A i : i \in 1 .. at' - 1 <=> i \in 1 .. at - 1 \/ i = at BY <1>1, <1>2, <1>3
  <2> QED BY <1>1, <2>1 DEF Made
<1>6. Reg!TypeOK' BY <1>1, <1>2, <1>3 DEF RegIInv, Reg!TypeOK
<1>7. HandlesOK' BY <1>1, <1>2, <1>4, <1>5 DEF RegIInv, HandlesOK
<1>8. PhaseOK' BY <1>1, <1>2, <1>5 DEF RegIInv, PhaseOK
<1> QED BY <1>1, <1>6, <1>7, <1>8 DEF RegIInv, PlanOK, GrantOK, Calls, Mailing

LEMMA ContinueInv ==
  ASSUME RegIInv, Reg!Continue
  PROVE  RegIInv'
<1>1. /\ pc = "add" /\ at = Len(plan) + 1
      /\ UNCHANGED <<current, allowed, same, cfg, runtime, at, regs, silent, held, group, broke>>
  BY DEF Reg!Continue, Reg!decided, Reg!undone
<1>2. /\ Distinct(plan) /\ plan # <<>> /\ plan[1] = Reg!Hook /\ regs = Made /\ broke = {}
      /\ Len(plan) \in Nat /\ Len(plan) >= 1
  <2>1. Distinct(plan) /\ plan # <<>> BY <1>1 DEF RegIInv, PlanOK, PhaseOK
  <2>2. Len(plan) \in Nat /\ Len(plan) # 0 BY <2>1, LenProperties, EmptySeq DEF Distinct
  <2> QED BY <1>1, <2>1, <2>2 DEF RegIInv, PlanOK, PhaseOK
<1>3. CASE runtime.kind = "plugin" /\ Reg!Skill \notin regs
  <2>1. plan' = plan \o Reg!Human(runtime) \o <<Reg!Skill>> /\ pc' = "add"
    BY <1>1, <1>3 DEF Reg!Continue
  <2>2. Made = Calls(plan) BY <1>1, <1>2 DEF Made, Calls
  <2>3. \A x \in Calls(plan) : Reg!Kind(x) \in Base BY <1>2, <1>3, <2>2 DEF RegIInv, PlanOK
  <2>4. /\ Distinct(plan') /\ Reg!Skill \in Calls(plan') /\ Len(plan') > Len(plan)
        /\ \A i \in 1 .. Len(plan) : plan'[i] = plan[i]
        /\ Reg!Send \in Calls(plan') => runtime.profile # "auto" /\ runtime.workflow
    BY <1>2, <2>1, <2>3, Extended
  <2>5. Len(plan') \in Nat BY <2>4, LenProperties DEF Distinct
  <2>6. plan' # <<>> /\ plan'[1] = Reg!Hook
    <3>1. 1 \in 1 .. Len(plan) BY <1>2
    <3>2. plan' # <<>> BY <1>2, <2>4, <2>5
    <3> QED BY <1>2, <2>4, <3>1, <3>2
  <2>7. Made' = Made BY <1>1, <1>2, <2>4 DEF Made
  <2>8. Reg!TypeOK' BY <1>1, <1>2, <2>1, <2>4, <2>5 DEF RegIInv, Reg!TypeOK
  <2>9. HandlesOK' BY <1>1, <2>7 DEF RegIInv, HandlesOK
  <2>10. PhaseOK' BY <1>1, <1>2, <2>1, <2>6, <2>7 DEF RegIInv, PhaseOK
  <2>11. GrantOK' BY <1>1, <2>1, <2>4 DEF RegIInv, GrantOK, Mailing
  <2> QED BY <2>4, <2>6, <2>8, <2>9, <2>10, <2>11 DEF RegIInv, PlanOK
<1>4. CASE ~(runtime.kind = "plugin" /\ Reg!Skill \notin regs)
  <2>1. pc' = "registered" /\ plan' = plan BY <1>1, <1>4 DEF Reg!Continue
  <2>2. Reg!TypeOK' BY <1>1, <2>1 DEF RegIInv, Reg!TypeOK
  <2> QED
    BY <1>1, <1>2, <2>1, <2>2
    DEF RegIInv, PlanOK, HandlesOK, Made, PhaseOK, GrantOK, Calls, Mailing
<1> QED BY <1>3, <1>4

LEMMA RefusedInv ==
  ASSUME RegIInv, NEW item, Reg!Refused(item)
  PROVE  RegIInv'
<1>1. /\ pc = "add" /\ pc' = "undo" /\ group' \in Reg!Helper \cup {None}
      /\ UNCHANGED <<current, allowed, same, cfg, runtime, plan, at, regs, silent, held, broke>>
  BY DEF Reg!Refused, Reg!decided
<1>2. held # {} => Reg!Hook \in held \cup silent
  <2> SUFFICES ASSUME held # {} PROVE Reg!Hook \in held \cup silent OBVIOUS
  <2>1. regs = Made /\ broke = {} /\ held \subseteq regs /\ plan # <<>>
    BY <1>1 DEF RegIInv, PhaseOK, Reg!TypeOK
  <2>2. plan[1] = Reg!Hook /\ at \in 1 .. Len(plan) + 1 /\ Len(plan) \in Nat
    BY <2>1, LenProperties DEF RegIInv, PlanOK, Reg!TypeOK, Distinct
  <2>3. PICK i \in 1 .. at - 1 : TRUE BY <2>1 DEF Made
  <2>4. 1 \in 1 .. at - 1 BY <2>2, <2>3
  <2>5. Reg!Hook \in regs BY <2>1, <2>2, <2>4 DEF Made
  <2> QED BY <2>1, <2>5 DEF RegIInv, HandlesOK
<1>3. Reg!TypeOK' BY <1>1 DEF RegIInv, Reg!TypeOK
<1> QED
  BY <1>1, <1>2, <1>3 DEF RegIInv, PlanOK, HandlesOK, Made, PhaseOK, GrantOK, Calls, Mailing

-----------------------------------------------------------------------------
(* Disposing *)

\* There is a newest handle, and the hook is it only when it is the last.
LEMMA NewestExists ==
  ASSUME RegIInv, held # {}
  PROVE  Reg!Newest(held) \in held /\ (Reg!Newest(held) = Reg!Hook => held = {Reg!Hook})
<1> DEFINE index == [i \in held |-> CHOOSE n \in 1 .. Len(plan) : plan[n] = i]
           rest == [i \in held |-> Len(plan) - index[i]]
           NoSooner(i, j) == \E m, n \in 1 .. Len(plan) : plan[m] = i /\ plan[n] = j /\ m >= n
<1>1. /\ Distinct(plan) /\ held \subseteq Made /\ at \in 1 .. Len(plan) + 1
      /\ Len(plan) \in Nat
  BY LenProperties DEF RegIInv, PlanOK, HandlesOK, Reg!TypeOK, Distinct
<1>2. \A i \in held : \E n \in 1 .. Len(plan) : plan[n] = i BY <1>1 DEF Made
<1>3. \A i \in held : index[i] \in 1 .. Len(plan) /\ plan[index[i]] = i BY <1>2
<1> HIDE DEF index
<1>4. rest \in [held -> Nat] BY <1>1, <1>3
<1>5. PICK i \in held : \A j \in held : rest[i] <= rest[j]
  <2> HIDE DEF rest
  <2> QED BY <1>4, Least
<1>6. \A j \in held : index[i] >= index[j] BY <1>1, <1>3, <1>5
<1>7. \A j \in held : NoSooner(i, j) BY <1>3, <1>6
<1>8. Reg!Newest(held) = CHOOSE k \in held : \A j \in held : NoSooner(k, j) BY DEF Reg!Newest
<1> HIDE DEF NoSooner
<1>9. Reg!Newest(held) \in held /\ \A j \in held : NoSooner(Reg!Newest(held), j) BY <1>7, <1>8
<1>10. ASSUME Reg!Newest(held) = Reg!Hook, NEW j \in held PROVE j = Reg!Hook
  <2>1. PICK m \in 1 .. Len(plan), n \in 1 .. Len(plan) :
          plan[m] = Reg!Hook /\ plan[n] = j /\ m >= n
    BY <1>9, <1>10 DEF NoSooner
  <2>2. plan[1] = Reg!Hook /\ 1 \in 1 .. Len(plan)
    BY <1>1, <2>1, EmptySeq DEF RegIInv, PlanOK, Distinct
  <2>3. m = 1 BY <1>1, <2>1, <2>2 DEF Distinct
  <2> QED BY <2>1, <2>2, <2>3
<1> QED BY <1>9, <1>10

LEMMA UndoInv ==
  ASSUME RegIInv, Reg!Dispose \/ Reg!DisposeRaises
  PROVE  RegIInv'
<1>1. /\ pc = "undo" /\ held # {}
      /\ UNCHANGED <<current, allowed, same, cfg, runtime, plan, at, silent>>
  BY DEF Reg!Dispose, Reg!DisposeRaises, Reg!decided
<1> DEFINE item == Reg!Newest(held)
<1>2. /\ item \in held /\ (item = Reg!Hook => held = {Reg!Hook}) /\ Reg!Hook \in held \cup silent
      /\ silent \subseteq regs /\ held \subseteq regs /\ held \cap silent = {}
  BY <1>1, NewestExists DEF RegIInv, PhaseOK, Reg!TypeOK, HandlesOK
<1> HIDE DEF item
<1>3. CASE Reg!Dispose
  <2>1. regs' = regs \ {item} /\ held' = held \ {item} /\ UNCHANGED <<pc, group, broke>>
    BY <1>3 DEF Reg!Dispose, item
  <2>2. held' # {} => Reg!Hook \in held' \cup silent' BY <1>1, <1>2, <2>1
  <2>3. Reg!TypeOK' BY <1>1, <1>2, <2>1 DEF RegIInv, Reg!TypeOK
  <2>4. HandlesOK' BY <1>1, <1>2, <2>1 DEF RegIInv, HandlesOK, Made
  <2> QED
    BY <1>1, <2>1, <2>2, <2>3, <2>4 DEF RegIInv, PlanOK, PhaseOK, GrantOK, Calls, Mailing
<1>4. CASE Reg!DisposeRaises /\ group # None /\ Reg!Kind(item) = group
  <2>1. /\ broke' = broke \cup {"helper"} /\ held' = {i \in held : Reg!Kind(i) # group}
        /\ group' = None /\ UNCHANGED <<pc, regs>>
    BY <1>4 DEF Reg!DisposeRaises, item
  <2>2. Reg!Kind(Reg!Hook) # group BY <1>4 DEF RegIInv, Reg!TypeOK, Reg!Helper, Reg!Kind, Reg!Hook
  <2>3. Reg!TypeOK' BY <1>1, <1>2, <2>1 DEF RegIInv, Reg!TypeOK
  <2>4. HandlesOK' BY <1>1, <1>2, <2>1 DEF RegIInv, HandlesOK, Made
  <2>5. PhaseOK' BY <1>1, <1>2, <2>1, <2>2 DEF RegIInv, PhaseOK
  <2> QED BY <1>1, <2>1, <2>3, <2>4, <2>5 DEF RegIInv, PlanOK, GrantOK, Calls, Mailing
<1>5. CASE Reg!DisposeRaises /\ ~(group # None /\ Reg!Kind(item) = group)
  <2>1. /\ broke' = broke \cup {"outer"} /\ held' = {} /\ group' = None /\ pc' = "failed"
        /\ regs' = regs
    BY <1>5 DEF Reg!DisposeRaises, item
  <2>2. Reg!TypeOK' BY <1>1, <1>2, <2>1 DEF RegIInv, Reg!TypeOK
  <2>3. HandlesOK' BY <1>1, <1>2, <2>1 DEF RegIInv, HandlesOK, Made
  <2>4. PhaseOK' BY <1>1, <1>2, <2>1 DEF RegIInv, PhaseOK
  <2> QED BY <1>1, <2>1, <2>2, <2>3, <2>4 DEF RegIInv, PlanOK, GrantOK, Calls, Mailing
<1> QED BY <1>3, <1>4, <1>5

LEMMA ClosedRuntime ==
  ASSUME NEW r \in Reg!Runtime
  PROVE  /\ Reg!Closed(r) \in Reg!Runtime /\ ~Reg!Closed(r).open /\ Reg!Closed(r).kind = r.kind
         /\ Reg!Closed(r).workflow = r.workflow /\ Reg!Closed(r).profile = r.profile
         /\ Reg!Closed(r).armed = r.armed
BY DEF Reg!Closed, Reg!Runtime

LEMMA CloseInv ==
  ASSUME RegIInv, Reg!Undone \/ Reg!Unload
  PROVE  RegIInv'
<1>1. /\ runtime' = Reg!Closed(runtime)
      /\ UNCHANGED <<current, allowed, same, cfg, plan, at, regs, silent, held, broke>>
      /\ runtime \in Reg!Runtime
  BY DEF Reg!Undone, Reg!Unload, Reg!decided, Reg!undone, RegIInv, Reg!TypeOK
<1>2. /\ runtime' \in Reg!Runtime /\ ~runtime'.open /\ runtime'.kind = runtime.kind
      /\ runtime'.workflow = runtime.workflow /\ runtime'.profile = runtime.profile
      /\ runtime'.armed = runtime.armed
  BY <1>1, ClosedRuntime
<1>3. \/ pc' = "failed" /\ held = {} /\ group' = None
      \/ pc' = pc /\ group' = group /\ Reg!Hook \in regs
  BY DEF Reg!Undone, Reg!Unload, Reg!undone
<1>4. Reg!TypeOK' BY <1>1, <1>2, <1>3 DEF RegIInv, Reg!TypeOK
<1>5. PlanOK' /\ HandlesOK' BY <1>1 DEF RegIInv, PlanOK, HandlesOK, Made, Calls
<1>6. PhaseOK' BY <1>1, <1>2, <1>3, <1>5 DEF RegIInv, PhaseOK, Made
<1>7. GrantOK' BY <1>1, <1>2, <1>3 DEF RegIInv, GrantOK, Calls, Reg!Allowed, Reg!Production
<1> QED BY <1>4, <1>5, <1>6, <1>7 DEF RegIInv

LEMMA RegInitInv == ASSUME Reg!Setting PROVE Reg!Init => RegIInv
<1> SUFFICES ASSUME Reg!Init PROVE RegIInv OBVIOUS
<1>1. cfg \in Reg!Config /\ current \in Profile \cup {"malformed"} BY DEF Reg!Init, Reg!Setting
<1>2. Reg!TypeOK
  <2>1. Len(<<>>) = 0 /\ 1 \in 1 .. Len(<<>>) + 1 OBVIOUS
  <2>2. runtime \in Reg!Runtime BY RuntimeTypes DEF Reg!Init
  <2> QED BY <1>1, <2>1, <2>2 DEF Reg!Init, Reg!TypeOK
<1>3. PlanOK BY Fixed DEF Reg!Init, PlanOK
<1>4. ~Reg!NoRuntime.open /\ ~Reg!NoRuntime.workflow BY RuntimeTypes
<1> QED
  BY <1>1, <1>2, <1>3, <1>4, Fixed DEF Reg!Init, RegIInv, HandlesOK, PhaseOK, GrantOK

LEMMA RegStepInv == ASSUME Reg!Setting PROVE RegIInv /\ [Reg!Next]_Reg!vars => RegIInv'
<1> SUFFICES ASSUME RegIInv, [Reg!Next]_Reg!vars PROVE RegIInv' OBVIOUS
<1>1. CASE Reg!Decide \/ Reg!Edit BY <1>1, DecideInv
<1>2. CASE Reg!Load BY <1>2, LoadInv
<1>3. CASE Reg!Continue BY <1>3, ContinueInv
<1>4. CASE Reg!Dispose \/ Reg!DisposeRaises BY <1>4, UndoInv
<1>5. CASE Reg!Undone \/ Reg!Unload BY <1>5, CloseInv
<1>6. ASSUME NEW item, Reg!Added(item) PROVE RegIInv' BY <1>6, AddedInv
<1>7. ASSUME NEW item, Reg!Refused(item) PROVE RegIInv' BY <1>7, RefusedInv
<1>8. CASE UNCHANGED Reg!vars
  BY <1>8
  DEF Reg!vars, RegIInv, Reg!TypeOK, PlanOK, HandlesOK, Made, PhaseOK, GrantOK, Calls, Mailing,
      Reg!Allowed
<1> QED BY <1>1, <1>2, <1>3, <1>4, <1>5, <1>6, <1>7, <1>8 DEF Reg!Next, Reg!Host

LEMMA RegSafety == ASSUME Reg!Setting PROVE Reg!Spec => []RegIInv
BY RegInitInv, RegStepInv, PTL DEF Reg!Spec

-----------------------------------------------------------------------------

\* However many tools there are and whichever host calls and disposals fail: a
\* registration that fails leaves nothing that was handed to it and no tool that is
\* offered, and a runtime that stays open can still be closed by the host.
THEOREM RegistrationInvariant == ASSUME Reg!Setting PROVE Reg!Spec => []RegistrationInv
<1>1. RegIInv => RegistrationInv
  <2> SUFFICES ASSUME RegIInv PROVE RegistrationInv OBVIOUS
  <2>1. Reg!RollbackComplete
    BY DEF RegIInv, HandlesOK, PhaseOK, Reg!TypeOK, Reg!RollbackComplete, Reg!Offered
  <2>2. Reg!OpenIsReachable
    <3> SUFFICES ASSUME pc = "registered" PROVE Reg!Hook \in regs
      BY DEF RegIInv, PhaseOK, Reg!OpenIsReachable
    <3>1. regs = Made /\ plan # <<>> /\ at = Len(plan) + 1 /\ plan[1] = Reg!Hook
      BY DEF RegIInv, PhaseOK, PlanOK
    <3>2. Len(plan) \in Nat /\ Len(plan) # 0
      BY <3>1, LenProperties, EmptySeq DEF RegIInv, PlanOK, Distinct
    <3>3. 1 \in 1 .. at - 1 BY <3>1, <3>2
    <3> QED BY <3>1, <3>3 DEF Made
  <2> QED BY <2>1, <2>2 DEF RegIInv, RegistrationInv, Reg!RegistrationInv
<1> QED BY <1>1, RegSafety, PTL

\* For all configurations.  Where the guard and the loader read the same file: mail,
\* stores and armed sending exist only under a configuration that names the active
\* profile.  Edited in between or not: the command that sends exists only where the
\* loaded configuration arms it under an explicit profile (evaluate_profile_policy and
\* the loader).
THEOREM MailNeedsProfile == ASSUME Reg!Setting PROVE Reg!Spec => []BoundToProfile
<1>1. RegIInv => BoundToProfile
  <2> SUFFICES ASSUME RegIInv PROVE BoundToProfile OBVIOUS
  <2>1. Made \subseteq Calls(plan)
    <3>1. at \in 1 .. Len(plan) + 1 /\ Len(plan) \in Nat
      BY LenProperties DEF RegIInv, Reg!TypeOK, PlanOK, Distinct
    <3>2. \A i \in 1 .. at - 1 : i \in 1 .. Len(plan) BY <3>1
    <3> QED BY <3>2 DEF Made, Calls
  <2> QED BY <2>1 DEF RegIInv, HandlesOK, GrantOK, Mailing, BoundToProfile, Reg!BoundToProfile
<1> QED BY <1>1, RegSafety, PTL
=============================================================================
