------------------------------ MODULE AuditLog ------------------------------
(***************************************************************************)
(* ContentMinimizedAuditStore: runtimes that append events to one shared,      *)
(* bounded database, and read the newest of them.  Unlike the observation      *)
(* ledger it reads the clock inside the transaction, prunes before it inserts, *)
(* never lets SQLite make a file, and remembers the file it used.              *)
(*                                                                         *)
(* A file is its (st_dev, st_ino), all that is remembered of it.  A store holds   *)
(* no descriptor between its calls, so a file made after one was removed may get   *)
(* that one's number, and is then continued like it.                              *)
(***************************************************************************)
EXTENDS Integers, FiniteSets

CONSTANTS
  Store,
  MaxEvents, Retention, Limit,
  MaxTime,  \* bound on the clock
  MaxFiles, \* bound on files ever made at the path, and on their numbers
  MaxId     \* bound on events per file

\* What the theorems assume of them.
Bounds ==
  /\ MaxTime \in Nat /\ MaxFiles \in Nat \ {0}
  /\ MaxEvents \in Nat \ {0} /\ Retention \in Nat \ {0} /\ Limit \in Nat \ {0}
  /\ MaxId \in Nat

VARIABLES
  clock,
  file,     \* the file at the path, 0 if there is none
  made,     \* files made so far
  schema,   \* "none", "earlier" or "ours": who has committed to the file
  events,   \* rows of the file: id and created_at
  lastId,   \* sqlite_sequence
  closed,   \* _closed
  identity, \* _identity, 0 until a file was used
  pc,
  expected, \* the file a call prepared, and is connected to
  read,     \* what a call of recent() found
  wrote     \* the numbers of the files a store has committed to (history)

vars == <<clock, file, made, schema, events, lastId, closed, identity, pc, expected, read, wrote>>
disk == <<file, made, schema, events, lastId>>

Time == 0 .. MaxTime
Event == [id : 1 .. MaxId, at : Time]

TypeOK ==
  /\ clock \in Time
  /\ file \in 0 .. MaxFiles /\ made \in 0 .. MaxFiles
  /\ schema \in {"none", "earlier", "ours"}
  /\ events \subseteq Event
  /\ lastId \in 0 .. MaxId
  /\ \A e \in events : e.id <= lastId
  /\ \A d, e \in events : d.id = e.id => d = e
  /\ closed \in [Store -> BOOLEAN]
  /\ identity \in [Store -> 0 .. MaxFiles]
  /\ pc \in [Store -> {"idle", "record", "recent", "insert", "select", "answer"}]
  /\ expected \in [Store -> 0 .. MaxFiles]
  /\ read \in [Store -> SUBSET Event]
  /\ wrote \in [Store -> SUBSET (1 .. MaxFiles)]

\* Nothing yet, or a file of an earlier version, which kept no identity, or of an
\* earlier configuration: with any rows, more than max_events allows now included.
Init ==
  /\ clock \in Time
  /\ \/ file = 0 /\ made = 0 /\ schema = "none" /\ events = {} /\ lastId = 0
     \/ /\ file = 1 /\ made = 1 /\ schema = "earlier"
        /\ lastId \in 0 .. MaxId
        /\ \E ids \in SUBSET (1 .. lastId) : \E at \in [ids -> Time] :
             events = {[id |-> i, at |-> at[i]] : i \in ids}
  /\ closed = [s \in Store |-> FALSE]
  /\ identity = [s \in Store |-> 0]
  /\ pc = [s \in Store |-> "idle"]
  /\ expected = [s \in Store |-> 0]
  /\ read = [s \in Store |-> {}]
  /\ wrote = [s \in Store |-> {}]

-----------------------------------------------------------------------------
(* Steps of a call.  Definitions named Bug... are slips a maintainer could     *)
(* make in the definition that follows them.                                  *)

Goto(s, next) == pc' = [pc EXCEPT ![s] = next]
End(s) == Goto(s, "idle") /\ expected' = [expected EXCEPT ![s] = 0]

\* Under the store's lock: record(), or recent().
Begin(s) ==
  /\ pc[s] = "idle" /\ ~closed[s]
  /\ \E call \in {"record", "recent"} : Goto(s, call)
  /\ UNCHANGED <<clock, disk, closed, identity, expected, read, wrote>>

\* The path's number is that of the file this store has used, or it has used none.
Known(s, found) == identity[s] \in {0, found}

\* _prepare_path(create=True)
PrepareToRecord(s) ==
  /\ pc[s] = "record"
  /\ \/ file # 0 /\ UNCHANGED disk
     \/ /\ file = 0 /\ made < MaxFiles
        /\ made' = made + 1 /\ file' \in 1 .. MaxFiles
        /\ schema' = "none" /\ events' = {} /\ lastId' = 0
  /\ \/ /\ Known(s, file')
        /\ identity' = [identity EXCEPT ![s] = file']
        /\ expected' = [expected EXCEPT ![s] = file']
        /\ Goto(s, "insert")
     \/ ~Known(s, file') /\ End(s) /\ UNCHANGED identity
  /\ UNCHANGED <<clock, closed, read, wrote>>

\* _prepare_path(create=False): a store that was never used answers with nothing.
PrepareToRead(s) ==
  /\ pc[s] = "recent"
  /\ \/ (file = 0 \/ ~Known(s, file)) /\ End(s) /\ UNCHANGED identity
     \/ /\ file # 0 /\ Known(s, file)
        /\ identity' = [identity EXCEPT ![s] = file]
        /\ expected' = [expected EXCEPT ![s] = file]
        /\ Goto(s, "select")
  /\ UNCHANGED <<clock, disk, closed, read, wrote>>

Cutoff == clock - Retention

Newest(list, n) == {e \in list : Cardinality({d \in list : d.id > e.id}) < n}

\* The room is made for the rows that are there.
BugPruned == Newest({e \in events : e.at >= Cutoff}, MaxEvents)

\* Room first, then retention, which may have made it already.
BugPrunedTwice == {e \in Newest(events, MaxEvents - 1) : e.at >= Cutoff}

\* Both DELETEs, ahead of the insert so that a full file can reuse its pages.
Pruned == Newest({e \in events : e.at >= Cutoff}, MaxEvents - 1)

NextId == lastId + 1

\* The transaction: schema made or adopted, pruned, inserted.  The connection
\* never makes a file, and the identity is checked once it stands.  A file that is
\* removed after that takes the transaction with it, out of sight, as it would if it
\* were removed behind the commit: so this is one step.
Insert(s) ==
  /\ pc[s] = "insert" /\ file = expected[s]
  /\ lastId < MaxId
  /\ schema' = "ours"
  /\ events' = Pruned \cup {[id |-> NextId, at |-> clock]}
  /\ lastId' = NextId
  /\ wrote' = [wrote EXCEPT ![s] = @ \cup {file}]
  /\ End(s)
  /\ UNCHANGED <<clock, file, made, closed, identity, read>>

AtMost(a, b) == IF a <= b THEN a ELSE b

Selected == Newest({e \in events : e.at >= Cutoff}, AtMost(Limit, MaxEvents))

\* The snapshot that recent() answers with; a file without a schema has nothing.
Select(s) ==
  /\ pc[s] = "select" /\ file = expected[s]
  /\ read' = [read EXCEPT ![s] = Selected]
  /\ Goto(s, "answer")
  /\ UNCHANGED <<clock, disk, closed, identity, expected, wrote>>

Answer(s) ==
  /\ pc[s] = "answer"
  /\ read' = [read EXCEPT ![s] = {}]
  /\ End(s)
  /\ UNCHANGED <<clock, disk, closed, identity, wrote>>

\* The file went before the connection was checked, or was busy, full or unsafe.
Fail(s) ==
  /\ pc[s] \notin {"idle", "answer"}
  /\ End(s)
  /\ UNCHANGED <<clock, disk, closed, identity, read, wrote>>

-----------------------------------------------------------------------------

\* close() waits for the lock that a call holds.
Close(s) ==
  /\ pc[s] = "idle" /\ ~closed[s]
  /\ closed' = [closed EXCEPT ![s] = TRUE]
  /\ UNCHANGED <<clock, disk, identity, pc, expected, read, wrote>>

\* The process ends anywhere and a new one builds a new store.
Restart(s) ==
  /\ closed' = [closed EXCEPT ![s] = FALSE]
  /\ identity' = [identity EXCEPT ![s] = 0]
  /\ wrote' = [wrote EXCEPT ![s] = {}]
  /\ read' = [read EXCEPT ![s] = {}]
  /\ End(s)
  /\ UNCHANGED <<clock, disk>>

\* The wall clock moves on, or is set.
Tick ==
  /\ clock' \in Time \ {clock}
  /\ UNCHANGED <<disk, closed, identity, pc, expected, read, wrote>>

\* An operator deletes the database.
Remove ==
  /\ file # 0
  /\ file' = 0 /\ schema' = "none" /\ events' = {} /\ lastId' = 0
  /\ UNCHANGED <<clock, made, closed, identity, pc, expected, read, wrote>>

Call(s) ==
  \/ Begin(s) \/ PrepareToRecord(s) \/ PrepareToRead(s)
  \/ Insert(s) \/ Select(s) \/ Answer(s) \/ Fail(s)

Next == Tick \/ Remove \/ \E s \in Store : Call(s) \/ Close(s) \/ Restart(s)

Spec == Init /\ [][Next]_vars

-----------------------------------------------------------------------------
(* Properties.  TablesProofs proves them. *)

\* From the first commit on the log holds no more than max_events rows, not even right
\* after an insert, whichever runtime wrote last, whatever the clock was set to and
\* however many rows an earlier version or configuration left (record, _verify_schema).
EventsBounded == schema # "earlier" => Cardinality(events) <= MaxEvents

\* While it lives, a runtime's events are all under one (st_dev, st_ino): a file of
\* another number that was put in its place is refused rather than continued, between
\* two calls and within one (_prepare_path, _verify_identity).
OneFile == \A s \in Store : Cardinality(wrote[s]) <= 1

\* recent() answers with no more than it was asked for, from what the log holds,
\* although another runtime prunes and inserts before and after its snapshot.
AnswersBounded == \A s \in Store : Cardinality(read[s]) <= AtMost(Limit, MaxEvents)

AuditInv == TypeOK /\ EventsBounded /\ OneFile /\ AnswersBounded

\* Nothing but age and a full log takes an event from it, the oldest first, and
\* what comes is newer than all that was there: clocks that were set back and
\* runtimes that interleave included (record's two DELETEs and its insert).
KeepsTheNewest ==
  [][file' = file /\ made' = made =>
       /\ \A d \in events \ events' :
            \/ d.at < Cutoff
            \/ /\ Cardinality(events') = MaxEvents
               /\ \A e \in events' : e.id > d.id
       /\ \A e \in events' \ events, d \in events : e.id > d.id]_vars
=============================================================================
