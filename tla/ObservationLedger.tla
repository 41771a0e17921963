------------------------- MODULE ObservationLedger -------------------------
(***************************************************************************)
(* SqliteObservationStore: several stores (runtimes, processes) that share one *)
(* database file and record which messages were seen, when and how often.  The *)
(* wall clock is read before the connection is made, and may jump; the file    *)
(* may be removed under the stores.                                            *)
(*                                                                         *)
(* A key is the table's primary key, numbered in its order.  A page is how     *)
(* often it names each key.  A file is its (st_dev, st_ino): once nothing holds  *)
(* a file that was removed, a new one may get its number.                       *)
(***************************************************************************)
EXTENDS Integers, FiniteSets

CONSTANTS
  Store, Keys,
  MaxObservations, Retention, MaxCount,
  MaxPage,   \* how often a page may name one key; _MAX_PAGE_MESSAGES bounds the whole page
  MaxTime,   \* bound on the clock
  MaxFiles   \* bound on files ever made at the path, and on their numbers

ASSUME BoundsAssumption ==
  /\ Keys \in Nat /\ MaxTime \in Nat /\ MaxFiles \in Nat /\ MaxPage \in Nat
  /\ MaxObservations \in Nat \ {0} /\ Retention \in Nat \ {0} /\ MaxCount \in Nat \ {0}

VARIABLES
  clock,
  file,    \* the file at the path, 0 if there is none
  made,    \* files made so far
  loose,   \* its permissions are refused
  schema,  \* whether it holds the ledger's schema
  rows,    \* its table
  closed,  \* _closed
  ready,   \* _initialized
  pc,
  now,     \* the clock as a call read it
  expected \* the file a call prepared, and is connected to

vars == <<clock, file, made, loose, schema, rows, closed, ready, pc, now, expected>>
disk == <<file, made, loose, schema, rows>>
memory == <<closed, ready>>

Key == 1 .. Keys
Time == 0 .. MaxTime
Row == [first : Time, last : Time, count : 1 .. MaxCount]

TypeOK ==
  /\ clock \in Time
  /\ file \in 0 .. MaxFiles /\ made \in 0 .. MaxFiles
  /\ loose \in BOOLEAN /\ schema \in BOOLEAN
  /\ DOMAIN rows \subseteq Key
  /\ \A k \in DOMAIN rows : rows[k] \in Row /\ rows[k].first <= rows[k].last
  /\ closed \in [Store -> BOOLEAN] /\ ready \in [Store -> BOOLEAN]
  /\ pc \in [Store -> {"idle", "prepare", "connect", "initialize", "commit"}]
  /\ now \in [Store -> Time]
  /\ expected \in [Store -> 0 .. MaxFiles]

NoRows == [k \in {} |-> {}]

Init ==
  /\ clock \in Time
  /\ file = 0 /\ made = 0
  /\ loose = FALSE /\ schema = FALSE
  /\ rows = NoRows
  /\ closed = [s \in Store |-> FALSE] /\ ready = [s \in Store |-> FALSE]
  /\ pc = [s \in Store |-> "idle"]
  /\ now = [s \in Store |-> 0]
  /\ expected = [s \in Store |-> 0]

-----------------------------------------------------------------------------
(* One call of observe_messages.  Definitions named Bug... are slips a         *)
(* maintainer could make in the definition that follows them.                  *)

Goto(s, next) == pc' = [pc EXCEPT ![s] = next]

\* A call that ends forgets what it read.
End(s) ==
  /\ Goto(s, "idle")
  /\ now' = [now EXCEPT ![s] = 0]
  /\ expected' = [expected EXCEPT ![s] = 0]

\* The lock is taken, the identifiers are checked, the clock is read.
Observe(s) ==
  /\ pc[s] = "idle" /\ ~closed[s]
  /\ now' = [now EXCEPT ![s] = clock]
  /\ Goto(s, "prepare")
  /\ UNCHANGED <<clock, disk, memory, expected>>

\* Files that are open; between its checks a call knows a file by number only.
Held == {expected[s] : s \in {t \in Store : pc[t] \in {"initialize", "commit"}}}

\* A new, empty file at the path.
Make(unsafe) ==
  /\ made < MaxFiles
  /\ made' = made + 1 /\ file' \in (1 .. MaxFiles) \ Held
  /\ loose' = unsafe
  /\ schema' = FALSE /\ rows' = NoRows

\* _prepare_private_path
Prepare(s) ==
  /\ pc[s] = "prepare"
  /\ \/ file = 0 /\ Make(FALSE)
     \/ file # 0 /\ ~loose /\ UNCHANGED disk
  /\ expected' = [expected EXCEPT ![s] = file']
  /\ Goto(s, "connect")
  /\ UNCHANGED <<clock, memory, now>>

\* sqlite3.connect, which makes a missing file with the process's umask, and the
\* comparison of identities after it.
Connect(s) ==
  /\ pc[s] = "connect"
  /\ \/ file # 0 /\ UNCHANGED disk
     \/ file = 0 /\ \E unsafe \in BOOLEAN : Make(unsafe)
  /\ \/ file' = expected[s] /\ Goto(s, "initialize") /\ UNCHANGED <<now, expected>>
     \/ file' # expected[s] /\ End(s)
  /\ UNCHANGED <<clock, memory>>

\* _initialize: the first time, an empty file gets the schema in an exclusive
\* transaction, and the store may fail to configure its connection after that; from
\* then on the schema must be there.  A file that has left the path keeps what it
\* has, out of sight.
Initialize(s) ==
  /\ pc[s] = "initialize"
  /\ \/ /\ ~ready[s] \/ schema \/ file # expected[s]
        /\ schema' = (schema \/ file = expected[s])
        /\ \/ /\ ready' = [ready EXCEPT ![s] = TRUE]
              /\ Goto(s, "commit") /\ UNCHANGED <<now, expected>>
           \/ End(s) /\ UNCHANGED ready
     \/ ready[s] /\ ~schema /\ End(s) /\ UNCHANGED <<schema, ready>>
  /\ UNCHANGED <<clock, file, made, loose, rows, closed>>

AtMost(a, b) == IF a <= b THEN a ELSE b
AtLeast(a, b) == IF a >= b THEN a ELSE b

\* The stored time is overwritten.
BugRecorded(page, at) ==
  [k \in DOMAIN rows \cup {j \in Key : page[j] > 0} |->
     IF k \notin DOMAIN rows THEN [first |-> at, last |-> at, count |-> AtMost(page[k], MaxCount)]
     ELSE IF page[k] = 0 THEN rows[k]
     ELSE [rows[k] EXCEPT !.last = at, !.count = AtMost(@ + page[k], MaxCount)]]

\* INSERT OR IGNORE, or else the UPDATE, for each message of the page.
Recorded(page, at) ==
  [k \in DOMAIN rows \cup {j \in Key : page[j] > 0} |->
     IF k \notin DOMAIN rows THEN [first |-> at, last |-> at, count |-> AtMost(page[k], MaxCount)]
     ELSE IF page[k] = 0 THEN rows[k]
     ELSE [rows[k] EXCEPT !.last = AtLeast(@, at), !.count = AtMost(@ + page[k], MaxCount)]]

\* ORDER BY last_seen_at DESC and then the key, DESC
Precedes(table, j, k) ==
  table[j].last > table[k].last \/ (table[j].last = table[k].last /\ j > k)

\* The table is ordered the other way round.
BugKept(table, at) ==
  LET fresh == {k \in DOMAIN table : table[k].last >= at - Retention} IN
  {k \in fresh : Cardinality({j \in fresh : Precedes(table, k, j)}) < MaxObservations}

\* One row too many is kept.
BugKeptOne(table, at) ==
  LET fresh == {k \in DOMAIN table : table[k].last >= at - Retention} IN
  {k \in fresh : Cardinality({j \in fresh : Precedes(table, j, k)}) <= MaxObservations}

\* _prune
Kept(table, at) ==
  LET fresh == {k \in DOMAIN table : table[k].last >= at - Retention} IN
  {k \in fresh : Cardinality({j \in fresh : Precedes(table, j, k)}) < MaxObservations}

\* The empty page too, which prunes.
Pages == [Key -> 0 .. MaxPage]

\* The transaction, into the file the call is connected to.
Commit(s) ==
  /\ pc[s] = "commit"
  /\ \E page \in Pages :
       LET table == Recorded(page, now[s]) IN
       rows' = IF file = expected[s] THEN [k \in Kept(table, now[s]) |-> table[k]] ELSE rows
  /\ End(s)
  /\ UNCHANGED <<clock, file, made, loose, schema, memory>>

\* A path that is refused, a database that is busy, full or unreadable.
Fail(s) ==
  /\ pc[s] # "idle"
  /\ End(s)
  /\ UNCHANGED <<clock, disk, memory>>

-----------------------------------------------------------------------------

\* close() waits for the lock that a call holds.
Close(s) ==
  /\ pc[s] = "idle" /\ ~closed[s]
  /\ closed' = [closed EXCEPT ![s] = TRUE]
  /\ UNCHANGED <<clock, disk, ready, pc, now, expected>>

\* The process ends anywhere and a new one builds a new store.
Restart(s) ==
  /\ closed' = [closed EXCEPT ![s] = FALSE]
  /\ ready' = [ready EXCEPT ![s] = FALSE]
  /\ End(s)
  /\ UNCHANGED <<clock, disk>>

\* The wall clock moves on, or is set.
Tick == clock' \in Time \ {clock} /\ UNCHANGED <<disk, memory, pc, now, expected>>

\* An operator deletes the database.
Remove ==
  /\ file # 0
  /\ file' = 0 /\ loose' = FALSE /\ schema' = FALSE /\ rows' = NoRows
  /\ UNCHANGED <<clock, made, memory, pc, now, expected>>

Call(s) == Observe(s) \/ Prepare(s) \/ Connect(s) \/ Initialize(s) \/ Commit(s) \/ Fail(s)

Next == Tick \/ Remove \/ \E s \in Store : Call(s) \/ Close(s) \/ Restart(s)

Spec == Init /\ [][Next]_vars

-----------------------------------------------------------------------------
(* Properties *)

\* The table never holds more than max_observations rows, whoever wrote last.
RowsBounded == Cardinality(DOMAIN rows) <= MaxObservations

\* While a row is kept, it remembers when its message was first seen, its last
\* time never goes back, and its count never drops: not for a call that waited
\* with an old time in hand, nor when the clock is set back.  And a store that has
\* had its ledger never starts an empty one in its place: a removed database is an
\* error until a store without it makes a new one.
HistoryKept ==
  [][/\ file' = file =>
          \A k \in DOMAIN rows \cap DOMAIN rows' :
            /\ rows'[k].first = rows[k].first
            /\ rows'[k].last >= rows[k].last
            /\ rows'[k].count >= rows[k].count
     /\ schema' /\ ~schema => \E s \in Store : ~ready[s] /\ pc[s] = "initialize"]_vars

\* A row is given up only if it had expired for some call's time, or for a full
\* table of rows seen no earlier than it.
GivesUpTheOldest ==
  [][file' = file =>
       \A k \in DOMAIN rows \ DOMAIN rows' :
         \/ \E s \in Store : pc[s] = "commit" /\ rows[k].last < now[s] - Retention
         \/ /\ Cardinality(DOMAIN rows') = MaxObservations
            /\ \A j \in DOMAIN rows' : rows'[j].last >= rows[k].last]_vars

\* What holds of every state of the table.
RowsInv == TypeOK /\ RowsBounded
=============================================================================
