--------------------------- MODULE SendLedgerProofs ---------------------------
(***************************************************************************)
(* Proofs about SendLedger, for every number of workers, stores,           *)
(* operations and candidates, any capacity and any number of faults.       *)
(*                                                                         *)
(* LedgerInv is inductive; one lemma per action says the action preserves  *)
(* it.  Each lemma first says what the action does to the rows, the lease, *)
(* the store and the job (its step <1>1), then argues from those effects.  *)
(*                                                                         *)
(* The second part shows that SendLedger implements SendAttempts: every    *)
(* step is an Intend, Submit, Decide or Abandon of the promise, or does    *)
(* not change what the promise speaks of.  The same case analysis shows    *)
(* that rows only advance.                                                 *)
(***************************************************************************)
EXTENDS SendLedger, TLAPS

USE NoneFresh, StoreOfType, FaultsNat

(* What the helpers that compute new rows return. *)

\* Recovery closes exactly the open rows.
LEMMA RecoveredRows ==
  ASSUME TypeOK
  PROVE  /\ Recovered \in [Op -> Row]
         /\ \A o \in Op :
              /\ Recovered[o].content = intent[o].content
              /\ Recovered[o].state # "dispatching"
              /\ intent[o].state = "dispatching" => Recovered[o].state = "delivery-unknown"
              /\ intent[o].state # "dispatching" => Recovered[o] = intent[o]
<1> DEFINE Rec(o) == [intent[o] EXCEPT !.state = "delivery-unknown", !.dispatcher = None]
<1>1. ASSUME NEW o \in Op
      PROVE  Rec(o) \in Row /\ Rec(o).content = intent[o].content /\ Rec(o).state = "delivery-unknown"
  <2>1. intent[o] \in Row
    BY DEF TypeOK
  <2> QED
    BY <2>1 DEF Row, State, Terminal
<1>2. \A o \in Op : Recovered[o] = IF intent[o].state = "dispatching" THEN Rec(o) ELSE intent[o]
  BY DEF Recovered
<1> HIDE DEF Rec
<1>3. Recovered \in [Op -> Row]
  BY <1>1 DEF Recovered, Rec, TypeOK
<1> QED
  BY <1>1, <1>2, <1>3

\* The rows begin works on differ from the durable ones at most by recovery.
LEMMA SeenRows ==
  ASSUME TypeOK, NEW w \in Worker
  PROVE  /\ Seen(w) \in [Op -> Row]
         /\ \A o \in Op :
              /\ Seen(w)[o].content = intent[o].content
              /\ \/ Seen(w)[o] = intent[o]
                 \/ /\ job[w].acquired
                    /\ intent[o].state = "dispatching"
                    /\ Seen(w)[o].state = "delivery-unknown"
              /\ job[w].acquired => Seen(w)[o].state # "dispatching"
         /\ ~job[w].acquired => Seen(w) = intent
<1>1. CASE job[w].acquired
  BY <1>1, RecoveredRows DEF Seen
<1>2. CASE ~job[w].acquired
  BY <1>2 DEF Seen, TypeOK
<1> QED
  BY <1>1, <1>2

\* begin inserts one open row and leaves no other open.
LEMMA InsertedRows ==
  ASSUME TypeOK, NEW w \in Worker, job[w].op \in Op, job[w].content \in Content,
         MayInsert(w)
  PROVE  /\ Inserted(w) \in [Op -> Row]
         /\ Inserted(w)[job[w].op] = [state |-> "dispatching", content |-> job[w].content,
                                      dispatcher |-> w]
         /\ \A o \in Op \ {job[w].op} :
              /\ Inserted(w)[o].content = intent[o].content
              /\ Inserted(w)[o].state # "dispatching"
              /\ \/ Inserted(w)[o] = intent[o]
                 \/ /\ intent[o].state = "dispatching"
                    /\ Inserted(w)[o].state = "delivery-unknown"
<1>1. [state |-> "dispatching", content |-> job[w].content, dispatcher |-> w] \in Row
  BY DEF Row, State
<1>2. Seen(w) \in [Op -> Row]
  BY SeenRows
<1>3. Inserted(w) \in [Op -> Row]
  BY <1>1, <1>2 DEF Inserted
<1>4. Inserted(w)[job[w].op] = [state |-> "dispatching", content |-> job[w].content,
                                dispatcher |-> w]
  BY <1>2 DEF Inserted
<1>5. \A o \in Op \ {job[w].op} : Inserted(w)[o] = Seen(w)[o]
  BY <1>2 DEF Inserted
<1> QED
  BY <1>3, <1>4, <1>5, SeenRows DEF MayInsert

\* finish changes the row it names, and only if it is open.
LEMMA FinishedRows ==
  ASSUME TypeOK, NEW o \in Op, NEW r \in Terminal
  PROVE  /\ Finished(o, r) \in [Op -> Row]
         /\ \A p \in Op \ {o} : Finished(o, r)[p] = intent[p]
         /\ Finished(o, r)[o].content = intent[o].content
         /\ intent[o].state = "dispatching" => Finished(o, r)[o].state = r
         /\ intent[o].state # "dispatching" => Finished(o, r) = intent
<1> DEFINE row == [intent[o] EXCEPT !.state = r, !.dispatcher = None]
<1>1. row \in Row /\ row.content = intent[o].content /\ row.state = r
  <2>1. intent[o] \in Row
    BY DEF TypeOK
  <2> QED
    BY <2>1 DEF Row, State
<1>2. CASE intent[o].state = "dispatching"
  <2>1. Finished(o, r) = [intent EXCEPT ![o] = row]
    BY <1>2 DEF Finished
  <2> QED
    BY <1>1, <1>2, <2>1 DEF TypeOK
<1>3. CASE intent[o].state # "dispatching"
  BY <1>3 DEF Finished, TypeOK
<1> QED
  BY <1>2, <1>3

(* Each action preserves the invariant. *)

\* The lease is free when a call acquires it, and its store was not dispatching.
LEMMA BeginLeaseInv ==
  ASSUME LedgerInv, NEW w \in Worker, NEW o \in Op, NEW c \in Content,
         BeginLease(w, o, c)
  PROVE  LedgerInv'
<1> DEFINE s == StoreOf[w]
           a == Mine(w).active = None /\ lease = None
           j == [pc |-> "insert", op |-> o, content |-> c, acquired |-> a, result |-> None]
<1>s. s \in Store /\ store[s] \in StoreState /\ Mine(w) = store[s]
  BY DEF LedgerInv, TypeOK, Mine
<1>0. a \in BOOLEAN /\ (a => store[s].active = None /\ lease = None)
  BY <1>s
<1>1. /\ job[w].pc = "idle" /\ Mine(w).mutex = None
      /\ job' = [job EXCEPT ![w] = j]
      /\ lease' = IF a THEN s ELSE lease
      /\ store' = [store EXCEPT ![s] = [store[s] EXCEPT !.mutex = w]]
      /\ UNCHANGED <<intent, attempts, accepted, told, faults>>
  BY DEF BeginLease, MutexFree
<1>2. TypeOK'
  <2>1. j \in Job
    BY <1>s, <1>0, <1>1 DEF LedgerInv, TypeOK, LeaseInv, Job, PC, Idle, Terminal
  <2>2. [store[s] EXCEPT !.mutex = w] \in StoreState
    BY <1>s, <1>0, <1>1 DEF LedgerInv, LeaseInv, StoreState, FreshStore
  <2> QED
    BY <1>s, <1>0, <1>1, <2>1, <2>2 DEF LedgerInv, TypeOK
<1> HIDE DEF a
<1>3. LeaseInv'
  BY <1>s, <1>0, <1>1 DEF LedgerInv, TypeOK, LeaseInv, LiveDispatchOwned, OwnsDispatch,
     Mine, Dispatching, Job, StoreState, Idle
<1>4. LiveDispatchOwned'
  BY <1>s, <1>0, <1>1 DEF LedgerInv, RowInv, TypeOK, LeaseInv, LiveDispatchOwned,
     OwnsDispatch, Mine, Dispatching, Job, StoreState, Idle
<1>5. RowInv'
  BY <1>s, <1>0, <1>1 DEF LedgerInv, TypeOK, RowInv, LeaseInv, LiveDispatchOwned,
     OwnsDispatch, Mine, Dispatching
<1>6. AttemptInv'
  BY <1>s, <1>0, <1>1 DEF LedgerInv, RowInv, AttemptInv, TypeOK, LeaseInv,
     LiveDispatchOwned, OwnsDispatch, Mine, Dispatching, Job, StoreState, Idle
<1>7. OutcomeHonest' /\ ReceiptsStand'
  BY <1>s, <1>0, <1>1 DEF LedgerInv, TypeOK, RowInv, AttemptInv, OutcomeHonest,
     ReceiptsStand, LeaseInv, LiveDispatchOwned, OwnsDispatch, Mine, Dispatching,
     Terminal
<1> QED
  BY <1>2, <1>3, <1>4, <1>5, <1>6, <1>7 DEF LedgerInv

\* As for begin; a query that does not get the lease goes on to read.
LEMMA GetLeaseInv ==
  ASSUME LedgerInv, NEW w \in Worker, NEW o \in Op,
         GetLease(w, o)
  PROVE  LedgerInv'
<1> DEFINE s == StoreOf[w]
           a == Mine(w).active = None /\ lease = None
           j == [pc |-> IF a THEN "recover" ELSE "read", op |-> o, content |-> None,
                 acquired |-> a, result |-> None]
<1>s. s \in Store /\ store[s] \in StoreState /\ Mine(w) = store[s]
  BY DEF LedgerInv, TypeOK, Mine
<1>0. a \in BOOLEAN /\ (a => store[s].active = None /\ lease = None)
  BY <1>s
<1>1. /\ job[w].pc = "idle" /\ Mine(w).mutex = None
      /\ job' = [job EXCEPT ![w] = j]
      /\ lease' = IF a THEN s ELSE lease
      /\ store' = IF a THEN [store EXCEPT ![s] = [store[s] EXCEPT !.mutex = w]] ELSE store
      /\ UNCHANGED <<intent, attempts, accepted, told, faults>>
  BY DEF GetLease, MutexFree, Idle
<1>2. TypeOK'
  <2>1. j \in Job
    BY <1>s, <1>0, <1>1 DEF LedgerInv, TypeOK, LeaseInv, Job, PC, Idle, Terminal
  <2>2. [store[s] EXCEPT !.mutex = w] \in StoreState
    BY <1>s, <1>0, <1>1 DEF LedgerInv, LeaseInv, StoreState, FreshStore
  <2> QED
    BY <1>s, <1>0, <1>1, <2>1, <2>2 DEF LedgerInv, TypeOK
<1> HIDE DEF a
<1>3. LeaseInv'
  BY <1>s, <1>0, <1>1 DEF LedgerInv, TypeOK, LeaseInv, LiveDispatchOwned, OwnsDispatch,
     Mine, Dispatching, Job, StoreState, Idle
<1>4. LiveDispatchOwned'
  BY <1>s, <1>0, <1>1 DEF LedgerInv, RowInv, TypeOK, LeaseInv, LiveDispatchOwned,
     OwnsDispatch, Mine, Dispatching, Job, StoreState, Idle
<1>5. RowInv'
  BY <1>s, <1>0, <1>1 DEF LedgerInv, TypeOK, RowInv, LeaseInv, LiveDispatchOwned,
     OwnsDispatch, Mine, Dispatching
<1>6. AttemptInv'
  BY <1>s, <1>0, <1>1 DEF LedgerInv, RowInv, AttemptInv, TypeOK, LeaseInv,
     LiveDispatchOwned, OwnsDispatch, Mine, Dispatching, Job, StoreState, Idle
<1>7. OutcomeHonest' /\ ReceiptsStand'
  BY <1>s, <1>0, <1>1 DEF LedgerInv, TypeOK, RowInv, AttemptInv, OutcomeHonest,
     ReceiptsStand, LeaseInv, LiveDispatchOwned, OwnsDispatch, Mine, Dispatching,
     Terminal
<1> QED
  BY <1>2, <1>3, <1>4, <1>5, <1>6, <1>7 DEF LedgerInv

\* A replay commits at most the recovery, and reports the row it leaves.
LEMMA BeginReplaysInv ==
  ASSUME LedgerInv, NEW w \in Worker,
         BeginReplays(w)
  PROVE  LedgerInv'
<1> DEFINE s == StoreOf[w]
<1>0. s \in Store /\ job[w] \in Job /\ store[s] \in StoreState /\ Mine(w) = store[s]
  BY DEF LedgerInv, TypeOK, Mine
<1>1. /\ job[w].pc = "insert"
      /\ job' = [job EXCEPT ![w] = Idle]
      /\ lease' = IF job[w].acquired THEN None ELSE lease
      /\ store' = [store EXCEPT ![s] = [store[s] EXCEPT !.mutex = None]]
      /\ intent' = Seen(w)
      /\ told' = [told EXCEPT ![job[w].op] = @ \cup ({Seen(w)[job[w].op].state} \cap Terminal)]
      /\ UNCHANGED <<attempts, accepted, faults>>
  BY DEF BeginReplays, DropLease, LeaveMutex, Return, Report
<1>2. TypeOK'
  <2>1. Idle \in Job
    BY <1>0, <1>1 DEF LedgerInv, TypeOK, LeaseInv, Job, PC, Idle, Terminal
  <2>2. [store[s] EXCEPT !.mutex = None] \in StoreState
    BY <1>0, <1>1 DEF LedgerInv, LeaseInv, StoreState, FreshStore
  <2> QED
    BY <1>0, <1>1, <2>1, <2>2, SeenRows DEF LedgerInv, TypeOK
<1>r. \A o \in Op :
        /\ intent'[o].content = intent[o].content
        /\ \/ intent'[o] = intent[o]
           \/ /\ intent[o].state = "dispatching" /\ job[w].acquired
              /\ intent'[o].state = "delivery-unknown"
  BY <1>0, <1>1, SeenRows DEF LedgerInv, LeaseInv
<1>3. LeaseInv'
  BY <1>0, <1>1, <1>r DEF LedgerInv, TypeOK, LeaseInv, LiveDispatchOwned, OwnsDispatch,
     Mine, Dispatching, Job, StoreState, Idle
<1>4. LiveDispatchOwned'
  BY <1>0, <1>1, <1>r DEF LedgerInv, RowInv, TypeOK, LeaseInv, LiveDispatchOwned,
     OwnsDispatch, Mine, Dispatching, Job, StoreState, Idle
<1>5. RowInv'
  BY <1>0, <1>1, <1>r DEF LedgerInv, TypeOK, RowInv, LeaseInv, LiveDispatchOwned,
     OwnsDispatch, Mine, Dispatching
<1>6. AttemptInv'
  BY <1>0, <1>1, <1>r DEF LedgerInv, RowInv, AttemptInv, TypeOK, LeaseInv,
     LiveDispatchOwned, OwnsDispatch, Mine, Dispatching, Job, StoreState, Idle
<1>7. OutcomeHonest' /\ ReceiptsStand'
  BY <1>0, <1>1, <1>r DEF LedgerInv, TypeOK, RowInv, AttemptInv, OutcomeHonest,
     ReceiptsStand, LeaseInv, LiveDispatchOwned, OwnsDispatch, Mine, Dispatching,
     Terminal
<1> QED
  BY <1>2, <1>3, <1>4, <1>5, <1>6, <1>7 DEF LedgerInv

\* A refusal changes no row.
LEMMA BeginRefusesInv ==
  ASSUME LedgerInv, NEW w \in Worker,
         BeginRefuses(w)
  PROVE  LedgerInv'
<1> DEFINE s == StoreOf[w]
<1>0. s \in Store /\ job[w] \in Job /\ store[s] \in StoreState /\ Mine(w) = store[s]
  BY DEF LedgerInv, TypeOK, Mine
<1>1. /\ job[w].pc = "insert"
      /\ job' = [job EXCEPT ![w] = Idle]
      /\ lease' = IF job[w].acquired THEN None ELSE lease
      /\ store' = [store EXCEPT ![s] = [store[s] EXCEPT !.mutex = None]]
      /\ UNCHANGED <<intent, attempts, accepted, told, faults>>
  BY DEF BeginRefuses, DropLease, LeaveMutex, Return
<1>2. TypeOK'
  <2>1. Idle \in Job
    BY <1>0, <1>1 DEF LedgerInv, TypeOK, LeaseInv, Job, PC, Idle, Terminal
  <2>2. [store[s] EXCEPT !.mutex = None] \in StoreState
    BY <1>0, <1>1 DEF LedgerInv, LeaseInv, StoreState, FreshStore
  <2> QED
    BY <1>0, <1>1, <2>1, <2>2 DEF LedgerInv, TypeOK
<1>3. LeaseInv'
  BY <1>0, <1>1 DEF LedgerInv, TypeOK, LeaseInv, LiveDispatchOwned, OwnsDispatch, Mine,
     Dispatching, Job, StoreState, Idle
<1>4. LiveDispatchOwned'
  BY <1>0, <1>1 DEF LedgerInv, RowInv, TypeOK, LeaseInv, LiveDispatchOwned,
     OwnsDispatch, Mine, Dispatching, Job, StoreState, Idle
<1>5. RowInv'
  BY <1>0, <1>1 DEF LedgerInv, TypeOK, RowInv, LeaseInv, LiveDispatchOwned,
     OwnsDispatch, Mine, Dispatching
<1>6. AttemptInv'
  BY <1>0, <1>1 DEF LedgerInv, RowInv, AttemptInv, TypeOK, LeaseInv, LiveDispatchOwned,
     OwnsDispatch, Mine, Dispatching, Job, StoreState, Idle
<1>7. OutcomeHonest' /\ ReceiptsStand'
  BY <1>0, <1>1 DEF LedgerInv, TypeOK, RowInv, AttemptInv, OutcomeHonest, ReceiptsStand,
     LeaseInv, LiveDispatchOwned, OwnsDispatch, Mine, Dispatching, Terminal
<1> QED
  BY <1>2, <1>3, <1>4, <1>5, <1>6, <1>7 DEF LedgerInv

\* The new row is the only open one, its operation was never transmitted and its
\* revision belongs to no other operation.
LEMMA BeginInsertsInv ==
  ASSUME LedgerInv, NEW w \in Worker,
         BeginInserts(w)
  PROVE  LedgerInv'
<1> DEFINE s == StoreOf[w]
<1>t. job[w].op \in Op /\ job[w].content \in Content /\ job[w].acquired
  BY DEF LedgerInv, LeaseInv, BeginInserts, MayInsert, Dispatching
<1>0. s \in Store /\ job[w] \in Job /\ store[s] \in StoreState /\ Mine(w) = store[s]
  BY DEF LedgerInv, TypeOK, Mine
<1>1. /\ job[w].pc = "insert" /\ MayInsert(w)
      /\ job' = [job EXCEPT ![w] = [job[w] EXCEPT !.pc = "verify", !.acquired = FALSE]]
      /\ store' = [store EXCEPT ![s] = [store[s] EXCEPT !.mutex = None, !.active = job[w].op, !.owner = w]]
      /\ intent' = Inserted(w)
      /\ UNCHANGED <<lease, attempts, accepted, told, faults>>
  BY DEF BeginInserts
<1>2. TypeOK'
  <2>1. [job[w] EXCEPT !.pc = "verify", !.acquired = FALSE] \in Job
    BY <1>0, <1>t, <1>1 DEF LedgerInv, TypeOK, LeaseInv, Job, PC, Idle, Terminal
  <2>2. [store[s] EXCEPT !.mutex = None, !.active = job[w].op, !.owner = w] \in StoreState
    BY <1>0, <1>t, <1>1 DEF LedgerInv, LeaseInv, StoreState, FreshStore
  <2> QED
    BY <1>0, <1>t, <1>1, <2>1, <2>2, InsertedRows DEF LedgerInv, TypeOK, LeaseInv,
       Dispatching
<1>r. /\ intent[job[w].op].content = None
      /\ intent'[job[w].op] = [state |-> "dispatching", content |-> job[w].content, dispatcher |-> w]
      /\ \A p \in Op \ {job[w].op} :
           /\ intent'[p].content = intent[p].content
           /\ intent'[p].state # "dispatching"
           /\ \/ intent'[p] = intent[p]
              \/ intent[p].state = "dispatching" /\ intent'[p].state = "delivery-unknown"
      /\ \A p \in Op : intent[p].content # None =>
           KeyOf[intent[p].content] # KeyOf[job[w].content]
  BY <1>0, <1>1, <1>t, InsertedRows DEF LedgerInv, LeaseInv, MayInsert, DuplicateRevision
<1>m. \A v \in Worker :
        /\ v # w => job'[v] = job[v]
        /\ job[v].pc \notin Dispatching
  BY <1>0, <1>t, <1>1 DEF LedgerInv, TypeOK, LeaseInv, LiveDispatchOwned, OwnsDispatch,
     Mine, Dispatching
<1>3. LeaseInv'
  BY <1>0, <1>1, <1>r DEF LedgerInv, TypeOK, LeaseInv, LiveDispatchOwned, OwnsDispatch,
     Mine, Dispatching, Job, StoreState, Idle
<1>4. LiveDispatchOwned'
  BY <1>0, <1>t, <1>1, <1>r, <1>m DEF LedgerInv, TypeOK, LeaseInv, LiveDispatchOwned,
     OwnsDispatch, Mine
<1>5. RowInv'
  BY <1>0, <1>1, <1>r DEF LedgerInv, TypeOK, RowInv, LeaseInv, LiveDispatchOwned,
     OwnsDispatch, Mine, Dispatching
<1>6. AttemptInv'
  BY <1>0, <1>t, <1>1, <1>r, <1>m DEF LedgerInv, TypeOK, RowInv, AttemptInv, Dispatching
<1>7. OutcomeHonest' /\ ReceiptsStand'
  BY <1>0, <1>t, <1>1, <1>r DEF LedgerInv, TypeOK, RowInv, OutcomeHonest, ReceiptsStand,
     Terminal
<1> QED
  BY <1>2, <1>3, <1>4, <1>5, <1>6, <1>7 DEF LedgerInv

\* Whatever a failing begin left durable, nobody dispatches it.
LEMMA BeginFailsInv ==
  ASSUME LedgerInv, NEW w \in Worker,
         BeginFails(w)
  PROVE  LedgerInv'
<1> DEFINE s == StoreOf[w]
<1>0. /\ s \in Store /\ job[w] \in Job /\ store[s] \in StoreState /\ Mine(w) = store[s]
      /\ job[w].op \in Op /\ job[w].content \in Content
  BY DEF LedgerInv, LeaseInv, TypeOK, Mine, BeginFails
<1>1. /\ job[w].pc = "insert" /\ faults < MaxFaults /\ faults' = faults + 1
      /\ job' = [job EXCEPT ![w] = Idle]
      /\ lease' = IF job[w].acquired THEN None ELSE lease
      /\ store' = [store EXCEPT ![s] = [store[s] EXCEPT !.mutex = None]]
      /\ \/ intent' = intent
         \/ MayInsert(w) /\ intent' = Inserted(w)
         \/ intent' = Seen(w)
      /\ UNCHANGED <<attempts, accepted, told>>
  BY DEF BeginFails, OneFault, DropLease, LeaveMutex, Return
<1>2. intent' \in [Op -> Row]
  <2>1. TypeOK /\ intent \in [Op -> Row]
    BY DEF LedgerInv, TypeOK
  <2>2. Seen(w) \in [Op -> Row]
    BY <2>1, SeenRows
  <2>3. MayInsert(w) => Inserted(w) \in [Op -> Row]
    BY <1>0, <2>1, InsertedRows
  <2> QED
    BY <1>1, <2>1, <2>2, <2>3
<1>3. TypeOK'
  <2>1. Idle \in Job
    BY DEF Job, PC, Idle
  <2>2. [store[s] EXCEPT !.mutex = None] \in StoreState
    BY <1>0 DEF StoreState
  <2> QED
    BY <1>0, <1>1, <1>2, <2>1, <2>2 DEF LedgerInv, TypeOK
<1>4. CASE intent' = intent \/ intent' = Seen(w)
  <2>1. \A o \in Op :
          /\ intent'[o].content = intent[o].content
          /\ \/ intent'[o] = intent[o]
             \/ /\ intent[o].state = "dispatching" /\ job[w].acquired
                /\ intent'[o].state = "delivery-unknown"
    BY <1>4, SeenRows DEF LedgerInv
  <2>2. LeaseInv'
    BY <1>0, <1>1 DEF LedgerInv, TypeOK, LeaseInv, LiveDispatchOwned, OwnsDispatch, Mine,
       Dispatching, Job, StoreState, Idle
  <2>3. LiveDispatchOwned'
    BY <1>0, <1>1, <2>1 DEF LedgerInv, TypeOK, LeaseInv, LiveDispatchOwned,
       OwnsDispatch, Mine,
       Dispatching, Job, StoreState, Idle
  <2>4. RowInv'
    BY <2>1 DEF LedgerInv, RowInv
  <2>5. AttemptInv' /\ OutcomeHonest' /\ ReceiptsStand'
    BY <1>0, <1>1, <2>1 DEF LedgerInv, TypeOK, RowInv, AttemptInv, OutcomeHonest,
       ReceiptsStand,
       Dispatching, Terminal, Idle
  <2> QED
    BY <1>3, <2>2, <2>3, <2>4, <2>5 DEF LedgerInv
<1>5. CASE MayInsert(w) /\ intent' = Inserted(w)
  <2>1. /\ job[w].acquired
        /\ intent[job[w].op].content = None
        /\ intent'[job[w].op] = [state |-> "dispatching", content |-> job[w].content,
                                 dispatcher |-> w]
        /\ \A p \in Op \ {job[w].op} :
             /\ intent'[p].content = intent[p].content
             /\ intent'[p].state # "dispatching"
             /\ \/ intent'[p] = intent[p]
                \/ intent[p].state = "dispatching" /\ intent'[p].state = "delivery-unknown"
        /\ \A p \in Op : intent[p].content # None =>
             KeyOf[intent[p].content] # KeyOf[job[w].content]
    BY <1>0, <1>5, InsertedRows DEF LedgerInv, MayInsert, DuplicateRevision
  <2>2. LeaseInv'
    BY <1>0, <1>1 DEF LedgerInv, TypeOK, LeaseInv, LiveDispatchOwned, OwnsDispatch, Mine,
       Dispatching, Job, StoreState, Idle
  <2>3. \A v \in Worker : job'[v].pc \notin Dispatching
    BY <1>0, <1>1, <2>1 DEF LedgerInv, TypeOK, LeaseInv, LiveDispatchOwned,
       OwnsDispatch, Mine,
       Dispatching, Idle
  <2>4. LiveDispatchOwned'
    BY <2>3 DEF LiveDispatchOwned
  <2>5. RowInv'
    BY <1>0, <2>1 DEF LedgerInv, RowInv
  <2>6. AttemptInv'
    BY <1>0, <1>1, <2>1, <2>3 DEF LedgerInv, TypeOK, RowInv, AttemptInv, Dispatching
  <2>7. OutcomeHonest' /\ ReceiptsStand'
    BY <1>0, <1>1, <2>1 DEF LedgerInv, TypeOK, RowInv, OutcomeHonest, ReceiptsStand,
       Terminal
  <2> QED
    BY <1>3, <2>2, <2>4, <2>5, <2>6, <2>7 DEF LedgerInv
<1> QED
  BY <1>1, <1>4, <1>5

\* The check before the transport changes nothing.
LEMMA VerifyDispatchInv ==
  ASSUME LedgerInv, NEW w \in Worker,
         VerifyDispatch(w)
  PROVE  LedgerInv'
<1> DEFINE s == StoreOf[w]
<1>0. s \in Store /\ job[w] \in Job /\ store[s] \in StoreState /\ Mine(w) = store[s]
  BY DEF LedgerInv, TypeOK, Mine
<1>1. /\ job[w].pc = "verify"
      /\ job' = [job EXCEPT ![w] = [job[w] EXCEPT !.pc = "submit"]]
      /\ UNCHANGED <<intent, lease, store, attempts, accepted, told, faults>>
  BY DEF VerifyDispatch, Goto
<1>2. TypeOK'
  <2>1. [job[w] EXCEPT !.pc = "submit"] \in Job
    BY <1>0, <1>1 DEF LedgerInv, TypeOK, LeaseInv, Job, PC, Idle, Terminal
  <2> QED
    BY <1>0, <1>1, <2>1 DEF LedgerInv, TypeOK
<1>3. LeaseInv'
  BY <1>0, <1>1 DEF LedgerInv, TypeOK, LeaseInv, LiveDispatchOwned, OwnsDispatch, Mine,
     Dispatching, Job, StoreState, Idle
<1>4. LiveDispatchOwned'
  BY <1>0, <1>1 DEF LedgerInv, TypeOK, LiveDispatchOwned, OwnsDispatch, Mine, Dispatching
<1>5. RowInv'
  BY <1>0, <1>1 DEF LedgerInv, TypeOK, RowInv, LeaseInv, LiveDispatchOwned,
     OwnsDispatch, Mine, Dispatching
<1>6. AttemptInv'
  BY <1>0, <1>1 DEF LedgerInv, RowInv, AttemptInv, TypeOK, LeaseInv, LiveDispatchOwned,
     OwnsDispatch, Mine, Dispatching, Job, StoreState, Idle
<1>7. OutcomeHonest' /\ ReceiptsStand'
  BY <1>0, <1>1 DEF LedgerInv, TypeOK, RowInv, AttemptInv, OutcomeHonest, ReceiptsStand,
     LeaseInv, LiveDispatchOwned, OwnsDispatch, Mine, Dispatching, Terminal
<1> QED
  BY <1>2, <1>3, <1>4, <1>5, <1>6, <1>7 DEF LedgerInv

\* A failed check gives the lease back and leaves the row open, undispatched.
LEMMA VerifyFailsInv ==
  ASSUME LedgerInv, NEW w \in Worker,
         VerifyFails(w)
  PROVE  LedgerInv'
<1> DEFINE s == StoreOf[w]
<1>0. s \in Store /\ job[w] \in Job /\ store[s] \in StoreState /\ Mine(w) = store[s]
  BY DEF LedgerInv, TypeOK, Mine
<1>1. /\ job[w].pc = "verify" /\ faults < MaxFaults /\ faults' = faults + 1
      /\ job' = [job EXCEPT ![w] = Idle]
      /\ lease' = None
      /\ store' = [store EXCEPT ![s] = [store[s] EXCEPT !.active = None, !.owner = None]]
      /\ UNCHANGED <<intent, attempts, accepted, told>>
  BY DEF VerifyFails, OneFault, ReleaseDispatch, Return
<1>2. TypeOK'
  <2>1. Idle \in Job
    BY <1>0, <1>1 DEF LedgerInv, TypeOK, LeaseInv, Job, PC, Idle, Terminal
  <2>2. [store[s] EXCEPT !.active = None, !.owner = None] \in StoreState
    BY <1>0, <1>1 DEF LedgerInv, LeaseInv, StoreState, FreshStore
  <2> QED
    BY <1>0, <1>1, <2>1, <2>2 DEF LedgerInv, TypeOK
<1>3. LeaseInv'
  BY <1>0, <1>1 DEF LedgerInv, TypeOK, LeaseInv, LiveDispatchOwned, OwnsDispatch, Mine,
     Dispatching, Job, StoreState, Idle
<1>4. LiveDispatchOwned'
  BY <1>0, <1>1 DEF LedgerInv, RowInv, TypeOK, LeaseInv, LiveDispatchOwned,
     OwnsDispatch, Mine, Dispatching, Job, StoreState, Idle
<1>5. RowInv'
  BY <1>0, <1>1 DEF LedgerInv, TypeOK, RowInv, LeaseInv, LiveDispatchOwned,
     OwnsDispatch, Mine, Dispatching
<1>6. AttemptInv'
  BY <1>0, <1>1 DEF LedgerInv, RowInv, AttemptInv, TypeOK, LeaseInv, LiveDispatchOwned,
     OwnsDispatch, Mine, Dispatching, Job, StoreState, Idle
<1>7. OutcomeHonest' /\ ReceiptsStand'
  BY <1>0, <1>1 DEF LedgerInv, TypeOK, RowInv, AttemptInv, OutcomeHonest, ReceiptsStand,
     LeaseInv, LiveDispatchOwned, OwnsDispatch, Mine, Dispatching, Terminal
<1> QED
  BY <1>2, <1>3, <1>4, <1>5, <1>6, <1>7 DEF LedgerInv

\* A submission that stops before DATA was taken by nobody.
LEMMA SubmitStopsInv ==
  ASSUME LedgerInv, NEW w \in Worker,
         SubmitStops(w)
  PROVE  LedgerInv'
<1> DEFINE s == StoreOf[w]
<1>0. s \in Store /\ job[w] \in Job /\ store[s] \in StoreState /\ Mine(w) = store[s]
  BY DEF LedgerInv, TypeOK, Mine
<1>1. PICK r \in {"definite-failure", "delivery-unknown"} :
        job' = [job EXCEPT ![w] = [job[w] EXCEPT !.pc = "finish", !.result = r]]
  BY DEF SubmitStops
<1>t. /\ job[w].pc = "submit" /\ r \in Terminal
      /\ UNCHANGED <<intent, lease, store, attempts, accepted, told, faults>>
  BY DEF SubmitStops, Terminal
<1>2. TypeOK'
  <2>1. [job[w] EXCEPT !.pc = "finish", !.result = r] \in Job
    BY <1>0, <1>t DEF Job, PC
  <2> QED
    BY <1>0, <1>1, <1>t, <2>1 DEF LedgerInv, TypeOK
<1>3. LeaseInv'
  BY <1>0, <1>1, <1>t DEF LedgerInv, TypeOK, LeaseInv, LiveDispatchOwned, OwnsDispatch,
     Mine, Dispatching, Job, StoreState, Idle
<1>4. LiveDispatchOwned'
  BY <1>0, <1>1, <1>t DEF LedgerInv, RowInv, TypeOK, LeaseInv, LiveDispatchOwned,
     OwnsDispatch, Mine, Dispatching, Job, StoreState, Idle
<1>5. RowInv'
  BY <1>0, <1>1, <1>t DEF LedgerInv, TypeOK, RowInv, LeaseInv, LiveDispatchOwned,
     OwnsDispatch, Mine, Dispatching
<1>6. AttemptInv'
  BY <1>0, <1>1, <1>t DEF LedgerInv, RowInv, AttemptInv, TypeOK, LeaseInv,
     LiveDispatchOwned, OwnsDispatch, Mine, Dispatching, Job, StoreState, Idle
<1>7. OutcomeHonest' /\ ReceiptsStand'
  BY <1>0, <1>1, <1>t DEF LedgerInv, TypeOK, RowInv, AttemptInv, OutcomeHonest,
     ReceiptsStand, LeaseInv, LiveDispatchOwned, OwnsDispatch, Mine, Dispatching,
     Terminal
<1> QED
  BY <1>2, <1>3, <1>4, <1>5, <1>6, <1>7 DEF LedgerInv

\* DATA is the first for its operation.
LEMMA SubmitDataInv ==
  ASSUME LedgerInv, NEW w \in Worker,
         SubmitData(w)
  PROVE  LedgerInv'
<1> DEFINE s == StoreOf[w]
<1>0. s \in Store /\ job[w] \in Job /\ store[s] \in StoreState /\ Mine(w) = store[s]
  BY DEF LedgerInv, TypeOK, Mine
<1>1. /\ job[w].pc = "submit"
      /\ job' = [job EXCEPT ![w] = [job[w] EXCEPT !.pc = "reply"]]
      /\ attempts' = [attempts EXCEPT ![job[w].op] = @ + 1]
      /\ \E taken \in BOOLEAN : accepted' = [accepted EXCEPT ![job[w].op] = @ \/ taken]
      /\ UNCHANGED <<intent, lease, store, told, faults>>
  BY DEF SubmitData, Goto
<1>2. TypeOK'
  <2>1. [job[w] EXCEPT !.pc = "reply"] \in Job
    BY <1>0, <1>1 DEF LedgerInv, TypeOK, LeaseInv, Job, PC, Idle, Terminal
  <2> QED
    BY <1>0, <1>1, <2>1 DEF LedgerInv, TypeOK, LeaseInv
<1>3. LeaseInv'
  BY <1>0, <1>1 DEF LedgerInv, TypeOK, LeaseInv, LiveDispatchOwned, OwnsDispatch, Mine,
     Dispatching, Job, StoreState, Idle
<1>4. LiveDispatchOwned'
  BY <1>0, <1>1 DEF LedgerInv, RowInv, TypeOK, LeaseInv, LiveDispatchOwned,
     OwnsDispatch, Mine, Dispatching, Job, StoreState, Idle
<1>5. RowInv'
  BY <1>0, <1>1 DEF LedgerInv, TypeOK, RowInv, LeaseInv, LiveDispatchOwned,
     OwnsDispatch, Mine, Dispatching
<1>6. AttemptInv'
  BY <1>0, <1>1 DEF LedgerInv, RowInv, AttemptInv, TypeOK, LeaseInv, LiveDispatchOwned,
     OwnsDispatch, Mine, Dispatching, Job, StoreState, Idle
<1>7. OutcomeHonest' /\ ReceiptsStand'
  BY <1>0, <1>1 DEF LedgerInv, TypeOK, RowInv, AttemptInv, OutcomeHonest, ReceiptsStand,
     LeaseInv, LiveDispatchOwned, OwnsDispatch, Mine, Dispatching, Terminal
<1> QED
  BY <1>2, <1>3, <1>4, <1>5, <1>6, <1>7 DEF LedgerInv

\* The reply classifies the server's decision, or admits not knowing it.
LEMMA SubmitRepliesInv ==
  ASSUME LedgerInv, NEW w \in Worker,
         SubmitReplies(w)
  PROVE  LedgerInv'
<1> DEFINE s == StoreOf[w]
<1>0. s \in Store /\ job[w] \in Job /\ store[s] \in StoreState /\ Mine(w) = store[s]
  BY DEF LedgerInv, TypeOK, Mine
<1>1. PICK r \in {"delivery-unknown", IF accepted[job[w].op] THEN "accepted" ELSE "definite-failure"} :
        job' = [job EXCEPT ![w] = [job[w] EXCEPT !.pc = "finish", !.result = r]]
  BY DEF SubmitReplies
<1>t. /\ job[w].pc = "reply" /\ r \in Terminal
      /\ UNCHANGED <<intent, lease, store, attempts, accepted, told, faults>>
  BY DEF SubmitReplies, Terminal
<1>2. TypeOK'
  <2>1. [job[w] EXCEPT !.pc = "finish", !.result = r] \in Job
    BY <1>0, <1>t DEF Job, PC
  <2> QED
    BY <1>0, <1>1, <1>t, <2>1 DEF LedgerInv, TypeOK
<1>3. LeaseInv'
  BY <1>0, <1>1, <1>t DEF LedgerInv, TypeOK, LeaseInv, LiveDispatchOwned, OwnsDispatch,
     Mine, Dispatching, Job, StoreState, Idle
<1>4. LiveDispatchOwned'
  BY <1>0, <1>1, <1>t DEF LedgerInv, RowInv, TypeOK, LeaseInv, LiveDispatchOwned,
     OwnsDispatch, Mine, Dispatching, Job, StoreState, Idle
<1>5. RowInv'
  BY <1>0, <1>1, <1>t DEF LedgerInv, TypeOK, RowInv, LeaseInv, LiveDispatchOwned,
     OwnsDispatch, Mine, Dispatching
<1>6. AttemptInv'
  BY <1>0, <1>1, <1>t DEF LedgerInv, RowInv, AttemptInv, TypeOK, LeaseInv,
     LiveDispatchOwned, OwnsDispatch, Mine, Dispatching, Job, StoreState, Idle
<1>7. OutcomeHonest' /\ ReceiptsStand'
  BY <1>0, <1>1, <1>t DEF LedgerInv, TypeOK, RowInv, AttemptInv, OutcomeHonest,
     ReceiptsStand, LeaseInv, LiveDispatchOwned, OwnsDispatch, Mine, Dispatching,
     Terminal
<1> QED
  BY <1>2, <1>3, <1>4, <1>5, <1>6, <1>7 DEF LedgerInv

\* finish closes the worker's own row with the transport's word on it.
LEMMA FinishInv ==
  ASSUME LedgerInv, NEW w \in Worker,
         Finish(w)
  PROVE  LedgerInv'
<1> DEFINE s == StoreOf[w]
<1>t. /\ job[w].op \in Op /\ job[w].result \in Terminal
      /\ intent[job[w].op].state = "dispatching"
  BY DEF LedgerInv, LeaseInv, AttemptInv, LiveDispatchOwned, Dispatching, Finish
<1>0. s \in Store /\ job[w] \in Job /\ store[s] \in StoreState /\ Mine(w) = store[s]
  BY DEF LedgerInv, TypeOK, Mine
<1>1. /\ job[w].pc = "finish"
      /\ job' = [job EXCEPT ![w] = Idle]
      /\ lease' = None
      /\ store' = [store EXCEPT ![s] = [store[s] EXCEPT !.active = None, !.owner = None]]
      /\ intent' = Finished(job[w].op, job[w].result)
      /\ told' = [told EXCEPT ![job[w].op] = @ \cup
                               ({Finished(job[w].op, job[w].result)[job[w].op].state} \cap Terminal)]
      /\ UNCHANGED <<attempts, accepted, faults>>
  BY DEF Finish, ReleaseDispatch, Return, Report
<1>2. TypeOK'
  <2>1. Idle \in Job
    BY <1>0, <1>t, <1>1 DEF LedgerInv, TypeOK, LeaseInv, Job, PC, Idle, Terminal
  <2>2. [store[s] EXCEPT !.active = None, !.owner = None] \in StoreState
    BY <1>0, <1>t, <1>1 DEF LedgerInv, LeaseInv, StoreState, FreshStore
  <2> QED
    BY <1>0, <1>t, <1>1, <2>1, <2>2, FinishedRows DEF LedgerInv, TypeOK, LeaseInv,
       AttemptInv
<1>r. /\ \A p \in Op \ {job[w].op} : intent'[p] = intent[p]
      /\ intent'[job[w].op].content = intent[job[w].op].content
      /\ intent'[job[w].op].state = job[w].result
  BY <1>0, <1>1, <1>t, FinishedRows DEF LedgerInv, LeaseInv
<1>3. LeaseInv'
  BY <1>0, <1>t, <1>1, <1>r DEF LedgerInv, TypeOK, LeaseInv, LiveDispatchOwned,
     OwnsDispatch, Mine, Dispatching, Job, StoreState, Idle
<1>4. LiveDispatchOwned'
  BY <1>0, <1>t, <1>1, <1>r DEF LedgerInv, RowInv, TypeOK, LeaseInv, LiveDispatchOwned,
     OwnsDispatch, Mine, Dispatching, Job, StoreState, Idle
<1>5. RowInv'
  BY <1>0, <1>t, <1>1, <1>r DEF LedgerInv, TypeOK, RowInv, Terminal
<1>6. AttemptInv'
  BY <1>0, <1>t, <1>1, <1>r DEF LedgerInv, TypeOK, AttemptInv, Terminal, Idle
<1>7. OutcomeHonest' /\ ReceiptsStand'
  BY <1>0, <1>t, <1>1, <1>r DEF LedgerInv, TypeOK, RowInv, AttemptInv, OutcomeHonest,
     ReceiptsStand, LeaseInv, LiveDispatchOwned, OwnsDispatch, Mine, Dispatching,
     Terminal
<1> QED
  BY <1>2, <1>3, <1>4, <1>5, <1>6, <1>7 DEF LedgerInv

\* A finish that raises closed the row or left it open, and releases.
LEMMA FinishFailsInv ==
  ASSUME LedgerInv, NEW w \in Worker,
         FinishFails(w)
  PROVE  LedgerInv'
<1> DEFINE s == StoreOf[w]
<1>t. /\ job[w].op \in Op /\ job[w].result \in Terminal
      /\ intent[job[w].op].state = "dispatching"
  BY DEF LedgerInv, LeaseInv, AttemptInv, LiveDispatchOwned, Dispatching, FinishFails
<1>0. s \in Store /\ job[w] \in Job /\ store[s] \in StoreState /\ Mine(w) = store[s]
  BY DEF LedgerInv, TypeOK, Mine
<1>1. /\ job[w].pc = "finish" /\ faults < MaxFaults /\ faults' = faults + 1
      /\ job' = [job EXCEPT ![w] = Idle]
      /\ lease' = None
      /\ store' = [store EXCEPT ![s] = [store[s] EXCEPT !.active = None, !.owner = None]]
      /\ intent' = intent \/ intent' = Finished(job[w].op, job[w].result)
      /\ UNCHANGED <<attempts, accepted, told>>
  BY DEF FinishFails, OneFault, ReleaseDispatch, Return
<1>2. TypeOK'
  <2>1. Idle \in Job
    BY <1>0, <1>t, <1>1 DEF LedgerInv, TypeOK, LeaseInv, Job, PC, Idle, Terminal
  <2>2. [store[s] EXCEPT !.active = None, !.owner = None] \in StoreState
    BY <1>0, <1>t, <1>1 DEF LedgerInv, LeaseInv, StoreState, FreshStore
  <2> QED
    BY <1>0, <1>t, <1>1, <2>1, <2>2, FinishedRows DEF LedgerInv, TypeOK, LeaseInv,
       AttemptInv
<1>r. /\ \A p \in Op \ {job[w].op} : intent'[p] = intent[p]
      /\ intent'[job[w].op].content = intent[job[w].op].content
      /\ intent'[job[w].op] = intent[job[w].op] \/ intent'[job[w].op].state = job[w].result
  BY <1>0, <1>1, <1>t, FinishedRows DEF LedgerInv, LeaseInv
<1>3. LeaseInv'
  BY <1>0, <1>t, <1>1, <1>r DEF LedgerInv, TypeOK, LeaseInv, LiveDispatchOwned,
     OwnsDispatch, Mine, Dispatching, Job, StoreState, Idle
<1>4. LiveDispatchOwned'
  BY <1>0, <1>t, <1>1, <1>r DEF LedgerInv, RowInv, TypeOK, LeaseInv, LiveDispatchOwned,
     OwnsDispatch, Mine, Dispatching, Job, StoreState, Idle
<1>5. RowInv'
  BY <1>0, <1>t, <1>1, <1>r DEF LedgerInv, TypeOK, RowInv, Terminal
<1>6. AttemptInv'
  BY <1>0, <1>t, <1>1, <1>r DEF LedgerInv, TypeOK, AttemptInv, Terminal, Idle
<1>7. OutcomeHonest' /\ ReceiptsStand'
  BY <1>0, <1>t, <1>1, <1>r DEF LedgerInv, TypeOK, RowInv, AttemptInv, OutcomeHonest,
     ReceiptsStand, LeaseInv, LiveDispatchOwned, OwnsDispatch, Mine, Dispatching,
     Terminal
<1> QED
  BY <1>2, <1>3, <1>4, <1>5, <1>6, <1>7 DEF LedgerInv

\* A thread that is not dispatching owns no open row, so its finish is a replay.
LEMMA FinishElsewhereReplays ==
  ASSUME LedgerInv, NEW w \in Worker, NEW o \in Op, NEW r \in Terminal,
         FinishElsewhere(w, o, r)
  PROVE  intent[o].state # "dispatching"
  BY DEF FinishElsewhere, OwnsDispatch, LedgerInv, LeaseInv, LiveDispatchOwned, Mine,
         RowInv, TypeOK, Dispatching

\* Such a finish reports the row as it is.
LEMMA FinishElsewhereInv ==
  ASSUME LedgerInv, NEW w \in Worker, NEW o \in Op, NEW r \in Terminal,
         FinishElsewhere(w, o, r)
  PROVE  LedgerInv'
<1>1. intent[o].state # "dispatching"
  BY FinishElsewhereReplays
<1>2. /\ intent' = intent
      /\ told' = [told EXCEPT ![o] = @ \cup ({intent[o].state} \cap Terminal)]
      /\ UNCHANGED <<lease, store, job, attempts, accepted, faults>>
  BY <1>1, FinishedRows DEF FinishElsewhere, Report, LedgerInv
<1>3. TypeOK' /\ ReceiptsStand'
  BY <1>2 DEF LedgerInv, TypeOK, ReceiptsStand
<1> QED
  BY <1>2, <1>3 DEF LedgerInv, LeaseInv, LiveDispatchOwned, OwnsDispatch, Mine, RowInv,
     AttemptInv, OutcomeHonest

\* Recovery holds the lease, so every open row it closes is an orphan.
LEMMA RecoverCommitsInv ==
  ASSUME LedgerInv, NEW w \in Worker,
         RecoverCommits(w)
  PROVE  LedgerInv'
<1> DEFINE s == StoreOf[w]
<1>0. s \in Store /\ job[w] \in Job /\ store[s] \in StoreState /\ Mine(w) = store[s]
  BY DEF LedgerInv, TypeOK, Mine
<1>1. /\ job[w].pc = "recover"
      /\ job' = [job EXCEPT ![w] = [job[w] EXCEPT !.pc = "read", !.acquired = FALSE]]
      /\ lease' = IF job[w].acquired THEN None ELSE lease
      /\ store' = [store EXCEPT ![s] = [store[s] EXCEPT !.mutex = None]]
      /\ intent' = Recovered
      /\ UNCHANGED <<attempts, accepted, told, faults>>
  BY DEF RecoverCommits, DropLease, LeaveMutex
<1>2. TypeOK'
  <2>1. [job[w] EXCEPT !.pc = "read", !.acquired = FALSE] \in Job
    BY <1>0, <1>1 DEF LedgerInv, TypeOK, LeaseInv, Job, PC, Idle, Terminal
  <2>2. [store[s] EXCEPT !.mutex = None] \in StoreState
    BY <1>0, <1>1 DEF LedgerInv, LeaseInv, StoreState, FreshStore
  <2> QED
    BY <1>0, <1>1, <2>1, <2>2, RecoveredRows DEF LedgerInv, TypeOK
<1>r. \A o \in Op :
        /\ intent'[o].content = intent[o].content
        /\ \/ intent'[o] = intent[o]
           \/ /\ intent[o].state = "dispatching" /\ job[w].acquired
              /\ intent'[o].state = "delivery-unknown"
  BY <1>0, <1>1, RecoveredRows DEF LedgerInv, LeaseInv
<1>3. LeaseInv'
  BY <1>0, <1>1, <1>r DEF LedgerInv, TypeOK, LeaseInv, LiveDispatchOwned, OwnsDispatch,
     Mine, Dispatching, Job, StoreState, Idle
<1>4. LiveDispatchOwned'
  BY <1>0, <1>1, <1>r DEF LedgerInv, RowInv, TypeOK, LeaseInv, LiveDispatchOwned,
     OwnsDispatch, Mine, Dispatching, Job, StoreState, Idle
<1>5. RowInv'
  BY <1>0, <1>1, <1>r DEF LedgerInv, TypeOK, RowInv, LeaseInv, LiveDispatchOwned,
     OwnsDispatch, Mine, Dispatching
<1>6. AttemptInv'
  BY <1>0, <1>1, <1>r DEF LedgerInv, TypeOK, AttemptInv, Idle
<1>7. OutcomeHonest' /\ ReceiptsStand'
  BY <1>0, <1>1, <1>r DEF LedgerInv, TypeOK, RowInv, AttemptInv, OutcomeHonest,
     ReceiptsStand, LeaseInv, LiveDispatchOwned, OwnsDispatch, Mine, Dispatching,
     Terminal
<1> QED
  BY <1>2, <1>3, <1>4, <1>5, <1>6, <1>7 DEF LedgerInv

\* A failing recovery closed the orphans or did not, and gives the lease back.
LEMMA RecoverFailsInv ==
  ASSUME LedgerInv, NEW w \in Worker,
         RecoverFails(w)
  PROVE  LedgerInv'
<1> DEFINE s == StoreOf[w]
<1>0. s \in Store /\ job[w] \in Job /\ store[s] \in StoreState /\ Mine(w) = store[s]
  BY DEF LedgerInv, TypeOK, Mine
<1>1. /\ job[w].pc = "recover" /\ faults < MaxFaults /\ faults' = faults + 1
      /\ job' = [job EXCEPT ![w] = Idle]
      /\ lease' = IF job[w].acquired THEN None ELSE lease
      /\ store' = [store EXCEPT ![s] = [store[s] EXCEPT !.mutex = None]]
      /\ intent' = intent \/ intent' = Recovered
      /\ UNCHANGED <<attempts, accepted, told>>
  BY DEF RecoverFails, OneFault, DropLease, LeaveMutex, Return
<1>2. TypeOK'
  <2>1. Idle \in Job
    BY <1>0, <1>1 DEF LedgerInv, TypeOK, LeaseInv, Job, PC, Idle, Terminal
  <2>2. [store[s] EXCEPT !.mutex = None] \in StoreState
    BY <1>0, <1>1 DEF LedgerInv, LeaseInv, StoreState, FreshStore
  <2> QED
    BY <1>0, <1>1, <2>1, <2>2, RecoveredRows DEF LedgerInv, TypeOK
<1>r. \A o \in Op :
        /\ intent'[o].content = intent[o].content
        /\ \/ intent'[o] = intent[o]
           \/ /\ intent[o].state = "dispatching" /\ job[w].acquired
              /\ intent'[o].state = "delivery-unknown"
  BY <1>0, <1>1, RecoveredRows DEF LedgerInv, LeaseInv
<1>3. LeaseInv'
  BY <1>0, <1>1, <1>r DEF LedgerInv, TypeOK, LeaseInv, LiveDispatchOwned, OwnsDispatch,
     Mine, Dispatching, Job, StoreState, Idle
<1>4. LiveDispatchOwned'
  BY <1>0, <1>1, <1>r DEF LedgerInv, RowInv, TypeOK, LeaseInv, LiveDispatchOwned,
     OwnsDispatch, Mine, Dispatching, Job, StoreState, Idle
<1>5. RowInv'
  BY <1>0, <1>1, <1>r DEF LedgerInv, TypeOK, RowInv, LeaseInv, LiveDispatchOwned,
     OwnsDispatch, Mine, Dispatching
<1>6. AttemptInv'
  BY <1>0, <1>1, <1>r DEF LedgerInv, TypeOK, AttemptInv, Idle
<1>7. OutcomeHonest' /\ ReceiptsStand'
  BY <1>0, <1>1, <1>r DEF LedgerInv, TypeOK, RowInv, AttemptInv, OutcomeHonest,
     ReceiptsStand, LeaseInv, LiveDispatchOwned, OwnsDispatch, Mine, Dispatching,
     Terminal
<1> QED
  BY <1>2, <1>3, <1>4, <1>5, <1>6, <1>7 DEF LedgerInv

\* A read reports the row as it is.
LEMMA ReadInv ==
  ASSUME LedgerInv, NEW w \in Worker,
         Read(w)
  PROVE  LedgerInv'
<1> DEFINE s == StoreOf[w]
<1>0. s \in Store /\ job[w] \in Job /\ store[s] \in StoreState /\ Mine(w) = store[s]
  BY DEF LedgerInv, TypeOK, Mine
<1>1. /\ job[w].pc = "read"
      /\ job' = [job EXCEPT ![w] = Idle]
      /\ told' = [told EXCEPT ![job[w].op] = @ \cup ({intent[job[w].op].state} \cap Terminal)]
      /\ UNCHANGED <<intent, lease, store, attempts, accepted, faults>>
  BY DEF Read, Return, Report
<1>2. TypeOK'
  <2>1. Idle \in Job
    BY <1>0, <1>1 DEF LedgerInv, TypeOK, LeaseInv, Job, PC, Idle, Terminal
  <2> QED
    BY <1>0, <1>1, <2>1 DEF LedgerInv, TypeOK
<1>3. LeaseInv'
  BY <1>0, <1>1 DEF LedgerInv, TypeOK, LeaseInv, LiveDispatchOwned, OwnsDispatch, Mine,
     Dispatching, Job, StoreState, Idle
<1>4. LiveDispatchOwned'
  BY <1>0, <1>1 DEF LedgerInv, RowInv, TypeOK, LeaseInv, LiveDispatchOwned,
     OwnsDispatch, Mine, Dispatching, Job, StoreState, Idle
<1>5. RowInv'
  BY <1>0, <1>1 DEF LedgerInv, TypeOK, RowInv, LeaseInv, LiveDispatchOwned,
     OwnsDispatch, Mine, Dispatching
<1>6. AttemptInv'
  BY <1>0, <1>1 DEF LedgerInv, RowInv, AttemptInv, TypeOK, LeaseInv, LiveDispatchOwned,
     OwnsDispatch, Mine, Dispatching, Job, StoreState, Idle
<1>7. OutcomeHonest' /\ ReceiptsStand'
  BY <1>0, <1>1 DEF LedgerInv, TypeOK, RowInv, AttemptInv, OutcomeHonest, ReceiptsStand,
     LeaseInv, LiveDispatchOwned, OwnsDispatch, Mine, Dispatching, Terminal
<1> QED
  BY <1>2, <1>3, <1>4, <1>5, <1>6, <1>7 DEF LedgerInv

\* A read that raises changes nothing.
LEMMA ReadRaisesInv ==
  ASSUME LedgerInv, NEW w \in Worker,
         ReadRaises(w)
  PROVE  LedgerInv'
<1> DEFINE s == StoreOf[w]
<1>0. s \in Store /\ job[w] \in Job /\ store[s] \in StoreState /\ Mine(w) = store[s]
  BY DEF LedgerInv, TypeOK, Mine
<1>1. /\ job[w].pc = "read" /\ faults' \in 0 .. MaxFaults
      /\ job' = [job EXCEPT ![w] = Idle]
      /\ UNCHANGED <<intent, lease, store, attempts, accepted, told>>
  BY DEF ReadRaises, OneFault, Return, LedgerInv, TypeOK
<1>2. TypeOK'
  <2>1. Idle \in Job
    BY <1>0, <1>1 DEF LedgerInv, TypeOK, LeaseInv, Job, PC, Idle, Terminal
  <2> QED
    BY <1>0, <1>1, <2>1 DEF LedgerInv, TypeOK
<1>3. LeaseInv'
  BY <1>0, <1>1 DEF LedgerInv, TypeOK, LeaseInv, LiveDispatchOwned, OwnsDispatch, Mine,
     Dispatching, Job, StoreState, Idle
<1>4. LiveDispatchOwned'
  BY <1>0, <1>1 DEF LedgerInv, RowInv, TypeOK, LeaseInv, LiveDispatchOwned,
     OwnsDispatch, Mine, Dispatching, Job, StoreState, Idle
<1>5. RowInv'
  BY <1>0, <1>1 DEF LedgerInv, TypeOK, RowInv, LeaseInv, LiveDispatchOwned,
     OwnsDispatch, Mine, Dispatching
<1>6. AttemptInv'
  BY <1>0, <1>1 DEF LedgerInv, RowInv, AttemptInv, TypeOK, LeaseInv, LiveDispatchOwned,
     OwnsDispatch, Mine, Dispatching, Job, StoreState, Idle
<1>7. OutcomeHonest' /\ ReceiptsStand'
  BY <1>0, <1>1 DEF LedgerInv, TypeOK, RowInv, AttemptInv, OutcomeHonest, ReceiptsStand,
     LeaseInv, LiveDispatchOwned, OwnsDispatch, Mine, Dispatching, Terminal
<1> QED
  BY <1>2, <1>3, <1>4, <1>5, <1>6, <1>7 DEF LedgerInv

\* A store that is closed was not dispatching.
LEMMA CloseInv ==
  ASSUME LedgerInv, NEW s \in Store,
         Close(s)
  PROVE  LedgerInv'
<1>0. store[s] \in StoreState
  BY DEF LedgerInv, TypeOK
<1>1. /\ store[s].mutex = None /\ store[s].active = None
      /\ store' = [store EXCEPT ![s] = [store[s] EXCEPT !.closed = TRUE]]
      /\ UNCHANGED <<intent, lease, job, attempts, accepted, told, faults>>
  BY DEF Close
<1>2. TypeOK'
  <2>1. [store[s] EXCEPT !.closed = TRUE] \in StoreState
    BY <1>0 DEF StoreState
  <2> QED
    BY <1>1, <2>1 DEF LedgerInv, TypeOK
<1>3. LeaseInv'
  BY <1>0, <1>1 DEF LedgerInv, TypeOK, LeaseInv, LiveDispatchOwned, OwnsDispatch, Mine,
     Dispatching, Job, StoreState, Idle
<1>4. LiveDispatchOwned'
  BY <1>0, <1>1 DEF LedgerInv, RowInv, TypeOK, LeaseInv, LiveDispatchOwned,
     OwnsDispatch, Mine, Dispatching, Job, StoreState, Idle
<1>5. RowInv'
  BY <1>0, <1>1 DEF LedgerInv, TypeOK, RowInv, LeaseInv, LiveDispatchOwned,
     OwnsDispatch, Mine, Dispatching
<1>6. AttemptInv'
  BY <1>0, <1>1 DEF LedgerInv, RowInv, AttemptInv, TypeOK, LeaseInv, LiveDispatchOwned,
     OwnsDispatch, Mine, Dispatching, Job, StoreState, Idle
<1>7. OutcomeHonest' /\ ReceiptsStand'
  BY <1>0, <1>1 DEF LedgerInv, TypeOK, RowInv, AttemptInv, OutcomeHonest, ReceiptsStand,
     LeaseInv, LiveDispatchOwned, OwnsDispatch, Mine, Dispatching, Terminal
<1> QED
  BY <1>2, <1>3, <1>4, <1>5, <1>6, <1>7 DEF LedgerInv

\* A store is replaced when nobody is inside it.
LEMMA OpenInv ==
  ASSUME LedgerInv, NEW s \in Store,
         Open(s)
  PROVE  LedgerInv'
<1>0. store[s] \in StoreState
  BY DEF LedgerInv, TypeOK
<1> USE DEF FreshStore
<1>1. /\ \A w \in Worker : StoreOf[w] = s => job[w].pc = "idle"
      /\ store' = [store EXCEPT ![s] = FreshStore]
      /\ UNCHANGED <<intent, lease, job, attempts, accepted, told, faults>>
  BY DEF Open
<1>2. TypeOK'
  <2>1. FreshStore \in StoreState
    BY DEF StoreState, FreshStore
  <2> QED
    BY <1>1, <2>1 DEF LedgerInv, TypeOK
<1>3. LeaseInv'
  BY <1>0, <1>1 DEF LedgerInv, TypeOK, LeaseInv, LiveDispatchOwned, OwnsDispatch, Mine,
     Dispatching, Job, StoreState, Idle
<1>4. LiveDispatchOwned'
  BY <1>0, <1>1 DEF LedgerInv, RowInv, TypeOK, LeaseInv, LiveDispatchOwned,
     OwnsDispatch, Mine, Dispatching, Job, StoreState, Idle
<1>5. RowInv'
  BY <1>0, <1>1 DEF LedgerInv, TypeOK, RowInv, LeaseInv, LiveDispatchOwned,
     OwnsDispatch, Mine, Dispatching
<1>6. AttemptInv'
  BY <1>0, <1>1 DEF LedgerInv, RowInv, AttemptInv, TypeOK, LeaseInv, LiveDispatchOwned,
     OwnsDispatch, Mine, Dispatching, Job, StoreState, Idle
<1>7. OutcomeHonest' /\ ReceiptsStand'
  BY <1>0, <1>1 DEF LedgerInv, TypeOK, RowInv, AttemptInv, OutcomeHonest, ReceiptsStand,
     LeaseInv, LiveDispatchOwned, OwnsDispatch, Mine, Dispatching, Terminal
<1> QED
  BY <1>2, <1>3, <1>4, <1>5, <1>6, <1>7 DEF LedgerInv

\* A death takes the store, its jobs and its lease; the rows stay.
LEMMA CrashInv ==
  ASSUME LedgerInv, NEW s \in Store,
         Crash(s)
  PROVE  LedgerInv'
<1>0. store[s] \in StoreState
  BY DEF LedgerInv, TypeOK
<1> USE DEF FreshStore
<1>1. /\ faults < MaxFaults /\ faults' = faults + 1
      /\ lease' = IF lease = s THEN None ELSE lease
      /\ store' = [store EXCEPT ![s] = FreshStore]
      /\ job' = [w \in Worker |-> IF StoreOf[w] = s THEN Idle ELSE job[w]]
      /\ UNCHANGED <<intent, attempts, accepted, told>>
  BY DEF Crash, OneFault
<1>2. TypeOK'
  <2>1. FreshStore \in StoreState /\ Idle \in Job
    BY DEF StoreState, FreshStore, Job, Idle, PC
  <2> QED
    BY <1>1, <2>1 DEF LedgerInv, TypeOK
<1>3. LeaseInv'
  BY <1>0, <1>1 DEF LedgerInv, TypeOK, LeaseInv, LiveDispatchOwned, OwnsDispatch, Mine,
     Dispatching, Job, StoreState, Idle
<1>4. LiveDispatchOwned'
  BY <1>0, <1>1 DEF LedgerInv, RowInv, TypeOK, LeaseInv, LiveDispatchOwned,
     OwnsDispatch, Mine, Dispatching, Job, StoreState, Idle
<1>5. RowInv'
  BY <1>0, <1>1 DEF LedgerInv, TypeOK, RowInv, LeaseInv, LiveDispatchOwned,
     OwnsDispatch, Mine, Dispatching
<1>6. AttemptInv'
  BY <1>0, <1>1 DEF LedgerInv, RowInv, AttemptInv, TypeOK, LeaseInv, LiveDispatchOwned,
     OwnsDispatch, Mine, Dispatching, Job, StoreState, Idle
<1>7. OutcomeHonest' /\ ReceiptsStand'
  BY <1>0, <1>1 DEF LedgerInv, TypeOK, RowInv, AttemptInv, OutcomeHonest, ReceiptsStand,
     LeaseInv, LiveDispatchOwned, OwnsDispatch, Mine, Dispatching, Terminal
<1> QED
  BY <1>2, <1>3, <1>4, <1>5, <1>6, <1>7 DEF LedgerInv

(* The theorems. *)

\* The empty ledger satisfies the invariant.
LEMMA InitInv == Init => LedgerInv
<1> SUFFICES ASSUME Init PROVE LedgerInv
  OBVIOUS
<1>1. NoRow \in Row /\ NoRow.state = "absent" /\ NoRow.content = None
  BY DEF NoRow, Row, State
<1>2. Idle \in Job /\ Idle.pc = "idle" /\ ~Idle.acquired
  BY DEF Idle, Job, PC
<1>3. FreshStore \in StoreState /\ FreshStore.active = None
  BY DEF FreshStore, StoreState
<1>4. TypeOK
  BY <1>1, <1>2, <1>3 DEF Init, TypeOK
<1>5. LeaseInv /\ LiveDispatchOwned
  BY <1>2, <1>3 DEF Init, LeaseInv, LiveDispatchOwned, Dispatching
<1>6. RowInv /\ AttemptInv /\ OutcomeHonest /\ ReceiptsStand
  BY <1>1, <1>2 DEF Init, RowInv, AttemptInv, OutcomeHonest, ReceiptsStand
<1> QED
  BY <1>4, <1>5, <1>6 DEF LedgerInv

\* Every step preserves it.
LEMMA NextInv == LedgerInv /\ [Next]_vars => LedgerInv'
<1> SUFFICES ASSUME LedgerInv, [Next]_vars PROVE LedgerInv'
  OBVIOUS
<1>1. CASE UNCHANGED vars
  BY <1>1 DEF vars, LedgerInv, TypeOK, LeaseInv, LiveDispatchOwned, OwnsDispatch, Mine,
     RowInv, AttemptInv, OutcomeHonest, ReceiptsStand
<1>2. ASSUME NEW w \in Worker, NEW o \in Op, NEW c \in Content, BeginLease(w, o, c)
      PROVE  LedgerInv'
  BY <1>2, BeginLeaseInv
<1>3. ASSUME NEW w \in Worker, NEW o \in Op, NEW r \in Terminal, FinishElsewhere(w, o, r)
      PROVE  LedgerInv'
  BY <1>3, FinishElsewhereInv
<1>4. ASSUME NEW w \in Worker, NEW o \in Op, GetLease(w, o)
      PROVE  LedgerInv'
  BY <1>4, GetLeaseInv
<1>5. ASSUME NEW w \in Worker, BeginStep(w)
      PROVE  LedgerInv'
  BY <1>5, BeginReplaysInv, BeginRefusesInv, BeginInsertsInv, BeginFailsInv DEF BeginStep
<1>6. ASSUME NEW w \in Worker, SendStep(w)
      PROVE  LedgerInv'
  BY <1>6, VerifyDispatchInv, VerifyFailsInv, SubmitStopsInv, SubmitDataInv,
     SubmitRepliesInv, FinishInv, FinishFailsInv DEF SendStep
<1>7. ASSUME NEW w \in Worker, GetStep(w)
      PROVE  LedgerInv'
  BY <1>7, RecoverCommitsInv, RecoverFailsInv, ReadInv, ReadRaisesInv DEF GetStep
<1>8. ASSUME NEW s \in Store, Close(s) \/ Open(s) \/ Crash(s)
      PROVE  LedgerInv'
  BY <1>8, CloseInv, OpenInv, CrashInv
<1> QED
  BY <1>1, <1>2, <1>3, <1>4, <1>5, <1>6, <1>7, <1>8 DEF Next

\* The inductive invariant holds in every reachable state.
THEOREM LedgerInvariant == Spec => []LedgerInv
  BY InitInv, NextInv, PTL DEF Spec

\* What the invariant says of the properties the runs check.
LEMMA InvImplies ==
  ASSUME LedgerInv
  PROVE  TypeOK /\ AtMostOnce /\ LiveDispatchOwned /\ OneDispatch /\ OutcomeHonest /\ ReceiptsStand
<1>1. AtMostOnce
  <2>1. \A o \in Op : attempts[o] > 0 => intent[o].content # None
    BY DEF LedgerInv, TypeOK, RowInv, AttemptInv
  <2> QED
    BY <2>1 DEF LedgerInv, RowInv, AttemptInv, AtMostOnce
<1>2. OneDispatch
  <2>1. ASSUME NEW v \in Worker, NEW w \in Worker,
               job[v].pc \in Dispatching, job[w].pc \in Dispatching
        PROVE  v = w
    <3>1. lease = StoreOf[v] /\ lease = StoreOf[w]
      BY <2>1 DEF LedgerInv, LiveDispatchOwned, OwnsDispatch
    <3>2. Mine(v).owner = v /\ Mine(w).owner = w
      BY <2>1 DEF LedgerInv, LiveDispatchOwned, OwnsDispatch
    <3> QED
      BY <3>1, <3>2 DEF Mine
  <2> QED
    BY <2>1 DEF OneDispatch, LedgerInv, RowInv
<1> QED
  BY <1>1, <1>2 DEF LedgerInv

\* Every variable keeps its type.
THEOREM Typed == Spec => []TypeOK
  BY LedgerInvariant, InvImplies, PTL

\* No operation and no draft revision is transmitted twice, whatever crashes,
\* failed transactions, retries and concurrent callers.
THEOREM NeverTwice == Spec => []AtMostOnce
  BY LedgerInvariant, InvImplies, PTL

\* A live dispatch keeps the lease and its open row until its worker ends it.
THEOREM DispatchStaysOwned == Spec => []LiveDispatchOwned
  BY LedgerInvariant, InvImplies, PTL

\* One live dispatch, and one open row, in the whole directory.
THEOREM DispatchIsUnique == Spec => []OneDispatch
  BY LedgerInvariant, InvImplies, PTL

\* The ledger's word is never contradicted by what the server did.
THEOREM LedgerIsHonest == Spec => []OutcomeHonest
  BY LedgerInvariant, InvImplies, PTL

\* A terminal receipt, once given, is the row's state for ever.
THEOREM ReceiptsAreFinal == Spec => []ReceiptsStand
  BY LedgerInvariant, InvImplies, PTL

-----------------------------------------------------------------------------
(* Steps of the ledger as steps of the promise. *)

\* Closing orphans is an Abandon.
LEMMA AbandonStep ==
  ASSUME TypeOK, intent' \in [Op -> Row], UNCHANGED <<attempts, accepted>>,
         \A o \in Op :
           /\ intent'[o].content = intent[o].content
           /\ \/ intent'[o] = intent[o]
              \/ /\ intent[o].state = "dispatching"
                 /\ intent'[o].state = "delivery-unknown"
  PROVE  Attempts!Abandon
<1> DEFINE S == {o \in Op : intent'[o] # intent[o]}
<1>1. \A o \in S : intent[o].state = "dispatching" /\ intent'[o].state = "delivery-unknown"
  OBVIOUS
<1>2. S \in SUBSET Attempts!Undecided
  BY <1>1 DEF Attempts!Undecided
<1>3. [o \in Op |-> intent'[o].state] = Attempts!Abandoned(S)
  BY <1>1 DEF Attempts!Abandoned
<1>4. [o \in Op |-> intent'[o].content] = [o \in Op |-> intent[o].content]
  OBVIOUS
<1> QED
  BY <1>2, <1>3, <1>4 DEF Attempts!Abandon

\* A durable intent is an Intend.
LEMMA IntendStep ==
  ASSUME LedgerInv, NEW w \in Worker, job[w].pc = "insert", MayInsert(w),
         intent' = Inserted(w), UNCHANGED <<attempts, accepted>>
  PROVE  \E o \in Op, c \in Content : Attempts!Intend(o, c)
<1>0. TypeOK /\ job[w].op \in Op /\ job[w].content \in Content
  BY DEF LedgerInv, LeaseInv
<1>1. PICK o \in Op, c \in Content : o = job[w].op /\ c = job[w].content
  BY <1>0
<1> DEFINE S == {p \in Op \ {o} : intent'[p] # intent[p]}
<1>2. /\ intent'[o].state = "dispatching" /\ intent'[o].content = c
      /\ \A p \in Op \ {o} :
           /\ intent'[p].content = intent[p].content
           /\ \/ intent'[p] = intent[p]
              \/ intent[p].state = "dispatching" /\ intent'[p].state = "delivery-unknown"
  <2>1. /\ Inserted(w)[o] = [state |-> "dispatching", content |-> c, dispatcher |-> w]
        /\ \A p \in Op \ {o} :
             /\ Inserted(w)[p].content = intent[p].content
             /\ \/ Inserted(w)[p] = intent[p]
                \/ /\ intent[p].state = "dispatching"
                   /\ Inserted(w)[p].state = "delivery-unknown"
    BY <1>0, <1>1, InsertedRows
  <2> QED
    BY <2>1
<1>3. intent[o].state = "absent"
  BY <1>1 DEF LedgerInv, RowInv, MayInsert
<1>4. \A p \in Op : intent[p].content # None => KeyOf[intent[p].content] # KeyOf[c]
  BY <1>1 DEF MayInsert, DuplicateRevision
<1>5. S \in SUBSET Attempts!Undecided
  BY <1>2 DEF Attempts!Undecided
<1>6. [p \in Op |-> intent'[p].state] = [Attempts!Abandoned(S) EXCEPT ![o] = "dispatching"]
  BY <1>1, <1>2 DEF Attempts!Abandoned
<1>7. [p \in Op |-> intent'[p].content]
        = [[p \in Op |-> intent[p].content] EXCEPT ![o] = c]
  BY <1>1, <1>2
<1> HIDE DEF S
<1>8. Attempts!Intend(o, c)
  BY <1>3, <1>4, <1>5, <1>6, <1>7 DEF Attempts!Intend
<1> QED
  BY <1>8

\* DATA is a Submit.
LEMMA SubmitStep ==
  ASSUME LedgerInv, NEW w \in Worker, SubmitData(w)
  PROVE  \E o \in Op : Attempts!Submit(o)
<1>0. job[w].op \in Op
  BY DEF LedgerInv, LeaseInv, SubmitData
<1>1. PICK o \in Op : o = job[w].op
  BY <1>0
<1>2. intent[o].state = "dispatching" /\ attempts[o] = 0 /\ ~accepted[o]
  BY <1>1 DEF LedgerInv, LiveDispatchOwned, AttemptInv, SubmitData, Dispatching
<1>3. accepted \in [Op -> BOOLEAN] /\ attempts \in [Op -> Nat]
  BY DEF LedgerInv, TypeOK
<1>4. attempts' = [attempts EXCEPT ![o] = 1] /\ UNCHANGED intent
  BY <1>1, <1>2, <1>3 DEF SubmitData
<1>5. PICK taken \in BOOLEAN : accepted' = [accepted EXCEPT ![o] = @ \/ taken]
  BY <1>1 DEF SubmitData
<1>6. accepted' = [accepted EXCEPT ![o] = taken]
  BY <1>2, <1>3, <1>5
<1>7. Attempts!Submit(o)
  BY <1>2, <1>4, <1>6 DEF Attempts!Submit
<1> QED
  BY <1>7

\* A durable terminal state is a Decide.
LEMMA DecideStep ==
  ASSUME LedgerInv, NEW w \in Worker, job[w].pc = "finish",
         intent' = Finished(job[w].op, job[w].result), UNCHANGED <<attempts, accepted>>
  PROVE  \E o \in Op, s \in Attempts!Terminal : Attempts!Decide(o, s)
<1>0. TypeOK /\ job[w].op \in Op /\ job[w].result \in Terminal
  BY DEF LedgerInv, LeaseInv, AttemptInv
<1>1. PICK o \in Op, r \in Attempts!Terminal : o = job[w].op /\ r = job[w].result
  BY <1>0 DEF Terminal, Attempts!Terminal
<1>2. /\ intent[o].state = "dispatching"
      /\ r = "accepted" => accepted[o]
      /\ r = "definite-failure" => ~accepted[o]
  BY <1>1 DEF LedgerInv, LiveDispatchOwned, AttemptInv, Dispatching
<1>3. /\ \A p \in Op \ {o} : intent'[p] = intent[p]
      /\ intent'[o].content = intent[o].content
      /\ intent'[o].state = r
  BY <1>0, <1>1, <1>2, FinishedRows
<1>4. /\ [p \in Op |-> intent'[p].state] = [[p \in Op |-> intent[p].state] EXCEPT ![o] = r]
      /\ [p \in Op |-> intent'[p].content] = [p \in Op |-> intent[p].content]
  BY <1>3
<1>5. Attempts!Decide(o, r)
  BY <1>2, <1>4 DEF Attempts!Decide
<1> QED
  BY <1>5

-----------------------------------------------------------------------------

\* Every step of the ledger is a step of the promise or a stutter of it.
LEMMA NextRefines == LedgerInv /\ [Next]_vars => [Attempts!Next]_(Attempts!vars)
<1> SUFFICES ASSUME LedgerInv, [Next]_vars
             PROVE  [Attempts!Next]_(Attempts!vars)
  OBVIOUS
<1>0. TypeOK
  BY DEF LedgerInv
<1>1. ASSUME UNCHANGED <<intent, attempts, accepted>>
      PROVE  UNCHANGED Attempts!vars
  BY <1>1 DEF Attempts!vars
<1>2. CASE UNCHANGED vars
  BY <1>1, <1>2 DEF vars
<1>3. ASSUME NEW w \in Worker, BeginStep(w)
      PROVE  [Attempts!Next]_(Attempts!vars)
  <2>1. CASE BeginReplays(w)
    <3>1. intent' = Seen(w) /\ UNCHANGED <<attempts, accepted>>
      BY <2>1 DEF BeginReplays
    <3>2. Attempts!Abandon
      BY <1>0, <3>1, SeenRows, AbandonStep
    <3> QED
      BY <3>2 DEF Attempts!Next
  <2>2. CASE BeginRefuses(w)
    BY <1>1, <2>2 DEF BeginRefuses
  <2>3. CASE BeginInserts(w)
    BY <2>3, IntendStep DEF BeginInserts, Attempts!Next
  <2>4. CASE BeginFails(w)
    <3>1. CASE UNCHANGED intent
      BY <1>1, <2>4, <3>1 DEF BeginFails
    <3>2. CASE MayInsert(w) /\ intent' = Inserted(w)
      BY <2>4, <3>2, IntendStep DEF BeginFails, Attempts!Next
    <3>3. CASE intent' = Seen(w)
      <4>1. UNCHANGED <<attempts, accepted>>
        BY <2>4 DEF BeginFails
      <4>2. Attempts!Abandon
        BY <1>0, <3>3, <4>1, SeenRows, AbandonStep
      <4> QED
        BY <4>2 DEF Attempts!Next
    <3> QED
      BY <2>4, <3>1, <3>2, <3>3 DEF BeginFails
  <2> QED
    BY <1>3, <2>1, <2>2, <2>3, <2>4 DEF BeginStep
<1>4. ASSUME NEW w \in Worker, SendStep(w)
      PROVE  [Attempts!Next]_(Attempts!vars)
  <2>1. CASE SubmitData(w)
    BY <2>1, SubmitStep DEF Attempts!Next
  <2>2. CASE Finish(w)
    BY <2>2, DecideStep DEF Finish, Attempts!Next
  <2>3. CASE FinishFails(w)
    <3>1. CASE UNCHANGED intent
      BY <1>1, <2>3, <3>1 DEF FinishFails
    <3>2. CASE intent' = Finished(job[w].op, job[w].result)
      BY <2>3, <3>2, DecideStep DEF FinishFails, Attempts!Next
    <3> QED
      BY <2>3, <3>1, <3>2 DEF FinishFails
  <2>4. CASE VerifyDispatch(w) \/ VerifyFails(w) \/ SubmitStops(w) \/ SubmitReplies(w)
    BY <1>1, <2>4 DEF VerifyDispatch, VerifyFails, SubmitStops, SubmitReplies
  <2> QED
    BY <1>4, <2>1, <2>2, <2>3, <2>4 DEF SendStep
<1>5. ASSUME NEW w \in Worker, GetStep(w)
      PROVE  [Attempts!Next]_(Attempts!vars)
  <2>1. CASE (RecoverCommits(w) \/ RecoverFails(w)) /\ intent' = Recovered
    <3>1. UNCHANGED <<attempts, accepted>>
      BY <2>1 DEF RecoverCommits, RecoverFails
    <3>2. Attempts!Abandon
      BY <1>0, <2>1, <3>1, RecoveredRows, AbandonStep
    <3> QED
      BY <3>2 DEF Attempts!Next
  <2>2. CASE RecoverFails(w) /\ UNCHANGED intent
    BY <1>1, <2>2 DEF RecoverFails
  <2>3. CASE Read(w) \/ ReadRaises(w)
    BY <1>1, <2>3 DEF Read, ReadRaises
  <2> QED
    BY <1>5, <2>1, <2>2, <2>3 DEF GetStep, RecoverCommits, RecoverFails
<1>6. ASSUME NEW w \in Worker, NEW o \in Op, NEW r \in Terminal, FinishElsewhere(w, o, r)
      PROVE  UNCHANGED Attempts!vars
  <2>1. intent[o].state # "dispatching"
    BY <1>6, FinishElsewhereReplays
  <2> QED
    BY <1>0, <1>1, <1>6, <2>1, FinishedRows DEF FinishElsewhere
<1>7. ASSUME NEW w \in Worker, NEW o \in Op,
             GetLease(w, o) \/ \E c \in Content : BeginLease(w, o, c)
      PROVE  UNCHANGED Attempts!vars
  BY <1>1, <1>7 DEF GetLease, BeginLease
<1>8. ASSUME NEW s \in Store, Close(s) \/ Open(s) \/ Crash(s)
      PROVE  UNCHANGED Attempts!vars
  BY <1>1, <1>8 DEF Close, Open, Crash
<1> QED
  BY <1>2, <1>3, <1>4, <1>5, <1>6, <1>7, <1>8 DEF Next

\* The ledger keeps the promise: whatever the threads, processes, leases and
\* faults do, what is durable and what is transmitted is a behaviour of
\* SendAttempts.
THEOREM LedgerImplements == Spec => AttemptsSpec
<1>1. Init => Attempts!Init
  BY DEF Init, NoRow, Attempts!Init
<1> QED
  BY <1>1, NextRefines, LedgerInvariant, PTL DEF Spec, AttemptsSpec, Attempts!Spec

-----------------------------------------------------------------------------

\* One step leaves a row alone, closes an open row, or fills an empty one.
LEMMA RowStep ==
  ASSUME LedgerInv, [Next]_vars, NEW o \in Op
  PROVE  \/ intent'[o] = intent[o]
         \/ intent[o].state = "dispatching" /\ intent'[o].content = intent[o].content
         \/ intent[o].content = None
<1>0. TypeOK
  BY DEF LedgerInv
<1>1. CASE UNCHANGED intent
  BY <1>1
<1>2. ASSUME NEW w \in Worker, intent' = Seen(w)
      PROVE  \/ intent'[o] = intent[o]
             \/ intent[o].state = "dispatching" /\ intent'[o].content = intent[o].content
  BY <1>0, <1>2, SeenRows
<1>3. ASSUME NEW w \in Worker, job[w].pc = "insert", MayInsert(w), intent' = Inserted(w)
      PROVE  \/ intent'[o] = intent[o]
             \/ intent[o].state = "dispatching" /\ intent'[o].content = intent[o].content
             \/ intent[o].content = None
  <2>1. job[w].op \in Op /\ job[w].content \in Content
    BY <1>3 DEF LedgerInv, LeaseInv
  <2>2. CASE o = job[w].op
    BY <1>3, <2>2 DEF MayInsert
  <2>3. CASE o # job[w].op
    <3>1. TypeOK /\ MayInsert(w) /\ job[w].op \in Op /\ job[w].content \in Content
      BY <1>0, <1>3, <2>1
    <3>2. \A p \in Op \ {job[w].op} :
            /\ Inserted(w)[p].content = intent[p].content
            /\ Inserted(w)[p].state # "dispatching"
            /\ \/ Inserted(w)[p] = intent[p]
               \/ /\ intent[p].state = "dispatching"
                  /\ Inserted(w)[p].state = "delivery-unknown"
      BY <3>1, InsertedRows
    <3> QED
      BY <1>3, <2>3, <3>2
  <2> QED
    BY <2>2, <2>3
<1>4. ASSUME NEW p \in Op, NEW r \in Terminal, intent' = Finished(p, r)
      PROVE  \/ intent'[o] = intent[o]
             \/ intent[o].state = "dispatching" /\ intent'[o].content = intent[o].content
  <2>1. CASE o = p /\ intent[p].state = "dispatching"
    BY <1>0, <1>4, <2>1, FinishedRows
  <2>2. CASE o # p \/ intent[p].state # "dispatching"
    BY <1>0, <1>4, <2>2, FinishedRows
  <2> QED
    BY <2>1, <2>2
<1>5. CASE intent' = Recovered
  BY <1>0, <1>5, RecoveredRows
<1>6. ASSUME NEW w \in Worker, BeginStep(w)
      PROVE  \/ UNCHANGED intent
             \/ intent' = Seen(w)
             \/ job[w].pc = "insert" /\ MayInsert(w) /\ intent' = Inserted(w)
  BY <1>6 DEF BeginStep, BeginReplays, BeginRefuses, BeginInserts, BeginFails
<1>7. ASSUME NEW w \in Worker, SendStep(w)
      PROVE  \/ UNCHANGED intent
             \/ \E p \in Op, r \in Terminal : intent' = Finished(p, r)
  <2>1. job[w].pc = "finish" => job[w].op \in Op /\ job[w].result \in Terminal
    BY DEF LedgerInv, LeaseInv, AttemptInv
  <2> QED
    BY <1>7, <2>1 DEF SendStep, VerifyDispatch, VerifyFails, SubmitStops, SubmitData,
       SubmitReplies, Finish, FinishFails
<1>8. ASSUME NEW w \in Worker, GetStep(w)
      PROVE  UNCHANGED intent \/ intent' = Recovered
  BY <1>8 DEF GetStep, RecoverCommits, RecoverFails, Read, ReadRaises
<1>9. ASSUME NEW w \in Worker, NEW p \in Op, NEW c \in Content,
             BeginLease(w, p, c) \/ GetLease(w, p)
      PROVE  UNCHANGED intent
  BY <1>9 DEF BeginLease, GetLease
<1>10. ASSUME NEW w \in Worker, NEW p \in Op, GetLease(w, p)
       PROVE  UNCHANGED intent
  BY <1>10 DEF GetLease
<1>11. ASSUME NEW w \in Worker, NEW p \in Op, NEW r \in Terminal, FinishElsewhere(w, p, r)
       PROVE  intent' = Finished(p, r)
  BY <1>11 DEF FinishElsewhere
<1>12. ASSUME NEW s \in Store, Close(s) \/ Open(s) \/ Crash(s)
       PROVE  UNCHANGED intent
  BY <1>12 DEF Close, Open, Crash
<1>13. CASE UNCHANGED vars
  BY <1>1, <1>13 DEF vars
<1> QED
  BY <1>1, <1>2, <1>3, <1>4, <1>5, <1>6, <1>7, <1>8, <1>9, <1>10, <1>11, <1>12, <1>13
     DEF Next

\* No row is ever deleted or rebound, and a decided row never changes again.
THEOREM RowsAdvance == Spec => RowsOnlyAdvance
<1>1. LedgerInv /\ [Next]_vars =>
        [\A o \in Op :
           /\ intent[o].content # None => intent'[o].content = intent[o].content
           /\ intent[o].state \in Terminal => intent'[o] = intent[o]]_vars
  <2> SUFFICES ASSUME LedgerInv, [Next]_vars, NEW o \in Op
               PROVE  /\ intent[o].content # None => intent'[o].content = intent[o].content
                      /\ intent[o].state \in Terminal => intent'[o] = intent[o]
    OBVIOUS
  <2>1. intent[o].state \in Terminal => intent[o].content # None
    BY DEF LedgerInv, RowInv, Terminal
  <2> QED
    BY <2>1, RowStep DEF Terminal
<1> QED
  BY <1>1, LedgerInvariant, PTL DEF Spec, RowsOnlyAdvance
=============================================================================
