---------------------------- MODULE TablesProofs -----------------------------
(***************************************************************************)
(* Proofs about the two bounded tables: how much they and their answers hold,   *)
(* what of their history is kept, and what leaves them first.                   *)
(***************************************************************************)
EXTENDS Tables, FiniteSetTheorems, FunctionTheorems, TLAPS

(* The first n elements of a finite set in some order, which is what a query    *)
(* with ORDER BY and LIMIT keeps.                                               *)

\* before is a set of pairs that orders the finite set S strictly and totally.
Orders(before, S) ==
  /\ IsFiniteSet(S)
  /\ \A d \in S : <<d, d>> \notin before
  /\ \A d, e \in S : d = e \/ <<d, e>> \in before \/ <<e, d>> \in before
  /\ \A d, e, f \in S : <<d, e>> \in before /\ <<e, f>> \in before => <<d, f>> \in before

Above(before, S, e) == {d \in S : <<d, e>> \in before}

First(before, S, n) == {e \in S : Cardinality(Above(before, S, e)) < n}

\* What comes later has more above it.
LEMMA AboveGrows ==
  ASSUME NEW before, NEW S, Orders(before, S), NEW d \in S
  PROVE  /\ IsFiniteSet(Above(before, S, d)) /\ Cardinality(Above(before, S, d)) \in Nat
         /\ \A e \in S : <<d, e>> \in before =>
              Cardinality(Above(before, S, d)) < Cardinality(Above(before, S, e))
<1>1. ASSUME NEW e \in S
      PROVE  IsFiniteSet(Above(before, S, e)) /\ Cardinality(Above(before, S, e)) \in Nat
  <2>1. Above(before, S, e) \in SUBSET S BY DEF Above
  <2>2. IsFiniteSet(Above(before, S, e)) BY <2>1, FS_Subset DEF Orders
  <2> QED BY <2>2, FS_CardinalityType
<1>2. ASSUME NEW e \in S, <<d, e>> \in before
      PROVE  Cardinality(Above(before, S, d)) < Cardinality(Above(before, S, e))
  <2>1. Above(before, S, d) \cup {d} \in SUBSET Above(before, S, e)
    BY <1>2 DEF Orders, Above
  <2>2. d \notin Above(before, S, d) BY DEF Orders, Above
  <2>3. Cardinality(Above(before, S, d) \cup {d}) = Cardinality(Above(before, S, d)) + 1
    BY <1>1, <2>2, FS_AddElement
  <2>4. Cardinality(Above(before, S, d) \cup {d}) <= Cardinality(Above(before, S, e))
    BY <1>1, <2>1, FS_Subset
  <2> QED BY <1>1, <2>3, <2>4
<1> QED BY <1>1, <1>2

Rank(before, S, part) == [e \in part |-> Cardinality(Above(before, S, e))]

\* The number of elements above an element numbers the elements.
LEMMA RankInjective ==
  ASSUME NEW before, NEW S, Orders(before, S), NEW part \in SUBSET S, NEW n \in Nat,
         \A e \in part : Cardinality(Above(before, S, e)) < n
  PROVE  /\ IsFiniteSet(part)
         /\ Rank(before, S, part) \in Injection(part, 0 .. (n - 1))
<1>1. ASSUME NEW d \in part, NEW e \in part,
             Rank(before, S, part)[d] = Rank(before, S, part)[e]
      PROVE  d = e
  <2>1. Cardinality(Above(before, S, d)) = Cardinality(Above(before, S, e))
    BY <1>1 DEF Rank
  <2>2. /\ Cardinality(Above(before, S, d)) \in Nat
        /\ Cardinality(Above(before, S, e)) \in Nat
        /\ <<d, e>> \in before =>
             Cardinality(Above(before, S, d)) < Cardinality(Above(before, S, e))
        /\ <<e, d>> \in before =>
             Cardinality(Above(before, S, e)) < Cardinality(Above(before, S, d))
    BY AboveGrows
  <2>3. <<d, e>> \notin before /\ <<e, d>> \notin before BY <2>1, <2>2
  <2> QED BY <2>3 DEF Orders
<1>2. ASSUME NEW e \in part PROVE Rank(before, S, part)[e] \in 0 .. (n - 1)
  <2>1. Cardinality(Above(before, S, e)) \in Nat BY AboveGrows
  <2> QED BY <2>1 DEF Rank
<1>3. Rank(before, S, part) \in [part -> 0 .. (n - 1)] BY <1>2 DEF Rank
<1>4. IsFiniteSet(part) BY FS_Subset DEF Orders
<1> QED BY <1>1, <1>3, <1>4 DEF Injection, IsInjective

\* At most n elements are the first n, and n of them if there is another, which
\* comes after them all.
THEOREM FirstBounded ==
  ASSUME NEW before, NEW S, Orders(before, S), NEW n \in Nat
  PROVE  /\ First(before, S, n) \subseteq S
         /\ IsFiniteSet(First(before, S, n))
         /\ Cardinality(First(before, S, n)) <= n
         /\ \A d \in S \ First(before, S, n) :
              /\ Cardinality(First(before, S, n)) = n
              /\ \A e \in First(before, S, n) : <<e, d>> \in before
<1> DEFINE kept == First(before, S, n)
<1>1. kept = {e \in S : Cardinality(Above(before, S, e)) < n} BY DEF First
<1> HIDE DEF kept
<1>2. kept \in SUBSET S /\ \A e \in kept : Cardinality(Above(before, S, e)) < n BY <1>1
<1>3. IsFiniteSet(kept) /\ Rank(before, S, kept) \in Injection(kept, 0 .. (n - 1))
  BY <1>2, RankInjective
<1>4. IsFiniteSet(0 .. (n - 1)) /\ Cardinality(0 .. (n - 1)) = n BY FS_Interval
<1>5. /\ Cardinality(kept) <= n
      /\ Rank(before, S, kept) \in Surjection(kept, 0 .. (n - 1)) => Cardinality(kept) = n
  BY <1>3, <1>4, FS_Injection
<1>6. ASSUME NEW d \in S \ kept
      PROVE  Cardinality(kept) = n /\ \A e \in kept : <<e, d>> \in before
  <2> DEFINE over == Above(before, S, d)
             m == Cardinality(over)
  <2>1. over \in SUBSET S BY DEF Above
  <2>2. m \in Nat /\ n <= m
    <3>1. m \in Nat BY AboveGrows
    <3>2. ~(m < n) BY <1>1, <1>6
    <3> QED BY <3>1, <3>2
  <2>3. \A e \in over : Cardinality(Above(before, S, e)) < m
    <3>1. ASSUME NEW e \in over PROVE Cardinality(Above(before, S, e)) < m
      <4>1. e \in S /\ <<e, d>> \in before BY DEF Above
      <4> QED BY <4>1, AboveGrows
    <3> QED BY <3>1
  <2>4. IsFiniteSet(0 .. (m - 1)) /\ Cardinality(0 .. (m - 1)) = m
    <3> HIDE DEF m
    <3> QED BY <2>2, FS_Interval
  <2>5. Rank(before, S, over) \in Surjection(over, 0 .. (m - 1))
    <3> HIDE DEF over, m
    <3>1. Rank(before, S, over) \in Injection(over, 0 .. (m - 1))
      BY <2>1, <2>2, <2>3, RankInjective
    <3>2. Cardinality(over) = m BY DEF m
    <3> QED BY <2>4, <3>1, <3>2, FS_Injection
  <2>6. ASSUME NEW i \in 0 .. (n - 1) PROVE \E e \in kept : Rank(before, S, kept)[e] = i
    <3>1. i \in 0 .. (m - 1) BY <2>2
    <3>2. PICK e \in over : Rank(before, S, over)[e] = i BY <2>5, <3>1 DEF Surjection
    <3>3. e \in S /\ Cardinality(Above(before, S, e)) = i BY <2>1, <3>2 DEF Rank
    <3>4. e \in kept BY <1>1, <3>3
    <3> QED BY <3>3, <3>4 DEF Rank
  <2>7. Rank(before, S, kept) \in Surjection(kept, 0 .. (n - 1))
    BY <1>3, <2>6 DEF Injection, Surjection
  <2>8. ASSUME NEW e \in kept PROVE <<e, d>> \in before
    <3>1. Cardinality(Above(before, S, e)) < n /\ e \in S BY <1>2
    <3>2. /\ Cardinality(Above(before, S, e)) \in Nat
          /\ Cardinality(Above(before, S, d)) \in Nat
      BY <3>1, AboveGrows
    <3>3. <<d, e>> \notin before BY <1>6, <2>2, <3>1, <3>2, AboveGrows
    <3>4. d # e BY <1>6, <3>1
    <3> QED BY <1>6, <3>1, <3>3, <3>4 DEF Orders
  <2> QED BY <1>5, <2>7, <2>8
<1> QED BY <1>2, <1>3, <1>5, <1>6 DEF kept

-----------------------------------------------------------------------------
(* The observations *)

-----------------------------------------------------------------------------
(* One transaction *)

\* What recording a page makes of a row (the INSERT OR IGNORE and the UPDATE).
LEMMA RecordedRow ==
  ASSUME TypeOK, NEW page \in Pages, NEW at \in Time,
         NEW k \in DOMAIN Recorded(page, at)
  PROVE  /\ k \in Key /\ Recorded(page, at)[k] \in Row
         /\ Recorded(page, at)[k].first <= Recorded(page, at)[k].last
         /\ k \in DOMAIN rows =>
              /\ Recorded(page, at)[k].first = rows[k].first
              /\ Recorded(page, at)[k].last >= rows[k].last
              /\ Recorded(page, at)[k].count >= rows[k].count
<1>1. k \in DOMAIN rows \cup {j \in Key : page[j] > 0} BY DEF Recorded
<1>2. k \in Key BY <1>1 DEF TypeOK
<1>3. page[k] \in Nat /\ at \in Nat /\ at <= MaxTime /\ MaxCount \in Nat /\ MaxCount >= 1
      /\ MaxTime \in Nat
  BY <1>2, BoundsAssumption DEF Pages, Time
<1>4. CASE k \notin DOMAIN rows
  <2>1. page[k] > 0 BY <1>1, <1>4
  <2>2. Recorded(page, at)[k] = [first |-> at, last |-> at, count |-> AtMost(page[k], MaxCount)]
    BY <1>1, <1>4 DEF Recorded
  <2>3. AtMost(page[k], MaxCount) \in 1 .. MaxCount BY <1>3, <2>1 DEF AtMost
  <2> QED BY <1>2, <1>3, <1>4, <2>2, <2>3 DEF Row, Time
<1>5. CASE k \in DOMAIN rows
  <2>1. rows[k] \in Row /\ rows[k].first <= rows[k].last BY <1>5 DEF TypeOK
  <2>2. /\ rows[k].first \in 0 .. MaxTime /\ rows[k].last \in 0 .. MaxTime
        /\ rows[k].count \in 1 .. MaxCount
    BY <2>1 DEF Row, Time
  <2>3. CASE page[k] = 0
    <3>1. Recorded(page, at)[k] = rows[k] BY <1>1, <1>5, <2>3 DEF Recorded
    <3> QED BY <1>2, <1>3, <2>1, <2>2, <3>1
  <2>4. CASE page[k] # 0
    <3> DEFINE last == AtLeast(rows[k].last, at)
               count == AtMost(rows[k].count + page[k], MaxCount)
    <3>1. Recorded(page, at)[k] = [rows[k] EXCEPT !.last = last, !.count = count]
      BY <1>1, <1>5, <2>4 DEF Recorded
    <3>2. last \in 0 .. MaxTime /\ last >= rows[k].last BY <1>3, <2>2 DEF AtLeast
    <3>3. count \in 1 .. MaxCount /\ count >= rows[k].count BY <1>3, <2>2 DEF AtMost
    <3> HIDE DEF last, count
    <3>4. /\ Recorded(page, at)[k].first = rows[k].first
          /\ Recorded(page, at)[k].last = last /\ Recorded(page, at)[k].count = count
          /\ Recorded(page, at)[k] \in Row
      BY <2>1, <3>1, <3>2, <3>3 DEF Row, Time
    <3>5. rows[k].first <= last BY <1>3, <2>1, <2>2, <3>2
    <3> QED BY <1>2, <3>2, <3>3, <3>4, <3>5
  <2> QED BY <2>3, <2>4
<1> QED BY <1>4, <1>5

\* A table of rows for some of the keys.
Table(table) == DOMAIN table \subseteq Key /\ \A k \in DOMAIN table : table[k] \in Row

\* ORDER BY, as a set of pairs.
Listed(table) == {p \in Key \X Key : Precedes(table, p[1], p[2])}

Fresh(table, at) == {k \in DOMAIN table : table[k].last >= at - Retention}

\* What _prune keeps: no more than the bound, and the bound if it gives up a row
\* that has not expired, which comes after those it keeps.
LEMMA KeptRows ==
  ASSUME NEW table, Table(table), NEW at \in Time
  PROVE  /\ Kept(table, at) \subseteq DOMAIN table
         /\ IsFiniteSet(Kept(table, at)) /\ Cardinality(Kept(table, at)) <= MaxObservations
         /\ \A k \in DOMAIN table \ Kept(table, at) :
              \/ table[k].last < at - Retention
              \/ /\ Cardinality(Kept(table, at)) = MaxObservations
                 /\ \A j \in Kept(table, at) : table[j].last >= table[k].last
<1> DEFINE fresh == Fresh(table, at)
           order == Listed(table)
<1>1. IsFiniteSet(fresh)
  <2>1. IsFiniteSet(Key) BY FS_Interval, BoundsAssumption DEF Key
  <2>2. fresh \in SUBSET Key BY DEF Table, Fresh
  <2> QED BY <2>1, <2>2, FS_Subset
<1>2. \A k \in fresh : k \in Key /\ k \in Int /\ table[k].last \in Int
  BY DEF Fresh, Table, Row, Time, Key
<1>3. \A j, k \in fresh : <<j, k>> \in order <=> Precedes(table, j, k)
  BY <1>2 DEF Listed
<1>4. Orders(order, fresh)
  <2> HIDE DEF order, fresh
  <2> QED BY <1>1, <1>2, <1>3 DEF Orders, Precedes
<1>5. \A k \in fresh : Above(order, fresh, k) = {j \in fresh : Precedes(table, j, k)}
  BY <1>3 DEF Above
<1>6. Kept(table, at) = First(order, fresh, MaxObservations) BY <1>5 DEF Kept, First, Fresh
<1>7. MaxObservations \in Nat BY BoundsAssumption
<1>8. \A k \in DOMAIN table \ fresh : table[k].last < at - Retention
  BY BoundsAssumption DEF Fresh, Table, Row, Time
<1>9. fresh \subseteq DOMAIN table BY DEF Fresh
<1> HIDE DEF order, fresh
<1>10. /\ Kept(table, at) \subseteq fresh /\ IsFiniteSet(Kept(table, at))
       /\ Cardinality(Kept(table, at)) <= MaxObservations
       /\ \A k \in fresh \ Kept(table, at) :
            /\ Cardinality(Kept(table, at)) = MaxObservations
            /\ \A j \in Kept(table, at) : <<j, k>> \in order
  <2>1. /\ First(order, fresh, MaxObservations) \subseteq fresh
        /\ IsFiniteSet(First(order, fresh, MaxObservations))
        /\ Cardinality(First(order, fresh, MaxObservations)) <= MaxObservations
        /\ \A k \in fresh \ First(order, fresh, MaxObservations) :
             /\ Cardinality(First(order, fresh, MaxObservations)) = MaxObservations
             /\ \A j \in First(order, fresh, MaxObservations) : <<j, k>> \in order
    BY <1>4, <1>7, FirstBounded
  <2> QED BY <1>6, <2>1
<1>11. \A j, k \in fresh : <<j, k>> \in order => table[j].last >= table[k].last
  BY <1>2, <1>3 DEF Precedes
<1> QED BY <1>8, <1>9, <1>10, <1>11

-----------------------------------------------------------------------------
(* What a step does to the table *)

Emptied == rows' = NoRows /\ file' # file

Written(s) ==
  /\ pc[s] = "commit"
  /\ \E page \in Pages :
       rows' = [k \in Kept(Recorded(page, now[s]), now[s]) |-> Recorded(page, now[s])[k]]

LEMMA TableSteps ==
  ASSUME TypeOK, [Next]_vars
  PROVE  \/ rows' = rows
         \/ Emptied
         \/ \E s \in Store : Written(s)
<1> DEFINE Goal == rows' = rows \/ Emptied \/ \E s \in Store : Written(s)
<1>0. \A unsafe : Make(unsafe) /\ file = 0 => Emptied BY DEF Make, Emptied, TypeOK
<1>1. ASSUME NEW s \in Store, Call(s) PROVE Goal
  <2>1. CASE Observe(s) BY <2>1 DEF Observe, disk
  <2>2. CASE Prepare(s) BY <1>0, <2>2 DEF Prepare, disk
  <2>3. CASE Connect(s) BY <1>0, <2>3 DEF Connect, disk
  <2>4. CASE Initialize(s) BY <2>4 DEF Initialize
  <2>5. CASE Commit(s) BY <2>5 DEF Commit, Written
  <2>6. CASE Fail(s) BY <2>6 DEF Fail, disk
  <2> QED BY <1>1, <2>1, <2>2, <2>3, <2>4, <2>5, <2>6 DEF Call
<1>2. ASSUME NEW s \in Store, Close(s) \/ Restart(s) PROVE Goal
  BY <1>2 DEF Close, Restart, disk
<1>3. CASE Tick BY <1>3 DEF Tick, disk
<1>4. CASE Remove BY <1>4 DEF Remove, Emptied
<1>5. CASE UNCHANGED vars BY <1>5 DEF vars
<1> QED BY <1>1, <1>2, <1>3, <1>4, <1>5 DEF Next

\* A transaction, of its rows.
LEMMA WrittenRows ==
  ASSUME TypeOK, NEW s \in Store, Written(s)
  PROVE  /\ DOMAIN rows' \subseteq Key
         /\ \A k \in DOMAIN rows' : rows'[k] \in Row /\ rows'[k].first <= rows'[k].last
         /\ IsFiniteSet(DOMAIN rows') /\ Cardinality(DOMAIN rows') <= MaxObservations
         /\ \A k \in DOMAIN rows \cap DOMAIN rows' :
              /\ rows'[k].first = rows[k].first
              /\ rows'[k].last >= rows[k].last
              /\ rows'[k].count >= rows[k].count
         /\ \A k \in DOMAIN rows \ DOMAIN rows' :
              \/ rows[k].last < now[s] - Retention
              \/ /\ Cardinality(DOMAIN rows') = MaxObservations
                 /\ \A j \in DOMAIN rows' : rows'[j].last >= rows[k].last
<1>1. PICK page \in Pages :
        rows' = [k \in Kept(Recorded(page, now[s]), now[s]) |-> Recorded(page, now[s])[k]]
  BY DEF Written
<1> DEFINE table == Recorded(page, now[s])
           kept == Kept(table, now[s])
<1>2. now[s] \in Time BY DEF TypeOK
<1>3. DOMAIN rows \subseteq DOMAIN table BY DEF Recorded
<1>4. \A k \in DOMAIN table :
        /\ k \in Key /\ table[k] \in Row /\ table[k].first <= table[k].last
        /\ k \in DOMAIN rows =>
             /\ table[k].first = rows[k].first
             /\ table[k].last >= rows[k].last
             /\ table[k].count >= rows[k].count
  BY <1>2, RecordedRow
<1> HIDE DEF table
<1>5. Table(table) BY <1>4 DEF Table
<1>6. /\ kept \subseteq DOMAIN table
      /\ IsFiniteSet(kept) /\ Cardinality(kept) <= MaxObservations
      /\ \A k \in DOMAIN table \ kept :
           \/ table[k].last < now[s] - Retention
           \/ /\ Cardinality(kept) = MaxObservations
              /\ \A j \in kept : table[j].last >= table[k].last
  BY <1>2, <1>5, KeptRows
<1> HIDE DEF kept
<1>7. rows' = [k \in kept |-> table[k]] BY <1>1 DEF kept, table
<1>8. DOMAIN rows' = kept /\ \A k \in kept : rows'[k] = table[k] BY <1>7
<1>9. \A k \in DOMAIN rows : rows[k].last \in Int BY DEF TypeOK, Row, Time
<1>10. \A k \in DOMAIN table : table[k].last \in Int BY <1>4 DEF Row, Time
<1>11. now[s] - Retention \in Int BY <1>2, BoundsAssumption DEF Time
<1>12. ASSUME NEW k \in DOMAIN rows \ DOMAIN rows'
       PROVE  \/ rows[k].last < now[s] - Retention
              \/ /\ Cardinality(DOMAIN rows') = MaxObservations
                 /\ \A j \in DOMAIN rows' : rows'[j].last >= rows[k].last
  <2>1. k \in DOMAIN table \ kept /\ table[k].last >= rows[k].last BY <1>3, <1>4, <1>8
  <2>2. CASE table[k].last < now[s] - Retention
    BY <1>9, <1>10, <1>11, <2>1, <2>2
  <2>3. CASE Cardinality(kept) = MaxObservations /\ \A j \in kept : table[j].last >= table[k].last
    BY <1>6, <1>8, <1>9, <1>10, <2>1, <2>3
  <2> QED BY <1>6, <2>1, <2>2, <2>3
<1> QED BY <1>4, <1>6, <1>8, <1>12

-----------------------------------------------------------------------------
(* The invariant *)

\* The part of TypeOK that is not about the rows.
RestOK ==
  /\ clock \in Time
  /\ file \in 0 .. MaxFiles /\ made \in 0 .. MaxFiles
  /\ loose \in BOOLEAN /\ schema \in BOOLEAN
  /\ closed \in [Store -> BOOLEAN] /\ ready \in [Store -> BOOLEAN]
  /\ pc \in [Store -> {"idle", "prepare", "connect", "initialize", "commit"}]
  /\ now \in [Store -> Time]
  /\ expected \in [Store -> 0 .. MaxFiles]

LEMMA RestNext == ASSUME RestOK, [Next]_vars PROVE RestOK'
<1> USE DEF RestOK, Goto, disk, memory
<1>0. 0 \in Time /\ 0 \in 0 .. MaxFiles BY BoundsAssumption DEF Time
<1>1. ASSUME NEW s \in Store, End(s)
      PROVE  /\ pc' \in [Store -> {"idle", "prepare", "connect", "initialize", "commit"}]
             /\ now' \in [Store -> Time] /\ expected' \in [Store -> 0 .. MaxFiles]
  BY <1>0, <1>1 DEF End
<1>2. ASSUME NEW unsafe \in BOOLEAN, Make(unsafe)
      PROVE  /\ file' \in 0 .. MaxFiles /\ made' \in 0 .. MaxFiles
             /\ loose' \in BOOLEAN /\ schema' \in BOOLEAN
  <2>1. made + 1 \in 0 .. MaxFiles BY <1>2, BoundsAssumption DEF Make
  <2>2. made' = made + 1 /\ file' \in 1 .. MaxFiles /\ loose' = unsafe /\ schema' = FALSE
    BY <1>2 DEF Make
  <2>3. file' \in 0 .. MaxFiles BY <2>2, BoundsAssumption
  <2> QED BY <2>1, <2>2, <2>3
<1>3. ASSUME NEW s \in Store, Call(s) PROVE RestOK'
  <2>1. CASE Observe(s) BY <2>1 DEF Observe
  <2>2. CASE Prepare(s)
    <3>1. /\ file' \in 0 .. MaxFiles /\ made' \in 0 .. MaxFiles
          /\ loose' \in BOOLEAN /\ schema' \in BOOLEAN
      BY <1>2, <2>2 DEF Prepare
    <3> QED BY <2>2, <3>1 DEF Prepare
  <2>3. CASE Connect(s)
    <3>1. /\ file' \in 0 .. MaxFiles /\ made' \in 0 .. MaxFiles
          /\ loose' \in BOOLEAN /\ schema' \in BOOLEAN
      BY <1>2, <2>3 DEF Connect
    <3> QED BY <1>1, <2>3, <3>1 DEF Connect
  <2>4. CASE Initialize(s) BY <1>1, <2>4 DEF Initialize
  <2>5. CASE Commit(s) BY <1>1, <2>5 DEF Commit
  <2>6. CASE Fail(s) BY <1>1, <2>6 DEF Fail
  <2> QED BY <1>3, <2>1, <2>2, <2>3, <2>4, <2>5, <2>6 DEF Call
<1>4. ASSUME NEW s \in Store, Close(s) PROVE RestOK' BY <1>4 DEF Close
<1>5. ASSUME NEW s \in Store, Restart(s) PROVE RestOK' BY <1>1, <1>5 DEF Restart
<1>6. CASE Tick BY <1>6 DEF Tick
<1>7. CASE Remove BY <1>0, <1>7 DEF Remove
<1>8. CASE UNCHANGED vars BY <1>8 DEF vars
<1> QED BY <1>3, <1>4, <1>5, <1>6, <1>7, <1>8 DEF Next

\* RowsInv is inductive, with the rows finite.
IInv == RowsInv /\ IsFiniteSet(DOMAIN rows)

LEMMA NoRowsOK == DOMAIN NoRows = {} BY DEF NoRows

LEMMA IInvInit == ASSUME Init PROVE IInv
<1>0. 0 \in 0 .. MaxTime /\ 0 \in 0 .. MaxFiles BY BoundsAssumption
<1>1. RestOK BY <1>0 DEF Init, RestOK, Time
<1>2. DOMAIN rows = {} BY NoRowsOK DEF Init
<1>3. TypeOK BY <1>1, <1>2 DEF RestOK, TypeOK
<1>4. IsFiniteSet(DOMAIN rows) /\ Cardinality(DOMAIN rows) = 0 BY <1>2, FS_EmptySet
<1> QED BY <1>3, <1>4, BoundsAssumption DEF IInv, RowsInv, RowsBounded

LEMMA IInvNext == ASSUME IInv, [Next]_vars PROVE IInv'
<1>1. TypeOK BY DEF IInv, RowsInv
<1>2. RestOK BY <1>1 DEF TypeOK, RestOK
<1>3. RestOK' BY <1>2, RestNext
<1>4. CASE rows' = rows
  <2>1. TypeOK' BY <1>1, <1>3, <1>4 DEF TypeOK, RestOK
  <2> QED BY <1>4, <2>1 DEF IInv, RowsInv, RowsBounded
<1>5. CASE Emptied
  <2>1. DOMAIN rows' = {} BY <1>5, NoRowsOK DEF Emptied
  <2>2. IsFiniteSet(DOMAIN rows') /\ Cardinality(DOMAIN rows') = 0 BY <2>1, FS_EmptySet
  <2>3. TypeOK' BY <1>3, <2>1 DEF TypeOK, RestOK
  <2> QED BY <2>2, <2>3, BoundsAssumption DEF IInv, RowsInv, RowsBounded
<1>6. ASSUME NEW s \in Store, Written(s) PROVE IInv'
  <2>1. /\ DOMAIN rows' \subseteq Key
        /\ \A k \in DOMAIN rows' : rows'[k] \in Row /\ rows'[k].first <= rows'[k].last
        /\ IsFiniteSet(DOMAIN rows') /\ Cardinality(DOMAIN rows') <= MaxObservations
    BY <1>1, <1>6, WrittenRows
  <2>2. TypeOK' BY <1>3, <2>1 DEF TypeOK, RestOK
  <2> QED BY <2>1, <2>2 DEF IInv, RowsInv, RowsBounded
<1> QED BY <1>1, <1>4, <1>5, <1>6, TableSteps

LEMMA Safety == Spec => []IInv
<1>1. Init => IInv BY IInvInit
<1>2. IInv /\ [Next]_vars => IInv' BY IInvNext
<1> QED BY <1>1, <1>2, PTL DEF Spec

-----------------------------------------------------------------------------
(* Theorems *)

\* However many stores record, with whatever time in hand, the table has its types
\* and at most MaxObservations rows.
THEOREM RowsInvariant == Spec => []RowsInv
<1>1. IInv => RowsInv BY DEF IInv
<1> QED BY <1>1, Safety, PTL

\* Only a store that has not had a ledger before makes one.
LEMMA SchemaSteps ==
  ASSUME TypeOK, [Next]_vars, schema', ~schema
  PROVE  \E s \in Store : ~ready[s] /\ pc[s] = "initialize"
<1>1. ASSUME NEW s \in Store, Call(s) PROVE \E t \in Store : ~ready[t] /\ pc[t] = "initialize"
  <2>1. CASE Prepare(s) BY <2>1 DEF Prepare, Make, disk
  <2>2. CASE Connect(s) BY <2>2 DEF Connect, Make, disk
  <2>3. CASE Initialize(s) BY <2>3 DEF Initialize, TypeOK
  <2> QED BY <1>1, <2>1, <2>2, <2>3 DEF Call, Observe, Commit, Fail, disk
<1> QED BY <1>1 DEF Next, vars, Close, Restart, Tick, Remove, disk

\* A row that is kept keeps its history, and a store never begins anew (the
\* transaction of observe_messages, _initialize).
THEOREM HistoryIsKept == Spec => HistoryKept
<1> DEFINE Step ==
      /\ file' = file =>
           \A k \in DOMAIN rows \cap DOMAIN rows' :
             /\ rows'[k].first = rows[k].first
             /\ rows'[k].last >= rows[k].last
             /\ rows'[k].count >= rows[k].count
      /\ schema' /\ ~schema => \E s \in Store : ~ready[s] /\ pc[s] = "initialize"
<1>1. ASSUME IInv, [Next]_vars PROVE Step
  <2>1. TypeOK BY <1>1 DEF IInv, RowsInv
  <2>2. CASE rows' = rows
    <3>1. \A k \in DOMAIN rows : rows[k].last \in Int /\ rows[k].count \in Int
      BY <2>1 DEF TypeOK, Row, Time
    <3> QED BY <1>1, <2>1, <2>2, <3>1, SchemaSteps
  <2>3. CASE Emptied BY <1>1, <2>1, <2>3, SchemaSteps DEF Emptied
  <2>4. ASSUME NEW s \in Store, Written(s) PROVE Step
    BY <1>1, <2>1, <2>4, SchemaSteps, WrittenRows
  <2> QED BY <1>1, <2>1, <2>2, <2>3, <2>4, TableSteps
<1>2. IInv /\ [Next]_vars => [Step]_vars BY <1>1
<1> QED BY <1>2, Safety, PTL DEF Spec, HistoryKept

\* A row leaves only when it has expired, or for a full table of rows seen no
\* earlier (_prune).
THEOREM OldestGoFirst == Spec => GivesUpTheOldest
<1> DEFINE Step ==
      file' = file =>
        \A k \in DOMAIN rows \ DOMAIN rows' :
          \/ \E s \in Store : pc[s] = "commit" /\ rows[k].last < now[s] - Retention
          \/ /\ Cardinality(DOMAIN rows') = MaxObservations
             /\ \A j \in DOMAIN rows' : rows'[j].last >= rows[k].last
<1>1. ASSUME IInv, [Next]_vars PROVE Step
  <2>1. TypeOK BY <1>1 DEF IInv, RowsInv
  <2>2. CASE rows' = rows BY <2>2
  <2>3. CASE Emptied BY <2>3 DEF Emptied
  <2>4. ASSUME NEW s \in Store, Written(s) PROVE Step
    BY <2>1, <2>4, WrittenRows DEF Written
  <2> QED BY <1>1, <2>1, <2>2, <2>3, <2>4, TableSteps
<1>2. IInv /\ [Next]_vars => [Step]_vars BY <1>1
<1> QED BY <1>2, Safety, PTL DEF Spec, GivesUpTheOldest

-----------------------------------------------------------------------------
(* The audit log *)

\* The instance counts as we do.
LEMMA SameCardinality == \A S : Audit!Cardinality(S) = Cardinality(S)
  BY DEF Audit!Cardinality, Cardinality

\* What makes "the newest" mean something: a finite list of distinct numbers.
Listing(list) ==
  /\ IsFiniteSet(list)
  /\ \A e \in list : e.id \in Nat
  /\ \A d, e \in list : d.id = e.id => d = e

NewerThan(list) == {p \in list \X list : p[1].id > p[2].id}

\* At most n rows are the newest n, and n if there is another; that one is older.
LEMMA NewestBounded ==
  ASSUME NEW list, Listing(list), NEW n \in Nat
  PROVE  /\ Audit!Newest(list, n) \subseteq list
         /\ IsFiniteSet(Audit!Newest(list, n))
         /\ Cardinality(Audit!Newest(list, n)) <= n
         /\ \A d \in list \ Audit!Newest(list, n) :
              /\ Cardinality(Audit!Newest(list, n)) = n
              /\ \A e \in Audit!Newest(list, n) : e.id > d.id
<1>1. Orders(NewerThan(list), list) BY DEF Orders, NewerThan, Listing
<1>2. \A e \in list : Above(NewerThan(list), list, e) = {d \in list : d.id > e.id}
  BY DEF Above, NewerThan
<1>3. Audit!Newest(list, n) = First(NewerThan(list), list, n)
  BY <1>2, SameCardinality DEF Audit!Newest, First
<1>4. \A d, e \in list : <<e, d>> \in NewerThan(list) => e.id > d.id BY DEF NewerThan
<1> DEFINE order == NewerThan(list)
<1> HIDE DEF order
<1>5. /\ First(order, list, n) \subseteq list /\ IsFiniteSet(First(order, list, n))
      /\ Cardinality(First(order, list, n)) <= n
      /\ \A d \in list \ First(order, list, n) :
           /\ Cardinality(First(order, list, n)) = n
           /\ \A e \in First(order, list, n) : <<e, d>> \in order
  <2>1. Orders(order, list) BY <1>1 DEF order
  <2> QED BY <2>1, FirstBounded
<1>6. Audit!Newest(list, n) = First(order, list, n) BY <1>3 DEF order
<1>7. \A d, e \in list : <<e, d>> \in order => e.id > d.id BY <1>4 DEF order
<1> QED BY <1>5, <1>6, <1>7

-----------------------------------------------------------------------------
(* Type correctness *)

LEMMA LogTypeInit == ASSUME Audit!Bounds, Audit!Init PROVE Audit!TypeOK
<1>1. auditClock \in Audit!Time BY DEF Audit!Init
<1>2. CASE events = {} /\ auditFile = 0 /\ auditMade = 0 /\ auditSchema = "none" /\ lastId = 0
  BY <1>1, <1>2 DEF Audit!Init, Audit!Bounds, Audit!TypeOK
<1>3. ASSUME NEW ids \in SUBSET (1 .. lastId), NEW at \in [ids -> Audit!Time],
             events = {[id |-> i, at |-> at[i]] : i \in ids},
             auditFile = 1, auditMade = 1, auditSchema = "earlier", lastId \in 0 .. MaxId
      PROVE  Audit!TypeOK
  <2>1. \A e \in events : \E i \in ids : e = [id |-> i, at |-> at[i]] BY <1>3
  <2>2. \A i \in ids : i \in 1 .. MaxId /\ i <= lastId /\ at[i] \in Audit!Time
    BY <1>3 DEF Audit!Bounds
  <2>3. events \subseteq Audit!Event BY <2>1, <2>2 DEF Audit!Event
  <2>4. \A e \in events : e.id <= lastId BY <2>1, <2>2
  <2>5. \A d, e \in events : d.id = e.id => d = e BY <2>1
  <2>6. auditFile \in 0 .. MaxFiles /\ auditMade \in 0 .. MaxFiles
    BY <1>3 DEF Audit!Bounds
  <2> QED BY <1>1, <1>3, <2>3, <2>4, <2>5, <2>6 DEF Audit!Init, Audit!TypeOK, Audit!Bounds
<1> QED BY <1>2, <1>3 DEF Audit!Init

\* What a call does to the log: nothing, empties it, or prunes it and adds one event.
LogKept == UNCHANGED <<events, lastId, auditSchema>>
LogEmptied == events' = {} /\ lastId' = 0 /\ (auditFile' # auditFile \/ auditMade' # auditMade)
LogAppended ==
  /\ events' = Audit!Pruned \cup {[id |-> Audit!NextId, at |-> auditClock]}
  /\ lastId' = Audit!NextId /\ lastId < MaxId

LEMMA LogPruned ==
  ASSUME Audit!Bounds, Audit!TypeOK, IsFiniteSet(events)
  PROVE  /\ Audit!Pruned \subseteq events /\ IsFiniteSet(Audit!Pruned)
         /\ Cardinality(Audit!Pruned) <= MaxEvents - 1
         /\ Audit!Selected \subseteq events
         /\ Cardinality(Audit!Selected) <= Audit!AtMost(Limit, MaxEvents)
         /\ \A d \in events \ Audit!Pruned :
              \/ d.at < Audit!Cutoff
              \/ /\ Cardinality(Audit!Pruned) = MaxEvents - 1
                 /\ \A e \in Audit!Pruned : e.id > d.id
<1> DEFINE fresh == {e \in events : e.at >= Audit!Cutoff}
<1>1. fresh \in SUBSET events OBVIOUS
<1>2. IsFiniteSet(fresh) BY <1>1, FS_Subset
<1>3. \A e \in events : e.id \in Nat BY DEF Audit!TypeOK, Audit!Event, Audit!Bounds
<1>4. \A d, e \in events : d.id = e.id => d = e BY DEF Audit!TypeOK
<1>5. Listing(fresh) BY <1>1, <1>2, <1>3, <1>4 DEF Listing
<1>6. MaxEvents - 1 \in Nat /\ Audit!AtMost(Limit, MaxEvents) \in Nat
  BY DEF Audit!Bounds, Audit!AtMost
<1>7. /\ Audit!Pruned = Audit!Newest(fresh, MaxEvents - 1)
      /\ Audit!Selected = Audit!Newest(fresh, Audit!AtMost(Limit, MaxEvents))
  BY DEF Audit!Pruned, Audit!Selected
<1>8. \A d \in events \ fresh : d.at < Audit!Cutoff
  BY DEF Audit!TypeOK, Audit!Event, Audit!Time, Audit!Cutoff, Audit!Bounds
<1> HIDE DEF fresh
<1> QED BY <1>1, <1>5, <1>6, <1>7, <1>8, NewestBounded

LEMMA LogSteps ==
  ASSUME Audit!TypeOK, [Audit!Next]_Audit!vars
  PROVE  LogKept \/ LogEmptied \/ LogAppended
<1>1. ASSUME NEW s \in Store, Audit!Call(s) PROVE LogKept \/ LogEmptied \/ LogAppended
  <2>1. CASE Audit!Begin(s) BY <2>1 DEF Audit!Begin, LogKept, Audit!disk
  <2>2. CASE Audit!PrepareToRecord(s)
    BY <2>2 DEF Audit!PrepareToRecord, LogKept, LogEmptied, Audit!disk, Audit!TypeOK
  <2>3. CASE Audit!PrepareToRead(s) BY <2>3 DEF Audit!PrepareToRead, LogKept, Audit!disk
  <2>4. CASE Audit!Insert(s) BY <2>4 DEF Audit!Insert, LogAppended
  <2>5. CASE Audit!Select(s) BY <2>5 DEF Audit!Select, LogKept, Audit!disk
  <2>6. CASE Audit!Answer(s) BY <2>6 DEF Audit!Answer, LogKept, Audit!disk
  <2>7. CASE Audit!Fail(s) BY <2>7 DEF Audit!Fail, LogKept, Audit!disk
  <2> QED BY <1>1, <2>1, <2>2, <2>3, <2>4, <2>5, <2>6, <2>7 DEF Audit!Call
<1>2. ASSUME NEW s \in Store, Audit!Close(s) \/ Audit!Restart(s) PROVE LogKept
  BY <1>2 DEF Audit!Close, Audit!Restart, LogKept, Audit!disk
<1>3. CASE Audit!Tick BY <1>3 DEF Audit!Tick, LogKept, Audit!disk
<1>4. CASE Audit!Remove BY <1>4 DEF Audit!Remove, LogEmptied
<1>5. CASE UNCHANGED Audit!vars BY <1>5 DEF Audit!vars, LogKept
<1> QED BY <1>1, <1>2, <1>3, <1>4, <1>5 DEF Audit!Next

\* The rows stay finitely many, and within the bound from the first commit on.
LogInv ==
  /\ IsFiniteSet(events)
  /\ auditSchema # "earlier" => Cardinality(events) <= MaxEvents

LEMMA LogNext ==
  ASSUME Audit!Bounds, Audit!TypeOK, LogInv, [Audit!Next]_Audit!vars
  PROVE  /\ LogInv'
         /\ events' \subseteq Audit!Event
         /\ lastId' \in 0 .. MaxId
         /\ \A e \in events' : e.id <= lastId'
         /\ \A d, e \in events' : d.id = e.id => d = e
<1>1. LogKept \/ LogEmptied \/ LogAppended BY LogSteps
<1>2. CASE LogKept BY <1>2 DEF LogKept, Audit!TypeOK, LogInv
<1>3. CASE LogEmptied BY <1>3, FS_EmptySet DEF LogEmptied, LogInv, Audit!Bounds
<1>4. CASE LogAppended
  <2> DEFINE new == [id |-> Audit!NextId, at |-> auditClock]
  <2>1. lastId \in Nat /\ Audit!NextId \in 1 .. MaxId /\ Audit!NextId > lastId
    BY <1>4 DEF LogAppended, Audit!NextId, Audit!TypeOK, Audit!Bounds
  <2>2. new \in Audit!Event /\ new.id = Audit!NextId BY <2>1 DEF Audit!Event, Audit!TypeOK
  <2>3. events' = Audit!Pruned \cup {new} /\ lastId' = Audit!NextId BY <1>4 DEF LogAppended
  <2>4. /\ Audit!Pruned \subseteq events /\ IsFiniteSet(Audit!Pruned)
        /\ Cardinality(Audit!Pruned) <= MaxEvents - 1
    BY LogPruned DEF LogInv
  <2>5. Cardinality(Audit!Pruned) \in Nat BY <2>4, FS_CardinalityType
  <2> HIDE DEF new
  <2>6. IsFiniteSet(events') BY <2>3, <2>4, FS_AddElement
  <2>7. Cardinality(events') <= Cardinality(Audit!Pruned) + 1
    BY <2>3, <2>4, <2>5, FS_AddElement
  <2>8. LogInv'
    <3>1. Cardinality(events') \in Nat BY <2>6, FS_CardinalityType
    <3> QED BY <2>4, <2>5, <2>6, <2>7, <3>1 DEF LogInv, Audit!Bounds
  <2>9. \A e \in events : e \in Audit!Event /\ e.id \in Nat /\ e.id < Audit!NextId
    BY <2>1 DEF Audit!TypeOK, Audit!Event, Audit!NextId
  <2>10. \A d, e \in events : d.id = e.id => d = e BY DEF Audit!TypeOK
  <2>11. events' \subseteq Audit!Event BY <2>2, <2>3, <2>4, <2>9
  <2>12. \A e \in events' : e.id <= lastId' BY <2>1, <2>2, <2>3, <2>4, <2>9
  <2>13. \A d, e \in events' : d.id = e.id => d = e
    BY <2>1, <2>2, <2>3, <2>4, <2>9, <2>10
  <2>14. lastId' \in 0 .. MaxId BY <2>1, <2>3
  <2> QED BY <2>8, <2>11, <2>12, <2>13, <2>14
<1> QED BY <1>1, <1>2, <1>3, <1>4

\* The part of TypeOK that is not about the rows.
LogRestOK ==
  /\ auditClock \in Audit!Time
  /\ auditFile \in 0 .. MaxFiles /\ auditMade \in 0 .. MaxFiles
  /\ auditSchema \in {"none", "earlier", "ours"}
  /\ auditClosed \in [Store -> BOOLEAN]
  /\ identity \in [Store -> 0 .. MaxFiles]
  /\ auditPc \in [Store -> {"idle", "record", "recent", "insert", "select", "answer"}]
  /\ auditExpected \in [Store -> 0 .. MaxFiles]
  /\ read \in [Store -> SUBSET Audit!Event]
  /\ wrote \in [Store -> SUBSET (1 .. MaxFiles)]

LEMMA LogRestNext ==
  ASSUME Audit!Bounds, Audit!TypeOK, LogInv, [Audit!Next]_Audit!vars,
         \A s \in Store : auditPc[s] = "insert" => auditExpected[s] \in 1 .. MaxFiles
  PROVE  LogRestOK'
<1> USE DEF LogRestOK, Audit!Goto, Audit!End
<1>0. LogRestOK /\ 0 \in 0 .. MaxFiles BY DEF Audit!TypeOK, Audit!Bounds
<1>1. ASSUME NEW s \in Store, Audit!Begin(s) PROVE LogRestOK'
  BY <1>0, <1>1 DEF Audit!Begin, Audit!disk
<1>2. ASSUME NEW s \in Store, Audit!PrepareToRecord(s) PROVE LogRestOK'
  <2>1. auditFile' \in 0 .. MaxFiles /\ auditMade' \in 0 .. MaxFiles
    BY <1>0, <1>2 DEF Audit!PrepareToRecord, Audit!disk, Audit!Bounds
  <2>2. auditSchema' \in {"none", "earlier", "ours"}
    BY <1>0, <1>2 DEF Audit!PrepareToRecord, Audit!disk
  <2>3. auditClock' = auditClock /\ auditClosed' = auditClosed /\ read' = read /\ wrote' = wrote
    BY <1>2 DEF Audit!PrepareToRecord
  <2>4. /\ identity' \in [Store -> 0 .. MaxFiles]
        /\ auditExpected' \in [Store -> 0 .. MaxFiles]
        /\ auditPc' \in [Store -> {"idle", "record", "recent", "insert", "select", "answer"}]
    BY <1>0, <1>2, <2>1 DEF Audit!PrepareToRecord
  <2> QED BY <1>0, <2>1, <2>2, <2>3, <2>4
<1>3. ASSUME NEW s \in Store, Audit!PrepareToRead(s) PROVE LogRestOK'
  BY <1>0, <1>3 DEF Audit!PrepareToRead, Audit!disk
<1>4. ASSUME NEW s \in Store, Audit!Insert(s) PROVE LogRestOK'
  <2>1. auditFile \in 1 .. MaxFiles BY <1>4 DEF Audit!Insert
  <2> QED BY <1>0, <1>4, <2>1 DEF Audit!Insert
<1>5. ASSUME NEW s \in Store, Audit!Select(s) PROVE LogRestOK'
  <2>1. Audit!Selected \subseteq Audit!Event BY LogPruned DEF LogInv, Audit!TypeOK
  <2> QED BY <1>0, <1>5, <2>1 DEF Audit!Select, Audit!disk
<1>6. ASSUME NEW s \in Store, Audit!Answer(s) PROVE LogRestOK'
  BY <1>0, <1>6 DEF Audit!Answer, Audit!disk
<1>7. ASSUME NEW s \in Store, Audit!Fail(s) PROVE LogRestOK'
  BY <1>0, <1>7 DEF Audit!Fail, Audit!disk
<1>8. ASSUME NEW s \in Store, Audit!Close(s) PROVE LogRestOK'
  BY <1>0, <1>8 DEF Audit!Close, Audit!disk
<1>9. ASSUME NEW s \in Store, Audit!Restart(s) PROVE LogRestOK'
  BY <1>0, <1>9 DEF Audit!Restart, Audit!disk
<1>10. CASE Audit!Tick BY <1>0, <1>10 DEF Audit!Tick, Audit!disk
<1>11. CASE Audit!Remove BY <1>0, <1>11 DEF Audit!Remove
<1>12. CASE UNCHANGED Audit!vars BY <1>0, <1>12 DEF Audit!vars
<1> QED
  BY <1>1, <1>2, <1>3, <1>4, <1>5, <1>6, <1>7, <1>8, <1>9, <1>10, <1>11, <1>12
     DEF Audit!Next, Audit!Call

-----------------------------------------------------------------------------
(* A runtime writes the one file it knows *)

LogFileInv ==
  \A s \in Store :
    /\ wrote[s] \subseteq {identity[s]}
    /\ auditPc[s] = "insert" => identity[s] # 0 /\ auditExpected[s] = identity[s]

LEMMA LogFileNext ==
  ASSUME Audit!Bounds, Audit!TypeOK, LogFileInv, [Audit!Next]_Audit!vars
  PROVE  LogFileInv'
<1> USE DEF LogFileInv, Audit!Goto, Audit!End
<1>0. \A s \in Store : identity[s] = 0 => wrote[s] = {} BY DEF Audit!TypeOK
<1>t. /\ identity \in [Store -> 0 .. MaxFiles] /\ auditExpected \in [Store -> 0 .. MaxFiles]
      /\ auditPc \in [Store -> {"idle", "record", "recent", "insert", "select", "answer"}]
      /\ wrote \in [Store -> SUBSET (1 .. MaxFiles)]
  BY DEF Audit!TypeOK
<1>1. ASSUME NEW s \in Store, Audit!Begin(s) PROVE LogFileInv' BY <1>t, <1>1 DEF Audit!Begin
<1>2. ASSUME NEW s \in Store, Audit!PrepareToRecord(s) PROVE LogFileInv'
  <2>1. auditFile' # 0 BY <1>2 DEF Audit!PrepareToRecord, Audit!disk, Audit!TypeOK
  <2> QED BY <1>0, <1>t, <1>2, <2>1 DEF Audit!PrepareToRecord, Audit!Known
<1>3. ASSUME NEW s \in Store, Audit!PrepareToRead(s) PROVE LogFileInv'
  BY <1>0, <1>t, <1>3 DEF Audit!PrepareToRead, Audit!Known
<1>4. ASSUME NEW s \in Store, Audit!Insert(s) PROVE LogFileInv' BY <1>t, <1>4 DEF Audit!Insert
<1>5. ASSUME NEW s \in Store, Audit!Select(s) PROVE LogFileInv' BY <1>t, <1>5 DEF Audit!Select
<1>6. ASSUME NEW s \in Store, Audit!Answer(s) PROVE LogFileInv' BY <1>t, <1>6 DEF Audit!Answer
<1>7. ASSUME NEW s \in Store, Audit!Fail(s) PROVE LogFileInv' BY <1>t, <1>7 DEF Audit!Fail
<1>8. ASSUME NEW s \in Store, Audit!Close(s) PROVE LogFileInv' BY <1>8 DEF Audit!Close
<1>9. ASSUME NEW s \in Store, Audit!Restart(s) PROVE LogFileInv' BY <1>t, <1>9 DEF Audit!Restart
<1>10. CASE Audit!Tick BY <1>10 DEF Audit!Tick
<1>11. CASE Audit!Remove BY <1>11 DEF Audit!Remove
<1>12. CASE UNCHANGED Audit!vars BY <1>12 DEF Audit!vars
<1> QED
  BY <1>1, <1>2, <1>3, <1>4, <1>5, <1>6, <1>7, <1>8, <1>9, <1>10, <1>11, <1>12
     DEF Audit!Next, Audit!Call

-----------------------------------------------------------------------------
(* Answers *)

LEMMA LogAnswersNext ==
  ASSUME Audit!Bounds, Audit!TypeOK, LogInv, Audit!AnswersBounded, [Audit!Next]_Audit!vars
  PROVE  Audit!AnswersBounded'
<1>1. ASSUME NEW s \in Store, Audit!Select(s) PROVE Audit!AnswersBounded'
  <2>1. Cardinality(Audit!Selected) <= Audit!AtMost(Limit, MaxEvents) BY LogPruned DEF LogInv
  <2>2. read' = [read EXCEPT ![s] = Audit!Selected] BY <1>1 DEF Audit!Select
  <2> QED BY <2>1, <2>2, SameCardinality DEF Audit!AnswersBounded, Audit!TypeOK
<1>2. ASSUME NEW s \in Store, read' = [read EXCEPT ![s] = {}] PROVE Audit!AnswersBounded'
  <2>1. Cardinality({}) <= Audit!AtMost(Limit, MaxEvents)
    BY FS_EmptySet DEF Audit!Bounds, Audit!AtMost
  <2> QED BY <1>2, <2>1, SameCardinality DEF Audit!AnswersBounded, Audit!TypeOK
<1>3. CASE read' = read BY <1>3 DEF Audit!AnswersBounded
<1>4. \/ read' = read
      \/ \E s \in Store : Audit!Select(s) \/ read' = [read EXCEPT ![s] = {}]
  BY DEF Audit!Next, Audit!vars, Audit!Tick, Audit!Remove, Audit!Call, Audit!Close,
         Audit!Restart, Audit!Begin, Audit!PrepareToRecord, Audit!PrepareToRead,
         Audit!Insert, Audit!Answer, Audit!Fail
<1> QED BY <1>1, <1>2, <1>3, <1>4

-----------------------------------------------------------------------------
(* Together *)

AuditIInv == Audit!TypeOK /\ LogInv /\ LogFileInv /\ Audit!AnswersBounded

LEMMA AuditIInvInit == ASSUME Audit!Bounds, Audit!Init PROVE AuditIInv
<1>1. Audit!TypeOK BY LogTypeInit
<1>2. LogInv
  <2>1. CASE events = {} BY <2>1, FS_EmptySet DEF LogInv, Audit!Bounds
  <2>2. ASSUME NEW ids \in SUBSET (1 .. lastId), NEW at \in [ids -> Audit!Time],
               events = {[id |-> i, at |-> at[i]] : i \in ids},
               auditSchema = "earlier", lastId \in 0 .. MaxId
        PROVE  LogInv
    <3> DEFINE number == [e \in events |-> e.id]
    <3>1. \A e \in events : e.id \in 1 .. lastId BY <2>2
    <3>2. \A d, e \in events : d.id = e.id => d = e BY <1>1 DEF Audit!TypeOK
    <3>3. number \in Injection(events, 1 .. lastId)
      BY <3>1, <3>2 DEF Injection, IsInjective
    <3>4. IsFiniteSet(1 .. lastId) BY <2>2, FS_Interval DEF Audit!Bounds
    <3> HIDE DEF number
    <3> QED BY <2>2, <3>3, <3>4, FS_Injection DEF LogInv
  <2> QED BY <2>1, <2>2 DEF Audit!Init
<1>3. LogFileInv BY DEF Audit!Init, LogFileInv
<1>4. Audit!AnswersBounded
  BY FS_EmptySet, SameCardinality
  DEF Audit!Init, Audit!AnswersBounded, Audit!Bounds, Audit!AtMost
<1> QED BY <1>1, <1>2, <1>3, <1>4 DEF AuditIInv

LEMMA AuditIInvNext == ASSUME Audit!Bounds, AuditIInv, [Audit!Next]_Audit!vars PROVE AuditIInv'
<1>0. Audit!TypeOK /\ LogInv /\ LogFileInv /\ Audit!AnswersBounded BY DEF AuditIInv
<1>1. \A s \in Store : auditPc[s] = "insert" => auditExpected[s] \in 1 .. MaxFiles
  BY <1>0 DEF Audit!TypeOK, LogFileInv
<1>2. LogRestOK' BY <1>0, <1>1, LogRestNext
<1>3. /\ LogInv'
      /\ events' \subseteq Audit!Event
      /\ lastId' \in 0 .. MaxId
      /\ \A e \in events' : e.id <= lastId'
      /\ \A d, e \in events' : d.id = e.id => d = e
  BY <1>0, LogNext
<1>4. Audit!TypeOK' BY <1>2, <1>3 DEF Audit!TypeOK, LogRestOK
<1>5. LogFileInv' BY <1>0, LogFileNext
<1>6. Audit!AnswersBounded' BY <1>0, LogAnswersNext
<1> QED BY <1>3, <1>4, <1>5, <1>6 DEF AuditIInv

LEMMA FilesHold == ASSUME AuditIInv PROVE Audit!OneFile
<1>1. ASSUME NEW s \in Store PROVE Cardinality(wrote[s]) <= 1
  <2>1. wrote[s] \in SUBSET {identity[s]} BY DEF AuditIInv, LogFileInv
  <2>2. IsFiniteSet({identity[s]}) /\ Cardinality({identity[s]}) = 1 BY FS_Singleton
  <2> QED BY <2>1, <2>2, FS_Subset
<1> QED BY <1>1, SameCardinality DEF Audit!OneFile

LEMMA AuditSafety == ASSUME Audit!Bounds PROVE Audit!Spec => []AuditIInv
<1>1. Audit!Init => AuditIInv BY AuditIInvInit
<1>2. AuditIInv /\ [Audit!Next]_Audit!vars => AuditIInv' BY AuditIInvNext
<1> QED BY <1>1, <1>2, PTL DEF Audit!Spec

\* The types of the store's state hold in every reachable state, so the ids of the
\* rows stay distinct and at most sqlite_sequence (record, SCHEMA_DDL).
THEOREM AuditTypeCorrect == ASSUME Audit!Bounds PROVE Audit!Spec => []Audit!TypeOK
<1>1. AuditIInv => Audit!TypeOK BY DEF AuditIInv
<1> QED BY <1>1, AuditSafety, PTL

\* However many runtimes record and prune, with whatever clock, and whatever an earlier
\* version or configuration left: once it has been committed to, the log holds at most
\* max_events rows (record, _verify_schema).
THEOREM LogIsBounded == ASSUME Audit!Bounds PROVE Audit!Spec => []Audit!EventsBounded
<1>1. AuditIInv => Audit!EventsBounded
  BY SameCardinality DEF AuditIInv, LogInv, Audit!EventsBounded
<1> QED BY <1>1, AuditSafety, PTL

\* However often the database is removed and made again, also in the middle of a call,
\* a runtime that lives through it commits to one (st_dev, st_ino) only.  A file that
\* got the removed one's number is the same to it: no descriptor holds the number
\* (_prepare_path, _verify_identity).
THEOREM OneFilePerRuntime == ASSUME Audit!Bounds PROVE Audit!Spec => []Audit!OneFile
<1>1. AuditIInv => Audit!OneFile BY FilesHold
<1> QED BY <1>1, AuditSafety, PTL

\* recent() never answers with more rows than its limit or the log's (recent).
THEOREM RecentIsBounded == ASSUME Audit!Bounds PROVE Audit!Spec => []Audit!AnswersBounded
<1>1. AuditIInv => Audit!AnswersBounded BY DEF AuditIInv
<1> QED BY <1>1, AuditSafety, PTL

\* All that AuditInv says, for any runtimes, bounds and clocks.
THEOREM AuditInvariant == ASSUME Audit!Bounds PROVE Audit!Spec => []AuditInv
<1>1. AuditIInv => AuditInv
  BY FilesHold, SameCardinality
  DEF AuditIInv, LogInv, AuditInv, Audit!AuditInv, Audit!EventsBounded
<1> QED BY <1>1, AuditSafety, PTL

\* What a step takes from a log it keeps had expired, or was the oldest of a full
\* one; what it adds is the newest (record's two DELETEs and its insert).
LEMMA OldestFirst ==
  ASSUME Audit!Bounds, AuditIInv, [Audit!Next]_Audit!vars,
         auditFile' = auditFile, auditMade' = auditMade
  PROVE  /\ \A d \in events \ events' :
              \/ d.at < Audit!Cutoff
              \/ /\ Cardinality(events') = MaxEvents
                 /\ \A e \in events' : e.id > d.id
         /\ \A e \in events' \ events, d \in events : e.id > d.id
<1>1. Audit!TypeOK /\ IsFiniteSet(events) BY DEF AuditIInv, LogInv
<1>2. CASE LogKept BY <1>2 DEF LogKept
<1>3. CASE LogAppended
  <2> DEFINE new == [id |-> Audit!NextId, at |-> auditClock]
  <2>1. events' = Audit!Pruned \cup {new} BY <1>3 DEF LogAppended
  <2>2. \A d \in events : d.id \in Int /\ d.id <= lastId
    BY <1>1 DEF Audit!TypeOK, Audit!Event, Audit!Bounds
  <2>3. lastId \in Int /\ new.id = lastId + 1 BY <1>1 DEF Audit!TypeOK, Audit!NextId, Audit!Bounds
  <2>4. \A d \in events : new.id > d.id BY <2>2, <2>3
  <2>5. Audit!Pruned \subseteq events /\ IsFiniteSet(Audit!Pruned) BY <1>1, LogPruned
  <2>6. new \notin Audit!Pruned BY <2>2, <2>4, <2>5
  <2> HIDE DEF new
  <2>7. Cardinality(Audit!Pruned) = MaxEvents - 1 => Cardinality(events') = MaxEvents
    BY <2>1, <2>5, <2>6, FS_AddElement DEF Audit!Bounds
  <2>8. ASSUME NEW d \in events \ events', ~(d.at < Audit!Cutoff)
        PROVE  /\ Cardinality(events') = MaxEvents
               /\ \A e \in events' : e.id > d.id
    <3>1. /\ Cardinality(Audit!Pruned) = MaxEvents - 1
          /\ \A e \in Audit!Pruned : e.id > d.id
      BY <1>1, <2>1, <2>8, LogPruned
    <3> QED BY <2>1, <2>4, <2>7, <3>1
  <2> QED BY <2>1, <2>4, <2>5, <2>8
<1> QED BY <1>1, <1>2, <1>3, LogSteps DEF LogEmptied

\* Whatever interleaves, an event leaves the log only for its age or for newer ones.
THEOREM NewestStay == ASSUME Audit!Bounds PROVE Audit!Spec => KeepsTheNewest
<1> DEFINE Step == auditFile' = auditFile /\ auditMade' = auditMade =>
       /\ \A d \in events \ events' :
            \/ d.at < Audit!Cutoff
            \/ /\ Audit!Cardinality(events') = MaxEvents
               /\ \A e \in events' : e.id > d.id
       /\ \A e \in events' \ events, d \in events : e.id > d.id
<1>1. AuditIInv /\ [Audit!Next]_Audit!vars => [Step]_Audit!vars
  BY OldestFirst, SameCardinality
<1> QED BY <1>1, AuditSafety, PTL DEF Audit!Spec, KeepsTheNewest, Audit!KeepsTheNewest
=============================================================================
