------------------------ MODULE SmtpTransportProofs -------------------------
(***************************************************************************)
(* Proofs about SmtpTransport, for any number of threads: what a thread        *)
(* reports is true whenever close() strikes, every thread and connection is    *)
(* counted off on every path, and nothing is transmitted once close() has been  *)
(* through the clients.                                                        *)
(***************************************************************************)
EXTENDS SmtpTransport, FiniteSetTheorems, TLAPS

Busy == {w \in Worker : pc[w] # "idle"}

\* Where a thread's client is in _active_clients.
Registered == {"greet", "secrets", "auth", "envelope", "data", "reply"}

\* Where the message may have gone out.
Sent == {"reply", "finish", "leave", "idle"}

-----------------------------------------------------------------------------
(* The inductive invariant *)

\* A socket exists from the factory to the finish, and is known while it is used.
SocketOK(w) ==
  /\ pc[w] \in {"idle", "connect", "leave"} => sock[w] # "open"
  /\ pc[w] \in {"idle", "connect", "register", "leave"} => w \notin active
  /\ pc[w] \in Registered => w \in active

\* Nothing is taken before DATA, nothing is reported before the end, and what is
\* reported is true.
ReportOK(w) ==
  /\ pc[w] \notin Sent => ~taken[w]
  /\ pc[w] \in Registered \cup {"connect", "register"} => result[w] = None
  /\ result[w] = "accepted" => taken[w]
  /\ result[w] \in Definite => ~taken[w]

\* close() comes to every socket that may still transmit.
ReachedOK(w) ==
  /\ closed /\ pc[w] \in Registered /\ sock[w] = "open" => closer = "shutting" /\ w \in found
  /\ closer = "drained" => pc[w] = "idle"

CloserOK == closed <=> closer # "idle"

CountOK == workers = Cardinality(Busy)

ThreadOK(w) == SocketOK(w) /\ ReportOK(w) /\ ReachedOK(w)

IInv == TypeOK /\ CloserOK /\ CountOK /\ \A w \in Worker : ThreadOK(w)

-----------------------------------------------------------------------------
(* What a thread's step touches: its own entries, and none of close()'s. *)

Types ==
  /\ pc \in [Worker -> PC]
  /\ sock \in [Worker -> {"none", "open", "shut"}]
  /\ taken \in [Worker -> BOOLEAN]
  /\ result \in [Worker -> Result \cup {None}]
  /\ active \subseteq Worker

Own(w) ==
  /\ UNCHANGED <<closed, closer, found>>
  /\ \A q \in Worker \ {w} :
       /\ pc'[q] = pc[q] /\ sock'[q] = sock[q]
       /\ taken'[q] = taken[q] /\ result'[q] = result[q]
       /\ q \in active' <=> q \in active

Work(w) == Enter(w) \/ Connect(w) \/ Fail(w) \/ Online(w)

LEMMA WorkTypes ==
  ASSUME TypeOK, NEW w \in Worker, Work(w)
  PROVE  Types' /\ Own(w)
<1> DEFINE Goal == Types' /\ Own(w)
<1> USE DEF Types, Own, lifecycle, At
<1>0. Types /\ w \in Worker BY DEF TypeOK
<1>1. ASSUME NEW p \in PC, Goto(w, p)
      PROVE  pc' \in [Worker -> PC] /\ \A q \in Worker \ {w} : pc'[q] = pc[q]
  BY <1>0, <1>1 DEF Goto
<1>2. ASSUME NEW r \in Result \cup {None}, Ends(w, r)
      PROVE  /\ result' \in [Worker -> Result \cup {None}]
             /\ \A q \in Worker \ {w} : result'[q] = result[q]
  BY <1>0, <1>2 DEF Ends
<1>3. /\ \A p \in {"idle", "connect", "register", "greet", "secrets", "auth", "envelope",
                   "data", "reply", "finish", "leave"} : p \in PC
      /\ \A r \in {"closed", "failed", "rejected", "healthy", "accepted", "unknown", None} :
           r \in Result \cup {None}
  BY DEF PC, Result, Definite
<1>4. ASSUME NEW s \in {"none", "open", "shut"}, sock' = [sock EXCEPT ![w] = s]
      PROVE  /\ sock' \in [Worker -> {"none", "open", "shut"}]
             /\ \A q \in Worker \ {w} : sock'[q] = sock[q]
  BY <1>0, <1>4
<1>5. ASSUME NEW b \in BOOLEAN, taken' = [taken EXCEPT ![w] = b]
      PROVE  taken' \in [Worker -> BOOLEAN] /\ \A q \in Worker \ {w} : taken'[q] = taken[q]
  BY <1>0, <1>5
<1>6. CASE Enter(w) BY <1>0, <1>1, <1>2, <1>3, <1>4, <1>5, <1>6 DEF Enter
<1>7. CASE Connect(w) BY <1>0, <1>1, <1>3, <1>4, <1>7 DEF Connect
<1>8. CASE Fail(w) BY <1>0, <1>1, <1>2, <1>3, <1>8 DEF Fail
<1>9. CASE Register(w) BY <1>0, <1>1, <1>2, <1>3, <1>4, <1>9 DEF Register
<1>10. CASE Greet(w) BY <1>0, <1>1, <1>2, <1>3, <1>10 DEF Greet
<1>11. CASE Secrets(w) BY <1>0, <1>1, <1>3, <1>11 DEF Secrets
<1>12. CASE Auth(w) BY <1>0, <1>1, <1>2, <1>3, <1>12 DEF Auth
<1>13. CASE Envelope(w) BY <1>0, <1>1, <1>3, <1>13 DEF Envelope
<1>14. CASE Data(w) BY <1>0, <1>1, <1>3, <1>5, <1>14 DEF Data
<1>15. CASE Interrupted(w) BY <1>0, <1>1, <1>2, <1>3, <1>15 DEF Interrupted
<1>16. CASE Reply(w) BY <1>0, <1>1, <1>2, <1>3, <1>16 DEF Reply
<1>17. CASE FinishClient(w) BY <1>0, <1>1, <1>3, <1>4, <1>17 DEF FinishClient
<1>18. CASE Leave(w) BY <1>0, <1>1, <1>3, <1>18 DEF Leave
<1> QED
  BY <1>6, <1>7, <1>8, <1>9, <1>10, <1>11, <1>12, <1>13, <1>14, <1>15, <1>16, <1>17, <1>18
  DEF Work, Online
-----------------------------------------------------------------------------
(* The thread that steps *)

LEMMA ThreadStep ==
  ASSUME IInv, NEW w \in Worker, Work(w)
  PROVE  ThreadOK(w)'
<1> DEFINE Goal == ThreadOK(w)'
<1> USE DEF ThreadOK, SocketOK, ReportOK, ReachedOK, Registered, Sent, lifecycle, At
<1>0. /\ pc \in [Worker -> PC] /\ sock \in [Worker -> {"none", "open", "shut"}]
      /\ taken \in [Worker -> BOOLEAN] /\ result \in [Worker -> Result \cup {None}]
      /\ ThreadOK(w) /\ UNCHANGED <<closed, closer, found>>
  BY WorkTypes DEF IInv, TypeOK, Own
<1>1. ASSUME NEW p, Goto(w, p) PROVE pc'[w] = p BY <1>0, <1>1 DEF Goto
<1>2. ASSUME NEW r, Ends(w, r) PROVE result'[w] = r BY <1>0, <1>2 DEF Ends
<1>3. /\ \A r \in {"closed", "failed", "rejected", "healthy"} : r \in Definite
      /\ "accepted" \notin Definite /\ "unknown" \notin Definite
  BY DEF Definite
<1>4. closer = "drained" => closed BY DEF IInv, CloserOK
<1>5. None \notin Definite /\ None # "accepted" BY NoneIsNoResult DEF Result
<1>6. CASE Enter(w) BY <1>0, <1>1, <1>2, <1>3, <1>4, <1>5, <1>6 DEF Enter
<1>7. CASE Connect(w) BY <1>0, <1>1, <1>4, <1>7 DEF Connect
<1>8. CASE Fail(w) BY <1>0, <1>1, <1>2, <1>3, <1>4, <1>8 DEF Fail
<1>9. CASE Register(w) BY <1>0, <1>1, <1>2, <1>3, <1>4, <1>9 DEF Register
<1>10. CASE Greet(w) BY <1>0, <1>1, <1>2, <1>3, <1>10 DEF Greet
<1>11. CASE Secrets(w) BY <1>0, <1>1, <1>3, <1>11 DEF Secrets
<1>12. CASE Auth(w) BY <1>0, <1>1, <1>2, <1>3, <1>12 DEF Auth
<1>13. CASE Envelope(w) BY <1>0, <1>1, <1>3, <1>13 DEF Envelope
<1>14. CASE Data(w) BY <1>0, <1>1, <1>3, <1>5, <1>14 DEF Data
<1>15. CASE Interrupted(w) BY <1>0, <1>1, <1>2, <1>3, <1>15 DEF Interrupted
<1>16. CASE Reply(w) BY <1>0, <1>1, <1>2, <1>3, <1>16 DEF Reply
<1>17. CASE FinishClient(w) BY <1>0, <1>1, <1>3, <1>17 DEF FinishClient
<1>18. CASE Leave(w) BY <1>0, <1>1, <1>3, <1>18 DEF Leave
<1> QED
  BY <1>6, <1>7, <1>8, <1>9, <1>10, <1>11, <1>12, <1>13, <1>14, <1>15, <1>16, <1>17, <1>18
  DEF Work, Online

\* _active_workers counts the threads inside: Enter and Leave change both.
LEMMA CountStep ==
  ASSUME IInv, NEW w \in Worker, Work(w)
  PROVE  CountOK'
<1>0. pc \in [Worker -> PC] /\ workers = Cardinality(Busy) BY DEF IInv, TypeOK, CountOK
<1>1. IsFiniteSet(Busy) /\ workers \in Nat
  <2>1. Busy \in SUBSET Worker BY DEF Busy
  <2>2. IsFiniteSet(Busy) BY <2>1, FS_Subset, WorkersFinite
  <2> QED BY <1>0, <2>2, FS_CardinalityType
<1>2. \A q \in Worker \ {w} : pc'[q] = pc[q] BY WorkTypes DEF IInv, Own
<1>3. ASSUME NEW p, Goto(w, p) PROVE pc'[w] = p BY <1>0, <1>3 DEF Goto
<1>4. Busy' = IF pc'[w] = "idle" THEN Busy \ {w} ELSE Busy \cup {w} BY <1>2 DEF Busy
<1>5. \/ workers' = workers /\ (pc[w] = "idle" <=> pc'[w] = "idle")
      \/ workers' = workers + 1 /\ pc[w] = "idle" /\ pc'[w] # "idle"
      \/ workers' = workers - 1 /\ pc[w] # "idle" /\ pc'[w] = "idle"
  <2> USE DEF At, lifecycle
  <2>1. CASE Enter(w) BY <1>3, <2>1 DEF Enter
  <2>2. CASE Connect(w) \/ Fail(w) BY <1>3, <2>2 DEF Connect, Fail
  <2>3. CASE Register(w) \/ Greet(w) \/ Secrets(w) \/ Auth(w) \/ Envelope(w) \/ Data(w)
    BY <1>3, <2>3 DEF Register, Greet, Secrets, Auth, Envelope, Data
  <2>4. CASE Interrupted(w) \/ Reply(w) \/ FinishClient(w)
    BY <1>3, <2>4 DEF Interrupted, Reply, FinishClient
  <2>5. CASE Leave(w) BY <1>3, <2>5 DEF Leave
  <2> QED BY <2>1, <2>2, <2>3, <2>4, <2>5 DEF Work, Online
<1>6. CASE pc[w] = "idle" /\ pc'[w] = "idle"
  <2>1. Busy' = Busy BY <1>4, <1>6 DEF Busy
  <2> QED BY <1>0, <1>5, <1>6, <2>1 DEF CountOK
<1>7. CASE pc[w] # "idle" /\ pc'[w] # "idle"
  <2>1. Busy' = Busy BY <1>4, <1>7 DEF Busy
  <2> QED BY <1>0, <1>5, <1>7, <2>1 DEF CountOK
<1>8. CASE pc[w] = "idle" /\ pc'[w] # "idle"
  <2>1. Busy' = Busy \cup {w} /\ w \notin Busy BY <1>4, <1>8 DEF Busy
  <2>2. Cardinality(Busy') = Cardinality(Busy) + 1 BY <1>1, <2>1, FS_AddElement
  <2> QED BY <1>0, <1>5, <1>8, <2>2 DEF CountOK
<1>9. CASE pc[w] # "idle" /\ pc'[w] = "idle"
  <2>1. Busy' = Busy \ {w} /\ w \in Busy BY <1>4, <1>9 DEF Busy
  <2>2. Cardinality(Busy') = Cardinality(Busy) - 1 BY <1>1, <2>1, FS_RemoveElement
  <2> QED BY <1>0, <1>5, <1>9, <2>2 DEF CountOK
<1> QED BY <1>6, <1>7, <1>8, <1>9

LEMMA PartCounted ==
  ASSUME NEW S \in SUBSET Worker
  PROVE  Cardinality(S) \in 0 .. Cardinality(Worker)
<1>1. IsFiniteSet(S) /\ Cardinality(S) <= Cardinality(Worker) BY FS_Subset, WorkersFinite
<1>2. Cardinality(S) \in Nat /\ Cardinality(Worker) \in Nat
  BY <1>1, FS_CardinalityType, WorkersFinite
<1> QED BY <1>1, <1>2

LEMMA WorkInv ==
  ASSUME IInv, NEW w \in Worker, Work(w)
  PROVE  IInv'
<1>1. Types' /\ Own(w) BY WorkTypes DEF IInv
<1>2. ASSUME NEW q \in Worker PROVE ThreadOK(q)'
  <2>1. CASE q = w BY <2>1, ThreadStep
  <2>2. CASE q # w
    BY <1>1, <2>2 DEF IInv, Own, ThreadOK, SocketOK, ReportOK, ReachedOK
  <2> QED BY <2>1, <2>2
<1>3. CountOK' BY CountStep
<1>4. CloserOK' BY <1>1 DEF IInv, CloserOK, Own
<1>5. (workers \in 0 .. Cardinality(Worker))'
  <2>1. Busy' \in SUBSET Worker BY DEF Busy
  <2>2. workers' = Cardinality(Busy') BY <1>3 DEF CountOK
  <2> QED BY <2>1, <2>2, PartCounted
<1>6. TypeOK' BY <1>1, <1>5 DEF IInv, TypeOK, Types, Own
<1> QED BY <1>2, <1>3, <1>4, <1>6 DEF IInv

-----------------------------------------------------------------------------
(* close *)

LEMMA CloseInv ==
  ASSUME IInv, CloseBegin \/ Closing
  PROVE  IInv'
<1> USE DEF ThreadOK, SocketOK, ReportOK, ReachedOK, Registered, Sent
<1>1. CASE CloseBegin
  <2>1. /\ closer = "idle" /\ closed' = TRUE /\ found' = active /\ closer' = "shutting"
        /\ UNCHANGED <<pc, sock, taken, result, active, workers>>
    BY <1>1 DEF CloseBegin
  <2>2. TypeOK' BY <2>1 DEF IInv, TypeOK
  <2> QED BY <2>1, <2>2 DEF IInv, CloserOK, CountOK, Busy
<1>2. ASSUME NEW w \in Worker, CloseClient(w) PROVE IInv'
  <2>1. /\ closer = "shutting" /\ sock' = [sock EXCEPT ![w] = "shut"] /\ found' = found \ {w}
        /\ UNCHANGED <<pc, taken, result, active, workers, closed, closer>>
    BY <1>2 DEF CloseClient
  <2>2. /\ sock' \in [Worker -> {"none", "open", "shut"}] /\ sock'[w] = "shut"
        /\ \A q \in Worker \ {w} : sock'[q] = sock[q]
    BY <2>1 DEF IInv, TypeOK
  <2>3. TypeOK' BY <2>1, <2>2 DEF IInv, TypeOK
  <2>4. ASSUME NEW q \in Worker PROVE ThreadOK(q)'
    <3>1. CASE q = w BY <2>1, <2>2, <3>1 DEF IInv
    <3>2. CASE q # w BY <2>1, <2>2, <3>2 DEF IInv
    <3> QED BY <3>1, <3>2
  <2> QED BY <2>1, <2>3, <2>4 DEF IInv, CloserOK, CountOK, Busy
<1>3. CASE CloseWaits
  <2>1. /\ closer = "shutting" /\ found = {} /\ closer' = "waiting"
        /\ UNCHANGED <<pc, sock, taken, result, active, workers, closed, found>>
    BY <1>3 DEF CloseWaits
  <2>2. TypeOK' BY <2>1 DEF IInv, TypeOK
  <2> QED BY <2>1, <2>2 DEF IInv, CloserOK, CountOK, Busy
<1>4. CASE CloseEnds
  <2>1. /\ closer = "waiting" /\ closer' \in {"drained", "timed out"}
        /\ closer' = "drained" => workers = 0
        /\ UNCHANGED <<pc, sock, taken, result, active, workers, closed, found>>
    BY <1>4 DEF CloseEnds
  <2>2. TypeOK' BY <2>1 DEF IInv, TypeOK
  <2>3. ASSUME workers = 0, NEW w \in Worker PROVE pc[w] = "idle"
    <3>1. Busy \in SUBSET Worker BY DEF Busy
    <3>2. IsFiniteSet(Busy) BY <3>1, FS_Subset, WorkersFinite
    <3>3. Busy = {} BY <2>3, <3>2, FS_EmptySet DEF IInv, CountOK
    <3> QED BY <3>3 DEF Busy
  <2> QED BY <2>1, <2>2, <2>3 DEF IInv, CloserOK, CountOK, Busy
<1> QED BY <1>1, <1>2, <1>3, <1>4 DEF Closing

LEMMA InitInv == Init => IInv
<1> SUFFICES ASSUME Init PROVE IInv OBVIOUS
<1>1. Busy = {} BY DEF Init, Busy
<1>2. Cardinality(Busy) = 0 BY <1>1, FS_EmptySet
<1>3. Cardinality(Worker) \in Nat BY FS_CardinalityType, WorkersFinite
<1>4. TypeOK
  <2>1. 0 \in 0 .. Cardinality(Worker) /\ "idle" \in PC BY <1>3 DEF PC
  <2>2. pc \in [Worker -> PC] BY <2>1 DEF Init
  <2>3. sock \in [Worker -> {"none", "open", "shut"}] BY DEF Init
  <2>4. taken \in [Worker -> BOOLEAN] BY DEF Init
  <2>5. result \in [Worker -> Result \cup {None}] BY DEF Init
  <2> QED BY <2>1, <2>2, <2>3, <2>4, <2>5 DEF Init, TypeOK
<1>5. None \notin Definite /\ None # "accepted" BY NoneIsNoResult DEF Result
<1> QED
  BY <1>2, <1>4, <1>5
  DEF Init, IInv, CloserOK, CountOK, ThreadOK, SocketOK, ReportOK, ReachedOK, Registered, Sent

LEMMA StepInv == IInv /\ [Next]_vars => IInv'
<1> SUFFICES ASSUME IInv, [Next]_vars PROVE IInv' OBVIOUS
<1>1. ASSUME NEW w \in Worker, Enter(w) \/ Connect(w) \/ Fail(w) \/ Online(w) PROVE IInv'
  BY <1>1, WorkInv DEF Work
<1>2. CASE CloseBegin \/ Closing BY <1>2, CloseInv
<1>3. CASE UNCHANGED vars
  BY <1>3 DEF vars, IInv, TypeOK, CloserOK, CountOK, Busy, ThreadOK, SocketOK, ReportOK, ReachedOK
<1> QED BY <1>1, <1>2, <1>3 DEF Next

LEMMA Safety == Spec => []IInv
BY InitInv, StepInv, PTL DEF Spec

-----------------------------------------------------------------------------

\* For any number of threads and whenever close() strikes: what submit_once reports
\* of delivery is what the server did, no connection outlives its call, and the
\* count that close() waits for is the number of threads inside.
THEOREM TransportInvariant == Spec => []SmtpInv
<1>1. IInv => SmtpInv
  <2> SUFFICES ASSUME IInv PROVE SmtpInv OBVIOUS
  <2>1. OutcomeTrue BY DEF IInv, ThreadOK, ReportOK, OutcomeTrue
  <2>2. NoConnectionLeaks BY DEF IInv, ThreadOK, SocketOK, NoConnectionLeaks
  <2>3. DrainIsReal BY DEF IInv, ThreadOK, ReachedOK, CountOK, Busy, DrainIsReal
  <2> QED BY <2>1, <2>2, <2>3 DEF IInv, SmtpInv
<1> QED BY <1>1, Safety, PTL

\* Once close() has gone through its clients no thread authenticates or hands a
\* message over, the ones that were still connecting included.
THEOREM NothingAfterClose == Spec => NothingSentAfterClose
<1> DEFINE Step == closer \notin {"idle", "shutting"} =>
             \A w \in Worker : pc'[w] \in {"envelope", "reply"} => pc'[w] = pc[w]
<1>1. IInv /\ [Next]_vars => [Step]_vars
  <2> SUFFICES ASSUME IInv, [Next]_vars, closer \notin {"idle", "shutting"}, NEW w \in Worker,
                      pc'[w] \in {"envelope", "reply"}, pc'[w] # pc[w]
               PROVE  FALSE
    OBVIOUS
  <2>1. Work(w)
    <3>1. ASSUME NEW q \in Worker, Work(q) PROVE Work(w)
      <4>1. Own(q) BY <3>1, WorkTypes DEF IInv
      <4>2. q = w BY <4>1 DEF Own
      <4> QED BY <3>1, <4>2
    <3>2. CASE CloseBegin \/ Closing
      BY <3>2 DEF CloseBegin, Closing, CloseClient, CloseWaits, CloseEnds
    <3>3. CASE UNCHANGED vars BY <3>3 DEF vars
    <3> QED BY <3>1, <3>2, <3>3 DEF Next, Work
  <2>2. pc \in [Worker -> PC] BY DEF IInv, TypeOK
  <2>3. ASSUME NEW p, Goto(w, p) PROVE p \in {"envelope", "reply"}
    BY <2>2, <2>3 DEF Goto
  <2>4. pc[w] \in {"auth", "data"} /\ sock[w] = "open"
    <3> USE DEF At
    <3>1. CASE Enter(w) \/ Connect(w) \/ Fail(w)
      BY <2>3, <3>1 DEF Enter, Connect, Fail
    <3>2. CASE Register(w) \/ Greet(w) \/ Secrets(w) \/ Envelope(w)
      BY <2>3, <3>2 DEF Register, Greet, Secrets, Envelope
    <3>3. CASE Interrupted(w) \/ Reply(w) \/ FinishClient(w) \/ Leave(w)
      BY <2>3, <3>3 DEF Interrupted, Reply, FinishClient, Leave
    <3>4. CASE Auth(w) \/ Data(w) BY <3>4 DEF Auth, Data
    <3> QED BY <2>1, <3>1, <3>2, <3>3, <3>4 DEF Work, Online
  <2>5. closed /\ closer # "shutting" BY DEF IInv, CloserOK
  <2> QED BY <2>4, <2>5 DEF IInv, ThreadOK, ReachedOK, Registered
<1> QED BY <1>1, Safety, PTL DEF Spec, NothingSentAfterClose
=============================================================================
