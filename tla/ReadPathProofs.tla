--------------------------- MODULE ReadPathProofs ---------------------------
(***************************************************************************)
(* Proofs about the layers of a read.  The sessions, for any number of workers:  *)
(* once close() has been through its sockets no session sends credentials.  The  *)
(* runtime, for any number of calls: mail that is handed out was recorded, and a *)
(* closed runtime stays silent.  The scan, for any folders and limits: a claim   *)
(* to be complete is true, nothing is shown twice, and folders take turns.       *)
(***************************************************************************)
EXTENDS ReadPath, FiniteSetTheorems, TLAPS

\* What the theorems assume of the constants.
Bounds == IsFiniteSet(Worker) /\ MaxFaults \in Nat

Running == {w \in Worker : pc[w] \notin {"idle", "ended"}}

\* Where a worker is whose client is registered, and where it was registered once.
Registered == {"open?", "username", "between", "password", "after", "login", "select",
               "fetch", "hangup", "forget"}
Past == Registered \cup {"exit", "ended"}

-----------------------------------------------------------------------------
(* The sessions: the inductive invariant *)

\* _active_clients is what is registered; a socket exists from dial to hang-up.
SocketOK(w) ==
  /\ w \in clients <=> pc[w] \in Registered
  /\ pc[w] \in {"idle", "connect", "dial"} => sock[w] = "none"
  /\ pc[w] \in {"forget", "exit", "ended"} => sock[w] # "open"

\* Whoever may send credentials has a verified peer.
PeerOK(w) ==
  /\ pc[w] \in Registered \cup {"register"} => w \in verified
  /\ w \in sent => w \in verified

\* Once _closed is set, an open registered socket is one close() will come to.
ReachedOK(w) ==
  /\ w \in snapshot => pc[w] \in Past
  /\ closed /\ w \in clients /\ sock[w] = "open" => closing = "interrupting" /\ w \in snapshot
  /\ closing = "returned" => pc[w] \in {"idle", "ended"}

CloseOK ==
  /\ closed <=> closing # "no"
  /\ Interrupted => snapshot = {}

WorkerOK(w) == SocketOK(w) /\ PeerOK(w) /\ ReachedOK(w)

IInv == TypeOK /\ CloseOK /\ \A w \in Worker : WorkerOK(w)

-----------------------------------------------------------------------------
(* What a worker's step touches: its own entries, and none of close()'s. *)

Types ==
  /\ pc \in [Worker -> PC]
  /\ sock \in [Worker -> {"none", "open", "shut"}]
  /\ result \in [Worker -> {"none", "page", "error"}]
  /\ clients \subseteq Worker /\ sent \subseteq Worker /\ verified \subseteq Worker
  /\ faults \in 0 .. MaxFaults

Own(w) ==
  /\ UNCHANGED closer
  /\ \A q \in Worker \ {w} :
       /\ pc'[q] = pc[q] /\ sock'[q] = sock[q]
       /\ q \in clients' <=> q \in clients
       /\ q \in sent' <=> q \in sent
       /\ q \in verified' <=> q \in verified

Work(w) == Enter(w) \/ Dial(w) \/ Step(w)

\* Where a step may lead.
Moves(w) == \E next \in PC : pc' = [pc EXCEPT ![w] = next]

LEMMA WorkTypes ==
  ASSUME Bounds, TypeOK, NEW w \in Worker, Work(w)
  PROVE  Types' /\ Own(w) /\ Moves(w)
<1> DEFINE Goal == Types' /\ Own(w) /\ Moves(w)
<1> USE DEF Types, Own, Moves, closer, wire
<1>0. Types BY DEF TypeOK
<1>1. ASSUME NEW next \in PC, Go(w, next) \/ Error(w, next)
      PROVE  /\ pc' \in [Worker -> PC] /\ result' \in [Worker -> {"none", "page", "error"}]
             /\ \A q \in Worker \ {w} : pc'[q] = pc[q]
             /\ pc' = [pc EXCEPT ![w] = next]
  BY <1>0, <1>1 DEF Go, Error
<1>2. ASSUME Fault PROVE faults' \in 0 .. MaxFaults BY <1>0, <1>2 DEF Fault, Bounds
<1>3. ASSUME Shut(w)
      PROVE  /\ sock' \in [Worker -> {"none", "open", "shut"}]
             /\ \A q \in Worker \ {w} : sock'[q] = sock[q]
             /\ UNCHANGED <<sent, verified>>
  BY <1>0, <1>3 DEF Shut
<1>4. PC = {"idle", "connect", "dial", "verify", "register", "open?", "username", "between",
            "password", "after", "login", "select", "fetch", "hangup", "forget", "exit", "ended"}
  BY DEF PC
<1>5. ASSUME NEW next \in PC, NEW otherwise \in PC, OpenThen(w, next, otherwise) PROVE Goal
  BY <1>0, <1>1, <1>5 DEF OpenThen
<1>6. CASE Enter(w) BY <1>0, <1>1, <1>4, <1>6 DEF Enter
<1>7. CASE StartConnect(w) BY <1>4, <1>5, <1>7 DEF StartConnect
<1>8. CASE Dial(w)
  <2>1. CASE /\ sock' = [sock EXCEPT ![w] = "open"] /\ Go(w, "verify")
             /\ UNCHANGED <<sent, verified, faults>>
    BY <1>0, <1>1, <1>4, <1>8, <2>1 DEF Dial
  <2>2. CASE Fault /\ Error(w, "exit") /\ UNCHANGED wire
    BY <1>0, <1>1, <1>2, <1>4, <1>8, <2>2 DEF Dial
  <2> QED BY <1>8, <2>1, <2>2 DEF Dial
<1>9. CASE Verify(w)
  <2>1. CASE verified' = verified \cup {w} /\ Go(w, "register") /\ UNCHANGED <<sock, sent, faults>>
    BY <1>0, <1>1, <1>4, <1>9, <2>1 DEF Verify
  <2>2. CASE Fault /\ Shut(w) /\ Error(w, "exit")
    BY <1>0, <1>1, <1>2, <1>3, <1>4, <1>9, <2>2 DEF Verify
  <2> QED BY <1>9, <2>1, <2>2 DEF Verify
<1>10. CASE Register(w)
  <2>1. CASE closed /\ Shut(w) /\ Error(w, "exit") /\ UNCHANGED clients
    BY <1>0, <1>1, <1>3, <1>4, <1>10, <2>1 DEF Register
  <2>2. CASE ~closed /\ clients' = clients \cup {w} /\ Go(w, "open?") /\ UNCHANGED wire
    BY <1>0, <1>1, <1>4, <1>10, <2>2 DEF Register
  <2> QED BY <1>10, <2>1, <2>2 DEF Register
<1>11. CASE EnsureOpen(w) \/ CheckBetween(w) \/ CheckAfter(w)
  BY <1>4, <1>5, <1>11 DEF EnsureOpen, CheckBetween, CheckAfter
<1>12. ASSUME NEW at, NEW next \in PC, Lookup(w, at, next) PROVE Goal
  BY <1>0, <1>1, <1>2, <1>4, <1>12 DEF Lookup
<1>13. CASE Username(w) \/ Password(w) BY <1>4, <1>12, <1>13 DEF Username, Password
<1>14. CASE Login(w)
  <2>1. CASE sock[w] = "shut" /\ Error(w, "hangup") /\ UNCHANGED <<wire, faults>>
    BY <1>0, <1>1, <1>4, <1>14, <2>1 DEF Login
  <2>2. CASE /\ sent' = sent \cup {w}
             /\ \/ Go(w, "select") /\ UNCHANGED faults
                \/ Fault /\ Error(w, "hangup")
             /\ UNCHANGED <<sock, verified>>
    BY <1>0, <1>1, <1>2, <1>4, <1>14, <2>2 DEF Login
  <2> QED BY <1>14, <2>1, <2>2 DEF Login
<1>15. ASSUME NEW at, NEW next \in PC, NEW done \in {"none", "page"}, Command(w, at, next, done)
       PROVE  Goal
  <2>1. CASE Error(w, "hangup") /\ (Fault \/ UNCHANGED faults)
    BY <1>0, <1>1, <1>2, <1>4, <1>15, <2>1 DEF Command
  <2>2. CASE /\ pc' = [pc EXCEPT ![w] = next] /\ result' = [result EXCEPT ![w] = done]
             /\ UNCHANGED faults
    BY <1>0, <1>15, <2>2 DEF Command
  <2> QED BY <1>15, <2>1, <2>2 DEF Command
<1>16. CASE Select(w) \/ Fetch(w) BY <1>4, <1>15, <1>16 DEF Select, Fetch
<1>17. CASE HangUp(w) BY <1>0, <1>1, <1>3, <1>4, <1>17 DEF HangUp
<1>18. CASE Forget(w) BY <1>0, <1>1, <1>4, <1>18 DEF Forget
<1>19. CASE Exit(w) BY <1>0, <1>1, <1>4, <1>19 DEF Exit
<1> QED
  BY <1>6, <1>7, <1>8, <1>9, <1>10, <1>11, <1>13, <1>14, <1>16, <1>17, <1>18, <1>19
  DEF Work, Step

-----------------------------------------------------------------------------
(* The worker that steps *)

LEMMA WorkerStep ==
  ASSUME Bounds, IInv, NEW w \in Worker, Work(w)
  PROVE  WorkerOK(w)'
<1> DEFINE Goal == WorkerOK(w)'
<1> USE DEF WorkerOK, SocketOK, PeerOK, ReachedOK, Registered, Past, closer, wire
<1>0. /\ pc \in [Worker -> PC] /\ sock \in [Worker -> {"none", "open", "shut"}]
      /\ WorkerOK(w) /\ UNCHANGED closer
  BY WorkTypes DEF IInv, TypeOK, Own
<1>1. closing = "returned" => closed /\ closing # "interrupting" BY DEF IInv, CloseOK
<1>2. ASSUME NEW next \in PC, Go(w, next) \/ Error(w, next) PROVE pc'[w] = next
  BY <1>0, <1>2 DEF Go, Error
<1>3. ASSUME Shut(w) PROVE sock'[w] = "shut" /\ UNCHANGED <<sent, verified>>
  BY <1>0, <1>3 DEF Shut
<1>4. PC = {"idle", "connect", "dial", "verify", "register", "open?", "username", "between",
            "password", "after", "login", "select", "fetch", "hangup", "forget", "exit", "ended"}
  BY DEF PC
<1>5. CASE Enter(w) BY <1>0, <1>1, <1>2, <1>4, <1>5 DEF Enter
<1>6. CASE StartConnect(w) BY <1>0, <1>2, <1>4, <1>6 DEF StartConnect, OpenThen
<1>7. CASE Dial(w) BY <1>0, <1>2, <1>4, <1>7 DEF Dial
<1>8. CASE Verify(w) BY <1>0, <1>2, <1>3, <1>4, <1>8 DEF Verify
<1>9. CASE Register(w) BY <1>0, <1>2, <1>3, <1>4, <1>9 DEF Register
<1>10. CASE EnsureOpen(w) \/ CheckBetween(w) \/ CheckAfter(w)
  BY <1>0, <1>2, <1>4, <1>10 DEF EnsureOpen, CheckBetween, CheckAfter, OpenThen
<1>11. CASE Username(w) \/ Password(w) BY <1>0, <1>2, <1>4, <1>11 DEF Username, Password, Lookup
<1>12. CASE Login(w) BY <1>0, <1>2, <1>4, <1>12 DEF Login
<1>13. CASE Select(w) BY <1>0, <1>2, <1>4, <1>13 DEF Select, Command
<1>14. CASE Fetch(w) BY <1>0, <1>2, <1>4, <1>14 DEF Fetch, Command
<1>15. CASE HangUp(w) BY <1>0, <1>2, <1>3, <1>4, <1>15 DEF HangUp
<1>16. CASE Forget(w) BY <1>0, <1>2, <1>4, <1>16 DEF Forget
<1>17. CASE Exit(w) BY <1>0, <1>2, <1>4, <1>17 DEF Exit
<1> QED
  BY <1>5, <1>6, <1>7, <1>8, <1>9, <1>10, <1>11, <1>12, <1>13, <1>14, <1>15, <1>16, <1>17
  DEF Work, Step

\* _active_workers counts the workers that run: only Enter and Exit change both.
LEMMA CountStep ==
  ASSUME Bounds, TypeOK, NEW w \in Worker, Work(w)
  PROVE  active' = Cardinality(Running')
<1>0. pc \in [Worker -> PC] /\ active = Cardinality(Running) BY DEF TypeOK, Running
<1>1. IsFiniteSet(Running) /\ active \in Nat
  <2>1. Running \in SUBSET Worker BY DEF Running
  <2>2. IsFiniteSet(Running) BY <2>1, FS_Subset DEF Bounds
  <2> QED BY <1>0, <2>2, FS_CardinalityType
<1>2. PICK next \in PC : pc' = [pc EXCEPT ![w] = next] BY WorkTypes DEF Moves
<1>3. /\ pc'[w] = next
      /\ \A q \in Worker \ {w} : pc'[q] = pc[q]
  BY <1>0, <1>2
<1>4. Running' = IF next \in {"idle", "ended"} THEN Running \ {w} ELSE Running \cup {w}
  BY <1>3 DEF Running
<1>5. CASE pc[w] = "idle" /\ closed
  <2>1. active' = active /\ next = "ended" BY <1>0, <1>3, <1>5 DEF Work, Enter, Error, Step,
    StartConnect, Dial, Verify, Register, EnsureOpen, Username, CheckBetween, Password,
    CheckAfter, Login, Select, Fetch, HangUp, Forget, Exit, Lookup, Command
  <2>2. Running' = Running BY <1>4, <1>5, <2>1 DEF Running
  <2> QED BY <1>0, <2>1, <2>2
<1>6. CASE pc[w] = "idle" /\ ~closed
  <2>1. active' = active + 1 /\ next = "connect" BY <1>0, <1>3, <1>6 DEF Work, Enter, Go, Step,
    StartConnect, Dial, Verify, Register, EnsureOpen, Username, CheckBetween, Password,
    CheckAfter, Login, Select, Fetch, HangUp, Forget, Exit, Lookup, Command
  <2>2. w \notin Running BY <1>6 DEF Running
  <2> QED BY <1>0, <1>1, <1>4, <2>1, <2>2, FS_AddElement
<1>7. CASE pc[w] = "exit"
  <2>1. active' = active - 1 /\ next = "ended" BY <1>0, <1>3, <1>7 DEF Work, Enter, Go, Step,
    StartConnect, Dial, Verify, Register, EnsureOpen, Username, CheckBetween, Password,
    CheckAfter, Login, Select, Fetch, HangUp, Forget, Exit, Lookup, Command
  <2>2. w \in Running BY <1>7 DEF Running
  <2> QED BY <1>0, <1>1, <1>4, <2>1, <2>2, FS_RemoveElement
<1>8. CASE pc[w] \notin {"idle", "exit"}
  <2>1. active' = active /\ next \notin {"idle", "ended"} /\ pc[w] # "ended"
    BY <1>0, <1>3, <1>8 DEF Work, Enter, Go, Error, Step, OpenThen,
    StartConnect, Dial, Verify, Register, EnsureOpen, Username, CheckBetween, Password,
    CheckAfter, Login, Select, Fetch, HangUp, Forget, Exit, Lookup, Command
  <2>2. w \in Running BY <1>8, <2>1 DEF Running
  <2> QED BY <1>0, <1>4, <2>1, <2>2
<1> QED BY <1>5, <1>6, <1>7, <1>8

-----------------------------------------------------------------------------
(* Steps of close() *)

LEMMA CloserStep ==
  ASSUME Bounds, IInv, BeginClose \/ InterruptOne \/ Wait
  PROVE  IInv'
<1> USE DEF WorkerOK, SocketOK, PeerOK, ReachedOK, Registered, Past
<1>0. TypeOK /\ CloseOK /\ \A w \in Worker : WorkerOK(w) BY DEF IInv
<1>1. CASE BeginClose
  <2>1. TypeOK' BY <1>0, <1>1 DEF BeginClose, TypeOK
  <2>2. CloseOK' BY <1>0, <1>1 DEF BeginClose, CloseOK, Interrupted
  <2>3. \A w \in Worker : WorkerOK(w)' BY <1>0, <1>1 DEF BeginClose
  <2> QED BY <2>1, <2>2, <2>3 DEF IInv
<1>2. ASSUME NEW q \in snapshot, closing = "interrupting", snapshot' = snapshot \ {q}, Shut(q),
             UNCHANGED <<closed, closing, clients, active, pc, result, faults>>
      PROVE  IInv'
  <2>1. /\ q \in Worker /\ sock'[q] = "shut" /\ UNCHANGED <<sent, verified>>
        /\ \A w \in Worker \ {q} : sock'[w] = sock[w]
        /\ sock' \in [Worker -> {"none", "open", "shut"}]
    BY <1>0, <1>2 DEF Shut, TypeOK
  <2>2. TypeOK' BY <1>0, <1>2, <2>1 DEF TypeOK
  <2>3. CloseOK' BY <1>0, <1>2 DEF CloseOK, Interrupted
  <2>4. \A w \in Worker : WorkerOK(w)' BY <1>0, <1>2, <2>1
  <2> QED BY <2>2, <2>3, <2>4 DEF IInv
<1>3. CASE /\ closing = "interrupting" /\ snapshot = {} /\ closing' = "waiting"
           /\ UNCHANGED <<snapshot, wire>>
           /\ UNCHANGED <<closed, clients, active, pc, result, faults>>
  <2>1. TypeOK' BY <1>0, <1>3 DEF TypeOK, wire
  <2>2. CloseOK' BY <1>0, <1>3 DEF CloseOK, Interrupted
  <2>3. \A w \in Worker : WorkerOK(w)' BY <1>0, <1>3 DEF wire
  <2> QED BY <2>1, <2>2, <2>3 DEF IInv
<1>4. CASE Wait
  <2>1. TypeOK' BY <1>0, <1>4 DEF Wait, TypeOK
  <2>2. CloseOK' BY <1>0, <1>4 DEF Wait, CloseOK, Interrupted
  <2>3. active = 0 => \A w \in Worker : pc[w] \in {"idle", "ended"}
    <3>1. active = Cardinality(Running) BY <1>0 DEF TypeOK, Running
    <3>2. Running \in SUBSET Worker BY DEF Running
    <3>3. IsFiniteSet(Running) BY <3>2, FS_Subset DEF Bounds
    <3>4. active = 0 => Running = {} BY <3>1, <3>3, FS_EmptySet
    <3> QED BY <3>4 DEF Running
  <2>4. \A w \in Worker : WorkerOK(w)' BY <1>0, <1>4, <2>3 DEF Wait
  <2> QED BY <2>1, <2>2, <2>4 DEF IInv
<1> QED BY <1>1, <1>2, <1>3, <1>4 DEF InterruptOne

-----------------------------------------------------------------------------

LEMMA IInvInit == ASSUME Bounds, Init PROVE IInv
<1>1. {w \in Worker : pc[w] \notin {"idle", "ended"}} = {} BY DEF Init
<1>2. active = Cardinality({w \in Worker : pc[w] \notin {"idle", "ended"}})
  BY <1>1, FS_EmptySet DEF Init
<1>3. TypeOK
  <2>1. 0 \in 0 .. MaxFaults BY DEF Bounds
  <2>2. pc \in [Worker -> PC] BY DEF Init, PC
  <2> QED BY <1>2, <2>1, <2>2 DEF Init, TypeOK
<1>4. CloseOK BY DEF Init, CloseOK, Interrupted
<1>5. \A w \in Worker : WorkerOK(w)
  BY DEF Init, WorkerOK, SocketOK, PeerOK, ReachedOK, Registered, Past
<1> QED BY <1>3, <1>4, <1>5 DEF IInv

LEMMA IInvNext == ASSUME Bounds, IInv, [Next]_vars PROVE IInv'
<1>0. TypeOK /\ CloseOK /\ \A w \in Worker : WorkerOK(w) BY DEF IInv
<1>1. ASSUME NEW w \in Worker, Work(w) PROVE IInv'
  <2>1. Types' /\ Own(w) /\ active' = Cardinality(Running') BY <1>0, <1>1, WorkTypes, CountStep
  <2>2. TypeOK'
    <3>1. UNCHANGED closer BY <2>1 DEF Own
    <3> QED BY <1>0, <2>1, <3>1 DEF TypeOK, Types, Running, closer
  <2>3. CloseOK' BY <1>0, <2>1 DEF CloseOK, Own, closer, Interrupted
  <2>4. ASSUME NEW q \in Worker \ {w} PROVE WorkerOK(q)'
    <3>1. WorkerOK(q) BY <1>0
    <3> QED BY <2>1, <3>1 DEF Own, closer, WorkerOK, SocketOK, PeerOK, ReachedOK
  <2>5. WorkerOK(w)' BY <1>1, WorkerStep
  <2> QED BY <2>2, <2>3, <2>4, <2>5 DEF IInv
<1>2. CASE UNCHANGED vars
  BY <1>0, <1>2 DEF vars, IInv, TypeOK, CloseOK, Interrupted, WorkerOK, SocketOK, PeerOK, ReachedOK
<1> QED BY <1>1, <1>2, CloserStep DEF Next, Work

LEMMA Safety == ASSUME Bounds PROVE Spec => []IInv
<1>1. Init => IInv BY IInvInit
<1>2. IInv /\ [Next]_vars => IInv' BY IInvNext
<1> QED BY <1>1, <1>2, PTL DEF Spec

-----------------------------------------------------------------------------
(* Theorems *)

\* Whichever step fails and whenever close() strikes: nothing open is missed, an
\* ended worker leaves nothing, credentials went to verified peers, and a close()
\* that returned in time saw the last worker (_run_worker, _connect, close).
THEOREM SessionInvariant == ASSUME Bounds PROVE Spec => []SessionInv
<1>1. ASSUME IInv PROVE SessionInv
  <2>1. TypeOK /\ CloseOK /\ \A w \in Worker : WorkerOK(w) BY <1>1 DEF IInv
  <2>2. pc \in [Worker -> PC] /\ sent \subseteq Worker BY <2>1 DEF TypeOK
  <2>3. NothingMissed
    <3>1. ASSUME NEW w \in Worker, Interrupted, sock[w] = "open"
          PROVE  pc[w] \in {"verify", "register"}
      <4>1. closed /\ closing # "interrupting" BY <2>1, <3>1 DEF CloseOK, Interrupted
      <4>2. pc[w] \notin Registered BY <2>1, <3>1, <4>1 DEF WorkerOK, SocketOK, ReachedOK
      <4>3. pc[w] \notin {"idle", "connect", "dial", "forget", "exit", "ended"}
        BY <2>1, <3>1 DEF WorkerOK, SocketOK
      <4> QED BY <2>2, <4>2, <4>3 DEF PC, Registered
    <3> QED BY <3>1 DEF NothingMissed
  <2>4. NothingLeft BY <2>1 DEF NothingLeft, WorkerOK, SocketOK, Registered
  <2>5. SentToVerified BY <2>1, <2>2 DEF SentToVerified, WorkerOK, PeerOK
  <2>6. ReturnedMeansIdle BY <2>1 DEF ReturnedMeansIdle, WorkerOK, ReachedOK
  <2> QED BY <2>1, <2>3, <2>4, <2>5, <2>6 DEF SessionInv
<1> QED BY <1>1, Safety, PTL

\* Once close() has been through its sockets, whoever had not logged in never will
\* (close, _ensure_open and the shut sockets together).
THEOREM NoCredentialsAfterClose == ASSUME Bounds PROVE Spec => NoLateCredentials
<1>1. ASSUME IInv, Next, Interrupted PROVE sent' = sent
  <2>0. CloseOK /\ \A w \in Worker : WorkerOK(w) BY <1>1 DEF IInv
  <2>1. closed /\ closing # "interrupting" BY <1>1, <2>0 DEF CloseOK, Interrupted
  <2>2. ASSUME NEW w \in Worker, Login(w) PROVE sent' = sent
    <3>1. pc[w] \in Registered BY <2>2 DEF Login, Registered
    <3>2. sock[w] # "open" BY <2>0, <2>1, <3>1 DEF WorkerOK, SocketOK, ReachedOK
    <3> QED BY <2>2, <3>2 DEF Login, wire
  <2>3. ASSUME NEW w \in Worker, Work(w) PROVE sent' = sent
    BY <2>2, <2>3 DEF Work, Enter, Step, StartConnect, Dial, Verify, Register, EnsureOpen, Username,
       CheckBetween, Password, CheckAfter, Select, Fetch, HangUp, Forget, Exit, Lookup, Command,
       OpenThen, Shut, wire
  <2>4. CASE BeginClose \/ InterruptOne \/ Wait
    BY <2>4 DEF BeginClose, InterruptOne, Wait, Shut, wire
  <2> QED BY <1>1, <2>3, <2>4 DEF Next, Work
<1>2. IInv /\ [Next]_vars => [Interrupted => sent' = sent]_vars BY <1>1
<1> QED BY <1>2, Safety, PTL DEF Spec, NoLateCredentials

-----------------------------------------------------------------------------
(* The runtime: the inductive invariant *)

\* Where a call is, what its thread does and what it owes go together.
Fits(k, t, draft) ==
  /\ k.pc \in {"idle", "provider"} => t = "none"
  /\ k.pc \in {"provider", "observing", "draining"} => ~draft
  /\ k.pc \in {"observing", "draining"} => t # "none"
  /\ k.pc \in {"drafting", "settling"} => draft /\ t # "none"
  /\ k.pc # "ended" => k.result = "none" /\ k.receipt = "none"
  /\ k.pc \in {"idle", "provider"} => ~k.owed
  /\ k.pc = "ended" /\ draft => t \notin {"queued", "running"}
  /\ k.result = "returned" => ~k.owed

CallOK(c) ==
  /\ Fits(call[c], thread[c], Runtime!Draft(c))
  /\ call[c].receipt = "failed" => auditDiag

\* A store that was closed is idle, and stays so.
StoresOK == \A c \in Call : Runtime!Closed(Runtime!StoreOf(c)) => thread[c] # "running"

\* A struck step assigns, in the model, when it ends.
Disabled == runtimeClosed /\ ~late => state = "disabled" /\ ~draftDiag

RuntimeIInv == Runtime!TypeOK /\ Disabled /\ StoresOK /\ \A c \in Call : CallOK(c)

-----------------------------------------------------------------------------
(* What every step of a call comes to *)

RuntimeTypes ==
  /\ call \in [Call -> Runtime!CallState] /\ thread \in [Call -> Runtime!ThreadState]
  /\ auditDiag \in BOOLEAN /\ fails \in 0 .. MaxFails
  /\ state \in Runtime!State /\ draftDiag \in BOOLEAN

CallMoves(c) ==
  /\ RuntimeTypes' /\ UNCHANGED Runtime!Runtime
  /\ \A d \in Call \ {c} : call'[d] = call[d] /\ thread'[d] = thread[d]
  /\ CallOK(c)'
  /\ auditDiag => auditDiag'
  /\ call'[c].receipt = "clean" /\ call[c].receipt # "clean" => ~auditDiag
  /\ runtimeClosed /\ Kind[c] \in {"read", "thread"} /\ call'[c].result = "returned"
       => call[c].result = "returned" \/ c \in midway
  /\ runtimeClosed /\ c \notin midway => UNCHANGED Runtime!status
  /\ thread'[c] = "running" /\ thread[c] # "running" => ~Runtime!Closed(Runtime!StoreOf(c))

\* The last step of a call, with the receipt its audit event gives.
Ends(c, outcome, owed) ==
  /\ call' \in [Call -> Runtime!CallState]
  /\ \A d \in Call \ {c} : call'[d] = call[d]
  /\ call'[c].pc = "ended" /\ call'[c].result = outcome /\ call'[c].owed = owed
  /\ call'[c].receipt = "failed" => auditDiag'
  /\ call'[c].receipt = "clean" => ~auditDiag
  /\ auditDiag => auditDiag'
  /\ auditDiag' \in BOOLEAN /\ fails' \in 0 .. MaxFails

LEMMA EndEffect ==
  ASSUME Runtime!Setting, RuntimeTypes, NEW c \in Call, NEW view,
         NEW outcome \in {"returned", "raised", "cancelled"},
         NEW owed \in BOOLEAN, Runtime!End(c, view, outcome, owed)
  PROVE  Ends(c, outcome, owed)
<1> DEFINE last(receipt) == [pc |-> "ended", stage |-> call[c].stage, result |-> outcome,
                             receipt |-> receipt, owed |-> owed]
<1>1. /\ \A r \in {"none", "clean", "gap", "failed"} : last(r) \in Runtime!CallState
  BY DEF RuntimeTypes, Runtime!CallState
<1>2. \E r \in {"none", "clean", "gap", "failed"} :
        /\ call' = [call EXCEPT ![c] = last(r)]
        /\ r = "failed" => auditDiag'
        /\ r = "clean" => ~auditDiag
  <2>1. CASE ~Runtime!Audits(view) \/ outcome = "cancelled"
    <3>1. call' = [call EXCEPT ![c] = last("none")]
      BY <2>1 DEF Runtime!End
    <3> QED  BY <3>1
  <2>2. CASE ~(~Runtime!Audits(view) \/ outcome = "cancelled") /\ auditDiag' = Runtime!AuditDiag(TRUE)
             /\ call' = [call EXCEPT ![c] = last(IF auditDiag' THEN "gap" ELSE "clean")]
    <3>1. CASE auditDiag'
      <4>1. call' = [call EXCEPT ![c] = last("gap")]  BY <2>2, <3>1
      <4> QED  BY <4>1
    <3>2. CASE ~auditDiag'
      <4>1. call' = [call EXCEPT ![c] = last("clean")]  BY <2>2, <3>2
      <4> QED  BY <2>2, <3>2, <4>1 DEF Runtime!AuditDiag
    <3> QED  BY <3>1, <3>2
  <2>3. CASE ~(~Runtime!Audits(view) \/ outcome = "cancelled") /\ auditDiag' = Runtime!AuditDiag(FALSE)
             /\ call' = [call EXCEPT ![c] = last("failed")]
    BY <2>3 DEF Runtime!AuditDiag
  <2> QED  BY <2>1, <2>2, <2>3 DEF Runtime!End
<1>3. (auditDiag => auditDiag') /\ auditDiag' \in BOOLEAN
  BY DEF Runtime!End, Runtime!AuditDiag, RuntimeTypes
<1>4. fails' \in 0 .. MaxFails
  <2>1. fails' = fails \/ Runtime!Fail  BY DEF Runtime!End
  <2> QED  BY <2>1 DEF Runtime!Fail, RuntimeTypes, Runtime!Setting
<1>5. PICK r \in {"none", "clean", "gap", "failed"} :
        /\ call' = [call EXCEPT ![c] = last(r)]
        /\ r = "failed" => auditDiag'
        /\ r = "clean" => ~auditDiag
  BY <1>2
<1>6. call'[c] = last(r) /\ \A d \in Call \ {c} : call'[d] = call[d]
  BY <1>5 DEF RuntimeTypes
<1>7. call' \in [Call -> Runtime!CallState]
  <2> HIDE DEF last
  <2> QED  BY <1>1, <1>5 DEF RuntimeTypes
<1> QED  BY <1>3, <1>4, <1>5, <1>6, <1>7 DEF Ends

LEMMA GotoEffect ==
  ASSUME Runtime!Setting, RuntimeTypes, NEW c \in Call,
         NEW next \in {"provider", "drafting", "draining", "settling"},
         Runtime!Goto(c, next)
  PROVE  /\ call' \in [Call -> Runtime!CallState]
         /\ \A d \in Call \ {c} : call'[d] = call[d]
         /\ call'[c] = [call[c] EXCEPT !.pc = next]
         /\ call'[c].pc = next /\ call'[c].owed = call[c].owed
         /\ call'[c].result = call[c].result /\ call'[c].receipt = call[c].receipt
         /\ UNCHANGED <<auditDiag, fails>>
<1>1. call[c] \in Runtime!CallState  BY DEF RuntimeTypes
<1>2. call' = [call EXCEPT ![c].pc = next]  BY DEF Runtime!Goto
<1>3. call'[c] = [call[c] EXCEPT !.pc = next] /\ \A d \in Call \ {c} : call'[d] = call[d]
  BY <1>2 DEF RuntimeTypes
<1>4. [call[c] EXCEPT !.pc = next] \in Runtime!CallState  BY <1>1 DEF Runtime!CallState
<1>5. call' \in [Call -> Runtime!CallState]  BY <1>2, <1>4 DEF RuntimeTypes
<1>6. /\ call'[c].pc = next /\ call'[c].owed = call[c].owed
      /\ call'[c].result = call[c].result /\ call'[c].receipt = call[c].receipt
  BY <1>1, <1>3 DEF Runtime!CallState
<1> QED  BY <1>3, <1>5, <1>6 DEF Runtime!Goto

\* One call's thread changes.
LEMMA ThreadEffect ==
  ASSUME Runtime!Setting, RuntimeTypes, NEW c \in Call, NEW t \in Runtime!ThreadState,
         thread' = [thread EXCEPT ![c] = t]
  PROVE  /\ thread' \in [Call -> Runtime!ThreadState] /\ thread'[c] = t
         /\ \A d \in Call \ {c} : thread'[d] = thread[d]
BY DEF RuntimeTypes

\* A step that close() did not strike sees the runtime closed or open throughout.
LEMMA ViewsAgree ==
  ASSUME NEW c \in Call, NEW view \in Runtime!Views(c), runtimeClosed, c \notin midway
  PROVE  ~Runtime!GoesOn(view) /\ ~Runtime!Notes(view) /\ ~Runtime!Audits(view)
BY DEF Runtime!Views, Runtime!GoesOn, Runtime!Notes, Runtime!Audits

\* What any step of a call leaves of the status.
StatusOK(c) ==
  /\ state' \in Runtime!State /\ draftDiag' \in BOOLEAN
  /\ runtimeClosed /\ c \notin midway => UNCHANGED Runtime!status

LEMMA StatusKept ==
  ASSUME RuntimeTypes, NEW c \in Call, UNCHANGED Runtime!status  PROVE StatusOK(c)
BY DEF RuntimeTypes, Runtime!status, StatusOK

LEMMA StatusEffect ==
  ASSUME RuntimeTypes, NEW c \in Call, NEW view \in Runtime!Views(c),
         Runtime!RecordFailure(c, view) \/ Runtime!RecordSuccess(c, view)
           \/ Runtime!RecordStorageFailure(c, view)
  PROVE  StatusOK(c)
<1>1. PICK s \in Runtime!State : state' \in Runtime!Noted(c, view, state, s)
  BY DEF Runtime!RecordFailure, Runtime!RecordSuccess, Runtime!RecordStorageFailure, Runtime!State
<1>2. UNCHANGED draftDiag
  BY DEF Runtime!RecordFailure, Runtime!RecordSuccess, Runtime!RecordStorageFailure
<1>3. state' \in Runtime!State  BY <1>1 DEF Runtime!Noted, RuntimeTypes
<1>4. runtimeClosed /\ c \notin midway => state' = state
  BY <1>1, ViewsAgree DEF Runtime!Noted
<1> QED  BY <1>2, <1>3, <1>4 DEF StatusOK, RuntimeTypes, Runtime!status

\* A call that ends, its thread idle or through, has moved as every call may.
LEMMA EndingMoves ==
  ASSUME Runtime!Setting, RuntimeIInv, NEW c \in Call,
         NEW outcome \in {"returned", "raised", "cancelled"},
         NEW owed \in BOOLEAN, NEW view, Runtime!End(c, view, outcome, owed),
         UNCHANGED Runtime!Runtime, StatusOK(c),
         thread' \in [Call -> Runtime!ThreadState],
         \A d \in Call \ {c} : thread'[d] = thread[d],
         thread'[c] = "running" => thread[c] = "running",
         Runtime!Draft(c) => thread'[c] \notin {"queued", "running"},
         outcome = "returned" =>
           ~owed /\ (runtimeClosed /\ Kind[c] \in {"read", "thread"} => c \in midway)
  PROVE  CallMoves(c)
<1>1. RuntimeTypes  BY DEF RuntimeIInv, Runtime!TypeOK, RuntimeTypes
<1>2. Ends(c, outcome, owed)  BY <1>1, EndEffect
<1>3. CallOK(c)'
  <2>1. Fits(call'[c], thread'[c], Runtime!Draft(c))  BY <1>2 DEF Ends, Fits
  <2> QED  BY <1>2, <2>1 DEF Ends, CallOK, Runtime!Draft
<1>4. RuntimeTypes'  BY <1>2 DEF Ends, RuntimeTypes, StatusOK
<1> QED  BY <1>2, <1>3, <1>4 DEF Ends, CallMoves, StatusOK

-----------------------------------------------------------------------------
(* One lemma for each action of a call *)

LEMMA BeginMoves ==
  ASSUME Runtime!Setting, RuntimeIInv, NEW c \in Call, NEW view \in Runtime!Views(c),
         Runtime!Begin(c, view)
  PROVE  CallMoves(c)
<1>1. RuntimeTypes /\ CallOK(c)  BY DEF RuntimeIInv, Runtime!TypeOK, RuntimeTypes
<1>2. UNCHANGED <<runtimeClosed, runtimeClosing, onLoop, state, draftDiag>> /\ call[c].pc = "idle"
  BY DEF Runtime!Begin, Runtime!Runtime, Runtime!status
<1>3. call[c].result = "none" /\ call[c].receipt = "none" /\ thread[c] = "none"
  BY <1>1, <1>2 DEF CallOK, Fits
<1>0. StatusOK(c)  BY <1>1, StatusKept DEF Runtime!Begin
<1>4. CASE Runtime!End(c, view, "raised", FALSE) /\ UNCHANGED thread
  <2>1. thread' \in [Call -> Runtime!ThreadState] /\ \A d \in Call \ {c} : thread'[d] = thread[d]
    BY <1>1, <1>4 DEF RuntimeTypes
  <2> QED
    BY <1>0, <1>1, <1>3, <1>4, <2>1, EndingMoves DEF Runtime!Begin
<1>5. CASE ~Runtime!Draft(c) /\ Runtime!Goto(c, "provider") /\ UNCHANGED thread
  <2>1. /\ call' \in [Call -> Runtime!CallState] /\ \A d \in Call \ {c} : call'[d] = call[d]
        /\ call'[c].pc = "provider" /\ call'[c].owed = call[c].owed
        /\ call'[c].result = "none" /\ call'[c].receipt = "none"
        /\ UNCHANGED <<auditDiag, fails>>
    BY <1>1, <1>3, <1>5, GotoEffect
  <2>2. ~call[c].owed  BY <1>1, <1>2 DEF CallOK, Fits
  <2>3. Fits(call'[c], thread'[c], Runtime!Draft(c))  BY <1>3, <1>5, <2>1, <2>2 DEF Fits
  <2> QED
    BY <1>1, <1>2, <1>5, <2>1, <2>3
    DEF CallMoves, CallOK, RuntimeTypes, Runtime!Draft, Runtime!Runtime, Runtime!status
<1>6. CASE /\ Runtime!Draft(c) /\ Runtime!Goto(c, "drafting")
           /\ thread' = [thread EXCEPT ![c] = "queued"]
  <2>1. /\ call' \in [Call -> Runtime!CallState] /\ \A d \in Call \ {c} : call'[d] = call[d]
        /\ call'[c].pc = "drafting" /\ call'[c].owed = call[c].owed
        /\ call'[c].result = "none" /\ call'[c].receipt = "none"
        /\ UNCHANGED <<auditDiag, fails>>
    BY <1>1, <1>3, <1>6, GotoEffect
  <2>2. /\ thread' \in [Call -> Runtime!ThreadState] /\ thread'[c] = "queued"
        /\ \A d \in Call \ {c} : thread'[d] = thread[d]
    BY <1>1, <1>6, ThreadEffect DEF Runtime!ThreadState
  <2>3. Fits(call'[c], thread'[c], Runtime!Draft(c))  BY <1>6, <2>1, <2>2 DEF Fits
  <2> QED
    BY <1>1, <1>2, <2>1, <2>2, <2>3
    DEF CallMoves, CallOK, RuntimeTypes, Runtime!Draft, Runtime!Runtime, Runtime!status
<1> QED  BY <1>4, <1>5, <1>6 DEF Runtime!Begin

\* A read that is with the provider, or whose mail is to be recorded, is no draft.
LEMMA Reading ==
  ASSUME Runtime!Setting, RuntimeIInv, NEW c \in Call,
         call[c].pc \in {"provider", "observing", "draining"}
  PROVE  /\ RuntimeTypes /\ ~Runtime!Draft(c) /\ call[c] \in Runtime!CallState
         /\ call[c].result = "none" /\ call[c].receipt = "none"
         /\ call[c].pc = "provider" => ~call[c].owed /\ thread[c] = "none"
BY DEF RuntimeIInv, Runtime!TypeOK, RuntimeTypes, CallOK, Fits

LEMMA PageArrivesMoves ==
  ASSUME Runtime!Setting, RuntimeIInv, NEW c \in Call, NEW view \in Runtime!Views(c),
         Runtime!PageArrives(c, view)
  PROVE  CallMoves(c)
<1>1. /\ RuntimeTypes /\ ~Runtime!Draft(c) /\ call[c] \in Runtime!CallState
      /\ call[c].result = "none" /\ call[c].receipt = "none"
      /\ ~call[c].owed /\ thread[c] = "none"
  BY Reading DEF Runtime!PageArrives
<1>2. UNCHANGED <<runtimeClosed, runtimeClosing, onLoop, state, draftDiag>>
  BY DEF Runtime!PageArrives, Runtime!Runtime, Runtime!status
<1>0. StatusOK(c)  BY <1>1, StatusKept DEF Runtime!PageArrives
<1>3. CASE (\/ Runtime!End(c, view, "raised", FALSE)
            \/ Runtime!GoesOn(view) /\ Runtime!End(c, view, "returned", FALSE)) /\ UNCHANGED thread
  <2>1. thread' \in [Call -> Runtime!ThreadState] /\ \A d \in Call \ {c} : thread'[d] = thread[d]
    BY <1>1, <1>3 DEF RuntimeTypes
  <2> QED  BY <1>0, <1>1, <1>3, <2>1, ViewsAgree, EndingMoves DEF Runtime!PageArrives
<1>4. CASE /\ call' = [call EXCEPT ![c].pc = "observing", ![c].owed = TRUE]
           /\ thread' = [thread EXCEPT ![c] = "queued"]
           /\ UNCHANGED <<auditDiag, fails>>
  <2>1. call'[c] = [call[c] EXCEPT !.pc = "observing", !.owed = TRUE]
        /\ \A d \in Call \ {c} : call'[d] = call[d]
    BY <1>1, <1>4 DEF RuntimeTypes
  <2>2. [call[c] EXCEPT !.pc = "observing", !.owed = TRUE] \in Runtime!CallState
    BY <1>1 DEF Runtime!CallState
  <2>3. call' \in [Call -> Runtime!CallState]  BY <1>1, <1>4, <2>2 DEF RuntimeTypes
  <2>4. /\ call'[c].pc = "observing" /\ call'[c].owed = TRUE
        /\ call'[c].result = "none" /\ call'[c].receipt = "none"
    BY <1>1, <2>1 DEF Runtime!CallState
  <2>5. /\ thread' \in [Call -> Runtime!ThreadState] /\ thread'[c] = "queued"
        /\ \A d \in Call \ {c} : thread'[d] = thread[d]
    BY <1>1, <1>4, ThreadEffect DEF Runtime!ThreadState
  <2>6. Fits(call'[c], thread'[c], Runtime!Draft(c))  BY <1>1, <2>4, <2>5 DEF Fits
  <2> QED  BY <1>1, <1>2, <1>4, <2>1, <2>3, <2>4, <2>5, <2>6
           DEF CallMoves, CallOK, RuntimeTypes, Runtime!Draft, Runtime!Runtime, Runtime!status
<1> QED  BY <1>3, <1>4 DEF Runtime!PageArrives

LEMMA ReadFailsMoves ==
  ASSUME Runtime!Setting, RuntimeIInv, NEW c \in Call, NEW view \in Runtime!Views(c),
         Runtime!ReadFails(c, view)
  PROVE  CallMoves(c)
<1>1. RuntimeTypes /\ ~Runtime!Draft(c) /\ thread[c] = "none"
  BY Reading DEF Runtime!ReadFails
<1>2. UNCHANGED <<runtimeClosed, runtimeClosing, onLoop>> /\ UNCHANGED thread
  BY DEF Runtime!ReadFails, Runtime!Runtime
<1>3. thread' \in [Call -> Runtime!ThreadState] /\ \A d \in Call \ {c} : thread'[d] = thread[d]
  BY <1>1, <1>2 DEF RuntimeTypes
<1>4. StatusOK(c)  BY <1>1, StatusEffect, StatusKept DEF Runtime!ReadFails
<1>5. \/ Runtime!End(c, view, "raised", FALSE)
      \/ Runtime!GoesOn(view) /\ Runtime!End(c, view, "returned", FALSE)
  BY DEF Runtime!ReadFails
<1> QED  BY <1>1, <1>2, <1>3, <1>4, <1>5, ViewsAgree, EndingMoves DEF Runtime!Runtime

LEMMA ObservedMoves ==
  ASSUME Runtime!Setting, RuntimeIInv, NEW c \in Call, NEW view \in Runtime!Views(c),
         Runtime!Observed(c, view)
  PROVE  CallMoves(c)
<1>1. /\ RuntimeTypes /\ ~Runtime!Draft(c) /\ call[c] \in Runtime!CallState
      /\ call[c].result = "none" /\ call[c].receipt = "none"
  BY Reading DEF Runtime!Observed
<1>2. UNCHANGED <<runtimeClosed, runtimeClosing, onLoop>> /\ thread' = [thread EXCEPT ![c] = "none"]
  BY DEF Runtime!Observed, Runtime!Runtime
<1>3. /\ thread' \in [Call -> Runtime!ThreadState] /\ thread'[c] = "none"
      /\ \A d \in Call \ {c} : thread'[d] = thread[d]
  BY <1>1, <1>2, ThreadEffect DEF Runtime!ThreadState
<1>4. StatusOK(c)  BY <1>1, StatusEffect, StatusKept DEF Runtime!Observed
<1>5. CASE \/ Runtime!End(c, view, "raised", FALSE)
           \/ Runtime!GoesOn(view) /\ Runtime!End(c, view, "returned", FALSE)
  BY <1>1, <1>2, <1>3, <1>4, <1>5, ViewsAgree, EndingMoves DEF Runtime!Runtime
<1>6. CASE \E s \in {"page", "bodies"} :
             /\ call' = [call EXCEPT ![c].pc = "provider", ![c].stage = s, ![c].owed = FALSE]
             /\ UNCHANGED <<auditDiag, fails>>
  <2>0. PICK s \in {"page", "bodies"} :
             /\ call' = [call EXCEPT ![c].pc = "provider", ![c].stage = s, ![c].owed = FALSE]
             /\ UNCHANGED <<auditDiag, fails>>
    BY <1>6
  <2>1. call'[c] = [call[c] EXCEPT !.pc = "provider", !.stage = s, !.owed = FALSE]
        /\ \A d \in Call \ {c} : call'[d] = call[d]
    BY <1>1, <2>0 DEF RuntimeTypes
  <2>2. [call[c] EXCEPT !.pc = "provider", !.stage = s, !.owed = FALSE] \in Runtime!CallState
    BY <1>1 DEF Runtime!CallState
  <2>3. call' \in [Call -> Runtime!CallState]  BY <1>1, <2>0, <2>2 DEF RuntimeTypes
  <2>4. /\ call'[c].pc = "provider" /\ ~call'[c].owed
        /\ call'[c].result = "none" /\ call'[c].receipt = "none"
    BY <1>1, <2>1 DEF Runtime!CallState
  <2>5. Fits(call'[c], thread'[c], Runtime!Draft(c))  BY <1>1, <1>3, <2>4 DEF Fits
  <2> QED  BY <1>1, <1>2, <1>3, <1>4, <2>0, <2>1, <2>3, <2>4, <2>5
           DEF CallMoves, CallOK, RuntimeTypes, StatusOK, Runtime!Draft, Runtime!Runtime
<1> QED  BY <1>5, <1>6 DEF Runtime!Observed, Runtime!Proceed

LEMMA NotObservedMoves ==
  ASSUME Runtime!Setting, RuntimeIInv, NEW c \in Call, NEW view \in Runtime!Views(c),
         Runtime!NotObserved(c, view)
  PROVE  CallMoves(c)
<1>1. RuntimeTypes /\ ~Runtime!Draft(c) /\ call[c] \in Runtime!CallState
  BY Reading DEF Runtime!NotObserved
<1>2. UNCHANGED <<runtimeClosed, runtimeClosing, onLoop>> /\ thread' = [thread EXCEPT ![c] = "none"]
  BY DEF Runtime!NotObserved, Runtime!Runtime
<1>3. /\ thread' \in [Call -> Runtime!ThreadState] /\ thread'[c] = "none"
      /\ \A d \in Call \ {c} : thread'[d] = thread[d]
  BY <1>1, <1>2, ThreadEffect DEF Runtime!ThreadState
<1>4. StatusOK(c)  BY <1>1, StatusEffect DEF Runtime!NotObserved
<1>5. call[c].owed \in BOOLEAN  BY <1>1 DEF Runtime!CallState
<1>6. Runtime!End(c, view, "raised", call[c].owed)  BY DEF Runtime!NotObserved
<1> QED  BY <1>1, <1>2, <1>3, <1>4, <1>5, <1>6, EndingMoves DEF Runtime!Runtime

LEMMA DrainedMoves ==
  ASSUME Runtime!Setting, RuntimeIInv, NEW c \in Call, NEW view \in Runtime!Views(c),
         Runtime!Drained(c, view)
  PROVE  CallMoves(c)
<1>1. RuntimeTypes /\ ~Runtime!Draft(c) /\ call[c] \in Runtime!CallState
  BY Reading DEF Runtime!Drained
<1>2. UNCHANGED <<runtimeClosed, runtimeClosing, onLoop>> /\ UNCHANGED thread
  BY DEF Runtime!Drained, Runtime!Runtime
<1>3. thread' \in [Call -> Runtime!ThreadState] /\ \A d \in Call \ {c} : thread'[d] = thread[d]
  BY <1>1, <1>2 DEF RuntimeTypes
<1>4. StatusOK(c)  BY <1>1, StatusEffect, StatusKept DEF Runtime!Drained
<1>5. call[c].owed \in BOOLEAN  BY <1>1 DEF Runtime!CallState
<1>6. Runtime!End(c, view, "cancelled", call[c].owed)  BY DEF Runtime!Drained
<1> QED  BY <1>1, <1>2, <1>3, <1>4, <1>5, <1>6, EndingMoves DEF Runtime!Runtime

LEMMA ProbeMoves ==
  ASSUME Runtime!Setting, RuntimeIInv, NEW c \in Call, NEW view \in Runtime!Views(c),
         Runtime!ProbeAnswers(c, view)
  PROVE  CallMoves(c)
<1>1. RuntimeTypes /\ ~Runtime!Draft(c)
  BY Reading DEF Runtime!ProbeAnswers
<1>2. UNCHANGED <<runtimeClosed, runtimeClosing, onLoop>> /\ UNCHANGED thread
  BY DEF Runtime!ProbeAnswers, Runtime!Runtime
<1>3. thread' \in [Call -> Runtime!ThreadState] /\ \A d \in Call \ {c} : thread'[d] = thread[d]
  BY <1>1, <1>2 DEF RuntimeTypes
<1>4. StatusOK(c)  BY <1>1, StatusEffect, StatusKept DEF Runtime!ProbeAnswers
<1>5. Runtime!End(c, view, "returned", FALSE) /\ Kind[c] = "health"  BY DEF Runtime!ProbeAnswers
<1> QED  BY <1>1, <1>2, <1>3, <1>4, <1>5, EndingMoves DEF Runtime!Runtime

LEMMA DraftDoneMoves ==
  ASSUME Runtime!Setting, RuntimeIInv, NEW c \in Call, NEW view \in Runtime!Views(c),
         Runtime!DraftDone(c, view) \/ Runtime!DraftSettled(c, view)
  PROVE  CallMoves(c)
<1>1. RuntimeTypes /\ CallOK(c)  BY DEF RuntimeIInv, Runtime!TypeOK, RuntimeTypes
<1>2. UNCHANGED <<runtimeClosed, runtimeClosing, onLoop>> /\ UNCHANGED thread /\ Runtime!Done(c)
  BY DEF Runtime!DraftDone, Runtime!DraftSettled, Runtime!Runtime
<1>3. thread' \in [Call -> Runtime!ThreadState] /\ \A d \in Call \ {c} : thread'[d] = thread[d]
  BY <1>1, <1>2 DEF RuntimeTypes
<1>4. PICK b \in BOOLEAN : draftDiag' \in Runtime!Noted(c, view, draftDiag, b)
  BY <1>1 DEF Runtime!DraftDone, Runtime!DraftSettled, RuntimeTypes
<1>5. StatusOK(c)
  <2>1. UNCHANGED state  BY DEF Runtime!DraftDone, Runtime!DraftSettled
  <2>2. draftDiag' \in BOOLEAN  BY <1>1, <1>4 DEF Runtime!Noted, RuntimeTypes
  <2>3. runtimeClosed /\ c \notin midway => draftDiag' = draftDiag
    BY <1>4, ViewsAgree DEF Runtime!Noted
  <2> QED  BY <1>1, <2>1, <2>2, <2>3 DEF StatusOK, RuntimeTypes, Runtime!status
<1>6. Runtime!Draft(c)  BY <1>1 DEF Runtime!DraftDone, Runtime!DraftSettled, CallOK, Fits
<1>7. \E r \in {"returned", "raised", "cancelled"} : Runtime!End(c, view, r, FALSE)
  BY DEF Runtime!DraftDone, Runtime!DraftSettled
<1>8. thread'[c] \notin {"queued", "running"}  BY <1>2 DEF Runtime!Done
<1>9. Kind[c] = "draft"  BY <1>6 DEF Runtime!Draft
<1> QED  BY <1>2, <1>3, <1>5, <1>7, <1>8, <1>9, EndingMoves DEF Runtime!Runtime

LEMMA CancelMoves ==
  ASSUME Runtime!Setting, RuntimeIInv, NEW c \in Call, Runtime!Cancel(c)  PROVE CallMoves(c)
<1>1. RuntimeTypes /\ CallOK(c) /\ call[c] \in Runtime!CallState
  BY DEF RuntimeIInv, Runtime!TypeOK, RuntimeTypes
<1>2. UNCHANGED <<runtimeClosed, runtimeClosing, onLoop, state, draftDiag>>
  BY DEF Runtime!Cancel, Runtime!Runtime, Runtime!status
<1>3. CASE \E next \in {"settling", "draining"} :
             /\ next = "settling" => call[c].pc = "drafting"
             /\ next = "draining" => call[c].pc = "observing"
             /\ Runtime!Goto(c, next) /\ UNCHANGED thread
  <2>0. PICK next \in {"settling", "draining"} :
             /\ next = "settling" => call[c].pc = "drafting"
             /\ next = "draining" => call[c].pc = "observing"
             /\ Runtime!Goto(c, next) /\ UNCHANGED thread
    BY <1>3
  <2>1. /\ call' \in [Call -> Runtime!CallState] /\ \A d \in Call \ {c} : call'[d] = call[d]
        /\ call'[c].pc = next /\ call'[c].owed = call[c].owed
        /\ call'[c].result = call[c].result /\ call'[c].receipt = call[c].receipt
        /\ UNCHANGED <<auditDiag, fails>>
    BY <1>1, <2>0, GotoEffect
  <2>2. Fits(call'[c], thread'[c], Runtime!Draft(c))  BY <1>1, <2>0, <2>1 DEF Fits, CallOK
  <2>3. call'[c].result = "none" /\ call'[c].receipt = "none"
    BY <1>1, <2>0, <2>1 DEF Fits, CallOK
  <2> QED  BY <1>1, <1>2, <2>0, <2>1, <2>2, <2>3
           DEF CallMoves, CallOK, RuntimeTypes, Runtime!Draft, Runtime!Runtime, Runtime!status
<1>0. StatusOK(c)  BY <1>1, StatusKept DEF Runtime!Cancel
<1>4. CASE call[c].pc = "provider" /\ Runtime!End(c, 0, "cancelled", FALSE) /\ UNCHANGED thread
  <2>1. thread' \in [Call -> Runtime!ThreadState] /\ \A d \in Call \ {c} : thread'[d] = thread[d]
    BY <1>1, <1>4 DEF RuntimeTypes
  <2>2. ~Runtime!Draft(c)  BY <1>4, Reading
  <2> QED
    BY <1>0, <1>4, <2>1, <2>2, EndingMoves DEF Runtime!Cancel
<1>5. CASE /\ call[c].pc = "draining" /\ Runtime!End(c, 0, "cancelled", call[c].owed)
           /\ \/ UNCHANGED thread
              \/ thread[c] = "queued" /\ thread' = [thread EXCEPT ![c] = "none"]
  <2>1. thread \in [Call -> Runtime!ThreadState]  BY <1>1 DEF RuntimeTypes
  <2>2. PICK t \in Runtime!ThreadState : thread' = [thread EXCEPT ![c] = t]
                                 /\ (t = "running" => thread[c] = "running")
    <3>1. CASE UNCHANGED thread
      <4>1. thread' = [thread EXCEPT ![c] = thread[c]] /\ thread[c] \in Runtime!ThreadState
        BY <2>1, <3>1
      <4> QED  BY <4>1
    <3> QED  BY <1>5, <3>1 DEF Runtime!ThreadState
  <2>3. /\ thread' \in [Call -> Runtime!ThreadState] /\ thread'[c] = t
        /\ \A d \in Call \ {c} : thread'[d] = thread[d]
    BY <1>1, <2>2, ThreadEffect
  <2>4. ~Runtime!Draft(c)  BY <1>5, Reading
  <2>5. call[c].owed \in BOOLEAN  BY <1>1 DEF Runtime!CallState
  <2> QED
    BY <1>0, <1>5, <2>2, <2>3, <2>4, <2>5, EndingMoves DEF Runtime!Cancel
<1> QED  BY <1>3, <1>4, <1>5 DEF Runtime!Cancel, Runtime!CancelDraft

LEMMA WorkMoves ==
  ASSUME Runtime!Setting, RuntimeIInv, NEW c \in Call, Runtime!Work(c)  PROVE CallMoves(c)
<1>1. RuntimeTypes /\ CallOK(c) /\ call[c] \in Runtime!CallState
  BY DEF RuntimeIInv, Runtime!TypeOK, RuntimeTypes
<1>2. UNCHANGED <<runtimeClosed, runtimeClosing, onLoop, state, draftDiag, auditDiag, call>>
  BY DEF Runtime!Work, Runtime!StartThread, Runtime!FinishThread, Runtime!Runtime, Runtime!status
<1>3. fails' \in 0 .. MaxFails
  BY <1>1
  DEF Runtime!Work, Runtime!StartThread, Runtime!FinishThread, Runtime!Fail, RuntimeTypes,
      Runtime!Setting
<1>4. PICK t \in Runtime!ThreadState \ {"none"} :
        /\ thread' = [thread EXCEPT ![c] = t]
        /\ t = "running" => ~Runtime!Closed(Runtime!StoreOf(c))
        /\ thread[c] \in {"queued", "running"}
        /\ t # "queued"
  BY DEF Runtime!Work, Runtime!StartThread, Runtime!FinishThread, Runtime!ThreadState
<1>5. /\ thread' \in [Call -> Runtime!ThreadState] /\ thread'[c] = t
      /\ \A d \in Call \ {c} : thread'[d] = thread[d]
  BY <1>1, <1>4, ThreadEffect
<1>6. Fits(call'[c], thread'[c], Runtime!Draft(c))
  BY <1>1, <1>2, <1>4, <1>5 DEF Fits, CallOK
<1> QED
  BY <1>1, <1>2, <1>3, <1>4, <1>5, <1>6
  DEF CallMoves, CallOK, RuntimeTypes, Runtime!Draft, Runtime!Runtime, Runtime!status

LEMMA EveryCallMoves ==
  ASSUME Runtime!Setting, RuntimeIInv, NEW c \in Call,
         \/ \E view \in Runtime!Views(c) : Runtime!Begin(c, view) \/ Runtime!Resume(c, view)
         \/ Runtime!Cancel(c) \/ Runtime!Work(c)
  PROVE  CallMoves(c)
BY BeginMoves, PageArrivesMoves, ReadFailsMoves, ObservedMoves, NotObservedMoves, DrainedMoves,
   ProbeMoves, DraftDoneMoves, CancelMoves, WorkMoves DEF Runtime!Resume

\* Once a step that close() struck has ended, late says so.
MidwayOK(c) ==
  /\ midway' \subseteq Call /\ late' \in BOOLEAN
  /\ ~late' => ~late /\ (c \notin midway \/ UNCHANGED Runtime!status)

LEMMA NextMoves ==
  ASSUME Runtime!Setting, RuntimeIInv, Runtime!Next, ~Runtime!Close, ~Runtime!CloseStores
  PROVE  \E c \in Call : CallMoves(c) /\ MidwayOK(c)
<1>0. midway \subseteq Call /\ late \in BOOLEAN  BY DEF RuntimeIInv, Runtime!TypeOK
<1>1. PICK c \in Call :
        \/ Runtime!Turn(c)
        \/ Runtime!LoopRuns(c) /\ midway = {} /\ Runtime!Cancel(c)
        \/ Runtime!Work(c)
  BY DEF Runtime!Next
<1>2. CallMoves(c)  BY <1>1, EveryCallMoves DEF Runtime!Turn
<1>3. MidwayOK(c)
  <2>1. CASE Runtime!Turn(c) \/ Runtime!LoopRuns(c)
    BY <1>0, <2>1 DEF Runtime!Turn, Runtime!LoopRuns, MidwayOK
  <2>2. CASE Runtime!Work(c)
    BY <1>0, <2>2
    DEF Runtime!Work, Runtime!StartThread, Runtime!FinishThread, MidwayOK
  <2> QED  BY <1>1, <2>1, <2>2
<1> QED  BY <1>2, <1>3

-----------------------------------------------------------------------------
(* The invariant and what follows from it *)

LEMMA RuntimeInitially == ASSUME Runtime!Setting, Runtime!Init PROVE RuntimeIInv
<1>1. call \in [Call -> Runtime!CallState]
  BY DEF Runtime!Init, Runtime!CallState
<1>2. Runtime!TypeOK
  <2>1. thread \in [Call -> Runtime!ThreadState]  BY DEF Runtime!Init, Runtime!ThreadState
  <2>2. fails \in 0 .. MaxFails  BY DEF Runtime!Init, Runtime!Setting
  <2> QED  BY <1>1, <2>1, <2>2 DEF Runtime!Init, Runtime!TypeOK, Runtime!State
<1>3. \A c \in Call : /\ call[c].pc = "idle" /\ call[c].result = "none"
                      /\ call[c].receipt = "none" /\ ~call[c].owed
  BY DEF Runtime!Init
<1>4. \A c \in Call : CallOK(c)  BY <1>3 DEF Runtime!Init, CallOK, Fits
<1>5. StoresOK /\ Disabled  BY DEF Runtime!Init, StoresOK, Disabled
<1> QED  BY <1>2, <1>4, <1>5 DEF RuntimeIInv

LEMMA CallMovesKeep ==
  ASSUME Runtime!Setting, RuntimeIInv, NEW c \in Call, CallMoves(c), MidwayOK(c)
  PROVE  RuntimeIInv'
<1>1. UNCHANGED <<runtimeClosed, runtimeClosing, onLoop>>  BY DEF CallMoves, Runtime!Runtime
<1>2. Runtime!TypeOK'
  BY <1>1 DEF CallMoves, MidwayOK, RuntimeIInv, Runtime!TypeOK, RuntimeTypes
<1>3. Disabled'
  BY <1>1 DEF CallMoves, MidwayOK, RuntimeIInv, Disabled, Runtime!status
<1>4. StoresOK'
  <2> SUFFICES ASSUME NEW d \in Call, Runtime!Closed(Runtime!StoreOf(d))', thread'[d] = "running"
               PROVE  FALSE
    BY DEF StoresOK
  <2>1. Runtime!Closed(Runtime!StoreOf(d))
    BY <1>1 DEF Runtime!Closed, Runtime!StoreOf, Runtime!Draft
  <2>2. thread[d] # "running"  BY <2>1 DEF RuntimeIInv, StoresOK
  <2> QED  BY <2>1, <2>2 DEF CallMoves
<1>5. \A d \in Call : CallOK(d)'
  <2> SUFFICES ASSUME NEW d \in Call, d # c  PROVE CallOK(d)'  BY DEF CallMoves
  <2> QED  BY DEF CallMoves, RuntimeIInv, CallOK, Runtime!Draft
<1> QED  BY <1>2, <1>3, <1>4, <1>5 DEF RuntimeIInv

LEMMA CloseKeeps ==
  ASSUME Runtime!Setting, RuntimeIInv, Runtime!Close \/ Runtime!CloseStores
  PROVE  RuntimeIInv' /\ UNCHANGED <<call, thread>>
<1>1. UNCHANGED <<auditDiag, call, thread, fails>>  BY DEF Runtime!Close, Runtime!CloseStores
<1>2. Runtime!TypeOK'
  BY <1>1
  DEF Runtime!Close, Runtime!CloseStores, RuntimeIInv, Runtime!TypeOK, Runtime!State, Runtime!status
<1>3. Disabled'
  BY <1>1
  DEF Runtime!Close, Runtime!CloseStores, RuntimeIInv, Disabled, Runtime!status
<1>4. StoresOK'
  BY <1>1
  DEF Runtime!Close, Runtime!CloseStores, RuntimeIInv, Runtime!TypeOK, StoresOK, Runtime!Closed,
      Runtime!StoreOf, Runtime!Draft, Runtime!Quiet
<1>5. \A d \in Call : CallOK(d)'  BY <1>1 DEF RuntimeIInv, CallOK, Runtime!Draft
<1> QED  BY <1>1, <1>2, <1>3, <1>4, <1>5 DEF RuntimeIInv

LEMMA RuntimeInductive ==
  ASSUME Runtime!Setting, RuntimeIInv, [Runtime!Next]_Runtime!vars
  PROVE  RuntimeIInv'
<1>1. CASE Runtime!Close \/ Runtime!CloseStores  BY <1>1, CloseKeeps
<1>2. CASE Runtime!Next /\ ~Runtime!Close /\ ~Runtime!CloseStores
  BY <1>2, NextMoves, CallMovesKeep
<1>3. CASE UNCHANGED Runtime!vars
  <2>1. UNCHANGED <<runtimeClosed, runtimeClosing, state, draftDiag, auditDiag, call, thread,
                    fails, onLoop, midway, late>>
    BY <1>3 DEF Runtime!vars
  <2> QED
    BY <2>1
    DEF RuntimeIInv, Runtime!TypeOK, Disabled, StoresOK, CallOK, Runtime!Closed,
        Runtime!StoreOf, Runtime!Draft
<1> QED  BY <1>1, <1>2, <1>3

LEMMA RuntimeImplied == ASSUME Runtime!Setting, RuntimeIInv PROVE RuntimeInv
<1>1. Runtime!ReturnedIsRecorded  BY DEF RuntimeIInv, CallOK, Fits, Runtime!ReturnedIsRecorded
<1>2. Runtime!ClosedIsQuiet  BY DEF RuntimeIInv, StoresOK, Runtime!ClosedIsQuiet, Runtime!Closed
<1>3. Runtime!DraftOutcomeKnown  BY DEF RuntimeIInv, CallOK, Fits, Runtime!DraftOutcomeKnown
<1>4. Runtime!ClosedIsDisabled  BY DEF RuntimeIInv, Disabled, Runtime!ClosedIsDisabled
<1> QED  BY <1>1, <1>2, <1>3, <1>4 DEF RuntimeIInv, RuntimeInv, Runtime!RuntimeInv

LEMMA RuntimeAlways == ASSUME Runtime!Setting PROVE Runtime!Spec => []RuntimeIInv
BY RuntimeInitially, RuntimeInductive, PTL DEF Runtime!Spec

\* For any number of calls, however often they are cancelled and whatever fails:
\* mail that was handed out was recorded, a closed runtime's threads are still, and
\* a draft call that ended knows its outcome.  The closed runtime is disabled unless
\* close() struck a step from another thread than the loop's: such a step checked
\* _closed before, and may assign _runtime_state after (plugin.py).
THEOREM RuntimeInvariant == ASSUME Runtime!Setting PROVE Runtime!Spec => []RuntimeInv
BY RuntimeAlways, RuntimeImplied, PTL

\* No read that was awaiting when the runtime closed hands out mail; only a step that
\* close() struck behind its last check does (_ensure_open_after_operation).
THEOREM NothingAfterUnload == ASSUME Runtime!Setting PROVE Runtime!Spec => NoMailAfterClose
<1> DEFINE Silent == runtimeClosed => \A c \in Call : Kind[c] \in {"read", "thread"} =>
                       (call'[c].result = "returned" =>
                          call[c].result = "returned" \/ c \in midway)
<1>1. RuntimeIInv /\ [Runtime!Next]_Runtime!vars => [Silent]_Runtime!vars
  <2> SUFFICES ASSUME RuntimeIInv, Runtime!Next, runtimeClosed, NEW c \in Call,
                      Kind[c] \in {"read", "thread"},
                      call'[c].result = "returned"
               PROVE  call[c].result = "returned" \/ c \in midway
    OBVIOUS
  <2>1. CASE Runtime!Close \/ Runtime!CloseStores  BY <2>1, CloseKeeps
  <2>2. CASE ~Runtime!Close /\ ~Runtime!CloseStores
    <3>1. PICK d \in Call : CallMoves(d)  BY <2>2, NextMoves
    <3> QED  BY <3>1 DEF CallMoves
  <2> QED  BY <2>1, <2>2
<1> QED  BY <1>1, RuntimeAlways, PTL DEF Runtime!Spec, NoMailAfterClose, Runtime!NoMailAfterClose

\* Once an audit event was lost, no call ends with a clean receipt any more
\* (docs/audit-reliability.md).
THEOREM GapsAreReported == ASSUME Runtime!Setting PROVE Runtime!Spec => GapStaysVisible
<1> DEFINE Told == \A c \in Call : call'[c].receipt = "clean" /\ call[c].receipt # "clean" =>
                     \A d \in Call : call[d].receipt # "failed"
<1>1. RuntimeIInv /\ [Runtime!Next]_Runtime!vars => [Told]_Runtime!vars
  <2> SUFFICES ASSUME RuntimeIInv, Runtime!Next, NEW c \in Call, call'[c].receipt = "clean",
                      call[c].receipt # "clean", NEW e \in Call
               PROVE  call[e].receipt # "failed"
    OBVIOUS
  <2>1. CASE Runtime!Close \/ Runtime!CloseStores  BY <2>1, CloseKeeps
  <2>2. CASE ~Runtime!Close /\ ~Runtime!CloseStores
    <3>1. PICK d \in Call : CallMoves(d)  BY <2>2, NextMoves
    <3>2. ~auditDiag  BY <3>1 DEF CallMoves
    <3> QED  BY <3>2 DEF RuntimeIInv, CallOK
  <2> QED  BY <2>1, <2>2
<1> QED  BY <1>1, RuntimeAlways, PTL DEF Runtime!Spec, GapStaysVisible, Runtime!GapStaysVisible

-----------------------------------------------------------------------------
(* The scan: the inductive invariant *)

\* What a chain still owes of a folder lies below the window it reads next.
FolderOK(c, box, f) ==
  LET s == c.states[f] IN
  /\ c.must[f] \subseteq box.uids
  /\ s.st = "not-scanned" => c.must[f] = {} /\ c.shown[f] = {} /\ c.visits[f] = 0
  /\ s.st = "partial" =>
       /\ s.upper >= 1 /\ c.visits[f] + s.upper <= MaxUid
       /\ c.must[f] \subseteq c.shown[f] \cup (1 .. s.upper)
       /\ c.shown[f] \cap (1 .. s.upper) = {}
  /\ s.st = "complete" => c.must[f] \subseteq c.shown[f]
  /\ c.visits[f] <= MaxUid

\* Unfinished folders come round in the order of their visits.
FairOK(c) ==
  \A f \in Scan!Folder, g \in Scan!Unfinished(c.states) :
    /\ c.visits[f] <= c.visits[g] + 1
    /\ f \in Scan!Unfinished(c.states) /\ Scan!Place(c, f) < Scan!Place(c, g)
           => c.visits[f] <= c.visits[g]

FlagsOK(c) ==
  /\ ~c.twice
  /\ c.bad => c.partial
  /\ c.complete => c.ended /\ ~c.bad /\ \A f \in Scan!Folder : c.states[f].st = "complete"

\* What a call has yet to visit comes before what it visited.
LeftOK(c, left) ==
  /\ left \subseteq Scan!Unfinished(c.states)
  /\ \A f \in left, g \in Scan!Unfinished(c.states) \ left : Scan!Place(c, f) < Scan!Place(c, g)

ChainOK(c) == FairOK(c) /\ FlagsOK(c)
BoxesOK == \A f \in Scan!Folder : boxes[f].uids \subseteq 1 .. boxes[f].next - 1

ScanIInv ==
  /\ Scan!TypeOK
  /\ ChainOK(chain)
  /\ \A f \in Scan!Folder : FolderOK(chain, boxes[f], f)
  /\ scan # None =>
       /\ ChainOK(scan.work) /\ ~scan.work.complete /\ LeftOK(scan.work, scan.left)
       /\ \A f \in Scan!Folder : FolderOK(scan.work, boxes[f], f)

-----------------------------------------------------------------------------
(* Chains and rotations *)

\* The instance counts as we do.
LEMMA SameCount == \A S : Scan!Cardinality(S) = Cardinality(S)
BY DEF Scan!Cardinality, Cardinality

LEMMA ScanNumbers ==
  ASSUME Scan!Setting
  PROVE
  /\ N \in Nat \ {0} /\ MaxUid \in Nat \ {0} /\ MaxValidity \in Nat \ {0}
  /\ Changes \in Nat /\ MaxFaults \in Nat /\ None \notin Scan!CallState
  /\ \A f \in Scan!Folder : (f + 1) % N = IF f = N - 1 THEN 0 ELSE f + 1
  /\ IsFiniteSet(Scan!Folder)
<1>1. /\ N \in Nat \ {0} /\ MaxUid \in Nat \ {0} /\ MaxValidity \in Nat \ {0}
      /\ Changes \in Nat /\ MaxFaults \in Nat /\ None \notin Scan!CallState
  BY DEF Scan!Setting
<1>2. \A f \in Scan!Folder : (f + 1) % N = IF f = N - 1 THEN 0 ELSE f + 1
  BY <1>1 DEF Scan!Folder
<1>3. IsFiniteSet(Scan!Folder)
  BY <1>1, FS_Interval DEF Scan!Folder
<1> QED  BY <1>1, <1>2, <1>3

LEMMA ChainFields ==
  ASSUME Scan!Setting, NEW c \in Scan!Chain
  PROVE  /\ c.rotation \in Scan!Folder /\ c.partial \in BOOLEAN /\ c.ended \in BOOLEAN
         /\ c.states \in [Scan!Folder -> Scan!FolderState] /\ c.complete \in BOOLEAN
         /\ c.must \in [Scan!Folder -> SUBSET Scan!Uid]
         /\ c.shown \in [Scan!Folder -> SUBSET Scan!Uid]
         /\ c.twice \in BOOLEAN /\ c.bad \in BOOLEAN
         /\ c.visits \in [Scan!Folder -> 0 .. MaxUid + 1]
         /\ \A f \in Scan!Folder : c.visits[f] \in Nat
BY ScanNumbers DEF Scan!Chain

LEMMA StateFields ==
  ASSUME Scan!Setting, NEW s \in Scan!FolderState
  PROVE  /\ s.st \in {"not-scanned", "partial", "complete", "unavailable"}
         /\ s.validity \in 0 .. MaxValidity /\ s.upper \in 0 .. MaxUid
BY DEF Scan!FolderState

LEMMA FairIntro ==
  ASSUME Scan!Setting, NEW d,
         \A h \in Scan!Folder, g \in Scan!Unfinished(d.states) :
           /\ d.visits[h] <= d.visits[g] + 1
           /\ h \in Scan!Unfinished(d.states) /\ Scan!Place(d, h) < Scan!Place(d, g)
                => d.visits[h] <= d.visits[g]
  PROVE  FairOK(d)
BY DEF FairOK

\* The folder whose turn it was goes to the end of the line.
LEMMA Turned ==
  ASSUME Scan!Setting, NEW c \in Scan!Chain, NEW d \in Scan!Chain, FairOK(c),
         NEW f \in Scan!Unfinished(c.states),
         \A g \in Scan!Unfinished(c.states) : Scan!Place(c, f) <= Scan!Place(c, g),
         d.rotation = (f + 1) % N,
         Scan!Unfinished(d.states) \subseteq Scan!Unfinished(c.states),
         \A g \in Scan!Folder : g # f => d.visits[g] = c.visits[g],
         \/ d.visits[f] = c.visits[f] + 1
         \/ d.visits[f] = c.visits[f] /\ f \notin Scan!Unfinished(d.states)
  PROVE  FairOK(d)
<1>1. /\ c.rotation \in Scan!Folder /\ f \in Scan!Folder /\ N \in Nat \ {0}
      /\ d.rotation = IF f = N - 1 THEN 0 ELSE f + 1
  BY ScanNumbers, ChainFields DEF Scan!Unfinished
<1>2. \A g \in Scan!Folder : c.visits[g] \in Nat /\ d.visits[g] \in Nat
  BY ChainFields
<1>3. \A g \in Scan!Unfinished(c.states) : g \in Scan!Folder /\ c.visits[f] <= c.visits[g]
  <2> TAKE g \in Scan!Unfinished(c.states)
  <2>1. g \in Scan!Folder  BY DEF Scan!Unfinished
  <2>2. CASE g = f  BY <1>1, <1>2, <2>2
  <2>3. CASE g # f
    <3>1. Scan!Place(c, f) < Scan!Place(c, g)  BY <1>1, <2>1, <2>3 DEF Scan!Place, Scan!Folder
    <3> QED  BY <1>1, <2>1, <3>1 DEF FairOK
  <2> QED  BY <2>1, <2>2, <2>3
<1> SUFFICES \A h \in Scan!Folder, g \in Scan!Unfinished(d.states) :
               /\ d.visits[h] <= d.visits[g] + 1
               /\ h \in Scan!Unfinished(d.states) /\ Scan!Place(d, h) < Scan!Place(d, g)
                    => d.visits[h] <= d.visits[g]
  BY FairIntro
<1> TAKE h \in Scan!Folder, g \in Scan!Unfinished(d.states)
<1>4. g \in Scan!Folder /\ g \in Scan!Unfinished(c.states)  BY DEF Scan!Unfinished
<1>5. c.visits[h] <= c.visits[g] + 1 /\ c.visits[f] <= c.visits[g]
      /\ c.visits[h] <= c.visits[f] + 1
  BY <1>1, <1>3, <1>4 DEF FairOK
<1>6. d.visits[h] <= d.visits[g] + 1
  BY <1>1, <1>2, <1>4, <1>5
<1>7. ASSUME h \in Scan!Unfinished(d.states), Scan!Place(d, h) < Scan!Place(d, g)
      PROVE  d.visits[h] <= d.visits[g]
  <2>1. h # f  BY <1>1, <1>4, <1>7 DEF Scan!Place, Scan!Folder
  <2>2. h \in Scan!Unfinished(c.states)  BY <1>7
  <2>3. CASE g = f  BY <1>2, <1>4, <1>5, <2>1, <2>3
  <2>4. CASE g # f
    <3>1. Scan!Place(c, f) <= Scan!Place(c, g) /\ Scan!Place(c, f) <= Scan!Place(c, h)
      BY <1>4, <2>2
    <3>2. Scan!Place(c, h) < Scan!Place(c, g)
      BY <1>1, <1>4, <1>7, <2>1, <2>4, <3>1 DEF Scan!Place, Scan!Folder
    <3>3. c.visits[h] <= c.visits[g]  BY <1>4, <2>2, <3>2 DEF FairOK
    <3> QED  BY <1>4, <2>1, <2>4, <3>3
  <2> QED  BY <2>3, <2>4
<1> QED  BY <1>6, <1>7

LEMMA LeftTurned ==
  ASSUME Scan!Setting, NEW c \in Scan!Chain, NEW d \in Scan!Chain, NEW left, LeftOK(c, left),
         NEW f \in left,
         \A g \in left : Scan!Place(c, f) <= Scan!Place(c, g),
         d.rotation = (f + 1) % N,
         \A g \in Scan!Folder : g # f => d.states[g] = c.states[g]
  PROVE  /\ LeftOK(d, left \ {f})
         /\ f \in Scan!Unfinished(c.states)
         /\ \A g \in Scan!Unfinished(c.states) : Scan!Place(c, f) <= Scan!Place(c, g)
<1>1. /\ c.rotation \in Scan!Folder /\ f \in Scan!Folder /\ N \in Nat \ {0}
      /\ d.rotation = IF f = N - 1 THEN 0 ELSE f + 1
      /\ f \in Scan!Unfinished(c.states) /\ left \subseteq Scan!Unfinished(c.states)
  BY ScanNumbers, ChainFields DEF Scan!Unfinished, LeftOK
<1>2. \A g \in Scan!Unfinished(c.states) : g \in Scan!Folder /\ Scan!Place(c, f) <= Scan!Place(c, g)
  <2> TAKE g \in Scan!Unfinished(c.states)
  <2>1. g \in Scan!Folder  BY DEF Scan!Unfinished
  <2>2. CASE g \in left  BY <2>1, <2>2
  <2>3. CASE g \notin left
    <3>1. Scan!Place(c, f) < Scan!Place(c, g)  BY <2>3 DEF LeftOK
    <3> QED  BY <1>1, <2>1, <3>1 DEF Scan!Place, Scan!Folder
  <2> QED  BY <2>1, <2>2, <2>3
<1>3. left \ {f} \subseteq Scan!Unfinished(d.states)
  BY <1>1 DEF Scan!Unfinished
<1>4. ASSUME NEW g \in left \ {f}, NEW h \in Scan!Unfinished(d.states) \ (left \ {f})
      PROVE  Scan!Place(d, g) < Scan!Place(d, h)
  <2>1. g \in Scan!Folder /\ h \in Scan!Folder  BY <1>1, <1>4 DEF Scan!Unfinished
  <2>2. Scan!Place(c, f) <= Scan!Place(c, g)  BY <1>4
  <2>3. CASE h = f
    BY <1>1, <1>4, <2>1, <2>2, <2>3 DEF Scan!Place, Scan!Folder
  <2>4. CASE h # f
    <3>1. h \in Scan!Unfinished(c.states) \ left  BY <1>4, <2>1, <2>4 DEF Scan!Unfinished
    <3>2. Scan!Place(c, g) < Scan!Place(c, h)  BY <1>4, <3>1 DEF LeftOK
    <3> QED  BY <1>1, <1>4, <2>1, <2>2, <2>4, <3>2 DEF Scan!Place, Scan!Folder
  <2> QED  BY <2>3, <2>4
<1> QED  BY <1>1, <1>2, <1>3, <1>4 DEF LeftOK

-----------------------------------------------------------------------------
(* A call in progress *)

LEMMA CallFields ==
  ASSUME Scan!Setting, ScanIInv, scan # None
  PROVE  /\ scan.work \in Scan!Chain /\ scan.remaining \in Nat /\ scan.left \subseteq Scan!Folder
         /\ ChainOK(scan.work) /\ ~scan.work.complete /\ LeftOK(scan.work, scan.left)
         /\ \A f \in Scan!Folder : FolderOK(scan.work, boxes[f], f)
BY DEF ScanIInv, Scan!TypeOK, Scan!CallState

LEMMA BoxFields ==
  ASSUME Scan!Setting, ScanIInv, NEW f \in Scan!Folder
  PROVE  /\ boxes[f].validity \in 1 .. MaxValidity /\ boxes[f].next \in 1 .. MaxUid + 1
         /\ boxes[f].uids \subseteq Scan!Uid /\ boxes[f].uids \subseteq 1 .. boxes[f].next - 1
BY DEF ScanIInv, Scan!TypeOK, Scan!Box

LEMMA AllowanceFits ==
  ASSUME Scan!Setting, ScanIInv, Scan!Visiting
  PROVE  Scan!Allowance \in Nat \ {0} /\ Scan!Allowance <= scan.remaining
<1>1. scan.left \subseteq Scan!Folder /\ scan.left # {} /\ scan.remaining \in Nat \ {0}
  BY CallFields DEF Scan!Visiting
<1>2. IsFiniteSet(scan.left)  BY <1>1, ScanNumbers, FS_Subset
<1>3. Cardinality(scan.left) \in Nat \ {0}
  BY <1>1, <1>2, FS_CardinalityType, FS_EmptySet
<1> DEFINE n == Cardinality(scan.left)
           r == scan.remaining
<1>4. n \in Nat \ {0} /\ r \in Nat \ {0}  BY <1>1, <1>3
<1> HIDE DEF n, r
<1>5. r \div n \in Nat /\ r \div n <= r  BY <1>4
<1>6. Scan!Allowance = IF r \div n = 0 THEN 1 ELSE r \div n  BY SameCount DEF Scan!Allowance, n, r
<1>7. scan.remaining = r  BY DEF r
<1> QED  BY <1>4, <1>5, <1>6, <1>7

\* What a visit leaves of the call: the folder is ticked off.
Ticked(d, f) ==
  /\ scan'.work = [d EXCEPT !.rotation = (f + 1) % N]
  /\ scan'.left = scan.left \ {f}
  /\ scan' # None

LEMMA Ticking ==
  ASSUME Scan!Setting, ScanIInv, Scan!Visiting, NEW f \in scan.left, NEW d \in Scan!Chain,
         Scan!AfterVisit(d, f)
  PROVE  /\ scan' \in Scan!CallState /\ scan' # None
         /\ scan'.work \in Scan!Chain /\ scan'.left = scan.left \ {f}
         /\ scan'.work.rotation = (f + 1) % N
         /\ scan'.work.partial = d.partial /\ scan'.work.states = d.states
         /\ scan'.work.ended = d.ended /\ scan'.work.complete = d.complete
         /\ scan'.work.must = d.must /\ scan'.work.shown = d.shown
         /\ scan'.work.twice = d.twice /\ scan'.work.bad = d.bad
         /\ scan'.work.visits = d.visits
<1> DEFINE w == [d EXCEPT !.rotation = (f + 1) % N]
<1>1. scan' = [work |-> w, remaining |-> scan.remaining - Scan!Allowance, left |-> scan.left \ {f}]
  BY DEF Scan!AfterVisit
<1>2. f \in Scan!Folder /\ scan.left \subseteq Scan!Folder /\ scan.remaining \in Nat
  BY CallFields DEF Scan!Visiting
<1>3. (f + 1) % N \in Scan!Folder  BY <1>2, ScanNumbers DEF Scan!Folder
<1>4. /\ w \in Scan!Chain /\ w.rotation = (f + 1) % N
      /\ w.partial = d.partial /\ w.states = d.states
      /\ w.ended = d.ended /\ w.complete = d.complete
      /\ w.must = d.must /\ w.shown = d.shown
      /\ w.twice = d.twice /\ w.bad = d.bad /\ w.visits = d.visits
  BY <1>3 DEF Scan!Chain
<1>5. scan.remaining - Scan!Allowance \in Nat  BY <1>2, AllowanceFits
<1> HIDE DEF w
<1>6. scan' \in Scan!CallState  BY <1>1, <1>2, <1>4, <1>5 DEF Scan!CallState
<1>7. scan' # None  BY <1>6, ScanNumbers
<1>8. scan'.work = w /\ scan'.left = scan.left \ {f}  BY <1>1
<1> QED  BY <1>4, <1>6, <1>7, <1>8

\* The chain after a visit, whatever became of the folder.
VisitKeeps(f) ==
  /\ Scan!TypeOK' /\ UNCHANGED <<boxes, chain>> /\ scan' # None
  /\ ChainOK(scan'.work) /\ ~scan'.work.complete /\ LeftOK(scan'.work, scan'.left)
  /\ \A g \in Scan!Folder : FolderOK(scan'.work, boxes[g], g)

LEMMA UnavailableKeeps ==
  ASSUME Scan!Setting, ScanIInv, Scan!Visiting, NEW f \in scan.left, Scan!Turn(f),
         Scan!VisitUnavailable(f)
  PROVE  VisitKeeps(f)
<1> DEFINE c == scan.work
           d == [c EXCEPT !.states[f] = Scan!Unavailable]
<1>1. /\ c \in Scan!Chain /\ scan.left \subseteq Scan!Folder /\ f \in Scan!Folder
      /\ ChainOK(c) /\ ~c.complete /\ LeftOK(c, scan.left)
      /\ \A g \in Scan!Folder : FolderOK(c, boxes[g], g)
  BY CallFields DEF Scan!Visiting
<1>2. Scan!Unavailable \in Scan!FolderState /\ Scan!Unavailable.st = "unavailable"
  BY ScanNumbers DEF Scan!Unavailable, Scan!NotScanned, Scan!FolderState
<1>3. c.states \in [Scan!Folder -> Scan!FolderState]  BY <1>1, ChainFields
<1>4. [c.states EXCEPT ![f] = Scan!Unavailable] \in [Scan!Folder -> Scan!FolderState]
  BY <1>2, <1>3
<1>5. /\ d \in Scan!Chain /\ d.states = [c.states EXCEPT ![f] = Scan!Unavailable]
      /\ d.partial = c.partial /\ d.ended = c.ended /\ d.complete = c.complete
      /\ d.must = c.must /\ d.shown = c.shown /\ d.twice = c.twice /\ d.bad = c.bad
      /\ d.visits = c.visits
  BY <1>1, <1>4 DEF Scan!Chain
<1>6. Scan!AfterVisit(d, f)  BY DEF Scan!VisitUnavailable
<1> HIDE DEF d
<1>7. /\ scan' \in Scan!CallState /\ scan' # None /\ scan'.work \in Scan!Chain
      /\ scan'.left = scan.left \ {f}
      /\ scan'.work.rotation = (f + 1) % N
      /\ scan'.work.states = [c.states EXCEPT ![f] = Scan!Unavailable]
      /\ scan'.work.partial = c.partial /\ scan'.work.ended = c.ended
      /\ scan'.work.complete = c.complete /\ scan'.work.must = c.must
      /\ scan'.work.shown = c.shown /\ scan'.work.twice = c.twice
      /\ scan'.work.bad = c.bad /\ scan'.work.visits = c.visits
  BY <1>5, <1>6, Ticking
<1> HIDE DEF c
<1>8. \A g \in Scan!Folder : g # f => scan'.work.states[g] = c.states[g]
  BY <1>3, <1>7
<1>9. scan'.work.states[f] = Scan!Unavailable  BY <1>1, <1>3, <1>7
<1>10. \A g \in scan.left : Scan!Place(c, f) <= Scan!Place(c, g)  BY DEF Scan!Turn, c
<1>11. /\ LeftOK(scan'.work, scan'.left) /\ f \in Scan!Unfinished(c.states)
       /\ \A g \in Scan!Unfinished(c.states) : Scan!Place(c, f) <= Scan!Place(c, g)
  <2>1. /\ LeftOK(scan'.work, scan.left \ {f}) /\ f \in Scan!Unfinished(c.states)
        /\ \A g \in Scan!Unfinished(c.states) : Scan!Place(c, f) <= Scan!Place(c, g)
    <3> DEFINE left == scan.left
               e == scan'.work
    <3>1. /\ e \in Scan!Chain /\ LeftOK(c, left) /\ f \in left /\ e.rotation = (f + 1) % N
          /\ \A g \in left : Scan!Place(c, f) <= Scan!Place(c, g)
          /\ \A g \in Scan!Folder : g # f => e.states[g] = c.states[g]
      BY <1>1, <1>7, <1>8, <1>10
    <3> HIDE DEF left, e
    <3>2. /\ LeftOK(e, left \ {f}) /\ f \in Scan!Unfinished(c.states)
          /\ \A g \in Scan!Unfinished(c.states) : Scan!Place(c, f) <= Scan!Place(c, g)
      BY <1>1, <3>1, LeftTurned
    <3> QED  BY <3>2 DEF left, e
  <2> QED  BY <1>7, <2>1
<1>12. /\ Scan!Unfinished(scan'.work.states) \subseteq Scan!Unfinished(c.states)
       /\ f \notin Scan!Unfinished(scan'.work.states)
  BY <1>2, <1>8, <1>9 DEF Scan!Unfinished
<1>13. FairOK(scan'.work)
  BY <1>1, <1>7, <1>11, <1>12, Turned DEF ChainOK
<1>14. FlagsOK(scan'.work) /\ ~scan'.work.complete
  BY <1>1, <1>7 DEF ChainOK, FlagsOK
<1>15. ASSUME NEW g \in Scan!Folder PROVE FolderOK(scan'.work, boxes[g], g)
  <2>1. FolderOK(c, boxes[g], g)  BY <1>1
  <2>2. CASE g = f  BY <1>2, <1>7, <1>9, <2>1, <2>2 DEF FolderOK
  <2>3. CASE g # f  BY <1>7, <1>8, <2>1, <2>3 DEF FolderOK
  <2> QED  BY <2>2, <2>3
<1>16. UNCHANGED <<boxes, chain, scanClosed, changes>> /\ scanFaults' \in 0 .. MaxFaults
  BY ScanNumbers DEF Scan!VisitUnavailable, ScanIInv, Scan!TypeOK, Scan!server
<1>17. Scan!TypeOK'  BY <1>7, <1>16 DEF ScanIInv, Scan!TypeOK
<1> QED  BY <1>7, <1>11, <1>13, <1>14, <1>15, <1>16, <1>17 DEF VisitKeeps, ChainOK

\* What a window adds to a chain.
LEMMA WindowFields ==
  ASSUME Scan!Setting, ScanIInv, Scan!Visiting, NEW f \in scan.left, NEW bad \in BOOLEAN
  PROVE  \E lower \in 1 .. MaxUid + 1, upper \in 0 .. MaxUid, cut \in BOOLEAN :
           LET c == scan.work
               d == Scan!ReadWindow(f, bad)
               box == boxes[f]
               page == {u \in box.uids : lower <= u /\ u <= upper}
               first == c.states[f].st = "not-scanned" IN
           /\ upper = IF first THEN box.next - 1 ELSE c.states[f].upper
           /\ lower <= upper \/ lower = 1
           /\ d \in Scan!Chain
           /\ d.states = [c.states EXCEPT ![f] = Scan!Rest(lower, box)]
           /\ d.partial = (c.partial \/ cut) /\ d.bad = (c.bad \/ cut)
           /\ d.ended = c.ended /\ d.complete = c.complete
           /\ d.must = [c.must EXCEPT ![f] = IF first THEN box.uids ELSE @]
           /\ d.shown = [c.shown EXCEPT ![f] = @ \cup page]
           /\ d.twice = (c.twice \/ page \cap c.shown[f] # {})
           /\ d.visits = [c.visits EXCEPT ![f] = @ + 1]
<1> DEFINE c == scan.work
           d == Scan!ReadWindow(f, bad)
           box == boxes[f]
           old == c.states[f]
           first == old.st = "not-scanned"
           upper == IF first THEN box.next - 1 ELSE old.upper
           lower == IF upper > Scan!Allowance THEN upper - Scan!Allowance + 1 ELSE 1
           page == {u \in box.uids : lower <= u /\ u <= upper}
           cut == bad /\ page # {}
           must == IF first THEN box.uids ELSE c.must[f]
           twice == c.twice \/ page \cap c.shown[f] # {}
<1>1. c \in Scan!Chain /\ f \in Scan!Folder /\ FolderOK(c, boxes[f], f)
  BY CallFields DEF Scan!Visiting
<1>2. /\ box.validity \in 1 .. MaxValidity /\ box.next \in 1 .. MaxUid + 1
      /\ box.uids \subseteq Scan!Uid
  BY <1>1, BoxFields
<1>3. /\ c.states \in [Scan!Folder -> Scan!FolderState]
      /\ c.must \in [Scan!Folder -> SUBSET Scan!Uid]
      /\ c.shown \in [Scan!Folder -> SUBSET Scan!Uid]
      /\ c.visits \in [Scan!Folder -> 0 .. MaxUid + 1]
      /\ c.twice \in BOOLEAN /\ c.bad \in BOOLEAN /\ c.partial \in BOOLEAN
  BY <1>1, ChainFields
<1>4. old \in Scan!FolderState /\ old.upper \in 0 .. MaxUid
  BY <1>1, <1>3, StateFields
<1>5. upper \in 0 .. MaxUid  BY <1>2, <1>4, ScanNumbers
<1>6. lower \in 1 .. MaxUid + 1 /\ (lower <= upper \/ lower = 1)
  BY <1>5, AllowanceFits, ScanNumbers
<1>7. Scan!Rest(lower, box) \in Scan!FolderState
  BY <1>2, <1>5, <1>6, ScanNumbers DEF Scan!Rest, Scan!Complete, Scan!NotScanned, Scan!FolderState
<1>8. d = [c EXCEPT
             !.states = [c.states EXCEPT ![f] = Scan!Rest(lower, box)],
             !.partial = c.partial \/ cut,
             !.bad = c.bad \/ cut,
             !.must = [c.must EXCEPT ![f] = must],
             !.shown = [c.shown EXCEPT ![f] = c.shown[f] \cup page],
             !.twice = twice,
             !.visits = [c.visits EXCEPT ![f] = c.visits[f] + 1]]
  BY DEF Scan!ReadWindow
<1>9. /\ [c.states EXCEPT ![f] = Scan!Rest(lower, box)] \in [Scan!Folder -> Scan!FolderState]
      /\ [c.must EXCEPT ![f] = must] \in [Scan!Folder -> SUBSET Scan!Uid]
      /\ [c.shown EXCEPT ![f] = c.shown[f] \cup page] \in [Scan!Folder -> SUBSET Scan!Uid]
  BY <1>1, <1>2, <1>3, <1>7
<1>10. [c.visits EXCEPT ![f] = c.visits[f] + 1] \in [Scan!Folder -> 0 .. MaxUid + 1]
  <2>1. c.visits[f] \in Nat /\ c.visits[f] <= MaxUid
    BY <1>1, ChainFields DEF FolderOK
  <2>2. c.visits[f] + 1 \in 0 .. MaxUid + 1  BY <2>1, ScanNumbers
  <2> QED  BY <1>3, <2>2
<1>11. cut \in BOOLEAN /\ twice \in BOOLEAN /\ (c.partial \/ cut) \in BOOLEAN
       /\ (c.bad \/ cut) \in BOOLEAN
  BY <1>3
<1>12. /\ [c.must EXCEPT ![f] = IF first THEN box.uids ELSE @] = [c.must EXCEPT ![f] = must]
       /\ [c.shown EXCEPT ![f] = @ \cup page] = [c.shown EXCEPT ![f] = c.shown[f] \cup page]
       /\ [c.visits EXCEPT ![f] = @ + 1] = [c.visits EXCEPT ![f] = c.visits[f] + 1]
  BY <1>1, <1>3
<1> HIDE DEF cut, twice, must, page, lower, upper, first, box, d
<1>13. /\ d \in Scan!Chain
       /\ d.states = [c.states EXCEPT ![f] = Scan!Rest(lower, box)]
       /\ d.partial = (c.partial \/ cut) /\ d.bad = (c.bad \/ cut)
       /\ d.ended = c.ended /\ d.complete = c.complete
       /\ d.must = [c.must EXCEPT ![f] = IF first THEN box.uids ELSE @]
       /\ d.shown = [c.shown EXCEPT ![f] = @ \cup page]
       /\ d.twice = (c.twice \/ page \cap c.shown[f] # {})
       /\ d.visits = [c.visits EXCEPT ![f] = @ + 1]
  <2> DEFINE S == [c.states EXCEPT ![f] = Scan!Rest(lower, box)]
             M == [c.must EXCEPT ![f] = must]
             W == [c.shown EXCEPT ![f] = c.shown[f] \cup page]
             V == [c.visits EXCEPT ![f] = c.visits[f] + 1]
             P == c.partial \/ cut
             B == c.bad \/ cut
  <2>1. d = [c EXCEPT !.states = S, !.partial = P, !.bad = B, !.must = M, !.shown = W,
                      !.twice = twice, !.visits = V]
    BY <1>8
  <2>2. /\ S \in [Scan!Folder -> Scan!FolderState] /\ P \in BOOLEAN /\ B \in BOOLEAN
        /\ M \in [Scan!Folder -> SUBSET Scan!Uid] /\ W \in [Scan!Folder -> SUBSET Scan!Uid]
        /\ twice \in BOOLEAN /\ V \in [Scan!Folder -> 0 .. MaxUid + 1]
    BY <1>9, <1>10, <1>11
  <2> HIDE DEF S, M, W, V, P, B
  <2>3. /\ d \in Scan!Chain /\ d.states = S /\ d.partial = P /\ d.bad = B /\ d.must = M
        /\ d.shown = W /\ d.twice = twice /\ d.visits = V
        /\ d.ended = c.ended /\ d.complete = c.complete
    BY <1>1, <2>1, <2>2 DEF Scan!Chain
  <2> QED  BY <1>12, <2>3 DEF S, M, W, V, P, B, twice
<1> USE <1>5, <1>6, <1>11
<1> WITNESS lower \in 1 .. MaxUid + 1, upper \in 0 .. MaxUid, cut \in BOOLEAN
<1>14. upper = IF first THEN box.next - 1 ELSE c.states[f].upper
  BY DEF upper
<1> QED  BY <1>6, <1>13, <1>14 DEF page, first, box, d

LEMMA VisitKeepsAll ==
  ASSUME Scan!Setting, ScanIInv, Scan!Visiting, NEW f \in scan.left, Scan!Turn(f),
         NEW bad \in BOOLEAN, Scan!Visit(f, bad)
  PROVE  VisitKeeps(f)
<1> DEFINE c == scan.work
           d == Scan!ReadWindow(f, bad)
           box == boxes[f]
           first == c.states[f].st = "not-scanned"
<1>1. /\ c \in Scan!Chain /\ scan.left \subseteq Scan!Folder /\ f \in Scan!Folder
      /\ ChainOK(c) /\ ~c.complete /\ LeftOK(c, scan.left)
      /\ \A g \in Scan!Folder : FolderOK(c, boxes[g], g)
  BY CallFields DEF Scan!Visiting
<1>2. PICK lower \in 1 .. MaxUid + 1, upper \in 0 .. MaxUid, cut \in BOOLEAN :
        /\ upper = IF first THEN box.next - 1 ELSE c.states[f].upper
        /\ lower <= upper \/ lower = 1
        /\ d \in Scan!Chain
        /\ d.states = [c.states EXCEPT ![f] = Scan!Rest(lower, box)]
        /\ d.partial = (c.partial \/ cut) /\ d.bad = (c.bad \/ cut)
        /\ d.ended = c.ended /\ d.complete = c.complete
        /\ d.must = [c.must EXCEPT ![f] = IF first THEN box.uids ELSE @]
        /\ d.shown = [c.shown EXCEPT ![f] = @ \cup {u \in box.uids : lower <= u /\ u <= upper}]
        /\ d.twice = (c.twice \/ {u \in box.uids : lower <= u /\ u <= upper} \cap c.shown[f] # {})
        /\ d.visits = [c.visits EXCEPT ![f] = @ + 1]
  BY WindowFields
<1> DEFINE page == {u \in box.uids : lower <= u /\ u <= upper}
<1>3. Scan!AfterVisit(d, f)  BY DEF Scan!Visit
<1> HIDE DEF d
<1>4. /\ scan' \in Scan!CallState /\ scan' # None /\ scan'.work \in Scan!Chain
      /\ scan'.left = scan.left \ {f}
      /\ scan'.work.rotation = (f + 1) % N
      /\ scan'.work.partial = d.partial /\ scan'.work.states = d.states
      /\ scan'.work.ended = d.ended /\ scan'.work.complete = d.complete
      /\ scan'.work.must = d.must /\ scan'.work.shown = d.shown
      /\ scan'.work.twice = d.twice /\ scan'.work.bad = d.bad
      /\ scan'.work.visits = d.visits
  BY <1>2, <1>3, Ticking
<1> DEFINE w == scan'.work
<1>5. /\ c.states \in [Scan!Folder -> Scan!FolderState]
      /\ c.must \in [Scan!Folder -> SUBSET Scan!Uid]
      /\ c.shown \in [Scan!Folder -> SUBSET Scan!Uid]
      /\ c.visits \in [Scan!Folder -> 0 .. MaxUid + 1]
      /\ \A g \in Scan!Folder : c.visits[g] \in Nat
  BY <1>1, ChainFields
<1>6. c.states[f] \in Scan!FolderState /\ c.states[f].upper \in 0 .. MaxUid
      /\ c.states[f].st \in {"not-scanned", "partial", "complete", "unavailable"}
  BY <1>1, <1>5, StateFields
<1>7. /\ box.validity \in 1 .. MaxValidity /\ box.next \in 1 .. MaxUid + 1
      /\ box.uids \subseteq Scan!Uid /\ box.uids \subseteq 1 .. box.next - 1
  BY <1>1, BoxFields
<1> HIDE DEF c, box
<1>8. \A g \in Scan!Folder : g # f =>
        /\ w.states[g] = c.states[g] /\ w.must[g] = c.must[g]
        /\ w.shown[g] = c.shown[g] /\ w.visits[g] = c.visits[g]
  BY <1>2, <1>4, <1>5
<1>9. /\ w.states[f] = Scan!Rest(lower, box)
      /\ w.must[f] = IF first THEN box.uids ELSE c.must[f]
      /\ w.shown[f] = c.shown[f] \cup page
      /\ w.visits[f] = c.visits[f] + 1
  BY <1>1, <1>2, <1>4, <1>5
<1>10. \A g \in scan.left : Scan!Place(c, f) <= Scan!Place(c, g)  BY DEF Scan!Turn, c
<1>11. /\ LeftOK(w, scan'.left) /\ f \in Scan!Unfinished(c.states)
       /\ \A g \in Scan!Unfinished(c.states) : Scan!Place(c, f) <= Scan!Place(c, g)
  <2>1. /\ LeftOK(w, scan.left \ {f}) /\ f \in Scan!Unfinished(c.states)
        /\ \A g \in Scan!Unfinished(c.states) : Scan!Place(c, f) <= Scan!Place(c, g)
    <3> DEFINE left == scan.left
               e == scan'.work
    <3>1. /\ e \in Scan!Chain /\ LeftOK(c, left) /\ f \in left /\ e.rotation = (f + 1) % N
          /\ \A g \in left : Scan!Place(c, f) <= Scan!Place(c, g)
          /\ \A g \in Scan!Folder : g # f => e.states[g] = c.states[g]
      BY <1>1, <1>4, <1>8, <1>10
    <3> HIDE DEF left, e
    <3>2. /\ LeftOK(e, left \ {f}) /\ f \in Scan!Unfinished(c.states)
          /\ \A g \in Scan!Unfinished(c.states) : Scan!Place(c, f) <= Scan!Place(c, g)
      BY <1>1, <3>1, LeftTurned
    <3> QED  BY <3>2 DEF left, e
  <2> QED  BY <1>4, <2>1
<1>12. Scan!Unfinished(w.states) \subseteq Scan!Unfinished(c.states)
  BY <1>8, <1>11 DEF Scan!Unfinished
<1>13. FairOK(w)
  BY <1>1, <1>4, <1>8, <1>9, <1>11, <1>12, Turned DEF ChainOK
<1>14. c.states[f].st \in {"not-scanned", "partial"} /\ FolderOK(c, box, f)
  BY <1>1, <1>11 DEF Scan!Unfinished, box
<1>15. page \cap c.shown[f] = {}
  <2>1. CASE first  BY <1>14, <2>1 DEF FolderOK
  <2>2. CASE ~first
    <3>1. page \subseteq 1 .. upper  BY <1>2, <1>7, ScanNumbers DEF Scan!Uid
    <3>2. c.states[f].st = "partial" /\ upper = c.states[f].upper  BY <1>2, <1>14, <2>2
    <3>3. c.shown[f] \cap (1 .. upper) = {}  BY <1>14, <3>2 DEF FolderOK
    <3> QED  BY <3>1, <3>3
  <2> QED  BY <2>1, <2>2
<1>16. ~w.twice /\ (w.bad => w.partial) /\ ~w.complete
  BY <1>1, <1>2, <1>4, <1>15 DEF ChainOK, FlagsOK
<1>17. FolderOK(w, box, f)
  <2>1. c.must[f] \subseteq box.uids /\ c.must[f] \subseteq Scan!Uid /\ c.visits[f] \in Nat
    BY <1>1, <1>5, <1>14 DEF FolderOK
  <2>2. w.must[f] \subseteq box.uids /\ w.must[f] \subseteq Scan!Uid  BY <1>7, <1>9, <2>1
  <2>3. w.must[f] \subseteq c.shown[f] \cup (1 .. upper)
    <3>1. CASE first  BY <1>2, <1>7, <1>9, <3>1
    <3>2. CASE ~first
      <4>1. c.states[f].st = "partial" /\ upper = c.states[f].upper  BY <1>2, <1>14, <3>2
      <4> QED  BY <1>9, <1>14, <3>2, <4>1 DEF FolderOK
    <3> QED  BY <3>1, <3>2
  <2>4. c.shown[f] \cap (1 .. upper) = {}
    <3>1. CASE first  BY <1>14, <3>1 DEF FolderOK
    <3>2. CASE ~first
      <4>1. c.states[f].st = "partial" /\ upper = c.states[f].upper  BY <1>2, <1>14, <3>2
      <4> QED  BY <1>14, <4>1 DEF FolderOK
    <3> QED  BY <3>1, <3>2
  <2>5. c.visits[f] + 1 <= MaxUid /\ (upper >= 1 => c.visits[f] + upper <= MaxUid)
    <3>1. CASE first  BY <1>2, <1>14, <3>1, ScanNumbers DEF FolderOK
    <3>2. CASE ~first
      <4>1. c.states[f].st = "partial" /\ upper = c.states[f].upper  BY <1>2, <1>14, <3>2
      <4>2. upper >= 1 /\ c.visits[f] + upper <= MaxUid  BY <1>14, <4>1 DEF FolderOK
      <4> QED  BY <1>2, <2>1, <4>2, ScanNumbers
    <3> QED  BY <3>1, <3>2
  <2>6. \A u \in w.must[f] : u \in c.shown[f] \/ u \in page \/ (u \in 1 .. lower - 1)
    <3> TAKE u \in w.must[f]
    <3>1. u \in box.uids /\ u \in Scan!Uid  BY <2>2
    <3>2. u \in c.shown[f] \/ u \in 1 .. upper  BY <2>3
    <3> QED  BY <1>2, <3>1, <3>2, ScanNumbers DEF Scan!Uid
  <2>7. CASE lower > 1
    <3>1. w.states[f].st = "partial" /\ w.states[f].upper = lower - 1
      BY <1>9, <2>7 DEF Scan!Rest
    <3>2. lower <= upper  BY <1>2, <2>7
    <3>3. lower - 1 >= 1 /\ w.visits[f] + (lower - 1) <= MaxUid /\ w.visits[f] <= MaxUid
      BY <1>2, <1>9, <2>1, <2>5, <2>7, <3>2, ScanNumbers
    <3>4. w.must[f] \subseteq w.shown[f] \cup (1 .. lower - 1)  BY <1>9, <2>6
    <3>5. w.shown[f] \cap (1 .. lower - 1) = {}
      <4>1. 1 .. lower - 1 \subseteq 1 .. upper  BY <1>2, <3>2, ScanNumbers
      <4>2. page \cap (1 .. lower - 1) = {}  BY <1>2, <1>7, ScanNumbers DEF Scan!Uid
      <4> QED  BY <1>9, <2>4, <4>1, <4>2
    <3> QED  BY <2>2, <3>1, <3>3, <3>4, <3>5 DEF FolderOK
  <2>8. CASE ~(lower > 1)
    <3>1. w.states[f].st = "complete"  BY <1>9, <2>8 DEF Scan!Rest, Scan!Complete, Scan!NotScanned
    <3>2. 1 .. lower - 1 = {}  BY <1>2, <2>8, ScanNumbers
    <3>3. w.must[f] \subseteq w.shown[f]  BY <1>9, <2>6, <3>2
    <3>4. w.visits[f] <= MaxUid  BY <1>9, <2>1, <2>5
    <3> QED  BY <2>2, <3>1, <3>3, <3>4 DEF FolderOK
  <2> QED  BY <2>7, <2>8
<1>18. ASSUME NEW g \in Scan!Folder PROVE FolderOK(w, boxes[g], g)
  <2>1. CASE g = f  BY <1>17, <2>1 DEF box
  <2>2. CASE g # f  BY <1>1, <1>8, <2>2 DEF FolderOK
  <2> QED  BY <2>1, <2>2
<1>19. UNCHANGED <<boxes, chain, scanClosed, changes, scanFaults>>
  BY DEF Scan!Visit, Scan!server
<1>20. Scan!TypeOK'  BY <1>4, <1>19 DEF ScanIInv, Scan!TypeOK
<1> QED  BY <1>4, <1>11, <1>13, <1>16, <1>18, <1>19, <1>20 DEF VisitKeeps, ChainOK, FlagsOK

-----------------------------------------------------------------------------
(* The other actions *)

LEMMA BeginKeeps ==
  ASSUME Scan!Setting, ScanIInv, NEW limit \in Limits, Scan!BeginCall(limit)  PROVE ScanIInv'
<1>1. /\ scan' = [work |-> chain, remaining |-> limit, left |-> Scan!Unfinished(chain.states)]
      /\ UNCHANGED <<boxes, chain, scanClosed, changes, scanFaults>> /\ ~chain.ended
  BY DEF Scan!BeginCall, Scan!server
<1>2. chain \in Scan!Chain /\ limit \in Nat /\ Scan!Unfinished(chain.states) \subseteq Scan!Folder
  BY DEF ScanIInv, Scan!TypeOK, Scan!Setting, Scan!Unfinished
<1>3. scan' \in Scan!CallState /\ scan'.work = chain /\ scan'.left = Scan!Unfinished(chain.states)
  BY <1>1, <1>2 DEF Scan!CallState
<1>4. Scan!TypeOK'  BY <1>1, <1>3 DEF ScanIInv, Scan!TypeOK
<1>5. ChainOK(chain) /\ ~chain.complete  BY <1>1 DEF ScanIInv, ChainOK, FlagsOK
<1>6. LeftOK(chain, Scan!Unfinished(chain.states))  BY DEF LeftOK
<1> QED  BY <1>1, <1>3, <1>4, <1>5, <1>6 DEF ScanIInv

LEMMA VisitNextKeeps ==
  ASSUME Scan!Setting, ScanIInv, Scan!VisitNext  PROVE ScanIInv'
<1>1. PICK f \in scan.left :
        Scan!Turn(f) /\ (Scan!VisitUnavailable(f) \/ \E bad \in BOOLEAN : Scan!Visit(f, bad))
  BY DEF Scan!VisitNext
<1>2. Scan!Visiting  BY DEF Scan!VisitNext
<1>3. VisitKeeps(f)  BY <1>1, <1>2, UnavailableKeeps, VisitKeepsAll
<1> QED  BY <1>3 DEF VisitKeeps, ScanIInv

LEMMA FailKeeps ==
  ASSUME Scan!Setting, ScanIInv, Scan!CallFails  PROVE ScanIInv'
<1>1. UNCHANGED <<boxes, chain, scanClosed, changes>> /\ scan' = None
  BY DEF Scan!CallFails, Scan!server
<1>2. scanFaults' \in 0 .. MaxFaults
  <2>1. UNCHANGED scanFaults \/ (scanFaults < MaxFaults /\ scanFaults' = scanFaults + 1)
    BY DEF Scan!CallFails
  <2> QED  BY <2>1, ScanNumbers DEF ScanIInv, Scan!TypeOK
<1> QED  BY <1>1, <1>2 DEF ScanIInv, Scan!TypeOK

LEMMA ReturnKeeps ==
  ASSUME Scan!Setting, ScanIInv, Scan!Return
  PROVE  ScanIInv' /\ UNCHANGED <<scanClosed, boxes>> /\ scan' = None /\ ~scanClosed
<1> DEFINE c == scan.work
           ended == ~(Scan!Unfinished(c.states) # {})
           complete == ~c.partial /\ \A f \in Scan!Folder : c.states[f] = Scan!Complete
<1>1. /\ c \in Scan!Chain /\ ChainOK(c) /\ \A f \in Scan!Folder : FolderOK(c, boxes[f], f)
  BY CallFields DEF Scan!Return
<1>2. /\ chain' = [c EXCEPT !.ended = ended, !.complete = complete]
      /\ scan' = None /\ UNCHANGED <<boxes, changes, scanClosed, scanFaults>> /\ ~scanClosed
  BY DEF Scan!Return, Scan!server
<1>3. ended \in BOOLEAN /\ complete \in BOOLEAN  OBVIOUS
<1>4. complete => ended
  <2> SUFFICES ASSUME complete, NEW f \in Scan!Unfinished(c.states) PROVE FALSE
    OBVIOUS
  <2>1. f \in Scan!Folder /\ c.states[f].st \in {"not-scanned", "partial"}  BY DEF Scan!Unfinished
  <2>2. c.states[f].st = "complete"  BY <2>1 DEF Scan!Complete, Scan!NotScanned
  <2> QED  BY <2>1, <2>2
<1>5. complete => ~c.bad /\ \A f \in Scan!Folder : c.states[f].st = "complete"
  BY <1>1 DEF Scan!Complete, Scan!NotScanned, ChainOK, FlagsOK
<1> HIDE DEF ended, complete
<1>6. /\ chain' \in Scan!Chain /\ chain'.rotation = c.rotation /\ chain'.partial = c.partial
      /\ chain'.states = c.states /\ chain'.ended = ended /\ chain'.complete = complete
      /\ chain'.must = c.must /\ chain'.shown = c.shown /\ chain'.twice = c.twice
      /\ chain'.bad = c.bad /\ chain'.visits = c.visits
  BY <1>1, <1>2, <1>3 DEF Scan!Chain
<1> HIDE DEF c
<1>7. FairOK(chain')  BY <1>1, <1>6 DEF ChainOK, FairOK, Scan!Place, Scan!Unfinished
<1>8. FlagsOK(chain')  BY <1>1, <1>4, <1>5, <1>6 DEF ChainOK, FlagsOK
<1>9. \A f \in Scan!Folder : FolderOK(chain', boxes[f], f)  BY <1>1, <1>6 DEF FolderOK
<1>10. Scan!TypeOK'  BY <1>2, <1>6 DEF ScanIInv, Scan!TypeOK
<1> QED  BY <1>2, <1>7, <1>8, <1>9, <1>10 DEF ScanIInv, ChainOK

\* A chain that forgets messages of one folder.
LEMMA Forgetting ==
  ASSUME Scan!Setting, NEW c \in Scan!Chain, NEW f \in Scan!Folder, NEW uids, ChainOK(c)
  PROVE  LET d == [c EXCEPT !.must[f] = @ \ uids] IN
         /\ d \in Scan!Chain /\ ChainOK(d) /\ d.complete = c.complete
         /\ d.rotation = c.rotation /\ d.states = c.states /\ d.shown = c.shown
         /\ d.visits = c.visits /\ d.ended = c.ended
         /\ d.must[f] = c.must[f] \ uids
         /\ \A g \in Scan!Folder : g # f => d.must[g] = c.must[g]
<1> DEFINE M == [c.must EXCEPT ![f] = c.must[f] \ uids]
           d == [c EXCEPT !.must[f] = @ \ uids]
<1>1. c.must \in [Scan!Folder -> SUBSET Scan!Uid]  BY ChainFields
<1>2. M \in [Scan!Folder -> SUBSET Scan!Uid]  BY <1>1
<1>3. M[f] = c.must[f] \ uids /\ \A g \in Scan!Folder : g # f => M[g] = c.must[g]  BY <1>1
<1>4. d = [c EXCEPT !.must = M]  OBVIOUS
<1> HIDE DEF M, d
<1>5. /\ d \in Scan!Chain /\ d.must = M /\ d.rotation = c.rotation /\ d.partial = c.partial
      /\ d.states = c.states /\ d.ended = c.ended /\ d.complete = c.complete
      /\ d.shown = c.shown /\ d.twice = c.twice /\ d.bad = c.bad /\ d.visits = c.visits
  BY <1>2, <1>4 DEF Scan!Chain
<1>6. ChainOK(d)  BY <1>5 DEF ChainOK, FairOK, FlagsOK, Scan!Place, Scan!Unfinished
<1> QED  BY <1>3, <1>5, <1>6 DEF d

\* What stays of a folder whose messages are fewer or more, while its chain forgets
\* what is gone.
LEMMA FolderShrinks ==
  ASSUME Scan!Setting, NEW c \in Scan!Chain, NEW d \in Scan!Chain, NEW f \in Scan!Folder, NEW old,
         NEW new,
         FolderOK(c, old, f), d.states = c.states, d.shown = c.shown, d.visits = c.visits,
         d.must[f] \subseteq c.must[f], d.must[f] \subseteq new.uids
  PROVE  FolderOK(d, new, f)
BY DEF FolderOK

LEMMA ForgetKeeps ==
  ASSUME Scan!Setting, ScanIInv, NEW f \in Scan!Folder, NEW uids, Scan!Forget(f, uids),
         \A g \in Scan!Folder :
           boxes'[g] \in Scan!Box /\ boxes'[g].uids \subseteq 1 .. boxes'[g].next - 1,
         \A g \in Scan!Folder : g # f => boxes'[g] = boxes[g],
         boxes[f].uids \ uids \subseteq boxes'[f].uids,
         boxes' \in [Scan!Folder -> Scan!Box], UNCHANGED <<scanClosed, scanFaults>>,
         changes' \in 0 .. Changes
  PROVE  /\ ScanIInv' /\ chain'.visits = chain.visits
         /\ scan # None => scan'.work.visits = scan.work.visits
         /\ scan = None => scan' = None
<1>1. chain \in Scan!Chain /\ ChainOK(chain) /\ \A g \in Scan!Folder : FolderOK(chain, boxes[g], g)
  BY DEF ScanIInv, Scan!TypeOK
<1>2. chain' = [chain EXCEPT !.must[f] = @ \ uids]  BY DEF Scan!Forget
<1>3. /\ chain' \in Scan!Chain /\ ChainOK(chain') /\ chain'.states = chain.states
      /\ chain'.shown = chain.shown /\ chain'.visits = chain.visits
      /\ chain'.must[f] = chain.must[f] \ uids
      /\ \A g \in Scan!Folder : g # f => chain'.must[g] = chain.must[g]
  <2> DEFINE d == [chain EXCEPT !.must[f] = @ \ uids]
  <2>1. /\ d \in Scan!Chain /\ ChainOK(d) /\ d.states = chain.states
        /\ d.shown = chain.shown /\ d.visits = chain.visits
        /\ d.must[f] = chain.must[f] \ uids
        /\ \A g \in Scan!Folder : g # f => d.must[g] = chain.must[g]
    BY <1>1, Forgetting
  <2>2. chain' = d  BY <1>2
  <2> HIDE DEF d
  <2>3. ChainOK(chain')
    BY <2>1, <2>2 DEF ChainOK, FairOK, FlagsOK, Scan!Unfinished, Scan!Place
  <2> QED  BY <2>1, <2>2, <2>3
<1>4. ASSUME NEW g \in Scan!Folder  PROVE FolderOK(chain', boxes'[g], g)
  <2>1. chain.must[g] \subseteq boxes[g].uids  BY <1>1 DEF FolderOK
  <2>2. chain'.must[g] \subseteq chain.must[g]  BY <1>3
  <2>3. chain'.must[g] \subseteq boxes'[g].uids
    <3>1. CASE g = f  BY <1>3, <2>1, <3>1
    <3>2. CASE g # f  BY <1>3, <2>1, <3>2
    <3> QED  BY <3>1, <3>2
  <2>4. FolderOK(chain, boxes[g], g)  BY <1>1
  <2> QED  BY <1>1, <1>3, <2>2, <2>3, <2>4, FolderShrinks
<1>5. CASE scan = None
  <2>1. scan' = None  BY <1>5 DEF Scan!Forget
  <2>2. Scan!TypeOK'  BY <1>3, <2>1 DEF ScanIInv, Scan!TypeOK
  <2> QED  BY <1>3, <1>4, <1>5, <2>1, <2>2 DEF ScanIInv
<1>6. CASE scan # None
  <2> DEFINE c == scan.work
             d == [c EXCEPT !.must[f] = @ \ uids]
  <2>1. /\ c \in Scan!Chain /\ ChainOK(c) /\ ~c.complete /\ LeftOK(c, scan.left)
        /\ scan \in Scan!CallState
        /\ \A g \in Scan!Folder : FolderOK(c, boxes[g], g)
    BY <1>6, CallFields DEF ScanIInv, Scan!TypeOK
  <2>2. scan' = [scan EXCEPT !.work.must[f] = @ \ uids]  BY <1>6 DEF Scan!Forget
  <2>3. scan' = [scan EXCEPT !.work = d]  BY <2>2
  <2>4. /\ d \in Scan!Chain /\ ChainOK(d) /\ d.complete = c.complete /\ d.rotation = c.rotation
        /\ d.states = c.states /\ d.shown = c.shown /\ d.visits = c.visits
        /\ d.must[f] = c.must[f] \ uids
        /\ \A g \in Scan!Folder : g # f => d.must[g] = c.must[g]
    BY <2>1, Forgetting
  <2> HIDE DEF c, d
  <2>5. scan' \in Scan!CallState /\ scan'.work = d /\ scan'.left = scan.left
    BY <2>1, <2>3, <2>4 DEF Scan!CallState
  <2>6. scan' # None  BY <2>5, ScanNumbers
  <2>7. LeftOK(d, scan.left)  BY <2>1, <2>4 DEF LeftOK, Scan!Place, Scan!Unfinished
  <2>8. ASSUME NEW g \in Scan!Folder  PROVE FolderOK(d, boxes'[g], g)
    <3>1. c.must[g] \subseteq boxes[g].uids  BY <2>1 DEF FolderOK
    <3>2. d.must[g] \subseteq c.must[g]  BY <2>4
    <3>3. d.must[g] \subseteq boxes'[g].uids
      <4>1. CASE g = f  BY <2>4, <3>1, <4>1
      <4>2. CASE g # f  BY <2>4, <3>1, <4>2
      <4> QED  BY <4>1, <4>2
    <3>4. FolderOK(c, boxes[g], g)  BY <2>1
    <3> QED  BY <2>1, <2>4, <3>2, <3>3, <3>4, FolderShrinks
  <2>9. Scan!TypeOK'  BY <1>3, <2>5 DEF ScanIInv, Scan!TypeOK
  <2> QED  BY <1>3, <1>4, <1>6, <2>1, <2>4, <2>5, <2>6, <2>7, <2>8, <2>9 DEF ScanIInv, c
<1> QED  BY <1>5, <1>6

LEMMA ArriveKeeps ==
  ASSUME Scan!Setting, ScanIInv, NEW f \in Scan!Folder, Scan!Arrive(f)
  PROVE  ScanIInv' /\ UNCHANGED <<chain, scan>>
<1> DEFINE box == boxes[f]
           uids == box.uids \cup {box.next}
<1>1. boxes \in [Scan!Folder -> Scan!Box]  BY DEF ScanIInv, Scan!TypeOK
<1>2. box \in Scan!Box /\ box.next \in 1 .. MaxUid + 1 /\ box.uids \subseteq 1 .. box.next - 1
  BY <1>1, BoxFields
<1>3. boxes' = [boxes EXCEPT ![f].uids = @ \cup {boxes[f].next}, ![f].next = @ + 1]
      /\ box.next <= MaxUid
  BY DEF Scan!Arrive
<1>4. boxes' = [boxes EXCEPT ![f] = [box EXCEPT !.uids = uids, !.next = box.next + 1]]
  BY <1>3
<1> DEFINE new == [box EXCEPT !.uids = uids, !.next = box.next + 1]
<1>5. uids \subseteq Scan!Uid /\ box.next + 1 \in 1 .. MaxUid + 1 /\ uids \subseteq 1 .. box.next
  BY <1>2, <1>3, ScanNumbers DEF Scan!Uid
<1> HIDE DEF uids
<1>6. new \in Scan!Box /\ new.uids = uids /\ new.next = box.next + 1
  BY <1>2, <1>5 DEF Scan!Box
<1> HIDE DEF new, box
<1>7. boxes'[f] = new /\ \A g \in Scan!Folder : g # f => boxes'[g] = boxes[g]
  BY <1>1, <1>4 DEF new
<1>8. boxes' \in [Scan!Folder -> Scan!Box]  BY <1>1, <1>4, <1>6 DEF new
<1>9. new.next - 1 = box.next  BY <1>2, <1>6
<1>10. \A g \in Scan!Folder : boxes'[g].uids \subseteq 1 .. boxes'[g].next - 1
  <2> TAKE g \in Scan!Folder
  <2>1. CASE g = f
    <3>1. boxes'[g] = new /\ new.next - 1 = box.next  BY <1>6, <1>7, <1>9, <2>1
    <3> QED  BY <1>5, <1>6, <3>1
  <2>2. CASE g # f  BY <1>7, <2>2, BoxFields
  <2> QED  BY <2>1, <2>2
<1>11. UNCHANGED <<chain, scan, scanClosed, scanFaults>> /\ changes' \in 0 .. Changes
  BY ScanNumbers DEF Scan!Arrive, Scan!Change, ScanIInv, Scan!TypeOK
<1>12. \A g \in Scan!Folder : boxes[g].uids \subseteq boxes'[g].uids
  BY <1>6, <1>7 DEF uids, box
<1>13. Scan!TypeOK'  BY <1>8, <1>10, <1>11 DEF ScanIInv, Scan!TypeOK
<1>14. \A g \in Scan!Folder : FolderOK(chain, boxes'[g], g)
  BY <1>12 DEF ScanIInv, FolderOK
<1>15. scan # None => \A g \in Scan!Folder : FolderOK(scan.work, boxes'[g], g)
  BY <1>12 DEF ScanIInv, FolderOK
<1> QED  BY <1>11, <1>13, <1>14, <1>15 DEF ScanIInv

LEMMA ExpungeKeeps ==
  ASSUME Scan!Setting, ScanIInv, NEW f \in Scan!Folder, NEW u \in Scan!Uid, Scan!Expunge(f, u)
  PROVE  /\ ScanIInv' /\ chain'.visits = chain.visits
         /\ scan # None => scan'.work.visits = scan.work.visits
         /\ scan = None => scan' = None
<1> DEFINE box == boxes[f]
           new == [box EXCEPT !.uids = box.uids \ {u}]
<1>1. boxes \in [Scan!Folder -> Scan!Box]  BY DEF ScanIInv, Scan!TypeOK
<1>2. box \in Scan!Box /\ box.next \in 1 .. MaxUid + 1 /\ box.uids \subseteq 1 .. box.next - 1
  BY <1>1, BoxFields
<1>3. boxes' = [boxes EXCEPT ![f] = new]  BY DEF Scan!Expunge
<1>4. new \in Scan!Box /\ new.uids = box.uids \ {u} /\ new.next = box.next
  BY <1>2 DEF Scan!Box
<1> HIDE DEF new, box
<1>5. boxes'[f] = new /\ \A g \in Scan!Folder : g # f => boxes'[g] = boxes[g]
  BY <1>1, <1>3
<1>6. boxes' \in [Scan!Folder -> Scan!Box]  BY <1>1, <1>3, <1>4
<1>7. ASSUME NEW g \in Scan!Folder
      PROVE  boxes'[g] \in Scan!Box /\ boxes'[g].uids \subseteq 1 .. boxes'[g].next - 1
  <2>1. CASE g = f  BY <1>2, <1>4, <1>5, <2>1
  <2>2. CASE g # f  BY <1>1, <1>5, <2>2, BoxFields
  <2> QED  BY <2>1, <2>2
<1>8. UNCHANGED <<scanClosed, scanFaults>> /\ changes' \in 0 .. Changes
  BY ScanNumbers DEF Scan!Expunge, Scan!Change, ScanIInv, Scan!TypeOK
<1>9. boxes[f].uids \ {u} \subseteq boxes'[f].uids  BY <1>4, <1>5 DEF box
<1>10. Scan!Forget(f, {u})  BY DEF Scan!Expunge
<1> QED  BY <1>5, <1>6, <1>7, <1>8, <1>9, <1>10, ForgetKeeps

LEMMA RenumberKeeps ==
  ASSUME Scan!Setting, ScanIInv, NEW f \in Scan!Folder, Scan!Renumber(f)
  PROVE  /\ ScanIInv' /\ chain'.visits = chain.visits
         /\ scan # None => scan'.work.visits = scan.work.visits
         /\ scan = None => scan' = None
<1> DEFINE box == boxes[f]
           n == Cardinality(box.uids)
           new == [validity |-> box.validity + 1, next |-> n + 1, uids |-> 1 .. n]
<1>1. boxes \in [Scan!Folder -> Scan!Box]  BY DEF ScanIInv, Scan!TypeOK
<1>2. /\ box.validity \in 1 .. MaxValidity /\ box.uids \subseteq Scan!Uid
  BY BoxFields
<1>3. n \in Nat /\ n <= MaxUid
  <2>1. IsFiniteSet(Scan!Uid) /\ Cardinality(Scan!Uid) = MaxUid
    BY ScanNumbers, FS_Interval DEF Scan!Uid
  <2> QED  BY <1>2, <2>1, FS_Subset, FS_CardinalityType
<1>4. boxes' = [boxes EXCEPT ![f] = new] /\ box.validity < MaxValidity
  BY SameCount DEF Scan!Renumber
<1> HIDE DEF n, box
<1>5. new \in Scan!Box /\ new.uids = 1 .. n /\ new.next = n + 1
  BY <1>2, <1>3, <1>4, ScanNumbers DEF Scan!Box, Scan!Uid
<1> HIDE DEF new
<1>6. boxes'[f] = new /\ \A g \in Scan!Folder : g # f => boxes'[g] = boxes[g]
  BY <1>1, <1>4
<1>7. boxes' \in [Scan!Folder -> Scan!Box]  BY <1>1, <1>4, <1>5
<1>8. new.next - 1 = n  BY <1>3, <1>5
<1>9. ASSUME NEW g \in Scan!Folder
      PROVE  boxes'[g] \in Scan!Box /\ boxes'[g].uids \subseteq 1 .. boxes'[g].next - 1
  <2>1. CASE g = f
    <3>1. boxes'[g] = new /\ new.next - 1 = n  BY <1>5, <1>6, <1>8, <2>1
    <3> QED  BY <1>5, <3>1
  <2>2. CASE g # f  BY <1>1, <1>6, <2>2, BoxFields
  <2> QED  BY <2>1, <2>2
<1>10. UNCHANGED <<scanClosed, scanFaults>> /\ changes' \in 0 .. Changes
  BY ScanNumbers DEF Scan!Renumber, Scan!Change, ScanIInv, Scan!TypeOK
<1>11. boxes[f].uids \ Scan!Uid \subseteq boxes'[f].uids  BY <1>2 DEF box
<1>12. Scan!Forget(f, Scan!Uid)  BY DEF Scan!Renumber
<1> QED  BY <1>6, <1>7, <1>9, <1>10, <1>11, <1>12, ForgetKeeps

-----------------------------------------------------------------------------
(* The invariant and what follows from it *)

LEMMA ScanInitially == ASSUME Scan!Setting, Scan!Init PROVE ScanIInv
<1>1. Scan!NotScanned \in Scan!FolderState /\ Scan!NotScanned.st = "not-scanned"
  BY ScanNumbers DEF Scan!NotScanned, Scan!FolderState
<1>2. /\ Scan!Fresh.rotation = 0 /\ Scan!Fresh.partial = FALSE
      /\ Scan!Fresh.states = [f \in Scan!Folder |-> Scan!NotScanned]
      /\ Scan!Fresh.ended = FALSE /\ Scan!Fresh.complete = FALSE
      /\ Scan!Fresh.must = [f \in Scan!Folder |-> {}]
      /\ Scan!Fresh.shown = [f \in Scan!Folder |-> {}]
      /\ Scan!Fresh.twice = FALSE /\ Scan!Fresh.bad = FALSE
      /\ Scan!Fresh.visits = [f \in Scan!Folder |-> 0]
  BY DEF Scan!Fresh
<1>3. 0 \in Scan!Folder /\ 0 \in 0 .. MaxUid + 1  BY ScanNumbers DEF Scan!Folder
<1>4. Scan!Fresh \in Scan!Chain
  <2>1. [f \in Scan!Folder |-> Scan!NotScanned] \in [Scan!Folder -> Scan!FolderState]  BY <1>1
  <2>2. [f \in Scan!Folder |-> 0] \in [Scan!Folder -> 0 .. MaxUid + 1]  BY <1>3
  <2>3. [f \in Scan!Folder |-> {}] \in [Scan!Folder -> SUBSET Scan!Uid]  OBVIOUS
  <2> QED  BY <1>3, <2>1, <2>2, <2>3 DEF Scan!Fresh, Scan!Chain
<1>5. chain = Scan!Fresh /\ scan = None  BY DEF Scan!Init
<1>6. ChainOK(chain)  BY <1>2, <1>5 DEF ChainOK, FairOK, FlagsOK, Scan!Unfinished
<1>7. ASSUME NEW f \in Scan!Folder  PROVE FolderOK(chain, boxes[f], f)
  BY <1>1, <1>2, <1>5, ScanNumbers DEF FolderOK
<1>8. /\ boxes \in [Scan!Folder -> Scan!Box]
      /\ \A f \in Scan!Folder : boxes[f].uids \subseteq 1 .. boxes[f].next - 1
  BY DEF Scan!Init
<1>9. scanClosed \in BOOLEAN /\ changes \in 0 .. Changes /\ scanFaults \in 0 .. MaxFaults
  <2>1. scanClosed = FALSE /\ changes = 0 /\ scanFaults = 0  BY DEF Scan!Init
  <2>2. 0 \in 0 .. Changes /\ 0 \in 0 .. MaxFaults  BY ScanNumbers
  <2> QED  BY <2>1, <2>2
<1>10. Scan!TypeOK  BY <1>4, <1>5, <1>8, <1>9 DEF Scan!TypeOK
<1> QED  BY <1>5, <1>6, <1>7, <1>10 DEF ScanIInv

LEMMA ScanInductive == ASSUME Scan!Setting, ScanIInv, [Scan!Next]_Scan!vars PROVE ScanIInv'
<1>1. CASE Scan!VisitNext  BY <1>1, VisitNextKeeps
<1>2. CASE Scan!Return  BY <1>2, ReturnKeeps
<1>3. CASE \E limit \in Limits : Scan!BeginCall(limit)  BY <1>3, BeginKeeps
<1>4. CASE Scan!CallFails  BY <1>4, FailKeeps
<1>5. CASE Scan!Close  BY <1>5 DEF Scan!Close, Scan!server, ScanIInv, Scan!TypeOK
<1>6. CASE \E f \in Scan!Folder : Scan!Arrive(f) \/ Scan!Renumber(f)
           \/ \E u \in Scan!Uid : Scan!Expunge(f, u)
  BY <1>6, ArriveKeeps, RenumberKeeps, ExpungeKeeps
<1>7. CASE UNCHANGED Scan!vars
  <2>1. UNCHANGED <<boxes, chain, scan, scanClosed, changes, scanFaults>>  BY <1>7 DEF Scan!vars
  <2> QED  BY <2>1 DEF ScanIInv, Scan!TypeOK
<1> QED  BY <1>1, <1>2, <1>3, <1>4, <1>5, <1>6, <1>7 DEF Scan!Next, Scan!Caller

LEMMA ScanImplied == ASSUME Scan!Setting, ScanIInv PROVE ScanInv
<1>1. ~chain.twice  BY DEF ScanIInv, ChainOK, FlagsOK
<1>2. Scan!CompleteMeansAll
  BY DEF ScanIInv, ChainOK, FlagsOK, FolderOK, Scan!CompleteMeansAll
<1>3. Scan!FairRotation
  BY DEF ScanIInv, ChainOK, FairOK, Scan!FairRotation
<1> QED  BY <1>1, <1>2, <1>3 DEF ScanIInv, ScanInv, Scan!ScanInv, Scan!ShownOnce

LEMMA ScanAlways == ASSUME Scan!Setting PROVE Scan!Spec => []ScanIInv
BY ScanInitially, ScanInductive, PTL DEF Scan!Spec

\* For any folders and limits, whatever happens in the mailboxes between two visits:
\* a chain of calls that claims to be complete showed all that stayed, nothing was
\* shown twice, and no unfinished folder is two windows behind another (_scan).
THEOREM ScanInvariant == ASSUME Scan!Setting PROVE Scan!Spec => []ScanInv
BY ScanAlways, ScanImplied, PTL

\* A window is continued only under the UIDVALIDITY of the folder's first, and a
\* provider that was closed returns no page.
THEOREM WindowsAreCurrent == ASSUME Scan!Setting PROVE Scan!Spec => WindowsStayCurrent
<1> DEFINE Current ==
             /\ scanClosed => chain'.visits = chain.visits
             /\ \A f \in Scan!Folder :
                  scan # None /\ scan' # None /\ scan'.work.visits[f] > scan.work.visits[f]
                    /\ scan.work.states[f].st = "partial"
                  => scan.work.states[f].validity = boxes[f].validity
<1>1. ScanIInv /\ [Scan!Next]_Scan!vars => [Current]_Scan!vars
  <2> SUFFICES ASSUME ScanIInv, Scan!Next  PROVE Current
    OBVIOUS
  <2>1. CASE Scan!VisitNext
    <3>1. PICK f \in scan.left :
            Scan!Turn(f) /\ (Scan!VisitUnavailable(f) \/ \E bad \in BOOLEAN : Scan!Visit(f, bad))
      BY <2>1 DEF Scan!VisitNext
    <3>2. Scan!Visiting /\ scan # None  BY <2>1 DEF Scan!VisitNext, Scan!Visiting
    <3>3. UNCHANGED chain  BY <3>1 DEF Scan!VisitUnavailable, Scan!Visit
    <3>4. scan.work \in Scan!Chain /\ f \in Scan!Folder  BY <3>2, CallFields
    <3>5. scan.work.visits \in [Scan!Folder -> 0 .. MaxUid + 1]
          /\ \A g \in Scan!Folder : scan.work.visits[g] \in Nat
      BY <3>4, ChainFields
    <3>6. CASE Scan!VisitUnavailable(f)
      <4>1. [scan.work EXCEPT !.states[f] = Scan!Unavailable].visits = scan.work.visits
            /\ [scan.work EXCEPT !.states[f] = Scan!Unavailable] \in Scan!Chain
        <5> DEFINE S == [scan.work.states EXCEPT ![f] = Scan!Unavailable]
        <5>1. scan.work.states \in [Scan!Folder -> Scan!FolderState]  BY <3>4, ChainFields
        <5>2. Scan!Unavailable \in Scan!FolderState
          BY ScanNumbers DEF Scan!Unavailable, Scan!NotScanned, Scan!FolderState
        <5>3. S \in [Scan!Folder -> Scan!FolderState]  BY <5>1, <5>2
        <5>4. [scan.work EXCEPT !.states[f] = Scan!Unavailable] = [scan.work EXCEPT !.states = S]
          OBVIOUS
        <5> HIDE DEF S
        <5> QED  BY <3>4, <5>3, <5>4 DEF Scan!Chain
      <4>2. scan'.work.visits = scan.work.visits
        BY <3>2, <3>6, <4>1, Ticking DEF Scan!VisitUnavailable
      <4> QED  BY <3>3, <3>5, <4>2
    <3>7. CASE \E bad \in BOOLEAN : Scan!Visit(f, bad)
      <4>1. PICK bad \in BOOLEAN : Scan!Visit(f, bad)  BY <3>7
      <4>2. /\ ~scanClosed /\ ~Scan!Stale(scan.work.states[f], boxes[f])
            /\ Scan!AfterVisit(Scan!ReadWindow(f, bad), f)
        BY <4>1 DEF Scan!Visit
      <4>3. /\ Scan!ReadWindow(f, bad) \in Scan!Chain
            /\ Scan!ReadWindow(f, bad).visits = [scan.work.visits EXCEPT ![f] = @ + 1]
        BY <3>2, WindowFields
      <4>4. scan'.work.visits = [scan.work.visits EXCEPT ![f] = @ + 1]
        BY <3>2, <4>2, <4>3, Ticking
      <4>5. \A g \in Scan!Folder : g # f => scan'.work.visits[g] = scan.work.visits[g]
        BY <3>5, <4>4
      <4> QED  BY <3>5, <4>2, <4>5 DEF Scan!Stale
    <3> QED  BY <3>1, <3>6, <3>7
  <2>2. CASE Scan!Return  BY <2>2, ReturnKeeps
  <2>3. CASE \E limit \in Limits : Scan!BeginCall(limit)  BY <2>3 DEF Scan!BeginCall
  <2>4. CASE Scan!CallFails  BY <2>4 DEF Scan!CallFails
  <2>5. ASSUME Scan!Close \/ \E f \in Scan!Folder : Scan!Arrive(f)  PROVE Current
    <3>1. UNCHANGED <<chain, scan>>  BY <2>5 DEF Scan!Close, Scan!Arrive
    <3>2. \A f \in Scan!Folder : scan # None => scan.work.visits[f] \in Nat
      BY CallFields, ChainFields
    <3> QED  BY <3>1, <3>2
  <2>6. ASSUME \E f \in Scan!Folder : Scan!Renumber(f) \/ \E u \in Scan!Uid : Scan!Expunge(f, u)
        PROVE  Current
    <3>1. /\ chain'.visits = chain.visits
          /\ scan # None => scan'.work.visits = scan.work.visits
      BY <2>6, RenumberKeeps, ExpungeKeeps
    <3>2. \A f \in Scan!Folder : scan # None => scan.work.visits[f] \in Nat
      BY CallFields, ChainFields
    <3> QED  BY <3>1, <3>2
  <2> QED  BY <2>1, <2>2, <2>3, <2>4, <2>5, <2>6 DEF Scan!Next, Scan!Caller
<1> QED  BY <1>1, ScanAlways, PTL DEF Scan!Spec, WindowsStayCurrent, Scan!WindowsStayCurrent
=============================================================================
