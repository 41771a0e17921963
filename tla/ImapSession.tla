---------------------------- MODULE ImapSession ----------------------------
(***************************************************************************)
(* The life of ImapReadOnlyProvider's connections: worker threads that each   *)
(* open a session, verify the peer, look up two secrets, log in, select,      *)
(* fetch and log out, while close() marks the provider, interrupts the        *)
(* sockets it knows of and waits one time-out for the workers.                *)
(*                                                                         *)
(* _lifecycle_lock covers single reads and writes only, so everything here is *)
(* a race between a worker's next step and close().                           *)
(***************************************************************************)
EXTENDS Naturals, FiniteSets

CONSTANTS
  Worker,   \* calls in progress, one thread each
  MaxFaults \* bound on failures of the network, the peer or a secret

VARIABLES
  closed,   \* _closed
  closing,  \* how far close() is
  snapshot, \* the clients close() still has to shut down
  clients,  \* _active_clients
  active,   \* _active_workers
  pc, sock,
  result,   \* what the worker's call comes to
  sent,     \* sessions that sent credentials (history)
  verified, \* sessions whose peer was verified (history)
  faults

vars == <<closed, closing, snapshot, clients, active, pc, sock, result, sent, verified, faults>>
closer == <<closed, closing, snapshot>>
wire == <<sock, sent, verified>>

PC == {"idle", "connect", "dial", "verify", "register", "open?", "username", "between",
       "password", "after", "login", "select", "fetch", "hangup", "forget", "exit", "ended"}

TypeOK ==
  /\ closed \in BOOLEAN
  /\ closing \in {"no", "interrupting", "waiting", "returned", "timed out"}
  /\ snapshot \subseteq Worker /\ clients \subseteq Worker
  /\ active = Cardinality({w \in Worker : pc[w] \notin {"idle", "ended"}})
  /\ pc \in [Worker -> PC]
  /\ sock \in [Worker -> {"none", "open", "shut"}]
  /\ result \in [Worker -> {"none", "page", "error"}]
  /\ sent \subseteq Worker /\ verified \subseteq Worker
  /\ faults \in 0 .. MaxFaults

Init ==
  /\ closed = FALSE
  /\ closing = "no"
  /\ snapshot = {} /\ clients = {}
  /\ active = 0
  /\ pc = [w \in Worker |-> "idle"]
  /\ sock = [w \in Worker |-> "none"]
  /\ result = [w \in Worker |-> "none"]
  /\ sent = {} /\ verified = {}
  /\ faults = 0

-----------------------------------------------------------------------------
(* Steps of a worker.  Definitions named Bug... are slips a maintainer could   *)
(* make in the definition that follows them.                                   *)

Go(w, next) == pc' = [pc EXCEPT ![w] = next] /\ UNCHANGED result
Error(w, next) == pc' = [pc EXCEPT ![w] = next] /\ result' = [result EXCEPT ![w] = "error"]
Shut(w) == sock' = [sock EXCEPT ![w] = "shut"] /\ UNCHANGED <<sent, verified>>
Fault == faults < MaxFaults /\ faults' = faults + 1

\* A check of _closed under the lock, after which anything may happen.
OpenThen(w, next, otherwise) ==
  /\ \/ ~closed /\ Go(w, next)
     \/ closed /\ Error(w, otherwise)
  /\ UNCHANGED <<closer, clients, active, wire, faults>>

\* _run_worker
Enter(w) ==
  /\ pc[w] = "idle"
  /\ \/ closed /\ Error(w, "ended") /\ UNCHANGED active
     \/ ~closed /\ active' = active + 1 /\ Go(w, "connect")
  /\ UNCHANGED <<closer, clients, wire, faults>>

StartConnect(w) == pc[w] = "connect" /\ OpenThen(w, "dial", "exit")

Dial(w) ==
  /\ pc[w] = "dial"
  /\ \/ sock' = [sock EXCEPT ![w] = "open"] /\ Go(w, "verify") /\ UNCHANGED <<sent, verified, faults>>
     \/ Fault /\ Error(w, "exit") /\ UNCHANGED wire
  /\ UNCHANGED <<closer, clients, active>>

\* The pin, or the certificate inside the handshake.
Verify(w) ==
  /\ pc[w] = "verify"
  /\ \/ verified' = verified \cup {w} /\ Go(w, "register") /\ UNCHANGED <<sock, sent, faults>>
     \/ Fault /\ Shut(w) /\ Error(w, "exit")
  /\ UNCHANGED <<closer, clients, active>>

\* Into _active_clients, or shut down if close() came first.
Register(w) ==
  /\ pc[w] = "register"
  /\ \/ closed /\ Shut(w) /\ Error(w, "exit") /\ UNCHANGED clients
     \/ ~closed /\ clients' = clients \cup {w} /\ Go(w, "open?") /\ UNCHANGED wire
  /\ UNCHANGED <<closer, active, faults>>

EnsureOpen(w) == pc[w] = "open?" /\ OpenThen(w, "username", "hangup")
CheckBetween(w) == pc[w] = "between" /\ OpenThen(w, "password", "hangup")
CheckAfter(w) == pc[w] = "after" /\ OpenThen(w, "login", "hangup")

Lookup(w, at, next) ==
  /\ pc[w] = at
  /\ \/ Go(w, next) /\ UNCHANGED faults
     \/ Fault /\ Error(w, "hangup")
  /\ UNCHANGED <<closer, clients, active, wire>>
Username(w) == Lookup(w, "username", "between")
Password(w) == Lookup(w, "password", "after")

\* client.login or client.authenticate; a socket that was shut down raises.
Login(w) ==
  /\ pc[w] = "login"
  /\ \/ sock[w] = "shut" /\ Error(w, "hangup") /\ UNCHANGED <<wire, faults>>
     \/ /\ sock[w] = "open"
        /\ sent' = sent \cup {w}
        /\ \/ Go(w, "select") /\ UNCHANGED faults
           \/ Fault /\ Error(w, "hangup")
        /\ UNCHANGED <<sock, verified>>
  /\ UNCHANGED <<closer, clients, active>>

\* A command of the open session: its answer, or the error that ends it.
Command(w, at, next, done) ==
  /\ pc[w] = at
  /\ \/ sock[w] = "open" /\ pc' = [pc EXCEPT ![w] = next] /\ UNCHANGED faults
        /\ result' = [result EXCEPT ![w] = done]
     \/ sock[w] = "shut" /\ Error(w, "hangup") /\ UNCHANGED faults
     \/ Fault /\ Error(w, "hangup")
  /\ UNCHANGED <<closer, clients, active, wire>>

\* The mailbox must be confirmed read-only before anything is fetched.
Select(w) == Command(w, "select", "fetch", "none")

Fetch(w) == Command(w, "fetch", "hangup", "page")

\* The client is forgotten before its socket is shut down.
BugHangUp(w) ==
  /\ pc[w] = "hangup"
  /\ clients' = clients \ {w}
  /\ Go(w, "forget")
  /\ UNCHANGED <<closer, active, wire, faults>>

\* _logout and _discard: the socket goes first, then the entry.
HangUp(w) ==
  /\ pc[w] = "hangup"
  /\ Shut(w)
  /\ Go(w, "forget")
  /\ UNCHANGED <<closer, clients, active, faults>>

Forget(w) ==
  /\ pc[w] = "forget"
  /\ clients' = clients \ {w}
  /\ Go(w, "exit")
  /\ UNCHANGED <<closer, active, wire, faults>>

Exit(w) ==
  /\ pc[w] = "exit"
  /\ active' = active - 1
  /\ Go(w, "ended")
  /\ UNCHANGED <<closer, clients, wire, faults>>

-----------------------------------------------------------------------------
(* close() *)

BeginClose ==
  /\ closing = "no"
  /\ closed' = TRUE
  /\ closing' = "interrupting"
  /\ snapshot' = clients
  /\ UNCHANGED <<clients, active, pc, sock, result, sent, verified, faults>>

\* A session that ended meanwhile is skipped but not ticked off.
BugInterruptOne ==
  /\ closing = "interrupting"
  /\ \/ \E w \in snapshot \cap clients :
           snapshot' = snapshot \ {w} /\ Shut(w) /\ UNCHANGED closing
     \/ snapshot = {} /\ closing' = "waiting" /\ UNCHANGED <<snapshot, wire>>
  /\ UNCHANGED <<closed, clients, active, pc, result, faults>>

\* Only the first session is interrupted.
BugInterruptOnce ==
  /\ closing = "interrupting"
  /\ \/ \E w \in snapshot : snapshot' = {} /\ Shut(w) /\ UNCHANGED closing
     \/ snapshot = {} /\ closing' = "waiting" /\ UNCHANGED <<snapshot, wire>>
  /\ UNCHANGED <<closed, clients, active, pc, result, faults>>

InterruptOne ==
  /\ closing = "interrupting"
  /\ \/ \E w \in snapshot : snapshot' = snapshot \ {w} /\ Shut(w) /\ UNCHANGED closing
     \/ snapshot = {} /\ closing' = "waiting" /\ UNCHANGED <<snapshot, wire>>
  /\ UNCHANGED <<closed, clients, active, pc, result, faults>>

\* The condition variable, and its deadline.
Wait ==
  /\ closing = "waiting"
  /\ closing' = IF active = 0 THEN "returned" ELSE "timed out"
  /\ UNCHANGED <<closed, snapshot, clients, active, pc, sock, result, sent, verified, faults>>

-----------------------------------------------------------------------------

Step(w) ==
  \/ StartConnect(w) \/ Verify(w) \/ Register(w) \/ EnsureOpen(w)
  \/ Username(w) \/ CheckBetween(w) \/ Password(w) \/ CheckAfter(w) \/ Login(w)
  \/ Select(w) \/ Fetch(w) \/ HangUp(w) \/ Forget(w) \/ Exit(w)

Next == BeginClose \/ InterruptOne \/ Wait \/ \E w \in Worker : Enter(w) \/ Dial(w) \/ Step(w)

Spec == Init /\ [][Next]_vars

\* Threads run, sockets have time-outs, and so has the wait of close(); but nothing
\* bounds the name lookup inside the client's factory, so Dial may hang.
Fairness == (\A w \in Worker : WF_vars(Step(w))) /\ WF_vars(InterruptOne) /\ WF_vars(Wait)
LiveSpec == Spec /\ Fairness

-----------------------------------------------------------------------------
(* Properties *)

Interrupted == closing \in {"waiting", "returned", "timed out"}

\* Once close() has been through its sockets, no session sends credentials: each
\* one is either shut down or sees _closed before it is registered.
NoLateCredentials == [][Interrupted => sent' = sent]_vars

\* What is open then belongs to a worker that has yet to register, and will see
\* _closed there.
NothingMissed ==
  Interrupted => \A w \in Worker : sock[w] = "open" => pc[w] \in {"verify", "register"}

\* A worker that has ended leaves no connection and no entry behind, whatever
\* step failed, whoever shut its socket.
NothingLeft == \A w \in Worker : pc[w] = "ended" => sock[w] # "open" /\ w \notin clients

\* Credentials go only to a peer that was verified.
SentToVerified == sent \subseteq verified

\* A close() that returned in time has seen the last worker, and no page appears
\* after it.
ReturnedMeansIdle == closing = "returned" => \A w \in Worker : pc[w] \in {"idle", "ended"}

\* Every worker ends whatever fails, unless it hangs in the name lookup of its dial,
\* which it does once: again and again all the others are at rest.  A close() that
\* waits for them ends even so.
WorkersEnd ==
  /\ []<>(\A w \in Worker : pc[w] \in {"idle", "dial", "ended"})
  /\ closed ~> closing \in {"returned", "timed out"}

\* What holds of every state, whichever step fails and whenever close() strikes.
SessionInv ==
  TypeOK /\ NothingMissed /\ NothingLeft /\ SentToVerified /\ ReturnedMeansIdle
=============================================================================
