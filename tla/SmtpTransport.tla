---------------------------- MODULE SmtpTransport ----------------------------
(***************************************************************************)
(* SmtplibTransport (smtp.py): threads that submit a message or probe the   *)
(* server, each over a connection of its own, and close, which may come at  *)
(* any moment from another thread: it shuts the connections it finds and    *)
(* waits, at most one timeout, for the threads to leave.                    *)
(*                                                                         *)
(* What is at stake is the outcome: the send ledger records what submit_once *)
(* returns or raises, so an interruption must never be reported as a       *)
(* definite failure of a message that the server took.                      *)
(***************************************************************************)
EXTENDS Naturals, FiniteSets

CONSTANTS Worker, None

ASSUME WorkersFinite == IsFiniteSet(Worker) /\ None \notin Worker

VARIABLES
  pc,       \* where each thread is
  sock,     \* its client's socket
  taken,    \* the server took the message for delivery (the truth)
  result,   \* how its last call ended
  active,   \* _active_clients
  workers,  \* _active_workers
  closed,   \* _closed
  closer,   \* the thread in close
  found     \* the clients close has still to shut

vars == <<pc, sock, taken, result, active, workers, closed, closer, found>>
lifecycle == <<active, workers, closed, closer, found>>

\* A probe (check_health) leaves after authentication with its NOOP.
PC == {"idle", "connect", "register", "greet", "secrets", "auth", "envelope",
       "data", "reply", "finish", "leave"}
\* closed, failed and rejected are exceptions that say nothing was delivered.
Definite == {"closed", "failed", "rejected", "healthy"}
Result == Definite \cup {"accepted", "unknown"}

ASSUME NoneIsNoResult == None \notin Result

TypeOK ==
  /\ pc \in [Worker -> PC]
  /\ sock \in [Worker -> {"none", "open", "shut"}]
  /\ taken \in [Worker -> BOOLEAN]
  /\ result \in [Worker -> Result \cup {None}]
  /\ active \subseteq Worker
  /\ workers \in 0 .. Cardinality(Worker)
  /\ closed \in BOOLEAN
  /\ closer \in {"idle", "shutting", "waiting", "drained", "timed out"}
  /\ found \subseteq Worker

Init ==
  /\ pc = [w \in Worker |-> "idle"]
  /\ sock = [w \in Worker |-> "none"]
  /\ taken = [w \in Worker |-> FALSE]
  /\ result = [w \in Worker |-> None]
  /\ active = {}
  /\ workers = 0
  /\ closed = FALSE
  /\ closer = "idle"
  /\ found = {}

-----------------------------------------------------------------------------
(* A thread.  Definitions named Bug... are slips a maintainer could make in *)
(* the definition that follows them; PROJECT.json names what each breaks.   *)

At(w, p) == pc[w] = p
Goto(w, p) == pc' = [pc EXCEPT ![w] = p]
Ends(w, r) == result' = [result EXCEPT ![w] = r]

\* _run_worker: count the thread in, unless the transport is closed.
Enter(w) ==
  /\ At(w, "idle")
  /\ taken' = [taken EXCEPT ![w] = FALSE]
  /\ sock' = [sock EXCEPT ![w] = "none"]
  /\ IF closed
     THEN /\ Ends(w, "closed")
          /\ UNCHANGED <<pc, workers>>
     ELSE /\ Goto(w, "connect")
          /\ Ends(w, None)
          /\ workers' = workers + 1
  /\ UNCHANGED <<active, closed, closer, found>>

\* The factory connects.  Nobody else knows the socket yet.
Connect(w) ==
  /\ At(w, "connect")
  /\ Goto(w, "register")
  /\ sock' = [sock EXCEPT ![w] = "open"]
  /\ UNCHANGED <<taken, result, lifecycle>>

\* _register_client, under the lock that close takes.
Register(w) ==
  /\ At(w, "register")
  /\ IF closed
     THEN /\ sock' = [sock EXCEPT ![w] = "shut"]
          /\ Goto(w, "finish")
          /\ Ends(w, "closed")
          /\ UNCHANGED active
     ELSE /\ Goto(w, "greet")
          /\ active' = active \cup {w}
          /\ UNCHANGED <<sock, result>>
  /\ UNCHANGED <<taken, workers, closed, closer, found>>

\* TLS, pin and EHLO, then _ensure_open before any secret is looked up.
Greet(w) ==
  /\ At(w, "greet")
  /\ sock[w] = "open"
  /\ IF closed THEN Goto(w, "finish") /\ Ends(w, "closed")
     ELSE Goto(w, "secrets") /\ UNCHANGED result
  /\ UNCHANGED <<sock, taken, lifecycle>>

Secrets(w) ==
  /\ At(w, "secrets")
  /\ Goto(w, "auth")
  /\ UNCHANGED <<sock, taken, result, lifecycle>>

Auth(w) ==
  /\ At(w, "auth")
  /\ sock[w] = "open"
  /\ \/ Goto(w, "envelope") /\ UNCHANGED result
     \/ Goto(w, "finish") /\ Ends(w, "healthy")
  /\ UNCHANGED <<sock, taken, lifecycle>>

\* SIZE, MAIL, every RCPT, and the before_data callback.
Envelope(w) ==
  /\ At(w, "envelope")
  /\ sock[w] = "open"
  /\ Goto(w, "data")
  /\ UNCHANGED <<sock, taken, result, lifecycle>>

\* Any failure before DATA: a refusal, a time-out, a socket that close shut.
\* The factory that fails leaves no client behind.
Fail(w) ==
  /\ pc[w] \in {"connect", "greet", "secrets", "auth", "envelope"}
  /\ Goto(w, IF At(w, "connect") THEN "leave" ELSE "finish")
  /\ Ends(w, "failed")
  /\ UNCHANGED <<sock, taken, lifecycle>>

\* The message goes out; whether the server takes it is decided there.
Data(w) ==
  /\ At(w, "data")
  /\ sock[w] = "open"
  /\ taken' \in {taken, [taken EXCEPT ![w] = TRUE]}
  /\ Goto(w, "reply")
  /\ UNCHANGED <<sock, result, lifecycle>>

\* A socket found shut is a failure like those before DATA.
BugInterrupted(w) ==
  /\ pc[w] \in {"data", "reply"}
  /\ Goto(w, "finish")
  /\ Ends(w, IF sock[w] = "shut" THEN "failed" ELSE "unknown")
  /\ UNCHANGED <<sock, taken, lifecycle>>

\* Any exception out of client.data, KeyboardInterrupt included.
Interrupted(w) ==
  /\ pc[w] \in {"data", "reply"}
  /\ Goto(w, "finish")
  /\ Ends(w, "unknown")
  /\ UNCHANGED <<sock, taken, lifecycle>>

Reply(w) ==
  /\ At(w, "reply")
  /\ sock[w] = "open"
  /\ Goto(w, "finish")
  /\ Ends(w, IF taken[w] THEN "accepted" ELSE "rejected")
  /\ UNCHANGED <<sock, taken, lifecycle>>

\* _finish_client: forget the client, then QUIT or close; neither can change the
\* outcome.
FinishClient(w) ==
  /\ At(w, "finish")
  /\ active' = active \ {w}
  /\ sock' = [sock EXCEPT ![w] = "shut"]
  /\ Goto(w, "leave")
  /\ UNCHANGED <<taken, result, workers, closed, closer, found>>

\* The finally clause of _run_worker counts every thread out.
Leave(w) ==
  /\ At(w, "leave")
  /\ Goto(w, "idle")
  /\ workers' = workers - 1
  /\ UNCHANGED <<sock, taken, result, active, closed, closer, found>>

-----------------------------------------------------------------------------
(* close *)

\* The flag alone: clients are left to notice it.
BugCloseBegin ==
  /\ closer = "idle"
  /\ closed' = TRUE
  /\ found' = {}
  /\ closer' = "shutting"
  /\ UNCHANGED <<pc, sock, taken, result, active, workers>>

\* The flag and the list of clients, under one hold of the lock.
CloseBegin ==
  /\ closer = "idle"
  /\ closed' = TRUE
  /\ found' = active
  /\ closer' = "shutting"
  /\ UNCHANGED <<pc, sock, taken, result, active, workers>>

CloseClient(w) ==
  /\ closer = "shutting"
  /\ w \in found
  /\ sock' = [sock EXCEPT ![w] = "shut"]
  /\ found' = found \ {w}
  /\ UNCHANGED <<pc, taken, result, active, workers, closed, closer>>

CloseWaits ==
  /\ closer = "shutting"
  /\ found = {}
  /\ closer' = "waiting"
  /\ UNCHANGED <<pc, sock, taken, result, active, workers, closed, found>>

\* Waits until the last thread has left, however long it takes.
BugCloseEnds ==
  /\ closer = "waiting"
  /\ workers = 0
  /\ closer' = "drained"
  /\ UNCHANGED <<pc, sock, taken, result, active, workers, closed, found>>

CloseEnds ==
  /\ closer = "waiting"
  /\ closer' = IF workers = 0 THEN "drained" ELSE "timed out"
  /\ UNCHANGED <<pc, sock, taken, result, active, workers, closed, found>>

-----------------------------------------------------------------------------

Online(w) ==
  \/ Register(w) \/ Greet(w) \/ Secrets(w) \/ Auth(w) \/ Envelope(w) \/ Data(w)
  \/ Interrupted(w) \/ Reply(w) \/ FinishClient(w) \/ Leave(w)

Closing == CloseWaits \/ CloseEnds \/ \E w \in Worker : CloseClient(w)

Next ==
  \/ \E w \in Worker : Enter(w) \/ Connect(w) \/ Fail(w) \/ Online(w)
  \/ CloseBegin \/ Closing

Spec == Init /\ [][Next]_vars

\* Socket time-outs end every exchange, but nothing bounds the name lookup inside
\* the factory, so Connect may hang.
Fairness ==
  /\ \A w \in Worker : WF_vars(Online(w) \/ (Fail(w) /\ ~At(w, "connect")))
  /\ WF_vars(Closing)
LiveSpec == Spec /\ Fairness

-----------------------------------------------------------------------------
(* Properties *)

\* What the ledger is told is true whenever close strikes: accepted means the
\* server took the message, anything but unknown that it did not.
OutcomeTrue ==
  \A w \in Worker :
    /\ result[w] = "accepted" => taken[w]
    /\ result[w] \in Definite => ~taken[w]

\* Once close has gone through the clients, no thread authenticates or transmits
\* any more, the ones that were connecting when it came included.
NothingSentAfterClose ==
  [][closer \notin {"idle", "shutting"} =>
       \A w \in Worker : pc'[w] \in {"envelope", "reply"} => pc'[w] = pc[w]]_vars

\* No connection outlives its call.
NoConnectionLeaks ==
  \A w \in Worker : pc[w] = "idle" => sock[w] # "open" /\ w \notin active

\* A close that did not time out leaves no thread behind, and one that timed out
\* really found one: the count is right on every path out of a call.
DrainIsReal ==
  /\ closer = "drained" => \A w \in Worker : pc[w] = "idle"
  /\ workers = Cardinality({w \in Worker : pc[w] # "idle"})

\* close returns, even while a name lookup hangs.
CloseReturns == closer = "shutting" ~> closer \in {"drained", "timed out"}

\* What holds of every state: outcomes that are true, and a count of threads and
\* connections that is right on every path.
SmtpInv == TypeOK /\ OutcomeTrue /\ NoConnectionLeaks /\ DrainIsReal
=============================================================================
