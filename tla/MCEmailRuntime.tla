--------------------------- MODULE MCEmailRuntime ---------------------------
(* The instance of ReadPath for TLC in which the runtime and the IMAP sessions   *)
(* run, each with a close() that races with calls.  subject says which of them a *)
(* behaviour is about; the other, and the scan, rest in an initial state.        *)
EXTENDS ReadPath, TLC

CONSTANTS t1, h1, d1

\* A thread lookup makes every kind of read: a message, a page, more bodies.
KindOf == (t1 :> "thread") @@ (h1 :> "health") @@ (d1 :> "draft")

ASSUME InstanceAssumption == Runtime!Setting /\ Scan!Setting

VARIABLE subject

CallsInit ==
  /\ subject \in {"runtime", "sessions"}
  /\ Runtime!Init /\ Init
  /\ Scan!Init /\ \A f \in Scan!Folder : boxes[f].next = 1

CallsNext ==
  /\ \/ subject = "runtime" /\ Runtime!Next /\ UNCHANGED vars
     \/ subject = "sessions" /\ Next /\ UNCHANGED runtimeVars
  /\ UNCHANGED <<subject, scanVars>>

CallsSpec ==
  /\ CallsInit /\ [][CallsNext]_<<subject, vars, runtimeVars, scanVars>>
  /\ Fairness /\ Runtime!Fairness
=============================================================================
