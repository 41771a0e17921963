---------------------------- MODULE SendAttempts ----------------------------
(***************************************************************************)
(* What the send ledger promises, with no worker, lease, process or lock   *)
(* in sight: the promise docs/send-ledger.md calls "at-most-once SMTP      *)
(* attempts".                                                              *)
(*                                                                         *)
(*  - An operation is intended at most once, with one content, and a       *)
(*    draft revision belongs to at most one operation for ever.            *)
(*  - Only an intended, undecided operation is submitted, and only once.   *)
(*  - A decided operation keeps its decision.  "accepted" is decided only  *)
(*    for a message the server took, "definite-failure" only for one it    *)
(*    did not take; every other end is "delivery-unknown".                 *)
(*                                                                         *)
(* Module SendLedger models send_orchestration.py and is checked, and      *)
(* proved, to implement this specification.                                *)
(***************************************************************************)
EXTENDS Naturals

CONSTANTS
  Op,        \* operation identifiers
  Content,   \* what a candidate's digest binds
  KeyOf,     \* KeyOf[c]: the draft and revision of content c
  None       \* "no content"

VARIABLES
  status,    \* status[o]: the ledger's word on operation o
  bound,     \* bound[o]: the content operation o was intended with
  attempts,  \* attempts[o]: how often DATA was transmitted for o
  accepted   \* accepted[o]: the server took responsibility for o's message

vars == <<status, bound, attempts, accepted>>

Terminal == {"accepted", "definite-failure", "delivery-unknown"}

Init ==
  /\ status = [o \in Op |-> "absent"]
  /\ bound = [o \in Op |-> None]
  /\ attempts = [o \in Op |-> 0]
  /\ accepted = [o \in Op |-> FALSE]

Undecided == {o \in Op : status[o] = "dispatching"}

\* The undecided operations of S are given up as delivery-unknown.
Abandoned(S) ==
  [o \in Op |-> IF o \in S THEN "delivery-unknown" ELSE status[o]]

\* A new intent.  Undecided operations of earlier senders may be given up in
\* the same step: the ledger does both in one transaction.
Intend(o, c) ==
  /\ status[o] = "absent"
  /\ \A p \in Op : bound[p] # None => KeyOf[bound[p]] # KeyOf[c]
  /\ \E S \in SUBSET Undecided :
       status' = [Abandoned(S) EXCEPT ![o] = "dispatching"]
  /\ bound' = [bound EXCEPT ![o] = c]
  /\ UNCHANGED <<attempts, accepted>>

Submit(o) ==
  /\ status[o] = "dispatching"
  /\ attempts[o] = 0
  /\ attempts' = [attempts EXCEPT ![o] = 1]
  /\ \E taken \in BOOLEAN : accepted' = [accepted EXCEPT ![o] = taken]
  /\ UNCHANGED <<status, bound>>

Decide(o, s) ==
  /\ status[o] = "dispatching"
  /\ s = "accepted" => accepted[o]
  /\ s = "definite-failure" => ~accepted[o]
  /\ status' = [status EXCEPT ![o] = s]
  /\ UNCHANGED <<bound, attempts, accepted>>

Abandon ==
  /\ \E S \in SUBSET Undecided : status' = Abandoned(S)
  /\ UNCHANGED <<bound, attempts, accepted>>

Next ==
  \/ \E o \in Op, c \in Content : Intend(o, c)
  \/ \E o \in Op : Submit(o)
  \/ \E o \in Op, s \in Terminal : Decide(o, s)
  \/ Abandon

Spec == Init /\ [][Next]_vars
=============================================================================
