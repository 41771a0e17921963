--------------------------- MODULE ExclusiveLease ---------------------------
(***************************************************************************)
(* What the rest of the program takes a file lease for (the guard of          *)
(* LedgerIdentity, the lease of SendLedger): one owner at a time, working    *)
(* under the lease only while it owns it.  It passes to another process only  *)
(* after it was given up, never from hand to hand.                           *)
(***************************************************************************)
CONSTANTS Proc, None

VARIABLES
  owner,   \* the process the lease belongs to
  working  \* the processes between its grant and their last use

vars == <<owner, working>>

Init == owner = None /\ working = {}

Acquire(p) ==
  /\ owner = None
  /\ owner' = p
  /\ UNCHANGED working

Work(p) ==
  /\ owner = p
  /\ working' = {p}
  /\ UNCHANGED owner

Stop(p) ==
  /\ working' = working \ {p}
  /\ UNCHANGED owner

\* Giving it up, or dying with it, ends the work too.
Release(p) ==
  /\ owner = p
  /\ owner' = None
  /\ working' = {}

Next == \E p \in Proc : Acquire(p) \/ Work(p) \/ Stop(p) \/ Release(p)

Spec == Init /\ [][Next]_vars
=============================================================================
