------------------------------ MODULE MCProfile ------------------------------
(* The instance of ProfileDrafts for TLC.  Its two parts share nothing: subject   *)
(* says which of them a behaviour is about, and the other rests in an initial    *)
(* state.                                                                       *)
EXTENDS ProfileDrafts, TLC

CONSTANTS p1, p2, o1, o2, o3, o4, c1, c2, here, there, Subjects

VARIABLE subject

\* A configuration with nearly everything on.
Mail(p) ==
  [profile |-> p, provider |-> "imap", read |-> "readonly", storage |-> "on", drafts |-> "on",
   audit |-> "off", smtp |-> "on", send |-> "on", workflow |-> p # "auto", fine |-> TRUE]

\* An operator may put such a one in place of another while it is read.
MailEdits == {Mail(there), Mail("auto")}

ASSUME InstanceAssumption == Reg!Setting

ProfileInit ==
  /\ subject \in Subjects
  /\ subject = "drafts" => current = here /\ cfg = Mail(here)
  /\ Init /\ Reg!Init

ProfileNext ==
  \/ subject = "drafts" /\ Next /\ UNCHANGED <<subject, regVars>>
  \/ subject = "registration" /\ Reg!Next /\ UNCHANGED <<subject, vars>>

ProfileSpec == ProfileInit /\ [][ProfileNext]_<<subject, vars, regVars>>

\* Drafts are not interchangeable, listings compare their identifiers.
Symmetric == Permutations(Process) \cup Permutations(Op) \cup Permutations(Content)
=============================================================================
