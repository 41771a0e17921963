----------------------------- MODULE MailboxScan -----------------------------
(***************************************************************************)
(* MultiMailboxImapProvider._scan over ImapReadOnlyProvider: one chain of   *)
(* email_list or email_search calls, linked by the signed cursor, over a    *)
(* fixed list of folders on a server where mail arrives, is expunged and    *)
(* renumbered at any time.  A call visits folders one after the other, each *)
(* in an IMAP session of its own, and awaits in between; only a call that   *)
(* returns moves the chain on, because the cursor is all that is kept.      *)
(*                                                                         *)
(* The cursor says everything, so chains do not disturb each other and one  *)
(* is enough.  A visit is atomic here: SELECT fixes UIDVALIDITY and UIDNEXT, *)
(* and FETCH asks only for UIDs below that UIDNEXT.                          *)
(***************************************************************************)
EXTENDS Integers, FiniteSets

CONSTANTS
  N,            \* number of configured folders
  MaxUid,       \* bound on UIDs (the code's is 2^32 - 1)
  MaxValidity,  \* bound on UIDVALIDITY
  Limits,       \* the limits calls are made with
  Changes,      \* bound on what happens to the folders meanwhile
  MaxFaults,    \* bound on calls that a connection, TLS or protocol error ends
  None

Folder == 0 .. N - 1
Uid == 1 .. MaxUid

VARIABLES
  boxes,   \* the folders on the server
  chain,   \* the cursor the caller holds, and what the chain has shown
  call,    \* the call in progress: the chain as it will be, and the budget
  closed,
  changes,
  faults

vars == <<boxes, chain, call, closed, changes, faults>>
server == <<boxes, changes>>

Box == [validity: 1 .. MaxValidity, next: 1 .. MaxUid + 1, uids: SUBSET Uid]
FolderState == [st: {"not-scanned", "partial", "complete", "unavailable"},
                validity: 0 .. MaxValidity, upper: 0 .. MaxUid]
\* must: what stood in the folder when the chain first looked and was not
\* expunged since; shown: what pages have shown; twice, bad: a message was shown
\* again, or with headers cut short (all four history); visits: UID windows read.
\* left: the folders this call has yet to visit, from the rotation on.
Chain == [rotation: Folder, partial: BOOLEAN, states: [Folder -> FolderState],
          ended: BOOLEAN, complete: BOOLEAN,
          must: [Folder -> SUBSET Uid], shown: [Folder -> SUBSET Uid],
          twice: BOOLEAN, bad: BOOLEAN, visits: [Folder -> 0 .. MaxUid + 1]]
CallState == [work: Chain, remaining: Nat, left: SUBSET Folder]

\* What the model takes for granted of its constants.
Setting ==
  /\ {N, MaxUid, MaxValidity} \subseteq Nat \ {0}
  /\ Limits \subseteq Nat \ {0}
  /\ Changes \in Nat /\ MaxFaults \in Nat
  /\ None \notin CallState

TypeOK ==
  /\ boxes \in [Folder -> Box]
  /\ \A f \in Folder : boxes[f].uids \subseteq 1 .. boxes[f].next - 1
  /\ chain \in Chain
  /\ call = None \/ call \in CallState
  /\ closed \in BOOLEAN
  /\ changes \in 0 .. Changes
  /\ faults \in 0 .. MaxFaults

NotScanned == [st |-> "not-scanned", validity |-> 0, upper |-> 0]
Complete == [NotScanned EXCEPT !.st = "complete"]
Unavailable == [NotScanned EXCEPT !.st = "unavailable"]

\* No cursor: rotation 0, nothing scanned.
Fresh == [rotation |-> 0, partial |-> FALSE, states |-> [f \in Folder |-> NotScanned],
          ended |-> FALSE, complete |-> FALSE,
          must |-> [f \in Folder |-> {}], shown |-> [f \in Folder |-> {}],
          twice |-> FALSE, bad |-> FALSE, visits |-> [f \in Folder |-> 0]]

Init ==
  /\ boxes \in [Folder -> {b \in Box : b.validity = 1 /\ b.uids \subseteq 1 .. b.next - 1}]
  /\ chain = Fresh
  /\ call = None
  /\ closed = FALSE
  /\ changes = 0
  /\ faults = 0

-----------------------------------------------------------------------------
(* A call.  Definitions named Bug... are slips a maintainer could make in the *)
(* definition that follows them; PROJECT.json names what each breaks.         *)

Unfinished(states) == {f \in Folder : states[f].st \in {"not-scanned", "partial"}}

\* Where a folder comes from the rotation on.
Place(c, f) == IF f < c.rotation THEN f + N ELSE f

BeginCall(limit) ==
  /\ call = None /\ ~chain.ended /\ ~closed
  /\ call' = [work |-> chain, remaining |-> limit, left |-> Unfinished(chain.states)]
  /\ UNCHANGED <<server, chain, closed, faults>>

Visiting == call # None /\ call.left # {} /\ call.remaining > 0
Turn(f) == \A g \in call.left : Place(call.work, f) <= Place(call.work, g)
Allowance ==
  LET share == call.remaining \div Cardinality(call.left) IN IF share = 0 THEN 1 ELSE share

AfterVisit(work, f) ==
  call' = [work |-> [work EXCEPT !.rotation = (f + 1) % N],
           remaining |-> call.remaining - Allowance, left |-> call.left \ {f}]

\* A message that stands on the boundary of two windows is read with both.
BugRest(lower, box) ==
  IF lower > 1 THEN [st |-> "partial", validity |-> box.validity, upper |-> lower] ELSE Complete

\* What is left below the window [lower, upper].
Rest(lower, box) ==
  IF lower > 1 THEN [st |-> "partial", validity |-> box.validity, upper |-> lower - 1] ELSE Complete

Stale(old, box) == old.st = "partial" /\ old.validity # box.validity

\* The multi-folder scan's check of the child's new cursor.
Advanced(old, new) ==
  old.st = "partial" /\ new.st = "partial" => old.validity = new.validity /\ new.upper < old.upper

\* _fetch_messages_sync from folder f, and what _scan makes of its page.
ReadWindow(f, bad) ==
  LET box == boxes[f]
      old == call.work.states[f]
      first == old.st = "not-scanned"
      upper == IF first THEN box.next - 1 ELSE old.upper
      lower == IF upper > Allowance THEN upper - Allowance + 1 ELSE 1
      page == {u \in box.uids : lower <= u /\ u <= upper}
      cut == bad /\ page # {}
      work == call.work IN
  [work EXCEPT
    !.states[f] = Rest(lower, box),
    !.partial = @ \/ cut,
    !.bad = @ \/ cut,
    !.must[f] = IF first THEN box.uids ELSE @,
    !.shown[f] = @ \cup page,
    !.twice = @ \/ page \cap work.shown[f] # {},
    !.visits[f] = @ + 1]

\* partial speaks of this page only.
BugVisit(f, bad) ==
  /\ ~closed
  /\ ~Stale(call.work.states[f], boxes[f])
  /\ LET work == ReadWindow(f, bad) IN
     /\ Advanced(call.work.states[f], work.states[f])
     /\ AfterVisit([work EXCEPT !.partial = bad], f)
  /\ UNCHANGED <<server, chain, closed, faults>>

\* The page is read and the provider is still open after the await.
Visit(f, bad) ==
  /\ ~closed
  /\ ~Stale(call.work.states[f], boxes[f])
  /\ LET work == ReadWindow(f, bad) IN
     /\ Advanced(call.work.states[f], work.states[f])
     /\ AfterVisit(work, f)
  /\ UNCHANGED <<server, chain, closed, faults>>

\* ProviderMailboxError: the folder is missing, too large or not read-only.
VisitUnavailable(f) ==
  /\ faults < MaxFaults
  /\ faults' = faults + 1
  /\ AfterVisit([call.work EXCEPT !.states[f] = Unavailable], f)
  /\ UNCHANGED <<server, chain, closed>>

VisitNext ==
  /\ Visiting
  /\ \E f \in call.left :
       Turn(f) /\ (VisitUnavailable(f) \/ \E bad \in BOOLEAN : Visit(f, bad))

\* Any other exception leaves the caller with the cursor it had: a stale cursor,
\* one that does not advance, a provider closed meanwhile, a transport error.
CallFails ==
  /\ call # None
  /\ \/ /\ Visiting
        /\ \E f \in call.left :
             /\ Turn(f)
             /\ \/ closed
                \/ Stale(call.work.states[f], boxes[f])
                \/ ~Advanced(call.work.states[f], ReadWindow(f, FALSE).states[f])
        /\ UNCHANGED faults
     \/ ~Visiting /\ closed /\ UNCHANGED faults
     \/ faults < MaxFaults /\ faults' = faults + 1
  /\ call' = None
  /\ UNCHANGED <<server, chain, closed>>

\* The page goes out even if the provider was closed during the last visit.
BugReturn ==
  /\ call # None /\ ~Visiting
  /\ LET open == Unfinished(call.work.states) # {} IN
     chain' = [call.work EXCEPT
                !.ended = ~open,
                !.complete = ~call.work.partial
                               /\ \A f \in Folder : call.work.states[f] = Complete]
  /\ call' = None
  /\ UNCHANGED <<server, closed, faults>>

\* scan_complete, and a next cursor only while a folder is unfinished.
Return ==
  /\ call # None /\ ~Visiting /\ ~closed
  /\ LET open == Unfinished(call.work.states) # {} IN
     chain' = [call.work EXCEPT
                !.ended = ~open,
                !.complete = ~call.work.partial
                               /\ \A f \in Folder : call.work.states[f] = Complete]
  /\ call' = None
  /\ UNCHANGED <<server, closed, faults>>

Close ==
  /\ ~closed
  /\ closed' = TRUE
  /\ UNCHANGED <<server, chain, call, faults>>

-----------------------------------------------------------------------------
(* The server.  History forgets what is no longer there. *)

Change ==
  /\ changes < Changes
  /\ changes' = changes + 1
  /\ UNCHANGED <<closed, faults>>

\* The chain and the copy a call works on both drop uids from must[f].
Forget(f, uids) ==
  /\ chain' = [chain EXCEPT !.must[f] = @ \ uids]
  /\ call' = IF call = None THEN None ELSE [call EXCEPT !.work.must[f] = @ \ uids]

Arrive(f) ==
  /\ Change
  /\ boxes[f].next <= MaxUid
  /\ boxes' = [boxes EXCEPT ![f].uids = @ \cup {boxes[f].next}, ![f].next = @ + 1]
  /\ UNCHANGED <<chain, call>>

Expunge(f, u) ==
  /\ Change
  /\ u \in boxes[f].uids
  /\ boxes' = [boxes EXCEPT ![f].uids = @ \ {u}]
  /\ Forget(f, {u})

\* A new UIDVALIDITY: every message gets another UID.
Renumber(f) ==
  /\ Change
  /\ boxes[f].validity < MaxValidity
  /\ LET n == Cardinality(boxes[f].uids) IN
     boxes' = [boxes EXCEPT ![f] = [validity |-> @.validity + 1, next |-> n + 1, uids |-> 1 .. n]]
  /\ Forget(f, Uid)

-----------------------------------------------------------------------------

Caller == VisitNext \/ Return \/ \E limit \in Limits : BeginCall(limit)

Next ==
  \/ Caller \/ CallFails \/ Close
  \/ \E f \in Folder : Arrive(f) \/ Renumber(f) \/ \E u \in Uid : Expunge(f, u)

Spec == Init /\ [][Next]_vars

\* The caller goes on with the cursor it gets; a visit ends by its time-outs.
Fairness == WF_vars(Caller)
LiveSpec == Spec /\ Fairness

-----------------------------------------------------------------------------
(* Properties *)

\* scan_complete is a claim about every folder: what stood in it when the chain
\* first looked and is still there was shown, with whole headers, although the
\* windows were read in different sessions and calls (docs/multi-folder.md).
CompleteMeansAll ==
  chain.complete =>
    /\ \A f \in Folder : chain.must[f] \subseteq chain.shown[f]
    /\ ~chain.bad

\* No message is shown twice in a chain, however its windows were cut.
ShownOnce == ~chain.twice

\* Fair rotation, whatever the limits of the calls and whoever finishes or fails:
\* no unfinished folder is ever two windows behind another.
FairRotation ==
  \A f \in Folder, g \in Unfinished(chain.states) : chain.visits[f] <= chain.visits[g] + 1

\* What the claims of a scan rest on.
ScanInv == TypeOK /\ CompleteMeansAll /\ ShownOnce /\ FairRotation

\* A chain grows by windows that are current: a continued window has the
\* UIDVALIDITY of the folder's first, and a call that was awaiting when the
\* provider was closed never returns a page.
WindowsStayCurrent ==
  [][/\ closed => chain'.visits = chain.visits
     /\ \A f \in Folder :
          call # None /\ call' # None /\ call'.work.visits[f] > call.work.visits[f]
            /\ call.work.states[f].st = "partial"
          => call.work.states[f].validity = boxes[f].validity]_vars

\* A caller that goes on comes to an end: every call that returns moves some
\* folder on, empty windows included.  Only a provider closed or a folder
\* renumbered meanwhile stops it.
ScanEnds ==
  <>(chain.ended \/ closed \/ \E f \in Folder : Stale(chain.states[f], boxes[f]))
=============================================================================
