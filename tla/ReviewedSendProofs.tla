------------------------- MODULE ReviewedSendProofs -------------------------
(***************************************************************************)
(* Proofs about ReviewedSend, for any number of sessions, settings and         *)
(* revisions: only what was reviewed goes out, receipts are true, and nobody is  *)
(* asked again about a revision that was transmitted.                          *)
(***************************************************************************)
EXTENDS ReviewedSend, TLAPS

USE NoneFresh, BoundsNat

\* What the theorems assume of None: it is no outcome.
Fresh == None \notin Outcome

-----------------------------------------------------------------------------
(* The inductive invariant *)

\* Where a session holds the reservation.
Pinned == {"consume", "begin", "copy"} \cup Live

\* The draft stays what it was reviewed as while its session holds the
\* reservation, and the last check was in time.
RunOK(s) ==
  /\ run[s].pc # "idle" => run[s].rev \in Rev
  /\ run[s].pc \in Pinned =>
       /\ held = s /\ run[s].content = run[s].rev
       /\ draft = [rev |-> run[s].content, active |-> TRUE]
  /\ run[s].pc \in {"data", "reply"} =>
       /\ run[s].start <= run[s].checked.at
       /\ run[s].checked.at < run[s].start + Ttl
       /\ run[s].checked.cfg = run[s].cfg
  /\ run[s].pc = "finish" => run[s].result \in Ledger!Terminal
  /\ run[s].pc = "copy" => status[run[s].rev] = "accepted"

\* What the ledger says of a revision agrees with the server and the copies.
RowOK(r) ==
  /\ attempts[r] \in {0, 1}
  /\ accepted[r] => attempts[r] = 1
  /\ status[r] = "absent" => attempts[r] = 0
  /\ status[r] = "accepted" => accepted[r]
  /\ status[r] = "definite-failure" => ~accepted[r]

CopyOK(r) == copy[r] # "none" => status[r] = "accepted"

ReceiptOK(s) ==
  /\ out[s].outcome = "accepted" => out[s].rev \in Rev /\ accepted[out[s].rev]
  /\ out[s].outcome = "definite-failure" =>
       /\ out[s].rev \in Rev /\ ~accepted[out[s].rev]
       /\ status[out[s].rev] \in Ledger!Terminal

IInv ==
  /\ TypeOK
  /\ \A s \in Session : RunOK(s) /\ ReceiptOK(s)
  /\ \A r \in Rev : RowOK(r) /\ CopyOK(r)

-----------------------------------------------------------------------------
(* The ledger *)

LedgerTypes ==
  /\ status \in [Rev -> {"absent", "dispatching"} \cup Ledger!Terminal]
  /\ bound \in [Rev -> Rev \cup {None}]
  /\ attempts \in [Rev -> Nat]
  /\ accepted \in [Rev -> BOOLEAN]

\* What no step of the ledger undoes.
Advances ==
  \A r \in Rev :
    /\ status[r] \in Ledger!Terminal => status'[r] = status[r]
    /\ attempts[r] = 1 \/ status[r] \in Ledger!Terminal => accepted'[r] = accepted[r]

Advanced == LedgerTypes' /\ Advances /\ \A r \in Rev : RowOK(r)'

LedgerStep ==
  \/ UNCHANGED ledger
  \/ status' = Recovered /\ UNCHANGED <<bound, attempts, accepted>>
  \/ \E r \in Rev, c \in Rev : Ledger!Intend(r, c)
  \/ \E r \in Rev : Ledger!Submit(r)
  \/ \E r \in Rev, t \in Ledger!Terminal : Ledger!Decide(r, t)

\* Giving up undecided rows leaves the others.
LEMMA AbandonedRows ==
  ASSUME LedgerTypes, NEW S \in SUBSET Ledger!Undecided
  PROVE  /\ Ledger!Abandoned(S) \in [Rev -> {"absent", "dispatching"} \cup Ledger!Terminal]
         /\ \A r \in Rev :
              \/ Ledger!Abandoned(S)[r] = status[r]
              \/ status[r] = "dispatching" /\ Ledger!Abandoned(S)[r] = "delivery-unknown"
<1>1. \A r \in Rev : Ledger!Abandoned(S)[r] = IF r \in S THEN "delivery-unknown" ELSE status[r]
  BY DEF Ledger!Abandoned
<1>2. \A r \in S : r \in Rev /\ status[r] = "dispatching" BY DEF Ledger!Undecided
<1>3. Ledger!Abandoned(S) = [r \in Rev |-> Ledger!Abandoned(S)[r]] BY DEF Ledger!Abandoned
<1>4. \A r \in Rev : Ledger!Abandoned(S)[r] \in {"absent", "dispatching"} \cup Ledger!Terminal
  BY <1>1 DEF LedgerTypes, Ledger!Terminal
<1> QED BY <1>1, <1>2, <1>3, <1>4

LEMMA RecoveredRows ==
  ASSUME LedgerTypes
  PROVE  /\ Recovered \in [Rev -> {"absent", "dispatching"} \cup Ledger!Terminal]
         /\ \A r \in Rev :
              \/ Recovered[r] = status[r]
              \/ status[r] = "dispatching" /\ Recovered[r] = "delivery-unknown"
<1>1. CASE Recovered = status BY <1>1 DEF LedgerTypes
<1>2. CASE Recovered = Ledger!Abandoned(Ledger!Undecided) BY <1>2, AbandonedRows
<1> QED BY <1>1, <1>2 DEF Recovered

LEMMA LedgerAdvances ==
  ASSUME LedgerTypes, \A r \in Rev : RowOK(r), LedgerStep
  PROVE  Advanced
<1> USE DEF Advanced, Advances, RowOK
<1>0. Ledger!Terminal = {"accepted", "definite-failure", "delivery-unknown"} BY DEF Ledger!Terminal
<1>1. CASE UNCHANGED ledger BY <1>1 DEF ledger, LedgerTypes
<1>2. CASE status' = Recovered /\ UNCHANGED <<bound, attempts, accepted>>
  <2>1. LedgerTypes' BY <1>2, RecoveredRows DEF LedgerTypes
  <2> QED BY <1>0, <1>2, <2>1, RecoveredRows
<1>3. ASSUME NEW o \in Rev, NEW c \in Rev, Ledger!Intend(o, c) PROVE Advanced
  <2>1. PICK S \in SUBSET Ledger!Undecided :
          status' = [Ledger!Abandoned(S) EXCEPT ![o] = "dispatching"]
    BY <1>3 DEF Ledger!Intend
  <2>2. status[o] = "absent" /\ bound' = [bound EXCEPT ![o] = c] /\ UNCHANGED <<attempts, accepted>>
    BY <1>3 DEF Ledger!Intend
  <2>3. \A r \in Rev : status'[r] = IF r = o THEN "dispatching" ELSE Ledger!Abandoned(S)[r]
    BY <2>1, AbandonedRows
  <2>4. LedgerTypes' BY <2>1, <2>2, AbandonedRows DEF LedgerTypes
  <2> QED BY <1>0, <2>2, <2>3, <2>4, AbandonedRows
<1>4. ASSUME NEW o \in Rev, Ledger!Submit(o) PROVE Advanced
  <2>1. /\ status[o] = "dispatching" /\ attempts[o] = 0 /\ attempts' = [attempts EXCEPT ![o] = 1]
        /\ UNCHANGED <<status, bound>>
    BY <1>4 DEF Ledger!Submit
  <2>2. PICK taken \in BOOLEAN : accepted' = [accepted EXCEPT ![o] = taken]
    BY <1>4 DEF Ledger!Submit
  <2>3. LedgerTypes' BY <2>1, <2>2 DEF LedgerTypes
  <2>4. \A r \in Rev : r # o => attempts'[r] = attempts[r] /\ accepted'[r] = accepted[r]
    BY <2>1, <2>2 DEF LedgerTypes
  <2>5. attempts'[o] = 1 BY <2>1 DEF LedgerTypes
  <2> QED BY <1>0, <2>1, <2>3, <2>4, <2>5
<1>5. ASSUME NEW o \in Rev, NEW t \in Ledger!Terminal, Ledger!Decide(o, t) PROVE Advanced
  <2>1. /\ status[o] = "dispatching" /\ status' = [status EXCEPT ![o] = t]
        /\ t = "accepted" => accepted[o]
        /\ t = "definite-failure" => ~accepted[o]
        /\ UNCHANGED <<bound, attempts, accepted>>
    BY <1>5 DEF Ledger!Decide
  <2>2. LedgerTypes' BY <2>1 DEF LedgerTypes
  <2>3. \A r \in Rev : status'[r] = IF r = o THEN t ELSE status[r] BY <2>1 DEF LedgerTypes
  <2> QED BY <1>0, <2>1, <2>2, <2>3
<1> QED BY <1>1, <1>2, <1>3, <1>4, <1>5 DEF LedgerStep

-----------------------------------------------------------------------------
(* What a session's step does to its run, its receipt and the reservation *)

\* The other sessions' runs and receipts stay, and their reservations.
Own(s) ==
  /\ \A q \in Session \ {s} : run'[q] = run[q] /\ out'[q] = out[q]
  /\ \/ held' = held
     \/ held = None /\ held' = s
     \/ held = s /\ held' = None

SessionTypes ==
  /\ held \in Session \cup {None}
  /\ run \in [Session -> Run]
  /\ out \in [Session -> [outcome: Outcome \cup {None}, rev: Rev \cup {None}]]

LEMMA IdleRun == Idle \in Run BY DEF Idle, Run, PC

LEMMA EndEffect ==
  ASSUME Fresh, IInv, Advanced, NEW s \in Session, NEW o \in Outcome, End(s, o),
         run[s].pc # "idle",
         o = "accepted" => accepted'[run[s].rev],
         o = "definite-failure" =>
           ~accepted'[run[s].rev] /\ status'[run[s].rev] \in Ledger!Terminal
  PROVE  SessionTypes' /\ Own(s) /\ RunOK(s)' /\ ReceiptOK(s)'
<1>1. SessionTypes /\ RunOK(s) BY DEF IInv, TypeOK, SessionTypes
<1> DEFINE receipt == [outcome |-> o, rev |-> run[s].rev]
<1>2. receipt \in [outcome: Outcome \cup {None}, rev: Rev \cup {None}] BY <1>1 DEF RunOK
<1>3. /\ out' = [out EXCEPT ![s] = receipt] /\ run' = [run EXCEPT ![s] = Idle]
      /\ held' = IF held = s THEN None ELSE held
  BY DEF End
<1>4. receipt.outcome = o /\ receipt.rev = run[s].rev OBVIOUS
<1> HIDE DEF receipt
<1>5. SessionTypes' BY <1>1, <1>2, <1>3, IdleRun DEF SessionTypes
<1>6. Own(s) BY <1>1, <1>3 DEF Own, SessionTypes
<1>7. run'[s] = Idle /\ out'[s] = receipt BY <1>1, <1>3 DEF SessionTypes
<1>8. RunOK(s)' BY <1>7 DEF RunOK, Idle, Pinned, Live
<1>9. ReceiptOK(s)' BY <1>1, <1>4, <1>7 DEF ReceiptOK, RunOK
<1> QED BY <1>5, <1>6, <1>8, <1>9

\* Receipts stay true while the ledger advances.
LEMMA ReceiptKeeps ==
  ASSUME IInv, Advanced, NEW q \in Session, out'[q] = out[q]
  PROVE  ReceiptOK(q)'
<1>1. ReceiptOK(q) /\ \A r \in Rev : RowOK(r) BY DEF IInv
<1>2. out[q].outcome = "accepted" => out[q].rev \in Rev /\ accepted'[out[q].rev]
  BY <1>1 DEF ReceiptOK, RowOK, Advanced, Advances
<1>3. out[q].outcome = "definite-failure" =>
        /\ out[q].rev \in Rev /\ ~accepted'[out[q].rev]
        /\ status'[out[q].rev] \in Ledger!Terminal
  BY <1>1 DEF ReceiptOK, Advanced, Advances
<1> QED BY <1>2, <1>3 DEF ReceiptOK

LEMMA MoveEffect ==
  ASSUME IInv, Advanced, NEW s \in Session, NEW new \in Run,
         run' = [run EXCEPT ![s] = new], UNCHANGED out,
         held' = held \/ (held = None /\ held' = s)
  PROVE  SessionTypes' /\ Own(s) /\ run'[s] = new /\ ReceiptOK(s)'
<1>1. SessionTypes BY DEF IInv, TypeOK, SessionTypes
<1>2. SessionTypes' BY <1>1 DEF SessionTypes
<1>3. Own(s) /\ run'[s] = new BY <1>1 DEF Own, SessionTypes
<1> QED BY <1>2, <1>3, ReceiptKeeps

\* The other sessions.
LEMMA OthersKeep ==
  ASSUME IInv, Advanced, UNCHANGED draft, NEW s \in Session, Own(s), NEW q \in Session \ {s}
  PROVE  RunOK(q)' /\ ReceiptOK(q)'
<1>1. RunOK(q) /\ run'[q] = run[q] /\ out'[q] = out[q] BY DEF IInv, Own
<1>2. held = q => held' = held BY DEF Own
<1>3. run[q].pc = "copy" => status'[run[q].rev] = "accepted"
  BY <1>1 DEF RunOK, Advanced, Advances, Ledger!Terminal
<1>4. RunOK(q)' BY <1>1, <1>2, <1>3 DEF RunOK
<1> QED BY <1>1, <1>4, ReceiptKeeps

-----------------------------------------------------------------------------
(* The steps of a session *)

Effect(s) ==
  /\ UNCHANGED draft /\ LedgerStep
  /\ SessionTypes' /\ Own(s) /\ RunOK(s)' /\ ReceiptOK(s)'
  /\ \A r \in Rev : CopyOK(r)'
  /\ copy' \in [Rev -> {"none", "partial", "saved"}]
  /\ UNCHANGED <<config, clock>> /\ faults' \in 0 .. MaxFaults

\* A copy is written by the session whose accepted message it is of.
CopyChanged(s) ==
  \/ UNCHANGED copy
  \/ /\ run[s].pc = "copy"
     /\ \E c \in {"none", "partial", "saved"} : copy' = [copy EXCEPT ![run[s].rev] = c]

LEMMA CopiesKeep ==
  ASSUME IInv, Advanced, NEW s \in Session, CopyChanged(s)
  PROVE  /\ \A r \in Rev : CopyOK(r)'
         /\ copy' \in [Rev -> {"none", "partial", "saved"}]
<1>1. copy \in [Rev -> {"none", "partial", "saved"}] /\ RunOK(s) BY DEF IInv, TypeOK
<1>2. \A r \in Rev : status[r] = "accepted" => status'[r] = "accepted"
  BY DEF Advanced, Advances, Ledger!Terminal
<1>3. \A r \in Rev : copy[r] # "none" => status[r] = "accepted" BY DEF IInv, CopyOK
<1>4. CASE UNCHANGED copy BY <1>1, <1>2, <1>3, <1>4 DEF CopyOK
<1>5. ASSUME run[s].pc = "copy", NEW c \in {"none", "partial", "saved"},
             copy' = [copy EXCEPT ![run[s].rev] = c]
      PROVE  /\ \A r \in Rev : CopyOK(r)'
             /\ copy' \in [Rev -> {"none", "partial", "saved"}]
  <2>1. run[s].rev \in Rev /\ status[run[s].rev] = "accepted" BY <1>1, <1>5 DEF RunOK
  <2>2. \A r \in Rev : copy'[r] = IF r = run[s].rev THEN c ELSE copy[r] BY <1>1, <1>5
  <2>3. copy' \in [Rev -> {"none", "partial", "saved"}] BY <1>1, <1>5
  <2> QED BY <1>2, <1>3, <2>1, <2>2, <2>3 DEF CopyOK
<1> QED BY <1>4, <1>5 DEF CopyChanged

\* A session's step to another place of its run.
LEMMA MoveStep ==
  ASSUME IInv, NEW s \in Session, NEW new \in Run, run' = [run EXCEPT ![s] = new],
         LedgerStep, UNCHANGED <<out, copy, env, faults>>,
         held' = held \/ (held = None /\ held' = s),
         new.pc # "idle" => new.rev \in Rev,
         new.pc \in Pinned =>
           /\ held' = s /\ new.content = new.rev
           /\ draft = [rev |-> new.content, active |-> TRUE],
         new.pc \in {"data", "reply"} =>
           /\ new.start <= new.checked.at /\ new.checked.at < new.start + Ttl
           /\ new.checked.cfg = new.cfg,
         new.pc = "finish" => new.result \in Ledger!Terminal,
         new.pc = "copy" => status'[new.rev] = "accepted"
  PROVE  Effect(s)
<1>1. UNCHANGED <<draft, config, clock>> BY DEF env
<1>2. LedgerTypes /\ \A r \in Rev : RowOK(r) BY DEF IInv, TypeOK, LedgerTypes
<1>3. Advanced BY <1>2, LedgerAdvances
<1>4. SessionTypes' /\ Own(s) /\ run'[s] = new /\ ReceiptOK(s)' BY <1>3, MoveEffect
<1>5. RunOK(s)' BY <1>1, <1>4 DEF RunOK
<1>6. faults' \in 0 .. MaxFaults BY DEF IInv, TypeOK
<1>7. CopyChanged(s) BY DEF CopyChanged
<1> QED BY <1>1, <1>3, <1>4, <1>5, <1>6, <1>7, CopiesKeep DEF Effect

\* A session's step that ends its run.
LEMMA EndStep ==
  ASSUME Fresh, IInv, NEW s \in Session, NEW o \in Outcome, End(s, o), run[s].pc # "idle",
         LedgerStep, UNCHANGED env, faults' \in 0 .. MaxFaults,
         o = "accepted" => accepted'[run[s].rev],
         o = "definite-failure" =>
           ~accepted'[run[s].rev] /\ status'[run[s].rev] \in Ledger!Terminal,
         CopyChanged(s)
  PROVE  Effect(s)
<1>1. LedgerTypes /\ \A r \in Rev : RowOK(r) BY DEF IInv, TypeOK, LedgerTypes
<1>2. Advanced BY <1>1, LedgerAdvances
<1>3. SessionTypes' /\ Own(s) /\ RunOK(s)' /\ ReceiptOK(s)' BY <1>2, EndEffect
<1> QED BY <1>2, <1>3, CopiesKeep DEF Effect, env

\* What the invariant says of a session at one of its steps.
LEMMA Here ==
  ASSUME IInv, NEW s \in Session
  PROVE  /\ run[s] \in Run /\ run \in [Session -> Run] /\ RunOK(s)
         /\ faults \in 0 .. MaxFaults /\ clock \in Clock /\ config \in Cfg
         /\ draft \in [rev: Rev, active: BOOLEAN]
         /\ held \in Session \cup {None} /\ None \notin Session
  BY DEF IInv, TypeOK

LEMMA RunMoved ==
  ASSUME NEW r \in Run, NEW p \in PC
  PROVE  /\ [r EXCEPT !.pc = p] \in Run
         /\ [r EXCEPT !.pc = p].pc = p
         /\ \A c \in Rev : [r EXCEPT !.pc = p, !.content = c] \in Run
         /\ \A t \in Clock : [r EXCEPT !.pc = p, !.start = t] \in Run
         /\ \A t \in Clock, g \in Cfg :
              [r EXCEPT !.pc = p, !.checked = [at |-> t, cfg |-> g]] \in Run
         /\ \A t \in Ledger!Terminal, b \in BOOLEAN :
              /\ [r EXCEPT !.pc = p, !.result = t] \in Run
              /\ [r EXCEPT !.pc = p, !.result = t, !.raised = b] \in Run
         /\ [r EXCEPT !.pc = p, !.sent = TRUE] \in Run
  BY DEF Run










-----------------------------------------------------------------------------
(* Each step of a run has such an effect *)

LEMMA ApproveStep == ASSUME IInv, NEW s \in Session, Approve(s) PROVE Effect(s)
<1> DEFINE new == [run[s] EXCEPT !.pc = "hold"]
<1>1. run[s] \in Run /\ "hold" \in PC /\ clock \in Clock /\ config \in Cfg /\ draft.rev \in Rev
  BY Here DEF PC
<1>2. new \in Run BY <1>1, RunMoved
<1>3. /\ new.pc = "hold" /\ new.rev = run[s].rev
  BY <1>1 DEF Run
<1>4. run' = [run EXCEPT ![s] = new] /\ UNCHANGED <<out, copy, env, faults>>
  BY Here DEF Approve, Goto
<1>5. run[s].pc = "prompt" /\ held' = held BY DEF Approve, At
<1>6. RunOK(s) BY Here
<1>7. LedgerStep BY DEF Approve, LedgerStep, ledger
<1> HIDE DEF new
<1> QED BY <1>2, <1>3, <1>4, <1>5, <1>6, <1>7, MoveStep DEF RunOK, Pinned, Live

LEMMA LookupMissesStep == ASSUME IInv, NEW s \in Session, LookupMisses(s) PROVE Effect(s)
<1> DEFINE new == [run[s] EXCEPT !.pc = "prompt", !.start = clock]
<1>1. run[s] \in Run /\ "prompt" \in PC /\ clock \in Clock /\ config \in Cfg /\ draft.rev \in Rev
  BY Here DEF PC
<1>2. new \in Run BY <1>1, RunMoved
<1>3. /\ new.pc = "prompt" /\ new.rev = run[s].rev
  BY <1>1 DEF Run
<1>4. run' = [run EXCEPT ![s] = new] /\ UNCHANGED <<out, copy, env, faults>>
  BY Here DEF LookupMisses, Goto
<1>5. run[s].pc = "lookup" /\ held' = held BY DEF LookupMisses, At
<1>6. RunOK(s) BY Here
<1>7. LedgerStep BY DEF LookupMisses, LedgerStep
<1> HIDE DEF new
<1> QED BY <1>2, <1>3, <1>4, <1>5, <1>6, <1>7, MoveStep DEF RunOK, Pinned, Live

LEMMA HoldStep == ASSUME IInv, NEW s \in Session, Hold(s) PROVE Effect(s)
<1> DEFINE new == [run[s] EXCEPT !.pc = "consume", !.content = draft.rev]
<1>1. run[s] \in Run /\ "consume" \in PC /\ clock \in Clock /\ config \in Cfg /\ draft.rev \in Rev
  BY Here DEF PC
<1>2. new \in Run BY <1>1, RunMoved
<1>3. /\ new.pc = "consume" /\ new.rev = run[s].rev /\ new.content = draft.rev
  BY <1>1 DEF Run
<1>4. run' = [run EXCEPT ![s] = new] /\ UNCHANGED <<out, copy, env, faults>>
  BY Here DEF Hold, Goto
<1>5. run[s].pc = "hold" /\ held = None /\ held' = s BY DEF Hold, At
<1>6. RunOK(s) BY Here
<1>7. LedgerStep BY DEF Hold, LedgerStep, ledger
<1>8. draft.rev = run[s].rev /\ draft = [rev |-> draft.rev, active |-> TRUE] BY Here DEF Hold
<1> HIDE DEF new
<1> QED BY <1>2, <1>3, <1>4, <1>5, <1>6, <1>7, <1>8, MoveStep DEF RunOK, Pinned, Live

LEMMA ConsumeStep == ASSUME IInv, NEW s \in Session, Consume(s) PROVE Effect(s)
<1> DEFINE new == [run[s] EXCEPT !.pc = "begin"]
<1>1. run[s] \in Run /\ "begin" \in PC /\ clock \in Clock /\ config \in Cfg /\ draft.rev \in Rev
  BY Here DEF PC
<1>2. new \in Run BY <1>1, RunMoved
<1>3. /\ new.pc = "begin" /\ new.rev = run[s].rev /\ new.content = run[s].content
  BY <1>1 DEF Run
<1>4. run' = [run EXCEPT ![s] = new] /\ UNCHANGED <<out, copy, env, faults>>
  BY Here DEF Consume, Goto
<1>5. run[s].pc = "consume" /\ held' = held BY DEF Consume, At
<1>6. RunOK(s) BY Here
<1>7. LedgerStep BY DEF Consume, LedgerStep, ledger
<1> HIDE DEF new
<1> QED BY <1>2, <1>3, <1>4, <1>5, <1>6, <1>7, MoveStep DEF RunOK, Pinned, Live

LEMMA BeginStep == ASSUME IInv, NEW s \in Session, Begin(s) PROVE Effect(s)
<1> DEFINE new == [run[s] EXCEPT !.pc = "entry"]
<1>1. run[s] \in Run /\ "entry" \in PC /\ clock \in Clock /\ config \in Cfg /\ draft.rev \in Rev
  BY Here DEF PC
<1>2. new \in Run BY <1>1, RunMoved
<1>3. /\ new.pc = "entry" /\ new.rev = run[s].rev /\ new.content = run[s].content
  BY <1>1 DEF Run
<1>4. run' = [run EXCEPT ![s] = new] /\ UNCHANGED <<out, copy, env, faults>>
  BY Here DEF Begin, Goto
<1>5. run[s].pc = "begin" /\ held' = held BY DEF Begin, At
<1>6. RunOK(s) BY Here
<1>7. LedgerStep BY <1>5, <1>6 DEF Begin, LedgerStep, RunOK, Pinned
<1> HIDE DEF new
<1> QED BY <1>2, <1>3, <1>4, <1>5, <1>6, <1>7, MoveStep DEF RunOK, Pinned, Live

LEMMA EntryPassesStep == ASSUME IInv, NEW s \in Session, EntryPasses(s) PROVE Effect(s)
<1> DEFINE new == [run[s] EXCEPT !.pc = "connect", !.checked = [at |-> clock, cfg |-> config]]
<1>1. run[s] \in Run /\ "connect" \in PC /\ clock \in Clock /\ config \in Cfg /\ draft.rev \in Rev
  BY Here DEF PC
<1>2. new \in Run BY <1>1, RunMoved
<1>3. /\ new.pc = "connect" /\ new.rev = run[s].rev /\ new.content = run[s].content
      /\ new.start = run[s].start /\ new.cfg = run[s].cfg
      /\ new.checked.at = clock /\ new.checked.cfg = config
  BY <1>1 DEF Run
<1>4. run' = [run EXCEPT ![s] = new] /\ UNCHANGED <<out, copy, env, faults>>
  BY Here DEF EntryPasses, Goto
<1>5. run[s].pc = "entry" /\ held' = held BY DEF EntryPasses, At
<1>6. RunOK(s) BY Here
<1>7. LedgerStep BY DEF EntryPasses, LedgerStep, ledger
<1>8. config = run[s].cfg /\ run[s].start <= clock /\ clock < run[s].start + Ttl
  BY DEF EntryPasses, StillApproved, InTime
<1> HIDE DEF new
<1> QED BY <1>2, <1>3, <1>4, <1>5, <1>6, <1>7, <1>8, MoveStep DEF RunOK, Pinned, Live

LEMMA BeforeDataPassesStep == ASSUME IInv, NEW s \in Session, BeforeDataPasses(s) PROVE Effect(s)
<1> DEFINE new == [run[s] EXCEPT !.pc = "data", !.checked = [at |-> clock, cfg |-> config]]
<1>1. run[s] \in Run /\ "data" \in PC /\ clock \in Clock /\ config \in Cfg /\ draft.rev \in Rev
  BY Here DEF PC
<1>2. new \in Run BY <1>1, RunMoved
<1>3. /\ new.pc = "data" /\ new.rev = run[s].rev /\ new.content = run[s].content
      /\ new.start = run[s].start /\ new.cfg = run[s].cfg
      /\ new.checked.at = clock /\ new.checked.cfg = config
  BY <1>1 DEF Run
<1>4. run' = [run EXCEPT ![s] = new] /\ UNCHANGED <<out, copy, env, faults>>
  BY Here DEF BeforeDataPasses, Goto
<1>5. run[s].pc = "connect" /\ held' = held BY DEF BeforeDataPasses, At
<1>6. RunOK(s) BY Here
<1>7. LedgerStep BY DEF BeforeDataPasses, LedgerStep, ledger
<1>8. config = run[s].cfg /\ run[s].start <= clock /\ clock < run[s].start + Ttl
  BY DEF BeforeDataPasses, StillApproved, InTime
<1> HIDE DEF new
<1> QED BY <1>2, <1>3, <1>4, <1>5, <1>6, <1>7, <1>8, MoveStep DEF RunOK, Pinned, Live

LEMMA DataStep == ASSUME IInv, NEW s \in Session, Data(s) PROVE Effect(s)
<1> DEFINE new == [run[s] EXCEPT !.pc = "reply", !.sent = TRUE]
<1>1. run[s] \in Run /\ "reply" \in PC /\ clock \in Clock /\ config \in Cfg /\ draft.rev \in Rev
  BY Here DEF PC
<1>2. new \in Run BY <1>1, RunMoved
<1>3. /\ new.pc = "reply" /\ new.rev = run[s].rev /\ new.content = run[s].content
      /\ new.start = run[s].start /\ new.cfg = run[s].cfg /\ new.checked = run[s].checked
  BY <1>1 DEF Run
<1>4. run' = [run EXCEPT ![s] = new] /\ UNCHANGED <<out, copy, env, faults>>
  BY Here DEF Data, Goto
<1>5. run[s].pc = "data" /\ held' = held BY DEF Data, At
<1>6. RunOK(s) BY Here
<1>7. LedgerStep BY <1>5, <1>6 DEF Data, LedgerStep, RunOK
<1> HIDE DEF new
<1> QED BY <1>2, <1>3, <1>4, <1>5, <1>6, <1>7, MoveStep DEF RunOK, Pinned, Live

LEMMA StartStep == ASSUME Fresh, IInv, NEW s \in Session, Start(s) PROVE Effect(s)
<1> DEFINE new == [Idle EXCEPT !.pc = "lookup", !.cfg = config, !.rev = draft.rev]
           receipt == [outcome |-> None, rev |-> None]
<1>1. /\ run' = [run EXCEPT ![s] = new] /\ out' = [out EXCEPT ![s] = receipt]
      /\ UNCHANGED <<env, held, ledger, copy, faults>>
  BY DEF Start
<1>2. draft.rev \in Rev /\ config \in Cfg BY Here
<1>3. new \in Run BY <1>2 DEF Idle, Run, PC
<1>4. new.pc = "lookup" /\ new.rev = draft.rev BY DEF Idle
<1>5. receipt \in [outcome: Outcome \cup {None}, rev: Rev \cup {None}] OBVIOUS
<1>6. receipt.outcome \notin {"accepted", "definite-failure"} BY DEF Fresh, Outcome
<1> HIDE DEF new, receipt
<1>7. SessionTypes BY DEF IInv, TypeOK, SessionTypes
<1>8. run'[s] = new /\ out'[s] = receipt BY <1>1, <1>7 DEF SessionTypes
<1>9. SessionTypes' BY <1>1, <1>3, <1>5, <1>7 DEF SessionTypes
<1>10. Own(s) BY <1>1, <1>7 DEF Own, SessionTypes
<1>11. RunOK(s)' BY <1>2, <1>4, <1>8 DEF RunOK, Pinned, Live
<1>12. ReceiptOK(s)' BY <1>6, <1>8 DEF ReceiptOK
<1>13. LedgerStep /\ CopyChanged(s) BY <1>1 DEF LedgerStep, CopyChanged
<1>14. LedgerTypes /\ \A r \in Rev : RowOK(r) BY DEF IInv, TypeOK, LedgerTypes
<1>15. Advanced BY <1>13, <1>14, LedgerAdvances
<1>16. faults' \in 0 .. MaxFaults BY <1>1, Here
<1> QED BY <1>1, <1>9, <1>10, <1>11, <1>12, <1>13, <1>15, <1>16, CopiesKeep DEF Effect, env

LEMMA StopsBeforeDataStep ==
  ASSUME IInv, NEW s \in Session, StopsBeforeData(s) PROVE Effect(s)
<1>1. run[s] \in Run /\ RunOK(s) /\ run[s].pc \in {"entry", "connect"} BY Here DEF StopsBeforeData
<1>2. LedgerStep /\ held' = held /\ UNCHANGED <<out, copy, env, faults>>
  BY DEF StopsBeforeData, LedgerStep
<1>3. PICK t \in Ledger!Terminal, b \in BOOLEAN :
        run' = [run EXCEPT ![s] = [run[s] EXCEPT !.pc = "finish", !.result = t, !.raised = b]]
  <2>1. {"definite-failure", "delivery-unknown"} \subseteq Ledger!Terminal BY DEF Ledger!Terminal
  <2>2. CASE run' = [run EXCEPT ![s].pc = "finish", ![s].result = "definite-failure"]
    <3>1. run[s].raised \in BOOLEAN BY <1>1 DEF Run
    <3>2. [run[s] EXCEPT !.pc = "finish", !.result = "definite-failure", !.raised = run[s].raised]
            = [run[s] EXCEPT !.pc = "finish", !.result = "definite-failure"]
      BY <1>1 DEF Run
    <3>3. run' = [run EXCEPT ![s] = [run[s] EXCEPT !.pc = "finish", !.result = "definite-failure"]]
      BY <2>2, Here
    <3> QED BY <2>1, <3>1, <3>2, <3>3
  <2>3. CASE run' = [run EXCEPT ![s].pc = "finish", ![s].result = "delivery-unknown",
                                ![s].raised = TRUE]
    BY <2>1, <2>3, Here
  <2> QED BY <2>2, <2>3 DEF StopsBeforeData
<1> DEFINE new == [run[s] EXCEPT !.pc = "finish", !.result = t, !.raised = b]
<1>4. "finish" \in PC BY DEF PC
<1>5. new \in Run BY <1>1, <1>4, RunMoved
<1>6. /\ new.pc = "finish" /\ new.rev = run[s].rev /\ new.content = run[s].content
      /\ new.result \in Ledger!Terminal
  BY <1>1 DEF Run
<1>7. run' = [run EXCEPT ![s] = new] BY <1>3
<1> HIDE DEF new
<1> QED BY <1>1, <1>2, <1>5, <1>6, <1>7, MoveStep DEF RunOK, Pinned, Live

LEMMA ReplyStep == ASSUME IInv, NEW s \in Session, Reply(s) PROVE Effect(s)
<1>1. run[s] \in Run /\ RunOK(s) /\ run[s].pc = "reply" BY Here DEF Reply, At
<1>2. LedgerStep /\ held' = held /\ UNCHANGED <<out, copy, env, faults>> BY DEF Reply, LedgerStep
<1>3. PICK t \in Ledger!Terminal :
        run' = [run EXCEPT ![s] = [run[s] EXCEPT !.pc = "finish", !.result = t]]
  BY Here DEF Reply, Ledger!Terminal
<1> DEFINE new == [run[s] EXCEPT !.pc = "finish", !.result = t]
<1>4. "finish" \in PC BY DEF PC
<1>5. new \in Run BY <1>1, <1>4, RunMoved
<1>6. /\ new.pc = "finish" /\ new.rev = run[s].rev /\ new.content = run[s].content
      /\ new.result \in Ledger!Terminal
  BY <1>1 DEF Run
<1>7. run' = [run EXCEPT ![s] = new] BY <1>3
<1> HIDE DEF new
<1> QED BY <1>1, <1>2, <1>5, <1>6, <1>7, MoveStep DEF RunOK, Pinned, Live

\* What a decision says of the server.
LEMMA Decided ==
  ASSUME IInv, NEW r \in Rev, NEW t \in Ledger!Terminal, Ledger!Decide(r, t)
  PROVE  /\ status'[r] = t /\ LedgerStep
         /\ t = "accepted" => accepted'[r]
         /\ t = "definite-failure" => ~accepted'[r]
  BY DEF IInv, TypeOK, Ledger!Decide, LedgerStep

LEMMA FinishStep == ASSUME Fresh, IInv, NEW s \in Session, Finish(s) PROVE Effect(s)
<1>1. /\ run[s] \in Run /\ run[s].pc = "finish" /\ run[s].rev \in Rev
      /\ run[s].result \in Ledger!Terminal /\ RunOK(s)
  BY Here DEF Finish, At, RunOK
<1>2. Ledger!Decide(run[s].rev, run[s].result) /\ UNCHANGED <<env, copy, faults>> BY DEF Finish
<1>3. /\ status'[run[s].rev] = run[s].result /\ LedgerStep
      /\ run[s].result = "accepted" => accepted'[run[s].rev]
      /\ run[s].result = "definite-failure" => ~accepted'[run[s].rev]
  BY <1>1, <1>2, Decided
<1>4. CASE run[s].result = "accepted" /\ Goto(s, "copy") /\ UNCHANGED <<held, out>>
  <2> DEFINE new == [run[s] EXCEPT !.pc = "copy"]
  <2>1. "copy" \in PC BY DEF PC
  <2>2. new \in Run BY <1>1, <2>1, RunMoved
  <2>3. new.pc = "copy" /\ new.rev = run[s].rev /\ new.content = run[s].content BY <1>1 DEF Run
  <2>4. run' = [run EXCEPT ![s] = new] BY <1>4, Here DEF Goto
  <2> HIDE DEF new
  <2> QED BY <1>1, <1>2, <1>3, <1>4, <2>2, <2>3, <2>4, MoveStep DEF RunOK, Pinned, Live
<1>5. ASSUME NEW o \in {"outcome-unknown", run[s].result}, End(s, o) PROVE Effect(s)
  <2>1. o \in Outcome BY <1>1 DEF Outcome, Ledger!Terminal
  <2>2. faults' \in 0 .. MaxFaults /\ CopyChanged(s) /\ UNCHANGED env
    BY <1>2, Here DEF CopyChanged
  <2>3. /\ o = "accepted" => accepted'[run[s].rev]
        /\ o = "definite-failure" =>
             ~accepted'[run[s].rev] /\ status'[run[s].rev] \in Ledger!Terminal
    BY <1>1, <1>3
  <2> QED BY <1>1, <1>3, <1>5, <2>1, <2>2, <2>3, EndStep
<1> QED BY <1>4, <1>5 DEF Finish

LEMMA FinishRaisesStep ==
  ASSUME Fresh, IInv, NEW s \in Session, FinishRaises(s) PROVE Effect(s)
<1>1. /\ run[s].pc = "finish" /\ run[s].rev \in Rev /\ run[s].result \in Ledger!Terminal
  BY Here DEF FinishRaises, At, RunOK
<1>2. LedgerStep
  <2>1. CASE UNCHANGED ledger BY <2>1 DEF LedgerStep
  <2>2. CASE Ledger!Decide(run[s].rev, run[s].result) BY <1>1, <2>2, Decided
  <2> QED BY <2>1, <2>2 DEF FinishRaises
<1>3. End(s, "outcome-unknown") /\ UNCHANGED env /\ CopyChanged(s)
  BY DEF FinishRaises, CopyChanged
<1>4. faults' \in 0 .. MaxFaults BY Here DEF FinishRaises, OneFault
<1>5. "outcome-unknown" \in Outcome BY DEF Outcome
<1> QED BY <1>1, <1>2, <1>3, <1>4, <1>5, EndStep

LEMMA LookupFindsStep ==
  ASSUME Fresh, IInv, NEW s \in Session, LookupFinds(s) PROVE Effect(s)
<1> DEFINE o == Recovered[run[s].rev]
<1>1. run[s].pc = "lookup" /\ run[s].rev \in Rev /\ status' = Recovered /\ o # "absent"
  BY Here DEF LookupFinds, At, RunOK
<1>2. LedgerTypes /\ \A r \in Rev : RowOK(r) BY DEF IInv, TypeOK, LedgerTypes
<1>3. o \in Outcome
  BY <1>1, <1>2, RecoveredRows DEF Outcome, Ledger!Terminal
<1>4. LedgerStep /\ UNCHANGED env /\ faults' \in 0 .. MaxFaults /\ CopyChanged(s)
  BY Here DEF LookupFinds, LedgerStep, CopyChanged
<1>5. Advanced BY <1>2, <1>4, LedgerAdvances
<1>6. \A r \in Rev : /\ status'[r] = "accepted" => accepted'[r]
                     /\ status'[r] = "definite-failure" => ~accepted'[r]
  BY <1>5 DEF Advanced, RowOK
<1>7. End(s, o) BY DEF LookupFinds
<1>8. status'[run[s].rev] = o BY <1>1
<1> HIDE DEF o
<1>9. "definite-failure" \in Ledger!Terminal BY DEF Ledger!Terminal
<1>10. /\ o = "accepted" => accepted'[run[s].rev]
       /\ o = "definite-failure" =>
            ~accepted'[run[s].rev] /\ status'[run[s].rev] \in Ledger!Terminal
  BY <1>1, <1>6, <1>8, <1>9
<1> QED BY <1>1, <1>3, <1>4, <1>7, <1>10, EndStep

LEMMA DenyStep == ASSUME Fresh, IInv, NEW s \in Session, Deny(s) PROVE Effect(s)
<1>1. /\ run[s].pc # "idle" /\ End(s, "denied") /\ UNCHANGED env /\ faults' \in 0 .. MaxFaults
      /\ CopyChanged(s)
  BY Here DEF Deny, CopyChanged
<1>2. LedgerStep BY DEF Deny, LedgerStep, ledger
<1>3. "denied" \in Outcome BY DEF Outcome
<1> QED BY <1>1, <1>2, <1>3, EndStep

LEMMA BeginRaisesStep ==
  ASSUME Fresh, IInv, NEW s \in Session, BeginRaises(s) PROVE Effect(s)
<1>1. /\ run[s].pc = "begin" /\ End(s, "outcome-unknown") /\ UNCHANGED env
      /\ faults' \in 0 .. MaxFaults /\ CopyChanged(s)
  BY Here DEF BeginRaises, At, CopyChanged
<1>2. run[s].rev \in Rev /\ run[s].content \in Rev BY <1>1, Here DEF RunOK, Pinned
<1>3. LedgerStep BY <1>2 DEF BeginRaises, LedgerStep
<1>4. "outcome-unknown" \in Outcome BY DEF Outcome
<1> QED BY <1>1, <1>3, <1>4, EndStep

LEMMA SaveCopyStep == ASSUME Fresh, IInv, NEW s \in Session, SaveCopy(s) PROVE Effect(s)
<1>1. /\ run[s].pc = "copy" /\ End(s, "accepted") /\ UNCHANGED <<env, ledger>>
      /\ faults' \in 0 .. MaxFaults
  BY Here DEF SaveCopy, At
<1>2. LedgerStep /\ "accepted" \in Outcome BY <1>1 DEF LedgerStep, Outcome
<1>3. run[s].rev \in Rev /\ status[run[s].rev] = "accepted" BY <1>1, Here DEF RunOK
<1>4. accepted'[run[s].rev] BY <1>1, <1>3 DEF IInv, RowOK, ledger
<1>5. CopyChanged(s)
  <2>1. PICK c \in {"none", "partial", "saved"} :
          copy' = [copy EXCEPT ![run[s].rev] = IF @ = "none" THEN c ELSE @]
    BY DEF SaveCopy
  <2>2. copy[run[s].rev] \in {"none", "partial", "saved"} BY <1>3 DEF IInv, TypeOK
  <2> QED BY <1>1, <1>3, <2>1, <2>2 DEF CopyChanged, IInv, TypeOK
<1> QED BY <1>1, <1>2, <1>4, <1>5, EndStep

LEMMA CrashStep == ASSUME Fresh, IInv, NEW s \in Session, Crash(s) PROVE Effect(s)
<1>1. /\ run' = [run EXCEPT ![s] = Idle] /\ held' = IF held = s THEN None ELSE held
      /\ UNCHANGED <<env, ledger, out>>
  BY DEF Crash
<1>2. SessionTypes BY DEF IInv, TypeOK, SessionTypes
<1>3. SessionTypes' BY <1>1, <1>2, IdleRun DEF SessionTypes
<1>4. Own(s) /\ run'[s] = Idle BY <1>1, <1>2 DEF Own, SessionTypes
<1>5. RunOK(s)' BY <1>4 DEF RunOK, Idle, Pinned, Live
<1>6. LedgerStep /\ CopyChanged(s) BY <1>1 DEF Crash, At, LedgerStep, CopyChanged
<1>7. LedgerTypes /\ \A r \in Rev : RowOK(r) BY DEF IInv, TypeOK, LedgerTypes
<1>8. Advanced BY <1>6, <1>7, LedgerAdvances
<1>9. ReceiptOK(s)' BY <1>1, <1>8, ReceiptKeeps
<1>10. faults' \in 0 .. MaxFaults BY Here DEF Crash, OneFault
<1> QED BY <1>1, <1>3, <1>4, <1>5, <1>6, <1>8, <1>9, <1>10, CopiesKeep DEF Effect, env

LEMMA SessionSteps ==
  ASSUME Fresh, IInv, NEW s \in Session, Start(s) \/ Step(s) \/ Crash(s)
  PROVE  Effect(s)
<1>1. CASE Start(s) \/ Crash(s) BY <1>1, StartStep, CrashStep
<1>2. CASE Step(s)
  BY <1>2, LookupFindsStep, LookupMissesStep, ApproveStep, HoldStep, ConsumeStep, DenyStep,
     BeginStep, BeginRaisesStep, EntryPassesStep, BeforeDataPassesStep, StopsBeforeDataStep,
     DataStep, ReplyStep, FinishStep, FinishRaisesStep, SaveCopyStep DEF Step
<1> QED BY <1>1, <1>2

-----------------------------------------------------------------------------
(* The invariant *)

LEMMA IInvInit == ASSUME Fresh, Init PROVE IInv
<1>1. TypeOK
  <2>2. /\ draft \in [rev: Rev, active: BOOLEAN] /\ clock \in Clock /\ faults \in 0 .. MaxFaults
    BY DEF Init, Rev, Clock
  <2>3. /\ status \in [Rev -> {"absent", "dispatching"} \cup Ledger!Terminal]
        /\ bound \in [Rev -> Rev \cup {None}] /\ attempts \in [Rev -> Nat]
        /\ accepted \in [Rev -> BOOLEAN]
    BY DEF Init, Ledger!Init
  <2> QED BY <2>2, <2>3, IdleRun DEF Init, TypeOK
<1>2. \A s \in Session : RunOK(s) BY DEF Init, RunOK, Idle, Pinned, Live
<1>3. \A s \in Session : ReceiptOK(s) BY DEF Init, ReceiptOK, Fresh, Outcome
<1>4. \A r \in Rev : RowOK(r) /\ CopyOK(r) BY DEF Init, Ledger!Init, RowOK, CopyOK
<1> QED BY <1>1, <1>2, <1>3, <1>4 DEF IInv

\* What an environment's step leaves alone.
LEMMA RestKept ==
  ASSUME IInv, UNCHANGED <<held, run, ledger, copy, out, faults>>,
         draft' = draft \/ (held = None /\ draft' \in [rev: Rev, active: BOOLEAN]),
         draft' \in [rev: Rev, active: BOOLEAN], config' \in Cfg, clock' \in Clock
  PROVE  IInv'
<1>1. TypeOK' BY DEF IInv, TypeOK, ledger
<1>2. ASSUME NEW s \in Session PROVE RunOK(s)' /\ ReceiptOK(s)'
  <2>1. RunOK(s) /\ ReceiptOK(s) BY DEF IInv
  <2>2. run[s].pc \in Pinned => held = s /\ draft' = draft BY <2>1 DEF RunOK
  <2>3. RunOK(s)' BY <2>1, <2>2 DEF RunOK, ledger
  <2>4. ReceiptOK(s)' BY <2>1 DEF ReceiptOK, ledger
  <2> QED BY <2>3, <2>4
<1>3. ASSUME NEW r \in Rev PROVE RowOK(r)' /\ CopyOK(r)' BY DEF IInv, RowOK, CopyOK, ledger
<1> QED BY <1>1, <1>2, <1>3 DEF IInv

LEMMA IInvNext == ASSUME Fresh, IInv, [Next]_vars PROVE IInv'
<1>1. ASSUME NEW s \in Session, Start(s) \/ Step(s) \/ Crash(s) PROVE IInv'
  <2>1. Effect(s) BY <1>1, SessionSteps
  <2>2. LedgerTypes /\ \A r \in Rev : RowOK(r) BY DEF IInv, TypeOK, LedgerTypes
  <2>3. Advanced BY <2>1, <2>2, LedgerAdvances DEF Effect
  <2>4. TypeOK' BY <2>1, <2>3 DEF Effect, Advanced, LedgerTypes, SessionTypes, IInv, TypeOK
  <2>5. ASSUME NEW q \in Session PROVE RunOK(q)' /\ ReceiptOK(q)'
    BY <2>1, <2>3, OthersKeep DEF Effect
  <2> QED BY <2>1, <2>3, <2>4, <2>5 DEF IInv, Effect, Advanced
<1>2. CASE Edit
  <2>1. draft.rev \in Rev /\ draft.rev < MaxRev BY <1>2, Here DEF Edit, IInv, TypeOK
  <2>2. draft.rev + 1 \in Rev BY <2>1 DEF Rev
  <2>3. draft' \in [rev: Rev, active: BOOLEAN] BY <1>2, <2>2 DEF Edit
  <2> QED BY <1>2, <2>3, RestKept DEF Edit, IInv, TypeOK
<1>3. CASE Reconfigure BY <1>3, RestKept DEF Reconfigure, IInv, TypeOK
<1>4. CASE Tick BY <1>4, RestKept DEF Tick, IInv, TypeOK, Clock
<1>5. CASE UNCHANGED vars BY <1>5, RestKept DEF vars, env, IInv, TypeOK
<1> QED BY <1>1, <1>2, <1>3, <1>4, <1>5 DEF Next

\* The invariant says what ReviewedInv says.
LEMMA Safety == ASSUME Fresh, IInv PROVE ReviewedInv
<1>1. SentAsReviewed
  BY DEF IInv, RunOK, SentAsReviewed, Pinned, Live
<1>2. ReceiptsTrue BY DEF IInv, ReceiptOK, ReceiptsTrue
<1>3. CopyAfterRecord BY DEF IInv, CopyOK, CopyAfterRecord
<1> QED BY <1>1, <1>2, <1>3 DEF ReviewedInv, IInv

-----------------------------------------------------------------------------
(* The theorems *)

\* For any number of sessions, settings and revisions, whatever is edited or
\* reconfigured behind an open prompt: what goes out in DATA is the revision that
\* was reviewed, pinned and in time; receipts are true; copies are of accepted
\* messages only.
THEOREM ReviewedInvariant == ASSUME Fresh PROVE Spec => []ReviewedInv
<1>1. Init => IInv BY IInvInit
<1>2. IInv /\ [Next]_vars => IInv' BY IInvNext
<1>3. IInv => ReviewedInv BY Safety
<1> QED BY <1>1, <1>2, <1>3, PTL DEF Spec

\* Nobody is asked to approve a revision that was transmitted before.
THEOREM NeverAsked == ASSUME Fresh PROVE Spec => NeverAskedAgain
<1> DEFINE Asks ==
      \A s \in Session : run[s].pc = "lookup" /\ run'[s].pc = "prompt" => attempts[run[s].rev] = 0
<1>1. Init => IInv BY IInvInit
<1>2. IInv /\ [Next]_vars => IInv' BY IInvNext
<1>3. IInv /\ [Next]_vars => [Asks]_vars
  <2> SUFFICES ASSUME IInv, [Next]_vars, vars' # vars, NEW s \in Session,
                      run[s].pc = "lookup", run'[s].pc = "prompt"
               PROVE  attempts[run[s].rev] = 0
    OBVIOUS
  <2>1. PICK q \in Session : Start(q) \/ Step(q) \/ Crash(q)
    BY DEF Next, Edit, Reconfigure, Tick
  <2>2. q = s BY <2>1, SessionSteps DEF Effect, Own
  <2>3. LookupMisses(s)
    <3>1. run \in [Session -> Run] /\ Idle.pc = "idle" BY Here DEF Idle
    <3>2. ~Start(s) /\ ~Crash(s) BY <3>1 DEF Start, Crash, At
    <3>3. \A o : ~End(s, o) BY <3>1 DEF End
    <3> QED BY <2>1, <2>2, <3>2, <3>3 DEF Step, At, LookupFinds, Approve, Hold, Consume, Deny,
         Begin, BeginRaises, EntryPasses, BeforeDataPasses, StopsBeforeData, Data, Reply,
         Finish, FinishRaises, SaveCopy
  <2>4. run[s].rev \in Rev /\ LedgerTypes
    BY Here DEF RunOK, IInv, TypeOK, LedgerTypes
  <2>5. status[run[s].rev] = "absent" BY <2>3, <2>4, RecoveredRows DEF LookupMisses
  <2> QED BY <2>4, <2>5 DEF IInv, RowOK
<1> QED BY <1>1, <1>2, <1>3, PTL DEF Spec, NeverAskedAgain

=============================================================================
