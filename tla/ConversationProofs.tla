------------------------- MODULE ConversationProofs -------------------------
(***************************************************************************)
(* Proofs about conversations.                                               *)
(*                                                                         *)
(* What the loop of build_thread_context computes, for pages of any length     *)
(* and any identifiers: exactly the seed's conversation.  The induction is on   *)
(* the loop's steps: what is selected stays inside every closed set, and a      *)
(* pass that has not added anything has found nothing linked so far, so a whole *)
(* pass of that kind leaves a closed set.                                       *)
(*                                                                         *)
(* What a reply is made of, for headers of any length and any numbers of        *)
(* callers, operations and messages.  Recipients and identifiers are taken from *)
(* places of a sequence, so that what is kept, and in which order, follows from  *)
(* which places are taken.                                                     *)
(***************************************************************************)
EXTENDS Conversations, FiniteSetTheorems, SequenceTheorems, WellFoundedInduction, TLAPS

\* The loop's own variables, and the phase.
Ranged ==
  /\ pc \in {"grow", "trim", "hydrate", "done", "failed"}
  /\ at \in 1 .. Slots + 1
  /\ changed \in BOOLEAN /\ truncated \in BOOLEAN /\ complete \in BOOLEAN
  /\ selected \in SUBSET Msg

\* Everything selected belongs to the conversation, and known is what it names.
Inside ==
  /\ Seed \in selected
  /\ selected \subseteq Conversation
  /\ known = UNION {Identities(m) : m \in selected}

\* What a pass that has added nothing leaves behind.
Behind ==
  pc = "grow" /\ ~changed => \A n \in 1 .. at - 1 :
      n \notin selected => known \cap Identities(n) = {}

Whole == pc \in {"hydrate", "done"} /\ complete /\ ~truncated => answer = Conversation

Inv == Ranged /\ Inside /\ Behind /\ FindsConversation /\ Whole

\* A page that does not change keeps its conversation.
LEMMA SamePage ==
  ASSUME UNCHANGED page
  PROVE  /\ Conversation' = Conversation
         /\ \A m : Identities(m)' = Identities(m)
PROOF
<1>1. own' = own /\ refs' = refs
  BY DEF page
<1>2. \A m : Identities(m)' = Identities(m)
  BY <1>1 DEF Identities
<1>3. \A S : Closed(S)' <=> Closed(S)
  BY <1>1 DEF Closed, Identities, Msg, Seed
<1>4. Conversation' = Conversation
  BY <1>3 DEF Conversation, Msg
<1> QED
  BY <1>2, <1>4

\* A message that shares an identifier with the conversation belongs to it.
LEMMA LinkedBelongs ==
  ASSUME NEW m \in Conversation, NEW n \in Msg, Identities(m) \cap Identities(n) # {}
  PROVE  n \in Conversation
PROOF
<1> SUFFICES ASSUME NEW S \in SUBSET Msg, Closed(S)
             PROVE  n \in S
  BY DEF Conversation
<1>1. m \in S
  BY DEF Conversation
<1> QED
  BY <1>1 DEF Closed

LEMMA SeedBelongs == Seed \in Conversation
PROOF
<1>1. Seed \in Msg
  BY SlotsAssumption DEF Seed, Msg
<1> QED
  BY <1>1 DEF Conversation, Closed

LEMMA InitInv == Init => Inv
PROOF
<1> SUFFICES ASSUME Init
             PROVE  Inv
  OBVIOUS
<1>1. Ranged
  <2>1. 1 \in 1 .. Slots + 1 /\ Seed \in Msg
    BY SlotsAssumption DEF Msg, Seed
  <2>2. /\ pc = "grow" /\ at = 1 /\ changed = FALSE /\ truncated = FALSE
        /\ complete \in BOOLEAN /\ selected = {Seed}
    BY DEF Init
  <2> QED
    BY <2>1, <2>2 DEF Ranged
<1>2. Inside
  <2>1. selected = {Seed} /\ known = Identities(Seed)
    BY DEF Init
  <2>2. UNION {Identities(m) : m \in {Seed}} = Identities(Seed)
    OBVIOUS
  <2> QED
    BY <2>1, <2>2, SeedBelongs DEF Inside
<1>3. Behind
  BY DEF Init, Behind
<1>4. FindsConversation /\ Whole
  BY DEF Init, FindsConversation, Whole
<1> QED
  BY <1>1, <1>2, <1>3, <1>4 DEF Inv

LEMMA VisitInv ==
  ASSUME Inv, Visit
  PROVE  Inv'
PROOF
<1>0. /\ UNCHANGED page /\ pc = "grow" /\ pc' = pc /\ at \in Msg /\ at' = at + 1
      /\ UNCHANGED <<complete, truncated, answer>>
  BY DEF Visit
<1>1. Conversation' = Conversation /\ \A m : Identities(m)' = Identities(m)
  BY <1>0, SamePage
<1>2. at \in 1 .. Slots /\ at' \in 1 .. Slots + 1
  BY <1>0, SlotsAssumption DEF Msg
<1>3. FindsConversation' /\ Whole'
  BY <1>0 DEF FindsConversation, Whole
<1>4. CASE at \notin selected /\ known \cap Identities(at) # {} /\ Add(at)
  <2>1. selected' = selected \cup {at} /\ known' = known \cup Identities(at) /\ changed' = TRUE
    BY <1>4 DEF Add
  <2>2. PICK m \in selected : Identities(m) \cap Identities(at) # {}
    BY <1>4 DEF Inv, Inside
  <2>3. m \in Conversation
    BY <2>2 DEF Inv, Inside
  <2>4. at \in Conversation
    BY <2>2, <2>3, <1>0, LinkedBelongs
  <2>5. Ranged'
    BY <1>0, <1>2, <2>1 DEF Inv, Ranged
  <2>6. Inside'
    <3>1. Seed \in selected' /\ selected' \subseteq Conversation'
      BY <1>1, <2>1, <2>4 DEF Inv, Inside, Seed
    <3>2. UNION {Identities(k) : k \in selected \cup {at}}
          = (UNION {Identities(k) : k \in selected}) \cup Identities(at)
      OBVIOUS
    <3>3. {Identities(k)' : k \in selected'} = {Identities(k) : k \in selected \cup {at}}
      BY <1>1, <2>1
    <3>4. known' = UNION {Identities(k)' : k \in selected'}
      BY <2>1, <3>2, <3>3 DEF Inv, Inside
    <3> QED
      BY <3>1, <3>4 DEF Inside
  <2>7. Behind'
    BY <2>1 DEF Behind
  <2> QED
    BY <1>3, <2>5, <2>6, <2>7 DEF Inv
<1>5. CASE /\ at \in selected \/ known \cap Identities(at) = {}
           /\ UNCHANGED <<changed, known, selected>>
  <2>1. Ranged'
    BY <1>0, <1>2, <1>5 DEF Inv, Ranged
  <2>2. Inside'
    BY <1>1, <1>5 DEF Inv, Inside, Seed
  <2>3. Behind'
    <3> SUFFICES ASSUME ~changed, NEW n \in 1 .. at' - 1, n \notin selected
                 PROVE  known \cap Identities(n) = {}
      BY <1>1, <1>5 DEF Behind
    <3>1. CASE n = at
      BY <1>5, <3>1
    <3>2. CASE n # at
      <4>1. n \in 1 .. at - 1
        BY <1>0, <1>2, <3>2
      <4> QED
        BY <4>1, <1>0 DEF Inv, Behind
    <3> QED
      BY <3>1, <3>2
  <2> QED
    BY <1>3, <2>1, <2>2, <2>3 DEF Inv
<1> QED
  BY <1>4, <1>5 DEF Visit

\* A whole pass without an addition leaves a closed set.
LEMMA PassIsClosed ==
  ASSUME Inv, pc = "grow", ~changed, at = Slots + 1
  PROVE  selected = Conversation
PROOF
<1>1. Closed(selected)
  <2> SUFFICES ASSUME NEW m \in selected, NEW n \in Msg,
                      Identities(m) \cap Identities(n) # {}, n \notin selected
               PROVE  FALSE
    BY DEF Closed, Inv, Inside
  <2>1. n \in 1 .. at - 1
    BY SlotsAssumption DEF Msg
  <2>2. known \cap Identities(n) = {}
    BY <2>1 DEF Inv, Behind
  <2>3. Identities(m) \subseteq known
    BY DEF Inv, Inside
  <2> QED
    BY <2>2, <2>3
<1>2. Conversation \subseteq selected
  BY <1>1 DEF Conversation, Inv, Ranged
<1> QED
  BY <1>2 DEF Inv, Inside

LEMMA PassEndsInv ==
  ASSUME Inv, PassEnds
  PROVE  Inv'
PROOF
<1>0. /\ UNCHANGED page /\ pc = "grow" /\ at = Slots + 1
      /\ UNCHANGED <<complete, known, selected, truncated, answer>>
  BY DEF PassEnds
<1>1. Conversation' = Conversation /\ \A m : Identities(m)' = Identities(m)
  BY <1>0, SamePage
<1>2. Inside'
  BY <1>0, <1>1 DEF Inv, Inside, Seed
<1>3. CASE changed /\ at' = 1 /\ changed' = FALSE /\ UNCHANGED pc
  <2>1. Ranged'
    <3>1. 1 \in 1 .. Slots + 1
      BY SlotsAssumption
    <3> QED
      BY <1>0, <1>3, <3>1 DEF Inv, Ranged, Msg
  <2>2. Behind'
    BY <1>3 DEF Behind
  <2>3. FindsConversation' /\ Whole'
    BY <1>0, <1>3 DEF FindsConversation, Whole
  <2> QED
    BY <1>2, <2>1, <2>2, <2>3 DEF Inv
<1>4. CASE ~changed /\ pc' = "trim" /\ UNCHANGED <<at, changed>>
  <2>1. Ranged'
    BY <1>0, <1>4 DEF Inv, Ranged
  <2>2. selected = Conversation
    BY <1>0, <1>4, PassIsClosed
  <2>3. Behind' /\ FindsConversation' /\ Whole'
    BY <1>0, <1>1, <1>4, <2>2 DEF Behind, FindsConversation, Whole
  <2> QED
    BY <1>2, <2>1, <2>3 DEF Inv
<1> QED
  BY <1>3, <1>4 DEF PassEnds

LEMMA AloneInv ==
  ASSUME Inv, Alone
  PROVE  Inv'
PROOF
<1>0. /\ UNCHANGED page /\ UNCHANGED loop /\ UNCHANGED <<complete, truncated>>
      /\ Identities(Seed) = {} /\ answer' = {Seed} /\ pc' \in {"hydrate", "done"}
  BY DEF Alone, Deliver
<1>1. Conversation' = Conversation /\ \A m : Identities(m)' = Identities(m)
  BY <1>0, SamePage
<1>2. Conversation = {Seed}
  <2>1. {Seed} \in SUBSET Msg
    BY SlotsAssumption DEF Seed, Msg
  <2>2. Closed({Seed})
    BY <1>0 DEF Closed
  <2> QED
    BY <2>1, <2>2, SeedBelongs DEF Conversation
<1>3. Ranged' /\ Inside' /\ Behind'
  BY <1>0, <1>1 DEF Inv, Ranged, Inside, Behind, loop, Seed
<1>4. Identities(Seed)' = {}
  BY <1>0, <1>1 DEF Seed
<1>5. FindsConversation' /\ Whole'
  BY <1>0, <1>1, <1>2, <1>4 DEF FindsConversation, Whole
<1> QED
  BY <1>3, <1>5 DEF Inv

LEMMA TrimInv ==
  ASSUME Inv, Trim
  PROVE  Inv'
PROOF
<1>0. /\ UNCHANGED page /\ UNCHANGED loop /\ UNCHANGED complete /\ pc = "trim"
      /\ pc' \in {"hydrate", "done"} /\ answer' = Trimmed(selected, rank')
      /\ truncated' = (Cardinality(selected) > MaxMessages)
  BY DEF Trim, Deliver
<1>1. Conversation' = Conversation /\ \A m : Identities(m)' = Identities(m)
  BY <1>0, SamePage
<1>2. Ranged' /\ Inside' /\ Behind'
  BY <1>0, <1>1 DEF Inv, Ranged, Inside, Behind, loop, Seed
<1>3. FindsConversation'
  BY <1>0, <1>1 DEF Inv, FindsConversation, loop, Seed
<1>4. Whole'
  <2> SUFFICES ASSUME ~truncated'
               PROVE  answer' = Conversation
    BY <1>1 DEF Whole
  <2>1. Cardinality(selected) \in Nat
    <3>1. IsFiniteSet(1 .. Slots)
      BY SlotsAssumption, FS_Interval
    <3>2. IsFiniteSet(selected)
      BY <3>1, FS_Subset DEF Inv, Ranged, Msg
    <3> QED
      BY <3>2, FS_CardinalityType
  <2>2. Cardinality(selected) <= MaxMessages
    <3>1. ~(Cardinality(selected) > MaxMessages)
      BY <1>0
    <3> QED
      BY <2>1, <3>1, BoundsAssumption
  <2>3. answer' = selected
    BY <1>0, <2>2 DEF Trimmed
  <2>4. CASE Identities(Seed) # {}
    BY <1>0, <2>3, <2>4 DEF Inv, FindsConversation
  <2>5. CASE Identities(Seed) = {}
    <3>1. {Seed} \in SUBSET Msg /\ Closed({Seed})
      BY <2>5, SlotsAssumption DEF Closed, Seed, Msg
    <3> QED
      BY <2>3, <3>1 DEF Inv, Inside, Conversation
  <2> QED
    BY <2>4, <2>5
<1> QED
  BY <1>2, <1>3, <1>4 DEF Inv

LEMMA ReadInv ==
  ASSUME Inv, Read \/ Finish
  PROVE  Inv'
PROOF
<1>0. /\ UNCHANGED page /\ UNCHANGED loop /\ UNCHANGED truncated /\ pc = "hydrate"
      /\ pc' \in {"hydrate", "done", "failed"}
      /\ complete' \in BOOLEAN
      /\ complete' => complete /\ answer' = answer
  <2>1. complete \in BOOLEAN
    BY DEF Inv, Ranged
  <2>2. CASE Read
    <3>1. /\ UNCHANGED page /\ UNCHANGED loop /\ UNCHANGED truncated /\ pc = "hydrate"
          /\ \/ UNCHANGED <<answer, complete, pc>>
             \/ complete' = FALSE /\ UNCHANGED pc
             \/ pc' = "failed" /\ UNCHANGED <<answer, complete>>
      BY <2>2 DEF Read, Gone
    <3>2. CASE UNCHANGED <<answer, complete, pc>>
      BY <2>1, <3>1, <3>2
    <3>3. CASE complete' = FALSE /\ UNCHANGED pc
      BY <3>1, <3>3
    <3>4. CASE pc' = "failed" /\ UNCHANGED <<answer, complete>>
      BY <2>1, <3>1, <3>4
    <3> QED
      BY <3>1, <3>2, <3>3, <3>4
  <2>3. CASE Finish
    BY <2>1, <2>3 DEF Finish
  <2> QED
    BY <2>2, <2>3
<1>1. Conversation' = Conversation /\ \A m : Identities(m)' = Identities(m)
  BY <1>0, SamePage
<1>2. Ranged' /\ Inside' /\ Behind'
  BY <1>0, <1>1 DEF Inv, Ranged, Inside, Behind, loop, Seed
<1>3. FindsConversation'
  BY <1>0, <1>1 DEF Inv, FindsConversation, loop, Seed
<1>4. Whole'
  BY <1>0, <1>1 DEF Inv, Whole
<1> QED
  BY <1>2, <1>3, <1>4 DEF Inv

LEMMA StepInv == Inv /\ [Next]_vars => Inv'
PROOF
<1> SUFFICES ASSUME Inv, [Next]_vars
             PROVE  Inv'
  OBVIOUS
<1>1. CASE Visit
  BY <1>1, VisitInv
<1>2. CASE PassEnds
  BY <1>2, PassEndsInv
<1>3. CASE Alone
  BY <1>3, AloneInv
<1>4. CASE Trim
  BY <1>4, TrimInv
<1>5. CASE Read \/ Finish
  BY <1>5, ReadInv
<1>6. CASE UNCHANGED vars
  <2>1. UNCHANGED page /\ UNCHANGED loop /\ UNCHANGED <<pc, complete, truncated, answer>>
    BY <1>6 DEF vars, page, loop
  <2>2. Conversation' = Conversation /\ \A m : Identities(m)' = Identities(m)
    BY <2>1, SamePage
  <2> QED
    BY <2>1, <2>2 DEF Inv, Ranged, Inside, Behind, FindsConversation, Whole, loop, Seed
<1> QED
  BY <1>1, <1>2, <1>3, <1>4, <1>5, <1>6 DEF Next

THEOREM ThreadInvariant == Spec => []Inv
PROOF
  BY InitInv, StepInv, PTL DEF Spec

\* The loop of build_thread_context ends with the seed's conversation, however
\* long the page, whatever its order and however its identifiers are shared.
THEOREM LoopFindsConversation == Spec => []FindsConversation
PROOF
<1>1. Inv => FindsConversation
  BY DEF Inv
<1> QED
  BY <1>1, ThreadInvariant, PTL

\* get_thread_context calls a thread complete and untruncated only when every
\* message of the conversation on the page is in it.
THEOREM LossIsNeverSilent == Spec => []NoSilentLoss
PROOF
<1>1. Inv => NoSilentLoss
  BY DEF Inv, Whole, NoSilentLoss
<1> QED
  BY <1>1, ThreadInvariant, PTL
-----------------------------------------------------------------------------
(* The answer: what the cut leaves, and what the bodies cost. *)

\* A number that some member of a set has is the least for one of them.
LEMMA Least ==
  ASSUME NEW S, S # {}, NEW f \in [S -> Nat]
  PROVE  \E m \in S : \A n \in S : f[m] <= f[n]
PROOF
<1> DEFINE values == {f[m] : m \in S}
           less == OpToRel(<, Nat)
<1>1. IsWellFoundedOn(less, Nat)
  BY NatLessThanWellFounded
<1>2. values \subseteq Nat /\ values # {}
  OBVIOUS
<1>3. PICK x \in values : \A y \in values : ~ (<<y, x>> \in less)
  <2> HIDE DEF values, less
  <2> QED
    BY <1>1, <1>2, WFMin
<1>4. \A y \in values : ~ (y < x)
  BY <1>2, <1>3 DEF OpToRel
<1>5. PICK m \in S : x = f[m]
  OBVIOUS
<1>6. ASSUME NEW n \in S PROVE f[m] <= f[n]
  <2>1. f[n] \in Nat /\ f[m] \in Nat
    OBVIOUS
  <2>2. ~(f[n] < f[m])
    BY <1>4, <1>5
  <2> QED
    BY <2>1, <2>2
<1> QED
  BY <1>6

LEMMA MessagesFinite ==
  ASSUME NEW S \in SUBSET Msg
  PROVE  IsFiniteSet(S) /\ Cardinality(S) \in Nat
PROOF
<1>1. IsFiniteSet(Msg)
  BY SlotsAssumption, FS_Interval DEF Msg
<1>2. IsFiniteSet(S)
  BY <1>1, FS_Subset
<1> QED
  BY <1>2, FS_CardinalityType

\* The messages no older than m.
Since(S, r, m) == {n \in S : r[n] >= r[m]}

LEMMA RecentMeans ==
  ASSUME NEW S \in SUBSET Msg, NEW r \in Rank
  PROVE  /\ Recent(S, r) \in SUBSET S
         /\ \A m \in S : m \in Recent(S, r) <=> Cardinality(Since(S, r, m)) <= MaxMessages
         /\ \A m \in S : Since(S, r, m) \in SUBSET Msg
PROOF
  BY DEF Recent, Since

\* No more than MaxMessages are kept, the most recent ones.
LEMMA RecentBounded ==
  ASSUME NEW S \in SUBSET Msg, NEW r \in Rank
  PROVE  /\ Cardinality(Recent(S, r)) <= MaxMessages
         /\ \A m \in S \ Recent(S, r), n \in Recent(S, r) : r[m] < r[n]
PROOF
<1>1. /\ Recent(S, r) \in SUBSET S
      /\ \A m \in S : m \in Recent(S, r) <=> Cardinality(Since(S, r, m)) <= MaxMessages
      /\ \A m \in S : Since(S, r, m) \in SUBSET Msg
  BY RecentMeans
<1>2. \A m \in Msg : r[m] \in Nat
  BY SlotsAssumption DEF Rank, Msg
<1>3. Cardinality(Recent(S, r)) <= MaxMessages
  <2>1. CASE Recent(S, r) = {}
    BY <2>1, FS_EmptySet, BoundsAssumption
  <2>2. CASE Recent(S, r) # {}
    <3> DEFINE recent == Recent(S, r)
               of == [m \in recent |-> r[m]]
    <3>1. of \in [recent -> Nat]
      BY <1>1, <1>2
    <3>2. PICK m \in recent : \A n \in recent : of[m] <= of[n]
      <4> HIDE DEF recent, of
      <4>1. recent # {}
        BY <2>2 DEF recent
      <4> QED
        BY <3>1, <4>1, Least
    <3>3. recent \in SUBSET Since(S, r, m)
      <4>1. ASSUME NEW n \in recent PROVE n \in Since(S, r, m)
        <5>1. r[m] <= r[n] /\ n \in S /\ r[m] \in Nat /\ r[n] \in Nat
          BY <1>1, <1>2, <3>2
        <5> QED
          BY <5>1 DEF Since
      <4> QED
        BY <4>1
    <3>4. m \in S /\ Cardinality(Since(S, r, m)) <= MaxMessages
      BY <1>1
    <3>5. IsFiniteSet(Since(S, r, m)) /\ Cardinality(Since(S, r, m)) \in Nat
      BY <1>1, <3>4, MessagesFinite
    <3>6. Cardinality(recent) <= Cardinality(Since(S, r, m)) /\ Cardinality(recent) \in Nat
      <4> HIDE DEF recent
      <4>1. IsFiniteSet(recent) /\ Cardinality(recent) <= Cardinality(Since(S, r, m))
        BY <3>3, <3>5, FS_Subset
      <4> QED
        BY <4>1, FS_CardinalityType
    <3> QED
      BY <3>4, <3>5, <3>6, BoundsAssumption
  <2> QED
    BY <2>1, <2>2
<1>4. ASSUME NEW m \in S \ Recent(S, r), NEW n \in Recent(S, r)
      PROVE  r[m] < r[n]
  <2> SUFFICES ASSUME ~(r[m] < r[n])
               PROVE  FALSE
    OBVIOUS
  <2>1. m \in Msg /\ n \in S /\ r[m] \in Nat /\ r[n] \in Nat
    BY <1>1, <1>2
  <2>2. r[m] >= r[n]
    BY <2>1
  <2>3. Since(S, r, m) \in SUBSET Since(S, r, n)
    <3>1. \A k \in S : r[k] \in Nat
      BY <1>2
    <3>2. \A k \in S : r[k] >= r[m] => r[k] >= r[n]
      BY <2>1, <2>2, <3>1
    <3> QED
      BY <3>2 DEF Since
  <2>4. /\ IsFiniteSet(Since(S, r, n)) /\ Cardinality(Since(S, r, n)) \in Nat
        /\ Cardinality(Since(S, r, m)) \in Nat
    BY <1>1, <2>1, MessagesFinite
  <2>5. Cardinality(Since(S, r, m)) <= Cardinality(Since(S, r, n))
    BY <2>3, <2>4, FS_Subset
  <2>6. Cardinality(Since(S, r, n)) <= MaxMessages /\ ~(Cardinality(Since(S, r, m)) <= MaxMessages)
    BY <1>1
  <2> QED
    BY <2>4, <2>5, <2>6, BoundsAssumption
<1> QED
  BY <1>3, <1>4

LEMMA OldestIsOne ==
  ASSUME NEW S \in SUBSET Msg, NEW r \in Rank, S # {}
  PROVE  \E m \in S : Oldest(S, r) = {m} /\ \A n \in S \ {m} : r[m] < r[n]
PROOF
<1>1. \A m \in Msg : r[m] \in Nat
  BY SlotsAssumption DEF Rank, Msg
<1> DEFINE of == [m \in S |-> r[m]]
<1>2. of \in [S -> Nat]
  BY <1>1
<1>3. PICK m \in S : \A n \in S : of[m] <= of[n]
  <2> HIDE DEF of
  <2> QED
    BY <1>2, Least
<1>4. \A n \in S \ {m} : r[m] < r[n]
  <2>1. ASSUME NEW n \in S \ {m} PROVE r[m] < r[n]
    <3>1. r[m] <= r[n] /\ r[m] \in Nat /\ r[n] \in Nat
      BY <1>1, <1>3
    <3>2. r[m] # r[n]
      BY DEF Rank
    <3> QED
      BY <3>1, <3>2
  <2> QED
    BY <2>1
<1>5. \A n \in S : r[n] \in Nat
  BY <1>1
<1>6. \A n \in S : n \in Oldest(S, r) <=> n = m
  BY <1>4, <1>5 DEF Oldest
<1> QED
  BY <1>4, <1>6 DEF Oldest

\* The cut keeps the seed and the bound, and what it drops is older than what it
\* keeps beside the seed.
LEMMA CutKeeps ==
  ASSUME NEW S \in SUBSET Msg, Seed \in S, NEW r \in Rank
  PROVE  /\ Seed \in Trimmed(S, r) /\ Trimmed(S, r) \in SUBSET S
         /\ Cardinality(Trimmed(S, r)) <= MaxMessages
         /\ \A m \in S \ Trimmed(S, r), n \in Trimmed(S, r) \ {Seed} : r[m] < r[n]
PROOF
<1> DEFINE recent == Recent(S, r)
<1>0. recent \in SUBSET S
  BY RecentMeans
<1>1. /\ Cardinality(recent) <= MaxMessages
      /\ \A m \in S \ recent, n \in recent : r[m] < r[n]
  BY RecentBounded
<1>2. Cardinality(S) \in Nat /\ IsFiniteSet(recent) /\ Cardinality(recent) \in Nat
  <2> HIDE DEF recent
  <2> QED
    BY <1>0, MessagesFinite
<1>3. CASE Cardinality(S) <= MaxMessages
  <2>1. Trimmed(S, r) = S
    BY <1>3 DEF Trimmed
  <2> QED
    BY <1>3, <2>1
<1>4. CASE ~(Cardinality(S) <= MaxMessages) /\ Seed \in recent
  <2>1. Trimmed(S, r) = recent
    BY <1>4 DEF Trimmed
  <2> HIDE DEF recent
  <2> QED
    BY <1>0, <1>1, <1>4, <2>1
<1>5. CASE ~(Cardinality(S) <= MaxMessages) /\ Seed \notin recent
  <2>1. Trimmed(S, r) = (recent \ Oldest(recent, r)) \cup {Seed}
    BY <1>5 DEF Trimmed
  <2>2. CASE recent = {}
    <3>1. Trimmed(S, r) = {Seed}
      BY <2>1, <2>2
    <3>2. Cardinality({Seed}) = 1
      BY FS_Singleton
    <3> QED
      BY <3>1, <3>2, BoundsAssumption
  <2>3. CASE recent # {}
    <3> HIDE DEF recent
    <3>1. PICK m \in recent : Oldest(recent, r) = {m} /\ \A n \in recent \ {m} : r[m] < r[n]
      BY <1>0, <2>3, OldestIsOne
    <3>2. Trimmed(S, r) = (recent \ {m}) \cup {Seed}
      BY <2>1, <3>1
    <3>3. /\ IsFiniteSet(recent \ {m})
          /\ Cardinality(recent \ {m}) = Cardinality(recent) - 1
      BY <1>2, FS_RemoveElement
    <3>4. Cardinality((recent \ {m}) \cup {Seed}) = Cardinality(recent \ {m}) + 1
      BY <1>5, <3>3, FS_AddElement
    <3>5. Cardinality(Trimmed(S, r)) = Cardinality(recent)
      BY <1>2, <3>2, <3>3, <3>4
    <3>6. \A k \in S \ Trimmed(S, r), n \in Trimmed(S, r) \ {Seed} : r[k] < r[n]
      BY <1>1, <3>1, <3>2
    <3> QED
      BY <1>0, <1>1, <3>2, <3>5, <3>6
  <2> QED
    BY <2>2, <2>3
<1> QED
  BY <1>3, <1>4, <1>5
-----------------------------------------------------------------------------
(* AnswerInv, given what the loop computes *)

PageOK ==
  /\ own \in [Msg -> RfcId \cup {NoId}]
  /\ refs \in [Msg -> RefSet]
  /\ rank \in [Msg -> Msg]
  /\ answer \in SUBSET Msg /\ todo \in SUBSET Msg
  /\ unresolved \in Nat /\ missing \in Nat /\ spent \in Nat /\ share \in Nat

\* A body still to be read has its share of the budget kept for it, and the seed
\* is none of them.
BodiesInv ==
  /\ pc \in {"grow", "trim"} => spent = 0 /\ missing = 0 /\ unresolved = 0
  /\ pc = "hydrate" => Seed \notin todo /\ spent + share * Cardinality(todo) <= MaxPageBytes
  /\ BudgetKept

WorkInv == PageOK /\ BodiesInv /\ AnswerIsBounded /\ CutIsOldest /\ UnresolvedIsAbsent

LEMMA WorkInit == Init => WorkInv
PROOF
<1> SUFFICES ASSUME Init
             PROVE  WorkInv
  OBVIOUS
<1>1. PageOK
  <2>1. [m \in Msg |-> m] \in [Msg -> Msg]
    OBVIOUS
  <2> QED
    BY <2>1 DEF Init, PageOK
<1>2. pc = "grow" /\ spent = 0 /\ missing = 0 /\ unresolved = 0
  BY DEF Init
<1> QED
  BY <1>1, <1>2, BoundsAssumption
  DEF WorkInv, BodiesInv, BudgetKept, AnswerIsBounded, CutIsOldest, UnresolvedIsAbsent

LEMMA OneShareLess == \A a, n \in Int : a * (n - 1) = a * n - a /\ a * n \in Int
PROOF
  OBVIOUS

LEMMA SharesFit ==
  ASSUME NEW n \in Nat \ {0}
  PROVE  /\ AtMost(MaxMessageBytes, MaxPageBytes \div n) \in Nat
         /\ AtMost(MaxMessageBytes, MaxPageBytes \div n) * n <= MaxPageBytes
PROOF
<1> DEFINE q == MaxPageBytes \div n
           least == AtMost(MaxMessageBytes, q)
<1>1. q \in Nat /\ q * n <= MaxPageBytes
  BY BoundsAssumption
<1> HIDE DEF q
<1>2. least \in Nat /\ least <= q
  BY <1>1, BoundsAssumption DEF AtMost
<1> HIDE DEF least
<1>3. least * n <= q * n
  BY <1>1, <1>2
<1>4. least * n \in Nat /\ q * n \in Nat
  BY <1>1, <1>2
<1>5. least * n <= MaxPageBytes
  BY <1>1, <1>3, <1>4, BoundsAssumption
<1> QED
  BY <1>2, <1>5 DEF least, q

\* Identifiers that the conversation names and no message of it has: none of the
\* page has them, or that message would be linked.
LEMMA AbsentFromAll ==
  ASSUME PageOK, Seed \in Msg
  PROVE  /\ Unresolved(Conversation)
              = (UNION {refs[m] : m \in Conversation}) \ {own[m] : m \in Msg}
         /\ Cardinality(Unresolved(Conversation)) \in Nat
PROOF
<1>1. Conversation \in SUBSET Msg
  BY DEF Conversation
<1>2. ASSUME NEW m \in Conversation, NEW id \in refs[m], NEW n \in Msg, own[n] = id
      PROVE  n \in Conversation
  <2>1. id \in RfcId
    BY <1>1, <1>2 DEF PageOK, RefSet
  <2>2. id \in Identities(m) /\ id \in Identities(n)
    BY <1>2, <2>1, NoIdAssumption DEF Identities
  <2> QED
    BY <2>2, LinkedBelongs
<1>3. Unresolved(Conversation)
        = (UNION {refs[m] : m \in Conversation}) \ {own[m] : m \in Msg}
  BY <1>1, <1>2 DEF Unresolved
<1>4. IsFiniteSet({refs[m] : m \in Conversation})
  <2>1. IsFiniteSet(Conversation)
    BY <1>1, MessagesFinite
  <2> DEFINE f == [m \in Conversation |-> refs[m]]
             all == {refs[m] : m \in Conversation}
  <2>2. f \in Surjection(Conversation, all)
    BY DEF Surjection
  <2> HIDE DEF f, all
  <2>3. IsFiniteSet(all)
    BY <2>1, <2>2, FS_Surjection
  <2> QED
    BY <2>3 DEF all
<1>5. \A S \in {refs[m] : m \in Conversation} : IsFiniteSet(S)
  BY <1>1 DEF PageOK, RefSet
<1>6. IsFiniteSet(UNION {refs[m] : m \in Conversation})
  BY <1>4, <1>5, FS_UNION
<1>7. Unresolved(Conversation) \in SUBSET (UNION {refs[m] : m \in Conversation})
  BY DEF Unresolved
<1>8. IsFiniteSet(Unresolved(Conversation))
  <2> DEFINE all == UNION {refs[m] : m \in Conversation}
  <2>1. IsFiniteSet(all) /\ Unresolved(Conversation) \in SUBSET all
    BY <1>6, <1>7
  <2> HIDE DEF all
  <2> QED
    BY <2>1, FS_Subset
<1>9. Cardinality(Unresolved(Conversation)) \in Nat
  BY <1>8, FS_CardinalityType
<1> QED
  BY <1>3, <1>9

\* The properties' own words, while the page stays.
LEMMA SameCount ==
  ASSUME UNCHANGED page
  PROVE  UnresolvedIsAbsent' <=>
           (pc' \in {"hydrate", "done"} =>
              unresolved' =
                  Cardinality((UNION {refs[m] : m \in Conversation}) \ {own[m] : m \in Msg}))
PROOF
<1>1. own' = own /\ refs' = refs /\ Conversation' = Conversation
  BY SamePage DEF page
<1> QED
  BY <1>1 DEF UnresolvedIsAbsent, Msg

\* What Deliver hands to the reading of the bodies fits the budget.
LEMMA DeliverFits ==
  ASSUME PageOK, spent = 0, NEW messages \in SUBSET Msg, Seed \in messages,
         Deliver(messages), UNCHANGED <<missing, spent>>
  PROVE  /\ answer' = messages /\ pc' \in {"hydrate", "done"}
         /\ todo' \in SUBSET Msg /\ share' \in Nat
         /\ pc' = "hydrate" =>
              Seed \notin todo' /\ spent' + share' * Cardinality(todo') <= MaxPageBytes
         /\ BudgetKept'
PROOF
<1>1. BudgetKept'
  BY BoundsAssumption DEF BudgetKept
<1>2. answer' = messages /\ pc' \in {"hydrate", "done"}
  BY DEF Deliver
<1>3. CASE pc' = "done" /\ UNCHANGED <<todo, share>>
  BY <1>1, <1>2, <1>3 DEF PageOK
<1>4. CASE pc' = "hydrate" /\ todo' = messages \ {Seed} /\ share' = Share(messages)
  <2> DEFINE n == Cardinality(messages)
  <2>1. IsFiniteSet(messages) /\ n \in Nat
    BY MessagesFinite
  <2>2. n # 0
    BY <2>1, FS_EmptySet
  <2>3. Cardinality(messages \ {Seed}) = n - 1
    BY <2>1, FS_RemoveElement
  <2>4. share' = AtMost(MaxMessageBytes, MaxPageBytes \div n)
    BY <1>4 DEF Share
  <2> HIDE DEF n
  <2>5. share' \in Nat /\ share' * n <= MaxPageBytes
    BY <2>1, <2>2, <2>4, SharesFit
  <2>6. share' * (n - 1) = share' * n - share' /\ share' * n \in Int
    BY <2>1, <2>5, OneShareLess
  <2>8. spent' + share' * Cardinality(todo') <= MaxPageBytes
    <3>1. spent' = 0 /\ Cardinality(todo') = n - 1
      BY <1>4, <2>3
    <3> QED
      BY <2>5, <2>6, <3>1, BoundsAssumption
  <2>7. todo' \in SUBSET Msg /\ Seed \notin todo'
    BY <1>4
  <2> QED
    BY <1>1, <1>2, <2>5, <2>7, <2>8
<1> QED
  BY <1>3, <1>4 DEF Deliver

LEMMA GrowWork ==
  ASSUME WorkInv, Visit \/ PassEnds
  PROVE  WorkInv'
PROOF
<1>1. /\ pc = "grow" /\ pc' \in {"grow", "trim"} /\ UNCHANGED page
      /\ UNCHANGED <<rank, answer, unresolved, todo, share, missing, spent>>
  BY DEF Visit, PassEnds, bodies
<1>2. PageOK'
  BY <1>1 DEF WorkInv, PageOK, page, Msg, RefSet
<1>3. BodiesInv'
  BY <1>1 DEF WorkInv, BodiesInv, BudgetKept
<1> QED
  BY <1>1, <1>2, <1>3 DEF WorkInv, AnswerIsBounded, CutIsOldest, UnresolvedIsAbsent

LEMMA AloneWork ==
  ASSUME Inv, WorkInv, Alone
  PROVE  WorkInv'
PROOF
<1>1. /\ UNCHANGED page /\ UNCHANGED loop /\ UNCHANGED <<rank, unresolved, missing, spent>>
      /\ pc = "grow" /\ Identities(Seed) = {} /\ Deliver({Seed})
  BY DEF Alone
<1>2. Seed \in Msg
  BY SlotsAssumption DEF Seed, Msg
<1>3. PageOK /\ spent = 0 /\ missing = 0
  BY <1>1 DEF WorkInv, BodiesInv
<1>4. /\ answer' = {Seed} /\ pc' \in {"hydrate", "done"}
      /\ todo' \in SUBSET Msg /\ share' \in Nat
      /\ pc' = "hydrate" =>
           Seed \notin todo' /\ spent' + share' * Cardinality(todo') <= MaxPageBytes
      /\ BudgetKept'
  BY <1>1, <1>2, <1>3, DeliverFits
<1>5. Conversation = {Seed}
  <2>1. {Seed} \in SUBSET Msg
    BY <1>2
  <2>2. Closed({Seed})
    BY <1>1 DEF Closed
  <2> QED
    BY <2>1, <2>2, SeedBelongs DEF Conversation
<1>6. Conversation' = Conversation
  BY <1>1, SamePage
<1>7. PageOK'
  BY <1>1, <1>2, <1>3, <1>4 DEF PageOK, page, Msg, RefSet
<1>8. BodiesInv'
  BY <1>4 DEF BodiesInv
<1>9. AnswerIsBounded'
  <2>1. Cardinality({Seed}) = 1
    BY FS_Singleton
  <2> QED
    BY <1>4, <1>5, <1>6, <2>1, BoundsAssumption DEF AnswerIsBounded, Seed
<1>10. CutIsOldest'
  <2>1. selected' \in SUBSET {Seed}
    BY <1>1, <1>5 DEF Inv, Inside, loop
  <2> QED
    BY <1>4, <2>1 DEF CutIsOldest
<1>11. UnresolvedIsAbsent'
  <2>1. unresolved' = 0
    BY <1>1 DEF WorkInv, BodiesInv
  <2>2. refs[Seed] = {}
    BY <1>1 DEF Identities
  <2>3. (UNION {refs[m] : m \in Conversation}) \ {own[m] : m \in Msg} = {}
    BY <1>5, <2>2
  <2>4. Cardinality({}) = 0
    BY FS_EmptySet
  <2> QED
    BY <1>1, <2>1, <2>3, <2>4, SameCount
<1> QED
  BY <1>7, <1>8, <1>9, <1>10, <1>11 DEF WorkInv
LEMMA TrimSelects ==
  ASSUME Inv, pc = "trim"
  PROVE  selected = Conversation
PROOF
<1>1. CASE Identities(Seed) # {}
  BY <1>1 DEF Inv, FindsConversation
<1>2. CASE Identities(Seed) = {}
  <2>1. {Seed} \in SUBSET Msg /\ Closed({Seed})
    BY <1>2, SlotsAssumption DEF Closed, Seed, Msg
  <2> QED
    BY <2>1 DEF Inv, Inside, Conversation
<1> QED
  BY <1>1, <1>2

LEMMA TrimWork ==
  ASSUME Inv, WorkInv, Trim
  PROVE  WorkInv'
PROOF
<1> DEFINE cut == Trimmed(selected, rank')
<1>1. /\ UNCHANGED page /\ UNCHANGED loop /\ UNCHANGED <<missing, spent>>
      /\ pc = "trim" /\ rank' \in Rank /\ unresolved' = Cardinality(Unresolved(selected))
      /\ Deliver(cut)
  BY DEF Trim
<1>2. Seed \in Msg /\ selected \in SUBSET Msg /\ Seed \in selected
  BY SlotsAssumption DEF Seed, Msg, Inv, Ranged, Inside
<1>3. PageOK /\ spent = 0 /\ missing = 0
  BY <1>1 DEF WorkInv, BodiesInv
<1>4. selected = Conversation /\ Conversation' = Conversation /\ selected' = selected
  BY <1>1, TrimSelects, SamePage DEF loop
<1>5. /\ Seed \in cut /\ cut \in SUBSET selected /\ Cardinality(cut) <= MaxMessages
      /\ \A m \in selected \ cut, n \in cut \ {Seed} : rank'[m] < rank'[n]
  BY <1>1, <1>2, CutKeeps
<1> HIDE DEF cut
<1>6. cut \in SUBSET Msg
  BY <1>2, <1>5
<1>7. /\ answer' = cut /\ pc' \in {"hydrate", "done"}
      /\ todo' \in SUBSET Msg /\ share' \in Nat
      /\ pc' = "hydrate" =>
           Seed \notin todo' /\ spent' + share' * Cardinality(todo') <= MaxPageBytes
      /\ BudgetKept'
  BY <1>1, <1>3, <1>5, <1>6, DeliverFits
<1>8. /\ Unresolved(Conversation)
           = (UNION {refs[m] : m \in Conversation}) \ {own[m] : m \in Msg}
      /\ Cardinality(Unresolved(Conversation)) \in Nat
  BY <1>2, <1>3, AbsentFromAll
<1>9. PageOK'
  <2>1. rank' \in [Msg -> Msg]
    BY <1>1 DEF Rank
  <2>2. own' = own /\ refs' = refs
    BY <1>1 DEF page
  <2>3. unresolved' \in Nat
    BY <1>1, <1>4, <1>8
  <2> QED
    BY <1>1, <1>3, <1>6, <1>7, <2>1, <2>2, <2>3 DEF PageOK, Msg, RefSet
<1>10. BodiesInv'
  BY <1>7 DEF BodiesInv
<1>11. AnswerIsBounded'
  BY <1>4, <1>5, <1>7 DEF AnswerIsBounded, Seed
<1>12. CutIsOldest'
  BY <1>4, <1>5, <1>7 DEF CutIsOldest, Seed
<1>13. UnresolvedIsAbsent'
  <2>1. unresolved' = Cardinality((UNION {refs[m] : m \in Conversation}) \ {own[m] : m \in Msg})
    BY <1>1, <1>4, <1>8
  <2> QED
    BY <1>1, <2>1, SameCount
<1> QED
  BY <1>9, <1>10, <1>11, <1>12, <1>13 DEF WorkInv

LEMMA ReadWork ==
  ASSUME WorkInv, Read
  PROVE  WorkInv'
PROOF
<1>1. /\ UNCHANGED page /\ UNCHANGED loop /\ UNCHANGED <<rank, unresolved, share>>
      /\ pc = "hydrate" /\ pc' \in {"hydrate", "failed"}
  BY DEF Read
<1>2. PICK m \in todo :
        /\ todo' = todo \ {m}
        /\ \/ /\ \E bytes \in {0, share} : spent' = spent + bytes
              /\ UNCHANGED <<answer, missing>>
           \/ answer' = answer \ {m} /\ missing' = missing + 1 /\ spent' = spent
           \/ UNCHANGED <<answer, missing, spent>>
  BY DEF Read, Gone, Oldest
<1>3. /\ PageOK /\ Seed \notin todo /\ Seed \in answer
      /\ spent + share * Cardinality(todo) <= MaxPageBytes
  BY <1>1 DEF WorkInv, BodiesInv, AnswerIsBounded
<1>4. Conversation' = Conversation
  BY <1>1, SamePage
<1> DEFINE n == Cardinality(todo)
<1>5. IsFiniteSet(todo) /\ n \in Nat /\ Cardinality(todo') = n - 1
  <2>1. IsFiniteSet(todo) /\ Cardinality(todo) \in Nat
    BY <1>3, MessagesFinite DEF PageOK
  <2> QED
    BY <1>2, <2>1, FS_RemoveElement
<1>6. spent' \in {spent, spent + share} /\ missing' \in {missing, missing + 1}
  BY <1>2, <1>3 DEF PageOK
<1>7. answer' \in {answer, answer \ {m}} /\ (missing' = missing => answer' = answer)
  BY <1>2, <1>3 DEF PageOK
<1>8. spent' + share' * Cardinality(todo') <= MaxPageBytes /\ spent' <= MaxPageBytes
  <2>1. spent \in Nat /\ share \in Nat /\ share' = share
    BY <1>1, <1>3 DEF PageOK
  <2> HIDE DEF n
  <2>2. share * (n - 1) = share * n - share /\ share * n \in Int
    BY <1>5, <2>1, OneShareLess
  <2>3. n - 1 \in Nat
    <3>1. n # 0
      BY <1>2, <1>5, FS_EmptySet DEF n
    <3> QED
      BY <1>5, <3>1
  <2>4. share * (n - 1) \in Nat
    BY <2>1, <2>3
  <2>5. spent + share * n <= MaxPageBytes
    BY <1>3 DEF n
  <2>6. Cardinality(todo') = n - 1
    BY <1>5
  <2> QED
    BY <1>6, <2>1, <2>2, <2>4, <2>5, <2>6, BoundsAssumption
<1> HIDE DEF n
<1>9. PageOK'
  <2>1. own' = own /\ refs' = refs
    BY <1>1 DEF page
  <2>2. spent' \in Nat /\ missing' \in Nat
    BY <1>3, <1>6 DEF PageOK
  <2> QED
    BY <1>1, <1>2, <1>3, <1>7, <2>1, <2>2 DEF PageOK, Msg, RefSet
<1>10. BodiesInv'
  BY <1>1, <1>2, <1>3, <1>8 DEF BodiesInv, BudgetKept, Seed
<1>11. AnswerIsBounded'
  <2>1. answer \in SUBSET Msg
    BY <1>3 DEF PageOK
  <2>2. IsFiniteSet(answer)
    BY <2>1, MessagesFinite
  <2>3. Cardinality(answer') <= Cardinality(answer) /\ Cardinality(answer') \in Nat
    BY <1>7, <2>1, <2>2, MessagesFinite, FS_Subset
  <2>4. Cardinality(answer) <= MaxMessages /\ Cardinality(answer) \in Nat
    BY <1>1, <2>1, MessagesFinite DEF WorkInv, AnswerIsBounded
  <2>5. Cardinality(answer') <= MaxMessages
    BY <2>3, <2>4, BoundsAssumption
  <2> QED
    BY <1>1, <1>2, <1>3, <1>4, <1>7, <2>5 DEF WorkInv, AnswerIsBounded, Seed
<1>12. CutIsOldest'
  <2> SUFFICES ASSUME missing' = 0
               PROVE  CutIsOldest'
    BY DEF CutIsOldest
  <2>1. missing = 0 /\ answer' = answer
    BY <1>3, <1>6, <1>7 DEF PageOK
  <2> QED
    BY <1>1, <2>1 DEF WorkInv, CutIsOldest, loop, Seed
<1>13. UnresolvedIsAbsent'
  BY <1>1, SameCount DEF WorkInv, UnresolvedIsAbsent
<1> QED
  BY <1>9, <1>10, <1>11, <1>12, <1>13 DEF WorkInv

LEMMA RestWork ==
  ASSUME WorkInv, Finish \/ UNCHANGED vars
  PROVE  WorkInv'
PROOF
<1>1. /\ UNCHANGED page /\ UNCHANGED loop /\ UNCHANGED bodies
      /\ UNCHANGED <<rank, answer, unresolved>>
      /\ pc' = pc \/ (pc = "hydrate" /\ pc' = "done")
  BY DEF Finish, vars, page, loop, bodies
<1>2. Conversation' = Conversation
  BY <1>1, SamePage
<1>3. PageOK'
  BY <1>1 DEF WorkInv, PageOK, page, bodies, Msg, RefSet
<1>4. BodiesInv'
  BY <1>1 DEF WorkInv, BodiesInv, BudgetKept, bodies, Seed
<1>5. AnswerIsBounded' /\ CutIsOldest'
  BY <1>1, <1>2 DEF WorkInv, AnswerIsBounded, CutIsOldest, loop, bodies, Seed
<1>6. UnresolvedIsAbsent'
  BY <1>1, SameCount DEF WorkInv, UnresolvedIsAbsent
<1> QED
  BY <1>3, <1>4, <1>5, <1>6 DEF WorkInv

LEMMA WorkStep == Inv /\ WorkInv /\ [Next]_vars => WorkInv'
PROOF
  BY GrowWork, AloneWork, TrimWork, ReadWork, RestWork DEF Next

LEMMA WorkMeans == Inv /\ WorkInv => AnswerInv
PROOF
<1> SUFFICES ASSUME Inv, WorkInv
             PROVE  AnswerInv
  OBVIOUS
<1>1. refs \in [Msg -> SUBSET RfcId]
  BY DEF WorkInv, PageOK, RefSet
<1>2. known \in SUBSET RfcId
  <2>1. \A m \in Msg : Identities(m) \in SUBSET RfcId
    BY <1>1 DEF Identities, WorkInv, PageOK
  <2> QED
    BY <2>1 DEF Inv, Ranged, Inside
<1>3. TypeOK
  BY <1>1, <1>2 DEF TypeOK, Inv, Ranged, WorkInv, PageOK
<1> QED
  BY <1>3 DEF AnswerInv, WorkInv, BodiesInv

\* get_thread_context answers with the seed, within max_messages, nothing unlinked
\* and nothing older than what it leaves out; it counts as unresolved exactly the
\* identifiers that no message of the page has, and reads its bodies within one
\* page's bytes.
THEOREM AnswerInvariant == Spec => []AnswerInv
PROOF
<1>1. Inv /\ WorkInv /\ [Next]_vars => WorkInv'
  BY WorkStep
<1> QED
  BY ThreadInvariant, WorkInit, <1>1, WorkMeans, PTL DEF Spec

-----------------------------------------------------------------------------
(* Replies: places of a sequence *)

\* FiniteSets of the instance is the one of the theorems.
LEMMA SameCardinality == \A S : Reply!Cardinality(S) = Cardinality(S)
  BY DEF Reply!Cardinality, Cardinality

\* A set of numbers has a least one.
LEMMA LeastNumber ==
  ASSUME NEW S \in SUBSET Nat, S # {}
  PROVE  \E m \in S : \A n \in S : m <= n
<1> DEFINE f == [m \in S |-> m]
<1>1. f \in [S -> Nat] OBVIOUS
<1>2. PICK m \in S : \A n \in S : f[m] <= f[n]
  <2> HIDE DEF f
  <2> QED BY <1>1, Least
<1> QED BY <1>2

\* Places have a first, a second and so on, in their order, and that are all.
LEMMA PlaceFacts ==
  ASSUME NEW N \in Nat, NEW K \in SUBSET (1 .. N)
  PROVE  /\ Cardinality(K) \in 0 .. N
         /\ \A n \in 1 .. Cardinality(K) : Reply!Place(K, n) \in K
         /\ \A m, n \in 1 .. Cardinality(K) : m < n <=> Reply!Place(K, m) < Reply!Place(K, n)
         /\ \A k \in K : \E n \in 1 .. Cardinality(K) : Reply!Place(K, n) = k
<1> DEFINE upTo(k) == {j \in K : j <= k}
           C == Cardinality(K)
<1>0. \A k \in K : k \in Nat /\ 1 <= k /\ k <= N OBVIOUS
<1>a. \A k, j : j \in upTo(k) <=> j \in K /\ j <= k OBVIOUS
<1>1. IsFiniteSet(K) /\ C \in Nat /\ C <= N
  <2>1. IsFiniteSet(1 .. N) /\ Cardinality(1 .. N) = N BY FS_Interval
  <2>2. IsFiniteSet(K) /\ C <= N BY <2>1, FS_Subset
  <2> QED BY <2>2, FS_CardinalityType
<1>2. ASSUME NEW k \in Nat PROVE IsFiniteSet(upTo(k)) /\ Cardinality(upTo(k)) \in 0 .. C
  <2>1. upTo(k) \in SUBSET K OBVIOUS
  <2>2. IsFiniteSet(upTo(k)) /\ Cardinality(upTo(k)) <= C BY <1>1, <2>1, FS_Subset
  <2> QED BY <1>1, <2>2, FS_CardinalityType
<1>3. ASSUME NEW k \in K, NEW m \in K, k < m
      PROVE  Cardinality(upTo(k)) < Cardinality(upTo(m))
  <2>1. k \in Nat /\ m \in Nat OBVIOUS
  <2>2. upTo(k) \in SUBSET upTo(m)
    <3>1. \A j \in K : j <= k => j <= m BY <1>0, <1>3, <2>1
    <3> QED BY <1>a, <3>1
  <2>3. m \in upTo(m) /\ m \notin upTo(k) BY <1>3, <2>1
  <2>4. Cardinality(upTo(k)) <= Cardinality(upTo(m)) /\ Cardinality(upTo(k)) # Cardinality(upTo(m))
    BY <1>2, <2>1, <2>2, <2>3, FS_Subset
  <2> QED BY <1>2, <2>1, <2>4
<1>4. ASSUME NEW n \in 1 .. C PROVE \E k \in K : Cardinality(upTo(k)) = n
  <2> DEFINE enough == {k \in 0 .. N : n <= Cardinality(upTo(k))}
  <2>1. upTo(N) = K /\ upTo(0) = {}
    <3>1. \A j : j \in upTo(N) <=> j \in K BY <1>0, <1>a
    <3>2. \A j \in K : ~(j <= 0) BY <1>0
    <3> HIDE DEF upTo
    <3>3. \A j : j \notin upTo(0) BY <1>a, <3>2
    <3> QED BY <3>1, <3>3
  <2>2. N \in enough /\ 0 \notin enough BY <1>1, <2>1, FS_EmptySet
  <2>3. enough \in SUBSET Nat OBVIOUS
  <2>4. PICK k \in enough : \A j \in enough : k <= j
    <3> HIDE DEF enough
    <3> QED BY <2>2, <2>3, LeastNumber
  <2>5. k \in 1 .. N BY <2>2, <2>4
  <2>6. k - 1 \in 0 .. N /\ k - 1 \in Nat BY <2>5
  <2>7. Cardinality(upTo(k - 1)) < n
    <3>1. k - 1 \notin enough
      <4>1. ~(k <= k - 1) BY <2>5
      <4> HIDE DEF enough
      <4> QED BY <2>4, <4>1
    <3>2. ~(n <= Cardinality(upTo(k - 1))) BY <2>6, <3>1
    <3>3. Cardinality(upTo(k - 1)) \in Nat
      <4> HIDE DEF upTo
      <4> QED BY <1>1, <1>2, <2>6
    <3> QED BY <3>2, <3>3
  <2>8. k \in K
    <3> SUFFICES ASSUME k \notin K PROVE FALSE OBVIOUS
    <3>1. upTo(k) = upTo(k - 1)
      <4>1. \A j \in K : j <= k <=> j <= k - 1 BY <1>0, <2>5
      <4>2. \A j : j \in upTo(k) <=> j \in upTo(k - 1)
        <5> HIDE DEF upTo
        <5> QED BY <1>a, <4>1
      <4> HIDE DEF upTo
      <4> QED BY <4>2
    <3>2. n <= Cardinality(upTo(k)) BY <2>4
    <3> HIDE DEF upTo
    <3>3. Cardinality(upTo(k - 1)) \in Nat BY <1>1, <1>2, <2>6
    <3> QED BY <2>7, <3>1, <3>2, <3>3
  <2>9. upTo(k) = upTo(k - 1) \cup {k} /\ k \notin upTo(k - 1)
    <3>1. \A j \in K : j <= k <=> (j <= k - 1 \/ j = k) BY <1>0, <2>5
    <3>2. ~(k <= k - 1) BY <2>5
    <3> HIDE DEF upTo
    <3>3. \A j : j \in upTo(k) <=> (j \in upTo(k - 1) \/ j = k) BY <1>a, <2>8, <3>1
    <3> QED BY <1>a, <3>2, <3>3
  <2>11. Cardinality(upTo(k)) = Cardinality(upTo(k - 1)) + 1
    <3> HIDE DEF upTo
    <3> QED BY <1>2, <2>6, <2>9, FS_AddElement
  <2>12. n <= Cardinality(upTo(k)) BY <2>4
  <2>13. Cardinality(upTo(k - 1)) \in Nat /\ n \in Nat
    <3> HIDE DEF upTo
    <3> QED BY <1>1, <1>2, <2>6
  <2>14. Cardinality(upTo(k)) = n
    <3> HIDE DEF upTo
    <3> QED BY <2>7, <2>11, <2>12, <2>13
  <2> QED BY <2>8, <2>14
<1>5. ASSUME NEW n \in 1 .. C
      PROVE  Reply!Place(K, n) \in K /\ Cardinality(upTo(Reply!Place(K, n))) = n
  BY <1>4, SameCardinality DEF Reply!Place
<1>6. ASSUME NEW k \in K PROVE \E n \in 1 .. C : Reply!Place(K, n) = k
  <2> DEFINE n == Cardinality(upTo(k))
  <2>1. k \in Nat /\ k \in upTo(k) OBVIOUS
  <2>2. n \in 1 .. C BY <1>2, <2>1, FS_EmptySet
  <2>3. Reply!Place(K, n) \in K /\ Cardinality(upTo(Reply!Place(K, n))) = n BY <1>5, <2>2
  <2>4. n \in Nat BY <2>2
  <2>5. ~(Reply!Place(K, n) < k) /\ ~(k < Reply!Place(K, n))
    <3> HIDE DEF upTo
    <3>1. ~(n < n) BY <2>4
    <3>2. \A j \in K : j < k \/ k < j => Cardinality(upTo(j)) # n BY <1>3, <2>4, <3>1
    <3> QED BY <2>3, <3>2
  <2>6. Reply!Place(K, n) \in Nat BY <1>0, <2>3
  <2>7. Reply!Place(K, n) = k
    <3> HIDE DEF n
    <3> QED BY <2>1, <2>5, <2>6
  <2> QED BY <2>2, <2>7
<1>7. ASSUME NEW m \in 1 .. C, NEW n \in 1 .. C
      PROVE  m < n <=> Reply!Place(K, m) < Reply!Place(K, n)
  <2>1. Reply!Place(K, m) \in K /\ Reply!Place(K, n) \in K BY <1>5
  <2>2. Reply!Place(K, m) \in Nat /\ Reply!Place(K, n) \in Nat BY <1>0, <2>1
  <2>3. Reply!Place(K, m) < Reply!Place(K, n) => m < n BY <1>3, <1>5, <2>1
  <2>4. Reply!Place(K, n) < Reply!Place(K, m) => n < m BY <1>3, <1>5, <2>1
  <2>5. Reply!Place(K, m) = Reply!Place(K, n) => m = n BY <1>5
  <2> QED BY <2>2, <2>3, <2>4, <2>5
<1>8. C \in 0 .. N BY <1>1
<1> QED BY <1>5, <1>6, <1>7, <1>8

\* What stands in some places of a sequence is a sequence that is no longer.
LEMMA InFacts ==
  ASSUME NEW S, NEW s \in Seq(S), NEW K \in SUBSET DOMAIN s
  PROVE  /\ Reply!In(K, s) \in Seq(S)
         /\ Len(Reply!In(K, s)) = Cardinality(K) /\ Cardinality(K) \in 0 .. Len(s)
         /\ DOMAIN Reply!In(K, s) = 1 .. Cardinality(K)
         /\ \A n \in DOMAIN Reply!In(K, s) :
              Reply!Place(K, n) \in K /\ Reply!In(K, s)[n] = s[Reply!Place(K, n)]
         /\ \A m, n \in DOMAIN Reply!In(K, s) : m < n <=> Reply!Place(K, m) < Reply!Place(K, n)
         /\ \A k \in K : \E n \in DOMAIN Reply!In(K, s) : Reply!Place(K, n) = k
<1>1. Len(s) \in Nat /\ DOMAIN s = 1 .. Len(s) /\ \A k \in DOMAIN s : s[k] \in S OBVIOUS
<1>2. K \in SUBSET (1 .. Len(s)) BY <1>1
<1>3. /\ Cardinality(K) \in 0 .. Len(s)
      /\ \A n \in 1 .. Cardinality(K) : Reply!Place(K, n) \in K
      /\ \A m, n \in 1 .. Cardinality(K) : m < n <=> Reply!Place(K, m) < Reply!Place(K, n)
      /\ \A k \in K : \E n \in 1 .. Cardinality(K) : Reply!Place(K, n) = k
  BY <1>1, <1>2, PlaceFacts
<1>4. /\ DOMAIN Reply!In(K, s) = 1 .. Cardinality(K)
      /\ \A n \in 1 .. Cardinality(K) : Reply!In(K, s)[n] = s[Reply!Place(K, n)]
  BY SameCardinality DEF Reply!In
<1>5. Cardinality(K) \in Nat BY <1>3
<1>6. Reply!In(K, s) \in [1 .. Cardinality(K) -> S] BY <1>1, <1>3, SameCardinality DEF Reply!In
<1>7. Reply!In(K, s) \in Seq(S) BY <1>5, <1>6
<1>8. Len(Reply!In(K, s)) = Cardinality(K) BY <1>4, <1>5, <1>7
<1> QED BY <1>3, <1>4, <1>7, <1>8

-----------------------------------------------------------------------------
(* Replies: recipients *)

\* The lists that the provider makes of address headers.
LEMMA ListFacts ==
  ASSUME NEW list, list \in {Absent, Invalid} \/ list \in Seq(Reply!Address), NEW maximum
  PROVE  /\ Reply!List(list) \in Seq(Reply!Address)
         /\ Reply!Addresses(list, maximum) \in Seq(Reply!Address)
         /\ ~Reply!Unusable(list, maximum) => Reply!Addresses(list, maximum) = Reply!List(list)
         /\ Len(Reply!Addresses(list, maximum)) = 1
                => list \notin {Absent, Invalid} /\ Reply!Addresses(list, maximum) = list
<1>1. Reply!List(list) \in Seq(Reply!Address) BY DEF Reply!List
<1>2. Reply!Addresses(list, maximum) \in {<<>>, Reply!List(list)} BY DEF Reply!Addresses
<1>3. <<>> \in Seq(Reply!Address) /\ Len(<<>>) = 0 OBVIOUS
<1>4. Reply!Addresses(list, maximum) \in Seq(Reply!Address) BY <1>1, <1>2, <1>3
<1>5. ASSUME Len(Reply!Addresses(list, maximum)) = 1
      PROVE  list \notin {Absent, Invalid} /\ Reply!Addresses(list, maximum) = list
  <2>1. Reply!Addresses(list, maximum) # <<>> BY <1>3, <1>5
  <2>2. Reply!Addresses(list, maximum) = Reply!List(list) BY <1>2, <2>1
  <2> QED BY <2>1, <2>2 DEF Reply!List
<1>6. ~Reply!Unusable(list, maximum) => Reply!Addresses(list, maximum) = Reply!List(list)
  BY DEF Reply!Addresses
<1> QED BY <1>1, <1>4, <1>5, <1>6

\* A route is the one address that the message names for answers.
LEMMA RouteIsWanted ==
  ASSUME NEW h, Reply!HeaderOK(h), Reply!Route(h) # None
  PROVE  Reply!Route(h) \in Reply!Address /\ Reply!Route(h) = Reply!Wanted(h)
<1>1. CASE h.replyTo = Absent BY <1>1 DEF Reply!HeaderOK, Reply!Route, Reply!Wanted
<1>2. CASE h.replyTo # Absent
  <2>1. /\ Len(Reply!Addresses(h.replyTo, MaxReplyTo)) = 1
        /\ Reply!Route(h) = Reply!Addresses(h.replyTo, MaxReplyTo)[1]
    BY <1>2 DEF Reply!Route
  <2>2. h.replyTo \in {Absent, Invalid} \/ h.replyTo \in Seq(Reply!Address) BY DEF Reply!HeaderOK
  <2>3. /\ Reply!Addresses(h.replyTo, MaxReplyTo) \in Seq(Reply!Address)
        /\ Reply!Addresses(h.replyTo, MaxReplyTo) = h.replyTo
    BY <2>1, <2>2, ListFacts
  <2>4. h.replyTo[1] \in Reply!Address BY <2>1, <2>3
  <2> QED BY <1>2, <2>1, <2>3, <2>4 DEF Reply!Wanted
<1> QED BY <1>1, <1>2

\* Recipients are those of To and then of Cc, and all of them unless a header is invalid.
LEMMA RecipientsFacts ==
  ASSUME NEW h, Reply!HeaderOK(h)
  PROVE  /\ Reply!Recipients(h) \in Seq(Reply!Address)
         /\ ~Reply!RecipientsInvalid(h)
                => Reply!Recipients(h) = Reply!List(h.to) \o Reply!List(h.cc)
<1>1. /\ h.to \in {Absent, Invalid} \/ h.to \in Seq(Reply!Address)
      /\ h.cc \in {Absent, Invalid} \/ h.cc \in Seq(Reply!Address)
  BY DEF Reply!HeaderOK
<1>2. /\ Reply!Addresses(h.to, MaxRecipients) \in Seq(Reply!Address)
      /\ Reply!Addresses(h.cc, MaxRecipients) \in Seq(Reply!Address)
      /\ ~Reply!RecipientsInvalid(h) => /\ Reply!Addresses(h.to, MaxRecipients) = Reply!List(h.to)
                                  /\ Reply!Addresses(h.cc, MaxRecipients) = Reply!List(h.cc)
  BY <1>1, ListFacts DEF Reply!RecipientsInvalid
<1> QED BY <1>2 DEF Reply!Recipients

\* The Cc names, once each, all recipients who are neither the primary nor own.
LEMMA OthersFacts ==
  ASSUME NEW h, Reply!HeaderOK(h)
  PROVE  LET cc == Reply!Others(h)  all == Reply!Recipients(h) IN
         /\ cc \in Seq(Reply!Address) /\ Len(cc) \in Nat /\ DOMAIN cc = 1 .. Len(cc)
         /\ \A i \in DOMAIN cc : /\ \E k \in DOMAIN all : cc[i] = all[k]
                                 /\ cc[i].who \notin ownAddresses /\ cc[i].who # Reply!Route(h).who
         /\ \A i, j \in DOMAIN cc : cc[i].who = cc[j].who => i = j
         /\ \A k \in DOMAIN all :
              all[k].who \notin ownAddresses /\ all[k].who # Reply!Route(h).who =>
              \E i \in DOMAIN cc : cc[i].who = all[k].who
<1> DEFINE all == Reply!Recipients(h)
           K == {k \in DOMAIN all : /\ all[k].who \notin ownAddresses \cup {Reply!Route(h).who}
                                    /\ \A j \in 1 .. k - 1 : all[j].who # all[k].who}
           cc == Reply!Others(h)
<1>1. all \in Seq(Reply!Address) /\ K \in SUBSET DOMAIN all BY RecipientsFacts
<1>2. cc = Reply!In(K, all) BY DEF Reply!Others
<1>3. /\ cc \in Seq(Reply!Address) /\ Len(cc) = Cardinality(K) /\ Cardinality(K) \in 0 .. Len(all)
      /\ DOMAIN cc = 1 .. Cardinality(K)
      /\ \A n \in DOMAIN cc : Reply!Place(K, n) \in K /\ cc[n] = all[Reply!Place(K, n)]
      /\ \A m, n \in DOMAIN cc : m < n <=> Reply!Place(K, m) < Reply!Place(K, n)
      /\ \A k \in K : \E n \in DOMAIN cc : Reply!Place(K, n) = k
  <2> HIDE DEF all, K, cc
  <2> QED BY <1>1, <1>2, InFacts
<1>4. DOMAIN all = 1 .. Len(all) /\ Len(all) \in Nat BY <1>1
<1>5. Len(cc) \in Nat BY <1>3, <1>4
<1>6. ASSUME NEW i \in DOMAIN cc
      PROVE  /\ \E k \in DOMAIN all : cc[i] = all[k]
             /\ cc[i].who \notin ownAddresses /\ cc[i].who # Reply!Route(h).who
  <2>1. Reply!Place(K, i) \in K /\ cc[i] = all[Reply!Place(K, i)] BY <1>3
  <2> QED BY <2>1
<1>7. ASSUME NEW i \in DOMAIN cc, NEW j \in DOMAIN cc, i < j PROVE cc[i].who # cc[j].who
  <2>1. /\ Reply!Place(K, i) \in K /\ Reply!Place(K, j) \in K
        /\ Reply!Place(K, i) < Reply!Place(K, j)
        /\ cc[i] = all[Reply!Place(K, i)] /\ cc[j] = all[Reply!Place(K, j)]
    BY <1>3, <1>7
  <2>2. Reply!Place(K, i) \in 1 .. Len(all) /\ Reply!Place(K, j) \in 1 .. Len(all) BY <1>4, <2>1
  <2>3. Reply!Place(K, i) \in 1 .. Reply!Place(K, j) - 1
    <3> HIDE DEF K, all, cc
    <3> QED BY <1>4, <2>1, <2>2
  <2> QED BY <2>1, <2>3
<1>8. \A i, j \in DOMAIN cc : cc[i].who = cc[j].who => i = j
  <2>1. \A i \in DOMAIN cc : i \in Nat BY <1>3
  <2> HIDE DEF cc
  <2> QED BY <1>7, <2>1
<1>9. ASSUME NEW k \in DOMAIN all, all[k].who \notin ownAddresses, all[k].who # Reply!Route(h).who
      PROVE  \E i \in DOMAIN cc : cc[i].who = all[k].who
  <2> DEFINE same == {j \in DOMAIN all : all[j].who = all[k].who}
  <2>1. same \in SUBSET Nat /\ k \in same BY <1>4
  <2>2. PICK j \in same : \A n \in same : j <= n
    <3> HIDE DEF same
    <3> QED BY <2>1, LeastNumber
  <2>3. j \in 1 .. Len(all) /\ all[j].who = all[k].who BY <1>4, <2>2
  <2>4. ASSUME NEW n \in 1 .. j - 1 PROVE all[n].who # all[j].who
    <3>1. n \in DOMAIN all /\ ~(j <= n) BY <1>4, <2>3
    <3>2. n \notin same BY <2>2, <3>1
    <3> QED BY <2>3, <3>1, <3>2
  <2>5. j \in K BY <1>4, <1>9, <2>3, <2>4
  <2>6. PICK i \in DOMAIN cc : Reply!Place(K, i) = j BY <1>3, <2>5
  <2>7. cc[i] = all[j] BY <1>3, <2>6
  <2> QED BY <2>3, <2>7
<1>10. DOMAIN cc = 1 .. Len(cc) BY <1>3
<1> HIDE DEF cc
<1> QED BY <1>3, <1>5, <1>6, <1>8, <1>9, <1>10 DEF cc

\* What may be stored of a request under the present configuration is addressed
\* rightly, and its recipients are ones the store accepts.
LEMMA ContentAddressed ==
  ASSUME Reply!Setting, NEW req \in Reply!Request, Reply!HeaderOK(Header[req.msg]),
         Reply!Answerable(req.kind, Header[req.msg])
  PROVE  LET c == Reply!Content(req, Header[req.msg]) IN
         /\ c.to \in Reply!Address /\ c.cc \in Seq(Reply!Address)
         /\ Len(c.cc) + 1 <= MaxRecipients
         /\ \A i, j \in DOMAIN c.cc : c.cc[i].who = c.cc[j].who => i = j
         /\ \A i \in DOMAIN c.cc : c.cc[i].who # c.to.who
         /\ Reply!Addressed(c, req, ownAddresses)
<1> DEFINE h == Header[req.msg]
           c == Reply!Content(req, h)
           all == Reply!Recipients(h)
<1>1. c.to = Reply!Route(h) /\ c.cc = IF req.kind = "reply" THEN <<>> ELSE Reply!Others(h)
  BY DEF Reply!Content
<1>2. Reply!Route(h) \in Reply!Address /\ Reply!Route(h) = Reply!Wanted(h)
  BY RouteIsWanted DEF Reply!Answerable
<1>3. req.kind \in {"reply", "reply-all"} BY DEF Reply!Request, Reply!Kind
<1>4. MaxRecipients \in Nat \ {0} BY DEF Reply!Setting
<1>5. CASE req.kind = "reply"
  <2>1. c.cc = <<>> BY <1>1, <1>5
  <2>2. Reply!Addressed(c, req, ownAddresses) BY <1>1, <1>2, <1>5, <2>1 DEF Reply!Addressed
  <2>3. <<>> \in Seq(Reply!Address) /\ Len(<<>>) + 1 <= MaxRecipients /\ DOMAIN <<>> = {} BY <1>4
  <2> QED BY <1>1, <1>2, <2>1, <2>2, <2>3
<1>6. CASE req.kind = "reply-all"
  <2>1. c.cc = Reply!Others(h) BY <1>1, <1>6
  <2>2. /\ ~Reply!RecipientsInvalid(h) /\ Reply!Route(h).who \notin ownAddresses
        /\ Len(Reply!Others(h)) < MaxRecipients
    BY <1>6 DEF Reply!Answerable
  <2>3. all \in Seq(Reply!Address) /\ all = Reply!List(h.to) \o Reply!List(h.cc)
    BY <2>2, RecipientsFacts
  <2>4. /\ c.cc \in Seq(Reply!Address) /\ Len(c.cc) \in Nat /\ DOMAIN c.cc = 1 .. Len(c.cc)
        /\ \A i \in DOMAIN c.cc : /\ \E k \in DOMAIN all : c.cc[i] = all[k]
                                  /\ c.cc[i].who \notin ownAddresses /\ c.cc[i].who # c.to.who
        /\ \A i, j \in DOMAIN c.cc : c.cc[i].who = c.cc[j].who => i = j
        /\ \A k \in DOMAIN all : all[k].who \notin ownAddresses /\ all[k].who # c.to.who =>
             \E i \in DOMAIN c.cc : c.cc[i].who = all[k].who
    BY <1>1, <2>1, OthersFacts
  <2>5. Len(c.cc) + 1 <= MaxRecipients BY <1>4, <2>1, <2>2, <2>4
  <2> HIDE DEF c, all
  <2> DEFINE whos == {a.who : a \in Reply!ToSet(c.cc)}
             them == {a.who : a \in Reply!ToSet(all)}
  <2>6. \A x : x \in whos <=> \E i \in DOMAIN c.cc : x = c.cc[i].who BY DEF Reply!ToSet
  <2>7. \A x : x \in them <=> \E k \in DOMAIN all : x = all[k].who BY DEF Reply!ToSet
  <2>8. Reply!Reached(c) = {c.to.who} \cup whos BY DEF Reply!Reached
  <2>9. Reply!Reached(c) = ({c.to.who} \cup them) \ ownAddresses
    <3> HIDE DEF whos, them
    <3>1. ASSUME NEW x \in whos PROVE x \in them /\ x \notin ownAddresses BY <2>4, <2>6, <2>7
    <3>2. ASSUME NEW x \in them, x \notin ownAddresses, x # c.to.who
          PROVE  x \in whos BY <2>4, <2>6, <2>7, <3>2
    <3>3. c.to.who \notin ownAddresses BY <1>1, <2>2 DEF c
    <3> QED BY <2>8, <3>1, <3>2, <3>3
  <2>10. Cardinality(Reply!Reached(c)) = Len(c.cc) + 1
    <3> DEFINE f == [i \in 0 .. Len(c.cc) |-> IF i = 0 THEN c.to.who ELSE c.cc[i].who]
    <3>1. \A i \in 0 .. Len(c.cc) : i # 0 => i \in DOMAIN c.cc BY <2>4
    <3>2. \A i \in DOMAIN c.cc : i \in 0 .. Len(c.cc) /\ i # 0 BY <2>4
    <3>3. \A i \in 0 .. Len(c.cc) : f[i] \in Reply!Reached(c) BY <2>6, <2>8, <3>1
    <3>4. \A i, j \in 0 .. Len(c.cc) : f[i] = f[j] => i = j BY <2>4, <3>1
    <3>5. ASSUME NEW x \in Reply!Reached(c) PROVE \E i \in 0 .. Len(c.cc) : f[i] = x
      <4>1. CASE x = c.to.who
        <5>1. 0 \in 0 .. Len(c.cc) BY <2>4
        <5> QED BY <4>1, <5>1
      <4>2. CASE x \in whos
        <5>1. PICK i \in DOMAIN c.cc : x = c.cc[i].who BY <2>6, <4>2
        <5> QED BY <3>2, <5>1
      <4> QED BY <2>8, <4>1, <4>2
    <3>6. ExistsBijection(0 .. Len(c.cc), Reply!Reached(c))
      <4>1. f \in [0 .. Len(c.cc) -> Reply!Reached(c)] BY <3>3
      <4> HIDE DEF f
      <4> QED BY <3>4, <3>5, <4>1 DEF ExistsBijection, Bijection, Injection, Surjection, IsInjective
    <3>7. IsFiniteSet(0 .. Len(c.cc)) /\ Cardinality(0 .. Len(c.cc)) = Len(c.cc) + 1
      <4>1. IsFiniteSet(0 .. Len(c.cc)) /\ Cardinality(0 .. Len(c.cc)) = Len(c.cc) - 0 + 1
        BY <2>4, FS_Interval
      <4> QED BY <2>4, <4>1
    <3> QED BY <3>6, <3>7, FS_Bijection
  <2>11. Reply!Addressed(c, req, ownAddresses)
    <3>1. c.to = Reply!Wanted(h) /\ Reply!Wanted(h).who \notin ownAddresses
      BY <1>1, <1>2, <2>2 DEF c
    <3> HIDE DEF h
    <3> QED BY <1>6, <2>3, <2>9, <2>10, <3>1, SameCardinality DEF Reply!Addressed, h, all
  <2> QED BY <1>1, <1>2, <2>4, <2>5, <2>11 DEF c
<1> QED BY <1>3, <1>5, <1>6

-----------------------------------------------------------------------------
(* Replies: the chain *)

\* t names what s begins with, in order and without repetition, but for what lists drop.
Lists(t, s) ==
  \A i \in DOMAIN t : \E n \in DOMAIN s :
    /\ s[n] = t[i]
    /\ \A k \in 1 .. n - 1 : s[k] \in Dropped \/ \E m \in 1 .. i - 1 : s[k] = t[m]

\* Places that leave out only what is dropped or what an earlier of them has, name
\* what the sequence begins with.
LEMMA InLists ==
  ASSUME NEW S, NEW s \in Seq(S), NEW K \in SUBSET DOMAIN s,
         \A n \in K : \A k \in 1 .. n - 1 :
           s[k] \in Dropped \/ \E j \in K : j < n /\ s[j] = s[k]
  PROVE  Lists(Reply!In(K, s), s)
<1> DEFINE t == Reply!In(K, s)
<1>1. /\ t \in Seq(S) /\ DOMAIN t = 1 .. Cardinality(K) /\ Cardinality(K) \in 0 .. Len(s)
      /\ \A n \in DOMAIN t : Reply!Place(K, n) \in K /\ t[n] = s[Reply!Place(K, n)]
      /\ \A m, n \in DOMAIN t : m < n <=> Reply!Place(K, m) < Reply!Place(K, n)
      /\ \A k \in K : \E n \in DOMAIN t : Reply!Place(K, n) = k
  BY InFacts
<1> HIDE DEF t
<1> SUFFICES ASSUME NEW i \in DOMAIN t
             PROVE  /\ Reply!Place(K, i) \in DOMAIN s /\ s[Reply!Place(K, i)] = t[i]
                    /\ \A k \in 1 .. Reply!Place(K, i) - 1 :
                           s[k] \in Dropped \/ \E m \in 1 .. i - 1 : s[k] = t[m]
  BY DEF Lists, t
<1>2. Reply!Place(K, i) \in K /\ t[i] = s[Reply!Place(K, i)] BY <1>1
<1>3. ASSUME NEW k \in 1 .. Reply!Place(K, i) - 1, s[k] \notin Dropped
      PROVE  \E m \in 1 .. i - 1 : s[k] = t[m]
  <2>1. PICK j \in K : j < Reply!Place(K, i) /\ s[j] = s[k] BY <1>2, <1>3
  <2>2. PICK m \in DOMAIN t : Reply!Place(K, m) = j BY <1>1
  <2>3. m < i /\ t[m] = s[k] BY <1>1, <2>1, <2>2
  <2>4. Cardinality(K) \in Nat BY <1>1
  <2>5. m \in 1 .. i - 1 BY <1>1, <2>3, <2>4
  <2> QED BY <2>3, <2>5
<1> QED BY <1>2, <1>3

\* What is named of a list that is itself named of another.
LEMMA ListsTransitive ==
  ASSUME NEW S, NEW t, NEW s \in Seq(S), NEW u, Lists(t, s), Lists(s, u)
  PROVE  Lists(t, u)
<1> SUFFICES ASSUME NEW i \in DOMAIN t
             PROVE  \E n \in DOMAIN u :
                      /\ u[n] = t[i]
                      /\ \A k \in 1 .. n - 1 :
                             u[k] \in Dropped \/ \E m \in 1 .. i - 1 : u[k] = t[m]
  BY DEF Lists
<1>1. PICK q \in DOMAIN s : /\ s[q] = t[i]
                            /\ \A k \in 1 .. q - 1 :
                                   s[k] \in Dropped \/ \E m \in 1 .. i - 1 : s[k] = t[m]
  BY DEF Lists
<1>2. PICK n \in DOMAIN u : /\ u[n] = s[q]
                            /\ \A k \in 1 .. n - 1 :
                                   u[k] \in Dropped \/ \E m \in 1 .. q - 1 : u[k] = s[m]
  BY DEF Lists
<1>3. ASSUME NEW k \in 1 .. n - 1, u[k] \notin Dropped PROVE \E m \in 1 .. i - 1 : u[k] = t[m]
  <2>1. PICK m \in 1 .. q - 1 : u[k] = s[m] BY <1>2, <1>3
  <2> QED BY <1>1, <1>3, <2>1
<1> QED BY <1>1, <1>2, <1>3

\* What of a header is kept: identifiers that are whole, each once.
LEMMA CutFacts ==
  ASSUME NEW ids \in Seq(Ids)
  PROVE  Reply!Cut(ids) \in Seq(Ids) /\ Lists(Reply!Cut(ids), ids)
<1> DEFINE K == {k \in DOMAIN ids :
                   \A j \in 1 .. k : Reply!Characters(SubSeq(ids, 1, j)) <= MaxHeader}
<1>1. K \in SUBSET DOMAIN ids /\ DOMAIN ids = 1 .. Len(ids) /\ Len(ids) \in Nat OBVIOUS
<1>2. ASSUME NEW n \in K, NEW k \in 1 .. n - 1 PROVE k \in K /\ k < n
  <2>1. n \in Nat /\ k \in DOMAIN ids /\ k < n BY <1>1
  <2>2. \A j \in 1 .. k : j \in 1 .. n BY <2>1
  <2> QED BY <2>1, <2>2
<1>3. \A n \in K : \A k \in 1 .. n - 1 : \E j \in K : j < n /\ ids[j] = ids[k]
  <2> HIDE DEF K
  <2> QED BY <1>2
<1>4. Reply!Cut(ids) = Reply!In(K, ids) BY DEF Reply!Cut
<1> HIDE DEF K
<1> QED BY <1>1, <1>3, <1>4, InFacts, InLists

\* Identifiers each once, where they stand first.
LEMMA DistinctFacts ==
  ASSUME NEW ids \in Seq(Ids)
  PROVE  /\ Reply!Distinct(ids) \in Seq(Ids) /\ Lists(Reply!Distinct(ids), ids)
         /\ Reply!IsInjective(Reply!Distinct(ids))
<1> DEFINE K == {k \in DOMAIN ids : \A j \in 1 .. k - 1 : ids[j] # ids[k]}
           t == Reply!Distinct(ids)
<1>1. K \in SUBSET DOMAIN ids /\ DOMAIN ids = 1 .. Len(ids) /\ Len(ids) \in Nat OBVIOUS
<1>2. ASSUME NEW n \in K, NEW k \in 1 .. n - 1 PROVE \E j \in K : j < n /\ ids[j] = ids[k]
  <2> DEFINE same == {j \in DOMAIN ids : ids[j] = ids[k]}
  <2>1. k \in DOMAIN ids /\ k < n /\ n \in Nat BY <1>1
  <2>2. same \in SUBSET Nat /\ k \in same BY <1>1, <2>1
  <2>3. PICK j \in same : \A m \in same : j <= m
    <3> HIDE DEF same
    <3> QED BY <2>2, LeastNumber
  <2>4. j \in 1 .. Len(ids) /\ ids[j] = ids[k] /\ j <= k BY <1>1, <2>2, <2>3
  <2>5. ASSUME NEW m \in 1 .. j - 1 PROVE ids[m] # ids[j]
    <3>1. m \in DOMAIN ids /\ ~(j <= m) BY <1>1, <2>4
    <3>2. m \notin same BY <2>3, <3>1
    <3> QED BY <2>4, <3>1, <3>2
  <2>6. j \in K BY <1>1, <2>4, <2>5
  <2>7. j < n BY <2>1, <2>4
  <2> QED BY <2>4, <2>6, <2>7
<1>3. t = Reply!In(K, ids) BY DEF Reply!Distinct
<1>4. /\ t \in Seq(Ids) /\ DOMAIN t = 1 .. Cardinality(K) /\ Cardinality(K) \in 0 .. Len(ids)
      /\ \A n \in DOMAIN t : Reply!Place(K, n) \in K /\ t[n] = ids[Reply!Place(K, n)]
      /\ \A m, n \in DOMAIN t : m < n <=> Reply!Place(K, m) < Reply!Place(K, n)
  <2> HIDE DEF K, t
  <2> QED BY <1>1, <1>3, InFacts
<1>5. ASSUME NEW i \in DOMAIN t, NEW j \in DOMAIN t, i < j PROVE t[i] # t[j]
  <2>1. /\ Reply!Place(K, i) \in K /\ Reply!Place(K, j) \in K
        /\ Reply!Place(K, i) < Reply!Place(K, j)
        /\ t[i] = ids[Reply!Place(K, i)] /\ t[j] = ids[Reply!Place(K, j)]
    BY <1>4, <1>5
  <2>2. Reply!Place(K, i) \in 1 .. Reply!Place(K, j) - 1 BY <1>1, <2>1
  <2> QED BY <2>1, <2>2
<1>6. \A i \in DOMAIN t : i \in Nat BY <1>4
<1> HIDE DEF K, t
<1>7. Reply!IsInjective(t) BY <1>5, <1>6 DEF Reply!IsInjective
<1>8. Lists(t, ids) BY <1>1, <1>2, <1>3, InLists
<1> QED BY <1>4, <1>7, <1>8 DEF t

\* What can be read of a header is all of it but what lists drop.
LEMMA ReadableFacts ==
  ASSUME NEW ids \in Seq(Ids)
  PROVE  /\ Reply!Readable(ids) \in Seq(Ids) /\ Lists(Reply!Readable(ids), ids)
         /\ \A i \in DOMAIN Reply!Readable(ids) : Reply!Readable(ids)[i] \notin Dropped
<1> DEFINE K == {k \in DOMAIN ids : ids[k] \notin Dropped}
<1>1. K \in SUBSET DOMAIN ids /\ DOMAIN ids = 1 .. Len(ids) /\ Len(ids) \in Nat OBVIOUS
<1>2. ASSUME NEW n \in K, NEW k \in 1 .. n - 1, ids[k] \notin Dropped PROVE k \in K /\ k < n
  <2>1. k \in DOMAIN ids /\ k < n BY <1>1
  <2> QED BY <1>2, <2>1
<1>3. \A n \in K : \A k \in 1 .. n - 1 :
        ids[k] \in Dropped \/ \E j \in K : j < n /\ ids[j] = ids[k]
  <2> HIDE DEF K
  <2> QED BY <1>2
<1>4. Reply!Readable(ids) = Reply!In(K, ids) BY DEF Reply!Readable
<1>5. \A k \in K : ids[k] \notin Dropped OBVIOUS
<1> HIDE DEF K
<1>6. /\ Reply!In(K, ids) \in Seq(Ids)
      /\ \A n \in DOMAIN Reply!In(K, ids) :
           Reply!Place(K, n) \in K /\ Reply!In(K, ids)[n] = ids[Reply!Place(K, n)]
  BY <1>1, InFacts
<1>7. Lists(Reply!In(K, ids), ids) BY <1>1, <1>3, InLists
<1> QED BY <1>4, <1>5, <1>6, <1>7

\* parse_message_ids names what the header begins with, each identifier once, but for
\* those that lists drop.
LEMMA ParsedFacts ==
  ASSUME Reply!Setting, NEW ids \in Seq(Ids)
  PROVE  /\ Reply!Parsed(ids) \in Seq(Ids) /\ Lists(Reply!Parsed(ids), ids)
         /\ Reply!IsInjective(Reply!Parsed(ids))
         /\ \A i \in DOMAIN Reply!Parsed(ids) : Reply!Parsed(ids)[i] \notin Dropped
<1> DEFINE kept == Reply!Readable(Reply!Cut(ids))
           all == Reply!Distinct(kept)
           n == IF Len(all) < MaxIds THEN Len(all) ELSE MaxIds
           t == SubSeq(all, 1, n)
<1>1. Reply!Cut(ids) \in Seq(Ids) /\ Lists(Reply!Cut(ids), ids) BY CutFacts
<1>2. /\ kept \in Seq(Ids) /\ Lists(kept, Reply!Cut(ids))
      /\ \A i \in DOMAIN kept : kept[i] \notin Dropped
  BY <1>1, ReadableFacts
<1>3. /\ all \in Seq(Ids) /\ Lists(all, ids) /\ Reply!IsInjective(all)
      /\ \A i \in DOMAIN all : all[i] \notin Dropped
  <2> HIDE DEF kept
  <2>1. all \in Seq(Ids) /\ Lists(all, kept) /\ Reply!IsInjective(all) BY <1>2, DistinctFacts
  <2> HIDE DEF all
  <2>2. Lists(all, Reply!Cut(ids)) BY <1>1, <1>2, <2>1, ListsTransitive
  <2>3. \A i \in DOMAIN all : all[i] \notin Dropped BY <1>2, <2>1 DEF Lists
  <2>4. Lists(all, ids) BY <1>1, <2>1, <2>2, ListsTransitive
  <2> QED BY <2>1, <2>3, <2>4
<1>4. Reply!Parsed(ids) = t BY DEF Reply!Parsed
<1>5. MaxIds \in Nat BY DEF Reply!Setting
<1> HIDE DEF all
<1>6. n \in 0 .. Len(all) /\ Len(all) \in Nat /\ DOMAIN all = 1 .. Len(all) BY <1>3, <1>5
<1> HIDE DEF n
<1>7. /\ t \in Seq(Ids) /\ Len(t) = n
      /\ \A i \in 1 .. n : t[i] = all[i]
  <2>1. \A i \in 1 .. n : i \in 1 .. Len(all) BY <1>6
  <2> QED BY <1>3, <1>6, <2>1, SubSeqProperties
<1>8. DOMAIN t = 1 .. n BY <1>7
<1> HIDE DEF t
<1>9. Reply!IsInjective(t)
  <2>1. \A i \in DOMAIN t : i \in DOMAIN all /\ t[i] = all[i] BY <1>6, <1>7, <1>8
  <2> QED BY <1>3, <2>1 DEF Reply!IsInjective
<1>10. Lists(t, ids)
  <2> SUFFICES ASSUME NEW i \in DOMAIN t
               PROVE  \E m \in DOMAIN ids :
                        /\ ids[m] = t[i]
                        /\ \A k \in 1 .. m - 1 :
                               ids[k] \in Dropped \/ \E j \in 1 .. i - 1 : ids[k] = t[j]
    BY DEF Lists
  <2>1. i \in DOMAIN all /\ t[i] = all[i] /\ i \in 1 .. n BY <1>6, <1>7, <1>8
  <2>2. \A j \in 1 .. i - 1 : t[j] = all[j]
    <3>1. \A j \in 1 .. i - 1 : j \in 1 .. n BY <1>6, <2>1
    <3> QED BY <1>7, <3>1
  <2>3. PICK m \in DOMAIN ids :
          /\ ids[m] = all[i]
          /\ \A k \in 1 .. m - 1 : ids[k] \in Dropped \/ \E j \in 1 .. i - 1 : ids[k] = all[j]
    BY <1>3, <2>1 DEF Lists
  <2> QED BY <2>1, <2>2, <2>3
<1>11. \A i \in DOMAIN t : t[i] \notin Dropped BY <1>3, <1>6, <1>7, <1>8
<1> QED BY <1>4, <1>7, <1>9, <1>10, <1>11

\* The ancestors are those of the header they are taken from, and may be repeated.
LEMMA AncestorsFacts ==
  ASSUME Reply!Setting, NEW h, Reply!HeaderOK(h)
  PROVE  /\ Reply!Ancestors(h) \in Seq(Ids) /\ Reply!IsInjective(Reply!Ancestors(h))
         /\ Lists(Reply!Ancestors(h), Reply!Source(h))
         /\ \A i \in DOMAIN Reply!Ancestors(h) : Reply!Ancestors(h)[i] \notin Odd \cup Dropped
<1> DEFINE named == Reply!Parsed(h.refs)
           fallback == Reply!Parsed(h.inReplyTo)
           ids == IF named # <<>> THEN named ELSE IF Len(fallback) = 1 THEN fallback ELSE <<>>
<1>1. h.refs \in Seq(Ids) /\ h.inReplyTo \in Seq(Ids) BY DEF Reply!HeaderOK
<1>2. /\ named \in Seq(Ids) /\ Lists(named, h.refs) /\ Reply!IsInjective(named)
      /\ fallback \in Seq(Ids) /\ Lists(fallback, h.inReplyTo) /\ Reply!IsInjective(fallback)
      /\ \A i \in DOMAIN named : named[i] \notin Dropped
      /\ \A i \in DOMAIN fallback : fallback[i] \notin Dropped
  BY <1>1, ParsedFacts
<1>3. <<>> \in Seq(Ids) /\ Reply!IsInjective(<<>>) /\ \A s : Lists(<<>>, s)
  <2>1. <<>> \in Seq(Ids) /\ DOMAIN <<>> = {} OBVIOUS
  <2> QED BY <2>1 DEF Reply!IsInjective, Lists
<1>4. /\ ids \in Seq(Ids) /\ Reply!IsInjective(ids) /\ Lists(ids, Reply!Source(h))
      /\ \A i \in DOMAIN ids : ids[i] \notin Dropped
  <2>1. Reply!Source(h) = IF named # <<>> THEN h.refs ELSE h.inReplyTo BY DEF Reply!Source
  <2> HIDE DEF named, fallback
  <2> QED BY <1>2, <1>3, <2>1
<1>5. Reply!Ancestors(h) = IF Reply!ToSet(ids) \cap Odd # {} THEN <<>> ELSE ids
  BY DEF Reply!Ancestors
<1> HIDE DEF ids
<1>6. CASE Reply!ToSet(ids) \cap Odd # {}
  <2>1. Reply!Ancestors(h) = <<>> /\ DOMAIN <<>> = {} BY <1>5, <1>6
  <2> QED BY <1>3, <2>1
<1>7. CASE Reply!ToSet(ids) \cap Odd = {}
  <2>1. Reply!Ancestors(h) = ids BY <1>5, <1>7
  <2>2. \A i \in DOMAIN ids : ids[i] \in Reply!ToSet(ids) BY DEF Reply!ToSet
  <2> QED BY <1>4, <1>7, <2>1, <2>2
<1> QED BY <1>6, <1>7

\* A chain that is too long keeps its first and its nearest, in their order.
LEMMA ShortenedFacts ==
  ASSUME Reply!Setting, NEW S, NEW chain \in Seq(S)
  PROVE  LET t == Reply!Shortened(chain) IN
         /\ t \in Seq(S) /\ Len(t) \in Nat /\ Len(t) <= MaxChain
         /\ t = <<>> => chain = <<>>
         /\ \E e \in [DOMAIN t -> DOMAIN chain] :
              /\ \A i \in DOMAIN t : t[i] = chain[e[i]]
              /\ \A i, j \in DOMAIN t : i < j => e[i] < e[j]
              /\ t # <<>> => e[1] = 1 /\ e[Len(t)] = Len(chain)
<1> DEFINE t == Reply!Shortened(chain)
           M == MaxChain
           L == Len(chain)
<1>1. M \in Nat /\ M >= 2 /\ L \in Nat /\ DOMAIN chain = 1 .. L BY DEF Reply!Setting
<1>2. CASE L <= M
  <2>1. t = chain BY <1>2 DEF Reply!Shortened
  <2> DEFINE e == [i \in DOMAIN t |-> i]
  <2>2. e \in [DOMAIN t -> DOMAIN chain] BY <2>1
  <2>3. t # <<>> => 1 \in DOMAIN t /\ L \in DOMAIN t BY <1>1, <2>1
  <2>4. /\ \A i \in DOMAIN t : t[i] = chain[e[i]]
        /\ \A i, j \in DOMAIN t : i < j => e[i] < e[j]
        /\ t # <<>> => e[1] = 1 /\ e[Len(t)] = L
    BY <2>1, <2>3
  <2> HIDE DEF e
  <2>5. \E f \in [DOMAIN t -> DOMAIN chain] :
              /\ \A i \in DOMAIN t : t[i] = chain[f[i]]
              /\ \A i, j \in DOMAIN t : i < j => f[i] < f[j]
              /\ t # <<>> => f[1] = 1 /\ f[Len(t)] = Len(chain)
    BY <2>2, <2>4
  <2> QED BY <1>1, <1>2, <2>1, <2>5
<1>3. CASE ~(L <= M)
  <2> DEFINE near == SubSeq(chain, L - M + 2, L)
             d == L - M
             e == [i \in 1 .. M |-> IF i = 1 THEN 1 ELSE i + d]
  <2>0. d \in Nat /\ d >= 1 /\ L - M + 2 \in 1 .. L BY <1>1, <1>3
  <2>1. /\ near \in Seq(S) /\ Len(near) = M - 1
        /\ \A i \in 1 .. M - 1 : near[i] = chain[i + d + 1]
    <3>1. \A i \in L - M + 2 .. L : i \in 1 .. L BY <1>1, <2>0
    <3>2. /\ near \in Seq(S)
          /\ Len(near) = IF L - M + 2 <= L THEN L - (L - M + 2) + 1 ELSE 0
          /\ \A i \in 1 .. L - (L - M + 2) + 1 : near[i] = chain[L - M + 2 + i - 1]
      BY <1>1, <2>0, <3>1, SubSeqProperties
    <3>3. L - (L - M + 2) + 1 = M - 1 /\ L - M + 2 <= L BY <1>1
    <3>4. \A i \in 1 .. M - 1 : L - M + 2 + i - 1 = i + d + 1 BY <1>1
    <3> HIDE DEF near, d
    <3> QED BY <3>2, <3>3, <3>4
  <2>2. chain[1] \in S /\ t = <<chain[1]>> \o near BY <1>1, <1>3 DEF Reply!Shortened
  <2>3. /\ t \in Seq(S) /\ Len(t) = M
        /\ t[1] = chain[1] /\ \A i \in 2 .. M : t[i] = chain[i + d]
    <3> HIDE DEF near, t
    <3>1. <<chain[1]>> \in Seq(S) /\ Len(<<chain[1]>>) = 1 BY <2>2
    <3>2. /\ t \in Seq(S) /\ Len(t) = 1 + Len(near)
          /\ \A i \in 1 .. Len(t) : t[i] = IF i <= 1 THEN <<chain[1]>>[i] ELSE near[i - 1]
      BY <2>1, <2>2, <3>1, ConcatProperties
    <3>3. Len(t) = M BY <1>1, <2>1, <3>2
    <3>4. t[1] = chain[1] BY <1>1, <3>2, <3>3
    <3>5. ASSUME NEW i \in 2 .. M PROVE t[i] = chain[i + d]
      <4>1. i \in 1 .. Len(t) /\ ~(i <= 1) /\ i - 1 \in 1 .. M - 1 BY <1>1, <3>3
      <4>2. t[i] = near[i - 1] BY <3>2, <4>1
      <4>3. near[i - 1] = chain[(i - 1) + d + 1] BY <2>1, <4>1
      <4>4. (i - 1) + d + 1 = i + d BY <2>0
      <4> QED BY <4>2, <4>3, <4>4
    <3> QED BY <3>2, <3>3, <3>4, <3>5
  <2>4. DOMAIN t = 1 .. M BY <2>3
  <2>5. \A i \in 1 .. M : e[i] \in 1 .. L
    <3> SUFFICES ASSUME NEW i \in 1 .. M PROVE (IF i = 1 THEN 1 ELSE i + d) \in 1 .. L OBVIOUS
    <3> QED BY <1>1, <1>3
  <2>6. \A i \in 1 .. M : t[i] = chain[e[i]]
    <3> SUFFICES ASSUME NEW i \in 1 .. M PROVE t[i] = chain[IF i = 1 THEN 1 ELSE i + d] OBVIOUS
    <3> HIDE DEF t, d
    <3> QED BY <1>1, <2>3
  <2>7. \A i, j \in 1 .. M : i < j => e[i] < e[j] BY <1>1, <2>0
  <2>8. e[1] = 1 /\ e[M] = L BY <1>1
  <2>9. e \in [1 .. M -> 1 .. L] BY <2>5
  <2> HIDE DEF e, t, d
  <2>10. \E f \in [DOMAIN t -> DOMAIN chain] :
              /\ \A i \in DOMAIN t : t[i] = chain[f[i]]
              /\ \A i, j \in DOMAIN t : i < j => f[i] < f[j]
              /\ t # <<>> => f[1] = 1 /\ f[Len(t)] = Len(chain)
    BY <1>1, <2>3, <2>4, <2>6, <2>7, <2>8, <2>9
  <2>11. t # <<>> BY <1>1, <2>3
  <2>12. /\ t \in Seq(S) /\ Len(t) \in Nat /\ Len(t) <= M
         /\ t = <<>> => chain = <<>>
    BY <1>1, <2>3, <2>11
  <2> QED BY <2>10, <2>12 DEF t
<1> QED BY <1>2, <1>3

\* The chain before it is shortened: other ancestors in the order of the source, and
\* then the parent.
LEMMA ChainFacts ==
  ASSUME Reply!Setting, NEW h, Reply!HeaderOK(h)
  PROVE  \E chain \in Seq(Ids) :
           /\ Reply!References(h) = Reply!Shortened(chain)
           /\ Reply!IsInjective(chain)
           /\ \A i \in DOMAIN chain : /\ chain[i] \notin Odd
                                      /\ chain[i] # Reply!Parent(h) => chain[i] \notin Dropped
                                      /\ i # Len(chain) => chain[i] # Reply!Parent(h)
           /\ Reply!Parent(h) # None => chain # <<>> /\ chain[Len(chain)] = Reply!Parent(h)
           /\ \A i \in DOMAIN chain : chain[i] # Reply!Parent(h) =>
                \E n \in DOMAIN Reply!Source(h) :
                  /\ Reply!Source(h)[n] = chain[i]
                  /\ \A k \in 1 .. n - 1 :
                         Reply!Source(h)[k] \in Dropped \cup {Reply!Parent(h)}
                              \/ \E m \in 1 .. i - 1 : Reply!Source(h)[k] = chain[m]
<1> DEFINE ids == Reply!Ancestors(h)
           p == Reply!Parent(h)
           K == {k \in DOMAIN ids : ids[k] # p}
           others == Reply!In(K, ids)
           s == Reply!Source(h)
           Follows(t) ==
             \A i \in DOMAIN t : t[i] # p =>
               \E n \in DOMAIN s :
                 /\ s[n] = t[i]
                 /\ \A k \in 1 .. n - 1 :
                        s[k] \in Dropped \cup {p} \/ \E m \in 1 .. i - 1 : s[k] = t[m]
<1>1. /\ ids \in Seq(Ids) /\ Reply!IsInjective(ids) /\ Lists(ids, s)
      /\ \A i \in DOMAIN ids : ids[i] \notin Odd \cup Dropped
  BY AncestorsFacts
<1>2. K \in SUBSET DOMAIN ids /\ DOMAIN ids = 1 .. Len(ids) /\ Len(ids) \in Nat BY <1>1
<1>3. /\ others \in Seq(Ids) /\ Len(others) = Cardinality(K) /\ Cardinality(K) \in 0 .. Len(ids)
      /\ DOMAIN others = 1 .. Cardinality(K)
      /\ \A n \in DOMAIN others : Reply!Place(K, n) \in K /\ others[n] = ids[Reply!Place(K, n)]
      /\ \A m, n \in DOMAIN others : m < n <=> Reply!Place(K, m) < Reply!Place(K, n)
      /\ \A k \in K : \E n \in DOMAIN others : Reply!Place(K, n) = k
  <2> HIDE DEF K, ids
  <2> QED BY <1>1, <1>2, InFacts
<1>4. Reply!References(h) = Reply!Shortened(IF p = None THEN others ELSE Append(others, p))
  BY DEF Reply!References
<1>5. ASSUME NEW i \in DOMAIN others PROVE others[i] # p /\ others[i] \notin Odd \cup Dropped
  <2>1. Reply!Place(K, i) \in K /\ others[i] = ids[Reply!Place(K, i)] BY <1>3
  <2> HIDE DEF others
  <2> QED BY <1>1, <2>1
<1>6. Reply!IsInjective(others)
  <2> SUFFICES ASSUME NEW i \in DOMAIN others, NEW j \in DOMAIN others, others[i] = others[j]
               PROVE  i = j
    BY DEF Reply!IsInjective
  <2>1. /\ Reply!Place(K, i) \in DOMAIN ids /\ others[i] = ids[Reply!Place(K, i)]
        /\ Reply!Place(K, j) \in DOMAIN ids /\ others[j] = ids[Reply!Place(K, j)]
    BY <1>3
  <2>2. Reply!Place(K, i) = Reply!Place(K, j)
    <3> HIDE DEF others, ids, K
    <3> QED BY <1>1, <2>1 DEF Reply!IsInjective
  <2>3. Reply!Place(K, i) \in Nat BY <1>2, <2>1
  <2>4. ~(Reply!Place(K, i) < Reply!Place(K, j)) /\ ~(Reply!Place(K, j) < Reply!Place(K, i))
    BY <2>2, <2>3
  <2>5. ~(i < j) /\ ~(j < i) BY <1>3, <2>4
  <2>6. i \in Nat /\ j \in Nat BY <1>3
  <2> QED BY <2>5, <2>6
<1>7. Follows(others)
  <2> SUFFICES ASSUME NEW i \in DOMAIN others
               PROVE  \E n \in DOMAIN s :
                        /\ s[n] = others[i]
                        /\ \A k \in 1 .. n - 1 :
                               s[k] \in Dropped \cup {p} \/ \E m \in 1 .. i - 1 : s[k] = others[m]
    OBVIOUS
  <2>1. Reply!Place(K, i) \in DOMAIN ids /\ others[i] = ids[Reply!Place(K, i)] BY <1>3
  <2>2. PICK n \in DOMAIN s : /\ s[n] = ids[Reply!Place(K, i)]
                              /\ \A k \in 1 .. n - 1 :
                                     \/ s[k] \in Dropped
                                     \/ \E m \in 1 .. Reply!Place(K, i) - 1 : s[k] = ids[m]
    <3> HIDE DEF ids, s, K
    <3> QED BY <1>1, <2>1 DEF Lists
  <2>3. ASSUME NEW k \in 1 .. n - 1, s[k] \notin Dropped \cup {p}
        PROVE  \E m \in 1 .. i - 1 : s[k] = others[m]
    <3>1. PICK q \in 1 .. Reply!Place(K, i) - 1 : s[k] = ids[q] BY <2>2, <2>3
    <3>2. q \in K /\ q < Reply!Place(K, i) BY <1>2, <2>1, <2>3, <3>1
    <3>3. PICK m \in DOMAIN others : Reply!Place(K, m) = q BY <1>3, <3>2
    <3>4. m < i /\ others[m] = s[k] BY <1>3, <3>1, <3>2, <3>3
    <3>5. m \in 1 .. i - 1
      <4>1. Cardinality(K) \in Nat BY <1>2, <1>3
      <4> QED BY <1>3, <3>4, <4>1
    <3> QED BY <3>4, <3>5
  <2> QED BY <2>1, <2>2, <2>3
<1>8. Len(others) \in Nat /\ DOMAIN others = 1 .. Len(others) BY <1>2, <1>3
<1> HIDE DEF others, K
<1>9. CASE p = None
  <2>1. Reply!References(h) = Reply!Shortened(others) BY <1>4, <1>9
  <2>2. others \in Seq(Ids) BY <1>3
  <2> WITNESS others \in Seq(Ids)
  <2> QED BY <1>5, <1>6, <1>7, <1>9, <2>1
<1>10. CASE p # None
  <2> DEFINE chain == Append(others, p)
  <2>1. Reply!References(h) = Reply!Shortened(chain) BY <1>4, <1>10
  <2>2. p \in Ids \ Odd BY <1>10 DEF Reply!Parent
  <2>3. /\ chain \in Seq(Ids) /\ chain # <<>> /\ Len(chain) = Len(others) + 1
        /\ \A i \in 1 .. Len(others) : chain[i] = others[i]
        /\ chain[Len(others) + 1] = p
    BY <1>3, <2>2, AppendProperties
  <2> HIDE DEF chain
  <2>4. DOMAIN chain = 1 .. Len(others) + 1 BY <1>8, <2>3
  <2>5. ASSUME NEW i \in DOMAIN chain
        PROVE  (i \in DOMAIN others /\ chain[i] = others[i]) \/ (i = Len(chain) /\ chain[i] = p)
    <3>1. i \in 1 .. Len(others) \/ i = Len(others) + 1 BY <1>8, <2>4
    <3> QED BY <1>8, <2>3, <3>1
  <2>6. Len(chain) \notin DOMAIN others BY <1>8, <2>3
  <2>7. Reply!IsInjective(chain) BY <1>5, <1>6, <2>5 DEF Reply!IsInjective
  <2>8. \A i \in DOMAIN chain : /\ chain[i] \notin Odd
                                /\ chain[i] # p => chain[i] \notin Dropped
                                /\ i # Len(chain) => chain[i] # p
    BY <1>5, <2>2, <2>5
  <2>9. Follows(chain)
    <3> SUFFICES ASSUME NEW i \in DOMAIN chain, chain[i] # p
                 PROVE  \E n \in DOMAIN s :
                          /\ s[n] = chain[i]
                          /\ \A k \in 1 .. n - 1 :
                                 s[k] \in Dropped \cup {p} \/ \E m \in 1 .. i - 1 : s[k] = chain[m]
      OBVIOUS
    <3>1. i \in DOMAIN others /\ chain[i] = others[i] BY <2>5
    <3>2. PICK n \in DOMAIN s : /\ s[n] = others[i]
                                /\ \A k \in 1 .. n - 1 :
                                       \/ s[k] \in Dropped \cup {p}
                                       \/ \E m \in 1 .. i - 1 : s[k] = others[m]
      BY <1>5, <1>7, <3>1
    <3>3. \A m \in 1 .. i - 1 : chain[m] = others[m]
      <4>1. \A m \in 1 .. i - 1 : m \in 1 .. Len(others) BY <1>8, <3>1
      <4> QED BY <2>3, <4>1
    <3> QED BY <3>1, <3>2, <3>3
  <2>10. chain \in Seq(Ids) BY <2>3
  <2> WITNESS chain \in Seq(Ids)
  <2> HIDE DEF Follows
  <2> QED BY <2>1, <2>3, <2>7, <2>8, <2>9 DEF Follows
<1> QED BY <1>9, <1>10

\* The reply headers of a message are in order, and ones the store accepts.
LEMMA ReferencesFacts ==
  ASSUME Reply!Setting, NEW h, Reply!HeaderOK(h), NEW content, content.refs = Reply!References(h),
         content.parent = Reply!Parent(h)
  PROVE  /\ Reply!Threaded(content, h)
         /\ Reply!References(h) \in Seq(Ids) /\ Reply!Parent(h) \in Ids \cup {None}
         /\ Len(Reply!References(h)) <= MaxChain
         /\ Reply!IsInjective(Reply!References(h)) /\ Reply!ToSet(Reply!References(h)) \cap Odd = {}
<1> DEFINE t == Reply!References(h)
           p == Reply!Parent(h)
           s == Reply!Source(h)
<1>1. PICK chain \in Seq(Ids) :
           /\ t = Reply!Shortened(chain)
           /\ Reply!IsInjective(chain)
           /\ \A i \in DOMAIN chain : /\ chain[i] \notin Odd
                                      /\ chain[i] # p => chain[i] \notin Dropped
                                      /\ i # Len(chain) => chain[i] # p
           /\ p # None => chain # <<>> /\ chain[Len(chain)] = p
           /\ \A i \in DOMAIN chain : chain[i] # p =>
                \E n \in DOMAIN s :
                  /\ s[n] = chain[i]
                  /\ \A k \in 1 .. n - 1 :
                         s[k] \in Dropped \cup {p} \/ \E m \in 1 .. i - 1 : s[k] = chain[m]
  BY ChainFacts
<1> HIDE DEF t, p, s
<1>2. /\ t \in Seq(Ids) /\ Len(t) \in Nat /\ Len(t) <= MaxChain
      /\ t = <<>> => chain = <<>>
      /\ \E e \in [DOMAIN t -> DOMAIN chain] :
              /\ \A i \in DOMAIN t : t[i] = chain[e[i]]
              /\ \A i, j \in DOMAIN t : i < j => e[i] < e[j]
              /\ t # <<>> => e[1] = 1 /\ e[Len(t)] = Len(chain)
  BY <1>1, ShortenedFacts
<1>3. PICK e \in [DOMAIN t -> DOMAIN chain] :
              /\ \A i \in DOMAIN t : t[i] = chain[e[i]]
              /\ \A i, j \in DOMAIN t : i < j => e[i] < e[j]
              /\ t # <<>> => e[1] = 1 /\ e[Len(t)] = Len(chain)
  BY <1>2
<1>4. DOMAIN t = 1 .. Len(t) /\ DOMAIN chain = 1 .. Len(chain) /\ Len(chain) \in Nat BY <1>2
<1>5. \A i \in DOMAIN t : e[i] \in 1 .. Len(chain) /\ i \in Nat BY <1>3, <1>4
<1>6. ASSUME NEW i \in DOMAIN t, NEW j \in DOMAIN t, i < j
      PROVE  /\ t[i] # p /\ t[i] # t[j]
             /\ \A m \in 1 .. e[i] - 1 : chain[m] # t[j]
  <2>1. e[i] < e[j] BY <1>3, <1>6
  <2>2. e[i] # Len(chain) /\ e[i] # e[j] BY <1>5, <2>1
  <2>3. \A m \in 1 .. e[i] - 1 : m \in DOMAIN chain /\ m # e[j] BY <1>4, <1>5, <2>1
  <2> QED BY <1>1, <1>3, <1>4, <1>5, <2>2, <2>3 DEF Reply!IsInjective
<1>7. Reply!IsInjective(t) BY <1>5, <1>6 DEF Reply!IsInjective
<1>8. Reply!ToSet(t) \cap Odd = {} BY <1>1, <1>3, <1>4, <1>5 DEF Reply!ToSet
<1>9. p # None => t # <<>> /\ t[Len(t)] = p
  <2> SUFFICES ASSUME p # None PROVE t # <<>> /\ t[Len(t)] = p OBVIOUS
  <2>1. t # <<>> BY <1>1, <1>2
  <2>2. Len(t) \in DOMAIN t BY <1>2, <1>4, <2>1
  <2> QED BY <1>1, <1>3, <2>1, <2>2
<1>10. Reply!ToSet(t) \subseteq Reply!ToSet(s) \cup {p}
  <2> SUFFICES ASSUME NEW i \in DOMAIN t, t[i] # p PROVE \E n \in DOMAIN s : s[n] = t[i]
    BY DEF Reply!ToSet
  <2> QED BY <1>1, <1>3, <1>4, <1>5
<1>11. ASSUME NEW i \in DOMAIN t, NEW j \in DOMAIN t, i < j, t[j] # p
       PROVE  \E n \in DOMAIN s : s[n] = t[i] /\ \A k \in 1 .. n : s[k] # t[j]
  <2>1. /\ t[i] # p /\ t[i] # t[j] /\ t[i] = chain[e[i]] /\ e[i] \in DOMAIN chain
        /\ \A m \in 1 .. e[i] - 1 : chain[m] # t[j]
    BY <1>3, <1>4, <1>5, <1>6, <1>11
  <2>2. PICK n \in DOMAIN s :
          /\ s[n] = chain[e[i]]
          /\ \A k \in 1 .. n - 1 :
                 s[k] \in Dropped \cup {p} \/ \E m \in 1 .. e[i] - 1 : s[k] = chain[m]
    BY <1>1, <2>1
  <2>3. \A k \in 1 .. n - 1 : s[k] # t[j]
    <3>1. t[j] \notin Dropped BY <1>1, <1>3, <1>4, <1>5, <1>11
    <3> QED BY <1>11, <2>1, <2>2, <3>1
  <2>4. n \in Nat
    <3>1. s \in Seq(Ids) BY DEF Reply!HeaderOK, Reply!Source, s
    <3> QED BY <3>1
  <2>5. \A k \in 1 .. n : k \in 1 .. n - 1 \/ k = n BY <2>4
  <2> QED BY <2>1, <2>2, <2>3, <2>5
<1>12. ASSUME t # <<>>, t[1] # p
       PROVE  \E n \in DOMAIN s : s[n] = t[1] /\ \A k \in 1 .. n - 1 : s[k] \in Dropped \cup {p}
  <2>1. 1 \in DOMAIN t BY <1>2, <1>4, <1>12
  <2>2. t[1] = chain[1] /\ 1 \in DOMAIN chain BY <1>3, <1>4, <1>5, <1>12, <2>1
  <2>3. PICK n \in DOMAIN s :
          /\ s[n] = chain[1]
          /\ \A k \in 1 .. n - 1 :
                 s[k] \in Dropped \cup {p} \/ \E m \in 1 .. 1 - 1 : s[k] = chain[m]
    BY <1>1, <1>12, <2>2
  <2>4. \A m : m \notin 1 .. 1 - 1 OBVIOUS
  <2> QED BY <2>2, <2>3, <2>4
<1>13. Reply!Threaded(content, h)
  <2>1. content.refs = t /\ content.parent = p BY DEF t, p
  <2> QED BY <1>6, <1>9, <1>10, <1>11, <1>12, <2>1 DEF Reply!Threaded, s
<1>14. Reply!Parent(h) \in Ids \cup {None} BY DEF Reply!Parent
<1> QED BY <1>2, <1>7, <1>8, <1>13, <1>14 DEF t

-----------------------------------------------------------------------------
(* Replies: the inductive invariant *)

\* A draft that was derived is one that its request makes under the present
\* configuration: own addresses change with the process, and calls end with it.
Ready(k, mine) ==
  /\ Reply!Valid(k.content)
  /\ Reply!Addressed(k.content, k.req, mine) /\ Reply!Threaded(k.content, Header[k.req.msg])
  /\ k.content.body = k.req.body

CallsOK ==
  \A c \in Caller : call[c] # None =>
    /\ Reply!HeaderOK(Header[call[c].req.msg])
    /\ call[c].at = "store" => Ready(call[c], ownAddresses)

\* Drafts and receipts belong to each other.
StoreOK ==
  /\ \A o \in Op : receipts[o] # None => drafts[receipts[o].id] = receipts[o].content
  /\ \A o, p \in Op :
       receipts[o] # None /\ receipts[p] # None /\ receipts[o].id = receipts[p].id => o = p
  /\ \A d \in Reply!Id : drafts[d] # None => \E o \in Op : receipts[o] # None /\ receipts[o].id = d

ReplyIInv ==
  /\ Reply!TypeOK
  /\ \A m \in inbox : Reply!HeaderOK(Header[m])
  /\ CallsOK /\ StoreOK
  /\ Reply!AddressedRightly /\ Reply!ChainInOrder

\* What a call is.
LEMMA CallTypes ==
  ASSUME Reply!Setting, Reply!TypeOK, NEW c \in Caller, call[c] # None
  PROVE  /\ call[c].req \in Reply!Request /\ call[c].at \in {"read", "store"}
         /\ call[c].at = "store" => call[c].content \in Reply!Draft
<1>1. call[c] \in Reply!Call BY DEF Reply!TypeOK
<1> QED BY <1>1 DEF Reply!Call

\* What a request that can be answered makes.
LEMMA Made ==
  ASSUME Reply!Setting, NEW req \in Reply!Request, Reply!HeaderOK(Header[req.msg]),
         Reply!Answerable(req.kind, Header[req.msg]),
         NEW k, k.req = req, k.content = Reply!Content(req, Header[req.msg])
  PROVE  k.content \in Reply!Draft /\ Ready(k, ownAddresses)
<1> DEFINE h == Header[req.msg]
           content == Reply!Content(req, h)
<1>1. /\ content.to \in Reply!Address /\ content.cc \in Seq(Reply!Address)
      /\ Len(content.cc) + 1 <= MaxRecipients
      /\ \A i, j \in DOMAIN content.cc : content.cc[i].who = content.cc[j].who => i = j
      /\ \A i \in DOMAIN content.cc : content.cc[i].who # content.to.who
      /\ Reply!Addressed(content, req, ownAddresses)
  BY ContentAddressed
<1>2. /\ content.refs = Reply!References(h) /\ content.parent = Reply!Parent(h)
      /\ content.body = req.body
  BY DEF Reply!Content
<1>3. /\ Reply!Threaded(content, h)
      /\ content.refs \in Seq(Ids) /\ content.parent \in Ids \cup {None}
      /\ Len(content.refs) <= MaxChain
      /\ Reply!IsInjective(content.refs) /\ Reply!ToSet(content.refs) \cap Odd = {}
  <2> HIDE DEF h, content
  <2> QED BY <1>2, ReferencesFacts DEF h
<1>4. req.body \in Body BY DEF Reply!Request
<1>5. content = [to |-> content.to, cc |-> content.cc, parent |-> content.parent,
                 refs |-> content.refs, body |-> content.body]
  BY DEF Reply!Content
<1>6. content \in Reply!Draft
  <2> HIDE DEF content
  <2> QED BY <1>1, <1>2, <1>3, <1>4, <1>5 DEF Reply!Draft
<1>7. Reply!Valid(content)
  <2> HIDE DEF content
  <2> QED BY <1>1, <1>3 DEF Reply!Valid
<1> HIDE DEF content
<1> QED BY <1>1, <1>2, <1>3, <1>6, <1>7 DEF Ready, content

\* A store without drafts, and no call.
LEMMA ReplyInitially == ASSUME Reply!Setting, Reply!Init PROVE ReplyIInv
<1>1. Reply!TypeOK
  <2>1. inbox \subseteq Mail BY DEF Reply!Init, Reply!Setting
  <2>2. 0 \in 0 .. MaxCalls BY DEF Reply!Setting
  <2> QED BY <2>1, <2>2 DEF Reply!Init, Reply!TypeOK
<1>2. /\ (\A c \in Caller : call[c] = None) /\ (\A o \in Op : receipts[o] = None)
      /\ (\A d \in Reply!Id : drafts[d] = None)
  BY DEF Reply!Init
<1>3. CallsOK BY <1>2 DEF CallsOK
<1>4. StoreOK BY <1>2 DEF StoreOK
<1>5. Reply!AddressedRightly /\ Reply!ChainInOrder
  BY <1>2 DEF Reply!AddressedRightly, Reply!ChainInOrder
<1> QED BY <1>1, <1>3, <1>4, <1>5 DEF Reply!Init, ReplyIInv

\* Calls that were there remain as they are.
LEMMA CallsRemain ==
  ASSUME CallsOK, UNCHANGED ownAddresses,
         \A c \in Caller : call'[c] # None =>
           \/ call[c] # None /\ call'[c] = call[c]
           \/ /\ Reply!HeaderOK(Header[call'[c].req.msg])
              /\ call'[c].at = "store" => Ready(call'[c], ownAddresses)
  PROVE  CallsOK'
BY DEF CallsOK

\* What a step that leaves the store alone has to show.
LEMMA StoreRemains ==
  ASSUME ReplyIInv, UNCHANGED <<drafts, receipts>>
  PROVE  StoreOK' /\ Reply!AddressedRightly' /\ Reply!ChainInOrder'
BY DEF ReplyIInv, StoreOK, Reply!AddressedRightly, Reply!ChainInOrder

-----------------------------------------------------------------------------
(* Replies: the steps *)

\* The call ends.
LEMMA Ended ==
  ASSUME Reply!Setting, ReplyIInv, NEW c \in Caller, NEW told \in Reply!Answer \cup {None},
         Reply!End(c, told)
  PROVE  /\ call' \in [Caller -> Reply!Call \cup {None}] /\ reply' \in Reply!Answer \cup {None}
         /\ inbox' \subseteq Mail /\ ownAddresses' \in Policies /\ calls' \in 0 .. MaxCalls
         /\ \A m \in inbox' : Reply!HeaderOK(Header[m])
         /\ CallsOK'
<1>1. call \in [Caller -> Reply!Call \cup {None}] /\ call' = [call EXCEPT ![c] = None]
  BY DEF Reply!End, ReplyIInv, Reply!TypeOK
<1>2. call' \in [Caller -> Reply!Call \cup {None}] BY <1>1
<1>3. \A k \in Caller : call'[k] # None => call[k] # None /\ call'[k] = call[k] BY <1>1
<1>4. CallsOK' BY <1>3, CallsRemain DEF Reply!End, ReplyIInv
<1> QED BY <1>2, <1>4 DEF Reply!End, ReplyIInv, Reply!TypeOK

\* A call begins, about a message that is there.
LEMMA StartKeeps ==
  ASSUME Reply!Setting, ReplyIInv, NEW c \in Caller,
         NEW req \in [kind: Reply!Kind, msg: inbox, body: Body, op: Op], Reply!Start(c, req)
  PROVE  ReplyIInv'
<1> DEFINE new == [req |-> req, at |-> "read", content |-> None]
<1>1. /\ call \in [Caller -> Reply!Call \cup {None}] /\ inbox \subseteq Mail
      /\ calls \in 0 .. MaxCalls
      /\ MaxCalls \in Nat
  BY DEF ReplyIInv, Reply!TypeOK, Reply!Setting
<1>2. req \in Reply!Request /\ req.msg \in inbox BY <1>1 DEF Reply!Request
<1>3. new \in Reply!Call BY <1>2 DEF Reply!Call
<1>4. call' = [call EXCEPT ![c] = new] BY DEF Reply!Start
<1>5. call' \in [Caller -> Reply!Call \cup {None}] BY <1>1, <1>3, <1>4
<1>6. calls' \in 0 .. MaxCalls BY <1>1 DEF Reply!Start
<1>7. Reply!HeaderOK(Header[new.req.msg]) /\ new.at # "store" BY <1>2 DEF ReplyIInv
<1> HIDE DEF new
<1>8. CallsOK'
  <2>1. \A k \in Caller : k # c => call'[k] = call[k] BY <1>1, <1>4
  <2>2. call'[c] = new BY <1>1, <1>4
  <2> QED BY <1>7, <2>1, <2>2, CallsRemain DEF ReplyIInv, Reply!Start
<1>9. StoreOK' /\ Reply!AddressedRightly' /\ Reply!ChainInOrder' BY StoreRemains DEF Reply!Start
<1>10. Reply!TypeOK' BY <1>5, <1>6 DEF ReplyIInv, Reply!TypeOK, Reply!Start
<1>11. \A m \in inbox' : Reply!HeaderOK(Header[m]) BY DEF ReplyIInv, Reply!Start
<1> QED BY <1>8, <1>9, <1>10, <1>11 DEF ReplyIInv

LEMMA DeriveKeeps ==
  ASSUME Reply!Setting, ReplyIInv, NEW c \in Caller, Reply!Derive(c)
  PROVE  ReplyIInv'
<1> DEFINE req == call[c].req
           h == Header[req.msg]
           new == [req |-> req, at |-> "store", content |-> Reply!Content(req, h)]
<1>1. call \in [Caller -> Reply!Call \cup {None}] BY DEF ReplyIInv, Reply!TypeOK
<1>2. req \in Reply!Request BY CallTypes DEF Reply!Derive, ReplyIInv
<1>3. Reply!HeaderOK(h) /\ Reply!Answerable(req.kind, h) BY DEF Reply!Derive, ReplyIInv, CallsOK
<1>4. new.content \in Reply!Draft /\ Ready(new, ownAddresses)
  <2> HIDE DEF req
  <2> QED BY <1>2, <1>3, Made
<1>5. new \in Reply!Call BY <1>2, <1>4 DEF Reply!Call
<1>6. call' = [call EXCEPT ![c] = new] BY DEF Reply!Derive
<1>7. new.req = req OBVIOUS
<1> HIDE DEF new
<1>8. call' \in [Caller -> Reply!Call \cup {None}] BY <1>1, <1>5, <1>6
<1>9. CallsOK'
  <2>1. \A k \in Caller : k # c => call'[k] = call[k] BY <1>1, <1>6
  <2>2. call'[c] = new BY <1>1, <1>6
  <2>3. Reply!HeaderOK(Header[new.req.msg]) BY <1>3, <1>7
  <2> QED BY <1>4, <2>1, <2>2, <2>3, CallsRemain DEF ReplyIInv, Reply!Derive
<1>10. StoreOK' /\ Reply!AddressedRightly' /\ Reply!ChainInOrder' BY StoreRemains DEF Reply!Derive
<1>11. Reply!TypeOK' BY <1>8 DEF ReplyIInv, Reply!TypeOK, Reply!Derive
<1>12. \A m \in inbox' : Reply!HeaderOK(Header[m]) BY DEF ReplyIInv, Reply!Derive
<1> QED BY <1>9, <1>10, <1>11, <1>12 DEF ReplyIInv

\* A call that is refused or fails.
LEMMA EndKeeps ==
  ASSUME Reply!Setting, ReplyIInv, NEW c \in Caller, Reply!End(c, None),
         UNCHANGED <<drafts, receipts>>
  PROVE  ReplyIInv'
<1>1. /\ call' \in [Caller -> Reply!Call \cup {None}] /\ reply' \in Reply!Answer \cup {None}
      /\ inbox' \subseteq Mail /\ ownAddresses' \in Policies /\ calls' \in 0 .. MaxCalls
      /\ \A m \in inbox' : Reply!HeaderOK(Header[m])
      /\ CallsOK'
  BY Ended
<1>2. StoreOK' /\ Reply!AddressedRightly' /\ Reply!ChainInOrder' BY StoreRemains
<1>3. Reply!TypeOK' BY <1>1 DEF ReplyIInv, Reply!TypeOK
<1> QED BY <1>1, <1>2, <1>3 DEF ReplyIInv

\* The transaction: nothing is written, or a draft and the receipt of an operation
\* that had none.
LEMMA StoredEffect ==
  ASSUME Reply!Setting, ReplyIInv, NEW c \in Caller, call[c] # None, call[c].at = "store",
         Reply!Stored(c)
  PROVE  LET o == call[c].req.op
             receipt(d) == [content |-> call[c].content, id |-> d, by |-> call[c].req,
                            own |-> ownAddresses]
         IN
         \/ Reply!Outcome(c) # "done" /\ UNCHANGED <<drafts, receipts>>
         \/ /\ Reply!Outcome(c) = "done" /\ o \in Op /\ receipts[o] = None
            /\ \E d \in Reply!Id : /\ drafts[d] = None
                             /\ drafts' = [drafts EXCEPT ![d] = call[c].content]
                             /\ receipts' = [receipts EXCEPT ![o] = receipt(d)]
                             /\ receipt(d) \in Reply!Receipt /\ receipt(d) # None
<1> DEFINE o == call[c].req.op
           receipt(d) == [content |-> call[c].content, id |-> d, by |-> call[c].req,
                          own |-> ownAddresses]
<1>1. call[c].req \in Reply!Request /\ call[c].content \in Reply!Draft /\ ownAddresses \in Policies
  BY CallTypes DEF ReplyIInv, Reply!TypeOK
<1>2. o \in Op BY <1>1 DEF Reply!Request
<1>3. ASSUME NEW d \in Reply!Id PROVE receipt(d) \in Reply!Receipt /\ receipt(d) # None
  <2>1. receipt(d) \in Reply!Receipt BY <1>1 DEF Reply!Receipt
  <2> QED BY <2>1 DEF Reply!Setting
<1>4. CASE Reply!Outcome(c) # "done" BY <1>4 DEF Reply!Stored
<1>5. CASE Reply!Outcome(c) = "done"
  <2>1. receipts[o] = None BY <1>5 DEF Reply!Outcome
  <2>2. PICK d \in Reply!Free : /\ drafts' = [drafts EXCEPT ![d] = call[c].content]
                          /\ receipts' = [receipts EXCEPT ![o] = receipt(d)]
    BY <1>5 DEF Reply!Stored
  <2>3. d \in Reply!Id /\ drafts[d] = None BY DEF Reply!Free
  <2>4. receipt(d) \in Reply!Receipt /\ receipt(d) # None BY <1>3, <2>3
  <2> HIDE DEF receipt
  <2>5. \E e \in Reply!Id : /\ drafts[e] = None
                      /\ drafts' = [drafts EXCEPT ![e] = call[c].content]
                      /\ receipts' = [receipts EXCEPT ![o] = receipt(e)]
                      /\ receipt(e) \in Reply!Receipt /\ receipt(e) # None
    BY <2>2, <2>3, <2>4
  <2> QED BY <1>2, <1>5, <2>1, <2>5 DEF receipt
<1> QED BY <1>4, <1>5

\* The draft of the call is stored under its operation: what an answer names.
Told(c) ==
  LET o == call[c].req.op IN
  Reply!Outcome(c) \in {"done", "replayed"} =>
    /\ receipts'[o].id \in Reply!Id
    /\ drafts'[receipts'[o].id] = call[c].content

LEMMA StoredKeeps ==
  ASSUME Reply!Setting, ReplyIInv, NEW c \in Caller, call[c] # None, call[c].at = "store",
         Reply!Stored(c)
  PROVE  /\ drafts' \in [Reply!Id -> Reply!Draft \cup {None}]
         /\ receipts' \in [Op -> Reply!Receipt \cup {None}]
         /\ StoreOK' /\ Reply!AddressedRightly' /\ Reply!ChainInOrder'
         /\ Told(c)
<1> DEFINE o == call[c].req.op
           content == call[c].content
           receipt(d) == [content |-> call[c].content, id |-> d, by |-> call[c].req,
                          own |-> ownAddresses]
<1>1. /\ drafts \in [Reply!Id -> Reply!Draft \cup {None}]
      /\ receipts \in [Op -> Reply!Receipt \cup {None}]
      /\ content \in Reply!Draft /\ call[c].req \in Reply!Request /\ o \in Op
  <2>1. call[c].req \in Reply!Request /\ content \in Reply!Draft BY CallTypes DEF ReplyIInv
  <2> QED BY <2>1 DEF ReplyIInv, Reply!TypeOK, Reply!Request
<1>2. CASE Reply!Outcome(c) # "done" /\ UNCHANGED <<drafts, receipts>>
  <2>1. StoreOK' /\ Reply!AddressedRightly' /\ Reply!ChainInOrder' BY <1>2, StoreRemains
  <2>2. ASSUME Reply!Outcome(c) = "replayed"
        PROVE  receipts[o].id \in Reply!Id /\ drafts[receipts[o].id] = content
    <3>1. receipts[o] # None /\ content = receipts[o].content BY <2>2 DEF Reply!Outcome, Reply!Same
    <3>2. receipts[o] \in Reply!Receipt BY <1>1, <3>1
    <3>3. receipts[o].id \in Reply!Id BY <3>2 DEF Reply!Receipt
    <3> QED BY <1>1, <3>1, <3>3 DEF ReplyIInv, StoreOK
  <2>3. Told(c) BY <1>2, <2>2 DEF Told
  <2> QED BY <1>1, <1>2, <2>1, <2>3
<1>3. CASE /\ Reply!Outcome(c) = "done" /\ receipts[o] = None
           /\ \E d \in Reply!Id : /\ drafts[d] = None
                            /\ drafts' = [drafts EXCEPT ![d] = content]
                            /\ receipts' = [receipts EXCEPT ![o] = receipt(d)]
                            /\ receipt(d) \in Reply!Receipt /\ receipt(d) # None
  <2>1. PICK d \in Reply!Id : /\ drafts[d] = None
                        /\ drafts' = [drafts EXCEPT ![d] = content]
                        /\ receipts' = [receipts EXCEPT ![o] = receipt(d)]
                        /\ receipt(d) \in Reply!Receipt /\ receipt(d) # None
    BY <1>3
  <2>2. /\ Reply!Addressed(content, call[c].req, ownAddresses)
        /\ Reply!Threaded(content, Header[call[c].req.msg])
    BY DEF ReplyIInv, CallsOK, Ready
  <2> DEFINE r == receipt(d)
  <2>3. r.id = d /\ r.content = content /\ r.by = call[c].req /\ r.own = ownAddresses OBVIOUS
  <2>4. /\ drafts' = [drafts EXCEPT ![d] = content] /\ receipts' = [receipts EXCEPT ![o] = r]
        /\ r \in Reply!Receipt /\ r # None
    BY <2>1
  <2> HIDE DEF receipt, content, o, r
  <2>5. /\ drafts' \in [Reply!Id -> Reply!Draft \cup {None}]
        /\ receipts' \in [Op -> Reply!Receipt \cup {None}]
        /\ drafts'[d] = content /\ \A e \in Reply!Id : e # d => drafts'[e] = drafts[e]
        /\ receipts'[o] = r /\ \A p \in Op : p # o => receipts'[p] = receipts[p]
    BY <1>1, <2>4
  <2>6. \A p \in Op : receipts[p] # None => receipts[p].id \in Reply!Id /\ receipts[p].id # d
    <3> SUFFICES ASSUME NEW p \in Op, receipts[p] # None
                 PROVE  receipts[p].id \in Reply!Id /\ receipts[p].id # d
      OBVIOUS
    <3>1. receipts[p] \in Reply!Receipt BY <1>1
    <3>2. receipts[p].id \in Reply!Id /\ receipts[p].content \in Reply!Draft
      BY <3>1 DEF Reply!Receipt
    <3>3. drafts[receipts[p].id] = receipts[p].content BY DEF ReplyIInv, StoreOK
    <3>4. receipts[p].content # None BY <3>2 DEF Reply!Setting
    <3> QED BY <2>1, <3>2, <3>3, <3>4
  <2>7. StoreOK'
    <3>1. \A p \in Op : receipts'[p] # None => drafts'[receipts'[p].id] = receipts'[p].content
      BY <2>3, <2>5, <2>6 DEF ReplyIInv, StoreOK
    <3>2. \A p, q \in Op :
            receipts'[p] # None /\ receipts'[q] # None /\ receipts'[p].id = receipts'[q].id => p = q
      BY <1>1, <2>3, <2>5, <2>6 DEF ReplyIInv, StoreOK
    <3>3. \A e \in Reply!Id :
            drafts'[e] # None => \E p \in Op : receipts'[p] # None /\ receipts'[p].id = e
      <4> SUFFICES ASSUME NEW e \in Reply!Id, drafts'[e] # None
                   PROVE  \E p \in Op : receipts'[p] # None /\ receipts'[p].id = e
        OBVIOUS
      <4>1. CASE e = d BY <1>1, <2>3, <2>4, <2>5, <4>1
      <4>2. CASE e # d
        <5>1. drafts[e] # None BY <2>5, <4>2
        <5>2. PICK p \in Op : receipts[p] # None /\ receipts[p].id = e
          BY <5>1 DEF ReplyIInv, StoreOK
        <5>3. p # o BY <1>3, <5>2
        <5> QED BY <2>5, <5>2, <5>3
      <4> QED BY <4>1, <4>2
    <3> QED BY <3>1, <3>2, <3>3 DEF StoreOK
  <2>8. Reply!AddressedRightly'
    <3>1. \A p \in Op : receipts'[p] # None =>
            Reply!Addressed(receipts'[p].content, receipts'[p].by, receipts'[p].own)
      BY <2>2, <2>3, <2>5 DEF ReplyIInv, Reply!AddressedRightly
    <3> QED BY <3>1 DEF Reply!AddressedRightly
  <2>9. Reply!ChainInOrder'
    <3>1. \A p \in Op : receipts'[p] # None
              => Reply!Threaded(receipts'[p].content, Header[receipts'[p].by.msg])
      BY <2>2, <2>3, <2>5 DEF ReplyIInv, Reply!ChainInOrder
    <3> QED BY <3>1 DEF Reply!ChainInOrder
  <2>10. Told(c) BY <2>3, <2>5 DEF Told, o, content
  <2> QED BY <2>5, <2>7, <2>8, <2>9, <2>10
<1>4. \/ Reply!Outcome(c) # "done" /\ UNCHANGED <<drafts, receipts>>
      \/ /\ Reply!Outcome(c) = "done" /\ receipts[o] = None
         /\ \E d \in Reply!Id : /\ drafts[d] = None
                          /\ drafts' = [drafts EXCEPT ![d] = content]
                          /\ receipts' = [receipts EXCEPT ![o] = receipt(d)]
                          /\ receipt(d) \in Reply!Receipt /\ receipt(d) # None
  BY StoredEffect
<1> QED BY <1>2, <1>3, <1>4

LEMMA StoreKeeps ==
  ASSUME Reply!Setting, ReplyIInv, NEW c \in Caller, Reply!Store(c)
  PROVE  ReplyIInv'
<1> DEFINE told == [req |-> call[c].req, outcome |-> Reply!Outcome(c),
                      id |-> IF Reply!Outcome(c) \in {"done", "replayed"}
                             THEN receipts'[call[c].req.op].id ELSE None]
<1>1. call[c] # None /\ call[c].at = "store" /\ Reply!Stored(c) BY DEF Reply!Store
<1>2. /\ drafts' \in [Reply!Id -> Reply!Draft \cup {None}]
      /\ receipts' \in [Op -> Reply!Receipt \cup {None}]
      /\ StoreOK' /\ Reply!AddressedRightly' /\ Reply!ChainInOrder'
      /\ Told(c)
  BY <1>1, StoredKeeps
<1>3. call[c].req \in Reply!Request BY <1>1, CallTypes DEF ReplyIInv
<1>4. Reply!Outcome(c) \in {"done", "replayed", "conflict", "limit"} BY DEF Reply!Outcome
<1>5. told.id \in Reply!Id \cup {None} BY <1>2 DEF Told
<1>6. told = [req |-> call[c].req, outcome |-> Reply!Outcome(c), id |-> told.id] OBVIOUS
<1>7. Reply!End(c, None) \/ Reply!End(c, told) BY DEF Reply!Store
<1> HIDE DEF told
<1>8. told \in Reply!Answer BY <1>3, <1>4, <1>5, <1>6 DEF Reply!Answer
<1>9. /\ call' \in [Caller -> Reply!Call \cup {None}] /\ reply' \in Reply!Answer \cup {None}
      /\ inbox' \subseteq Mail /\ ownAddresses' \in Policies /\ calls' \in 0 .. MaxCalls
      /\ \A m \in inbox' : Reply!HeaderOK(Header[m])
      /\ CallsOK'
  <2>1. None \in Reply!Answer \cup {None} /\ told \in Reply!Answer \cup {None} BY <1>8
  <2> QED BY <1>7, <2>1, Ended
<1>10. Reply!TypeOK' BY <1>2, <1>9 DEF Reply!TypeOK
<1> QED BY <1>2, <1>9, <1>10 DEF ReplyIInv

\* The next process may have other own addresses, and has none of the calls.
LEMMA RestartKeeps == ASSUME Reply!Setting, ReplyIInv, Reply!Restart PROVE ReplyIInv'
<1>1. CallsOK' BY DEF Reply!Restart, CallsOK
<1>2. StoreOK' /\ Reply!AddressedRightly' /\ Reply!ChainInOrder' BY StoreRemains DEF Reply!Restart
<1>3. Reply!TypeOK' BY DEF ReplyIInv, Reply!TypeOK, Reply!Restart
<1> QED BY <1>1, <1>2, <1>3 DEF ReplyIInv, Reply!Restart

\* Calls keep what they have read.
LEMMA ExpungeKeeps ==
  ASSUME Reply!Setting, ReplyIInv, NEW m \in Mail, Reply!Expunge(m)
  PROVE  ReplyIInv'
<1>1. CallsOK' BY DEF Reply!Expunge, ReplyIInv, CallsOK
<1>2. StoreOK' /\ Reply!AddressedRightly' /\ Reply!ChainInOrder' BY StoreRemains DEF Reply!Expunge
<1>3. Reply!TypeOK' BY DEF ReplyIInv, Reply!TypeOK, Reply!Expunge
<1> QED BY <1>1, <1>2, <1>3 DEF ReplyIInv, Reply!Expunge

\* Every step keeps the inductive invariant.
LEMMA ReplyInductive == ASSUME Reply!Setting, ReplyIInv, [Reply!Next]_Reply!vars PROVE ReplyIInv'
<1>1. CASE UNCHANGED Reply!vars
  BY <1>1
  DEF Reply!vars, ReplyIInv, Reply!TypeOK, CallsOK, StoreOK, Reply!AddressedRightly,
      Reply!ChainInOrder
<1>2. ASSUME NEW c \in Caller, NEW req \in [kind: Reply!Kind, msg: inbox, body: Body, op: Op],
             Reply!Start(c, req)
      PROVE  ReplyIInv'
  BY <1>2, StartKeeps
<1>3. ASSUME NEW c \in Caller, Reply!Derive(c) PROVE ReplyIInv' BY <1>3, DeriveKeeps
<1>4. ASSUME NEW c \in Caller, Reply!Refuse(c) PROVE ReplyIInv' BY <1>4, EndKeeps DEF Reply!Refuse
<1>5. ASSUME NEW c \in Caller, Reply!Store(c) PROVE ReplyIInv' BY <1>5, StoreKeeps
<1>6. ASSUME NEW c \in Caller, Reply!Fail(c) PROVE ReplyIInv' BY <1>6, EndKeeps DEF Reply!Fail
<1>7. CASE Reply!Restart BY <1>7, RestartKeeps
<1>8. ASSUME NEW m \in Mail, Reply!Expunge(m) PROVE ReplyIInv' BY <1>8, ExpungeKeeps
<1> QED BY <1>1, <1>2, <1>3, <1>4, <1>5, <1>6, <1>7, <1>8 DEF Reply!Next

\* The inductive invariant is stronger than the one the run checks.
LEMMA ReplyImplied == ASSUME Reply!Setting, ReplyIInv PROVE ReplyInv
<1>1. Reply!StoreAccepts BY DEF ReplyIInv, CallsOK, Ready, Reply!StoreAccepts
<1>2. Reply!OneDraftEach
  <2> SUFFICES ASSUME NEW d \in Reply!Id, drafts[d] # None
               PROVE  Cardinality({o \in Op : receipts[o] # None /\ receipts[o].id = d
                                               /\ receipts[o].content = drafts[d]}) = 1
    BY SameCardinality DEF Reply!OneDraftEach
  <2>1. PICK o \in Op : receipts[o] # None /\ receipts[o].id = d BY DEF ReplyIInv, StoreOK
  <2>2. receipts[o].content = drafts[d] BY <2>1 DEF ReplyIInv, StoreOK
  <2>3. \A p \in Op : receipts[p] # None /\ receipts[p].id = d => p = o
    BY <2>1 DEF ReplyIInv, StoreOK
  <2>4. {p \in Op : receipts[p] # None /\ receipts[p].id = d /\ receipts[p].content = drafts[d]}
          = {o}
    BY <2>1, <2>2, <2>3
  <2> QED BY <2>4, FS_Singleton
<1> QED BY <1>1, <1>2 DEF ReplyIInv, ReplyInv, Reply!ReplyInv

\* The inductive invariant holds of every behaviour.
LEMMA ReplyAlways == ASSUME Reply!Setting PROVE Reply!Spec => []ReplyIInv
<1>1. Reply!Init => ReplyIInv BY ReplyInitially
<1>2. ReplyIInv /\ [Reply!Next]_Reply!vars => ReplyIInv' BY ReplyInductive
<1> QED BY <1>1, <1>2, PTL DEF Reply!Spec

\* Of every message, whatever its headers, each draft that email_create_reply_draft
\* and email_create_reply_all_draft have stored goes to exactly those it has to
\* (derive_reply_route, _create_reply_all_handler), has the reply headers in the order
\* of its source, with the first identifier that lists do not drop in front and the
\* parent last (parse_message_ids, source_reply_headers), and
\* is the only one of its operation (create_draft); validate_draft_content accepts
\* all that the handlers derive.
THEOREM ReplyInvariant == ASSUME Reply!Setting PROVE Reply!Spec => []ReplyInv
<1>1. ReplyIInv => ReplyInv BY ReplyImplied
<1> QED BY <1>1, ReplyAlways, PTL

\* What AnswersFit says of a step.
Fitting ==
  reply' # None /\ reply'.id # None =>
       /\ Reply!Addressed(drafts'[reply'.id], reply'.req, ownAddresses)
       /\ Reply!Threaded(drafts'[reply'.id], Header[reply'.req.msg])
       /\ drafts'[reply'.id].body = reply'.req.body

\* Only the transaction answers, and its call holds what it would make now.
LEMMA StepFits == ASSUME Reply!Setting, ReplyIInv, [Reply!Next]_Reply!vars PROVE [Fitting]_reply
<1> SUFFICES ASSUME reply' # reply, reply' # None, reply'.id # None PROVE Fitting
  BY DEF Fitting
<1>1. PICK c \in Caller : Reply!Store(c)
  <2>1. \/ \E c \in Caller : Reply!Store(c)
        \/ reply' = None
        \/ UNCHANGED reply
    BY DEF Reply!Next, Reply!vars, Reply!Start, Reply!Derive, Reply!Refuse, Reply!Fail, Reply!End,
           Reply!Restart, Reply!Expunge
  <2> QED BY <2>1
<1>2. call[c] # None /\ call[c].at = "store" /\ Reply!Stored(c) BY <1>1 DEF Reply!Store
<1>3. Told(c) BY <1>2, StoredKeeps
<1>4. reply' = [req |-> call[c].req, outcome |-> Reply!Outcome(c),
                id |-> IF Reply!Outcome(c) \in {"done", "replayed"}
                       THEN receipts'[call[c].req.op].id ELSE None]
  BY <1>1 DEF Reply!Store, Reply!End
<1>5. /\ reply'.req = call[c].req
      /\ reply'.id =
             IF Reply!Outcome(c) \in {"done", "replayed"}
             THEN receipts'[call[c].req.op].id ELSE None
  BY <1>4
<1>6. Reply!Outcome(c) \in {"done", "replayed"} BY <1>5
<1>7. drafts'[reply'.id] = call[c].content BY <1>3, <1>5, <1>6 DEF Told
<1>8. Ready(call[c], ownAddresses) BY <1>2 DEF ReplyIInv, CallsOK
<1> QED BY <1>5, <1>7, <1>8 DEF Fitting, Ready

\* Whatever calls were lost, repeated or met by a restart with other own addresses,
\* the draft that an answer names (_operation_replay) is one that the request of
\* this answer would make under the own addresses of the process that answers, which
\* bear on replies to all.
THEOREM RepliesFit == ASSUME Reply!Setting PROVE Reply!Spec => AnswersFit
<1>1. ReplyIInv /\ [Reply!Next]_Reply!vars => [Fitting]_reply BY StepFits
<1>2. Reply!Spec => [][Fitting]_reply BY <1>1, ReplyAlways, PTL DEF Reply!Spec
<1> QED BY <1>2 DEF AnswersFit, Reply!AnswersFit, Fitting
=============================================================================
