--------------------------- MODULE ThreadContext ---------------------------
(***************************************************************************)
(* build_thread_context and the body reads that follow it in                  *)
(* EmailPlugin.get_thread_context: the messages of one page that are linked to *)
(* a seed by RFC identifiers, found by passing over the page until a pass adds *)
(* nothing, cut to a bound, and read one by one under a byte budget.           *)
(*                                                                         *)
(* A message is its slot in by_provider_id, the seed being slot 1.  The       *)
(* answer is a set: its order is the chronological one.                        *)
(***************************************************************************)
EXTENDS Integers, FiniteSets

CONSTANTS
  Slots,           \* messages on the page, the seed included
  RfcId,           \* Message-ID values
  NoId,            \* a message without one
  MaxReferences,   \* _MAX_REFERENCE_IDS
  MaxMessages,     \* max_messages
  MaxMessageBytes, \* imap.max_message_bytes
  MaxPageBytes     \* imap.max_page_bytes

ASSUME SlotsAssumption == Slots \in Nat \ {0}
ASSUME NoIdAssumption == NoId \notin RfcId
ASSUME BoundsAssumption ==
  /\ MaxReferences \in Nat
  /\ MaxMessages \in Nat \ {0}
  /\ MaxMessageBytes \in Nat /\ MaxPageBytes \in Nat

VARIABLES
  own,        \* message_rfc_id of each message
  refs,       \* message_references of each message
  complete,   \* scan_complete
  pc,
  at,         \* the loop's position in the pass
  changed, known, selected,
  rank,       \* chronological order, ties and missing dates settled
  answer,     \* the messages to return
  truncated, unresolved,
  todo, share, \* bodies still to read, and what each may take
  missing, spent

vars == <<own, refs, complete, pc, at, changed, known, selected, rank, answer,
          truncated, unresolved, todo, share, missing, spent>>
page == <<own, refs>>
loop == <<at, changed, known, selected>>
bodies == <<todo, share, missing, spent>>

Msg == 1 .. Slots
Seed == 1

RefSet == {r \in SUBSET RfcId : IsFiniteSet(r) /\ Cardinality(r) <= MaxReferences}
Rank == {r \in [Msg -> Msg] : \A m, n \in Msg : r[m] = r[n] => m = n}

\* _identity_set
Identities(m) == refs[m] \cup (IF own[m] = NoId THEN {} ELSE {own[m]})

TypeOK ==
  /\ own \in [Msg -> RfcId \cup {NoId}]
  /\ refs \in [Msg -> SUBSET RfcId]
  /\ complete \in BOOLEAN /\ changed \in BOOLEAN /\ truncated \in BOOLEAN
  /\ pc \in {"grow", "trim", "hydrate", "done", "failed"}
  /\ at \in 1 .. Slots + 1
  /\ known \in SUBSET RfcId
  /\ selected \in SUBSET Msg
  /\ rank \in [Msg -> Msg]
  /\ answer \in SUBSET Msg /\ todo \in SUBSET Msg
  /\ unresolved \in Nat /\ missing \in Nat /\ spent \in Nat /\ share \in Nat

AtMost(a, b) == IF a <= b THEN a ELSE b

Share(messages) == AtMost(MaxMessageBytes, MaxPageBytes \div Cardinality(messages))

\* The answer is fixed.  A page of several folders carries headers only, and the
\* bodies of the linked messages are read one by one.
Deliver(messages) ==
  /\ answer' = messages
  /\ \/ pc' = "done" /\ UNCHANGED <<todo, share>>
     \/ pc' = "hydrate" /\ todo' = messages \ {Seed} /\ share' = Share(messages)

Init ==
  /\ own \in [Msg -> RfcId \cup {NoId}]
  /\ refs \in [Msg -> RefSet]
  /\ complete \in BOOLEAN
  /\ pc = "grow"
  /\ at = 1 /\ changed = FALSE
  /\ known = Identities(Seed)
  /\ selected = {Seed}
  /\ rank = [m \in Msg |-> m]
  /\ answer = {} /\ todo = {}
  /\ truncated = FALSE
  /\ unresolved = 0 /\ missing = 0 /\ spent = 0 /\ share = 0

-----------------------------------------------------------------------------
(* The loop.  Definitions named Bug... are slips a maintainer could make in    *)
(* the definition that follows them.                                           *)

\* Links through a reference only the seed shares: the component does not grow.
BugAdd(m) ==
  /\ selected' = selected \cup {m}
  /\ changed' = TRUE
  /\ UNCHANGED known

Add(m) ==
  /\ selected' = selected \cup {m}
  /\ known' = known \cup Identities(m)
  /\ changed' = TRUE

Visit ==
  /\ pc = "grow" /\ at \in Msg
  /\ Identities(Seed) # {}
  /\ \/ at \notin selected /\ known \cap Identities(at) # {} /\ Add(at)
     \/ (at \in selected \/ known \cap Identities(at) = {}) /\ UNCHANGED <<changed, known, selected>>
  /\ at' = at + 1
  /\ UNCHANGED <<page, complete, pc, rank, answer, truncated, unresolved, bodies>>

PassEnds ==
  /\ pc = "grow" /\ at = Slots + 1
  /\ \/ changed /\ at' = 1 /\ changed' = FALSE /\ UNCHANGED pc
     \/ ~changed /\ pc' = "trim" /\ UNCHANGED <<at, changed>>
  /\ UNCHANGED <<page, complete, known, selected, rank, answer, truncated, unresolved, bodies>>

\* A seed without identifiers stands alone.
Alone ==
  /\ pc = "grow" /\ Identities(Seed) = {}
  /\ Deliver({Seed})
  /\ UNCHANGED <<page, complete, loop, rank, truncated, unresolved, missing, spent>>

-----------------------------------------------------------------------------
(* The cut *)

\* The last MaxMessages of messages in the order r.
Recent(messages, r) ==
  {m \in messages : Cardinality({n \in messages : r[n] >= r[m]}) <= MaxMessages}

Oldest(messages, r) == {m \in messages : \A n \in messages : r[m] <= r[n]}

\* The seed is added to the most recent ones.
BugTrimmed(messages, r) ==
  IF Cardinality(messages) > MaxMessages THEN Recent(messages, r) \cup {Seed} ELSE messages

Trimmed(messages, r) ==
  LET recent == Recent(messages, r) IN
  IF Cardinality(messages) <= MaxMessages THEN messages
  ELSE IF Seed \in recent THEN recent
  ELSE (recent \ Oldest(recent, r)) \cup {Seed}

Unresolved(messages) == (UNION {refs[m] : m \in messages}) \ {own[m] : m \in messages}

Trim ==
  /\ pc = "trim"
  /\ rank' \in Rank
  /\ truncated' = (Cardinality(selected) > MaxMessages)
  /\ unresolved' = Cardinality(Unresolved(selected))
  /\ Deliver(Trimmed(selected, rank'))
  /\ UNCHANGED <<page, complete, loop, missing, spent>>

-----------------------------------------------------------------------------
(* The bodies *)

\* A message that is gone leaves the scan's flag alone.
BugGone(m) == missing' = missing + 1 /\ answer' = answer \ {m} /\ UNCHANGED <<complete, spent>>

Gone(m) ==
  /\ missing' = missing + 1
  /\ answer' = answer \ {m}
  /\ complete' = FALSE
  /\ UNCHANGED spent

Read ==
  /\ pc = "hydrate"
  /\ \E m \in Oldest(todo, rank) :
       /\ todo' = todo \ {m}
       /\ \/ /\ \E bytes \in {0, share} : spent' = spent + bytes
             /\ UNCHANGED <<answer, complete, missing, pc>>
          \/ Gone(m) /\ UNCHANGED pc
          \/ pc' = "failed" /\ UNCHANGED <<answer, complete, missing, spent>>
  /\ UNCHANGED <<page, loop, rank, truncated, unresolved, share>>

Finish ==
  /\ pc = "hydrate" /\ todo = {}
  /\ pc' = "done"
  /\ UNCHANGED <<page, complete, loop, rank, answer, truncated, unresolved, bodies>>

Next == Visit \/ PassEnds \/ Alone \/ Trim \/ Read \/ Finish

Spec == Init /\ [][Next]_vars

\* A sequential call: it goes on until it returns.
LiveSpec == Spec /\ WF_vars(Next)
-----------------------------------------------------------------------------
(* Properties *)

\* The conversation of the seed: the smallest set of messages that has the seed
\* and every message sharing an identifier with one of its own.
Closed(S) ==
  /\ Seed \in S
  /\ \A m \in S, n \in Msg : Identities(m) \cap Identities(n) # {} => n \in S
Conversation == {m \in Msg : \A S \in SUBSET Msg : Closed(S) => m \in S}

\* The loop ends with exactly the conversation, in whatever order the page lists
\* it and however often the passes must go round.
FindsConversation == pc # "grow" /\ Identities(Seed) # {} => selected = Conversation

\* The answer has the seed, keeps to the bound and holds nothing unlinked.
AnswerIsBounded ==
  pc \in {"hydrate", "done"} =>
    Seed \in answer /\ answer \subseteq Conversation /\ Cardinality(answer) <= MaxMessages

\* What is left out by the cut is older than all that is kept, the seed aside.
CutIsOldest ==
  pc \in {"hydrate", "done"} /\ missing = 0 =>
    \A m \in selected \ answer, n \in answer \ {Seed} : rank[m] < rank[n]

\* A conversation that is not returned whole is not called whole.
NoSilentLoss == pc = "done" /\ complete /\ ~truncated => answer = Conversation

\* The number of unresolved references counts identifiers that no message of the
\* whole page has, though only the conversation was looked at, and before the cut.
UnresolvedIsAbsent ==
  pc \in {"hydrate", "done"} =>
    unresolved = Cardinality((UNION {refs[m] : m \in Conversation}) \ {own[m] : m \in Msg})

\* The bodies together keep to one page's budget.
BudgetKept == spent <= MaxPageBytes

\* What holds of every answer, and of the work on it.
AnswerInv == TypeOK /\ AnswerIsBounded /\ CutIsOldest /\ UnresolvedIsAbsent /\ BudgetKept
=============================================================================
