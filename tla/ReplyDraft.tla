----------------------------- MODULE ReplyDraft -----------------------------
(***************************************************************************)
(* email_create_reply_draft and email_create_reply_all_draft: read the        *)
(* message that is answered, derive the recipients and the reply headers      *)
(* from it, and store the draft under the caller's operation_id.  The answer   *)
(* may be lost and the call repeated, by a runtime that was restarted with     *)
(* other own addresses, when the message may be gone.                        *)
(*                                                                         *)
(* Addresses and identifiers are what the rest of the code tells apart: who    *)
(* (canonical_address) and as what (the spelling); an identifier and its       *)
(* length.  Subject and display names are left out, and the body is a value.   *)
(***************************************************************************)
EXTENDS Integers, Sequences, FiniteSets, SequencesExt

CONSTANTS
  Msg, Op, Caller, Body,
  Who,           \* mailboxes
  RfcId,         \* Message-IDs: what stands in <...>
  Odd,           \* no dot-atoms, or over 512 characters: a reply may not repeat them
  Dropped,       \* over 500 characters in <...>, or not ASCII: no reader of a list sees them
  Length,        \* characters of each
  Header,        \* the headers of each message
  Inboxes,       \* sets of messages the server may hold
  Policies,      \* values of reply_policy.own_addresses
  MaxRecipients, \* _MAX_RECIPIENTS
  MaxReplyTo,    \* _MAX_REPLY_CANDIDATES
  MaxHeader,     \* _MAX_HEADER_CHARACTERS
  MaxIds,        \* _MAX_REFERENCE_IDS
  MaxReferences, \* MAX_REFERENCES
  MaxDrafts,
  MaxCalls,      \* bound on calls
  Absent,        \* an address header that is not there
  Invalid,       \* one repeated, defective or outside the accepted syntax
  None

VARIABLES
  inbox,    \* messages on the server
  own,      \* reply_policy.own_addresses of the runtime
  drafts,   \* stored drafts: id -> content
  receipts, \* draft_operations: what was asked, and the draft
  call,
  reply,    \* the answer a caller just received
  calls

vars == <<inbox, own, drafts, receipts, call, reply, calls>>

\* A mailbox and how it is spelled: a domain may be written in either case.
Address == [who: Who, as: {1, 2}]

\* A list is Absent, Invalid or a sequence of addresses, from a single address or
\* Invalid; id is the Message-ID, if there is one.
HeaderOK(h) ==
  /\ h.from \in Address \cup {Invalid}
  /\ \A list \in {h.replyTo, h.to, h.cc} : list \in {Absent, Invalid} \/ list \in Seq(Address)
  /\ h.id \in RfcId \cup {None}
  /\ h.refs \in Seq(RfcId) /\ h.inReplyTo \in Seq(RfcId)

Kind == {"reply", "reply-all"}
Request == [kind: Kind, msg: Msg, body: Body, op: Op]

Id == 1 .. MaxDrafts
Draft == [to: Address, cc: Seq(Address), parent: RfcId \cup {None}, refs: Seq(RfcId), body: Body]
Receipt == [content: Draft, id: Id, by: Request, own: Policies]
Call == [req: Request, at: {"read"}, content: {None}]
        \cup [req: Request, at: {"store"}, content: Draft]
Answer == [req: Request, outcome: {"done", "replayed", "conflict", "limit"}, id: Id \cup {None}]

Setting ==
  /\ MaxRecipients \in Nat \ {0} /\ MaxReferences \in Nat \ {0, 1}
  /\ {MaxReplyTo, MaxHeader, MaxIds, MaxDrafts, MaxCalls} \subseteq Nat
  /\ Inboxes \subseteq SUBSET Msg
  /\ None \notin Draft \cup Receipt \cup Call \cup Answer

TypeOK ==
  /\ inbox \subseteq Msg
  /\ own \in Policies
  /\ drafts \in [Id -> Draft \cup {None}]
  /\ receipts \in [Op -> Receipt \cup {None}]
  /\ call \in [Caller -> Call \cup {None}]
  /\ reply \in Answer \cup {None}
  /\ calls \in 0 .. MaxCalls

Init ==
  /\ inbox \in Inboxes /\ \A m \in inbox : HeaderOK(Header[m])
  /\ own \in Policies
  /\ drafts = [d \in Id |-> None]
  /\ receipts = [o \in Op |-> None]
  /\ call = [c \in Caller |-> None]
  /\ reply = None
  /\ calls = 0

-----------------------------------------------------------------------------
(* What the provider makes of the headers.  Definitions named Bug... are slips *)
(* a maintainer could make in the definition that follows them.               *)

List(header) == IF header \in {Absent, Invalid} THEN <<>> ELSE header

\* _read_address_header with its maximum: a list that is longer is invalid.
Unusable(header, maximum) == header = Invalid \/ Len(List(header)) > maximum

Addresses(header, maximum) == IF Unusable(header, maximum) THEN <<>> ELSE List(header)

Recipients(h) == Addresses(h.to, MaxRecipients) \o Addresses(h.cc, MaxRecipients)

\* recipient_headers_invalid
RecipientsInvalid(h) ==
  \/ Unusable(h.to, MaxRecipients) \/ Unusable(h.cc, MaxRecipients)
  \/ Len(Recipients(h)) > MaxRecipients

\* The n-th of some places, and what a sequence has in them.
Place(places, n) == CHOOSE k \in places : Cardinality({j \in places : j <= k}) = n
In(places, s) == [n \in 1 .. Cardinality(places) |-> s[Place(places, n)]]

\* Values in their first places.
Distinct(ids) == In({k \in DOMAIN ids : \A j \in 1 .. k - 1 : ids[j] # ids[k]}, ids)

\* Characters of identifiers that stand with a blank between them.
Characters(ids) == FoldLeft(LAMBDA n, i : n + Length[i] + 1, -1, ids)

\* _clean_header keeps the first characters of a header, and an identifier that is
\* cut is none.
Cut(ids) ==
  In({k \in DOMAIN ids : \A j \in 1 .. k : Characters(SubSeq(ids, 1, j)) <= MaxHeader}, ids)

\* What the pattern of an identifier finds in what is left.
Readable(ids) == In({k \in DOMAIN ids : ids[k] \notin Dropped}, ids)

\* parse_message_ids: single identifiers are passed over, and the others kept.
Parsed(ids) ==
  LET all == Distinct(Readable(Cut(ids))) IN
  SubSeq(all, 1, IF Len(all) < MaxIds THEN Len(all) ELSE MaxIds)

-----------------------------------------------------------------------------
(* What the handlers derive *)

\* derive_reply_route: From stands in only for a Reply-To that is not there.
Route(h) ==
  IF h.replyTo = Absent
  THEN IF h.from = Invalid THEN None ELSE h.from
  ELSE IF Len(Addresses(h.replyTo, MaxReplyTo)) = 1
       THEN Addresses(h.replyTo, MaxReplyTo)[1] ELSE None

\* The primary recipient is not among those seen.
BugOthers(h) ==
  LET all == Recipients(h) IN
  In({k \in DOMAIN all : /\ all[k].who \notin own
                         /\ \A j \in 1 .. k - 1 : all[j].who # all[k].who}, all)

\* The Cc of a reply to all: neither the primary, nor own, nor again.
Others(h) ==
  LET all == Recipients(h) IN
  In({k \in DOMAIN all : /\ all[k].who \notin own \cup {Route(h).who}
                         /\ \A j \in 1 .. k - 1 : all[j].who # all[k].who}, all)

\* source_reply_headers: the parent, if Message-ID is one that may be repeated; it is
\* not read as a list is, and may be one that lists drop.
Parent(h) == IF h.id \in RfcId \ Odd THEN h.id ELSE None

\* References, or In-Reply-To if there is none and it names one parent; all of
\* it or, with one odd identifier, nothing.
Ancestors(h) ==
  LET refs == Parsed(h.refs)
      fallback == Parsed(h.inReplyTo)
      ids == IF refs # <<>> THEN refs ELSE IF Len(fallback) = 1 THEN fallback ELSE <<>>
  IN IF ToSet(ids) \cap Odd # {} THEN <<>> ELSE ids

Shortened(chain) ==
  IF Len(chain) <= MaxReferences THEN chain
  ELSE <<chain[1]>> \o SubSeq(chain, Len(chain) - MaxReferences + 2, Len(chain))

\* The bound of 16384 characters on the chain is beyond MaxHeader and one parent.
References(h) ==
  LET ids == Ancestors(h)
      others == In({k \in DOMAIN ids : ids[k] # Parent(h)}, ids)
  IN Shortened(IF Parent(h) = None THEN others ELSE Append(others, Parent(h)))

\* The checks of both handlers, in front of the draft.
Answerable(kind, h) ==
  /\ Route(h) # None
  /\ kind = "reply-all" =>
       /\ ~RecipientsInvalid(h)
       /\ Route(h).who \notin own
       /\ Len(Others(h)) < MaxRecipients

Content(q, h) ==
  [to |-> Route(h), cc |-> IF q.kind = "reply" THEN <<>> ELSE Others(h),
   parent |-> Parent(h), refs |-> References(h), body |-> q.body]

-----------------------------------------------------------------------------
(* A call *)

\* About a message that is there; other calls are refused without effect.
Start(c, req) ==
  /\ call[c] = None /\ calls < MaxCalls
  /\ req.kind = "reply-all" => own # {}
  /\ call' = [call EXCEPT ![c] = [req |-> req, at |-> "read", content |-> None]]
  /\ calls' = calls + 1
  /\ reply' = None
  /\ UNCHANGED <<inbox, own, drafts, receipts>>

\* The answer, if it reaches the caller; ending without one is an error too.
End(c, answer) ==
  /\ call' = [call EXCEPT ![c] = None]
  /\ reply' = answer
  /\ UNCHANGED <<inbox, own, calls>>

\* get_message answers, and the handler goes on as far as the store.
Derive(c) ==
  /\ call[c] # None /\ call[c].at = "read"
  /\ LET req == call[c].req  h == Header[req.msg] IN
       /\ req.msg \in inbox /\ Answerable(req.kind, h)
       /\ call' = [call EXCEPT ![c] = [req |-> req, at |-> "store", content |-> Content(req, h)]]
  /\ reply' = None
  /\ UNCHANGED <<inbox, own, drafts, receipts, calls>>

\* The source or the route is unavailable, or the provider fails.
Refuse(c) ==
  /\ call[c] # None /\ call[c].at = "read"
  /\ End(c, None)
  /\ UNCHANGED <<drafts, receipts>>

\* validate_draft_content
Valid(content) ==
  /\ Len(content.cc) + 1 <= MaxRecipients
  /\ \A i, j \in DOMAIN content.cc : content.cc[i].who = content.cc[j].who => i = j
  /\ \A i \in DOMAIN content.cc : content.cc[i].who # content.to.who
  /\ Len(content.refs) <= MaxReferences
  /\ IsInjective(content.refs) /\ ToSet(content.refs) \cap Odd = {}

\* The digest is made of the arguments of the tool.
BugSame(req, content, receipt) == req.msg = receipt.by.msg /\ req.body = receipt.by.body

\* _request_digest: of the draft that was derived.
Same(req, content, receipt) == content = receipt.content

Free == {d \in Id : drafts[d] = None}

\* What the transaction of create_draft answers.
Outcome(c) ==
  LET o == call[c].req.op IN
  IF receipts[o] # None
  THEN IF Same(call[c].req, call[c].content, receipts[o]) THEN "replayed" ELSE "conflict"
  ELSE IF Free = {} THEN "limit" ELSE "done"

\* by: what was asked, and with which own addresses (history).
Stored(c) ==
  LET o == call[c].req.op IN
  IF Outcome(c) # "done" THEN UNCHANGED <<drafts, receipts>>
  ELSE \E d \in Free :
         /\ \A e \in Free : d <= e
         /\ drafts' = [drafts EXCEPT ![d] = call[c].content]
         /\ receipts' = [receipts EXCEPT ![o] =
              [content |-> call[c].content, id |-> d, by |-> call[c].req, own |-> own]]

\* The transaction, and its answer or a call that was cancelled meanwhile.
Store(c) ==
  /\ call[c] # None /\ call[c].at = "store" /\ Valid(call[c].content)
  /\ Stored(c)
  /\ \/ End(c, None)
     \/ End(c, [req |-> call[c].req, outcome |-> Outcome(c),
                id |-> IF Outcome(c) \in {"done", "replayed"}
                       THEN receipts'[call[c].req.op].id ELSE None])

\* The content is refused, or the store is busy, unsafe or closed.
Fail(c) ==
  /\ call[c] # None /\ call[c].at = "store"
  /\ End(c, None)
  /\ UNCHANGED <<drafts, receipts>>

-----------------------------------------------------------------------------

\* The process ends, and the next one has the configuration of the day.
Restart ==
  /\ own' \in Policies
  /\ call' = [c \in Caller |-> None]
  /\ reply' = None
  /\ UNCHANGED <<inbox, drafts, receipts, calls>>

Expunge(m) ==
  /\ m \in inbox
  /\ inbox' = inbox \ {m}
  /\ reply' = None
  /\ UNCHANGED <<own, drafts, receipts, call, calls>>

Next ==
  \/ \E c \in Caller :
       \/ \E req \in [kind: Kind, msg: inbox, body: Body, op: Op] : Start(c, req)
       \/ Derive(c) \/ Refuse(c) \/ Store(c) \/ Fail(c)
  \/ Restart
  \/ \E m \in Msg : Expunge(m)

Spec == Init /\ [][Next]_vars

-----------------------------------------------------------------------------
(* Properties *)

Reached(content) == {content.to.who} \cup {a.who : a \in ToSet(content.cc)}

\* Where the sender wants answers.
Wanted(h) == IF h.replyTo = Absent THEN h.from ELSE h.replyTo[1]

Addressed(content, req, mine) ==
  LET h == Header[req.msg] IN
  /\ content.to = Wanted(h)
  /\ req.kind = "reply" => content.cc = <<>>
  /\ req.kind = "reply-all" =>
       /\ Reached(content) =
            ({Wanted(h).who} \cup {a.who : a \in ToSet(List(h.to) \o List(h.cc))}) \ mine
       /\ Cardinality(Reached(content)) = Len(content.cc) + 1
       /\ Wanted(h).who \notin mine

\* A reply goes to the one address that its message names for answers.  A reply to
\* all reaches exactly those who had the message and whoever wants the answer,
\* each once and none of them an own address of the runtime that made it: with
\* every header that has doubles, own addresses or too many, nobody is left out
\* silently (docs/reply-headers.md:9).
AddressedRightly ==
  \A o \in Op : receipts[o] # None =>
    Addressed(receipts[o].content, receipts[o].by, receipts[o].own)

\* The header that names what a message answers.
Source(h) == IF Parsed(h.refs) # <<>> THEN h.refs ELSE h.inReplyTo

Threaded(content, h) ==
  LET refs == content.refs  parent == content.parent  source == Source(h) IN
  /\ parent # None => refs # <<>> /\ refs[Len(refs)] = parent
  /\ ToSet(refs) \subseteq ToSet(source) \cup {parent}
  /\ \A i, j \in DOMAIN refs : i < j =>
       /\ refs[i] # parent
       /\ refs[j] = parent \/ \E n \in DOMAIN source :
            source[n] = refs[i] /\ \A k \in 1 .. n : source[k] # refs[j]
  /\ refs # <<>> /\ refs[1] # parent =>
       \E n \in DOMAIN source :
         source[n] = refs[1] /\ \A k \in 1 .. n - 1 : source[k] \in Dropped \cup {parent}

\* The reply headers keep the order of what they were taken from, begin with the
\* first identifier of it that a list may hold, which is its root unless that one is
\* dropped, and end with the message that is answered.
ChainInOrder ==
  \A o \in Op : receipts[o] # None =>
    Threaded(receipts[o].content, Header[receipts[o].by.msg])

\* What the handlers derive from a message, the store accepts: display names aside,
\* a reply is not refused for recipients or headers nobody typed.
StoreAccepts == \A c \in Caller : call[c] # None /\ call[c].at = "store" => Valid(call[c].content)

\* An operation makes one draft, through repetitions by several callers and
\* restarts, and no draft is without its operation.
OneDraftEach ==
  \A d \in Id : drafts[d] # None =>
    Cardinality({o \in Op : /\ receipts[o] # None
                            /\ receipts[o].id = d /\ receipts[o].content = drafts[d]}) = 1

ReplyInv == TypeOK /\ AddressedRightly /\ ChainInOrder /\ StoreAccepts /\ OneDraftEach

\* The draft a caller is told of is one that its own request would make under the
\* configuration that answers it, also when the operation was an earlier
\* runtime's: a repetition never hands out a reply to all that goes to an address
\* that is own by now, or a draft for another message or body.  Own addresses do not
\* bear on a reply to one.
AnswersFit ==
  [][reply' # None /\ reply'.id # None =>
       /\ Addressed(drafts'[reply'.id], reply'.req, own)
       /\ Threaded(drafts'[reply'.id], Header[reply'.req.msg])
       /\ drafts'[reply'.id].body = reply'.req.body]_reply

\* docs/reply-headers.md:22 of the reply headers: "Long chains retain the root
\* and nearest ancestors, with at most 50 IDs/16384 characters."
RootAndNearest ==
  \A o \in Op : receipts[o] # None =>
    LET refs == Header[receipts[o].by.msg].refs IN
    refs # <<>> /\ ToSet(refs) \cap (Odd \cup Dropped) = {} =>
      {refs[1], refs[Len(refs)]} \subseteq ToSet(receipts[o].content.refs)
=============================================================================
