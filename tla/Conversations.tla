---------------------------- MODULE Conversations ---------------------------
(***************************************************************************)
(* What is done with conversations: one is found (ThreadContext, extended here)   *)
(* and a message of one is answered (ReplyDraft, an instance).  They share no     *)
(* state.                                                                       *)
(***************************************************************************)
EXTENDS ThreadContext

CONSTANTS
  Mail, Ids, Odd, Dropped, Length, Header, Inboxes, Policies, Op, Caller, Body, Who,
  MaxRecipients, MaxReplyTo, MaxHeader, MaxIds, MaxChain, MaxDrafts, MaxCalls,
  Absent, Invalid, None

VARIABLES inbox, ownAddresses, drafts, receipts, call, reply, calls

replyVars == <<inbox, ownAddresses, drafts, receipts, call, reply, calls>>

Reply == INSTANCE ReplyDraft WITH
  Msg <- Mail, RfcId <- Ids, MaxReferences <- MaxChain, own <- ownAddresses

-----------------------------------------------------------------------------
(* ReplyDraft's properties, under names of their own. *)

\* Every draft that was made of a message is addressed and threaded rightly, the
\* store accepts what the handlers derive, and an operation makes one draft
\* (draft_tools.py, reply_headers.py, create_draft).
ReplyInv == Reply!ReplyInv

\* A caller is told of a draft that its own request would make now (_operation_replay).
AnswersFit == Reply!AnswersFit

\* The nearest and the root of a long chain are retained (docs/reply-headers.md:22).
RootAndNearest == Reply!RootAndNearest
=============================================================================
