--------------------------- MODULE MCConversation ----------------------------
(* Instances for TLC of the two modules about conversations.  A behaviour is about *)
(* one of them, its subject, and the other rests in an initial state.             *)
EXTENDS Conversations, Sequences, SequencesExt, TLC

CONSTANTS Subjects, ann, bob, cat, me

VARIABLE subject

\* Messages, by the numbers of their routes, To and Cc in these lists, their
\* Message-ID, References and In-Reply-To.  5 is no dot-atom.  Lists drop 6, which is
\* longer than a header, 7, which may still be a parent (503 to 512 characters), and
\* 8, which is not ASCII.
A(w, s) == [who |-> w, as |-> s]
Routes == <<[from |-> A(ann, 1), replyTo |-> Absent], [from |-> Invalid, replyTo |-> Absent],
            [from |-> A(ann, 1), replyTo |-> <<A(ann, 2)>>],
            [from |-> A(ann, 1), replyTo |-> <<A(me, 1)>>],
            [from |-> A(ann, 1), replyTo |-> <<A(ann, 1), A(bob, 1)>>],
            [from |-> A(ann, 1), replyTo |-> Invalid]>>
Lists == <<<<A(me, 1)>>, Absent, Invalid, <<A(bob, 1)>>, <<A(bob, 2)>>, <<A(ann, 2), A(bob, 1)>>,
           <<A(me, 1), A(cat, 1)>>, <<A(bob, 1), A(cat, 1)>>>>
Lengths == <<1, 1, 3, 2, 1, 9, 3, 1>>

ByRoute ==
  {<<r, t, c, 1, <<>>, <<>>>> : r \in {1, 2}, t \in DOMAIN Lists, c \in {2, 3, 5, 8}}
  \cup {<<r, t, c, 1, <<>>, <<>>>> : r \in DOMAIN Routes, t \in {4, 7}, c \in {2, 8}}
Permuted(ids) == {f \in [1 .. Cardinality(ids) -> ids] : IsInjective(f)}
Chained ==
  {<<1, 1, 2, None, r, <<>>>> : r \in BoundedSeq({1, 2, 5}, 2) \cup Permuted({1, 2, 4, 5})}
  \cup {<<1, 1, 2, 1, r, <<>>>> : r \in BoundedSeq({1, 2, 5}, 3) \cup Permuted({1, 2, 3, 4})}
  \cup {<<1, 1, 2, i, <<>>, p>> : i \in {None, 1, 5}, p \in BoundedSeq({2, 5}, 2)}
  \cup {<<1, 1, 2, 1, r, <<3>>>> : r \in {<<2>>, <<5>>, <<6, 2>>, <<8>>, <<7, 8>>}}
  \cup {<<1, 1, 2, i, r, <<>>>> : i \in {1, 7}, r \in Permuted({2, 7, 8})}
  \cup {<<1, 1, 2, 1, r, <<>>>> : r \in {<<8, 1, 2, 4>>, <<1, 8, 2, 4>>, <<8, 2, 8, 4>>}}
  \cup {<<1, 1, 2, i, <<>>, p>> : i \in {1, 7}, p \in {<<7>>, <<8, 2>>, <<2, 7>>}}
Messages == ByRoute \cup Chained
Plain == <<1, 1, 2, 1, <<>>, <<>>>>

Headers == [m \in Messages |->
  [from |-> Routes[m[1]].from, replyTo |-> Routes[m[1]].replyTo,
   to |-> Lists[m[2]], cc |-> Lists[m[3]],
   id |-> m[4], refs |-> m[5], inReplyTo |-> m[6]]]
Pairs == {{m, Plain} : m \in Messages}
Own == {{me}, {me, bob}}

ASSUME InstanceAssumption == Reply!Setting

ConversationInit ==
  /\ subject \in Subjects
  /\ \/ subject = "replies"
     \/ subject = "thread" /\ inbox = {Plain} /\ ownAddresses = {me}
  /\ \/ subject = "thread"
     \/ /\ subject = "replies"
        /\ own = [m \in Msg |-> NoId] /\ refs = [m \in Msg |-> {}] /\ complete = TRUE
  /\ Init /\ Reply!Init

ConversationNext ==
  \/ subject = "thread" /\ Next /\ UNCHANGED <<subject, replyVars>>
  \/ subject = "replies" /\ Reply!Next /\ UNCHANGED <<subject, vars>>

ConversationSpec == ConversationInit /\ [][ConversationNext]_<<subject, vars, replyVars>>

Symmetric == Permutations(RfcId)
=============================================================================
