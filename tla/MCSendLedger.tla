---------------------------- MODULE MCSendLedger ----------------------------
(* Instances of SendLedger for TLC. *)
EXTENDS SendLedger, TLC

CONSTANTS w1, w2, w3, s1, s2, o1, o2, c1, c2, c3

\* Two threads share a store, a third is alone in another process.
TwoAndOne == (w1 :> s1) @@ (w2 :> s1) @@ (w3 :> s2)
OneEach == (w1 :> s1) @@ (w2 :> s2)

\* c1 and c2 are two candidates for one draft revision.
TwoRevisions == (c1 :> "k1") @@ (c2 :> "k1") @@ (c3 :> "k2")

\* Operations are interchangeable, and so are the two threads of one store.
Symmetric == Permutations({o1, o2}) \cup Permutations({w1, w2})
=============================================================================
