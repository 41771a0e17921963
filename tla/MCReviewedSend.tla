--------------------------- MODULE MCReviewedSend ---------------------------
(* The instance of ReviewedSend for TLC. *)
EXTENDS ReviewedSend
=============================================================================
