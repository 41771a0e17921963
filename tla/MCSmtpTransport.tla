-------------------------- MODULE MCSmtpTransport ---------------------------
(* The instance of SmtpTransport for TLC. *)
EXTENDS SmtpTransport
=============================================================================
