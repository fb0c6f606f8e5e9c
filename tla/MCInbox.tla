------------------------------- MODULE MCInbox -------------------------------
(***************************************************************************)
(* A small instance of Inbox for TLC: one source whose messages have one   *)
(* of two timestamps and a good or a bad signature.                        *)
(***************************************************************************)
EXTENDS Inbox

CONSTANT p1
=============================================================================
