------------------------------- MODULE MCRelay -------------------------------
(* Small instances of Relay: the messages. *)
EXTENDS Relay

CONSTANTS m1, m2
=============================================================================
