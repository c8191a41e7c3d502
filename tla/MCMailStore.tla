---------------------------- MODULE MCMailStore ----------------------------
(* Small instances of MailStore: who is behind each connection and request. *)
EXTENDS MailStore

CONSTANTS u1, u2, c1, c2, r1, r2

\* One account behind everything.
OneUser == [p \in Procs |-> u1]

\* The second connection and the second request belong to a second account.
TwoUsers == [p \in Procs |-> IF p \in {c2, r2} THEN u2 ELSE u1]
=============================================================================
