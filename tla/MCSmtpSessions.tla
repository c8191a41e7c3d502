--------------------------- MODULE MCSmtpSessions ---------------------------
(* A small instance of SmtpSessions: who sends what to whom. *)
EXTENDS SmtpSessions, TLC

CONSTANTS alice, bob, remote, news, note, memo, card

\* Two messages from another server and two of alice's.
MCAuthor == news :> Nil @@ note :> Nil @@ memo :> alice @@ card :> alice

MCAddressees ==
  news :> {alice, bob} @@ note :> {alice} @@ memo :> {bob, remote} @@ card :> {remote}

\* Mail from outside and mail of users meet only in the table of users.
MCMixes == {{news, note}, {memo, card}}
=============================================================================
