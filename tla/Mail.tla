-------------------------------- MODULE Mail --------------------------------
(***************************************************************************)
(* How one call of sendEmail (server/src/email.js) may end.  The provider  *)
(* refuses the message; or it accepts it, and then its answer is lost, or  *)
(* the insert into email_log fails.                                        *)
(***************************************************************************)
Outcomes == {"sent", "refused", "lost", "unlogged"}

\* The message reached the recipient.
Delivered(outcome) == outcome # "refused"

\* The caller learns that it did; in every other case sendEmail throws.
Returns(outcome) == outcome = "sent"
=============================================================================
