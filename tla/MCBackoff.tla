----------------------------- MODULE MCBackoff ------------------------------
(* Constant values for model checking Backoff. *)
EXTENDS Backoff

\* Two entries for three attempts: a full buffer of two fast callbacks is
\* done before the first is over, one of two slow ones is not, though each call
\* alone is.
TwoEntries == <<3, 4>>
=============================================================================
