----------------------------- MODULE MCMailbox -----------------------------
(***************************************************************************)
(* Mailbox for TLC: its constants get their values in the configuration.   *)
(***************************************************************************)
EXTENDS Mailbox

=============================================================================
