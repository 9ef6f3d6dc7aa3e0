--------------------------- MODULE MCInboxClient ---------------------------
(* An instance of InboxClient for TLC. *)
EXTENDS InboxClient

CONSTANTS a, b

MCAccounts == <<a, b>>
=============================================================================
