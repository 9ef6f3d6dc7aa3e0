------------------------------- MODULE MCDemo -------------------------------
(* An instance of Demo for TLC. *)
EXTENDS Demo

CONSTANT Trash

MCRemembered == <<2>>

\* No step touches both the outbox and the rest: mail is sent only where
\* nothing else is going on.
SendsApart ==
    sent > 0 => /\ reset = NULL /\ arrival = NULL /\ ~drafts /\ remembered = {}
                /\ moves = {} /\ moved = <<>>

\* A draft and a signature are left behind in the same way: one is enough.
OneWritten == row # NULL => ~(drafts /\ row.signed)
=============================================================================
