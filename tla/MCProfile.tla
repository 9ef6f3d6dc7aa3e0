----------------------------- MODULE MCProfile -----------------------------
(* Instances of Profile for TLC. *)
EXTENDS Profile

CONSTANTS mail, demo, p1, p2, r1, r2

\* The mailbox can be added anew, the demo once.
MCMaxIds == [m \in {mail, demo} |-> IF m = mail THEN 2 ELSE 1]
=============================================================================
