----------------------------- MODULE MailPlaces -----------------------------
(***************************************************************************)
(* What moving mail promises, as a user looks at it: every message is      *)
(* listed in some folder at all times.  It may come to be listed in one    *)
(* more folder, and it may go from a folder's list, but not from the last  *)
(* one.  (crates/core/src/mailbox.rs: move_email, restore_email)           *)
(***************************************************************************)
CONSTANTS Messages, Folders
VARIABLE places    \* per message, the folders that list it

PlacesOK == places \in [Messages -> (SUBSET Folders) \ {{}}]

PlacesInit == PlacesOK

Appear(m, f) == places' = [places EXCEPT ![m] = @ \union {f}]

Disappear(m, f) ==
    /\ places[m] \ {f} # {}
    /\ places' = [places EXCEPT ![m] = @ \ {f}]

\* A move where the server has MOVE: one step from one list to another.
Change(m, f, g) == places' = [places EXCEPT ![m] = (@ \ {f}) \union {g}]

PlacesNext ==
    \E m \in Messages, f \in Folders :
        Appear(m, f) \/ Disappear(m, f) \/ \E g \in Folders : Change(m, f, g)

PlacesSpec == PlacesInit /\ [][PlacesNext]_places
=============================================================================
