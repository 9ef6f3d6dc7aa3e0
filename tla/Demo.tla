-------------------------------- MODULE Demo --------------------------------
(***************************************************************************)
(* The demo mailbox of the desktop app (crates/core/src/fake_mail.rs): its *)
(* generated messages, those moved out of its inbox, the one that arrives  *)
(* while it is open, and its outbox, all in memory; the account's row,     *)
(* bookmarks and drafts, in the database; and reset_demo, which puts all   *)
(* of it in the demo's starting state in several statements, beside the    *)
(* requests of a page that shows it.                                       *)
(*                                                                         *)
(* A generated message is its UID, which is also its Message-ID; a sent    *)
(* message is a number of its own.                                         *)
(***************************************************************************)
EXTENDS Null, Naturals, FiniteSets, SequencesExt

CONSTANTS
    Folders,            \* those messages are moved to
    MESSAGES,           \* how many messages are generated
    FIRST_ARRIVAL_UID,
    DEMO_UNSEEN,        \* a position in the listing, from 0
    DEMO_REMEMBERED,    \* positions, from 0
    OUTBOX_LIMIT,
    MaxOpenings, MaxMoves, MaxBookmarks, MaxSent     \* bounds

ASSUME DemoAssumption ==
    /\ MESSAGES \in Nat /\ FIRST_ARRIVAL_UID \in Nat /\ MESSAGES < FIRST_ARRIVAL_UID
    /\ DEMO_UNSEEN \in Nat \ {0}
    /\ DEMO_REMEMBERED \in Seq(Nat) /\ \A i \in Range(DEMO_REMEMBERED) : i < MESSAGES
    /\ OUTBOX_LIMIT \in Nat \ {0}
ASSUME BoundsAssumption ==
    /\ MaxOpenings \in Nat \ {0} /\ MaxMoves \in Nat /\ MaxBookmarks \in Nat
    /\ MaxSent \in Nat

VARIABLES
    moved,       \* MOVED
    arrival,     \* ARRIVAL_STATE; here: its time has come
    sent,        \* how many messages were sent
    outbox,      \* OUTBOX: those kept
    row,         \* the account's row, once there is one
    remembered, drafts,
    reset,       \* where reset_demo is
    moves,       \* move requests under way
    listing,     \* a listing that read a row without last_open
    highest,     \* history: the highest UID listed since the app started
    opened,      \* history: this run of the app has set the row
    start        \* history: "clean" while a reset nothing interferes with runs,
                 \* "over" from its end to the next change

vars == <<moved, arrival, sent, outbox, row, remembered, drafts, reset, moves,
          listing, highest, opened, start>>
folders == <<moved, moves>>
mail == <<sent, outbox>>
account == <<row, remembered, drafts>>
history == <<highest, opened, start>>

UIDs == 1 .. FIRST_ARRIVAL_UID + MaxOpenings - 1
Steps == {"forget", "schedule", "drafts", "envelopes", "update", "clear", "remember"}
Arrival == [uid: UIDs, here: BOOLEAN]
Row == [watermark: UIDs \union {0}, last_open: {"never", "start", "later"},
        signed: BOOLEAN]
Reset == [at: Steps, envelopes: SUBSET UIDs, left: Seq(Nat)]

ASSUME NullAssumption == NULL \notin Arrival /\ NULL \notin Row /\ NULL \notin Reset

TypeOK ==
    /\ moved \in Seq([uid: UIDs, folder: Folders])
    /\ arrival \in Arrival \union {NULL}
    /\ sent \in 0..MaxSent /\ outbox \in Seq(1..sent) /\ Len(outbox) <= OUTBOX_LIMIT
    /\ row \in Row \union {NULL}
    /\ remembered \subseteq UIDs /\ drafts \in BOOLEAN
    /\ reset \in Reset \union {NULL}
    /\ moves \in SUBSET [uid: UIDs, folder: Folders, done: BOOLEAN]
    /\ listing \in BOOLEAN
    /\ highest \in UIDs \union {0} /\ opened \in BOOLEAN
    /\ start \in {"clean", "over", "no"}
    /\ row = NULL => remembered = {} /\ ~drafts /\ reset = NULL

Init ==
    /\ moved = <<>> /\ arrival = NULL /\ sent = 0 /\ outbox = <<>>
    /\ row = NULL /\ remembered = {} /\ drafts = FALSE
    /\ reset = NULL /\ moves = {} /\ listing = FALSE
    /\ highest = 0 /\ opened = FALSE /\ start = "no"

-----------------------------------------------------------------------------
(* What the mailbox holds; in a list the newest, of the highest UID, is first. *)

is_moved(uid) == \E i \in DOMAIN moved : moved[i].uid = uid

arrived == IF arrival # NULL /\ arrival.here THEN {arrival.uid} ELSE {}

generated == FIRST_ARRIVAL_UID - MESSAGES .. FIRST_ARRIVAL_UID - 1

generate_all == arrived \union generated

generate == {uid \in generate_all : ~is_moved(uid)}

\* The message that has so many newer ones before it
Listed(messages, i) ==
    CHOOSE uid \in messages : Cardinality({newer \in messages : newer > uid}) = i

moved_to(folder) ==
    {uid \in generate_all :
        \E i \in DOMAIN moved : moved[i] = [uid |-> uid, folder |-> folder]}

-----------------------------------------------------------------------------
(* Opening the demo *)

\* A page's change of what the reset sets
Disturb == start' = "no" /\ UNCHANGED <<highest, opened>>

Fresh == [watermark |-> 0, last_open |-> "never", signed |-> FALSE]

is_demo_account(email, host) == email = "demo" /\ host = "demo"

\* Who answers the requests of an account
pick(email, host) ==
    IF is_demo_account(email, host) THEN "FakeMailFetcher" ELSE "mail server"

verify_credentials(password) == password # "wrong-password"

\* The connect form, filled in with the demo's address and host: no reset
Connect(email, host, password) ==
    /\ pick(email, host) = "FakeMailFetcher" /\ verify_credentials(password)
    /\ row = NULL
    /\ row' = Fresh
    /\ UNCHANGED <<folders, arrival, mail, remembered, drafts, reset, listing, history>>

connect_demo ==
    /\ reset = NULL
    /\ arrival # NULL => arrival.uid < FIRST_ARRIVAL_UID + MaxOpenings - 1
    /\ row' = IF row = NULL THEN Fresh ELSE row
    /\ reset' = [at |-> "forget", envelopes |-> {}, left |-> <<>>]
    /\ start' = IF moves = {} /\ ~listing THEN "clean" ELSE "no"
    /\ UNCHANGED <<folders, arrival, mail, remembered, drafts, listing, highest, opened>>

Resetting(step) == reset # NULL /\ reset.at = step
Go(step) == reset' = [reset EXCEPT !.at = step]

\* Mutant of forget_moves: skipped.
MovesAreKept ==
    /\ Resetting("forget")
    /\ Go("schedule")
    /\ UNCHANGED <<folders, arrival, mail, account, listing, history>>

forget_moves ==
    /\ Resetting("forget")
    /\ moved' = <<>>
    /\ Go("schedule")
    /\ UNCHANGED <<moves, arrival, mail, account, listing, history>>

\* Mutant of schedule_arrival: the same message arrives again.
ArrivesAgain ==
    /\ Resetting("schedule")
    /\ arrival' = [uid |-> FIRST_ARRIVAL_UID, here |-> FALSE]
    /\ Go("drafts")
    /\ UNCHANGED <<folders, mail, account, listing, history>>

schedule_arrival ==
    /\ Resetting("schedule")
    /\ arrival' = [uid |-> IF arrival = NULL THEN FIRST_ARRIVAL_UID ELSE arrival.uid + 1,
                   here |-> FALSE]
    /\ Go("drafts")
    /\ UNCHANGED <<folders, mail, account, listing, history>>

delete_all ==
    /\ Resetting("drafts")
    /\ drafts' = FALSE
    /\ Go("envelopes")
    /\ UNCHANGED <<folders, arrival, mail, row, remembered, listing, history>>

ReadEnvelopes ==
    /\ Resetting("envelopes")
    /\ reset' = [reset EXCEPT !.at = "update", !.envelopes = generate]
    /\ UNCHANGED <<folders, arrival, mail, account, listing, history>>

Position(i) == Listed(reset.envelopes, i)
Reaches(i) == i < Cardinality(reset.envelopes)

UpdateRow ==
    /\ Resetting("update") /\ Reaches(DEMO_UNSEEN)
    /\ row' = [watermark |-> Position(DEMO_UNSEEN), last_open |-> "start",
               signed |-> FALSE]
    /\ opened' = TRUE
    /\ Go("clear")
    /\ UNCHANGED <<folders, arrival, mail, remembered, drafts, listing, highest, start>>

ForgetBookmarks ==
    /\ Resetting("clear")
    /\ remembered' = {}
    /\ reset' = [reset EXCEPT !.at = "remember", !.left = DEMO_REMEMBERED]
    /\ UNCHANGED <<folders, arrival, mail, row, drafts, listing, history>>

RememberNext ==
    /\ Resetting("remember") /\ reset.left # <<>>
    /\ \A i \in Range(DEMO_REMEMBERED) : Reaches(i)
    /\ remembered' = remembered \union {Position(Head(reset.left))}
    /\ reset' = [reset EXCEPT !.left = Tail(@)]
    /\ UNCHANGED <<folders, arrival, mail, row, drafts, listing, history>>

ResetEnds ==
    /\ Resetting("remember")
    /\ reset.left = <<>>
    /\ reset' = NULL
    /\ start' = IF start = "clean" THEN "over" ELSE "no"
    /\ UNCHANGED <<folders, arrival, mail, account, listing, highest, opened>>

\* A statement fails; or a position is past the messages left, and the
\* request panics.
ResetFails ==
    /\ \/ \E step \in {"drafts", "update", "clear"} : Resetting(step)
       \/ Resetting("remember") /\ reset.left # <<>>
    /\ reset' = NULL
    /\ Disturb
    /\ UNCHANGED <<folders, arrival, mail, account, listing>>

reset_demo ==
    \/ forget_moves \/ schedule_arrival \/ delete_all \/ ReadEnvelopes \/ UpdateRow
    \/ ForgetBookmarks \/ RememberNext \/ ResetEnds \/ ResetFails

-----------------------------------------------------------------------------
(* Time, and the end of the app: only the database remains. *)

Arrive ==
    /\ arrival # NULL /\ ~arrival.here
    /\ arrival' = [arrival EXCEPT !.here = TRUE]
    /\ UNCHANGED <<folders, mail, account, reset, listing, history>>

Quit ==
    /\ moved' = <<>> /\ moves' = {} /\ arrival' = NULL
    /\ sent' = 0 /\ outbox' = <<>>
    /\ reset' = NULL /\ listing' = FALSE
    /\ highest' = 0 /\ opened' = FALSE /\ start' = "no"
    /\ UNCHANGED account

-----------------------------------------------------------------------------
(* The page's requests *)

See(uid) ==
    /\ highest' = IF uid > highest THEN uid ELSE highest
    /\ UNCHANGED <<folders, arrival, mail, account, reset, listing, opened, start>>

\* A page or the watcher lists the newest.
fetch_envelopes == row # NULL /\ generate # {} /\ See(Listed(generate, 0))

search(uid) == row # NULL /\ uid \in generate /\ See(uid)

\* The row is read before the fetch and last_open set after it.
FirstListing ==
    /\ row # NULL /\ row.last_open = "never" /\ ~listing
    /\ listing' = TRUE
    /\ start' = "no"
    /\ UNCHANGED <<folders, arrival, mail, account, reset, highest, opened>>

FirstListed ==
    /\ listing
    /\ listing' = FALSE
    /\ row' = [row EXCEPT !.last_open = "later"]
    /\ Disturb
    /\ UNCHANGED <<folders, arrival, mail, remembered, drafts, reset>>

set_watermark(uid) ==
    /\ row # NULL /\ uid <= highest
    /\ row' = [row EXCEPT !.watermark = uid, !.last_open = "later"]
    /\ Disturb
    /\ UNCHANGED <<folders, arrival, mail, remembered, drafts, reset, listing>>

Remember(uid) ==
    /\ row # NULL /\ uid <= highest /\ Cardinality(remembered) < MaxBookmarks
    /\ remembered' = remembered \union {uid}
    /\ Disturb
    /\ UNCHANGED <<folders, arrival, mail, row, drafts, reset, listing>>

Write ==
    /\ row # NULL
    /\ \/ drafts' = TRUE /\ UNCHANGED row
       \/ row' = [row EXCEPT !.signed = TRUE] /\ UNCHANGED drafts
    /\ Disturb
    /\ UNCHANGED <<folders, arrival, mail, remembered, reset, listing>>

\* move_message looks at the inbox under one lock and moves under another;
\* move_email then drops the bookmark.
FindMessage(uid, folder) ==
    /\ row # NULL /\ uid <= highest /\ Len(moved) + Cardinality(moves) < MaxMoves
    /\ uid \in generate
    /\ moves' = moves \union {[uid |-> uid, folder |-> folder, done |-> FALSE]}
    /\ Disturb
    /\ UNCHANGED <<moved, arrival, mail, account, reset, listing>>

move_message(m) ==
    /\ m \in moves /\ ~m.done
    /\ moved' = Append(moved, [uid |-> m.uid, folder |-> m.folder])
    /\ moves' = (moves \ {m}) \union {[m EXCEPT !.done = TRUE]}
    /\ Disturb
    /\ UNCHANGED <<arrival, mail, account, reset, listing>>

ForgetMoved(m) ==
    /\ m \in moves /\ m.done
    /\ remembered' \in {remembered, remembered \ {m.uid}}
    /\ moves' = moves \ {m}
    /\ Disturb
    /\ UNCHANGED <<moved, arrival, mail, row, drafts, reset, listing>>

\* The first entry of that message and folder
restore_message(i) ==
    /\ i \in DOMAIN moved
    /\ \A j \in 1 .. i - 1 : moved[j] # moved[i]
    /\ moved' = RemoveAt(moved, i)
    /\ Disturb
    /\ UNCHANGED <<moves, arrival, mail, account, reset, listing>>

\* Mutant of MakeRoom: one too many is kept.
RoomTooLate == IF Len(outbox) > OUTBOX_LIMIT THEN Tail(outbox) ELSE outbox

MakeRoom == IF Len(outbox) >= OUTBOX_LIMIT THEN Tail(outbox) ELSE outbox

\* Mail to no refused address
send ==
    /\ row # NULL /\ sent < MaxSent
    /\ sent' = sent + 1
    /\ outbox' = Append(MakeRoom, sent + 1)
    /\ UNCHANGED <<folders, arrival, account, reset, listing, history>>

Page ==
    \/ fetch_envelopes
    \/ \E uid \in UIDs : search(uid) \/ set_watermark(uid) \/ Remember(uid)
    \/ \E uid \in UIDs, folder \in Folders : FindMessage(uid, folder)
    \/ \E m \in moves : move_message(m) \/ ForgetMoved(m)
    \/ \E i \in DOMAIN moved : restore_message(i)
    \/ FirstListing \/ FirstListed \/ Write \/ send

Next ==
    \/ \E email, host \in {"demo", "other"}, password \in {"demo", "wrong-password"} :
           Connect(email, host, password)
    \/ connect_demo \/ reset_demo \/ Arrive \/ Quit \/ Page

Spec == Init /\ [][Next]_vars

-----------------------------------------------------------------------------
(* Properties *)

\* The message that arrives is news to whoever saw the demo before, in this
\* run of the app: until it is listed its UID is above every one listed, no
\* earlier move hides it, and, once the demo has been opened, the marker is
\* below it.
ArrivalIsNew ==
    arrival # NULL /\ (arrival.here => arrival.uid > highest) =>
        /\ arrival.uid > highest
        /\ ~is_moved(arrival.uid)
        /\ arrival.here => Listed(generate, 0) = arrival.uid
        /\ opened => row.watermark < arrival.uid

\* Once the demo has been opened and nothing interfered - whatever an earlier
\* opening that failed left behind - it shows what it promises: the whole
\* mailbox with so many unseen, the older ones remembered, nothing moved, no
\* drafts and no signature.  A message may have arrived since.
StartsOver ==
    start = "over" =>
        \E since \in 0 .. Cardinality(arrived) :
            LET unseen == {uid \in generate : uid > row.watermark}
            IN  /\ Cardinality(unseen) = DEMO_UNSEEN + since
                /\ remembered = {Listed(generate, i + since) : i \in Range(DEMO_REMEMBERED)}
                /\ generate = generate_all /\ \A f \in Folders : moved_to(f) = {}
                /\ row.last_open = "start" /\ ~row.signed /\ ~drafts
=============================================================================
