------------------------------ MODULE Mailbox ------------------------------
(***************************************************************************)
(* One connected mailbox: its row in the accounts table, its bookmarks     *)
(* (crates/core/src/mailbox.rs), and the devices that read and write them  *)
(* at the same time.  Every request is split where the code awaits: one    *)
(* action per SQL statement and per IMAP operation, so requests of several *)
(* devices interleave as they do on the server's connection pool.          *)
(*                                                                         *)
(* The hazard is the IMAP UID.  It names a message only together with the  *)
(* mailbox's UIDVALIDITY, the database keeps a UIDVALIDITY of its own, and *)
(* a device sends back bare UIDs taken from whatever list it last showed.  *)
(*                                                                         *)
(* Abstractions.  A message is <<UIDVALIDITY, UID>>; subjects and dates    *)
(* are left out; last_open is reduced to whether it is set.  The fields    *)
(* "of" (the numbering of the list a UID was taken from), "under" of a     *)
(* marker (the uid_validity stored when it was recorded), "carried" (a     *)
(* first listing has since put another numbering over the stored one, and  *)
(* let the marker stand) and "mail" (the numbering the fetched mail really *)
(* had) are history: no guard of an action reads them.                     *)
(***************************************************************************)
EXTENDS Null, Naturals

CONSTANTS
    Devices,      \* browsers and desktop windows that show this mailbox
    Uids,         \* the UIDs the mailbox uses; renumbering reuses them
    MaxValidity,  \* bound: the INBOX is renumbered up to this UIDVALIDITY
    Upgraded,     \* TRUE: the account may be one of an earlier release
    Omits,        \* TRUE: the IMAP server may leave UIDVALIDITY out
    Operations    \* the requests the devices send, besides listing the inbox

ASSUME MaxValidityAssumption == MaxValidity \in Nat \ {0}
ASSUME FlagsAssumption == Upgraded \in BOOLEAN /\ Omits \in BOOLEAN
ASSUME OperationsAssumption ==
    Operations \subseteq {"mark", "remember", "forget", "move"}

VARIABLES
    validity,      \* the IMAP server's UIDVALIDITY for INBOX
    uid_validity,  \* accounts.uid_validity
    watermark_uid, \* accounts.watermark_uid, the last-seen marker
    opened,        \* accounts.last_open IS NOT NULL
    remembered,    \* the remembered rows, by UID (UNIQUE(account_id, email_uid))
    listing,       \* per device, its list_emails request
    write,         \* per device, its marker, bookmark or move request
    screen         \* per device, the inbox list and marker it shows

mailboxVars == <<validity, uid_validity, watermark_uid, opened, remembered,
                 listing, write, screen>>
account == <<uid_validity, watermark_uid, opened>>

Validities == 1..MaxValidity
MaybeValidity == Validities \union {NULL}
Marker == [uid: Uids, of: Validities, under: MaybeValidity, carried: BOOLEAN]
MaybeMarker == Marker \union {NULL}
Bookmark == [validity: MaybeValidity, of: Validities]
ASSUME NullAssumption == NULL \notin Nat \union Bookmark

ListingStage == {"idle", "fetching", "storing", "adopting", "visiting",
                 "answering"}
Listing == [at: ListingStage, stored: MaybeValidity, marker: MaybeMarker,
            opened: BOOLEAN, fetched: MaybeValidity, mail: MaybeValidity]
Write == [at: {"idle"}] \union
         [at: {"sent", "selected"}, op: Operations \union {"forget"}, uid: Uids,
          of: Validities, under: MaybeValidity]
Screen == [mail: Validities, marker: MaybeMarker] \union {NULL}

MailboxTypeOK ==
    /\ validity \in Validities
    /\ uid_validity \in MaybeValidity
    /\ watermark_uid \in MaybeMarker
    /\ opened \in BOOLEAN
    /\ remembered \in [Uids -> Bookmark \union {NULL}]
    /\ listing \in [Devices -> Listing]
    /\ write \in [Devices -> Write]
    /\ screen \in [Devices -> Screen]

\* A listing past its fetch holds mail, and mail has a numbering: only the
\* server's report of it can be missing.
MailFetched ==
    \A d \in Devices :
        listing[d].at \notin {"idle", "fetching"} =>
            listing[d].mail \in Validities

IdleListing == [at |-> "idle", stored |-> NULL, marker |-> NULL,
                opened |-> FALSE, fetched |-> NULL, mail |-> NULL]
IdleWrite == [at |-> "idle"]

(***************************************************************************)
(* No numbering is recorded before the first listing.  A new account has   *)
(* no marker, bookmark or visit either (account.rs, save_account); a row   *)
(* of an earlier release may have them.                                    *)
(***************************************************************************)
MailboxInit ==
    /\ validity = 1
    /\ uid_validity = NULL
    /\ watermark_uid \in {NULL} \union
           [uid: Uids, of: {1}, under: {NULL}, carried: {FALSE}]
    /\ opened \in BOOLEAN
    /\ watermark_uid # NULL => opened
    /\ remembered \in [Uids -> {NULL, [validity |-> NULL, of |-> 1]}]
    /\ ~Upgraded => /\ watermark_uid = NULL /\ ~opened
                    /\ \A u \in Uids : remembered[u] = NULL
    /\ listing = [d \in Devices |-> IdleListing]
    /\ write = [d \in Devices |-> IdleWrite]
    /\ screen = [d \in Devices |-> NULL]

-----------------------------------------------------------------------------
(* The IMAP server, outside this code *)

\* INBOX is recreated or restored: UIDs start over under a new UIDVALIDITY.
Renumber ==
    /\ validity < MaxValidity
    /\ validity' = validity + 1
    /\ UNCHANGED <<account, remembered, listing, write, screen>>

-----------------------------------------------------------------------------
(* list_emails *)

\* The row is read before anything else, and not again.
StartListing(d) ==
    /\ listing[d].at = "idle"
    /\ listing' = [listing EXCEPT ![d] =
           [IdleListing EXCEPT !.at = "fetching",
                               !.stored = uid_validity,
                               !.marker = watermark_uid,
                               !.opened = opened]]
    /\ UNCHANGED <<validity, account, remembered, write, screen>>

FetchEnvelopes(d) ==
    /\ listing[d].at = "fetching"
    /\ \E reported \in IF Omits THEN {validity, NULL} ELSE {validity} :
         listing' = [listing EXCEPT ![d] =
             [@ EXCEPT !.at = "storing", !.fetched = reported,
                       !.mail = validity]]
    /\ UNCHANGED <<validity, account, remembered, write, screen>>

\* uid_validity_changed, judged against the row as it was read at the start
NumberingChanged(d) ==
    listing[d].stored # NULL /\ listing[d].fetched # listing[d].stored

\* A listing whose statements are done holds its mail and the marker it
\* answers with.
Answering(d, marker) ==
    [IdleListing EXCEPT !.at = "answering", !.marker = marker,
                        !.mail = listing[d].mail]

\* Where a listing goes once the numbering is dealt with: the first visit
\* of a mailbox is still to be recorded.
AfterNumbering(d) ==
    IF listing[d].opened THEN Answering(d, listing[d].marker)
    ELSE [listing[d] EXCEPT !.at = "visiting"]

\* The row gets a numbering and a marker and counts as visited, in one
\* statement; the answer will carry the marker "answered".
Reset(d, numbering, marker, answered) ==
    /\ listing[d].at = "storing"
    /\ NumberingChanged(d)
    /\ uid_validity' = numbering
    /\ watermark_uid' = marker
    /\ opened' = TRUE
    /\ listing' = [listing EXCEPT ![d] = Answering(d, answered)]
    /\ UNCHANGED <<validity, remembered, write, screen>>

\* Mutants of ResetForNewNumbering
ResetKeepsMarker(d) == Reset(d, listing[d].fetched, watermark_uid, NULL)
ResetAnswersOldMarker(d) ==
    Reset(d, listing[d].fetched, NULL, listing[d].marker)
ResetToZero(d) ==
    Reset(d, listing[d].fetched,
          [uid |-> 0, of |-> listing[d].mail, under |-> listing[d].fetched,
           carried |-> FALSE], NULL)
ResetStoresNoNumbering(d) == Reset(d, uid_validity, NULL, NULL)

ResetForNewNumbering(d) == Reset(d, listing[d].fetched, NULL, NULL)

\* The row had no numbering when it was read; by now another first listing
\* may have stored one, under which a marker was placed.
RecordFirstNumbering(d) ==
    /\ listing[d].at = "storing"
    /\ listing[d].stored = NULL
    /\ listing[d].fetched # NULL
    /\ uid_validity' = listing[d].fetched
    /\ watermark_uid' =
           IF watermark_uid # NULL /\ uid_validity \notin {NULL, listing[d].fetched}
           THEN [watermark_uid EXCEPT !.carried = TRUE]
           ELSE watermark_uid
    /\ listing' = [listing EXCEPT ![d].at = "adopting"]
    /\ UNCHANGED <<validity, opened, remembered, write, screen>>

AdoptBookmarks(d) ==
    /\ listing[d].at = "adopting"
    /\ remembered' = [u \in Uids |->
           IF remembered[u] # NULL /\ remembered[u].validity = NULL
           THEN [remembered[u] EXCEPT !.validity = listing[d].fetched]
           ELSE remembered[u]]
    /\ listing' = [listing EXCEPT ![d] = AfterNumbering(d)]
    /\ UNCHANGED <<validity, account, write, screen>>

KeepNumbering(d) ==
    /\ listing[d].at = "storing"
    /\ listing[d].fetched = listing[d].stored
    /\ listing' = [listing EXCEPT ![d] = AfterNumbering(d)]
    /\ UNCHANGED <<validity, account, remembered, write, screen>>

RecordFirstVisit(d) ==
    /\ listing[d].at = "visiting"
    /\ opened' = TRUE
    /\ listing' = [listing EXCEPT ![d] = Answering(d, listing[d].marker)]
    /\ UNCHANGED <<validity, uid_validity, watermark_uid, remembered, write,
                   screen>>

\* The device replaces its list and its marker with the answer's.
Answer(d) ==
    /\ listing[d].at = "answering"
    /\ screen' = [screen EXCEPT ![d] =
           [mail |-> listing[d].mail, marker |-> listing[d].marker]]
    /\ listing' = [listing EXCEPT ![d] = IdleListing]
    /\ UNCHANGED <<validity, account, remembered, write>>

\* The fetch times out, a statement fails, the process is stopped or the
\* answer is lost: what is already stored stays, the device shows what it had.
FailListing(d) ==
    /\ listing[d].at # "idle"
    /\ listing' = [listing EXCEPT ![d] = IdleListing]
    /\ UNCHANGED <<validity, account, remembered, write, screen>>

-----------------------------------------------------------------------------
(* set_watermark, remember, forget, move_email *)

\* A device names a message of the list it shows by its bare UID.
Send(d, op, u) ==
    /\ write[d].at = "idle"
    /\ screen[d] # NULL
    /\ write' = [write EXCEPT ![d] = [at |-> "sent", op |-> op, uid |-> u,
                                      of |-> screen[d].mail, under |-> NULL]]
    /\ UNCHANGED <<validity, account, remembered, listing, screen>>

Arrived(d, op) == write[d].at = "sent" /\ write[d].op = op

SetWatermark(d) ==
    /\ Arrived(d, "mark")
    /\ watermark_uid' = [uid |-> write[d].uid, of |-> write[d].of,
                         under |-> uid_validity, carried |-> FALSE]
    /\ opened' = TRUE
    /\ write' = [write EXCEPT ![d] = IdleWrite]
    /\ UNCHANGED <<validity, uid_validity, remembered, listing, screen>>

\* The first of remember's two statements; without a numbering it refuses.
ReadNumbering(d) ==
    /\ Arrived(d, "remember")
    /\ write' = [write EXCEPT ![d] =
           IF uid_validity = NULL
           THEN IdleWrite
           ELSE [write[d] EXCEPT !.at = "selected", !.under = uid_validity]]
    /\ UNCHANGED <<validity, account, remembered, listing, screen>>

\* Mutant: on conflict the row keeps the numbering it had.
InsertKeepsNumbering(d) ==
    /\ write[d].at = "selected"
    /\ remembered' = [remembered EXCEPT ![write[d].uid] =
           IF @ = NULL
           THEN [validity |-> write[d].under, of |-> write[d].of]
           ELSE [@ EXCEPT !.of = write[d].of]]
    /\ write' = [write EXCEPT ![d] = IdleWrite]
    /\ UNCHANGED <<validity, account, listing, screen>>

InsertBookmark(d) ==
    /\ write[d].at = "selected"
    /\ remembered' = [remembered EXCEPT ![write[d].uid] =
           [validity |-> write[d].under, of |-> write[d].of]]
    /\ write' = [write EXCEPT ![d] = IdleWrite]
    /\ UNCHANGED <<validity, account, listing, screen>>

\* The message leaves INBOX (how is module MoveMessage's subject); move_email
\* ends by forgetting it.
MoveOut(d) ==
    /\ Arrived(d, "move")
    /\ write' = [write EXCEPT ![d].op = "forget"]
    /\ UNCHANGED <<validity, account, remembered, listing, screen>>

\* forget, on request or as the end of move_email
Forget(d) ==
    /\ Arrived(d, "forget")
    /\ remembered' = [remembered EXCEPT ![write[d].uid] = NULL]
    /\ write' = [write EXCEPT ![d] = IdleWrite]
    /\ UNCHANGED <<validity, account, listing, screen>>

FailWrite(d) ==
    /\ write[d].at # "idle"
    /\ write' = [write EXCEPT ![d] = IdleWrite]
    /\ UNCHANGED <<validity, account, remembered, listing, screen>>

-----------------------------------------------------------------------------
Listings(d) ==
    \/ StartListing(d) \/ FetchEnvelopes(d) \/ ResetForNewNumbering(d)
    \/ RecordFirstNumbering(d) \/ AdoptBookmarks(d) \/ KeepNumbering(d)
    \/ RecordFirstVisit(d) \/ Answer(d) \/ FailListing(d)

Writes(d) ==
    \/ \E op \in Operations, u \in Uids : Send(d, op, u)
    \/ SetWatermark(d) \/ ReadNumbering(d) \/ InsertBookmark(d)
    \/ MoveOut(d) \/ Forget(d) \/ FailWrite(d)

MailboxNext == Renumber \/ \E d \in Devices : Listings(d) \/ Writes(d)

MailboxSpec == MailboxInit /\ [][MailboxNext]_mailboxVars

(***************************************************************************)
(* An open page asks again every two minutes (InboxPage) and every request *)
(* ends, at its timeout at the latest, so listings go on; a server that is *)
(* asked again and again answers some of the time, and then the statements *)
(* that follow succeed some of the time.                                   *)
(***************************************************************************)
Fairness ==
    \A d \in Devices :
        /\ WF_mailboxVars(Listings(d))
        /\ SF_mailboxVars(FetchEnvelopes(d))
        /\ SF_mailboxVars(ResetForNewNumbering(d))
        /\ SF_mailboxVars(RecordFirstNumbering(d))

MailboxFairSpec == MailboxSpec /\ Fairness

-----------------------------------------------------------------------------
(* Properties that hold *)

Under(marker, numbering) == marker # NULL => marker.under \in {NULL, numbering}

\* The stored marker was recorded under the stored numbering, or before any
\* was known: a listing that finds another numbering than it read removes
\* the marker with it, and no marker slips in between.  Excepted is a marker
\* carried over by a first listing that overlapped another first listing
\* (see MarkerIsOfRow).
MarkerMatchesRow ==
    (watermark_uid # NULL => ~watermark_uid.carried) =>
        Under(watermark_uid, uid_validity)

\* list_emails never answers with a marker recorded under one numbering next
\* to mail of another, although it reads the marker before it fetches the
\* mail and other requests write both columns in between; but for a marker
\* carried over as above.
AnswersAreCoherent ==
    \A d \in Devices :
        screen[d] # NULL /\ (screen[d].marker # NULL => ~screen[d].marker.carried)
            => Under(screen[d].marker, screen[d].mail)

\* Why answers are coherent: a listing carries the marker of the numbering it
\* read, and keeps it only if the fetched mail has that numbering too, or if
\* none was recorded.
ListingIsCoherent(d) ==
    LET l == listing[d] IN
    l.marker # NULL /\ ~l.marker.carried =>
        /\ l.at \in {"fetching", "storing"} => Under(l.marker, l.stored)
        /\ l.at = "storing" => l.fetched \in {NULL, l.mail}
        /\ l.at \in {"adopting", "visiting", "answering"} => Under(l.marker, l.mail)

Coherent ==
    /\ MarkerMatchesRow
    /\ \A d \in Devices : ListingIsCoherent(d)
    /\ AnswersAreCoherent

\* The rows list_remembered returns
Listed ==
    {u \in Uids : /\ remembered[u] # NULL
                  /\ uid_validity # NULL
                  /\ remembered[u].validity = uid_validity}

\* A message remembered while the numbering stands still is listed, also
\* when the row it replaces was left by an older numbering and is hidden.
RememberedIsListed ==
    [][\A d \in Devices :
          InsertBookmark(d) /\ write[d].under = uid_validity =>
              write[d].uid \in Listed']_mailboxVars

\* Requests that overlap a renumbering can store a numbering that is already
\* out of date; the listings that follow always repair it.
NumberingConverges == <>[](uid_validity = validity)

-----------------------------------------------------------------------------
(* Claims of the repository that the code does not keep *)

\* As MarkerMatchesRow, with no exception ("a changed UIDVALIDITY means
\* stored UIDs may now name different messages"; "seeing it for the first
\* time is not a change", mailbox.rs).  Of two first listings that overlap,
\* the later one stores its numbering over the other's as a first one, and
\* leaves a marker placed in between.
MarkerIsOfRow == Under(watermark_uid, uid_validity)

\* The stored marker and the bookmarks list_remembered returns name the
\* messages the user meant (REVIEW_REMEDIATION_PLAN: "UID reuse cannot
\* silently point at another message").  set_watermark takes the UID as it
\* comes, and remember files it under the numbering stored by then.
MessagesAreThoseMeant ==
    /\ watermark_uid # NULL /\ uid_validity # NULL =>
           watermark_uid.of = uid_validity
    /\ \A u \in Listed : remembered[u].of = uid_validity

\* Once a numbering is recorded and its listing has ended, no bookmark is
\* left without one ("pre-tracking bookmarks are backfilled").
BookmarksBackfilled ==
    uid_validity # NULL /\ (\A d \in Devices : listing[d].at = "idle") =>
        \A u \in Uids :
            remembered[u] # NULL => remembered[u].validity # NULL
=============================================================================
