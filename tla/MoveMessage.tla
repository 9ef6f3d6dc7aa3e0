---------------------------- MODULE MoveMessage ----------------------------
(***************************************************************************)
(* Moving a message out of the inbox and back (crates/core/src/            *)
(* imap_client.rs: move_message, restore_message, move_uid), with the      *)
(* devices that ask for it (client/src/components/InboxPage.jsx).  One     *)
(* action per IMAP command that matters: requests of several devices run   *)
(* on IMAP sessions of their own and interleave between commands, a        *)
(* request can be given up at any point (MAIL_OPERATION_TIMEOUT, a lost    *)
(* connection, an error, an answer that does not arrive), and a command    *)
(* that was sent may then still be carried out, later.                     *)
(*                                                                         *)
(* Abstractions.  A message is what a Message-ID names; several copies of  *)
(* it can exist.  Login, SELECT and the searches that only read are folded *)
(* into the step that uses what they found.  A listing is one step         *)
(* (Mailbox splits it).  A device has one such request at a time, and      *)
(* at most one command of all the requests given up is still outstanding.  *)
(***************************************************************************)
EXTENDS Null, Naturals, FiniteSets

CONSTANTS
    Devices,
    Servers,    \* kinds of servers: what of MOVE and UIDPLUS they announce
    Messages,   \* messages in the inbox, by Message-ID
    Marked,     \* those that another mail program has marked deleted
    Arrived,    \* the UID each has in the inbox at first
    FirstFree,  \* the UID the inbox gives out next
    Targets,    \* where mail can be moved: "trash", "archive"
    MaxUid,     \* bound: the last UID a folder gives out
    MaxCopies   \* bound: copies that ever arrive, the first ones included

INBOX == "inbox"
Folders == {INBOX} \union Targets
Uids == 1..MaxUid
Copy == [id: Messages, deleted: BOOLEAN]

ASSUME ServersAssumption == Servers \subseteq SUBSET {"MOVE", "UIDPLUS"}
ASSUME MarkedAssumption == Marked \subseteq Messages
ASSUME TargetsAssumption == Targets \subseteq {"trash", "archive"}
ASSUME MaxUidAssumption == MaxUid \in Nat
ASSUME ArrivedAssumption ==
    /\ Arrived \in [Messages -> Uids]
    /\ \A m, n \in Messages : Arrived[m] = Arrived[n] => m = n
    /\ FirstFree \in 1..MaxUid + 1
    /\ \A m \in Messages : Arrived[m] < FirstFree
ASSUME NullAssumption == NULL \notin Copy \union Messages

VARIABLES
    capabilities,  \* what the server announces, of MOVE and UIDPLUS
    folders,       \* the folders it has
    box,           \* per folder and UID, the copy there
    next,          \* per folder, the UID its next copy gets
    request,       \* per device, its move or restore
    late,          \* a command of a request given up, still to arrive
    shown,         \* per device, the rows of its inbox list, by UID
    undo           \* per device, the move its Undo button takes back

vars == <<capabilities, folders, box, next, request, late, shown, undo>>
server == <<capabilities, folders>>
mail == <<box, next>>
screens == <<shown, undo>>

\* The request's next IMAP commands.  "uid" is the message to move: named by
\* the device, or found in "from" by its Message-ID (0 until then).
Commands == {"moving", "copying", "flagging", "expunging"}
Request == [at: {"finding", "answering"} \union Commands,
            restore: BOOLEAN, id: Messages, uid: Uids \union {0},
            from: Folders, to: Folders]
Offer == [id: Messages, uid: Uids, from: Targets]

TypeOK ==
    /\ capabilities \in Servers
    /\ folders \subseteq Folders
    /\ box \in [Folders -> [Uids -> Copy \union {NULL}]]
    /\ next \in [Folders -> 1..MaxUid + 1]
    /\ request \in [Devices -> Request \union {NULL}]
    /\ late \in Request \union {NULL}
    /\ shown \in [Devices -> [Uids -> Messages \union {NULL}]]
    /\ undo \in [Devices -> Offer \union {NULL}]

\* Listings leave out copies marked deleted (SEARCH ... UNDELETED).
Holds(f, u) == box[f][u] # NULL
Listed(f, u) == Holds(f, u) /\ ~box[f][u].deleted

\* Any server; its inbox has each message once.
Init ==
    /\ capabilities \in Servers
    /\ \E existing \in SUBSET Targets : folders = {INBOX} \union existing
    /\ box = [f \in Folders |-> [u \in Uids |->
           IF f = INBOX /\ \E m \in Messages : Arrived[m] = u
           THEN LET m == CHOOSE m \in Messages : Arrived[m] = u
                IN  [id |-> m, deleted |-> m \in Marked]
           ELSE NULL]]
    /\ next = [f \in Folders |-> IF f = INBOX THEN FirstFree ELSE 1]
    /\ request = [d \in Devices |-> NULL]
    /\ late = NULL
    /\ shown = [d \in Devices |-> [u \in Uids |-> NULL]]
    /\ undo = [d \in Devices |-> NULL]

-----------------------------------------------------------------------------
(* The IMAP server's commands, outside this code: each applies to the UID   *)
(* if it is (still) there, and otherwise does nothing and succeeds.         *)

\* A copy keeps the flags of its original, or has none.
CopiesOf(c) == {c, [c EXCEPT !.deleted = FALSE]}

Put(boxes, f, copy) ==
    /\ next[f] <= MaxUid
    /\ Cardinality({p \in Folders \X Uids : p[2] < next[p[1]]}) < MaxCopies
    /\ box' = [boxes EXCEPT ![f] = [@ EXCEPT ![next[f]] = copy]]
    /\ next' = [next EXCEPT ![f] = @ + 1]

UidCopy(r) ==
    IF Holds(r.from, r.uid)
    THEN \E copy \in CopiesOf(box[r.from][r.uid]) : Put(box, r.to, copy)
    ELSE UNCHANGED mail

Without(f, u) == [box EXCEPT ![f] = [@ EXCEPT ![u] = NULL]]

UidMove(r) ==
    IF Holds(r.from, r.uid)
    THEN \E copy \in CopiesOf(box[r.from][r.uid]) :
             Put(Without(r.from, r.uid), r.to, copy)
    ELSE UNCHANGED mail

FlaggedDeleted(c) == [c EXCEPT !.deleted = TRUE]

UidStoreDeleted(r) ==
    /\ box' = IF Holds(r.from, r.uid)
              THEN [box EXCEPT ![r.from] =
                       [@ EXCEPT ![r.uid] = FlaggedDeleted(box[r.from][r.uid])]]
              ELSE box
    /\ UNCHANGED next

\* Mutant of UidExpunge: a plain EXPUNGE
ExpungeFolder(r) ==
    /\ box' = [box EXCEPT ![r.from] =
           [u \in Uids |-> IF Listed(r.from, u) THEN @[u] ELSE NULL]]
    /\ UNCHANGED next

UidExpunge(r) ==
    /\ box' = IF Holds(r.from, r.uid) /\ ~Listed(r.from, r.uid)
              THEN Without(r.from, r.uid)
              ELSE box
    /\ UNCHANGED next

\* Another mail program expunges what is marked deleted, except what it
\* marked itself and its user may still want back.
Tidy(f, u) ==
    /\ Holds(f, u) /\ ~Listed(f, u) /\ box[f][u].id \notin Marked
    /\ box' = Without(f, u)
    /\ UNCHANGED <<server, next, request, late, screens>>

-----------------------------------------------------------------------------
(* The devices *)

\* fetchEmails, on a timer, by hand or after an undo; it may also fail, so
\* it is a step of its own.
Refresh(d) ==
    /\ shown' = [shown EXCEPT ![d] =
           [u \in Uids |-> IF Listed(INBOX, u) THEN box[INBOX][u].id ELSE NULL]]
    /\ UNCHANGED <<server, mail, request, late, undo>>

Start(d, r) ==
    /\ request[d] = NULL
    /\ request' = [request EXCEPT ![d] = r]
    /\ UNCHANGED <<server, mail, late, shown>>

\* handleMove, on a row of a list that may be out of date
StartMove(d, u, to) ==
    /\ shown[d][u] # NULL
    /\ Start(d, [at |-> "finding", restore |-> FALSE, id |-> shown[d][u],
                 uid |-> u, from |-> INBOX, to |-> to])
    /\ UNCHANGED undo

Restore(m, from) == [at |-> "finding", restore |-> TRUE, id |-> m,
                     uid |-> 0, from |-> from, to |-> INBOX]

\* handleUndo: the button goes as soon as it is pressed.
StartUndo(d) ==
    /\ undo[d] # NULL
    /\ Start(d, Restore(undo[d].id, undo[d].from))
    /\ undo' = [undo EXCEPT ![d] = NULL]

\* handleMoveToInbox, on a message the folder lists
StartMoveToInbox(d, f, u) ==
    /\ Listed(f, u)
    /\ Start(d, Restore(box[f][u].id, f))
    /\ UNCHANGED undo

-----------------------------------------------------------------------------
(* move_message and restore_message *)

Advance(d, stage) == request' = [request EXCEPT ![d] = [@ EXCEPT !.at = stage]]
At(d, stage) == request[d] # NULL /\ request[d].at = stage

\* folder_for creates a missing archive, and only that.
CreateArchive(d) ==
    /\ At(d, "finding")
    /\ request[d].to = "archive"
    /\ "archive" \notin folders
    /\ folders' = folders \union {"archive"}
    /\ UNCHANGED <<capabilities, mail, request, late, screens>>

\* find_message_id returns the newest first, marked deleted or not.
Matching(f, m) == {u \in Uids : Holds(f, u) /\ box[f][u].id = m}
IsNewest(u, uids) == u \in uids /\ \A v \in uids : v <= u

\* folder_for or existing_folder, and SEARCH in the source folder; move_uid
\* then takes one of two ways.
Find(d) ==
    /\ At(d, "finding")
    /\ {request[d].from, request[d].to} \subseteq folders
    /\ \E u \in Uids :
          /\ IF request[d].restore
             THEN IsNewest(u, Matching(request[d].from, request[d].id))
             ELSE u = request[d].uid /\ Holds(INBOX, u)
          /\ request' = [request EXCEPT ![d] =
                 [@ EXCEPT !.uid = u,
                           !.at = IF "MOVE" \in capabilities
                                  THEN "moving" ELSE "copying"]]
    /\ UNCHANGED <<server, mail, late, screens>>

MoveInOne(d) ==
    /\ At(d, "moving")
    /\ UidMove(request[d])
    /\ Advance(d, "answering")
    /\ UNCHANGED <<server, late, screens>>

\* Mutant of MakeCopy: an unsuccessful COPY goes unnoticed.
CopyOrNot(d) ==
    /\ At(d, "copying")
    /\ UidCopy(request[d]) \/ UNCHANGED mail
    /\ Advance(d, "flagging")
    /\ UNCHANGED <<server, late, screens>>

MakeCopy(d) ==
    /\ At(d, "copying")
    /\ UidCopy(request[d])
    /\ Advance(d, "flagging")
    /\ UNCHANGED <<server, late, screens>>

\* Mutant of FlagOriginal: the original stays listed.
SkipFlag(d) ==
    /\ At(d, "flagging")
    /\ Advance(d, IF "UIDPLUS" \in capabilities
                  THEN "expunging" ELSE "answering")
    /\ UNCHANGED <<server, mail, late, screens>>

FlagOriginal(d) ==
    /\ At(d, "flagging")
    /\ UidStoreDeleted(request[d])
    /\ Advance(d, IF "UIDPLUS" \in capabilities
                  THEN "expunging" ELSE "answering")
    /\ UNCHANGED <<server, late, screens>>

ExpungeOriginal(d) ==
    /\ At(d, "expunging")
    /\ UidExpunge(request[d])
    /\ Advance(d, "answering")
    /\ UNCHANGED <<server, late, screens>>

\* Mutant of AnswerMove: Undo looks where the message was.
AnswerWithSource(d) ==
    /\ At(d, "answering") /\ ~request[d].restore
    /\ shown' = [shown EXCEPT ![d] = [@ EXCEPT ![request[d].uid] = NULL]]
    /\ undo' = [undo EXCEPT ![d] =
           [id |-> request[d].id, uid |-> request[d].uid,
            from |-> request[d].from]]
    /\ request' = [request EXCEPT ![d] = NULL]
    /\ UNCHANGED <<server, mail, late>>

\* The row goes and Undo is offered.
AnswerMove(d) ==
    /\ At(d, "answering") /\ ~request[d].restore
    /\ shown' = [shown EXCEPT ![d] = [@ EXCEPT ![request[d].uid] = NULL]]
    /\ undo' = [undo EXCEPT ![d] =
           [id |-> request[d].id, uid |-> request[d].uid,
            from |-> request[d].to]]
    /\ request' = [request EXCEPT ![d] = NULL]
    /\ UNCHANGED <<server, mail, late>>

\* The restored message's UID is looked for in the inbox and answered.
AnswerRestore(d) ==
    /\ At(d, "answering") /\ request[d].restore
    /\ Matching(INBOX, request[d].id) # {}
    /\ request' = [request EXCEPT ![d] = NULL]
    /\ UNCHANGED <<server, mail, late, screens>>

\* An error, a timeout or a lost answer.  A command just sent may be lost
\* too, or be carried out later; the session ends, so nothing follows it.
GiveUp(d) ==
    /\ request[d] # NULL
    /\ request' = [request EXCEPT ![d] = NULL]
    /\ \/ late' = late
       \/ /\ request[d].at \in Commands
          /\ late' = request[d]
    /\ UNCHANGED <<server, mail, screens>>

CarryOutLate ==
    /\ late # NULL
    /\ \/ late.at = "moving" /\ UidMove(late)
       \/ late.at = "copying" /\ UidCopy(late)
       \/ late.at = "flagging" /\ UidStoreDeleted(late)
       \/ late.at = "expunging" /\ UidExpunge(late)
    /\ late' = NULL
    /\ UNCHANGED <<server, request, screens>>

-----------------------------------------------------------------------------
Asks(d) ==
    \/ Refresh(d)
    \/ \E u \in Uids, to \in Targets : StartMove(d, u, to)
    \/ StartUndo(d)
    \/ \E f \in Targets, u \in Uids : StartMoveToInbox(d, f, u)

Proceeds(d) ==
    \/ CreateArchive(d) \/ Find(d) \/ MoveInOne(d)
    \/ MakeCopy(d) \/ FlagOriginal(d) \/ ExpungeOriginal(d)
    \/ AnswerMove(d) \/ AnswerRestore(d) \/ GiveUp(d)

Next ==
    \/ \E d \in Devices : Asks(d) \/ Proceeds(d)
    \/ \E f \in Folders, u \in Uids : Tidy(f, u)
    \/ CarryOutLate

Spec == Init /\ [][Next]_vars
-----------------------------------------------------------------------------
(* Properties that hold *)

\* A STORE \Deleted for this copy is due, or may still arrive.
Doomed(f, u) ==
    \E r \in {request[d] : d \in Devices} \union {late} :
        r # NULL /\ r.at = "flagging" /\ r.from = f /\ r.uid = u

\* No message is ever lost, whatever requests overlap, are given up half way
\* or are carried out late, on a server with or without MOVE and UIDPLUS:
\* a copy is listed somewhere, and one that no STORE is on its way to.
NeverLost ==
    \A m \in Messages \ Marked :
        \E f \in Folders, u \in Uids :
            Listed(f, u) /\ box[f][u].id = m /\ ~Doomed(f, u)

\* A move removes its own message alone: what another mail program has
\* marked deleted in the same folder stays (comment of move_uid).
MarkedAreKept ==
    \A m \in Marked : \E f \in Folders, u \in Uids :
        Holds(f, u) /\ box[f][u].id = m

\* A move that was answered is final: the UID it named is never listed in
\* the inbox again (a restored message arrives under another).
MovedIsGone ==
    \A d \in Devices : undo[d] # NULL => ~Listed(INBOX, undo[d].uid)

\* Moving implements MailPlaces: one message goes from one list to another,
\* or into one more, and from a list only when it is in another.
Movable == Messages \ Marked
listedIn == [m \in Movable |->
    {f \in Folders : \E u \in Uids : Listed(f, u) /\ box[f][u].id = m}]
Places == INSTANCE MailPlaces WITH Messages <- Movable, places <- listedIn
PlacesSpec == Places!PlacesSpec

-----------------------------------------------------------------------------
(* A claim of the repository that the code does not keep *)

\* A restore that is answered has brought the message "back to the inbox"
\* (restore_email): the inbox lists it, unless somebody moves it again.
RestoredIsListed ==
    [][\A d \in Devices :
          AnswerRestore(d) =>
              INBOX \in listedIn[request[d].id]]_vars
=============================================================================
