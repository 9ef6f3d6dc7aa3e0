---------------------------- MODULE InboxClient ----------------------------
(***************************************************************************)
(* The inbox page (client/src/components/InboxPage.jsx with the hooks      *)
(* useAccounts and useEmails): which mailbox it shows, its list and its    *)
(* last-seen marker, search results, and the saves of the marker, beside   *)
(* answers that come late, mail that arrives, and mailboxes that are       *)
(* locked or removed elsewhere.  An event's handler, the rendering and the *)
(* effects that follow are one step.                                       *)
(*                                                                         *)
(* A message is its mailbox and UID; a request says the UID alone.  0 is   *)
(* no marker.  The numbering of UIDs does not change here (see Mailbox).   *)
(***************************************************************************)
EXTENDS Null, Naturals, SequencesExt, FiniteSetsExt

CONSTANTS
    Accounts,    \* the mailboxes, in the order they are listed
    MaxUid, MaxRequests, MaxAlike, MaxChoices     \* bounds

ASSUME BoundsAssumption ==
    /\ MaxUid \in Nat \ {0} /\ MaxChoices \in Nat
    /\ MaxRequests \in Nat /\ MaxAlike \in Nat

Mailboxes == Range(Accounts)
UIDs == 1..MaxUid

ASSUME AccountsAssumption == Accounts \in Seq(Mailboxes) /\ Accounts # <<>>

Message == [box: Mailboxes, uid: UIDs]

VARIABLES
    status, inbox, newest, stored,       \* the server: per mailbox, whether it
                                         \* is open, its UIDs, the marker
    accounts, preferredId,               \* useAccounts
    view,                                \* what is on screen
    emails, cursor, watermarkUid, manual,    \* useEmails
    fetches, saves, searches, moves,     \* requests under way
    results,                             \* whose results are shown
    lists, task,                         \* refreshes of accounts under way;
                                         \* connecting or removing
    choices,                             \* bound: what the user and others have chosen
    placed                               \* history: a marker placed by hand

server == <<status, inbox, newest, stored>>
shown == <<accounts, preferredId>>
list == <<emails, cursor, watermarkUid, manual, placed>>
search == <<searches, results>>
others == <<moves, lists, task>>
vars == <<server, shown, view, list, fetches, saves, search, others, choices>>

Status == {"open", "locked", "removed"}
Fetch == [box: Mailboxes, latest: BOOLEAN, at: {"sent", "read"},
          marker: UIDs \union {0}, emails: SUBSET Message]
List == [known: [Mailboxes -> Status] \union {NULL}, awaited: BOOLEAN]
Save == [box: Mailboxes, uid: UIDs, hand: BOOLEAN]
Latest(requests) == {i \in DOMAIN requests : requests[i].latest}

TypeOK ==
    /\ status \in [Mailboxes -> Status] /\ accounts \in [Mailboxes -> Status]
    /\ inbox \in [Mailboxes -> SUBSET UIDs]
    /\ newest \in [Mailboxes -> UIDs \union {0}] /\ stored \in [Mailboxes -> UIDs \union {0}]
    /\ {preferredId, cursor} \subseteq Mailboxes \union {NULL}
    /\ results \in [box: Mailboxes, chosen: BOOLEAN] \union {NULL}
    /\ view \in {"inbox", "search", "folder"}
    /\ manual \in BOOLEAN
    /\ emails \subseteq Message /\ watermarkUid \in UIDs \union {0}
    /\ fetches \in Seq(Fetch) /\ \A i, j \in Latest(fetches) : i = j
    /\ lists \in Seq(List)
    /\ searches \in Seq([box: Mailboxes, latest: BOOLEAN, chosen: BOOLEAN])
    /\ saves \in Seq(Save)
    /\ moves \subseteq [box: Mailboxes, uid: UIDs, done: BOOLEAN]
    /\ task \in [box: Mailboxes, to: {"show", "drop"}, shown: BOOLEAN,
                 preferred: BOOLEAN] \union {NULL}
    /\ placed \in [box: Mailboxes, uid: UIDs] \union {NULL}
    /\ choices \in 0..MaxChoices

-----------------------------------------------------------------------------
(* Which mailbox is shown *)

FirstOf(boxes, else) ==
    IF boxes = {} THEN else ELSE Accounts[Min({i \in DOMAIN Accounts : Accounts[i] \in boxes})]

\* The one chosen if it exists, else the first that is open, else the first.
Active(id, known) ==
    LET listed == {m \in Mailboxes : known[m] # "removed"}
        open == {m \in Mailboxes : known[m] = "open"}
    IN  IF id \in listed THEN id ELSE FirstOf(open, FirstOf(listed, NULL))

\* Only a mailbox whose password is available can be read.
Readable(id, known) ==
    LET active == Active(id, known)
    IN  IF active # NULL /\ known[active] = "open" THEN active ELSE NULL

accountId == Readable(preferredId, accounts)

\* Mutant of Superseded: the number of the last request is not raised.
StillLatest(requests) == requests

Superseded(requests) == [i \in DOMAIN requests |-> [requests[i] EXCEPT !.latest = FALSE]]

\* Bound: the user and the timer ask for no more while so much is under way.
More ==
    /\ Len(fetches) + Len(lists) + Len(saves) < MaxRequests
    /\ \A n \in {Len(fetches), Len(lists), Len(saves)} : n < MaxAlike

\* fetchEmails, up to its request: another mailbox's list goes at once.
fetchEmails(m) ==
    /\ fetches' = Append(Superseded(fetches),
                    [box |-> m, latest |-> TRUE, at |-> "sent", marker |-> 0, emails |-> {}])
    /\ cursor' = m
    /\ IF cursor = m THEN UNCHANGED <<emails, watermarkUid, manual, placed>>
       ELSE emails' = {} /\ watermarkUid' = 0 /\ manual' = FALSE /\ placed' = NULL

\* Shows the mailbox that id and the list come to, with its list if it
\* becomes readable; otherwise what is on the page stays as it is now set.
Show(id, known, set) ==
    /\ preferredId' = id /\ accounts' = known
    /\ IF Readable(id, known) \in {accountId, NULL} THEN set /\ UNCHANGED fetches
       ELSE fetchEmails(Readable(id, known))

clearSearch == searches' = Superseded(searches) /\ results' = NULL
resetView == view' = "inbox" /\ clearSearch
Choose == choices < MaxChoices /\ choices' = choices + 1

Init ==
    /\ status = [m \in Mailboxes |-> "open"] /\ accounts = status
    /\ inbox = [m \in Mailboxes |-> {1}] /\ newest = [m \in Mailboxes |-> 1]
    /\ stored = [m \in Mailboxes |-> 0]
    /\ preferredId = NULL /\ view = "inbox"
    /\ emails = {} /\ cursor = Accounts[1] /\ watermarkUid = 0 /\ manual = FALSE
    /\ fetches = <<[box |-> Accounts[1], latest |-> TRUE, at |-> "sent", marker |-> 0,
                    emails |-> {}]>>
    /\ saves = <<>> /\ searches = <<>> /\ results = NULL /\ moves = {}
    /\ lists = <<>> /\ task = NULL /\ choices = 0 /\ placed = NULL

-----------------------------------------------------------------------------
(* The list *)

\* The timer while the page is visible, Refresh, or news from the watcher
Poll ==
    /\ More /\ accountId # NULL
    /\ fetchEmails(accountId)
    /\ UNCHANGED <<server, shown, view, saves, search, others, choices>>

\* list_emails, at the server
Serve(i) ==
    /\ fetches[i].at = "sent" /\ status[fetches[i].box] = "open"
    /\ fetches' = [fetches EXCEPT ![i].at = "read", ![i].marker = stored[fetches[i].box],
          ![i].emails = [box: {fetches[i].box}, uid: inbox[fetches[i].box]]]
    /\ UNCHANGED <<server, shown, view, list, saves, search, others, choices>>

\* Mutant of FetchAnswers: an older request's answer is shown as well.
AnyAnswer(i) ==
    /\ fetches[i].at = "read"
    /\ emails' = fetches[i].emails /\ watermarkUid' = fetches[i].marker
    /\ fetches' = RemoveAt(fetches, i)
    /\ UNCHANGED <<cursor, manual, placed>>
    /\ UNCHANGED <<server, shown, view, saves, search, others, choices>>

\* Mutant of FetchAnswers: a marker placed by hand stays on the page.
AnswerKeepsMarker(i) ==
    /\ fetches[i].at = "read"
    /\ IF fetches[i].latest
       THEN /\ emails' = fetches[i].emails
            /\ watermarkUid' = IF manual THEN watermarkUid ELSE fetches[i].marker
       ELSE UNCHANGED <<emails, watermarkUid>>
    /\ fetches' = RemoveAt(fetches, i)
    /\ UNCHANGED <<cursor, manual, placed>>
    /\ UNCHANGED <<server, shown, view, saves, search, others, choices>>

FetchAnswers(i) ==
    /\ fetches[i].at = "read"
    /\ IF fetches[i].latest
       THEN emails' = fetches[i].emails /\ watermarkUid' = fetches[i].marker
       ELSE UNCHANGED <<emails, watermarkUid>>
    /\ fetches' = RemoveAt(fetches, i)
    /\ UNCHANGED <<cursor, manual, placed>>
    /\ UNCHANGED <<server, shown, view, saves, search, others, choices>>

FetchFails(i) ==
    /\ fetches' = RemoveAt(fetches, i)
    /\ UNCHANGED <<server, shown, view, list, saves, search, others, choices>>

\* refresh, up to its request: it has no number, and others may be under way.
AskList(awaited) == lists' = Append(lists, [known |-> NULL, awaited |-> awaited])

\* A 401: the page asks for the list of mailboxes.
FetchRefused(i) ==
    /\ fetches[i].at = "sent" /\ status[fetches[i].box] # "open"
    /\ fetches' = RemoveAt(fetches, i)
    /\ IF fetches[i].latest THEN AskList(FALSE) ELSE UNCHANGED lists
    /\ UNCHANGED <<server, shown, view, list, saves, search, moves, task, choices>>

-----------------------------------------------------------------------------
(* The marker *)

Newest == Max({e.uid : e \in emails} \union {0})
Loaded == accountId # NULL /\ cursor = accountId

\* Saves are sent one after the other.
Enqueue(uid, hand) ==
    /\ More
    /\ saves' = Append(saves, [box |-> accountId, uid |-> uid, hand |-> hand])

persistWatermark(uid, hand) ==
    IF Loaded THEN watermarkUid' = uid /\ Enqueue(uid, hand)
    ELSE UNCHANGED <<watermarkUid, saves>>

\* Never backwards
markAllSeen(byHand) ==
    IF ~byHand /\ Newest > watermarkUid THEN persistWatermark(Newest, FALSE)
    ELSE UNCHANGED <<watermarkUid, saves>>

OnInbox == accountId # NULL /\ view = "inbox"

setWatermarkManually(uid) ==
    /\ Choose /\ OnInbox /\ \E e \in emails : e.uid = uid
    /\ manual' = TRUE
    /\ persistWatermark(uid, TRUE)
    /\ placed' = [box |-> accountId, uid |-> uid]
    /\ UNCHANGED <<server, shown, view, emails, cursor, fetches, search, others>>

markAllSeenNow ==
    /\ Choose /\ OnInbox
    /\ manual' = FALSE /\ placed' = NULL
    /\ markAllSeen(FALSE)
    /\ UNCHANGED <<server, shown, view, emails, cursor, fetches, search, others>>

\* Leaving the page marks the inbox seen, if it is what the page shows.
Hide ==
    /\ view = "inbox" /\ markAllSeen(manual)
    /\ UNCHANGED <<server, shown, view, emails, cursor, manual, placed, fetches, search,
                   others, choices>>

SaveEnds ==
    /\ saves # <<>> /\ status[Head(saves).box] = "open"
    /\ stored' = [stored EXCEPT ![Head(saves).box] = Head(saves).uid]
    /\ saves' = Tail(saves)
    /\ UNCHANGED <<status, inbox, newest, shown, view, list, fetches, search, others, choices>>

\* Carried out or not; the next one is sent all the same.
SaveFails ==
    /\ saves # <<>>
    /\ \/ UNCHANGED stored
       \/ /\ status[Head(saves).box] = "open"
          /\ stored' = [stored EXCEPT ![Head(saves).box] = Head(saves).uid]
    /\ saves' = Tail(saves)
    /\ placed' = IF Head(saves).hand THEN NULL ELSE placed
    /\ UNCHANGED <<status, inbox, newest, shown, view, emails, cursor, watermarkUid, manual,
                   fetches, search, others, choices>>

-----------------------------------------------------------------------------
(* Mailboxes *)

\* Leaving a mailbox counts as having seen its inbox.
handleSelectAccount(m) ==
    /\ Choose /\ More
    /\ accounts[m] # "removed" /\ m # Active(preferredId, accounts)
    /\ LET seen == view = "inbox" /\ ~manual /\ Loaded /\ Newest > watermarkUid
       IN  /\ IF seen THEN Enqueue(Newest, FALSE) ELSE UNCHANGED saves
           /\ Show(m, accounts, /\ watermarkUid' = IF seen THEN Newest ELSE watermarkUid
                                /\ UNCHANGED <<emails, cursor, manual, placed>>)
    /\ resetView
    /\ UNCHANGED <<server, others>>

\* Connecting and removing a mailbox: once that is answered the list is asked
\* for, and what the page shows then waits for it.
Connect(m) ==
    /\ Choose /\ task = NULL
    /\ status[m] = "locked"
    /\ status' = [status EXCEPT ![m] = "open"]
    /\ task' = [box |-> m, to |-> "show", shown |-> FALSE, preferred |-> FALSE]
    /\ UNCHANGED <<inbox, newest, stored, shown, view, list, fetches, saves, search,
                   moves, lists>>

RemoveMailbox(m) ==
    /\ Choose /\ task = NULL /\ accountId # NULL
    /\ accounts[m] # "removed" /\ status[m] # "removed"
    /\ status' = [status EXCEPT ![m] = "removed"]
    /\ task' = [box |-> m, to |-> "drop", shown |-> m = Active(preferredId, accounts),
                preferred |-> m = preferredId]
    /\ UNCHANGED <<inbox, newest, stored, shown, view, list, fetches, saves, search,
                   moves, lists>>

Doing(to) == task # NULL /\ task.to = to
Answered(to) == Doing(to) /\ \A i \in DOMAIN lists : ~lists[i].awaited

connectWith ==
    /\ More /\ Answered("show")
    /\ AskList(TRUE)
    /\ UNCHANGED <<server, shown, view, list, fetches, saves, search, moves, task, choices>>

\* Once it is removed it is not the one chosen any more.
removeAccount ==
    /\ More /\ Answered("drop")
    /\ Show(IF task.preferred THEN NULL ELSE preferredId, accounts, UNCHANGED list)
    /\ AskList(TRUE)
    /\ UNCHANGED <<server, view, saves, search, moves, task, choices>>

\* Refused, or the answer is lost
TaskFails ==
    /\ Answered("show") \/ Answered("drop")
    /\ task' = NULL
    /\ UNCHANGED <<server, shown, view, list, fetches, saves, search, moves, lists, choices>>

-----------------------------------------------------------------------------
(* The list of mailboxes *)

\* list_accounts, at the server
ServeList(i) ==
    /\ lists[i].known = NULL
    /\ lists' = [lists EXCEPT ![i].known = status]
    /\ UNCHANGED <<server, shown, view, list, fetches, saves, search, moves, task, choices>>

ConnectionEnds(i, known) ==
    /\ ~lists[i].awaited
    /\ Show(preferredId, known, UNCHANGED list)
    /\ UNCHANGED <<view, search, task>>

handleConnect(i, known) ==
    /\ lists[i].awaited /\ Doing("show")
    /\ Show(task.box, known, UNCHANGED list)
    /\ resetView
    /\ task' = NULL

handleRemove(i, known) ==
    /\ lists[i].awaited /\ Doing("drop")
    /\ Show(preferredId, known, UNCHANGED list)
    /\ IF task.shown THEN resetView ELSE UNCHANGED <<view, search>>
    /\ task' = NULL

refresh(i, known) ==
    /\ ConnectionEnds(i, known) \/ handleConnect(i, known) \/ handleRemove(i, known)
    /\ lists' = RemoveAt(lists, i)
    /\ UNCHANGED <<server, saves, moves, choices>>

\* Whichever comes last is shown; one that fails, or whose answer is lost, leaves
\* the one shown.
ListAnswers(i) == lists[i].known # NULL /\ refresh(i, lists[i].known)
ListFails(i) == lists[i].known = NULL /\ refresh(i, accounts)

-----------------------------------------------------------------------------
(* Search, folders and moves *)

handleSearch ==
    /\ Choose /\ accountId # NULL
    /\ view' = "search"
    /\ searches' = Append(Superseded(searches),
                     [box |-> accountId, latest |-> TRUE, chosen |-> accountId = preferredId])
    /\ UNCHANGED <<server, shown, list, fetches, saves, results, others>>

SearchAnswers(i) ==
    /\ \/ UNCHANGED results
       \/ /\ searches[i].latest
          /\ results' = [box |-> searches[i].box, chosen |-> searches[i].chosen]
    /\ searches' = RemoveAt(searches, i)
    /\ UNCHANGED <<server, shown, view, list, fetches, saves, others, choices>>

\* handleClearSearch, handleOpenFolder, leaveFolder
Turn(to) ==
    /\ Choose /\ accountId # NULL /\ view # to
    /\ view' = to
    /\ clearSearch
    /\ UNCHANGED <<server, shown, list, fetches, saves, others>>

handleMove(uid) ==
    /\ Choose /\ accountId # NULL /\ view # "folder"
    /\ \E e \in emails : e.uid = uid
    /\ \A m \in moves : m.uid # uid
    /\ moves' = moves \union {[box |-> accountId, uid |-> uid, done |-> FALSE]}
    /\ UNCHANGED <<server, shown, view, list, fetches, saves, search, lists, task>>

Moved(m) ==
    /\ ~m.done /\ status[m.box] = "open" /\ m.uid \in inbox[m.box]
    /\ inbox' = [inbox EXCEPT ![m.box] = @ \ {m.uid}]
    /\ moves' = (moves \ {m}) \union {[m EXCEPT !.done = TRUE]}
    /\ UNCHANGED <<status, newest, stored, shown, view, list, fetches, saves, search,
                   lists, task, choices>>

MoveAnswers(m) ==
    /\ m.done
    /\ moves' = moves \ {m}
    /\ emails' = IF accountId = m.box THEN {e \in emails : e.uid # m.uid} ELSE emails
    /\ UNCHANGED <<cursor, watermarkUid, manual, placed>>
    /\ UNCHANGED <<server, shown, view, fetches, saves, search, lists, task, choices>>

MoveFails(m) ==
    /\ moves' = moves \ {m}
    /\ UNCHANGED <<server, shown, view, list, fetches, saves, search, lists, task, choices>>

-----------------------------------------------------------------------------
(* Elsewhere *)

Deliver(m) ==
    /\ Choose
    /\ newest[m] < MaxUid
    /\ newest' = [newest EXCEPT ![m] = @ + 1]
    /\ inbox' = [inbox EXCEPT ![m] = @ \union {newest'[m]}]
    /\ UNCHANGED <<status, stored, shown, view, list, fetches, saves, search, others>>

Lock(m) ==
    /\ Choose
    /\ \E to \in {"locked", "removed"} :
           /\ status[m] \notin {to, "removed"}
           /\ status' = [status EXCEPT ![m] = to]
    /\ UNCHANGED <<inbox, newest, stored, shown, view, list, fetches, saves, search, others>>

-----------------------------------------------------------------------------
FetchEnds(i) == Serve(i) \/ FetchRefused(i) \/ FetchAnswers(i) \/ FetchFails(i)

User ==
    \/ \E uid \in UIDs : setWatermarkManually(uid) \/ handleMove(uid)
    \/ \E m \in Mailboxes : handleSelectAccount(m) \/ Connect(m) \/ RemoveMailbox(m)
    \/ markAllSeenNow \/ Hide \/ handleSearch
    \/ \E to \in {"inbox", "folder"} : Turn(to)

Answers ==
    \/ \E i \in DOMAIN fetches : FetchEnds(i)
    \/ \E i \in DOMAIN searches : SearchAnswers(i)
    \/ \E m \in moves : Moved(m) \/ MoveAnswers(m) \/ MoveFails(m)
    \/ \E i \in DOMAIN lists : ServeList(i) \/ ListAnswers(i) \/ ListFails(i)
    \/ SaveEnds \/ SaveFails \/ connectWith \/ removeAccount \/ TaskFails

Next ==
    \/ Poll \/ User \/ Answers
    \/ \E m \in Mailboxes : Deliver(m) \/ Lock(m)

Spec == Init /\ [][Next]_vars

\* The timer goes on, requests end, and a server asked again and again
\* answers in the end.
FairSpec ==
    /\ Spec
    /\ WF_vars(Poll) /\ WF_vars(SaveEnds \/ SaveFails)
    /\ WF_vars(\E i \in DOMAIN fetches : ~fetches[i].latest /\ FetchEnds(i))
    /\ WF_vars(connectWith \/ removeAccount \/ TaskFails)
    /\ SF_vars(\E i \in Latest(fetches) : Serve(i) \/ FetchRefused(i))
    /\ SF_vars(\E i \in Latest(fetches) : FetchAnswers(i))
    /\ SF_vars(\E i \in DOMAIN lists : ServeList(i))
    /\ SF_vars(\E i \in DOMAIN lists : ListAnswers(i))

-----------------------------------------------------------------------------
(* Properties *)

\* Whatever answers late, lists of mailboxes in another order included: the list
\* is of the mailbox on screen; the results of a search in a mailbox the user
\* chose appear in no other one he chose; and a marker placed by hand is the one
\* that is stored once its save has ended well, until the user marks all seen or
\* another mailbox is shown.
LastChoiceCounts ==
    /\ accountId # NULL => \A e \in emails : e.box = accountId
    /\ view = "search" /\ results # NULL /\ results.chosen
           /\ accountId # NULL /\ accountId = preferredId =>
           results.box = accountId
    /\ placed # NULL /\ (\A i \in DOMAIN saves : saves[i].box # placed.box) =>
           stored[placed.box] = placed.uid

\* A page that stays open shows the inbox and the stored marker in the end,
\* though saves fail and a listing asked for before a move or a new marker
\* answers after it.
PageAgrees ==
    []<>(\/ accountId = NULL
         \/ /\ emails = [box: {accountId}, uid: inbox[accountId]]
            /\ watermarkUid = stored[accountId])

-----------------------------------------------------------------------------
(* Claims of the repository that the code does not keep *)

\* Each result belongs to the mailbox on screen, which opens it ("never show one
\* account's emails under another", useEmails.js): a list of mailboxes brings
\* another one to the screen, the one chosen before included, and the results stay.
ResultsAreOwn ==
    view = "search" /\ results # NULL /\ accountId # NULL => results.box = accountId
=============================================================================
