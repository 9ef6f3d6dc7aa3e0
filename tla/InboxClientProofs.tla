------------------------- MODULE InboxClientProofs -------------------------
(***************************************************************************)
(* Proofs about InboxClient: its types, and that what the user chose last  *)
(* counts, whatever answers late.                                          *)
(*                                                                         *)
(* LastChoiceCounts is not inductive.  An answer changes the page long     *)
(* after it was asked for, so the invariant says what the requests under   *)
(* way may still bring (OfCursor, OfChoice) and which save of a marker     *)
(* placed by hand is still to come (PlacedStands).  Lists of mailboxes may *)
(* bring anything, in any order: it says nothing of them but their types.  *)
(* The last part is about Mailbox, the database's side of such a page.     *)
(***************************************************************************)
EXTENDS InboxClient, Mailbox, FiniteSetTheorems, WellFoundedInduction, TLAPS

\* The list, and what requests for it may still bring, is of the mailbox that
\* was asked for last, which is the one on screen.
Agree(requests, box) ==
    \A i \in DOMAIN requests :
        /\ \A e \in requests[i].emails : e.box = requests[i].box
        /\ requests[i].latest => requests[i].box = box

OfCursor ==
    /\ accountId # NULL => cursor = accountId
    /\ \A e \in emails : e.box = cursor
    /\ Agree(fetches, cursor)

\* What is shown of a search in a mailbox the user chose, or may still be shown,
\* is of the one chosen now.
SearchedIn(box) ==
    /\ \A i \in DOMAIN searches : searches[i].latest /\ searches[i].chosen => searches[i].box = box
    /\ results # NULL /\ results.chosen => results.box = box
OfChoice == preferredId # NULL => SearchedIn(preferredId)

\* A marker placed by hand is the last one to be saved for its mailbox, or the
\* one that is stored.
SavesIt(i) ==
    /\ saves[i].box = placed.box /\ saves[i].uid = placed.uid /\ saves[i].hand
    /\ \A j \in DOMAIN saves : j > i => saves[j].box # placed.box
Saved ==
    /\ \A i \in DOMAIN saves : saves[i].box # placed.box
    /\ stored[placed.box] = placed.uid
PlacedStands ==
    placed # NULL =>
        /\ manual /\ placed.box = cursor
        /\ (\E i \in DOMAIN saves : SavesIt(i)) \/ Saved

IInv == TypeOK /\ OfCursor /\ OfChoice /\ PlacedStands

-----------------------------------------------------------------------------
(* Numbers and sequences *)

\* A nonempty set of numbers has a least.
LEMMA MinIsMember ==
    ASSUME NEW S \in SUBSET Nat, S # {}
    PROVE  Min(S) \in S
<1>1. PICK x \in S : \A y \in S : <<y, x>> \notin OpToRel(<, Nat)
  BY NatLessThanWellFounded, WFMin
<1>2. \A y \in S : ~(y < x)
  BY <1>1 DEF OpToRel
<1>3. \A y \in S : x <= y
  BY <1>2
<1> QED
  BY <1>3 DEF Min

\* A nonempty set of numbers that has a bound has a greatest.
LEMMA MaxIsMember ==
    ASSUME NEW S \in SUBSET Nat, S # {}, NEW n \in Nat, \A s \in S : s <= n
    PROVE  Max(S) \in S
<1> DEFINE T == {n - s : s \in S}
<1>1. T \subseteq Nat /\ T # {}
  <2>1. \A s \in S : n - s \in Nat
    OBVIOUS
  <2> QED
    BY <2>1
<1>2. PICK t \in T : \A u \in T : <<u, t>> \notin OpToRel(<, Nat)
  BY <1>1, NatLessThanWellFounded, WFMin
<1>3. \A u \in T : ~(u < t)
  BY <1>1, <1>2 DEF OpToRel
<1>4. PICK s \in S : t = n - s
  OBVIOUS
<1>5. \A u \in S : s >= u
  BY <1>3, <1>4
<1> QED
  BY <1>4, <1>5 DEF Max

\* What is left of a sequence without one of its elements.
LEMMA RemoveAtIs ==
    ASSUME NEW S, NEW s \in Seq(S), NEW i \in DOMAIN s
    PROVE  /\ RemoveAt(s, i) \in Seq(S)
           /\ Len(RemoveAt(s, i)) = Len(s) - 1
           /\ \A k \in DOMAIN RemoveAt(s, i) :
                 LET j == IF k < i THEN k ELSE k + 1
                 IN  j \in DOMAIN s /\ RemoveAt(s, i)[k] = s[j]
<1> DEFINE front == SubSeq(s, 1, i - 1)
           back == SubSeq(s, i + 1, Len(s))
<1>1. /\ front \in Seq(S) /\ Len(front) = i - 1
      /\ \A k \in 1..(i - 1) : front[k] = s[k]
  OBVIOUS
<1>2. /\ back \in Seq(S) /\ Len(back) = Len(s) - i
      /\ \A k \in 1..(Len(s) - i) : back[k] = s[i + k]
  OBVIOUS
<1>3. RemoveAt(s, i) = front \o back
  BY DEF RemoveAt
<1> HIDE DEF front, back
<1>4. RemoveAt(s, i) \in Seq(S) /\ Len(RemoveAt(s, i)) = Len(s) - 1
  BY <1>1, <1>2, <1>3
<1>5. ASSUME NEW k \in 1..(i - 1) PROVE RemoveAt(s, i)[k] = s[k]
  BY <1>1, <1>2, <1>3
<1>6. ASSUME NEW k \in i..(Len(s) - 1) PROVE RemoveAt(s, i)[k] = s[k + 1]
  <2>1. k - (i - 1) \in 1..(Len(s) - i) /\ i + (k - (i - 1)) = k + 1
    OBVIOUS
  <2>2. (front \o back)[k] = back[k - (i - 1)]
    BY <1>1, <1>2
  <2> QED
    BY <2>1, <2>2, <1>2, <1>3
<1>7. DOMAIN RemoveAt(s, i) = 1..(Len(s) - 1)
  BY <1>4
<1> HIDE DEF RemoveAt
<1> QED
  BY <1>4, <1>5, <1>6, <1>7

\* Each element that is left was one before, and different ones were different.
LEMMA RemoveAtWas ==
    ASSUME NEW S, NEW s \in Seq(S), NEW i \in DOMAIN s
    PROVE  \E was \in [DOMAIN RemoveAt(s, i) -> DOMAIN s] :
              /\ \A k \in DOMAIN RemoveAt(s, i) : RemoveAt(s, i)[k] = s[was[k]]
              /\ \A k, l \in DOMAIN RemoveAt(s, i) : was[k] = was[l] => k = l
<1> DEFINE r == RemoveAt(s, i)
<1>1. /\ r \in Seq(S)
      /\ \A k \in DOMAIN r : /\ (IF k < i THEN k ELSE k + 1) \in DOMAIN s
                             /\ r[k] = s[IF k < i THEN k ELSE k + 1]
  BY RemoveAtIs
<1> HIDE DEF r
<1> DEFINE was == [k \in DOMAIN r |-> IF k < i THEN k ELSE k + 1]
<1>2. was \in [DOMAIN r -> DOMAIN s]
  BY <1>1
<1>3. \A k \in DOMAIN r : r[k] = s[was[k]]
  BY <1>1
<1>4. \A k, l \in DOMAIN r : was[k] = was[l] => k = l
  BY <1>1
<1> QED
  BY <1>2, <1>3, <1>4 DEF r

-----------------------------------------------------------------------------
(* Which mailbox is shown *)

LEMMA FirstOfIs ==
    ASSUME NEW boxes \in SUBSET Mailboxes, NEW else
    PROVE  FirstOf(boxes, else) \in boxes \union {else}
<1> DEFINE found == {i \in DOMAIN Accounts : Accounts[i] \in boxes}
<1>1. CASE boxes = {}
  BY <1>1 DEF FirstOf
<1>2. CASE boxes # {}
  <2>1. found # {} /\ found \in SUBSET Nat
    BY <1>2, AccountsAssumption DEF Mailboxes, Range
  <2>2. Min(found) \in found
    BY <2>1, MinIsMember
  <2> QED
    BY <1>2, <2>2 DEF FirstOf
<1> QED
  BY <1>1, <1>2

\* A mailbox that can be read is one of the user's.
LEMMA ReadableIs ==
    ASSUME NEW id \in Mailboxes \union {NULL}, NEW known \in [Mailboxes -> Status]
    PROVE  Readable(id, known) \in Mailboxes \union {NULL}
<1> DEFINE listed == {m \in Mailboxes : known[m] # "removed"}
           open == {m \in Mailboxes : known[m] = "open"}
<1>1. FirstOf(listed, NULL) \in Mailboxes \union {NULL}
  BY FirstOfIs
<1>2. FirstOf(open, FirstOf(listed, NULL)) \in Mailboxes \union {NULL}
  BY <1>1, FirstOfIs
<1>3. Active(id, known) \in Mailboxes \union {NULL}
  BY <1>2 DEF Active
<1> QED
  BY <1>3 DEF Readable

LEMMA ShownIs ==
    ASSUME TypeOK
    PROVE  accountId \in Mailboxes \union {NULL}
BY ReadableIs DEF accountId, TypeOK

\* The page as it is after a step shows what the list then comes to.
LEMMA ShownNext ==
    /\ accountId' = Readable(preferredId', accounts')
    /\ UNCHANGED shown => accountId' = accountId
BY DEF accountId, shown

\* The first mailbox is shown at first.
LEMMA FirstIsMember == Accounts[1] \in Mailboxes /\ 1 \in DOMAIN Accounts
BY AccountsAssumption DEF Mailboxes, Range

LEMMA NewestIs ==
    ASSUME TypeOK
    PROVE  /\ Newest \in UIDs \union {0}
           /\ Newest > watermarkUid => Newest \in UIDs
<1> DEFINE S == {e.uid : e \in emails} \union {0}
<1>1. S \in SUBSET (UIDs \union {0}) /\ UIDs \union {0} \subseteq Nat
  BY DEF TypeOK, Message, UIDs
<1>2. \A u \in S : u <= MaxUid
  BY <1>1, BoundsAssumption DEF UIDs
<1>3. Max(S) \in S
  <2> HIDE DEF S
  <2>1. S # {}
    BY DEF S
  <2> QED
    BY <2>1, <1>1, <1>2, MaxIsMember, BoundsAssumption
<1>4. Newest \in UIDs \union {0}
  BY <1>1, <1>3 DEF Newest
<1>5. ASSUME Newest > watermarkUid PROVE Newest # 0
  BY <1>5, <1>1 DEF TypeOK, UIDs
<1> QED
  BY <1>4, <1>5

-----------------------------------------------------------------------------
(* Requests *)

Search == [box: Mailboxes, latest: BOOLEAN, chosen: BOOLEAN]
Found == [box: Mailboxes, chosen: BOOLEAN]
Alone(requests) == \A i, j \in Latest(requests) : i = j

\* A request that follows supersedes the ones before it.
LEMMA FetchesSuperseded ==
    ASSUME NEW requests \in Seq(Fetch), NEW new \in Fetch
    PROVE  LET next == Append(Superseded(requests), new) IN
           /\ next \in Seq(Fetch) /\ Alone(next)
           /\ \A i \in DOMAIN next : next[i].latest => next[i] = new
           /\ \A i \in DOMAIN next : \/ next[i] = new
                                     \/ /\ i \in DOMAIN requests
                                        /\ next[i].box = requests[i].box
                                        /\ next[i].emails = requests[i].emails
<1> DEFINE old == Superseded(requests)
           next == Append(old, new)
<1>1. ASSUME NEW r \in Fetch
      PROVE  /\ [r EXCEPT !.latest = FALSE] \in Fetch
             /\ [r EXCEPT !.latest = FALSE].latest = FALSE
             /\ [r EXCEPT !.latest = FALSE].box = r.box
             /\ [r EXCEPT !.latest = FALSE].emails = r.emails
  BY DEF Fetch
<1>2. /\ old \in Seq(Fetch) /\ Len(old) = Len(requests)
      /\ \A i \in DOMAIN requests : /\ old[i].latest = FALSE
                                    /\ old[i].box = requests[i].box
                                    /\ old[i].emails = requests[i].emails
  <2>1. \A i \in DOMAIN requests : requests[i] \in Fetch
    OBVIOUS
  <2>2. DOMAIN requests = 1..Len(requests)
    OBVIOUS
  <2>3. old = [i \in 1..Len(requests) |-> [requests[i] EXCEPT !.latest = FALSE]]
    BY <2>2 DEF Superseded
  <2> HIDE DEF old
  <2>4. \A i \in 1..Len(requests) : /\ old[i] \in Fetch /\ old[i].latest = FALSE
                                   /\ old[i].box = requests[i].box
                                   /\ old[i].emails = requests[i].emails
    BY <1>1, <2>1, <2>2, <2>3
  <2>5. old \in [1..Len(requests) -> Fetch]
    BY <2>3, <2>4
  <2> QED
    BY <2>2, <2>4, <2>5
<1> HIDE DEF old
<1>3. /\ next \in Seq(Fetch) /\ DOMAIN next = 1..(Len(requests) + 1)
      /\ next[Len(requests) + 1] = new
      /\ \A i \in 1..Len(requests) : next[i] = old[i]
  BY <1>2
<1> HIDE DEF next
<1>4. \A i \in DOMAIN next : i = Len(requests) + 1 \/ i \in DOMAIN requests
  BY <1>3
<1>5. \A i \in DOMAIN next : next[i].latest => i = Len(requests) + 1
  BY <1>2, <1>3, <1>4
<1>6. Alone(next)
  BY <1>5 DEF Alone, Latest
<1> QED
  BY <1>2, <1>3, <1>4, <1>5, <1>6 DEF next, old

LEMMA SearchesSuperseded ==
    ASSUME NEW requests \in Seq(Search)
    PROVE  /\ Superseded(requests) \in Seq(Search)
           /\ \A i \in DOMAIN Superseded(requests) : Superseded(requests)[i].latest = FALSE
           /\ \A new \in Search :
                 LET next == Append(Superseded(requests), new)
                 IN  /\ next \in Seq(Search)
                     /\ \A i \in DOMAIN next : next[i].latest => next[i] = new
<1> DEFINE old == Superseded(requests)
<1>1. ASSUME NEW r \in Search
      PROVE  [r EXCEPT !.latest = FALSE] \in Search /\ [r EXCEPT !.latest = FALSE].latest = FALSE
  BY DEF Search
<1>2. /\ old \in Seq(Search) /\ DOMAIN old = 1..Len(requests)
      /\ \A i \in DOMAIN old : old[i].latest = FALSE
  <2>1. \A i \in DOMAIN requests : requests[i] \in Search
    OBVIOUS
  <2>2. DOMAIN requests = 1..Len(requests)
    OBVIOUS
  <2>3. old = [i \in 1..Len(requests) |-> [requests[i] EXCEPT !.latest = FALSE]]
    BY <2>2 DEF Superseded
  <2> HIDE DEF old
  <2>4. \A i \in 1..Len(requests) : /\ old[i] \in Search /\ old[i].latest = FALSE
    BY <1>1, <2>1, <2>2, <2>3
  <2>5. old \in [1..Len(requests) -> Search]
    BY <2>3, <2>4
  <2> QED
    BY <2>2, <2>4, <2>5
<1> HIDE DEF old
<1>3. ASSUME NEW new \in Search, NEW i \in DOMAIN Append(old, new)
      PROVE  Append(old, new)[i].latest => Append(old, new)[i] = new
  <2>1. i \in DOMAIN old \/ i = Len(old) + 1
    BY <1>2
  <2> QED
    BY <2>1, <1>2
<1>4. \A new \in Search : Append(old, new) \in Seq(Search)
  BY <1>2
<1> QED
  BY <1>2, <1>3, <1>4 DEF old

\* A request that ends leaves the others as they are.
LEMMA FetchRemoved ==
    ASSUME NEW requests \in Seq(Fetch), Alone(requests), NEW i \in DOMAIN requests
    PROVE  /\ RemoveAt(requests, i) \in Seq(Fetch) /\ Alone(RemoveAt(requests, i))
           /\ \A box : Agree(requests, box) => Agree(RemoveAt(requests, i), box)
<1> DEFINE rest == RemoveAt(requests, i)
<1>1. PICK was \in [DOMAIN rest -> DOMAIN requests] :
             /\ \A k \in DOMAIN rest : rest[k] = requests[was[k]]
             /\ \A k, l \in DOMAIN rest : was[k] = was[l] => k = l
  BY RemoveAtWas
<1>2. rest \in Seq(Fetch)
  BY RemoveAtIs
<1> HIDE DEF rest
<1>3. Alone(rest)
  BY <1>1 DEF Alone, Latest
<1>4. \A box : Agree(requests, box) => Agree(rest, box)
  BY <1>1 DEF Agree
<1> QED
  BY <1>2, <1>3, <1>4 DEF rest

-----------------------------------------------------------------------------
(* The list *)

\* Asking for the list of a mailbox.
LEMMA FetchIs ==
    ASSUME TypeOK, OfCursor, NEW m \in Mailboxes, fetchEmails(m)
    PROVE  /\ fetches' \in Seq(Fetch) /\ Alone(fetches')
           /\ cursor' = m
           /\ emails' \subseteq Message /\ watermarkUid' \in UIDs \union {0}
           /\ manual' \in BOOLEAN
           /\ placed' \in {placed, NULL}
           /\ placed' # NULL => cursor' = cursor /\ manual' = manual
           /\ \A e \in emails' : e.box = m
           /\ Agree(fetches', m)
<1> DEFINE new == [box |-> m, latest |-> TRUE, at |-> "sent", marker |-> 0, emails |-> {}]
<1>1. new \in Fetch /\ new.box = m /\ new.emails = {}
  BY DEF Fetch
<1>2. fetches' = Append(Superseded(fetches), new) /\ fetches \in Seq(Fetch)
  BY DEF fetchEmails, TypeOK
<1> HIDE DEF new
<1>3. /\ fetches' \in Seq(Fetch) /\ Alone(fetches')
      /\ \A i \in DOMAIN fetches' : fetches'[i].latest => fetches'[i] = new
      /\ \A i \in DOMAIN fetches' : \/ fetches'[i] = new
                                    \/ /\ i \in DOMAIN fetches
                                       /\ fetches'[i].box = fetches[i].box
                                       /\ fetches'[i].emails = fetches[i].emails
  BY <1>1, <1>2, FetchesSuperseded
<1>4. Agree(fetches', m)
  BY <1>1, <1>3 DEF Agree, OfCursor
<1>5. /\ cursor' = m
      /\ emails' \subseteq Message /\ watermarkUid' \in UIDs \union {0}
      /\ manual' \in BOOLEAN /\ placed' \in {placed, NULL}
      /\ placed' # NULL => cursor' = cursor /\ manual' = manual
      /\ \A e \in emails' : e.box = m
  BY DEF fetchEmails, TypeOK, OfCursor
<1> QED
  BY <1>3, <1>4, <1>5

\* What Show does to the list, whatever it is told to set.
Showing(id, known) ==
    /\ preferredId' = id /\ accounts' = known
    /\ watermarkUid' \in UIDs \union {0}
    /\ \/ /\ Readable(id, known) \in {accountId, NULL}
          /\ UNCHANGED <<emails, cursor, manual, placed, fetches>>
       \/ /\ Readable(id, known) \notin {accountId, NULL}
          /\ fetchEmails(Readable(id, known))

Ids == Mailboxes \union {NULL}
Lists == [Mailboxes -> Status]

LEMMA ShowIs ==
    ASSUME TypeOK, NEW id, NEW known, Show(id, known, UNCHANGED list)
    PROVE  Showing(id, known)
BY DEF Show, Showing, list, TypeOK, fetchEmails

\* What a list of mailboxes does once it answers, or does not.
LEMMA RefreshIs ==
    ASSUME TypeOK, NEW i \in DOMAIN lists, ListAnswers(i) \/ ListFails(i)
    PROVE  /\ \E id \in Ids, known \in Lists : Showing(id, known)
           /\ (preferredId' = preferredId /\ UNCHANGED search) \/ clearSearch
           /\ UNCHANGED <<server, saves, moves, choices>> /\ lists' = RemoveAt(lists, i)
           /\ task' \in {task, NULL} /\ view' \in {view, "inbox"}
<1>1. PICK known \in Lists : refresh(i, known)
  <2>1. lists[i] \in List
    BY DEF TypeOK
  <2>2. lists[i].known \in Lists \union {NULL} /\ accounts \in Lists
    BY <2>1 DEF List, Lists, TypeOK
  <2> QED
    BY <2>2 DEF ListAnswers, ListFails
<1>3. preferredId \in Ids
  BY DEF TypeOK, Ids
<1>4. UNCHANGED <<server, saves, moves, choices>> /\ lists' = RemoveAt(lists, i)
  BY <1>1 DEF refresh
<1>5. CASE ConnectionEnds(i, known)
  <2>1. Showing(preferredId, known) /\ UNCHANGED <<view, search, task>>
    BY <1>5, ShowIs DEF ConnectionEnds
  <2> QED
    BY <1>3, <1>4, <2>1 DEF Showing
<1>6. CASE handleConnect(i, known)
  <2>1. task.box \in Ids
    BY <1>6 DEF handleConnect, Doing, TypeOK, Ids
  <2>2. Showing(task.box, known) /\ clearSearch /\ view' = "inbox" /\ task' = NULL
    BY <1>6, ShowIs DEF handleConnect, resetView
  <2> QED
    BY <1>4, <2>1, <2>2
<1>7. CASE handleRemove(i, known)
  <2>1. /\ Showing(preferredId, known) /\ task' = NULL
        /\ (clearSearch /\ view' = "inbox") \/ UNCHANGED <<view, search>>
    BY <1>7, ShowIs DEF handleRemove, resetView
  <2> QED
    BY <1>3, <1>4, <2>1 DEF Showing
<1> QED
  BY <1>1, <1>5, <1>6, <1>7 DEF refresh

\* A page that comes to show another mailbox empties its list and asks anew.
LEMMA ShowingKeeps ==
    ASSUME TypeOK, OfCursor, NEW id \in Ids, NEW known \in Lists, Showing(id, known)
    PROVE  /\ OfCursor'
           /\ emails' \subseteq Message /\ cursor' \in Ids /\ manual' \in BOOLEAN
           /\ fetches' \in Seq(Fetch) /\ Alone(fetches')
           /\ placed' \in {placed, NULL}
           /\ placed' # NULL => cursor' = cursor /\ manual' = manual
<1> DEFINE now == Readable(id, known)
<1>1. now \in Ids
  BY ReadableIs DEF Ids, Lists
<1>2. accountId' = now
  BY ShownNext DEF Showing
<1> HIDE DEF now
<1>3. CASE now \in {accountId, NULL} /\ UNCHANGED <<emails, cursor, manual, placed, fetches>>
  BY <1>2, <1>3 DEF OfCursor, Agree, TypeOK, Ids, Alone
<1>4. CASE now \notin {accountId, NULL} /\ fetchEmails(now)
  <2>1. now \in Mailboxes
    BY <1>1, <1>4 DEF Ids
  <2> QED
    BY <2>1, <1>2, <1>4, FetchIs DEF OfCursor, Ids, Agree
<1> QED
  BY <1>3, <1>4 DEF Showing, now

\* A step that takes the list, or a request for it, no further.
Still == UNCHANGED <<accounts, preferredId, emails, cursor, fetches>>

\* What a step does to the list.
LEMMA ListStep ==
    ASSUME TypeOK, [Next]_vars
    PROVE  \/ Still
           \/ Poll
           \/ \E i \in DOMAIN fetches : FetchEnds(i)
           \/ \E m \in moves : MoveAnswers(m)
           \/ \E id \in Ids, known \in Lists : Showing(id, known)
<1> USE DEF Still
<1>1. CASE User
  <2>1. ASSUME NEW m \in Mailboxes, handleSelectAccount(m)
        PROVE  Showing(m, accounts)
    BY <2>1, NewestIs DEF handleSelectAccount, Show, Showing, TypeOK, fetchEmails
  <2>2. \A m \in Mailboxes : m \in Ids /\ accounts \in Lists
    BY DEF Ids, Lists, TypeOK
  <2>3. \A uid \in UIDs : setWatermarkManually(uid) \/ handleMove(uid) => Still
    BY DEF setWatermarkManually, handleMove, shown, list
  <2>4. \A m \in Mailboxes : Connect(m) \/ RemoveMailbox(m) => Still
    BY DEF Connect, RemoveMailbox, shown, list
  <2>5. markAllSeenNow \/ Hide \/ handleSearch \/ (\E to \in {"inbox", "folder"} : Turn(to))
            => Still
    BY DEF markAllSeenNow, Hide, handleSearch, Turn, shown, list
  <2> QED
    BY <1>1, <2>1, <2>2, <2>3, <2>4, <2>5 DEF User
<1>2. CASE Answers
  <2> USE DEF Ids, Lists
  <2>1. accounts \in Lists /\ (IF task.preferred THEN NULL ELSE preferredId) \in Ids
    BY DEF TypeOK
  <2>2. ASSUME removeAccount
        PROVE  Showing(IF task.preferred THEN NULL ELSE preferredId, accounts)
    BY <2>2, ShowIs DEF removeAccount
  <2>3. ASSUME NEW i \in DOMAIN lists, ServeList(i) \/ ListAnswers(i) \/ ListFails(i)
        PROVE  Still \/ \E id \in Ids, known \in Lists : Showing(id, known)
    <3>1. ServeList(i) => Still
      BY DEF ServeList, shown, list
    <3> QED
      BY <2>3, <3>1, RefreshIs
  <2>4. ASSUME NEW m \in moves
        PROVE  Moved(m) \/ MoveFails(m) => Still
    BY DEF Moved, MoveFails, shown, list
  <2>5. \A i \in DOMAIN searches : SearchAnswers(i) => Still
    BY DEF SearchAnswers, shown, list
  <2>6. SaveEnds \/ SaveFails \/ connectWith \/ TaskFails => Still
    BY DEF SaveEnds, SaveFails, connectWith, TaskFails, shown, list
  <2> QED
    BY <1>2, <2>1, <2>2, <2>3, <2>4, <2>5, <2>6 DEF Answers
<1>3. ASSUME NEW m \in Mailboxes
      PROVE  Deliver(m) \/ Lock(m) => Still
  BY DEF Deliver, Lock, shown, list
<1>4. CASE UNCHANGED vars
  BY <1>4 DEF vars, shown, list
<1> QED
  BY <1>1, <1>2, <1>3, <1>4 DEF Next

\* The list, and what may still come of it, stays of the mailbox on screen.
LEMMA OfCursorStep ==
    ASSUME TypeOK, OfCursor, [Next]_vars
    PROVE  OfCursor'
<1>1. CASE Still
  BY <1>1, ShownNext DEF Still, OfCursor, Agree, shown
<1>2. CASE Poll
  <2>1. accountId \in Mailboxes /\ fetchEmails(accountId) /\ accountId' = accountId
    BY <1>2, ShownIs, ShownNext DEF Poll
  <2> QED
    BY <2>1, FetchIs DEF OfCursor, Agree
<1>3. ASSUME NEW i \in DOMAIN fetches, FetchEnds(i)
      PROVE  OfCursor'
  <2>1. UNCHANGED <<shown, cursor>> /\ accountId' = accountId
    BY <1>3, ShownNext
    DEF FetchEnds, Serve, FetchRefused, FetchAnswers, FetchFails, list
  <2>2. CASE Serve(i)
    <3>1. UNCHANGED emails
      BY <2>2 DEF Serve, list
    <3>2. ASSUME NEW k \in DOMAIN fetches'
          PROVE  /\ k \in DOMAIN fetches
                 /\ fetches'[k].box = fetches[k].box /\ fetches'[k].latest = fetches[k].latest
                 /\ \A e \in fetches'[k].emails :
                       e.box = fetches[k].box \/ e \in fetches[k].emails
      BY <2>2 DEF Serve, TypeOK, Fetch
    <3> QED
      BY <2>1, <3>1, <3>2 DEF OfCursor, Agree
  <2>3. CASE FetchRefused(i) \/ FetchFails(i)
    <3>1. UNCHANGED emails /\ fetches' = RemoveAt(fetches, i)
      BY <2>3 DEF FetchRefused, FetchFails, list
    <3>2. Agree(fetches', cursor)
      BY <3>1, FetchRemoved DEF TypeOK, Alone, OfCursor
    <3> QED
      BY <2>1, <3>1, <3>2 DEF OfCursor, Agree
  <2>4. CASE FetchAnswers(i)
    <3>1. Agree(fetches', cursor)
      BY <2>4, FetchRemoved DEF FetchAnswers, TypeOK, Alone, OfCursor
    <3>2. \A e \in emails' : e.box = cursor
      BY <2>4 DEF FetchAnswers, OfCursor, Agree
    <3> QED
      BY <2>1, <3>1, <3>2 DEF OfCursor, Agree
  <2> QED
    BY <1>3, <2>2, <2>3, <2>4 DEF FetchEnds
<1>4. ASSUME NEW m \in moves, MoveAnswers(m)
      PROVE  OfCursor'
  <2>1. UNCHANGED <<shown, cursor, fetches>> /\ emails' \subseteq emails
    BY <1>4 DEF MoveAnswers
  <2> QED
    BY <2>1, ShownNext DEF OfCursor, Agree
<1> QED
  BY <1>1, <1>2, <1>3, <1>4, ListStep, ShowingKeeps

-----------------------------------------------------------------------------
(* The choice *)

\* Nothing is searched for, or found, any more.
LEMMA ClearSearchIs ==
    ASSUME TypeOK, clearSearch
    PROVE  \A box : SearchedIn(box)'
BY SearchesSuperseded DEF clearSearch, SearchedIn, TypeOK, Search

\* What is found is of the mailbox the user chose, if it was searched for there.
LEMMA OfChoiceStep ==
    ASSUME TypeOK, OfChoice, [Next]_vars
    PROVE  OfChoice'
<1> DEFINE Kept == preferredId' \in {preferredId, NULL} /\ UNCHANGED search
<1>1. ASSUME Kept PROVE OfChoice'
  BY <1>1 DEF OfChoice, SearchedIn, search
<1>2. ASSUME clearSearch PROVE OfChoice'
  BY <1>2, ClearSearchIs DEF OfChoice
<1>3. CASE User
  <2>1. \A m \in Mailboxes : Connect(m) \/ RemoveMailbox(m) => Kept
    BY DEF Connect, RemoveMailbox, shown
  <2>2. \A m \in Mailboxes : handleSelectAccount(m) => clearSearch
    BY DEF handleSelectAccount, resetView
  <2>3. \A uid \in UIDs : setWatermarkManually(uid) \/ handleMove(uid) => Kept
    BY DEF setWatermarkManually, handleMove, shown
  <2>4. markAllSeenNow \/ Hide => Kept
    BY DEF markAllSeenNow, Hide, shown
  <2>5. (\E to \in {"inbox", "folder"} : Turn(to)) => clearSearch
    BY DEF Turn
  <2>6. ASSUME handleSearch PROVE OfChoice'
    <3> DEFINE isChosen == accountId = preferredId
               new == [box |-> accountId, latest |-> TRUE, chosen |-> isChosen]
    <3>1. /\ accountId \in Mailboxes /\ UNCHANGED <<preferredId, results>>
          /\ searches' = Append(Superseded(searches), new)
      BY <2>6, ShownIs DEF handleSearch, shown
    <3>2. isChosen \in BOOLEAN
      OBVIOUS
    <3>3. /\ new \in Search /\ new.box = accountId /\ new.chosen = isChosen
          /\ searches \in Seq(Search)
      <4> HIDE DEF isChosen
      <4> QED
        BY <3>1, <3>2 DEF Search, TypeOK
    <3>4. \A i \in DOMAIN searches' : searches'[i].latest => searches'[i] = new
      <4> HIDE DEF new
      <4> QED
        BY <3>1, <3>3, SearchesSuperseded
    <3>5. new.chosen => new.box = preferredId
      BY <3>3
    <3> HIDE DEF new, isChosen
    <3> QED
      BY <3>1, <3>4, <3>5 DEF OfChoice, SearchedIn
  <2> QED
    BY <1>1, <1>2, <1>3, <2>1, <2>2, <2>3, <2>4, <2>5, <2>6 DEF User
<1>4. CASE Answers
  <2>1. ASSUME NEW i \in DOMAIN lists, ServeList(i) \/ ListAnswers(i) \/ ListFails(i)
        PROVE  Kept \/ clearSearch
    <3>1. ServeList(i) => Kept
      BY DEF ServeList, shown
    <3> QED
      BY <2>1, <3>1, RefreshIs
  <2>2. removeAccount => Kept
    BY DEF removeAccount, Show
  <2>3. (\E i \in DOMAIN fetches : FetchEnds(i)) => Kept
    BY DEF FetchEnds, Serve, FetchRefused, FetchAnswers, FetchFails, shown
  <2>4. \A m \in moves : Moved(m) \/ MoveAnswers(m) \/ MoveFails(m) => Kept
    BY DEF Moved, MoveAnswers, MoveFails, shown
  <2>5. SaveEnds \/ SaveFails \/ connectWith \/ TaskFails => Kept
    BY DEF SaveEnds, SaveFails, connectWith, TaskFails, shown
  <2>6. ASSUME NEW i \in DOMAIN searches, SearchAnswers(i)
        PROVE  OfChoice'
    <3> DEFINE found == [box |-> searches[i].box, chosen |-> searches[i].chosen]
    <3>1. /\ UNCHANGED preferredId /\ searches' = RemoveAt(searches, i)
          /\ results' = results \/ (searches[i].latest /\ results' = found)
      BY <2>6 DEF SearchAnswers, shown
    <3>2. found.box = searches[i].box /\ found.chosen = searches[i].chosen
      OBVIOUS
    <3> HIDE DEF found
    <3>3. searches \in Seq(Search)
      BY DEF TypeOK, Search
    <3>4. \A k \in DOMAIN searches' : \E j \in DOMAIN searches : searches'[k] = searches[j]
      BY <3>1, <3>3, RemoveAtWas
    <3> QED
      BY <3>1, <3>2, <3>4 DEF OfChoice, SearchedIn
  <2> QED
    BY <1>1, <1>2, <1>4, <2>1, <2>2, <2>3, <2>4, <2>5, <2>6 DEF Answers
<1>5. (\E m \in Mailboxes : Deliver(m) \/ Lock(m)) \/ Poll \/ UNCHANGED vars => Kept
  BY DEF Deliver, Lock, Poll, vars, shown
<1> QED
  BY <1>1, <1>3, <1>4, <1>5 DEF Next

-----------------------------------------------------------------------------
(* The marker placed by hand *)

\* It stands while neither the saves nor what is stored change, and while it is
\* given up.
Settled ==
    /\ UNCHANGED <<saves, stored>>
    /\ placed' \in {placed, NULL}
    /\ placed' # NULL => cursor' = cursor /\ manual' = manual

LEMMA SettledKeeps ==
    ASSUME PlacedStands, Settled
    PROVE  PlacedStands'
<1>1. CASE placed' = NULL
  BY <1>1 DEF PlacedStands
<1>2. CASE placed' = placed /\ placed # NULL
  BY <1>2 DEF PlacedStands, Settled, SavesIt, Saved
<1> QED
  BY <1>1, <1>2 DEF Settled

\* A save added at the end of the queue comes after all the others.
LEMMA EnqueueIs ==
    ASSUME TypeOK, accountId \in Mailboxes, NEW uid \in UIDs, NEW hand \in BOOLEAN,
           Enqueue(uid, hand)
    PROVE  /\ saves' \in Seq(Save) /\ Len(saves') = Len(saves) + 1
           /\ saves'[Len(saves) + 1].box = accountId
           /\ saves'[Len(saves) + 1].uid = uid
           /\ saves'[Len(saves) + 1].hand = hand
<1> DEFINE new == [box |-> accountId, uid |-> uid, hand |-> hand]
<1>1. new \in Save /\ new.box = accountId /\ new.uid = uid /\ new.hand = hand
  BY DEF Save
<1>2. saves' = Append(saves, new) /\ saves \in Seq(Save)
  BY DEF Enqueue, TypeOK
<1> HIDE DEF new
<1> QED
  BY <1>1, <1>2

\* The first save of the queue ends.
LEMMA FirstEnds ==
    ASSUME TypeOK, PlacedStands, saves # <<>>, saves' = Tail(saves),
           UNCHANGED <<placed, cursor, manual>>,
           \/ stored' = [stored EXCEPT ![Head(saves).box] = Head(saves).uid]
           \/ stored' = stored /\ ~Head(saves).hand
    PROVE  PlacedStands'
<1> SUFFICES ASSUME placed # NULL
             PROVE  (\E i \in DOMAIN saves' : SavesIt(i)') \/ Saved'
  BY DEF PlacedStands
<1>1. /\ saves \in Seq(Save) /\ Len(saves) > 0 /\ Head(saves) = saves[1] /\ saves[1] \in Save
      /\ Len(saves') = Len(saves) - 1
      /\ \A k \in 1..(Len(saves) - 1) : saves'[k] = saves[k + 1]
      /\ DOMAIN saves' = 1..(Len(saves) - 1) /\ DOMAIN saves = 1..Len(saves)
  BY DEF TypeOK
<1>2. /\ placed.box \in Mailboxes
      /\ stored'[placed.box] = stored[placed.box] \/ Head(saves).box = placed.box
      /\ Head(saves).box = placed.box =>
            \/ stored'[placed.box] = Head(saves).uid
            \/ stored' = stored /\ ~Head(saves).hand
  BY <1>1 DEF TypeOK, Save
<1>3. CASE Saved
  BY <1>1, <1>2, <1>3 DEF Saved
<1>4. ASSUME NEW i \in DOMAIN saves, SavesIt(i)
      PROVE  (\E k \in DOMAIN saves' : SavesIt(k)') \/ Saved'
  <2>1. CASE i = 1
    <3>1. stored'[placed.box] = placed.uid
      BY <1>1, <1>2, <1>4, <2>1 DEF SavesIt
    <3>2. \A k \in DOMAIN saves' : k + 1 \in DOMAIN saves /\ k + 1 > 1
      BY <1>1
    <3>3. \A k \in DOMAIN saves' : saves'[k].box # placed.box
      BY <1>1, <1>4, <2>1, <3>2 DEF SavesIt
    <3> QED
      BY <3>1, <3>3 DEF Saved
  <2>2. CASE i # 1
    <3>1. i - 1 \in DOMAIN saves' /\ saves'[i - 1] = saves[i]
      BY <1>1, <2>2
    <3>2. \A j \in DOMAIN saves' : j > i - 1 =>
             j + 1 \in DOMAIN saves /\ j + 1 > i /\ saves'[j] = saves[j + 1]
      BY <1>1
    <3>3. SavesIt(i - 1)'
      BY <1>4, <3>1, <3>2 DEF SavesIt
    <3> QED
      BY <3>1, <3>3
  <2> QED
    BY <2>1, <2>2
<1> QED
  BY <1>3, <1>4 DEF PlacedStands

\* Placing, saving and marking all seen.
LEMMA PlacedStep ==
    ASSUME TypeOK, OfCursor, PlacedStands, [Next]_vars
    PROVE  PlacedStands'
<1>1. CASE Poll
  <2>1. accountId \in Mailboxes /\ fetchEmails(accountId)
    BY <1>1, ShownIs DEF Poll
  <2>2. Settled
    BY <1>1, <2>1, FetchIs DEF Poll, Settled, server
  <2> QED
    BY <2>2, SettledKeeps
<1>2. ASSUME NEW id \in Ids, NEW known \in Lists, Showing(id, known),
             UNCHANGED stored, UNCHANGED saves \/ placed = NULL
      PROVE  PlacedStands'
  <2>1. /\ placed' \in {placed, NULL}
        /\ placed' # NULL => cursor' = cursor /\ manual' = manual
    BY <1>2, ShowingKeeps
  <2>2. CASE placed = NULL
    BY <2>1, <2>2 DEF PlacedStands
  <2>3. CASE UNCHANGED saves
    BY <1>2, <2>1, <2>3, SettledKeeps DEF Settled
  <2> QED
    BY <1>2, <2>2, <2>3
<1>3. CASE User
  <2>1. ASSUME NEW m \in Mailboxes, handleSelectAccount(m)
        PROVE  PlacedStands'
    <3>1. Showing(m, accounts)
      BY <2>1, NewestIs DEF handleSelectAccount, Show, Showing, TypeOK, fetchEmails
    <3>2. m \in Ids /\ accounts \in Lists
      BY DEF Ids, Lists, TypeOK
    <3>3. UNCHANGED stored
      BY <2>1 DEF handleSelectAccount, server
    <3>4. UNCHANGED saves \/ ~manual
      BY <2>1 DEF handleSelectAccount
    <3>5. ~manual => placed = NULL
      BY DEF PlacedStands
    <3> QED
      BY <1>2, <3>1, <3>2, <3>3, <3>4, <3>5
  <2>2. ASSUME NEW uid \in UIDs, setWatermarkManually(uid)
        PROVE  PlacedStands'
    <3>1. /\ accountId \in Mailboxes /\ accountId = cursor /\ Loaded
          /\ UNCHANGED cursor /\ manual' = TRUE
          /\ placed' = [box |-> accountId, uid |-> uid]
          /\ Enqueue(uid, TRUE)
      BY <2>2, ShownIs
      DEF setWatermarkManually, OnInbox, OfCursor, Loaded, persistWatermark
    <3>2. PICK i \in DOMAIN saves' :
             /\ saves'[i].box = accountId /\ saves'[i].uid = uid /\ saves'[i].hand = TRUE
             /\ \A j \in DOMAIN saves' : ~(j > i)
      <4>1. /\ saves' \in Seq(Save) /\ Len(saves') = Len(saves) + 1
            /\ saves'[Len(saves) + 1].box = accountId
            /\ saves'[Len(saves) + 1].uid = uid
            /\ saves'[Len(saves) + 1].hand = TRUE
        BY <3>1, EnqueueIs
      <4>2. Len(saves) \in Nat
        BY DEF TypeOK
      <4> QED
        BY <4>1, <4>2
    <3>3. placed'.box = accountId /\ placed'.uid = uid
      BY <3>1
    <3>4. SavesIt(i)'
      BY <3>1, <3>2, <3>3 DEF SavesIt
    <3> QED
      BY <3>1, <3>2, <3>3, <3>4 DEF PlacedStands
  <2>3. CASE markAllSeenNow
    BY <2>3 DEF markAllSeenNow, PlacedStands
  <2>4. CASE Hide
    <3>1. UNCHANGED <<placed, cursor, manual, stored>> /\ (manual => UNCHANGED saves)
      BY <2>4 DEF Hide, markAllSeen, server
    <3>2. CASE placed = NULL
      BY <3>1, <3>2 DEF PlacedStands
    <3>3. CASE placed # NULL
      BY <3>1, <3>3, SettledKeeps DEF Settled, PlacedStands
    <3> QED
      BY <3>2, <3>3
  <2>5. \A m \in Mailboxes : Connect(m) \/ RemoveMailbox(m) => Settled
    BY DEF Connect, RemoveMailbox, list, Settled
  <2>6. \A uid \in UIDs : handleMove(uid) => Settled
    BY DEF handleMove, list, server, Settled
  <2>7. handleSearch \/ (\E to \in {"inbox", "folder"} : Turn(to)) => Settled
    BY DEF handleSearch, Turn, list, server, Settled
  <2> QED
    BY <1>3, <2>1, <2>2, <2>3, <2>4, <2>5, <2>6, <2>7, SettledKeeps DEF User
<1>4. CASE Answers
  <2>1. ASSUME NEW i \in DOMAIN lists, ServeList(i) \/ ListAnswers(i) \/ ListFails(i)
        PROVE  PlacedStands'
    <3>1. ServeList(i) => Settled
      BY DEF ServeList, list, server, Settled
    <3>2. CASE ListAnswers(i) \/ ListFails(i)
      BY <3>2, RefreshIs, <1>2 DEF server
    <3> QED
      BY <2>1, <3>1, <3>2, SettledKeeps
  <2>7. CASE removeAccount
    <3>1. Showing(IF task.preferred THEN NULL ELSE preferredId, accounts)
      BY <2>7, ShowIs DEF removeAccount
    <3>2. (IF task.preferred THEN NULL ELSE preferredId) \in Ids /\ accounts \in Lists
      BY DEF TypeOK, Lists, Ids
    <3>3. UNCHANGED <<stored, saves>>
      BY <2>7 DEF removeAccount, server
    <3> QED
      BY <1>2, <3>1, <3>2, <3>3
  <2>2. CASE SaveEnds
    BY <2>2, FirstEnds DEF SaveEnds, list
  <2>3. CASE SaveFails
    <3>1. CASE Head(saves).hand
      BY <2>3, <3>1 DEF SaveFails, PlacedStands
    <3>2. CASE ~Head(saves).hand
      BY <2>3, <3>2, FirstEnds DEF SaveFails
    <3> QED
      BY <3>1, <3>2
  <2>4. (\E i \in DOMAIN fetches : FetchEnds(i)) => Settled
    BY DEF FetchEnds, Serve, FetchRefused, FetchAnswers, FetchFails, list, server, Settled
  <2>5. \A m \in moves : Moved(m) \/ MoveAnswers(m) \/ MoveFails(m) => Settled
    BY DEF Moved, MoveAnswers, MoveFails, list, server, Settled
  <2>6. connectWith \/ TaskFails \/ (\E i \in DOMAIN searches : SearchAnswers(i))
            => Settled
    BY DEF connectWith, TaskFails, SearchAnswers, list, server, Settled
  <2> QED
    BY <1>4, <2>1, <2>2, <2>3, <2>4, <2>5, <2>6, <2>7, SettledKeeps DEF Answers
<1>5. (\E m \in Mailboxes : Deliver(m) \/ Lock(m)) \/ UNCHANGED vars => Settled
  BY DEF Deliver, Lock, vars, list, server, Settled
<1> QED
  BY <1>1, <1>3, <1>4, <1>5, SettledKeeps DEF Next

-----------------------------------------------------------------------------
(* Types *)

\* The parts of TypeOK, by what the steps change together.
ServerTypes ==
    /\ status \in Lists /\ inbox \in [Mailboxes -> SUBSET UIDs]
    /\ newest \in [Mailboxes -> UIDs \union {0}] /\ stored \in [Mailboxes -> UIDs \union {0}]
ListTypes ==
    /\ accounts \in Lists /\ preferredId \in Ids /\ cursor \in Ids /\ manual \in BOOLEAN
    /\ emails \subseteq Message
    /\ fetches \in Seq(Fetch) /\ Alone(fetches)
MarkerTypes ==
    /\ watermarkUid \in UIDs \union {0} /\ saves \in Seq(Save)
    /\ placed \in [box: Mailboxes, uid: UIDs] \union {NULL}
SearchTypes == searches \in Seq(Search) /\ results \in Found \union {NULL}
OtherTypes ==
    /\ view \in {"inbox", "search", "folder"} /\ lists \in Seq(List)
    /\ moves \subseteq [box: Mailboxes, uid: UIDs, done: BOOLEAN]
    /\ task \in [box: Mailboxes, to: {"show", "drop"}, shown: BOOLEAN,
                 preferred: BOOLEAN] \union {NULL}
    /\ choices \in 0..MaxChoices

LEMMA TypesAre ==
    TypeOK <=> ServerTypes /\ ListTypes /\ MarkerTypes /\ SearchTypes /\ OtherTypes
BY DEF TypeOK, ServerTypes, ListTypes, MarkerTypes, SearchTypes, OtherTypes, Ids, Lists,
       Alone, Search, Found

LEMMA TypesNext ==
    ASSUME ServerTypes', ListTypes', MarkerTypes', SearchTypes', OtherTypes'
    PROVE  TypeOK'
BY DEF TypeOK, ServerTypes, ListTypes, MarkerTypes, SearchTypes, OtherTypes, Ids, Lists,
       Alone, Search, Found

\* The server
LEMMA ServerTypesStep ==
    ASSUME TypeOK, [Next]_vars
    PROVE  ServerTypes'
<1> USE DEF ServerTypes
<1>1. ServerTypes /\ TypeOK
  BY TypesAre
<1>2. UNCHANGED server => ServerTypes'
  BY <1>1 DEF server
<1>3. CASE User
  <2>1. ASSUME NEW m \in Mailboxes, Connect(m) \/ RemoveMailbox(m)
        PROVE  ServerTypes'
    BY <1>1, <2>1 DEF Connect, RemoveMailbox, Lists, Status
  <2>2. \A m \in Mailboxes : handleSelectAccount(m) => UNCHANGED server
    BY DEF handleSelectAccount
  <2>3. \A uid \in UIDs : setWatermarkManually(uid) \/ handleMove(uid) => UNCHANGED server
    BY DEF setWatermarkManually, handleMove
  <2>4. markAllSeenNow \/ Hide \/ handleSearch \/ (\E to \in {"inbox", "folder"} : Turn(to))
            => UNCHANGED server
    BY DEF markAllSeenNow, Hide, handleSearch, Turn
  <2> QED
    BY <1>2, <1>3, <2>1, <2>2, <2>3, <2>4 DEF User
<1>4. CASE Answers
  <2>1. CASE SaveEnds \/ SaveFails
    <3>1. saves # <<>> /\ Head(saves) \in Save
      BY <1>1, <2>1 DEF SaveEnds, SaveFails, TypeOK
    <3>2. Head(saves).uid \in UIDs
      BY <3>1 DEF Save
    <3> QED
      BY <1>1, <2>1, <3>2 DEF SaveEnds, SaveFails
  <2>2. ASSUME NEW m \in moves, Moved(m)
        PROVE  ServerTypes'
    BY <1>1, <2>2 DEF Moved
  <2>3. connectWith \/ removeAccount \/ TaskFails
            \/ (\E i \in DOMAIN searches : SearchAnswers(i))
            \/ (\E i \in DOMAIN lists : ServeList(i) \/ ListAnswers(i) \/ ListFails(i))
            => UNCHANGED server
    BY DEF connectWith, removeAccount, TaskFails, SearchAnswers, ServeList, ListAnswers,
           ListFails, refresh
  <2>4. (\E i \in DOMAIN fetches : FetchEnds(i)) => UNCHANGED server
    BY DEF FetchEnds, Serve, FetchRefused, FetchAnswers, FetchFails
  <2>5. \A m \in moves : MoveAnswers(m) \/ MoveFails(m) => UNCHANGED server
    BY DEF MoveAnswers, MoveFails
  <2> QED
    BY <1>2, <1>4, <2>1, <2>2, <2>3, <2>4, <2>5 DEF Answers
<1>5. ASSUME NEW m \in Mailboxes, Deliver(m)
      PROVE  ServerTypes'
  <2>1. newest[m] + 1 \in UIDs
    BY <1>1, <1>5, BoundsAssumption DEF Deliver, UIDs
  <2> QED
    BY <1>1, <1>5, <2>1 DEF Deliver
<1>6. ASSUME NEW m \in Mailboxes, Lock(m)
      PROVE  ServerTypes'
  BY <1>1, <1>6 DEF Lock, Lists, Status
<1>7. Poll \/ UNCHANGED vars => UNCHANGED server
  BY DEF Poll, vars
<1> QED
  BY <1>2, <1>3, <1>4, <1>5, <1>6, <1>7 DEF Next

LEMMA ManualIs ==
    ASSUME TypeOK, [Next]_vars
    PROVE  manual' \in BOOLEAN
<1>1. CASE User
  BY <1>1
  DEF User, TypeOK, setWatermarkManually, handleMove, handleSelectAccount, Connect,
      RemoveMailbox, markAllSeenNow, Hide, handleSearch, Turn, Show, fetchEmails, list
<1>2. CASE Answers
  <2>1. manual' \in {manual, FALSE}
    <3>1. \A i \in DOMAIN lists : ListAnswers(i) \/ ListFails(i) => manual' \in {manual, FALSE}
      BY RefreshIs DEF Showing, fetchEmails
    <3>2. removeAccount => manual' \in {manual, FALSE}
      BY DEF removeAccount, Show, fetchEmails, list
    <3>3. \A i \in DOMAIN lists : ServeList(i) => manual' = manual
      BY DEF ServeList, list
    <3>4. (\E i \in DOMAIN fetches : FetchEnds(i)) => manual' = manual
      BY DEF FetchEnds, Serve, FetchRefused, FetchAnswers, FetchFails, list
    <3>5. \A m \in moves : Moved(m) \/ MoveAnswers(m) \/ MoveFails(m) => manual' = manual
      BY DEF Moved, MoveAnswers, MoveFails, list
    <3>6. SaveEnds \/ SaveFails \/ connectWith \/ TaskFails
              \/ (\E i \in DOMAIN searches : SearchAnswers(i)) => manual' = manual
      BY DEF SaveEnds, SaveFails, connectWith, TaskFails, SearchAnswers, list
    <3> QED
      BY <1>2, <3>1, <3>2, <3>3, <3>4, <3>5, <3>6 DEF Answers
  <2> QED
    BY <2>1 DEF TypeOK
<1> QED
  BY <1>1, <1>2 DEF Next, TypeOK, Poll, fetchEmails, Deliver, Lock, vars, list

\* The list
LEMMA ListTypesStep ==
    ASSUME TypeOK, OfCursor, [Next]_vars
    PROVE  ListTypes'
<1> USE DEF ListTypes
<1>1. ListTypes /\ TypeOK
  BY TypesAre
<1>2. CASE Still
  <2>1. /\ UNCHANGED <<accounts, preferredId, cursor, emails>> /\ fetches' = fetches
        /\ manual' \in BOOLEAN
    BY <1>2, ManualIs DEF Still
  <2>2. Alone(fetches)'
    BY <1>1, <2>1 DEF Alone, Latest
  <2> QED
    BY <1>1, <2>1, <2>2
<1>3. CASE Poll
  <2>1. accountId \in Mailboxes /\ fetchEmails(accountId) /\ UNCHANGED shown
    BY <1>3, ShownIs DEF Poll
  <2> QED
    BY <1>1, <2>1, FetchIs DEF shown, Ids
<1>4. ASSUME NEW i \in DOMAIN fetches, FetchEnds(i)
      PROVE  ListTypes'
  <2> fetches[i] \in Fetch
    BY <1>1
  <2>1. UNCHANGED <<accounts, preferredId, cursor, manual>>
    BY <1>4 DEF FetchEnds, Serve, FetchRefused, FetchAnswers, FetchFails, list, shown
  <2>2. CASE Serve(i)
    <3> DEFINE box == fetches[i].box
               got == [box: {box}, uid: inbox[box]]
               read == [fetches[i] EXCEPT !.at = "read", !.marker = stored[box], !.emails = got]
    <3>1. fetches[i] \in Fetch /\ box \in Mailboxes
      BY DEF Fetch
    <3>2. stored[box] \in UIDs \union {0} /\ got \in SUBSET Message
      BY <3>1 DEF TypeOK, Message
    <3>3. fetches' = [fetches EXCEPT ![i] = read] /\ UNCHANGED emails
      BY <2>2 DEF Serve, list
    <3>4. read \in Fetch /\ read.latest = fetches[i].latest
      <4> HIDE DEF got
      <4> QED
        BY <3>1, <3>2 DEF Fetch
    <3> HIDE DEF read
    <3>5. /\ fetches' \in Seq(Fetch) /\ DOMAIN fetches' = DOMAIN fetches
          /\ \A k \in DOMAIN fetches : fetches'[k].latest = fetches[k].latest
      BY <1>1, <3>3, <3>4
    <3> QED
      BY <1>1, <2>1, <3>3, <3>5 DEF Alone, Latest
  <2>3. CASE ~Serve(i)
    <3>1. fetches' = RemoveAt(fetches, i)
      BY <1>4, <2>3 DEF FetchEnds, FetchRefused, FetchAnswers, FetchFails
    <3>2. fetches' \in Seq(Fetch) /\ Alone(fetches')
      BY <1>1, <3>1, FetchRemoved
    <3>3. emails' \in {emails, fetches[i].emails}
      BY <1>4, <2>3 DEF FetchEnds, FetchRefused, FetchAnswers, FetchFails, list
    <3>4. fetches[i].emails \subseteq Message
      BY DEF Fetch
    <3> QED
      BY <1>1, <2>1, <3>2, <3>3, <3>4
  <2> QED
    BY <2>2, <2>3
<1>5. ASSUME NEW m \in moves, MoveAnswers(m)
      PROVE  ListTypes'
  BY <1>1, <1>5 DEF MoveAnswers, shown, Alone, Latest
<1>6. ASSUME NEW id \in Ids, NEW known \in Lists, Showing(id, known)
      PROVE  ListTypes'
  BY <1>6, ShowingKeeps DEF Showing
<1> QED
  BY <1>2, <1>3, <1>4, <1>5, <1>6, ListStep

\* The marker and its saves
LEMMA MarkerTypesStep ==
    ASSUME TypeOK, OfCursor, [Next]_vars
    PROVE  MarkerTypes'
<1> USE DEF MarkerTypes
<1>1. MarkerTypes /\ TypeOK
  BY TypesAre
<1> DEFINE Same == UNCHANGED <<watermarkUid, saves, placed>>
<1>2. ASSUME Same PROVE MarkerTypes'
  BY <1>1, <1>2
<1>3. ASSUME NEW id \in Ids, NEW known \in Lists, Showing(id, known), saves' \in Seq(Save)
      PROVE  MarkerTypes'
  BY <1>1, <1>3, ShowingKeeps DEF Showing
<1>4. ASSUME NEW uid \in UIDs, NEW hand \in BOOLEAN, persistWatermark(uid, hand)
      PROVE  watermarkUid' \in UIDs \union {0} /\ saves' \in Seq(Save)
  <2>1. Loaded => accountId \in Mailboxes
    BY ShownIs DEF Loaded
  <2> QED
    BY <1>1, <1>4, <2>1, EnqueueIs DEF persistWatermark
<1>5. ASSUME NEW hand, markAllSeen(hand)
      PROVE  watermarkUid' \in UIDs \union {0} /\ saves' \in Seq(Save)
  <2>1. CASE Newest > watermarkUid /\ persistWatermark(Newest, FALSE)
    BY <2>1, <1>4, NewestIs
  <2>2. CASE UNCHANGED <<watermarkUid, saves>>
    BY <1>1, <2>2
  <2> QED
    BY <1>5, <2>1, <2>2 DEF markAllSeen
<1>6. CASE User
  <2>1. ASSUME NEW m \in Mailboxes, handleSelectAccount(m)
        PROVE  MarkerTypes'
    <3>1. Showing(m, accounts)
      BY <2>1, NewestIs DEF handleSelectAccount, Show, Showing, TypeOK, fetchEmails
    <3>2. m \in Ids /\ accounts \in Lists
      BY DEF Ids, Lists, TypeOK
    <3>3. saves' \in Seq(Save)
      <4>1. CASE UNCHANGED saves
        BY <1>1, <4>1
      <4>2. CASE Loaded /\ Newest > watermarkUid /\ Enqueue(Newest, FALSE)
        <5>1. accountId \in Mailboxes /\ Newest \in UIDs
          BY <4>2, ShownIs, NewestIs DEF Loaded
        <5> QED
          BY <4>2, <5>1, EnqueueIs
      <4> QED
        BY <2>1, <4>1, <4>2 DEF handleSelectAccount
    <3> QED
      BY <1>3, <3>1, <3>2, <3>3
  <2>2. ASSUME NEW uid \in UIDs, setWatermarkManually(uid)
        PROVE  MarkerTypes'
    <3>1. /\ accountId \in Mailboxes /\ persistWatermark(uid, TRUE)
          /\ placed' = [box |-> accountId, uid |-> uid]
      BY <2>2, ShownIs DEF setWatermarkManually, OnInbox
    <3> QED
      BY <3>1, <1>4
  <2>3. CASE markAllSeenNow
    BY <2>3, <1>5 DEF markAllSeenNow
  <2>4. CASE Hide
    BY <1>1, <2>4, <1>5 DEF Hide
  <2>5. \A m \in Mailboxes : Connect(m) \/ RemoveMailbox(m) => Same
    BY DEF Connect, RemoveMailbox, list
  <2>6. \A uid \in UIDs : handleMove(uid) => Same
    BY DEF handleMove, list
  <2>7. handleSearch \/ (\E to \in {"inbox", "folder"} : Turn(to)) => Same
    BY DEF handleSearch, Turn, list
  <2> QED
    BY <1>2, <1>6, <2>1, <2>2, <2>3, <2>4, <2>5, <2>6, <2>7 DEF User
<1>7. CASE Answers
  <2>1. ASSUME NEW i \in DOMAIN lists, ServeList(i) \/ ListAnswers(i) \/ ListFails(i)
        PROVE  MarkerTypes'
    <3>1. ServeList(i) => Same
      BY DEF ServeList, list
    <3>2. CASE ListAnswers(i) \/ ListFails(i)
      <4>1. saves' = saves /\ \E id \in Ids, known \in Lists : Showing(id, known)
        BY <3>2, RefreshIs
      <4> QED
        BY <1>1, <1>3, <4>1
    <3> QED
      BY <1>2, <2>1, <3>1, <3>2
  <2>6. CASE removeAccount
    <3>1. Showing(IF task.preferred THEN NULL ELSE preferredId, accounts)
      BY <2>6, ShowIs DEF removeAccount
    <3>2. (IF task.preferred THEN NULL ELSE preferredId) \in Ids /\ accounts \in Lists
      BY DEF TypeOK, Lists, Ids
    <3>3. saves' \in Seq(Save)
      BY <1>1, <2>6 DEF removeAccount
    <3> QED
      BY <1>3, <3>1, <3>2, <3>3
  <2>2. CASE SaveEnds \/ SaveFails
    <3>1. saves # <<>> /\ saves' = Tail(saves) /\ UNCHANGED watermarkUid
          /\ placed' \in {placed, NULL}
      BY <2>2 DEF SaveEnds, SaveFails, list
    <3> QED
      BY <1>1, <3>1
  <2>3. ASSUME NEW i \in DOMAIN fetches, FetchEnds(i)
        PROVE  MarkerTypes'
    <3>1. /\ UNCHANGED <<saves, placed>>
          /\ watermarkUid' \in {watermarkUid, fetches[i].marker}
      BY <2>3 DEF FetchEnds, Serve, FetchRefused, FetchAnswers, FetchFails, list
    <3>2. fetches[i] \in Fetch
      BY DEF TypeOK
    <3>3. fetches[i].marker \in UIDs \union {0}
      BY <3>2 DEF Fetch
    <3> QED
      BY <1>1, <3>1, <3>3
  <2>4. \A m \in moves : Moved(m) \/ MoveAnswers(m) \/ MoveFails(m) => Same
    BY DEF Moved, MoveAnswers, MoveFails, list
  <2>5. connectWith \/ TaskFails \/ (\E i \in DOMAIN searches : SearchAnswers(i))
            => Same
    BY DEF connectWith, TaskFails, SearchAnswers, list
  <2> QED
    BY <1>2, <1>7, <2>1, <2>2, <2>3, <2>4, <2>5, <2>6 DEF Answers
<1>8. CASE Poll
  <2>1. accountId \in Mailboxes /\ fetchEmails(accountId) /\ UNCHANGED saves
    BY <1>8, ShownIs DEF Poll
  <2> QED
    BY <1>1, <2>1, FetchIs
<1>9. (\E m \in Mailboxes : Deliver(m) \/ Lock(m)) \/ UNCHANGED vars => Same
  BY DEF Deliver, Lock, vars, list
<1> QED
  BY <1>2, <1>6, <1>7, <1>8, <1>9 DEF Next

\* Searches
LEMMA SearchTypesStep ==
    ASSUME TypeOK, [Next]_vars
    PROVE  SearchTypes'
<1> USE DEF SearchTypes
<1>1. SearchTypes /\ TypeOK
  BY TypesAre
<1>2. ASSUME UNCHANGED search PROVE SearchTypes'
  BY <1>1, <1>2 DEF search
<1>3. ASSUME clearSearch PROVE SearchTypes'
  BY <1>1, <1>3, SearchesSuperseded DEF clearSearch
<1>4. CASE User
  <2>1. \A m \in Mailboxes : Connect(m) \/ RemoveMailbox(m) => UNCHANGED search
    BY DEF Connect, RemoveMailbox
  <2>2. \A m \in Mailboxes : handleSelectAccount(m) => clearSearch
    BY DEF handleSelectAccount, resetView
  <2>3. \A uid \in UIDs : setWatermarkManually(uid) \/ handleMove(uid) => UNCHANGED search
    BY DEF setWatermarkManually, handleMove
  <2>4. markAllSeenNow \/ Hide => UNCHANGED search
    BY DEF markAllSeenNow, Hide
  <2>5. (\E to \in {"inbox", "folder"} : Turn(to)) => clearSearch
    BY DEF Turn
  <2>6. ASSUME handleSearch PROVE SearchTypes'
    <3> DEFINE isChosen == accountId = preferredId
               new == [box |-> accountId, latest |-> TRUE, chosen |-> isChosen]
    <3>1. /\ accountId \in Mailboxes /\ UNCHANGED results /\ isChosen \in BOOLEAN
          /\ searches' = Append(Superseded(searches), new)
      BY <2>6, ShownIs DEF handleSearch
    <3> HIDE DEF isChosen
    <3>2. new \in Search
      BY <3>1 DEF Search
    <3> HIDE DEF new
    <3> QED
      BY <1>1, <3>1, <3>2, SearchesSuperseded
  <2> QED
    BY <1>2, <1>3, <1>4, <2>1, <2>2, <2>3, <2>4, <2>5, <2>6 DEF User
<1>5. CASE Answers
  <2>1. ASSUME NEW i \in DOMAIN lists, ServeList(i) \/ ListAnswers(i) \/ ListFails(i)
        PROVE  UNCHANGED search \/ clearSearch
    BY <2>1, RefreshIs DEF ServeList
  <2>2. removeAccount => UNCHANGED search
    BY DEF removeAccount
  <2>4. (\E i \in DOMAIN fetches : FetchEnds(i)) => UNCHANGED search
    BY DEF FetchEnds, Serve, FetchRefused, FetchAnswers, FetchFails
  <2>5. \A m \in moves : Moved(m) \/ MoveAnswers(m) \/ MoveFails(m) => UNCHANGED search
    BY DEF Moved, MoveAnswers, MoveFails
  <2>6. SaveEnds \/ SaveFails \/ connectWith \/ TaskFails => UNCHANGED search
    BY DEF SaveEnds, SaveFails, connectWith, TaskFails
  <2>7. ASSUME NEW i \in DOMAIN searches, SearchAnswers(i)
        PROVE  SearchTypes'
    <3>1. searches' \in Seq(Search)
      BY <1>1, <2>7, RemoveAtIs DEF SearchAnswers
    <3>2. searches[i] \in Search
      BY <1>1
    <3>3. [box |-> searches[i].box, chosen |-> searches[i].chosen] \in Found
      BY <3>2 DEF Search, Found
    <3> QED
      BY <1>1, <2>7, <3>1, <3>3 DEF SearchAnswers
  <2> QED
    BY <1>2, <1>3, <1>5, <2>1, <2>2, <2>4, <2>5, <2>6, <2>7 DEF Answers
<1>6. (\E m \in Mailboxes : Deliver(m) \/ Lock(m)) \/ Poll \/ UNCHANGED vars
          => UNCHANGED search
  BY DEF Deliver, Lock, Poll, vars
<1> QED
  BY <1>2, <1>4, <1>5, <1>6 DEF Next

\* What is on screen, moves, and what is asked of the mailboxes
LEMMA OtherTypesStep ==
    ASSUME TypeOK, [Next]_vars
    PROVE  OtherTypes'
<1> USE DEF OtherTypes
<1>1. OtherTypes /\ TypeOK
  BY TypesAre
<1>2. UNCHANGED <<view, others, choices>> => OtherTypes'
  BY <1>1 DEF others
<1>3. Choose => choices' \in 0..MaxChoices
  BY <1>1, BoundsAssumption DEF Choose
<1>4. CASE User
  <2>1. ASSUME NEW m \in Mailboxes, Connect(m) \/ RemoveMailbox(m)
        PROVE  OtherTypes'
    <3> DEFINE Task(to, isShown, isPreferred) ==
                   [box |-> m, to |-> to, shown |-> isShown, preferred |-> isPreferred]
    <3>1. UNCHANGED <<view, moves, lists>> /\ choices' \in 0..MaxChoices
      BY <1>3, <2>1 DEF Connect, RemoveMailbox
    <3>2. \A to \in {"show", "drop"}, isShown, isPreferred \in BOOLEAN :
             Task(to, isShown, isPreferred)
                 \in [box: Mailboxes, to: {"show", "drop"}, shown: BOOLEAN,
                      preferred: BOOLEAN]
      OBVIOUS
    <3>3. CASE Connect(m)
      <4>1. task' = Task("show", FALSE, FALSE)
        BY <3>3 DEF Connect
      <4> HIDE DEF Task
      <4> QED
        BY <1>1, <3>1, <3>2, <4>1
    <3>4. CASE RemoveMailbox(m)
      <4> DEFINE isShown == m = Active(preferredId, accounts)
                 isPreferred == m = preferredId
      <4>1. task' = Task("drop", isShown, isPreferred)
        BY <3>4 DEF RemoveMailbox
      <4>2. isShown \in BOOLEAN /\ isPreferred \in BOOLEAN
        OBVIOUS
      <4> HIDE DEF Task, isShown, isPreferred
      <4> QED
        BY <1>1, <3>1, <3>2, <4>1, <4>2
    <3> QED
      BY <2>1, <3>3, <3>4
  <2>2. ASSUME NEW m \in Mailboxes, handleSelectAccount(m)
        PROVE  OtherTypes'
    BY <1>1, <1>3, <2>2 DEF handleSelectAccount, resetView, others
  <2>3. ASSUME NEW uid \in UIDs, setWatermarkManually(uid)
        PROVE  OtherTypes'
    BY <1>1, <1>3, <2>3 DEF setWatermarkManually, others
  <2>4. ASSUME NEW uid \in UIDs, handleMove(uid)
        PROVE  OtherTypes'
    <3>1. /\ UNCHANGED <<view, task, lists>> /\ choices' \in 0..MaxChoices
          /\ accountId \in Mailboxes
          /\ moves' = moves \union {[box |-> accountId, uid |-> uid, done |-> FALSE]}
      BY <1>3, <2>4, ShownIs DEF handleMove
    <3>2. [box |-> accountId, uid |-> uid, done |-> FALSE]
              \in [box: Mailboxes, uid: UIDs, done: BOOLEAN]
      BY <3>1
    <3> QED
      BY <1>1, <3>1, <3>2
  <2>5. CASE markAllSeenNow \/ handleSearch \/ (\E to \in {"inbox", "folder"} : Turn(to))
    BY <1>1, <1>3, <2>5 DEF markAllSeenNow, handleSearch, Turn, others
  <2>6. CASE Hide
    BY <1>2, <2>6 DEF Hide
  <2> QED
    BY <1>4, <2>1, <2>2, <2>3, <2>4, <2>5, <2>6 DEF User
<1>5. CASE Answers
  <2>1. CASE TaskFails
    BY <1>1, <2>1 DEF TaskFails
  <2>2. \A awaited \in BOOLEAN : AskList(awaited) => lists' \in Seq(List)
    <3>1. \A awaited \in BOOLEAN : [known |-> NULL, awaited |-> awaited] \in List
      BY DEF List
    <3> QED
      BY <1>1, <3>1 DEF AskList
  <2>3. CASE connectWith \/ removeAccount
    BY <1>1, <2>2, <2>3 DEF connectWith, removeAccount
  <2>4. ASSUME NEW i \in DOMAIN lists, ServeList(i) \/ ListAnswers(i) \/ ListFails(i)
        PROVE  OtherTypes'
    <3> DEFINE served == [lists[i] EXCEPT !.known = status]
    <3>1. CASE ServeList(i)
      <4>1. served \in List
        <5>1. lists[i] \in List /\ status \in [Mailboxes -> Status]
          BY <1>1 DEF TypeOK
        <5> QED
          BY <5>1 DEF List
      <4>2. lists' = [lists EXCEPT ![i] = served] /\ UNCHANGED <<view, moves, task, choices>>
        BY <3>1 DEF ServeList
      <4> HIDE DEF served
      <4> QED
        BY <1>1, <4>1, <4>2
    <3>2. CASE ListAnswers(i) \/ ListFails(i)
      <4>1. lists' \in Seq(List)
        BY <1>1, <3>2, RefreshIs, RemoveAtIs
      <4> QED
        BY <1>1, <3>2, <4>1, RefreshIs
    <3> QED
      BY <2>4, <3>1, <3>2
  <2>5. ASSUME NEW i \in DOMAIN fetches, FetchEnds(i)
        PROVE  OtherTypes'
    <3>1. /\ UNCHANGED <<view, moves, task, choices>>
          /\ UNCHANGED lists \/ AskList(FALSE)
      BY <2>5 DEF FetchEnds, Serve, FetchRefused, FetchAnswers, FetchFails, others
    <3> QED
      BY <1>1, <2>2, <3>1
  <2>6. ASSUME NEW m \in moves, Moved(m) \/ MoveAnswers(m) \/ MoveFails(m)
        PROVE  OtherTypes'
    <3>1. [m EXCEPT !.done = TRUE] \in [box: Mailboxes, uid: UIDs, done: BOOLEAN]
      BY <1>1
    <3>2. /\ UNCHANGED <<view, task, lists, choices>>
          /\ moves' \subseteq moves \union {[m EXCEPT !.done = TRUE]}
      BY <2>6 DEF Moved, MoveAnswers, MoveFails
    <3> QED
      BY <1>1, <3>1, <3>2
  <2>7. SaveEnds \/ SaveFails \/ (\E i \in DOMAIN searches : SearchAnswers(i))
            => UNCHANGED <<view, others, choices>>
    BY DEF SaveEnds, SaveFails, SearchAnswers
  <2> QED
    BY <1>2, <1>5, <2>1, <2>2, <2>3, <2>4, <2>5, <2>6, <2>7 DEF Answers
<1>6. ASSUME NEW m \in Mailboxes, Deliver(m) \/ Lock(m)
      PROVE  OtherTypes'
  BY <1>1, <1>3, <1>6 DEF Deliver, Lock, others
<1>7. Poll \/ UNCHANGED vars => UNCHANGED <<view, others, choices>>
  BY DEF Poll, vars
<1> QED
  BY <1>2, <1>4, <1>5, <1>6, <1>7 DEF Next

-----------------------------------------------------------------------------
(* The invariant and the theorems *)

LEMMA IInvInit == Init => IInv
<1> SUFFICES ASSUME Init PROVE IInv
  OBVIOUS
<1>1. 1 \in UIDs
  BY BoundsAssumption DEF UIDs
<1> DEFINE first == [box |-> Accounts[1], latest |-> TRUE, at |-> "sent", marker |-> 0,
                     emails |-> {}]
<1>2. first \in Fetch /\ first.box = Accounts[1] /\ first.emails = {}
  BY FirstIsMember DEF Fetch
<1>3. fetches = <<first>>
  BY DEF Init
<1> HIDE DEF first
<1>4. /\ fetches \in Seq(Fetch) /\ DOMAIN fetches = {1} /\ fetches[1] = first
  BY <1>2, <1>3
<1>5. ListTypes
  BY <1>4, FirstIsMember DEF Init, ListTypes, Lists, Status, Ids, Message, Alone, Latest
<1>6. ServerTypes
  BY <1>1 DEF Init, ServerTypes, Lists, Status
<1>7. MarkerTypes /\ SearchTypes
  BY DEF Init, MarkerTypes, SearchTypes, Ids
<1>8. OtherTypes
  <2>1. 0 \in 0..MaxChoices
    BY BoundsAssumption
  <2> QED
    BY <2>1 DEF Init, OtherTypes
<1>9. TypeOK
  BY <1>5, <1>6, <1>7, <1>8, TypesAre
<1>10. OfCursor
  <2>1. Active(preferredId, accounts) \in {preferredId, Accounts[1]}
    <3> DEFINE all == {m \in Mailboxes : accounts[m] = "open"}
               found == {i \in DOMAIN Accounts : Accounts[i] \in all}
    <3>1. all = Mailboxes
      BY DEF Init
    <3>2. found = DOMAIN Accounts
      <4>1. \A i \in DOMAIN Accounts : Accounts[i] \in Mailboxes
        BY AccountsAssumption
      <4> HIDE DEF all
      <4> QED
        BY <3>1, <4>1
    <3>3. Min(found) = 1
      <4>1. found \in SUBSET Nat /\ 1 \in found /\ \A i \in found : 1 <= i
        BY <3>2, FirstIsMember, AccountsAssumption
      <4> HIDE DEF found
      <4>2. Min(found) \in found /\ \A i \in found : Min(found) <= i
        BY <4>1 DEF Min
      <4>3. Min(found) \in Nat /\ 1 <= Min(found) /\ Min(found) <= 1
        BY <4>1, <4>2
      <4> QED
        BY <4>3
    <3>4. all # {}
      BY <3>1, FirstIsMember
    <3>5. \A else : FirstOf(all, else) = Accounts[1]
      BY <3>3, <3>4 DEF FirstOf
    <3> QED
      BY <3>5 DEF Active
  <2>2. accountId \in {Accounts[1], NULL}
    BY <2>1 DEF accountId, Readable, Init
  <2> QED
    BY <1>2, <1>4, <2>2 DEF OfCursor, Agree, Init
<1>11. OfChoice
  BY DEF Init, OfChoice
<1>12. PlacedStands
  BY DEF Init, PlacedStands
<1> QED
  BY <1>9, <1>10, <1>11, <1>12 DEF IInv

\* Every step keeps the invariant.
LEMMA IInvStep ==
    ASSUME IInv, [Next]_vars
    PROVE  IInv'
<1>1. TypeOK'
  BY ServerTypesStep, ListTypesStep, MarkerTypesStep, SearchTypesStep, OtherTypesStep,
     TypesNext DEF IInv
<1> QED
  BY <1>1, OfCursorStep, OfChoiceStep, PlacedStep DEF IInv

\* Whatever answers late, fails or is chosen meanwhile, the list and what is
\* still to come of it, the searches and the saves of a marker stand together
\* (useEmails.js, useAccounts.js).
THEOREM Invariant == Spec => []IInv
BY IInvInit, IInvStep, PTL DEF Spec

\* The page, its requests and the server stay of their types, and one request
\* for the list at most can still be shown (useEmails.js, fetchRequestRef).
THEOREM WellTyped == Spec => []TypeOK
<1>1. IInv => TypeOK
  BY DEF IInv
<1> QED
  BY <1>1, Invariant, PTL

\* In whatever order lists of mailboxes and other answers come: the list is of
\* the mailbox on screen, the results of a search in a mailbox the user chose
\* appear in no other one he chose, and a marker placed by hand is the one that is stored
\* once its save has ended well (InboxPage.jsx; useEmails.js).
THEOREM ChoiceCounts == Spec => []LastChoiceCounts
<1>1. IInv => LastChoiceCounts
  <2> SUFFICES ASSUME IInv PROVE LastChoiceCounts
    OBVIOUS
  <2>1. accountId # NULL => \A e \in emails : e.box = accountId
    BY DEF IInv, OfCursor
  <2>2. results # NULL /\ results.chosen /\ accountId # NULL /\ accountId = preferredId
            => results.box = accountId
    BY DEF IInv, OfChoice, SearchedIn
  <2>3. placed # NULL /\ (\A i \in DOMAIN saves : saves[i].box # placed.box)
            => stored[placed.box] = placed.uid
    BY DEF IInv, PlacedStands, SavesIt, Saved
  <2> QED
    BY <2>1, <2>2, <2>3 DEF LastChoiceCounts
<1> QED
  BY <1>1, Invariant, PTL

-----------------------------------------------------------------------------
(***************************************************************************)
(* The row and the bookmarks of a mailbox such a page shows (Mailbox), for *)
(* any number of devices, UIDs and renumberings.  Type correctness holds   *)
(* of every instance, and so does it that markers and answers agree about  *)
(* the numbering, also on servers that leave UIDVALIDITY out.              *)
(***************************************************************************)

LEMMA NullApart ==
    /\ NULL \notin Nat /\ NULL \notin Bookmark
    /\ MaxValidity \in Nat \ {0} /\ Upgraded \in BOOLEAN /\ Omits \in BOOLEAN
BY MaxValidityAssumption, FlagsAssumption, NullAssumption

\* A listing that goes on to another of its steps, with what it found.
LEMMA ListingType ==
    ASSUME NEW l \in Listing, NULL \in MaybeMarker
    PROVE  /\ \A at \in ListingStage : [l EXCEPT !.at = at] \in Listing
           /\ "adopting" \in ListingStage /\ "visiting" \in ListingStage
           /\ \A found, mail \in MaybeValidity :
                  [l EXCEPT !.at = "storing", !.fetched = found, !.mail = mail] \in Listing
BY DEF Listing, ListingStage

\* A listing whose statements are done.
LEMMA AnsweringType ==
    ASSUME listing \in [Devices -> Listing], NEW d \in Devices,
           NEW marker \in MaybeMarker, NULL \in MaybeMarker, NULL \in MaybeValidity
    PROVE  /\ Answering(d, marker) \in Listing
           /\ Answering(d, marker).at = "answering"
           /\ Answering(d, marker).mail = listing[d].mail
           /\ Answering(d, marker).marker = marker
BY DEF Answering, IdleListing, Listing, ListingStage

(***************************************************************************)
(* TypeOK alone is not inductive: an answer is shown with the numbering of *)
(* its mail, which only a listing that has fetched is sure to hold.        *)
(***************************************************************************)
MailboxTypes == MailboxTypeOK /\ MailFetched

\* Every step of every request keeps the rows, the requests in flight and
\* what the devices show within their types, and a listing's mail with it.
LEMMA MailboxTypesHold == MailboxSpec => []MailboxTypes
<1> USE NullApart
        DEF MailboxTypeOK, Validities, MaybeValidity, MaybeMarker, Marker
<1>1. MailboxInit => MailboxTypes
  <2> SUFFICES ASSUME MailboxInit PROVE MailboxTypes
    OBVIOUS
  <2>1. IdleListing \in Listing /\ IdleWrite \in Write
    BY DEF IdleListing, IdleWrite, Listing, ListingStage, Write
  <2>2. listing \in [Devices -> Listing] /\ write \in [Devices -> Write]
    BY <2>1 DEF MailboxInit
  <2>3. validity \in Validities
    BY DEF MailboxInit
  <2>7. opened \in BOOLEAN
    BY ZenonT(30) DEF MailboxInit
  <2>4. uid_validity \in MaybeValidity /\ watermark_uid \in MaybeMarker
    <3>1. uid_validity = NULL
          /\ watermark_uid \in {NULL} \union
                 [uid: Uids, of: {1}, under: {NULL}, carried: {FALSE}]
      BY ZenonT(30) DEF MailboxInit
    <3>2. 1 \in Validities
      OBVIOUS
    <3>3. ASSUME NEW m \in [uid: Uids, of: {1}, under: {NULL}, carried: {FALSE}]
          PROVE  m \in Marker
      <4>1. /\ m = [uid |-> m.uid, of |-> m.of, under |-> m.under, carried |-> m.carried]
            /\ m.uid \in Uids /\ m.of = 1 /\ m.under = NULL /\ m.carried = FALSE
        BY <3>3
      <4> QED
        BY <3>2, <4>1
    <3> QED
      BY <3>1, <3>3
  <2>5. remembered \in [Uids -> Bookmark \union {NULL}]
    BY DEF MailboxInit, Bookmark
  <2>6. screen \in [Devices -> Screen]
    BY DEF MailboxInit, Screen
  <2>8. MailFetched
    BY DEF MailboxInit, MailFetched, IdleListing
  <2> QED
    BY <2>2, <2>3, <2>4, <2>5, <2>6, <2>7, <2>8 DEF MailboxTypes
<1>2. MailboxTypes /\ [MailboxNext]_mailboxVars => MailboxTypeOK'
  <2> SUFFICES ASSUME MailboxTypeOK, MailFetched, [MailboxNext]_mailboxVars PROVE MailboxTypeOK'
    BY DEF MailboxTypes
  <2>1. CASE Renumber
    BY <2>1 DEF Renumber, account
  <2>2. ASSUME NEW d \in Devices, Listings(d) PROVE MailboxTypeOK'
    <3>a. /\ \A at \in ListingStage : [listing[d] EXCEPT !.at = at] \in Listing
          /\ "adopting" \in ListingStage /\ "visiting" \in ListingStage
      <4> listing[d] \in Listing /\ NULL \in MaybeMarker
        OBVIOUS
      <4> QED
        BY ListingType
    <3>b. \A f \in MaybeValidity :
              [listing[d] EXCEPT !.at = "storing", !.fetched = f, !.mail = validity]
                  \in Listing
      <4> listing[d] \in Listing /\ NULL \in MaybeMarker /\ validity \in MaybeValidity
        OBVIOUS
      <4> QED
        BY ListingType
    <3>c. /\ \A marker \in MaybeMarker : Answering(d, marker) \in Listing
          /\ listing[d].marker \in MaybeMarker /\ NULL \in MaybeMarker
      <4>1. listing[d].marker \in MaybeMarker
        BY DEF Listing
      <4> QED
        BY <4>1, AnsweringType
    <3>d. AfterNumbering(d) \in Listing
      BY <3>a, <3>c DEF AfterNumbering
    <3> USE DEF account, Listing, ListingStage
    <3>1. CASE StartListing(d)
      BY <3>1 DEF StartListing, IdleListing
    <3>2. CASE FetchEnvelopes(d)
      <4> PICK reported \in MaybeValidity :
             listing' = [listing EXCEPT ![d] =
                 [@ EXCEPT !.at = "storing", !.fetched = reported,
                           !.mail = validity]]
        BY <3>2 DEF FetchEnvelopes
      <4> DEFINE fetched == [listing[d] EXCEPT !.at = "storing",
                 !.fetched = reported, !.mail = validity]
      <4>1. fetched \in Listing
        BY <3>b
      <4> HIDE DEF fetched
      <4>2. listing' = [listing EXCEPT ![d] = fetched]
        BY DEF fetched
      <4>3. listing' \in [Devices -> Listing]
        BY <4>1, <4>2
      <4> QED
        BY <3>2, <4>3 DEF FetchEnvelopes
    <3>3. CASE ResetForNewNumbering(d)
      <4>1. uid_validity' \in MaybeValidity /\ watermark_uid' \in MaybeMarker
        BY <3>3 DEF ResetForNewNumbering, Reset
      <4> DEFINE reset == Answering(d, NULL)
      <4>2. reset \in Listing
        BY <3>c
      <4> HIDE DEF reset
      <4>3. listing' = [listing EXCEPT ![d] = reset]
        BY <3>3 DEF ResetForNewNumbering, Reset, reset
      <4> QED
        BY <3>3, <4>1, <4>2, <4>3 DEF ResetForNewNumbering, Reset
    <3>4. CASE RecordFirstNumbering(d)
      <4>1. uid_validity' \in MaybeValidity
        BY <3>4 DEF RecordFirstNumbering
      <4>5. watermark_uid' \in MaybeMarker
        <5>1. watermark_uid \in Marker => [watermark_uid EXCEPT !.carried = TRUE] \in Marker
          OBVIOUS
        <5> QED
          BY <3>4, <5>1 DEF RecordFirstNumbering
      <4> DEFINE recorded == [listing[d] EXCEPT !.at = "adopting"]
      <4>3. recorded \in Listing
        BY <3>a
      <4> HIDE DEF recorded
      <4>4. listing' = [listing EXCEPT ![d] = recorded]
        BY <3>4 DEF RecordFirstNumbering, recorded
      <4>2. listing' \in [Devices -> Listing]
        BY <4>3, <4>4
      <4> QED
        BY <3>4, <4>1, <4>2, <4>5 DEF RecordFirstNumbering
    <3>5. CASE AdoptBookmarks(d)
      <4> DEFINE adopted == AfterNumbering(d)
      <4>4. adopted \in Listing
        BY <3>d
      <4> HIDE DEF adopted
      <4>5. listing' = [listing EXCEPT ![d] = adopted]
        BY <3>5 DEF AdoptBookmarks, adopted
      <4>1. listing' \in [Devices -> Listing]
        BY <4>4, <4>5
      <4>2. listing[d].fetched \in MaybeValidity
        OBVIOUS
      <4>3. remembered' \in [Uids -> Bookmark \union {NULL}]
        BY <3>5, <4>2 DEF AdoptBookmarks, Bookmark
      <4> QED
        BY <3>5, <4>1, <4>3 DEF AdoptBookmarks
    <3>6. CASE KeepNumbering(d)
      <4> DEFINE kept == AfterNumbering(d)
      <4>2. kept \in Listing
        BY <3>d
      <4> HIDE DEF kept
      <4>3. listing' = [listing EXCEPT ![d] = kept]
        BY <3>6 DEF KeepNumbering, kept
      <4>1. listing' \in [Devices -> Listing]
        BY <4>2, <4>3
      <4> QED
        BY <3>6, <4>1 DEF KeepNumbering
    <3>7. CASE RecordFirstVisit(d)
      <4> DEFINE visited == Answering(d, listing[d].marker)
      <4>1. visited \in Listing
        BY <3>c
      <4> HIDE DEF visited
      <4>2. listing' = [listing EXCEPT ![d] = visited]
        BY <3>7 DEF RecordFirstVisit, visited
      <4>3. listing' \in [Devices -> Listing]
        BY <4>1, <4>2
      <4> QED
        BY <3>7, <4>3 DEF RecordFirstVisit
    <3>8. CASE Answer(d)
      <4>1. listing' \in [Devices -> Listing]
        BY <3>8 DEF Answer, IdleListing
      <4>2. listing[d].mail \in Validities
        BY <3>8 DEF Answer, MailFetched
      <4>3. screen' \in [Devices -> Screen]
        BY <3>8, <4>2 DEF Answer, Screen
      <4> QED
        BY <3>8, <4>1, <4>3 DEF Answer
    <3>9. CASE FailListing(d)
      BY <3>9 DEF FailListing, IdleListing
    <3> QED
      BY <2>2, <3>1, <3>2, <3>3, <3>4, <3>5, <3>6, <3>7, <3>8, <3>9
      DEF Listings
  <2>3. ASSUME NEW d \in Devices, Writes(d) PROVE MailboxTypeOK'
    <3> USE DEF account, Write, IdleWrite, Arrived
    <3>1. ASSUME NEW op \in Operations, NEW u \in Uids, Send(d, op, u)
          PROVE MailboxTypeOK'
      BY <3>1 DEF Send, Screen
    <3>2. CASE SetWatermark(d)
      BY <3>2 DEF SetWatermark
    <3>3. CASE ReadNumbering(d)
      <4>1. write[d] \in [at: {"sent", "selected"},
                           op: Operations \union {"forget"}, uid: Uids, of: Validities,
                           under: MaybeValidity]
        BY <3>3 DEF ReadNumbering
      <4> DEFINE read == [write[d] EXCEPT !.at = "selected",
                                          !.under = uid_validity]
      <4>2. read \in Write
        BY <4>1
      <4> HIDE DEF read
      <4>3. \/ write' = [write EXCEPT ![d] = IdleWrite]
            \/ write' = [write EXCEPT ![d] = read]
        BY <3>3 DEF ReadNumbering, read
      <4>4. write' \in [Devices -> Write]
        BY <4>2, <4>3
      <4> QED
        BY <3>3, <4>4 DEF ReadNumbering
    <3>4. CASE InsertBookmark(d)
      BY <3>4 DEF InsertBookmark, Bookmark
    <3>5. CASE MoveOut(d)
      BY <3>5 DEF MoveOut
    <3>6. CASE Forget(d)
      BY <3>6 DEF Forget
    <3>7. CASE FailWrite(d)
      BY <3>7 DEF FailWrite
    <3> QED
      BY <2>3, <3>1, <3>2, <3>3, <3>4, <3>5, <3>6, <3>7 DEF Writes
  <2>4. CASE UNCHANGED mailboxVars
    BY <2>4 DEF mailboxVars
  <2> QED
    BY <2>1, <2>2, <2>3, <2>4 DEF MailboxNext
<1>3. MailboxTypes /\ [MailboxNext]_mailboxVars => MailFetched'
  <2> DEFINE Fetched(d) == listing[d].at \notin {"idle", "fetching"} =>
                               listing[d].mail \in Validities
  <2> SUFFICES ASSUME MailboxTypeOK, MailFetched, [MailboxNext]_mailboxVars, NEW e \in Devices
               PROVE  Fetched(e)'
    BY DEF MailboxTypes, MailFetched
  <2> USE DEF MailFetched, Listing
  <2>0. ASSUME NEW d \in Devices, NEW marker \in MaybeMarker
        PROVE  Answering(d, marker).at = "answering" /\ Answering(d, marker).mail = listing[d].mail
    BY <2>0, AnsweringType
  <2>9. ASSUME NEW d \in Devices, listing' = [listing EXCEPT ![d] = AfterNumbering(d)],
               listing[d].at \notin {"idle", "fetching"}, validity' = validity
        PROVE  Fetched(e)'
    BY <2>0, <2>9 DEF AfterNumbering
  <2>1. ASSUME NEW d \in Devices, Listings(d) PROVE Fetched(e)'
    <3>1. CASE StartListing(d)
      BY <3>1 DEF StartListing, IdleListing
    <3>2. CASE FetchEnvelopes(d)
      BY <3>2 DEF FetchEnvelopes
    <3>3. CASE ResetForNewNumbering(d)
      BY <2>0, <3>3 DEF ResetForNewNumbering, Reset
    <3>4. CASE RecordFirstNumbering(d)
      BY <3>4 DEF RecordFirstNumbering
    <3>5. CASE AdoptBookmarks(d)
      BY <2>9, <3>5 DEF AdoptBookmarks
    <3>6. CASE KeepNumbering(d)
      BY <2>9, <3>6 DEF KeepNumbering
    <3>7. CASE RecordFirstVisit(d)
      BY <2>0, <3>7 DEF RecordFirstVisit
    <3>8. CASE Answer(d)
      BY <3>8 DEF Answer, IdleListing
    <3>9. CASE FailListing(d)
      BY <3>9 DEF FailListing, IdleListing
    <3> QED
      BY <2>1, <3>1, <3>2, <3>3, <3>4, <3>5, <3>6, <3>7, <3>8, <3>9 DEF Listings
  <2>2. CASE UNCHANGED <<validity, listing>>
    BY <2>2
  <2>3. CASE Renumber
    BY <2>3 DEF Renumber
  <2>4. ASSUME NEW d \in Devices, Writes(d)
        PROVE  UNCHANGED <<validity, listing>>
    BY <2>4 DEF Writes, Send, SetWatermark, ReadNumbering, InsertBookmark,
       MoveOut, Forget, FailWrite
  <2>5. CASE UNCHANGED mailboxVars
    BY <2>2, <2>5 DEF mailboxVars
  <2> QED
    BY <2>1, <2>2, <2>3, <2>4, <2>5 DEF MailboxNext
<1> QED
  BY <1>1, <1>2, <1>3, PTL DEF MailboxSpec, MailboxTypes

\* Every step of every request keeps the rows, the requests in flight and
\* what the devices show within their types.
THEOREM MailboxTyped == MailboxSpec => []MailboxTypeOK
BY MailboxTypesHold, PTL DEF MailboxTypes

-----------------------------------------------------------------------------
(***************************************************************************)
(* Whatever requests overlap, and wherever one of them stops half way, a   *)
(* device is never handed a marker recorded under one numbering beside     *)
(* mail of another.  Coherent is the induction: the stored marker follows  *)
(* the stored numbering, a listing's marker the numbering the listing read *)
(* with it, and past the comparison that numbering is the mail's.          *)
(***************************************************************************)
LEMMA CoherentInvariant == MailboxSpec => []Coherent
<1> USE NullApart DEF MarkerMatchesRow, AnswersAreCoherent, Under
<1>1. MailboxInit => Coherent
  <2> SUFFICES ASSUME MailboxInit PROVE Coherent
    OBVIOUS
  <2>1. /\ watermark_uid \in {NULL} \union
               [uid: Uids, of: {1}, under: {NULL}, carried: {FALSE}]
        /\ listing = [d \in Devices |-> IdleListing]
        /\ screen = [d \in Devices |-> NULL]
    BY ZenonT(30) DEF MailboxInit
  <2>2. MarkerMatchesRow
    BY <2>1
  <2> QED
    BY <2>1, <2>2 DEF Coherent, ListingIsCoherent, IdleListing
<1>2. MailboxTypes /\ Coherent /\ [MailboxNext]_mailboxVars => Coherent'
  <2> SUFFICES ASSUME MailboxTypeOK, MailFetched, Coherent, [MailboxNext]_mailboxVars
               PROVE  Coherent'
    BY DEF MailboxTypes
  <2> USE DEF Coherent
  <2>0. listing \in [Devices -> Listing] /\ screen \in [Devices -> Screen]
        /\ validity \in Nat /\ validity # NULL /\ watermark_uid \in MaybeMarker
        /\ NULL \in MaybeMarker
    BY DEF MailboxTypeOK, Validities, MaybeMarker
  <2>1. CASE Renumber
    BY <2>1 DEF Renumber, account, ListingIsCoherent
  <2>2. ASSUME NEW d \in Devices, Listings(d) PROVE Coherent'
    <3>a. ASSUME NEW marker \in MaybeMarker
          PROVE  /\ Answering(d, marker).at = "answering"
                 /\ Answering(d, marker).mail = listing[d].mail
                 /\ Answering(d, marker).marker = marker
      BY <2>0, <3>a, AnsweringType DEF MaybeValidity
    <3>b. listing[d].marker \in MaybeMarker
      BY <2>0 DEF Listing
    <3> USE DEF account, ListingIsCoherent
    <3>c. ASSUME \A e \in Devices \ {d} : listing'[e] = listing[e],
                 UNCHANGED <<account, screen>>, ListingIsCoherent(d)'
          PROVE  Coherent'
      BY <2>0, <3>c
    <3>d. ASSUME listing' = [listing EXCEPT ![d] = AfterNumbering(d)],
                 UNCHANGED <<account, screen>>,
                 listing[d].marker # NULL /\ ~listing[d].marker.carried =>
                     Under(listing[d].marker, listing[d].mail)
          PROVE  Coherent'
      <4>1. ListingIsCoherent(d)'
        <5>1. CASE listing[d].opened
          <6>1. listing'[d] = Answering(d, listing[d].marker)
            BY <2>0, <3>d, <5>1 DEF AfterNumbering
          <6> QED
            BY <3>a, <3>b, <3>d, <6>1
        <5>2. CASE ~listing[d].opened
          <6>1. listing'[d] = [listing[d] EXCEPT !.at = "visiting"]
            BY <2>0, <3>d, <5>2 DEF AfterNumbering
          <6> QED
            BY <2>0, <3>d, <6>1 DEF Listing
        <5> QED
          BY <5>1, <5>2
      <4> QED
        BY <2>0, <3>c, <3>d, <4>1
    <3>1. CASE StartListing(d)
      BY <2>0, <3>1 DEF StartListing, IdleListing, Listing
    <3>2. CASE FetchEnvelopes(d)
      BY <2>0, <3>2 DEF FetchEnvelopes, Listing
    <3>3. CASE ResetForNewNumbering(d)
      BY <2>0, <3>3, <3>a DEF ResetForNewNumbering, Reset
    <3>4. CASE RecordFirstNumbering(d)
      <4>1. MarkerMatchesRow'
        BY <2>0, <3>4 DEF RecordFirstNumbering, MaybeMarker, Marker
      <4>2. \A e \in Devices : ListingIsCoherent(e)'
        BY <2>0, <3>4 DEF RecordFirstNumbering, Listing
      <4> QED
        BY <3>4, <4>1, <4>2 DEF RecordFirstNumbering
    <3>5. CASE AdoptBookmarks(d)
      BY <3>5, <3>d DEF AdoptBookmarks
    <3>6. CASE KeepNumbering(d)
      BY <3>6, <3>d DEF KeepNumbering
    <3>7. CASE RecordFirstVisit(d)
      BY <2>0, <3>7, <3>a, <3>b DEF RecordFirstVisit
    <3>8. CASE Answer(d)
      <4>1. listing' = [listing EXCEPT ![d] = IdleListing]
        BY <3>8 DEF Answer
      <4>2. MarkerMatchesRow'
        BY <3>8 DEF Answer
      <4>3. ASSUME NEW e \in Devices PROVE ListingIsCoherent(e)'
        BY <2>0, <4>1, <4>3 DEF IdleListing
      <4>4. AnswersAreCoherent'
        BY <2>0, <3>8 DEF Answer
      <4> QED
        BY <4>2, <4>3, <4>4
    <3>9. CASE FailListing(d)
      BY <2>0, <3>9 DEF FailListing, IdleListing
    <3> QED
      BY <2>2, <3>1, <3>2, <3>3, <3>4, <3>5, <3>6, <3>7, <3>8, <3>9
      DEF Listings
  <2>3. ASSUME NEW d \in Devices, SetWatermark(d) PROVE Coherent'
    BY <2>3 DEF SetWatermark, ListingIsCoherent
  <2>4. CASE UNCHANGED <<account, listing, screen>>
    BY <2>4 DEF account, ListingIsCoherent
  <2>5. ASSUME NEW d \in Devices, Writes(d), ~SetWatermark(d)
        PROVE  UNCHANGED <<account, listing, screen>>
    BY <2>5 DEF Writes, Send, ReadNumbering, InsertBookmark, MoveOut, Forget,
       FailWrite
  <2>6. CASE UNCHANGED mailboxVars
    BY <2>4, <2>6 DEF mailboxVars, account
  <2> QED
    BY <2>1, <2>2, <2>3, <2>4, <2>5, <2>6 DEF MailboxNext
<1> QED
  BY <1>1, <1>2, MailboxTypesHold, PTL DEF MailboxSpec

\* The stored marker was recorded under the stored numbering, from new
\* accounts and rows of earlier releases on, unless overlapping first listings
\* carried it over.
THEOREM MarkerFollowsNumbering == MailboxSpec => []MarkerMatchesRow
<1>1. MailboxSpec => []Coherent
  BY CoherentInvariant
<1>2. Coherent => MarkerMatchesRow
  BY DEF Coherent
<1> QED
  BY <1>1, <1>2, PTL

\* The marker in an answer was recorded under the numbering of its mail, unless
\* overlapping first listings carried it over.
THEOREM AnswersCoherent == MailboxSpec => []AnswersAreCoherent
<1>1. MailboxSpec => []Coherent
  BY CoherentInvariant
<1>2. Coherent => AnswersAreCoherent
  BY DEF Coherent
<1> QED
  BY <1>1, <1>2, PTL

-----------------------------------------------------------------------------
\* remember goes on to its second statement only with a numbering.
Selected == \A d \in Devices : write[d].at = "selected" => write[d].under # NULL

LEMMA SelectedInvariant == MailboxSpec => []Selected
<1>1. MailboxInit => Selected
  BY DEF MailboxInit, Selected, IdleWrite
<1>2. MailboxTypes /\ Selected /\ [MailboxNext]_mailboxVars => Selected'
  <2> SUFFICES ASSUME MailboxTypes, Selected, [MailboxNext]_mailboxVars
               PROVE  Selected'
    OBVIOUS
  <2>0. write \in [Devices -> Write]
    BY DEF MailboxTypes, MailboxTypeOK
  <2>1. CASE UNCHANGED write
    BY <2>1 DEF Selected
  <2>2. ASSUME NEW d \in Devices, write' = [write EXCEPT ![d] = IdleWrite]
        PROVE  Selected'
    BY <2>0, <2>2 DEF Selected, IdleWrite
  <2>3. ASSUME NEW d \in Devices, NEW op \in Operations, NEW u \in Uids, Send(d, op, u)
        PROVE  Selected'
    BY <2>0, <2>3 DEF Send, Selected
  <2>4. ASSUME NEW d \in Devices, ReadNumbering(d)
        PROVE  Selected'
    <3>1. CASE uid_validity = NULL
      BY <2>2, <2>4, <3>1 DEF ReadNumbering
    <3>2. CASE uid_validity # NULL
      <4> DEFINE read == [write[d] EXCEPT !.at = "selected", !.under = uid_validity]
      <4>1. write' = [write EXCEPT ![d] = read]
        BY <2>4, <3>2 DEF ReadNumbering
      <4>2. read.under = uid_validity
        <5>1. write[d] \in [at: {"sent", "selected"},
                            op: Operations \union {"forget"}, uid: Uids, of: Validities, under: MaybeValidity]
          BY <2>0, <2>4 DEF ReadNumbering, Arrived, Write
        <5> QED
          BY <5>1
      <4> HIDE DEF read
      <4> QED
        BY <2>0, <3>2, <4>1, <4>2 DEF Selected
    <3> QED
      BY <3>1, <3>2
  <2>5. ASSUME NEW d \in Devices, MoveOut(d)
        PROVE  Selected'
    BY <2>0, <2>5 DEF MoveOut, Selected, Write
  <2>6. ASSUME NEW d \in Devices, Listings(d)
        PROVE  UNCHANGED write
    BY <2>6 DEF Listings, StartListing, FetchEnvelopes, ResetForNewNumbering, Reset,
       RecordFirstNumbering, AdoptBookmarks, KeepNumbering, RecordFirstVisit, Answer,
       FailListing
  <2>7. ASSUME NEW d \in Devices, Writes(d)
        PROVE  Selected'
    BY <2>2, <2>3, <2>4, <2>5, <2>7
    DEF Writes, SetWatermark, InsertBookmark, Forget, FailWrite
  <2> QED
    BY <2>1, <2>6, <2>7 DEF MailboxNext, Renumber, mailboxVars
<1> QED
  BY <1>1, <1>2, MailboxTypesHold, PTL DEF MailboxSpec

\* A message remembered while the numbering stands still is listed among the
\* bookmarks, whatever the row it replaces was filed under, on first visits and
\* on servers that leave the numbering out, too (mailbox.rs, remember).
THEOREM RememberedListed == MailboxSpec => RememberedIsListed
<1> DEFINE Inserted == \A d \in Devices :
               InsertBookmark(d) /\ write[d].under = uid_validity
                   => write[d].uid \in Listed'
<1>1. MailboxTypes /\ Selected /\ [MailboxNext]_mailboxVars => [Inserted]_mailboxVars
  <2> SUFFICES ASSUME MailboxTypes, Selected, NEW d \in Devices, InsertBookmark(d),
                      write[d].under = uid_validity
               PROVE  write[d].uid \in Listed'
    OBVIOUS
  <2>1. /\ write[d] \in Write /\ write[d].at = "selected" /\ uid_validity # NULL
        /\ uid_validity' = uid_validity
        /\ remembered \in [Uids -> Bookmark \union {NULL}]
    BY DEF MailboxTypes, MailboxTypeOK, Selected, InsertBookmark, account
  <2>2. write[d].uid \in Uids /\ write[d].under \in MaybeValidity
        /\ write[d].of \in Validities
    BY <2>1 DEF Write
  <2> DEFINE row == [validity |-> write[d].under, of |-> write[d].of]
  <2>3. remembered'[write[d].uid] = row
    BY <2>1, <2>2 DEF InsertBookmark
  <2>4. row # NULL
    BY <2>1, <2>2, NullApart DEF MailboxTypes, MailboxTypeOK, Bookmark
  <2> QED
    BY <2>1, <2>2, <2>3, <2>4 DEF Listed
<1> QED
  BY <1>1, MailboxTypesHold, SelectedInvariant, PTL DEF MailboxSpec, RememberedIsListed

=============================================================================
