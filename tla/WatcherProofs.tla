--------------------------- MODULE WatcherProofs ---------------------------
(***************************************************************************)
(* Proofs about Watcher, for any mailboxes, passwords and messages, and    *)
(* any number of UIDs, of renumberings and of times a message is put back. *)
(***************************************************************************)
EXTENDS Watcher, FiniteSetTheorems, WellFoundedInduction, TLAPS

\* Where a mailbox keeps its mail.
Mine(a) == Mails(inbox[a]) \union away[a]

\* A message is in one place, however often it was put back.
OnePlace ==
    /\ \A a, b \in Accounts : \A x \in Mine(a), y \in Mine(b) : x.id = y.id => a = b /\ x = y
    /\ \A a \in Accounts : \A c, d \in inbox[a] : c.mail = d.mail => c = d
    /\ \A a \in Accounts : Mails(inbox[a]) \intersect away[a] = {}

\* A mailbox has this mail, or did before it was put back again.
Had(a, x) == \E y \in Mine(a) : y.id = x.id /\ x.back <= y.back

\* Only mail of some mailbox is spoken of, and a check's answer is about the
\* mail of the mailbox it asked.
OfSomeone == \A x \in news \union told : \E a \in Accounts : Had(a, x)
OfTheOneAsked == snapshot # NULL => \A c \in snapshot.copies : Had(snapshot.account, c.mail)

\* Numberings only grow, and within one a mail is numbered once.
NumberedOnce ==
    /\ \A a \in Accounts : newest[a] # NULL => newest[a].validity <= validity[a]
    /\ snapshot # NULL =>
           /\ snapshot.validity <= validity[snapshot.account]
           /\ snapshot.validity = validity[snapshot.account] =>
                  \A c \in inbox[snapshot.account], d \in snapshot.copies :
                      c.mail = d.mail => c = d

\* What is above the newest UID seen, under its numbering, was not spoken of.
AboveIsUntold ==
    /\ \A a \in Accounts : newest[a] # NULL /\ newest[a].validity = validity[a] =>
           \A c \in inbox[a] : c.uid > newest[a].uid => c.mail \notin news \union told
    /\ snapshot # NULL /\ Known(snapshot.account) =>
           \A c \in snapshot.copies :
               c.uid > newest[snapshot.account].uid => c.mail \notin news \union told

\* What came into the inbox since a check asked for it was not spoken of.
SinceIsUntold ==
    snapshot # NULL /\ snapshot.validity = validity[snapshot.account] =>
        \A c \in inbox[snapshot.account] :
            c \in snapshot.copies \/ c.mail \notin news \union told

\* What waits to be met is noted as put back.
SettledIsNoted == \A x \in settled : x.id \in restored

Finite == \A a \in Accounts : IsFiniteSet(inbox[a])

IInv ==
    /\ TypeOK /\ Finite
    /\ OnePlace /\ OfSomeone /\ OfTheOneAsked /\ NumberedOnce
    /\ AboveIsUntold /\ SinceIsUntold /\ ReportedOnce
    /\ SettledIsNoted /\ RestoredIsNotNews

-----------------------------------------------------------------------------
(* Numbers *)

\* A nonempty set of numbers that has a bound has a greatest.
LEMMA MaxIsGreatest ==
    ASSUME NEW S \in SUBSET Nat, S # {}, NEW n \in Nat, \A s \in S : s <= n
    PROVE  Max(S) \in S /\ \A s \in S : s <= Max(S)
<1> DEFINE T == {n - s : s \in S}
<1>1. T \subseteq Nat /\ T # {}
  <2>1. \A s \in S : n - s \in Nat
    OBVIOUS
  <2> QED
    BY <2>1
<1>2. PICK t \in T : \A u \in T : <<u, t>> \notin OpToRel(<, Nat)
  BY <1>1, NatLessThanWellFounded, WFMin
<1>3. \A u \in T : ~(u < t)
  BY <1>1, <1>2 DEF OpToRel
<1>4. PICK s \in S : t = n - s
  OBVIOUS
<1>5. \A u \in S : s >= u
  BY <1>3, <1>4
<1> QED
  BY <1>4, <1>5 DEF Max

-----------------------------------------------------------------------------
(* Types *)

LEMMA TypeInit == Init => TypeOK /\ Finite
<1> SUFFICES ASSUME Init PROVE TypeOK /\ Finite
  OBVIOUS
<1>1. \A m \in Messages : [uid |-> 1, mail |-> [id |-> m, back |-> 0]] \in Copy
  BY BoundsAssumption DEF Copy, Uids, Mail
<1>2. ASSUME NEW a \in Accounts
      PROVE  /\ inbox[a] \in SUBSET Copy /\ IsFiniteSet(inbox[a])
             /\ Cardinality(inbox[a]) \in {0, 1}
  <2>1. inbox[a] \in {{}} \union
            {{[uid |-> 1, mail |-> [id |-> m, back |-> 0]]} : m \in Messages}
    BY DEF Init
  <2>2. CASE inbox[a] = {}
    BY <2>2, FS_EmptySet
  <2>3. ASSUME NEW m \in Messages, inbox[a] = {[uid |-> 1, mail |-> [id |-> m, back |-> 0]]}
        PROVE  /\ inbox[a] \in SUBSET Copy /\ IsFiniteSet(inbox[a])
               /\ Cardinality(inbox[a]) \in {0, 1}
    BY <1>1, <2>3, FS_Singleton
  <2> QED
    BY <2>1, <2>2, <2>3
<1>3. inbox \in [Accounts -> SUBSET Copy]
  BY <1>2 DEF Init
<1>4. uidNext \in [Accounts -> 1..MaxUid + 1]
  BY <1>2, BoundsAssumption DEF Init
<1>5. told \subseteq Mail
  BY <1>2 DEF Init, Mails, Copy
<1>6. /\ validity \in [Accounts -> 1..MaxValidity] /\ away \in [Accounts -> SUBSET Mail]
      /\ {restoring, news, settled} \subseteq SUBSET Mail /\ restored \subseteq Messages
  BY BoundsAssumption DEF Init
<1>7. /\ connected \in [Accounts -> Passwords \union {NULL}]
      /\ newest \in [Accounts -> Seen \union {NULL}]
      /\ refused \in [Accounts -> Passwords \union {NULL}]
      /\ round \in [Accounts -> Passwords \union {NULL}]
      /\ snapshot \in Snapshot \union {NULL}
  BY DEF Init, Nowhere
<1> QED
  BY <1>2, <1>3, <1>4, <1>5, <1>6, <1>7 DEF TypeOK, Finite

\* What the types say of a copy, of what a check was answered and of its marker.
LEMMA Copies ==
    ASSUME TypeOK
    PROVE  /\ \A a \in Accounts : \A c \in inbox[a] :
                  /\ c \in Copy /\ c.uid \in Nat /\ c.uid \in Uids /\ c.mail \in Mail
           /\ \A x \in Mail : x.id \in Messages /\ x.back \in Nat /\ x.back \in 0..MaxBack
           /\ \A a \in Accounts : validity[a] \in Nat
           /\ snapshot # NULL =>
                  /\ snapshot \in Snapshot
                  /\ snapshot.account \in Accounts /\ snapshot.validity \in 1..MaxValidity
                  /\ snapshot.validity \in Nat
                  /\ \A c \in snapshot.copies :
                         c.uid \in Nat /\ c.uid \in Uids /\ c.mail \in Mail
           /\ \A a \in Accounts : newest[a] # NULL =>
                  newest[a] \in Seen /\ newest[a].validity \in Nat /\ newest[a].uid \in Nat
                      /\ newest[a].uid \in 0..MaxUid
<1>1. /\ Uids \subseteq Nat /\ 1..MaxValidity \subseteq Nat
      /\ 0..MaxUid \subseteq Nat /\ 0..MaxBack \subseteq Nat
  BY BoundsAssumption DEF Uids
<1>2. \A a \in Accounts : \A c \in inbox[a] : c \in Copy
  BY DEF TypeOK
<1>3. snapshot # NULL => snapshot \in Snapshot
  BY DEF TypeOK
<1>4. \A a \in Accounts : newest[a] # NULL => newest[a] \in Seen
  BY DEF TypeOK
<1>5. \A a \in Accounts : validity[a] \in Nat
  BY <1>1 DEF TypeOK
<1>6. \A c \in Copy : c.uid \in Nat /\ c.uid \in Uids /\ c.mail \in Mail
  BY <1>1 DEF Copy
<1>7. \A x \in Mail : x.id \in Messages /\ x.back \in Nat /\ x.back \in 0..MaxBack
  BY <1>1 DEF Mail
<1>8. \A s \in Seen : s.validity \in Nat /\ s.uid \in Nat /\ s.uid \in 0..MaxUid
  BY <1>1 DEF Seen
<1>9. \A s \in Snapshot :
          /\ s.account \in Accounts /\ s.validity \in 1..MaxValidity /\ s.validity \in Nat
          /\ \A c \in s.copies : c \in Copy
  BY <1>1 DEF Snapshot
<1> QED
  BY <1>2, <1>3, <1>4, <1>5, <1>6, <1>7, <1>8, <1>9

\* The newest UID is one, and none that was looked at is above it.
LEMMA NewestType ==
    ASSUME TypeOK, snapshot # NULL
    PROVE  LET a == snapshot.account IN
           /\ Newest(a) \in 0..MaxUid
           /\ \A c \in snapshot.copies : c.uid <= Newest(a)
           /\ Known(a) => newest[a].uid <= Newest(a)
<1> DEFINE a == snapshot.account
           S == {IF Known(a) THEN newest[a].uid ELSE 0} \union {c.uid : c \in snapshot.copies}
<1>1. S \subseteq 0..MaxUid /\ S # {}
  BY Copies, BoundsAssumption DEF Known, Uids
<1>2. Max(S) \in S /\ \A s \in S : s <= Max(S)
  <2>1. S \in SUBSET Nat /\ \A s \in S : s <= MaxUid
    BY <1>1, BoundsAssumption
  <2> HIDE DEF S
  <2> QED
    BY <1>1, <2>1, MaxIsGreatest, BoundsAssumption
<1>3. Newest(a) = Max(S)
  BY DEF Newest
<1>4. \A c \in snapshot.copies : c.uid \in S
  OBVIOUS
<1>5. Known(a) => newest[a].uid \in S
  OBVIOUS
<1> HIDE DEF S
<1> QED
  BY <1>1, <1>2, <1>3, <1>4, <1>5

\* Mail put into an inbox, once more or for the first time.
LEMMA PutType ==
    ASSUME TypeOK, Finite, NEW a \in Accounts, NEW x \in Mail, Put(a, x)
    PROVE  /\ inbox' \in [Accounts -> SUBSET Copy]
           /\ uidNext' \in [Accounts -> 1..MaxUid + 1]
           /\ Finite'
<1>1. uidNext[a] \in Nat /\ uidNext[a] \in 1..MaxUid
  BY BoundsAssumption DEF TypeOK, Put
<1>2. [uid |-> uidNext[a], mail |-> x] \in Copy
  BY <1>1 DEF Copy, Uids
<1>3. IsFiniteSet(inbox[a] \union {[uid |-> uidNext[a], mail |-> x]})
  BY FS_AddElement DEF Finite
<1>4. uidNext[a] + 1 \in 1..MaxUid + 1
  BY <1>1, BoundsAssumption
<1>5. inbox' \in [Accounts -> SUBSET Copy] /\ uidNext' \in [Accounts -> 1..MaxUid + 1]
  BY <1>2, <1>4 DEF TypeOK, Put
<1>6. Finite'
  BY <1>3 DEF Put, Finite, TypeOK
<1> QED
  BY <1>5, <1>6

\* The copies, when the server numbers them anew, are the same mail, and the
\* UIDs it gives them are within the bound.
LEMMA Renumbered ==
    ASSUME TypeOK, Finite, NEW a \in Accounts, NEW from \in 0..MaxUid, Renumber(a, from)
    PROVE  /\ inbox' \in [Accounts -> SUBSET Copy]
           /\ uidNext' \in [Accounts -> 1..MaxUid + 1]
           /\ Finite'
           /\ \A b \in Accounts : b # a => inbox'[b] = inbox[b]
           /\ Mails(inbox'[a]) = Mails(inbox[a])
           /\ \A c, d \in inbox'[a] : c.mail = d.mail =>
                  \/ c = d
                  \/ \E e, f \in inbox[a] : e # f /\ e.mail = f.mail
<1> DEFINE place(c) == from + Cardinality({d \in inbox[a] : d.uid <= c.uid})
           number == [c \in inbox[a] |-> [c EXCEPT !.uid = place(c)]]
<1>1. /\ IsFiniteSet(inbox[a]) /\ Cardinality(inbox[a]) \in Nat /\ from \in Nat
      /\ from + Cardinality(inbox[a]) <= MaxUid
  BY FS_CardinalityType, BoundsAssumption DEF Finite, Renumber
<1>2. \A c \in inbox[a] : c \in Copy /\ c.uid \in Nat /\ c.mail \in Mail
  BY Copies
<1>3. ASSUME NEW c \in inbox[a]
      PROVE  place(c) \in Uids
  <2> DEFINE D == {d \in inbox[a] : d.uid <= c.uid}
  <2>1. IsFiniteSet(D) /\ Cardinality(D) \in Nat /\ Cardinality(D) <= Cardinality(inbox[a])
    <3>1. D \in SUBSET inbox[a]
      OBVIOUS
    <3> HIDE DEF D
    <3> QED
      BY <1>1, <3>1, FS_Subset, FS_CardinalityType
  <2>2. Cardinality(D) # 0
    <3>1. c \in D
      BY <1>2
    <3> HIDE DEF D
    <3> QED
      BY <2>1, <3>1, FS_EmptySet
  <2>3. place(c) = from + Cardinality(D)
    OBVIOUS
  <2> HIDE DEF D, place
  <2> QED
    BY <1>1, <2>1, <2>2, <2>3, BoundsAssumption DEF Uids
<1>4. \A c \in inbox[a] : number[c] \in Copy /\ number[c].mail = c.mail
  <2> HIDE DEF place
  <2> QED
    BY <1>2, <1>3 DEF Copy
<1>5. inbox' = [inbox EXCEPT ![a] = {number[c] : c \in inbox[a]}]
  BY DEF Renumber
<1> HIDE DEF number
<1>6. inbox'[a] = {number[c] : c \in inbox[a]}
  BY <1>5 DEF TypeOK
<1>7. inbox' \in [Accounts -> SUBSET Copy]
  BY <1>4, <1>5 DEF TypeOK
<1>8. uidNext' \in [Accounts -> 1..MaxUid + 1]
  <2>1. from + Cardinality(inbox[a]) + 1 \in 1..MaxUid + 1
    BY <1>1, BoundsAssumption
  <2> QED
    BY <2>1 DEF Renumber, TypeOK
<1>9. Finite'
  <2>1. number \in Surjection(inbox[a], inbox'[a])
    BY <1>6 DEF Surjection, number
  <2>2. IsFiniteSet(inbox'[a])
    BY <1>1, <2>1, FS_Surjection
  <2> QED
    BY <1>5, <2>2 DEF Finite, TypeOK
<1>10. \A b \in Accounts : b # a => inbox'[b] = inbox[b]
  BY <1>5 DEF TypeOK
<1>11. Mails(inbox'[a]) = Mails(inbox[a])
  BY <1>4, <1>6 DEF Mails
<1>12. \A c, d \in inbox'[a] : c.mail = d.mail =>
           \/ c = d
           \/ \E e, f \in inbox[a] : e # f /\ e.mail = f.mail
  BY <1>4, <1>6
<1> QED
  BY <1>7, <1>8, <1>9, <1>10, <1>11, <1>12

\* Every step keeps the types, and the inboxes finite.
LEMMA TypeStep ==
    ASSUME TypeOK, Finite, [Next]_vars
    PROVE  TypeOK' /\ Finite'
<1> USE DEF TypeOK, mailboxes, watcher, putBack, reports
<1>1. CASE UNCHANGED vars
  BY <1>1 DEF vars, Finite
<1>2. ASSUME NEW a \in Accounts, NEW m \in Messages, Deliver(a, m)
      PROVE  TypeOK' /\ Finite'
  <2>1. [id |-> m, back |-> 0] \in Mail
    BY BoundsAssumption DEF Mail
  <2> QED
    BY <1>2, <2>1, PutType DEF Deliver
<1>3. ASSUME NEW a \in Accounts, NEW c \in inbox[a], MoveOut(a, c)
      PROVE  TypeOK' /\ Finite'
  <2>1. c.mail \in Mail
    BY Copies
  <2>2. IsFiniteSet(inbox[a] \ {c})
    BY FS_RemoveElement DEF Finite
  <2> QED
    BY <1>3, <2>1, <2>2 DEF MoveOut, Finite
<1>4. ASSUME NEW a \in Accounts, NEW x \in away[a], Restore(a, x)
      PROVE  TypeOK' /\ Finite'
  <2>1. x \in Mail /\ [x EXCEPT !.back = @ + 1] \in Mail
    <3>1. x \in Mail /\ x.back < MaxBack
      BY <1>4 DEF Restore
    <3> QED
      BY <3>1, BoundsAssumption DEF Mail
  <2> QED
    BY <1>4, <2>1, PutType DEF Restore
<1>5. ASSUME NEW a \in Accounts, NEW from \in 0..MaxUid, Renumber(a, from)
      PROVE  TypeOK' /\ Finite'
  <2>1. validity' \in [Accounts -> 1..MaxValidity]
    BY <1>5, BoundsAssumption DEF Renumber
  <2> QED
    BY <1>5, <2>1, Renumbered DEF Renumber
<1>6. ASSUME NEW a \in Accounts, Remove(a) \/ PauseEnds(a)
      PROVE  TypeOK' /\ Finite'
  BY <1>6 DEF Remove, PauseEnds, Finite
<1>7. ASSUME NEW a \in Accounts, NEW p \in Passwords, Connect(a, p)
      PROVE  TypeOK' /\ Finite'
  <2>1. Mails(inbox[a]) \subseteq Mail
    BY Copies DEF Mails
  <2> QED
    BY <1>7, <2>1 DEF Connect, Finite
<1>8. ASSUME NEW x \in restoring, NoteRestored(x) \/ RestoreFails(x)
      PROVE  TypeOK' /\ Finite'
  BY <1>8, Copies DEF NoteRestored, RestoreFails, Finite
<1>9. ASSUME NEW m \in Messages, WindowEnds(m)
      PROVE  TypeOK' /\ Finite'
  BY <1>9 DEF WindowEnds, Finite
<1>10. CASE StartRound
  BY <1>10 DEF StartRound, Retained, Finite
<1>11. ASSUME NEW a \in Accounts,
              LeaveAlone(a) \/ Fetch(a) \/ Refuse(a) \/ FetchFails(a)
       PROVE  TypeOK' /\ Finite'
  <2>1. [account |-> a, validity |-> validity[a], copies |-> inbox[a]] \in Snapshot
    BY DEF Snapshot
  <2> QED
    BY <1>11, <2>1 DEF LeaveAlone, Fetch, Refuse, FetchFails, Checked, Finite
<1>12. CASE Report
  <2> DEFINE a == snapshot.account
  <2>1. /\ snapshot # NULL /\ a \in Accounts /\ snapshot.validity \in 1..MaxValidity
        /\ Newest(a) \in 0..MaxUid
    BY <1>12, Copies, NewestType DEF Report
  <2>2. Mails(snapshot.copies) \subseteq Mail /\ Arrived(a) \subseteq Mail
    BY <2>1, Copies DEF Mails, Arrived
  <2>3. [validity |-> snapshot.validity, uid |-> Newest(a)] \in Seen
    BY <2>1 DEF Seen
  <2>4. newest' \in [Accounts -> Seen \union {NULL}]
    BY <1>12, <2>1, <2>3 DEF Report
  <2>5. news' \subseteq Mail /\ told' \subseteq Mail
    BY <1>12, <2>2 DEF Report
  <2>6. restored' \subseteq Messages /\ settled' \subseteq Mail
    BY <1>12 DEF Report, Forget
  <2> QED
    BY <1>12, <2>4, <2>5, <2>6 DEF Report, Finite
<1> QED
  BY <1>1, <1>2, <1>3, <1>4, <1>5, <1>6, <1>7, <1>8, <1>9, <1>10, <1>11, <1>12
  DEF Next, Watching

-----------------------------------------------------------------------------
(* Where the mail is *)

\* A step that puts nothing into an inbox and numbers none anew
Elsewhere ==
    \/ \E a \in Accounts :
          \/ Remove(a) \/ PauseEnds(a)
          \/ LeaveAlone(a) \/ Fetch(a) \/ Refuse(a) \/ FetchFails(a)
    \/ \E a \in Accounts, p \in Passwords : Connect(a, p)
    \/ \E x \in restoring : NoteRestored(x) \/ RestoreFails(x)
    \/ \E m \in Messages : WindowEnds(m)
    \/ StartRound \/ Report \/ UNCHANGED vars

LEMMA ElsewhereKeeps == Elsewhere => UNCHANGED mailboxes
BY DEF Elsewhere, Remove, PauseEnds, LeaveAlone, Fetch, Refuse, FetchFails, Connect,
   NoteRestored, RestoreFails, WindowEnds, StartRound, Report, vars, mailboxes

LEMMA Steps ==
    ASSUME [Next]_vars
    PROVE  \/ \E a \in Accounts, m \in Messages : Deliver(a, m)
           \/ \E a \in Accounts : \E c \in inbox[a] : MoveOut(a, c)
           \/ \E a \in Accounts : \E x \in away[a] : Restore(a, x)
           \/ \E a \in Accounts, from \in 0..MaxUid : Renumber(a, from)
           \/ Elsewhere
BY DEF Next, Watching, Elsewhere

\* The mail that a step puts into an inbox, and what it leaves there.
LEMMA PutKeeps ==
    ASSUME TypeOK, NEW a \in Accounts, NEW x, Put(a, x)
    PROVE  /\ inbox'[a] = inbox[a] \union {[uid |-> uidNext[a], mail |-> x]}
           /\ Mails(inbox'[a]) = Mails(inbox[a]) \union {x}
           /\ \A b \in Accounts : b # a => inbox'[b] = inbox[b]
<1> DEFINE copy == [uid |-> uidNext[a], mail |-> x]
<1>1. inbox' = [inbox EXCEPT ![a] = inbox[a] \union {copy}] /\ copy.mail = x
  BY DEF Put
<1> HIDE DEF copy
<1>2. inbox'[a] = inbox[a] \union {copy} /\ \A b \in Accounts : b # a => inbox'[b] = inbox[b]
  BY <1>1 DEF TypeOK
<1>3. Mails(inbox'[a]) = Mails(inbox[a]) \union {x}
  BY <1>1, <1>2 DEF Mails
<1> QED
  BY <1>2, <1>3 DEF copy

\* How a step changes what the mailboxes have: nothing, a message delivered, or
\* one put back once more.
LEMMA MineSteps ==
    ASSUME TypeOK, Finite, OnePlace, [Next]_vars
    PROVE  \/ \A a \in Accounts : Mine(a)' = Mine(a)
           \/ \E a \in Accounts, m \in Messages :
                 LET x == [id |-> m, back |-> 0] IN
                 /\ Put(a, x)
                 /\ \A b \in Accounts : \A y \in Mine(b) : y.id # m
                 /\ away' = away
                 /\ Mine(a)' = Mine(a) \union {x}
                 /\ \A b \in Accounts : b # a => Mine(b)' = Mine(b)
           \/ \E a \in Accounts : \E x \in away[a] :
                 LET y == [x EXCEPT !.back = @ + 1] IN
                 /\ Put(a, y)
                 /\ away' = [away EXCEPT ![a] = @ \ {x}]
                 /\ Mine(a)' = (Mine(a) \ {x}) \union {y}
                 /\ \A b \in Accounts : b # a => Mine(b)' = Mine(b)
<1>1. ASSUME NEW a \in Accounts, NEW m \in Messages, Deliver(a, m)
      PROVE  LET x == [id |-> m, back |-> 0] IN
             /\ Put(a, x)
             /\ \A b \in Accounts : \A y \in Mine(b) : y.id # m
             /\ away' = away
             /\ Mine(a)' = Mine(a) \union {x}
             /\ \A b \in Accounts : b # a => Mine(b)' = Mine(b)
  BY <1>1, PutKeeps DEF Deliver, Mine
<1>2. ASSUME NEW a \in Accounts, NEW c \in inbox[a], MoveOut(a, c), NEW b \in Accounts
      PROVE  Mine(b)' = Mine(b)
  BY <1>2 DEF MoveOut, Mine, Mails, TypeOK
<1>3. ASSUME NEW a \in Accounts, NEW x \in away[a], Restore(a, x)
      PROVE  LET y == [x EXCEPT !.back = @ + 1] IN
             /\ Put(a, y)
             /\ away' = [away EXCEPT ![a] = @ \ {x}]
             /\ Mine(a)' = (Mine(a) \ {x}) \union {y}
             /\ \A b \in Accounts : b # a => Mine(b)' = Mine(b)
  <2> DEFINE y == [x EXCEPT !.back = @ + 1]
  <2>1. Put(a, y) /\ away' = [away EXCEPT ![a] = @ \ {x}]
    BY <1>3 DEF Restore
  <2>2. /\ away'[a] = away[a] \ {x}
        /\ \A b \in Accounts : b # a => away'[b] = away[b]
    BY <2>1 DEF TypeOK
  <2>3. x # y
    <3>1. x \in Mail /\ x.back \in Nat
      BY Copies DEF TypeOK
    <3> QED
      BY <3>1 DEF Mail
  <2>4. x \notin Mails(inbox[a])
    BY DEF OnePlace
  <2> HIDE DEF y
  <2>5. Mine(a)' = (Mine(a) \ {x}) \union {y}
    BY <2>1, <2>2, <2>3, <2>4, PutKeeps DEF Mine
  <2>6. \A b \in Accounts : b # a => Mine(b)' = Mine(b)
    BY <2>1, <2>2, PutKeeps DEF Mine
  <2> QED
    BY <2>1, <2>5, <2>6 DEF y
<1>4. ASSUME NEW a \in Accounts, NEW from \in 0..MaxUid, Renumber(a, from), NEW b \in Accounts
      PROVE  Mine(b)' = Mine(b)
  BY <1>4, Renumbered DEF Renumber, Mine
<1>5. ASSUME Elsewhere, NEW b \in Accounts
      PROVE  Mine(b)' = Mine(b)
  BY <1>5, ElsewhereKeeps DEF Mine, mailboxes
<1>6. CASE \/ \E a \in Accounts : \E c \in inbox[a] : MoveOut(a, c)
           \/ \E a \in Accounts, from \in 0..MaxUid : Renumber(a, from)
           \/ Elsewhere
  BY <1>2, <1>4, <1>5, <1>6
<1>7. CASE \E a \in Accounts, m \in Messages : Deliver(a, m)
  BY <1>1, <1>7
<1>8. CASE \E a \in Accounts : \E x \in away[a] : Restore(a, x)
  BY <1>3, <1>8
<1> QED
  BY <1>6, <1>7, <1>8, Steps

\* What a mailbox had, it had.
LEMMA HadKeeps ==
    ASSUME TypeOK, Finite, OnePlace, [Next]_vars, NEW a \in Accounts, NEW x, Had(a, x),
           x.back \in Nat
    PROVE  Had(a, x)'
<1>1. PICK y \in Mine(a) : y.id = x.id /\ x.back <= y.back
  BY DEF Had
<1>2. CASE y \in Mine(a)'
  BY <1>1, <1>2 DEF Had
<1>3. CASE y \notin Mine(a)'
  <2>1. PICK z \in away[a] :
            /\ Mine(a)' = (Mine(a) \ {z}) \union {[z EXCEPT !.back = @ + 1]}
    BY <1>1, <1>3, MineSteps
  <2>2. z = y
    BY <1>1, <1>3, <2>1
  <2>3. z \in Mail /\ z.back \in Nat
    BY Copies DEF TypeOK
  <2> DEFINE w == [z EXCEPT !.back = @ + 1]
  <2>4. w.id = z.id /\ w.back = z.back + 1 /\ w \in Mine(a)'
    BY <2>1, <2>3 DEF Mail
  <2> HIDE DEF w
  <2>5. w.id = x.id /\ x.back <= w.back
    BY <1>1, <2>2, <2>3, <2>4
  <2> QED
    BY <2>4, <2>5 DEF Had
<1> QED
  BY <1>2, <1>3

\* A step leaves every message in one place.
LEMMA OnePlaceStep ==
    ASSUME TypeOK, Finite, OnePlace, [Next]_vars
    PROVE  OnePlace'
<1>1. ASSUME \A a \in Accounts : Mine(a)' = Mine(a)
      PROVE  \A a, b \in Accounts : \A x \in Mine(a)', y \in Mine(b)' :
                 x.id = y.id => a = b /\ x = y
  BY <1>1 DEF OnePlace
<1>2. ASSUME NEW a \in Accounts, NEW m \in Messages, Deliver(a, m)
      PROVE  OnePlace'
  <2> DEFINE x == [id |-> m, back |-> 0]
             copy == [uid |-> uidNext[a], mail |-> x]
  <2>1. /\ inbox'[a] = inbox[a] \union {copy}
        /\ Mails(inbox'[a]) = Mails(inbox[a]) \union {x}
        /\ \A b \in Accounts : b # a => inbox'[b] = inbox[b]
        /\ away' = away /\ x.id = m /\ copy.mail = x
        /\ \A b \in Accounts : \A y \in Mine(b) : y.id # m
    BY <1>2, PutKeeps DEF Deliver, Mine
  <2> HIDE DEF x, copy
  <2>2. Mine(a)' = Mine(a) \union {x} /\ \A b \in Accounts : b # a => Mine(b)' = Mine(b)
    BY <2>1 DEF Mine
  <2>3. \A b, c \in Accounts : \A y \in Mine(b)', z \in Mine(c)' :
            y.id = z.id => b = c /\ y = z
    BY <2>1, <2>2 DEF OnePlace
  <2>4. \A b \in Accounts : \A c, d \in inbox'[b] : c.mail = d.mail => c = d
    <3>1. \A b \in Accounts : \A c \in inbox[b] : c.mail # x
      BY <2>1 DEF Mine, Mails
    <3> QED
      BY <2>1, <3>1 DEF OnePlace
  <2>5. \A b \in Accounts : Mails(inbox'[b]) \intersect away'[b] = {}
    <3> SUFFICES ASSUME NEW b \in Accounts, NEW z \in Mails(inbox'[b]), z \in away'[b]
                 PROVE  FALSE
      OBVIOUS
    <3>1. x \notin away[b]
      BY <2>1 DEF Mine
    <3>2. z \notin Mails(inbox[b])
      BY <2>1 DEF OnePlace
    <3> QED
      BY <2>1, <3>1, <3>2
  <2> QED
    BY <2>3, <2>4, <2>5 DEF OnePlace
<1>3. ASSUME NEW a \in Accounts, NEW c \in inbox[a], MoveOut(a, c)
      PROVE  OnePlace'
  <2>1. /\ inbox'[a] = inbox[a] \ {c} /\ away'[a] = away[a] \union {c.mail}
        /\ \A b \in Accounts : b # a => inbox'[b] = inbox[b] /\ away'[b] = away[b]
    BY <1>3 DEF MoveOut, TypeOK
  <2>2. c.mail \notin Mails(inbox'[a])
    BY <2>1 DEF OnePlace, Mails
  <2>3. Mails(inbox'[a]) \subseteq Mails(inbox[a])
    BY <2>1 DEF Mails
  <2>4. \A b \in Accounts : Mails(inbox'[b]) \intersect away'[b] = {}
    <3> SUFFICES ASSUME NEW b \in Accounts, NEW z \in Mails(inbox'[b]), z \in away'[b]
                 PROVE  FALSE
      OBVIOUS
    <3>1. CASE b = a
      BY <2>1, <2>2, <2>3, <3>1 DEF OnePlace
    <3>2. CASE b # a
      BY <2>1, <3>2 DEF OnePlace
    <3> QED
      BY <3>1, <3>2
  <2>5. \A b \in Accounts : Mine(b)' = Mine(b)
    BY <2>1 DEF Mine, Mails
  <2>6. \A b \in Accounts : \A d, e \in inbox'[b] : d.mail = e.mail => d = e
    BY <2>1 DEF OnePlace
  <2> QED
    BY <1>1, <2>4, <2>5, <2>6 DEF OnePlace
<1>4. ASSUME NEW a \in Accounts, NEW x \in away[a], Restore(a, x)
      PROVE  OnePlace'
  <2> DEFINE y == [x EXCEPT !.back = @ + 1]
             copy == [uid |-> uidNext[a], mail |-> y]
  <2>1. x \in Mail /\ x.back \in Nat
    BY Copies DEF TypeOK
  <2>2. y.id = x.id /\ y # x /\ copy.mail = y
    BY <2>1 DEF Mail
  <2>3. /\ inbox'[a] = inbox[a] \union {copy}
        /\ Mails(inbox'[a]) = Mails(inbox[a]) \union {y}
        /\ away'[a] = away[a] \ {x}
        /\ \A b \in Accounts : b # a => inbox'[b] = inbox[b] /\ away'[b] = away[b]
    BY <1>4, PutKeeps DEF Restore, TypeOK
  <2> HIDE DEF y, copy
  <2>4. \A b \in Accounts : y \notin Mine(b)
    BY <2>2 DEF OnePlace, Mine
  <2>5. x \notin Mails(inbox[a]) /\ x \in Mine(a)
    BY DEF OnePlace, Mine
  <2>6. /\ Mine(a)' = (Mine(a) \ {x}) \union {y}
        /\ \A b \in Accounts : b # a => Mine(b)' = Mine(b)
    BY <2>2, <2>3, <2>5 DEF Mine
  <2>7. \A b, c \in Accounts : \A u \in Mine(b)', v \in Mine(c)' :
            u.id = v.id => b = c /\ u = v
    BY <2>2, <2>5, <2>6 DEF OnePlace
  <2>8. \A b \in Accounts : \A c, d \in inbox'[b] : c.mail = d.mail => c = d
    <3>1. \A c \in inbox[a] : c.mail # y
      BY <2>4 DEF Mine, Mails
    <3> QED
      BY <2>2, <2>3, <3>1 DEF OnePlace
  <2>9. \A b \in Accounts : Mails(inbox'[b]) \intersect away'[b] = {}
    <3> SUFFICES ASSUME NEW b \in Accounts, NEW z \in Mails(inbox'[b]), z \in away'[b]
                 PROVE  FALSE
      OBVIOUS
    <3>1. z \in away[b] /\ y \notin away[b]
      BY <2>3, <2>4 DEF Mine
    <3>2. z \notin Mails(inbox[b])
      BY <3>1 DEF OnePlace
    <3> QED
      BY <2>3, <3>1, <3>2
  <2> QED
    BY <2>7, <2>8, <2>9 DEF OnePlace
<1>5. ASSUME NEW a \in Accounts, NEW from \in 0..MaxUid, Renumber(a, from)
      PROVE  OnePlace'
  <2>1. away' = away
    BY <1>5 DEF Renumber
  <2>2. \A b \in Accounts : Mails(inbox'[b]) = Mails(inbox[b]) /\ Mine(b)' = Mine(b)
    BY <1>5, <2>1, Renumbered DEF Mine
  <2>3. \A b \in Accounts : \A c, d \in inbox'[b] : c.mail = d.mail => c = d
    BY <1>5, Renumbered DEF OnePlace
  <2> QED
    BY <1>1, <2>1, <2>2, <2>3 DEF OnePlace
<1>6. CASE Elsewhere
  BY <1>6, ElsewhereKeeps DEF OnePlace, Mine, mailboxes
<1> QED
  BY <1>2, <1>3, <1>4, <1>5, <1>6, Steps

-----------------------------------------------------------------------------
(* What was spoken of *)

\* The steps by what they do to the inboxes, the markers, the answer of the
\* check under way and the reports.
Quiet == UNCHANGED <<inbox, validity, newest, snapshot, news, told>>

LEMMA WatchSteps ==
    ASSUME [Next]_vars
    PROVE  \/ Quiet
           \/ \E a \in Accounts, m \in Messages : Deliver(a, m)
           \/ \E a \in Accounts : \E c \in inbox[a] : MoveOut(a, c)
           \/ \E a \in Accounts : \E x \in away[a] : Restore(a, x)
           \/ \E a \in Accounts, from \in 0..MaxUid : Renumber(a, from)
           \/ \E a \in Accounts, p \in Passwords : Connect(a, p)
           \/ \E a \in Accounts : Fetch(a)
           \/ StartRound \/ Report
<1>1. ASSUME \E a \in Accounts : Remove(a) \/ PauseEnds(a) \/ LeaveAlone(a) \/ Refuse(a)
                                   \/ FetchFails(a)
      PROVE  Quiet
  BY <1>1 DEF Remove, PauseEnds, LeaveAlone, Refuse, FetchFails, Quiet, mailboxes, watcher,
     reports
<1>2. ASSUME \/ \E x \in restoring : NoteRestored(x) \/ RestoreFails(x)
             \/ \E m \in Messages : WindowEnds(m)
             \/ UNCHANGED vars
      PROVE  Quiet
  BY <1>2 DEF NoteRestored, RestoreFails, WindowEnds, vars, Quiet, mailboxes, watcher, reports
<1> QED
  BY <1>1, <1>2 DEF Next, Watching

\* Reports and answers stay about mail of the mailboxes.
LEMMA SpokenStep ==
    ASSUME IInv, [Next]_vars
    PROVE  OfSomeone' /\ OfTheOneAsked'
<1> USE DEF IInv, mailboxes, watcher, putBack, reports
<1>1. ASSUME NEW a \in Accounts, NEW x \in Mail, Had(a, x)
      PROVE  Had(a, x)'
  BY <1>1, HadKeeps, Copies
<1>2. ASSUME NEW a \in Accounts, NEW x \in Mine(a), x \in Mail
      PROVE  Had(a, x)
  BY <1>2, Copies DEF Had
<1>3. news \subseteq Mail /\ told \subseteq Mail
  BY DEF TypeOK
<1>4. ASSUME news' \subseteq news, told' \subseteq told
      PROVE  OfSomeone'
  BY <1>1, <1>3, <1>4 DEF OfSomeone
<1>5. ASSUME snapshot' = snapshot
      PROVE  OfTheOneAsked'
  BY <1>1, <1>5, Copies DEF OfTheOneAsked
<1>6. ASSUME NEW a \in Accounts, NEW p \in Passwords, Connect(a, p)
      PROVE  OfSomeone'
  <2>1. news' = news /\ told' \subseteq told \union Mails(inbox[a])
    BY <1>6 DEF Connect
  <2>2. \A x \in Mails(inbox[a]) : x \in Mail /\ x \in Mine(a)
    BY Copies DEF Mails, Mine
  <2> QED
    BY <1>1, <1>2, <1>3, <2>1, <2>2 DEF OfSomeone
<1>7. ASSUME NEW a \in Accounts, Fetch(a)
      PROVE  OfTheOneAsked'
  <2>1. snapshot'.account = a /\ snapshot'.copies = inbox[a]
    BY <1>7 DEF Fetch
  <2>2. \A c \in inbox[a] : c.mail \in Mail /\ c.mail \in Mine(a)
    BY Copies DEF Mails, Mine
  <2> QED
    BY <1>1, <1>2, <2>1, <2>2 DEF OfTheOneAsked
<1>8. CASE Report
  <2>1. snapshot # NULL /\ snapshot' = NULL
    BY <1>8 DEF Report
  <2>2. \A x \in Mails(snapshot.copies) : x \in Mail /\ Had(snapshot.account, x)
    BY <2>1, Copies DEF OfTheOneAsked, Mails
  <2>3. news' \union told' \subseteq news \union told \union Mails(snapshot.copies)
    BY <1>8 DEF Report, Arrived, Mails
  <2>4. OfSomeone'
    BY <1>1, <1>3, <2>1, <2>2, <2>3, Copies DEF OfSomeone
  <2> QED
    BY <2>1, <2>4 DEF OfTheOneAsked
<1>9. CASE Quiet
  BY <1>4, <1>5, <1>9 DEF Quiet
<1>10. ASSUME NEW a \in Accounts, NEW m \in Messages, Deliver(a, m)
       PROVE  OfSomeone' /\ OfTheOneAsked'
  BY <1>4, <1>5, <1>10 DEF Deliver
<1>11. ASSUME NEW a \in Accounts, NEW c \in inbox[a], MoveOut(a, c)
       PROVE  OfSomeone' /\ OfTheOneAsked'
  BY <1>4, <1>5, <1>11 DEF MoveOut
<1>12. ASSUME NEW a \in Accounts, NEW x \in away[a], Restore(a, x)
       PROVE  OfSomeone' /\ OfTheOneAsked'
  BY <1>4, <1>5, <1>12 DEF Restore
<1>13. ASSUME NEW a \in Accounts, NEW from \in 0..MaxUid, Renumber(a, from)
       PROVE  OfSomeone' /\ OfTheOneAsked'
  BY <1>4, <1>5, <1>13 DEF Renumber
<1>14. ASSUME NEW a \in Accounts, NEW p \in Passwords, Connect(a, p)
       PROVE  OfSomeone' /\ OfTheOneAsked'
  BY <1>5, <1>6, <1>14 DEF Connect
<1>15. ASSUME NEW a \in Accounts, Fetch(a)
       PROVE  OfSomeone' /\ OfTheOneAsked'
  BY <1>4, <1>7, <1>15 DEF Fetch
<1>16. CASE StartRound
  BY <1>4, <1>5, <1>16 DEF StartRound
<1> QED
  BY <1>8, <1>9, <1>10, <1>11, <1>12, <1>13, <1>14, <1>15, <1>16, WatchSteps

\* What is delivered or put back was spoken of by no report and no answer.
LEMMA PutIsNew ==
    ASSUME IInv, NEW a \in Accounts,
           \/ \E m \in Messages : Deliver(a, m)
           \/ \E x \in away[a] : Restore(a, x)
    PROVE  /\ UNCHANGED <<validity, newest, snapshot, news, told>>
           /\ \A b \in Accounts : b # a => inbox'[b] = inbox[b]
           /\ \E copy : /\ inbox'[a] = inbox[a] \union {copy}
                        /\ copy.mail \notin news \union told
                        /\ snapshot # NULL => \A d \in snapshot.copies : d.mail # copy.mail
<1> USE DEF IInv, mailboxes, watcher, putBack, reports
<1>1. ASSUME NEW x, Put(a, x), \A b \in Accounts : ~Had(b, x)
      PROVE  /\ \A b \in Accounts : b # a => inbox'[b] = inbox[b]
             /\ \E copy : /\ inbox'[a] = inbox[a] \union {copy}
                          /\ copy.mail \notin news \union told
                          /\ snapshot # NULL => \A d \in snapshot.copies : d.mail # copy.mail
  <2> DEFINE copy == [uid |-> uidNext[a], mail |-> x]
  <2>1. copy.mail = x /\ inbox'[a] = inbox[a] \union {copy}
    BY <1>1, PutKeeps
  <2> HIDE DEF copy
  <2>2. x \notin news \union told
    BY <1>1 DEF OfSomeone
  <2>3. snapshot # NULL => \A d \in snapshot.copies : d.mail # x
    BY <1>1, Copies DEF OfTheOneAsked
  <2> QED
    BY <1>1, <2>1, <2>2, <2>3, PutKeeps
<1>2. ASSUME NEW m \in Messages, Deliver(a, m)
      PROVE  /\ Put(a, [id |-> m, back |-> 0])
             /\ \A b \in Accounts : ~Had(b, [id |-> m, back |-> 0])
  BY <1>2 DEF Deliver, Had, Mine
<1>3. ASSUME NEW x \in away[a], Restore(a, x)
      PROVE  /\ Put(a, [x EXCEPT !.back = @ + 1])
             /\ \A b \in Accounts : ~Had(b, [x EXCEPT !.back = @ + 1])
  <2> DEFINE y == [x EXCEPT !.back = @ + 1]
  <2>1. x \in Mail /\ x.back \in Nat
    BY Copies DEF TypeOK
  <2>2. y.id = x.id /\ y.back = x.back + 1
    BY <2>1 DEF Mail
  <2>3. Put(a, y)
    BY <1>3 DEF Restore
  <2> HIDE DEF y
  <2>4. ASSUME NEW b \in Accounts, Had(b, y)
        PROVE  FALSE
    <3>1. PICK z \in Mine(b) : z.id = y.id /\ y.back <= z.back
      BY <2>4 DEF Had
    <3>2. z = x
      BY <2>2, <3>1 DEF OnePlace, Mine
    <3> QED
      BY <2>1, <2>2, <3>1, <3>2
  <2> QED
    BY <2>3, <2>4 DEF y
<1>4. UNCHANGED <<validity, newest, snapshot, news, told>>
  BY DEF Deliver, Restore
<1> QED
  BY <1>1, <1>2, <1>3, <1>4

\* A step keeps the numberings in order.
LEMMA NumberedStep ==
    ASSUME IInv, [Next]_vars
    PROVE  NumberedOnce'
<1> USE DEF IInv, mailboxes, watcher, putBack, reports
<1>1. CASE Quiet
  BY <1>1 DEF Quiet, NumberedOnce
<1>2. ASSUME NEW a \in Accounts,
             \/ \E m \in Messages : Deliver(a, m)
             \/ \E x \in away[a] : Restore(a, x)
      PROVE  NumberedOnce'
  <2>1. /\ UNCHANGED <<validity, newest, snapshot>>
        /\ \A b \in Accounts : b # a => inbox'[b] = inbox[b]
    BY <1>2, PutIsNew
  <2>2. PICK copy :
            /\ inbox'[a] = inbox[a] \union {copy}
            /\ snapshot # NULL => \A d \in snapshot.copies : d.mail # copy.mail
    BY <1>2, PutIsNew
  <2>3. snapshot # NULL =>
            \A c \in inbox'[snapshot.account] :
                \/ c \in inbox[snapshot.account]
                \/ \A d \in snapshot.copies : c.mail # d.mail
    BY <2>1, <2>2, Copies
  <2> QED
    BY <2>1, <2>3, Copies DEF NumberedOnce
<1>3. ASSUME NEW a \in Accounts, NEW c \in inbox[a], MoveOut(a, c)
      PROVE  NumberedOnce'
  <2>1. /\ \A b \in Accounts : inbox'[b] \subseteq inbox[b]
        /\ UNCHANGED <<validity, newest, snapshot>>
    BY <1>3 DEF MoveOut, TypeOK
  <2> QED
    BY <2>1, Copies DEF NumberedOnce
<1>4. ASSUME NEW a \in Accounts, NEW from \in 0..MaxUid, Renumber(a, from)
      PROVE  NumberedOnce'
  <2>1. /\ validity'[a] = validity[a] + 1 /\ validity[a] \in Nat
        /\ \A b \in Accounts : b # a => validity'[b] = validity[b] /\ inbox'[b] = inbox[b]
        /\ UNCHANGED <<newest, snapshot>>
    BY <1>4, Copies, Renumbered DEF Renumber, TypeOK
  <2>2. \A b \in Accounts : newest[b] # NULL => newest[b].validity <= validity'[b]
    BY <2>1, Copies DEF NumberedOnce
  <2>3. CASE snapshot # NULL /\ snapshot.account = a
    BY <2>1, <2>2, <2>3, Copies DEF NumberedOnce
  <2>4. CASE snapshot = NULL \/ snapshot.account # a
    BY <2>1, <2>2, <2>4, Copies DEF NumberedOnce
  <2> QED
    BY <2>3, <2>4
<1>5. ASSUME NEW a \in Accounts, NEW p \in Passwords, Connect(a, p)
      PROVE  NumberedOnce'
  BY <1>5 DEF Connect, NumberedOnce
<1>6. ASSUME NEW a \in Accounts, Fetch(a)
      PROVE  NumberedOnce'
  <2>1. /\ snapshot'.account = a /\ snapshot'.copies = inbox[a]
        /\ snapshot'.validity = validity[a] /\ UNCHANGED <<inbox, validity, newest>>
    BY <1>6 DEF Fetch
  <2> QED
    BY <2>1, Copies DEF NumberedOnce, OnePlace
<1>7. CASE StartRound
  <2>1. /\ snapshot' = NULL /\ UNCHANGED <<inbox, validity>>
        /\ \A b \in Accounts : newest'[b] = newest[b] \/ newest'[b] = NULL
    BY <1>7 DEF StartRound, Retained
  <2> QED
    BY <2>1 DEF NumberedOnce
<1>8. CASE Report
  <2>1. /\ snapshot # NULL /\ snapshot' = NULL /\ UNCHANGED <<inbox, validity>>
        /\ newest' = [newest EXCEPT ![snapshot.account] =
               [validity |-> snapshot.validity, uid |-> Newest(snapshot.account)]]
    BY <1>8 DEF Report
  <2>2. /\ newest'[snapshot.account].validity = snapshot.validity
        /\ \A b \in Accounts : b # snapshot.account => newest'[b] = newest[b]
    BY <2>1, Copies DEF TypeOK
  <2> QED
    BY <2>1, <2>2, Copies DEF NumberedOnce
<1> QED
  BY <1>1, <1>2, <1>3, <1>4, <1>5, <1>6, <1>7, <1>8, WatchSteps

\* A step speaks of nothing again, and leaves untold what it has not looked at.
LEMMA UntoldStep ==
    ASSUME IInv, [Next]_vars
    PROVE  AboveIsUntold' /\ SinceIsUntold' /\ ReportedOnce'
<1> USE DEF IInv, mailboxes, watcher, putBack, reports
<1>1. CASE Quiet
  BY <1>1 DEF Quiet, AboveIsUntold, SinceIsUntold, ReportedOnce, Known
<1>2. ASSUME NEW a \in Accounts,
             \/ \E m \in Messages : Deliver(a, m)
             \/ \E x \in away[a] : Restore(a, x)
      PROVE  AboveIsUntold' /\ SinceIsUntold' /\ ReportedOnce'
  <2>1. /\ UNCHANGED <<validity, newest, snapshot, news, told>>
        /\ \A b \in Accounts : b # a => inbox'[b] = inbox[b]
    BY <1>2, PutIsNew
  <2>2. PICK copy : /\ inbox'[a] = inbox[a] \union {copy}
                    /\ copy.mail \notin news \union told
    BY <1>2, PutIsNew
  <2>3. \A b \in Accounts : \A c \in inbox'[b] :
            c \in inbox[b] \/ c.mail \notin news \union told
    BY <2>1, <2>2
  <2> QED
    BY <2>1, <2>3, Copies DEF AboveIsUntold, SinceIsUntold, ReportedOnce, Known
<1>3. ASSUME NEW a \in Accounts, NEW c \in inbox[a], MoveOut(a, c)
      PROVE  AboveIsUntold' /\ SinceIsUntold' /\ ReportedOnce'
  <2>1. /\ \A b \in Accounts : inbox'[b] \subseteq inbox[b]
        /\ UNCHANGED <<validity, newest, snapshot, news, told>>
    BY <1>3 DEF MoveOut, TypeOK
  <2> QED
    BY <2>1, Copies DEF AboveIsUntold, SinceIsUntold, ReportedOnce, Known
<1>4. ASSUME NEW a \in Accounts, NEW from \in 0..MaxUid, Renumber(a, from)
      PROVE  AboveIsUntold' /\ SinceIsUntold' /\ ReportedOnce'
  <2>1. /\ validity'[a] = validity[a] + 1 /\ validity[a] \in Nat
        /\ \A b \in Accounts : b # a => validity'[b] = validity[b] /\ inbox'[b] = inbox[b]
        /\ UNCHANGED <<newest, snapshot, news, told>>
    BY <1>4, Copies, Renumbered DEF Renumber, TypeOK
  <2>2. newest[a] # NULL => newest[a].validity # validity'[a]
    BY <2>1, Copies DEF NumberedOnce
  <2>3. AboveIsUntold'
    BY <2>1, <2>2 DEF AboveIsUntold, Known
  <2>4. snapshot # NULL /\ snapshot.account = a => snapshot.validity # validity'[a]
    BY <2>1, Copies DEF NumberedOnce
  <2>5. SinceIsUntold'
    BY <2>1, <2>4, Copies DEF SinceIsUntold
  <2> QED
    BY <2>1, <2>3, <2>5 DEF ReportedOnce
<1>5. ASSUME NEW a \in Accounts, NEW p \in Passwords, Connect(a, p)
      PROVE  AboveIsUntold' /\ SinceIsUntold' /\ ReportedOnce'
  <2>1. UNCHANGED <<inbox, validity, newest, snapshot, news>>
    BY <1>5 DEF Connect
  <2>2. CASE told' = told
    BY <2>1, <2>2 DEF AboveIsUntold, SinceIsUntold, ReportedOnce, Known
  <2>3. CASE told' = told \union (Mails(inbox[a]) \ news) /\ ~Followed(a)
    <3>1. newest[a] = NULL /\ (snapshot # NULL => snapshot.account # a)
      BY <2>3 DEF Followed
    <3>2. \A b \in Accounts : b # a => \A c \in inbox[b] : c.mail \notin Mails(inbox[a])
      BY DEF OnePlace, Mine, Mails
    <3>3. snapshot # NULL => \A c \in snapshot.copies : c.mail \notin Mails(inbox[a])
      <4> SUFFICES ASSUME snapshot # NULL, NEW c \in snapshot.copies,
                          c.mail \in Mails(inbox[a])
                   PROVE  FALSE
        OBVIOUS
      <4>1. PICK y \in Mine(snapshot.account) : y.id = c.mail.id
        BY DEF OfTheOneAsked, Had
      <4>2. c.mail \in Mine(a)
        BY DEF Mine
      <4> QED
        BY <3>1, <4>1, <4>2, Copies DEF OnePlace
    <3>4. AboveIsUntold'
      BY <2>1, <2>3, <3>1, <3>2, <3>3 DEF AboveIsUntold, Known
    <3>5. SinceIsUntold'
      BY <2>1, <2>3, <3>1, <3>2, Copies DEF SinceIsUntold
    <3> QED
      BY <2>1, <2>3, <3>4, <3>5 DEF ReportedOnce
  <2> QED
    BY <1>5, <2>2, <2>3 DEF Connect
<1>6. ASSUME NEW a \in Accounts, Fetch(a)
      PROVE  AboveIsUntold' /\ SinceIsUntold' /\ ReportedOnce'
  <2>1. /\ snapshot'.account = a /\ snapshot'.copies = inbox[a]
        /\ snapshot'.validity = validity[a] /\ UNCHANGED <<inbox, validity, newest, news, told>>
    BY <1>6 DEF Fetch
  <2> QED
    BY <2>1 DEF AboveIsUntold, SinceIsUntold, ReportedOnce, Known
<1>7. CASE StartRound
  <2>1. /\ snapshot' = NULL /\ UNCHANGED <<inbox, validity, news, told>>
        /\ \A b \in Accounts : newest'[b] = newest[b] \/ newest'[b] = NULL
    BY <1>7 DEF StartRound, Retained
  <2> QED
    BY <2>1 DEF AboveIsUntold, SinceIsUntold, ReportedOnce
<1>8. CASE Report
  <2> DEFINE a == snapshot.account
  <2>1. /\ snapshot # NULL /\ snapshot' = NULL /\ UNCHANGED <<inbox, validity>>
        /\ newest' = [newest EXCEPT ![a] = [validity |-> snapshot.validity, uid |-> Newest(a)]]
        /\ news' = Arrived(a) \ Noted(Arrived(a))
        /\ told' = told \union news \union (IF Known(a) THEN {} ELSE Mails(snapshot.copies))
    BY <1>8 DEF Report
  <2>2. a \in Accounts
    BY <2>1, Copies
  <2>3. /\ newest'[a] = [validity |-> snapshot.validity, uid |-> Newest(a)]
        /\ \A b \in Accounts : b # a => newest'[b] = newest[b]
    BY <2>1, <2>2 DEF TypeOK
  <2>4. news' \union told' \subseteq news \union told \union Mails(snapshot.copies)
    BY <2>1 DEF Arrived, Mails
  <2>5. ReportedOnce'
    <3>1. CASE Known(a)
      BY <2>1, <3>1 DEF ReportedOnce, AboveIsUntold, Arrived, Mails
    <3>2. CASE ~Known(a)
      BY <2>1, <3>2 DEF ReportedOnce, Arrived
    <3> QED
      BY <3>1, <3>2
  <2>6. ASSUME NEW b \in Accounts, b # a, NEW c \in inbox[b]
        PROVE  c.mail \notin Mails(snapshot.copies)
    <3> SUFFICES ASSUME NEW d \in snapshot.copies, d.mail = c.mail
                 PROVE  FALSE
      BY DEF Mails
    <3>1. PICK y \in Mine(a) : y.id = c.mail.id
      BY <2>1 DEF OfTheOneAsked, Had
    <3>2. c.mail \in Mine(b)
      BY DEF Mine, Mails
    <3> QED
      BY <2>2, <2>6, <3>1, <3>2 DEF OnePlace
  <2>7. ASSUME NEW c \in inbox[a], snapshot.validity = validity[a], c.uid > Newest(a)
        PROVE  c.mail \notin news' \union told'
    <3>1. c \notin snapshot.copies
      <4>1. c.uid \in Nat /\ Newest(a) \in 0..MaxUid
        BY <2>1, <2>2, Copies, NewestType
      <4>2. c.uid \in Nat /\ Newest(a) \in Nat
        BY <4>1, BoundsAssumption
      <4> QED
        BY <2>1, <2>7, <4>2, NewestType
    <3>2. c.mail \notin news \union told
      BY <2>1, <2>7, <3>1 DEF SinceIsUntold
    <3>3. c.mail \notin Mails(snapshot.copies)
      BY <2>1, <2>7, <3>1 DEF NumberedOnce, Mails
    <3> QED
      BY <2>4, <3>2, <3>3
  <2>8. ASSUME NEW b \in Accounts, newest'[b] # NULL, newest'[b].validity = validity[b],
               NEW c \in inbox[b], c.uid > newest'[b].uid
        PROVE  c.mail \notin news' \union told'
    <3>1. CASE b = a
      BY <2>3, <2>7, <2>8, <3>1
    <3>2. CASE b # a
      <4>1. c.mail \notin news \union told
        BY <2>3, <2>8, <3>2 DEF AboveIsUntold
      <4> QED
        BY <2>4, <2>6, <3>2, <4>1
    <3> QED
      BY <3>1, <3>2
  <2>9. AboveIsUntold' /\ SinceIsUntold'
    BY <2>1, <2>8 DEF AboveIsUntold, SinceIsUntold
  <2> QED
    BY <2>5, <2>9
<1> QED
  BY <1>1, <1>2, <1>3, <1>4, <1>5, <1>6, <1>7, <1>8, WatchSteps

\* A step keeps what waits to be met noted, and no news.
LEMMA SettledStep ==
    ASSUME IInv, [Next]_vars
    PROVE  SettledIsNoted' /\ RestoredIsNotNews'
<1> USE DEF IInv, mailboxes, watcher, putBack, reports
<1>1. ASSUME UNCHANGED <<restored, settled, news>>
      PROVE  SettledIsNoted' /\ RestoredIsNotNews'
  BY <1>1 DEF SettledIsNoted, RestoredIsNotNews
<1>2. ASSUME NEW x \in restoring, NoteRestored(x)
      PROVE  SettledIsNoted' /\ RestoredIsNotNews'
  BY <1>2 DEF NoteRestored, SettledIsNoted, RestoredIsNotNews
<1>3. ASSUME NEW m \in Messages, WindowEnds(m)
      PROVE  SettledIsNoted' /\ RestoredIsNotNews'
  BY <1>3 DEF WindowEnds, SettledIsNoted, RestoredIsNotNews
<1>4. CASE Report
  BY <1>4 DEF Report, Forget, Noted, SettledIsNoted, RestoredIsNotNews
<1>5. ASSUME NEW a \in Accounts,
             \/ \E m \in Messages : Deliver(a, m)
             \/ \E c \in inbox[a] : MoveOut(a, c)
             \/ \E x \in away[a] : Restore(a, x)
             \/ \E from \in 0..MaxUid : Renumber(a, from)
      PROVE  SettledIsNoted' /\ RestoredIsNotNews'
  BY <1>1, <1>5 DEF Deliver, MoveOut, Restore, Renumber
<1>6. ASSUME NEW a \in Accounts,
             \/ Remove(a) \/ PauseEnds(a) \/ \E p \in Passwords : Connect(a, p)
             \/ LeaveAlone(a) \/ Fetch(a) \/ Refuse(a) \/ FetchFails(a)
      PROVE  SettledIsNoted' /\ RestoredIsNotNews'
  BY <1>1, <1>6 DEF Remove, PauseEnds, Connect, LeaveAlone, Fetch, Refuse, FetchFails
<1>7. ASSUME \/ \E x \in restoring : RestoreFails(x)
             \/ StartRound \/ UNCHANGED vars
      PROVE  SettledIsNoted' /\ RestoredIsNotNews'
  BY <1>1, <1>7 DEF RestoreFails, StartRound, vars
<1> QED
  BY <1>2, <1>3, <1>4, <1>5, <1>6, <1>7 DEF Next, Watching

-----------------------------------------------------------------------------
(* The theorems *)

LEMMA IInvInit == Init => IInv
<1> SUFFICES ASSUME Init PROVE IInv
  OBVIOUS
<1>1. TypeOK /\ Finite
  BY TypeInit
<1>2. \A a \in Accounts : \A c, d \in inbox[a] : c = d
  BY DEF Init
<1>3. \A a \in Accounts : Mine(a) = Mails(inbox[a])
  BY DEF Init, Mine
<1>4. \A a \in Accounts : \A c \in inbox[a] : c.mail.back = 0
  BY DEF Init
<1>5. OnePlace
  <2>1. ASSUME NEW a \in Accounts, NEW b \in Accounts, NEW x \in Mine(a), NEW y \in Mine(b),
               x.id = y.id
        PROVE  a = b /\ x = y
    <3>1. x = y
      <4>1. x \in Mail /\ y \in Mail /\ x.back = 0 /\ y.back = 0
        BY <1>1, <1>3, <1>4, Copies DEF Mails
      <4> QED
        BY <2>1, <4>1 DEF Mail
    <3>2. a = b
      BY <1>3, <3>1 DEF Init
    <3> QED
      BY <3>1, <3>2
  <2> QED
    BY <1>2, <2>1 DEF OnePlace, Init
<1>6. OfSomeone
  <2>1. ASSUME NEW a \in Accounts, NEW x \in Mails(inbox[a])
        PROVE  Had(a, x)
    BY <1>1, <1>3, Copies DEF Had, Mails
  <2> QED
    BY <2>1 DEF OfSomeone, Init
<1>7. \A a \in Accounts : newest[a] = NULL
  BY DEF Init, Nowhere
<1>8. OfTheOneAsked /\ NumberedOnce /\ AboveIsUntold /\ SinceIsUntold
  BY <1>7 DEF Init, OfTheOneAsked, NumberedOnce, AboveIsUntold, SinceIsUntold
<1>9. ReportedOnce /\ SettledIsNoted /\ RestoredIsNotNews
  BY DEF Init, ReportedOnce, SettledIsNoted, RestoredIsNotNews
<1> QED
  BY <1>1, <1>5, <1>6, <1>8, <1>9 DEF IInv

\* Every step keeps the invariant.
LEMMA IInvStep == IInv /\ [Next]_vars => IInv'
<1> SUFFICES ASSUME IInv, [Next]_vars PROVE IInv'
  OBVIOUS
<1>1. TypeOK' /\ Finite'
  BY TypeStep DEF IInv
<1>2. OnePlace'
  BY OnePlaceStep DEF IInv
<1> QED
  BY <1>1, <1>2, SpokenStep, NumberedStep, UntoldStep, SettledStep DEF IInv

\* What each mailbox's last check saw, the mail put back and the reports stand
\* together over checks, renumberings and mailboxes opened again (watcher.rs).
THEOREM Invariant == Spec => []IInv
BY IInvInit, IInvStep, PTL DEF Spec

\* The state of the watch, of the mailboxes and of the mail put back stays of
\* its types, whatever is delivered, renumbered, opened, removed or refused.
THEOREM WellTyped == Spec => []TypeOK
<1>1. IInv => TypeOK
  BY DEF IInv
<1> QED
  BY <1>1, Invariant, PTL

\* The watch reports a message once, and never one that was in its mailbox when
\* that was opened (watcher.rs, check).
THEOREM ReportsOnce == Spec => []ReportedOnce
<1>1. IInv => ReportedOnce
  BY DEF IInv
<1> QED
  BY <1>1, Invariant, PTL

\* Mail that its user put back is not announced as new by the next check that
\* meets it (watcher.rs, without_restored; commands.rs, restore_email).
THEOREM RestoredIsKnown == Spec => []RestoredIsNotNews
<1>1. IInv => RestoredIsNotNews
  BY DEF IInv
<1> QED
  BY <1>1, Invariant, PTL
=============================================================================
